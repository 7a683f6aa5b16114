SPECIFICATION Spec
CONSTANTS
  Tokens = {t1, t2}
  NoToken = NoToken
  Configs <- SourcesAndRefused
  Offered = {"kserve-llmisvc", "s3-credentials", "keda", "prometheus-api"}
  Faults = {"api", "crash", "secret", "config", "depend", "llmisvc", "capacity"}
SYMMETRY Symmetry
INVARIANTS TypeOK SecretsInPlace
