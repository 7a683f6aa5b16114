SPECIFICATION FairSpec
CONSTANTS
  Tokens = {t1}
  NoToken = NoToken
  Configs <- Opposites
  Offered = {"kserve-llmisvc", "s3-credentials", "keda", "prometheus-api"}
  Faults = {"api", "crash", "timeout", "teardown", "config", "keda", "load"}
INVARIANTS OneScaler NothingLeft
PROPERTIES TeardownOrder RemovalCompletes
CHECK_DEADLOCK FALSE
