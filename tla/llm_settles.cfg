SPECIFICATION FairSpec
CONSTANTS
  Tokens = {t1, t2}
  NoToken = NoToken
  Configs <- Extremes
  Offered = {"kserve-llmisvc", "keda", "prometheus-api"}
  Faults = {"secret", "config", "scalers", "workload", "load"}
PROPERTIES KeepsReplicas Deploys Scales FailureShows
