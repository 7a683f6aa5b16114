SPECIFICATION FairSpec
CONSTANTS
  Tokens = {t1}
  NoToken = NoToken
  Configs <- Gated
  Offered = {"kserve-llmisvc", "s3-credentials", "keda", "prometheus-api"}
  Faults = {"teardown"}
PROPERTIES RemovalIsRobust
CHECK_DEADLOCK FALSE
