SPECIFICATION FairSpec
CONSTANTS
  Certs = {c1}
  NoCert = NoCert
  Given = {"kserve-controller", "secrets", "ingress-gateway"}
  Offered = {"s3-credentials", "local-gateway"}
  Fickle = {"s3-credentials"}
  Modes = {"standard", "knative"}
  Faults = {"config", "teardown", "timeout", "notfound", "container"}
PROPERTIES ServesConfig SharesCredentials Withdraws RemovalCompletes
CHECK_DEADLOCK FALSE
