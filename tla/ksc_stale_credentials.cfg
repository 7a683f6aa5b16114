SPECIFICATION FairSpec
CONSTANTS
  Certs = {c1}
  NoCert = NoCert
  Given = {"gateway-metadata", "secrets"}
  Offered = {"s3-credentials"}
  Fickle = {"s3-credentials"}
  Modes = {"standard"}
  Faults = {}
PROPERTIES ClearsCredentials
