SPECIFICATION Spec
CONSTANTS
  Certs = {c1, c2}
  NoCert = NoCert
  Given = {"gateway-metadata"}
  Offered = {"object-storage"}
  Fickle = {"object-storage"}
  Modes = {"standard"}
  Faults = {}
PROPERTIES BadDataBlocks
