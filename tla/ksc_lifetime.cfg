SPECIFICATION Spec
CONSTANTS
  Certs = {c1,c2,c3,c4}
  NoCert = NoCert
  Given = {"kserve-controller", "service-mesh"}
  Offered = {"gateway-metadata", "object-storage"}
  Fickle = {"object-storage"}
  Modes = {"standard"}
  Faults = {"api", "pebble", "container", "pod", "unready", "leader", "images", "teardown", "timeout", "notfound"}
SYMMETRY Symmetry
INVARIANTS TypeOK ActiveIsTrusted ReadyMeansInstalled NothingLeft
PROPERTIES RuntimesGoFirst
CHECK_DEADLOCK FALSE
