SPECIFICATION Spec
CONSTANTS
  Certs = {c1, c2, c3, c4, c5}
  NoCert = NoCert
  Faults = {"api", "pebble", "container", "pod", "unready", "teardown", "timeout"}
SYMMETRY Symmetry
INVARIANTS TypeOK ActiveIsTrusted NothingStuck
PROPERTIES BaseOutlivesCrd
CHECK_DEADLOCK FALSE
