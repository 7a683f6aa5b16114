SPECIFICATION FairSpec
CONSTANTS
  Certs = {c1, c2, c3, c4, c5}
  NoCert = NoCert
  Faults = {"pebble", "teardown", "timeout"}
PROPERTIES Converges 
CHECK_DEADLOCK FALSE
