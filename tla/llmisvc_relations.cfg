SPECIFICATION FairSpec
CONSTANTS
  Certs = {c1, c2, c3}
  NoCert = NoCert
  Faults = {"depend", "leader", "relation", "config", "api"}
PROPERTIES KeepsContract Withdraws
