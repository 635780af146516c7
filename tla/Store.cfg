CONSTANTS
  Clients = {"c1", "c2"}
  Ids = {"ips-a-core100", "c-1", "test"}
  Terms = {"monthly", "quarterly"}
  IdA = "ips-a-core100"
  TermsA = "monthly"
  PreferId = "test"
  FrozenAt <- SomeFrozen
  None = None
  MayFail = TRUE
  MayTear = FALSE
  MaxPuts = 3
  MaxCrashes = 2
  MaxFreezes = 0
SPECIFICATION Spec
INVARIANTS FrozenKept PointerNamesFile
CHECK_DEADLOCK FALSE
