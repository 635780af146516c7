CONSTANTS
  Clients = {"c1", "c2"}
  Ids = {"ips-a-core100", "test"}
  Terms = {"monthly", "quarterly"}
  IdA = "ips-a-core100"
  TermsA = "monthly"
  PreferId = None
  FrozenAt <- NoneFrozen
  None = None
  MayFail = FALSE
  MayTear = FALSE
  MaxPuts = 2
  MaxCrashes = 0
  MaxFreezes = 0
SPECIFICATION Spec
INVARIANTS BookUnderBound
CHECK_DEADLOCK FALSE
