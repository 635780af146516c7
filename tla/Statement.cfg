CONSTANTS
  Clients = {"c1"}
  Ids = {"ips-a-core100", "test"}
  Terms = {"monthly", "quarterly"}
  IdA = "ips-a-core100"
  TermsA = "monthly"
  PreferId = None
  FrozenAt <- NoneFrozen
  None = None
  MayFail = FALSE
  MayTear = TRUE
  MaxPuts = 4
  MaxCrashes = 2
  MaxFreezes = 1
SPECIFICATION FairSpec
INVARIANTS AckedPutSurvives
PROPERTIES KeepsPromise
CHECK_DEADLOCK FALSE
