CONSTANTS
  Strategies = {"momentum_1d", "swing_daily"}
  Shipped = {"momentum_1d", "swing_daily"}
  Method <- MCMethod
  Regimes = {"chop"}
  Policies = {"ips-b-core80"}
  MinN = 2
  Parts = 4
  ReviewEvery = 1
  Rosters <- MCRosters
  None = None
  Cut = Cut
  Bad = Bad
  JournalCap = 1
  MaxDay = 1
  MaxTrades = 2
  MaxPeriods = 1
  MaxFaults = 1
  MaxReviews = 1
SPECIFICATION FairSpec
INVARIANTS MemoryIsFile BackupHoldsLedger JournalHoldsLedger
PROPERTIES LossNeedsEvidence LosersNeverGain DueIsReviewed
CHECK_DEADLOCK FALSE
