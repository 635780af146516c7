CONSTANTS
  N = 2
  Sector <- MCSector
  Tickers <- OneTicker
  Prices = {500, 1000}
  Policies <- OnlyCore95
  FirstPolicy <- Core95
  RebalanceDays = {5}
  Views <- LongOrFlat
  Weight = 50
  Tilts = {75}
  Rosters = {TRUE}
  CampaignDays = 9
  Unquoted = {}
  TicksAtClose = TRUE
  MayFail = FALSE
  MaxDay = 5
  MaxTicks = 1
  MaxCommands = 1
SPECIFICATION Spec
INVARIANTS TypeOK LedgerReconciles
PROPERTIES HaltStopsBuys SatelliteWithinSlice KeepsAccount CompleteMeansInBand
