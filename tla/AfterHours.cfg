CONSTANTS
  N = 2
  Sector <- MCSector
  Tickers <- OneTicker
  Prices = {1000}
  Policies <- OnlyCore80
  FirstPolicy <- Core80
  RebalanceDays = {}
  Views <- AlwaysLong
  Weight = 50
  Tilts = {100}
  Rosters = {TRUE}
  CampaignDays = 9
  Unquoted = {}
  TicksAtClose = FALSE
  MayFail = FALSE
  MaxDay = 2
  MaxTicks = 1
  MaxCommands = 1
SPECIFICATION Spec
PROPERTIES ClosedMeansNoBuys
