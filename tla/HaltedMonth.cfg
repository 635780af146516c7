CONSTANTS
  N = 2
  Sector <- MCSector
  Tickers <- OneTicker
  Prices = {500, 1000}
  Policies <- OnlyCore80
  FirstPolicy <- Core80
  RebalanceDays = {2}
  Views <- AlwaysLong
  Weight = 50
  Tilts = {100}
  Rosters = {TRUE}
  CampaignDays = 9
  Unquoted = {}
  TicksAtClose = FALSE
  MayFail = FALSE
  MaxDay = 2
  MaxTicks = 2
  MaxCommands = 1
SPECIFICATION Spec
INVARIANTS OnePeriodPerSession
