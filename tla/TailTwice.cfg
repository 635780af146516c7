CONSTANTS
  N = 2
  Sector <- MCSector
  Tickers <- TwoTickers
  Prices = {1000}
  Policies <- OnlyCore80
  FirstPolicy <- Core80
  RebalanceDays = {}
  Views <- AlwaysLong
  Weight = 50
  Tilts = {100}
  Rosters = {TRUE}
  CampaignDays = 1
  Unquoted = {}
  TicksAtClose = FALSE
  MayFail = FALSE
  MaxDay = 2
  MaxTicks = 2
  MaxCommands = 1
SPECIFICATION Spec
INVARIANTS TailClosesOnce
