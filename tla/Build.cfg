CONSTANTS
  N = 12
  Sector <- LargeCaps
  Tickers <- OneTicker
  Prices = {1000}
  Policies <- OnlyCore100
  FirstPolicy <- Core100
  RebalanceDays = {}
  Views <- AlwaysFlat
  Weight = 50
  Tilts = {100}
  Rosters = {TRUE, FALSE}
  CampaignDays = 30
  Unquoted = {}
  TicksAtClose = FALSE
  MayFail = FALSE
  MaxDay = 15
  MaxTicks = 1
  MaxCommands = 1
SPECIFICATION FairSpec
PROPERTIES CoreGetsBuilt
