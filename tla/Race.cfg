CONSTANTS
  N = 3
  Sector <- MCSector3
  Tickers <- TwoTickers
  Prices = {500, 1000}
  Policies <- Both
  FirstPolicy <- Unbound
  RebalanceDays = {2}
  Views <- AlwaysLong
  Weight = 50
  Tilts = {75}
  Rosters = {TRUE, FALSE}
  CampaignDays = 1
  Unquoted = {3}
  TicksAtClose = FALSE
  MayFail = TRUE
  MaxDay = 2
  MaxTicks = 2
  MaxCommands = 3
SPECIFICATION Spec
INVARIANTS SleevesReconcile
PROPERTIES TurnoverPerDay
