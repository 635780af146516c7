CONSTANTS
  MonthDays = 10
  QuarterMonths = 2
  Ahead = 24
  Index = "NIFTY50"
  Equity = {"TCS"}
  Start = 7
  Days = 15
  Tapes <- MCTapes
  Picks = {{}, {"swing_daily"}}
  Specs <- MCSpecs
  Codes = {1, 2}
  Halts <- MCHalts
  Finishes <- MCFinishes
  None = None
  Cut = Cut
  MaxEdits = 2
SPECIFICATION Spec
INVARIANTS VerifiedMeansSame NoLookAhead RebalancesOnTime CheckedMeansReproducible
PROPERTIES ForecastKept
CHECK_DEADLOCK FALSE
