CONSTANTS
  MonthDays = 10
  QuarterMonths = 2
  Ahead = 24
  Index = "NIFTY50"
  Equity = {"TCS"}
  Start = 7
  Days = 15
  Tapes <- MonthEndTapes
  Picks = {{}}
  Specs <- MonthEndSpecs
  Codes = {1}
  Halts <- MCHalts
  Finishes <- MCFinishes
  None = None
  Cut = Cut
  MaxEdits = 0
SPECIFICATION Spec
INVARIANT RebalancesOnLastSession
CHECK_DEADLOCK FALSE
