CONSTANTS
  Equities = {"TCS"}
  Index = "NIFTY50"
  Variants = {"cross", "week", "tilt", "revert", "break2", "moves"}
  Params <- MCParams
  Defaults = {"cross", "week", "tilt"}
  Hold <- MCHold
  Warm = 1
  Year = 3
  MinDays = 6
  MinTrain = 1
  MinOOSTrades = 1
  Tapes <- MCTapes
  Mornings <- MCMornings
  MockTape <- MCMock
  Years = {3}
  Runs = {"seed"}
  Seed = "seed"
  Tool = "lab"
  Slack = 1
  Lag = 1
  Stale = 1
  Scalp = {}
  None = None
  Cut = Cut
  FirstDay = 10
  LastDay = 12
  MaxCrashes = 1
SPECIFICATION LabSpec
INVARIANTS ClosesAreTheExchanges FoldsAreSeenOnce NothingEarnedNothingTrades AdoptedWasSaved
PROPERTIES NoPeeking
CHECK_DEADLOCK FALSE
