CONSTANTS
  Articles = {"early", "late"}
  Mocks = {"mock"}
  Pub <- MCPub
  About <- MCAbout
  Names = {"RELIANCE"}
  Providers <- TwoModels
  None = None
  MaxCalls = 1
  MaxTokens = 3
  Costs = {2}
  MaxWorkers = 1
  DayLen = 2
  MaxTime = 2
  Allowances <- NoFaults
SPECIFICATION Spec
INVARIANTS DayCap
