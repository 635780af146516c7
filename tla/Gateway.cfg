CONSTANTS
  Burst = 8
  Rate = 4
  PollEvery = 1
  MaxIdle = 2
  MaxChanges = 1
  MaxPresses = 1
  MaxStops = 1
SPECIFICATION FairSpec
INVARIANTS PaintedWasTrue BurstBounded
PROPERTIES PageCatchesUp
