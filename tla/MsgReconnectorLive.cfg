SPECIFICATION FairSpec
CONSTANTS
  TimerIds = {i1, i2}
  NoTimer = NoTimer
  IntervalInSeconds = 1
  TicksPerSecond = 2
  MaxTick = 5
PROPERTIES
  RequestServed
