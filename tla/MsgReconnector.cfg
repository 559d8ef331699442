SPECIFICATION Spec
CONSTANTS
  TimerIds = {i1, i2, i3}
  NoTimer = NoTimer
  IntervalInSeconds = 0
  TicksPerSecond = 2
  MaxTick = 6
SYMMETRY TimerSymmetry
INVARIANTS
  TypeOK
  ArmedNotLost
  NoOrphanTimer
PROPERTIES
  ImplementsPolicy
