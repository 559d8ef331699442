SPECIFICATION Spec
CONSTANTS
  Users = {u1, u2}
  Workers = {w1, w2}
  Conns = {c1, c2}
  Recs = {r1, r2}
  Ssls = {}
  TimerIds = {i1, i2}
  NULL = NULL
  Redlines = {0}
  W = 2
  Observers = {o1, o2}
SYMMETRY PoolSymmetry
INVARIANT
  InitAssertions
