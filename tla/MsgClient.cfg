SPECIFICATION Spec
CONSTANTS
  Users = {u1, u2}
  Workers = {w1, w2}
  Conns = {c1, c2, c3}
  Recs = {r1, r2}
  Ssls = {s1}
  TimerIds = {i1, i2, i3}
  NULL = NULL
  Redlines = {0}
  W = 2
SYMMETRY PoolSymmetry
INVARIANTS
  OneOwner
  FieldsTogether
  RefsExact
  DestroyedClean
  SslOutlived
PROPERTIES
  ImplementsLife
