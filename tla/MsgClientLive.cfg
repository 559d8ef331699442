SPECIFICATION FairSpec
CONSTANTS
  Users = {u1, u2}
  Workers = {w1}
  Conns = {c1, c2}
  Recs = {r1}
  Ssls = {s1}
  TimerIds = {i1, i2}
  NULL = NULL
  Redlines = {1, 6}
  W = 4
INVARIANTS
  TypeOK
  RedlineAgrees
PROPERTIES
  Reclaimed
