SPECIFICATION Spec
CONSTANTS
  Javas = {j1, j2}
  Workers = {w1, w2}
  Objs = {x1, x2, x3}
  Posix = TRUE
  NULL = NULL
SYMMETRY PoolSymmetry
INVARIANTS
  TypeOK
  EnvValid
  LeavesDetached
  ListenerGoes
