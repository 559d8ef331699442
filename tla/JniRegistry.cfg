SPECIFICATION Spec
CONSTANTS
  Javas = {j1, j2, j3}
  Workers = {w1, w2}
  Objs = {x1, x2}
  Reactors = {r1, r2}
  Users = {}
  MaxUsers = 0
  IdLimit = 4
  NULL = NULL
SYMMETRY PoolSymmetry
INVARIANTS
  TypeOK
  RegistrySound
  OneOwner
  RefsExact
  ReactorOutlives
PROPERTIES
  ImplementsObjects
