SPECIFICATION FairSpec
CONSTANTS
  Javas = {j1, j2}
  Workers = {w1}
  Objs = {x1, x2}
  Reactors = {r1}
  Users <- MCUsers
  MaxUsers = 2
  IdLimit = 4
  NULL = NULL
INVARIANTS
  UsersAsGiven
PROPERTIES
  Reclaimed
