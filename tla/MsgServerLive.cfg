SPECIFICATION FairSpec
CONSTANTS
  Apps = {a1, a2}
  Workers = {w1}
  Servers = {s1, s2}
  Ssls = {l1}
  NULL = NULL
  Redlines = {1, 6}
  W = 4
  p1 = p1
  p2 = p2
  Peers <- MCPeers
  ClassOf <- MCClassOf
  Secret <- MCSecret
  Configs <- MCConfigs
INVARIANTS
  TypeOK
PROPERTIES
  Reclaimed
