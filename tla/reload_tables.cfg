SPECIFICATION Spec
CONSTANTS
  c1 = c1
  c2 = c2
  d1 = d1
  d2 = d2
  d3 = d3
  d4 = d4
  g1 = g1
  g2 = g2
  NoDb = NoDb
  NoConfig = NoConfig
  Clients = {c1}
  Dbs = {d1, d2}
  Configs = {g1}
CHECK_DEADLOCK FALSE
INVARIANTS
  SelectsHaveCallbacks
