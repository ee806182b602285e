SPECIFICATION CleanupSpec
CONSTANTS
  ObjCore = {o1, o2}
  Digest = {d1, d2}
  HashHead = {h1, h2, h3}
  OcHead = {p1, p2, p3}
  Oc = {c1, c2, c3, c4}
  POOL_MAX = 5
  NULL = NULL
SYMMETRY Interchangeable
CHECK_DEADLOCK FALSE
INVARIANT CleansUp
