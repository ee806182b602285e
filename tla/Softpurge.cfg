SPECIFICATION FairSpec
CONSTANTS
  ObjCore = {o1, o2}
  Req = {r1, r2}
  TTL = {0, 1}
  GRACE = {1}
  Space = {1, 2}
  NULL = NULL
  MaxTime = 1
INVARIANTS TypeOK RefsExact DuePurged
PROPERTIES StaleStays DyingFreed
