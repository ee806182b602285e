SPECIFICATION FairSpec
CONSTANTS
  d1 = d1
  d2 = d2
  o1 = o1
  ObjCore = {o1}
  Digest = {d1, d2}
  Headers <- MCHeaders
  Keys <- MCKeys
  TTL = {1}
  GRACE = {0}
  MaxTime = 0
  MaxPurges = 0
  MaxVcls = 1
  MaxDiscards = 1
PROPERTY DiscardReturns
CHECK_DEADLOCK FALSE
