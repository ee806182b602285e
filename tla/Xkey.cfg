SPECIFICATION MCSpec
CONSTANTS
  d1 = d1
  d2 = d2
  o1 = o1
  ObjCore = {o1, o2}
  Digest = {d1, d2}
  Headers <- MCHeaders
  Keys <- MCKeys
  TTL = {1}
  GRACE = {1}
  MaxTime = 2
  MaxPurges = 2
  MaxVcls = 2
  MaxDiscards = 2
CHECK_DEADLOCK FALSE
INVARIANTS TypeOK IndexExact PurgeTouchesLive PurgeComplete SoftCountsObjects
PROPERTIES NeverRevives CallbacksReturn PurgeReturns
