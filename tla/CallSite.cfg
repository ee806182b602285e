SPECIFICATION FairSpec
CONSTANTS
  Thread = {t1, t2, t3}
  Vcl = {v1}
  NULL = NULL
  MaxLoads = 2
CHECK_DEADLOCK FALSE
INVARIANTS TypeOK OneRegex LossBounded UsesLive
PROPERTY CallsReturn
