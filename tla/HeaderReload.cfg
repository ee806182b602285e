SPECIFICATION Spec
CONSTANTS
  Thread = {t1, t2}
  Vcl = {v1, v2}
  NULL = NULL
  MaxLoads = 1
CHECK_DEADLOCK FALSE
INVARIANT OneRegex
