SPECIFICATION MCSpec
CONSTANTS
  s1 = s1
  s2 = s2
  b1 = b1
  b2 = b2
  NULL = NULL
  Sm = {s1, s2}
  Be <- OwnBackends
  Threshold <- Thresholds
  Backend = {b1, b2}
  Digest = {d1, d2}
  Task = {t1, t2}
  Expires = {0}
  MaxTime = 1
  MaxTrouble = 2
SYMMETRY Interchangeable
INVARIANTS TypeOK CountExact VerdictJustified
PROPERTY SickAvoided
