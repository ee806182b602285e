SPECIFICATION MCSpec
CONSTANTS
  Atom = {"a", "b"}
  Value = {"1", "2"}
  CookieHeader <- MCCookieHeader
  VarName = {"v", "w"}
  Text = {s1}
  IntValue <- MCIntValue
  Backend = {be1}
  INT_MAX = 7
  HeaderName = {"X", "Y"}
  Content = {"", "1"}
  MAX_HDR = 3
  Received <- MCReceived
  NULL = NULL
  MaxWs = 7
  Thread = {t1, t2}
  GlobalName = {n1}
  Str = {g1}
  Cell = {c1, c2, c3}
  Var = {v1}
  WsSize = 1
  HEAP = HEAP
  NIL = NIL
CHECK_DEADLOCK FALSE
INVARIANTS Accounted RoundTrip ParseReads GetsLast RemoveExact CopyExact GlobalReads
PROPERTY CopyEnds
