SPECIFICATION Spec
CONSTANTS
  k1 = k1
  k2 = k2
  part = part
  Key = {k1, k2}
  Limit <- MCLimit
  Period <- MCPeriod
  Block <- MCBlock
  Partition = {part}
  PartOf <- MCPartOf
  GC_INTVL = 1000
  Calls <- MCCalls
  MaxTime = 4
  MaxVcls = 1
INVARIANT ConformsAlways
