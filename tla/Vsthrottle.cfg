SPECIFICATION Spec
CONSTANTS
  k1 = k1
  k2 = k2
  part = part
  Key = {k1, k2}
  Limit <- MCLimit
  Period <- MCPeriod
  Block <- MCBlock
  Partition = {part}
  PartOf <- MCPartOf
  GC_INTVL = 2
  Calls <- MCCalls
  MaxTime = 5
  MaxVcls = 2
INVARIANTS TypeOK Conforms BlockKept
PROPERTY IdleNotDenied
