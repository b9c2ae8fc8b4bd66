SPECIFICATION FairSpec
CONSTANTS
  d1 = d1
  d2 = d2
  d3 = d3
  g1 = g1
  g2 = g2
  lost = lost
  NoGroup = NoGroup
  Device <- MCDevice
  GroupId <- MCGroupId
  MaxParallel = 2
  Jobs <- MCJobs
INVARIANTS
  TypeOK
  DeviceExclusive
  ParallelBound
  SlotsUnique
  SameDeviceOrder
  BatchBarrier
  Accounting
  GroupVerdict
  CleanupBeforeNext
PROPERTIES
  Terminates
  RefinesContract
