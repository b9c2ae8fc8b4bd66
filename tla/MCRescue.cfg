SPECIFICATION Spec
CONSTANTS
  d1 = d1
  d2 = d2
  d3 = d3
  g1 = g1
  g2 = g2
  lost = lost
  NoGroup = NoGroup
  Device <- MCDevice
  GroupId <- MCGroupId
  MaxParallel = 2
  Jobs <- MCJobs
INVARIANT RescueWhenGroupFails
