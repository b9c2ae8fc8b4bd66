SPECIFICATION FairSpec
CONSTANTS
  d1 = d1
  d2 = d2
  g1 = g1
  g2 = g2
  NoGroup = NoGroup
  Device <- MCDevice
  GroupId <- MCGroupId
  Jobs <- MCJobs
  Request = {1, 2, 3}
  Payload <- MCPayload
  Supported = {"ping"}
  Stored = {"dhcp"}
  Broken = "broken"
  Threads = 2
INVARIANTS
  TypeOK
  OnlyOrphansIntrude
  OnlyTimeoutsLeak
  SuccessIsComplete
PROPERTY EveryRequestAnswered
