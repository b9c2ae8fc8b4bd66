SPECIFICATION FairSpec
CONSTANTS
  m1 = m1
  m2 = m2
  Message <- MCMessage
  MaxLosses = 1
  MaxRestarts = 1
  AllowShutdown = TRUE
  AllowConnectFailure = TRUE
  MaxRetries = 2
  MaxFaults = 2
  AllowInitFailure = TRUE
INVARIANTS
  TypeOK
  NoMessageLost
  AckedMeansReported
  BoundedRegrading
  OneAtATime
  OwnJobState
PROPERTY EventuallySettled
