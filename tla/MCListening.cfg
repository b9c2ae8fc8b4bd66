SPECIFICATION FairSpec
CONSTANTS
  m1 = m1
  m2 = m2
  Message <- OneMessage
  MaxLosses = 0
  MaxRestarts = 0
  AllowShutdown = FALSE
  AllowConnectFailure = TRUE
  MaxRetries = 2
  MaxFaults = 0
  AllowInitFailure = FALSE
PROPERTY PicksUpJobs
