SPECIFICATION Spec
CONSTANTS
  d1 = d1
  d2 = d2
  j1 = j1
  j2 = j2
  h1 = h1
  h2 = h2
  NoJob = NoJob
  Device <- MCDevice
  Job <- MCJob
  Handling <- MCHandling
  JobOf <- MCJobOf
  DevicesOf <- MCDevicesOf
  TasksOn <- MCTasksOn
  MaxCleanups = 1
  MaxFailures = 1
  MaxInstances = 3
INVARIANTS
  TypeOK
  NothingLeaks
  CommandKeepsConnection
  SharedCoversJob
  ConnectionsOwned
  DirectoriesTracked
