SPECIFICATION Spec
CONSTANTS
  d1 = d1
  d2 = d2
  j1 = j1
  j2 = j2
  h1 = h1
  h2 = h2
  NoJob = NoJob
  Device <- MCDevice
  Job <- MCJob
  Handling <- MCHandling
  JobOf <- MCJobOf
  DevicesOf <- MCDevicesOf
  TasksOn <- MCTasksOn
  MaxCleanups = 0
  MaxFailures = 0
  MaxInstances = 2
INVARIANT NoCascade
