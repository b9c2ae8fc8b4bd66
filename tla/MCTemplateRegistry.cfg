SPECIFICATION FairSpec
CONSTANTS
  vlan = vlan
  dhcp = dhcp
  Name <- MCName
  TaskOf <- MCTaskOf
  Job = {1, 2}
  MaxActive = 2
  MaxVersions = 2
  MaxFaults = 1
INVARIANTS
  TypeOK
  OnlyValidTemplates
  PingHasReason
  HealthyIsComplete
PROPERTIES
  TemplatesStay
  JobsEnd
