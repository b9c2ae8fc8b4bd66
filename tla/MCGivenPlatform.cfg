SPECIFICATION Spec
CONSTANTS
  d1 = d1
  d2 = d2
  NoPlatform = NoPlatform
  Devices <- MCDevices
  Platforms <- MCPlatforms
INVARIANT
  GivenPlatformStays
