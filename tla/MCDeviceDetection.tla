------------------------- MODULE MCDeviceDetection -------------------------
(* Two devices: as many as it takes for one's answer, silence or platform to
   meet the other's. *)
EXTENDS DeviceDetection

CONSTANTS d1, d2

MCDevices == <<d1, d2>>
MCPlatforms == {NoPlatform, "", "unknown", "linux", "cisco_ios", "cisco_router", "cisco_switch",
                "cisco_ios_telnet", "linux_telnet", "generic"}
=============================================================================
