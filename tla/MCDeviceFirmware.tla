--------------------------- MODULE MCDeviceFirmware ---------------------------
(* DeviceFirmware on a clock of a few ticks, in all its builds.                  *)
EXTENDS DeviceFirmware

CONSTANTS m1, m2

AllBuilds == Thermometers \cup Relays \cup {"motion_relay", "universal_device"}

AllIds == [b \in AllBuilds |-> IF b = "relay" THEN {m1, m2} ELSE {m1}]
==============================================================================
