--------------------------- MODULE MCDeviceLimit ----------------------------
(***************************************************************************)
(* Small instances of DeviceLimit for TLC: names for clients and devices.  *)
(***************************************************************************)
EXTENDS DeviceLimit

CONSTANTS a, b, i1, i2, nobody
=============================================================================
