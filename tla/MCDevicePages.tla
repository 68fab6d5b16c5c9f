---------------------------- MODULE MCDevicePages ----------------------------
(* Small instances of DevicePages.                                         *)
EXTENDS DevicePages

CONSTANTS d1, i1, i2

=============================================================================
