-------------------------- MODULE MCDeviceControl ---------------------------
(* Instances of DeviceControl for TLC.                                     *)
EXTENDS DeviceControl
CONSTANTS g1, g2

(* Every device prefers the second gateway, which is not the default.      *)
PreferSecond == [d \in Devices |-> g2]

=============================================================================
