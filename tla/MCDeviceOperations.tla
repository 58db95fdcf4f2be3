------------------------- MODULE MCDeviceOperations -------------------------
(* Small instances of DeviceOperations for TLC.                            *)
EXTENDS DeviceOperations

CONSTANTS c1, c2

CallerSymmetry == Permutations(Callers)
=============================================================================
