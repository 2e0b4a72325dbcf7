---------------------------- MODULE MCDeviceAccess ----------------------------
(* Small instances of DeviceAccess.                                          *)
EXTENDS DeviceAccess, TLC

CONSTANTS a1, a2, n1, n2, p1, p2

Symmetric == Permutations({a1, a2}) \cup Permutations({n1, n2})
================================================================================
