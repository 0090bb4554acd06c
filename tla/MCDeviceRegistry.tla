-------------------------- MODULE MCDeviceRegistry --------------------------
(* Small instances of DeviceRegistry for TLC.                              *)
EXTENDS DeviceRegistry, TLC

CONSTANTS u1, u2, phone, tablet, t1, t2, q1, q2

RegistrySymmetry == Permutations(Requests) \cup Permutations(Tokens)
=============================================================================
