---------------------------- MODULE MCDeviceTask ----------------------------
(* Instances of DeviceTask for TLC. *)
EXTENDS DeviceTask, TLC

CallSymmetry == Permutations(Requests)

=============================================================================
