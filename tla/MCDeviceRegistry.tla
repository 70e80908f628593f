-------------------------- MODULE MCDeviceRegistry --------------------------
(* Two devices; the heartbeats and the devices are interchangeable. *)
EXTENDS DeviceRegistry, TLC

RegistrySymmetry == Permutations(DeviceIds) \cup Permutations(Beats)
=============================================================================
