-------------------------- MODULE MCDeviceRegistry --------------------------
(* Small instances of DeviceRegistry for TLC. *)
EXTENDS DeviceRegistry, TLC

Symmetry ==
    Permutations(Device) \cup Permutations(WSS) \cup Permutations(QUIC)

=============================================================================
