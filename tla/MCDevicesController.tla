------------------------- MODULE MCDevicesController -------------------------
(* DevicesController on a few threads and devices. *)
EXTENDS DevicesController, TLC

Symmetry == Permutations(Threads) \cup Permutations(Devices)
=============================================================================
