-------------------------- MODULE MCToDeviceInbox --------------------------
(* Instances of ToDeviceInbox.                                              *)
EXTENDS ToDeviceInbox, TLC

Symmetry == Permutations(Slots)
=============================================================================
