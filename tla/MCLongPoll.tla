----------------------------- MODULE MCLongPoll ----------------------------
(* Model checking one client's long poll on a small instance.              *)
EXTENDS LongPoll, TLC

Symmetry == Permutations(Rooms)
=============================================================================
