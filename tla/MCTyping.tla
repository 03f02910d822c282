------------------------------ MODULE MCTyping ------------------------------
(* Instances of Typing: two rooms, one user who types or not, and a typing   *)
(* worker that restarts.                                                     *)
EXTENDS Typing

Symmetry == Permutations(Rooms)
=============================================================================
