------------------------ MODULE MCStreamChangeCache ------------------------
(* Model checking one stream-change cache on a small instance.             *)
EXTENDS StreamChangeCache, TLC

Symmetry == Permutations(Entities)
=============================================================================
