--------------------------- MODULE MCDerivedCache ---------------------------
(* Model checking a guarded cache on small instances.                      *)
EXTENDS DerivedCache

CONSTANTS k1, k2

Names(k) == [key |-> k, names |-> TRUE]
StateAll(k) == [key |-> k, names |-> FALSE]

MCNamed == {<<Names(k1)>>, <<Names(k2), Names(k1)>>}
MCSingles == {<<Names(k1)>>, <<Names(k2)>>}
MCStateAll == {<<StateAll(k1)>>, <<Names(k2)>>}
=============================================================================
