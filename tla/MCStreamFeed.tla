--------------------------- MODULE MCStreamFeed ----------------------------
(* Model checking the feed of one stream on small instances.               *)
EXTENDS StreamFeed

CONSTANTS e1, e2

Read(e) == [entity |-> e, legible |-> TRUE]
Unread(e) == [entity |-> e, legible |-> FALSE]

\* A batch with a row nobody can read, and a batch over MaxPending, whose last row
\* is read alone after the overflow.
MCTransactions == {<<Unread(e1), Read(e2)>>, <<Read(e1), Read(e1), Read(e1)>>}

\* Rows alone, for the runs that look for one interleaving.
MCSingles == {<<Read(e1)>>, <<Read(e2)>>}
=============================================================================
