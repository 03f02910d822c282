--------------------------- MODULE MCSlidingSync ---------------------------
(* Instances of SlidingSync: a list of both rooms that shows one or both,  *)
(* and requests that leave a room out.                                     *)
EXTENDS SlidingSync, TLC

CONSTANTS r1, r2

\* A list of both rooms, and subscriptions.
Show(window, limit) == [all |-> {r1, r2}, window |-> window, limit |-> limit, listed |-> TRUE]
Subscribe(rooms, limit) == [all |-> rooms, window |-> rooms, limit |-> limit, listed |-> TRUE]
Lists == {Show({r1, r2}, 1), Show({r1}, 2)}
\* The first leaves r2 out of its window, the second leaves r1 out altogether.
Dropped == {Show({r1}, 2), Subscribe({r2}, 1)}
Subscriptions == {Subscribe({r1, r2}, 1), Subscribe({r1}, 1)}
NoLists == Lists \cup {[all |-> {}, window |-> {}, limit |-> 1, listed |-> FALSE]}
Item(s, r, k) == [stream |-> s, room |-> r, kind |-> k]
Messages == {Item("rooms", r, "message") : r \in {r1, r2}}
News == Messages \cup {Item("receipts", r2, "message"), Item("rooms", r2, "leave")}
Symmetry == Permutations(Slots)
=============================================================================
