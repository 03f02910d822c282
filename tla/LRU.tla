--------------------------------- MODULE LRU ---------------------------------
(***************************************************************************)
(* internal/lru: a bounded map that evicts its least recently used entry,  *)
(* and that can be disarmed. A cache is a record:                          *)
(*   order     the entries, the most recently used first (the Go map       *)
(*             `items` is an index of it)                                  *)
(*   disarmed                                                              *)
(* Each operator is one method, one critical section of c.mu.              *)
(***************************************************************************)
EXTENDS Integers, Sequences, SequencesExt

CONSTANT MaxEntries  \* Cache.max; <= 0 makes a cache that holds nothing

ASSUME MaxEntriesAssumption == MaxEntries \in Int

Entry(k, v) == [key |-> k, value |-> v]

Empty == [order |-> <<>>, disarmed |-> FALSE]

\* The index: whether it has the key, and the element it points to.
Holds(c, k) == \E i \in DOMAIN c.order : c.order[i].key = k
ElementOf(c, k) == CHOOSE i \in DOMAIN c.order : c.order[i].key = k

\* The list less the key's element: what Remove leaves, and what MoveToFront and
\* PushFront put the element in front of.
Without(c, k) == IF Holds(c, k) THEN RemoveAt(c.order, ElementOf(c, k)) ELSE c.order

\* Get, in two parts: whether it finds the key, and what it leaves behind.
Hit(c, k) == MaxEntries > 0 /\ ~c.disarmed /\ Holds(c, k)

ValueOf(c, k) == c.order[ElementOf(c, k)].value

Touched(c, k) ==
  IF Hit(c, k) THEN [c EXCEPT !.order = <<Entry(k, ValueOf(c, k))>> \o Without(c, k)] ELSE c

\* An entry added or updated is the front one; one too many drops the last.
Add(c, k, v) ==
  IF MaxEntries <= 0 \/ c.disarmed THEN c
  ELSE LET all == <<Entry(k, v)>> \o Without(c, k)
       IN [c EXCEPT !.order = IF Len(all) > MaxEntries THEN Front(all) ELSE all]

RemoveKey(c, k) == [c EXCEPT !.order = Without(c, k)]

Purge(c) == [c EXCEPT !.order = <<>>]

\* Mutant: disabling the cache leaves its entries in it.
SetArmedKeeping(c, armed) == [c EXCEPT !.disarmed = ~armed]

SetArmed(c, armed) == [order |-> IF armed THEN c.order ELSE <<>>, disarmed |-> ~armed]
=============================================================================
