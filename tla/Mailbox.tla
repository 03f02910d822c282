------------------------------- MODULE Mailbox -------------------------------
(***************************************************************************)
(* What a device's inbox promises it: messages come in the order they were *)
(* put in, each of them once, and none is passed over.                     *)
(***************************************************************************)
EXTENDS Naturals, FiniteSets, Sequences

CONSTANT Ids

VARIABLES
  pending,   \* the messages put in and not yet taken
  taken      \* those taken, in the order they were

vars == <<pending, taken>>

Init == pending = {} /\ taken = <<>>

\* Nothing is put in before what was already taken.
Put(new) ==
  /\ \A i \in DOMAIN taken, m \in new : taken[i] < m
  /\ pending' = pending \cup new
  /\ UNCHANGED taken

\* The oldest n messages are taken.
Take(n) ==
  LET page == {m \in pending : Cardinality({o \in pending : o <= m}) <= n}
  IN /\ pending' = pending \ page
     /\ \E s \in [1 .. Cardinality(page) -> page] :
          /\ \A i, j \in DOMAIN s : i < j => s[i] < s[j]
          /\ taken' = taken \o s

Next ==
  \/ \E new \in SUBSET (Ids \ pending) : Put(new)
  \/ \E n \in 1 .. Cardinality(pending) : Take(n)

Spec == Init /\ [][Next]_vars
=============================================================================
