-------------------------- MODULE ConnectionContract --------------------------
(***************************************************************************)
(* What a sliding sync connection promises its client, whatever is lost,   *)
(* repeated, forked or forgotten on the way: for each feed the connection  *)
(* follows (the events, receipts or account data of one room) it keeps a   *)
(* cursor, the client has been told of everything up to the cursor, and a  *)
(* cursor never goes back. The connection may give up the cursor of a      *)
(* feed, or forget them all; a client may start again from nothing.        *)
(***************************************************************************)
EXTENDS Integers, Sequences

CONSTANTS
  Feeds,
  FeedOf(_), \* the feed of an item
  None       \* no cursor: the feed has not been sent, or that has been forgotten

VARIABLES
  log,     \* log[p]: the item at stream position p
  told,    \* the positions of the items the client was sent, or told it skipped
  cursor   \* per feed, the position up to which it counts as sent

vars == <<log, told, cursor>>

NoCursors == [f \in Feeds |-> None]

Init == log = <<>> /\ told = {} /\ cursor = NoCursors

Items(f, p) == {q \in DOMAIN log : q <= p /\ FeedOf(log[q]) = f}

Publish ==
  /\ Len(log') = Len(log) + 1 /\ SubSeq(log', 1, Len(log)) = log
  /\ FeedOf(log'[Len(log')]) \in Feeds
  /\ UNCHANGED <<told, cursor>>

\* A response with something new reaches the client.
Answer ==
  /\ <<told, cursor>>' # <<told, cursor>> /\ UNCHANGED log
  /\ told \subseteq told' /\ told' \subseteq DOMAIN log
  /\ cursor' \in [Feeds -> DOMAIN log \cup {0, None}]
  /\ \A f \in Feeds : cursor'[f] # None => Items(f, cursor'[f]) \subseteq told'
  /\ \A f \in Feeds : cursor[f] # None /\ cursor'[f] # None => cursor'[f] >= cursor[f]

\* The server drops what it knew of the connection.
Forget == UNCHANGED <<log, told>> /\ cursor' = NoCursors

\* The client drops the connection, and what it had of it.
Restart == UNCHANGED log /\ told' = {} /\ cursor' = NoCursors

Next ==
  \/ Publish
  \/ Answer
  \/ Forget
  \/ Restart

Spec == Init /\ [][Next]_vars
=============================================================================
