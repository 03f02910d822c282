---------------------------- MODULE ToDeviceInbox ----------------------------
(***************************************************************************)
(* The to-device messages of one device: read into a response page by page *)
(* (internal/store/todevice.go), and deleted once a request's since proves *)
(* that they arrived (internal/deviceinbox), by /sync                      *)
(* (internal/handlers/todevice.go) and by sliding sync's extension. The    *)
(* client loses responses, gives up on requests that go on without it, and *)
(* shares its device with a comparator that asks again with old tokens.    *)
(***************************************************************************)
EXTENDS Integers, Sequences, FiniteSetsExt

CONSTANTS
  Slots,         \* requests that can be under way at once
  APIs,          \* of "sync" and "sliding"
  ToDeviceLimit, \* messages in one response
  deleteBatch,   \* rows looked up for one DELETE
  MaxId,         \* bound: messages sent
  None

ASSUME APIsAssumption == APIs \subseteq {"sync", "sliding"}
ASSUME BoundsAssumption == {ToDeviceLimit, deleteBatch, MaxId} \subseteq Nat \ {0}
ASSUME NoneAssumption == None \notin Slots

VARIABLES
  lastId,      \* the stream ids handed out so far
  inFlight,    \* those whose transaction has not committed
  inbox,       \* the rows of device_inbox
  live,        \* every token in use is a position that a writer announced
  lastDeleted, \* the memo of how far this device was cleared, 0 without one
  slots,       \* the requests under way
  client,      \* the since it holds, what it took, and the slot it waits for
  overtaken    \* history: the messages that were open when a token passed them

synapse == <<lastId, inFlight, live>>
vars == <<lastId, inFlight, inbox, live, lastDeleted, slots, client, overtaken>>

Idle == [stage |-> "idle"]

Init ==
  /\ lastId = 0 /\ inFlight = {} /\ inbox = {} /\ live \in BOOLEAN /\ lastDeleted = 0 /\ overtaken = {}
  /\ slots = [i \in Slots |-> Idle]
  /\ client = [since |-> 0, took |-> <<>>, slot |-> None]

---------------------------------------------------------------------------
(* Synapse (external). The ids of the device's messages are handed out in   *)
(* order and commit in any; those of other devices' lie in between, so that *)
(* a position stands for all up to the device's next message.              *)

Begin ==
  /\ lastId < MaxId
  /\ lastId' = lastId + 1 /\ inFlight' = inFlight \cup {lastId + 1}
  /\ UNCHANGED <<inbox, live, lastDeleted, slots, client, overtaken>>

Commit(id) ==
  /\ id \in inFlight
  /\ inFlight' = inFlight \ {id} /\ inbox' = inbox \cup {id}
  /\ UNCHANGED <<lastId, live, lastDeleted, slots, client, overtaken>>

\* Replication goes down, or the worker starts; later the first row replaces the
\* seed, and the requests that were given a token in between are gone.
Replication ==
  /\ live' = ~live
  /\ UNCHANGED <<lastId, inFlight, inbox, lastDeleted, slots, client, overtaken>>

\* The newest position a writer can have announced: all before it have committed
\* (StreamFeed!TokenCoversCommitted).
NewestToken == Min(inFlight \cup {lastId + 1}) - 1

\* currentToken: without replication, and as its seed, the maximum of a table that
\* is every device's, and that transactions still open may lie below.
MayBeNow(now) == now <= IF live THEN NewestToken ELSE lastId

---------------------------------------------------------------------------
(* The requests.                                                           *)

\* Mutant: a page that is full moves the token to the end all the same.
NextToEnd(page, to) == to

\* The position after a page: the last message of a full one, else the end.
NextBatch(page, to) == IF Cardinality(page) = ToDeviceLimit THEN Max(page) ELSE to

\* Mutant: the window begins with the message that the token stands for.
PageInclusive(from, to) ==
  LET window == {m \in inbox : from <= m /\ m <= to}
  IN {m \in window : Cardinality({o \in window : o <= m}) <= ToDeviceLimit}

\* MessagesForDevice: the oldest messages of the window.
Page(from, to) ==
  LET window == {m \in inbox : from < m /\ m <= to}
  IN {m \in window : Cardinality({o \in window : o <= m}) <= ToDeviceLimit}

\* The messages of a page as they are sent, oldest first.
InOrder(page) ==
  CHOOSE s \in [1 .. Cardinality(page) -> page] :
    \A i, j \in DOMAIN s : i < j => s[i] < s[j]

\* DeleteUpTo ends at once when the memo says there is nothing to clear.
Started(api, since) ==
  [stage |-> IF since = 0 \/ lastDeleted >= since THEN "read" ELSE "find",
   api |-> api, since |-> since, from |-> 0]

\* The client asks. A request it still waits for goes on without it.
Send(i, api) ==
  /\ slots[i] = Idle
  /\ slots' = [slots EXCEPT ![i] = Started(api, client.since)]
  /\ client' = [client EXCEPT !.slot = i]
  /\ UNCHANGED <<synapse, inbox, lastDeleted, overtaken>>

\* The comparator asks with a token the client once held.
Compare(i, api, since) ==
  /\ slots[i] = Idle /\ since < client.since
  /\ slots' = [slots EXCEPT ![i] = Started(api, since)]
  /\ UNCHANGED <<synapse, inbox, lastDeleted, client, overtaken>>

\* Everything up to the since was in a response the client holds.
Acknowledged(i) == slots[i].since

\* deleteBetween, its first statement: the end of the batch.
FindBatch(i) ==
  LET rows == {m \in inbox : slots[i].from < m /\ m <= Acknowledged(i)}
      batch == {m \in rows : Cardinality({o \in rows : o <= m}) <= deleteBatch}
  IN /\ slots[i].stage = "find"
     /\ slots' = [slots EXCEPT ![i] =
          IF batch = {} THEN [stage |-> "cleared", api |-> @.api, since |-> @.since, from |-> 0]
          ELSE [stage |-> "delete", api |-> @.api, since |-> @.since, from |-> @.from, to |-> Max(batch)]]
     /\ UNCHANGED <<synapse, inbox, lastDeleted, client, overtaken>>

\* Its second: fewer rows than a batch is the end of it.
DeleteBatch(i) ==
  LET gone == {m \in inbox : slots[i].from < m /\ m <= slots[i].to}
  IN /\ slots[i].stage = "delete"
     /\ inbox' = inbox \ gone
     /\ slots' = [slots EXCEPT ![i] =
          IF Cardinality(gone) < deleteBatch
          THEN [stage |-> "cleared", api |-> @.api, since |-> @.since, from |-> 0]
          ELSE [stage |-> "find", api |-> @.api, since |-> @.since, from |-> @.to]]
     /\ UNCHANGED <<synapse, lastDeleted, client, overtaken>>

\* Only ever forwards.
Memo(upTo) == Max({upTo, lastDeleted})

Cleared(i) ==
  /\ slots[i].stage = "cleared"
  /\ lastDeleted' = Memo(slots[i].since)
  /\ slots' = [slots EXCEPT ![i].stage = "read"]
  /\ UNCHANGED <<synapse, inbox, client, overtaken>>

\* A batch fails. /sync goes on without deleting, sliding sync answers an error;
\* the memo stays.
DeleteFails(i) ==
  /\ slots[i].stage \in {"find", "delete"}
  /\ slots' = [slots EXCEPT ![i] =
       IF @.api = "sliding" THEN Idle
       ELSE [stage |-> "read", api |-> @.api, since |-> @.since, from |-> 0]]
  /\ client' = IF client.slot = i /\ slots[i].api = "sliding" THEN [client EXCEPT !.slot = None] ELSE client
  /\ UNCHANGED <<synapse, inbox, lastDeleted, overtaken>>

\* toDeviceEvents and toDeviceExtension. A token behind the since counts as the
\* since: /sync raises it (boundBySince); sliding sync answers such a since as it
\* came, and leaves its deletion to a later request.
Read(i, now) ==
  LET q == slots[i]
      to == Max({now, q.since})
      page == Page(q.since, to)
      next == NextBatch(page, to)
  IN /\ q.stage = "read" /\ MayBeNow(now)
     /\ slots' = [slots EXCEPT ![i] =
          [stage |-> "built", api |-> q.api, since |-> q.since, page |-> page, next |-> next,
           open |-> {m \in inFlight : q.since < m /\ m <= next}]]
     /\ UNCHANGED <<synapse, inbox, lastDeleted, client, overtaken>>

\* The long poll repeats a pass that found nothing: /sync without deleting again.
PollAgain(i) ==
  /\ slots[i].stage = "built" /\ slots[i].page = {} /\ slots[i].since # 0
  /\ slots' = [slots EXCEPT ![i] =
       IF @.api = "sliding" THEN Started(@.api, @.since)
       ELSE [stage |-> "read", api |-> @.api, since |-> @.since, from |-> 0]]
  /\ UNCHANGED <<synapse, inbox, lastDeleted, client, overtaken>>

\* The response reaches the client, if it still waits for it.
Answer(i) ==
  /\ slots[i].stage = "built"
  /\ slots' = [slots EXCEPT ![i] = Idle]
  /\ client' = IF client.slot # i THEN client
               ELSE [since |-> slots[i].next, slot |-> None,
                     took |-> client.took \o InOrder(slots[i].page)]
  /\ overtaken' = IF client.slot # i THEN overtaken ELSE overtaken \cup slots[i].open
  /\ UNCHANGED <<synapse, inbox, lastDeleted>>

\* A request dies: with its client, or with a query.
Fail(i) ==
  /\ slots[i] # Idle
  /\ slots' = [slots EXCEPT ![i] = Idle]
  /\ client' = IF client.slot = i THEN [client EXCEPT !.slot = None] ELSE client
  /\ UNCHANGED <<synapse, inbox, lastDeleted, overtaken>>

\* The memo is evicted for another device's, or lost with the worker.
Evict ==
  /\ lastDeleted # 0 /\ lastDeleted' = 0
  /\ UNCHANGED <<synapse, inbox, slots, client, overtaken>>

Next ==
  \/ Begin
  \/ \E id \in 1 .. MaxId : Commit(id)
  \/ Replication \/ Evict
  \/ \E i \in Slots :
       \/ \E api \in APIs : Send(i, api)
       \/ \E api \in APIs, since \in 1 .. MaxId : Compare(i, api, since)
       \/ FindBatch(i) \/ DeleteBatch(i) \/ Cleared(i) \/ DeleteFails(i)
       \/ \E now \in 0 .. MaxId : Read(i, now)
       \/ PollAgain(i) \/ Answer(i) \/ Fail(i)

Spec == Init /\ [][Next]_vars

---------------------------------------------------------------------------
(* The properties.                                                         *)

Committed == (1 .. lastId) \ inFlight
Taken == {client.took[i] : i \in DOMAIN client.took}

\* What a request keeps at each of its stages.
Ids == 0 .. MaxId
Requests ==
  [stage : {"read", "find", "cleared"}, api : APIs, since : Ids, from : Ids]
    \cup [stage : {"delete"}, api : APIs, since : Ids, from : Ids, to : Ids]
    \cup [stage : {"built"}, api : APIs, since : Ids, page : SUBSET Ids, next : Ids, open : SUBSET Ids]

\* The inbox, the requests under way and the client's state have their types.
TypeOK ==
  /\ lastId \in Ids /\ inFlight \subseteq 1 .. lastId /\ inbox \subseteq Committed
  /\ live \in BOOLEAN /\ lastDeleted \in Ids /\ overtaken \subseteq Ids
  /\ slots \in [Slots -> Requests \cup {Idle}]
  /\ client \in [since : Ids, took : Seq(Ids), slot : Slots \cup {None}]

\* A message leaves the table only after the client has it, whichever requests
\* race, fail between two batches, or come with an old token; or when a response
\* the client took has a token that passed the message's open transaction.
DeletedWasTaken == Committed \ inbox \subseteq Taken \cup overtaken

\* What todevice.go:50 says: everything at or before the since "was in a response
\* the client demonstrably holds", so that whatever is deleted was taken.
DeletedWasHeld == Committed \ inbox \subseteq Taken

\* What the response that the client waits for passes over.
Passing ==
  UNION {slots[i].open : i \in {j \in Slots : client.slot = j /\ slots[j].stage = "built"}}

\* The device sees a mailbox: every message once, in order, none passed over but
\* those that a token overtook.
Box == INSTANCE Mailbox WITH
  Ids <- 1 .. MaxId, pending <- Committed \ (Taken \cup overtaken \cup Passing), taken <- client.took
Implements == Box!Spec
=============================================================================
