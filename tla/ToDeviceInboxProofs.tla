-------------------------- MODULE ToDeviceInboxProofs --------------------------
(***************************************************************************)
(* For every number of requests, every page and batch size and every       *)
(* number of messages: nothing is deleted that the device has not taken or *)
(* a token has overtaken, nothing is overtaken while replication is live,  *)
(* and what the device sees is a mailbox.                                  *)
(***************************************************************************)
EXTENDS ToDeviceInbox, OrderLemmas, SequenceTheorems

\* Whatever was ever at or before the client's since it took, or a token overtook.
ClientKnows ==
  /\ client.since <= lastId
  /\ Taken \subseteq Committed
  /\ Taken \cup overtaken = 1 .. client.since

\* No request has a newer since than the client, nor clears beyond its own.
RequestOld(i) ==
  slots[i] # Idle =>
    /\ slots[i].since <= client.since
    /\ slots[i].stage = "delete" => slots[i].to <= slots[i].since

\* A built response accounts for all between the since and the token it hands
\* back: a message is in its page, or was open when the page was read.
Accounts(r) ==
  /\ r.since <= r.next /\ r.next <= lastId
  /\ r.open \subseteq (r.since + 1) .. r.next
  /\ r.page = ((r.since + 1) .. r.next) \ r.open
  /\ r.page \subseteq Committed

\* The request that the client waits for has its since, and once built accounts
\* for what follows.
RequestOwned(i) ==
  client.slot = i =>
    /\ slots[i] # Idle
    /\ slots[i].since = client.since
    /\ slots[i].stage = "built" => Accounts(slots[i])

\* The inductive invariant.
Inv ==
  /\ TypeOK
  /\ ClientKnows
  /\ DeletedWasTaken
  /\ \A i \in Slots : RequestOld(i) /\ RequestOwned(i)

---------------------------------------------------------------------------
(* The messages of a page, in order.                                       *)

\* InOrder sends every message of a page, each of them once and in order.
LEMMA InOrderSorts ==
  ASSUME NEW N \in Nat, NEW S \in SUBSET (0 .. N)
  PROVE  /\ InOrder(S) \in [1 .. Cardinality(S) -> S]
         /\ Increasing(InOrder(S))
         /\ S = {InOrder(S)[k] : k \in 1 .. Cardinality(S)}
<1>. DEFINE n == Cardinality(S)
            s == InOrder(S)
<1>1. IsFiniteSet(S) /\ n \in Nat
  BY IdsFinite
<1>2. s \in [1 .. n -> S] /\ Increasing(s)
  BY OrderExists DEF InOrder, Increasing
<1>. HIDE DEF s, n
<1>3. s \in Injection(1 .. n, S)
  <2>1. \A i, j \in 1 .. n : s[i] = s[j] => i = j
    <3>. SUFFICES ASSUME NEW i \in 1 .. n, NEW j \in 1 .. n, i # j
                  PROVE  s[i] # s[j]
      OBVIOUS
    <3>1. s[i] \in Nat /\ s[j] \in Nat
      <4>1. s[i] \in S /\ s[j] \in S
        BY <1>2
      <4>2. \A m \in S : m \in Nat
        OBVIOUS
      <4>. QED
        BY <4>1, <4>2
    <3>2. i < j \/ j < i
      BY <1>1
    <3>3. s[i] < s[j] \/ s[j] < s[i]
      BY <3>2, <1>2 DEF Increasing
    <3>. QED
      BY <3>3, <3>1
  <2>. QED
    BY <2>1, <1>2, Fun_IsInj
<1>4. IsFiniteSet(1 .. n) /\ Cardinality(1 .. n) = n
  BY <1>1, FS_Interval
<1>5. s \in Surjection(1 .. n, S)
  BY <1>3, <1>4, <1>1, FS_Injection DEF n
<1>6. S = {s[k] : k \in 1 .. n}
  <2>1. \A m \in S : \E k \in 1 .. n : s[k] = m
    BY <1>5 DEF Surjection
  <2>2. \A k \in 1 .. n : s[k] \in S
    BY <1>2
  <2>. DEFINE R == {s[k] : k \in 1 .. n}
  <2>3. S \subseteq R
    BY <2>1
  <2>4. R \subseteq S
    BY <2>2
  <2>. HIDE DEF R
  <2>5. S = R
    BY <2>3, <2>4, Zenon
  <2>. QED
    BY <2>5 DEF R
<1>. QED
  BY <1>2, <1>6 DEF s, n

---------------------------------------------------------------------------
(* The window a request reads.                                             *)

\* The messages that have committed and the rows of the table are ids.
LEMMA CommittedAreIds ==
  ASSUME TypeOK
  PROVE  /\ MaxId \in Nat /\ lastId \in Nat /\ lastId <= MaxId
         /\ Committed \subseteq Ids \ {0} /\ inbox \subseteq Committed
         /\ \A m \in inFlight : m \in Nat /\ m # 0 /\ m <= lastId
<1>1. MaxId \in Nat /\ lastId \in 0 .. MaxId /\ inFlight \subseteq 1 .. lastId /\ inbox \subseteq Committed
  BY BoundsAssumption DEF TypeOK, Ids
<1>2. lastId \in Nat /\ lastId <= MaxId
  BY <1>1
<1>3. \A m \in 1 .. lastId : m \in 0 .. MaxId /\ m # 0 /\ m \in Nat /\ m <= lastId
  BY <1>1, <1>2
<1>4. Committed \subseteq Ids \ {0}
  BY <1>3 DEF Committed, Ids
<1>5. \A m \in inFlight : m \in Nat /\ m # 0 /\ m <= lastId
  BY <1>1, <1>3
<1>. QED
  BY <1>1, <1>2, <1>4, <1>5

\* A request's end is the later of the token and the since.
LEMMA LaterOfTwo ==
  ASSUME NEW N \in Nat, NEW a \in 0 .. N, NEW b \in 0 .. N
  PROVE  Max({a, b}) \in {a, b} /\ a <= Max({a, b}) /\ b <= Max({a, b})
<1>1. {a, b} \in SUBSET (0 .. N) /\ {a, b} # {}
  OBVIOUS
<1>. QED
  BY <1>1, MaxIsHighest

\* No token is after the last id handed out, and while replication is live none is
\* at or after an open transaction.
LEMMA HeardIsSettled ==
  ASSUME TypeOK, NEW now \in Ids, MayBeNow(now)
  PROVE  now <= lastId /\ (live => \A m \in inFlight : now < m)
<1>. DEFINE S == inFlight \cup {lastId + 1}
<1>1. S \in SUBSET Nat /\ S # {} /\ \A m \in S : m \in Nat
  <2>1. lastId + 1 \in Nat /\ \A m \in inFlight : m \in Nat
    BY CommittedAreIds
  <2>2. \A m \in S : m \in Nat
    BY <2>1
  <2>. QED
    BY <2>2
<1>2. lastId \in Nat /\ now \in Nat /\ lastId + 1 \in S /\ inFlight \subseteq S
  BY CommittedAreIds DEF Ids
<1>. HIDE DEF S
<1>3. Min(S) \in S /\ \A x \in S : Min(S) <= x
  BY <1>1, MinIsLowest
<1>4. Min(S) \in Nat /\ (live => now <= Min(S) - 1) /\ (~live => now <= lastId)
  BY <1>1, <1>3 DEF MayBeNow, NewestToken, S
<1>5. live => \A x \in S : now < x
  BY <1>1, <1>2, <1>3, <1>4
<1>. QED
  BY <1>2, <1>4, <1>5

\* A page is the rows between the since and the position it hands back, which
\* is never before the one nor after the position it was read at.
LEMMA PageIsWindow ==
  ASSUME TypeOK, NEW from \in Ids, NEW now \in Ids, from <= now
  PROVE  LET next == NextBatch(Page(from, now), now)
         IN /\ next \in Ids /\ from <= next /\ next <= now
            /\ Page(from, now) = {m \in inbox : from < m /\ m <= next}
<1>. DEFINE W == {m \in inbox : from < m /\ m <= now}
            P == Page(from, now)
            next == NextBatch(P, now)
<1>1. MaxId \in Nat /\ from \in Nat /\ now \in Nat /\ W \in SUBSET Ids
  BY CommittedAreIds DEF Ids
<1>2. P \in SUBSET W /\ \A m \in W : m \in P <=> Cardinality({o \in W : o <= m}) <= ToDeviceLimit
  BY DEF Page
<1>3. \A m \in W : m \in Nat /\ from < m /\ m <= now /\ m \in inbox
  BY <1>1 DEF Ids
<1>. HIDE DEF P, W
<1>4. IF Cardinality(P) = ToDeviceLimit
      THEN P # {} /\ P = {m \in W : m <= Max(P)}
      ELSE P = W
  <2>1. W \in SUBSET (0 .. MaxId) /\ ToDeviceLimit \in Nat \ {0}
    BY <1>1, BoundsAssumption DEF Ids
  <2>. QED
    BY <2>1, <1>1, <1>2, OldestAreAPrefix
<1>5. CASE Cardinality(P) = ToDeviceLimit
  <2>1. P \in SUBSET (0 .. MaxId) /\ P # {}
    BY <1>1, <1>2, <1>4, <1>5 DEF Ids
  <2>2. Max(P) \in P
    BY <2>1, <1>1, MaxIsHighest
  <2>3. next = Max(P) /\ next \in W /\ next \in Nat /\ from <= next /\ next <= now
    <3>1. next = Max(P)
      BY <1>5 DEF NextBatch
    <3>2. next \in W
      BY <3>1, <2>2, <1>2
    <3>. HIDE DEF next
    <3>. QED
      BY <3>1, <3>2, <1>3, <1>1
  <2>4. P = {m \in inbox : from < m /\ m <= next}
    <3>1. \A m : m \in P <=> m \in W /\ m <= next
      BY <1>4, <1>5, <2>3
    <3>2. \A m \in inbox : m \in Nat
      BY CommittedAreIds DEF Ids
    <3>3. \A m : m \in W <=> m \in inbox /\ from < m /\ m <= now
      BY DEF W
    <3>4. \A m : m \in P <=> m \in inbox /\ from < m /\ m <= next
      BY <3>1, <3>2, <3>3, <2>3, <1>1
    <3>. QED
      BY <3>4
  <2>. QED
    BY <2>3, <2>4, <1>1 DEF P, Ids
<1>6. CASE Cardinality(P) # ToDeviceLimit
  <2>1. next = now /\ P = W
    BY <1>4, <1>6 DEF NextBatch
  <2>. QED
    BY <2>1, <1>1 DEF P, W
<1>. QED
  BY <1>5, <1>6

---------------------------------------------------------------------------
(* The invariant is inductive.                                             *)

\* What the client and a request under way are made of.
ClientType == [since : Ids, took : Seq(Ids), slot : Slots \cup {None}]

\* The table is empty, and so is every slot, when the worker starts.
LEMMA InitInv == Init => Inv
<1>. SUFFICES ASSUME Init PROVE Inv
  OBVIOUS
<1>1. MaxId \in Nat /\ 0 \in Ids
  BY BoundsAssumption DEF Ids
<1>2. Committed = {} /\ Taken = {}
  BY DEF Init, Committed, Taken
<1>3. TypeOK
  BY <1>1, <1>2 DEF Init, TypeOK
<1>4. ClientKnows /\ DeletedWasTaken
  BY <1>2 DEF Init, ClientKnows, DeletedWasTaken
<1>5. \A i \in Slots : RequestOld(i) /\ RequestOwned(i)
  BY NoneAssumption DEF Init, RequestOld, RequestOwned
<1>. QED
  BY <1>3, <1>4, <1>5 DEF Inv

\* One request moves on, and no message commits: the invariant holds when it
\* holds of that request and of the rows that are left. The client may start or
\* stop waiting for the request.
LEMMA RequestMoves ==
  ASSUME Inv,
         NEW i \in Slots, NEW r \in Requests \cup {Idle},
         slots' = [slots EXCEPT ![i] = r],
         UNCHANGED <<synapse, overtaken>>,
         inbox' \subseteq inbox, Committed \ inbox' \subseteq Taken \cup overtaken,
         lastDeleted' \in Ids,
         client' \in ClientType, client'.since = client.since, client'.took = client.took,
         client'.slot \in {client.slot, None, i},
         r # Idle => r.since <= client.since /\ (r.stage = "delete" => r.to <= r.since),
         client'.slot = i =>
           /\ r # Idle /\ r.since = client.since
           /\ r.stage = "built" => Accounts(r)
  PROVE  Inv'
<1>1. Committed' = Committed /\ Taken' = Taken
  BY DEF synapse, Committed, Taken
<1>2. \A q : Accounts(q)' <=> Accounts(q)
  BY <1>1 DEF synapse, Accounts
<1>3. slots \in [Slots -> Requests \cup {Idle}]
  BY DEF Inv, TypeOK
<1>4. slots'[i] = r /\ \A j \in Slots : j # i => slots'[j] = slots[j]
  BY <1>3
<1>5. TypeOK'
  <2>1. slots' \in [Slots -> Requests \cup {Idle}]
    BY <1>3
  <2>. QED
    BY <2>1, <1>1 DEF synapse, Inv, TypeOK, ClientType
<1>6. ClientKnows'
  BY <1>1 DEF synapse, Inv, ClientKnows
<1>7. DeletedWasTaken'
  BY <1>1 DEF DeletedWasTaken
<1>8. ASSUME NEW j \in Slots
      PROVE  RequestOld(j)'
  BY <1>4 DEF Inv, RequestOld
<1>9. ASSUME NEW j \in Slots
      PROVE  RequestOwned(j)'
  <2>1. CASE j = i
    BY <2>1, <1>1, <1>2, <1>4 DEF RequestOwned
  <2>2. CASE j # i
    <3>. SUFFICES ASSUME client'.slot = j
                  PROVE  RequestOwned(j)'
      BY DEF RequestOwned
    <3>1. client.slot = j
      BY <2>2, NoneAssumption
    <3>. QED
      BY <3>1, <2>2, <1>1, <1>2, <1>4 DEF Inv, RequestOwned
  <2>. QED
    BY <2>1, <2>2
<1>. QED
  BY <1>5, <1>6, <1>7, <1>8, <1>9 DEF Inv

\* A batch starts from position 0, which is a position.
LEMMA ZeroIsId == 0 \in Ids
  BY BoundsAssumption DEF Ids

\* What a request keeps is told by its stage.
Working == [stage : {"read", "find", "cleared"}, api : APIs, since : Ids, from : Ids]
Deleting == [stage : {"delete"}, api : APIs, since : Ids, from : Ids, to : Ids]
Built == [stage : {"built"}, api : APIs, since : Ids, page : SUBSET Ids, next : Ids, open : SUBSET Ids]

LEMMA RequestShape ==
  ASSUME TypeOK, NEW i \in Slots
  PROVE  /\ slots[i] # Idle => slots[i].api \in APIs /\ slots[i].since \in Ids
         /\ slots[i] = Idle <=> slots[i].stage = "idle"
         /\ slots[i].stage \in {"read", "find", "cleared"} => slots[i] \in Working
         /\ slots[i].stage = "delete" => slots[i] \in Deleting
         /\ slots[i].stage = "built" => slots[i] \in Built
<1>1. slots[i] \in Working \cup Deleting \cup Built \cup {Idle}
  BY DEF TypeOK, Requests, Working, Deleting, Built
<1>2. CASE slots[i] \in Working
  BY <1>2 DEF Working, Idle
<1>3. CASE slots[i] \in Deleting
  BY <1>3 DEF Deleting, Idle
<1>4. CASE slots[i] \in Built
  BY <1>4 DEF Built, Idle
<1>5. CASE slots[i] = Idle
  BY <1>5 DEF Idle
<1>. QED
  BY <1>1, <1>2, <1>3, <1>4, <1>5

\* The three kinds of request are requests, and none is the empty slot.
LEMMA RequestKinds ==
  ASSUME NEW r
  PROVE  /\ r \in Working => r \in Requests /\ r # Idle /\ r.stage # "delete" /\ r.stage # "built"
         /\ r \in Deleting => r \in Requests /\ r # Idle /\ r.stage = "delete"
         /\ r \in Built => r \in Requests /\ r # Idle /\ r.stage = "built"
BY DEF Requests, Working, Deleting, Built, Idle

\* A request that has not begun to delete: DeleteUpTo's memo decides its stage.
LEMMA StartedShape ==
  ASSUME NEW api \in APIs, NEW since \in Ids
  PROVE  Started(api, since) \in Working /\ Started(api, since).since = since
<1>1. 0 \in Ids
  BY BoundsAssumption DEF Ids
<1>. QED
  BY <1>1 DEF Started, Working

\* A message id is handed out.
LEMMA BeginKeeps == Inv /\ Begin => Inv'
<1>. SUFFICES ASSUME Inv, Begin PROVE Inv'
  OBVIOUS
<1>0. TypeOK
  BY DEF Inv
<1>1. lastId \in Nat /\ MaxId \in Nat /\ lastId + 1 \in Ids
  BY <1>0, CommittedAreIds DEF Begin, Ids
<1>2. Committed' = Committed /\ Taken' = Taken
  BY <1>0, <1>1, CommittedAreIds DEF Begin, Committed, Taken
<1>3. TypeOK'
  <2>1. inFlight' \subseteq 1 .. lastId'
    BY <1>0, <1>1, CommittedAreIds DEF Begin
  <2>. QED
    BY <1>0, <1>1, <1>2, <2>1 DEF TypeOK, Begin
<1>4. client.since \in Ids
  BY <1>0 DEF TypeOK
<1>5. ClientKnows' /\ DeletedWasTaken'
  BY <1>1, <1>2, <1>4 DEF Begin, Inv, ClientKnows, DeletedWasTaken, Ids
<1>6. ASSUME NEW i \in Slots
      PROVE  RequestOld(i)' /\ RequestOwned(i)'
  <2>1. RequestOld(i)'
    BY DEF Inv, Begin, RequestOld
  <2>2. ASSUME slots[i].stage = "built", Accounts(slots[i])
        PROVE  Accounts(slots[i])'
    <3>1. slots[i].next \in Ids
      BY <2>2, <1>0, RequestShape DEF Built
    <3>2. slots' = slots /\ lastId' = lastId + 1
      BY DEF Begin
    <3>. QED
      BY <3>1, <3>2, <2>2, <1>1, <1>2 DEF Accounts, Ids
  <2>3. RequestOwned(i)'
    BY <2>2 DEF Inv, Begin, RequestOwned
  <2>. QED
    BY <2>1, <2>3
<1>. QED
  BY <1>3, <1>5, <1>6 DEF Inv

\* A message's transaction commits: if it is at or before the client's since, a
\* token has overtaken it.
LEMMA CommitKeeps ==
  ASSUME Inv, NEW id \in 1 .. MaxId, Commit(id)
  PROVE  Inv'
<1>0. TypeOK
  BY DEF Inv
<1>1. lastId \in Nat /\ MaxId \in Nat /\ id \in Nat /\ id # 0 /\ id <= lastId /\ id \in inFlight
  BY <1>0, CommittedAreIds DEF Commit
<1>2. Committed' = Committed \cup {id} /\ Taken' = Taken
  BY <1>0, <1>1, CommittedAreIds DEF Commit, Committed, Taken
<1>3. TypeOK'
  BY <1>0, <1>1, <1>2 DEF TypeOK, Commit
<1>4. ClientKnows' /\ DeletedWasTaken'
  BY <1>2 DEF Commit, Inv, ClientKnows, DeletedWasTaken
<1>5. ASSUME NEW i \in Slots
      PROVE  RequestOld(i)' /\ RequestOwned(i)'
  BY <1>2 DEF Inv, Commit, RequestOld, RequestOwned, Accounts
<1>. QED
  BY <1>3, <1>4, <1>5 DEF Inv

\* Replication goes down or comes back.
LEMMA ReplicationKeeps == Inv /\ Replication => Inv'
<1>. SUFFICES ASSUME Inv, Replication PROVE Inv'
  OBVIOUS
<1>1. UNCHANGED <<lastId, inFlight, inbox, lastDeleted, slots, client, overtaken>> /\ live' \in BOOLEAN
  BY DEF Replication, Inv, TypeOK
<1>2. Committed' = Committed /\ Taken' = Taken
  BY <1>1 DEF Committed, Taken
<1>. QED
  BY <1>1, <1>2 DEF Inv, TypeOK, ClientKnows, DeletedWasTaken, RequestOld, RequestOwned, Accounts

\* The client asks, and waits for this request from now on.
LEMMA SendKeeps ==
  ASSUME Inv, NEW i \in Slots, NEW api \in APIs, Send(i, api)
  PROVE  Inv'
<1>. DEFINE r == Started(api, client.since)
<1>1. TypeOK /\ client \in ClientType /\ lastDeleted \in Ids
  BY DEF Inv, TypeOK, ClientType
<1>2. client.since \in Ids /\ client.since <= client.since
  BY <1>1 DEF ClientType, Ids
<1>3. r \in Working /\ r.since = client.since
  BY <1>2, StartedShape
<1>4. client' \in ClientType /\ client'.since = client.since /\ client'.took = client.took /\ client'.slot = i
  BY <1>1 DEF Send, ClientType
<1>. HIDE DEF r
<1>5. slots' = [slots EXCEPT ![i] = r]
  BY DEF Send, r
<1>6. UNCHANGED <<synapse, inbox, lastDeleted, overtaken>>
  BY DEF Send
<1>. QED
  BY <1>1, <1>2, <1>3, <1>4, <1>5, <1>6, RequestKinds, RequestMoves DEF Inv, DeletedWasTaken

\* The comparator asks with an old token.
LEMMA CompareKeeps ==
  ASSUME Inv, NEW i \in Slots, NEW api \in APIs, NEW since \in 1 .. MaxId, Compare(i, api, since)
  PROVE  Inv'
<1>. DEFINE r == Started(api, since)
<1>1. TypeOK /\ client \in ClientType /\ lastDeleted \in Ids
  BY DEF Inv, TypeOK, ClientType
<1>2. since \in Ids /\ client.since \in Ids /\ since <= client.since
  BY <1>1, BoundsAssumption DEF ClientType, Ids, Compare
<1>3. r \in Working /\ r.since = since
  BY <1>2, StartedShape
<1>4. client.slot # i
  BY DEF Compare, Inv, RequestOwned
<1>. HIDE DEF r
<1>5. slots' = [slots EXCEPT ![i] = r]
  BY DEF Compare, r
<1>6. UNCHANGED <<synapse, inbox, lastDeleted, client, overtaken>>
  BY DEF Compare
<1>. QED
  BY <1>1, <1>2, <1>3, <1>4, <1>5, <1>6, RequestKinds, RequestMoves DEF Inv, DeletedWasTaken

\* The end of the next batch is found: never beyond the request's since.
LEMMA FindBatchKeeps ==
  ASSUME Inv, NEW i \in Slots, FindBatch(i)
  PROVE  Inv'
<1>. DEFINE q == slots[i]
            rows == {m \in inbox : q.from < m /\ m <= Acknowledged(i)}
            batch == {m \in rows : Cardinality({o \in rows : o <= m}) <= deleteBatch}
            r == slots'[i]
<1>1. TypeOK /\ client \in ClientType /\ lastDeleted \in Ids /\ slots \in [Slots -> Requests \cup {Idle}]
  BY DEF Inv, TypeOK, ClientType
<1>2. q \in Working /\ q.stage = "find" /\ q # Idle
  BY <1>1, RequestShape DEF FindBatch, Idle
<1>3. q.since <= client.since /\ (client.slot = i => q.since = client.since)
  BY <1>2 DEF Inv, RequestOld, RequestOwned
<1>4. slots' = [slots EXCEPT ![i] = r]
  BY <1>1 DEF FindBatch
<1>5. CASE batch = {}
  <2>1. r = [stage |-> "cleared", api |-> q.api, since |-> q.since, from |-> 0]
    BY <1>1, <1>5 DEF FindBatch
  <2>2. r \in Working /\ r.since = q.since
    BY <2>1, <1>2, ZeroIsId DEF Working
  <2>. HIDE DEF r, q
  <2>3. UNCHANGED <<synapse, inbox, lastDeleted, client, overtaken>>
    BY DEF FindBatch
  <2>. QED
    BY <1>1, <1>3, <1>4, <2>2, <2>3, RequestKinds, RequestMoves DEF Inv, DeletedWasTaken
<1>6. CASE batch # {}
  <2>1. r = [stage |-> "delete", api |-> q.api, since |-> q.since, from |-> q.from, to |-> Max(batch)]
    BY <1>1, <1>6 DEF FindBatch
  <2>2. batch \in SUBSET Ids /\ MaxId \in Nat /\ \A m \in batch : m <= q.since
    BY <1>1, CommittedAreIds DEF Acknowledged
  <2>3. Max(batch) \in Ids /\ Max(batch) <= q.since
    <3>. HIDE DEF batch
    <3>1. batch \in SUBSET (0 .. MaxId)
      BY <2>2 DEF Ids
    <3>2. Max(batch) \in batch
      BY <3>1, <2>2, <1>6, MaxIsHighest
    <3>. QED
      BY <3>2, <2>2
  <2>. HIDE DEF batch
  <2>4. r \in Deleting /\ r.since = q.since /\ r.to <= r.since
    BY <2>1, <2>3, <1>2 DEF Working, Deleting
  <2>. HIDE DEF r, q
  <2>5. UNCHANGED <<synapse, inbox, lastDeleted, client, overtaken>>
    BY DEF FindBatch
  <2>. QED
    BY <1>1, <1>3, <1>4, <2>4, <2>5, RequestKinds, RequestMoves DEF Inv, DeletedWasTaken
<1>. QED
  BY <1>5, <1>6

\* A batch is deleted: every row of it is at or before the client's since.
LEMMA DeleteBatchKeeps ==
  ASSUME Inv, NEW i \in Slots, DeleteBatch(i)
  PROVE  Inv'
<1>. DEFINE q == slots[i]
            gone == {m \in inbox : q.from < m /\ m <= q.to}
            r == slots'[i]
<1>1. TypeOK /\ client \in ClientType /\ lastDeleted \in Ids /\ slots \in [Slots -> Requests \cup {Idle}]
  BY DEF Inv, TypeOK, ClientType
<1>2. q \in Deleting /\ q # Idle
  BY <1>1, RequestShape DEF DeleteBatch, Idle
<1>3. /\ q.since <= client.since /\ q.to <= q.since
      /\ client.slot = i => q.since = client.since
  BY <1>2 DEF Inv, RequestOld, RequestOwned, DeleteBatch
<1>4. slots' = [slots EXCEPT ![i] = r]
  BY <1>1 DEF DeleteBatch
<1>5. r \in Working /\ r.since = q.since
  BY <1>1, <1>2, ZeroIsId DEF DeleteBatch, Deleting, Working
<1>6. inbox' = inbox \ gone
  BY DEF DeleteBatch
<1>7. gone \subseteq Taken \cup overtaken
  <2>1. \A m \in gone : m \in Committed /\ m \in Nat /\ m <= q.to
    BY <1>1, CommittedAreIds DEF Ids
  <2>2. q.to \in Nat /\ q.since \in Nat /\ client.since \in Nat
    BY <1>1, <1>2 DEF Deleting, ClientType, Ids
  <2>3. \A m \in gone : m \in 1 .. client.since
    <3>1. \A m \in gone : m # 0 /\ m <= client.since
      BY <2>1, <2>2, <1>1, <1>3, CommittedAreIds
    <3>. QED
      BY <3>1, <2>1, <2>2
  <2>. QED
    BY <2>3 DEF Inv, ClientKnows
<1>8. Committed \ inbox' \subseteq Taken \cup overtaken /\ inbox' \subseteq inbox
  BY <1>6, <1>7 DEF Inv, DeletedWasTaken
<1>. HIDE DEF q, r, gone
<1>9. UNCHANGED <<synapse, lastDeleted, client, overtaken>>
  BY DEF DeleteBatch
<1>. QED
  BY <1>1, <1>3, <1>4, <1>5, <1>8, <1>9, RequestKinds, RequestMoves

\* The memo is written.
LEMMA ClearedKeeps ==
  ASSUME Inv, NEW i \in Slots, Cleared(i)
  PROVE  Inv'
<1>. DEFINE q == slots[i]
            r == slots'[i]
<1>1. TypeOK /\ client \in ClientType /\ lastDeleted \in Ids /\ slots \in [Slots -> Requests \cup {Idle}]
  BY DEF Inv, TypeOK, ClientType
<1>2. q \in Working /\ q # Idle
  BY <1>1, RequestShape DEF Cleared, Idle
<1>3. q.since <= client.since /\ (client.slot = i => q.since = client.since)
  BY <1>2 DEF Inv, RequestOld, RequestOwned
<1>4. slots' = [slots EXCEPT ![i] = r]
  BY <1>1 DEF Cleared
<1>5. r \in Working /\ r.since = q.since
  BY <1>1, <1>2 DEF Cleared, Working
<1>6. lastDeleted' \in Ids
  <2>. DEFINE S == {q.since, lastDeleted}
  <2>1. S \in SUBSET (0 .. MaxId) /\ S # {} /\ MaxId \in Nat
    BY <1>1, <1>2, CommittedAreIds DEF Working, Ids
  <2>2. Max(S) \in S
    BY <2>1, MaxIsHighest
  <2>. QED
    BY <2>1, <2>2 DEF Cleared, Memo, Ids
<1>. HIDE DEF q, r
<1>7. UNCHANGED <<synapse, inbox, client, overtaken>>
  BY DEF Cleared
<1>. QED
  BY <1>1, <1>3, <1>4, <1>5, <1>6, <1>7, RequestKinds, RequestMoves DEF Inv, DeletedWasTaken

\* A batch fails.
LEMMA DeleteFailsKeeps ==
  ASSUME Inv, NEW i \in Slots, DeleteFails(i)
  PROVE  Inv'
<1>. DEFINE q == slots[i]
            r == slots'[i]
<1>1. TypeOK /\ client \in ClientType /\ lastDeleted \in Ids /\ slots \in [Slots -> Requests \cup {Idle}]
  BY DEF Inv, TypeOK, ClientType
<1>2. q \in Working \cup Deleting /\ q # Idle
  BY <1>1, RequestShape DEF DeleteFails, Idle
<1>3. q.since <= client.since /\ (client.slot = i => q.since = client.since)
  BY <1>2 DEF Inv, RequestOld, RequestOwned
<1>4. slots' = [slots EXCEPT ![i] = r]
  BY <1>1 DEF DeleteFails
<1>5. UNCHANGED <<synapse, inbox, lastDeleted, overtaken>>
  BY DEF DeleteFails
<1>6. CASE q.api = "sliding"
  <2>1. r = Idle
    BY <1>1, <1>6 DEF DeleteFails
  <2>2. /\ client' \in ClientType /\ client'.since = client.since /\ client'.took = client.took
        /\ client'.slot \in {client.slot, None} /\ client'.slot # i
    BY <1>1, <1>6, NoneAssumption DEF DeleteFails, ClientType
  <2>. HIDE DEF q, r
  <2>. QED
    BY <1>1, <1>4, <1>5, <2>1, <2>2, RequestMoves DEF Inv, DeletedWasTaken
<1>7. CASE q.api # "sliding"
  <2>1. r \in Working /\ r.since = q.since
    BY <1>1, <1>2, <1>7, ZeroIsId DEF DeleteFails, Deleting, Working
  <2>2. client' = client
    BY <1>7 DEF DeleteFails
  <2>. HIDE DEF q, r
  <2>. QED
    BY <1>1, <1>3, <1>4, <1>5, <2>1, <2>2, RequestKinds, RequestMoves DEF Inv, DeletedWasTaken
<1>. QED
  BY <1>6, <1>7

\* A page is read: for the request the client waits for, nothing that committed
\* after its since has been deleted, so the page leaves out no message but those
\* that are open.
LEMMA ReadKeeps ==
  ASSUME Inv, NEW i \in Slots, NEW now \in 0 .. MaxId, Read(i, now)
  PROVE  Inv'
<1>. DEFINE q == slots[i]
            to == Max({now, q.since})
            page == Page(q.since, to)
            next == NextBatch(page, to)
            open == {m \in inFlight : q.since < m /\ m <= next}
            r == slots'[i]
<1>1. TypeOK /\ client \in ClientType /\ lastDeleted \in Ids /\ slots \in [Slots -> Requests \cup {Idle}]
  BY DEF Inv, TypeOK, ClientType
<1>2. q \in Working /\ q # Idle
  BY <1>1, RequestShape DEF Read, Idle
<1>3. q.since <= client.since /\ (client.slot = i => q.since = client.since)
  BY <1>2 DEF Inv, RequestOld, RequestOwned
<1>4. slots' = [slots EXCEPT ![i] = r]
  BY <1>1 DEF Read
<1>5. q.since \in Nat /\ q.since \in Ids /\ now \in Nat /\ now \in Ids /\ client.since \in Nat /\ lastId \in Nat
  BY <1>1, <1>2, CommittedAreIds DEF Working, ClientType, Ids
<1>6. \A m \in Committed : m \in Nat /\ m \in Ids /\ m # 0
  BY <1>1, CommittedAreIds DEF Ids
<1>7. to \in Ids /\ to \in Nat /\ q.since <= to /\ to \in {now, q.since}
  BY <1>1, <1>5, LaterOfTwo DEF Ids
<1>8. now <= lastId
  BY <1>1, <1>5, HeardIsSettled DEF Read
<1>9. r = [stage |-> "built", api |-> q.api, since |-> q.since, page |-> page, next |-> next, open |-> open]
  BY <1>1 DEF Read
<1>. HIDE DEF to
<1>10. next \in Ids /\ q.since <= next /\ next <= to /\ page = {m \in inbox : q.since < m /\ m <= next}
  BY <1>1, <1>5, <1>7, PageIsWindow
<1>. HIDE DEF page, next
<1>11. r \in Built
  <2>1. page \in SUBSET Ids /\ open \in SUBSET Ids
    <3>1. page \subseteq Committed
      BY <1>1, <1>10, CommittedAreIds
    <3>2. \A m \in inFlight : m \in Ids
      BY <1>1, CommittedAreIds DEF Ids
    <3>. QED
      BY <1>6, <3>1, <3>2
  <2>. HIDE DEF open
  <2>. QED
    BY <1>2, <1>9, <1>10, <2>1 DEF Working, Built
<1>12. ASSUME client.slot = i
       PROVE  Accounts(r)
  <2>1. q.since = client.since /\ client.since <= lastId
    BY <1>3, <1>12 DEF Inv, ClientKnows
  <2>2. next \in Nat /\ next <= lastId
    <3>1. to <= lastId
      BY <1>7, <1>8, <2>1
    <3>. QED
      BY <1>5, <1>7, <1>10, <3>1 DEF Ids
  <2>3. \A m \in Committed : q.since < m => m \in inbox
    <3>1. \A m \in Committed : q.since < m => m \notin 1 .. client.since
      BY <1>5, <1>6, <2>1
    <3>. QED
      BY <3>1 DEF Inv, ClientKnows, DeletedWasTaken
  <2>4. inbox \subseteq Committed
    BY <1>1, CommittedAreIds
  <2>5. \A m \in (q.since + 1) .. next : m \in Nat /\ q.since < m /\ m <= next /\ (m \in Committed \/ m \in inFlight)
    BY <1>5, <2>2 DEF Committed
  <2>6. \A m \in inFlight : m \in Nat /\ m \notin Committed
    BY <1>1, CommittedAreIds DEF Committed
  <2>. HIDE DEF q, r
  <2>7. open \subseteq (q.since + 1) .. next
    BY <1>5, <2>2, <2>6
  <2>8. page = ((q.since + 1) .. next) \ open
    <3>1. \A m \in page : m \in (q.since + 1) .. next /\ m \notin open
      BY <1>5, <1>6, <1>10, <2>2, <2>4, <2>6
    <3>2. \A m \in ((q.since + 1) .. next) \ open : m \in page
      BY <1>10, <2>3, <2>5
    <3>. QED
      BY <3>1, <3>2
  <2>9. page \subseteq Committed
    BY <1>10, <2>4
  <2>. HIDE DEF open
  <2>. QED
    BY <1>9, <1>10, <2>2, <2>7, <2>8, <2>9 DEF Accounts
<1>13. r.since = q.since /\ r.stage = "built"
  BY <1>9
<1>. HIDE DEF q, r, open
<1>14. UNCHANGED <<synapse, inbox, lastDeleted, client, overtaken>>
  BY DEF Read
<1>. QED
  BY <1>1, <1>3, <1>4, <1>11, <1>12, <1>13, <1>14, RequestKinds, RequestMoves DEF Inv, DeletedWasTaken

\* The long poll goes round again with the same since.
LEMMA PollAgainKeeps ==
  ASSUME Inv, NEW i \in Slots, PollAgain(i)
  PROVE  Inv'
<1>. DEFINE q == slots[i]
            r == slots'[i]
<1>1. TypeOK /\ client \in ClientType /\ lastDeleted \in Ids /\ slots \in [Slots -> Requests \cup {Idle}]
  BY DEF Inv, TypeOK, ClientType
<1>2. q \in Built /\ q # Idle
  BY <1>1, RequestShape DEF PollAgain, Idle
<1>3. q.since <= client.since /\ (client.slot = i => q.since = client.since)
  BY <1>2 DEF Inv, RequestOld, RequestOwned
<1>4. slots' = [slots EXCEPT ![i] = r]
  BY <1>1 DEF PollAgain
<1>5. r \in Working /\ r.since = q.since
  <2>1. q.api \in APIs /\ q.since \in Ids /\ 0 \in Ids
    BY <1>2, BoundsAssumption DEF Built, Ids
  <2>2. CASE q.api = "sliding"
    <3>1. r = Started(q.api, q.since)
      BY <2>2, <1>1 DEF PollAgain
    <3>. QED
      BY <3>1, <2>1, StartedShape
  <2>3. CASE q.api # "sliding"
    BY <2>1, <2>3, <1>1 DEF PollAgain, Working
  <2>. QED
    BY <2>2, <2>3
<1>. HIDE DEF q, r
<1>6. UNCHANGED <<synapse, inbox, lastDeleted, client, overtaken>>
  BY DEF PollAgain
<1>. QED
  BY <1>1, <1>3, <1>4, <1>5, <1>6, RequestKinds, RequestMoves DEF Inv, DeletedWasTaken

\* A request dies.
LEMMA FailKeeps ==
  ASSUME Inv, NEW i \in Slots, Fail(i)
  PROVE  Inv'
<1>1. TypeOK /\ client \in ClientType /\ lastDeleted \in Ids
  BY DEF Inv, TypeOK, ClientType
<1>2. /\ client' \in ClientType /\ client'.since = client.since /\ client'.took = client.took
      /\ client'.slot \in {client.slot, None} /\ client'.slot # i
  BY <1>1, NoneAssumption DEF Fail, ClientType
<1>3. slots' = [slots EXCEPT ![i] = Idle] /\ UNCHANGED <<synapse, inbox, lastDeleted, overtaken>>
  BY DEF Fail
<1>. QED
  BY <1>1, <1>2, <1>3, RequestMoves DEF Inv, DeletedWasTaken

\* The memo is lost.
LEMMA EvictKeeps == Inv /\ Evict => Inv'
<1>. SUFFICES ASSUME Inv, Evict PROVE Inv'
  OBVIOUS
<1>1. 0 \in Ids
  BY BoundsAssumption DEF Ids
<1>2. UNCHANGED <<synapse, inbox, slots, client, overtaken>> /\ lastDeleted' = 0
  BY DEF Evict
<1>. QED
  BY <1>1, <1>2 DEF synapse, Inv, TypeOK, ClientKnows, DeletedWasTaken, RequestOld, RequestOwned,
     Accounts, Committed, Taken

\* What the client has after a response: what it had, and the page.
LEMMA TakesPage ==
  ASSUME NEW took \in Seq(Ids), NEW P \in SUBSET Ids
  PROVE  LET t == took \o InOrder(P)
         IN /\ t \in Seq(Ids)
            /\ {t[k] : k \in DOMAIN t} = {took[k] : k \in DOMAIN took} \cup P
<1>. DEFINE s == InOrder(P)
            n == Cardinality(P)
            t == took \o s
<1>1. MaxId \in Nat /\ P \in SUBSET (0 .. MaxId)
  BY BoundsAssumption DEF Ids
<1>2. n \in Nat
  BY <1>1, IdsFinite
<1>3. s \in [1 .. n -> P] /\ P = {s[k] : k \in 1 .. n}
  BY <1>1, InOrderSorts
<1>. HIDE DEF s, n
<1>4. s \in Seq(Ids) /\ Len(s) = n /\ DOMAIN s = 1 .. n
  <2>1. s \in [1 .. n -> Ids]
    BY <1>3
  <2>. QED
    BY <2>1, <1>2, IsASeq, LenProperties
<1>5. /\ t \in Seq(Ids) /\ Len(t) = Len(took) + n
      /\ \A k \in 1 .. (Len(took) + n) : t[k] = IF k <= Len(took) THEN took[k] ELSE s[k - Len(took)]
  BY <1>4, ConcatProperties
<1>6. Len(took) \in Nat /\ DOMAIN took = 1 .. Len(took) /\ DOMAIN t = 1 .. (Len(took) + n)
  BY <1>5, LenProperties
<1>. HIDE DEF t
<1>7. ASSUME NEW k \in DOMAIN t
      PROVE  t[k] \in {took[j] : j \in DOMAIN took} \cup P
  <2>1. CASE k <= Len(took)
    <3>1. k \in DOMAIN took /\ t[k] = took[k]
      BY <2>1, <1>2, <1>5, <1>6
    <3>. QED
      BY <3>1
  <2>2. CASE ~(k <= Len(took))
    <3>1. k - Len(took) \in 1 .. n /\ t[k] = s[k - Len(took)]
      BY <2>2, <1>2, <1>5, <1>6
    <3>2. s[k - Len(took)] \in P
      BY <3>1, <1>3
    <3>. QED
      BY <3>1, <3>2
  <2>. QED
    BY <2>1, <2>2
<1>8. ASSUME NEW j \in DOMAIN took
      PROVE  took[j] \in {t[k] : k \in DOMAIN t}
  <2>1. j \in DOMAIN t /\ t[j] = took[j]
    BY <1>2, <1>5, <1>6
  <2>. QED
    BY <2>1
<1>9. ASSUME NEW m \in P
      PROVE  m \in {t[k] : k \in DOMAIN t}
  <2>1. PICK j \in 1 .. n : m = s[j]
    BY <1>3
  <2>2. Len(took) + j \in DOMAIN t /\ t[Len(took) + j] = s[j]
    BY <1>2, <1>5, <1>6
  <2>. QED
    BY <2>1, <2>2
<1>10. {t[k] : k \in DOMAIN t} = {took[k] : k \in DOMAIN took} \cup P
  BY <1>7, <1>8, <1>9
<1>. QED
  BY <1>5, <1>10 DEF t, s

\* A response reaches the client, which moves to its token and takes its page.
LEMMA AnswerKeeps ==
  ASSUME Inv, NEW i \in Slots, Answer(i)
  PROVE  Inv'
<1>. DEFINE q == slots[i]
<1>1. TypeOK /\ client \in ClientType /\ lastDeleted \in Ids /\ slots \in [Slots -> Requests \cup {Idle}]
  BY DEF Inv, TypeOK, ClientType
<1>2. UNCHANGED <<synapse, inbox, lastDeleted>> /\ slots' = [slots EXCEPT ![i] = Idle]
  BY DEF Answer
<1>3. CASE client.slot # i
  <2>1. client' = client /\ overtaken' = overtaken
    BY <1>3 DEF Answer
  <2>. QED
    BY <1>1, <1>2, <1>3, <2>1, RequestMoves DEF Inv, DeletedWasTaken
<1>4. CASE client.slot = i
  <2>1. q \in Built /\ q.stage = "built"
    BY <1>1, RequestShape DEF Answer
  <2>2. q.since = client.since /\ Accounts(q)
    BY <1>4, <2>1 DEF Inv, RequestOwned
  <2>3. client' = [since |-> q.next, slot |-> None, took |-> client.took \o InOrder(q.page)]
    BY <1>4 DEF Answer
  <2>4. /\ client.took \in Seq(Ids) /\ q.page \in SUBSET Ids /\ q.open \in SUBSET Ids
        /\ q.next \in Ids /\ client.since \in Ids /\ client.since <= q.next
    BY <1>1, <2>1, <2>2 DEF ClientType, Built, Accounts
  <2>5. client'.took \in Seq(Ids) /\ Taken' = Taken \cup q.page
    <3>. DEFINE t == client.took \o InOrder(q.page)
    <3>1. t \in Seq(Ids) /\ {t[k] : k \in DOMAIN t} = {client.took[k] : k \in DOMAIN client.took} \cup q.page
      BY <2>4, TakesPage
    <3>2. client'.took = t
      BY <2>3
    <3>. HIDE DEF t, q
    <3>. QED
      BY <3>1, <3>2 DEF Taken
  <2>6. Committed' = Committed /\ overtaken' = overtaken \cup q.open
    BY <1>2, <1>4 DEF Answer, synapse, Committed
  <2>7. TypeOK'
    <3>1. client' \in ClientType
      BY <2>3, <2>4, <2>5 DEF ClientType
    <3>2. slots' \in [Slots -> Requests \cup {Idle}]
      BY <1>1, <1>2
    <3>3. overtaken' \subseteq Ids
      BY <1>1, <2>4, <2>6 DEF TypeOK
    <3>. QED
      BY <3>1, <3>2, <3>3, <2>6, <1>1, <1>2 DEF TypeOK, ClientType, synapse
  <2>8. Taken' \cup overtaken' = 1 .. q.next
    <3>1. Taken \cup overtaken = 1 .. client.since
      BY DEF Inv, ClientKnows
    <3>2. q.page \cup q.open = (client.since + 1) .. q.next
      BY <2>2 DEF Accounts
    <3>3. client.since \in Nat /\ q.next \in Nat
      BY <2>4 DEF Ids
    <3>. HIDE DEF q
    <3>4. (1 .. client.since) \cup ((client.since + 1) .. q.next) = 1 .. q.next
      BY <2>4, <3>3
    <3>. QED
      BY <2>5, <2>6, <3>1, <3>2, <3>4
  <2>9. ClientKnows'
    <3>1. client'.since = q.next
      BY <2>3
    <3>2. q.next <= lastId /\ lastId' = lastId /\ q.page \subseteq Committed
      BY <1>2, <2>2 DEF synapse, Accounts
    <3>3. Taken' \subseteq Committed'
      BY <2>5, <2>6, <3>2 DEF Inv, ClientKnows
    <3>. HIDE DEF q
    <3>. QED
      BY <2>8, <3>1, <3>2, <3>3 DEF ClientKnows
  <2>10. DeletedWasTaken'
    BY <1>2, <2>5, <2>6 DEF Inv, DeletedWasTaken
  <2>11. ASSUME NEW j \in Slots
         PROVE  RequestOld(j)' /\ RequestOwned(j)'
    <3>1. RequestOwned(j)'
      BY <2>3, NoneAssumption DEF RequestOwned
    <3>2. CASE j = i
      BY <3>1, <3>2, <1>1, <1>2 DEF RequestOld
    <3>3. CASE j # i /\ slots[j] # Idle
      <4>1. slots'[j] = slots[j] /\ client'.since = q.next
        BY <3>3, <1>1, <1>2, <2>3
      <4>2. slots[j].since \in Nat /\ client.since \in Nat /\ q.next \in Nat
        BY <3>3, <2>4, <1>1, RequestShape DEF Ids
      <4>3. slots[j].since <= client.since /\ (slots[j].stage = "delete" => slots[j].to <= slots[j].since)
        BY <3>3 DEF Inv, RequestOld
      <4>4. slots[j].since <= q.next
        BY <4>2, <4>3, <2>4
      <4>. QED
        BY <3>1, <4>1, <4>3, <4>4 DEF RequestOld
    <3>4. CASE j # i /\ slots[j] = Idle
      BY <3>1, <3>4, <1>1, <1>2 DEF RequestOld
    <3>. QED
      BY <3>2, <3>3, <3>4
  <2>. QED
    BY <2>7, <2>9, <2>10, <2>11 DEF Inv
<1>. QED
  BY <1>3, <1>4

\* Every step keeps the invariant.
LEMMA NextInv == Inv /\ [Next]_vars => Inv'
<1>. SUFFICES ASSUME Inv, [Next]_vars PROVE Inv'
  OBVIOUS
<1>1. CASE Begin
  BY <1>1, BeginKeeps
<1>2. CASE \E id \in 1 .. MaxId : Commit(id)
  BY <1>2, CommitKeeps
<1>3. CASE Evict
  BY <1>3, EvictKeeps
<1>4. ASSUME NEW i \in Slots,
             \/ \E api \in APIs : Send(i, api)
             \/ \E api \in APIs, since \in 1 .. MaxId : Compare(i, api, since)
      PROVE  Inv'
  BY <1>4, SendKeeps, CompareKeeps
<1>5. ASSUME NEW i \in Slots,
             FindBatch(i) \/ DeleteBatch(i) \/ Cleared(i) \/ DeleteFails(i)
      PROVE  Inv'
  BY <1>5, FindBatchKeeps, DeleteBatchKeeps, ClearedKeeps, DeleteFailsKeeps
<1>6. ASSUME NEW i \in Slots, \E now \in 0 .. MaxId : Read(i, now)
      PROVE  Inv'
  BY <1>6, ReadKeeps
<1>7. ASSUME NEW i \in Slots, PollAgain(i) \/ Answer(i) \/ Fail(i)
      PROVE  Inv'
  BY <1>7, PollAgainKeeps, AnswerKeeps, FailKeeps
<1>8. CASE UNCHANGED vars
  BY <1>8 DEF vars, Inv, TypeOK, ClientKnows, DeletedWasTaken, RequestOld, RequestOwned, Accounts,
     Committed, Taken
<1>9. CASE Replication
  BY <1>9, ReplicationKeeps
<1>. QED
  BY <1>1, <1>2, <1>3, <1>4, <1>5, <1>6, <1>7, <1>8, <1>9 DEF Next

---------------------------------------------------------------------------
(* The theorems.                                                           *)

\* The inductive invariant holds in every reachable state of the requests, the
\* deletes and the client, however they interleave.
THEOREM Invariance == Spec => []Inv
<1>1. Init => Inv
  BY InitInv
<1>2. Inv /\ [Next]_vars => Inv'
  BY NextInv
<1>. QED
  BY <1>1, <1>2, PTL DEF Spec

\* The table, the memo, the requests and the client keep their types.
THEOREM TypeCorrect == Spec => []TypeOK
<1>1. Inv => TypeOK
  BY DEF Inv
<1>. QED
  BY <1>1, Invariance, PTL

\* DeleteUpTo never removes a message that the device has not taken and no token
\* it took has overtaken, whichever requests race, fail between two batches, or come with an old token.
THEOREM NothingDeletedEarly == Spec => []DeletedWasTaken
<1>1. Inv => DeletedWasTaken
  BY DEF Inv
<1>. QED
  BY <1>1, Invariance, PTL

---------------------------------------------------------------------------
(* The device sees a mailbox.                                              *)

\* What the mailbox holds: what has committed, is not taken, and no token passes.
Pending == Committed \ (Taken \cup overtaken \cup Passing)

\* The mailbox counts as the model does.
LEMMA SameCount == \A S : Box!Cardinality(S) = Cardinality(S)
BY DEF Box!Cardinality, Cardinality, Box!IsFiniteSet, IsFiniteSet

\* What waits in the mailbox is after everything that was taken.
LEMMA PendingIsLater ==
  Inv => \A m \in Pending : m \in 1 .. MaxId /\ m \in Nat /\ client.since < m
<1>. SUFFICES ASSUME Inv
              PROVE  \A m \in Pending : m \in 1 .. MaxId /\ m \in Nat /\ client.since < m
  OBVIOUS
<1>1. client.since \in Nat /\ Taken \cup overtaken = 1 .. client.since
  BY DEF Inv, TypeOK, ClientKnows, Ids
<1>2. \A m \in Committed : m \in 1 .. MaxId /\ m \in Nat
  BY CommittedAreIds DEF Inv, Ids
<1>3. \A m \in Pending : m \in Committed /\ m \notin 1 .. client.since
  BY <1>1 DEF Pending
<1>. QED
  BY <1>1, <1>2, <1>3

\* A step that hands nothing over and takes nothing out of the mailbox at most puts
\* messages in: new ones, or those that a lost response would have passed over.
LEMMA PutStep ==
  ASSUME Inv, Inv', client'.took = client.took, Pending \subseteq Pending'
  PROVE  Box!Next
<1>. DEFINE new == Pending' \ Pending
<1>0. \A m \in Pending' : m \in 1 .. MaxId /\ m \in Nat /\ client'.since < m
  <2>1. (\A m \in Pending : m \in 1 .. MaxId /\ m \in Nat /\ client.since < m)'
    BY PendingIsLater, PTL
  <2>. QED
    BY <2>1
<1>1. new \in SUBSET ((1 .. MaxId) \ Pending)
  BY <1>0
<1>2. ASSUME NEW k \in DOMAIN client.took, NEW m \in new
      PROVE  client.took[k] < m
  <2>1. client'.took[k] \in Taken'
    BY DEF Taken
  <2>2. client'.took[k] \in 1 .. client'.since /\ client'.since \in Nat
    BY <2>1 DEF Inv, TypeOK, ClientKnows, Ids
  <2>3. m \in Nat /\ client'.since < m
    BY <1>0
  <2>. QED
    BY <2>2, <2>3
<1>3. Pending' = Pending \cup new
  OBVIOUS
<1>. HIDE DEF new
<1>4. Box!Put(new)
  BY <1>2, <1>3 DEF Box!Put, Pending
<1>. QED
  BY <1>1, <1>4 DEF Box!Next, Pending

\* A step of one request that hands nothing over takes nothing out of the mailbox:
\* what a page it reads passes over has not committed.
LEMMA RequestPuts ==
  ASSUME TypeOK, NEW i \in Slots,
         slots' = [slots EXCEPT ![i] = slots'[i]],
         UNCHANGED <<synapse, overtaken>>,
         client'.took = client.took, client'.slot \in {client.slot, None, i},
         slots'[i].stage = "built" => slots'[i].open \subseteq inFlight
  PROVE  Pending \subseteq Pending'
<1>1. Committed' = Committed /\ Taken' = Taken /\ overtaken' = overtaken
  BY DEF synapse, Committed, Taken
<1>2. slots \in [Slots -> Requests \cup {Idle}]
  BY DEF TypeOK
<1>3. ASSUME NEW m \in Committed, m \in Passing'
      PROVE  m \in Passing
  <2>1. PICK j \in Slots : client'.slot = j /\ slots'[j].stage = "built" /\ m \in slots'[j].open
    BY <1>3 DEF Passing
  <2>2. j # i
    BY <2>1 DEF Committed
  <2>3. client.slot = j /\ slots'[j] = slots[j]
    BY <1>2, <2>1, <2>2, NoneAssumption
  <2>. QED
    BY <2>1, <2>3 DEF Passing
<1>. QED
  BY <1>1, <1>3 DEF Pending

\* A response that is taken is the oldest messages there are, in order.
LEMMA AnswerTakes ==
  ASSUME Inv, NEW i \in Slots, Answer(i), client.slot = i
  PROVE  Box!Next \/ UNCHANGED Box!vars
<1>. DEFINE q == slots[i]
            page == q.page
            n == Cardinality(page)
<1>1. TypeOK /\ client \in ClientType /\ slots \in [Slots -> Requests \cup {Idle}]
  BY DEF Inv, TypeOK, ClientType
<1>2. q \in Built /\ q.stage = "built"
  BY <1>1, RequestShape DEF Answer
<1>3. /\ page = ((client.since + 1) .. q.next) \ q.open /\ page \subseteq Committed
      /\ q.open \subseteq (client.since + 1) .. q.next
  BY <1>2 DEF Inv, RequestOwned, Accounts
<1>4. client'.took = client.took \o InOrder(page)
  BY DEF Answer
<1>5. client.took \in Seq(Ids) /\ page \in SUBSET Ids /\ q.next \in Nat /\ client.since \in Nat
  BY <1>1, <1>2 DEF ClientType, Built, Ids
<1>6. /\ Committed' = Committed /\ Taken' = Taken \cup page
      /\ Passing = q.open /\ Passing' = {} /\ overtaken' = overtaken \cup q.open
  <2>1. Committed' = Committed /\ overtaken' = overtaken \cup q.open
    BY DEF Answer, synapse, Committed
  <2>2. Passing = q.open
    BY <1>2 DEF Passing
  <2>3. Passing' = {}
    <3>1. client'.slot = None
      BY DEF Answer
    <3>. QED
      BY <3>1, NoneAssumption DEF Passing
  <2>. HIDE DEF q, page
  <2>4. Taken' = Taken \cup page
    <3>. DEFINE t == client.took \o InOrder(page)
    <3>1. {t[k] : k \in DOMAIN t} = Taken \cup page
      BY <1>5, TakesPage DEF Taken
    <3>. HIDE DEF t
    <3>2. client'.took = t
      BY <1>4 DEF t
    <3>. QED
      BY <3>1, <3>2 DEF Taken
  <2>. QED
    BY <2>1, <2>2, <2>3, <2>4
<1>7. Taken \cup overtaken = 1 .. client.since
  BY DEF Inv, ClientKnows
<1>8. \A m \in Committed : m \in Nat /\ m \in 0 .. MaxId /\ m # 0
  BY <1>1, CommittedAreIds DEF Ids
<1>9. MaxId \in Nat /\ Pending \in SUBSET (0 .. MaxId) /\ page \in SUBSET Pending
  <2>1. \A m \in page : m \in Committed /\ m \notin 1 .. client.since /\ m \notin q.open
    BY <1>3, <1>5
  <2>. HIDE DEF q, page
  <2>. QED
    BY <2>1, <1>1, <1>6, <1>7, <1>8, CommittedAreIds DEF Pending
<1>10. \A m \in Pending : m \in Nat /\ (m \in page <=> m <= q.next)
  <2>1. \A m \in Pending : m \in Nat /\ client.since < m /\ m \notin q.open
    <3>. HIDE DEF q
    <3>. QED
      BY <1>6, PendingIsLater DEF Pending
  <2>. QED
    BY <2>1, <1>3, <1>5
<1>. HIDE DEF q, page
<1>11. IsFiniteSet(Pending) /\ IsFiniteSet(page) /\ n \in Nat /\ Cardinality(Pending) \in Nat /\ n <= Cardinality(Pending)
  BY <1>9, IdsFinite, FS_Subset
<1>12. /\ InOrder(page) \in [1 .. n -> page] /\ Increasing(InOrder(page))
  BY <1>5, <1>9, InOrderSorts DEF Ids
<1>13. Pending' = Pending \ page
  BY <1>6 DEF Pending
<1>14. CASE page = {}
  <2>1. n = 0
    BY <1>14, FS_EmptySet
  <2>2. InOrder(page) = <<>>
    <3>1. DOMAIN InOrder(page) = {} /\ InOrder(page) \in Seq(Ids)
      BY <1>12, <1>14, <2>1, IsASeq
    <3>. QED
      BY <3>1, EmptySeq, LenProperties
  <2>3. client'.took = client.took
    BY <2>2, <1>4, <1>5, ConcatEmptySeq
  <2>. QED
    BY <2>3, <1>13, <1>14 DEF Box!vars, Pending
<1>15. CASE page # {}
  <2>. DEFINE Upto(m) == {o \in Pending : o <= m}
  <2>1. n \in 1 .. Cardinality(Pending)
    <3>1. n # 0
      BY <1>11, <1>15, FS_EmptySet
    <3>. QED
      BY <3>1, <1>11
  <2>2. ASSUME NEW m \in page
        PROVE  Cardinality(Upto(m)) <= n
    <3>1. \A o \in Pending : o <= m => o \in page
      BY <1>5, <1>9, <1>10
    <3>2. Upto(m) \in SUBSET page
      BY <3>1
    <3>. QED
      BY <3>2, <1>11, FS_Subset
  <2>3. ASSUME NEW m \in Pending, m \notin page
        PROVE  ~(Cardinality(Upto(m)) <= n)
    <3>1. \A o \in page : o \in Pending /\ o <= m
      BY <1>5, <1>9, <1>10, <2>3
    <3>2. m <= m
      BY <1>10
    <3>3. page \cup {m} \in SUBSET Upto(m)
      BY <3>1, <3>2
    <3>4. Upto(m) \in SUBSET (0 .. MaxId)
      BY <1>9
    <3>5. IsFiniteSet(Upto(m)) /\ Cardinality(Upto(m)) \in Nat
      BY <3>4, <1>9, IdsFinite
    <3>6. Cardinality(page \cup {m}) = n + 1
      BY <1>11, <2>3, FS_AddElement
    <3>7. Cardinality(page \cup {m}) <= Cardinality(Upto(m))
      BY <3>3, <3>5, FS_Subset
    <3>. QED
      BY <3>5, <3>6, <3>7, <1>11
  <2>4. page = {m \in Pending : Cardinality(Upto(m)) <= n}
    <3>1. \A m \in Pending : m \in page <=> Cardinality(Upto(m)) <= n
      BY <2>2, <2>3
    <3>. HIDE DEF Upto
    <3>. QED
      BY <3>1, <1>9
  <2>5. \E s \in [1 .. n -> page] :
          /\ \A k, j \in DOMAIN s : k < j => s[k] < s[j]
          /\ client'.took = client.took \o s
    BY <1>4, <1>12 DEF Increasing
  <2>6. Box!Take(n)
    <3>. HIDE DEF n
    <3>1. page = {m \in Pending : Box!Cardinality({o \in Pending : o <= m}) <= n}
      BY <2>4, SameCount
    <3>2. Box!Cardinality(page) = n
      BY SameCount DEF n
    <3>. QED
      BY <2>5, <1>13, <3>1, <3>2 DEF Box!Take, Pending
  <2>. QED
    BY <2>1, <2>6, SameCount DEF Box!Next, Pending
<1>. QED
  BY <1>14, <1>15

\* Every step of the requests is a step of the mailbox or leaves it alone.
LEMMA StepIsMailboxStep ==
  ASSUME Inv, Inv', [Next]_vars
  PROVE  Box!Next \/ UNCHANGED Box!vars
<1>0. TypeOK /\ client \in ClientType /\ slots \in [Slots -> Requests \cup {Idle}]
  BY DEF Inv, TypeOK, ClientType
<1>1. ASSUME Committed \subseteq Committed', UNCHANGED <<slots, client, overtaken>>
      PROVE  Box!Next
  <2>1. Pending \subseteq Pending'
    BY <1>1 DEF Pending, Taken, Passing
  <2>. QED
    BY <1>1, <2>1, PutStep
<1>2. CASE Begin \/ Replication \/ Evict \/ \E id \in 1 .. MaxId : Commit(id)
  <2>1. Committed \subseteq Committed'
    BY <1>0, <1>2, CommittedAreIds DEF Begin, Replication, Evict, Commit, synapse, Committed
  <2>. QED
    BY <1>1, <1>2, <2>1 DEF Begin, Replication, Evict, Commit
<1>3. CASE UNCHANGED vars
  BY <1>3 DEF vars, Box!vars, Committed, Taken, Passing
<1>4. ASSUME NEW i \in Slots, UNCHANGED <<synapse, overtaken>>,
             slots' = [slots EXCEPT ![i] = slots'[i]], client'.took = client.took,
             client'.slot \in {client.slot, None, i},
             slots'[i].stage = "built" => slots'[i].open \subseteq inFlight
      PROVE  Box!Next
  BY <1>0, <1>4, RequestPuts, PutStep
<1>5. ASSUME NEW i \in Slots,
             \/ \E api \in APIs : Send(i, api)
             \/ \E api \in APIs, since \in 1 .. MaxId : Compare(i, api, since)
             \/ FindBatch(i) \/ DeleteBatch(i) \/ Cleared(i) \/ DeleteFails(i)
             \/ PollAgain(i) \/ Fail(i)
      PROVE  Box!Next
  <2>1. UNCHANGED <<synapse, overtaken>>
    BY <1>5 DEF Send, Compare, FindBatch, DeleteBatch, Cleared, DeleteFails, PollAgain, Fail
  <2>2. client'.took = client.took /\ client'.slot \in {client.slot, None, i}
    BY <1>0, <1>5 DEF Send, Compare, FindBatch, DeleteBatch, Cleared, DeleteFails, PollAgain, Fail,
       ClientType
  <2>3. slots' = [slots EXCEPT ![i] = slots'[i]]
    BY <1>0, <1>5 DEF Send, Compare, FindBatch, DeleteBatch, Cleared, DeleteFails, PollAgain, Fail
  <2>4. slots'[i].stage # "built"
    <3>1. CASE \/ \E api \in APIs : Send(i, api)
               \/ \E api \in APIs, since \in 1 .. MaxId : Compare(i, api, since)
               \/ PollAgain(i) \/ Fail(i) \/ DeleteFails(i)
      BY <1>0, <3>1 DEF Send, Compare, PollAgain, Fail, DeleteFails, Started, Idle
    <3>2. CASE FindBatch(i)
      <4>1. slots[i] \in Working
        BY <1>0, <3>2, RequestShape DEF FindBatch
      <4>. QED
        BY <1>0, <3>2, <4>1 DEF FindBatch, Working
    <3>3. CASE DeleteBatch(i)
      BY <1>0, <3>3 DEF DeleteBatch
    <3>4. CASE Cleared(i)
      <4>1. slots[i] \in Working
        BY <1>0, <3>4, RequestShape DEF Cleared
      <4>. QED
        BY <1>0, <3>4, <4>1 DEF Cleared, Working
    <3>. QED
      BY <1>5, <3>1, <3>2, <3>3, <3>4
  <2>. QED
    BY <2>1, <2>2, <2>3, <2>4, <1>4
<1>6. ASSUME NEW i \in Slots, NEW now \in 0 .. MaxId, Read(i, now)
      PROVE  Box!Next
  <2>1. slots' = [slots EXCEPT ![i] = slots'[i]] /\ slots'[i].open \subseteq inFlight
    BY <1>0, <1>6 DEF Read
  <2>2. UNCHANGED <<synapse, overtaken, client>>
    BY <1>6 DEF Read
  <2>. QED
    BY <2>1, <2>2, <1>4
<1>7. ASSUME NEW i \in Slots, Answer(i)
      PROVE  Box!Next \/ UNCHANGED Box!vars
  <2>1. CASE client.slot = i
    BY <1>7, <2>1, AnswerTakes
  <2>2. CASE client.slot # i
    <3>1. slots' = [slots EXCEPT ![i] = slots'[i]] /\ slots'[i].stage # "built"
      BY <1>0, <1>7 DEF Answer, Idle
    <3>2. UNCHANGED <<synapse, overtaken, client>>
      BY <1>7, <2>2 DEF Answer
    <3>. QED
      BY <3>1, <3>2, <1>4
  <2>. QED
    BY <2>1, <2>2
<1>. QED
  BY <1>2, <1>3, <1>5, <1>6, <1>7 DEF Next

\* The to-device messages reach the device as from a mailbox: each once, oldest
\* first, none passed over but those a token overtook, whatever is lost, raced,
\* retried or deleted.
THEOREM RefinesMailbox == Spec => Implements
<1>1. Init => Box!Init
  BY DEF Init, Box!Init, Committed, Taken
<1>2. Inv /\ Inv' /\ [Next]_vars => [Box!Next]_(Box!vars)
  BY StepIsMailboxStep
<1>. QED
  BY <1>1, <1>2, Invariance, PTL DEF Spec, Implements, Box!Spec

---------------------------------------------------------------------------
(* While every token comes from what a writer announced.                   *)

\* No token has passed an open message, nor will one that is on its way.
NothingPassed ==
  /\ overtaken = {}
  /\ \A i \in Slots : slots[i].stage = "built" => slots[i].open = {}

\* A page that is read while replication is live passes over nothing.
LEMMA LiveRead ==
  ASSUME Inv, NothingPassed, live, NEW i \in Slots, NEW now \in 0 .. MaxId, Read(i, now)
  PROVE  slots'[i].open = {}
<1>. DEFINE q == slots[i]
            to == Max({now, q.since})
            next == NextBatch(Page(q.since, to), to)
<1>1. TypeOK /\ slots \in [Slots -> Requests \cup {Idle}] /\ client.since \in Nat /\ client.since <= lastId
  BY DEF Inv, TypeOK, ClientKnows, Ids
<1>2. q \in Working /\ q # Idle
  BY <1>1, RequestShape DEF Read, Idle
<1>3. q.since \in Ids /\ now \in Ids /\ MaxId \in Nat /\ q.since <= client.since
  BY <1>1, <1>2, CommittedAreIds DEF Working, Ids, Inv, RequestOld
<1>4. ASSUME NEW m \in inFlight
      PROVE  m \in Nat /\ now < m /\ q.since < m
  <2>1. m \in Nat /\ m # 0 /\ m \notin Committed
    BY <1>1, CommittedAreIds DEF Committed
  <2>2. now < m
    BY <1>1, <1>3, HeardIsSettled DEF Read
  <2>3. m \notin 1 .. client.since
    BY <2>1 DEF Inv, ClientKnows, NothingPassed
  <2>. QED
    BY <1>1, <1>3, <2>1, <2>2, <2>3 DEF Ids
<1>5. to \in {now, q.since} /\ to \in Ids /\ q.since <= to
  BY <1>3, LaterOfTwo DEF Ids
<1>. HIDE DEF to
<1>6. next \in Ids /\ next <= to
  BY <1>1, <1>3, <1>5, PageIsWindow
<1>7. slots'[i].open = {m \in inFlight : q.since < m /\ m <= next}
  BY <1>1 DEF Read, to
<1>. HIDE DEF q, next
<1>8. \A m \in inFlight : ~(m <= next)
  BY <1>3, <1>4, <1>5, <1>6 DEF Ids
<1>. QED
  BY <1>7, <1>8

\* Nothing is passed over as long as replication stays live.
LEMMA LiveStep ==
  ASSUME Inv, NothingPassed, live, [Next]_vars
  PROVE  NothingPassed'
<1>0. TypeOK /\ slots \in [Slots -> Requests \cup {Idle}]
  BY DEF Inv, TypeOK
<1>1. CASE Begin \/ Replication \/ Evict \/ (\E id \in 1 .. MaxId : Commit(id)) \/ UNCHANGED vars
  BY <1>1 DEF Begin, Replication, Evict, Commit, vars, NothingPassed
<1>2. ASSUME NEW i \in Slots, overtaken' = overtaken, slots' = [slots EXCEPT ![i] = slots'[i]],
             slots'[i].stage # "built" \/ slots'[i].open = {}
      PROVE  NothingPassed'
  <2>1. \A j \in Slots : j # i => slots'[j] = slots[j]
    BY <1>0, <1>2
  <2>. QED
    BY <1>2, <2>1 DEF NothingPassed
<1>3. ASSUME NEW i \in Slots,
             \/ \E api \in APIs : Send(i, api)
             \/ \E api \in APIs, since \in 1 .. MaxId : Compare(i, api, since)
             \/ PollAgain(i) \/ Fail(i) \/ DeleteFails(i) \/ DeleteBatch(i)
      PROVE  NothingPassed'
  <2>1. overtaken' = overtaken /\ slots' = [slots EXCEPT ![i] = slots'[i]] /\ slots'[i].stage # "built"
    BY <1>0, <1>3 DEF Send, Compare, PollAgain, Fail, DeleteFails, DeleteBatch, Started, Idle
  <2>. QED
    BY <2>1, <1>2
<1>4. ASSUME NEW i \in Slots, FindBatch(i) \/ Cleared(i)
      PROVE  NothingPassed'
  <2>1. slots[i] \in Working
    BY <1>0, <1>4, RequestShape DEF FindBatch, Cleared
  <2>2. overtaken' = overtaken /\ slots' = [slots EXCEPT ![i] = slots'[i]] /\ slots'[i].stage # "built"
    BY <1>0, <1>4, <2>1 DEF FindBatch, Cleared, Working
  <2>. QED
    BY <2>2, <1>2
<1>5. ASSUME NEW i \in Slots, NEW now \in 0 .. MaxId, Read(i, now)
      PROVE  NothingPassed'
  <2>1. overtaken' = overtaken /\ slots' = [slots EXCEPT ![i] = slots'[i]]
    BY <1>0, <1>5 DEF Read
  <2>. QED
    BY <2>1, <1>2, <1>5, LiveRead
<1>6. ASSUME NEW i \in Slots, Answer(i)
      PROVE  NothingPassed'
  <2>1. slots' = [slots EXCEPT ![i] = slots'[i]] /\ slots'[i].stage # "built"
    BY <1>0, <1>6 DEF Answer, Idle
  <2>2. overtaken' = overtaken
    BY <1>6 DEF Answer, NothingPassed
  <2>. QED
    BY <2>1, <2>2, <1>2
<1>. QED
  BY <1>1, <1>3, <1>4, <1>5, <1>6 DEF Next

\* As long as every token is a position a writer announced, whatever DeleteUpTo
\* removes the device holds, and the mailbox has every message that has committed.
THEOREM NothingLostWhileLive ==
  Spec /\ []live => [](DeletedWasHeld /\ Pending = Committed \ Taken)
<1>1. Init => NothingPassed
  BY DEF Init, NothingPassed, Idle
<1>2. Inv /\ NothingPassed /\ live /\ [Next]_vars => NothingPassed'
  BY LiveStep
<1>3. Inv /\ NothingPassed => DeletedWasHeld /\ Pending = Committed \ Taken
  <2>. SUFFICES ASSUME Inv, NothingPassed
                PROVE  DeletedWasHeld /\ Pending = Committed \ Taken
    OBVIOUS
  <2>1. overtaken = {} /\ Passing = {}
    BY DEF NothingPassed, Passing
  <2>. QED
    BY <2>1 DEF Inv, DeletedWasTaken, DeletedWasHeld, Pending
<1>. QED
  BY <1>1, <1>2, <1>3, Invariance, PTL DEF Spec

=============================================================================
