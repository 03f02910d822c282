-------------------------- MODULE SlidingSyncProofs --------------------------
(***************************************************************************)
(* A sliding sync connection keeps its promise, for every number of rooms, *)
(* positions, requests under way and timeline limits: what it counts as    *)
(* sent the client was told, but for the feeds an answer stepped over, and *)
(* its cursors never go back.                                              *)
(***************************************************************************)
EXTENDS SlidingSync, OrderLemmas, SequenceTheorems

\* The client that awaits slot i has what that request came with.
ClientFits ==
  /\ client.token = None => client.pos = 0
  /\ \A i \in Slots :
       Owned(i) =>
         /\ slots[i].stage \in {"loaded", "built"}
         /\ slots[i].pos = client.pos /\ slots[i].from = client.token

\* A state under a token tells the truth: its cursors are covered by what the client
\* was told, but for the feeds that were stepped over, and a room that fell behind did
\* so no later than the token.
Covered(items, state, token, told, missed) ==
  \A s \in Streams, r \in Rooms :
    LET c == CursorOf(state, token, s, r)
    IN c # None /\ <<s, r>> \notin missed =>
         {p \in 0 + 1 .. c : items[p].stream = s /\ items[p].room = r} \subseteq told
Honest(state, token, told, missed) == Covered(log, state, token, told, missed)

Behind(state, token) ==
  \A s \in Streams, r \in Rooms :
    state.status[s][r] # Never =>
      token # None /\ (state.status[s][r] # Live => state.status[s][r].token <= token)

\* From one state and token to the next no cursor falls.
NotBack(old, from, new, now) ==
  \A s \in Streams, r \in Rooms :
    CursorOf(old, from, s, r) # None /\ CursorOf(new, now, s, r) # None =>
      CursorOf(new, now, s, r) >= CursorOf(old, from, s, r)

StoreFits ==
  client.pos \in DOMAIN db =>
    /\ Honest(db[client.pos], client.token, client.told, client.missed)
    /\ Behind(db[client.pos], client.token)

\* A request works on the state it was loaded with; a position is never rewritten.
LoadedFits ==
  \A i \in Slots : Owned(i) /\ slots[i].stage = "loaded" =>
    /\ Honest(slots[i].prev, client.token, client.told, client.missed)
    /\ Behind(slots[i].prev, client.token)
    /\ client.pos = 0 => slots[i].prev = EmptyState
    /\ client.pos \in DOMAIN db => slots[i].prev = db[client.pos]

\* The answer that is about to reach the client makes the new position true.
BuiltFits ==
  \A i \in Slots : Owned(i) /\ slots[i].stage = "built" /\ slots[i].newPos \in DOMAIN db =>
    LET new == db[slots[i].newPos]
    IN /\ Honest(new, slots[i].now, client.told \cup slots[i].res.told, client.missed \cup slots[i].missed)
       /\ Behind(new, slots[i].now)
       /\ client.pos \in DOMAIN db => NotBack(db[client.pos], client.token, new, slots[i].now)

\* While the user is out of a room nothing is written to it.
NoNewsAway == \A p \in 1 .. Len(log) : log[p].kind = "message" => Joined(log[p].room, p - 1)

\* The inductive invariant.
Inv == TypeOK /\ ClientFits /\ StoreFits /\ LoadedFits /\ BuiltFits /\ NoNewsAway

\* What the theorems are about: nothing is written to a room while the user is out of it.
Steady == ~Away

---------------------------------------------------------------------------
(* The items of a room.                                                    *)

LEMMA LogType ==
  ASSUME TypeOK
  PROVE  /\ Len(log) \in Nat /\ Len(log) <= MaxPos /\ MaxPos \in Nat
         /\ \A p \in 1 .. Len(log) : /\ log[p] \in Writes
                                     /\ log[p].stream \in Streams /\ log[p].room \in Rooms
                                     /\ log[p].kind \in {"message", "leave", "join"}
<1>1. Len(log) \in Nat /\ Len(log) <= MaxPos /\ MaxPos \in Nat /\ \A p \in 1 .. Len(log) : log[p] \in Writes
  BY BoundsAssumption DEF TypeOK
<1>. QED
  BY <1>1, WritesAssumption

\* The items up to a position are those up to an earlier one and those in between.
LEMMA ItemsSplit ==
  ASSUME NEW s, NEW r, NEW a \in Nat, NEW b \in Nat
  PROVE  /\ ItemsOf(s, r, 0, b) \subseteq ItemsOf(s, r, 0, a) \cup ItemsOf(s, r, a, b)
         /\ a <= b => ItemsOf(s, r, 0, a) \subseteq ItemsOf(s, r, 0, b)
<1>1. \A p \in 0 + 1 .. b : p \in 0 + 1 .. a \/ p \in a + 1 .. b
  OBVIOUS
<1>2. a <= b => \A p \in 0 + 1 .. a : p \in 0 + 1 .. b
  OBVIOUS
<1>. QED
  BY <1>1, <1>2 DEF ItemsOf

LEMMA HonestMeans ==
  ASSUME NEW state, NEW token, NEW told, NEW missed
  PROVE  Honest(state, token, told, missed) <=>
           \A s \in Streams, r \in Rooms :
             CursorOf(state, token, s, r) # None /\ <<s, r>> \notin missed =>
               ItemsOf(s, r, 0, CursorOf(state, token, s, r)) \subseteq told
BY DEF Honest, Covered, ItemsOf

LEMMA ItemsType ==
  ASSUME TypeOK, NEW s, NEW r, NEW a \in Nat, NEW b \in 0 .. Len(log)
  PROVE  /\ ItemsOf(s, r, a, b) \in SUBSET (1 .. Len(log))
         /\ OwnChanges(r, a, b) \in SUBSET (1 .. Len(log))
<1>1. \A p \in a + 1 .. b : p \in 1 .. Len(log)
  BY LogType
<1>. QED
  BY <1>1 DEF ItemsOf, OwnChanges

\* The last of the user's own membership events.
LEMMA LastOwn ==
  ASSUME TypeOK, NEW r, NEW a \in Nat, NEW b \in 0 .. Len(log), OwnChanges(r, a, b) # {}
  PROVE  /\ Max(OwnChanges(r, a, b)) \in OwnChanges(r, a, b)
         /\ \A p \in OwnChanges(r, a, b) : p <= Max(OwnChanges(r, a, b))
<1>1. OwnChanges(r, a, b) \in SUBSET (1 .. Len(log)) /\ Len(log) \in Nat
  BY ItemsType, LogType
<1>2. OwnChanges(r, a, b) \in SUBSET (0 .. Len(log))
  BY <1>1
<1>. QED
  BY <1>1, <1>2, MaxIsHighest

\* A room the user is out of had its last event when the user left it.
LEMMA NothingAfterLeaving ==
  ASSUME TypeOK, NoNewsAway, NEW r, NEW now \in 0 .. Len(log), ~Joined(r, now)
  PROVE  LET last == Max(OwnChanges(r, 0, now))
         IN /\ OwnChanges(r, 0, now) # {} /\ last \in OwnChanges(r, 0, now) /\ last \in 1 .. now
            /\ ItemsOf("rooms", r, last, now) = {}
<1>. DEFINE own == OwnChanges(r, 0, now)
            last == Max(own)
<1>1. own # {} /\ log[last].kind # "join"
  BY DEF Joined
<1>2. 0 \in Nat /\ now \in Nat /\ Len(log) \in Nat
  BY LogType
<1>3. last \in own /\ \A p \in own : p <= last
  BY <1>1, <1>2, LastOwn
<1>4. \A p : p \in own <=> p \in 1 .. now /\ log[p].stream = "rooms" /\ log[p].room = r /\ log[p].kind # "message"
  BY DEF OwnChanges, ItemsOf
<1>. HIDE DEF own, last
<1>5. last \in 1 .. now /\ last \in Nat
  BY <1>3, <1>4
<1>6. ASSUME NEW p \in ItemsOf("rooms", r, last, now)
      PROVE  FALSE
  <2>1. p \in last + 1 .. now /\ log[p].stream = "rooms" /\ log[p].room = r
    BY DEF ItemsOf
  <2>2. p \in 1 .. now /\ p > last /\ p \in 1 .. Len(log) /\ p \in Nat /\ p - 1 \in Nat /\ p - 1 <= now
    BY <2>1, <1>2, <1>5
  <2>3. log[p].kind = "message"
    BY <2>1, <2>2, <1>3, <1>4, <1>5
  <2>4. Joined(r, p - 1)
    BY <2>1, <2>2, <2>3 DEF NoNewsAway
  <2>. DEFINE before == OwnChanges(r, 0, p - 1)
  <2>5. \A x : x \in before <=> x \in 1 .. p - 1 /\ log[x].stream = "rooms" /\ log[x].room = r /\ log[x].kind # "message"
    BY DEF OwnChanges, ItemsOf
  <2>. HIDE DEF before
  <2>6. \A x \in 1 .. now : x \in 1 .. p - 1 \/ x > last
    BY <2>2, <1>2, <1>5
  <2>7. \A x \in 1 .. p - 1 : x \in 1 .. now /\ x \in Nat
    BY <2>2, <1>2
  <2>8. last \in 1 .. p - 1
    BY <2>2, <1>5
  <2>9. \A x \in own : x \in Nat
    BY <1>4
  <2>10. before = own
    <3>1. \A x \in own : x \in 1 .. p - 1
      BY <2>6, <2>9, <1>3, <1>4, <1>5
    <3>2. \A x : x \in own <=> x \in before
      BY <3>1, <2>5, <2>7, <1>4
    <3>. QED
      BY <3>2
  <2>11. log[last].kind = "join"
    BY <2>4, <2>10, <1>1 DEF Joined, before, last
  <2>. QED
    BY <2>11, <1>1
<1>. QED
  BY <1>1, <1>3, <1>5, <1>6 DEF own, last

\* A room that is not of the user has nothing in its window.
LEMMA NothingOutside ==
  ASSUME TypeOK, NoNewsAway, NEW r \in Rooms, NEW now \in 0 .. Len(log), NEW from \in 0 .. now,
         r \notin Membership(from, now)
  PROVE  ItemsOf("rooms", r, from, now) = {}
<1>. DEFINE own == OwnChanges(r, 0, now)
            last == Max(own)
            new == OwnChanges(r, from, now)
<1>1. ~Joined(r, now) /\ ~Newly("leave", r, from, now)
  BY DEF Membership
<1>2. own # {} /\ last \in own /\ last \in 1 .. now /\ ItemsOf("rooms", r, last, now) = {} /\ log[last].kind # "join"
  BY <1>1, NothingAfterLeaving DEF Joined
<1>3. from \in Nat /\ now \in Nat /\ Len(log) \in Nat /\ 0 \in Nat /\ from # None
  BY LogType, NoneAssumption
<1>4. \A p : p \in own <=> p \in 1 .. now /\ log[p].stream = "rooms" /\ log[p].room = r /\ log[p].kind # "message"
  BY DEF OwnChanges, ItemsOf
<1>5. \A p : p \in new <=> p \in from + 1 .. now /\ log[p].stream = "rooms" /\ log[p].room = r /\ log[p].kind # "message"
  BY DEF OwnChanges, ItemsOf
<1>6. \A p \in own : p <= last
  BY <1>2, <1>3, LastOwn
<1>7. new # {} => Max(new) \in new /\ \A p \in new : p <= Max(new)
  BY <1>3, LastOwn
<1>8. new # {} => log[Max(new)].kind # "leave"
  BY <1>1, <1>3 DEF Newly
<1>9. log[last].kind = "leave"
  <2>1. last \in 1 .. Len(log) /\ log[last].kind # "message"
    BY <1>2, <1>3, <1>4
  <2>. QED
    BY <2>1, <1>2, LogType
<1>. HIDE DEF own, last, new
<1>10. ~(last > from)
  <2>1. SUFFICES ASSUME last > from PROVE FALSE
    OBVIOUS
  <2>2. last \in new
    BY <2>1, <1>2, <1>3, <1>4, <1>5
  <2>3. Max(new) \in new /\ last <= Max(new)
    BY <2>2, <1>7
  <2>4. \A p \in from + 1 .. now : p \in 1 .. now /\ p \in Nat
    BY <1>3
  <2>5. Max(new) \in own /\ Max(new) \in Nat
    BY <2>3, <2>4, <1>4, <1>5
  <2>6. Max(new) = last
    BY <2>3, <2>5, <1>2, <1>6
  <2>. QED
    BY <2>2, <2>6, <1>8, <1>9
<1>11. \A p \in from + 1 .. now : p \in last + 1 .. now
  BY <1>2, <1>3, <1>10
<1>. QED
  BY <1>2, <1>11 DEF ItemsOf

---------------------------------------------------------------------------
(* The response that is built from a state is honest about the next one.   *)

Queries == [req : Requests, pos : Positions, from : Tokens, prev : States, now : 0 .. Len(log)]

\* A request as Build finds it, on behalf of a client that was told this much.
Asked(q, told, missed) ==
  /\ q \in Queries /\ (q.from # None => q.from <= q.now)
  /\ Honest(q.prev, q.from, told, missed) /\ Behind(q.prev, q.from)

LEMMA QueryType ==
  ASSUME TypeOK, NEW q, NEW told, NEW missed, Asked(q, told, missed)
  PROVE  /\ q.req \in Requests /\ q.req.window \in SUBSET Rooms /\ q.req.limit \in Nat
         /\ q.prev \in States /\ q.now \in 0 .. Len(log) /\ q.now \in Nat /\ Len(log) \in Nat
         /\ q.from # None => q.from \in 0 .. q.now /\ q.from \in Nat /\ q.from <= q.now
         /\ q.from \in 0 .. Len(log) \cup {None}
<1>1. q \in Queries /\ Len(log) \in Nat /\ (q.from # None => q.from <= q.now)
  BY LogType DEF Asked
<1>2. q.req \in Requests /\ q.prev \in States /\ q.now \in 0 .. Len(log) /\ q.from \in 0 .. Len(log) \cup {None}
  BY <1>1 DEF Queries, Tokens
<1>3. q.req.window \in SUBSET Rooms /\ q.req.limit \in Nat
  BY <1>2, RequestsAssumption
<1>. QED
  BY <1>1, <1>2, <1>3

\* HaveSent: never, live, or previously with the token it was left at.
LEMMA StatusIs ==
  ASSUME NEW state \in States, NEW s \in Streams, NEW r \in Rooms
  PROVE  LET status == state.status[s][r]
         IN /\ status \in Statuses
            /\ \/ status = Never
               \/ status = Live
               \/ /\ status # Never /\ status # Live /\ status.flag = "previously"
                  /\ status.token \in 0 .. MaxPos /\ status = Previously(status.token)
            /\ Live.flag # "previously" /\ Live # Never /\ Never.flag # "previously"
            /\ state.limit[r] \in Nat \cup {None}
<1>1. state.status[s][r] \in Statuses /\ state.limit[r] \in Nat \cup {None}
  BY DEF States
<1>. QED
  BY <1>1 DEF Statuses, Never, Live, Previously

\* An honest state, room by room.
LEMMA HonestOfRoom ==
  ASSUME TypeOK, NEW q, NEW told, NEW missed, Asked(q, told, missed), NEW s \in Streams, NEW r \in Rooms,
         <<s, r>> \notin missed, s = "rooms" => q.prev.limit[r] # 0
  PROVE  LET status == q.prev.status[s][r]
         IN status # Never =>
              /\ q.from # None /\ Bound(q, s, r) \in 0 .. q.from
              /\ ItemsOf(s, r, 0, Bound(q, s, r)) \subseteq told
<1>. DEFINE status == q.prev.status[s][r]
<1>1. q.prev \in States /\ MaxPos \in Nat /\ (q.from # None => q.from \in Nat)
  BY QueryType, BoundsAssumption
<1>2. SUFFICES ASSUME status # Never
               PROVE  /\ q.from # None /\ Bound(q, s, r) \in 0 .. q.from
                      /\ ItemsOf(s, r, 0, Bound(q, s, r)) \subseteq told
  OBVIOUS
<1>3. q.from # None /\ (status # Live => status.token <= q.from)
  BY <1>2 DEF Asked, Behind
<1>4. Bound(q, s, r) \in 0 .. q.from /\ Bound(q, s, r) = CursorOf(q.prev, q.from, s, r)
  <2>1. CASE status = Live
    BY <1>1, <1>2, <1>3, <2>1, StatusIs DEF Bound, CursorOf
  <2>2. CASE status # Live
    BY <1>1, <1>2, <1>3, <2>2, StatusIs DEF Bound, CursorOf
  <2>. QED
    BY <2>1, <2>2
<1>5. CursorOf(q.prev, q.from, s, r) # None
  BY <1>1, <1>3, <1>4, NoneAssumption
<1>6. ItemsOf(s, r, 0, CursorOf(q.prev, q.from, s, r)) \subseteq told
  BY <1>5, HonestMeans DEF Asked
<1>. QED
  BY <1>3, <1>4, <1>6

\* A room that is sent is told up to the token: its events, or that they are skipped.
LEMMA RoomIsTold ==
  ASSUME TypeOK, NoNewsAway, NEW q, NEW told, NEW missed, Asked(q, told, missed),
         NEW r \in Rooms, <<"rooms", r>> \notin missed, q.req.limit # 0
  PROVE  ItemsOf("rooms", r, 0, q.now) \subseteq told \cup ToldOfRoom(q, r)
<1>. DEFINE own == OwnChanges(r, 0, q.now)
            to == IF Joined(r, q.now) THEN q.now ELSE Max(own)
            found == IF Initial(q, r) \/ Expanded(q, r) THEN ItemsOf("rooms", r, 0, to)
                     ELSE ItemsOf("rooms", r, Bound(q, "rooms", r), to)
            page == {p \in found : Cardinality({o \in found : o >= p}) <= q.req.limit}
            all == ItemsOf("rooms", r, 0, q.now)
<1>1. /\ q.req.limit \in Nat /\ q.now \in 0 .. Len(log) /\ q.now \in Nat /\ q.prev \in States
      /\ q.from # None => q.from \in Nat
  BY QueryType
<1>2. "rooms" \in Streams
  BY StreamsAssumption
<1>3. to \in Nat /\ all \subseteq ItemsOf("rooms", r, 0, to)
  <2>1. CASE Joined(r, q.now)
    BY <1>1, <2>1
  <2>2. CASE ~Joined(r, q.now)
    <3>1. to \in 1 .. q.now /\ ItemsOf("rooms", r, to, q.now) = {}
      BY <1>1, <2>2, NothingAfterLeaving
    <3>2. to \in Nat
      BY <1>1, <3>1
    <3>. HIDE DEF to
    <3>. QED
      BY <1>1, <3>1, <3>2, ItemsSplit
  <2>. QED
    BY <2>1, <2>2
<1>4. Timeline(q, r).events = page /\ (Timeline(q, r).limited <=> q.req.limit > 0 /\ page # found)
  BY DEF Timeline
<1>. HIDE DEF page, all, to
<1>5. ToldOfRoom(q, r) = page \cup (IF Timeline(q, r).limited \/ Initial(q, r) THEN all ELSE {})
  BY <1>4 DEF ToldOfRoom, all
<1>6. CASE Timeline(q, r).limited \/ Initial(q, r)
  BY <1>5, <1>6 DEF all
<1>7. CASE ~Timeline(q, r).limited /\ ~Initial(q, r)
  <2>1. page = found
    BY <1>1, <1>4, <1>7
  <2>2. CASE Expanded(q, r)
    BY <1>3, <1>5, <2>1, <2>2 DEF all
  <2>3. CASE ~Expanded(q, r)
    <3>1. q.prev.limit[r] # 0 /\ q.prev.status["rooms"][r] # Never
      <4>1. q.from # None /\ ~Newly("join", r, q.from, q.now) /\ q.prev.status["rooms"][r] # Never
        BY <1>7 DEF Initial
      <4>2. ~(q.prev.limit[r] # None /\ q.prev.limit[r] < q.req.limit)
        BY <2>3, <4>1 DEF Expanded
      <4>. QED
        BY <1>1, <4>1, <4>2, NoneAssumption
    <3>2. q.from # None /\ Bound(q, "rooms", r) \in 0 .. q.from /\ ItemsOf("rooms", r, 0, Bound(q, "rooms", r)) \subseteq told
      BY <1>2, <3>1, HonestOfRoom
    <3>3. Bound(q, "rooms", r) \in Nat
      BY <1>1, <3>2
    <3>4. ItemsOf("rooms", r, 0, to) \subseteq ItemsOf("rooms", r, 0, Bound(q, "rooms", r)) \cup found
      BY <1>3, <1>7, <2>3, <3>3, ItemsSplit
    <3>. QED
      BY <1>3, <1>5, <2>1, <3>2, <3>4 DEF all
  <2>. QED
    BY <2>2, <2>3
<1>. QED
  BY <1>6, <1>7

\* So is what an extension sends of a relevant room.
LEMMA ExtensionIsTold ==
  ASSUME TypeOK, NEW q, NEW told, NEW missed, Asked(q, told, missed), NEW s \in Streams, s # "rooms",
         NEW relevant \in SUBSET Rooms, NEW sent, NEW r \in relevant, <<s, r>> \notin missed
  PROVE  ItemsOf(s, r, 0, q.now) \subseteq told \cup ToldOfExtension(q, s, relevant, sent)
<1>. DEFINE of(x) == IF FromScratch(q, s, x, sent) THEN ItemsOf(s, x, 0, q.now) ELSE ItemsOf(s, x, Bound(q, s, x), q.now)
<1>0. r \in Rooms /\ q.now \in Nat /\ (q.from # None => q.from \in Nat)
  BY QueryType
<1>1. ToldOfExtension(q, s, relevant, sent) = UNION {of(x) : x \in relevant}
  BY DEF ToldOfExtension
<1>. HIDE DEF of
<1>2. of(r) \subseteq ToldOfExtension(q, s, relevant, sent)
  BY <1>1
<1>3. CASE FromScratch(q, s, r, sent)
  BY <1>2, <1>3 DEF of
<1>4. CASE ~FromScratch(q, s, r, sent)
  <2>1. q.prev.status[s][r] # Never
    BY <1>4 DEF FromScratch
  <2>2. q.from # None /\ Bound(q, s, r) \in 0 .. q.from /\ ItemsOf(s, r, 0, Bound(q, s, r)) \subseteq told
    BY <1>0, <2>1, HonestOfRoom
  <2>3. Bound(q, s, r) \in Nat
    BY <1>0, <2>2
  <2>4. ItemsOf(s, r, 0, q.now) \subseteq ItemsOf(s, r, 0, Bound(q, s, r)) \cup ItemsOf(s, r, Bound(q, s, r), q.now)
    BY <1>0, <2>3, ItemsSplit
  <2>. QED
    BY <1>2, <1>4, <2>2, <2>4 DEF of
<1>. QED
  BY <1>3, <1>4

\* How a response may move what is recorded of one stream of one room.
Moved(q, next, told, missed, s, r) ==
  LET old == q.prev.status[s][r]
      new == next.status[s][r]
  IN \/ /\ new = Live
        /\ \/ s = "rooms" /\ next.limit[r] = 0
           \/ <<s, r>> \in missed \cup SteppedOver(q)
           \/ ItemsOf(s, r, 0, q.now) \subseteq told
     \/ q.from # None /\ old = Live /\ new = Previously(q.from) /\ (s = "rooms" => next.limit[r] = q.prev.limit[r])
     \/ new = old /\ new # Live /\ (s = "rooms" => next.limit[r] = q.prev.limit[r])

\* A live room with nothing new is told as far as the new token.
LEMMA LiveStays ==
  ASSUME TypeOK, NEW q, NEW told, NEW missed, Asked(q, told, missed), NEW s \in Streams, NEW r \in Rooms,
         <<s, r>> \notin missed, q.prev.status[s][r] = Live, ItemsOf(s, r, q.from, q.now) = {},
         s = "rooms" => q.prev.limit[r] # 0
  PROVE  ItemsOf(s, r, 0, q.now) \subseteq told
<1>1. q.prev \in States /\ q.now \in Nat /\ (q.from # None => q.from \in Nat) /\ Live # Never
  BY QueryType DEF Live, Never
<1>2. q.from # None /\ ItemsOf(s, r, 0, Bound(q, s, r)) \subseteq told
  BY <1>1, HonestOfRoom
<1>3. Bound(q, s, r) = q.from
  BY DEF Bound, Live
<1>. QED
  BY <1>1, <1>2, <1>3, ItemsSplit

LEMMA SentAreRelevant ==
  ASSUME NEW q, NEW relevant
  PROVE  RoomsToSend(q, relevant) \subseteq relevant
BY DEF RoomsToSend

\* The rooms of a response.
LEMMA RoomsMove ==
  ASSUME TypeOK, NoNewsAway, NEW q, NEW told, NEW missed, Asked(q, told, missed), NEW r \in Rooms, q.req.listed
  PROVE  LET relevant == Relevant(q)
             sent == RoomsToSend(q, relevant)
         IN Moved(q, NextState(q, relevant, sent), told \cup Response(q, relevant, sent).told, missed, "rooms", r)
<1>. DEFINE relevant == Relevant(q)
            sent == RoomsToSend(q, relevant)
            next == NextState(q, relevant, sent)
            res == Response(q, relevant, sent)
            old == q.prev.status["rooms"]
            missing == AllRooms(q) \ relevant
            news == RoomsWithUpdates(missing, q.from)
            recorded == RecordSentRooms(old, sent)
            new == IF q.from = None THEN recorded
                   ELSE RecordUnsentRooms(recorded, news, q.from)
<1>0. /\ q.prev \in States /\ q.now \in 0 .. Len(log) /\ q.now \in Nat /\ Len(log) \in Nat
      /\ q.from # None => q.from \in 0 .. q.now /\ q.from \in Nat
      /\ "rooms" \in Streams
  BY QueryType, StreamsAssumption
<1>1. /\ next.status["rooms"] = new
      /\ next.limit[r] = IF r \in sent THEN q.req.limit ELSE q.prev.limit[r]
  BY <1>0 DEF NextState
<1>2. recorded[r] = IF r \in sent THEN Live ELSE old[r]
  BY DEF RecordSentRooms
<1>3. new[r] = IF q.from # None /\ r \in news /\ recorded[r] = Live THEN Previously(q.from) ELSE recorded[r]
  BY <1>0 DEF RecordUnsentRooms
<1>4. sent \subseteq relevant /\ news \subseteq missing
  BY SentAreRelevant DEF RoomsWithUpdates
<1>5. \A x \in sent : ToldOfRoom(q, x) \subseteq res.told
  BY DEF Response
<1>. HIDE DEF next, res, new, recorded
<1>6. CASE r \in sent
  <2>1. r \notin news
    BY <1>4, <1>6
  <2>2. new[r] = Live
    BY <1>2, <1>3, <1>6, <2>1
  <2>3. next.limit[r] # 0 /\ <<"rooms", r>> \notin missed => ItemsOf("rooms", r, 0, q.now) \subseteq told \cup res.told
    <3>1. next.limit[r] # 0 /\ <<"rooms", r>> \notin missed => ItemsOf("rooms", r, 0, q.now) \subseteq told \cup ToldOfRoom(q, r)
      BY <1>1, <1>6, RoomIsTold
    <3>. QED
      BY <1>5, <1>6, <3>1
  <2>. QED
    BY <1>1, <2>2, <2>3 DEF Moved, next, res
<1>7. CASE r \notin sent /\ old[r] # Live
  BY <1>1, <1>2, <1>3, <1>7 DEF Moved, next, res
<1>8. CASE r \notin sent /\ old[r] = Live /\ r \in news
  <2>1. q.from # None
    BY <1>0, <1>8 DEF Asked, Behind, Live, Never
  <2>. QED
    BY <1>1, <1>2, <1>3, <1>8, <2>1 DEF Moved, next, res
<1>9. CASE r \notin sent /\ old[r] = Live /\ r \notin news
  <2>1. q.from # None
    BY <1>0, <1>9 DEF Asked, Behind, Live, Never
  <2>2. ItemsOf("rooms", r, q.from, q.now) = {} \/ <<"rooms", r>> \in SteppedOver(q)
    <3>1. \A p \in q.from + 1 .. q.now : p \in q.from + 1 .. Len(log)
      BY <1>0, <2>1
    <3>2. ItemsOf("rooms", r, q.from, q.now) \subseteq ItemsOf("rooms", r, q.from, Len(log))
      BY <3>1 DEF ItemsOf
    <3>3. CASE r \in relevant
      <4>1. r \notin RoomsWithUpdates({r}, q.from)
        BY <1>9, <2>1, <3>3 DEF RoomsToSend
      <4>. QED
        BY <4>1, <3>2 DEF RoomsWithUpdates
    <3>4. CASE r \in missing
      BY <1>9, <3>2, <3>4 DEF RoomsWithUpdates
    <3>5. CASE r \notin Membership(q.from, q.now)
      BY <1>0, <2>1, <3>5, NothingOutside
    <3>6. CASE r \in Membership(q.from, q.now) \ AllRooms(q)
      BY <1>0, <1>9, <2>1, <3>6 DEF SteppedOver, Feeds
    <3>. QED
      BY <3>3, <3>4, <3>5, <3>6
  <2>3. \/ q.prev.limit[r] = 0 \/ <<"rooms", r>> \in missed \cup SteppedOver(q)
        \/ ItemsOf("rooms", r, 0, q.now) \subseteq told
    BY <1>0, <1>9, <2>2, LiveStays
  <2>4. new[r] = Live /\ next.limit[r] = q.prev.limit[r]
    BY <1>1, <1>2, <1>3, <1>9
  <2>. QED
    BY <1>1, <2>3, <2>4 DEF Moved, next, res
<1>. QED
  BY <1>6, <1>7, <1>8, <1>9

\* The receipts and the account data.
LEMMA ExtensionMoves ==
  ASSUME TypeOK, NEW q, NEW told, NEW missed, Asked(q, told, missed),
         NEW s \in Streams, s # "rooms", NEW r \in Rooms
  PROVE  LET relevant == Relevant(q)
             sent == RoomsToSend(q, relevant)
         IN Moved(q, NextState(q, relevant, sent), told \cup Response(q, relevant, sent).told, missed, s, r)
<1>. DEFINE relevant == Relevant(q)
            sent == RoomsToSend(q, relevant)
            next == NextState(q, relevant, sent)
            res == Response(q, relevant, sent)
            old == q.prev.status[s]
            behind == {x \in Rooms \ relevant : old[x] = Live /\ ItemsOf(s, x, q.from, q.now) # {}}
            recorded == RecordSentRooms(old, relevant)
            new == IF q.from = None THEN recorded ELSE RecordUnsentRooms(recorded, behind, q.from)
<1>0. /\ q.prev \in States /\ q.now \in 0 .. Len(log) /\ q.now \in Nat /\ Len(log) \in Nat
      /\ q.from # None => q.from \in 0 .. q.now /\ q.from \in Nat
      /\ relevant \in SUBSET Rooms
  BY QueryType DEF Relevant, AllRooms, Membership
<1>1. next.status[s] = IF s = "account_data" /\ relevant = {} THEN old ELSE new
  BY <1>0 DEF NextState, ExtensionStatus
<1>2. recorded[r] = IF r \in relevant THEN Live ELSE old[r]
  BY DEF RecordSentRooms
<1>3. new[r] = IF q.from # None /\ r \in behind /\ recorded[r] = Live THEN Previously(q.from) ELSE recorded[r]
  BY DEF RecordUnsentRooms
<1>4. ToldOfExtension(q, s, relevant, sent) \subseteq res.told
  BY DEF Response
<1>. HIDE DEF next, res, new, recorded
<1>5. CASE r \in relevant
  <2>1. next.status[s][r] = Live
    BY <1>1, <1>2, <1>3, <1>5
  <2>2. <<s, r>> \notin missed => ItemsOf(s, r, 0, q.now) \subseteq told \cup ToldOfExtension(q, s, relevant, sent)
    BY <1>0, <1>5, ExtensionIsTold
  <2>. QED
    BY <1>4, <2>1, <2>2 DEF Moved, next, res
<1>6. CASE r \notin relevant /\ old[r] # Live
  <2>1. next.status[s][r] = old[r]
    BY <1>1, <1>2, <1>3, <1>6
  <2>. QED
    BY <1>6, <2>1 DEF Moved, next, res
<1>7. CASE r \notin relevant /\ old[r] = Live
  <2>1. q.from # None
    BY <1>0, <1>7 DEF Asked, Behind, Live, Never
  <2>2. CASE r \in behind /\ ~(s = "account_data" /\ relevant = {})
    BY <1>1, <1>2, <1>3, <1>7, <2>1, <2>2 DEF Moved, next, res
  <2>3. CASE r \in behind /\ s = "account_data" /\ relevant = {}
    <3>1. <<s, r>> \in SteppedOver(q)
      BY <1>7, <2>1, <2>3 DEF SteppedOver, Feeds
    <3>. QED
      BY <1>1, <1>7, <2>3, <3>1 DEF Moved, next, res
  <2>4. CASE r \notin behind
    <3>1. ItemsOf(s, r, q.from, q.now) = {}
      BY <1>7, <2>4
    <3>2. <<s, r>> \notin missed => ItemsOf(s, r, 0, q.now) \subseteq told
      BY <1>7, <3>1, LiveStays
    <3>3. next.status[s][r] = Live
      BY <1>1, <1>2, <1>3, <1>7, <2>4
    <3>. QED
      BY <3>2, <3>3 DEF Moved, next, res
  <2>. QED
    BY <2>2, <2>3, <2>4
<1>. QED
  BY <1>5, <1>6, <1>7

\* A request without lists and subscriptions leaves the state as it is, under a new token.
LEMMA UnlistedMoves ==
  ASSUME TypeOK, NEW q, NEW told, NEW missed, Asked(q, told, missed), ~q.req.listed,
         NEW s \in Streams, NEW r \in Rooms, NEW more
  PROVE  Moved(q, q.prev, told \cup more, missed, s, r)
<1>1. q.prev \in States /\ Live # Never
  BY QueryType DEF Live, Never
<1>2. CASE q.prev.status[s][r] # Live
  BY <1>2 DEF Moved
<1>3. CASE q.prev.status[s][r] = Live /\ ItemsOf(s, r, q.from, q.now) = {}
  BY <1>3, LiveStays DEF Moved
<1>4. CASE q.prev.status[s][r] = Live /\ ItemsOf(s, r, q.from, q.now) # {}
  <2>1. q.from # None
    BY <1>1, <1>4 DEF Asked, Behind
  <2>2. <<s, r>> \in SteppedOver(q)
    BY <1>4, <2>1 DEF SteppedOver, Feeds
  <2>. QED
    BY <1>4, <2>2 DEF Moved
<1>. QED
  BY <1>2, <1>3, <1>4

\* A move keeps the promise: what counts as sent was told, and no cursor falls.
LEMMA MovedIsHonest ==
  ASSUME TypeOK, NEW q, NEW told, NEW missed, Asked(q, told, missed), NEW next \in States, NEW more,
         NEW s \in Streams, NEW r \in Rooms, Moved(q, next, told \cup more, missed, s, r)
  PROVE  LET old == CursorOf(q.prev, q.from, s, r)
             new == CursorOf(next, q.now, s, r)
         IN /\ new # None /\ <<s, r>> \notin missed \cup SteppedOver(q) =>
                 ItemsOf(s, r, 0, new) \subseteq told \cup more
            /\ next.status[s][r] # Never =>
                 q.now # None /\ (next.status[s][r] # Live => next.status[s][r].token <= q.now)
            /\ old # None /\ new # None => new >= old
<1>. DEFINE was == q.prev.status[s][r]
            is == next.status[s][r]
            old == CursorOf(q.prev, q.from, s, r)
            new == CursorOf(next, q.now, s, r)
<1>0. /\ q.prev \in States /\ q.now \in 0 .. Len(log) /\ q.now \in Nat /\ q.now # None
      /\ q.from # None => q.from \in Nat /\ q.from <= q.now
      /\ MaxPos \in Nat
  BY QueryType, BoundsAssumption, NoneAssumption
<1>1. /\ was = Never \/ was = Live \/ (was # Never /\ was # Live /\ was.token \in 0 .. MaxPos)
      /\ Live # Never
  BY <1>0, StatusIs
<1>2. /\ old # None /\ <<s, r>> \notin missed => ItemsOf(s, r, 0, old) \subseteq told
      /\ was # Never => q.from # None /\ (was # Live => was.token <= q.from)
  BY HonestMeans DEF Asked, Behind
<1>3. old # None => was # Never /\ q.from # None /\ old \in Nat /\ old <= q.from
  BY <1>0, <1>1, <1>2 DEF CursorOf
<1>4. CASE /\ is = Live
           /\ \/ s = "rooms" /\ next.limit[r] = 0
              \/ <<s, r>> \in missed \cup SteppedOver(q)
              \/ ItemsOf(s, r, 0, q.now) \subseteq told \cup more
  <2>1. new # None => new = q.now /\ ~(s = "rooms" /\ next.limit[r] = 0)
    BY <1>4 DEF CursorOf
  <2>. HIDE DEF old, new
  <2>. QED
    BY <1>0, <1>1, <1>3, <1>4, <2>1 DEF old, new
<1>5. CASE /\ q.from # None /\ was = Live /\ is = Previously(q.from)
           /\ s = "rooms" => next.limit[r] = q.prev.limit[r]
  <2>1. is # Live /\ is # Never /\ is.token = q.from
    BY <1>5 DEF Previously, Live, Never
  <2>2. new = old /\ (old # None => old = q.from)
    BY <1>1, <1>5, <2>1 DEF CursorOf
  <2>. HIDE DEF old, new
  <2>. QED
    BY <1>0, <1>2, <1>3, <1>5, <2>1, <2>2 DEF old, new
<1>6. CASE is = was /\ is # Live /\ (s = "rooms" => next.limit[r] = q.prev.limit[r])
  <2>1. new = old
    BY <1>6 DEF CursorOf
  <2>2. is # Never => is.token \in Nat /\ is.token <= q.now
    BY <1>0, <1>1, <1>2, <1>6
  <2>. HIDE DEF old, new
  <2>. QED
    BY <1>0, <1>2, <1>3, <2>1, <2>2 DEF old, new
<1>. QED
  BY <1>4, <1>5, <1>6 DEF Moved

\* The types of what Build makes of a loaded request, the client's or not.
LEMMA NextStateType ==
  ASSUME TypeOK, NEW q \in Queries, NEW sent
  PROVE  NextState(q, Relevant(q), sent) \in States
<1>. DEFINE relevant == Relevant(q)
            next == NextState(q, relevant, sent)
<1>0. /\ q.prev \in States /\ q.req.limit \in Nat
      /\ q.from # None => Previously(q.from) \in Statuses
      /\ Live \in Statuses /\ Never \in Statuses
  <2>1. q.req \in Requests /\ q.prev \in States /\ q.from \in 0 .. Len(log) \cup {None}
    BY DEF Queries, Tokens
  <2>2. q.from # None => q.from \in 0 .. MaxPos
    BY <2>1, LogType
  <2>. QED
    BY <2>1, <2>2, RequestsAssumption DEF Statuses
<1>1. q.prev.status \in [Streams -> [Rooms -> Statuses]] /\ q.prev.limit \in [Rooms -> Nat \cup {None}]
  BY <1>0 DEF States
<1>2. \A rooms : \A status \in [Rooms -> Statuses] : RecordSentRooms(status, rooms) \in [Rooms -> Statuses]
  BY <1>0 DEF RecordSentRooms
<1>3. q.from # None =>
        \A rooms : \A status \in [Rooms -> Statuses] : RecordUnsentRooms(status, rooms, q.from) \in [Rooms -> Statuses]
  BY <1>0 DEF RecordUnsentRooms
<1>4. \A s \in Streams : q.prev.status[s] \in [Rooms -> Statuses]
  BY <1>1
<1>5. \A s \in Streams : ExtensionStatus(q, s, relevant, sent) \in [Rooms -> Statuses]
  BY <1>2, <1>3, <1>4 DEF ExtensionStatus
<1>. DEFINE recorded == RecordSentRooms(q.prev.status["rooms"], sent)
            rooms == IF q.from = None THEN recorded
                     ELSE RecordUnsentRooms(recorded, RoomsWithUpdates(AllRooms(q) \ relevant, q.from), q.from)
<1>6. rooms \in [Rooms -> Statuses]
  BY <1>2, <1>3, <1>4, StreamsAssumption
<1>7. next = [status |-> [s \in Streams |-> IF s = "rooms" THEN rooms ELSE ExtensionStatus(q, s, relevant, sent)],
              limit |-> [r \in Rooms |-> IF r \in sent THEN q.req.limit ELSE q.prev.limit[r]]]
  BY DEF NextState
<1>. HIDE DEF rooms, next, relevant
<1>8. [s \in Streams |-> IF s = "rooms" THEN rooms ELSE ExtensionStatus(q, s, relevant, sent)]
        \in [Streams -> [Rooms -> Statuses]]
  BY <1>5, <1>6
<1>9. [r \in Rooms |-> IF r \in sent THEN q.req.limit ELSE q.prev.limit[r]] \in [Rooms -> Nat \cup {None}]
  BY <1>0, <1>1
<1>10. next \in States
  BY <1>7, <1>8, <1>9 DEF States
<1>. QED
  BY <1>10 DEF next, relevant

LEMMA ResponseType ==
  ASSUME TypeOK, NEW q \in Queries, NEW relevant \in SUBSET Rooms, NEW sent \in SUBSET Rooms
  PROVE  Response(q, relevant, sent) \in [told : SUBSET (1 .. Len(log)), news : BOOLEAN]
<1>0. /\ q.prev \in States /\ q.now \in 0 .. Len(log) /\ q.now \in Nat /\ Len(log) \in Nat /\ 0 \in Nat
      /\ q.from # None => q.from \in Nat
      /\ MaxPos \in Nat
  BY LogType DEF Queries, Tokens
<1>1. ASSUME NEW s \in Streams, NEW r \in Rooms, q.from # None
      PROVE  Bound(q, s, r) \in Nat
  <2>. DEFINE status == q.prev.status[s][r]
  <2>1. status.flag = "previously" => status.token \in 0 .. MaxPos
    BY <1>0, StatusIs
  <2>. QED
    BY <1>0, <1>1, <2>1 DEF Bound
<1>2. ASSUME NEW s \in Streams
      PROVE  ToldOfExtension(q, s, relevant, sent) \in SUBSET (1 .. Len(log))
  <2>1. ASSUME NEW r \in relevant
        PROVE  (IF FromScratch(q, s, r, sent) THEN ItemsOf(s, r, 0, q.now) ELSE ItemsOf(s, r, Bound(q, s, r), q.now))
                 \in SUBSET (1 .. Len(log))
    <3>1. ~FromScratch(q, s, r, sent) => Bound(q, s, r) \in Nat
      BY <1>1 DEF FromScratch
    <3>. QED
      BY <1>0, <3>1, ItemsType
  <2>. QED
    BY <2>1 DEF ToldOfExtension
<1>3. ASSUME NEW r \in sent
      PROVE  ToldOfRoom(q, r) \in SUBSET (1 .. Len(log))
  <2>. DEFINE to == IF Joined(r, q.now) THEN q.now ELSE Max(OwnChanges(r, 0, q.now))
              found == IF Initial(q, r) \/ Expanded(q, r) THEN ItemsOf("rooms", r, 0, to)
                       ELSE ItemsOf("rooms", r, Bound(q, "rooms", r), to)
  <2>1. to \in 0 .. Len(log)
    <3>1. CASE Joined(r, q.now)
      BY <1>0, <3>1
    <3>2. CASE ~Joined(r, q.now)
      <4>1. OwnChanges(r, 0, q.now) # {}
        BY <3>2 DEF Joined
      <4>2. Max(OwnChanges(r, 0, q.now)) \in OwnChanges(r, 0, q.now)
        BY <1>0, <4>1, LastOwn
      <4>3. OwnChanges(r, 0, q.now) \in SUBSET (1 .. Len(log))
        BY <1>0, ItemsType
      <4>. QED
        BY <1>0, <3>2, <4>2, <4>3
    <3>. QED
      BY <3>1, <3>2
  <2>. HIDE DEF to
  <2>2. ~Initial(q, r) => Bound(q, "rooms", r) \in Nat
    BY <1>1, StreamsAssumption DEF Initial
  <2>3. found \in SUBSET (1 .. Len(log))
    BY <1>0, <2>1, <2>2, ItemsType
  <2>. HIDE DEF found
  <2>4. Timeline(q, r).events \in SUBSET found
    BY DEF Timeline, found, to
  <2>5. ItemsOf("rooms", r, 0, q.now) \in SUBSET (1 .. Len(log))
    BY <1>0, ItemsType
  <2>. QED
    BY <2>3, <2>4, <2>5 DEF ToldOfRoom
<1>. DEFINE extensions == UNION {ToldOfExtension(q, s, relevant, sent) : s \in Streams \ {"rooms"}}
            told == (UNION {ToldOfRoom(q, r) : r \in sent}) \cup extensions
            news == (\E r \in sent : Initial(q, r) \/ Timeline(q, r).events # {}) \/ extensions # {}
<1>4. Response(q, relevant, sent) = [told |-> told, news |-> news]
  BY DEF Response
<1>5. told \in SUBSET (1 .. Len(log))
  BY <1>2, <1>3
<1>6. news \in BOOLEAN
  OBVIOUS
<1>. HIDE DEF told, news
<1>. QED
  BY <1>4, <1>5, <1>6

\* The state a response leaves the client with is honest with what the response tells;
\* it is what Persist writes, and when Persist writes nothing it is what was there before.
LEMMA BuildIsHonest ==
  ASSUME TypeOK, NoNewsAway, NEW q, NEW told, NEW missed, Asked(q, told, missed)
  PROVE  LET relevant == Relevant(q)
             sent == RoomsToSend(q, relevant)
             next == NextState(q, relevant, sent)
             kept == IF q.req.listed THEN next ELSE q.prev
         IN /\ kept \in States
            /\ Honest(kept, q.now, told \cup Response(q, relevant, sent).told, missed \cup SteppedOver(q))
            /\ Behind(kept, q.now) /\ NotBack(q.prev, q.from, kept, q.now)
            /\ q.req.listed /\ copyForward(q) = q.prev => Written(q, next) = next
            /\ ~HasUpdates(q, next, sent) => next = q.prev
<1>. DEFINE relevant == Relevant(q)
            sent == RoomsToSend(q, relevant)
            next == NextState(q, relevant, sent)
            more == Response(q, relevant, sent).told
            kept == IF q.req.listed THEN next ELSE q.prev
<1>0. q.prev \in States /\ q.req.limit \in Nat /\ q \in Queries
  BY QueryType DEF Asked
<1>1. next \in States
  BY <1>0, NextStateType
<1>2. next.limit = [r \in Rooms |-> IF r \in sent THEN q.req.limit ELSE q.prev.limit[r]]
  BY DEF NextState
<1>3. \A s \in Streams, r \in Rooms : Moved(q, kept, told \cup more, missed, s, r)
  <2>1. CASE q.req.listed
    BY <2>1, RoomsMove, ExtensionMoves
  <2>2. CASE ~q.req.listed
    BY <2>2, UnlistedMoves
  <2>. QED
    BY <2>1, <2>2
<1>. HIDE DEF next, more, sent, relevant
<1>4. /\ kept \in States /\ Honest(kept, q.now, told \cup more, missed \cup SteppedOver(q))
      /\ Behind(kept, q.now) /\ NotBack(q.prev, q.from, kept, q.now)
  <2>1. kept \in States
    BY <1>0, <1>1
  <2>. HIDE DEF kept
  <2>. QED
    BY <2>1, <1>3, MovedIsHonest, HonestMeans DEF Behind, NotBack
<1>5. ASSUME q.req.listed, copyForward(q) = q.prev
      PROVE  Written(q, next) = next
  <2>1. \A s \in Streams, r \in Rooms : next.status[s][r] = Never => q.prev.status[s][r] = Never
    <3>1. kept = next
      BY <1>5
    <3>. HIDE DEF kept
    <3>2. \A s \in Streams, r \in Rooms :
            next.status[s][r] \in {Live, Previously(q.from), q.prev.status[s][r]}
      BY <1>3, <3>1, Zenon DEF Moved
    <3>3. Live # Never /\ Previously(q.from) # Never
      BY DEF Live, Never, Previously
    <3>. QED
      BY <3>2, <3>3
  <2>2. \A r \in Rooms : next.limit[r] = None => q.prev.limit[r] = None
    BY <1>0, <1>2, NoneAssumption
  <2>3. next.status \in [Streams -> [Rooms -> Statuses]] /\ next.limit \in [Rooms -> Nat \cup {None}]
    BY <1>1 DEF States
  <2>4. upsertStreams(q.prev.status, next.status) = next.status
    <3>1. \A s \in Streams : [r \in Rooms |-> IF next.status[s][r] = Never THEN q.prev.status[s][r] ELSE next.status[s][r]]
                               = next.status[s]
      BY <2>1, <2>3
    <3>. QED
      BY <2>3, <3>1 DEF upsertStreams
  <2>5. upsertRoomConfigs(q.prev.limit, next.limit) = next.limit
    BY <2>2, <2>3 DEF upsertRoomConfigs
  <2>6. Written(q, next) = [status |-> next.status, limit |-> next.limit]
    BY <1>5, <2>4, <2>5 DEF Written
  <2>. QED
    BY <1>1, <2>6 DEF States
<1>6. ASSUME ~HasUpdates(q, next, sent)
      PROVE  next = q.prev
  <2>1. sent = {} /\ next.status = q.prev.status
    BY <1>6 DEF HasUpdates
  <2>2. next.limit = q.prev.limit
    BY <1>0, <1>2, <2>1 DEF States
  <2>. QED
    BY <1>0, <1>1, <2>1, <2>2 DEF States
<1>. QED
  BY <1>4, <1>5, <1>6 DEF next, more, sent, relevant, kept

LEMMA WrittenType ==
  ASSUME TypeOK, NEW q, NEW state \in States, PersistsFrom(q)
  PROVE  Written(q, state) \in States /\ EmptyState \in States
<1>1. EmptyState \in States
  BY DEF EmptyState, States, Statuses
<1>2. copyForward(q) \in States
  BY <1>1 DEF copyForward, PersistsFrom, TypeOK
<1>. DEFINE copied == copyForward(q)
<1>3. /\ copied.status \in [Streams -> [Rooms -> Statuses]] /\ copied.limit \in [Rooms -> Nat \cup {None}]
      /\ state.status \in [Streams -> [Rooms -> Statuses]] /\ state.limit \in [Rooms -> Nat \cup {None}]
  BY <1>2 DEF States
<1>. HIDE DEF copied
<1>4. \A s \in Streams : [r \in Rooms |-> IF state.status[s][r] = Never THEN copied.status[s][r] ELSE state.status[s][r]]
                           \in [Rooms -> Statuses]
  BY <1>3
<1>5. upsertStreams(copied.status, state.status) \in [Streams -> [Rooms -> Statuses]]
  BY <1>4 DEF upsertStreams
<1>6. upsertRoomConfigs(copied.limit, state.limit) \in [Rooms -> Nat \cup {None}]
  BY <1>3 DEF upsertRoomConfigs
<1>. QED
  BY <1>1, <1>5, <1>6 DEF Written, States, copied

---------------------------------------------------------------------------
(* What is written later changes nothing of what was read.                 *)

LogGrew ==
  /\ log' \in Seq(Writes) /\ Len(log) <= Len(log')
  /\ \A p \in 1 .. Len(log) : log'[p] = log[p]

LEMMA ReadsAlike ==
  ASSUME TypeOK, LogGrew, NEW r, NEW a \in Nat, NEW b \in 0 .. Len(log)
  PROVE  /\ \A s : ItemsOf(s, r, a, b)' = ItemsOf(s, r, a, b)
         /\ Joined(r, b)' <=> Joined(r, b)
<1>0. Len(log) \in Nat /\ b \in Nat /\ 0 \in Nat
  BY LogType
<1>1. \A p : \A x \in Nat : p \in x + 1 .. b => log'[p] = log[p]
  BY <1>0 DEF LogGrew
<1>2. \A s, x : x \in Nat => ItemsOf(s, r, x, b)' = ItemsOf(s, r, x, b)
  BY <1>1 DEF ItemsOf
<1>. DEFINE own == OwnChanges(r, 0, b)
<1>3. OwnChanges(r, 0, b)' = own
  BY <1>0, <1>1 DEF OwnChanges, ItemsOf
<1>4. own # {} => Max(own) \in 0 + 1 .. b
  <2>1. own # {} => Max(own) \in own
    BY <1>0, LastOwn
  <2>. QED
    BY <2>1 DEF OwnChanges, ItemsOf
<1>5. own # {} => log'[Max(own)] = log[Max(own)]
  BY <1>0, <1>1, <1>4
<1>6. /\ Joined(r, b) = IF own = {} THEN TRUE ELSE log[Max(own)].kind = "join"
      /\ Joined(r, b)' = IF OwnChanges(r, 0, b)' = {} THEN TRUE ELSE log'[Max(OwnChanges(r, 0, b)')].kind = "join"
  BY DEF Joined
<1>7. Joined(r, b)' <=> Joined(r, b)
  BY <1>3, <1>5, <1>6
<1>. QED
  BY <1>2, <1>7

\* A cursor is a stream position or none.
LEMMA CursorType ==
  ASSUME TypeOK, NEW state \in States, NEW token \in Tokens, Behind(state, token),
         NEW s \in Streams, NEW r \in Rooms
  PROVE  CursorOf(state, token, s, r) \in Tokens
<1>. DEFINE status == state.status[s][r]
<1>0. Len(log) \in Nat /\ 0 \in Nat /\ MaxPos \in Nat
  BY LogType
<1>1. /\ status = Never \/ status = Live \/ (status # Never /\ status # Live /\ status.token \in 0 .. MaxPos)
      /\ status # Never => token # None /\ (status # Live => status.token <= token)
  BY StatusIs DEF Behind
<1>. QED
  BY <1>0, <1>1 DEF CursorOf, Tokens

\* An honest state stays honest when more is written.
LEMMA HonestyLasts ==
  ASSUME TypeOK, LogGrew, NEW state \in States, NEW token \in Tokens, NEW told, NEW missed,
         Honest(state, token, told, missed), Behind(state, token)
  PROVE  Covered(log', state, token, told, missed)
<1>. SUFFICES ASSUME NEW s \in Streams, NEW r \in Rooms, CursorOf(state, token, s, r) # None, <<s, r>> \notin missed,
                     NEW p \in 0 + 1 .. CursorOf(state, token, s, r), log'[p].stream = s, log'[p].room = r
              PROVE  p \in told
  BY DEF Covered
<1>. DEFINE c == CursorOf(state, token, s, r)
<1>0. Len(log) \in Nat
  BY LogType
<1>1. c \in 0 .. Len(log)
  BY CursorType DEF Tokens
<1>2. \A x \in 0 + 1 .. c : log[x].stream = s /\ log[x].room = r => x \in told
  BY DEF Honest, Covered
<1>. HIDE DEF c
<1>3. p \in 0 + 1 .. c /\ p \in 1 .. Len(log)
  BY <1>0, <1>1 DEF c
<1>4. log'[p] = log[p]
  BY <1>3 DEF LogGrew
<1>. QED
  BY <1>2, <1>3, <1>4

---------------------------------------------------------------------------
(* Types.                                                                  *)

Requesting == {Idle} \cup Loaded \cup Built

\* Positions of the stream and of the connection stay what they are.
LEMMA TypesGrow ==
  ASSUME TypeOK, LogGrew, minted' \in Nat, minted <= minted'
  PROVE  Requesting \subseteq Requesting' /\ Clients \subseteq Clients'
<1>0. Len(log) \in Nat /\ Len(log') \in Nat /\ minted \in Nat /\ Len(log) <= Len(log')
  BY BoundsAssumption DEF TypeOK, LogGrew
<1>1. Positions \subseteq Positions' /\ Tokens \subseteq Tokens'
  BY <1>0 DEF Positions, Tokens
<1>2. 0 .. Len(log) \subseteq 0 .. Len(log') /\ SUBSET (1 .. Len(log)) \subseteq SUBSET (1 .. Len(log'))
  BY <1>0
<1>3. Loaded \subseteq Loaded'
  BY <1>1 DEF Loaded, States, Statuses, Never, Live, Previously
<1>4. Built \subseteq Built'
  <2>. DEFINE R == [told : SUBSET (1 .. Len(log)), news : BOOLEAN]
              S == [told : SUBSET (1 .. Len(log')), news : BOOLEAN]
  <2>1. R \subseteq S
    BY <1>2
  <2>2. /\ Built = [stage : {"built"}, req : Requests, pos : Positions, from : Tokens, newPos : Positions,
                    now : 0 .. Len(log), res : R, missed : SUBSET Feeds]
        /\ Built' = [stage : {"built"}, req : Requests, pos : Positions', from : Tokens', newPos : Positions',
                     now : 0 .. Len(log'), res : S, missed : SUBSET Feeds]
    BY DEF Built, Feeds
  <2>. HIDE DEF R, S
  <2>. QED
    BY <1>1, <1>2, <2>1, <2>2
<1>5. Clients \subseteq Clients'
  BY <1>1, <1>2 DEF Clients, Feeds
<1>. QED
  BY <1>3, <1>4, <1>5 DEF Requesting, Idle

\* The type invariant, from its parts.
LEMMA TypeFromParts ==
  ASSUME TypeOK, LogGrew, Len(log') <= MaxPos, minted' \in minted .. MaxPositions,
         DOMAIN db' \subseteq 1 .. minted', \A p \in DOMAIN db' : db'[p] \in States,
         db' = [p \in DOMAIN db' |-> db'[p]],
         \/ slots' = slots
         \/ \E i \in Slots, x \in Requesting' : slots' = [slots EXCEPT ![i] = x],
         client' \in Clients'
  PROVE  TypeOK'
<1>0. minted \in Nat /\ minted' \in Nat /\ minted <= minted' /\ minted' \in 0 .. MaxPositions
  BY BoundsAssumption DEF TypeOK
<1>1. Requesting \subseteq Requesting'
  BY <1>0, TypesGrow
<1>2. slots \in [Slots -> Requesting]
  BY DEF TypeOK, Requesting
<1>3. slots \in [Slots -> Requesting']
  BY <1>1, <1>2
<1>4. slots' \in [Slots -> Requesting']
  BY <1>3
<1>5. slots' \in [Slots -> {Idle'} \cup Loaded' \cup Built']
  BY <1>4 DEF Requesting
<1>6. (\A p \in DOMAIN db : db[p] \in States)'
  BY DEF States, Statuses, Never, Live, Previously
<1>. QED
  BY <1>0, <1>5, <1>6 DEF TypeOK, LogGrew

LEMMA UnchangedGrows ==
  ASSUME TypeOK, log' = log
  PROVE  LogGrew /\ Len(log') <= MaxPos
BY DEF TypeOK, LogGrew

LEMMA WriteGrows ==
  ASSUME TypeOK, NEW x \in Writes, Write(x)
  PROVE  LogGrew /\ Len(log') <= MaxPos /\ Len(log') = Len(log) + 1 /\ log'[Len(log) + 1] = x
<1>1. log' = Append(log, x) /\ Len(log) < MaxPos /\ log \in Seq(Writes) /\ MaxPos \in Nat
  BY BoundsAssumption DEF Write, TypeOK
<1>2. log' \in Seq(Writes) /\ Len(log') = Len(log) + 1
  BY <1>1
<1>3. \A p \in 1 .. Len(log) : log'[p] = log[p]
  BY <1>1
<1>. QED
  BY <1>1, <1>2, <1>3 DEF LogGrew

LEMMA SlotType ==
  ASSUME TypeOK, NEW i \in Slots
  PROVE  /\ slots[i] \in Requesting
         /\ slots[i].stage = "loaded" => slots[i] \in Loaded
         /\ slots[i].stage = "built" => slots[i] \in Built
         /\ client \in Clients
         /\ minted \in Nat /\ 0 \in Positions /\ None \in Tokens
<1>1. slots[i] \in Requesting /\ client \in Clients /\ minted \in Nat
  BY BoundsAssumption DEF TypeOK, Requesting
<1>2. \A x \in Loaded : x.stage = "loaded"
  BY DEF Loaded
<1>3. \A x \in Built : x.stage = "built"
  BY DEF Built
<1>4. Idle.stage = "idle"
  BY DEF Idle
<1>. QED
  BY <1>1, <1>2, <1>3, <1>4 DEF Requesting, Positions, Tokens

LEMMA AtType ==
  ASSUME TypeOK, NEW i \in Slots, slots[i].stage = "loaded", NEW now \in nowTokens(slots[i].from)
  PROVE  /\ At(i, now) \in Queries
         /\ At(i, now).from # None => At(i, now).from <= now
         /\ now \in 0 .. Len(log)
         /\ Relevant(At(i, now)) \in SUBSET Rooms
         /\ RoomsToSend(At(i, now), Relevant(At(i, now))) \in SUBSET Rooms
<1>1. slots[i] \in Loaded /\ Len(log) \in Nat
  BY SlotType, LogType
<1>2. slots[i].from \in Tokens
  BY <1>1 DEF Loaded
<1>3. now \in 0 .. Len(log) /\ (slots[i].from # None => slots[i].from <= now)
  BY <1>1, <1>2 DEF nowTokens, Tokens
<1>4. At(i, now) \in Queries /\ At(i, now).from = slots[i].from
  BY <1>1, <1>3 DEF At, Queries, Loaded
<1>5. Relevant(At(i, now)) \in SUBSET Rooms
  BY DEF Relevant, AllRooms, Membership
<1>. QED
  BY <1>3, <1>4, <1>5, SentAreRelevant

\* The steps that only touch a slot and the client.
LEMMA SlotStepType ==
  ASSUME TypeOK, UNCHANGED <<log, db, minted>>, client' \in Clients,
         \/ slots' = slots
         \/ \E i \in Slots, x \in Requesting : slots' = [slots EXCEPT ![i] = x]
  PROVE  TypeOK'
<1>1. LogGrew /\ Len(log') <= MaxPos
  BY UnchangedGrows
<1>2. minted' \in minted .. MaxPositions /\ minted' \in Nat /\ minted <= minted'
  BY BoundsAssumption DEF TypeOK
<1>3. Requesting \subseteq Requesting' /\ Clients \subseteq Clients'
  BY <1>1, <1>2, TypesGrow
<1>4. DOMAIN db' \subseteq 1 .. minted' /\ (\A p \in DOMAIN db' : db'[p] \in States) /\ db' = [p \in DOMAIN db' |-> db'[p]]
  BY DEF TypeOK
<1>5. slots' = slots \/ \E i \in Slots, x \in Requesting' : slots' = [slots EXCEPT ![i] = x]
  BY <1>3
<1>. QED
  BY <1>1, <1>2, <1>3, <1>4, <1>5, TypeFromParts

LEMMA GoneType ==
  ASSUME TypeOK
  PROVE  Gone \in Clients /\ client \in Clients /\ [client EXCEPT !.slot = None] \in Clients /\ Idle \in Requesting
<1>1. client \in Clients /\ 0 \in Positions /\ None \in Tokens
  BY BoundsAssumption DEF TypeOK, Positions, Tokens
<1>. QED
  BY <1>1 DEF Gone, Clients, Requesting

LEMMA RefusedType ==
  ASSUME TypeOK, NEW i \in Slots, Refused(i), UNCHANGED <<log, db, minted>>
  PROVE  TypeOK'
<1>1. client' \in {client, Gone} /\ slots' = [slots EXCEPT ![i] = Idle]
  BY DEF Refused, Gone
<1>. QED
  BY <1>1, GoneType, SlotStepType

\* GetAndClear: what is read at a position goes into the slot as it is.
LEMMA LoadType ==
  ASSUME TypeOK, NEW i \in Slots, NEW req \in Requests, NEW pos \in Positions, NEW from \in Tokens,
         Load(i, req, pos, from), UNCHANGED <<log, minted>>, client' \in Clients
  PROVE  TypeOK'
<1>1. LogGrew /\ Len(log') <= MaxPos
  BY UnchangedGrows
<1>2. minted' \in minted .. MaxPositions /\ minted' \in Nat /\ minted <= minted'
  BY BoundsAssumption DEF TypeOK
<1>3. Requesting \subseteq Requesting' /\ Clients \subseteq Clients'
  BY <1>1, <1>2, TypesGrow
<1>. DEFINE prev == IF pos = 0 THEN EmptyState ELSE db[pos]
            x == [stage |-> "loaded", req |-> req, pos |-> pos, from |-> from, prev |-> prev]
<1>4. prev \in States
  BY DEF Load, TypeOK, EmptyState, States, Statuses
<1>5. slots' = [slots EXCEPT ![i] = x]
  BY DEF Load
<1>. HIDE DEF prev
<1>6. x \in Requesting'
  BY <1>3, <1>4 DEF Requesting, Loaded
<1>7. DOMAIN db' \subseteq 1 .. minted' /\ (\A p \in DOMAIN db' : db'[p] \in States) /\ db' = [p \in DOMAIN db' |-> db'[p]]
  BY DEF Load, pruned, TypeOK
<1>. HIDE DEF x
<1>. QED
  BY <1>1, <1>2, <1>3, <1>5, <1>6, <1>7, TypeFromParts

\* Persist leaves a state at the new position and the others as they were.
LEMMA MintType ==
  ASSUME TypeOK, NEW q, NEW state \in States, PersistsFrom(q), db' = Mint(q, state), minted' = minted + 1
  PROVE  /\ DOMAIN db' \subseteq 1 .. minted' /\ (\A p \in DOMAIN db' : db'[p] \in States)
         /\ db' = [p \in DOMAIN db' |-> db'[p]]
         /\ minted' \in DOMAIN db' /\ db'[minted'] = Written(q, state)
         /\ \A p \in DOMAIN db' : p # minted' => p \in DOMAIN db /\ db'[p] = db[p]
         /\ q.pos # 0 => DOMAIN db \subseteq DOMAIN db'
<1>0. Written(q, state) \in States
  BY WrittenType
<1>1. /\ minted \in Nat /\ DOMAIN db \subseteq 1 .. minted
      /\ \A p \in DOMAIN db : db[p] \in States
  BY BoundsAssumption DEF TypeOK
<1>. DEFINE D == {minted + 1} \cup (IF q.pos = 0 THEN {} ELSE DOMAIN db)
<1>2. db' = [p \in D |-> IF p = minted + 1 THEN Written(q, state) ELSE db[p]]
  BY DEF Mint
<1>3. D \subseteq 1 .. minted + 1 /\ minted + 1 \in D /\ \A p \in D : p # minted + 1 => p \in DOMAIN db
  BY <1>1
<1>4. q.pos # 0 => DOMAIN db \subseteq D
  OBVIOUS
<1>. HIDE DEF D
<1>. QED
  BY <1>0, <1>1, <1>2, <1>3, <1>4

LEMMA BuildType ==
  ASSUME TypeOK, NEW i \in Slots, NEW now \in nowTokens(slots[i].from), Build(i, now)
  PROVE  TypeOK' /\ minted' \in {minted, minted + 1}
<1>. DEFINE q == At(i, now)
            relevant == Relevant(q)
            sent == RoomsToSend(q, relevant)
            next == NextState(q, relevant, sent)
            res == Response(q, relevant, sent)
            x == [stage |-> "built", req |-> q.req, pos |-> q.pos, from |-> q.from,
                  newPos |-> IF minted' # minted THEN minted' ELSE q.pos, now |-> now, res |-> res,
                  missed |-> SteppedOver(q)]
<1>0. slots[i].stage = "loaded" /\ log' = log /\ client' = client
  BY DEF Build
<1>1. q \in Queries /\ now \in 0 .. Len(log) /\ relevant \in SUBSET Rooms /\ sent \in SUBSET Rooms
  BY <1>0, AtType
<1>2. next \in States
  BY <1>1, NextStateType
<1>3. res \in [told : SUBSET (1 .. Len(log)), news : BOOLEAN]
  BY <1>1, ResponseType
<1>4. /\ \/ PersistsFrom(q) /\ minted < MaxPositions /\ db' = Mint(q, next) /\ minted' = minted + 1
         \/ UNCHANGED <<db, minted>>
      /\ slots' = [slots EXCEPT ![i] = x]
  BY DEF Build
<1>5. q.req \in Requests /\ q.pos \in Positions /\ q.from \in Tokens
  BY <1>1 DEF Queries
<1>. HIDE DEF q, next, res, relevant, sent
<1>6. LogGrew /\ Len(log') <= MaxPos /\ client \in Clients
  BY <1>0, UnchangedGrows, GoneType
<1>7. /\ minted \in 0 .. MaxPositions /\ MaxPositions \in Nat
      /\ minted' \in minted .. MaxPositions /\ minted' \in Nat /\ minted <= minted' /\ minted' \in {minted, minted + 1}
  BY <1>4, BoundsAssumption DEF TypeOK
<1>8. Clients \subseteq Clients'
  BY <1>6, <1>7, TypesGrow
<1>9. DOMAIN db' \subseteq 1 .. minted' /\ (\A p \in DOMAIN db' : db'[p] \in States) /\ db' = [p \in DOMAIN db' |-> db'[p]]
  <2>1. CASE PersistsFrom(q) /\ db' = Mint(q, next) /\ minted' = minted + 1
    BY <1>2, <2>1, MintType
  <2>2. CASE UNCHANGED <<db, minted>>
    BY <2>2 DEF TypeOK
  <2>. QED
    BY <1>4, <2>1, <2>2
<1>10. x \in Built'
  <2>1. q.pos \in Positions' /\ (IF minted' # minted THEN minted' ELSE q.pos) \in Positions' /\ q.from \in Tokens'
    BY <1>0, <1>5, <1>7 DEF Positions, Tokens
  <2>2. now \in 0 .. Len(log') /\ res \in [told : SUBSET (1 .. Len(log')), news : BOOLEAN]
    BY <1>0, <1>1, <1>3
  <2>3. SteppedOver(q) \in SUBSET Feeds
    BY DEF SteppedOver
  <2>. QED
    BY <1>5, <2>1, <2>2, <2>3 DEF Built, Feeds
<1>11. x \in Requesting'
  BY <1>10 DEF Requesting
<1>. HIDE DEF x
<1>12. client' \in Clients'
  BY <1>0, <1>6, <1>8
<1>. QED
  BY <1>4, <1>6, <1>7, <1>9, <1>11, <1>12, TypeFromParts

LEMMA WriteType ==
  ASSUME TypeOK, NEW x \in Writes, Write(x)
  PROVE  TypeOK'
<1>1. UNCHANGED <<db, minted, slots, client>> /\ LogGrew /\ Len(log') <= MaxPos
  BY WriteGrows DEF Write
<1>2. minted' \in minted .. MaxPositions /\ minted' \in Nat /\ minted <= minted'
  BY <1>1, BoundsAssumption DEF TypeOK
<1>3. client' \in Clients'
  BY <1>1, <1>2, GoneType, TypesGrow
<1>4. DOMAIN db' \subseteq 1 .. minted' /\ (\A p \in DOMAIN db' : db'[p] \in States) /\ db' = [p \in DOMAIN db' |-> db'[p]]
  BY <1>1 DEF TypeOK
<1>. QED
  BY <1>1, <1>2, <1>3, <1>4, TypeFromParts

LEMMA ReapType ==
  ASSUME TypeOK, Reap
  PROVE  TypeOK' /\ LogGrew
<1>1. UNCHANGED <<log, minted, slots, client>> /\ db' = <<>>
  BY DEF Reap
<1>2. LogGrew /\ Len(log') <= MaxPos
  BY <1>1, UnchangedGrows
<1>3. minted' \in minted .. MaxPositions /\ minted' \in Nat /\ minted <= minted'
  BY <1>1, BoundsAssumption DEF TypeOK
<1>4. client' \in Clients'
  BY <1>1, <1>2, <1>3, GoneType, TypesGrow
<1>5. DOMAIN db' = {} /\ db' = [p \in DOMAIN db' |-> db'[p]]
  BY <1>1
<1>. QED
  BY <1>1, <1>2, <1>3, <1>4, <1>5, TypeFromParts

LEMMA SendType ==
  ASSUME TypeOK, NEW i \in Slots, NEW req \in Requests, Send(i, req)
  PROVE  TypeOK'
<1>1. client.pos \in Positions /\ client.token \in Tokens /\ [client EXCEPT !.slot = i] \in Clients
  BY DEF TypeOK, Clients
<1>. QED
  BY <1>1, LoadType DEF Send

LEMMA PollAgainType ==
  ASSUME TypeOK, NEW i \in Slots, PollAgain(i)
  PROVE  TypeOK' /\ slots[i] \in Built
<1>1. slots[i] \in Built
  BY SlotType DEF PollAgain, Waiting
<1>2. slots[i].req \in Requests /\ slots[i].pos \in Positions /\ slots[i].from \in Tokens
  BY <1>1 DEF Built
<1>3. Load(i, slots[i].req, slots[i].pos, slots[i].from) /\ UNCHANGED <<log, minted>> /\ client' \in Clients
  BY GoneType DEF PollAgain
<1>. QED
  BY <1>1, <1>2, <1>3, LoadType

LEMMA AnswerType ==
  ASSUME TypeOK, NEW i \in Slots, Answer(i)
  PROVE  TypeOK' /\ slots[i] \in Built
<1>1. slots[i] \in Built /\ client \in Clients
  BY SlotType DEF Answer
<1>. DEFINE new == [pos |-> slots[i].newPos, token |-> slots[i].now,
                    told |-> client.told \cup slots[i].res.told,
                    missed |-> client.missed \cup slots[i].missed, slot |-> None]
<1>2. new \in Clients
  <2>1. slots[i].newPos \in Positions /\ slots[i].now \in Tokens /\ slots[i].res.told \in SUBSET (1 .. Len(log))
    BY <1>1 DEF Built, Tokens
  <2>2. /\ client.told \in SUBSET (1 .. Len(log)) /\ client.missed \in SUBSET Feeds
        /\ slots[i].missed \in SUBSET Feeds
    BY <1>1 DEF Clients, Built
  <2>. QED
    BY <2>1, <2>2 DEF Clients
<1>3. client' \in {client, new} /\ slots' = [slots EXCEPT ![i] = Idle] /\ UNCHANGED <<log, db, minted>>
  BY DEF Answer
<1>. HIDE DEF new
<1>. QED
  BY <1>1, <1>2, <1>3, GoneType, SlotStepType

LEMMA FailType ==
  ASSUME TypeOK, NEW i \in Slots, Fail(i)
  PROVE  TypeOK'
<1>1. client' \in {client, [client EXCEPT !.slot = None]} /\ slots' = [slots EXCEPT ![i] = Idle] /\ UNCHANGED <<log, db, minted>>
  BY DEF Fail
<1>. QED
  BY <1>1, GoneType, SlotStepType

LEMMA NextKeepsType ==
  ASSUME TypeOK, [Next]_vars
  PROVE  TypeOK'
<1>1. CASE UNCHANGED vars
  BY <1>1, GoneType, SlotStepType DEF vars
<1>2. CASE \E x \in Writes : Write(x)
  BY <1>2, WriteType
<1>3. ASSUME NEW i \in Slots
      PROVE  /\ (\E req \in Requests : Send(i, req)) => TypeOK'
             /\ SendUnknown(i) => TypeOK'
             /\ Fail(i) \/ PollAgain(i) \/ PollUnknown(i) \/ Answer(i) => TypeOK'
  <2>1. SendUnknown(i) => TypeOK'
    BY GoneType, SlotStepType DEF SendUnknown, Gone
  <2>2. PollUnknown(i) => TypeOK'
    BY RefusedType DEF PollUnknown
  <2>. QED
    BY <2>1, <2>2, SendType, FailType, PollAgainType, AnswerType
<1>4. ASSUME NEW i \in Slots, NEW now \in nowTokens(slots[i].from),
             IdleReset(i, now) \/ Build(i, now) \/ BuildUnknown(i, now)
      PROVE  TypeOK'
  <2>1. IdleReset(i, now) \/ BuildUnknown(i, now) => Refused(i) /\ UNCHANGED <<log, db, minted>>
    BY DEF IdleReset, BuildUnknown
  <2>. QED
    BY <1>4, <2>1, RefusedType, BuildType
<1>5. CASE Reap
  BY <1>5, ReapType
<1>. QED
  BY <1>1, <1>2, <1>3, <1>4, <1>5 DEF Next

LEMMA InitType ==
  ASSUME Init
  PROVE  TypeOK
<1>1. log \in Seq(Writes) /\ Len(log) = 0 /\ minted = 0 /\ DOMAIN db = {} /\ db = [p \in DOMAIN db |-> db[p]]
  BY DEF Init
<1>2. slots \in [Slots -> {Idle} \cup Loaded \cup Built]
  BY DEF Init
<1>3. client \in Clients
  BY <1>1 DEF Init, Gone, Clients, Positions, Tokens
<1>. QED
  BY <1>1, <1>2, <1>3, BoundsAssumption DEF TypeOK

\* The connection store never holds a position that was not minted, nor a status
\* past the bound; the requests under way and the client have their types, whatever
\* requests overlap, fail, are repeated or lose their position.
THEOREM TypeCorrect == Spec => []TypeOK
<1>1. Init => TypeOK
  BY InitType
<1>2. TypeOK /\ [Next]_vars => TypeOK'
  BY NextKeepsType
<1>. QED
  BY <1>1, <1>2, PTL DEF Spec

---------------------------------------------------------------------------
(* The steps keep the inductive invariant.                                 *)

\* A position is never rewritten: the ones that were there before are as they were.
Immutable == \A p \in DOMAIN db' : p <= minted => p \in DOMAIN db /\ db'[p] = db[p]

LEMMA InvTypes ==
  ASSUME Inv
  PROVE  /\ client.pos \in Nat /\ client.pos <= minted /\ client.token \in Tokens
         /\ client.slot \in Slots \cup {None} /\ client.told \in SUBSET (1 .. Len(log))
         /\ client.pos \in DOMAIN db => db[client.pos] \in States
         /\ 0 \notin DOMAIN db
         /\ \A i \in Slots : slots[i].stage = "loaded" => slots[i].prev \in States
         /\ \A i \in Slots : slots[i].stage = "built" =>
              /\ slots[i].newPos \in Nat /\ slots[i].newPos <= minted /\ slots[i].now \in Tokens
              /\ slots[i].now \in 0 .. Len(log) /\ slots[i].res.told \in SUBSET (1 .. Len(log))
<1>1. TypeOK /\ client \in Clients
  BY GoneType DEF Inv
<1>2. minted \in Nat /\ 0 \notin DOMAIN db /\ (client.pos \in DOMAIN db => db[client.pos] \in States)
  BY <1>1, BoundsAssumption DEF TypeOK
<1>3. /\ client.pos \in Nat /\ client.pos <= minted /\ client.token \in Tokens
      /\ client.slot \in Slots \cup {None} /\ client.told \in SUBSET (1 .. Len(log))
  BY <1>1, <1>2 DEF Clients, Positions
<1>4. \A i \in Slots : slots[i].stage = "loaded" => slots[i].prev \in States
  BY <1>1, SlotType DEF Loaded
<1>5. \A i \in Slots : slots[i].stage = "built" =>
        /\ slots[i].newPos \in Positions /\ slots[i].now \in 0 .. Len(log) /\ slots[i].res.told \in SUBSET (1 .. Len(log))
  BY <1>1, SlotType DEF Built
<1>. QED
  BY <1>2, <1>3, <1>4, <1>5 DEF Positions, Tokens

\* A step that leaves alone what the client has and the request it still awaits.
LEMMA FrameKeeps ==
  ASSUME Inv, TypeOK', NoNewsAway', LogGrew, Immutable,
         client' = client \/ client' = [client EXCEPT !.slot = None],
         \A i \in Slots : client'.slot = i => slots'[i] = slots[i]
  PROVE  Inv'
<1>0. /\ client'.pos = client.pos /\ client'.token = client.token /\ client'.told = client.told
      /\ client'.missed = client.missed
      /\ client'.slot = client.slot \/ client'.slot = None
      /\ TypeOK /\ client.token \in Tokens
      /\ client.pos \in DOMAIN db => db[client.pos] \in States
  <2>1. client \in Clients
    BY GoneType DEF Inv
  <2>. QED
    BY <2>1, InvTypes DEF Clients, Inv
<1>1. client'.pos \in DOMAIN db' => client.pos \in DOMAIN db /\ db'[client'.pos] = db[client.pos]
  BY <1>0, InvTypes DEF Immutable
<1>2. \A i \in Slots : Owned(i)' => Owned(i) /\ slots'[i] = slots[i]
  BY <1>0, NoneAssumption DEF Owned
<1>3. ClientFits'
  BY <1>0, <1>2 DEF Inv, ClientFits
<1>4. \A told, missed : \A x \in States, token \in Tokens :
        Honest(x, token, told, missed) /\ Behind(x, token) => Covered(log', x, token, told, missed)
  BY <1>0, HonestyLasts
<1>5. StoreFits'
  <2>1. SUFFICES ASSUME client'.pos \in DOMAIN db'
                 PROVE  /\ Covered(log', db'[client'.pos], client'.token, client'.told, client'.missed)
                        /\ Behind(db'[client'.pos], client'.token)
    BY DEF StoreFits, Honest, Behind
  <2>2. Honest(db[client.pos], client.token, client.told, client.missed) /\ Behind(db[client.pos], client.token)
    BY <1>1, <2>1 DEF Inv, StoreFits
  <2>. QED
    BY <1>0, <1>1, <1>4, <2>1, <2>2
<1>6. LoadedFits'
  <2>1. SUFFICES ASSUME NEW i \in Slots, Owned(i)', slots'[i].stage = "loaded"
                 PROVE  /\ Covered(log', slots'[i].prev, client'.token, client'.told, client'.missed)
                        /\ Behind(slots'[i].prev, client'.token)
                        /\ client'.pos = 0 => slots'[i].prev = EmptyState
                        /\ client'.pos \in DOMAIN db' => slots'[i].prev = db'[client'.pos]
    BY DEF LoadedFits, Honest, Behind, EmptyState
  <2>2. Owned(i) /\ slots[i].stage = "loaded" /\ slots'[i].prev = slots[i].prev /\ slots[i].prev \in States
    BY <1>2, <2>1, InvTypes
  <2>3. /\ Honest(slots[i].prev, client.token, client.told, client.missed) /\ Behind(slots[i].prev, client.token)
        /\ client.pos = 0 => slots[i].prev = EmptyState
        /\ client.pos \in DOMAIN db => slots[i].prev = db[client.pos]
    BY <2>2 DEF Inv, LoadedFits
  <2>. QED
    BY <1>0, <1>1, <1>4, <2>2, <2>3
<1>7. BuiltFits'
  <2>1. SUFFICES ASSUME NEW i \in Slots, Owned(i)', slots'[i].stage = "built", slots'[i].newPos \in DOMAIN db'
                 PROVE  LET new == db'[slots'[i].newPos]
                        IN /\ Covered(log', new, slots'[i].now, client'.told \cup slots'[i].res.told,
                                      client'.missed \cup slots'[i].missed)
                           /\ Behind(new, slots'[i].now)
                           /\ client'.pos \in DOMAIN db' => NotBack(db'[client'.pos], client'.token, new, slots'[i].now)
    BY DEF BuiltFits, Honest, Behind, NotBack
  <2>2. Owned(i) /\ slots'[i] = slots[i] /\ slots[i].stage = "built" /\ slots[i].now \in Tokens
    BY <1>2, <2>1, InvTypes
  <2>3. slots[i].newPos \in DOMAIN db /\ db'[slots[i].newPos] = db[slots[i].newPos] /\ db[slots[i].newPos] \in States
    BY <1>0, <2>1, <2>2, InvTypes DEF Immutable, TypeOK
  <2>4. LET new == db[slots[i].newPos]
        IN /\ Honest(new, slots[i].now, client.told \cup slots[i].res.told, client.missed \cup slots[i].missed)
           /\ Behind(new, slots[i].now)
           /\ client.pos \in DOMAIN db => NotBack(db[client.pos], client.token, new, slots[i].now)
    BY <2>2, <2>3 DEF Inv, BuiltFits
  <2>. QED
    BY <1>0, <1>1, <1>4, <2>2, <2>3, <2>4
<1>. QED
  BY <1>3, <1>5, <1>6, <1>7 DEF Inv

LEMMA QuietKeepsNews ==
  ASSUME NoNewsAway, log' = log
  PROVE  NoNewsAway'
BY DEF NoNewsAway, Joined, OwnChanges, ItemsOf

LEMMA WriteKeepsNews ==
  ASSUME Steady, TypeOK, NoNewsAway, NEW x \in Writes, Write(x)
  PROVE  NoNewsAway'
<1>0. LogGrew /\ Len(log') = Len(log) + 1 /\ log'[Len(log) + 1] = x /\ Len(log) \in Nat
  BY WriteGrows, LogType
<1>1. x.kind = "message" => Joined(x.room, Len(log))
  BY DEF Write, Steady
<1>2. \A r, b : b \in 0 .. Len(log) => (Joined(r, b)' <=> Joined(r, b))
  BY <1>0, ReadsAlike
<1>3. SUFFICES ASSUME NEW p \in 1 .. Len(log'), log'[p].kind = "message"
               PROVE  \A r : r = log'[p].room => Joined(r, p - 1)'
  BY DEF NoNewsAway, Joined, OwnChanges, ItemsOf
<1>4. CASE p = Len(log) + 1
  <2>1. p - 1 = Len(log) /\ log'[p] = x
    BY <1>0, <1>4
  <2>2. Joined(x.room, Len(log))
    BY <1>1, <1>3, <2>1
  <2>3. \A r : r = x.room => Joined(r, p - 1)'
    BY <1>0, <1>2, <2>1, <2>2
  <2>. QED
    BY <2>1, <2>3
<1>5. CASE p # Len(log) + 1
  <2>1. p \in 1 .. Len(log) /\ p - 1 \in 0 .. Len(log) /\ log'[p] = log[p]
    BY <1>0, <1>3, <1>5 DEF LogGrew
  <2>2. Joined(log[p].room, p - 1)
    BY <1>3, <2>1 DEF NoNewsAway
  <2>3. \A r : r = log[p].room => Joined(r, p - 1)'
    BY <1>2, <2>1, <2>2
  <2>. QED
    BY <2>1, <2>3
<1>. QED
  BY <1>4, <1>5

LEMMA WriteKeeps ==
  ASSUME Steady, Inv, NEW x \in Writes, Write(x)
  PROVE  Inv'
<1>1. TypeOK' /\ NoNewsAway' /\ LogGrew
  BY WriteType, WriteKeepsNews, WriteGrows DEF Inv
<1>2. UNCHANGED <<db, slots, client>>
  BY DEF Write
<1>. QED
  BY <1>1, <1>2, FrameKeeps DEF Immutable

LEMMA ReapKeeps ==
  ASSUME Inv, Reap
  PROVE  Inv'
<1>1. TypeOK' /\ NoNewsAway' /\ LogGrew
  BY ReapType, QuietKeepsNews DEF Inv, Reap
<1>2. UNCHANGED <<slots, client>> /\ DOMAIN db' = {}
  BY DEF Reap
<1>. QED
  BY <1>1, <1>2, FrameKeeps DEF Immutable

\* A request nobody waits for any more is invisible to the client, whatever it writes.
LEMMA AbandonedKeeps ==
  ASSUME Inv, TypeOK', UNCHANGED <<log, client>>, Immutable, NEW i \in Slots, ~Owned(i), NEW x,
         slots' = [slots EXCEPT ![i] = x]
  PROVE  Inv'
<1>1. NoNewsAway' /\ LogGrew
  BY QuietKeepsNews, UnchangedGrows DEF Inv
<1>2. \A j \in Slots : client'.slot = j => slots'[j] = slots[j]
  BY DEF Owned, Inv, TypeOK
<1>. QED
  BY <1>1, <1>2, FrameKeeps

LEMMA GoneKeeps ==
  ASSUME Inv, TypeOK', log' = log, client' = Gone
  PROVE  Inv'
<1>1. client'.pos = 0 /\ client'.token = None /\ client'.slot = None
  BY DEF Gone
<1>2. client'.pos \notin DOMAIN db'
  BY <1>1 DEF TypeOK
<1>3. \A i \in Slots : ~Owned(i)'
  BY <1>1, NoneAssumption DEF Owned
<1>. QED
  BY <1>1, <1>2, <1>3, QuietKeepsNews DEF Inv, ClientFits, StoreFits, LoadedFits, BuiltFits

LEMMA RefusedKeeps ==
  ASSUME Inv, NEW i \in Slots, Refused(i), UNCHANGED <<log, db, minted>>
  PROVE  Inv'
<1>1. TypeOK' /\ slots' = [slots EXCEPT ![i] = Idle] /\ Immutable
  BY RefusedType DEF Inv, Refused, Immutable
<1>2. CASE Owned(i)
  BY <1>1, <1>2, GoneKeeps DEF Refused, Gone
<1>3. CASE ~Owned(i)
  BY <1>1, <1>3, AbandonedKeeps DEF Refused
<1>. QED
  BY <1>2, <1>3

LEMMA FailKeeps ==
  ASSUME Inv, NEW i \in Slots, Fail(i)
  PROVE  Inv'
<1>1. TypeOK' /\ NoNewsAway' /\ LogGrew /\ Immutable
  BY FailType, QuietKeepsNews, UnchangedGrows DEF Inv, Fail, Immutable
<1>2. slots' = [slots EXCEPT ![i] = Idle] /\ client' = IF Owned(i) THEN [client EXCEPT !.slot = None] ELSE client
  BY DEF Fail
<1>3. \A j \in Slots : client'.slot = j => slots'[j] = slots[j]
  <2>1. CASE Owned(i)
    <3>1. client'.slot = None
      BY <1>2, <2>1 DEF Inv, TypeOK
    <3>. QED
      BY <3>1, NoneAssumption
  <2>2. CASE ~Owned(i)
    BY <1>2, <2>2 DEF Owned, Inv, TypeOK
  <2>. QED
    BY <2>1, <2>2
<1>. QED
  BY <1>1, <1>2, <1>3, FrameKeeps

\* Nothing counts as sent on a connection that starts.
LEMMA EmptyIsHonest ==
  ASSUME NEW token, NEW told, NEW missed
  PROVE  Honest(EmptyState, token, told, missed) /\ Behind(EmptyState, token)
<1>1. \A s \in Streams, r \in Rooms : EmptyState.status[s][r] = Never
  BY DEF EmptyState
<1>2. \A s \in Streams, r \in Rooms : CursorOf(EmptyState, token, s, r) = None
  BY <1>1 DEF CursorOf
<1>. QED
  BY <1>1, <1>2 DEF Honest, Covered, Behind

\* Send, and the next pass of a poll that the client still awaits.
LEMMA LoadKeeps ==
  ASSUME Inv, TypeOK', NEW i \in Slots, NEW req, Load(i, req, client.pos, client.token), UNCHANGED <<log, minted>>,
         client' = [client EXCEPT !.slot = i]
  PROVE  Inv'
<1>0. /\ client'.pos = client.pos /\ client'.token = client.token /\ client'.told = client.told
      /\ client'.missed = client.missed /\ client'.slot = i
      /\ client.pos # 0 => client.pos \in DOMAIN db
      /\ 0 \notin DOMAIN db /\ 0 \notin DOMAIN db'
  BY InvTypes DEF Inv, TypeOK, Load
<1>. DEFINE prev == IF client.pos = 0 THEN EmptyState ELSE db[client.pos]
<1>1. /\ slots'[i].stage = "loaded" /\ slots'[i].pos = client.pos /\ slots'[i].from = client.token
      /\ slots'[i].prev = prev
  BY DEF Load, Inv, TypeOK
<1>2. client.pos # 0 => client.pos \in DOMAIN db' /\ db'[client.pos] = db[client.pos]
  BY DEF Load, pruned
<1>3. Honest(prev, client.token, client.told, client.missed) /\ Behind(prev, client.token)
  BY <1>0, EmptyIsHonest DEF Inv, StoreFits
<1>4. client'.pos \in DOMAIN db' => client.pos # 0 /\ db'[client'.pos] = prev
  BY <1>0, <1>2
<1>5. \A j \in Slots : Owned(j)' => j = i
  BY <1>0 DEF Owned
<1>6. client.pos = 0 => prev = EmptyState
  OBVIOUS
<1>. HIDE DEF prev
<1>7. Covered(log', prev, client'.token, client'.told, client'.missed) /\ Behind(prev, client'.token)
  BY <1>0, <1>3 DEF Honest
<1>8. ClientFits'
  BY <1>0, <1>1, <1>5 DEF Inv, ClientFits
<1>9. StoreFits'
  BY <1>4, <1>7 DEF StoreFits, Honest
<1>10. LoadedFits'
  BY <1>0, <1>1, <1>4, <1>5, <1>6, <1>7 DEF LoadedFits, Honest
<1>11. BuiltFits'
  BY <1>1, <1>5 DEF BuiltFits
<1>. QED
  BY <1>8, <1>9, <1>10, <1>11, QuietKeepsNews DEF Inv

LEMMA SendKeeps ==
  ASSUME Inv, NEW i \in Slots, NEW req \in Requests, Send(i, req)
  PROVE  Inv'
<1>1. TypeOK'
  BY SendType DEF Inv
<1>. QED
  BY <1>1, LoadKeeps DEF Send

LEMMA PollAgainKeeps ==
  ASSUME Inv, NEW i \in Slots, PollAgain(i)
  PROVE  Inv'
<1>1. TypeOK' /\ client \in Clients /\ minted \in Nat
  BY PollAgainType, SlotType DEF Inv
<1>2. Load(i, slots[i].req, slots[i].pos, slots[i].from) /\ UNCHANGED <<log, minted, client>>
  BY DEF PollAgain
<1>3. CASE Owned(i)
  <2>1. slots[i].pos = client.pos /\ slots[i].from = client.token
    BY <1>3 DEF Inv, ClientFits
  <2>2. client' = [client EXCEPT !.slot = i]
    BY <1>1, <1>2, <1>3 DEF Owned, Clients
  <2>. QED
    BY <1>1, <1>2, <2>1, <2>2, LoadKeeps
<1>4. CASE ~Owned(i)
  <2>1. Immutable
    BY <1>2 DEF Load, pruned, Immutable
  <2>2. \E x : slots' = [slots EXCEPT ![i] = x]
    BY <1>2 DEF Load
  <2>. QED
    BY <1>1, <1>2, <1>4, <2>1, <2>2, AbandonedKeeps
<1>. QED
  BY <1>3, <1>4

\* The answer makes true for the client what the new position says.
LEMMA AnswerKeeps ==
  ASSUME Inv, NEW i \in Slots, Answer(i)
  PROVE  Inv'
<1>1. TypeOK' /\ slots[i].stage = "built" /\ UNCHANGED <<log, db, minted>> /\ slots' = [slots EXCEPT ![i] = Idle]
  BY AnswerType DEF Inv, Answer
<1>2. CASE ~Owned(i)
  <2>1. Immutable /\ client' = client
    BY <1>1, <1>2 DEF Immutable, Answer
  <2>. QED
    BY <1>1, <1>2, <2>1, AbandonedKeeps
<1>3. CASE Owned(i)
  <2>1. /\ client'.pos = slots[i].newPos /\ client'.token = slots[i].now /\ client'.slot = None
        /\ client'.told = client.told \cup slots[i].res.told
        /\ client'.missed = client.missed \cup slots[i].missed
    BY <1>3 DEF Answer
  <2>2. client'.token # None
    BY <1>1, <2>1, InvTypes, LogType, NoneAssumption DEF Inv
  <2>3. \A j \in Slots : ~Owned(j)'
    BY <2>1, NoneAssumption DEF Owned
  <2>4. StoreFits'
    BY <1>1, <1>3, <2>1 DEF Inv, BuiltFits, StoreFits, Honest
  <2>. QED
    BY <1>1, <2>1, <2>2, <2>3, <2>4, QuietKeepsNews DEF Inv, ClientFits, LoadedFits, BuiltFits
<1>. QED
  BY <1>2, <1>3

\* What Build does to the store.
LEMMA BuildWrites ==
  ASSUME TypeOK, NEW i \in Slots, NEW now \in nowTokens(slots[i].from), Build(i, now)
  PROVE  LET q == At(i, now)
             relevant == Relevant(q)
             sent == RoomsToSend(q, relevant)
             next == NextState(q, relevant, sent)
         IN /\ Immutable /\ next \in States
            /\ \/ /\ minted' = minted + 1 /\ PersistsFrom(q) /\ q.req.listed
                  /\ minted' \in DOMAIN db' /\ db'[minted'] = Written(q, next)
                  /\ q.pos # 0 => DOMAIN db \subseteq DOMAIN db'
               \/ /\ UNCHANGED <<db, minted>>
                  /\ q.req.listed => ~HasUpdates(q, next, sent)
<1>. DEFINE q == At(i, now)
            relevant == Relevant(q)
            sent == RoomsToSend(q, relevant)
            next == NextState(q, relevant, sent)
<1>0. slots[i].stage = "loaded" /\ minted \in Nat
  BY BoundsAssumption DEF Build, TypeOK
<1>1. next \in States
  BY <1>0, AtType, NextStateType
<1>2. \/ PersistsFrom(q) /\ db' = Mint(q, next) /\ minted' = minted + 1 /\ q.req.listed
      \/ UNCHANGED <<db, minted>> /\ ~(q.req.listed /\ HasUpdates(q, next, sent))
  BY DEF Build
<1>. HIDE DEF q, relevant, sent, next
<1>3. CASE PersistsFrom(q) /\ db' = Mint(q, next) /\ minted' = minted + 1 /\ q.req.listed
  <2>1. /\ minted' \in DOMAIN db' /\ db'[minted'] = Written(q, next)
        /\ \A p \in DOMAIN db' : p # minted' => p \in DOMAIN db /\ db'[p] = db[p]
        /\ q.pos # 0 => DOMAIN db \subseteq DOMAIN db'
    BY <1>1, <1>3, MintType
  <2>2. Immutable
    BY <1>0, <1>3, <2>1 DEF Immutable
  <2>. QED
    BY <1>1, <1>3, <2>1, <2>2 DEF q, relevant, sent, next
<1>4. CASE UNCHANGED <<db, minted>> /\ ~(q.req.listed /\ HasUpdates(q, next, sent))
  BY <1>1, <1>4 DEF Immutable, q, relevant, sent, next
<1>. QED
  BY <1>2, <1>3, <1>4

\* A response for the client that awaits it.
LEMMA AwaitedBuildKeeps ==
  ASSUME Inv, NEW i \in Slots, Owned(i), NEW now \in nowTokens(slots[i].from), Build(i, now)
  PROVE  Inv'
<1>. DEFINE q == At(i, now)
            relevant == Relevant(q)
            sent == RoomsToSend(q, relevant)
            next == NextState(q, relevant, sent)
            more == Response(q, relevant, sent).told
            kept == IF q.req.listed THEN next ELSE q.prev
<1>0. /\ TypeOK' /\ TypeOK /\ NoNewsAway /\ slots[i].stage = "loaded" /\ log' = log /\ client' = client
      /\ minted \in Nat
  <2>1. TypeOK /\ NoNewsAway
    BY DEF Inv
  <2>2. TypeOK'
    BY <2>1, BuildType
  <2>3. minted \in Nat
    BY <2>1, SlotType
  <2>. QED
    BY <2>1, <2>2, <2>3 DEF Build
<1>1. /\ q \in Queries /\ q.now = now /\ q.pos = client.pos /\ q.from = client.token /\ q.prev = slots[i].prev
      /\ q.from # None => q.from <= q.now
  <2>1. slots[i].pos = client.pos /\ slots[i].from = client.token
    BY DEF Inv, ClientFits
  <2>2. q.now = now /\ q.pos = slots[i].pos /\ q.from = slots[i].from /\ q.prev = slots[i].prev
    BY DEF At
  <2>3. q \in Queries /\ (q.from # None => q.from <= q.now)
    BY <1>0, <2>2, AtType
  <2>. QED
    BY <2>1, <2>2, <2>3
<1>2. /\ Honest(q.prev, q.from, client.told, client.missed) /\ Behind(q.prev, q.from)
      /\ client.pos = 0 => q.prev = EmptyState
      /\ client.pos \in DOMAIN db => q.prev = db[client.pos]
  BY <1>0, <1>1 DEF Inv, LoadedFits
<1>3. Asked(q, client.told, client.missed)
  BY <1>1, <1>2 DEF Asked
<1>4. /\ kept \in States /\ Honest(kept, now, client.told \cup more, client.missed \cup SteppedOver(q))
      /\ Behind(kept, now) /\ NotBack(q.prev, q.from, kept, now)
      /\ q.req.listed /\ copyForward(q) = q.prev => Written(q, next) = next
      /\ ~HasUpdates(q, next, sent) => next = q.prev
  BY <1>0, <1>1, <1>3, BuildIsHonest
<1>5. /\ slots'[i].stage = "built" /\ slots'[i].pos = client.pos /\ slots'[i].from = client.token
      /\ slots'[i].newPos = IF minted' # minted THEN minted' ELSE client.pos
      /\ slots'[i].now = now /\ slots'[i].res.told = more /\ slots'[i].missed = SteppedOver(q)
  BY <1>0, <1>1 DEF Build, TypeOK
<1>6. /\ Immutable
      /\ \/ /\ minted' = minted + 1 /\ PersistsFrom(q) /\ q.req.listed
            /\ minted' \in DOMAIN db' /\ db'[minted'] = Written(q, next)
         \/ /\ UNCHANGED <<db, minted>> /\ kept = q.prev
  BY <1>0, <1>1, <1>4, BuildWrites
<1>7. PersistsFrom(q) => copyForward(q) = q.prev
  BY <1>1, <1>2 DEF PersistsFrom, copyForward
<1>8. q.req.listed => kept = next
  OBVIOUS
<1>. HIDE DEF q, relevant, sent, next, more, kept
<1>9. /\ client.pos \in DOMAIN db' => client.pos \in DOMAIN db /\ db'[client.pos] = q.prev
      /\ slots'[i].newPos \in DOMAIN db' => db'[slots'[i].newPos] = kept
  <2>1. client.pos \in DOMAIN db' => client.pos \in DOMAIN db /\ db'[client.pos] = q.prev
    BY <1>2, <1>6, InvTypes DEF Immutable
  <2>2. CASE minted' = minted + 1 /\ PersistsFrom(q) /\ q.req.listed /\ db'[minted'] = Written(q, next)
    BY <1>0, <1>4, <1>5, <1>7, <1>8, <2>1, <2>2
  <2>3. CASE UNCHANGED <<db, minted>> /\ kept = q.prev
    BY <1>5, <2>1, <2>3
  <2>. QED
    BY <1>6, <2>1, <2>2, <2>3
<1>10. \A j \in Slots : Owned(j)' => j = i
  BY <1>0 DEF Owned
<1>11. ClientFits'
  BY <1>0, <1>5, <1>10 DEF Inv, ClientFits
<1>12. StoreFits'
  BY <1>0, <1>1, <1>2, <1>9 DEF StoreFits, Honest
<1>13. LoadedFits'
  BY <1>5, <1>10 DEF LoadedFits
<1>14. BuiltFits'
  BY <1>0, <1>1, <1>4, <1>5, <1>9, <1>10 DEF BuiltFits, Honest
<1>. QED
  BY <1>0, <1>11, <1>12, <1>13, <1>14, QuietKeepsNews DEF Inv

LEMMA BuildKeeps ==
  ASSUME Inv, NEW i \in Slots, NEW now \in nowTokens(slots[i].from), Build(i, now)
  PROVE  Inv'
<1>1. CASE Owned(i)
  BY <1>1, AwaitedBuildKeeps
<1>2. CASE ~Owned(i)
  <2>1. TypeOK' /\ Immutable /\ UNCHANGED <<log, client>>
    BY BuildType, BuildWrites DEF Inv, Build
  <2>2. \E x : slots' = [slots EXCEPT ![i] = x]
    BY DEF Build
  <2>. QED
    BY <1>2, <2>1, <2>2, AbandonedKeeps
<1>. QED
  BY <1>1, <1>2

LEMMA NextKeeps ==
  ASSUME Steady, Inv, [Next]_vars
  PROVE  Inv'
<1>0. TypeOK /\ TypeOK'
  BY NextKeepsType DEF Inv
<1>1. CASE UNCHANGED vars
  <2>1. LogGrew /\ NoNewsAway' /\ UNCHANGED <<slots, client>> /\ Immutable
    BY <1>0, <1>1, UnchangedGrows, QuietKeepsNews DEF Inv, vars, Immutable
  <2>. QED
    BY <1>0, <2>1, FrameKeeps
<1>2. CASE \E x \in Writes : Write(x)
  BY <1>2, WriteKeeps
<1>3. ASSUME NEW i \in Slots
      PROVE  /\ (\E req \in Requests : Send(i, req)) => Inv'
             /\ SendUnknown(i) => Inv'
             /\ Fail(i) \/ PollAgain(i) \/ PollUnknown(i) \/ Answer(i) => Inv'
  <2>1. SendUnknown(i) => Inv'
    BY <1>0, GoneKeeps DEF SendUnknown, Gone
  <2>2. PollUnknown(i) => Inv'
    BY RefusedKeeps DEF PollUnknown
  <2>. QED
    BY <2>1, <2>2, SendKeeps, FailKeeps, PollAgainKeeps, AnswerKeeps
<1>4. ASSUME NEW i \in Slots, NEW now \in nowTokens(slots[i].from),
             IdleReset(i, now) \/ Build(i, now) \/ BuildUnknown(i, now)
      PROVE  Inv'
  <2>1. IdleReset(i, now) \/ BuildUnknown(i, now) => Refused(i) /\ UNCHANGED <<log, db, minted>>
    BY DEF IdleReset, BuildUnknown
  <2>. QED
    BY <1>4, <2>1, RefusedKeeps, BuildKeeps
<1>5. CASE Reap
  BY <1>5, ReapKeeps
<1>. QED
  BY <1>1, <1>2, <1>3, <1>4, <1>5 DEF Next

LEMMA InitInv ==
  ASSUME Init
  PROVE  Inv
<1>1. TypeOK
  BY InitType
<1>2. client.pos = 0 /\ client.slot = None /\ DOMAIN db = {} /\ Len(log) = 0
  BY DEF Init, Gone
<1>3. \A i \in Slots : ~Owned(i)
  BY <1>2, NoneAssumption DEF Owned
<1>. QED
  BY <1>1, <1>2, <1>3 DEF Inv, ClientFits, StoreFits, LoadedFits, BuiltFits, NoNewsAway

\* The inductive invariant holds throughout.
THEOREM Invariance ==
  ASSUME Steady
  PROVE  Spec => []Inv
<1>1. Init => Inv
  BY InitInv
<1>2. Inv /\ [Next]_vars => Inv'
  BY NextKeeps
<1>. QED
  BY <1>1, <1>2, PTL DEF Spec

\* A room that counts as sent, live or up to where it fell behind, has been sent, but
\* for the feeds that some answer stepped over: filterRoomsToSend, the timelines, the
\* receipts, Persist, GetAndClear and the poll keep what is recorded of a connection
\* within what its client was told. Build's loop over AllRooms, accountDataExtension's
\* early return and a request without lists are the only ways out of that.
THEOREM SentMeansTold ==
  ASSUME Steady
  PROVE  Spec => []HonestCursor
<1>1. Inv => HonestCursor
  <2>1. SUFFICES ASSUME Inv, NEW s \in Streams, NEW r \in Rooms, Cursor(s, r) # None, <<s, r>> \notin client.missed
                 PROVE  ItemsOf(s, r, 0, Cursor(s, r)) \subseteq client.told
    BY DEF HonestCursor
  <2>2. client.pos \in DOMAIN db /\ Cursor(s, r) = CursorOf(db[client.pos], client.token, s, r)
    BY <2>1 DEF Cursor
  <2>3. Honest(db[client.pos], client.token, client.told, client.missed)
    BY <2>1, <2>2 DEF Inv, StoreFits
  <2>. QED
    BY <2>1, <2>2, <2>3, HonestMeans
<1>. QED
  BY <1>1, Invariance, PTL

---------------------------------------------------------------------------
(* The refinement: every step of the connection is a step of its contract. *)

\* A client whose position is gone has no cursors left.
LEMMA CursorsGone ==
  ASSUME client'.pos \notin DOMAIN db'
  PROVE  Cursors' = Contract!NoCursors
BY DEF Cursors, Cursor, Contract!NoCursors

\* A step that changes nothing of what the client holds leaves the contract alone, or
\* has cost the connection its position.
LEMMA KeptOrForgot ==
  ASSUME Inv, UNCHANGED log, Immutable,
         client'.pos = client.pos, client'.token = client.token, client'.told = client.told,
         client'.missed = client.missed
  PROVE  Contract!Next \/ UNCHANGED Contract!vars
<1>1. CASE client'.pos \in DOMAIN db'
  <2>1. client.pos \in DOMAIN db /\ db'[client'.pos] = db[client.pos]
    BY <1>1, InvTypes DEF Immutable
  <2>2. \A s \in Streams, r \in Rooms : Cursor(s, r)' = Cursor(s, r)
    BY <1>1, <2>1 DEF Cursor, CursorOf, Never, Live
  <2>3. Cursors' = Cursors
    BY <2>2 DEF Cursors, Feeds
  <2>. QED
    BY <2>3 DEF Contract!vars
<1>2. CASE client'.pos \notin DOMAIN db'
  BY <1>2, CursorsGone DEF Contract!Next, Contract!Forget
<1>. QED
  BY <1>1, <1>2

LEMMA WritePublishes ==
  ASSUME TypeOK, NEW x \in Writes, Write(x)
  PROVE  Contract!Publish
<1>1. log' = Append(log, x) /\ UNCHANGED <<db, client>> /\ log \in Seq(Writes)
  BY DEF Write, TypeOK
<1>2. Len(log') = Len(log) + 1 /\ log'[Len(log')] = x
  BY <1>1
<1>3. SubSeq(log', 1, Len(log)) = log
  BY <1>1
<1>4. FeedOf(x) \in Feeds
  BY WritesAssumption DEF FeedOf, Feeds
<1>5. FeedOf(log'[Len(log')]) \in Feeds
  BY <1>2, <1>4
<1>6. Cursors' = Cursors
  BY <1>1 DEF Cursors, Cursor, CursorOf, Never, Live
<1>. QED
  BY <1>1, <1>2, <1>3, <1>5, <1>6 DEF Contract!Publish

LEMMA GoneRestarts ==
  ASSUME TypeOK', UNCHANGED log, client' = Gone
  PROVE  Contract!Restart
<1>1. client'.pos = 0 /\ client'.told = {} /\ 0 \notin DOMAIN db'
  BY DEF Gone, TypeOK
<1>. QED
  BY <1>1, CursorsGone DEF Contract!Restart

\* A response that reaches the client tells it everything up to the cursors it moves,
\* and moves none of them back.
LEMMA AnswerAnswers ==
  ASSUME Inv, Inv', NEW i \in Slots, Owned(i), Answer(i)
  PROVE  Contract!Answer \/ UNCHANGED Contract!vars
<1>0. /\ slots[i].stage = "built" /\ UNCHANGED <<log, db>>
      /\ client'.pos = slots[i].newPos /\ client'.token = slots[i].now
      /\ client'.told = client.told \cup slots[i].res.told
      /\ client'.missed = client.missed \cup slots[i].missed
  BY DEF Answer
<1>1. Len(log) \in Nat /\ log \in Seq(Writes) /\ DOMAIN log = 1 .. Len(log)
  BY LogType DEF Inv, TypeOK
<1>2. client.told \subseteq client'.told /\ client'.told \subseteq DOMAIN log
  BY <1>0, <1>1, InvTypes
<1>3. ASSUME NEW s \in Streams, NEW r \in Rooms, client'.pos \in DOMAIN db'
      PROVE  LET c == CursorOf(db[slots[i].newPos], slots[i].now, s, r)
             IN /\ c \in DOMAIN log \cup {0, None}
                /\ c # None /\ <<s, r>> \notin client'.missed =>
                     {p \in DOMAIN log : p <= c /\ FeedOf(log[p]) = <<s, r>>} \subseteq client'.told
                /\ Cursor(s, r) # None /\ c # None => c >= Cursor(s, r)
  <2>. DEFINE state == db[slots[i].newPos]
              c == CursorOf(state, slots[i].now, s, r)
  <2>1. slots[i].newPos \in DOMAIN db /\ state \in States /\ slots[i].now \in Tokens /\ TypeOK
    BY <1>0, <1>3, InvTypes DEF Inv, TypeOK
  <2>2. /\ Honest(state, slots[i].now, client'.told, client'.missed) /\ Behind(state, slots[i].now)
        /\ client.pos \in DOMAIN db => NotBack(db[client.pos], client.token, state, slots[i].now)
    BY <1>0, <2>1 DEF Inv, BuiltFits
  <2>3. c \in Tokens
    BY <2>1, <2>2, CursorType
  <2>4. c # None /\ <<s, r>> \notin client'.missed => ItemsOf(s, r, 0, c) \subseteq client'.told
    BY <2>2, HonestMeans
  <2>5. Cursor(s, r) # None /\ c # None => c >= Cursor(s, r)
    BY <2>2 DEF Cursor, NotBack
  <2>. HIDE DEF c
  <2>6. c # None => {p \in DOMAIN log : p <= c /\ FeedOf(log[p]) = <<s, r>>} \subseteq ItemsOf(s, r, 0, c)
    <3>1. SUFFICES ASSUME c # None, NEW p \in DOMAIN log, p <= c, FeedOf(log[p]) = <<s, r>>
                   PROVE  p \in 0 + 1 .. c /\ log[p].stream = s /\ log[p].room = r
      BY DEF ItemsOf
    <3>. QED
      BY <1>1, <2>3, <3>1 DEF FeedOf, Tokens
  <2>7. c \in DOMAIN log \cup {0, None}
    BY <1>1, <2>3 DEF Tokens
  <2>. QED
    BY <2>4, <2>5, <2>6, <2>7 DEF c
<1>4. ASSUME NEW s \in Streams, NEW r \in Rooms
      PROVE  /\ Cursor(s, r)' \in DOMAIN log \cup {0, None}
             /\ Cursor(s, r)' # None /\ <<s, r>> \notin client'.missed =>
                  {p \in DOMAIN log : p <= Cursor(s, r)' /\ FeedOf(log[p]) = <<s, r>>} \subseteq client'.told
             /\ Cursor(s, r) # None /\ Cursor(s, r)' # None => Cursor(s, r)' >= Cursor(s, r)
  <2>1. CASE client'.pos \in DOMAIN db'
    <3>1. Cursor(s, r)' = CursorOf(db[slots[i].newPos], slots[i].now, s, r)
      BY <1>0, <2>1 DEF Cursor, CursorOf, Never, Live
    <3>. QED
      BY <1>3, <2>1, <3>1
  <2>2. CASE client'.pos \notin DOMAIN db'
    <3>1. Cursor(s, r)' = None
      BY <2>2 DEF Cursor
    <3>. QED
      BY <3>1
  <2>. QED
    BY <2>1, <2>2
<1>5. \A f \in Feeds : /\ f[1] \in Streams /\ f[2] \in Rooms /\ f = <<f[1], f[2]>>
                       /\ Cursors[f] = IF f \in client.missed THEN None ELSE Cursor(f[1], f[2])
                       /\ Cursors'[f] = IF f \in client'.missed THEN None ELSE Cursor(f[1], f[2])'
  BY DEF Feeds, Cursors
<1>6. Cursors' \in [Feeds -> DOMAIN log \cup {0, None}]
  <2>1. \A f \in Feeds : Cursor(f[1], f[2])' \in DOMAIN log \cup {0, None}
    BY <1>4, <1>5
  <2>. QED
    BY <2>1 DEF Cursors, Feeds
<1>7. \A f \in Feeds : Cursors'[f] # None => Contract!Items(f, Cursors'[f]) \subseteq client'.told
  BY <1>4, <1>5 DEF Contract!Items
<1>8. \A f \in Feeds : Cursors[f] # None /\ Cursors'[f] # None => Cursors'[f] >= Cursors[f]
  BY <1>4, <1>5
<1>. QED
  BY <1>0, <1>2, <1>6, <1>7, <1>8 DEF Contract!Answer, Contract!vars

LEMMA RefusedRestarts ==
  ASSUME Inv, NEW i \in Slots, Refused(i), UNCHANGED <<log, db, minted>>
  PROVE  Contract!Next \/ UNCHANGED Contract!vars
<1>1. TypeOK' /\ Immutable
  BY RefusedType DEF Inv, Immutable
<1>2. CASE Owned(i)
  BY <1>1, <1>2, GoneRestarts DEF Refused, Gone, Contract!Next
<1>3. CASE ~Owned(i)
  BY <1>1, <1>3, KeptOrForgot DEF Refused
<1>. QED
  BY <1>2, <1>3

LEMMA StepIsContractStep ==
  ASSUME Steady, Inv, [Next]_vars
  PROVE  Contract!Next \/ UNCHANGED Contract!vars
<1>0. TypeOK /\ TypeOK' /\ Inv' /\ client \in Clients
  BY NextKeepsType, NextKeeps, GoneType DEF Inv
<1>1. CASE UNCHANGED vars
  BY <1>1, KeptOrForgot DEF vars, Immutable
<1>2. CASE \E x \in Writes : Write(x)
  BY <1>0, <1>2, WritePublishes DEF Contract!Next
<1>3. ASSUME NEW i \in Slots, NEW req, NEW pos, NEW from, Load(i, req, pos, from), UNCHANGED <<log, minted>>,
             client' = client \/ client' = [client EXCEPT !.slot = i]
      PROVE  Contract!Next \/ UNCHANGED Contract!vars
  <2>1. Immutable
    BY <1>3 DEF Load, pruned, Immutable
  <2>2. /\ client'.pos = client.pos /\ client'.token = client.token /\ client'.told = client.told
        /\ client'.missed = client.missed
    BY <1>0, <1>3 DEF Clients
  <2>. QED
    BY <1>3, <2>1, <2>2, KeptOrForgot
<1>4. ASSUME NEW i \in Slots
      PROVE  /\ (\E req \in Requests : Send(i, req)) => Contract!Next \/ UNCHANGED Contract!vars
             /\ SendUnknown(i) => Contract!Next \/ UNCHANGED Contract!vars
             /\ Fail(i) => Contract!Next \/ UNCHANGED Contract!vars
             /\ PollAgain(i) \/ PollUnknown(i) \/ Answer(i) => Contract!Next \/ UNCHANGED Contract!vars
  <2>1. (\E req \in Requests : Send(i, req)) => Contract!Next \/ UNCHANGED Contract!vars
    BY <1>3 DEF Send
  <2>2. SendUnknown(i) => Contract!Next
    BY <1>0, GoneRestarts DEF SendUnknown, Gone, Contract!Next
  <2>3. Fail(i) => Contract!Next \/ UNCHANGED Contract!vars
    <3>1. SUFFICES ASSUME Fail(i) PROVE Contract!Next \/ UNCHANGED Contract!vars
      OBVIOUS
    <3>2. UNCHANGED <<log, db, minted>> /\ (client' = client \/ client' = [client EXCEPT !.slot = None])
      BY <3>1 DEF Fail
    <3>3. /\ client'.pos = client.pos /\ client'.token = client.token /\ client'.told = client.told
          /\ client'.missed = client.missed
      BY <1>0, <3>2 DEF Clients
    <3>. QED
      BY <3>2, <3>3, KeptOrForgot DEF Immutable
  <2>4. PollAgain(i) => Contract!Next \/ UNCHANGED Contract!vars
    BY <1>3 DEF PollAgain
  <2>5. PollUnknown(i) => Contract!Next \/ UNCHANGED Contract!vars
    BY RefusedRestarts DEF PollUnknown
  <2>6. Answer(i) => Contract!Next \/ UNCHANGED Contract!vars
    <3>1. Answer(i) /\ Owned(i) => Contract!Answer \/ UNCHANGED Contract!vars
      BY <1>0, AnswerAnswers
    <3>2. Answer(i) /\ ~Owned(i) => Contract!Next \/ UNCHANGED Contract!vars
      BY KeptOrForgot DEF Answer, Immutable
    <3>. QED
      BY <3>1, <3>2 DEF Contract!Next
  <2>. QED
    BY <2>1, <2>2, <2>3, <2>4, <2>5, <2>6
<1>5. ASSUME NEW i \in Slots, NEW now \in nowTokens(slots[i].from),
             IdleReset(i, now) \/ Build(i, now) \/ BuildUnknown(i, now)
      PROVE  Contract!Next \/ UNCHANGED Contract!vars
  <2>1. IdleReset(i, now) \/ BuildUnknown(i, now) => Refused(i) /\ UNCHANGED <<log, db, minted>>
    BY DEF IdleReset, BuildUnknown
  <2>2. Build(i, now) => Immutable /\ UNCHANGED <<log, client>>
    BY <1>0, BuildWrites DEF Build
  <2>. QED
    BY <1>5, <2>1, <2>2, RefusedRestarts, KeptOrForgot
<1>6. CASE Reap
  <2>1. Immutable /\ UNCHANGED <<log, client>>
    BY <1>6 DEF Reap, Immutable
  <2>. QED
    BY <2>1, KeptOrForgot
<1>. QED
  BY <1>1, <1>2, <1>4, <1>5, <1>6 DEF Next

\* The connection keeps its contract for the feeds it did not step over: its cursors
\* never go back and never pass what the client was told, whatever responses are lost,
\* polls repeated, requests abandoned or overlapped and positions pruned.
THEOREM RefinesContract ==
  ASSUME Steady
  PROVE  Spec => Implements
<1>1. Init => Contract!Init
  BY DEF Init, Contract!Init, Contract!NoCursors, Cursors, Cursor, Gone
<1>2. Inv /\ [Next]_vars => [Contract!Next]_(Contract!vars)
  BY StepIsContractStep
<1>. QED
  BY <1>1, <1>2, Invariance, PTL DEF Spec, Implements, Contract!Spec

=============================================================================
