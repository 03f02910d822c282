----------------------------- MODULE SlidingSync -----------------------------
(***************************************************************************)
(* One sliding sync connection: the store of what it was told at each of   *)
(* its positions (internal/slidingstore), the response that is built from  *)
(* a position (internal/slidingsync) and the long poll around it           *)
(* (internal/handlers/slidingsync.go), with a client that loses responses, *)
(* gives up on requests that go on without it, and asks again.             *)
(*                                                                         *)
(* An item is an event, a receipt or a change of account data in one room; *)
(* one sequence numbers the items of all three streams. The lists of a     *)
(* request come down to the rooms they show: RoomLists has how those are   *)
(* found, RequiredState what state a room is sent with.                    *)
(***************************************************************************)
EXTENDS Integers, Sequences, FiniteSetsExt

CONSTANTS
  Rooms,
  Streams,      \* the streams followed: "rooms", and the extensions that are enabled
  Writes,       \* what can be written: a stream, a room, and "message" or, for the
                \* user's own membership events, "leave" or "join"
  Requests,     \* what is asked for: the rooms that pass the filters of some list or are
                \* subscribed to, those of them that are shown, the timeline limit, and
                \* whether there is any list or subscription at all
  Away,         \* whether rooms have news while the user is out of them
  Slots,        \* requests that can be under way at once
  NumRoomsThreshold, \* an idle connection with more rooms to catch up on starts over
  MaxPos,       \* bound: items written
  MaxPositions, \* bound: connection positions minted
  None

ASSUME StreamsAssumption == "rooms" \in Streams /\ Streams \subseteq {"rooms", "receipts", "account_data"}
ASSUME WritesAssumption ==
  /\ Writes \subseteq [stream : Streams, room : Rooms, kind : {"message", "leave", "join"}]
  /\ \A x \in Writes : x.stream # "rooms" => x.kind = "message"
ASSUME RequestsAssumption ==
  \A q \in Requests :
    /\ q \in [all : SUBSET Rooms, window : SUBSET Rooms, limit : Nat, listed : BOOLEAN]
    /\ q.window \subseteq q.all
    /\ ~q.listed => q.all = {}
ASSUME AwayAssumption == Away \in BOOLEAN
ASSUME BoundsAssumption == {NumRoomsThreshold, MaxPos, MaxPositions} \subseteq Nat
ASSUME NoneAssumption == None \notin Nat /\ None \notin Slots

VARIABLES
  log,      \* the items, in stream order
  db,       \* sliding_sync_connection_positions and what hangs off it, by position
  minted,   \* the identity column of that table
  slots,    \* the requests under way
  client    \* the position and token it holds, the request it awaits; as history, what
            \* it was told and what its answers stepped over

vars == <<log, db, minted, slots, client>>

---------------------------------------------------------------------------
(* slidingstore/state.go: what a connection was sent.                      *)

Never == [flag |-> "never", token |-> 0]
Live == [flag |-> "live", token |-> 0]
Previously(token) == [flag |-> "previously", token |-> token]

\* RecordSentRooms leaves a live room alone.
RecordSentRooms(status, rooms) == [r \in Rooms |-> IF r \in rooms THEN Live ELSE status[r]]

\* Only a live room falls behind: one that already has keeps its place.
RecordUnsentRooms(status, rooms, token) ==
  [r \in Rooms |-> IF r \in rooms /\ status[r] = Live THEN Previously(token) ELSE status[r]]

\* PerConnectionState. A room's config comes down to its timeline limit, None
\* for a room without one.
EmptyState ==
  [status |-> [s \in Streams |-> [r \in Rooms |-> Never]], limit |-> [r \in Rooms |-> None]]

Idle == [stage |-> "idle"]

\* A client that has nothing, or has lost what it had.
Gone == [pos |-> 0, token |-> None, told |-> {}, missed |-> {}, slot |-> None]

Init ==
  /\ log = <<>> /\ db = <<>> /\ minted = 0
  /\ slots = [i \in Slots |-> Idle]
  /\ client = Gone

---------------------------------------------------------------------------
(* What the log says.                                                      *)

ItemsOf(s, r, from, to) == {p \in from + 1 .. to : log[p].stream = s /\ log[p].room = r}
OwnChanges(r, from, to) == {p \in ItemsOf("rooms", r, from, to) : log[p].kind # "message"}

\* The user is in every room to begin with.
Joined(r, p) ==
  LET own == OwnChanges(r, 0, p) IN IF own = {} THEN TRUE ELSE log[Max(own)].kind = "join"

\* newlyJoinedAndLeft: the last change inside the token range, and none on a
\* request without one.
Newly(kind, r, from, to) ==
  /\ from # None
  /\ LET own == OwnChanges(r, from, to) IN own # {} /\ log[Max(own)].kind = kind

\* ComputeRoomLists: the rooms of the user at the token, and those left since.
Membership(from, to) == {r \in Rooms : Joined(r, to) \/ Newly("leave", r, from, to)}

\* Of those, the rooms of this request: in some filtered list, or subscribed to.
AllRooms(q) == q.req.all \cap Membership(q.from, q.now)
Relevant(q) == q.req.window \cap AllRooms(q)

\* roomsWithUpdates: from the room's latest event, whether or not this response
\* reaches that far.
RoomsWithUpdates(rooms, from) == {r \in rooms : ItemsOf("rooms", r, from, Len(log)) # {}}

---------------------------------------------------------------------------
(* Build: the rooms of the response.                                       *)

\* filterRoomsToSend: grown, never sent, behind, or with something new.
RoomsToSend(q, relevant) ==
  IF q.from = None THEN relevant
  ELSE {r \in relevant :
          \/ q.prev.limit[r] # None /\ q.prev.limit[r] < q.req.limit
          \/ q.prev.status["rooms"][r] # Live
          \/ r \in RoomsWithUpdates({r}, q.from)}

Initial(q, r) ==
  \/ q.from = None
  \/ Newly("join", r, q.from, q.now)
  \/ q.prev.status["rooms"][r] = Never

\* Mutant: a room that fell behind is taken up from the client's token.
BoundFromToken(q, s, r) == q.from

\* Where a room's delta starts: where the client was left.
Bound(q, s, r) ==
  LET status == q.prev.status[s][r]
  IN IF status.flag = "previously" THEN status.token ELSE q.from

\* A raised timeline_limit ignores the bound.
Expanded(q, r) ==
  /\ q.from # None /\ ~Newly("join", r, q.from, q.now)
  /\ q.prev.limit[r] # None /\ q.prev.limit[r] < q.req.limit

\* buildTimeline: the newest events up to the token, or to one's own leave.
Timeline(q, r) ==
  LET to == IF Joined(r, q.now) THEN q.now ELSE Max(OwnChanges(r, 0, q.now))
      found == IF Initial(q, r) \/ Expanded(q, r) THEN ItemsOf("rooms", r, 0, to)
               ELSE ItemsOf("rooms", r, Bound(q, "rooms", r), to)
      page == {p \in found : Cardinality({o \in found : o >= p}) <= q.req.limit}
  IN [events |-> page, limited |-> q.req.limit > 0 /\ page # found]

\* What a room's entry tells the client: its events, and when the timeline is
\* limited or the room is sent from scratch, that what came before is not there.
ToldOfRoom(q, r) ==
  LET t == Timeline(q, r)
  IN t.events \cup (IF t.limited \/ Initial(q, r) THEN ItemsOf("rooms", r, 0, q.now) ELSE {})

\* receiptsExtension and accountDataExtension send a room from scratch when it
\* was never sent; the receipts do so too when the room itself is.
FromScratch(q, s, r, sent) ==
  \/ q.from = None
  \/ q.prev.status[s][r] = Never
  \/ s = "receipts" /\ r \in sent /\ (Initial(q, r) \/ Expanded(q, r))

ToldOfExtension(q, s, relevant, sent) ==
  UNION {IF FromScratch(q, s, r, sent) THEN ItemsOf(s, r, 0, q.now) ELSE ItemsOf(s, r, Bound(q, s, r), q.now)
         : r \in relevant}

\* The statuses the extension leaves behind. accountDataExtension returns early
\* when no room is relevant, and then marks nothing.
ExtensionStatus(q, s, relevant, sent) ==
  LET status == q.prev.status[s]
      behind == {r \in Rooms \ relevant : status[r] = Live /\ ItemsOf(s, r, q.from, q.now) # {}}
  IN IF s = "account_data" /\ relevant = {} THEN status
     ELSE LET recorded == RecordSentRooms(status, relevant)
          IN IF q.from = None THEN recorded ELSE RecordUnsentRooms(recorded, behind, q.from)

\* The state after the response. Rooms of the request that are in no window and
\* have news fall behind; rooms that are not of the request stay as they are.
NextState(q, relevant, sent) ==
  LET recorded == RecordSentRooms(q.prev.status["rooms"], sent)
      missing == AllRooms(q) \ relevant
      rooms == IF q.from = None THEN recorded
               ELSE RecordUnsentRooms(recorded, RoomsWithUpdates(missing, q.from), q.from)
  IN [status |-> [s \in Streams |-> IF s = "rooms" THEN rooms ELSE ExtensionStatus(q, s, relevant, sent)],
      limit |-> [r \in Rooms |-> IF r \in sent THEN q.req.limit ELSE q.prev.limit[r]]]

\* HasUpdates: a status moved, or a room's config was recorded.
HasUpdates(q, next, sent) == sent # {} \/ next.status # q.prev.status

Response(q, relevant, sent) ==
  LET extensions == UNION {ToldOfExtension(q, s, relevant, sent) : s \in Streams \ {"rooms"}}
      \* roomIsNews, and each extension's own rule
      news == \/ \E r \in sent : Initial(q, r) \/ Timeline(q, r).events # {}
              \/ extensions # {}
  IN [told |-> (UNION {ToldOfRoom(q, r) : r \in sent}) \cup extensions, news |-> news]

Feeds == Streams \X Rooms

\* History: what the response neither carries nor marks as withheld, of the feeds
\* that are live. Rooms that are not of the request are not marked; a request
\* without lists and subscriptions records nothing; and accountDataExtension marks
\* nothing when no room is relevant.
SteppedOver(q) ==
  {f \in Feeds :
     /\ q.from # None /\ q.prev.status[f[1]][f[2]] = Live
     /\ ItemsOf(f[1], f[2], q.from, q.now) # {}
     /\ \/ ~q.req.listed
        \/ f[1] = "rooms" /\ f[2] \in Membership(q.from, q.now) \ AllRooms(q)
        \/ f[1] = "account_data" /\ Relevant(q) = {}}

---------------------------------------------------------------------------
(* The client.                                                             *)

\* An item is written (external): the user leaves a room it is in and joins one
\* it is not in.
Write(x) ==
  /\ Len(log) < MaxPos
  /\ x.kind = "leave" => Joined(x.room, Len(log))
  /\ x.kind = "join" => ~Joined(x.room, Len(log))
  /\ x.kind = "message" => Away \/ Joined(x.room, Len(log))
  /\ log' = Append(log, x)
  /\ UNCHANGED <<db, minted, slots, client>>

Owned(i) == client.slot = i

\* The client is told M_UNKNOWN_POS, or its connection expired: it starts over
\* with nothing.
Refused(i) ==
  /\ slots' = [slots EXCEPT ![i] = Idle]
  /\ client' = IF Owned(i) THEN Gone ELSE client

---------------------------------------------------------------------------
(* The server.                                                             *)

\* Reading a position proves the client has it: every other one goes.
pruned(pos) == [p \in {pos} |-> db[p]]

\* Mutant: the token is this worker's, wherever the client's is.
nowUnbounded(from) == 0 .. Len(log)

\* nowToken and boundBySince: the worker may be behind the database, and never
\* answers behind the client.
nowTokens(from) == (IF from = None THEN 0 ELSE from) .. Len(log)

\* GetAndClear, at the start of a pass over the request in slot i.
Load(i, req, pos, from) ==
  /\ pos # 0 => pos \in DOMAIN db
  /\ db' = IF pos = 0 THEN db ELSE pruned(pos)
  /\ slots' = [slots EXCEPT ![i] =
       [stage |-> "loaded", req |-> req, pos |-> pos, from |-> from,
        prev |-> IF pos = 0 THEN EmptyState ELSE db[pos]]]

\* The client asks, with what it holds. A request it still waits for it gives
\* up on: that one goes on without it.
Send(i, req) ==
  /\ slots[i] = Idle
  /\ Load(i, req, client.pos, client.token)
  /\ client' = [client EXCEPT !.slot = i]
  /\ UNCHANGED <<log, minted>>

SendUnknown(i) ==
  /\ slots[i] = Idle /\ client.pos \notin DOMAIN db \cup {0}
  /\ client' = Gone
  /\ UNCHANGED <<log, db, minted, slots>>

\* The token of the response is taken before the queries that fill it.
At(i, now) ==
  [req |-> slots[i].req, pos |-> slots[i].pos, from |-> slots[i].from, prev |-> slots[i].prev, now |-> now]

\* filterRoomsToSend resets a connection that was idle and has a lot to catch up on.
IdleReset(i, now) ==
  LET q == At(i, now)
  IN /\ slots[i].stage = "loaded" /\ q.from # None
     /\ Cardinality(RoomsWithUpdates(Relevant(q), q.from)) > NumRoomsThreshold
     /\ Refused(i)
     /\ UNCHANGED <<log, db, minted>>

\* connectionKey: the position the request came with must still be there.
PersistsFrom(q) == q.pos = 0 \/ q.pos \in DOMAIN db

\* A new position starts as a copy of the one the request came with.
copyForward(q) == IF q.pos = 0 THEN EmptyState ELSE db[q.pos]

\* What the state says of a room overwrites the copy, whether it moved or not.
upsertStreams(rows, status) ==
  [s \in Streams |-> [r \in Rooms |-> IF status[s][r] = Never THEN rows[s][r] ELSE status[s][r]]]
upsertRoomConfigs(rows, limit) == [r \in Rooms |-> IF limit[r] = None THEN rows[r] ELSE limit[r]]

Written(q, state) ==
  LET copied == copyForward(q)
  IN [status |-> upsertStreams(copied.status, state.status), limit |-> upsertRoomConfigs(copied.limit, state.limit)]

\* Persist. A first position clears the connection that was there before.
Mint(q, state) ==
  [p \in {minted + 1} \cup (IF q.pos = 0 THEN {} ELSE DOMAIN db) |->
     IF p = minted + 1 THEN Written(q, state) ELSE db[p]]

\* Build from the loaded state to Persist. Nothing is written when there is
\* nothing to write, or when the request had no list and no subscription.
Build(i, now) ==
  LET q == At(i, now)
      relevant == Relevant(q)
      sent == RoomsToSend(q, relevant)
  IN /\ slots[i].stage = "loaded"
     /\ \E next \in {NextState(q, relevant, sent)} :
          IF q.req.listed /\ HasUpdates(q, next, sent)
          THEN PersistsFrom(q) /\ minted < MaxPositions /\ db' = Mint(q, next) /\ minted' = minted + 1
          ELSE UNCHANGED <<db, minted>>
     /\ slots' = [slots EXCEPT ![i] =
          [stage |-> "built", req |-> q.req, pos |-> q.pos, from |-> q.from,
           newPos |-> IF minted' # minted THEN minted' ELSE q.pos, now |-> now,
           res |-> Response(q, relevant, sent), missed |-> SteppedOver(q)]]
     /\ UNCHANGED <<log, client>>

BuildUnknown(i, now) ==
  LET q == At(i, now)
      sent == RoomsToSend(q, Relevant(q))
  IN /\ slots[i].stage = "loaded" /\ q.req.listed
     /\ ~PersistsFrom(q)
     /\ HasUpdates(q, NextState(q, Relevant(q), sent), sent)
     /\ Refused(i)
     /\ UNCHANGED <<log, db, minted>>

\* A query fails, or the client's disconnect cancels the request: the response
\* is lost with whatever was not committed.
Fail(i) ==
  /\ slots[i] # Idle
  /\ slots' = [slots EXCEPT ![i] = Idle]
  /\ client' = IF Owned(i) THEN [client EXCEPT !.slot = None] ELSE client
  /\ UNCHANGED <<log, db, minted>>

\* slidingSyncPoll: a pass that found nothing is repeated, from the same
\* position, when the notifier wakes it.
Waiting(i) == slots[i].stage = "built" /\ slots[i].from # None /\ ~slots[i].res.news

PollAgain(i) ==
  /\ Waiting(i)
  /\ Load(i, slots[i].req, slots[i].pos, slots[i].from)
  /\ UNCHANGED <<log, minted, client>>

PollUnknown(i) ==
  /\ Waiting(i) /\ slots[i].pos \notin DOMAIN db \cup {0}
  /\ Refused(i)
  /\ UNCHANGED <<log, db, minted>>

\* The answer of the last pass reaches the client, if it still waits for it.
Answer(i) ==
  /\ slots[i].stage = "built"
  /\ client' = IF Owned(i)
               THEN [pos |-> slots[i].newPos, token |-> slots[i].now,
                     told |-> client.told \cup slots[i].res.told,
                     missed |-> client.missed \cup slots[i].missed, slot |-> None]
               ELSE client
  /\ slots' = [slots EXCEPT ![i] = Idle]
  /\ UNCHANGED <<log, db, minted>>

\* DeleteOldConnections, and the cascade.
Reap ==
  /\ db # <<>> /\ db' = <<>>
  /\ UNCHANGED <<log, minted, slots, client>>

Next ==
  \/ \E x \in Writes : Write(x)
  \/ \E i \in Slots :
       \/ \E req \in Requests : Send(i, req)
       \/ SendUnknown(i)
       \/ Fail(i) \/ PollAgain(i) \/ PollUnknown(i) \/ Answer(i)
  \/ \E i \in Slots :
       /\ slots[i].stage = "loaded"
       /\ \E now \in nowTokens(slots[i].from) : IdleReset(i, now) \/ Build(i, now) \/ BuildUnknown(i, now)
  \/ Reap

Spec == Init /\ [][Next]_vars

---------------------------------------------------------------------------
(* The properties.                                                         *)

Statuses == {Never, Live} \cup {Previously(t) : t \in 0 .. MaxPos}
States == [status : [Streams -> [Rooms -> Statuses]], limit : [Rooms -> Nat \cup {None}]]
Tokens == 0 .. Len(log) \cup {None}
Positions == 0 .. minted
Loaded ==
  [stage : {"loaded"}, req : Requests, pos : Positions, from : Tokens, prev : States]
Built ==
  [stage : {"built"}, req : Requests, pos : Positions, from : Tokens, newPos : Positions,
   now : 0 .. Len(log), res : [told : SUBSET (1 .. Len(log)), news : BOOLEAN], missed : SUBSET Feeds]
Clients ==
  [pos : Positions, token : Tokens, told : SUBSET (1 .. Len(log)), missed : SUBSET Feeds, slot : Slots \cup {None}]

\* The tables of the connection store, the requests under way and the client's
\* own state have their types.
TypeOK ==
  /\ log \in Seq(Writes) /\ Len(log) <= MaxPos
  /\ minted \in 0 .. MaxPositions
  /\ DOMAIN db \subseteq 1 .. minted /\ \A p \in DOMAIN db : db[p] \in States
  /\ db = [p \in DOMAIN db |-> db[p]]
  /\ slots \in [Slots -> {Idle} \cup Loaded \cup Built]
  /\ client \in Clients

\* What a connection's state takes as sent, of one stream of one room, from a
\* client that brings back a token: LIVE is everything up to the token. A room
\* whose timeline limit is 0 is sent without its events.
CursorOf(state, token, s, r) ==
  LET status == state.status[s][r]
  IN IF status = Never \/ (s = "rooms" /\ state.limit[r] = 0) THEN None
     ELSE IF status = Live THEN token ELSE status.token

\* The same if the client comes back now.
Cursor(s, r) ==
  IF client.pos \notin DOMAIN db THEN None ELSE CursorOf(db[client.pos], client.token, s, r)

\* A room that counts as sent to the client's token (LIVE) or to its own token
\* (PREVIOUSLY) has been: the client was sent each of its items up to there, or
\* told by a limited timeline or an initial room that it skips them; whatever
\* responses were lost, polls repeated, requests abandoned and positions pruned.
\* Feeds that were stepped over are the exception, until the client starts over.
HonestCursor ==
  \A s \in Streams, r \in Rooms :
    Cursor(s, r) # None /\ <<s, r>> \notin client.missed =>
      ItemsOf(s, r, 0, Cursor(s, r)) \subseteq client.told

\* What slidingstore says of LIVE has no exception.
LiveWasSent ==
  \A s \in Streams, r \in Rooms :
    Cursor(s, r) # None => ItemsOf(s, r, 0, Cursor(s, r)) \subseteq client.told

FeedOf(item) == <<item.stream, item.room>>
Cursors == [f \in Feeds |-> IF f \in client.missed THEN None ELSE Cursor(f[1], f[2])]

\* The connection keeps the promise of ConnectionContract: the cursors of the feeds
\* it did not step over never go back and never pass what the client was told.
Contract == INSTANCE ConnectionContract WITH
  told <- client.told,
  cursor <- Cursors
Implements == Contract!Spec
=============================================================================
