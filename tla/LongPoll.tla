------------------------------ MODULE LongPoll ------------------------------
(***************************************************************************)
(* One client of /sync or /events against the events stream: its initial   *)
(* sync and the long poll after it (internal/handlers/sync.go, events.go), *)
(* the answer computed on each pass (incrementalsync.go, events.go) and    *)
(* the notifier that ends its wait (internal/notifier), beside the         *)
(* replication that moves the token and the database that moves on its     *)
(* own.                                                                    *)
(*                                                                         *)
(* An event is a room and a kind: "message" for anything but a membership  *)
(* event of this client's user, "rejected" for one that the room refused,  *)
(* and the membership otherwise. A ban is a leave here, as it is to        *)
(* incrementalSection. The timelines of /sync are within their limit, an   *)
(* invite's sender is not ignored, /events names no room of its own, and   *)
(* what is in a joined room is visible.                                    *)
(***************************************************************************)
EXTENDS Integers, Sequences, FiniteSetsExt

CONSTANTS
  Rooms,
  Apis,    \* what the client may be a client of: "sync", "events"
  Kinds,   \* the kinds of event that are written
  Limit,   \* of one chunk of /events
  MaxPos,  \* bound: events written
  None     \* no token

ASSUME ApisAssumption == Apis \subseteq {"sync", "events"}
ASSUME KindsAssumption == Kinds \subseteq {"message", "rejected", "join", "invite", "knock", "leave"}
ASSUME BoundsAssumption == Limit \in Nat /\ MaxPos \in Nat
ASSUME NoneAssumption == None \notin Nat

VARIABLES
  log,       \* the events table: log[p] is the event at stream position p
  position,  \* Subscriber.positions["events"]
  waking,    \* the position advanced to and not yet given to the notifier, or 0
  waiter,    \* this poll's entry of Notifier.waiters
  stage,     \* where the handler is
  expired,   \* the poll's deadline has passed
  poll,      \* what this pass has read and computed
  api,       \* the endpoint the client uses
  since,     \* the token the client holds
  view       \* the section each room was last in, as the client saw it

serverVars == <<log, position, waking>>
clientVars == <<api, since, view>>
vars == <<serverVars, waiter, stage, expired, poll, clientVars>>

Pos == 0 .. MaxPos
Sections == {"none", "join", "invite", "knock", "leave"}

NoWaiter == [rooms |-> {}, done |-> FALSE, open |-> FALSE]
NoPoll == [waits |-> FALSE, rooms |-> [r \in Rooms |-> "none"], from |-> None, now |-> 0, end |-> 0,
           sections |-> {}, full |-> {}, events |-> {}]

Init ==
  /\ log = <<>> /\ position = 0 /\ waking = 0
  /\ waiter = NoWaiter /\ stage = "idle" /\ expired = FALSE /\ poll = NoPoll
  /\ api \in Apis /\ since = None /\ view = [r \in Rooms |-> "none"]

---------------------------------------------------------------------------
(* The database and replication.                                           *)

\* The user's membership events of a room in (from, to].
OwnMembership(ev) == ev.kind \notin {"message", "rejected"}
Changes(r, from, to) == {p \in from + 1 .. to : log[p].room = r /\ OwnMembership(log[p])}

\* The user's membership of r after the event at position p.
MembershipAtPosition(r, p) ==
  IF Changes(r, 0, p) = {} THEN "none" ELSE log[Max(Changes(r, 0, p))].kind

\* The memberships a request asks the list of rooms for.
Listed ==
  IF api = "events" THEN {"join"}
  ELSE IF since = None THEN {"join", "invite", "knock", "leave"}
  ELSE {"join", "invite"}

\* RoomsForUser, from local_current_membership: the list as it is, whatever
\* token the request will be given.
RoomsAsOf(p) ==
  [r \in Rooms |-> LET m == MembershipAtPosition(r, p) IN IF m \in Listed THEN m ELSE "none"]

RoomsForUser == RoomsAsOf(Len(log))

\* Synapse persists an event (external).
Write(r, kind) ==
  /\ Len(log) < MaxPos
  /\ kind = "leave" => MembershipAtPosition(r, Len(log)) \notin {"none", "leave"}
  /\ log' = Append(log, [room |-> r, kind |-> kind])
  /\ UNCHANGED <<position, waking, waiter, stage, expired, poll, clientVars>>

\* handleRDATA: the caches are told, the position advances, ...
Replicate ==
  /\ waking = 0 /\ position < Len(log)
  /\ position' = position + 1 /\ waking' = position + 1
  /\ UNCHANGED <<log, waiter, stage, expired, poll, clientVars>>

\* Mutant: a row wakes by room only.
interestedByRoom(w, ev) == ev.room \in w.rooms

\* interested: a membership event names its user, and this waiter's user; any
\* other event names its room only. The poll always declares a user.
interested(w, ev) == ev.room \in w.rooms \/ OwnMembership(ev)

\* ... and then the notifier wakes the waiters that care (OnStreamAdvance).
Wake ==
  /\ waking # 0
  /\ waiter' = [waiter EXCEPT !.done = @ \/ (waiter.open /\ interested(waiter, log[waking]))]
  /\ waking' = 0
  /\ UNCHANGED <<log, position, stage, expired, poll, clientVars>>

---------------------------------------------------------------------------
(* incrementalSync: the answer for a window and a list of rooms.           *)

Window(r, from, to) == {p \in from + 1 .. to : log[p].room = r /\ log[p].kind # "rejected"}

\* RoomTimelineSince, asked about the joined rooms of the list.
Timeline(rooms, r, from, to) == IF rooms[r] = "join" THEN Window(r, from, to) ELSE {}

\* Mutant: gate 2 is not asked.
newlyJoinedNotRejoined(rooms, r, from, to) ==
  /\ rooms[r] = "join" /\ Changes(r, from, to) # {}
  /\ MembershipAtPosition(r, from) # "join"

\* The three gates: no change in the window, a change that is not a join, and
\* the membership at `since`. A newly joined room is given its full state.
newlyJoined(rooms, r, from, to) ==
  /\ rooms[r] = "join" /\ Changes(r, from, to) # {}
  /\ \/ \E p \in Changes(r, from, to) : log[p].kind # "join"
     \/ MembershipAtPosition(r, from) # "join"

lastChange(r, from, to) ==
  IF Changes(r, from, to) = {} THEN "none" ELSE log[Max(Changes(r, from, to))].kind

\* A departed room is given up to the leave, unless the list or the timelines
\* still have it as joined.
archived(rooms, r, from, to) ==
  /\ lastChange(r, from, to) = "leave"
  /\ Timeline(rooms, r, from, to) = {} /\ rooms[r] # "join"

\* Each room and the section it is in; one room may be in two.
SectionsOf(rooms, from, to) ==
  {<<r, "join">> : r \in {q \in Rooms : newlyJoined(rooms, q, from, to) \/ Timeline(rooms, q, from, to) # {}}}
  \cup {<<r, lastChange(r, from, to)>> : r \in {q \in Rooms : lastChange(q, from, to) \in {"invite", "knock"}}}
  \cup {<<r, "leave">> : r \in {q \in Rooms : archived(rooms, q, from, to)}}

\* The events the answer carries.
EventsOf(rooms, from, to) ==
  (UNION {Timeline(rooms, r, from, to) : r \in Rooms})
  \cup (UNION {Window(r, from, Max(Changes(r, from, to))) : r \in {q \in Rooms : archived(rooms, q, from, to)}})

\* The pass from its token on: the window (since, now] is of committed events,
\* so that the queries of one pass see the same answer whenever they run.
Answer(p, now) ==
  [p EXCEPT !.now = now, !.end = now, !.sections = SectionsOf(p.rooms, since, now),
            !.full = {r \in Rooms : newlyJoined(p.rooms, r, since, now)},
            !.events = EventsOf(p.rooms, since, now)]

---------------------------------------------------------------------------
(* initialSyncV2: a client without a token.                                *)

\* A joined room is given up to the token, a departed one up to the leave,
\* wherever that is. Hidden are rooms the user forgot, or left on its own while
\* the filter does not ask for those.
InitialAnswer(p, hidden) ==
  LET in(m) == {r \in Rooms : p.rooms[r] = m} \ hidden
  IN [p EXCEPT !.end = p.now,
               !.sections = UNION {in(m) \X {m} : m \in Listed},
               !.full = in("join"),
               !.events = (UNION {Window(r, 0, p.now) : r \in in("join")})
                          \cup (UNION {Window(r, 0, Max(Changes(r, 0, Len(log)))) : r \in in("leave")})]

---------------------------------------------------------------------------
(* eventStreamChunk: the events of one chunk of /events.                   *)

Oldest(found) == {p \in found : Cardinality({o \in found : o <= p}) <= Limit}

\* A rejected event counts against the limit of its room, and is dropped after.
RoomEventsForward(rooms, r, from, to) ==
  IF rooms[r] = "join"
  THEN Oldest({p \in from + 1 .. to : log[p].room = r}) \cap Window(r, from, to)
  ELSE {}

MembershipEventsForUser(from, to) == UNION {Changes(r, from, to) : r \in Rooms}

\* eventStreamRoomEvents: both queries, in one order, cut once more.
ChunkOf(rooms, from, to) ==
  LET found == (UNION {RoomEventsForward(rooms, r, from, to) : r \in Rooms}) \cup MembershipEventsForUser(from, to)
  IN IF Limit = 0 THEN found ELSE Oldest(found)

\* The client resumes after the last event returned.
Chunk(p, now) ==
  LET events == ChunkOf(p.rooms, p.from, now)
  IN [p EXCEPT !.now = now, !.events = events, !.end = IF events = {} THEN now ELSE Max(events)]

---------------------------------------------------------------------------
(* The token of a pass, and whether it found anything.                     *)

\* Mutant: a token this worker is behind is not kept.
nowTokenUnbounded == position

\* Mutant: the token never leaves the client's.
nowTokenOfClient == IF since = None THEN 0 ELSE since

\* nowToken, raised to the client's since.
nowToken == Max({position} \cup ({since} \ {None}))

\* isEmptySync, and a chunk of nothing.
isEmpty == poll.sections = {} /\ poll.events = {}

---------------------------------------------------------------------------
(* The handler.                                                            *)

\* A request. A sync with no timeout, or no token, is answered at once.
Request(waits) ==
  /\ stage = "idle"
  /\ stage' = IF api = "sync" /\ waits /\ since # None THEN "start" ELSE "unlisted"
  /\ expired' = FALSE
  /\ poll' = [NoPoll EXCEPT !.waits = waits /\ (api = "sync" => since # None), !.from = since]
  /\ UNCHANGED <<serverVars, waiter, clientVars>>

\* longPoll, top of the loop: the rooms this caller is in.
ListRooms ==
  /\ stage = "start"
  /\ poll' = [poll EXCEPT !.rooms = RoomsForUser]
  /\ stage' = "listed"
  /\ UNCHANGED <<serverVars, waiter, expired, clientVars>>

Register ==
  /\ stage = "listed"
  /\ waiter' = [rooms |-> {r \in Rooms : poll.rooms[r] # "none"}, done |-> FALSE, open |-> TRUE]
  /\ stage' = "registered"
  /\ UNCHANGED <<serverVars, expired, poll, clientVars>>

Compute ==
  /\ stage = "registered"
  /\ poll' = IF api = "events" THEN Chunk(poll, nowToken) ELSE Answer(poll, nowToken)
  /\ stage' = "answered"
  /\ UNCHANGED <<serverVars, waiter, expired, clientVars>>

\* The caller that does not wait, and the first pass of /events, take the token
\* first and the rooms after. No token of /events means from here on.
TakeToken ==
  /\ stage = "unlisted"
  /\ poll' = [poll EXCEPT !.now = nowToken,
                          !.from = IF api = "events" /\ since = None THEN nowToken ELSE since]
  /\ stage' = "bounded"
  /\ UNCHANGED <<serverVars, waiter, expired, clientVars>>

ComputeOnce ==
  /\ stage = "bounded" /\ api = "sync" /\ since # None
  /\ poll' = Answer([poll EXCEPT !.rooms = RoomsForUser], poll.now)
  /\ stage' = "answered"
  /\ UNCHANGED <<serverVars, waiter, expired, clientVars>>

\* Only a departed room is forgotten.
Forgettable == {r \in Rooms : RoomsForUser[r] = "leave"}

InitialSync(hidden) ==
  /\ stage = "bounded" /\ api = "sync" /\ since = None
  /\ hidden \subseteq Forgettable
  /\ poll' = InitialAnswer([poll EXCEPT !.rooms = RoomsForUser], hidden)
  /\ stage' = "answered"
  /\ UNCHANGED <<serverVars, waiter, expired, clientVars>>

\* eventStream: only a first pass that found nothing goes on to waitForEvents,
\* which keeps the list of rooms for as long as it waits.
FirstChunk ==
  /\ stage = "bounded" /\ api = "events"
  /\ poll' = Chunk([poll EXCEPT !.rooms = RoomsForUser], poll.now)
  /\ stage' = IF poll'.events # {} \/ ~poll.waits THEN "returning" ELSE "listed"
  /\ UNCHANGED <<serverVars, waiter, expired, clientVars>>

\* A query failed: the request ends in an error, its waiter closed.
Fail ==
  /\ stage \in {"start", "registered", "unlisted", "bounded"}
  /\ stage' = "idle" /\ waiter' = NoWaiter /\ poll' = NoPoll
  /\ UNCHANGED <<serverVars, expired, clientVars>>

\* Something to say, or no time left to wait.
Return ==
  /\ stage = "answered"
  /\ ~isEmpty \/ expired \/ ~poll.waits
  /\ stage' = "returning" /\ waiter' = NoWaiter
  /\ UNCHANGED <<serverVars, expired, poll, clientVars>>

\* Mutant: the waiter registers when it parks, after the answer is computed.
ParkRegistering ==
  /\ stage = "answered"
  /\ isEmpty /\ ~expired /\ poll.waits
  /\ waiter' = [waiter EXCEPT !.done = FALSE]
  /\ stage' = "waiting"
  /\ UNCHANGED <<serverVars, expired, poll, clientVars>>

Park ==
  /\ stage = "answered"
  /\ isEmpty /\ ~expired /\ poll.waits
  /\ stage' = "waiting"
  /\ UNCHANGED <<serverVars, waiter, expired, poll, clientVars>>

\* Wait: woken, and round again with the same since.
Woken ==
  /\ api = "sync" /\ stage = "waiting" /\ waiter.done
  /\ stage' = "start" /\ waiter' = NoWaiter
  /\ UNCHANGED <<serverVars, expired, poll, clientVars>>

\* waitForEvents goes round with the rooms it came with as well.
EventsWoken ==
  /\ api = "events" /\ stage = "waiting" /\ waiter.done
  /\ stage' = "listed" /\ waiter' = NoWaiter
  /\ UNCHANGED <<serverVars, expired, poll, clientVars>>

\* Mutant: the wait has no timer.
TimeoutIgnored ==
  /\ stage = "waiting" /\ expired /\ waiter.done
  /\ stage' = "returning" /\ waiter' = NoWaiter
  /\ UNCHANGED <<serverVars, expired, poll, clientVars>>

\* Wait: the timer. The answer computed before the wait is returned.
Timeout ==
  /\ stage = "waiting" /\ expired
  /\ stage' = "returning" /\ waiter' = NoWaiter
  /\ UNCHANGED <<serverVars, expired, poll, clientVars>>

\* Wait: the client hung up.
HangUp ==
  /\ stage = "waiting"
  /\ stage' = "idle" /\ waiter' = NoWaiter /\ poll' = NoPoll
  /\ UNCHANGED <<serverVars, expired, clientVars>>

Expire ==
  /\ stage \notin {"idle", "unlisted", "bounded"} /\ poll.waits /\ ~expired
  /\ expired' = TRUE
  /\ UNCHANGED <<serverVars, waiter, stage, poll, clientVars>>

---------------------------------------------------------------------------
(* The client (external): it keeps next_batch and what each room was.      *)

Seen(r) ==
  LET own == {p \in poll.events : log[p].room = r /\ OwnMembership(log[p])}
      in == IF api = "sync" THEN {s \in Sections : <<r, s>> \in poll.sections}
            ELSE IF own = {} THEN {} ELSE {log[Max(own)].kind}
  IN IF in = {} THEN view[r] ELSE IF "join" \in in THEN "join" ELSE CHOOSE s \in in : TRUE

Deliver ==
  /\ stage = "returning"
  /\ since' = poll.end
  /\ view' = [r \in Rooms |-> Seen(r)]
  /\ stage' = "idle" /\ poll' = NoPoll
  /\ UNCHANGED <<serverVars, waiter, expired, api>>

\* The response is lost: the client asks again from the token it has.
LoseResponse ==
  /\ stage = "returning"
  /\ stage' = "idle" /\ poll' = NoPoll
  /\ UNCHANGED <<serverVars, waiter, expired, clientVars>>

\* A sync answered by one of Synapse's own workers, ahead of this one.
SyncElsewhere ==
  /\ stage = "idle" /\ since # Len(log)
  /\ since' = Len(log)
  /\ view' = [r \in Rooms |-> MembershipAtPosition(r, Len(log))]
  /\ UNCHANGED <<serverVars, waiter, stage, expired, poll, api>>

ServerStep ==
  \/ ListRooms \/ Register \/ Compute \/ TakeToken \/ ComputeOnce \/ FirstChunk
  \/ \E hidden \in SUBSET Rooms : InitialSync(hidden)
  \/ Return \/ Park \/ Woken \/ EventsWoken \/ Timeout

Next ==
  \/ \E r \in Rooms, kind \in Kinds : Write(r, kind)
  \/ Replicate \/ Wake
  \/ \E waits \in BOOLEAN : Request(waits)
  \/ ServerStep \/ Fail \/ HangUp \/ Expire
  \/ Deliver \/ LoseResponse \/ SyncElsewhere

Spec == Init /\ [][Next]_vars

(* The network, the database and the client work again and again. Nothing  *)
(* is assumed of the deadline.                                             *)
Fairness ==
  /\ SF_vars(ListRooms) /\ SF_vars(Compute) /\ SF_vars(TakeToken) /\ SF_vars(ComputeOnce)
  /\ SF_vars(FirstChunk) /\ SF_vars(\E hidden \in SUBSET Rooms : InitialSync(hidden))
  /\ WF_vars(Replicate) /\ WF_vars(Wake) /\ WF_vars(ServerStep)
  /\ WF_vars(\E waits \in BOOLEAN : Request(waits)) /\ SF_vars(Deliver)

FairSpec == Spec /\ Fairness

---------------------------------------------------------------------------
Events == [room : Rooms, kind : Kinds]
Polls ==
  [waits : BOOLEAN, rooms : [Rooms -> Sections], from : 0 .. Len(log) \cup {None},
   now : 0 .. Len(log), end : 0 .. Len(log),
   sections : SUBSET (Rooms \X Sections), full : SUBSET Rooms, events : SUBSET (1 .. Len(log))]

TypeOK ==
  /\ log \in Seq(Events) /\ Len(log) <= MaxPos
  /\ position \in 0 .. Len(log) /\ waking \in {0, position}
  /\ api \in Apis /\ since \in 0 .. Len(log) \cup {None}
  /\ waiter \in [rooms : SUBSET Rooms, done : BOOLEAN, open : BOOLEAN]
  /\ stage \in {"idle", "start", "listed", "registered", "unlisted", "bounded", "answered",
                "waiting", "returning"}
  /\ expired \in BOOLEAN /\ view \in [Rooms -> Sections]
  /\ poll \in Polls

\* The list of rooms is the one of the token, and not an older or a newer one.
ListMatchesToken == poll.rooms = RoomsAsOf(poll.now)

\* What the notifier has been given.
Notified == IF waking = 0 THEN position ELSE position - 1

\* A parked client has no news: a pass over what the notifier has been given,
\* with the rooms of that moment, would still be empty. "An event that lands
\* while the answer is being computed then still wakes it" (sync.go:972-976;
\* events.go:255-257 says the same of /events).
ParkedHasNoNews ==
  stage = "waiting" /\ ~waiter.done /\ ListMatchesToken =>
    IF api = "events" THEN ChunkOf(RoomsAsOf(Notified), poll.from, Notified) = {}
    ELSE SectionsOf(RoomsAsOf(Notified), since, Notified) = {}

\* A response of /sync accounts for everything its next_batch covers: every room
\* whose membership moved is in the section of its membership, every event of a
\* room the user was joined to is carried, and a room that was not joined all
\* along comes with its full state (incrementalsync.go:222-395). An initial sync
\* may leave out rooms that were left.
SyncComplete ==
  \A r \in Rooms :
    LET from == IF since = None THEN 0 ELSE since
        m == MembershipAtPosition(r, poll.now)
    IN /\ Changes(r, from, poll.now) # {} =>
            <<r, m>> \in poll.sections \/ (since = None /\ m = "leave")
       /\ m = "join" \/ (m = "leave" /\ since # None) =>
            \A p \in Window(r, from, poll.now) :
              MembershipAtPosition(r, p) = "join" => p \in poll.events
       /\ m = "join" /\ (\E p \in from .. poll.now : MembershipAtPosition(r, p) # "join") =>
            r \in poll.full

\* A chunk of /events carries each of the user's own membership events and each
\* event of its rooms up to the token it ends with, cut by the limit or not
\* (events.go:303-309).
ChunkComplete ==
  \A p \in poll.from + 1 .. poll.end :
    OwnMembership(log[p]) \/ (log[p].kind # "rejected" /\ MembershipAtPosition(log[p].room, poll.now) = "join")
      => p \in poll.events

\* A response leaves out nothing that its token steps over.
ResponseComplete ==
  stage = "returning" /\ ListMatchesToken => IF api = "events" THEN ChunkComplete ELSE SyncComplete

\* A room joined and not left since is never missing from a client whose token
\* covers the join: "Serve a stale one under a token that already covers the
\* join and the room is not late -- it is gone" (usersync.go:34-38).
JoinNeverLost ==
  stage = "idle" =>
    \A r \in Rooms :
      since # None /\ MembershipAtPosition(r, since) = "join" /\ Changes(r, since, Len(log)) = {}
        => view[r] = "join"

\* A client's token never moves backwards, though another worker's may be ahead
\* of this one's replication (boundBySince, tokens.go:73-81).
TokenNeverFalls == [][since # None => since' >= since]_vars

\* News of a room it waits on ends a client's wait with no help from the clock
\* (notifier.go:4-8).
NewsEndsTheWait ==
  (stage = "waiting" /\ \E p \in poll.now + 1 .. Len(log) : interested(waiter, log[p]))
    ~> stage # "waiting"

\* A poll ends once its deadline has passed, however often it is woken
\* (sync.go:1026-1041).
PollEnds == (expired /\ stage # "idle") ~> (stage \in {"returning", "idle"})

\* A client that keeps polling comes to hold a token past every event of a room
\* its user is in, responses being lost or not; ResponseComplete says what the
\* responses that took it there carried. A poll that parked on a list without the
\* room is ended by its deadline only (sync.go:1002-1036), so this one needs it.
TokenPassesEvents ==
  WF_vars(Expire) =>
    \A p \in 1 .. MaxPos :
      (p <= Len(log) /\ MembershipAtPosition(log[p].room, p) = "join") ~> (since # None /\ since >= p)
=============================================================================
