----------------------------- MODULE DeviceLists -----------------------------
(***************************************************************************)
(* Whose device keys a client must fetch again, and whose presence it is   *)
(* shown: the device_lists and presence sections of an incremental /sync   *)
(* (internal/handlers/incrementalsync.go) and the e2ee extension of        *)
(* sliding sync (internal/slidingsync/extensions.go).                      *)
(*                                                                         *)
(* Both are streams of their own, seen through the rooms one shares: a     *)
(* window of the stream is not enough, because somebody who comes into     *)
(* view brings along what changed before.  The queries of a request are    *)
(* separate statements; some are bounded by its token and some describe    *)
(* the rooms as they are when they run.                                    *)
(***************************************************************************)
EXTENDS Integers, Sequences, FiniteSetsExt, SequencesExt, TLC

CONSTANTS
  Me,          \* the syncing user
  Others,
  Rooms,
  APIs,        \* of "sync" and "sliding"
  Memberships, \* of "join", "leave" and "invite"
  Updates,     \* <<type, user>>, of type "device", "sign" (the syncing user signs) and "presence"
  MaxPos,      \* bound: items written
  None

Users == Others \cup {Me}
Present == {"join", "invite"}

ASSUME MeAssumption == Me \notin Others
ASSUME APIsAssumption == APIs \subseteq {"sync", "sliding"}
ASSUME ItemsAssumption ==
  Memberships \subseteq {"join", "leave", "invite"} /\ Updates \subseteq {"device", "sign", "presence"} \X Users

VARIABLES
  start,    \* the memberships before the log
  log,      \* membership changes and updates of users, in stream order
  prunedTo, \* device_lists_changes_in_room_max_pruned_stream_id
  req,      \* the request under way, and what its queries have found
  client    \* its token, the API it uses, and whose keys and presence it has, up to which update

vars == <<start, log, prunedTo, req, client>>

End == Len(log)

---------------------------------------------------------------------------
(* The homeserver (external).                                              *)

Changes(r, from, to) == {p \in from + 1 .. to : log[p].type = "member" /\ log[p].room = r}
ChangesOf(u, r, from, to) == {p \in Changes(r, from, to) : log[p].user = u}

At(u, r, p) ==
  LET own == ChangesOf(u, r, 0, p) IN IF own = {} THEN start[u][r] ELSE log[Max(own)].to
Before(p) == At(log[p].user, log[p].room, p - 1)
JoinedTo(u, p) == {r \in Rooms : At(u, r, p) = "join"}

ChangeMembership(u, r, to) ==
  /\ End < MaxPos
  /\ to = "leave" => At(u, r, End) \in Present
  /\ to = "invite" => At(u, r, End) = "leave"
  /\ to = "join" => At(u, r, End) # "join"
  /\ log' = Append(log, [type |-> "member", user |-> u, room |-> r, to |-> to])
  /\ UNCHANGED <<start, prunedTo, req, client>>

\* Sliding sync shows no presence.
Update(type, u) ==
  /\ End < MaxPos
  /\ type = "presence" => client.api = "sync"
  /\ log' = Append(log, [type |-> type, user |-> u])
  /\ UNCHANGED <<start, prunedTo, req, client>>

---------------------------------------------------------------------------
(* The queries.                                                            *)

UpdatedIn(types, from, to) == {p \in from + 1 .. to : log[p].type \in types}

\* Old rows of device_lists_changes_in_room are deleted, up to one of them (external).
Prune ==
  /\ UpdatedIn({"device"}, prunedTo, End) # {}
  /\ prunedTo' = Max(UpdatedIn({"device"}, prunedTo, End))
  /\ UNCHANGED <<start, log, req, client>>

UsersSharingAnyRoom == {u \in Users : JoinedTo(u, End) \cap JoinedTo(Me, End) # {}}
JoinedMembersOf(rooms) == {u \in Users : JoinedTo(u, End) \cap rooms # {}}

\* The row of a user in presence_stream is its latest; the latest of its keys.
LatestOf(u, types) == Max({0} \cup {p \in UpdatedIn(types, 0, End) : log[p].user = u})
PresenceRow(u) == LatestOf(u, {"presence"})
KeysRow(u) == LatestOf(u, {"device", "sign"})

\* Who moved in the window, of those in view. That anybody did is first asked of
\* the presence gate: StreamFeed's subject (AnyGateSound), and here never wrong.
PresenceSince(since, now) ==
  {u \in UsersSharingAnyRoom \cup {Me} : since < PresenceRow(u) /\ PresenceRow(u) <= now}

\* Mutant: a token at the pruning is trusted one row too far.
PrunedBelow(since) == prunedTo > since + 1

Pruned(since) == prunedTo > since

\* A change has a row for each room its user is in, until it is pruned.
ChangesInRooms(rooms, since, now) ==
  {log[p].user : p \in {q \in UpdatedIn({"device"}, since, now) :
                          q > prunedTo /\ JoinedTo(log[q].user, q) \cap rooms # {}}}

\* DeviceListChanges, once it knows whether the rows of the window are complete:
\* if not it asks the stream itself, about everybody in view. The user's own
\* devices and the signatures it made are looked up beside that.
DeviceListChanges(rooms, wasPruned, since, now) ==
  LET changed == {log[p].user : p \in UpdatedIn({"device"}, since, now)}
  IN (IF wasPruned THEN changed \cap (UsersSharingAnyRoom \cup {Me}) ELSE ChangesInRooms(rooms, since, now))
       \cup (changed \cap {Me})
       \cup {log[p].user : p \in UpdatedIn({"sign"}, since, now)}

---------------------------------------------------------------------------
(* /sync: who came and went is read off the rooms of the response.         *)

Idle == [stage |-> "idle"]

\* No change in the window, or a join that only repeats one, is not a new room.
NewlyJoined(rooms, since, now) ==
  {r \in rooms : LET own == ChangesOf(Me, r, since, now)
                 IN own # {} /\ ((\E p \in own : log[p].to # "join") \/ At(Me, r, since) # "join")}

\* The members a room's state block names: all of them in a newly joined room,
\* those that changed before the timeline starts in another.
StateMembers(r, newly, since, cut) ==
  {u \in Users : r \in newly \/ ChangesOf(u, r, since, cut) # {}}

\* One member event of a timeline. A leave takes back what was said before.
Consider(acc, p) ==
  LET u == log[p].user
  IN IF log[p].to \in Present THEN [acc EXCEPT !.joined = @ \cup {u}]
     ELSE [joined |-> acc.joined \ {u}, left |-> acc.left \cup {p}]

\* Of a state block only the members present count.
ConsiderRoom(acc, r, newly, since, cut, now) ==
  LET named == {u \in StateMembers(r, newly, since, cut) : At(u, r, cut) \in Present}
  IN FoldLeft(Consider, [acc EXCEPT !.joined = @ \cup named], SetToSortSeq(Changes(r, cut, now), <))

\* userChangesFromRooms goes over the rooms of a map, in any order, and
\* resolveLeftUsers keeps the leaves that end a join. The timelines begin at cut.
UserChanges(order, newly, since, cut, now) ==
  LET found == FoldLeft(LAMBDA acc, r : ConsiderRoom(acc, r, newly, since, cut, now),
                        [joined |-> {}, left |-> {}], order)
  IN [joined |-> found.joined,
      left |-> {log[p].user : p \in {q \in found.left : Before(q) = "join"}} \ found.joined]

\* Users who both came and went in a window: the order of the rooms decides what
\* is said of them.
Contested(since, now) ==
  LET of(u, ps) == \E p \in ps : log[p].user = u
      changes == UNION {Changes(r, since, now) : r \in Rooms}
  IN {u \in Users : /\ of(u, {p \in changes : log[p].to \in Present})
                    /\ of(u, {p \in changes : log[p].to = "leave"})}

\* The list of rooms, the token, and the rooms built under it. One log
\* stands for all the streams, and the token is its end; what is written after it
\* is in the queries that are not bounded by it. (A list that is out of date when
\* the token is taken is LongPoll's subject.)
BuildRooms(cut, order) ==
  LET since == client.since
      now == End
      rooms == JoinedTo(Me, End)
      newly == NewlyJoined(rooms, since, now)
      changes == UserChanges(order, newly, since, cut, now)
  IN /\ client.api = "sync" /\ req = Idle
     /\ cut \in since .. now
     /\ order \in SetToSeqs(rooms)
     /\ req' = [stage |-> "presence", now |-> now, rooms |-> rooms, newly |-> newly, gone |-> {},
                joined |-> changes.joined, left |-> changes.left, presence |-> <<>>,
                blind |-> Contested(since, now)]
     /\ UNCHANGED <<start, log, prunedTo, client>>

\* Mutant: only who joined a room is new, not the room one joined.
PresenceOfJoined(joined, members) == joined

\* Presence is owed for everybody who came into view.
ExtraUsers(joined, members) == joined \cup members

ReadPresence ==
  LET extra == ExtraUsers(req.joined, JoinedMembersOf(req.newly)) \ {Me}
      shown == PresenceSince(client.since, req.now) \cup extra
  IN /\ req.stage = "presence"
     /\ req' = [req EXCEPT !.stage = "devices", !.presence = [u \in shown |-> PresenceRow(u)]]
     /\ UNCHANGED <<start, log, prunedTo, client>>

---------------------------------------------------------------------------
(* Sliding sync: deviceListUpdates reads the delta stream.                 *)

\* The token comes first.
SlidingToken ==
  /\ client.api = "sliding" /\ req = Idle
  /\ req' = [stage |-> "rooms", now |-> End]
  /\ UNCHANGED <<start, log, prunedTo, client>>

\* SelfMemberDeltas: the rooms whose last change of joinedness was to, or from, join.
JoinFlips(since, now) ==
  [r \in Rooms |-> {p \in ChangesOf(Me, r, since, now) : (log[p].to = "join") # (Before(p) = "join")}]

\* MemberDeltasInRooms: the same of the others, over all rooms at once, and with
\* invites counted as being there.
PresenceFlips(rooms, since, now) ==
  {p \in UNION {Changes(r, since, now) : r \in rooms} : (log[p].to \in Present) # (Before(p) \in Present)}

ReadRooms ==
  LET since == client.since
      now == req.now
      rooms == JoinedTo(Me, End)
      own == JoinFlips(since, now)
      lastOwn(join) == {r \in Rooms : own[r] # {} /\ (log[Max(own[r])].to = "join") = join}
      flips == PresenceFlips(rooms, since, now)
      last(present) == {u \in Users : LET its == {p \in flips : log[p].user = u}
                                      IN its # {} /\ (log[Max(its)].to \in Present) = present}
  IN /\ req.stage = "rooms"
     /\ req' = [stage |-> "devices", now |-> req.now, rooms |-> rooms,
                newly |-> lastOwn(TRUE), gone |-> lastOwn(FALSE),
                joined |-> last(TRUE), left |-> last(FALSE),
                blind |-> {}, presence |-> <<>>]
     /\ UNCHANGED <<start, log, prunedTo, client>>

---------------------------------------------------------------------------
(* The rest is common.                                                     *)

ReadPruned ==
  /\ req.stage = "devices"
  /\ req' = [req EXCEPT !.stage = "pruned"] @@
       [wasPruned |-> req.rooms # {} /\ Pruned(client.since)]
  /\ UNCHANGED <<start, log, prunedTo, client>>

\* The rows may be pruned after it was asked whether they were.
ReadChanges ==
  LET outdated == Pruned(client.since) /\ ~req.wasPruned
  IN /\ req.stage = "pruned"
     /\ req' = [stage |-> "changed", now |-> req.now, rooms |-> req.rooms, gone |-> req.gone,
                left |-> req.left, presence |-> req.presence,
                blind |-> IF outdated THEN Users ELSE req.blind,
                changed |-> DeviceListChanges(req.rooms, req.wasPruned, client.since, req.now)
                              \cup req.joined \cup JoinedMembersOf(req.newly)]
     /\ UNCHANGED <<start, log, prunedTo, client>>

\* Mutant: a user who left a room is gone.
StillSharingNobody(rooms) == {}

\* Who is in view all the same: over the rooms one is in, read now or, by sliding
\* sync, at the start.
StillSharing(rooms) ==
  IF client.api = "sync" THEN UsersSharingAnyRoom ELSE JoinedMembersOf(rooms)

ReadLeft ==
  /\ req.stage = "changed"
  /\ req' = [stage |-> "answered", now |-> req.now, blind |-> req.blind,
             changed |-> req.changed, presence |-> req.presence,
             left |-> (req.left \cup JoinedMembersOf(req.gone)) \ StillSharing(req.rooms)]
  /\ UNCHANGED <<start, log, prunedTo, client>>

---------------------------------------------------------------------------
(* The client (external): it fetches keys when it is told to or needs them, *)
(* and drops those of users who left.                                       *)

\* An initial sync has the presence of everybody in view, and no device lists: the
\* client fetched the keys it needs.
SharedRoomPresence == UsersSharingAnyRoom \cup {Me}

Init ==
  /\ start \in [Users -> [Rooms -> Memberships]]
  /\ log = <<>> /\ prunedTo = 0 /\ req = Idle
  /\ LET held == [u \in Users |-> IF u \in SharedRoomPresence THEN 0 ELSE None]
     IN client \in [api : APIs, since : {0},
                    keys : {held}, presence : {held}, blind : {{}}]

FetchKeys(u) ==
  /\ client.keys[u] = None
  /\ client' = [client EXCEPT !.keys[u] = KeysRow(u)]
  /\ UNCHANGED <<start, log, prunedTo, req>>

Deliver ==
  /\ req.stage = "answered"
  /\ client' = [client EXCEPT !.since = req.now, !.blind = @ \cup req.blind,
       !.keys = [u \in Users |-> IF u \in req.left THEN None
                                 ELSE IF u \in req.changed /\ @[u] # None THEN KeysRow(u) ELSE @[u]],
       !.presence = [u \in Users |-> IF u \in DOMAIN req.presence THEN req.presence[u] ELSE @[u]]]
  /\ req' = Idle
  /\ UNCHANGED <<start, log, prunedTo>>

\* The response is lost, or a query fails.
Lose ==
  /\ req # Idle /\ req' = Idle
  /\ UNCHANGED <<start, log, prunedTo, client>>

Next ==
  \/ \E u \in Users, r \in Rooms, to \in Memberships : ChangeMembership(u, r, to)
  \/ \E update \in Updates : Update(update[1], update[2])
  \/ Prune
  \/ \E cut \in 0 .. End, order \in SetToSeqs(JoinedTo(Me, End)) : BuildRooms(cut, order)
  \/ SlidingToken
  \/ ReadPresence \/ ReadRooms \/ ReadPruned \/ ReadChanges \/ ReadLeft
  \/ \E u \in Users : FetchKeys(u)
  \/ Deliver \/ Lose

Spec == Init /\ [][Next]_vars

---------------------------------------------------------------------------
(* The properties.                                                         *)

\* The users in view at a token and ever since: both are in one room then, and
\* neither left it later.
InView(token) ==
  {u \in Users : \/ u = Me
                 \/ \E r \in JoinedTo(u, token) \cap JoinedTo(Me, token) :
                      ChangesOf(u, r, token, End) \cup ChangesOf(Me, r, token, End) = {}}

Trusted == InView(client.since) \ client.blind

\* The keys a client holds of a user in view are not out of date: a change of
\* devices or a signature up to its token was either there when it fetched them
\* or has been announced, though the user was out of view when it happened, its
\* row was pruned, or responses were lost. Said of users who did not come and go
\* within one window of /sync, and of requests whose knowledge of the pruning
\* was not out of date when used.
KeysCurrent ==
  \A u \in Trusted : client.keys[u] # None =>
    \A p \in UpdatedIn({"device", "sign"}, client.keys[u], client.since) : log[p].user # u

\* Nobody in view is reported as gone: a client drops the keys of who is. The
\* user came into view at the latest when the response's last query ran.
LeftIsGone ==
  req.stage = "answered" =>
    \A u \in req.left : u = Me \/ u \notin InView(req.now)

\* /sync shows the presence of everybody in view: the latest, once the token
\* covers it, of those who changed it and of those who only came into view.
PresenceKnown ==
  client.api = "sync" =>
    \A u \in Trusted : PresenceRow(u) <= client.since =>
      client.presence[u] # None /\ client.presence[u] >= PresenceRow(u)
=============================================================================
