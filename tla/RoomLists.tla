------------------------------ MODULE RoomLists ------------------------------
(***************************************************************************)
(* The rooms a sliding sync request is about                               *)
(* (internal/slidingsync: roomlists.go, rewind.go, with the queries of     *)
(* internal/store/slidingsync.go). Synapse keeps a row per room with the   *)
(* user's membership as it is; a response is as of a token, so what        *)
(* happened after the token is undone. The queries of a request are        *)
(* separate statements, and events are written between them by several     *)
(* writers, each with a position of its own in the token.                  *)
(***************************************************************************)
EXTENDS Integers, Sequences, FiniteSetsExt, SequencesExt

CONSTANTS
  Rooms,
  Writers,     \* event persisters
  Acts,        \* of "join", "leave", "kick", "invite", "spam" and "message"
  Lists,       \* the lists asked for: ranges, filter, and whether its state needs remote members
  Attributes,  \* per room, what filters look at: its type, its tags, m.direct...
  PartialStateRooms,
  MaxPos,      \* bound: events written
  None

ASSUME ActsAssumption == Acts \subseteq {"join", "leave", "kick", "invite", "spam", "message"}
ASSUME ListsAssumption ==
  \A l \in Lists : l.start \in Nat /\ l.end \in Nat /\ l.start <= l.end /\ l.awaits \in BOOLEAN

VARIABLES
  log,       \* the events of the rooms, in stream order
  forgotten, \* the rooms the user has forgotten
  req,       \* the request under way, and what its queries have found
  touched    \* the rooms whose membership was written since its first query

vars == <<log, forgotten, req, touched>>

Tokens == [Writers -> 0 .. MaxPos]
MaxStreamPos(t) == Max({t[w] : w \in Writers})
MinStreamPos(t) == Min({t[w] : w \in Writers})
Before(t, u) == \A w \in Writers : t[w] <= u[w]

---------------------------------------------------------------------------
(* The log, and the tables Synapse keeps of it (external).                 *)

\* "kick" and "leave" are leaves by another and by the user, "spam" an invite by
\* a user who is ignored.
Membership(act) ==
  CASE act \in {"leave", "kick"} -> "leave"
    [] act \in {"invite", "spam"} -> "invite"
    [] OTHER -> act

Members(r) == {p \in DOMAIN log : log[p].room = r /\ log[p].act # "message"}

\* The newest of a set of positions, 0 for none.
Newest(ps) == Max(ps \cup {0})
Prev(p) == Newest({q \in Members(log[p].room) : q < p})
MembershipAt(p) == IF p = 0 THEN None ELSE Membership(log[p].act)

\* sliding_sync_membership_snapshots: the user's membership event, 0 for none.
Row(r) == Newest(Members(r))

\* sliding_sync_joined_rooms: the latest event of a room.
EventStream(r) == Newest({p \in DOMAIN log : log[p].room = r})

Covered(t, p) == p <= t[log[p].writer]

Write(r, act, w) ==
  LET now == MembershipAt(Row(r))
  IN /\ Len(log) < MaxPos
     /\ act \in {"leave", "kick"} => now \in {"join", "invite"}
     /\ act \in {"invite", "spam"} => now # "join"
     /\ log' = Append(log, [room |-> r, act |-> act, writer |-> w])
     /\ touched' = IF act = "message" \/ req.stage = "idle" THEN touched ELSE touched \cup {r}
     /\ UNCHANGED <<forgotten, req>>

\* A room that was left can be forgotten, until it is joined again.
Forget(r) ==
  /\ MembershipAt(Row(r)) = "leave" /\ r \notin forgotten
  /\ forgotten' = forgotten \cup {r}
  /\ UNCHANGED <<log, req, touched>>

IsForgotten(r) == r \in forgotten /\ MembershipAt(Row(r)) = "leave"

---------------------------------------------------------------------------
(* The request. Its rooms are a function from rooms to the position of the *)
(* membership event each is described by.                                  *)

Init ==
  /\ log = <<>> /\ forgotten = {} /\ touched = {}
  /\ req = [stage |-> "idle"]

\* SlidingRoomsForUser: neither forgotten nor left by the user. The invites of
\* ignored users are dropped from it.
RoomsForUser == {r \in Rooms : Row(r) # 0 /\ ~IsForgotten(r) /\ log[Row(r)].act # "leave"}

\* A token names the writers ahead of its base, each at an event of its own.
IsToken(t) == \A w \in Writers : t[w] <= Len(log) /\ (t[w] # MinStreamPos(t) => log[t[w]].writer = w)

Start(from, now) ==
  /\ req.stage = "idle"
  /\ IsToken(now) /\ (from # None => IsToken(from))
  /\ from # None => Before(from, now)
  /\ req' = [stage |-> "rooms", from |-> from, now |-> now,
             rooms |-> [r \in RoomsForUser |-> Row(r)]]
  /\ touched' = {}
  /\ UNCHANGED <<log, forgotten>>

\* SlidingSelfLeavesAfter
SelfLeavesAfter(now) ==
  {r \in Rooms : Row(r) > MinStreamPos(now) /\ ~IsForgotten(r) /\ log[Row(r)].act = "leave"}

AddSelfLeaves ==
  LET left == SelfLeavesAfter(req.now)
      rooms == [r \in DOMAIN req.rooms \cup left |-> IF r \in left THEN Row(r) ELSE req.rooms[r]]
      ignored == {r \in DOMAIN rooms : log[rooms[r]].act = "spam"}
  IN /\ req.stage = "rooms"
     /\ req' = [req EXCEPT !.stage = "leaves", !.rooms = Restrict(rooms, DOMAIN rooms \ ignored)]
     /\ UNCHANGED <<log, forgotten, touched>>

\* Mutant: only the snapshot's rows are looked at, not the delta stream.
ChangesOfRows(from, now, edgesKnow) ==
  [r \in Rooms |-> Newest({p \in Members(r) : p = Row(r) /\ ~Covered(from, p) /\ Covered(now, p)})]

\* SlidingMembershipChanges: the rows of the snapshot and of the delta stream
\* with a position in the range whose membership is not the one before. Before
\* the snapshot's row is whatever the event's prev_events hold of it: often
\* nothing. The membership cache, asked before, is StreamFeed's subject: here it
\* never denies a change.
Changes(from, now, edgesKnow) ==
  LET inRange(p) == ~Covered(from, p) /\ Covered(now, p)
      meaningful(p) == \/ MembershipAt(p) # MembershipAt(Prev(p))
                       \/ p = Row(log[p].room) /\ ~edgesKnow
  IN IF MaxStreamPos(from) >= MaxStreamPos(now) THEN [r \in Rooms |-> 0]
     ELSE [r \in Rooms |-> Newest({p \in Members(r) : inRange(p) /\ meaningful(p)})]

\* newlyJoinedAndLeft
FindChanges(edgesKnow) ==
  /\ req.stage = "leaves"
  /\ req' = [req EXCEPT !.stage = "changes"] @@
       [changes |-> IF req.from = None THEN [r \in Rooms |-> 0] ELSE Changes(req.from, req.now, edgesKnow)]
  /\ UNCHANGED <<log, forgotten, touched>>

\* The point the rows were read at: per writer its newest row, and the oldest of
\* those for a writer that has none.
Snapshot(rooms) ==
  LET of(w) == {rooms[r] : r \in {q \in DOMAIN rooms : log[rooms[q]].writer = w}}
      base == Min({Max(of(w)) : w \in {v \in Writers : of(v) # {}}})
  IN [w \in Writers |-> IF of(w) = {} THEN base ELSE Max(of(w))]

\* Mutant: the last change is undone rather than the first.
UndoneLast(after) == Max(after)

\* Of the changes after the token the first is undone.
Undone(after) == Min(after)

\* CurrentStateDeltaMembershipChanges: a room's rows in the delta stream between
\* two tokens.
DeltaChanges(from, to) == [r \in Rooms |-> {p \in Members(r) : ~Covered(from, p) /\ Covered(to, p)}]

\* rewindToToken: the event each room goes back to, 0 for a room that goes.
Rewind(rooms, now) ==
  LET snapshot == Snapshot(rooms)
      after == DeltaChanges(now, snapshot)
  IN IF DOMAIN rooms = {} THEN <<>>
     ELSE IF MaxStreamPos(snapshot) <= MaxStreamPos(now) THEN <<>>
     ELSE [r \in {q \in Rooms : after[q] # {}} |-> Prev(Undone(after[r]))]

\* membershipIsRelevant: a room the user left is gone, one it was kicked from stays.
Relevant(p) == log[p].act # "leave"

\* The rest of the room set: the rewind, the rooms left inside the range put
\* back, and the rooms the user has left dropped.
RewindRooms ==
  LET back == Rewind(req.rooms, req.now)
      kept == [r \in (DOMAIN req.rooms \ DOMAIN back) \cup {q \in DOMAIN back : back[q] # 0} |->
                 IF r \in DOMAIN back THEN back[r] ELSE req.rooms[r]]
      newlyLeft == {r \in Rooms : MembershipAt(req.changes[r]) = "leave"}
      rooms == [r \in DOMAIN kept \cup newlyLeft |-> IF r \in DOMAIN kept THEN kept[r] ELSE req.changes[r]]
  IN /\ req.stage = "changes"
     /\ req' = [req EXCEPT !.stage = "rewound",
                  !.rooms = Restrict(rooms, {r \in DOMAIN rooms : Relevant(rooms[r]) \/ r \in newlyLeft})]
     /\ UNCHANGED <<log, forgotten, touched>>

---------------------------------------------------------------------------
(* The lists.                                                              *)

\* filterRooms: what is asked for, and what is excluded whatever was asked for.
Passes(filter, r, p) ==
  /\ filter.invite # None => (MembershipAt(p) = "invite") = filter.invite
  /\ filter.wanted # None => Attributes[r] \cap filter.wanted # {}
  /\ Attributes[r] \cap filter.unwanted = {}

\* A partially stated room is hidden from a list whose state it cannot give.
Filtered(rooms, list) ==
  {r \in DOMAIN rooms : Passes(list.filter, r, rooms[r]) /\ ~(list.awaits /\ r \in PartialStateRooms)}

LastEventPosBefore(r, cap) == Newest({q \in 1 .. cap : log[q].room = r})

\* Mutant: a joined room is where its latest event is, covered or not.
ActivityNow(r, p, cap) == IF MembershipAt(p) # "join" THEN p ELSE EventStream(r)

\* sortRooms: the latest event of a joined room, looked up again when that is
\* above the token; the membership event of another.
Activity(r, p, cap) ==
  IF MembershipAt(p) # "join" THEN p
  ELSE IF EventStream(r) <= cap THEN EventStream(r)
  ELSE LastEventPosBefore(r, cap)

\* windowRooms: the rooms of a range, newest first.
Window(rooms, list, now) ==
  LET activity == [r \in Filtered(rooms, list) |-> Activity(r, rooms[r], MaxStreamPos(now))]
      listed == {r \in DOMAIN activity : activity[r] # 0}
      sorted == SetToSortSeq(listed, LAMBDA a, b : activity[a] > activity[b])
  IN SubSeq(sorted, list.start + 1, Min({list.end + 1, Len(sorted)}))

Answer(list) ==
  /\ req.stage = "rewound"
  /\ req' = [req EXCEPT !.stage = "answered"] @@
       [list |-> list, window |-> Window(req.rooms, list, req.now), count |-> Cardinality(Filtered(req.rooms, list))]
  /\ UNCHANGED <<log, forgotten, touched>>

Next ==
  \/ \E r \in Rooms, act \in Acts, w \in Writers : Write(r, act, w)
  \/ \E r \in Rooms : Forget(r)
  \/ \E from \in Tokens \cup {None}, now \in Tokens : Start(from, now)
  \/ AddSelfLeaves
  \/ \E edgesKnow \in BOOLEAN : FindChanges(edgesKnow)
  \/ RewindRooms
  \/ \E list \in Lists : Answer(list)

Spec == Init /\ [][Next]_vars

---------------------------------------------------------------------------
(* The properties. A room whose membership was written while the queries   *)
(* ran may come out either way; it is left out of them, and so is one the  *)
(* user has forgotten.                                                     *)

Settled == Rooms \ (touched \cup forgotten)

\* The membership of a room at a token.
At(r, t) == Newest({p \in Members(r) : Covered(t, p)})

\* The log has its type, a request reads it no further than it goes, and a list
\* is never longer than its range or its count.
TypeOK ==
  /\ log \in Seq([room : Rooms, act : Acts, writer : Writers]) /\ Len(log) <= MaxPos
  /\ forgotten \subseteq Rooms /\ touched \subseteq Rooms
  /\ req.stage \in {"idle", "rooms", "leaves", "changes", "rewound", "answered"}
  /\ req.stage # "idle" => DOMAIN req.rooms \subseteq Rooms /\ \A r \in DOMAIN req.rooms : req.rooms[r] \in DOMAIN log
  /\ req.stage = "answered" =>
       Len(req.window) <= req.count /\ Len(req.window) <= req.list.end - req.list.start + 1

\* The rooms a response describes are those of the user at its token, with the
\* membership they had then, and those left since the client's token: what was
\* written after the token, before or between the queries, neither hides a room
\* nor shows one. An ignored user's invite is not shown, unless it was answered
\* since; what such an invite of now does to the room's earlier memberships is
\* left open.
ListedAsOfToken ==
  req.stage = "rewound" =>
    \A r \in Settled :
      LET then == At(r, req.now)
          left == /\ req.from # None /\ MembershipAt(then) = "leave"
                  /\ \E p \in Members(r) : ~Covered(req.from, p) /\ Covered(req.now, p)
                                             /\ MembershipAt(p) # MembershipAt(Prev(p))
          spam(p) == p # 0 /\ log[p].act = "spam"
      IN IF spam(then) \/ spam(Row(r)) THEN then = Row(r) => r \notin DOMAIN req.rooms
         ELSE /\ (r \in DOMAIN req.rooms) <=> (then # 0 /\ (log[then].act # "leave" \/ left))
              /\ r \in DOMAIN req.rooms => req.rooms[r] = then

\* A room the user came to be in since the client's token is known as newly
\* joined, and so is sent in full.
NewlyJoinedIsFound ==
  req.stage = "rewound" /\ req.from # None =>
    \A r \in Settled :
      MembershipAt(At(r, req.now)) = "join" /\ MembershipAt(At(r, req.from)) # "join"
        => MembershipAt(req.changes[r]) = "join"

\* A list shows its range of the rooms that pass its filter, by their latest
\* event at the token: no room outside the range was active after one inside.
WindowIsNewest ==
  req.stage = "answered" =>
    LET latest(r) == IF MembershipAt(req.rooms[r]) # "join" THEN req.rooms[r]
                     ELSE Newest({p \in 1 .. MaxStreamPos(req.now) : log[p].room = r})
        rank(r) == Cardinality({q \in Filtered(req.rooms, req.list) : latest(q) > latest(r)})
    IN \A r \in Filtered(req.rooms, req.list) :
         (\E i \in DOMAIN req.window : req.window[i] = r) <=> rank(r) \in req.list.start .. req.list.end
=============================================================================
