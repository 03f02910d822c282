------------------------------- MODULE Typing -------------------------------
(***************************************************************************)
(* Who is typing (internal/replication/rows.go, replication.go, and the    *)
(* typing parts of /sync, /events and sliding sync).                       *)
(*                                                                         *)
(* Typing is in no table: the typing worker numbers its changes from a     *)
(* counter in its memory, which starts again at zero with it, and this     *)
(* worker knows what the rows it saw told it.  The numbers are compared    *)
(* with the ones clients bring back in their tokens.                       *)
(***************************************************************************)
EXTENDS Naturals, Sequences, FiniteSetsExt, TLC

CONSTANTS
  Rooms,
  Users,
  APIs,      \* of "sync", "sliding" and "events"
  MaxSerial, \* bound: changes of one run of the typing worker
  MaxRuns,   \* bound: its runs
  MidRow,    \* whether TypingArrives speaks of tokens taken in the middle of a row
  None

ASSUME APIsAssumption == APIs \subseteq {"sync", "sliding", "events"}
ASSUME BoundsAssumption == MaxSerial \in Nat /\ MaxRuns \in Nat
ASSUME MidRowAssumption == MidRow \in BOOLEAN

VARIABLES
  writer, \* the typing worker: its run, its serial, and who types where
  wire,   \* its messages that have not been handled
  sub,    \* the subscriber: positions[typing], lastByInstance, typing, typingSerial, live,
          \* and the row it is applying
  req,    \* the request under way
  client  \* its token, what it shows

vars == <<writer, wire, sub, req, client>>

Nobody == [r \in Rooms |-> {}]
Unseen == [r \in Rooms |-> 0]
Idle == [stage |-> "idle"]

---------------------------------------------------------------------------
(* The typing worker and Redis (external): what is published while nobody  *)
(* is subscribed is lost.                                                  *)

Publish(message) == wire' = IF sub.live THEN Append(wire, message @@ [run |-> writer'.run]) ELSE wire

Type(r, users) ==
  /\ writer.serial < MaxSerial /\ users # writer.typing[r]
  /\ writer' = [writer EXCEPT !.serial = @ + 1, !.typing[r] = users]
  /\ Publish([pos |-> writer'.serial, room |-> r, users |-> users])
  /\ UNCHANGED <<sub, req, client>>

\* A writer that starts announces its position.
Restart ==
  /\ writer.run < MaxRuns
  /\ writer' = [run |-> writer.run + 1, serial |-> 0, typing |-> Nobody]
  /\ Publish([pos |-> 0])
  /\ UNCHANGED <<sub, req, client>>

---------------------------------------------------------------------------
(* The subscriber.                                                         *)

\* Mutant: the serials of the writer's previous run are kept.
KeepDerivedState(s) == s

dropDerivedState(s) == [s EXCEPT !.typing = Nobody, !.typingSerial = Unseen]

Backwards(s, pos) == s.last # None /\ pos < s.last

\* A lower position of the same writer is adopted: typing is resettable.
advance(s, pos) ==
  IF Backwards(s, pos) THEN [dropDerivedState(s) EXCEPT !.last = pos, !.position = pos]
  ELSE [s EXCEPT !.last = IF @ = None THEN pos ELSE Max({@, pos}), !.position = Max({@, pos})]

\* A row carries everybody who types in the room.
updateTyping(s, row) ==
  [s EXCEPT !.typing[row.room] = row.users, !.typingSerial[row.room] = Max({@, row.pos})]

\* What is known of the client's view is void when the state it was read from is
\* dropped.
Forget(c) == [c EXCEPT !.told = {}, !.owed = {}, !.current = FALSE]
ForgetIf(forgotten) ==
  /\ client' = IF forgotten THEN Forget(client) ELSE client
  /\ req' = IF forgotten /\ req # Idle THEN Forget(req) ELSE req

\* A row owes the room to whoever holds a token of this run. A token of an earlier
\* one may be above its serial.
Owe(c, row) ==
  [c EXCEPT !.quiet = FALSE, !.owed = IF c.current THEN @ \cup {row.room} ELSE @,
            !.told = IF c.current THEN @ ELSE @ \ {row.room}]

\* The position moves first, so that a reset does not discard the row. The lock is
\* released before the row is applied.
handleRDATA(row) ==
  /\ sub' = [advance(sub, row.pos) EXCEPT !.run = row.run, !.row = row]
  /\ ForgetIf(Backwards(sub, row.pos))

ApplyRow ==
  /\ sub.row # None
  /\ sub' = [updateTyping(sub, sub.row) EXCEPT !.row = None]
  /\ client' = Owe(client, sub.row)
  /\ req' = IF req = Idle THEN Idle ELSE Owe(req, sub.row)
  /\ UNCHANGED <<writer, wire>>

handlePosition(message) ==
  /\ sub' = [advance(sub, message.pos) EXCEPT !.run = message.run]
  /\ ForgetIf(Backwards(sub, message.pos))

\* One goroutine handles the messages and the end of the connection.
Handle ==
  /\ sub.live /\ sub.row = None /\ wire # <<>> /\ wire' = Tail(wire)
  /\ IF "room" \in DOMAIN Head(wire) THEN handleRDATA(Head(wire)) ELSE handlePosition(Head(wire))
  /\ UNCHANGED writer

\* setLive: who types is forgotten with the connection, the position is not.
Drop ==
  /\ sub.live /\ sub.row = None
  /\ sub' = [dropDerivedState(sub) EXCEPT !.live = FALSE]
  /\ wire' = <<>>
  /\ ForgetIf(TRUE)
  /\ UNCHANGED writer

Connect ==
  /\ ~sub.live /\ sub' = [sub EXCEPT !.live = TRUE]
  /\ UNCHANGED <<writer, wire, req, client>>

TypingChangedSince(pos) == {r \in Rooms : sub.live /\ sub.typingSerial[r] > pos}

TypingIn(r) == sub.typing[r]

---------------------------------------------------------------------------
(* A request.                                                              *)

\* The database has no position for typing.
CurrentToken == IF sub.live /\ sub.position > 0 THEN sub.position ELSE 0

\* Mutant: typing is raised to the client's token like any other stream.
AtLeastRaised(now, floor) == Max({now, floor})

AtLeast(now, floor) == now

Begin ==
  /\ req = Idle
  /\ req' = [stage |-> "begun", now |-> AtLeast(CurrentToken, client.since), told |-> {}, owed |-> {},
             quiet |-> TRUE,
             current |-> sub.live /\ sub.run = writer.run /\ (MidRow \/ sub.row = None)]
  /\ UNCHANGED <<writer, wire, sub, client>>

\* /events does not ask when the position has not moved.
ReadChanged ==
  LET asked == client.api # "events" \/ client.since # req.now
  IN /\ req.stage = "begun"
     /\ req' = [req EXCEPT !.stage = "read"] @@
          [left |-> IF asked THEN TypingChangedSince(client.since) ELSE {}, shown |-> <<>>]
     /\ UNCHANGED <<writer, wire, sub, client>>

\* The rooms are rendered one by one, later. /sync leaves a room out while the
\* subscription is down; the others then say that nobody types.
Render(r) ==
  /\ req.stage = "read" /\ r \in req.left
  /\ req' = IF client.api = "sync" /\ ~sub.live THEN [req EXCEPT !.left = @ \ {r}]
            ELSE [req EXCEPT !.left = @ \ {r}, !.shown = (r :> TypingIn(r)) @@ @,
                             !.told = IF sub.live THEN @ \cup {r} ELSE @]
  /\ UNCHANGED <<writer, wire, sub, client>>

Deliver ==
  /\ req.stage = "read" /\ req.left = {}
  /\ client' = [api |-> client.api, since |-> req.now, shown |-> req.shown @@ client.shown,
                told |-> req.told \cup (IF req.current THEN client.told ELSE client.told \ client.owed),
                owed |-> req.owed,
                quiet |-> req.quiet, current |-> req.current]
  /\ req' = Idle
  /\ UNCHANGED <<writer, wire, sub>>

\* The response is lost.
Lose ==
  /\ req # Idle /\ req' = Idle
  /\ UNCHANGED <<writer, wire, sub, client>>

---------------------------------------------------------------------------
Init ==
  /\ writer = [run |-> 1, serial |-> 0, typing |-> Nobody]
  /\ wire = <<>>
  /\ sub = [live |-> FALSE, position |-> 0, last |-> None, typing |-> Nobody, typingSerial |-> Unseen,
            run |-> 1, row |-> None]
  /\ req = Idle
  /\ client \in [api : APIs, since : {0}, shown : {Nobody}, told : {{}}, owed : {{}},
                 quiet : {TRUE}, current : {FALSE}]

Next ==
  \/ \E r \in Rooms, users \in SUBSET Users : Type(r, users)
  \/ Restart \/ Handle \/ ApplyRow \/ Drop \/ Connect
  \/ Begin \/ ReadChanged \/ (\E r \in Rooms : Render(r)) \/ Deliver \/ Lose

Spec == Init /\ [][Next]_vars

---------------------------------------------------------------------------
(* The properties.                                                         *)

\* Typing does not freeze: a client that holds a token of the typing worker's
\* current run shows who types in a room it was told of, or that changed since,
\* or is told by its next request. So it does after the worker's counter has
\* started again far below the tokens clients hold, after lost responses, and
\* however rows arrive between the token, the question which rooms changed and
\* the rendering of each. A token taken between a row's position and the row is
\* past it, and is left out unless MidRow says otherwise.
TypingArrives ==
  client.current => \A r \in client.told \cup client.owed :
    client.shown[r] = TypingIn(r) \/ r \in TypingChangedSince(client.since)

\* Typing is not told again and again: when no row came in since the token was
\* taken, the request that brings it back finds nothing, and waits. Also after the
\* worker restarted, whose old serials would be above every token.
NotToldAgain ==
  client.quiet => TypingChangedSince(client.since) = {}
=============================================================================
