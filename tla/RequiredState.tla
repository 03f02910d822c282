---------------------------- MODULE RequiredState ----------------------------
(***************************************************************************)
(* The state one room is sent with over a sliding sync connection          *)
(* (internal/slidingsync: roomconfig.go, requiredstate.go,                 *)
(* requiredstateresolve.go). The connection remembers an effective config, *)
(* the state keys it counts as sent; a response diffs the request against  *)
(* it and sends what changed and what has only just become required.       *)
(*                                                                         *)
(* A config is a set of <<type, key>> pairs, which is what the code's map  *)
(* of sets comes down to once an empty set and an absent type are the      *)
(* same. A response that is lost leaves the client with its old position,  *)
(* and the config stored under it, so it is as if it had not been built.   *)
(***************************************************************************)
EXTENDS Integers, Sequences, FiniteSetsExt, SequencesExt

CONSTANTS
  Me,                     \* the syncing user
  Sender,                 \* the user who sends the room's events
  Entries,                \* the room's state: <<type, key>> pairs
  Requests,               \* what is asked: per list or subscription, a sequence of pairs
  TimelineLimit,
  MaxRememberedStateKeys, \* per type
  MaxPos,                 \* bound: events written
  None

Wildcard == "*"
LazyKey == "$LAZY"
MeKey == "$ME"
Member == "m.room.member"

ASSUME EntriesAssumption ==
  \A e \in Entries : Len(e) = 2 /\ Wildcard \notin {e[1], e[2]} /\ e[2] \notin {LazyKey, MeKey}
ASSUME BoundsAssumption == {TimelineLimit, MaxRememberedStateKeys, MaxPos} \subseteq Nat
ASSUME RequestsAssumption == \A q \in Requests : \A i \in DOMAIN q : \A j \in DOMAIN q[i] : Len(q[i][j]) = 2

VARIABLES
  log,     \* the room's events: the entry a state event sets, None for a message
  at,      \* the token of the connection's last response, None before the first
  stored,  \* RoomSyncConfig.RequiredState under the connection's position
  copy,    \* per entry, the position of the event the client was last sent
  asked    \* the entries the last request asked for

vars == <<log, at, stored, copy, asked>>

---------------------------------------------------------------------------
(* roomconfig.go: the config of a request.                                 *)

KeysOf(cfg, type) == {x[2] : x \in {y \in cfg : y[1] = type}}
TypesOf(cfg) == {x[1] : x \in cfg}


\* What a wildcard covers already is not added, and what is added drops what it
\* covers; dropStateKey is the second half of that.
CombineRoomSyncConfig(a, b) ==
  LET added == {x \in b : <<x[1], Wildcard>> \notin a /\ <<Wildcard, x[2]>> \notin a}
      covered(y) == \E x \in added \ {y} : \/ x = <<Wildcard, y[2]>>
                                           \/ x = <<y[1], Wildcard>>
  IN IF <<Wildcard, Wildcard>> \in a \cup b THEN {<<Wildcard, Wildcard>>}
     ELSE {y \in a \cup added : ~covered(y)}

NewRoomSyncConfig(list) == FoldLeft(LAMBDA cfg, x : CombineRoomSyncConfig(cfg, {x}), {}, list)

\* The config of a room that several lists and subscriptions show.
ConfigOf == [request \in Requests |->
  FoldLeft(LAMBDA cfg, list : CombineRoomSyncConfig(cfg, NewRoomSyncConfig(list)), {}, request)]

---------------------------------------------------------------------------
(* requiredstate.go: the diff of a request against the stored config.      *)

\* The keys a client may write an entry's state key as.
Names(e) == IF e[2] = Me THEN {Me, MeKey} ELSE {e[2]}

\* The members named outright.
ExplicitMembers(cfg) == {e[2] : e \in {f \in Entries : f[1] = Member /\ Names(f) \cap KeysOf(cfg, Member) # {}}}


\* A key is forgotten only if the client dropped it and its state changed.
Invalidated(old, new, changedKeys) == (old \ new) \cap changedKeys

\* Mutant: what is remembered is never cut down.
RememberAll(new, inheritable) == new \cup inheritable

\* The requested keys, with as many inheritable ones as there is room for: a slice
\* of them in some fixed order, that may hold keys that are requested anyway.
Remember(new, inheritable) ==
  LET room == MaxRememberedStateKeys - Cardinality(new)
  IN IF Cardinality(new \cup inheritable) <= MaxRememberedStateKeys THEN new \cup inheritable
     ELSE IF room <= 0 THEN new
     ELSE new \cup CHOOSE kept \in SUBSET inheritable : Cardinality(kept) = room

\* First pass: a type that was added to.
GrownKeys(type, old, new, changedKeys) ==
  IF type = Member /\ LazyKey \in new \ old THEN new
  ELSE Remember(new, (old \ {Wildcard, LazyKey}) \ Invalidated(old, new, changedKeys))

\* The entries the first pass has fetched. $LAZY appearing ends it for its type.
GrownState(type, old, new) ==
  IF (type = Member /\ LazyKey \in new \ old) \/ Wildcard \in old THEN {}
  ELSE {e \in Entries : e[1] = type /\ (Wildcard \in new \/ Names(e) \cap (new \ old) # {})}

\* Second pass: a type that was only removed from, and whose state changed. A
\* change of the user's own entry is one of $ME too.
ShrunkKeys(type, old, new, changedKeys) ==
  LET gone == Invalidated(old, new, changedKeys \cup (IF Me \in changedKeys THEN {MeKey} ELSE {}))
      lazy == type = Member /\ LazyKey \in old
  IN IF \/ (Wildcard \in old) # (Wildcard \in new)
        \/ type = Member /\ (LazyKey \in old) # (LazyKey \in new)
        \/ lazy /\ gone # {}
     THEN new ELSE old \ gone

\* deltas are the entries that changed since the last response. No member counts
\* as returned lazily before: the response never says which were.
ComputeRequiredStateChanges(prev, request, requestLazy, deltas) ==
  LET old(t) == KeysOf(prev, t)
      new(t) == KeysOf(request, t)
      changed(t) == KeysOf(deltas, t)
      grown == {t \in TypesOf(request) : new(t) \ old(t) # {}}
      shrunk == {t \in TypesOf(deltas) \ grown : old(t) # new(t)}
      keys(t) == IF t \in grown THEN GrownKeys(t, old(t), new(t), changed(t))
                 ELSE ShrunkKeys(t, old(t), new(t), changed(t))
      moved == {t \in grown \cup shrunk : t \in grown \/ keys(t) # old(t)}
      members(users) == {e \in Entries : e[1] = Member /\ e[2] \in users}
      result(cfg, added) == [changed |-> cfg, added |-> added]
  IN CASE prev = request -> result(None, members(requestLazy))
       [] prev # request /\ Wildcard \in old(Wildcard) -> result(request, {})
       [] prev # request /\ Wildcard \notin old(Wildcard) /\ old(Wildcard) # new(Wildcard) ->
            result(request, IF new(Wildcard) \subseteq old(Wildcard) THEN {} ELSE Entries)
       [] OTHER ->
            result(IF moved = {} THEN None
                   ELSE {x \in prev : x[1] \notin moved} \cup UNION {{t} \X keys(t) : t \in moved},
                   UNION {GrownState(t, old(t), new(t)) : t \in grown}
                     \cup members(requestLazy \ ExplicitMembers(prev)))

---------------------------------------------------------------------------
(* requiredstateresolve.go: the state of one response.                     *)

Latest(e, p) == Max({0} \cup {q \in 1 .. p : log[q] = e})

\* What a config, or a client's own list of pairs, names outright.
Named(pairs) ==
  {e \in Entries : \E x \in pairs : x[1] \in {Wildcard, e[1]} /\ x[2] \in Names(e) \cup {Wildcard}}

\* What each request asks for by name, in the client's own words.
AsksFor == [request \in Requests |-> Named(UNION {ToSet(list) : list \in ToSet(request)})]
AsksLazily(request) == <<Member, LazyKey>> \in UNION {ToSet(list) : list \in ToSet(request)}

\* planRequiredState: any wildcard type comes down to everything.
Plan(cfg, timeline, deltas, gap) ==
  LET users == UNION {{Sender} \cup (IF ev # None /\ ev[1] = Member THEN {ev[2]} ELSE {}) : ev \in timeline}
      lazy == <<Member, LazyKey>> \in cfg
      members == {e \in Entries : e[1] = Member}
  IN IF Wildcard \in TypesOf(cfg) THEN [wants |-> Entries, lazy |-> {}]
     ELSE [wants |-> Named(cfg) \cup
                     (IF ~lazy THEN {} ELSE IF gap THEN {e \in members : e[2] \in users} ELSE members),
           lazy |-> (IF lazy THEN users \cup (IF gap THEN {} ELSE KeysOf(deltas, Member)) ELSE {})
                      \ ExplicitMembers(cfg)]

Init ==
  /\ log = <<>> /\ at = None /\ stored = {} /\ asked = {}
  /\ copy = [e \in Entries |-> 0]

\* An event is sent to the room (external).
Write(ev) ==
  /\ Len(log) < MaxPos
  /\ log' = Append(log, ev)
  /\ UNCHANGED <<at, stored, copy, asked>>

\* resolveRequiredState for a room that filterRoomsToSend lets through.
SendRoom(request) ==
  LET now == Len(log)
      cfg == ConfigOf[request]
      initial == at = None
      since == (IF initial THEN 0 ELSE at) + 1 .. now
      page == {p \in since : p > now - TimelineLimit}
      timeline == {log[p] : p \in page}
      deltas == {log[p] : p \in since} \ {None}
      plan == Plan(cfg, timeline, deltas, initial \/ page # since)
      changes == ComputeRequiredStateChanges(stored, cfg, plan.lazy, deltas)
      sent == IF initial THEN plan.wants ELSE (deltas \cup changes.added) \cap plan.wants
  IN /\ copy' = [e \in Entries |-> IF e \in sent THEN Latest(e, now) ELSE copy[e]]
     /\ stored' = IF initial \/ changes.changed = None THEN cfg ELSE changes.changed
     /\ asked' = AsksFor[request] \cup
                   (IF timeline # {} /\ AsksLazily(request) THEN {<<Member, Sender>>} ELSE {})
     /\ at' = now
     /\ UNCHANGED log

\* filterRoomsToSend: the room is new, its config has grown, or it has events.
ToSend(request) ==
  IF at = None THEN TRUE
  ELSE CombineRoomSyncConfig(stored, ConfigOf[request]) # stored \/ Len(log) > at

Respond(request) ==
  \/ ToSend(request) /\ SendRoom(request)
  \/ /\ ~ToSend(request)
     /\ asked' = AsksFor[request]
     /\ UNCHANGED <<log, at, stored, copy>>

Next ==
  \/ \E ev \in Entries \cup {None} : Write(ev)
  \/ \E request \in Requests : Respond(request)

Spec == Init /\ [][Next]_vars

---------------------------------------------------------------------------
(* The properties.                                                         *)

\* The state has its types, and a type of the stored config holds no more keys
\* than MaxRememberedStateKeys, or than the request that set it named.
TypeOK ==
  /\ log \in Seq(Entries \cup {None}) /\ Len(log) <= MaxPos
  /\ at \in 0 .. Len(log) \cup {None}
  /\ copy \in [Entries -> 0 .. Len(log)] /\ asked \subseteq Entries
  /\ \A t \in TypesOf(stored) :
       \/ Cardinality(KeysOf(stored, t)) <= MaxRememberedStateKeys
       \/ \E request \in Requests : KeysOf(stored, t) = KeysOf(ConfigOf[request], t)


=============================================================================
