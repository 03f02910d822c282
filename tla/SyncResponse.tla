---------------------------- MODULE SyncResponse ----------------------------
(***************************************************************************)
(* One joined room of a /sync response: how the timeline is cut, which     *)
(* state goes with it, and which lazy-loaded memberships are left out      *)
(* because this process remembers having sent them.                        *)
(*                                                                         *)
(* The room is a log of events.  An event names its prev_events; `after'   *)
(* is the contents of its state group (the state after it, on its own      *)
(* branch) and `current' the room's current state once it was persisted.   *)
(* The two differ only when the room has forked.  State resolution and     *)
(* the client are external: the model takes from the homeserver any state  *)
(* that the branches of a fork offer, and a client that applies what it is *)
(* sent as the specification of /sync tells it to.                         *)
(*                                                                         *)
(* A response may be lost: the client then asks again with the token it    *)
(* had, while the process keeps the memberships it recorded as sent.       *)
(***************************************************************************)
EXTENDS Integers, Sequences, FiniteSets, Functions

CONSTANTS Users,    \* members of the room, the syncing user among them
          Me,       \* the syncing user
          Other,    \* the state keys that are no membership
          Naming,   \* those that name the room: its name, its canonical alias
          Blank,    \* the positions whose event, if it is one of these, is empty
          Filters,  \* [lazy, redundant, after : BOOLEAN, limit : 1..]: what a client may ask for
          Posts,    \* <<sender, key>>: the events members write; key Message for no state
          Forks,    \* whether the room may fork
          Message,  \* the "key" of an event that is no state event
          Idle,     \* no request, no response
          MaxLog    \* bound on the events of the room

ASSUME SyncResponseAssumptions ==
    /\ Me \in Users /\ Users \cap Other = {} /\ Message \notin Users \cup Other
    /\ Naming \subseteq Other /\ Blank \subseteq 0 .. MaxLog
    /\ Posts \subseteq Users \X (Users \cup Other \cup {Message})
    /\ \A f \in Filters : f.limit >= 1
    /\ Forks \in BOOLEAN /\ MaxLog \in Nat

VARIABLES
    log,     \* the room's events, in stream order
    req,     \* the request being served: its filter, since and now tokens; or Idle
    resp,    \* the response under way to the client, or Idle
    cache,   \* lazyload.Members of the device: user -> member event last sent
    since,   \* the client's token, 0 before its first sync
    filter,  \* the filter the client has used since its last initial sync
    copy,    \* the room state the client holds
    shown,   \* senders whose events the client has been shown
    lost     \* <<user, member event>>s carried by responses that were lost

vars == <<log, req, resp, cache, since, filter, copy, shown, lost>>

None == -1      \* no event
Keys == Other \cup Users
Last == Len(log)

(***************************************************************************)
(* The room.  Position 0 stands for its creation: every key was set there, *)
(* and the events before position 1 have been purged from the timeline.    *)
(***************************************************************************)
Genesis == [sender |-> Me, key |-> Message, prevs |-> {0},
            after |-> [k \in Keys |-> 0], current |-> [k \in Keys |-> 0]]

After(p) == log[p].after
Current(p) == log[p].current

Extremities == {p \in 1 .. Last : \A q \in p + 1 .. Last : p \notin log[q].prevs}

Set(state, key, id) == IF key = Message THEN state ELSE [state EXCEPT ![key] = id]

\* An ordinary event follows every forward extremity of the room.
Append1(sender, key) ==
    LET state == Set(Current(Last), key, Last + 1)
    IN  /\ Last < MaxLog
        /\ log' = Append(log, [sender |-> sender, key |-> key, prevs |-> Extremities,
                               after |-> state, current |-> state])
        /\ UNCHANGED <<req, resp, cache, since, filter, copy, shown, lost>>

\* An event from another server that does not know the last one: the room
\* forks, and its current state takes each key from one of the two branches.
Fork(sender, key) ==
    LET state == Set(After(Last - 1), key, Last + 1)
    IN  /\ Forks /\ Last > 1 /\ Last < MaxLog
        /\ Extremities = {Last}
        /\ \E resolved \in [Keys -> 0 .. MaxLog] :
             /\ \A k \in Keys : resolved[k] \in {Current(Last)[k], state[k]}
             /\ log' = Append(log, [sender |-> sender, key |-> key, prevs |-> {Last - 1},
                                    after |-> state, current |-> resolved])
        /\ UNCHANGED <<req, resp, cache, since, filter, copy, shown, lost>>

(***************************************************************************)
(* The timeline of the window (from, now]: its newest events, up to the    *)
(* filter's limit.                                                         *)
(***************************************************************************)
Recents(from, now, limit) ==
    LET first == IF now - from > limit THEN now - limit + 1 ELSE from + 1
    IN  [i \in 1 .. now - first + 1 |-> first + i - 1]

Limited(from, now, limit) == now - from > limit

IsState(p) == log[p].key # Message

\* The senders whose membership the client needs: every one of them with
\* state_after, and those whose membership the timeline has not shown yet
\* without it.
timelineMembers(tl, useStateAfter) ==
    {log[tl[i]].sender : i \in {j \in DOMAIN tl :
        useStateAfter \/ \A e \in 1 .. j - 1 : log[tl[e]].key # log[tl[j]].sender}}

restrictToMembers(state, members) == Restrict(state, DOMAIN state \ (Users \ members))
keepOnlyMembers(state, members) == Restrict(state, DOMAIN state \cap members)

\* The state in force at a position, loaded without the members nobody asked for.
LazyStateIDsAt(p, members) == restrictToMembers(After(p), members)

isLinearTimeline(tl, from) ==
    \A i \in DOMAIN tl : log[tl[i]].prevs = {IF i = 1 THEN from ELSE tl[i - 1]}

\* The last state event of the timeline for each key.
TimelineContains(tl) ==
    {tl[i] : i \in {j \in DOMAIN tl :
        IsState(tl[j]) /\ \A l \in j + 1 .. Len(tl) : log[tl[l]].key # log[tl[j]].key}}

\* Mutation: only the state at the start of the timeline is subtracted from.
CalculateFromStart(start, end, previous, tl, lazy) ==
    Restrict(start, {k \in DOMAIN start :
        start[k] \notin TimelineContains(tl) \cup
                        (IF k \in DOMAIN previous THEN {previous[k]} ELSE {})})

\* What the client needs before the timeline: the state at its start, then
\* that at its end, without what the timeline carries and what the state at
\* the end of the previous sync held.  (An event id belongs to one key.)
calculateState(start, end, previous, tl, lazy) ==
    LET sent(k, id) == \/ id \in TimelineContains(tl)
                       \/ /\ k \in DOMAIN previous /\ previous[k] = id
                          /\ ~(lazy /\ k \in DOMAIN start \cap Users /\ start[k] = id)
        kept(f) == Restrict(f, {k \in DOMAIN f : ~sent(k, f[k])})
    IN  [k \in DOMAIN kept(start) \cup DOMAIN kept(end) |->
            IF k \in DOMAIN kept(end) THEN kept(end)[k] ELSE kept(start)[k]]

NoState == [k \in {} |-> None]

syncStateBlock(tl, now, members) ==
    calculateState(LazyStateIDsAt(IF tl = <<>> THEN now ELSE tl[1], members),
                   LazyStateIDsAt(now, members), NoState, tl, FALSE)

\* Mutation: lazy loading stays on for the ends of a limited window.
DeltaStaysLazy(tl, limited, from, now, members, lazy) ==
    IF ~limited /\ isLinearTimeline(tl, from)
    THEN IF lazy THEN keepOnlyMembers(After(tl[1]), members) ELSE NoState
    ELSE calculateState(LazyStateIDsAt(tl[1], members),
                        LazyStateIDsAt(now, members),
                        LazyStateIDsAt(from, members), tl, lazy)

\* A limited timeline takes both ends of the window unrestricted: the client
\* has missed events it will never be shown.
incrementalStateDelta(tl, limited, from, now, members, lazy) ==
    LET ends == IF limited THEN Users ELSE members
    IN  IF ~limited /\ isLinearTimeline(tl, from)
        THEN IF lazy THEN keepOnlyMembers(After(tl[1]), members) ELSE NoState
        ELSE calculateState(LazyStateIDsAt(tl[1], members),
                            LazyStateIDsAt(now, ends),
                            LazyStateIDsAt(from, ends), tl, lazy)

CurrentStateDeltas(from, now) ==
    Restrict(Current(now), {k \in Keys : \E p \in from + 1 .. now :
                                Current(p)[k] # Current(p - 1)[k]})

\* With state_after: what the current state became over the window, and the
\* senders' memberships as they are when the query runs.
StateAfter(from, now, members, lazy) ==
    LET deltas == CurrentStateDeltas(from, now)
        senders == IF lazy THEN keepOnlyMembers(Current(Last), members) ELSE NoState
    IN  [k \in DOMAIN deltas \cup DOMAIN senders |->
            IF k \in DOMAIN deltas THEN deltas[k] ELSE senders[k]]

(***************************************************************************)
(* The device's cache of the memberships it has been sent.                 *)
(***************************************************************************)
EmptyCache == [u \in Users |-> None]

\* The member events of the timeline, as the client ends up with them.
TimelineMemberships(tl) ==
    LET ids == {p \in TimelineContains(tl) : log[p].key \in Users}
    IN  [u \in {log[p].key : p \in ids} |-> CHOOSE p \in ids : log[p].key = u]

Recorded(c, f) == [u \in Users |-> IF u \in DOMAIN f THEN f[u] ELSE c[u]]

\* Mutation: an initial sync does not clear the cache, only ignores it.
DedupeNoClear(c, f, state, tl, initial) ==
    IF ~f.lazy \/ f.redundant THEN [state |-> state, cache |-> c]
    ELSE LET kept == IF initial THEN state
                     ELSE Restrict(state, {k \in DOMAIN state :
                                             ~(k \in Users /\ c[k] = state[k])})
         IN  [state |-> kept, cache |-> Recorded(Recorded(c, kept), TimelineMemberships(tl))]

\* What dedupeLazyMembers leaves of the state block and makes of the cache.
dedupeLazyMembers(c, f, state, tl, initial) ==
    IF ~f.lazy \/ f.redundant THEN [state |-> state, cache |-> c]
    ELSE LET kept == IF initial THEN state
                     ELSE Restrict(state, {k \in DOMAIN state :
                                             ~(k \in Users /\ c[k] = state[k])})
         IN  [state |-> kept,
              cache |-> Recorded(Recorded(IF initial THEN EmptyCache ELSE c, kept),
                                 TimelineMemberships(tl))]

wantSummary(f, tl, state, limited, initial) ==
    /\ f.lazy
    /\ \/ initial
       \/ \E i \in DOMAIN tl : log[tl[i]].key \in Users
       \/ limited /\ DOMAIN state \cap Users # {}

\* The others in the room: no more than the first five, which is all of them here.
Heroes == Users \ {Me}

\* An empty name does not count, and the state is that at the token.
roomHasName(now) == \E k \in Naming : After(now)[k] \notin Blank

\* The summary of a room without a name gives heroes, and adds the membership of a
\* hero that is in neither block and not known to be sent.
roomSummary(d, tl, now) ==
    LET new == {u \in Heroes : /\ u \notin DOMAIN d.state
                                /\ \A i \in DOMAIN tl : log[tl[i]].key # u
                                /\ d.cache[u] # Current(Last)[u]}
        heroes == Restrict(Current(Last), new)
    IN  IF roomHasName(now) THEN d
        ELSE [state |-> [k \in DOMAIN d.state \cup new |->
                            IF k \in new THEN heroes[k] ELSE d.state[k]],
              cache |-> Recorded(d.cache, heroes)]

(***************************************************************************)
(* The request.                                                            *)
(***************************************************************************)
Init ==
    /\ log = <<Genesis>>
    /\ req = Idle /\ resp = Idle
    /\ cache = EmptyCache
    /\ since = 0 /\ filter \in Filters
    /\ copy = [k \in Keys |-> None]
    /\ shown = {} /\ lost = {}

\* The request takes its token: replication may be behind the room.
TakeToken ==
    /\ req = Idle /\ resp = Idle
    /\ \E now \in 1 .. Last : now >= since /\ req' = [since |-> since, now |-> now]
    /\ UNCHANGED <<log, resp, cache, since, filter, copy, shown, lost>>

\* syncRoomEntry: an initial sync.
InitialEntry ==
    /\ req # Idle /\ req.since = 0
    /\ LET tl == Recents(0, req.now, filter.limit)
           members == IF filter.lazy THEN timelineMembers(tl, filter.after) \cup {Me} ELSE Users
           state == IF filter.after THEN LazyStateIDsAt(req.now, members)
                    ELSE syncStateBlock(tl, req.now, members)
           d == dedupeLazyMembers(cache, filter, state, tl, TRUE)
           s == IF wantSummary(filter, tl, d.state, Limited(0, req.now, filter.limit), TRUE)
                THEN roomSummary(d, tl, req.now) ELSE d
       IN  /\ resp' = [now |-> req.now, since |-> 0, tl |-> tl, state |-> s.state]
           /\ cache' = s.cache
    /\ req' = Idle
    /\ UNCHANGED <<log, since, filter, copy, shown, lost>>

\* incrementalRoomEntry: a room without events in the window is left out.
IncrementalEntry ==
    /\ req # Idle /\ req.since > 0
    /\ LET tl == Recents(req.since, req.now, filter.limit)
           limited == Limited(req.since, req.now, filter.limit)
           members == IF filter.lazy THEN timelineMembers(tl, filter.after) ELSE Users
           state == IF filter.after THEN StateAfter(req.since, req.now, members, filter.lazy)
                    ELSE incrementalStateDelta(tl, limited, req.since, req.now, members,
                                               filter.lazy)
           d == dedupeLazyMembers(cache, filter, state, tl, FALSE)
           s == IF wantSummary(filter, tl, d.state, limited, FALSE)
                THEN roomSummary(d, tl, req.now) ELSE d
       IN  IF tl = <<>>
           THEN /\ resp' = [now |-> req.now, since |-> req.since, tl |-> tl, state |-> NoState]
                /\ UNCHANGED cache
           ELSE /\ resp' = [now |-> req.now, since |-> req.since, tl |-> tl, state |-> s.state]
                /\ cache' = s.cache
    /\ req' = Idle
    /\ UNCHANGED <<log, since, filter, copy, shown, lost>>

\* A query fails: the client gets an error and keeps its token.
Fail ==
    /\ req # Idle
    /\ req' = Idle
    /\ UNCHANGED <<log, resp, cache, since, filter, copy, shown, lost>>

\* The client applies a response: `state' before the timeline's own state
\* events, or `state_after' in their place.
Carried(r) ==
    IF filter.after THEN r.state
    ELSE LET tl == [k \in {log[p].key : p \in TimelineContains(r.tl)} |->
                       CHOOSE p \in TimelineContains(r.tl) : log[p].key = k]
         IN  [k \in DOMAIN r.state \cup DOMAIN tl |->
                 IF k \in DOMAIN tl THEN tl[k] ELSE r.state[k]]

Deliver ==
    /\ resp # Idle
    /\ LET got == Carried(resp)
       IN  copy' = [k \in Keys |-> IF k \in DOMAIN got THEN got[k]
                                   ELSE IF resp.since = 0 THEN None ELSE copy[k]]
    /\ shown' = (IF resp.since = 0 THEN {} ELSE shown)
                  \cup {log[resp.tl[i]].sender : i \in DOMAIN resp.tl}
    /\ since' = resp.now
    /\ resp' = Idle
    /\ lost' = IF resp.since = 0 THEN {} ELSE lost
    /\ UNCHANGED <<log, req, cache, filter>>

Lose ==
    /\ resp # Idle
    /\ lost' = lost \cup {<<u, resp.state[u]>> : u \in DOMAIN resp.state \cap Users}
                    \cup {<<u, TimelineMemberships(resp.tl)[u]>> :
                             u \in DOMAIN TimelineMemberships(resp.tl)}
    /\ resp' = Idle
    /\ UNCHANGED <<log, req, cache, since, filter, copy, shown>>

\* The client forgets what it has and starts over, possibly with another filter.
StartOver ==
    /\ req = Idle /\ resp = Idle /\ since > 0
    /\ since' = 0 /\ filter' \in Filters
    /\ copy' = [k \in Keys |-> None] /\ shown' = {}
    /\ UNCHANGED <<log, req, resp, cache, lost>>

\* The per-device LRU evicts a user, or a room the user shares with the client
\* overwrites the entry: the cache is keyed by user, not by room.
Evict(u) ==
    /\ cache[u] # None
    /\ cache' = [cache EXCEPT ![u] = None]
    /\ UNCHANGED <<log, req, resp, since, filter, copy, shown, lost>>

\* The device's cache is thirty minutes old: For hands out a new one.
Expire ==
    /\ cache # EmptyCache
    /\ cache' = EmptyCache
    /\ UNCHANGED <<log, req, resp, since, filter, copy, shown, lost>>

Next ==
    \/ \E e \in Posts : Append1(e[1], e[2]) \/ Fork(e[1], e[2])
    \/ TakeToken \/ InitialEntry \/ IncrementalEntry \/ Fail
    \/ Deliver \/ Lose \/ StartOver
    \/ \E u \in Users : Evict(u)
    \/ Expire

Spec == Init /\ [][Next]_vars
-----------------------------------------------------------------------------
States == [Keys -> None .. MaxLog]

\* Every token, every recorded membership and every part of a response names
\* an event of the room; a timeline stays inside its window and its limit.
TypeOK ==
    /\ \A p \in 1 .. Last : log[p].after \in States /\ log[p].current \in States
    /\ req # Idle => req.since <= req.now /\ req.now <= Last
    /\ resp # Idle => /\ DOMAIN resp.state \subseteq Keys /\ Range(resp.state) \subseteq 0 .. Last
                      /\ Range(resp.tl) \subseteq resp.since + 1 .. resp.now
                      /\ Len(resp.tl) <= filter.limit
    /\ cache \in [Users -> None .. Last] /\ copy \in [Keys -> None .. Last]
    /\ since \in 0 .. Last /\ filter \in Filters /\ shown \subseteq Users

Linear == \A p \in 2 .. Last : log[p].prevs = {p - 1}

\* The state the window runs over: the state group in force at a position, or
\* the current state where the client asked for state_after.
InForce(p) == IF filter.after THEN Current(p) ELSE After(p)

\* No change is skipped by a response (incrementalStateDelta, calculateState).
\* Whatever the branches of the room and however the timeline was cut, an event
\* that is in force at the end of the window and was not at its start is in the
\* response, in its timeline or its state -- or is a membership: one the client
\* already holds, one a lost response carried, or, in a timeline that was not
\* cut, one that lazy loading leaves out because nobody speaks.
NothingMissed ==
    resp # Idle /\ resp.since > 0 =>
        \A k \in Keys : LET id == InForce(resp.now)[k] IN
            id # InForce(resp.since)[k] =>
                \/ k \in DOMAIN resp.state /\ resp.state[k] = id
                \/ id \in Range(resp.tl)
                \/ k \in Users /\ filter.lazy /\ (copy[k] = id \/ <<k, id>> \in lost)
                \/ /\ k \in Users /\ filter.lazy
                   /\ ~Limited(resp.since, resp.now, filter.limit)
                   /\ k \notin timelineMembers(resp.tl, filter.after)

\* The client's copy is the room (syncStateBlock, incrementalStateDelta,
\* CurrentStateDeltas).  In a room without forks a client holds, for its token,
\* exactly the state in force: every key that is no membership, every
\* membership without lazy loading, and with it no membership that the room
\* has replaced -- unless the replacement was in a response that got lost.
ClientCurrent ==
    Linear /\ since > 0 =>
        /\ \A k \in Other : copy[k] = After(since)[k]
        /\ \A u \in Users :
             \/ copy[u] = After(since)[u]
             \/ filter.lazy /\ (copy[u] = None \/ copy[u] > After(since)[u])
             \/ filter.lazy /\ <<u, After(since)[u]>> \in lost

\* A sender is never a stranger (timelineMembers, dedupeLazyMembers): a client
\* that loads members lazily knows a membership of everyone whose event it has
\* been shown, however often the cache was cleared, evicted, overwritten or expired --
\* unless the response that carried it was lost.
SendersKnown ==
    since > 0 => \A u \in shown : copy[u] # None \/ \E id \in 0 .. Last : <<u, id>> \in lost

\* The cache claims no more than the client has (dedupeLazyMembers,
\* roomSummary, Members.Clear): with no response under way, a membership the
\* process remembers as sent is one the client holds, or a newer one replaced
\* it, unless it was in a lost response.  A client that asks for redundant
\* members is not deduplicated and never clears the cache.
CacheIsKnown ==
    Linear /\ since > 0 /\ req = Idle /\ resp = Idle /\ filter.lazy /\ ~filter.redundant =>
        \A u \in Users : cache[u] # None => copy[u] >= cache[u] \/ <<u, cache[u]>> \in lost
=============================================================================
