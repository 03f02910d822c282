---------------------------- MODULE DerivedCache ----------------------------
(***************************************************************************)
(* A cache invalidated over replication (internal/store/derived.go): its   *)
(* guard `fresh`, the read-through of RoomsForUser, the invalidator that   *)
(* the subscriber calls for each row (cmd/gosync-worker/invalidate.go),    *)
(* and the drop and connect of the connection that feeds it.               *)
(*                                                                         *)
(* A key is a user. RoomSummary, HistoryVisibility and IgnoredUsers are    *)
(* the same read-through with one membership set, and no merge. What the   *)
(* database answers for a key is the position of the last row that changed *)
(* it, so that an answer is judged by how old it is. A row that does not   *)
(* name its key is one that changes it and does not say so: a "state-all", *)
(* or a row rowDetails could not read.                                     *)
(***************************************************************************)
EXTENDS LRU, FiniteSetsExt

CONSTANTS
  Keys,
  Sets,          \* the membership sets asked for
  Readers,       \* requests in flight
  Transactions,  \* the row sequences that share a position
  MaxPos,        \* bound: positions written
  MaxDrops,      \* bound: connections lost
  MaxLost        \* bound: rows lost while the connection is up

Rows == [key : Keys, names : BOOLEAN]

ASSUME TransactionsAssumption == Transactions \subseteq Seq(Rows) \ {<<>>}
ASSUME DerivedBounds == {MaxPos, MaxDrops, MaxLost} \subseteq Nat

VARIABLES
  log,       \* log[p]: the rows committed at position p
  received,  \* the position of the last row delivered, or lost
  phase,     \* where the subscriber's goroutine is
  live,      \* Subscriber.live
  position,  \* Subscriber.positions[stream]
  batch,     \* the rows still to be given to the invalidator
  armed,     \* derivedCaches.armed
  applied,   \* derivedCaches.applied[stream]
  cache,     \* derivedCaches.roomsForUser
  reader,    \* each request's lookup
  drops, lost

dbVars == <<log>>
subVars == <<received, phase, live, position, batch, drops, lost>>
derivedVars == <<armed, applied, cache>>
vars == <<dbVars, subVars, derivedVars, reader>>

Pos == 0 .. MaxPos

\* LastChange(k, p): what the database says of k at position p.
LastChange(k, p) == Max({0} \cup {q \in 1 .. p : \E r \in Range(log[q]) : r.key = k})

Idle == [at |-> "idle"]

Init ==
  /\ log = <<>>
  /\ received = 0 /\ phase = "down" /\ live = FALSE /\ position = 0 /\ batch = <<>>
  /\ drops = 0 /\ lost = 0
  /\ armed = FALSE /\ applied = 0 /\ cache = Empty
  /\ reader = [r \in Readers |-> Idle]

\* Synapse commits a transaction (external). A position is announced once all
\* below it have committed: StreamFeed has the writers that make it so.
Write(rows) ==
  /\ Len(log) < MaxPos
  /\ log' = Append(log, rows)
  /\ UNCHANGED <<subVars, derivedVars, reader>>

---------------------------------------------------------------------------
(* A reader holding a value read before this step has been overtaken by    *)
(* it: history, for telling a raced answer from the others.                *)

Overtaken(ks) ==
  [r \in Readers |->
     IF reader[r].at \in {"read", "merged"} /\ reader[r].key \in ks
     THEN [reader[r] EXCEPT !.raced = TRUE] ELSE reader[r]]

\* session, setLive(true): what was published before it subscribed is never
\* seen.
Connect ==
  /\ phase = "down"
  /\ received' \in received .. Len(log)
  /\ phase' = "connected" /\ live' = TRUE
  /\ reader' = Overtaken(Keys)
  /\ UNCHANGED <<dbVars, position, batch, drops, lost, derivedVars>>

\* Mutant: the applied position starts from nothing.
ArmDerivedCachesUnseeded ==
  /\ phase = "connected"
  /\ armed' = TRUE /\ applied' = 0
  /\ phase' = "arming"
  /\ UNCHANGED <<dbVars, received, live, position, batch, drops, lost, cache, reader>>

\* ArmDerivedCaches, under d.mu ...
ArmDerivedCaches ==
  /\ phase = "connected"
  /\ armed' = TRUE /\ applied' = position
  /\ phase' = "arming"
  /\ UNCHANGED <<dbVars, received, live, position, batch, drops, lost, cache, reader>>

\* ... and then each cache, under its own lock (setArmed).
ArmCache ==
  /\ phase = "arming"
  /\ cache' = SetArmed(cache, TRUE)
  /\ phase' = "reading"
  /\ UNCHANGED <<dbVars, received, live, position, batch, drops, lost, armed, applied, reader>>

\* The session ends: setLive(false), and then onDrop.
LoseConnection ==
  /\ phase = "reading" /\ drops < MaxDrops
  /\ drops' = drops + 1
  /\ live' = FALSE /\ phase' = "dropping"
  /\ UNCHANGED <<dbVars, received, position, batch, lost, derivedVars, reader>>

DisarmDerivedCaches ==
  /\ phase = "dropping"
  /\ armed' = FALSE /\ applied' = 0
  /\ phase' = "disarming"
  /\ UNCHANGED <<dbVars, received, live, position, batch, drops, lost, cache, reader>>

DisarmCache ==
  /\ phase = "disarming"
  /\ cache' = SetArmed(cache, FALSE)
  /\ reader' = Overtaken(Keys)
  /\ phase' = "down"
  /\ UNCHANGED <<dbVars, received, live, position, batch, drops, lost, armed, applied>>

\* handleRDATA: the rows of the next position, one at a time.
Receive ==
  /\ phase = "reading" /\ received < Len(log)
  /\ received' = received + 1
  /\ batch' = log[received + 1]
  /\ phase' = "row"
  /\ UNCHANGED <<dbVars, live, position, drops, lost, derivedVars, reader>>

\* OnRow: drop what the row names ...
OnRow ==
  /\ phase = "row"
  /\ IF Head(batch).names
     THEN /\ cache' = RemoveKey(cache, Head(batch).key)
          /\ reader' = Overtaken({Head(batch).key})
     ELSE UNCHANGED <<cache, reader>>
  /\ phase' = "apply"
  /\ UNCHANGED <<dbVars, received, live, position, batch, drops, lost, armed, applied>>

\* ... and then Applied; the next row of the batch comes after it.
Applied ==
  /\ phase = "apply"
  /\ applied' = Max({applied, received})
  /\ batch' = Tail(batch)
  /\ phase' = IF Len(batch) > 1 THEN "row" ELSE "advance"
  /\ UNCHANGED <<dbVars, received, live, position, drops, lost, armed, cache, reader>>

Advance ==
  /\ phase = "advance"
  /\ position' = Max({position, received})
  /\ phase' = "reading"
  /\ UNCHANGED <<dbVars, received, live, batch, drops, lost, derivedVars, reader>>

\* A row lost while the connection is up: one that could not be parsed at all.
LoseRow ==
  /\ phase = "reading" /\ received < Len(log) /\ lost < MaxLost
  /\ received' = received + 1
  /\ lost' = lost + 1
  /\ UNCHANGED <<dbVars, phase, live, position, batch, drops, derivedVars, reader>>

\* handlePosition: the stream-change caches hear of it, and these do not.
HandlePosition ==
  /\ phase = "reading" /\ position < received
  /\ position' = received
  /\ UNCHANGED <<dbVars, received, phase, live, batch, drops, lost, derivedVars, reader>>

\* handleCacheInvalidation: a room's current state changed, or rooms were
\* deleted. Nothing changes in the database that `log` does not have.
OnRoomInvalidated(k) ==
  /\ phase = "reading" /\ Hit(cache, k)
  /\ cache' = RemoveKey(cache, k)
  /\ reader' = Overtaken({k})
  /\ UNCHANGED <<dbVars, subVars, armed, applied>>

OnPurge ==
  /\ phase = "reading" /\ cache.order # <<>>
  /\ cache' = Purge(cache)
  /\ reader' = Overtaken(Keys)
  /\ UNCHANGED <<dbVars, subVars, armed, applied>>

---------------------------------------------------------------------------
(* A request. Its horizon is the token its response will report: this      *)
(* worker's, or the client's since, which another worker minted.           *)

\* Positions count from the one Seed took, so replication always has one.
NowToken == IF live THEN position ELSE Len(log)

\* Mutant: any armed cache may answer.
freshWhenArmed(horizon) == armed

fresh(horizon) == armed /\ applied >= horizon

\* A request that has its answer makes the next one.
Lookup(r, k, s, horizon) ==
  /\ reader[r].at \in {"idle", "answered"}
  /\ horizon >= NowToken
  /\ reader' = [reader EXCEPT ![r] =
       [at |-> "lookup", key |-> k, set |-> s, horizon |-> horizon, own |-> horizon = NowToken,
        use |-> fresh(horizon)]]
  /\ UNCHANGED <<dbVars, subVars, derivedVars>>

Held(k) == IF Hit(cache, k) THEN ValueOf(cache, k) ELSE {}

HeldSet(q) == {v \in Held(q.key) : v.set = q.set}

\* The answer the request q is given.
Answered(q, value, raced) ==
  [at |-> "answered", key |-> q.key, horizon |-> q.horizon, own |-> q.own,
   value |-> value, raced |-> raced]

\* The cache has the user, and this membership set.
GetHit(r) ==
  /\ reader[r].at = "lookup" /\ reader[r].use
  /\ \E v \in HeldSet(reader[r]) :
       reader' = [reader EXCEPT ![r] = Answered(@, v.at, v.raced)]
  /\ cache' = Touched(cache, reader[r].key)
  /\ UNCHANGED <<dbVars, subVars, armed, applied>>

GetMiss(r) ==
  /\ reader[r].at = "lookup" /\ (reader[r].use => HeldSet(reader[r]) = {})
  /\ reader' = [reader EXCEPT ![r].at = "query"]
  /\ cache' = IF reader[r].use THEN Touched(cache, reader[r].key) ELSE cache
  /\ UNCHANGED <<dbVars, subVars, armed, applied>>

\* roomsForUser: the database, as it is now.
Query(r) ==
  /\ reader[r].at = "query"
  /\ LET value == LastChange(reader[r].key, Len(log)) IN
     reader' = [reader EXCEPT ![r] =
       IF @.use THEN [at |-> "read", key |-> @.key, set |-> @.set, horizon |-> @.horizon,
                      own |-> @.own, value |-> value, raced |-> FALSE]
       ELSE Answered(@, value, FALSE)]
  /\ UNCHANGED <<dbVars, subVars, derivedVars>>

\* addRoomsForUser: the sets held for the user, with this one replaced ...
Merge(r) ==
  /\ reader[r].at = "read"
  /\ reader' = [reader EXCEPT ![r] =
       [at |-> "merged", key |-> @.key, horizon |-> @.horizon, own |-> @.own, value |-> @.value,
        raced |-> @.raced,
        bySet |-> (Held(@.key) \ HeldSet(@)) \cup {[set |-> @.set, at |-> @.value, raced |-> FALSE]}]]
  /\ cache' = Touched(cache, reader[r].key)
  /\ UNCHANGED <<dbVars, subVars, armed, applied>>

\* ... and put back, whatever has happened to the entry since.
Fill(r) ==
  /\ reader[r].at = "merged"
  /\ cache' = Add(cache, reader[r].key,
                  {[v EXCEPT !.raced = @ \/ reader[r].raced] : v \in reader[r].bySet})
  /\ reader' = [reader EXCEPT ![r] = Answered(@, @.value, FALSE)]
  /\ UNCHANGED <<dbVars, subVars, armed, applied>>

Next ==
  \/ \E rows \in Transactions : Write(rows)
  \/ Connect \/ ArmDerivedCaches \/ ArmCache
  \/ LoseConnection \/ DisarmDerivedCaches \/ DisarmCache
  \/ Receive \/ OnRow \/ Applied \/ Advance \/ LoseRow \/ HandlePosition \/ OnPurge
  \/ \E k \in Keys : OnRoomInvalidated(k)
  \/ \E r \in Readers :
       \/ \E k \in Keys, s \in Sets, horizon \in 0 .. Len(log) : Lookup(r, k, s, horizon)
       \/ GetHit(r) \/ GetMiss(r) \/ Query(r) \/ Merge(r) \/ Fill(r)

Spec == Init /\ [][Next]_vars

---------------------------------------------------------------------------
\* What the cache holds for a key: its sets, each as old as it was when read.
Values == [set : Sets, at : Pos, raced : BOOLEAN]
Caches == [order : Seq([key : Keys, value : SUBSET Values]), disarmed : BOOLEAN]

\* The stages of a request.
Lookups == [at : {"lookup", "query"}, key : Keys, set : Sets, horizon : Pos, own : BOOLEAN, use : BOOLEAN]
Reads == [at : {"read"}, key : Keys, set : Sets, horizon : Pos, own : BOOLEAN, value : Pos, raced : BOOLEAN]
Merges == [at : {"merged"}, key : Keys, horizon : Pos, own : BOOLEAN, value : Pos, raced : BOOLEAN,
           bySet : SUBSET Values]
Answers == [at : {"answered"}, key : Keys, horizon : Pos, own : BOOLEAN, value : Pos, raced : BOOLEAN]

TypeOK ==
  /\ log \in Seq(Transactions) /\ Len(log) <= MaxPos
  /\ received \in 0 .. Len(log) /\ {position, applied} \subseteq 0 .. received
  /\ phase \in {"down", "connected", "arming", "reading", "dropping", "disarming",
                "row", "apply", "advance"}
  /\ batch \in Seq(Rows)
  /\ live \in BOOLEAN /\ armed \in BOOLEAN /\ cache \in Caches
  /\ drops \in 0 .. MaxDrops /\ lost \in 0 .. MaxLost
  /\ reader \in [Readers -> {Idle} \cup Lookups \cup Reads \cup Merges \cup Answers]

\* An answer is as new as the token it is given under.
Covers(q) == q.value >= LastChange(q.key, q.horizon)

\* A cached answer covers this worker's own token, unless its entry was filled
\* across an invalidation of it: "a cached entry is only served when replication
\* has delivered every invalidation up to the token's position"
\* (derived.go:41-44). Through drops, reconnects and batches.
OwnTokenCovered ==
  lost = 0 =>
    \A r \in Readers :
      reader[r].at = "answered" /\ ~reader[r].raced /\ reader[r].own
        => Covers(reader[r])

\* The same for a token minted elsewhere. "recording the position before doing
\* the work would open exactly the window the guard exists to close"
\* (invalidate.go:19-23).
AnyTokenCovered ==
  \A r \in Readers : reader[r].at = "answered" /\ ~reader[r].raced => Covers(reader[r])

\* The same for an entry filled while its row went by. "A skew becomes a cache
\* miss instead of a missing room" (derived.go:41-44).
RacedFillCovered ==
  \A r \in Readers :
    reader[r].at = "answered" /\ reader[r].own => Covers(reader[r])

\* A stream that carries no row does not keep its cache from answering: an armed
\* guard comes to refuse this worker's own token only by a POSITION that no row
\* led up to, never by connecting or by a row (ArmDerivedCaches,
\* derived.go:170-176).
QuietStreamAnswers ==
  [][armed' /\ position' > applied' => (armed /\ position > applied) \/ HandlePosition]_vars

\* While the connection is down nothing is served from the cache, and nothing
\* is put into it by a request that began before the drop (derived.go:193-209).
DownHoldsNothing ==
  phase = "down" => cache.order = <<>> /\ ~armed
=============================================================================
