------------------------- MODULE StreamChangeCache -------------------------
(***************************************************************************)
(* One stream-change cache in use: the replication goroutine feeds it, the *)
(* requests ask it. The module states what internal/streamcache promises:  *)
(* "A false positive is free. A false negative is a lost event."           *)
(*                                                                         *)
(* `history` is the truth the cache is judged against: every change of the *)
(* stream so far, whether or not the cache was told of it. The callers'    *)
(* side of the contract is in the guards: an empty cache is armed at or    *)
(* above everything that happened (account_data, membership), a prefilled  *)
(* one from a scan of the stream's table (events, receipts, presence,      *)
(* to_device), and a jump is reported at or above every change so far.     *)
(* StreamFeed models the callers and asks whether they keep to it.         *)
(***************************************************************************)
EXTENDS StreamCache

CONSTANT ScanLimit  \* the LIMIT of the CacheDict query

ASSUME ScanLimitAssumption == ScanLimit \in Nat \ {0}

VARIABLES
  cache,    \* the Cache struct
  history,  \* <<entity, position>> of every change of the stream
  step,     \* what the replication goroutine is doing: "idle", "armed"
            \* (between Arm and Prefill, the lock free), "filling" (inside
            \* Prefill, the lock held)
  fill      \* what CacheDict returned: the entries left, and minPos

vars == <<cache, history, step, fill>>

\* A change is below MaxPos, so that "one above" it is still a position.
Changes == Entities \X (1 .. MaxPos - 1)

NoFill == [entries |-> {}, minPos |-> 0]

Init ==
  /\ cache = New(0)
  /\ history = {}
  /\ step = "idle"
  /\ fill = NoFill

\* A row: the change happens, and the cache is told (a disarmed one is deaf).
Change(e, p) ==
  /\ step = "idle"
  /\ history' = history \cup {<<e, p>>}
  /\ cache' = EntityHasChanged(cache, e, p)
  /\ UNCHANGED <<step, fill>>

\* A POSITION, or a row naming nobody: changes that were never seen, the stream
\* now being at pos.
Jump(pos, unseen) ==
  /\ step = "idle"
  /\ \A r \in history \cup unseen : r[2] <= pos
  /\ history' = history \cup unseen
  /\ cache' = AllEntitiesChanged(cache, pos)
  /\ UNCHANGED <<step, fill>>

\* Replication dropped.
Drop ==
  /\ step = "idle"
  /\ cache' = Disarm(cache)
  /\ UNCHANGED <<history, step, fill>>

\* Armed empty at the current position.
ArmEmpty(pos) ==
  /\ step = "idle" /\ cache.disarmed
  /\ \A r \in history : r[2] <= pos
  /\ cache' = Arm(cache, pos)
  /\ UNCHANGED <<history, step, fill>>

(***************************************************************************)
(* CacheDict: the newest rows of the table, at most ScanLimit of them, the *)
(* cut falling anywhere among rows of one position. The answer keeps the   *)
(* newest row of each entity, and trusts itself from one above the lowest  *)
(* position it saw, or from maxValue if it saw none.                       *)
(***************************************************************************)
NewestRows(rows) ==
  /\ rows \subseteq history
  /\ \A r \in rows, s \in history \ rows : s[2] <= r[2]
  /\ \/ rows = history /\ Cardinality(rows) <= ScanLimit
     \/ rows # history /\ Cardinality(rows) = ScanLimit

NewestPerEntity(rows) ==
  {r \in rows : \A s \in rows : s[1] = r[1] => s[2] <= r[2]}

TrustedFrom(rows, minPos) ==
  \/ /\ rows = {}
     /\ \A r \in history : r[2] <= minPos
  \/ \E r \in rows : minPos = r[2] + 1 /\ \A s \in rows : r[2] <= s[2]

\* PrefillStreamCaches: scan, then Arm; Prefill is another critical section.
ScanAndArm(rows, minPos) ==
  /\ step = "idle" /\ cache.disarmed
  /\ NewestRows(rows)
  /\ TrustedFrom(rows, minPos)
  /\ cache' = Arm(cache, minPos)
  /\ fill' = [entries |-> NewestPerEntity(rows), minPos |-> minPos]
  /\ step' = "armed"
  /\ UNCHANGED history

StartPrefill ==
  /\ step = "armed"
  /\ cache' = PrefillHorizon(cache, fill.minPos)
  /\ step' = "filling"
  /\ UNCHANGED <<history, fill>>

\* One iteration of Prefill's loop, the map visited in any order.
PrefillEntry(r) ==
  /\ step = "filling" /\ r \in fill.entries
  /\ cache' = EntityHasChanged(cache, r[1], r[2])
  /\ fill' = [fill EXCEPT !.entries = @ \ {r}]
  /\ UNCHANGED <<history, step>>

EndPrefill ==
  /\ step = "filling" /\ fill.entries = {}
  /\ step' = "idle"
  /\ fill' = NoFill
  /\ UNCHANGED <<cache, history>>

Next ==
  \/ \E r \in Changes : Change(r[1], r[2])
  \/ \E pos \in Pos, unseen \in SUBSET Changes : Jump(pos, unseen)
  \/ Drop
  \/ \E pos \in Pos : ArmEmpty(pos)
  \/ \E rows \in SUBSET history, minPos \in Pos : ScanAndArm(rows, minPos)
  \/ StartPrefill
  \/ \E r \in fill.entries : PrefillEntry(r)
  \/ EndPrefill

Spec == Init /\ [][Next]_vars

---------------------------------------------------------------------------
TypeOK ==
  /\ cache \in Caches
  /\ history \in SUBSET Changes
  /\ step \in {"idle", "armed", "filling"}
  /\ fill \in [entries : SUBSET Changes, minPos : Pos]

\* byPos and entityPos are two indexes of one relation, however entities move
\* between positions, are evicted and are forgotten (streamcache.go:136-161).
IndexesAgree ==
  \A e \in Entities, p \in Pos : e \in cache.byPos[p] <=> (p > 0 /\ cache.entityPos[e] = p)

\* The cache never holds more distinct positions than its bound, and a cache
\* configured to hold nothing holds nothing (streamcache.go:78-80, 373-388).
Bounded ==
  Cardinality(positions(cache)) <= IF MaxSize > 0 THEN MaxSize ELSE 0

\* "unchanged" about one entity is never said of an entity that changed after
\* the position asked about (HasEntityChanged; streamcache.go:163-190). Not
\* claimed between Arm and Prefill, where the record is still empty.
NoFalseNegative ==
  step = "idle" =>
    \A r \in history, pos \in Pos : pos < r[2] => HasEntityChanged(cache, r[1], pos)

\* EntitiesChanged never leaves out an entity that changed, not even between
\* Arm and Prefill: its "nothing recorded" test covers that window
\* (streamcache.go:202-220).
EntitiesChangedComplete ==
  step # "filling" =>
    \A r \in history, pos \in Pos : pos < r[2] => r[1] \in EntitiesChanged(cache, pos)

\* "nothing at all changed" is never said of a stream that moved
\* (HasAnyEntityChanged; streamcache.go:222-242). Not claimed between Arm and
\* Prefill either: see StreamFeed, where that window is the worker's.
AnyChangeSeen ==
  step = "idle" =>
    \A r \in history, pos \in Pos : pos < r[2] => HasAnyEntityChanged(cache, pos)

\* The position the room-list sort takes for a room is an upper bound on its
\* last change (MaxPosOfLastChange; streamcache.go:244-263), rows arriving in
\* any order.
LastChangeIsUpperBound ==
  \A r \in history :
    step = "idle" /\ MaxPosOfLastChange(cache, r[1]) # 0
      => r[2] <= MaxPosOfLastChange(cache, r[1])

\* What makes the answers right, as an induction over the methods needs it:
\* above the horizon the record is complete, or about to be completed by an
\* entry Prefill has yet to visit; what is recorded is above the horizon; and
\* between Arm and Prefill the cache is empty and its horizon already covers
\* minPos (streamcache.go:100-161, 358-388; streamgates.go:174-206).
CompleteAboveHorizon ==
  \A r \in history :
    MaxSize > 0 /\ ~cache.disarmed /\ r[2] > cache.earliest =>
      \/ cache.entityPos[r[1]] >= r[2]
      \/ \E s \in fill.entries : s[1] = r[1] /\ r[2] <= s[2]

RecordedAboveHorizon ==
  \A e \in Entities : cache.entityPos[e] # 0 => cache.earliest < cache.entityPos[e]

PrefillPrepared ==
  /\ step = "idle" => fill = NoFill
  /\ step # "idle" => ~cache.disarmed /\ fill.minPos <= cache.earliest
  /\ step = "armed" => positions(cache) = {}

Inv ==
  /\ TypeOK /\ IndexesAgree /\ Bounded
  /\ CompleteAboveHorizon /\ RecordedAboveHorizon /\ PrefillPrepared

\* "the horizon may never move backwards" (streamcache.go:13-20): through
\* evictions, jumps, drops and rearming.
HorizonNeverFalls == [][cache'.earliest >= cache.earliest]_vars
=============================================================================
