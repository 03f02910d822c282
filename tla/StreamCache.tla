---------------------------- MODULE StreamCache ----------------------------
(***************************************************************************)
(* The data structure of internal/streamcache: a bounded record of the     *)
(* position of each entity's last change, complete above its horizon.      *)
(*                                                                         *)
(* A cache is a record of the fields of the Go struct:                     *)
(*   byPos      the entities last changed at each position (the map key is *)
(*              absent where the set is empty; `positions` is its keys)    *)
(*   entityPos  the last change of each entity, 0 where the map has no     *)
(*              entry (a recorded position is above the horizon, so > 0)   *)
(*   earliest   the horizon                                                *)
(*   disarmed                                                              *)
(* Each operator is one method of Cache, one critical section of c.mu.     *)
(***************************************************************************)
EXTENDS Integers, FiniteSets

CONSTANTS
  Entities,  \* rooms or users, whichever the stream is keyed by
  MaxPos,    \* bound: the highest stream position
  MaxSize    \* Cache.max, distinct positions held; <= 0 disables the cache

ASSUME MaxPosAssumption == MaxPos \in Nat
ASSUME MaxSizeAssumption == MaxSize \in Int

Pos == 0 .. MaxPos

Caches == [byPos : [Pos -> SUBSET Entities], entityPos : [Entities -> Pos],
           earliest : Pos, disarmed : BOOLEAN]

\* New: nothing known below currentPos, disarmed until Arm.
New(currentPos) ==
  [byPos |-> [p \in Pos |-> {}], entityPos |-> [e \in Entities |-> 0],
   earliest |-> currentPos, disarmed |-> TRUE]

\* The slice `positions`, kept as the sorted keys of byPos.
positions(c) == {p \in Pos : c.byPos[p] # {}}

(***************************************************************************)
(* evictLocked: while over the bound, drop the oldest position and raise   *)
(* the horizon to it. An insertion adds at most one position, so the Go    *)
(* loop runs at most once per call.                                        *)
(***************************************************************************)
Oldest(c) == CHOOSE k \in positions(c) : \A p \in positions(c) : k <= p

DropPosition(c, k) ==
  [c EXCEPT !.byPos = [@ EXCEPT ![k] = {}],
            !.entityPos = [e \in Entities |->
               IF e \in c.byPos[k] /\ c.entityPos[e] = k THEN 0 ELSE c.entityPos[e]],
            !.earliest = IF k > c.earliest THEN k ELSE c.earliest]

\* Mutant: the evicted position does not raise the horizon.
DropPositionKeepHorizon(c, k) ==
  [c EXCEPT !.byPos = [@ EXCEPT ![k] = {}],
            !.entityPos = [e \in Entities |->
               IF e \in c.byPos[k] /\ c.entityPos[e] = k THEN 0 ELSE c.entityPos[e]]]

\* Mutant: eviction forgets to raise the horizon.
evictLockedKeepHorizon(c) ==
  IF Cardinality(positions(c)) > MaxSize THEN DropPositionKeepHorizon(c, Oldest(c)) ELSE c

evictLocked(c) ==
  IF Cardinality(positions(c)) > MaxSize THEN DropPosition(c, Oldest(c)) ELSE c

\* entityHasChangedLocked past its two early returns.
Recorded(c, e, p) ==
  [c EXCEPT !.byPos = [q \in Pos |-> IF q = p THEN c.byPos[q] \cup {e}
                                     ELSE IF q = c.entityPos[e] THEN c.byPos[q] \ {e}
                                     ELSE c.byPos[q]],
            !.entityPos[e] = p]

\* Mutant: an entity that moves is left behind at its old position.
RecordedTwice(c, e, p) ==
  [c EXCEPT !.byPos[p] = c.byPos[p] \cup {e}, !.entityPos[e] = p]

\* Mutant: the newest position wins whether or not it is the higher one.
entityHasChangedLastWins(c, e, p) ==
  IF p <= c.earliest THEN c ELSE evictLocked(Recorded(c, e, p))

\* Mutant of entityHasChangedLocked built on RecordedTwice.
entityHasChangedLeftBehind(c, e, p) ==
  IF p <= c.earliest \/ c.entityPos[e] >= p THEN c ELSE evictLocked(RecordedTwice(c, e, p))

entityHasChangedLocked(c, e, p) ==
  IF p <= c.earliest \/ c.entityPos[e] >= p THEN c ELSE evictLocked(Recorded(c, e, p))

EntityHasChanged(c, e, p) ==
  IF MaxSize <= 0 \/ c.disarmed THEN c ELSE entityHasChangedLocked(c, e, p)

\* Prefill before its loop: the guards and the new horizon. The loop over
\* entries calls entityHasChangedLocked for each, in map order.
PrefillHorizon(c, minPos) ==
  IF MaxSize <= 0 \/ c.disarmed THEN c
  ELSE [c EXCEPT !.earliest = IF minPos > c.earliest THEN minPos ELSE c.earliest]

\* Mutant: the horizon is assigned, not raised.
resetLockedAssign(c, pos) ==
  [c EXCEPT !.byPos = [p \in Pos |-> {}], !.entityPos = [e \in Entities |-> 0],
            !.earliest = pos]

resetLocked(c, pos) ==
  [c EXCEPT !.byPos = [p \in Pos |-> {}], !.entityPos = [e \in Entities |-> 0],
            !.earliest = IF pos > c.earliest THEN pos ELSE c.earliest]

\* Mutant: a jump forgets the entries and keeps the horizon.
AllEntitiesChangedKeepHorizon(c, pos) == resetLocked(c, c.earliest)

\* Mutant: the horizon is set one past the position.
AllEntitiesChangedPast(c, pos) == resetLocked(c, pos + 1)

AllEntitiesChanged(c, pos) == resetLocked(c, pos)

Arm(c, currentPos) == [resetLocked(c, currentPos) EXCEPT !.disarmed = FALSE]

Disarm(c) == resetLocked([c EXCEPT !.disarmed = TRUE], c.earliest)

---------------------------------------------------------------------------
(* The questions. TRUE, or every entity, costs a query; FALSE is a claim.  *)

HasEntityChanged(c, e, pos) ==
  \/ MaxSize <= 0 \/ c.disarmed \/ pos < c.earliest
  \/ pos < c.entityPos[e]

\* Mutant: an empty cache is trusted.
EntitiesChangedTrustEmpty(c, pos) ==
  IF MaxSize <= 0 \/ c.disarmed \/ pos < c.earliest
  THEN Entities
  ELSE {e \in Entities : c.entityPos[e] > pos}

\* EntitiesChanged, asked about every entity.
EntitiesChanged(c, pos) ==
  IF MaxSize <= 0 \/ c.disarmed \/ pos < c.earliest \/ positions(c) = {}
  THEN Entities
  ELSE {e \in Entities : c.entityPos[e] > pos}

HasAnyEntityChanged(c, pos) ==
  \/ MaxSize <= 0 \/ c.disarmed \/ pos < c.earliest
  \/ \E p \in positions(c) : pos < p

\* MaxPosOfLastChange: the bound on an entity's last change, 0 for "not known".
MaxPosOfLastChange(c, e) ==
  IF MaxSize <= 0 \/ c.disarmed THEN 0 ELSE c.entityPos[e]
=============================================================================
