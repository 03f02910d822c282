---------------------- MODULE StreamChangeCacheProofs ----------------------
(***************************************************************************)
(* The stream-change cache never gives a false negative, for every set of  *)
(* entities, every bound on what it holds, every scan limit and every      *)
(* history of the stream. The argument is the induction on Inv: one step   *)
(* per action, each from what StreamCacheLemmas says of the method the     *)
(* action calls.                                                           *)
(***************************************************************************)
EXTENDS StreamChangeCache, StreamCacheLemmas

\* A change's fields are an entity and a position.
LEMMA ChangeTypes ==
  ASSUME NEW r \in Changes
  PROVE  r[1] \in Entities /\ r[2] \in Pos /\ r[2] \in Nat /\ r = <<r[1], r[2]>>
BY MaxPosAssumption DEF Changes, Pos

\* A reset leaves a cache that holds nothing, and so fits any bound.
LEMMA EmptyFits ==
  ASSUME NEW c, positions(c) = {}
  PROVE  Fits(c)
BY FS_EmptySet, MaxSizeAssumption DEF Fits

\* Being complete passes down: what is known at q is known below q.
LEMMA KnownBelow ==
  ASSUME NEW c \in Caches, NEW e \in Entities, NEW p \in Pos, NEW q \in Pos,
         q <= p, Known(c, e, p)
  PROVE  Known(c, e, q)
BY MaxPosAssumption DEF Known, Caches, Pos

\* CacheDict returns an entry for every change above the position it trusts
\* itself from, however the LIMIT cut the rows: the position whose group may
\* have been cut is not trusted.
LEMMA ScanCovers ==
  ASSUME NEW rows \in SUBSET history, NEW minPos \in Pos, history \in SUBSET Changes,
         NewestRows(rows), TrustedFrom(rows, minPos),
         NEW h \in history, h[2] > minPos
  PROVE  \E s \in NewestPerEntity(rows) : s[1] = h[1] /\ h[2] <= s[2]
<1>1. h[1] \in Entities /\ h[2] \in Nat /\ h = <<h[1], h[2]>> /\ minPos \in Nat
  BY ChangeTypes, MaxPosAssumption DEF Pos
<1>2. h \in rows
  <2>1. CASE rows = {}
    <3>1. h[2] <= minPos
      BY <2>1 DEF TrustedFrom
    <3>. QED
      BY <1>1, <3>1
  <2>2. CASE rows # {}
    <3>1. PICK r \in rows : minPos = r[2] + 1
      BY <2>2 DEF TrustedFrom
    <3>2. r[2] \in Nat
      BY ChangeTypes
    <3>3. h \notin rows => h[2] <= r[2]
      BY DEF NewestRows
    <3>. QED
      BY <1>1, <3>1, <3>2, <3>3
  <2>. QED
    BY <2>1, <2>2
<1>. DEFINE S == {q \in Pos : <<h[1], q>> \in rows}
<1>3. S \in SUBSET Pos /\ h[2] \in S
  BY <1>1, <1>2, ChangeTypes
<1>4. PICK m \in S : \A x \in S : x <= m
  BY <1>3, HighestExists
<1>5. <<h[1], m>> \in rows /\ h[2] <= m
  BY <1>3, <1>4
<1>6. ASSUME NEW s \in rows, s[1] = h[1] PROVE s[2] <= m
  <2>1. s = <<h[1], s[2]>> /\ s[2] \in Pos
    BY <1>6, ChangeTypes
  <2>. QED
    BY <2>1, <1>4
<1>7. <<h[1], m>> \in NewestPerEntity(rows)
  BY <1>5, <1>6 DEF NewestPerEntity
<1>. QED
  BY <1>5, <1>7

\* What CompleteAboveHorizon says of one change, for a cache and the entries
\* still to come.
Covered(c, entries, h) ==
  Known(c, h[1], h[2]) \/ \E s \in entries : s[1] = h[1] /\ h[2] <= s[2]

\* Inv without its restatement of the lemmas' predicates.
Shape ==
  /\ Sound(cache) /\ Fits(cache)
  /\ history \in SUBSET Changes /\ step \in {"idle", "armed", "filling"}
  /\ fill \in [entries : SUBSET Changes, minPos : Pos]
  /\ (MaxSize > 0 /\ ~cache.disarmed) => \A h \in history : Covered(cache, fill.entries, h)
  /\ PrefillPrepared

\* A cache either records what it is told or is deaf.
LEMMA ArmedOrDeaf ==
  ASSUME Shape
  PROVE  (MaxSize <= 0 \/ cache.disarmed = TRUE) \/ (MaxSize > 0 /\ cache.disarmed = FALSE)
<1>1. cache.disarmed = TRUE \/ cache.disarmed = FALSE
  BY DEF Shape, Sound, Caches
<1>2. MaxSize <= 0 \/ MaxSize > 0
  BY MaxSizeAssumption
<1>. QED
  BY <1>1, <1>2

\* A row keeps every claim: the cache records it, or is deaf.
LEMMA ChangeKeeps ==
  ASSUME Shape, NEW r \in Changes, Change(r[1], r[2])
  PROVE  Shape'
<1>1. r[1] \in Entities /\ r[2] \in Pos /\ r = <<r[1], r[2]>>
  BY ChangeTypes
<1>2. /\ history' = history \cup {r} /\ step' = step /\ fill' = fill /\ step = "idle"
      /\ cache' = EntityHasChanged(cache, r[1], r[2])
  BY <1>1 DEF Change
<1>3. PrefillPrepared'
  BY <1>2 DEF Shape, PrefillPrepared
<1>4. CASE MaxSize <= 0 \/ cache.disarmed = TRUE
  <2>1. cache' = cache
    BY <1>2, <1>4, DeafIgnores
  <2>2. ~(MaxSize > 0 /\ ~cache.disarmed)
    BY <1>4, MaxSizeAssumption
  <2>. QED
    BY <1>2, <1>3, <2>1, <2>2 DEF Shape, Fits, Sound, Agree, Above, positions
<1>5. CASE MaxSize > 0 /\ cache.disarmed = FALSE
  <2>1. /\ Sound(cache') /\ Fits(cache') /\ Known(cache', r[1], r[2])
        /\ \A f \in Entities, q \in Pos : Known(cache, f, q) => Known(cache', f, q)
    BY <1>1, <1>2, <1>5, ArmedRecords DEF Shape
  <2>2. ASSUME NEW h \in history' PROVE Covered(cache', fill'.entries, h)
    <3>1. CASE h = r
      BY <2>1, <3>1 DEF Covered
    <3>2. CASE h \in history
      <4>1. h[1] \in Entities /\ h[2] \in Pos
        BY <3>2, ChangeTypes DEF Shape
      <4>2. fill.entries = {} /\ Covered(cache, fill.entries, h)
        BY <1>2, <1>5, <3>2 DEF Shape, PrefillPrepared, NoFill
      <4>. QED
        BY <2>1, <4>1, <4>2 DEF Covered
    <3>. QED
      BY <1>2, <3>1, <3>2
  <2>. QED
    BY <1>2, <1>3, <2>1, <2>2 DEF Shape, Covered, Sound, Fits, positions
<1>. QED
  BY <1>4, <1>5, ArmedOrDeaf

\* An empty cache whose horizon is at or above every change claims nothing.
LEMMA EmptyCovers ==
  ASSUME NEW c \in Caches, NEW H \in SUBSET Changes, NEW entries, NEW pos \in Pos,
         c.earliest >= pos, \A h \in H : h[2] <= pos
  PROVE  \A h \in H : Covered(c, entries, h)
<1>. TAKE h \in H
<1>1. h[2] \in Nat /\ c.earliest \in Nat /\ pos \in Nat /\ h[2] <= pos
  BY ChangeTypes, MaxPosAssumption DEF Caches, Pos
<1>. QED
  BY <1>1 DEF Covered, Known

\* A jump forgets the record and raises the horizon over what was never seen.
LEMMA JumpKeeps ==
  ASSUME Shape, NEW pos \in Pos, NEW unseen \in SUBSET Changes, Jump(pos, unseen)
  PROVE  Shape'
<1>1. /\ step = "idle" /\ step' = step /\ fill' = fill
      /\ history' = history \cup unseen /\ history' \in SUBSET Changes
      /\ \A h \in history' : h[2] <= pos
      /\ cache' = resetLocked(cache, pos) /\ cache \in Caches
  BY DEF Jump, AllEntitiesChanged, Shape, Sound
<1>2. /\ Sound(cache') /\ positions(cache') = {} /\ cache'.earliest >= pos
      /\ cache' \in Caches
  BY <1>1, ResetLocked DEF Sound
<1>3. Fits(cache')
  BY <1>2, EmptyFits
<1>4. \A h \in history' : Covered(cache', fill'.entries, h)
  BY <1>1, <1>2, EmptyCovers
<1>5. PrefillPrepared'
  BY <1>1 DEF Shape, PrefillPrepared
<1>. QED
  BY <1>1, <1>2, <1>3, <1>4, <1>5 DEF Shape, Sound, Fits, Covered, positions

\* A drop disarms: a deaf cache claims nothing.
LEMMA DropKeeps ==
  ASSUME Shape, Drop
  PROVE  Shape'
<1>1. /\ step = "idle" /\ step' = step /\ fill' = fill /\ history' = history
      /\ cache' = Disarm(cache) /\ cache \in Caches
  BY DEF Drop, Shape, Sound
<1>2. Sound(cache') /\ positions(cache') = {} /\ cache'.disarmed = TRUE
  BY <1>1, DisarmResets
<1>3. Fits(cache')
  BY <1>2, EmptyFits
<1>4. PrefillPrepared'
  BY <1>1 DEF Shape, PrefillPrepared
<1>. QED
  BY <1>1, <1>2, <1>3, <1>4 DEF Shape, Sound, Fits, positions

\* Arming empty claims only what is above every change so far.
LEMMA ArmEmptyKeeps ==
  ASSUME Shape, NEW pos \in Pos, ArmEmpty(pos)
  PROVE  Shape'
<1>1. /\ step = "idle" /\ step' = step /\ fill' = fill
      /\ history' = history /\ history \in SUBSET Changes
      /\ \A h \in history' : h[2] <= pos
      /\ cache' = Arm(cache, pos) /\ cache \in Caches
  BY DEF ArmEmpty, Shape, Sound
<1>2. /\ Sound(cache') /\ positions(cache') = {} /\ cache'.earliest >= pos
      /\ cache' \in Caches
  BY <1>1, ArmResets DEF Sound
<1>3. Fits(cache')
  BY <1>2, EmptyFits
<1>4. \A h \in history' : Covered(cache', fill'.entries, h)
  BY <1>1, <1>2, EmptyCovers
<1>5. PrefillPrepared'
  BY <1>1 DEF Shape, PrefillPrepared
<1>. QED
  BY <1>1, <1>2, <1>3, <1>4, <1>5 DEF Shape, Sound, Fits, Covered, positions

\* Arming for a prefill claims what the entries to come will cover.
LEMMA ScanAndArmKeeps ==
  ASSUME Shape, NEW rows \in SUBSET history, NEW minPos \in Pos, ScanAndArm(rows, minPos)
  PROVE  Shape'
<1>1. /\ step' = "armed" /\ history' = history /\ history \in SUBSET Changes
      /\ fill' = [entries |-> NewestPerEntity(rows), minPos |-> minPos]
      /\ NewestRows(rows) /\ TrustedFrom(rows, minPos)
      /\ cache' = Arm(cache, minPos) /\ cache \in Caches
  BY DEF ScanAndArm, Shape, Sound
<1>2. /\ Sound(cache') /\ positions(cache') = {} /\ cache'.earliest >= minPos
      /\ cache' \in Caches /\ cache'.disarmed = FALSE
  BY <1>1, ArmResets DEF Sound
<1>3. Fits(cache')
  BY <1>2, EmptyFits
<1>4. fill'.entries = NewestPerEntity(rows) /\ fill'.minPos = minPos
  BY <1>1
<1>5. fill' \in [entries : SUBSET Changes, minPos : Pos]
  BY <1>1 DEF NewestPerEntity
<1>6. ASSUME NEW h \in history' PROVE Covered(cache', fill'.entries, h)
  <2>1. h[2] \in Nat /\ cache'.earliest \in Nat /\ minPos \in Nat
    BY <1>1, <1>2, ChangeTypes, MaxPosAssumption DEF Caches, Pos
  <2>2. CASE h[2] <= minPos
    BY <1>2, <2>1, <2>2 DEF Covered, Known
  <2>3. CASE h[2] > minPos
    BY <1>1, <1>4, <2>3, ScanCovers DEF Covered
  <2>. QED
    BY <2>1, <2>2, <2>3
<1>7. PrefillPrepared'
  BY <1>1, <1>2, <1>4, MaxPosAssumption DEF PrefillPrepared, Caches, Pos, positions
<1>. QED
  BY <1>1, <1>2, <1>3, <1>5, <1>6, <1>7 DEF Shape, Sound, Fits, Covered, positions

\* Prefill's horizon is the one Arm set: entering it changes nothing.
LEMMA StartPrefillKeeps ==
  ASSUME Shape, StartPrefill
  PROVE  Shape' /\ cache' = cache
<1>1. /\ step = "armed" /\ step' = "filling" /\ history' = history /\ fill' = fill
      /\ cache' = PrefillHorizon(cache, fill.minPos) /\ cache \in Caches
      /\ cache.disarmed = FALSE /\ fill.minPos <= cache.earliest
      /\ fill.minPos \in Nat /\ cache.earliest \in Nat
  BY MaxPosAssumption DEF StartPrefill, Shape, Sound, PrefillPrepared, Caches, Pos
<1>2. cache' = cache
  BY <1>1 DEF PrefillHorizon, Caches
<1>3. PrefillPrepared'
  BY <1>1, <1>2 DEF PrefillPrepared
<1>. QED
  BY <1>1, <1>2, <1>3 DEF Shape, Sound, Agree, Above, Fits, Covered, Known, positions

\* Visiting an entry records what the entry promised.
LEMMA PrefillEntryKeeps ==
  ASSUME Shape, NEW r \in fill.entries, PrefillEntry(r)
  PROVE  Shape'
<1>1. r[1] \in Entities /\ r[2] \in Pos /\ r \in Changes
  BY ChangeTypes DEF Shape
<1>2. /\ step = "filling" /\ step' = step /\ history' = history
      /\ cache' = EntityHasChanged(cache, r[1], r[2])
      /\ cache.disarmed = FALSE
      /\ fill' \in [entries : SUBSET Changes, minPos : Pos]
      /\ fill'.entries = fill.entries \ {r} /\ fill'.minPos = fill.minPos
  BY DEF PrefillEntry, Shape, PrefillPrepared, Sound, Caches
<1>3. CASE MaxSize <= 0
  <2>1. cache' = cache
    BY <1>2, <1>3, DeafIgnores
  <2>2. ~(MaxSize > 0 /\ ~cache.disarmed)
    BY <1>3, MaxSizeAssumption
  <2>3. PrefillPrepared'
    BY <1>2, <2>1 DEF Shape, PrefillPrepared
  <2>. QED
    BY <1>2, <2>1, <2>2, <2>3 DEF Shape, Fits, Sound, Agree, Above, positions
<1>4. CASE MaxSize > 0
  <2>1. /\ Sound(cache') /\ Fits(cache') /\ Known(cache', r[1], r[2])
        /\ cache'.earliest >= cache.earliest /\ cache'.disarmed = FALSE
        /\ \A f \in Entities, q \in Pos : Known(cache, f, q) => Known(cache', f, q)
    BY <1>1, <1>2, <1>4, ArmedRecords DEF Shape
  <2>2. cache' \in Caches
    BY <2>1 DEF Sound
  <2>3. ASSUME NEW h \in history' PROVE Covered(cache', fill'.entries, h)
    <3>1. h[1] \in Entities /\ h[2] \in Pos
      BY <1>2, ChangeTypes DEF Shape
    <3>2. Covered(cache, fill.entries, h)
      BY <1>2, <1>4 DEF Shape
    <3>3. CASE Known(cache, h[1], h[2])
      BY <2>1, <3>1, <3>3 DEF Covered
    <3>4. CASE \E s \in fill.entries : s[1] = h[1] /\ h[2] <= s[2]
      <4>1. PICK s \in fill.entries : s[1] = h[1] /\ h[2] <= s[2]
        BY <3>4
      <4>2. CASE s = r
        <5>1. Known(cache', h[1], h[2])
          BY <1>1, <2>1, <2>2, <3>1, <4>1, <4>2, KnownBelow
        <5>. QED
          BY <5>1 DEF Covered
      <4>3. CASE s # r
        BY <1>2, <4>1, <4>3 DEF Covered
      <4>. QED
        BY <4>2, <4>3
    <3>. QED
      BY <3>2, <3>3, <3>4 DEF Covered
  <2>4. fill'.minPos <= cache'.earliest
    BY <1>2, <2>1, <2>2, MaxPosAssumption DEF Shape, PrefillPrepared, Sound, Caches, Pos
  <2>5. PrefillPrepared'
    BY <1>2, <2>1, <2>4 DEF PrefillPrepared
  <2>. QED
    BY <1>2, <2>1, <2>3, <2>5 DEF Shape, Covered, Sound, Fits, positions
<1>. QED
  BY <1>3, <1>4, MaxSizeAssumption

\* With no entry left, nothing rests on a promise.
LEMMA EndPrefillKeeps ==
  ASSUME Shape, EndPrefill
  PROVE  Shape'
<1>1. /\ step' = "idle" /\ fill' = NoFill /\ cache' = cache /\ history' = history
      /\ fill.entries = {} /\ NoFill.entries = {}
  BY DEF EndPrefill, NoFill
<1>2. fill' \in [entries : SUBSET Changes, minPos : Pos]
  BY <1>1, ZeroIsPos DEF NoFill
<1>3. PrefillPrepared'
  BY <1>1 DEF PrefillPrepared
<1>. QED
  BY <1>1, <1>2, <1>3 DEF Shape, Sound, Agree, Above, Fits, Covered, Known, positions

\* Nothing happens.
LEMMA StutterKeeps ==
  ASSUME Shape, UNCHANGED vars
  PROVE  Shape'
BY DEF Shape, vars, Sound, Agree, Above, Fits, Covered, Known, positions, PrefillPrepared

---------------------------------------------------------------------------
(* The invariant and what it says to a request.                            *)

\* Shape is Inv in the terms of the lemmas.
LEMMA ShapeIsInv == Shape <=> Inv
<1>1. (Sound(cache) /\ Fits(cache)) <=>
      (cache \in Caches /\ IndexesAgree /\ RecordedAboveHorizon /\ Bounded)
  BY DEF Sound, Agree, Above, Fits, IndexesAgree, RecordedAboveHorizon, Bounded
<1>2. ((MaxSize > 0 /\ ~cache.disarmed) => \A h \in history : Covered(cache, fill.entries, h))
      <=> CompleteAboveHorizon
  BY DEF Covered, Known, CompleteAboveHorizon
<1>. QED
  BY <1>1, <1>2 DEF Shape, Inv, TypeOK

\* The initial cache is empty, disarmed and well-formed.
LEMMA InitShape == Init => Shape
<1>. SUFFICES ASSUME Init PROVE Shape
  OBVIOUS
<1>1. Sound(cache) /\ positions(cache) = {} /\ cache.disarmed = TRUE
  BY NewSound, ZeroIsPos DEF Init
<1>2. Fits(cache)
  BY <1>1, EmptyFits
<1>3. fill \in [entries : SUBSET Changes, minPos : Pos]
  BY ZeroIsPos DEF Init, NoFill
<1>. QED
  BY <1>1, <1>2, <1>3 DEF Init, Shape, PrefillPrepared

\* Every step keeps it.
LEMMA NextShape == Shape /\ [Next]_vars => Shape'
<1>. SUFFICES ASSUME Shape, [Next]_vars PROVE Shape'
  OBVIOUS
<1>1. CASE \E r \in Changes : Change(r[1], r[2])
  BY <1>1, ChangeKeeps
<1>2. CASE \E pos \in Pos, unseen \in SUBSET Changes : Jump(pos, unseen)
  BY <1>2, JumpKeeps
<1>3. CASE Drop
  BY <1>3, DropKeeps
<1>4. CASE \E pos \in Pos : ArmEmpty(pos)
  BY <1>4, ArmEmptyKeeps
<1>5. CASE \E rows \in SUBSET history, minPos \in Pos : ScanAndArm(rows, minPos)
  BY <1>5, ScanAndArmKeeps
<1>6. CASE StartPrefill
  BY <1>6, StartPrefillKeeps
<1>7. CASE \E r \in fill.entries : PrefillEntry(r)
  BY <1>7, PrefillEntryKeeps
<1>8. CASE EndPrefill
  BY <1>8, EndPrefillKeeps
<1>9. CASE UNCHANGED vars
  BY <1>9, StutterKeeps
<1>. QED
  BY <1>1, <1>2, <1>3, <1>4, <1>5, <1>6, <1>7, <1>8, <1>9 DEF Next

\* The inductive invariant holds in every reachable state: above its horizon the
\* cache is complete, its two indexes agree, it is within its bound.
THEOREM Invariance == Spec => []Inv
<1>1. Init => Shape
  BY InitShape
<1>2. Shape /\ [Next]_vars => Shape'
  BY NextShape
<1>3. Shape => Inv
  BY ShapeIsInv
<1>. QED
  BY <1>1, <1>2, <1>3, PTL DEF Spec

\* Type correctness.
THEOREM TypeCorrect == Spec => []TypeOK
<1>1. Inv => TypeOK
  BY DEF Inv
<1>. QED
  BY <1>1, Invariance, PTL

\* The cache never holds more positions than configured (evictLocked).
THEOREM StaysBounded == Spec => []Bounded
<1>1. Inv => Bounded
  BY DEF Inv
<1>. QED
  BY <1>1, Invariance, PTL

\* What an armed, idle cache holds about a change above its horizon.
LEMMA IdleComplete ==
  ASSUME Inv, step = "idle", MaxSize > 0, ~cache.disarmed,
         NEW h \in history, h[2] > cache.earliest
  PROVE  cache.entityPos[h[1]] >= h[2]
<1>1. fill.entries = {}
  BY DEF Inv, PrefillPrepared, NoFill
<1>. QED
  BY <1>1 DEF Inv, CompleteAboveHorizon

\* The types a question is answered from.
LEMMA QuestionTypes ==
  ASSUME Inv, NEW h \in history, NEW pos \in Pos
  PROVE  /\ h[1] \in Entities /\ h[2] \in Nat /\ pos \in Nat /\ cache.earliest \in Nat
         /\ cache.entityPos[h[1]] \in Nat /\ cache.entityPos[h[1]] \in Pos
<1>1. cache \in Caches /\ h \in Changes
  BY DEF Inv, TypeOK
<1>. QED
  BY <1>1, ChangeTypes, MaxPosAssumption DEF Caches, Pos

\* HasEntityChanged is never wrong about an entity that changed.
THEOREM NeverAFalseNegative == Spec => []NoFalseNegative
<1>1. Inv => NoFalseNegative
  <2>. SUFFICES ASSUME Inv, step = "idle", NEW h \in history, NEW pos \in Pos, pos < h[2],
                       MaxSize > 0, ~cache.disarmed, ~(pos < cache.earliest)
                PROVE  pos < cache.entityPos[h[1]]
    BY MaxSizeAssumption DEF NoFalseNegative, HasEntityChanged
  <2>1. h[2] > cache.earliest
    BY QuestionTypes
  <2>2. cache.entityPos[h[1]] >= h[2]
    BY <2>1, IdleComplete
  <2>. QED
    BY <2>2, QuestionTypes
<1>. QED
  BY <1>1, Invariance, PTL

\* EntitiesChanged leaves no changed entity out, between Arm and Prefill included.
THEOREM EntitiesNeverMissed == Spec => []EntitiesChangedComplete
<1>1. Inv => EntitiesChangedComplete
  <2>. SUFFICES ASSUME Inv, step # "filling", NEW h \in history, NEW pos \in Pos, pos < h[2]
                PROVE  h[1] \in EntitiesChanged(cache, pos)
    BY DEF EntitiesChangedComplete
  <2>1. CASE MaxSize <= 0 \/ cache.disarmed \/ pos < cache.earliest \/ positions(cache) = {}
    BY <2>1, QuestionTypes DEF EntitiesChanged
  <2>2. CASE ~(MaxSize <= 0 \/ cache.disarmed \/ pos < cache.earliest \/ positions(cache) = {})
    <3>1. step = "idle"
      BY <2>2 DEF Inv, PrefillPrepared, TypeOK
    <3>2. MaxSize > 0 /\ ~cache.disarmed /\ h[2] > cache.earliest
      BY <2>2, QuestionTypes, MaxSizeAssumption
    <3>3. cache.entityPos[h[1]] >= h[2]
      BY <3>1, <3>2, IdleComplete
    <3>4. cache.entityPos[h[1]] > pos /\ h[1] \in Entities
      BY <3>3, QuestionTypes
    <3>. QED
      BY <2>2, <3>4 DEF EntitiesChanged
  <2>. QED
    BY <2>1, <2>2
<1>. QED
  BY <1>1, Invariance, PTL

\* HasAnyEntityChanged never says "nothing" of a stream that moved. This is where
\* the two indexes have to agree: it reads one, the record is kept in the other.
THEOREM SomeChangeNeverMissed == Spec => []AnyChangeSeen
<1>1. Inv => AnyChangeSeen
  <2>. SUFFICES ASSUME Inv, step = "idle", NEW h \in history, NEW pos \in Pos, pos < h[2],
                       MaxSize > 0, ~cache.disarmed, ~(pos < cache.earliest)
                PROVE  \E p \in positions(cache) : pos < p
    BY MaxSizeAssumption DEF AnyChangeSeen, HasAnyEntityChanged
  <2>. DEFINE p == cache.entityPos[h[1]]
  <2>1. h[2] > cache.earliest
    BY QuestionTypes
  <2>2. p >= h[2]
    BY <2>1, IdleComplete
  <2>3. p \in Pos /\ p > 0 /\ pos < p /\ h[1] \in Entities
    BY <2>2, QuestionTypes
  <2>4. h[1] \in cache.byPos[p]
    BY <2>3 DEF Inv, IndexesAgree
  <2>. QED
    BY <2>3, <2>4 DEF positions
<1>. QED
  BY <1>1, Invariance, PTL

\* What MaxPosOfLastChange returns bounds every change of the entity: what is
\* recorded is above the horizon, and what is not recorded is below it.
THEOREM LastChangeBounded == Spec => []LastChangeIsUpperBound
<1>1. Inv => LastChangeIsUpperBound
  <2>. SUFFICES ASSUME Inv, NEW h \in history, step = "idle",
                       MaxPosOfLastChange(cache, h[1]) # 0
                PROVE  h[2] <= MaxPosOfLastChange(cache, h[1])
    BY DEF LastChangeIsUpperBound
  <2>1. MaxSize > 0 /\ ~cache.disarmed
    BY MaxSizeAssumption DEF MaxPosOfLastChange
  <2>2. MaxPosOfLastChange(cache, h[1]) = cache.entityPos[h[1]]
    BY <2>1, MaxSizeAssumption DEF MaxPosOfLastChange
  <2>3. h[1] \in Entities /\ h[2] \in Nat /\ cache.earliest \in Nat /\ cache.entityPos[h[1]] \in Nat
    BY QuestionTypes, ZeroIsPos
  <2>4. cache.earliest < cache.entityPos[h[1]]
    BY <2>2, <2>3 DEF Inv, RecordedAboveHorizon
  <2>5. CASE h[2] > cache.earliest
    BY <2>1, <2>2, <2>5, IdleComplete, <2>3
  <2>6. CASE h[2] <= cache.earliest
    BY <2>2, <2>3, <2>4, <2>6
  <2>. QED
    BY <2>3, <2>5, <2>6
<1>. QED
  BY <1>1, Invariance, PTL

\* No step of any caller lowers the horizon.
THEOREM HorizonMonotone == Spec => HorizonNeverFalls
<1>1. Inv /\ [Next]_vars => [cache'.earliest >= cache.earliest]_vars
  <2>. SUFFICES ASSUME Shape, [Next]_vars PROVE cache'.earliest >= cache.earliest
    BY ShapeIsInv
  <2>1. cache \in Caches /\ Sound(cache) /\ cache.earliest \in Nat
    BY MaxPosAssumption DEF Shape, Sound, Caches, Pos
  <2>2. ASSUME NEW e \in Entities, NEW p \in Pos, cache' = EntityHasChanged(cache, e, p)
        PROVE  cache'.earliest >= cache.earliest
    <3>1. CASE MaxSize <= 0 \/ cache.disarmed = TRUE
      <4>1. cache' = cache
        BY <2>2, <3>1, DeafIgnores
      <4>. QED
        BY <2>1, <4>1
    <3>2. CASE MaxSize > 0 /\ cache.disarmed = FALSE
      BY <2>1, <2>2, <3>2, ArmedRecords
    <3>. QED
      BY <3>1, <3>2, ArmedOrDeaf
  <2>3. CASE \E r \in Changes : Change(r[1], r[2])
    BY <2>2, <2>3, ChangeTypes DEF Change
  <2>4. CASE \E pos \in Pos, unseen \in SUBSET Changes : Jump(pos, unseen)
    BY <2>1, <2>4, ResetLocked DEF Jump, AllEntitiesChanged
  <2>5. CASE Drop
    BY <2>1, <2>5, DisarmResets DEF Drop
  <2>6. CASE \E pos \in Pos : ArmEmpty(pos)
    BY <2>1, <2>6, ArmResets DEF ArmEmpty
  <2>7. CASE \E rows \in SUBSET history, minPos \in Pos : ScanAndArm(rows, minPos)
    BY <2>1, <2>7, ArmResets DEF ScanAndArm
  <2>8. CASE StartPrefill
    BY <2>1, <2>8, StartPrefillKeeps
  <2>9. CASE \E r \in fill.entries : PrefillEntry(r)
    <3>1. PICK r \in fill.entries : PrefillEntry(r)
      BY <2>9
    <3>2. r[1] \in Entities /\ r[2] \in Pos
      BY ChangeTypes DEF Shape
    <3>. QED
      BY <2>2, <3>1, <3>2 DEF PrefillEntry
  <2>10. CASE EndPrefill \/ UNCHANGED vars
    BY <2>1, <2>10 DEF EndPrefill, vars
  <2>. QED
    BY <2>3, <2>4, <2>5, <2>6, <2>7, <2>8, <2>9, <2>10 DEF Next
<1>. QED
  BY <1>1, Invariance, PTL DEF Spec, HorizonNeverFalls
=============================================================================
