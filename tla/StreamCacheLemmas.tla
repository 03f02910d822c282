------------------------- MODULE StreamCacheLemmas -------------------------
(***************************************************************************)
(* What each method of the stream-change cache returns and preserves, for  *)
(* every set of entities, every bound and every position. The theorems     *)
(* about the cache in use (StreamChangeCacheProofs) rest on these facts    *)
(* alone and never expand a method's body again.                           *)
(***************************************************************************)
EXTENDS StreamCache, OrderLemmas

\* Everything that happened to e at q is on record, or is below the horizon.
Known(c, e, q) == q > c.earliest => c.entityPos[e] >= q

\* The two indexes hold the same relation (IndexesAgree of StreamChangeCache).
Agree(c) == \A e \in Entities, p \in Pos : e \in c.byPos[p] <=> (p > 0 /\ c.entityPos[e] = p)

\* What is on record is above the horizon.
Above(c) == \A e \in Entities : c.entityPos[e] # 0 => c.earliest < c.entityPos[e]

\* The number of positions held is within the configured bound.
Fits(c) == Cardinality(positions(c)) <= IF MaxSize > 0 THEN MaxSize ELSE 0

\* A well-formed cache.
Sound(c) == c \in Caches /\ Agree(c) /\ Above(c)

---------------------------------------------------------------------------
(* Positions.                                                              *)

\* The absent entry of entityPos is a position.
LEMMA ZeroIsPos == 0 \in Pos
BY MaxPosAssumption DEF Pos

\* A nonempty set of positions has a highest member (the newest row CacheDict
\* keeps for an entity exists).
LEMMA HighestExists ==
  ASSUME NEW S \in SUBSET Pos, S # {}
  PROVE  \E m \in S : \A x \in S : x <= m
<1>1. MaxPos \in Nat /\ S \in SUBSET (0 .. MaxPos)
  BY MaxPosAssumption DEF Pos
<1>. QED
  BY <1>1, MaxIsHighest

\* The positions held are finitely many, and evictLocked's choice is the lowest.
LEMMA PositionsFinite ==
  ASSUME NEW c
  PROVE  IsFiniteSet(positions(c)) /\ Cardinality(positions(c)) \in Nat
<1>1. IsFiniteSet(Pos)
  BY FS_Interval, MaxPosAssumption DEF Pos
<1>2. positions(c) \in SUBSET Pos
  BY DEF positions
<1>. QED
  BY <1>1, <1>2, FS_Subset, FS_CardinalityType

LEMMA OldestIsLowest ==
  ASSUME NEW c, positions(c) # {}
  PROVE  /\ Oldest(c) \in positions(c)
         /\ \A p \in positions(c) : Oldest(c) <= p
<1>1. positions(c) \in SUBSET Nat
  BY MaxPosAssumption DEF positions, Pos
<1>2. \E m \in positions(c) : \A x \in positions(c) : m <= x
  BY <1>1, LowestExists
<1>. QED
  BY <1>2 DEF Oldest

---------------------------------------------------------------------------
(* The methods.                                                            *)

\* New returns a well-formed, empty, disarmed cache.
LEMMA NewSound ==
  ASSUME NEW p \in Pos
  PROVE  Sound(New(p)) /\ positions(New(p)) = {} /\ New(p).disarmed = TRUE
BY MaxPosAssumption DEF Sound, Caches, Agree, Above, New, positions, Pos

\* resetLocked empties the cache and raises the horizon, never lowers it.
LEMMA ResetLocked ==
  ASSUME NEW c \in Caches, NEW pos \in Pos
  PROVE  LET d == resetLocked(c, pos) IN
         /\ Sound(d) /\ positions(d) = {}
         /\ d.earliest >= c.earliest /\ d.earliest >= pos
         /\ d.disarmed = c.disarmed
         /\ d.entityPos = [e \in Entities |-> 0]
<1>. DEFINE d == resetLocked(c, pos)
<1>1. /\ d.byPos = [p \in Pos |-> {}] /\ d.entityPos = [e \in Entities |-> 0]
      /\ d.earliest = IF pos > c.earliest THEN pos ELSE c.earliest
      /\ d.disarmed = c.disarmed
  BY DEF resetLocked, Caches
<1>2. d.earliest \in Pos /\ d.earliest >= c.earliest /\ d.earliest >= pos
  BY <1>1, MaxPosAssumption DEF Pos, Caches
<1>3. d \in Caches
  <2>1. d.byPos \in [Pos -> SUBSET Entities] /\ d.entityPos \in [Entities -> Pos]
    BY <1>1, ZeroIsPos
  <2>. QED
    BY <1>1, <1>2, <2>1 DEF resetLocked, Caches
<1>4. Agree(d) /\ Above(d) /\ positions(d) = {}
  BY <1>1, <1>2 DEF Agree, Above, positions, Pos
<1>. QED
  BY <1>1, <1>2, <1>3, <1>4 DEF Sound

\* Arm is a reset that turns the cache on.
LEMMA ArmResets ==
  ASSUME NEW c \in Caches, NEW pos \in Pos
  PROVE  LET d == Arm(c, pos) IN
         /\ Sound(d) /\ positions(d) = {}
         /\ d.earliest >= c.earliest /\ d.earliest >= pos
         /\ d.disarmed = FALSE
         /\ d.entityPos = [e \in Entities |-> 0]
<1>. DEFINE d == Arm(c, pos)
<1>1. /\ d.byPos = [p \in Pos |-> {}] /\ d.entityPos = [e \in Entities |-> 0]
      /\ d.earliest = IF pos > c.earliest THEN pos ELSE c.earliest
      /\ d.disarmed = FALSE
  BY DEF Arm, resetLocked, Caches
<1>2. d.earliest \in Pos /\ d.earliest >= c.earliest /\ d.earliest >= pos
  BY <1>1, MaxPosAssumption DEF Pos, Caches
<1>3. d \in Caches
  <2>1. d.byPos \in [Pos -> SUBSET Entities] /\ d.entityPos \in [Entities -> Pos]
    BY <1>1, ZeroIsPos
  <2>. QED
    BY <1>1, <1>2, <2>1 DEF Arm, resetLocked, Caches
<1>4. Agree(d) /\ Above(d) /\ positions(d) = {}
  BY <1>1, <1>2 DEF Agree, Above, positions, Pos
<1>. QED
  BY <1>1, <1>2, <1>3, <1>4 DEF Sound

\* Disarm is a reset that turns it off and leaves the horizon.
LEMMA DisarmResets ==
  ASSUME NEW c \in Caches
  PROVE  LET d == Disarm(c) IN
         /\ Sound(d) /\ positions(d) = {}
         /\ d.earliest >= c.earliest
         /\ d.disarmed = TRUE
<1>. DEFINE d == Disarm(c)
<1>1. /\ d.byPos = [p \in Pos |-> {}] /\ d.entityPos = [e \in Entities |-> 0]
      /\ d.earliest = c.earliest
      /\ d.disarmed = TRUE
  BY DEF Disarm, resetLocked, Caches
<1>2. d.earliest \in Pos /\ d.earliest >= c.earliest
  BY <1>1, MaxPosAssumption DEF Pos, Caches
<1>3. d \in Caches
  <2>1. d.byPos \in [Pos -> SUBSET Entities] /\ d.entityPos \in [Entities -> Pos]
    BY <1>1, ZeroIsPos
  <2>. QED
    BY <1>1, <1>2, <2>1 DEF Disarm, resetLocked, Caches
<1>4. Agree(d) /\ Above(d) /\ positions(d) = {}
  BY <1>1, <1>2 DEF Agree, Above, positions, Pos
<1>. QED
  BY <1>1, <1>2, <1>3, <1>4 DEF Sound

\* Recording a newer change moves the entity, forgets nothing, and adds at most
\* one position.
LEMMA RecordedSound ==
  ASSUME NEW c, Sound(c), NEW e \in Entities, NEW p \in Pos,
         p > c.earliest, c.entityPos[e] < p
  PROVE  LET d == Recorded(c, e, p) IN
         /\ Sound(d)
         /\ d.earliest = c.earliest /\ d.disarmed = c.disarmed
         /\ d.entityPos[e] = p
         /\ \A f \in Entities : d.entityPos[f] >= c.entityPos[f]
         /\ positions(d) \subseteq positions(c) \cup {p}
<1>. DEFINE d == Recorded(c, e, p)
<1>1. /\ d.earliest = c.earliest /\ d.disarmed = c.disarmed
      /\ d.entityPos = [c.entityPos EXCEPT ![e] = p]
      /\ d.byPos = [q \in Pos |-> IF q = p THEN c.byPos[q] \cup {e}
                                  ELSE IF q = c.entityPos[e] THEN c.byPos[q] \ {e}
                                  ELSE c.byPos[q]]
  BY DEF Recorded, Sound, Caches
<1>2. d \in Caches
  BY DEF Recorded, Sound, Caches
<1>3. Agree(d)
  BY <1>1, MaxPosAssumption DEF Agree, Sound, Caches, Pos
<1>4. Above(d)
  BY <1>1, MaxPosAssumption DEF Above, Sound, Caches, Pos
<1>5. \A f \in Entities : d.entityPos[f] >= c.entityPos[f]
  BY <1>1, MaxPosAssumption DEF Sound, Caches, Pos
<1>6. positions(d) \subseteq positions(c) \cup {p}
  BY <1>1 DEF positions
<1>. QED
  BY <1>1, <1>2, <1>3, <1>4, <1>5, <1>6 DEF Sound, Caches

\* Dropping the lowest position raises the horizon to it: what is forgotten is
\* no longer claimed, what is claimed is not forgotten.
LEMMA DropPositionSound ==
  ASSUME NEW c, Sound(c), NEW k \in positions(c), \A p \in positions(c) : k <= p
  PROVE  LET d == DropPosition(c, k) IN
         /\ Sound(d)
         /\ d.earliest >= c.earliest /\ d.disarmed = c.disarmed
         /\ \A f \in Entities, q \in Pos : Known(c, f, q) => Known(d, f, q)
         /\ positions(d) = positions(c) \ {k}
<1>. DEFINE d == DropPosition(c, k)
<1>1. /\ d.byPos = [c.byPos EXCEPT ![k] = {}]
      /\ d.entityPos = [e \in Entities |->
            IF e \in c.byPos[k] /\ c.entityPos[e] = k THEN 0 ELSE c.entityPos[e]]
      /\ d.earliest = IF k > c.earliest THEN k ELSE c.earliest
      /\ d.disarmed = c.disarmed
  BY DEF DropPosition, Sound, Caches
<1>2. k \in Pos /\ k \in Nat /\ c.earliest \in Nat
  BY MaxPosAssumption DEF positions, Sound, Caches, Pos
<1>3. d \in Caches
  <2>1. c.byPos \in [Pos -> SUBSET Entities] /\ c.entityPos \in [Entities -> Pos]
    BY DEF Sound, Caches
  <2>2. d.byPos \in [Pos -> SUBSET Entities]
    BY <1>1, <2>1
  <2>3. d.entityPos \in [Entities -> Pos]
    BY <1>1, <2>1, ZeroIsPos
  <2>4. d.earliest \in Pos
    BY <1>1, <1>2 DEF Sound, Caches
  <2>. QED
    BY <1>1, <2>2, <2>3, <2>4 DEF DropPosition, Sound, Caches
<1>4. positions(d) = positions(c) \ {k}
  BY <1>1, <1>2 DEF positions, Sound, Caches
<1>5. Agree(d)
  BY <1>1, <1>2, MaxPosAssumption DEF Agree, Sound, Caches, Pos
<1>6. ASSUME NEW e \in Entities, d.entityPos[e] # 0 PROVE d.earliest < d.entityPos[e]
  <2>1. d.entityPos[e] = c.entityPos[e] /\ c.entityPos[e] \in Pos /\ c.entityPos[e] > 0
    BY <1>1, <1>6, MaxPosAssumption DEF Sound, Caches, Pos
  <2>2. e \in c.byPos[c.entityPos[e]]
    BY <2>1 DEF Sound, Agree
  <2>3. k <= c.entityPos[e]
    BY <2>1, <2>2 DEF positions
  <2>4. c.entityPos[e] # k
    BY <1>1, <1>6, <2>1, <2>2
  <2>5. c.earliest < c.entityPos[e]
    BY <2>1 DEF Sound, Above
  <2>. QED
    BY <1>1, <1>2, <2>1, <2>3, <2>4, <2>5 DEF Pos
<1>7. ASSUME NEW f \in Entities, NEW q \in Pos, Known(c, f, q) PROVE Known(d, f, q)
  BY <1>1, <1>2, <1>7, MaxPosAssumption DEF Known, Sound, Caches, Pos
<1>. QED
  BY <1>1, <1>2, <1>3, <1>4, <1>5, <1>6, <1>7 DEF Sound, Above, Caches, Pos

\* evictLocked keeps every claim the cache makes, and brings a cache one
\* position over its bound back within it.
LEMMA EvictLocked ==
  ASSUME NEW c, Sound(c), MaxSize > 0
  PROVE  LET d == evictLocked(c) IN
         /\ Sound(d)
         /\ d.earliest >= c.earliest /\ d.disarmed = c.disarmed
         /\ \A f \in Entities, q \in Pos : Known(c, f, q) => Known(d, f, q)
         /\ Cardinality(positions(c)) <= MaxSize + 1 => Fits(d)
<1>. DEFINE S == positions(c)
<1>1. IsFiniteSet(S) /\ Cardinality(S) \in Nat
  BY PositionsFinite
<1>2. CASE Cardinality(S) > MaxSize
  <2>1. S # {}
    BY <1>2, FS_EmptySet, MaxSizeAssumption
  <2>2. Oldest(c) \in S /\ \A p \in S : Oldest(c) <= p
    BY <2>1, OldestIsLowest
  <2>3. evictLocked(c) = DropPosition(c, Oldest(c))
    BY <1>2 DEF evictLocked
  <2>4. Cardinality(S \ {Oldest(c)}) = Cardinality(S) - 1
    BY <1>1, <2>2, FS_RemoveElement
  <2>5. positions(DropPosition(c, Oldest(c))) = S \ {Oldest(c)}
    BY <2>2, DropPositionSound
  <2>6. Cardinality(S) <= MaxSize + 1 => Fits(evictLocked(c))
    BY <1>1, <2>3, <2>4, <2>5, MaxSizeAssumption DEF Fits
  <2>. QED
    BY <2>2, <2>3, <2>6, DropPositionSound
<1>3. CASE ~(Cardinality(S) > MaxSize)
  <2>1. evictLocked(c) = c
    BY <1>3 DEF evictLocked
  <2>2. c.earliest >= c.earliest
    BY MaxPosAssumption DEF Sound, Caches, Pos
  <2>. QED
    BY <1>1, <1>3, <2>1, <2>2, MaxSizeAssumption DEF Fits
<1>. QED
  BY <1>2, <1>3

\* EntityHasChanged on an armed cache records the change, keeps every claim
\* made so far, and stays within the bound.
LEMMA ArmedRecords ==
  ASSUME NEW c, Sound(c), NEW e \in Entities, NEW p \in Pos, MaxSize > 0, c.disarmed = FALSE
  PROVE  LET d == EntityHasChanged(c, e, p) IN
         /\ Sound(d)
         /\ d.earliest >= c.earliest /\ d.disarmed = FALSE
         /\ Known(d, e, p)
         /\ \A f \in Entities, q \in Pos : Known(c, f, q) => Known(d, f, q)
         /\ Fits(c) => Fits(d)
<1>. DEFINE d == EntityHasChanged(c, e, p)
<1>0. c.earliest \in Nat /\ p \in Nat /\ c.entityPos \in [Entities -> Nat] /\ c.entityPos[e] \in Nat
  BY MaxPosAssumption DEF Sound, Caches, Pos
<1>1. CASE p <= c.earliest \/ c.entityPos[e] >= p
  <2>1. d = c
    BY <1>1, MaxSizeAssumption DEF EntityHasChanged, entityHasChangedLocked
  <2>2. Known(c, e, p)
    BY <1>0, <1>1 DEF Known
  <2>. QED
    BY <1>0, <2>1, <2>2
<1>2. CASE ~(p <= c.earliest \/ c.entityPos[e] >= p)
  <2>. DEFINE b == Recorded(c, e, p)
  <2>1. d = evictLocked(b)
    BY <1>2, MaxSizeAssumption DEF EntityHasChanged, entityHasChangedLocked
  <2>2. p > c.earliest /\ c.entityPos[e] < p
    BY <1>0, <1>2
  <2>3. /\ Sound(b) /\ b.earliest = c.earliest /\ b.disarmed = c.disarmed
        /\ b.entityPos[e] = p
        /\ \A f \in Entities : b.entityPos[f] >= c.entityPos[f]
        /\ positions(b) \subseteq positions(c) \cup {p}
    BY <2>2, RecordedSound
  <2>4. /\ Sound(d) /\ d.earliest >= b.earliest /\ d.disarmed = b.disarmed
        /\ \A f \in Entities, q \in Pos : Known(b, f, q) => Known(d, f, q)
        /\ Cardinality(positions(b)) <= MaxSize + 1 => Fits(d)
    BY <2>1, <2>3, EvictLocked
  <2>5. Known(b, e, p)
    BY <1>0, <2>3 DEF Known
  <2>6. ASSUME NEW f \in Entities, NEW q \in Pos, Known(c, f, q) PROVE Known(b, f, q)
    <3>1. b.entityPos[f] \in Nat /\ c.entityPos[f] \in Nat /\ q \in Nat
      BY <2>3, MaxPosAssumption DEF Sound, Caches, Pos
    <3>. QED
      BY <2>3, <2>6, <3>1 DEF Known
  <2>7. ASSUME Fits(c) PROVE Cardinality(positions(b)) <= MaxSize + 1
    <3>1. IsFiniteSet(positions(c)) /\ Cardinality(positions(c)) \in Nat
      BY PositionsFinite
    <3>2. /\ IsFiniteSet(positions(c) \cup {p})
          /\ Cardinality(positions(c) \cup {p}) \in Nat
          /\ Cardinality(positions(c) \cup {p}) <= Cardinality(positions(c)) + 1
      BY <3>1, FS_AddElement
    <3>3. Cardinality(positions(b)) <= Cardinality(positions(c) \cup {p})
      BY <2>3, <3>2, FS_Subset
    <3>4. Cardinality(positions(b)) \in Nat
      BY PositionsFinite
    <3>. QED
      BY <2>7, <3>1, <3>2, <3>3, <3>4, MaxSizeAssumption DEF Fits
  <2>. QED
    BY <2>3, <2>4, <2>5, <2>6, <2>7
<1>. QED
  BY <1>1, <1>2

\* A cache that is disarmed, or configured to hold nothing, ignores the change.
LEMMA DeafIgnores ==
  ASSUME NEW c, NEW e, NEW p, MaxSize <= 0 \/ c.disarmed = TRUE
  PROVE  EntityHasChanged(c, e, p) = c
BY DEF EntityHasChanged
=============================================================================
