----------------------------- MODULE OrderLemmas -----------------------------
(***************************************************************************)
(* Facts about sets of stream positions that the proofs share: the lowest  *)
(* and the highest of them, the first ones that a query with a LIMIT       *)
(* returns, and the order they are returned in.                            *)
(***************************************************************************)
EXTENDS Integers, FiniteSetsExt, TLAPS, FiniteSetTheorems, FunctionTheorems, WellFoundedInduction

---------------------------------------------------------------------------
(* The lowest and the highest.                                             *)

\* A nonempty set of positions has a lowest member: the position evictLocked
\* drops exists, and so does the first row of an ORDER BY.
LEMMA LowestExists ==
  ASSUME NEW S \in SUBSET Nat, S # {}
  PROVE  \E m \in S : \A x \in S : m <= x
<1>1. \E m \in S : \A x \in S : <<x, m>> \notin OpToRel(<, Nat)
  BY NatLessThanWellFounded, WFMin, Zenon
<1>2. ASSUME NEW m \in S, NEW x \in S, <<x, m>> \notin OpToRel(<, Nat)
      PROVE  m <= x
  <2>1. <<x, m>> \in Nat \X Nat
    OBVIOUS
  <2>2. ~(x < m)
    BY <2>1, <1>2 DEF OpToRel
  <2>. QED
    BY <2>2
<1>. QED
  BY <1>1, <1>2

\* Min returns the lowest member (the oldest transaction that is still open).
LEMMA MinIsLowest ==
  ASSUME NEW S \in SUBSET Nat, S # {}
  PROVE  Min(S) \in S /\ \A x \in S : Min(S) <= x
BY LowestExists DEF Min

\* A nonempty bounded set of positions has a highest member, and Max returns it
\* (MAX(stream_id), the last row of a page, a user's last membership event).
LEMMA MaxIsHighest ==
  ASSUME NEW N \in Nat, NEW S \in SUBSET (0 .. N), S # {}
  PROVE  /\ Max(S) \in S
         /\ \A x \in S : x <= Max(S)
<1>. DEFINE T == {n \in Nat : \A x \in S : x <= n}
<1>1. N \in T
  OBVIOUS
<1>2. PICK m \in T : \A y \in T : m <= y
  BY <1>1, LowestExists
<1>3. m \in S
  <2>1. SUFFICES ASSUME m \notin S PROVE FALSE
    OBVIOUS
  <2>2. \A x \in S : x \in Nat /\ x < m
    BY <1>2, <2>1
  <2>3. m - 1 \in T
    <3>1. PICK x \in S : TRUE
      OBVIOUS
    <3>2. m - 1 \in Nat
      BY <2>2, <3>1, <1>2
    <3>. QED
      BY <2>2, <3>2, <1>2
  <2>. QED
    BY <2>3, <1>2
<1>4. \E x \in S : \A y \in S : x >= y
  BY <1>3, <1>2
<1>5. /\ Max(S) \in S
      /\ \A y \in S : Max(S) >= y
  BY <1>4 DEF Max
<1>. QED
  BY <1>5

\* A set of positions is finite.
LEMMA IdsFinite ==
  ASSUME NEW N \in Nat, NEW S \in SUBSET (0 .. N)
  PROVE  IsFiniteSet(S) /\ Cardinality(S) \in Nat
<1>1. IsFiniteSet(0 .. N)
  BY FS_Interval
<1>. QED
  BY <1>1, FS_Subset, FS_CardinalityType

\* ORDER BY ... LIMIT L: the L oldest members of a window are all of it when they
\* are not L, and otherwise all of it up to the newest of them; either way they
\* have a gap nowhere (MessagesForDevice, RoomEventsForward).
LEMMA OldestAreAPrefix ==
  ASSUME NEW N \in Nat, NEW W \in SUBSET (0 .. N), NEW L \in Nat \ {0},
         NEW P \in SUBSET W,
         \A m \in W : m \in P <=> Cardinality({o \in W : o <= m}) <= L
  PROVE  /\ IF Cardinality(P) = L
            THEN P # {} /\ P = {m \in W : m <= Max(P)}
            ELSE P = W
         /\ \A m \in P, o \in W : o <= m => o \in P
<1>. DEFINE Below(m) == {o \in W : o <= m}
<1>0. \A m \in W : m \in Nat
  OBVIOUS
<1>1. \A m \in W : m \in Nat /\ (m \in P <=> Cardinality(Below(m)) <= L)
  OBVIOUS
<1>2. IsFiniteSet(W) /\ IsFiniteSet(P) /\ Cardinality(P) \in Nat
  <2>1. P \in SUBSET (0 .. N)
    OBVIOUS
  <2>. QED
    BY <2>1, IdsFinite
<1>3. ASSUME NEW m \in W
      PROVE  Below(m) \in SUBSET W /\ IsFiniteSet(Below(m)) /\ Cardinality(Below(m)) \in Nat
  <2>1. Below(m) \in SUBSET W /\ Below(m) \in SUBSET (0 .. N)
    OBVIOUS
  <2>. QED
    BY <2>1, IdsFinite
<1>4. ASSUME NEW m \in P, NEW o \in W, o <= m
      PROVE  o \in P
  <2>1. \A x \in W : x <= o => x <= m
    BY <1>4, <1>0
  <2>2. Below(o) \in SUBSET Below(m)
    BY <2>1
  <2>3. Cardinality(Below(o)) <= Cardinality(Below(m))
    BY <2>2, <1>3, FS_Subset
  <2>. QED
    BY <2>3, <1>3, <1>1
<1>. HIDE DEF Below
<1>5. CASE Cardinality(P) = L
  <2>1. P # {}
    BY <1>5, FS_EmptySet
  <2>2. Max(P) \in P /\ \A x \in P : x <= Max(P)
    BY <2>1, <1>1, MaxIsHighest
  <2>. QED
    BY <1>5, <2>1, <2>2, <1>4, <1>1
<1>6. CASE Cardinality(P) # L /\ P # W
  <2>. DEFINE T == W \ P
  <2>1. T \in SUBSET Nat /\ T # {}
    BY <1>6, <1>1
  <2>2. PICK m \in T : \A y \in T : m <= y
    BY <2>1, LowestExists
  <2>3. P = Below(m) \ {m} /\ m \in Below(m)
    <3>1. \A x \in W : x \in P <=> x <= m /\ x # m
      BY <2>2, <1>0, <1>4
    <3>2. \A x : x \in Below(m) <=> x \in W /\ x <= m
      BY DEF Below
    <3>3. m \in W /\ m <= m
      BY <1>0
    <3>4. \A x : x \in P => x \in W
      OBVIOUS
    <3>. HIDE DEF T
    <3>. QED
      BY <3>1, <3>2, <3>3, <3>4
  <2>4. Cardinality(P) = Cardinality(Below(m)) - 1
    <3>. DEFINE B == Below(m)
    <3>1. IsFiniteSet(B) /\ m \in B /\ P = B \ {m}
      BY <2>2, <2>3, <1>3
    <3>. HIDE DEF B
    <3>2. Cardinality(B \ {m}) = Cardinality(B) - 1
      BY <3>1, FS_RemoveElement
    <3>. QED
      BY <3>1, <3>2 DEF B
  <2>5. Cardinality(P) >= L
    BY <2>4, <2>2, <1>1, <1>3
  <2>6. P # {}
    BY <2>5, FS_EmptySet
  <2>7. Max(P) \in P /\ \A x \in P : x <= Max(P)
    BY <2>6, <1>1, MaxIsHighest
  <2>8. P = Below(Max(P))
    BY <2>7, <1>4, <1>1 DEF Below
  <2>9. Cardinality(P) <= L
    BY <2>7, <2>8, <1>1
  <2>. QED
    BY <2>5, <2>9, <1>6, <1>2
<1>. QED
  BY <1>4, <1>5, <1>6

\* A sequence that is increasing.
Increasing(s) == \A i, j \in DOMAIN s : i < j => s[i] < s[j]

\* A set of positions can be put in order: the k-th is the one that k of them are
\* at or before.
LEMMA OrderExists ==
  ASSUME NEW N \in Nat, NEW S \in SUBSET (0 .. N)
  PROVE  \E s \in [1 .. Cardinality(S) -> S] : Increasing(s)
<1>. DEFINE Below(m) == {o \in S : o <= m}
            n == Cardinality(S)
            rank == [m \in S |-> Cardinality(Below(m))]
<1>0. \A m \in S : m \in Nat
  OBVIOUS
<1>1. IsFiniteSet(S) /\ n \in Nat
  BY IdsFinite
<1>2. ASSUME NEW m \in S
      PROVE  /\ Below(m) \in SUBSET S /\ IsFiniteSet(Below(m))
             /\ rank[m] = Cardinality(Below(m)) /\ rank[m] \in 1 .. n
  <2>1. Below(m) \in SUBSET S /\ Below(m) \in SUBSET (0 .. N)
    OBVIOUS
  <2>2. IsFiniteSet(Below(m)) /\ Cardinality(Below(m)) \in Nat
    BY <2>1, IdsFinite
  <2>3. Cardinality(Below(m)) <= n
    BY <2>1, <1>1, FS_Subset
  <2>4. m \in Below(m)
    BY <1>0
  <2>5. Cardinality(Below(m)) # 0
    BY <2>4, <2>2, FS_EmptySet
  <2>. QED
    BY <2>1, <2>2, <2>3, <2>5, <1>1
<1>3. ASSUME NEW a \in S, NEW b \in S, a < b
      PROVE  rank[a] < rank[b]
  <2>1. \A x \in S : x <= a => x <= b /\ x # b
    BY <1>3, <1>0
  <2>2. b <= b
    BY <1>0
  <2>3. Below(a) \in SUBSET Below(b) /\ b \in Below(b) /\ b \notin Below(a)
    BY <2>1, <2>2
  <2>4. /\ Cardinality(Below(a)) <= Cardinality(Below(b))
        /\ Cardinality(Below(b)) = Cardinality(Below(a)) => Below(b) = Below(a)
    BY <2>3, <1>2, FS_Subset
  <2>5. Cardinality(Below(a)) # Cardinality(Below(b))
    BY <2>3, <2>4
  <2>. QED
    BY <2>4, <2>5, <1>2, <1>1
<1>. HIDE DEF Below
<1>4. rank \in Injection(S, 1 .. n)
  <2>1. rank \in [S -> 1 .. n]
    BY <1>2
  <2>2. \A a, b \in S : rank[a] = rank[b] => a = b
    <3>. SUFFICES ASSUME NEW a \in S, NEW b \in S, a # b
                  PROVE  rank[a] # rank[b]
      OBVIOUS
    <3>1. a < b \/ b < a
      BY <1>0
    <3>2. rank[a] < rank[b] \/ rank[b] < rank[a]
      BY <3>1, <1>3
    <3>. QED
      BY <3>2, <1>2
  <2>. QED
    BY <2>1, <2>2, Fun_IsInj
<1>5. IsFiniteSet(1 .. n) /\ Cardinality(1 .. n) = n
  BY <1>1, FS_Interval
<1>6. rank \in Surjection(S, 1 .. n)
  BY <1>4, <1>5, FS_Injection
<1>. HIDE DEF rank
<1>7. \A k \in 1 .. n : \E m \in S : rank[m] = k
  BY <1>6, Fun_SurjectionProperties
<1>. DEFINE s == [k \in 1 .. n |-> CHOOSE m \in S : rank[m] = k]
<1>8. \A k \in 1 .. n : s[k] \in S /\ rank[s[k]] = k
  BY <1>7
<1>9. s \in [1 .. n -> S]
  BY <1>8
<1>10. ASSUME NEW i \in 1 .. n, NEW j \in 1 .. n, i < j
       PROVE  s[i] < s[j]
  <2>. HIDE DEF s
  <2>1. s[i] # s[j] /\ s[i] \in Nat /\ s[j] \in Nat
    <3>1. s[i] \in S /\ s[j] \in S /\ rank[s[i]] = i /\ rank[s[j]] = j
      BY <1>8
    <3>2. i # j
      BY <1>10, <1>1
    <3>. QED
      BY <3>1, <3>2, <1>0
  <2>2. SUFFICES ASSUME s[j] < s[i] PROVE FALSE
    BY <2>1
  <2>3. rank[s[j]] < rank[s[i]]
    BY <2>2, <1>8, <1>3
  <2>. QED
    BY <2>3, <1>8, <1>10
<1>. QED
  <2>. HIDE DEF s
  <2>1. DOMAIN s = 1 .. n
    BY <1>9
  <2>. QED
    BY <2>1, <1>9, <1>10 DEF Increasing
=============================================================================
