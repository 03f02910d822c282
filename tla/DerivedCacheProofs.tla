-------------------------- MODULE DerivedCacheProofs --------------------------
(***************************************************************************)
(* For every set of keys, membership sets and requests, every bound of the *)
(* cache and every length of the log: an entry that was not filled across  *)
(* an invalidation covers this worker's own token, a cache that is down    *)
(* holds nothing, and a quiet stream does not close its guard.             *)
(***************************************************************************)
EXTENDS DerivedCache, OrderLemmas, SequenceTheorems

---------------------------------------------------------------------------
(* The inductive invariant.                                                *)

\* The index of a cache points to one element for each key, and the list is
\* within its bound.
IndexFits(c) ==
  /\ \A i, j \in DOMAIN c.order : c.order[i].key = c.order[j].key => i = j
  /\ c.order # <<>> => Len(c.order) <= MaxEntries

\* The rows of the batch that the invalidator has yet to act on, and the position
\* up to which it has acted on all.
Handling == phase \in {"row", "apply"}
Due(k) ==
  \/ phase = "row" /\ \E i \in DOMAIN batch : batch[i].key = k
  \/ phase = "apply" /\ \E i \in DOMAIN batch : i # 1 /\ batch[i].key = k
Handled == IF Handling THEN received - 1 ELSE received

PhaseFits ==
  /\ Handling => batch # <<>> /\ 0 < received
  /\ phase = "advance" => applied = received
  /\ live <=> phase \notin {"down", "dropping", "disarming"}
  /\ armed <=> phase \notin {"down", "connected", "disarming"}
  /\ position <= Handled

\* A request that may fill the cache.
Fills(q) == q.at \in {"read", "merged"} \/ (q.at \in {"lookup", "query"} /\ q.use)

\* While the connection is down the cache is empty, and nobody is about to fill it.
DownFits ==
  phase \in {"down", "connected"} =>
    cache.order = <<>> /\ (cache.disarmed \/ \A r \in Readers : ~Fills(reader[r]))

\* A value of the key is as new as the rows the invalidator has acted on.
Fresh(k, value) ==
  \/ LastChange(k, received) <= value
  \/ Due(k) /\ LastChange(k, Handled) <= value

CacheFresh ==
  \A i \in DOMAIN cache.order : \A v \in cache.order[i].value :
    v.raced \/ Fresh(cache.order[i].key, v.at)

\* With one row to a position, none counts as applied before it has been.
SingleRows == \A t \in Transactions : Len(t) = 1
SinglesFit == SingleRows => (Handling => Len(batch) = 1) /\ applied <= Handled

\* The tokens a cached answer is judged against: this worker's own, and with one
\* row to a position all of them.
Judged(q) == q.own \/ SingleRows

\* What a request holds, and the token it was asked for.
ReaderFits(q) ==
  /\ q.at # "idle" => q.horizon <= Len(log)
  /\ q.at = "lookup" /\ q.use /\ Judged(q) => q.horizon <= Handled
  /\ q.at \in {"read", "merged"} => LastChange(q.key, q.horizon) <= q.value
ReaderFresh(q) ==
  /\ q.at = "read" => q.raced \/ Fresh(q.key, q.value)
  /\ q.at = "merged" => q.raced \/ \A v \in q.bySet : v.raced \/ Fresh(q.key, v.at)
  /\ q.at = "answered" /\ Judged(q) => q.raced \/ LastChange(q.key, q.horizon) <= q.value

\* Every row names the key it changes: no "state-all" row among them, and none that
\* rowDetails could not read.
AllNamed == \A t \in Transactions : \A i \in DOMAIN t : t[i].names
BatchNamed == \A i \in DOMAIN batch : batch[i].names

Shape == TypeOK /\ IndexFits(cache) /\ PhaseFits /\ DownFits
Current ==
  /\ BatchNamed
  /\ \A r \in Readers : ReaderFits(reader[r])
  /\ lost = 0 => CacheFresh /\ \A r \in Readers : ReaderFresh(reader[r])
Inv == Shape /\ SinglesFit /\ Current

---------------------------------------------------------------------------
(* The list and its index.                                                 *)

Entries == [key : Keys, value : SUBSET Values]

\* RemoveAt leaves the other elements, in their order.
LEMMA RemoveAtLeaves ==
  ASSUME NEW S, NEW s \in Seq(S), NEW i \in 1 .. Len(s)
  PROVE  /\ RemoveAt(s, i) \in Seq(S)
         /\ Len(RemoveAt(s, i)) = Len(s) - 1
         /\ \A j \in 1 .. Len(s) - 1 : RemoveAt(s, i)[j] = s[IF j < i THEN j ELSE j + 1]
<1>. DEFINE a == SubSeq(s, 1, i - 1)
            b == SubSeq(s, i + 1, Len(s))
            n == Len(s)
<1>1. n \in Nat /\ i \in Nat /\ i - 1 \in Int /\ i + 1 \in Int /\ 1 \in Int /\ \A j \in 1 .. n : s[j] \in S
  BY LenProperties, ElementOfSeq
<1>2. a \in Seq(S) /\ Len(a) = i - 1 /\ \A j \in 1 .. i - 1 : a[j] = s[j]
  <2>1. \A j \in 1 .. i - 1 : s[j] \in S
    BY <1>1
  <2>2. /\ a \in Seq(S) /\ Len(a) = (IF 1 <= i - 1 THEN (i - 1) - 1 + 1 ELSE 0)
        /\ \A j \in 1 .. (i - 1) - 1 + 1 : a[j] = s[1 + j - 1]
    BY <1>1, <2>1, SubSeqProperties
  <2>. HIDE DEF a
  <2>3. \A j \in 1 .. i - 1 : 1 + j - 1 = j /\ j \in 1 .. (i - 1) - 1 + 1
    BY <1>1
  <2>. QED
    BY <2>2, <2>3, <1>1
<1>3. b \in Seq(S) /\ Len(b) = n - i /\ \A j \in 1 .. n - i : b[j] = s[i + j]
  <2>1. \A j \in i + 1 .. n : s[j] \in S
    BY <1>1
  <2>2. /\ b \in Seq(S) /\ Len(b) = (IF i + 1 <= n THEN n - (i + 1) + 1 ELSE 0)
        /\ \A j \in 1 .. n - (i + 1) + 1 : b[j] = s[i + 1 + j - 1]
    BY <1>1, <2>1, SubSeqProperties
  <2>. HIDE DEF b
  <2>3. \A j \in 1 .. n - i : i + 1 + j - 1 = i + j /\ j \in 1 .. n - (i + 1) + 1
    BY <1>1
  <2>. QED
    BY <2>2, <2>3, <1>1
<1>4. /\ a \o b \in Seq(S) /\ Len(a \o b) = Len(a) + Len(b)
      /\ \A j \in 1 .. Len(a) + Len(b) : (a \o b)[j] = IF j <= Len(a) THEN a[j] ELSE b[j - Len(a)]
  BY <1>2, <1>3, ConcatProperties
<1>5. RemoveAt(s, i) = a \o b
  BY DEF RemoveAt
<1>. HIDE DEF a, b, n
<1>6. ASSUME NEW j \in 1 .. n - 1
      PROVE  (a \o b)[j] = s[IF j < i THEN j ELSE j + 1]
  <2>1. CASE j < i
    BY <2>1, <1>1, <1>2, <1>3, <1>4
  <2>2. CASE ~(j < i)
    <3>1. j - (i - 1) \in 1 .. n - i /\ i + (j - (i - 1)) = j + 1 /\ ~(j <= i - 1) /\ j \in 1 .. (i - 1) + (n - i)
      BY <2>2, <1>1
    <3>2. (a \o b)[j] = b[j - (i - 1)]
      BY <3>1, <1>2, <1>3, <1>4
    <3>3. b[j - (i - 1)] = s[j + 1]
      BY <3>1, <1>3
    <3>. QED
      BY <2>2, <3>2, <3>3
  <2>. QED
    BY <2>1, <2>2
<1>7. Len(a \o b) = n - 1
  BY <1>1, <1>2, <1>3, <1>4
<1>. QED
  BY <1>4, <1>5, <1>6, <1>7 DEF n

\* The list of a cache.
LEMMA OrderTypes ==
  ASSUME NEW c \in Caches
  PROVE  /\ c.order \in Seq(Entries) /\ Len(c.order) \in Nat /\ DOMAIN c.order = 1 .. Len(c.order)
         /\ \A i \in DOMAIN c.order : c.order[i] \in Entries
         /\ c.order = <<>> <=> Len(c.order) = 0
<1>1. c.order \in Seq(Entries)
  BY DEF Caches, Entries
<1>. QED
  BY <1>1, LenProperties, ElementOfSeq, EmptySeq

\* Without the key's element no element has the key; the others stay, each once.
LEMMA WithoutLeaves ==
  ASSUME NEW c \in Caches, IndexFits(c), NEW k
  PROVE  /\ Without(c, k) \in Seq(Entries) /\ Len(Without(c, k)) \in Nat
         /\ Len(Without(c, k)) = IF Holds(c, k) THEN Len(c.order) - 1 ELSE Len(c.order)
         /\ \A i \in 1 .. Len(Without(c, k)) :
              Without(c, k)[i].key # k /\ \E m \in DOMAIN c.order : Without(c, k)[i] = c.order[m]
         /\ \A i, j \in 1 .. Len(Without(c, k)) : Without(c, k)[i].key = Without(c, k)[j].key => i = j
<1>. DEFINE s == c.order
            e == ElementOf(c, k)
            n == Len(s)
            t == Without(c, k)
<1>1. s \in Seq(Entries) /\ n \in Nat /\ DOMAIN s = 1 .. n
  BY OrderTypes
<1>2. \A i, j \in 1 .. n : s[i].key = s[j].key => i = j
  BY <1>1 DEF IndexFits
<1>3. CASE ~Holds(c, k)
  <2>1. t = s /\ \A i \in 1 .. n : s[i].key # k
    BY <1>1, <1>3 DEF Without, Holds
  <2>. QED
    BY <2>1, <1>1, <1>2, <1>3
<1>4. CASE Holds(c, k)
  <2>1. e \in 1 .. n /\ s[e].key = k
    BY <1>1, <1>4 DEF Holds, ElementOf
  <2>2. t = RemoveAt(s, e)
    BY <1>4 DEF Without
  <2>. HIDE DEF e, t, s, n
  <2>3. /\ t \in Seq(Entries) /\ Len(t) = n - 1 /\ n - 1 \in Nat
        /\ \A j \in 1 .. n - 1 : t[j] = s[IF j < e THEN j ELSE j + 1]
    <3>1. /\ RemoveAt(s, e) \in Seq(Entries) /\ Len(RemoveAt(s, e)) = Len(s) - 1
          /\ \A j \in 1 .. Len(s) - 1 : RemoveAt(s, e)[j] = s[IF j < e THEN j ELSE j + 1]
      <4>1. e \in 1 .. Len(s)
        BY <2>1 DEF n
      <4>. QED
        BY <1>1, <4>1, RemoveAtLeaves
    <3>2. n - 1 \in Nat
      BY <1>1, <2>1
    <3>. QED
      BY <2>2, <3>1, <3>2 DEF n
  <2>4. \A j \in 1 .. n - 1 : (IF j < e THEN j ELSE j + 1) \in (1 .. n) \ {e}
    BY <1>1, <2>1
  <2>5. \A i, j \in 1 .. n - 1 :
          (IF i < e THEN i ELSE i + 1) = (IF j < e THEN j ELSE j + 1) => i = j
    BY <1>1, <2>1
  <2>6. ASSUME NEW j \in 1 .. n - 1
        PROVE  t[j].key # k /\ \E m \in 1 .. n : t[j] = s[m]
    BY <2>1, <2>3, <2>4, <1>2
  <2>7. ASSUME NEW i \in 1 .. n - 1, NEW j \in 1 .. n - 1, t[i].key = t[j].key
        PROVE  i = j
    BY <2>3, <2>4, <2>5, <2>7, <1>2
  <2>. QED
    BY <1>1, <1>4, <2>3, <2>6, <2>7 DEF t, s, n
<1>. QED
  BY <1>3, <1>4

\* PushFront and MoveToFront: an element in front of a list without its key.
LEMMA PushKeeps ==
  ASSUME NEW e \in Entries, NEW t \in Seq(Entries),
         \A i \in 1 .. Len(t) : t[i].key # e.key,
         \A i, j \in 1 .. Len(t) : t[i].key = t[j].key => i = j
  PROVE  /\ <<e>> \o t \in Seq(Entries) /\ Len(<<e>> \o t) = Len(t) + 1 /\ Len(t) \in Nat
         /\ \A i \in 1 .. Len(t) + 1 :
              (<<e>> \o t)[i] = e \/ \E m \in 1 .. Len(t) : (<<e>> \o t)[i] = t[m]
         /\ \A i, j \in 1 .. Len(t) + 1 : (<<e>> \o t)[i].key = (<<e>> \o t)[j].key => i = j
<1>. DEFINE u == <<e>> \o t
            n == Len(t)
<1>1. <<e>> \in Seq(Entries) /\ Len(<<e>>) = 1 /\ <<e>>[1] = e /\ n \in Nat
  BY LenProperties
<1>2. /\ u \in Seq(Entries) /\ Len(u) = Len(<<e>>) + n
      /\ \A i \in 1 .. Len(<<e>>) + n : u[i] = IF i <= Len(<<e>>) THEN <<e>>[i] ELSE t[i - Len(<<e>>)]
  BY <1>1, ConcatProperties
<1>. HIDE DEF u, n
<1>3. u \in Seq(Entries) /\ Len(u) = n + 1
  BY <1>1, <1>2
<1>4. u[1] = e
  BY <1>1, <1>2
<1>5. \A i \in 2 .. n + 1 : u[i] = t[i - 1] /\ i - 1 \in 1 .. n
  BY <1>1, <1>2
<1>6. \A i \in 1 .. n + 1 : i = 1 \/ i \in 2 .. n + 1
  BY <1>1
<1>7. \A i \in 1 .. n + 1 : u[i] = e \/ \E m \in 1 .. n : u[i] = t[m]
  BY <1>4, <1>5, <1>6
<1>8. ASSUME NEW i \in 1 .. n + 1, NEW j \in 1 .. n + 1, u[i].key = u[j].key
      PROVE  i = j
  <2>0. /\ \A a \in 1 .. n : t[a].key # e.key
        /\ \A a, b \in 1 .. n : t[a].key = t[b].key => a = b
    BY DEF n
  <2>1. CASE i = 1 /\ j = 1
    BY <2>1
  <2>2. CASE i = 1 /\ j \in 2 .. n + 1
    BY <2>2, <2>0, <1>4, <1>5, <1>8
  <2>3. CASE i \in 2 .. n + 1 /\ j = 1
    BY <2>3, <2>0, <1>4, <1>5, <1>8
  <2>4. CASE i \in 2 .. n + 1 /\ j \in 2 .. n + 1
    <3>1. i - 1 = j - 1
      BY <2>4, <2>0, <1>5, <1>8
    <3>. QED
      BY <3>1
  <2>. QED
    BY <2>1, <2>2, <2>3, <2>4, <1>6
<1>. QED
  BY <1>1, <1>3, <1>7, <1>8 DEF u, n

\* Back and Remove: the list less its last element.
LEMMA FrontLeaves ==
  ASSUME NEW S, NEW s \in Seq(S), Len(s) > 0
  PROVE  /\ Front(s) \in Seq(S) /\ Len(Front(s)) = Len(s) - 1
         /\ \A i \in 1 .. Len(s) - 1 : Front(s)[i] = s[i]
<1>. DEFINE n == Len(s)
<1>1. n \in Nat /\ n - 1 \in Int /\ 1 \in Int /\ \A i \in 1 .. n : s[i] \in S
  BY LenProperties, ElementOfSeq
<1>2. \A i \in 1 .. n - 1 : s[i] \in S
  BY <1>1
<1>3. /\ SubSeq(s, 1, n - 1) \in Seq(S)
      /\ Len(SubSeq(s, 1, n - 1)) = IF 1 <= n - 1 THEN (n - 1) - 1 + 1 ELSE 0
      /\ \A i \in 1 .. (n - 1) - 1 + 1 : SubSeq(s, 1, n - 1)[i] = s[1 + i - 1]
  BY <1>1, <1>2, SubSeqProperties
<1>4. Front(s) = SubSeq(s, 1, n - 1)
  BY DEF Front
<1>5. n > 0
  OBVIOUS
<1>. HIDE DEF n
<1>6. \A i \in 1 .. n - 1 : i \in 1 .. (n - 1) - 1 + 1 /\ 1 + i - 1 = i
  BY <1>1
<1>7. Len(Front(s)) = n - 1
  BY <1>1, <1>3, <1>4, <1>5
<1>. QED
  BY <1>3, <1>4, <1>6, <1>7 DEF n

\* Remove leaves the other entries.
LEMMA RemoveKeeps ==
  ASSUME NEW c \in Caches, IndexFits(c), NEW k
  PROVE  /\ RemoveKey(c, k) \in Caches /\ IndexFits(RemoveKey(c, k))
         /\ RemoveKey(c, k).disarmed = c.disarmed
         /\ \A i \in DOMAIN RemoveKey(c, k).order :
              /\ RemoveKey(c, k).order[i].key # k
              /\ \E m \in DOMAIN c.order : RemoveKey(c, k).order[i] = c.order[m]
         /\ c.order = <<>> => RemoveKey(c, k).order = <<>>
<1>. DEFINE t == Without(c, k)
            d == RemoveKey(c, k)
<1>1. /\ t \in Seq(Entries) /\ Len(t) \in Nat
      /\ Len(t) = IF Holds(c, k) THEN Len(c.order) - 1 ELSE Len(c.order)
      /\ \A i \in 1 .. Len(t) : t[i].key # k /\ \E m \in DOMAIN c.order : t[i] = c.order[m]
      /\ \A i, j \in 1 .. Len(t) : t[i].key = t[j].key => i = j
  BY WithoutLeaves
<1>2. Len(c.order) \in Nat /\ (c.order = <<>> <=> Len(c.order) = 0)
  BY OrderTypes
<1>3. d \in Caches /\ d.order = t /\ d.disarmed = c.disarmed
  BY <1>1 DEF RemoveKey, Caches, Entries
<1>. HIDE DEF t, d
<1>4. DOMAIN t = 1 .. Len(t) /\ (t = <<>> <=> Len(t) = 0)
  BY <1>1, LenProperties, EmptySeq
<1>5. t # <<>> => c.order # <<>> /\ Len(t) <= Len(c.order)
  BY <1>1, <1>2, <1>4
<1>6. t # <<>> => Len(t) <= MaxEntries
  BY <1>5, <1>1, <1>2, MaxEntriesAssumption DEF IndexFits
<1>7. IndexFits(d)
  BY <1>1, <1>3, <1>4, <1>6 DEF IndexFits
<1>. QED
  BY <1>1, <1>3, <1>4, <1>5, <1>7 DEF d

\* Get moves an entry to the front.
LEMMA TouchKeeps ==
  ASSUME NEW c \in Caches, IndexFits(c), NEW k \in Keys
  PROVE  /\ Touched(c, k) \in Caches /\ IndexFits(Touched(c, k))
         /\ Touched(c, k).disarmed = c.disarmed
         /\ \A i \in DOMAIN Touched(c, k).order :
              \E m \in DOMAIN c.order : Touched(c, k).order[i] = c.order[m]
         /\ c.order = <<>> => Touched(c, k).order = <<>>
<1>1. CASE ~Hit(c, k)
  <2>1. Touched(c, k) = c
    BY <1>1 DEF Touched
  <2>. QED
    BY <2>1
<1>2. CASE Hit(c, k)
  <2>. DEFINE t == Without(c, k)
              e == Entry(k, ValueOf(c, k))
              f == c.order[ElementOf(c, k)]
              d == Touched(c, k)
              u == <<e>> \o t
  <2>0. Holds(c, k) /\ MaxEntries > 0
    BY <1>2 DEF Hit
  <2>1. ElementOf(c, k) \in DOMAIN c.order /\ f.key = k /\ f \in Entries
    <3>1. ElementOf(c, k) \in DOMAIN c.order /\ f.key = k
      BY <2>0 DEF Holds, ElementOf
    <3>. QED
      BY <3>1, OrderTypes
  <2>2. e = f
    BY <2>1 DEF Entry, ValueOf, Entries
  <2>3. /\ t \in Seq(Entries) /\ Len(t) \in Nat
        /\ Len(t) = IF Holds(c, k) THEN Len(c.order) - 1 ELSE Len(c.order)
        /\ \A i \in 1 .. Len(t) : t[i].key # k /\ \E m \in DOMAIN c.order : t[i] = c.order[m]
        /\ \A i, j \in 1 .. Len(t) : t[i].key = t[j].key => i = j
    BY WithoutLeaves
  <2>4. Len(c.order) \in Nat /\ (c.order = <<>> <=> Len(c.order) = 0)
    BY OrderTypes
  <2>4a. d = [c EXCEPT !.order = u]
    BY <1>2 DEF Touched
  <2>. HIDE DEF t, e, d
  <2>5. /\ u \in Seq(Entries) /\ Len(u) = Len(t) + 1 /\ Len(t) \in Nat
        /\ \A i \in 1 .. Len(t) + 1 : u[i] = e \/ \E m \in 1 .. Len(t) : u[i] = t[m]
        /\ \A i, j \in 1 .. Len(t) + 1 : u[i].key = u[j].key => i = j
    <3>1. e \in Entries /\ \A i \in 1 .. Len(t) : t[i].key # e.key
      BY <2>1, <2>2, <2>3
    <3>. QED
      BY <3>1, <2>3, PushKeeps
  <2>. HIDE DEF u
  <2>6. d \in Caches /\ d.order = u /\ d.disarmed = c.disarmed
    BY <2>4a, <2>5 DEF Caches, Entries
  <2>7. DOMAIN u = 1 .. Len(t) + 1
    BY <2>5, LenProperties
  <2>8. Len(u) = Len(c.order) /\ c.order # <<>>
    BY <2>0, <2>3, <2>4, <2>5
  <2>9. Len(u) <= MaxEntries
    BY <2>8 DEF IndexFits
  <2>10. IndexFits(d)
    BY <2>5, <2>6, <2>7, <2>9 DEF IndexFits
  <2>11. ASSUME NEW i \in DOMAIN u
         PROVE  \E m \in DOMAIN c.order : u[i] = c.order[m]
    <3>1. CASE u[i] = e
      BY <3>1, <2>1, <2>2
    <3>2. CASE \E m \in 1 .. Len(t) : u[i] = t[m]
      BY <3>2, <2>3
    <3>. QED
      BY <3>1, <3>2, <2>5, <2>7
  <2>. QED
    BY <2>6, <2>8, <2>10, <2>11 DEF d
<1>. QED
  BY <1>1, <1>2

\* Add puts the key's entry in front, and evicts from the end: what the cache
\* then holds is that entry and entries that it held.
LEMMA AddKeeps ==
  ASSUME NEW c \in Caches, IndexFits(c), NEW k \in Keys, NEW v \in SUBSET Values
  PROVE  /\ Add(c, k, v) \in Caches /\ IndexFits(Add(c, k, v))
         /\ Add(c, k, v).disarmed = c.disarmed
         /\ \A i \in DOMAIN Add(c, k, v).order :
              \/ Add(c, k, v).order[i] = Entry(k, v)
              \/ \E m \in DOMAIN c.order : Add(c, k, v).order[i] = c.order[m]
         /\ c.disarmed => Add(c, k, v) = c
<1>1. CASE MaxEntries <= 0 \/ c.disarmed
  <2>1. Add(c, k, v) = c
    BY <1>1 DEF Add
  <2>. QED
    BY <2>1
<1>2. CASE ~(MaxEntries <= 0 \/ c.disarmed)
  <2>. DEFINE t == Without(c, k)
              e == Entry(k, v)
              d == Add(c, k, v)
              u == <<e>> \o t
              w == IF Len(u) > MaxEntries THEN Front(u) ELSE u
  <2>1. e \in Entries /\ e.key = k
    BY DEF Entry, Entries
  <2>2. /\ t \in Seq(Entries) /\ Len(t) \in Nat
        /\ Len(t) = IF Holds(c, k) THEN Len(c.order) - 1 ELSE Len(c.order)
        /\ \A i \in 1 .. Len(t) : t[i].key # k /\ \E m \in DOMAIN c.order : t[i] = c.order[m]
        /\ \A i, j \in 1 .. Len(t) : t[i].key = t[j].key => i = j
    BY WithoutLeaves
  <2>3. Len(c.order) \in Nat /\ (c.order = <<>> <=> Len(c.order) = 0)
    BY OrderTypes
  <2>4. d = [c EXCEPT !.order = w]
    BY <1>2 DEF Add
  <2>. HIDE DEF t, e, d
  <2>5. /\ u \in Seq(Entries) /\ Len(u) = Len(t) + 1 /\ Len(t) \in Nat
        /\ \A i \in 1 .. Len(t) + 1 : u[i] = e \/ \E m \in 1 .. Len(t) : u[i] = t[m]
        /\ \A i, j \in 1 .. Len(t) + 1 : u[i].key = u[j].key => i = j
    <3>1. \A i \in 1 .. Len(t) : t[i].key # e.key
      BY <2>1, <2>2
    <3>. QED
      BY <3>1, <2>1, <2>2, PushKeeps
  <2>. HIDE DEF u
  <2>6. MaxEntries \in Nat /\ 0 < MaxEntries /\ ~c.disarmed
    BY <1>2, MaxEntriesAssumption
  <2>7. Len(u) <= MaxEntries + 1
    <3>1. c.order # <<>> => Len(c.order) <= MaxEntries
      BY DEF IndexFits
    <3>2. Len(c.order) <= MaxEntries
      BY <3>1, <2>3, <2>6
    <3>. QED
      BY <3>2, <2>2, <2>3, <2>5, <2>6
  <2>8. /\ w \in Seq(Entries) /\ Len(w) \in Nat /\ Len(w) <= MaxEntries /\ Len(w) <= Len(t) + 1
        /\ \A i \in 1 .. Len(w) : w[i] = u[i]
    <3>1. CASE Len(u) > MaxEntries
      <4>1. Len(u) > 0 /\ Len(u) \in Nat
        BY <2>5
      <4>2. /\ Front(u) \in Seq(Entries) /\ Len(Front(u)) = Len(u) - 1
            /\ \A i \in 1 .. Len(u) - 1 : Front(u)[i] = u[i]
        BY <4>1, <2>5, FrontLeaves
      <4>3. w = Front(u)
        BY <3>1
      <4>. HIDE DEF w
      <4>. QED
        BY <4>1, <4>2, <4>3, <2>5, <2>6, <2>7
    <3>2. CASE ~(Len(u) > MaxEntries)
      <4>1. w = u
        BY <3>2
      <4>. HIDE DEF w
      <4>. QED
        BY <3>2, <4>1, <2>5, <2>6
    <3>. QED
      BY <3>1, <3>2
  <2>. HIDE DEF w
  <2>9. d \in Caches /\ d.order = w /\ d.disarmed = c.disarmed
    BY <2>4, <2>8 DEF Caches, Entries
  <2>10. DOMAIN w = 1 .. Len(w) /\ \A i \in 1 .. Len(w) : i \in 1 .. Len(t) + 1
    BY <2>5, <2>8, LenProperties
  <2>11. IndexFits(d)
    <3>1. \A i, j \in 1 .. Len(w) : w[i].key = w[j].key => i = j
      BY <2>5, <2>8, <2>10
    <3>. QED
      BY <3>1, <2>8, <2>9, <2>10 DEF IndexFits
  <2>12. ASSUME NEW i \in DOMAIN w
         PROVE  w[i] = e \/ \E m \in DOMAIN c.order : w[i] = c.order[m]
    <3>1. w[i] = e \/ \E m \in 1 .. Len(t) : w[i] = t[m]
      BY <2>5, <2>8, <2>10
    <3>. QED
      BY <3>1, <2>2
  <2>. QED
    BY <2>6, <2>9, <2>11, <2>12 DEF d, e
<1>. QED
  BY <1>1, <1>2
---------------------------------------------------------------------------
(* What the database says of a key.                                        *)

ChangedAt(l, k, q) == \E row \in Range(l[q]) : row.key = k
LastIn(l, k, p) == Max({0} \cup {q \in 1 .. p : ChangedAt(l, k, q)})

\* LastChange in the two states of a step.
LEMMA LastChangeIsLastIn ==
  ASSUME NEW k, NEW p
  PROVE  LastChange(k, p) = LastIn(log, k, p) /\ LastChange(k, p)' = LastIn(log', k, p)
BY DEF LastChange, LastIn, ChangedAt

\* It is the last position at or before p that has a row of the key, or 0.
LEMMA LastInIsLast ==
  ASSUME NEW l, NEW k, NEW p \in Nat
  PROVE  /\ LastIn(l, k, p) \in 0 .. p
         /\ LastIn(l, k, p) # 0 => ChangedAt(l, k, LastIn(l, k, p))
         /\ \A q \in 1 .. p : ChangedAt(l, k, q) => q <= LastIn(l, k, p)
<1>. DEFINE S == {0} \cup {q \in 1 .. p : ChangedAt(l, k, q)}
<1>1. S \in SUBSET (0 .. p) /\ S # {}
  OBVIOUS
<1>2. \A q \in S : q = 0 \/ ChangedAt(l, k, q)
  OBVIOUS
<1>3. \A q \in 1 .. p : ChangedAt(l, k, q) => q \in S
  OBVIOUS
<1>4. LastIn(l, k, p) = Max(S)
  BY DEF LastIn
<1>. HIDE DEF S
<1>5. Max(S) \in S /\ \A x \in S : x <= Max(S)
  BY <1>1, MaxIsHighest
<1>. QED
  BY <1>1, <1>2, <1>3, <1>4, <1>5

\* It only grows with the position ...
LEMMA LastInGrows ==
  ASSUME NEW l, NEW k, NEW p \in Nat, NEW q \in Nat, p <= q
  PROVE  LastIn(l, k, p) <= LastIn(l, k, q)
<1>. DEFINE a == LastIn(l, k, p)
            b == LastIn(l, k, q)
<1>1. a \in 0 .. p /\ (a # 0 => ChangedAt(l, k, a))
  BY LastInIsLast
<1>2. b \in 0 .. q /\ \A x \in 1 .. q : ChangedAt(l, k, x) => x <= b
  BY LastInIsLast
<1>. HIDE DEF a, b
<1>3. a <= b
  BY <1>1, <1>2
<1>. QED
  BY <1>3 DEF a, b

\* ... not by a position without a row of the key ...
LEMMA LastInSkips ==
  ASSUME NEW l, NEW k, NEW p \in Nat, ~ChangedAt(l, k, p + 1)
  PROVE  LastIn(l, k, p + 1) = LastIn(l, k, p)
<1>1. \A q \in 1 .. p + 1 : q \in 1 .. p \/ q = p + 1
  OBVIOUS
<1>2. \A q \in 1 .. p : q \in 1 .. p + 1
  OBVIOUS
<1>3. {q \in 1 .. p + 1 : ChangedAt(l, k, q)} = {q \in 1 .. p : ChangedAt(l, k, q)}
  BY <1>1, <1>2
<1>. QED
  BY <1>3 DEF LastIn

\* ... and never by what is written later.
LEMMA LastInStable ==
  ASSUME NEW T, NEW l \in Seq(T), NEW t \in T, NEW k, NEW p \in 0 .. Len(l)
  PROVE  LastIn(Append(l, t), k, p) = LastIn(l, k, p)
<1>. DEFINE m == Append(l, t)
<1>1. \A q \in 1 .. Len(l) : m[q] = l[q]
  BY AppendProperties
<1>2. Len(l) \in Nat
  BY LenProperties
<1>3. \A q \in 1 .. p : q \in 1 .. Len(l)
  BY <1>2
<1>. HIDE DEF m
<1>4. \A q \in 1 .. p : ChangedAt(m, k, q) <=> ChangedAt(l, k, q)
  BY <1>1, <1>3 DEF ChangedAt
<1>5. {q \in 1 .. p : ChangedAt(m, k, q)} = {q \in 1 .. p : ChangedAt(l, k, q)}
  BY <1>4
<1>. QED
  BY <1>5 DEF LastIn, m

\* The same for LastChange.
LEMMA LastChangeOrder ==
  ASSUME NEW k, NEW p \in Nat
  PROVE  /\ LastChange(k, p) \in 0 .. p
         /\ \A q \in Nat : p <= q => LastChange(k, p) <= LastChange(k, q)
<1>1. LastIn(log, k, p) \in 0 .. p
  BY LastInIsLast
<1>2. \A q \in Nat : p <= q => LastIn(log, k, p) <= LastIn(log, k, q)
  BY LastInGrows
<1>3. \A q : LastChange(k, q) = LastIn(log, k, q)
  BY LastChangeIsLastIn
<1>. QED
  BY <1>1, <1>2, <1>3

---------------------------------------------------------------------------
(* The stages of a request.                                                *)

Stages == {Idle} \cup Lookups \cup Reads \cup Merges \cup Answers

\* A request's stage tells which fields it has.
LEMMA StageShape ==
  ASSUME NEW q \in Stages
  PROVE  /\ q.at \in {"idle", "lookup", "query", "read", "merged", "answered"}
         /\ q.at = "idle" => q = Idle
         /\ q.at \in {"lookup", "query"} => q \in Lookups
         /\ q.at = "read" => q \in Reads
         /\ q.at = "merged" => q \in Merges
         /\ q.at = "answered" => q \in Answers
<1>1. CASE q = Idle
  BY <1>1 DEF Idle
<1>2. CASE q \in Lookups
  BY <1>2 DEF Lookups
<1>3. CASE q \in Reads
  BY <1>3 DEF Reads
<1>4. CASE q \in Merges
  BY <1>4 DEF Merges
<1>5. CASE q \in Answers
  BY <1>5 DEF Answers
<1>. QED
  BY <1>1, <1>2, <1>3, <1>4, <1>5 DEF Stages

\* A request that has been overtaken, and nothing else about it has changed.
Raced(q) == [q EXCEPT !.raced = TRUE]
LEMMA RacedShape ==
  ASSUME NEW q \in Stages, q.at \in {"read", "merged"}
  PROVE  /\ Raced(q) \in Stages /\ Raced(q).raced = TRUE /\ Raced(q).at = q.at
         /\ Raced(q).key = q.key /\ Raced(q).horizon = q.horizon /\ Raced(q).value = q.value
         /\ q.at = "merged" => Raced(q).bySet = q.bySet
<1>1. CASE q.at = "read"
  <2>1. q \in Reads
    BY <1>1, StageShape
  <2>2. Raced(q) \in Reads
    BY <2>1 DEF Reads, Raced
  <2>. QED
    BY <1>1, <2>1, <2>2 DEF Reads, Raced, Stages
<1>2. CASE q.at = "merged"
  <2>1. q \in Merges
    BY <1>2, StageShape
  <2>2. Raced(q) \in Merges
    BY <2>1 DEF Merges, Raced
  <2>. QED
    BY <1>2, <2>1, <2>2 DEF Merges, Raced, Stages
<1>. QED
  BY <1>1, <1>2

\* What Overtaken does to each request.
LEMMA OvertakenIs ==
  ASSUME reader \in [Readers -> Stages], NEW K
  PROVE  /\ Overtaken(K) \in [Readers -> Stages]
         /\ \A r \in Readers :
              Overtaken(K)[r] = IF reader[r].at \in {"read", "merged"} /\ reader[r].key \in K
                                THEN Raced(reader[r]) ELSE reader[r]
         /\ \A r \in Readers : Overtaken(K)[r].at = reader[r].at
<1>1. ASSUME NEW r \in Readers
      PROVE  /\ Overtaken(K)[r] = IF reader[r].at \in {"read", "merged"} /\ reader[r].key \in K
                                  THEN Raced(reader[r]) ELSE reader[r]
             /\ Overtaken(K)[r] \in Stages /\ Overtaken(K)[r].at = reader[r].at
  <2>1. reader[r] \in Stages
    OBVIOUS
  <2>2. Overtaken(K)[r] = IF reader[r].at \in {"read", "merged"} /\ reader[r].key \in K
                          THEN Raced(reader[r]) ELSE reader[r]
    BY DEF Overtaken, Raced
  <2>3. reader[r].at \in {"read", "merged"}
          => Raced(reader[r]) \in Stages /\ Raced(reader[r]).at = reader[r].at
    BY <2>1, RacedShape
  <2>. QED
    BY <2>1, <2>2, <2>3
<1>2. Overtaken(K) = [r \in Readers |-> Overtaken(K)[r]]
  BY DEF Overtaken
<1>. QED
  BY <1>1, <1>2
---------------------------------------------------------------------------
(* The types, the phases and the cache that is down.                       *)

\* The facts that TypeOK gives, position by position.
LEMMA TypeFacts ==
  ASSUME TypeOK
  PROVE  /\ log \in Seq(Transactions) /\ Len(log) \in Nat /\ MaxPos \in Nat /\ Len(log) <= MaxPos
         /\ received \in Nat /\ received <= Len(log)
         /\ position \in Nat /\ position <= received
         /\ applied \in Nat /\ applied <= received
         /\ batch \in Seq(Rows) /\ cache \in Caches
         /\ reader \in [Readers -> Stages]
<1>1. log \in Seq(Transactions) /\ MaxPos \in Nat /\ batch \in Seq(Rows) /\ cache \in Caches
  BY DerivedBounds DEF TypeOK
<1>2. Len(log) \in Nat
  BY <1>1, LenProperties
<1>3. reader \in [Readers -> Stages]
  BY DEF TypeOK, Stages
<1>. QED
  BY <1>1, <1>2, <1>3 DEF TypeOK

\* A request's steps leave the types and the phases to the cache and the request.
LEMMA RequestShape ==
  ASSUME Shape, UNCHANGED <<dbVars, subVars, armed, applied>>,
         cache' \in Caches, IndexFits(cache'), reader' \in [Readers -> Stages], DownFits'
  PROVE  Shape'
<1>1. TypeOK'
  BY DEF Shape, TypeOK, Stages, dbVars, subVars
<1>2. PhaseFits'
  BY DEF Shape, PhaseFits, Handling, Handled, dbVars, subVars
<1>3. IndexFits(cache)'
  BY DEF IndexFits
<1>. QED
  BY <1>1, <1>2, <1>3 DEF Shape

\* The higher of two positions (Applied and advance keep it).
LEMMA HigherOf ==
  ASSUME NEW a \in Nat, NEW b \in Nat
  PROVE  Max({a, b}) = IF a <= b THEN b ELSE a
<1>. DEFINE S == {a, b}
<1>1. a + b \in Nat /\ S \in SUBSET (0 .. a + b) /\ S # {}
  OBVIOUS
<1>2. Max(S) \in S /\ \A x \in S : x <= Max(S)
  BY <1>1, MaxIsHighest
<1>. QED
  BY <1>2

\* Connecting, arming, dropping and disarming keep the shape.
LEMMA SessionShape ==
  ASSUME Shape,
         \/ Connect \/ ArmDerivedCaches \/ ArmCache
         \/ LoseConnection \/ DisarmDerivedCaches \/ DisarmCache
  PROVE  Shape'
<1>0. TypeOK /\ IndexFits(cache) /\ PhaseFits /\ DownFits
  BY DEF Shape
<1>1. /\ log \in Seq(Transactions) /\ Len(log) \in Nat /\ MaxPos \in Nat /\ Len(log) <= MaxPos
      /\ received \in Nat /\ received <= Len(log)
      /\ position \in Nat /\ position <= received
      /\ applied \in Nat /\ applied <= received
      /\ batch \in Seq(Rows) /\ cache \in Caches
      /\ reader \in [Readers -> Stages]
  BY <1>0, TypeFacts
<1>2. CASE Connect
  <2>1. reader' \in [Readers -> Stages] /\ \A r \in Readers : reader'[r].at = reader[r].at
    BY <1>1, <1>2, OvertakenIs DEF Connect
  <2>2. TypeOK'
    BY <1>0, <1>1, <1>2, <2>1 DEF Connect, TypeOK, Stages, dbVars, derivedVars
  <2>3. PhaseFits'
    BY <1>0, <1>1, <1>2 DEF Connect, PhaseFits, Handling, Handled, dbVars, derivedVars
  <2>4. \A r \in Readers : ~Fills(reader[r]) => ~Fills(reader'[r])
    <3>1. SUFFICES ASSUME NEW r \in Readers, ~Fills(reader[r]) PROVE ~Fills(reader'[r])
      OBVIOUS
    <3>2. reader'[r] = reader[r]
      BY <1>1, <1>2, <3>1, OvertakenIs DEF Connect, Fills
    <3>. QED
      BY <3>1, <3>2
  <2>5. DownFits'
    BY <1>0, <1>2, <2>4 DEF Connect, DownFits, Fills, derivedVars
  <2>. QED
    BY <1>0, <1>2, <2>2, <2>3, <2>5 DEF Shape, Connect, IndexFits, derivedVars
<1>3. CASE ArmDerivedCaches
  <2>1. TypeOK'
    BY <1>0, <1>1, <1>3 DEF ArmDerivedCaches, TypeOK, dbVars
  <2>2. PhaseFits'
    BY <1>0, <1>1, <1>3 DEF ArmDerivedCaches, PhaseFits, Handling, Handled
  <2>3. DownFits'
    BY <1>3 DEF ArmDerivedCaches, DownFits
  <2>. QED
    BY <1>0, <1>3, <2>1, <2>2, <2>3 DEF Shape, ArmDerivedCaches, IndexFits
<1>4. CASE ArmCache
  <2>1. cache' \in Caches /\ cache'.order = cache.order
    BY <1>1, <1>4 DEF ArmCache, SetArmed, Caches
  <2>2. TypeOK'
    BY <1>0, <1>1, <1>4, <2>1 DEF ArmCache, TypeOK, dbVars
  <2>3. PhaseFits'
    BY <1>0, <1>1, <1>4 DEF ArmCache, PhaseFits, Handling, Handled
  <2>4. DownFits'
    BY <1>4 DEF ArmCache, DownFits
  <2>. QED
    BY <1>0, <2>1, <2>2, <2>3, <2>4 DEF Shape, IndexFits
<1>5. CASE LoseConnection
  <2>1. TypeOK'
    <3>1. MaxDrops \in Nat /\ drops \in 0 .. MaxDrops
      BY <1>0, DerivedBounds DEF TypeOK
    <3>2. drops' \in 0 .. MaxDrops
      BY <1>5, <3>1 DEF LoseConnection
    <3>. QED
      BY <1>0, <1>1, <1>5, <3>2 DEF LoseConnection, TypeOK, dbVars, derivedVars
  <2>2. PhaseFits'
    BY <1>0, <1>1, <1>5 DEF LoseConnection, PhaseFits, Handling, Handled, derivedVars
  <2>3. DownFits'
    BY <1>5 DEF LoseConnection, DownFits
  <2>. QED
    BY <1>0, <1>5, <2>1, <2>2, <2>3 DEF Shape, LoseConnection, IndexFits, derivedVars
<1>6. CASE DisarmDerivedCaches
  <2>1. TypeOK'
    <3>1. {position, applied}' \subseteq 0 .. received'
      BY <1>1, <1>6 DEF DisarmDerivedCaches
    <3>. QED
      BY <1>0, <1>6, <3>1 DEF DisarmDerivedCaches, TypeOK, dbVars
  <2>2. PhaseFits'
    BY <1>0, <1>1, <1>6 DEF DisarmDerivedCaches, PhaseFits, Handling, Handled
  <2>3. DownFits'
    BY <1>6 DEF DisarmDerivedCaches, DownFits
  <2>. QED
    BY <1>0, <1>6, <2>1, <2>2, <2>3 DEF Shape, DisarmDerivedCaches, IndexFits
<1>7. CASE DisarmCache
  <2>1. reader' \in [Readers -> Stages]
    BY <1>1, <1>7, OvertakenIs DEF DisarmCache
  <2>2. cache' \in Caches /\ cache'.order = <<>> /\ cache'.disarmed = TRUE
    <3>1. cache' = [order |-> <<>>, disarmed |-> TRUE]
      BY <1>7 DEF DisarmCache, SetArmed
    <3>2. <<>> \in Seq(Entries)
      BY EmptySeq
    <3>. QED
      BY <3>1, <3>2 DEF Caches, Entries
  <2>3. TypeOK'
    BY <1>0, <1>1, <1>7, <2>1, <2>2 DEF DisarmCache, TypeOK, Stages, dbVars
  <2>4. PhaseFits'
    BY <1>0, <1>1, <1>7 DEF DisarmCache, PhaseFits, Handling, Handled
  <2>5. DownFits'
    BY <2>2 DEF DownFits
  <2>6. IndexFits(cache)'
    BY <2>2 DEF IndexFits
  <2>. QED
    BY <2>3, <2>4, <2>5, <2>6 DEF Shape
<1>. QED
  BY <1>2, <1>3, <1>4, <1>5, <1>6, <1>7
\* So do a write of Synapse's, and the rows, positions and purges it announces.
LEMMA RowShape ==
  ASSUME Shape,
         \/ \E rows \in Transactions : Write(rows)
         \/ Receive \/ OnRow \/ Applied \/ Advance \/ LoseRow \/ HandlePosition \/ OnPurge
         \/ \E k \in Keys : OnRoomInvalidated(k)
  PROVE  Shape'
<1>0. TypeOK /\ IndexFits(cache) /\ PhaseFits /\ DownFits
  BY DEF Shape
<1>1. /\ log \in Seq(Transactions) /\ Len(log) \in Nat /\ MaxPos \in Nat /\ Len(log) <= MaxPos
      /\ received \in Nat /\ received <= Len(log)
      /\ position \in Nat /\ position <= received
      /\ applied \in Nat /\ applied <= received
      /\ batch \in Seq(Rows) /\ cache \in Caches
      /\ reader \in [Readers -> Stages]
  BY <1>0, TypeFacts
<1>2. ASSUME NEW rows \in Transactions, Write(rows)
      PROVE  Shape'
  <2>1. log' \in Seq(Transactions) /\ Len(log') = Len(log) + 1 /\ Len(log) < MaxPos
    BY <1>1, <1>2, AppendProperties DEF Write
  <2>2. TypeOK'
    BY <1>0, <1>1, <1>2, <2>1 DEF Write, TypeOK, subVars, derivedVars
  <2>. QED
    BY <1>0, <1>2, <2>2
       DEF Write, Shape, IndexFits, PhaseFits, Handling, Handled, DownFits, Fills, subVars, derivedVars
<1>3. CASE Receive
  <2>1. batch' \in Seq(Rows) /\ batch' # <<>>
    <3>1. received + 1 \in 1 .. Len(log) /\ batch' = log[received + 1]
      BY <1>1, <1>3 DEF Receive
    <3>2. log[received + 1] \in Transactions
      BY <1>1, <3>1, ElementOfSeq
    <3>. QED
      BY <3>1, <3>2, TransactionsAssumption
  <2>2. TypeOK'
    BY <1>0, <1>1, <1>3, <2>1 DEF Receive, TypeOK, dbVars, derivedVars
  <2>3. PhaseFits'
    BY <1>0, <1>1, <1>3, <2>1 DEF Receive, PhaseFits, Handling, Handled, dbVars, derivedVars
  <2>4. DownFits'
    BY <1>3 DEF Receive, DownFits
  <2>. QED
    BY <1>0, <1>3, <2>2, <2>3, <2>4 DEF Shape, Receive, IndexFits, derivedVars
<1>4. CASE OnRow
  <2>1. cache' \in Caches /\ IndexFits(cache') /\ reader' \in [Readers -> Stages]
    <3>1. CASE Head(batch).names
      BY <1>0, <1>1, <1>4, <3>1, RemoveKeeps, OvertakenIs DEF OnRow
    <3>2. CASE ~Head(batch).names
      BY <1>0, <1>1, <1>4, <3>2 DEF OnRow
    <3>. QED
      BY <3>1, <3>2
  <2>2. TypeOK'
    BY <1>0, <1>1, <1>4, <2>1 DEF OnRow, TypeOK, Stages, dbVars
  <2>3. PhaseFits'
    BY <1>0, <1>1, <1>4 DEF OnRow, PhaseFits, Handling, Handled
  <2>4. DownFits'
    BY <1>4 DEF OnRow, DownFits
  <2>. QED
    BY <2>1, <2>2, <2>3, <2>4 DEF Shape, IndexFits
<1>5. CASE Applied
  <2>1. batch # <<>> /\ Len(batch) \in Nat /\ Len(batch) # 0
    BY <1>0, <1>1, <1>5, LenProperties, EmptySeq DEF Applied, PhaseFits, Handling
  <2>2. batch' \in Seq(Rows) /\ Len(batch') = Len(batch) - 1
    BY <1>1, <1>5, <2>1, HeadTailProperties DEF Applied
  <2>3. Len(batch) > 1 => batch' # <<>>
    BY <2>1, <2>2, EmptySeq
  <2>4. applied' = received /\ received' = received /\ position' = position
    BY <1>1, <1>5, HigherOf DEF Applied
  <2>5. TypeOK'
    <3>1. {position, applied}' \subseteq 0 .. received'
      BY <1>1, <2>4
    <3>. QED
      BY <1>0, <1>5, <2>2, <3>1 DEF Applied, TypeOK, dbVars
  <2>6. PhaseFits'
    BY <1>0, <1>1, <1>5, <2>3, <2>4 DEF Applied, PhaseFits, Handling, Handled
  <2>7. DownFits'
    BY <1>5 DEF Applied, DownFits
  <2>. QED
    BY <1>0, <1>5, <2>5, <2>6, <2>7 DEF Shape, Applied, IndexFits
<1>6. CASE Advance
  <2>1. position' = received /\ received' = received
    BY <1>1, <1>6, HigherOf DEF Advance
  <2>2. {position, applied}' \subseteq 0 .. received'
    BY <1>1, <1>6, <2>1 DEF Advance, derivedVars
  <2>3. TypeOK'
    BY <1>0, <1>6, <2>2 DEF Advance, TypeOK, dbVars, derivedVars
  <2>4. PhaseFits'
    BY <1>0, <1>1, <1>6, <2>1 DEF Advance, PhaseFits, Handling, Handled, derivedVars
  <2>5. DownFits'
    BY <1>6 DEF Advance, DownFits
  <2>. QED
    BY <1>0, <1>6, <2>3, <2>4, <2>5 DEF Shape, Advance, IndexFits, derivedVars
<1>7. CASE LoseRow
  <2>1. received' \in 0 .. Len(log') /\ {position, applied}' \subseteq 0 .. received'
    BY <1>1, <1>7 DEF LoseRow, dbVars, derivedVars
  <2>2. lost' \in 0 .. MaxLost
    <3>1. MaxLost \in Nat /\ lost \in 0 .. MaxLost
      BY <1>0, DerivedBounds DEF TypeOK
    <3>. QED
      BY <1>7, <3>1 DEF LoseRow
  <2>3. TypeOK'
    BY <1>0, <1>7, <2>1, <2>2 DEF LoseRow, TypeOK, dbVars, derivedVars
  <2>4. PhaseFits'
    BY <1>0, <1>1, <1>7 DEF LoseRow, PhaseFits, Handling, Handled, derivedVars
  <2>5. DownFits'
    BY <1>7 DEF LoseRow, DownFits
  <2>. QED
    BY <1>0, <1>7, <2>3, <2>4, <2>5 DEF Shape, LoseRow, IndexFits, derivedVars
<1>8. CASE HandlePosition
  <2>1. {position, applied}' \subseteq 0 .. received'
    BY <1>1, <1>8 DEF HandlePosition, derivedVars
  <2>2. TypeOK'
    BY <1>0, <1>8, <2>1 DEF HandlePosition, TypeOK, dbVars, derivedVars
  <2>3. PhaseFits'
    BY <1>0, <1>1, <1>8 DEF HandlePosition, PhaseFits, Handling, Handled, derivedVars
  <2>4. DownFits'
    BY <1>8 DEF HandlePosition, DownFits
  <2>. QED
    BY <1>0, <1>8, <2>2, <2>3, <2>4 DEF Shape, HandlePosition, IndexFits, derivedVars
<1>9. CASE OnPurge
  <2>1. cache' \in Caches /\ cache'.order = <<>>
    <3>1. <<>> \in Seq(Entries)
      BY EmptySeq
    <3>. QED
      BY <1>1, <1>9, <3>1 DEF OnPurge, Purge, Caches, Entries
  <2>2. reader' \in [Readers -> Stages]
    BY <1>1, <1>9, OvertakenIs DEF OnPurge
  <2>3. IndexFits(cache') /\ DownFits'
    BY <1>9, <2>1 DEF OnPurge, IndexFits, DownFits, subVars
  <2>. QED
    BY <1>9, <2>1, <2>2, <2>3, RequestShape DEF OnPurge
<1>10. ASSUME NEW k \in Keys, OnRoomInvalidated(k)
       PROVE  Shape'
  <2>1. cache' \in Caches /\ IndexFits(cache')
    BY <1>0, <1>1, <1>10, RemoveKeeps DEF OnRoomInvalidated
  <2>2. reader' \in [Readers -> Stages]
    BY <1>1, <1>10, OvertakenIs DEF OnRoomInvalidated
  <2>3. DownFits'
    BY <1>10 DEF OnRoomInvalidated, DownFits, subVars
  <2>. QED
    BY <1>10, <2>1, <2>2, <2>3, RequestShape DEF OnRoomInvalidated
<1>. QED
  BY <1>2, <1>3, <1>4, <1>5, <1>6, <1>7, <1>8, <1>9, <1>10
\* A step of one request.
LEMMA OneRequest ==
  ASSUME reader \in [Readers -> Stages], NEW r \in Readers, NEW q \in Stages,
         reader' = [reader EXCEPT ![r] = q]
  PROVE  /\ reader' \in [Readers -> Stages] /\ reader'[r] = q
         /\ \A o \in Readers : o # r => reader'[o] = reader[o]
OBVIOUS

\* It keeps the shape when, with the connection down, it leaves the cache empty
\* and is no more about to fill it than it was.
LEMMA OneRequestShape ==
  ASSUME Shape, NEW r \in Readers, NEW q \in Stages, reader' = [reader EXCEPT ![r] = q],
         UNCHANGED <<dbVars, subVars, armed, applied>>,
         cache' \in Caches, IndexFits(cache'), cache'.disarmed = cache.disarmed,
         phase \in {"down", "connected"} => cache'.order = <<>> /\ (Fills(q) => Fills(reader[r]))
  PROVE  Shape'
<1>1. reader \in [Readers -> Stages]
  BY TypeFacts DEF Shape
<1>2. /\ reader' \in [Readers -> Stages] /\ reader'[r] = q
      /\ \A o \in Readers : o # r => reader'[o] = reader[o]
  BY <1>1, OneRequest
<1>3. phase' = phase
  BY DEF subVars
<1>4. CASE phase \in {"down", "connected"}
  <2>1. cache'.order = <<>> /\ (cache.disarmed \/ \A o \in Readers : ~Fills(reader[o]))
    BY <1>4 DEF Shape, DownFits
  <2>2. ASSUME cache.disarmed PROVE DownFits'
    BY <1>4, <2>1, <2>2 DEF DownFits
  <2>3. ASSUME \A o \in Readers : ~Fills(reader[o]) PROVE DownFits'
    <3>1. \A o \in Readers : ~Fills(reader'[o])
      BY <1>2, <1>4, <2>3
    <3>2. \A o \in Readers : ~Fills(reader[o])'
      BY <3>1 DEF Fills
    <3>. QED
      BY <1>4, <3>2 DEF DownFits
  <2>4. DownFits'
    BY <2>1, <2>2, <2>3
  <2>. QED
    BY <1>2, <2>4, RequestShape
<1>5. CASE phase \notin {"down", "connected"}
  <2>1. DownFits'
    BY <1>3, <1>5 DEF DownFits
  <2>. QED
    BY <1>2, <2>1, RequestShape
<1>. QED
  BY <1>4, <1>5

\* What the cache holds for a key is in its entry.
LEMMA HeldIsInTheEntry ==
  ASSUME cache \in Caches, NEW k, NEW v \in Held(k)
  PROVE  v \in Values /\ \E i \in DOMAIN cache.order : cache.order[i].key = k /\ v \in cache.order[i].value
<1>. DEFINE e == ElementOf(cache, k)
<1>1. Holds(cache, k) /\ v \in ValueOf(cache, k)
  BY DEF Held, Hit
<1>2. e \in DOMAIN cache.order /\ cache.order[e].key = k
  BY <1>1 DEF Holds, ElementOf
<1>3. v \in cache.order[e].value
  BY <1>1 DEF ValueOf
<1>4. cache.order[e] \in Entries
  BY <1>2, OrderTypes
<1>. QED
  BY <1>2, <1>3, <1>4 DEF Entries

\* The request that each step leaves, and the cache.
LookedUp(k, s, horizon) ==
  [at |-> "lookup", key |-> k, set |-> s, horizon |-> horizon, own |-> horizon = NowToken,
   use |-> fresh(horizon)]
Queried(q) ==
  IF q.use THEN [at |-> "read", key |-> q.key, set |-> q.set, horizon |-> q.horizon, own |-> q.own,
                 value |-> LastChange(q.key, Len(log)), raced |-> FALSE]
  ELSE Answered(q, LastChange(q.key, Len(log)), FALSE)
Merged(q) ==
  [at |-> "merged", key |-> q.key, horizon |-> q.horizon, own |-> q.own, value |-> q.value,
   raced |-> q.raced,
   bySet |-> (Held(q.key) \ HeldSet(q)) \cup {[set |-> q.set, at |-> q.value, raced |-> FALSE]}]
Filled(q) == {[v EXCEPT !.raced = @ \/ q.raced] : v \in q.bySet}

\* Lookup.
LEMMA LookupStep ==
  ASSUME Shape, NEW r \in Readers, NEW k \in Keys, NEW s \in Sets, NEW horizon \in 0 .. Len(log),
         Lookup(r, k, s, horizon)
  PROVE  /\ LookedUp(k, s, horizon) \in Lookups
         /\ reader' = [reader EXCEPT ![r] = LookedUp(k, s, horizon)]
         /\ cache' = cache /\ UNCHANGED <<dbVars, subVars, armed, applied>> /\ Shape'
<1>1. TypeOK /\ IndexFits(cache) /\ PhaseFits /\ DownFits
  BY DEF Shape
<1>2. Len(log) \in Nat /\ MaxPos \in Nat /\ Len(log) <= MaxPos /\ cache \in Caches
  BY <1>1, TypeFacts
<1>3. horizon \in Pos
  BY <1>2 DEF Pos
<1>4. fresh(horizon) \in BOOLEAN /\ (horizon = NowToken) \in BOOLEAN
  BY DEF fresh
<1>5. LookedUp(k, s, horizon) \in Lookups
  BY <1>3, <1>4 DEF LookedUp, Lookups
<1>6. /\ reader' = [reader EXCEPT ![r] = LookedUp(k, s, horizon)]
      /\ cache' = cache /\ UNCHANGED <<dbVars, subVars, armed, applied>>
  BY DEF Lookup, LookedUp, derivedVars
<1>7. phase \in {"down", "connected"} => cache'.order = <<>> /\ ~Fills(LookedUp(k, s, horizon))
  <2>1. SUFFICES ASSUME phase \in {"down", "connected"}
                 PROVE  cache'.order = <<>> /\ ~Fills(LookedUp(k, s, horizon))
    OBVIOUS
  <2>2. cache.order = <<>> /\ ~armed
    BY <1>1, <2>1 DEF PhaseFits, DownFits
  <2>. QED
    BY <1>6, <2>2 DEF Fills, LookedUp, fresh
<1>8. LookedUp(k, s, horizon) \in Stages
  BY <1>5 DEF Stages
<1>9. IndexFits(cache') /\ cache' \in Caches /\ cache'.disarmed = cache.disarmed
  BY <1>1, <1>2, <1>6
<1>10. Shape'
  BY <1>6, <1>7, <1>8, <1>9, OneRequestShape
<1>. QED
  BY <1>5, <1>6, <1>10

\* Get: a hit.
LEMMA GetHitStep ==
  ASSUME Shape, NEW r \in Readers, GetHit(r)
  PROVE  /\ reader[r] \in Lookups /\ reader[r].at = "lookup" /\ reader[r].use
         /\ \E v \in Held(reader[r].key) :
              /\ Answered(reader[r], v.at, v.raced) \in Answers
              /\ reader' = [reader EXCEPT ![r] = Answered(reader[r], v.at, v.raced)]
         /\ \A i \in DOMAIN cache'.order : \E m \in DOMAIN cache.order : cache'.order[i] = cache.order[m]
         /\ UNCHANGED <<dbVars, subVars, armed, applied>> /\ Shape'
<1>1. IndexFits(cache) /\ DownFits /\ cache \in Caches /\ reader \in [Readers -> Stages]
  BY TypeFacts DEF Shape
<1>2. reader[r] \in Lookups /\ reader[r].at = "lookup" /\ reader[r].use
  <2>1. reader[r] \in Stages /\ reader[r].at = "lookup" /\ reader[r].use
    BY <1>1 DEF GetHit
  <2>. QED
    BY <2>1, StageShape
<1>3. PICK v \in HeldSet(reader[r]) :
        reader' = [reader EXCEPT ![r] = Answered(reader[r], v.at, v.raced)]
  BY DEF GetHit
<1>4. v \in Held(reader[r].key) /\ v \in Values
  <2>1. v \in Held(reader[r].key)
    BY DEF HeldSet
  <2>. QED
    BY <1>1, <2>1, HeldIsInTheEntry
<1>5. Answered(reader[r], v.at, v.raced) \in Answers
  BY <1>2, <1>4 DEF Answered, Answers, Lookups, Values
<1>6. cache' = Touched(cache, reader[r].key) /\ reader[r].key \in Keys
  BY <1>2 DEF GetHit, Lookups
<1>7. /\ cache' \in Caches /\ IndexFits(cache') /\ cache'.disarmed = cache.disarmed
      /\ \A i \in DOMAIN cache'.order : \E m \in DOMAIN cache.order : cache'.order[i] = cache.order[m]
      /\ cache.order = <<>> => cache'.order = <<>>
  BY <1>1, <1>6, TouchKeeps
<1>8. UNCHANGED <<dbVars, subVars, armed, applied>>
  BY DEF GetHit
<1>9. Answered(reader[r], v.at, v.raced) \in Stages /\ ~Fills(Answered(reader[r], v.at, v.raced))
  BY <1>5 DEF Stages, Fills, Answers
<1>10. phase \in {"down", "connected"} => cache'.order = <<>>
  BY <1>1, <1>7 DEF DownFits
<1>11. Shape'
  BY <1>3, <1>7, <1>8, <1>9, <1>10, OneRequestShape
<1>. QED
  BY <1>2, <1>3, <1>4, <1>5, <1>7, <1>8, <1>11

\* Get: a miss.
LEMMA GetMissStep ==
  ASSUME Shape, NEW r \in Readers, GetMiss(r)
  PROVE  /\ reader[r] \in Lookups
         /\ [reader[r] EXCEPT !.at = "query"] \in Lookups
         /\ reader' = [reader EXCEPT ![r] = [reader[r] EXCEPT !.at = "query"]]
         /\ \A i \in DOMAIN cache'.order : \E m \in DOMAIN cache.order : cache'.order[i] = cache.order[m]
         /\ UNCHANGED <<dbVars, subVars, armed, applied>> /\ Shape'
<1>. DEFINE q == [reader[r] EXCEPT !.at = "query"]
<1>1. IndexFits(cache) /\ DownFits /\ cache \in Caches /\ reader \in [Readers -> Stages]
  BY TypeFacts DEF Shape
<1>2. reader[r] \in Lookups /\ reader[r].at = "lookup"
  <2>1. reader[r] \in Stages /\ reader[r].at = "lookup"
    BY <1>1 DEF GetMiss
  <2>. QED
    BY <2>1, StageShape
<1>3. q \in Lookups /\ (Fills(q) => Fills(reader[r]))
  BY <1>2 DEF Lookups, Fills
<1>4. reader' = [reader EXCEPT ![r] = q]
  BY DEF GetMiss
<1>5. /\ cache' = Touched(cache, reader[r].key) \/ cache' = cache
      /\ reader[r].key \in Keys
  BY <1>2 DEF GetMiss, Lookups
<1>6. /\ cache' \in Caches /\ IndexFits(cache') /\ cache'.disarmed = cache.disarmed
      /\ \A i \in DOMAIN cache'.order : \E m \in DOMAIN cache.order : cache'.order[i] = cache.order[m]
      /\ cache.order = <<>> => cache'.order = <<>>
  <2>1. CASE cache' = cache
    BY <1>1, <2>1
  <2>2. CASE cache' = Touched(cache, reader[r].key)
    BY <1>1, <1>5, <2>2, TouchKeeps
  <2>. QED
    BY <1>5, <2>1, <2>2
<1>7. UNCHANGED <<dbVars, subVars, armed, applied>>
  BY DEF GetMiss
<1>8. q \in Stages
  BY <1>3 DEF Stages
<1>9. phase \in {"down", "connected"} => cache'.order = <<>>
  BY <1>1, <1>6 DEF DownFits
<1>. HIDE DEF q
<1>10. Shape'
  BY <1>3, <1>4, <1>6, <1>7, <1>8, <1>9, OneRequestShape
<1>. QED
  BY <1>2, <1>3, <1>4, <1>6, <1>7, <1>10 DEF q
\* The query of the database.
LEMMA QueryStep ==
  ASSUME Shape, NEW r \in Readers, Query(r)
  PROVE  /\ reader[r] \in Lookups /\ Queried(reader[r]) \in Reads \cup Answers
         /\ reader' = [reader EXCEPT ![r] = Queried(reader[r])]
         /\ cache' = cache /\ UNCHANGED <<dbVars, subVars, armed, applied>> /\ Shape'
<1>. DEFINE q == reader[r]
            value == LastChange(q.key, Len(log))
<1>1. IndexFits(cache) /\ DownFits /\ cache \in Caches /\ reader \in [Readers -> Stages]
  BY TypeFacts DEF Shape
<1>2. q \in Lookups /\ q.at = "query"
  <2>1. q \in Stages /\ q.at = "query"
    BY <1>1 DEF Query
  <2>. QED
    BY <2>1, StageShape
<1>3. value \in Pos
  <2>1. Len(log) \in Nat /\ MaxPos \in Nat /\ Len(log) <= MaxPos
    BY TypeFacts DEF Shape
  <2>2. value \in 0 .. Len(log)
    BY <2>1, LastChangeOrder
  <2>. QED
    BY <2>1, <2>2 DEF Pos
<1>4. reader' = [reader EXCEPT ![r] = Queried(q)]
  BY DEF Query, Queried
<1>5. UNCHANGED <<dbVars, subVars, derivedVars>>
  BY DEF Query
<1>. HIDE DEF value
<1>6. CASE q.use
  <2>1. Queried(q) = [at |-> "read", key |-> q.key, set |-> q.set, horizon |-> q.horizon,
                      own |-> q.own, value |-> value, raced |-> FALSE]
    BY <1>6 DEF Queried, value
  <2>2. Queried(q) \in Reads
    BY <1>2, <1>3, <2>1 DEF Lookups, Reads
  <2>. QED
    BY <1>2, <1>6, <2>2, <1>1, <1>4, <1>5, OneRequestShape DEF Stages, Fills, derivedVars, DownFits
<1>7. CASE ~q.use
  <2>1. Queried(q) = Answered(q, value, FALSE)
    BY <1>7 DEF Queried, value
  <2>2. Queried(q) \in Answers /\ ~Fills(Queried(q))
    BY <1>2, <1>3, <2>1 DEF Lookups, Answers, Answered, Fills
  <2>. QED
    BY <1>2, <2>2, <1>1, <1>4, <1>5, OneRequestShape DEF Stages, derivedVars, DownFits
<1>. QED
  BY <1>6, <1>7

\* addRoomsForUser: the sets it puts together ...
LEMMA MergeStep ==
  ASSUME Shape, NEW r \in Readers, Merge(r)
  PROVE  /\ reader[r] \in Reads /\ Merged(reader[r]) \in Merges
         /\ reader' = [reader EXCEPT ![r] = Merged(reader[r])]
         /\ \A i \in DOMAIN cache'.order : \E m \in DOMAIN cache.order : cache'.order[i] = cache.order[m]
         /\ UNCHANGED <<dbVars, subVars, armed, applied>> /\ Shape'
<1>. DEFINE q == reader[r]
            new == [set |-> q.set, at |-> q.value, raced |-> FALSE]
            bySet == (Held(q.key) \ HeldSet(q)) \cup {new}
<1>1. IndexFits(cache) /\ DownFits /\ cache \in Caches /\ reader \in [Readers -> Stages]
  BY TypeFacts DEF Shape
<1>2. q \in Reads /\ q.at = "read"
  <2>1. q \in Stages /\ q.at = "read"
    BY <1>1 DEF Merge
  <2>. QED
    BY <2>1, StageShape
<1>3. bySet \in SUBSET Values
  <2>1. new \in Values
    BY <1>2 DEF Values, Reads
  <2>2. \A v \in Held(q.key) : v \in Values
    BY <1>1, HeldIsInTheEntry
  <2>. HIDE DEF new, q
  <2>. QED
    BY <2>1, <2>2
<1>4. reader' = [reader EXCEPT ![r] = Merged(q)]
  BY DEF Merge, Merged
<1>5. Merged(q) = [at |-> "merged", key |-> q.key, horizon |-> q.horizon, own |-> q.own,
                   value |-> q.value, raced |-> q.raced, bySet |-> bySet]
  BY DEF Merged
<1>. HIDE DEF bySet
<1>6. Merged(q) \in Merges
  BY <1>2, <1>3, <1>5 DEF Merges, Reads
<1>7. cache' = Touched(cache, q.key) /\ q.key \in Keys
  BY <1>2 DEF Merge, Reads
<1>8. /\ cache' \in Caches /\ IndexFits(cache') /\ cache'.disarmed = cache.disarmed
      /\ \A i \in DOMAIN cache'.order : \E m \in DOMAIN cache.order : cache'.order[i] = cache.order[m]
      /\ cache.order = <<>> => cache'.order = <<>>
  BY <1>1, <1>7, TouchKeeps
<1>9. UNCHANGED <<dbVars, subVars, armed, applied>>
  BY DEF Merge
<1>10. Merged(q) \in Stages /\ Fills(q)
  BY <1>2, <1>6 DEF Stages, Fills
<1>11. phase \in {"down", "connected"} => cache'.order = <<>>
  BY <1>1, <1>8 DEF DownFits
<1>12. Shape'
  BY <1>4, <1>8, <1>9, <1>10, <1>11, OneRequestShape
<1>. QED
  BY <1>2, <1>4, <1>6, <1>8, <1>9, <1>12

\* ... and puts back.
LEMMA FillStep ==
  ASSUME Shape, NEW r \in Readers, Fill(r)
  PROVE  /\ reader[r] \in Merges /\ Answered(reader[r], reader[r].value, FALSE) \in Answers
         /\ reader' = [reader EXCEPT ![r] = Answered(reader[r], reader[r].value, FALSE)]
         /\ \A i \in DOMAIN cache'.order :
              \/ cache'.order[i] = Entry(reader[r].key, Filled(reader[r]))
              \/ \E m \in DOMAIN cache.order : cache'.order[i] = cache.order[m]
         /\ UNCHANGED <<dbVars, subVars, armed, applied>> /\ Shape'
<1>. DEFINE q == reader[r]
            a == Answered(q, q.value, FALSE)
<1>1. IndexFits(cache) /\ DownFits /\ cache \in Caches /\ reader \in [Readers -> Stages]
  BY TypeFacts DEF Shape
<1>2. q \in Merges /\ q.at = "merged"
  <2>1. q \in Stages /\ q.at = "merged"
    BY <1>1 DEF Fill
  <2>. QED
    BY <2>1, StageShape
<1>3. q.key \in Keys /\ q.bySet \in SUBSET Values /\ q.raced \in BOOLEAN
  BY <1>2 DEF Merges
<1>4. Filled(q) \in SUBSET Values
  <2>. DEFINE f(v) == [v EXCEPT !.raced = @ \/ q.raced]
  <2>1. \A v \in Values : f(v) \in Values
    BY DEF Values
  <2>2. Filled(q) = {f(v) : v \in q.bySet}
    BY DEF Filled
  <2>. HIDE DEF f, q
  <2>. QED
    BY <1>3, <2>1, <2>2
<1>5. a \in Answers /\ ~Fills(a)
  BY <1>2 DEF Answered, Answers, Merges, Fills
<1>6. reader' = [reader EXCEPT ![r] = a]
  BY DEF Fill
<1>7. cache' = Add(cache, q.key, Filled(q))
  BY DEF Fill, Filled
<1>8. /\ cache' \in Caches /\ IndexFits(cache') /\ cache'.disarmed = cache.disarmed
      /\ \A i \in DOMAIN cache'.order :
           \/ cache'.order[i] = Entry(q.key, Filled(q))
           \/ \E m \in DOMAIN cache.order : cache'.order[i] = cache.order[m]
      /\ cache.disarmed => cache' = cache
  BY <1>1, <1>3, <1>4, <1>7, AddKeeps
<1>9. UNCHANGED <<dbVars, subVars, armed, applied>>
  BY DEF Fill
<1>10. phase \in {"down", "connected"} => cache'.order = <<>>
  BY <1>1, <1>2, <1>8 DEF DownFits, Fills
<1>11. a \in Stages
  BY <1>5 DEF Stages
<1>. HIDE DEF a
<1>12. Shape'
  BY <1>5, <1>6, <1>8, <1>9, <1>10, <1>11, OneRequestShape
<1>. QED
  BY <1>2, <1>5, <1>6, <1>8, <1>9, <1>12 DEF a

\* The initial state, and every step.
LEMMA ShapeIsInductive ==
  /\ Init => Shape
  /\ Shape /\ [Next]_vars => Shape'
<1>1. ASSUME Init PROVE Shape
  <2>0. MaxPos \in Nat /\ MaxDrops \in Nat /\ MaxLost \in Nat
    BY DerivedBounds
  <2>1. /\ log = <<>> /\ Len(log) = 0 /\ log \in Seq(Transactions)
        /\ batch = <<>> /\ batch \in Seq(Rows) /\ <<>> \in Seq(Entries)
    BY <1>1, EmptySeq DEF Init
  <2>2. cache \in Caches /\ cache.order = <<>>
    BY <1>1, <2>1 DEF Init, Empty, Caches, Entries
  <2>3. \A r \in Readers : reader[r] = Idle /\ ~Fills(reader[r])
    BY <1>1 DEF Init, Idle, Fills
  <2>4. TypeOK
    <3>1. reader \in [Readers -> {Idle} \cup Lookups \cup Reads \cup Merges \cup Answers]
      BY <1>1 DEF Init
    <3>2. /\ Len(log) <= MaxPos /\ received \in 0 .. Len(log) /\ {position, applied} \subseteq 0 .. received
          /\ drops \in 0 .. MaxDrops /\ lost \in 0 .. MaxLost
      BY <1>1, <2>0, <2>1 DEF Init
    <3>3. /\ live \in BOOLEAN /\ armed \in BOOLEAN
          /\ phase \in {"down", "connected", "arming", "reading", "dropping", "disarming",
                        "row", "apply", "advance"}
      BY <1>1 DEF Init
    <3>. QED
      BY <2>1, <2>2, <3>1, <3>2, <3>3 DEF TypeOK
  <2>5. PhaseFits
    BY <1>1 DEF Init, PhaseFits, Handling, Handled
  <2>. QED
    BY <2>2, <2>3, <2>4, <2>5 DEF Shape, IndexFits, DownFits
<1>2. ASSUME Shape, [Next]_vars PROVE Shape'
  <2>1. CASE UNCHANGED vars
    <3>1. UNCHANGED <<dbVars, subVars, armed, applied>> /\ cache' = cache /\ reader' = reader
      BY <2>1 DEF vars, derivedVars
    <3>2. cache \in Caches /\ IndexFits(cache) /\ reader \in [Readers -> Stages] /\ DownFits
      BY <1>2, TypeFacts DEF Shape
    <3>3. DownFits'
      BY <3>1, <3>2 DEF DownFits, Fills, subVars
    <3>. QED
      BY <1>2, <3>1, <3>2, <3>3, RequestShape
  <2>2. CASE \/ Connect \/ ArmDerivedCaches \/ ArmCache
             \/ LoseConnection \/ DisarmDerivedCaches \/ DisarmCache
    BY <1>2, <2>2, SessionShape
  <2>3. CASE \/ \E rows \in Transactions : Write(rows)
             \/ Receive \/ OnRow \/ Applied \/ Advance \/ LoseRow \/ HandlePosition \/ OnPurge
             \/ \E k \in Keys : OnRoomInvalidated(k)
    BY <1>2, <2>3, RowShape
  <2>4. CASE \E r \in Readers :
               \/ \E k \in Keys, s \in Sets, horizon \in 0 .. Len(log) : Lookup(r, k, s, horizon)
               \/ GetHit(r) \/ GetMiss(r) \/ Query(r) \/ Merge(r) \/ Fill(r)
    BY <1>2, <2>4, LookupStep, GetHitStep, GetMissStep, QueryStep, MergeStep, FillStep
  <2>. QED
    BY <1>2, <2>1, <2>2, <2>3, <2>4 DEF Next
<1>. QED
  BY <1>1, <1>2

---------------------------------------------------------------------------
(* What holds whatever the rows name.                                      *)

\* The cache and its guard, the subscriber and the requests keep their shape.
THEOREM ShapeHolds == Spec => []Shape
<1>1. Init => Shape
  BY ShapeIsInductive
<1>2. Shape /\ [Next]_vars => Shape'
  BY ShapeIsInductive
<1>. QED
  BY <1>1, <1>2, PTL DEF Spec

\* Every variable keeps its type: what TypeOK checks on the instances, whatever
\* the number of positions, keys and requests (derivedCaches, lru.Cache).
THEOREM TypeCorrect == Spec => []TypeOK
<1>1. Shape => TypeOK
  BY DEF Shape
<1>. QED
  BY <1>1, ShapeHolds, PTL

\* The index of the cache has one element for a key, and the list is never longer
\* than Cache.max, through every Get, Add, Remove, Purge and SetArmed (lru.go:55-163).
THEOREM IndexAlwaysFits == Spec => []IndexFits(cache)
<1>1. Shape => IndexFits(cache)
  BY DEF Shape
<1>. QED
  BY <1>1, ShapeHolds, PTL

\* While the connection is down the cache is empty and its guard refuses: a
\* request that read before the drop cannot fill it (derived.go:193-209).
THEOREM NothingHeldWhileDown == Spec => []DownHoldsNothing
<1>1. Shape => DownHoldsNothing
  BY DEF Shape, PhaseFits, DownFits, DownHoldsNothing
<1>. QED
  BY <1>1, ShapeHolds, PTL

\* Only a POSITION that no row led up to closes an armed guard to this worker's
\* own token (ArmDerivedCaches, derived.go:170-176).
THEOREM QuietStreamKeepsAnswering == Spec => QuietStreamAnswers
<1>. DEFINE A == armed' /\ position' > applied' => (armed /\ position > applied) \/ HandlePosition
<1>1. Shape /\ [Next]_vars => A \/ UNCHANGED vars
  <2>1. SUFFICES ASSUME Shape, [Next]_vars, armed', position' > applied', ~HandlePosition,
                        ~(armed /\ position > applied)
                 PROVE  FALSE
    OBVIOUS
  <2>2. /\ PhaseFits /\ received \in Nat
        /\ position \in Nat /\ position <= received
        /\ applied \in Nat /\ applied <= received
    BY <2>1, TypeFacts DEF Shape
  <2>3. ASSUME UNCHANGED <<armed, applied, position>> PROVE FALSE
    BY <2>1, <2>3
  <2>4. CASE ArmDerivedCaches
    BY <2>1, <2>2, <2>4 DEF ArmDerivedCaches
  <2>5. CASE DisarmDerivedCaches
    BY <2>1, <2>5 DEF DisarmDerivedCaches
  <2>6. CASE Applied
    <3>1. applied' = received /\ position' = position
      BY <2>2, <2>6, HigherOf DEF Applied
    <3>. QED
      BY <2>1, <2>2, <3>1
  <2>7. CASE Advance
    <3>1. position' = received /\ applied' = applied /\ applied = received
      BY <2>2, <2>7, HigherOf DEF Advance, PhaseFits, derivedVars
    <3>. QED
      BY <2>1, <2>2, <3>1
  <2>8. CASE \E rows \in Transactions : Write(rows)
    BY <2>3, <2>8 DEF Write, subVars, derivedVars
  <2>9. CASE Connect \/ ArmCache \/ LoseConnection \/ DisarmCache \/ Receive \/ OnRow \/ LoseRow
    BY <2>3, <2>9
       DEF Connect, ArmCache, LoseConnection, DisarmCache, Receive, OnRow, LoseRow, derivedVars
  <2>10. CASE OnPurge \/ \E k \in Keys : OnRoomInvalidated(k)
    BY <2>3, <2>10 DEF OnPurge, OnRoomInvalidated, subVars
  <2>11. CASE \E r \in Readers :
               \/ \E k \in Keys, s \in Sets, horizon \in 0 .. Len(log) : Lookup(r, k, s, horizon)
               \/ GetHit(r) \/ GetMiss(r) \/ Query(r) \/ Merge(r) \/ Fill(r)
    BY <2>3, <2>11 DEF Lookup, GetHit, GetMiss, Query, Merge, Fill, subVars, derivedVars
  <2>12. CASE UNCHANGED vars
    BY <2>3, <2>12 DEF vars, subVars, derivedVars
  <2>. QED
    BY <2>1, <2>4, <2>5, <2>6, <2>7, <2>8, <2>9, <2>10, <2>11, <2>12 DEF Next
<1>2. Shape /\ [Next]_vars => [A]_vars
  BY <1>1
<1>3. Spec => [][Next]_vars
  BY PTL DEF Spec
<1>4. QuietStreamAnswers <=> [][A]_vars
  BY DEF QuietStreamAnswers
<1>. HIDE DEF A
<1>. QED
  BY <1>2, <1>3, <1>4, ShapeHolds, PTL
---------------------------------------------------------------------------
(* What the cache holds is as new as the rows the invalidator has acted on. *)

\* The numbers of a state, and what Fresh says of a token.
LEMMA HandledIs ==
  ASSUME Shape
  PROVE  /\ Handled \in Nat /\ Handled <= received /\ received - 1 <= Handled /\ position <= Handled
         /\ received \in Nat /\ Len(log) \in Nat /\ received <= Len(log)
         /\ Handling => Handled = received - 1
         /\ ~Handling => Handled = received
<1>1. received \in Nat /\ Len(log) \in Nat /\ received <= Len(log) /\ PhaseFits
  BY TypeFacts DEF Shape
<1>. QED
  BY <1>1 DEF PhaseFits, Handled

LEMMA FreshCovers ==
  ASSUME Shape, NEW k, NEW value \in Pos, Fresh(k, value), NEW h \in Nat, h <= Handled
  PROVE  LastChange(k, h) <= value
<1>1. Handled \in Nat /\ received \in Nat /\ Handled <= received
  BY HandledIs
<1>2. LastChange(k, h) <= LastChange(k, Handled) /\ LastChange(k, h) <= LastChange(k, received)
  BY <1>1, LastChangeOrder
<1>3. LastChange(k, h) \in Nat /\ LastChange(k, Handled) \in Nat /\ LastChange(k, received) \in Nat
  <2>1. \A p \in Nat : LastChange(k, p) \in 0 .. p
    BY LastChangeOrder
  <2>. QED
    BY <1>1, <2>1
<1>4. value \in Nat
  BY DEF Pos
<1>5. LastChange(k, received) <= value \/ LastChange(k, Handled) <= value
  BY DEF Fresh
<1>. QED
  BY <1>2, <1>3, <1>4, <1>5

\* A step of the subscriber's that overtakes the requests for the keys K and
\* removes them from the cache keeps what is fresh, if it does for the other keys.
StepKeeps(K) == \A k \in Keys \ K : \A value \in Pos : Fresh(k, value) => Fresh(k, value)'
Stable == \A k : \A p \in 0 .. Len(log) : LastChange(k, p)' = LastChange(k, p)

LEMMA SubscriberCurrent ==
  ASSUME Shape, Current, NEW K, reader' = Overtaken(K),
         Stable, Len(log') \in Nat, Len(log) <= Len(log'),
         Handled' \in Nat, Handled <= Handled', BatchNamed',
         lost' = 0 => lost = 0 /\ StepKeeps(K),
         \A i \in DOMAIN cache'.order :
           cache'.order[i].key \notin K /\ \E m \in DOMAIN cache.order : cache'.order[i] = cache.order[m]
  PROVE  Current'
<1>0. reader \in [Readers -> Stages] /\ Len(log) \in Nat /\ cache \in Caches
  BY TypeFacts DEF Shape
<1>1. Handled \in Nat
  BY HandledIs
<1>2. ASSUME NEW r \in Readers
      PROVE  /\ reader[r] \in Stages /\ reader'[r].at = reader[r].at
             /\ \/ reader'[r] = reader[r] /\ (reader[r].at \in {"read", "merged"} => reader[r].key \notin K)
                \/ reader[r].at \in {"read", "merged"} /\ reader'[r] = Raced(reader[r])
  BY <1>0, OvertakenIs
<1>3. ASSUME NEW r \in Readers
      PROVE  ReaderFits(reader[r])'
  <2>0. ReaderFits(reader[r])
    BY DEF Current
  <2>1. CASE reader'[r] = reader[r]
    <3>1. reader[r].at # "idle" => reader[r].horizon \in 0 .. Len(log)
      <4>1. reader[r].at # "idle" => reader[r].horizon \in Nat
        <5>1. reader[r] \in Stages /\ reader[r].at # "idle" => reader[r] \in Lookups \cup Reads \cup Merges \cup Answers
          BY <1>2 DEF Stages, Idle
        <5>. QED
          BY <1>2, <5>1 DEF Lookups, Reads, Merges, Answers, Pos
      <4>. QED
        BY <1>0, <2>0, <4>1 DEF ReaderFits
    <3>2. reader[r].at \in {"read", "merged"}
            => LastChange(reader[r].key, reader[r].horizon)' = LastChange(reader[r].key, reader[r].horizon)
      BY <2>1, <3>1 DEF Stable
    <3>3. reader[r].at # "idle" => reader[r].horizon <= Len(log')
      BY <1>0, <3>1
    <3>4. reader[r].at = "lookup" /\ reader[r].use /\ Judged(reader[r]) => reader[r].horizon <= Handled'
      BY <1>0, <1>1, <2>0, <3>1 DEF ReaderFits
    <3>5. reader[r].at \in {"read", "merged"}
            => LastChange(reader[r].key, reader[r].horizon) <= reader[r].value
      BY <2>0 DEF ReaderFits
    <3>6. (reader[r].at # "idle" => reader[r].horizon <= Len(log))'
      BY <2>1, <3>3
    <3>7. (reader[r].at = "lookup" /\ reader[r].use /\ Judged(reader[r]) => reader[r].horizon <= Handled)'
      BY <2>1, <3>4
    <3>8. (reader[r].at \in {"read", "merged"}
            => LastChange(reader[r].key, reader[r].horizon) <= reader[r].value)'
      BY <2>1, <3>2, <3>5
    <3>. QED
      BY <3>6, <3>7, <3>8 DEF ReaderFits
  <2>2. CASE reader[r].at \in {"read", "merged"} /\ reader'[r] = Raced(reader[r])
    <3>1. /\ reader'[r].at = reader[r].at /\ reader'[r].key = reader[r].key
          /\ reader'[r].horizon = reader[r].horizon /\ reader'[r].value = reader[r].value
      BY <1>2, <2>2, RacedShape
    <3>2. reader[r].horizon \in 0 .. Len(log)
      <4>1. reader[r] \in Reads \cup Merges
        BY <1>2, <2>2, StageShape
      <4>. QED
        BY <1>0, <2>0, <2>2, <4>1 DEF ReaderFits, Reads, Merges, Pos
    <3>3. LastChange(reader[r].key, reader[r].horizon)' = LastChange(reader[r].key, reader[r].horizon)
      BY <3>1, <3>2 DEF Stable
    <3>4. LastChange(reader[r].key, reader[r].horizon) <= reader[r].value
      BY <2>0, <2>2 DEF ReaderFits
    <3>. QED
      BY <1>0, <2>2, <3>1, <3>2, <3>3, <3>4 DEF ReaderFits
  <2>. QED
    BY <1>2, <2>1, <2>2
<1>4. ASSUME lost' = 0
      PROVE  CacheFresh'
  <2>1. CacheFresh /\ StepKeeps(K)
    BY <1>4 DEF Current
  <2>2. ASSUME NEW i \in DOMAIN cache'.order, NEW v \in cache'.order[i].value
        PROVE  v.raced \/ Fresh(cache.order[i].key, v.at)'
    <3>1. PICK m \in DOMAIN cache.order : cache'.order[i] = cache.order[m]
      OBVIOUS
    <3>2. cache.order[m] \in Entries /\ v \in cache.order[m].value /\ cache.order[m].key \notin K
      BY <1>0, <2>2, <3>1, OrderTypes
    <3>3. v \in Values /\ cache.order[m].key \in Keys \ K
      BY <3>2 DEF Entries
    <3>4. v.raced \/ Fresh(cache.order[m].key, v.at)
      BY <2>1, <3>2 DEF CacheFresh
    <3>5. v.at \in Pos
      BY <3>3 DEF Values
    <3>. DEFINE key == cache.order[m].key
    <3>6. key = cache'.order[i].key /\ key \in Keys \ K /\ (v.raced \/ Fresh(key, v.at))
      BY <3>1, <3>3, <3>4
    <3>. HIDE DEF key
    <3>. QED
      BY <2>1, <3>5, <3>6 DEF StepKeeps
  <2>. QED
    BY <2>2 DEF CacheFresh
<1>5. ASSUME lost' = 0, NEW r \in Readers
      PROVE  ReaderFresh(reader[r])'
  <2>0. ReaderFresh(reader[r]) /\ ReaderFits(reader[r]) /\ StepKeeps(K)
    BY <1>5 DEF Current
  <2>1. CASE reader[r].at \in {"read", "merged"} /\ reader'[r] = Raced(reader[r])
    <3>1. reader'[r].raced = TRUE /\ reader'[r].at = reader[r].at
      BY <1>2, <2>1, RacedShape
    <3>. QED
      BY <2>1, <3>1 DEF ReaderFresh
  <2>2. CASE reader'[r] = reader[r] /\ reader[r].at = "read" /\ reader[r].key \notin K
    <3>1. reader[r].key \in Keys \ K /\ reader[r].value \in Pos
      BY <1>2, <2>2, StageShape DEF Reads
    <3>2. reader[r].raced \/ Fresh(reader[r].key, reader[r].value)'
      BY <2>0, <2>2, <3>1 DEF ReaderFresh, StepKeeps
    <3>. QED
      BY <2>2, <3>2 DEF ReaderFresh
  <2>3. CASE reader'[r] = reader[r] /\ reader[r].at = "merged" /\ reader[r].key \notin K
    <3>1. reader[r].key \in Keys \ K /\ reader[r].bySet \in SUBSET Values
      BY <1>2, <2>3, StageShape DEF Merges
    <3>2. ASSUME NEW v \in reader[r].bySet
          PROVE  reader[r].raced \/ v.raced \/ Fresh(reader[r].key, v.at)'
      <4>1. v.at \in Pos
        BY <3>1 DEF Values
      <4>2. reader[r].raced \/ v.raced \/ Fresh(reader[r].key, v.at)
        BY <2>0, <2>3 DEF ReaderFresh
      <4>. QED
        BY <2>0, <2>3, <3>1, <4>1, <4>2 DEF StepKeeps
    <3>. QED
      BY <2>3, <3>2 DEF ReaderFresh
  <2>4. CASE reader'[r] = reader[r] /\ reader[r].at = "answered"
    <3>1. reader[r].horizon \in 0 .. Len(log)
      <4>1. reader[r] \in Answers
        BY <1>2, <2>4, StageShape
      <4>. QED
        BY <1>0, <2>0, <2>4, <4>1 DEF ReaderFits, Answers, Pos
    <3>2. LastChange(reader[r].key, reader[r].horizon)' = LastChange(reader[r].key, reader[r].horizon)
      BY <2>4, <3>1 DEF Stable
    <3>. QED
      BY <2>0, <2>4, <3>2 DEF ReaderFresh
  <2>5. CASE reader'[r] = reader[r] /\ reader[r].at \notin {"read", "merged", "answered"}
    BY <2>5 DEF ReaderFresh
  <2>. QED
    BY <1>2, <2>1, <2>2, <2>3, <2>4, <2>5
<1>. QED
  BY <1>3, <1>4, <1>5 DEF Current
\* Without a write what the database says does not change, and neither does what is
\* fresh while no row is being handled.
LEMMA UnwrittenIsStable ==
  ASSUME log' = log
  PROVE  Stable
BY LastChangeIsLastIn DEF Stable

LEMMA QuietKeeps ==
  ASSUME Shape, ~Handling, ~Handling', received' = received, Stable, NEW K
  PROVE  StepKeeps(K)
<1>1. received \in 0 .. Len(log)
  BY HandledIs
<1>2. ASSUME NEW k \in Keys, NEW value \in Pos, Fresh(k, value)
      PROVE  Fresh(k, value)'
  <2>1. LastChange(k, received) <= value
    BY <1>2 DEF Fresh, Due, Handling
  <2>2. LastChange(k, received)' = LastChange(k, received)
    BY <1>1 DEF Stable
  <2>. QED
    BY <2>1, <2>2 DEF Fresh
<1>. QED
  BY <1>2 DEF StepKeeps

\* A step that overtakes nobody.
LEMMA NoneOvertaken ==
  ASSUME reader \in [Readers -> Stages]
  PROVE  Overtaken({}) = reader
<1>1. \A r \in Readers : Overtaken({})[r] = reader[r]
  BY OvertakenIs
<1>2. Overtaken({}) \in [Readers -> Stages]
  BY OvertakenIs
<1>. QED
  BY <1>1, <1>2

\* The session, and the steps between two rows.
LEMMA QuietCurrent ==
  ASSUME Shape, Current,
         \/ Connect \/ ArmDerivedCaches \/ ArmCache
         \/ LoseConnection \/ DisarmDerivedCaches \/ DisarmCache
         \/ Advance \/ LoseRow \/ HandlePosition \/ OnPurge
         \/ \E k \in Keys : OnRoomInvalidated(k)
  PROVE  Current'
<1>0. /\ TypeOK /\ PhaseFits /\ DownFits /\ IndexFits(cache) /\ cache \in Caches
      /\ reader \in [Readers -> Stages]
  BY TypeFacts DEF Shape
<1>1. log' = log /\ batch' = batch /\ ~Handling /\ ~Handling'
  BY DEF Connect, ArmDerivedCaches, ArmCache, LoseConnection, DisarmDerivedCaches, DisarmCache,
         Advance, LoseRow, HandlePosition, OnPurge, OnRoomInvalidated, Handling, dbVars, subVars
<1>2. Stable /\ BatchNamed' /\ Len(log') = Len(log)
  BY <1>1, UnwrittenIsStable DEF Current, BatchNamed
<1>3. Len(log) \in Nat /\ received \in Nat /\ received <= Len(log) /\ Handled = received /\ Handled' = received'
  BY <1>1, HandledIs DEF Handled
<1>4. Overtaken({}) = reader
  BY <1>0, NoneOvertaken
<1>5. DOMAIN cache.order = 1 .. Len(cache.order) /\ Len(cache.order) \in Nat
  BY <1>0, OrderTypes
<1>6. CASE Connect
  <2>1. received' \in Nat /\ received <= received' /\ reader' = Overtaken(Keys)
    BY <1>3, <1>6 DEF Connect
  <2>2. cache'.order = <<>>
    BY <1>0, <1>6 DEF Connect, DownFits, derivedVars
  <2>3. \A i \in DOMAIN cache'.order : FALSE
    BY <2>2
  <2>4. lost' = lost /\ StepKeeps(Keys)
    BY <1>6 DEF Connect, StepKeeps
  <2>. QED
    BY <1>2, <1>3, <2>1, <2>3, <2>4, SubscriberCurrent
<1>7. CASE \/ ArmDerivedCaches \/ ArmCache \/ LoseConnection \/ DisarmDerivedCaches
           \/ Advance \/ HandlePosition
  <2>1. received' = received /\ lost' = lost /\ reader' = Overtaken({}) /\ cache'.order = cache.order
    BY <1>4, <1>7 DEF ArmDerivedCaches, ArmCache, LoseConnection, DisarmDerivedCaches, Advance,
                      HandlePosition, SetArmed, derivedVars
  <2>2. StepKeeps({})
    BY <1>1, <1>2, <2>1, QuietKeeps
  <2>. QED
    BY <1>2, <1>3, <2>1, <2>2, SubscriberCurrent
<1>8. CASE LoseRow
  <2>1. received' = received + 1 /\ reader' = Overtaken({}) /\ cache' = cache
    BY <1>4, <1>8 DEF LoseRow, derivedVars
  <2>2. lost' # 0
    <3>1. lost \in Nat /\ lost' = lost + 1
      BY <1>0, <1>8, DerivedBounds DEF LoseRow, TypeOK
    <3>. QED
      BY <3>1
  <2>. QED
    BY <1>2, <1>3, <2>1, <2>2, SubscriberCurrent
<1>9. CASE DisarmCache \/ OnPurge
  <2>1. received' = received /\ lost' = lost /\ reader' = Overtaken(Keys) /\ cache'.order = <<>>
    BY <1>0, <1>9 DEF DisarmCache, OnPurge, SetArmed, Purge, Caches, subVars
  <2>2. \A i \in DOMAIN cache'.order : FALSE
    BY <2>1
  <2>3. StepKeeps(Keys)
    BY DEF StepKeeps
  <2>. QED
    BY <1>2, <1>3, <2>1, <2>2, <2>3, SubscriberCurrent
<1>10. ASSUME NEW k \in Keys, OnRoomInvalidated(k)
       PROVE  Current'
  <2>1. received' = received /\ lost' = lost /\ reader' = Overtaken({k}) /\ cache' = RemoveKey(cache, k)
    BY <1>10 DEF OnRoomInvalidated, subVars
  <2>2. \A i \in DOMAIN cache'.order :
          cache'.order[i].key \notin {k} /\ \E m \in DOMAIN cache.order : cache'.order[i] = cache.order[m]
    BY <1>0, <2>1, RemoveKeeps
  <2>3. StepKeeps({k})
    BY <1>1, <1>2, <2>1, QuietKeeps
  <2>4. Len(log') \in Nat /\ Len(log) <= Len(log') /\ Handled' \in Nat /\ Handled <= Handled'
    BY <1>2, <1>3, <2>1
  <2>. DEFINE K == {k}
  <2>5. /\ reader' = Overtaken(K) /\ StepKeeps(K)
        /\ \A i \in DOMAIN cache'.order :
             cache'.order[i].key \notin K /\ \E m \in DOMAIN cache.order : cache'.order[i] = cache.order[m]
    BY <2>1, <2>2, <2>3
  <2>. HIDE DEF K
  <2>. QED
    BY <1>2, <2>1, <2>4, <2>5, SubscriberCurrent
<1>. QED
  BY <1>6, <1>7, <1>8, <1>9, <1>10

\* A write changes nothing up to the positions that have been delivered.
LEMMA WriteCurrent ==
  ASSUME Shape, Current, NEW rows \in Transactions, Write(rows)
  PROVE  Current'
<1>0. cache \in Caches /\ log \in Seq(Transactions) /\ reader \in [Readers -> Stages]
  BY TypeFacts DEF Shape
<1>1. /\ log' = Append(log, rows) /\ Len(log') = Len(log) + 1
      /\ UNCHANGED <<received, phase, batch, lost, cache, reader>>
  BY <1>0, AppendProperties DEF Write, subVars, derivedVars
<1>2. Stable
  BY <1>0, <1>1, LastInStable, LastChangeIsLastIn DEF Stable
<1>3. /\ Len(log) \in Nat /\ received \in 0 .. Len(log) /\ Handled \in 0 .. Len(log)
      /\ Handled' = Handled /\ received' = received
  BY <1>1, HandledIs DEF Handled, Handling
<1>4. StepKeeps({})
  <2>1. SUFFICES ASSUME NEW k \in Keys, NEW value \in Pos, Fresh(k, value) PROVE Fresh(k, value)'
    BY DEF StepKeeps
  <2>2. Due(k)' <=> Due(k)
    BY <1>1 DEF Due
  <2>3. LastChange(k, received)' = LastChange(k, received) /\ LastChange(k, Handled)' = LastChange(k, Handled)
    BY <1>2, <1>3 DEF Stable
  <2>. QED
    BY <2>1, <2>2, <2>3 DEF Fresh
<1>5. reader' = Overtaken({}) /\ BatchNamed'
  BY <1>0, <1>1, NoneOvertaken DEF Current, BatchNamed
<1>6. Len(log') \in Nat /\ Len(log) <= Len(log') /\ Handled' \in Nat /\ Handled <= Handled'
  BY <1>1, <1>3
<1>. QED
  BY <1>1, <1>2, <1>4, <1>5, <1>6, SubscriberCurrent
\* The rows of a position are due from when they are received ...
LEMMA ReceiveCurrent ==
  ASSUME Shape, Current, AllNamed, Receive
  PROVE  Current'
<1>0. cache \in Caches /\ log \in Seq(Transactions) /\ reader \in [Readers -> Stages]
  BY TypeFacts DEF Shape
<1>1. /\ log' = log /\ received' = received + 1 /\ received < Len(log) /\ batch' = log[received + 1]
      /\ phase = "reading" /\ phase' = "row" /\ lost' = lost /\ cache' = cache
  BY DEF Receive, dbVars, derivedVars
<1>2. Stable /\ reader' = Overtaken({})
  BY <1>0, <1>1, UnwrittenIsStable, NoneOvertaken DEF Receive
<1>3. Len(log) \in Nat /\ received \in Nat /\ Handled = received /\ ~Handling /\ Handling'
  BY <1>1, HandledIs DEF Handling
<1>4. Handled' = received
  BY <1>1, <1>3 DEF Handled
<1>5. batch' \in Transactions /\ batch' \in Seq(Rows)
  <2>1. received + 1 \in 1 .. Len(log)
    BY <1>1, <1>3
  <2>2. log[received + 1] \in Transactions
    BY <1>0, <2>1, ElementOfSeq
  <2>. QED
    BY <1>1, <2>2, TransactionsAssumption
<1>6. BatchNamed'
  BY <1>5 DEF AllNamed, BatchNamed
<1>7. StepKeeps({})
  <2>1. SUFFICES ASSUME NEW k \in Keys, NEW value \in Pos, Fresh(k, value) PROVE Fresh(k, value)'
    BY DEF StepKeeps
  <2>2. LastIn(log, k, received) <= value
    BY <1>3, <2>1, LastChangeIsLastIn DEF Fresh, Due, Handling
  <2>3. CASE ChangedAt(log, k, received + 1)
    <3>1. PICK row \in Range(batch') : row.key = k
      BY <1>1, <2>3 DEF ChangedAt
    <3>2. \E i \in DOMAIN batch' : batch'[i].key = k
      BY <3>1 DEF Range
    <3>3. Due(k)'
      BY <1>1, <3>2 DEF Due
    <3>4. LastChange(k, Handled)' = LastIn(log, k, received)
      BY <1>1, <1>4, LastChangeIsLastIn
    <3>. QED
      BY <2>2, <3>3, <3>4 DEF Fresh
  <2>4. CASE ~ChangedAt(log, k, received + 1)
    <3>1. LastIn(log, k, received + 1) = LastIn(log, k, received)
      BY <1>3, <2>4, LastInSkips
    <3>2. LastChange(k, received)' = LastIn(log, k, received)
      BY <1>1, <3>1, LastChangeIsLastIn
    <3>. QED
      BY <2>2, <3>2 DEF Fresh
  <2>. QED
    BY <2>3, <2>4
<1>8. Len(log') \in Nat /\ Len(log) <= Len(log') /\ Handled' \in Nat /\ Handled <= Handled'
  BY <1>1, <1>3, <1>4
<1>. QED
  BY <1>1, <1>2, <1>6, <1>7, <1>8, SubscriberCurrent

\* ... until the invalidator has dropped what they name ...
LEMMA OnRowCurrent ==
  ASSUME Shape, Current, OnRow
  PROVE  Current'
<1>0. cache \in Caches /\ IndexFits(cache) /\ batch \in Seq(Rows) /\ reader \in [Readers -> Stages]
  BY TypeFacts DEF Shape
<1>1. log' = log /\ received' = received /\ batch' = batch /\ phase = "row" /\ phase' = "apply" /\ lost' = lost
  BY DEF OnRow, dbVars
<1>2. batch # <<>> /\ Len(batch) \in Nat /\ 1 \in DOMAIN batch /\ Head(batch) = batch[1]
  <2>1. batch # <<>>
    BY <1>1 DEF Shape, PhaseFits, Handling
  <2>2. Len(batch) \in Nat /\ Len(batch) # 0 /\ DOMAIN batch = 1 .. Len(batch)
    BY <1>0, <2>1, LenProperties, EmptySeq
  <2>. QED
    BY <2>1, <2>2
<1>. DEFINE key == Head(batch).key
            K == {key}
<1>3. reader' = Overtaken(K) /\ cache' = RemoveKey(cache, key)
  BY <1>2 DEF OnRow, Current, BatchNamed
<1>4. \A i \in DOMAIN cache'.order :
        cache'.order[i].key # key /\ \E m \in DOMAIN cache.order : cache'.order[i] = cache.order[m]
  BY <1>0, <1>3, RemoveKeeps
<1>5. Stable /\ BatchNamed' /\ Len(log') = Len(log)
  BY <1>1, UnwrittenIsStable DEF Current, BatchNamed
<1>6. Handled' = Handled /\ Handled \in 0 .. Len(log) /\ received \in 0 .. Len(log) /\ Len(log) \in Nat
  BY <1>1, HandledIs DEF Handled, Handling
<1>7. StepKeeps(K)
  <2>1. SUFFICES ASSUME NEW k \in Keys, k # key, NEW value \in Pos, Fresh(k, value) PROVE Fresh(k, value)'
    BY DEF StepKeeps
  <2>2. Due(k) => Due(k)'
    BY <1>1, <1>2, <2>1 DEF Due
  <2>3. LastChange(k, received)' = LastChange(k, received) /\ LastChange(k, Handled)' = LastChange(k, Handled)
    BY <1>1, <1>5, <1>6 DEF Stable
  <2>. QED
    BY <2>1, <2>2, <2>3 DEF Fresh
<1>8. \A i \in DOMAIN cache'.order :
        cache'.order[i].key \notin K /\ \E m \in DOMAIN cache.order : cache'.order[i] = cache.order[m]
  BY <1>4
<1>9. Len(log') \in Nat /\ Len(log) <= Len(log') /\ Handled' \in Nat /\ Handled <= Handled'
  BY <1>5, <1>6
<1>. HIDE DEF K
<1>. QED
  BY <1>1, <1>3, <1>5, <1>7, <1>8, <1>9, SubscriberCurrent

\* ... and the position counts as applied when the last of them has been.
LEMMA AppliedCurrent ==
  ASSUME Shape, Current, Applied
  PROVE  Current'
<1>0. cache \in Caches /\ batch \in Seq(Rows) /\ reader \in [Readers -> Stages]
  BY TypeFacts DEF Shape
<1>1. /\ log' = log /\ received' = received /\ batch' = Tail(batch) /\ phase = "apply" /\ lost' = lost
      /\ phase' = IF Len(batch) > 1 THEN "row" ELSE "advance"
      /\ cache' = cache
  BY DEF Applied, dbVars
<1>2. batch # <<>> /\ Len(batch) \in Nat /\ DOMAIN batch = 1 .. Len(batch)
  BY <1>0, <1>1, LenProperties DEF Shape, PhaseFits, Handling
<1>3. DOMAIN batch' = 1 .. Len(batch) - 1 /\ \A i \in 1 .. Len(batch) - 1 : batch'[i] = batch[i + 1]
  <2>1. /\ Tail(batch) \in Seq(Rows) /\ Len(Tail(batch)) = Len(batch) - 1
        /\ \A i \in 1 .. Len(Tail(batch)) : Tail(batch)[i] = batch[i + 1]
    BY <1>0, <1>2, HeadTailProperties
  <2>2. DOMAIN Tail(batch) = 1 .. Len(Tail(batch))
    BY <2>1, LenProperties
  <2>. QED
    BY <1>1, <2>1, <2>2
<1>4. BatchNamed'
  <2>1. \A i \in 1 .. Len(batch) - 1 : i + 1 \in DOMAIN batch
    BY <1>2
  <2>. QED
    BY <1>3, <2>1 DEF Current, BatchNamed
<1>5. Stable /\ reader' = Overtaken({})
  BY <1>0, <1>1, UnwrittenIsStable, NoneOvertaken DEF Applied
<1>6. /\ Len(log) \in Nat /\ received \in Nat /\ received <= Len(log) /\ Handled \in Nat
      /\ Handled = received - 1 /\ Handling
  BY <1>1, HandledIs DEF Handling
<1>7. Handled' = (IF Len(batch) > 1 THEN Handled ELSE received)
  BY <1>1, <1>6 DEF Handled, Handling
<1>8. StepKeeps({})
  <2>1. SUFFICES ASSUME NEW k \in Keys, NEW value \in Pos, Fresh(k, value) PROVE Fresh(k, value)'
    BY DEF StepKeeps
  <2>2. received \in 0 .. Len(log) /\ Handled \in 0 .. Len(log)
    BY <1>6
  <2>3. LastChange(k, received)' = LastChange(k, received)
    BY <1>1, <1>5, <2>2 DEF Stable
  <2>4. CASE LastChange(k, received) <= value
    BY <2>3, <2>4 DEF Fresh
  <2>5. CASE Due(k) /\ LastChange(k, Handled) <= value
    <3>1. PICK i \in DOMAIN batch : i # 1 /\ batch[i].key = k
      BY <1>1, <2>5 DEF Due
    <3>2. i - 1 \in 1 .. Len(batch) - 1 /\ i - 1 + 1 = i /\ Len(batch) > 1
      BY <1>2, <3>1
    <3>3. i - 1 \in DOMAIN batch' /\ batch'[i - 1].key = k
      BY <1>3, <3>1, <3>2
    <3>4. phase' = "row" /\ Handled' = Handled
      BY <1>1, <1>7, <3>2
    <3>5. Due(k)'
      BY <3>3, <3>4 DEF Due
    <3>6. LastChange(k, Handled)' = LastChange(k, Handled)
      BY <1>5, <2>2, <3>4 DEF Stable
    <3>. QED
      BY <2>5, <3>5, <3>6 DEF Fresh
  <2>. QED
    BY <2>1, <2>4, <2>5 DEF Fresh
<1>9. Len(log') \in Nat /\ Len(log) <= Len(log') /\ Handled' \in Nat /\ Handled <= Handled'
  BY <1>1, <1>6, <1>7
<1>. QED
  BY <1>1, <1>4, <1>5, <1>8, <1>9, SubscriberCurrent
\* A step of a request: what the others hold is as fresh as it was, and so is what
\* the cache keeps.
LEMMA RequestCurrent ==
  ASSUME Shape, Current, NEW r \in Readers, NEW q \in Stages, reader' = [reader EXCEPT ![r] = q],
         UNCHANGED <<dbVars, subVars, armed, applied>>,
         ReaderFits(q), lost = 0 => ReaderFresh(q),
         lost = 0 => \A i \in DOMAIN cache'.order :
           \/ \E m \in DOMAIN cache.order : cache'.order[i] = cache.order[m]
           \/ \A v \in cache'.order[i].value : v.raced \/ Fresh(cache'.order[i].key, v.at)
  PROVE  Current'
<1>0. /\ reader'[r] = q
      /\ \A o \in Readers : o # r => reader'[o] = reader[o]
  <2>1. reader \in [Readers -> Stages]
    BY TypeFacts DEF Shape
  <2>. QED
    BY <2>1, OneRequest
<1>1. log' = log /\ received' = received /\ phase' = phase /\ batch' = batch /\ lost' = lost
  BY DEF dbVars, subVars
<1>2. /\ \A k, p : LastChange(k, p)' = LastChange(k, p)
      /\ Handled' = Handled /\ BatchNamed'
      /\ \A k : Due(k)' <=> Due(k)
  BY <1>1, LastChangeIsLastIn DEF Handled, Handling, Due, Current, BatchNamed
<1>3. \A k, value : Fresh(k, value)' <=> Fresh(k, value)
  BY <1>1, <1>2 DEF Fresh
<1>4. ASSUME NEW o \in Readers
      PROVE  ReaderFits(reader[o])'
  <2>1. ReaderFits(reader'[o])
    BY <1>0 DEF Current
  <2>. QED
    BY <1>1, <1>2, <2>1 DEF ReaderFits
<1>5. ASSUME lost' = 0, NEW o \in Readers
      PROVE  ReaderFresh(reader[o])'
  <2>1. ReaderFresh(reader'[o])
    BY <1>0, <1>1, <1>5 DEF Current
  <2>. QED
    BY <1>2, <1>3, <2>1 DEF ReaderFresh
<1>6. ASSUME lost' = 0, NEW i \in DOMAIN cache'.order, NEW v \in cache'.order[i].value
      PROVE  v.raced \/ Fresh(cache.order[i].key, v.at)'
  <2>1. v.raced \/ Fresh(cache'.order[i].key, v.at)
    <3>1. CASE \E m \in DOMAIN cache.order : cache'.order[i] = cache.order[m]
      BY <1>1, <1>6, <3>1 DEF Current, CacheFresh
    <3>2. CASE \A w \in cache'.order[i].value : w.raced \/ Fresh(cache'.order[i].key, w.at)
      BY <1>6, <3>2
    <3>. QED
      BY <1>1, <1>6, <3>1, <3>2
  <2>. QED
    BY <1>3, <2>1
<1>7. lost' = 0 => CacheFresh'
  BY <1>6 DEF CacheFresh
<1>. QED
  BY <1>2, <1>4, <1>5, <1>7 DEF Current

\* The token of a request that may be served from the cache has been handled.
LEMMA LookupCurrent ==
  ASSUME Shape, SinglesFit, Current, NEW r \in Readers, NEW k \in Keys, NEW s \in Sets,
         NEW horizon \in 0 .. Len(log), Lookup(r, k, s, horizon)
  PROVE  Current'
<1>. DEFINE q == LookedUp(k, s, horizon)
<1>1. /\ q \in Lookups /\ reader' = [reader EXCEPT ![r] = q]
      /\ cache' = cache /\ UNCHANGED <<dbVars, subVars, armed, applied>>
  BY LookupStep
<1>2. /\ q.at = "lookup" /\ q.horizon = horizon /\ (q.own <=> horizon = NowToken)
      /\ (q.use <=> armed /\ applied >= horizon)
  BY DEF LookedUp, fresh
<1>3. /\ PhaseFits /\ applied \in Nat /\ applied <= received /\ position <= Handled /\ Len(log) \in Nat
      /\ position \in Nat /\ Handled \in Nat /\ received \in Nat
      /\ ~Handling => Handled = received
  BY TypeFacts, HandledIs DEF Shape
<1>4. ASSUME q.use, Judged(q)
      PROVE  horizon <= Handled
  <2>0. CASE SingleRows
    BY <1>2, <1>3, <1>4, <2>0 DEF SinglesFit
  <2>. SUFFICES ASSUME q.own PROVE horizon <= Handled
    BY <1>4, <2>0 DEF Judged
  <2>1. CASE live
    BY <1>2, <1>3, <1>4, <2>1 DEF NowToken
  <2>2. CASE ~live
    <3>1. phase \in {"down", "dropping", "disarming"} /\ phase \notin {"down", "connected", "disarming"}
      BY <1>2, <1>3, <1>4, <2>2 DEF PhaseFits
    <3>2. ~Handling
      BY <3>1 DEF Handling
    <3>. QED
      BY <1>2, <1>3, <1>4, <3>2
  <2>. QED
    BY <2>1, <2>2
<1>5. q \in Stages
  BY <1>1 DEF Stages
<1>. HIDE DEF q
<1>6. ReaderFits(q)
  BY <1>2, <1>3, <1>4 DEF ReaderFits
<1>7. ReaderFresh(q)
  BY <1>2 DEF ReaderFresh
<1>. QED
  BY <1>1, <1>5, <1>6, <1>7, RequestCurrent

\* What a hit answers is fresh, and its token handled.
LEMMA GetHitCurrent ==
  ASSUME Shape, Current, NEW r \in Readers, GetHit(r)
  PROVE  Current'
<1>0. cache \in Caches /\ Len(log) \in Nat /\ Handled \in Nat
  BY TypeFacts, HandledIs DEF Shape
<1>1. /\ reader[r] \in Lookups /\ reader[r].at = "lookup" /\ reader[r].use
      /\ \A i \in DOMAIN cache'.order : \E m \in DOMAIN cache.order : cache'.order[i] = cache.order[m]
      /\ UNCHANGED <<dbVars, subVars, armed, applied>>
  BY GetHitStep
<1>2. PICK v \in Held(reader[r].key) :
        /\ Answered(reader[r], v.at, v.raced) \in Answers
        /\ reader' = [reader EXCEPT ![r] = Answered(reader[r], v.at, v.raced)]
  BY GetHitStep
<1>. DEFINE a == Answered(reader[r], v.at, v.raced)
            k == reader[r].key
            horizon == reader[r].horizon
<1>3. /\ a.at = "answered" /\ a.key = k /\ a.horizon = horizon /\ a.own = reader[r].own
      /\ a.value = v.at /\ a.raced = v.raced
  BY DEF Answered
<1>4. v \in Values /\ \E i \in DOMAIN cache.order : cache.order[i].key = k /\ v \in cache.order[i].value
  BY <1>0, HeldIsInTheEntry
<1>5. /\ horizon \in Nat /\ horizon <= Len(log)
      /\ Judged(reader[r]) => horizon <= Handled
  BY <1>1 DEF Current, ReaderFits, Lookups, Pos
<1>6. a \in Stages
  BY <1>2 DEF Stages
<1>7. v.at \in Pos
  BY <1>4 DEF Values
<1>. HIDE DEF a, k, horizon
<1>8. ReaderFits(a)
  BY <1>3, <1>5 DEF ReaderFits
<1>9. ASSUME lost = 0 PROVE ReaderFresh(a)
  <2>1. v.raced \/ Fresh(k, v.at)
    BY <1>4, <1>9 DEF Current, CacheFresh
  <2>2. Judged(a) => v.raced \/ LastChange(k, horizon) <= v.at
    BY <1>3, <1>5, <1>7, <2>1, FreshCovers DEF Judged
  <2>. QED
    BY <1>3, <2>2 DEF ReaderFresh
<1>. QED
  BY <1>1, <1>2, <1>6, <1>8, <1>9, RequestCurrent DEF a

\* A miss holds nothing.
LEMMA GetMissCurrent ==
  ASSUME Shape, Current, NEW r \in Readers, GetMiss(r)
  PROVE  Current'
<1>. DEFINE q == [reader[r] EXCEPT !.at = "query"]
<1>1. /\ reader[r] \in Lookups /\ q \in Lookups /\ reader' = [reader EXCEPT ![r] = q]
      /\ \A i \in DOMAIN cache'.order : \E m \in DOMAIN cache.order : cache'.order[i] = cache.order[m]
      /\ UNCHANGED <<dbVars, subVars, armed, applied>>
  BY GetMissStep
<1>2. q.at = "query" /\ q.horizon = reader[r].horizon /\ reader[r].at # "idle"
  BY <1>1 DEF Lookups
<1>3. q \in Stages
  BY <1>1 DEF Stages
<1>4. reader[r].horizon <= Len(log)
  BY <1>2 DEF Current, ReaderFits
<1>. HIDE DEF q
<1>5. ReaderFits(q) /\ ReaderFresh(q)
  BY <1>2, <1>4 DEF ReaderFits, ReaderFresh
<1>. QED
  BY <1>1, <1>3, <1>5, RequestCurrent

\* What the database answers is as new as anything written.
LEMMA QueryCurrent ==
  ASSUME Shape, Current, NEW r \in Readers, Query(r)
  PROVE  Current'
<1>. DEFINE q == reader[r]
            a == Queried(q)
            value == LastChange(q.key, Len(log))
<1>1. /\ q \in Lookups /\ a \in Reads \cup Answers /\ reader' = [reader EXCEPT ![r] = a]
      /\ cache' = cache /\ UNCHANGED <<dbVars, subVars, armed, applied>>
  BY QueryStep
<1>2. q.at # "idle" /\ q.horizon \in Nat
  BY <1>1 DEF Lookups, Pos
<1>3. q.horizon <= Len(log)
  BY <1>2 DEF Current, ReaderFits
<1>4. /\ a.at \in {"read", "answered"} /\ a.key = q.key /\ a.horizon = q.horizon
      /\ a.value = value /\ a.raced = FALSE
  BY DEF Queried, Answered
<1>5. LastChange(q.key, q.horizon) <= value /\ LastChange(q.key, received) <= value
  <2>1. Len(log) \in Nat /\ received \in Nat /\ received <= Len(log)
    BY HandledIs
  <2>. QED
    BY <1>2, <1>3, <2>1, LastChangeOrder
<1>6. a \in Stages
  BY <1>1 DEF Stages
<1>7. Fresh(q.key, value)
  BY <1>5 DEF Fresh
<1>. HIDE DEF a, value, q
<1>8. ReaderFits(a)
  BY <1>3, <1>4, <1>5 DEF ReaderFits
<1>9. ReaderFresh(a)
  BY <1>4, <1>5, <1>7 DEF ReaderFresh
<1>. QED
  BY <1>1, <1>6, <1>8, <1>9, RequestCurrent

\* What is merged is the answer and what the cache held.
LEMMA MergeCurrent ==
  ASSUME Shape, Current, NEW r \in Readers, Merge(r)
  PROVE  Current'
<1>. DEFINE q == reader[r]
            a == Merged(q)
            new == [set |-> q.set, at |-> q.value, raced |-> FALSE]
<1>0. cache \in Caches
  BY TypeFacts DEF Shape
<1>1. /\ q \in Reads /\ a \in Merges /\ reader' = [reader EXCEPT ![r] = a]
      /\ \A i \in DOMAIN cache'.order : \E m \in DOMAIN cache.order : cache'.order[i] = cache.order[m]
      /\ UNCHANGED <<dbVars, subVars, armed, applied>>
  BY MergeStep
<1>2. q.at = "read"
  BY <1>1 DEF Reads
<1>3. q.horizon <= Len(log) /\ LastChange(q.key, q.horizon) <= q.value
  BY <1>2 DEF Current, ReaderFits
<1>4. /\ a.at = "merged" /\ a.key = q.key /\ a.horizon = q.horizon /\ a.value = q.value /\ a.raced = q.raced
      /\ \A v \in a.bySet : v \in Held(q.key) \/ v = new
  BY DEF Merged
<1>5. a \in Stages
  BY <1>1 DEF Stages
<1>6. ASSUME lost = 0, NEW v \in a.bySet
      PROVE  q.raced \/ v.raced \/ Fresh(q.key, v.at)
  <2>1. CASE v = new
    BY <1>2, <1>6, <2>1 DEF Current, ReaderFresh
  <2>2. CASE v \in Held(q.key)
    <3>1. PICK i \in DOMAIN cache.order : cache.order[i].key = q.key /\ v \in cache.order[i].value
      BY <1>0, <2>2, HeldIsInTheEntry
    <3>2. v.raced \/ Fresh(cache.order[i].key, v.at)
      BY <1>6, <3>1 DEF Current, CacheFresh
    <3>. QED
      BY <3>1, <3>2
  <2>. QED
    BY <1>4, <1>6, <2>1, <2>2
<1>. HIDE DEF a, q
<1>7. ReaderFits(a)
  BY <1>3, <1>4 DEF ReaderFits
<1>8. lost = 0 => ReaderFresh(a)
  BY <1>4, <1>6 DEF ReaderFresh
<1>. QED
  BY <1>1, <1>5, <1>7, <1>8, RequestCurrent

\* What is put back is fresh, or marked as overtaken.
LEMMA FillCurrent ==
  ASSUME Shape, Current, NEW r \in Readers, Fill(r)
  PROVE  Current'
<1>. DEFINE q == reader[r]
            a == Answered(q, q.value, FALSE)
<1>1. /\ q \in Merges /\ a \in Answers /\ reader' = [reader EXCEPT ![r] = a]
      /\ \A i \in DOMAIN cache'.order :
           \/ cache'.order[i] = Entry(q.key, Filled(q))
           \/ \E m \in DOMAIN cache.order : cache'.order[i] = cache.order[m]
      /\ UNCHANGED <<dbVars, subVars, armed, applied>>
  BY FillStep
<1>2. q.at = "merged" /\ q.bySet \in SUBSET Values
  BY <1>1 DEF Merges
<1>3. q.horizon <= Len(log) /\ LastChange(q.key, q.horizon) <= q.value
  BY <1>2 DEF Current, ReaderFits
<1>4. a.at = "answered" /\ a.key = q.key /\ a.horizon = q.horizon /\ a.value = q.value
  BY DEF Answered
<1>5. a \in Stages
  BY <1>1 DEF Stages
<1>6. ASSUME lost = 0, NEW w \in Filled(q)
      PROVE  w.raced \/ Fresh(q.key, w.at)
  <2>1. PICK v \in q.bySet : w = [v EXCEPT !.raced = @ \/ q.raced]
    BY DEF Filled
  <2>2. v \in Values /\ (q.raced \/ v.raced \/ Fresh(q.key, v.at))
    BY <1>2, <1>6 DEF Current, ReaderFresh
  <2>3. w.at = v.at /\ w.raced = (v.raced \/ q.raced)
    BY <2>1, <2>2 DEF Values
  <2>. QED
    BY <2>2, <2>3
<1>7. ASSUME lost = 0, NEW i \in DOMAIN cache'.order, cache'.order[i] = Entry(q.key, Filled(q))
      PROVE  \A v \in cache'.order[i].value : v.raced \/ Fresh(cache'.order[i].key, v.at)
  <2>1. cache'.order[i].key = q.key /\ cache'.order[i].value = Filled(q)
    BY <1>7 DEF Entry
  <2>. QED
    BY <1>6, <1>7, <2>1
<1>. HIDE DEF a, q
<1>8. ReaderFits(a) /\ ReaderFresh(a)
  BY <1>3, <1>4 DEF ReaderFits, ReaderFresh
<1>. QED
  BY <1>1, <1>5, <1>7, <1>8, RequestCurrent

---------------------------------------------------------------------------
(* The token of this worker's.                                             *)

\* Without batches no position counts as applied while a row of it is due.
LEMMA SinglesFitIsInductive ==
  /\ Init => SinglesFit
  /\ Shape /\ SinglesFit /\ [Next]_vars => SinglesFit'
<1>1. Init => SinglesFit
  BY DEF Init, SinglesFit, Handled, Handling
<1>2. SUFFICES ASSUME Shape, SinglesFit, SingleRows, [Next]_vars
               PROVE  (Handling' => Len(batch') = 1) /\ applied' <= Handled'
  BY <1>1 DEF SinglesFit
<1>3. /\ log \in Seq(Transactions) /\ Len(log) \in Nat /\ received \in Nat /\ received <= Len(log)
      /\ position \in Nat /\ position <= Handled /\ applied \in Nat /\ applied <= received
      /\ Handled \in Nat /\ (~Handling => Handled = received) /\ (Handling => Handled = received - 1)
  BY <1>2, TypeFacts, HandledIs DEF Shape
<1>4. (Handling => Len(batch) = 1) /\ applied <= Handled
  BY <1>2 DEF SinglesFit
<1>5. ASSUME UNCHANGED <<received, phase, batch, applied>>
      PROVE  (Handling' => Len(batch') = 1) /\ applied' <= Handled'
  BY <1>4, <1>5 DEF Handling, Handled
<1>6. CASE \/ Connect \/ ArmDerivedCaches \/ ArmCache \/ LoseConnection \/ DisarmDerivedCaches \/ DisarmCache
           \/ Advance \/ LoseRow \/ HandlePosition
  <2>1. ~Handling /\ ~Handling'
    BY <1>6 DEF Connect, ArmDerivedCaches, ArmCache, LoseConnection, DisarmDerivedCaches, DisarmCache,
                Advance, LoseRow, HandlePosition, Handling
  <2>2. Handled' = received'
    BY <2>1 DEF Handled
  <2>3. \/ received' = received \/ received' = received + 1
        \/ received' \in received .. Len(log)
    BY <1>6
       DEF Connect, ArmDerivedCaches, ArmCache, LoseConnection, DisarmDerivedCaches, DisarmCache,
           Advance, LoseRow, HandlePosition
  <2>4. applied' = applied \/ applied' = position \/ applied' = 0
    BY <1>6
       DEF Connect, ArmDerivedCaches, ArmCache, LoseConnection, DisarmDerivedCaches, DisarmCache,
           Advance, LoseRow, HandlePosition, derivedVars
  <2>5. received' \in Nat /\ received <= received'
    BY <1>3, <2>3
  <2>. QED
    BY <1>3, <2>1, <2>2, <2>4, <2>5
<1>7. CASE Receive
  <2>1. /\ received' = received + 1 /\ phase' = "row" /\ applied' = applied /\ batch' = log[received + 1]
        /\ received + 1 \in 1 .. Len(log)
    BY <1>3, <1>7 DEF Receive, derivedVars
  <2>2. Len(batch') = 1
    BY <1>2, <1>3, <2>1, ElementOfSeq DEF SingleRows
  <2>. QED
    BY <1>3, <2>1, <2>2 DEF Handled, Handling
<1>8. CASE OnRow
  BY <1>4, <1>8 DEF OnRow, Handling, Handled
<1>9. CASE Applied
  <2>1. phase' = "advance" /\ received' = received
    <3>1. Handling
      BY <1>9 DEF Applied, Handling
    <3>2. Len(batch) = 1
      BY <1>4, <3>1, Zenon
    <3>3. ~(Len(batch) > 1)
      BY <3>2
    <3>. QED
      BY <1>9, <3>3 DEF Applied
  <2>2. applied' = received
    BY <1>3, <1>9, HigherOf DEF Applied
  <2>. QED
    BY <1>3, <2>1, <2>2 DEF Handled, Handling
<1>10. CASE OnPurge \/ (\E k \in Keys : OnRoomInvalidated(k)) \/ \E rows \in Transactions : Write(rows)
  BY <1>5, <1>10 DEF OnPurge, OnRoomInvalidated, Write, subVars, derivedVars
<1>11. CASE \E r \in Readers :
              \/ \E k \in Keys, s \in Sets, horizon \in 0 .. Len(log) : Lookup(r, k, s, horizon)
              \/ GetHit(r) \/ GetMiss(r) \/ Query(r) \/ Merge(r) \/ Fill(r)
  BY <1>5, <1>11 DEF Lookup, GetHit, GetMiss, Query, Merge, Fill, subVars, derivedVars
<1>12. CASE UNCHANGED vars
  BY <1>5, <1>12 DEF vars, subVars, derivedVars
<1>. QED
  BY <1>2, <1>6, <1>7, <1>8, <1>9, <1>10, <1>11, <1>12 DEF Next

\* The inductive invariant, for rows that name their keys.
THEOREM Invariance == AllNamed => (Spec => []Inv)
<1>. SUFFICES ASSUME AllNamed PROVE Spec => []Inv
  OBVIOUS
<1>1. Init => Inv
  <2>1. SUFFICES ASSUME Init PROVE Inv
    OBVIOUS
  <2>2. Shape
    BY <2>1, ShapeIsInductive
  <2>3. BatchNamed /\ CacheFresh
    BY <2>1 DEF Init, Empty, BatchNamed, CacheFresh
  <2>4. \A r \in Readers : reader[r] = Idle
    BY <2>1 DEF Init
  <2>5. \A r \in Readers : ReaderFits(reader[r]) /\ ReaderFresh(reader[r])
    BY <2>4 DEF Idle, ReaderFits, ReaderFresh
  <2>. QED
    BY <2>1, <2>2, <2>3, <2>5, SinglesFitIsInductive DEF Inv, Current
<1>2. Inv /\ [Next]_vars => Inv'
  <2>1. SUFFICES ASSUME Shape, SinglesFit, Current, [Next]_vars PROVE Current'
    BY ShapeIsInductive, SinglesFitIsInductive DEF Inv
  <2>2. CASE UNCHANGED vars
    <3>1. UNCHANGED <<log, received, phase, batch, cache, reader, lost>>
      BY <2>2 DEF vars, dbVars, subVars, derivedVars
    <3>2. \A k, p : LastChange(k, p)' = LastChange(k, p)
      BY <3>1, LastChangeIsLastIn
    <3>. QED
      BY <2>1, <3>1, <3>2
         DEF Current, BatchNamed, ReaderFits, ReaderFresh, CacheFresh, Fresh, Due, Handled, Handling
  <2>3. CASE \/ Connect \/ ArmDerivedCaches \/ ArmCache
             \/ LoseConnection \/ DisarmDerivedCaches \/ DisarmCache
             \/ Advance \/ LoseRow \/ HandlePosition \/ OnPurge
             \/ \E k \in Keys : OnRoomInvalidated(k)
    BY <2>1, <2>3, QuietCurrent
  <2>4. CASE Receive \/ OnRow \/ Applied \/ \E rows \in Transactions : Write(rows)
    BY <2>1, <2>4, ReceiveCurrent, OnRowCurrent, AppliedCurrent, WriteCurrent
  <2>5. CASE \E r \in Readers :
               \/ \E k \in Keys, s \in Sets, horizon \in 0 .. Len(log) : Lookup(r, k, s, horizon)
               \/ GetHit(r) \/ GetMiss(r) \/ Query(r) \/ Merge(r) \/ Fill(r)
    BY <2>1, <2>5, LookupCurrent, GetHitCurrent, GetMissCurrent, QueryCurrent, MergeCurrent, FillCurrent
  <2>. QED
    BY <2>1, <2>2, <2>3, <2>4, <2>5 DEF Next
<1>. QED
  BY <1>1, <1>2, PTL DEF Spec

\* An answer that is judged covers its token.
LEMMA AnswersCover ==
  ASSUME Inv, lost = 0, NEW r \in Readers,
         reader[r].at = "answered", ~reader[r].raced, Judged(reader[r])
  PROVE  Covers(reader[r])
<1>1. LastChange(reader[r].key, reader[r].horizon) <= reader[r].value
  BY DEF Inv, Current, ReaderFresh
<1>2. reader[r] \in Answers
  <2>1. reader[r] \in Stages
    BY TypeFacts DEF Inv, Shape
  <2>. QED
    BY <2>1, StageShape
<1>3. reader[r].value \in Nat /\ LastChange(reader[r].key, reader[r].horizon) \in Nat
  <2>1. reader[r].value \in Nat /\ reader[r].horizon \in Nat
    BY <1>2 DEF Answers, Pos
  <2>2. LastChange(reader[r].key, reader[r].horizon) \in 0 .. reader[r].horizon
    BY <2>1, LastChangeOrder
  <2>. QED
    BY <2>1, <2>2
<1>. QED
  BY <1>1, <1>3 DEF Covers

\* A cached answer covers this worker's own token while no row is lost, through
\* drops, reconnects and batches, unless its entry was filled across an
\* invalidation of it (derived.go:41-44). DerivedStateAll.cfg has a row that does
\* not name its key, and refutes it.
THEOREM OwnTokenAlwaysCovered == AllNamed => (Spec => []OwnTokenCovered)
<1>. SUFFICES ASSUME AllNamed PROVE Spec => []OwnTokenCovered
  OBVIOUS
<1>1. Inv => OwnTokenCovered
  BY AnswersCover DEF OwnTokenCovered, Judged
<1>2. Spec => []Inv
  BY Invariance
<1>. QED
  BY <1>1, <1>2, PTL

\* Nor is a token that another worker minted stepped behind, when a position has
\* one row: OnRow records a position as applied after the first row of its batch
\* (invalidate.go:56), and that is all that stands in the way. DerivedBatch.cfg has
\* a batch of two, and refutes it.
THEOREM AnyTokenCoveredWithoutBatches ==
  AllNamed /\ SingleRows => (Spec => [](lost = 0 => AnyTokenCovered))
<1>. SUFFICES ASSUME AllNamed, SingleRows PROVE Spec => [](lost = 0 => AnyTokenCovered)
  OBVIOUS
<1>1. Inv => (lost = 0 => AnyTokenCovered)
  BY AnswersCover DEF AnyTokenCovered, Judged
<1>2. Spec => []Inv
  BY Invariance
<1>. QED
  BY <1>1, <1>2, PTL

=============================================================================
