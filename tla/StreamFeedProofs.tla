-------------------------- MODULE StreamFeedProofs --------------------------
(***************************************************************************)
(* The feed of one stream, for every number of positions and entities,     *)
(* every transaction, cache size, batch and scan limit, and any number of  *)
(* announcements and lost connections: a window that ends at replication's *)
(* position leaves no changed entity out, no delivered row is denied, and  *)
(* the token covers only what is committed. All of it for a stream of one  *)
(* writer.                                                                 *)
(***************************************************************************)
EXTENDS StreamFeed, StreamCacheLemmas, SequenceTheorems

---------------------------------------------------------------------------
(* What needs no assumption about the writers.                             *)

\* Where the phases find the position, the batch and the caches.
PhaseFits ==
  /\ phase = "starting" => position = 0
  /\ phase = "armed" => fill.minPos <= own.earliest
  /\ phase \in {"invalidating", "feeding"} =>
       applying.done < Len(applying.rows) /\ applying.pos \in Positions
  /\ Sound(own) /\ Sound(memb)

Shape == TypeOK /\ PhaseFits

\* A position of the stream is a position a cache can hold.
LEMMA PositionTypes ==
  /\ MaxPos \in Nat /\ 0 \in Pos /\ Pos \in SUBSET Nat
  /\ \A p \in Positions : p \in Pos /\ p \in Nat /\ p > 0 /\ p + 1 \in Pos /\ p <= MaxPos
BY MaxPosAssumption DEF Positions, Pos

\* The maxima of the model are over sets of positions.
LEMMA MaxOfPos ==
  ASSUME NEW S \in SUBSET Pos, S # {}
  PROVE  Max(S) \in S /\ Max(S) \in Pos /\ Max(S) \in Nat /\ \A x \in S : x <= Max(S)
<1>1. S \in SUBSET (0 .. MaxPos) /\ MaxPos \in Nat
  BY PositionTypes DEF Pos
<1>. QED
  BY <1>1, MaxIsHighest, PositionTypes

LEMMA MaxOfTwo ==
  ASSUME NEW a \in Pos, NEW b \in Pos
  PROVE  /\ Max({a, b}) \in Pos /\ Max({a, b}) \in Nat
         /\ Max({a, b}) = a \/ Max({a, b}) = b
         /\ a <= Max({a, b}) /\ b <= Max({a, b})
<1>1. {a, b} \in SUBSET Pos /\ {a, b} # {}
  OBVIOUS
<1>. QED
  BY <1>1, MaxOfPos

\* The highest position with a property, 0 if none has it.
LEMMA TopOf ==
  ASSUME NEW S \in SUBSET Positions
  PROVE  LET top == Max({0} \cup S)
         IN top \in Pos /\ top \in Nat /\ (top = 0 \/ top \in S) /\ \A p \in S : p <= top
<1>1. {0} \cup S \in SUBSET Pos /\ {0} \cup S # {}
  BY PositionTypes
<1>2. \A x : x \in {0} \cup S <=> x = 0 \/ x \in S
  OBVIOUS
<1>. QED
  BY <1>1, <1>2, MaxOfPos

\* What a transaction is.
LEMMA TxTypes ==
  ASSUME TypeOK, NEW p \in Positions
  PROVE  /\ tx[p].state \in {"none", "open", "committed", "sent"}
         /\ tx[p].state = "none" => tx[p] = NoTx
         /\ tx[p].state # "none" =>
              /\ tx[p] \in [state : {"open", "committed", "sent"}, writer : Writers, rows : Transactions]
              /\ tx[p].writer \in Writers
         /\ tx[p].rows \in Seq(Rows)
         /\ tx[p].state # "none" => tx[p].rows # <<>> /\ tx[p].rows \in Transactions
<1>1. tx[p] \in {NoTx} \cup [state : {"open", "committed", "sent"}, writer : Writers, rows : Transactions]
  BY DEF TypeOK
<1>2. CASE tx[p] = NoTx
  BY <1>2, EmptySeq DEF NoTx
<1>3. CASE tx[p] \in [state : {"open", "committed", "sent"}, writer : Writers, rows : Transactions]
  BY <1>3, TransactionsAssumption
<1>. QED
  BY <1>1, <1>2, <1>3

\* The commands of a position: its rows in order, all but the last "batch".
LEMMA BatchFacts ==
  ASSUME TypeOK, NEW p \in Positions, tx[p].state # "none"
  PROVE  /\ Batch(p) \in Seq(Commands) /\ Batch(p) # <<>> /\ Len(Batch(p)) = Len(tx[p].rows)
         /\ \A i \in 1 .. Len(tx[p].rows) :
              /\ Batch(p)[i].pos = p /\ Batch(p)[i].row = tx[p].rows[i]
              /\ Batch(p)[i].kind = IF i < Len(tx[p].rows) THEN "batch" ELSE "rdata"
<1>. DEFINE rows == tx[p].rows
<1>1. /\ rows \in Seq(Rows) /\ rows # <<>> /\ Len(rows) \in Nat /\ DOMAIN rows = 1 .. Len(rows)
      /\ rows \in [1 .. Len(rows) -> Rows]
  BY TxTypes, LenProperties
<1>2. Batch(p) = [i \in 1 .. Len(rows) |->
         [kind |-> IF i < Len(rows) THEN "batch" ELSE "rdata", row |-> rows[i], pos |-> p]]
  BY <1>1 DEF Batch
<1>. HIDE DEF rows
<1>3. \A i \in 1 .. Len(rows) :
        [kind |-> IF i < Len(rows) THEN "batch" ELSE "rdata", row |-> rows[i], pos |-> p] \in Commands
  BY <1>1 DEF Commands
<1>4. Batch(p) \in [1 .. Len(rows) -> Commands]
  BY <1>2, <1>3
<1>5. Batch(p) \in Seq(Commands) /\ Len(Batch(p)) = Len(rows)
  BY <1>1, <1>4
<1>6. Batch(p) # <<>>
  BY <1>1, <1>5, EmptySeq
<1>. QED
  BY <1>2, <1>5, <1>6 DEF rows

\* Reading a command: what it is, and what is left of the queue.
LEMMA TakenFacts ==
  ASSUME TypeOK, NEW w \in Writers, outbox[w] # <<>>
  PROVE  /\ outbox[w] \in Seq(Commands) /\ Head(outbox[w]) = outbox[w][1]
         /\ 1 \in DOMAIN outbox[w] /\ Len(outbox[w]) \in Nat \ {0}
         /\ Head(outbox[w]) \in Commands /\ Head(outbox[w]).pos \in Pos
         /\ Head(outbox[w]).kind \in {"batch", "rdata", "position"}
         /\ Head(outbox[w]).kind # "position" =>
              Head(outbox[w]).row \in Rows /\ Head(outbox[w]).pos \in Positions
         /\ Tail(outbox[w]) \in Seq(Commands)
         /\ [outbox EXCEPT ![w] = Tail(@)] \in [Writers -> Seq(Commands)]
<1>1. outbox[w] \in Seq(Commands) /\ outbox \in [Writers -> Seq(Commands)]
  BY DEF TypeOK
<1>2. Head(outbox[w]) \in Commands /\ Tail(outbox[w]) \in Seq(Commands)
  BY <1>1, HeadTailProperties
<1>3. Len(outbox[w]) \in Nat \ {0} /\ DOMAIN outbox[w] = 1 .. Len(outbox[w])
  BY <1>1, EmptySeq, LenProperties
<1>4. 1 \in DOMAIN outbox[w] /\ Head(outbox[w]) = outbox[w][1]
  BY <1>1, <1>3
<1>5. /\ Head(outbox[w]).kind \in {"batch", "rdata", "position"}
      /\ Head(outbox[w]).pos \in Pos
      /\ Head(outbox[w]).kind # "position" =>
           Head(outbox[w]).row \in Rows /\ Head(outbox[w]).pos \in Positions
  BY <1>2, PositionTypes DEF Commands
<1>. QED
  BY <1>1, <1>2, <1>3, <1>4, <1>5

---------------------------------------------------------------------------
(* The caches. What a method keeps, whether or not the cache listens.      *)

Deaf(c) == MaxSize <= 0 \/ c.disarmed

\* Recording a change keeps every claim, and adds its own.
LEMMA RecordKeeps ==
  ASSUME NEW c, Sound(c), NEW e \in Entities, NEW p \in Pos
  PROVE  LET d == EntityHasChanged(c, e, p) IN
         /\ Sound(d) /\ d.earliest >= c.earliest /\ d.disarmed = c.disarmed
         /\ \A f \in Entities, q \in Pos : Known(c, f, q) => Known(d, f, q)
         /\ ~Deaf(c) => Known(d, e, p)
<1>1. c.earliest \in Nat /\ c.disarmed \in BOOLEAN
  BY PositionTypes DEF Sound, Caches
<1>2. CASE Deaf(c)
  <2>1. EntityHasChanged(c, e, p) = c
    BY <1>1, <1>2, DeafIgnores DEF Deaf
  <2>. QED
    BY <1>1, <1>2, <2>1
<1>3. CASE ~Deaf(c)
  <2>1. MaxSize > 0 /\ c.disarmed = FALSE
    BY <1>1, <1>3, MaxSizeAssumption DEF Deaf
  <2>. QED
    BY <2>1, ArmedRecords
<1>. QED
  BY <1>2, <1>3

\* A reset keeps every claim up to the horizon, and knows all up to its position.
LEMMA ResetKeeps ==
  ASSUME NEW c, Sound(c), NEW p \in Pos
  PROVE  LET d == AllEntitiesChanged(c, p) IN
         /\ Sound(d) /\ d.earliest >= c.earliest /\ d.earliest >= p /\ d.disarmed = c.disarmed
         /\ \A f \in Entities, q \in Pos : q <= p \/ q <= c.earliest => Known(d, f, q)
<1>. DEFINE d == AllEntitiesChanged(c, p)
<1>1. Sound(d) /\ d.earliest >= c.earliest /\ d.earliest >= p /\ d.disarmed = c.disarmed
  BY ResetLocked DEF AllEntitiesChanged, Sound
<1>2. d.earliest \in Nat /\ c.earliest \in Nat /\ p \in Nat
  BY <1>1, PositionTypes DEF Sound, Caches
<1>3. ASSUME NEW f \in Entities, NEW q \in Pos, q <= p \/ q <= c.earliest PROVE Known(d, f, q)
  <2>. HIDE DEF d
  <2>1. q \in Nat
    BY PositionTypes
  <2>2. ~(q > d.earliest)
    BY <1>1, <1>2, <1>3, <2>1
  <2>. QED
    BY <2>2 DEF Known
<1>. QED
  BY <1>1, <1>3

\* A disarmed cache stays sound.
LEMMA DisarmKeeps ==
  ASSUME NEW c, Sound(c)
  PROVE  Sound(Disarm(c)) /\ Disarm(c).disarmed = TRUE /\ Disarm(c).earliest >= c.earliest
BY DisarmResets DEF Sound

\* What is at or below the horizon is known.
LEMMA KnownBelowHorizon ==
  ASSUME NEW c, Sound(c), NEW e \in Entities, NEW p \in Pos, p <= c.earliest
  PROVE  Known(c, e, p)
<1>1. c.earliest \in Nat /\ p \in Nat
  BY PositionTypes DEF Sound, Caches
<1>. QED
  BY <1>1 DEF Known

\* The three methods a row calls are one of the two, or none.
LEMMA FeedRowIs ==
  ASSUME NEW c, NEW row \in Rows, NEW p
  PROVE  /\ row.entity \in Entities /\ row.legible \in BOOLEAN
         /\ FeedRow(c, row, p) = IF row.legible THEN EntityHasChanged(c, row.entity, p)
                                                ELSE AllEntitiesChanged(c, p)
         /\ MembershipRow(c, row, p) = IF row.legible THEN EntityHasChanged(c, row.entity, p) ELSE c
         /\ MembershipReset(c, row, p) = IF row.legible THEN c ELSE AllEntitiesChanged(c, p)
BY DEF Rows, FeedRow, MembershipRow, MembershipReset

\* They leave a cache sound, and never lower its horizon.
LEMMA FeedSound ==
  ASSUME NEW c, Sound(c), NEW row \in Rows, NEW p \in Pos
  PROVE  /\ Sound(FeedRow(c, row, p)) /\ Sound(MembershipRow(c, row, p))
         /\ Sound(MembershipReset(c, row, p))
<1>1. row.entity \in Entities /\ row.legible \in BOOLEAN
  BY FeedRowIs
<1>2. Sound(EntityHasChanged(c, row.entity, p)) /\ Sound(AllEntitiesChanged(c, p))
  BY <1>1, RecordKeeps, ResetKeeps
<1>. QED
  BY <1>2, FeedRowIs

---------------------------------------------------------------------------
(* Type correctness, action by action.                                     *)

LEMMA InitTyped == Init => Shape
<1>. SUFFICES ASSUME Init PROVE Shape
  OBVIOUS
<1>1. Sound(New(0)) /\ New(0) \in Caches
  BY NewSound, PositionTypes DEF Sound
<1>2. tx \in [Positions -> {NoTx} \cup
             [state : {"open", "committed", "sent"}, writer : Writers, rows : Transactions]]
  BY DEF Init
<1>3. outbox \in [Writers -> Seq(Commands)] /\ pending \in Seq(Rows) /\ Len(pending) <= MaxPending
  BY EmptySeq, FeedBounds DEF Init
<1>4. applying \in [pos : Pos, rows : Seq(Rows), done : Nat]
  BY EmptySeq, PositionTypes DEF Init, NoBatch
<1>5. fill \in [entries : SUBSET (Entities \X Positions), minPos : Pos, at : Pos]
  BY PositionTypes DEF Init, NoFill
<1>6. /\ announced \in 0 .. MaxAnnounce /\ drops \in 0 .. MaxDrops
      /\ {position, sentTop, seed} \subseteq Pos /\ applied \subseteq Positions
  BY PositionTypes, FeedBounds DEF Init
<1>. QED
  BY <1>1, <1>2, <1>3, <1>4, <1>5, <1>6 DEF Init, Shape, TypeOK, PhaseFits

\* The writers.
LEMMA BeginTyped ==
  ASSUME Shape, NEW w \in Writers, NEW rows \in Transactions, Begin(w, rows)
  PROVE  Shape'
<1>1. PICK p \in Positions : tx' = [tx EXCEPT ![p] = [state |-> "open", writer |-> w, rows |-> rows]]
  BY DEF Begin
<1>2. tx' \in [Positions -> {NoTx} \cup
             [state : {"open", "committed", "sent"}, writer : Writers, rows : Transactions]]
  BY <1>1 DEF Shape, TypeOK
<1>. QED
  BY <1>2 DEF Begin, subVars, hist, Shape, TypeOK, PhaseFits

LEMMA CommitTyped ==
  ASSUME Shape, NEW p \in Positions, Commit(p)
  PROVE  Shape'
<1>1. tx[p] \in [state : {"open", "committed", "sent"}, writer : Writers, rows : Transactions]
  BY TxTypes DEF Commit, Shape
<1>2. tx' \in [Positions -> {NoTx} \cup
             [state : {"open", "committed", "sent"}, writer : Writers, rows : Transactions]]
  BY <1>1 DEF Commit, Shape, TypeOK
<1>. QED
  BY <1>2 DEF Commit, subVars, hist, Shape, TypeOK, PhaseFits

LEMMA PublishTyped ==
  ASSUME Shape, NEW p \in Positions, Publish(p)
  PROVE  Shape'
<1>1. tx[p] \in [state : {"open", "committed", "sent"}, writer : Writers, rows : Transactions]
  BY TxTypes DEF Publish, Shape
<1>2. tx' \in [Positions -> {NoTx} \cup
             [state : {"open", "committed", "sent"}, writer : Writers, rows : Transactions]]
  BY <1>1 DEF Publish, Shape, TypeOK
<1>3. outbox[tx[p].writer] \o Batch(p) \in Seq(Commands)
  BY <1>1, BatchFacts, ConcatProperties DEF Publish, Shape, TypeOK
<1>4. outbox' \in [Writers -> Seq(Commands)]
  BY <1>1, <1>3 DEF Publish, Shape, TypeOK
<1>. QED
  BY <1>2, <1>4 DEF Publish, subVars, hist, Shape, TypeOK, PhaseFits

\* The position a writer announces.
LEMMA AnnouncedPos ==
  ASSUME NEW w \in Writers
  PROVE  LET a == Max({OwnTop(w), PersistedUpTo})
         IN /\ a \in Pos /\ OwnTop(w) <= a /\ PersistedUpTo <= a
            /\ a = OwnTop(w) \/ a = PersistedUpTo
            /\ OwnTop(w) \in Pos /\ PersistedUpTo \in Pos
            /\ OwnTop(w) = 0 \/ (OwnTop(w) \in Positions /\ tx[OwnTop(w)].state = "sent"
                                  /\ tx[OwnTop(w)].writer = w)
            /\ \A p \in Positions : tx[p].state = "sent" /\ tx[p].writer = w => p <= OwnTop(w)
            /\ PersistedUpTo \in 0 .. MaxPos - 1
            /\ \A p \in 1 .. PersistedUpTo : Written(p)
            /\ \A n \in 0 .. MaxPos - 1 : (\A p \in 1 .. n : Written(p)) => n <= PersistedUpTo
<1>1. /\ OwnTop(w) \in Pos
      /\ OwnTop(w) = 0 \/ (OwnTop(w) \in Positions /\ tx[OwnTop(w)].state = "sent"
                            /\ tx[OwnTop(w)].writer = w)
      /\ \A p \in Positions : tx[p].state = "sent" /\ tx[p].writer = w => p <= OwnTop(w)
  <2>. DEFINE S == {p \in Positions : tx[p].state = "sent" /\ tx[p].writer = w}
  <2>1. S \in SUBSET Positions /\ OwnTop(w) = Max({0} \cup S)
    BY DEF OwnTop
  <2>2. \A p : p \in S <=> p \in Positions /\ tx[p].state = "sent" /\ tx[p].writer = w
    OBVIOUS
  <2>. HIDE DEF S
  <2>. QED
    BY <2>1, <2>2, TopOf
<1>2. /\ PersistedUpTo \in Pos /\ PersistedUpTo \in 0 .. MaxPos - 1
      /\ \A p \in 1 .. PersistedUpTo : Written(p)
      /\ \A n \in 0 .. MaxPos - 1 : (\A p \in 1 .. n : Written(p)) => n <= PersistedUpTo
  <2>. DEFINE S == {n \in 0 .. MaxPos - 1 : \A p \in 1 .. n : Written(p)}
  <2>1. PersistedUpTo = Max(S)
    BY DEF PersistedUpTo
  <2>2. \A n : n \in S <=> n \in 0 .. MaxPos - 1 /\ \A p \in 1 .. n : Written(p)
    OBVIOUS
  <2>3. 0 \in 0 .. MaxPos - 1 /\ \A p \in 1 .. 0 : Written(p)
    BY FeedBounds, PositionTypes
  <2>4. S \in SUBSET Pos /\ S # {}
    BY <2>2, <2>3, PositionTypes DEF Pos
  <2>. HIDE DEF S
  <2>5. Max(S) \in S /\ Max(S) \in Pos /\ \A x \in S : x <= Max(S)
    BY <2>4, MaxOfPos
  <2>. QED
    BY <2>1, <2>2, <2>5
<1>. QED
  BY <1>1, <1>2, MaxOfTwo

LEMMA AnnounceTyped ==
  ASSUME Shape, NEW w \in Writers, Announce(w)
  PROVE  Shape'
<1>. DEFINE c == [kind |-> "position", pos |-> Max({OwnTop(w), PersistedUpTo})]
<1>1. c \in Commands
  BY AnnouncedPos DEF Commands
<1>2. outbox' = [outbox EXCEPT ![w] = Append(@, c)]
  BY DEF Announce
<1>. HIDE DEF c
<1>3. outbox' \in [Writers -> Seq(Commands)]
  BY <1>1, <1>2, AppendProperties DEF Shape, TypeOK
<1>4. announced' \in 0 .. MaxAnnounce
  BY FeedBounds DEF Announce, Shape, TypeOK
<1>. QED
  BY <1>3, <1>4 DEF Announce, subVars, hist, Shape, TypeOK, PhaseFits

LEMMA LoseTyped ==
  ASSUME Shape, NEW w \in Writers, Lose(w)
  PROVE  Shape'
<1>1. outbox' \in [Writers -> Seq(Commands)]
  BY TakenFacts DEF Lose, Shape
<1>. QED
  BY <1>1 DEF Lose, subVars, hist, Shape, TypeOK, PhaseFits

\* The session.
LEMMA SeedTyped ==
  ASSUME Shape, Seed
  PROVE  Shape' /\ position' >= position /\ position' = seed'
<1>1. TableMax \in Pos /\ TableMax \in Nat
  BY TopOf DEF TableMax
<1>. QED
  BY <1>1 DEF Seed, writerVars, Shape, TypeOK, PhaseFits

LEMMA ConnectTyped ==
  ASSUME Shape, Connect
  PROVE  Shape'
<1>1. Max({0} \cup {p \in Positions : tx[p].state = "sent"}) \in Pos
  BY TopOf
<1>2. fill' \in [entries : SUBSET (Entities \X Positions), minPos : Pos, at : Pos]
  BY PositionTypes DEF Connect, NoFill, Shape, TypeOK
<1>. QED
  BY <1>1, <1>2 DEF Connect, writerVars, Shape, TypeOK, PhaseFits

\* What the scan returns is trusted from a position.
LEMMA TrustedPos ==
  ASSUME NEW rows \in SUBSET (Entities \X Positions), NEW at \in Pos
  PROVE  /\ TrustedFrom(rows, at) \in Pos
         /\ rows # {} => \E r \in rows : TrustedFrom(rows, at) = r[2] + 1 /\ \A s \in rows : r[2] <= s[2]
<1>1. CASE rows = {}
  BY <1>1 DEF TrustedFrom
<1>2. CASE rows # {}
  <2>. DEFINE S == {r[2] : r \in rows}
  <2>1. S \in SUBSET Positions /\ S # {} /\ \A r \in rows : r[2] \in S
    BY <1>2
  <2>2. \A x \in S : \E r \in rows : x = r[2]
    OBVIOUS
  <2>3. TrustedFrom(rows, at) = Min(S) + 1
    BY <1>2 DEF TrustedFrom
  <2>. HIDE DEF S
  <2>4. S \in SUBSET Nat
    BY <2>1, PositionTypes
  <2>5. Min(S) \in S /\ \A x \in S : Min(S) <= x
    BY <2>1, <2>4, MinIsLowest
  <2>6. PICK r \in rows : Min(S) = r[2]
    BY <2>2, <2>5
  <2>7. Min(S) + 1 \in Pos
    BY <2>1, <2>5, PositionTypes
  <2>. QED
    BY <2>1, <2>3, <2>5, <2>6, <2>7
<1>. QED
  BY <1>1, <1>2

\* What ScanAndArm does to the cache.
LEMMA ScanFacts ==
  ASSUME Shape, ScanAndArm
  PROVE  \E rows \in SUBSET TableRows :
           LET from == TrustedFrom(rows, fill.at)
           IN /\ NewestRows(rows) /\ rows \in SUBSET (Entities \X Positions) /\ from \in Pos
              /\ fill'.entries = NewestPerEntity(rows) /\ fill'.minPos = from /\ fill'.at = fill.at
              /\ fill' \in [entries : SUBSET (Entities \X Positions), minPos : Pos, at : Pos]
              /\ own' = Arm(own, from) /\ Sound(own') /\ positions(own') = {}
              /\ own'.disarmed = FALSE /\ from <= own'.earliest /\ own.earliest <= own'.earliest
<1>1. PICK rows \in SUBSET TableRows :
        /\ NewestRows(rows)
        /\ fill' = [fill EXCEPT !.entries = NewestPerEntity(rows),
                                !.minPos = TrustedFrom(rows, fill.at)]
        /\ own' = Arm(own, TrustedFrom(rows, fill.at))
  BY DEF ScanAndArm
<1>. DEFINE from == TrustedFrom(rows, fill.at)
<1>2. rows \in SUBSET (Entities \X Positions) /\ fill.at \in Pos
      /\ fill \in [entries : SUBSET (Entities \X Positions), minPos : Pos, at : Pos]
  BY DEF TableRows, Shape, TypeOK
<1>3. from \in Pos
  BY <1>2, TrustedPos
<1>4. NewestPerEntity(rows) \in SUBSET (Entities \X Positions)
  BY <1>2 DEF NewestPerEntity
<1>5. /\ fill'.entries = NewestPerEntity(rows) /\ fill'.minPos = from /\ fill'.at = fill.at
      /\ fill' \in [entries : SUBSET (Entities \X Positions), minPos : Pos, at : Pos]
  BY <1>1, <1>2, <1>3, <1>4
<1>6. own \in Caches
  BY DEF Shape, TypeOK
<1>. HIDE DEF from
<1>7. /\ Sound(own') /\ positions(own') = {} /\ own'.disarmed = FALSE
      /\ from <= own'.earliest /\ own.earliest <= own'.earliest
  <2>1. own' = Arm(own, from)
    BY <1>1 DEF from
  <2>2. /\ Sound(own') /\ positions(own') = {} /\ own'.disarmed = FALSE
        /\ own'.earliest >= from /\ own'.earliest >= own.earliest
    BY <2>1, <1>3, <1>6, ArmResets
  <2>3. own'.earliest \in Nat /\ own.earliest \in Nat /\ from \in Nat
    BY <2>2, <1>3, <1>6, PositionTypes DEF Sound, Caches
  <2>. QED
    BY <2>2, <2>3
<1>. QED
  BY <1>1, <1>2, <1>3, <1>5, <1>7 DEF from

LEMMA ScanAndArmTyped ==
  ASSUME Shape, ScanAndArm
  PROVE  Shape'
<1>1. /\ fill' \in [entries : SUBSET (Entities \X Positions), minPos : Pos, at : Pos]
      /\ Sound(own') /\ fill'.minPos <= own'.earliest
  BY ScanFacts
<1>. QED
  BY <1>1 DEF ScanAndArm, writerVars, hist, Shape, TypeOK, PhaseFits, Sound

\* Prefill's horizon is the one Arm set: entering it changes nothing.
LEMMA StartPrefillTyped ==
  ASSUME Shape, StartPrefill
  PROVE  Shape' /\ own' = own
<1>1. /\ own' = PrefillHorizon(own, fill.minPos) /\ own \in Caches
      /\ fill.minPos <= own.earliest
  BY DEF StartPrefill, Shape, TypeOK, PhaseFits
<1>0. fill.minPos \in Nat /\ own.earliest \in Nat
  BY PositionTypes DEF Shape, TypeOK, Caches
<1>2. own' = own
  BY <1>0, <1>1 DEF PrefillHorizon, Caches
<1>. QED
  BY <1>2 DEF StartPrefill, writerVars, hist, Shape, TypeOK, PhaseFits

LEMMA PrefillEntryTyped ==
  ASSUME Shape, NEW r \in fill.entries, PrefillEntry(r)
  PROVE  Shape' /\ r[1] \in Entities /\ r[2] \in Positions
<1>1. r[1] \in Entities /\ r[2] \in Positions /\ r[2] \in Pos
  BY PositionTypes DEF Shape, TypeOK
<1>2. Sound(own')
  BY <1>1, RecordKeeps DEF PrefillEntry, Shape, PhaseFits
<1>3. fill' \in [entries : SUBSET (Entities \X Positions), minPos : Pos, at : Pos]
  BY DEF PrefillEntry, Shape, TypeOK
<1>. QED
  BY <1>1, <1>2, <1>3 DEF PrefillEntry, writerVars, hist, Shape, TypeOK, PhaseFits, Sound

LEMMA SessionTyped ==
  ASSUME Shape, EndPrefill \/ ArmMembership \/ PrefillFails \/ LoseConnection \/ OnDrop \/ EndSession
  PROVE  Shape'
<1>1. CASE EndPrefill
  BY <1>1 DEF EndPrefill, writerVars, hist, Shape, TypeOK, PhaseFits
<1>0. NoFill \in [entries : SUBSET (Entities \X Positions), minPos : Pos, at : Pos]
  BY PositionTypes DEF NoFill
<1>2. CASE ArmMembership
  <2>1. Sound(memb') /\ memb' \in Caches
    BY <1>2, ArmResets DEF ArmMembership, Shape, TypeOK, Sound
  <2>. QED
    BY <1>0, <1>2, <2>1 DEF ArmMembership, writerVars, hist, Shape, TypeOK, PhaseFits
<1>3. CASE PrefillFails
  <2>1. Sound(own') /\ Sound(memb')
    BY <1>3, DisarmKeeps DEF PrefillFails, Shape, PhaseFits
  <2>. QED
    BY <1>0, <1>3, <2>1 DEF PrefillFails, writerVars, hist, Shape, TypeOK, PhaseFits, Sound
<1>4. CASE LoseConnection
  <2>1. drops' \in 0 .. MaxDrops /\ pending' \in Seq(Rows) /\ Len(pending') <= MaxPending
    BY <1>4, EmptySeq, FeedBounds DEF LoseConnection, Shape, TypeOK
  <2>. QED
    BY <1>4, <2>1 DEF LoseConnection, writerVars, Shape, TypeOK, PhaseFits
<1>5. CASE OnDrop
  <2>1. Sound(own') /\ Sound(memb')
    BY <1>5, DisarmKeeps DEF OnDrop, Shape, PhaseFits
  <2>. QED
    BY <1>5, <2>1 DEF OnDrop, writerVars, hist, Shape, TypeOK, PhaseFits, Sound
<1>6. CASE EndSession
  <2>1. pending' \in Seq(Rows) /\ Len(pending') <= MaxPending
    BY <1>6, EmptySeq, FeedBounds DEF EndSession
  <2>. QED
    BY <1>6, <2>1 DEF EndSession, writerVars, hist, Shape, TypeOK, PhaseFits
<1>. QED
  BY <1>1, <1>2, <1>3, <1>4, <1>5, <1>6

\* The commands.
LEMMA TakesTyped ==
  ASSUME Shape, NEW w \in Writers, NEW kind, Takes(w, kind)
  PROVE  /\ phase \in {"reading", "aborted"} /\ outbox[w] # <<>>
         /\ outbox' \in [Writers -> Seq(Commands)]
         /\ Head(outbox[w]) \in Commands /\ Head(outbox[w]).kind = kind
         /\ Head(outbox[w]).pos \in Pos
         /\ kind # "position" => Head(outbox[w]).row \in Rows /\ Head(outbox[w]).pos \in Positions
BY TakenFacts DEF Takes, Reading, Shape

LEMMA HandleBatchTyped ==
  ASSUME Shape, NEW w \in Writers, HandleBatch(w)
  PROVE  Shape'
<1>1. /\ outbox' \in [Writers -> Seq(Commands)] /\ Head(outbox[w]).row \in Rows
      /\ phase \in {"reading", "aborted"}
  BY TakesTyped DEF HandleBatch
<1>2. pending \in Seq(Rows) /\ Len(pending) \in Nat /\ Len(pending) < MaxPending
  BY LenProperties DEF HandleBatch, Shape, TypeOK
<1>3. pending' \in Seq(Rows) /\ Len(pending') <= MaxPending
  BY <1>1, <1>2, AppendProperties, FeedBounds DEF HandleBatch
<1>. QED
  BY <1>1, <1>3 DEF HandleBatch, hist, Shape, TypeOK, PhaseFits

LEMMA OverflowTyped ==
  ASSUME Shape, NEW w \in Writers, Overflow(w)
  PROVE  Shape'
<1>1. outbox' \in [Writers -> Seq(Commands)] /\ phase \in {"reading", "aborted"}
  BY TakesTyped DEF Overflow
<1>2. pending' \in Seq(Rows) /\ Len(pending') <= MaxPending
  BY EmptySeq, FeedBounds DEF Overflow
<1>3. drops' \in 0 .. MaxDrops /\ phase' \in {"aborting", "reading", "aborted"}
  BY <1>1, FeedBounds DEF Overflow, Shape, TypeOK
<1>. QED
  BY <1>1, <1>2, <1>3 DEF Overflow, Shape, TypeOK, PhaseFits

\* What HandleRDATA hands to the loops.
LEMMA HandledRows ==
  ASSUME Shape, NEW w \in Writers, HandleRDATA(w)
  PROVE  LET rows == Append(pending, Head(outbox[w]).row)
         IN /\ applying' = [pos |-> Head(outbox[w]).pos, rows |-> rows, done |-> 0]
            /\ applying'.pos = Head(outbox[w]).pos /\ applying'.rows = rows /\ applying'.done = 0
            /\ applying' \in [pos : Pos, rows : Seq(Rows), done : Nat]
            /\ applying'.pos \in Positions /\ rows # <<>>
            /\ DOMAIN rows = 1 .. Len(pending) + 1 /\ Len(rows) = Len(pending) + 1
            /\ Len(pending) \in Nat /\ DOMAIN pending = 1 .. Len(pending)
            /\ \A i \in 1 .. Len(pending) : rows[i] = pending[i]
            /\ rows[Len(pending) + 1] = Head(outbox[w]).row
<1>1. Head(outbox[w]).row \in Rows /\ Head(outbox[w]).pos \in Positions /\ Head(outbox[w]).pos \in Pos
  BY TakesTyped DEF HandleRDATA
<1>2. pending \in Seq(Rows)
  BY DEF Shape, TypeOK
<1>. DEFINE rows == Append(pending, Head(outbox[w]).row)
<1>3. applying' = [pos |-> Head(outbox[w]).pos, rows |-> rows, done |-> 0]
  BY DEF HandleRDATA
<1>4. /\ rows \in Seq(Rows) /\ rows # <<>> /\ Len(rows) = Len(pending) + 1
      /\ \A i \in 1 .. Len(pending) : rows[i] = pending[i]
      /\ rows[Len(pending) + 1] = Head(outbox[w]).row
  BY <1>1, <1>2, AppendProperties
<1>5. /\ Len(pending) \in Nat /\ DOMAIN pending = 1 .. Len(pending)
      /\ DOMAIN rows = 1 .. Len(rows)
  BY <1>2, <1>4, LenProperties
<1>. HIDE DEF rows
<1>. QED
  BY <1>1, <1>3, <1>4, <1>5 DEF rows

LEMMA HandleRDATATyped ==
  ASSUME Shape, NEW w \in Writers, HandleRDATA(w)
  PROVE  Shape'
<1>1. outbox' \in [Writers -> Seq(Commands)]
  BY TakesTyped DEF HandleRDATA
<1>2. /\ applying' \in [pos : Pos, rows : Seq(Rows), done : Nat]
      /\ applying'.done < Len(applying'.rows) /\ applying'.pos \in Positions
  BY HandledRows
<1>3. pending' \in Seq(Rows) /\ Len(pending') <= MaxPending
  BY EmptySeq, FeedBounds DEF HandleRDATA
<1>. QED
  BY <1>1, <1>2, <1>3 DEF HandleRDATA, hist, Shape, TypeOK, PhaseFits

LEMMA HandlePositionTyped ==
  ASSUME Shape, NEW w \in Writers, HandlePosition(w)
  PROVE  Shape'
<1>1. outbox' \in [Writers -> Seq(Commands)] /\ Head(outbox[w]).pos \in Pos
  BY TakesTyped DEF HandlePosition
<1>2. applying' \in [pos : Pos, rows : Seq(Rows), done : Nat]
  BY <1>1, EmptySeq DEF HandlePosition, NoBatch
<1>3. Sound(own') /\ Sound(memb')
  BY <1>1, ResetKeeps DEF HandlePosition, Shape, PhaseFits
<1>. QED
  BY <1>1, <1>2, <1>3 DEF HandlePosition, hist, Shape, TypeOK, PhaseFits, Sound

\* One iteration of either loop: the row it is at, and where it leaves the loop.
LEMMA IterateFacts ==
  ASSUME Shape, phase \in {"invalidating", "feeding"}, NEW after, Iterate(after)
  PROVE  /\ applying.done + 1 \in DOMAIN applying.rows /\ CurrentRow \in Rows
         /\ CurrentRow = applying.rows[applying.done + 1]
         /\ DOMAIN applying.rows = 1 .. Len(applying.rows) /\ Len(applying.rows) \in Nat
         /\ applying.done \in Nat /\ applying.pos \in Pos
         /\ applying' \in [pos : Pos, rows : Seq(Rows), done : Nat]
         /\ applying'.pos = applying.pos /\ applying'.rows = applying.rows
         /\ \/ LastRow /\ phase' = after /\ applying'.done = 0
               /\ applying.done + 1 = Len(applying.rows)
            \/ ~LastRow /\ phase' = phase /\ applying'.done = applying.done + 1
               /\ applying.done + 1 < Len(applying.rows)
<1>1. /\ applying \in [pos : Pos, rows : Seq(Rows), done : Nat]
      /\ applying.done < Len(applying.rows)
  BY DEF Shape, TypeOK, PhaseFits
<1>2. /\ DOMAIN applying.rows = 1 .. Len(applying.rows) /\ Len(applying.rows) \in Nat
      /\ applying.rows \in [1 .. Len(applying.rows) -> Rows]
  BY <1>1, LenProperties
<1>3. applying.done + 1 \in 1 .. Len(applying.rows) /\ CurrentRow \in Rows
  BY <1>1, <1>2 DEF CurrentRow
<1>4. /\ applying' \in [pos : Pos, rows : Seq(Rows), done : Nat]
      /\ applying'.pos = applying.pos /\ applying'.rows = applying.rows
      /\ applying'.done = IF LastRow THEN 0 ELSE applying.done + 1
  BY <1>1 DEF Iterate
<1>. QED
  BY <1>1, <1>2, <1>3, <1>4 DEF Iterate, LastRow, CurrentRow

LEMMA LoopsTyped ==
  ASSUME Shape, InvalidateRow \/ RecordRow
  PROVE  Shape'
<1>1. CASE InvalidateRow
  <2>1. /\ phase = "invalidating" /\ Iterate("feeding")
        /\ memb' = MembershipRow(memb, CurrentRow, applying.pos)
    BY <1>1 DEF InvalidateRow
  <2>2. Sound(memb')
    BY <2>1, IterateFacts, FeedSound DEF Shape, PhaseFits
  <2>3. /\ applying' \in [pos : Pos, rows : Seq(Rows), done : Nat]
        /\ phase' \in {"invalidating", "feeding"} /\ applying'.done < Len(applying'.rows)
        /\ applying'.pos \in Positions
    BY <2>1, IterateFacts DEF Shape, PhaseFits
  <2>. QED
    BY <1>1, <2>2, <2>3 DEF InvalidateRow, writerVars, hist, Shape, TypeOK, PhaseFits, Sound
<1>2. CASE RecordRow
  <2>1. /\ phase = "feeding" /\ Iterate("recorded")
        /\ own' = FeedRow(own, CurrentRow, applying.pos)
        /\ memb' = MembershipReset(memb, CurrentRow, applying.pos)
    BY <1>2 DEF RecordRow
  <2>2. Sound(own') /\ Sound(memb')
    BY <2>1, IterateFacts, FeedSound DEF Shape, PhaseFits
  <2>3. /\ applying' \in [pos : Pos, rows : Seq(Rows), done : Nat]
        /\ phase' \in {"feeding", "recorded"}
        /\ phase' = "feeding" => applying'.done < Len(applying'.rows)
        /\ applying'.pos \in Positions
    BY <2>1, IterateFacts DEF Shape, PhaseFits
  <2>4. applied' \subseteq Positions
    BY <1>2 DEF RecordRow, Shape, TypeOK, PhaseFits
  <2>. QED
    BY <1>2, <2>2, <2>3, <2>4 DEF RecordRow, writerVars, Shape, TypeOK, PhaseFits, Sound
<1>. QED
  BY <1>1, <1>2

LEMMA AdvanceTyped ==
  ASSUME Shape, Advance
  PROVE  /\ Shape' /\ position' >= position /\ position' \in Pos /\ applying.pos \in Pos
         /\ position' = position \/ position' = applying.pos
         /\ applying.pos <= position'
<1>1. position \in Pos /\ applying.pos \in Pos /\ position' = Max({position, applying.pos})
  BY DEF Advance, Shape, TypeOK
<1>2. applying' \in [pos : Pos, rows : Seq(Rows), done : Nat]
  BY EmptySeq, PositionTypes DEF Advance, NoBatch
<1>3. /\ position' \in Pos /\ position <= position' /\ applying.pos <= position'
      /\ position' = position \/ position' = applying.pos
  BY <1>1, MaxOfTwo
<1>4. position' >= position
  BY <1>1, <1>3, PositionTypes
<1>. QED
  BY <1>1, <1>2, <1>3, <1>4 DEF Advance, writerVars, hist, Shape, TypeOK, PhaseFits

LEMMA NextTyped == Shape /\ [Next]_vars => Shape'
<1>. SUFFICES ASSUME Shape, [Next]_vars PROVE Shape'
  OBVIOUS
<1>1. CASE \E w \in Writers, rows \in Transactions : Begin(w, rows)
  BY <1>1, BeginTyped
<1>2. CASE \E p \in Positions : Commit(p) \/ Publish(p)
  BY <1>2, CommitTyped, PublishTyped
<1>3. CASE \E w \in Writers : Announce(w) \/ Lose(w)
  BY <1>3, AnnounceTyped, LoseTyped
<1>4. CASE \E w \in Writers : HandleBatch(w) \/ Overflow(w)
  BY <1>4, HandleBatchTyped, OverflowTyped
<1>5. CASE \E w \in Writers : HandleRDATA(w) \/ HandlePosition(w)
  BY <1>5, HandleRDATATyped, HandlePositionTyped
<1>6. CASE Seed \/ Connect \/ ScanAndArm \/ StartPrefill
  BY <1>6, SeedTyped, ConnectTyped, ScanAndArmTyped, StartPrefillTyped
<1>7. CASE \E r \in fill.entries : PrefillEntry(r)
  BY <1>7, PrefillEntryTyped
<1>8. CASE EndPrefill \/ ArmMembership \/ PrefillFails \/ LoseConnection \/ OnDrop \/ EndSession
  BY <1>8, SessionTyped
<1>9. CASE InvalidateRow \/ RecordRow \/ Advance
  BY <1>9, LoopsTyped, AdvanceTyped
<1>10. CASE UNCHANGED vars
  BY <1>10 DEF vars, writerVars, subVars, hist, Shape, TypeOK, PhaseFits
<1>. QED
  BY <1>1, <1>2, <1>3, <1>4, <1>5, <1>6, <1>7, <1>8, <1>9, <1>10 DEF Next

\* Every variable keeps its type: in particular a position that is announced,
\* scanned or adopted is one a cache can hold.
THEOREM TypeCorrect == Spec => []TypeOK
<1>1. Shape => TypeOK
  BY DEF Shape
<1>. QED
  BY <1>1, InitTyped, NextTyped, PTL DEF Spec

---------------------------------------------------------------------------
(* A stream of one writer: the invariant of the feed.                      *)

TheWriter == CHOOSE w \in Writers : TRUE
OneWriter == Writers = {TheWriter}
queue == outbox[TheWriter]

\* The subscriber is between two reads of the channel; it is on its way there.
Handling == phase \in {"invalidating", "feeding", "recorded"}
Connecting == phase \in {"subscribed", "armed", "prefilling", "filled"}

\* Positions are begun and published in order.
WritersInOrder ==
  \A p, r \in Positions : p < r =>
    /\ tx[r].state # "none" => tx[p].state # "none"
    /\ tx[r].state = "sent" => tx[p].state = "sent"

UpTo(a) == \A p \in Positions : p <= a => Written(p)

\* The row (e, p) is yet to be read, after the n-th command.
RowOf(c, p, e) == c.kind # "position" /\ c.pos = p /\ c.row.entity = e
Coming(n, p, e) ==
  \/ tx[p].state = "committed"
  \/ \E m \in DOMAIN queue : n < m /\ RowOf(queue[m], p, e)

\* The batches of the queue are whole but for the front of the first, and a
\* position stands behind a row only if it is not below it.
QueueShape ==
  /\ \A n \in DOMAIN queue : queue[n].kind = "batch" =>
       n + 1 \in DOMAIN queue /\ queue[n + 1].kind # "position" /\ queue[n + 1].pos = queue[n].pos
  /\ \A n, m \in DOMAIN queue : n < m /\ queue[n].kind # "position" =>
       /\ queue[n].pos <= queue[m].pos
       /\ queue[n].kind = "rdata" /\ queue[m].kind # "position" => queue[n].pos < queue[m].pos

\* A command names a position up to which all is committed, and what is above it
\* is told by a later command.
CommandTrue(n) ==
  /\ UpTo(queue[n].pos)
  /\ queue[n].kind # "position" => tx[queue[n].pos].state = "sent"
  /\ \A p \in Positions, e \in Entities :
       Written(p) /\ Names(p, e) /\ queue[n].pos < p => Coming(n, p, e)
QueueTrue == \A n \in DOMAIN queue : CommandTrue(n)

\* The rows held back belong to the batch at the front of the queue.
InPending(p, e) ==
  queue # <<>> /\ Head(queue).pos = p /\ \E i \in DOMAIN pending : pending[i].entity = e
PendingFits ==
  pending # <<>> =>
    phase \in {"reading", "aborted"} /\ queue # <<>> /\ Head(queue).kind # "position"

\* The same of the command in hand; a POSITION has reset the caches already.
HandTrue ==
  /\ UpTo(applying.pos)
  /\ \A p \in Positions, e \in Entities :
       Written(p) /\ Names(p, e) /\ applying.pos < p => Coming(0, p, e)
HandRows ==
  /\ applying.pos \in Positions /\ tx[applying.pos].state = "sent"
  /\ \A n \in DOMAIN queue :
       /\ applying.pos <= queue[n].pos
       /\ queue[n].kind # "position" => applying.pos < queue[n].pos
HandFits ==
  Handling =>
    /\ HandTrue
    /\ \/ HandRows
       \/ phase = "recorded" /\ applying.pos <= own.earliest /\ applying.pos <= memb.earliest

PositionFits ==
  seed <= position /\ \A p \in Positions : seed < p /\ p <= position => Written(p)

\* A connection that was never made or is lost claims nothing, and one that is
\* being made has read nothing yet.
SessionFits ==
  /\ phase \in {"starting", "down", "dropping", "aborting", "aborted"} => ~live
  /\ Connecting \/ phase = "reading" => live
  /\ ~live => phase \in {"dropping", "aborting"} \/ (own.disarmed /\ memb.disarmed)
  /\ Connecting => fill.at = position /\ applied = {} /\ memb.disarmed
  /\ phase = "subscribed" => own.disarmed
  /\ phase = "armed" => positions(own) = {}
  /\ Connecting => \A p \in Positions, e \in Entities :
       sentTop < p /\ Written(p) /\ Names(p, e) => Coming(0, p, e)

\* What each cache has yet to be told: by Prefill, and by the loops.
FillLeft(p, e) ==
  phase \in {"armed", "prefilling"} /\ \E r \in fill.entries : r[1] = e /\ p <= r[2]
OwnLeft(p, e) ==
  /\ applying.pos = p
  /\ \E i \in DOMAIN applying.rows :
       /\ applying.rows[i].entity = e
       /\ phase = "invalidating" \/ (phase = "feeding" /\ applying.done < i)
MembLeft(p, e) ==
  /\ applying.pos = p
  /\ \E i \in DOMAIN applying.rows :
       /\ applying.rows[i].entity = e
       /\ \/ phase = "invalidating" /\ (applying.done < i \/ ~applying.rows[i].legible)
          \/ phase = "feeding" /\ applying.done < i /\ ~applying.rows[i].legible

\* Every committed row is known to the cache, or on its way to it.
OwnComplete ==
  phase \notin {"dropping", "aborting"} /\ ~Deaf(own) =>
    \A p \in Positions, e \in Entities : Written(p) /\ Names(p, e) =>
      \/ Known(own, e, p) \/ Coming(0, p, e) \/ InPending(p, e)
      \/ OwnLeft(p, e) \/ FillLeft(p, e)
MembComplete ==
  phase \notin {"dropping", "aborting"} /\ ~Deaf(memb) =>
    \A p \in Positions, e \in Entities : sentTop < p /\ Written(p) /\ Names(p, e) =>
      Known(memb, e, p) \/ Coming(0, p, e) \/ InPending(p, e) \/ MembLeft(p, e)

\* What the position covers is known, drop or no drop.
OwnServed ==
  ~Deaf(own) => \A p \in Positions, e \in Entities :
    seed < p /\ p <= position /\ Names(p, e) => Known(own, e, p) \/ FillLeft(p, e)
MembServed ==
  ~Deaf(memb) => /\ seed <= memb.earliest
                 /\ \A p \in Positions, e \in Entities :
                      sentTop < p /\ p <= position /\ Names(p, e) => Known(memb, e, p)

\* Something below r is yet to be read; its reset may wipe out what is known of r,
\* so the horizon is above r already.
Late(r) ==
  \/ \E n \in DOMAIN queue : queue[n].pos < r
  \/ \E p \in Positions : p < r /\ tx[p].state # "sent"
  \/ Handling /\ applying.pos < r
OwnAhead ==
  \A r \in Positions : seed < r /\ r <= position /\ Late(r) => r <= own.earliest
MembAhead ==
  ~Deaf(memb) =>
    \A r \in Positions : sentTop < r /\ r <= position /\ Late(r) => r <= memb.earliest

\* What the connection delivered is known, and nothing below it is to come.
Delivered ==
  \A p \in applied :
    /\ tx[p].state = "sent"
    /\ \A n \in DOMAIN queue : p <= queue[n].pos
    /\ Handling => p <= applying.pos
    /\ ~Deaf(own) => \A e \in Entities : Names(p, e) => Known(own, e, p)

\* The inductive invariant.
FeedInv == WritersInOrder /\ QueueShape /\ QueueTrue /\ PendingFits /\ HandFits
CacheInv ==
  /\ PositionFits /\ SessionFits /\ OwnComplete /\ MembComplete /\ OwnServed /\ MembServed
  /\ OwnAhead /\ MembAhead /\ Delivered
Inv == Shape /\ FeedInv /\ CacheInv

---------------------------------------------------------------------------
(* The queue.                                                              *)

\* The commands of the queue.
LEMMA QueueTypes ==
  ASSUME OneWriter, TypeOK
  PROVE  /\ TheWriter \in Writers /\ \A w \in Writers : w = TheWriter
         /\ queue \in Seq(Commands) /\ Len(queue) \in Nat /\ DOMAIN queue = 1 .. Len(queue)
         /\ \A n \in DOMAIN queue :
              /\ queue[n] \in Commands /\ queue[n].pos \in Pos /\ queue[n].pos \in Nat
              /\ queue[n].kind \in {"batch", "rdata", "position"}
              /\ queue[n].kind # "position" => queue[n].pos \in Positions /\ queue[n].row \in Rows
<1>1. TheWriter \in Writers /\ \A w \in Writers : w = TheWriter
  BY DEF OneWriter
<1>2. queue \in Seq(Commands)
  BY <1>1 DEF TypeOK, queue
<1>3. Len(queue) \in Nat /\ DOMAIN queue = 1 .. Len(queue) /\ queue \in [1 .. Len(queue) -> Commands]
  BY <1>2, LenProperties
<1>4. \A c \in Commands :
        /\ c.pos \in Pos /\ c.pos \in Nat /\ c.kind \in {"batch", "rdata", "position"}
        /\ c.kind # "position" => c.pos \in Positions /\ c.row \in Rows
  BY PositionTypes DEF Commands
<1>. QED
  BY <1>1, <1>2, <1>3, <1>4

\* The front of a queue is taken off.
LEMMA Popped ==
  ASSUME OneWriter, TypeOK, NEW w \in Writers, outbox[w] # <<>>,
         outbox' = [outbox EXCEPT ![w] = Tail(@)]
  PROVE  /\ w = TheWriter /\ outbox[w] = queue /\ queue # <<>> /\ queue' = Tail(queue)
         /\ Head(queue) = queue[1] /\ 1 \in DOMAIN queue
         /\ DOMAIN queue' = 1 .. Len(queue) - 1
         /\ \A n \in DOMAIN queue' : n \in Nat /\ n + 1 \in DOMAIN queue /\ queue'[n] = queue[n + 1]
         /\ \A n \in DOMAIN queue : n = 1 \/ (n - 1 \in DOMAIN queue' /\ queue'[n - 1] = queue[n])
<1>1. w = TheWriter /\ outbox[w] = queue /\ queue \in Seq(Commands)
      /\ Len(queue) \in Nat /\ DOMAIN queue = 1 .. Len(queue)
  BY QueueTypes DEF queue
<1>2. queue' = Tail(queue) /\ queue # <<>>
  BY <1>1 DEF queue, TypeOK
<1>3. /\ Tail(queue) \in Seq(Commands) /\ Len(Tail(queue)) = Len(queue) - 1
      /\ \A i \in 1 .. Len(Tail(queue)) : Tail(queue)[i] = queue[i + 1]
      /\ Len(queue) \in Nat \ {0}
  BY <1>1, <1>2, HeadTailProperties, EmptySeq
<1>4. DOMAIN queue' = 1 .. Len(queue) - 1
  BY <1>2, <1>3, LenProperties
<1>5. Head(queue) = queue[1] /\ 1 \in DOMAIN queue
  BY <1>1, <1>3
<1>6. \A n \in DOMAIN queue' : n \in Nat /\ n + 1 \in DOMAIN queue /\ queue'[n] = queue[n + 1]
  BY <1>1, <1>2, <1>3, <1>4
<1>7. \A n \in DOMAIN queue : n = 1 \/ (n - 1 \in DOMAIN queue' /\ queue'[n - 1] = queue[n])
  BY <1>1, <1>2, <1>3, <1>4
<1>. QED
  BY <1>1, <1>2, <1>4, <1>5, <1>6, <1>7

\* A step of the writers, as the rest of the system sees it: what was committed,
\* published or queued stays so, a row that becomes committed is one to come, and
\* a new command is either for a position that was unpublished or a POSITION that
\* is not below what is published and not below what all is committed up to.
Grown ==
  /\ \A p \in Positions :
       /\ tx[p].state # "none" => tx'[p].rows = tx[p].rows /\ tx'[p].state # "none"
       /\ tx[p].state = "sent" => tx'[p].state = "sent"
       /\ tx[p].state = "committed" => tx'[p].state \in {"committed", "sent"}
       /\ tx'[p].state \in {"committed", "sent"} =>
            tx[p].state \in {"committed", "sent"} \/ tx'[p].state = "committed"
       /\ tx[p].state # "sent" /\ tx'[p].state = "sent" =>
            \A q \in Positions : q < p => tx[q].state = "sent"
       /\ tx[p].state = "committed" /\ tx'[p].state = "sent" =>
            \A e \in Entities : Names(p, e) =>
              \E m \in DOMAIN queue' : m \notin DOMAIN queue /\ RowOf(queue'[m], p, e)
  /\ \A n \in DOMAIN queue : n \in DOMAIN queue' /\ queue'[n] = queue[n]
  /\ queue # <<>> => queue' # <<>> /\ Head(queue') = Head(queue)
  /\ \A n \in DOMAIN queue' : n \notin DOMAIN queue =>
       \/ /\ queue'[n].kind # "position" /\ queue'[n].pos \in Positions
          /\ tx[queue'[n].pos].state = "committed" /\ tx'[queue'[n].pos].state = "sent"
       \/ /\ queue'[n].kind = "position" /\ queue'[n].pos \in Pos /\ tx' = tx
          /\ \A p \in Positions : p <= queue'[n].pos => Written(p)
          /\ \A p \in Positions : tx[p].state = "sent" => p <= queue'[n].pos
          /\ \A r \in Positions : queue'[n].pos < r => \E p \in Positions : p <= r /\ ~Written(p)

LEMMA BeginGrows ==
  ASSUME OneWriter, Inv, NEW w \in Writers, NEW rows \in Transactions, Begin(w, rows)
  PROVE  Grown /\ WritersInOrder' /\ queue' = queue
<1>1. PICK p \in Positions : /\ tx[p].state = "none"
                             /\ \A q \in Positions : q < p => tx[q].state # "none"
                             /\ tx' = [tx EXCEPT ![p] = [state |-> "open", writer |-> w, rows |-> rows]]
  BY DEF Begin
<1>2. DOMAIN tx = Positions
  BY DEF Inv, Shape, TypeOK
<1>3. \A q \in Positions : tx'[q] = IF q = p THEN [state |-> "open", writer |-> w, rows |-> rows] ELSE tx[q]
  BY <1>1, <1>2
<1>4. queue' = queue
  BY DEF Begin, queue
<1>5. WritersInOrder'
  BY <1>1, <1>3, PositionTypes DEF Inv, FeedInv, WritersInOrder
<1>. QED
  BY <1>1, <1>3, <1>4, <1>5 DEF Grown

LEMMA CommitGrows ==
  ASSUME OneWriter, Inv, NEW p \in Positions, Commit(p)
  PROVE  Grown /\ WritersInOrder' /\ queue' = queue
<1>1. tx[p].state = "open" /\ tx' = [tx EXCEPT ![p].state = "committed"]
  BY DEF Commit
<1>2. DOMAIN tx = Positions /\ tx[p] \in [state : {"open", "committed", "sent"}, writer : Writers, rows : Transactions]
  BY <1>1, TxTypes DEF Inv, Shape, TypeOK
<1>3. \A q \in Positions :
        IF q = p THEN tx'[q].state = "committed" /\ tx'[q].rows = tx[q].rows ELSE tx'[q] = tx[q]
  BY <1>1, <1>2
<1>4. queue' = queue
  BY DEF Commit, queue
<1>5. WritersInOrder'
  BY <1>1, <1>3, PositionTypes DEF Inv, FeedInv, WritersInOrder
<1>. QED
  BY <1>1, <1>3, <1>4, <1>5 DEF Grown

\* What Publish appends, and after what.
LEMMA PublishAppends ==
  ASSUME OneWriter, Inv, NEW p \in Positions, Publish(p)
  PROVE  /\ tx[p].state = "committed" /\ tx[p].rows # <<>> /\ tx[p].rows \in Seq(Rows)
         /\ Len(tx[p].rows) \in Nat \ {0} /\ DOMAIN tx[p].rows = 1 .. Len(tx[p].rows)
         /\ \A q \in Positions : q < p => tx[q].state = "sent"
         /\ \A q \in Positions :
              IF q = p THEN tx'[q].state = "sent" /\ tx'[q].rows = tx[q].rows ELSE tx'[q] = tx[q]
         /\ queue' = queue \o Batch(p)
         /\ DOMAIN queue' = 1 .. Len(queue) + Len(tx[p].rows)
         /\ \A n \in DOMAIN queue : n \in DOMAIN queue' /\ queue'[n] = queue[n]
         /\ \A i \in 1 .. Len(tx[p].rows) :
              LET c == queue'[Len(queue) + i]
              IN /\ Len(queue) + i \in DOMAIN queue' /\ Len(queue) + i \notin DOMAIN queue
                 /\ c.pos = p /\ c.row = tx[p].rows[i]
                 /\ c.kind = IF i < Len(tx[p].rows) THEN "batch" ELSE "rdata"
         /\ \A n \in DOMAIN queue' : n \notin DOMAIN queue =>
              n - Len(queue) \in 1 .. Len(tx[p].rows) /\ n = Len(queue) + (n - Len(queue))
<1>. DEFINE k == Len(tx[p].rows)
            b == Batch(p)
<1>1. /\ tx[p].state = "committed" /\ tx' = [tx EXCEPT ![p].state = "sent"]
      /\ outbox' = [outbox EXCEPT ![tx[p].writer] = @ \o b]
      /\ \A q \in Positions : q < p /\ tx[q].state # "none" /\ tx[q].writer = tx[p].writer
                                => tx[q].state = "sent"
  BY DEF Publish
<1>2. /\ DOMAIN tx = Positions /\ tx[p].writer \in Writers
      /\ tx[p] \in [state : {"open", "committed", "sent"}, writer : Writers, rows : Transactions]
      /\ tx[p].rows \in Seq(Rows) /\ tx[p].rows # <<>>
  BY <1>1, TxTypes DEF Inv, Shape, TypeOK
<1>3. \A q \in Positions :
        IF q = p THEN tx'[q].state = "sent" /\ tx'[q].rows = tx[q].rows ELSE tx'[q] = tx[q]
  BY <1>1, <1>2
<1>4. k \in Nat \ {0} /\ DOMAIN tx[p].rows = 1 .. k
  BY <1>2, EmptySeq, LenProperties
<1>5. \A q \in Positions : q < p => tx[q].state = "sent"
  <2>. SUFFICES ASSUME NEW q \in Positions, q < p PROVE tx[q].state = "sent"
    OBVIOUS
  <2>1. tx[q].state # "none"
    BY <1>1 DEF Inv, FeedInv, WritersInOrder
  <2>2. tx[q].writer = tx[p].writer
    BY <2>1, <1>2, TxTypes, QueueTypes DEF Inv, Shape
  <2>. QED
    BY <1>1, <2>1, <2>2
<1>6. /\ queue \in Seq(Commands) /\ Len(queue) \in Nat /\ DOMAIN queue = 1 .. Len(queue)
      /\ tx[p].writer = TheWriter /\ TheWriter \in Writers /\ DOMAIN outbox = Writers
  BY <1>2, QueueTypes DEF Inv, Shape, TypeOK
<1>7. queue' = queue \o b
  BY <1>1, <1>6 DEF queue
<1>8. /\ b \in Seq(Commands) /\ Len(b) = k
      /\ \A i \in 1 .. k : /\ b[i].pos = p /\ b[i].row = tx[p].rows[i]
                           /\ b[i].kind = IF i < k THEN "batch" ELSE "rdata"
  BY <1>1, BatchFacts DEF Inv, Shape
<1>. HIDE DEF b, k
<1>9. /\ queue' \in Seq(Commands) /\ Len(queue') = Len(queue) + k
      /\ \A i \in 1 .. Len(queue) + k :
           queue'[i] = IF i <= Len(queue) THEN queue[i] ELSE b[i - Len(queue)]
  BY <1>6, <1>7, <1>8, ConcatProperties
<1>10. DOMAIN queue' = 1 .. Len(queue) + k
  BY <1>9, LenProperties
<1>11. \A n \in DOMAIN queue : n \in DOMAIN queue' /\ queue'[n] = queue[n]
  BY <1>4, <1>6, <1>9, <1>10
<1>12. ASSUME NEW i \in 1 .. k
       PROVE  /\ Len(queue) + i \in DOMAIN queue' /\ Len(queue) + i \notin DOMAIN queue
              /\ queue'[Len(queue) + i] = b[i]
  <2>1. Len(queue) + i \in 1 .. Len(queue) + k /\ ~(Len(queue) + i <= Len(queue))
        /\ Len(queue) + i - Len(queue) = i
    BY <1>4, <1>6
  <2>. QED
    BY <2>1, <1>6, <1>9, <1>10
<1>13. \A n \in DOMAIN queue' : n \notin DOMAIN queue =>
         n - Len(queue) \in 1 .. k /\ n = Len(queue) + (n - Len(queue))
  BY <1>4, <1>6, <1>10
<1>. QED
  BY <1>1, <1>2, <1>3, <1>4, <1>5, <1>7, <1>8, <1>10, <1>11, <1>12, <1>13 DEF b, k

LEMMA PublishGrows ==
  ASSUME OneWriter, Inv, NEW p \in Positions, Publish(p)
  PROVE  Grown /\ WritersInOrder' /\ QueueShape'
<1>. DEFINE k == Len(tx[p].rows)
            l == Len(queue)
<1>1. /\ tx[p].state = "committed" /\ k \in Nat \ {0} /\ DOMAIN tx[p].rows = 1 .. k
      /\ \A q \in Positions : q < p => tx[q].state = "sent"
      /\ \A q \in Positions :
           IF q = p THEN tx'[q].state = "sent" /\ tx'[q].rows = tx[q].rows ELSE tx'[q] = tx[q]
      /\ DOMAIN queue' = 1 .. l + k
      /\ \A n \in DOMAIN queue : n \in DOMAIN queue' /\ queue'[n] = queue[n]
  BY PublishAppends
<1>2. \A i \in 1 .. k :
        LET c == queue'[l + i]
        IN /\ l + i \in DOMAIN queue' /\ l + i \notin DOMAIN queue
           /\ c.pos = p /\ c.row = tx[p].rows[i]
           /\ c.kind = IF i < k THEN "batch" ELSE "rdata"
  BY PublishAppends
<1>3. \A n \in DOMAIN queue' : n \notin DOMAIN queue => n - l \in 1 .. k /\ n = l + (n - l)
  BY PublishAppends
<1>4. /\ l \in Nat /\ DOMAIN queue = 1 .. l /\ queue \in Seq(Commands)
      /\ \A n \in DOMAIN queue : /\ queue[n].pos \in Nat
                                 /\ queue[n].kind \in {"batch", "rdata", "position"}
                                 /\ queue[n].kind # "position" => queue[n].pos \in Positions
  BY QueueTypes DEF Inv, Shape
<1>. HIDE DEF k, l
<1>5. \A n \in DOMAIN queue' : n \notin DOMAIN queue =>
        /\ queue'[n].pos = p /\ queue'[n].kind # "position"
        /\ queue'[n].kind = IF n < l + k THEN "batch" ELSE "rdata"
  <2>. SUFFICES ASSUME NEW n \in DOMAIN queue', n \notin DOMAIN queue
                PROVE  /\ queue'[n].pos = p /\ queue'[n].kind # "position"
                       /\ queue'[n].kind = IF n < l + k THEN "batch" ELSE "rdata"
    OBVIOUS
  <2>1. PICK i \in 1 .. k : n = l + i
    BY <1>3
  <2>2. n < l + k <=> i < k
    BY <2>1, <1>1, <1>4
  <2>. QED
    BY <2>1, <2>2, <1>2
<1>6. queue # <<>> => queue' # <<>> /\ Head(queue') = Head(queue)
  <2>1. queue # <<>> => 1 \in DOMAIN queue
    BY <1>4, EmptySeq
  <2>2. queue' \in Seq(Commands)
    <3>1. queue' = queue \o Batch(p)
      BY PublishAppends
    <3>2. Batch(p) \in Seq(Commands)
      BY <1>1, BatchFacts DEF Inv, Shape
    <3>. QED
      BY <1>4, <3>1, <3>2, ConcatProperties
  <2>3. queue # <<>> => 1 \in DOMAIN queue' /\ queue'[1] = queue[1]
    BY <2>1, <1>1
  <2>. QED
    BY <2>2, <2>3, <1>4, EmptySeq
<1>7. Grown
  <2>1. ASSUME NEW e \in Entities, Names(p, e)
        PROVE  \E m \in DOMAIN queue' : m \notin DOMAIN queue /\ RowOf(queue'[m], p, e)
    <3>1. PICK i \in 1 .. k : tx[p].rows[i].entity = e
      BY <2>1, <1>1 DEF Names
    <3>2. /\ l + i \in DOMAIN queue' /\ l + i \notin DOMAIN queue
          /\ queue'[l + i].pos = p /\ queue'[l + i].row = tx[p].rows[i]
          /\ queue'[l + i].kind # "position"
      BY <1>2
    <3>. QED
      BY <3>1, <3>2 DEF RowOf
  <2>2. ASSUME NEW n \in Positions
        PROVE  /\ tx[n].state # "none" => tx'[n].rows = tx[n].rows /\ tx'[n].state # "none"
               /\ tx[n].state = "sent" => tx'[n].state = "sent"
               /\ tx[n].state = "committed" => tx'[n].state \in {"committed", "sent"}
               /\ tx'[n].state \in {"committed", "sent"} =>
                    tx[n].state \in {"committed", "sent"} \/ tx'[n].state = "committed"
               /\ tx[n].state # "sent" /\ tx'[n].state = "sent" => n = p
    <3>1. n = p => tx[n].state = "committed" /\ tx'[n].state = "sent" /\ tx'[n].rows = tx[n].rows
      BY <1>1
    <3>2. n # p => tx'[n] = tx[n]
      BY <1>1
    <3>. QED
      BY <3>1, <3>2
  <2>3. ASSUME NEW n \in Positions, tx[n].state # "sent", tx'[n].state = "sent"
        PROVE  /\ \A q \in Positions : q < n => tx[q].state = "sent"
               /\ \A e \in Entities : Names(n, e) =>
                    \E m \in DOMAIN queue' : m \notin DOMAIN queue /\ RowOf(queue'[m], n, e)
    <3>1. n = p
      BY <2>2, <2>3
    <3>. QED
      BY <3>1, <1>1, <2>1
  <2>4. ASSUME NEW n \in Positions, tx[n].state = "committed", tx'[n].state = "sent"
        PROVE  \A e \in Entities : Names(n, e) =>
                 \E m \in DOMAIN queue' : m \notin DOMAIN queue /\ RowOf(queue'[m], n, e)
    BY <2>3, <2>4
  <2>5. \A n \in DOMAIN queue : n \in DOMAIN queue' /\ queue'[n] = queue[n]
    BY <1>1
  <2>. QED
    BY <1>1, <1>5, <1>6, <2>2, <2>3, <2>4, <2>5, Zenon DEF Grown
<1>8. WritersInOrder'
  BY <1>1, PositionTypes DEF Inv, FeedInv, WritersInOrder
<1>9. \A n \in DOMAIN queue : queue[n].kind # "position" => queue[n].pos < p
  <2>. SUFFICES ASSUME NEW n \in DOMAIN queue, queue[n].kind # "position" PROVE queue[n].pos < p
    OBVIOUS
  <2>1. queue[n].pos \in Positions /\ tx[queue[n].pos].state = "sent"
    BY <1>4 DEF Inv, FeedInv, QueueTrue, CommandTrue
  <2>2. queue[n].pos # p /\ ~(p < queue[n].pos)
    BY <2>1, <1>1 DEF Inv, FeedInv, WritersInOrder
  <2>. QED
    BY <2>1, <2>2, PositionTypes
<1>10. QueueShape'
  <2>1. ASSUME NEW n \in DOMAIN queue', queue'[n].kind = "batch"
        PROVE  /\ n + 1 \in DOMAIN queue' /\ queue'[n + 1].kind # "position"
               /\ queue'[n + 1].pos = queue'[n].pos
    <3>1. CASE n \in DOMAIN queue
      <4>1. n + 1 \in DOMAIN queue /\ queue[n + 1].kind # "position" /\ queue[n + 1].pos = queue[n].pos
        BY <1>1, <2>1, <3>1 DEF Inv, FeedInv, QueueShape
      <4>. QED
        BY <4>1, <1>1, <3>1
    <3>2. CASE n \notin DOMAIN queue
      <4>1. n < l + k
        BY <1>5, <2>1, <3>2
      <4>2. n + 1 \in DOMAIN queue' /\ n + 1 \notin DOMAIN queue
        BY <4>1, <1>1, <1>4, <3>2
      <4>. QED
        BY <4>2, <1>5, <3>2
    <3>. QED
      BY <3>1, <3>2
  <2>2. ASSUME NEW n \in DOMAIN queue', NEW m \in DOMAIN queue', n < m, queue'[n].kind # "position"
        PROVE  /\ queue'[n].pos <= queue'[m].pos
               /\ queue'[n].kind = "rdata" /\ queue'[m].kind # "position" => queue'[n].pos < queue'[m].pos
    <3>1. CASE m \in DOMAIN queue
      <4>1. n \in DOMAIN queue
        BY <3>1, <2>2, <1>1, <1>4
      <4>2. queue'[n] = queue[n] /\ queue'[m] = queue[m]
        BY <3>1, <4>1, <1>1
      <4>. QED
        BY <3>1, <4>1, <4>2, <2>2, Zenon DEF Inv, FeedInv, QueueShape
    <3>2. CASE m \notin DOMAIN queue /\ n \in DOMAIN queue
      <4>1. queue'[n] = queue[n] /\ queue'[m].pos = p
        BY <3>2, <1>1, <1>5
      <4>2. queue[n].pos < p /\ queue[n].pos \in Nat /\ p \in Nat
        BY <3>2, <2>2, <4>1, <1>4, <1>9, PositionTypes
      <4>. QED
        BY <4>1, <4>2
    <3>3. CASE m \notin DOMAIN queue /\ n \notin DOMAIN queue
      <4>1. queue'[n].pos = p /\ queue'[m].pos = p /\ p \in Nat
        BY <3>3, <1>5, PositionTypes
      <4>2. n < l + k
        BY <2>2, <1>1, <1>4
      <4>3. queue'[n].kind = "batch"
        BY <3>3, <4>2, <1>5
      <4>. QED
        BY <4>1, <4>3
    <3>. QED
      BY <3>1, <3>2, <3>3
  <2>. QED
    BY <2>1, <2>2, Zenon DEF QueueShape
<1>. QED
  BY <1>7, <1>8, <1>10

LEMMA AnnounceGrows ==
  ASSUME OneWriter, Inv, NEW w \in Writers, Announce(w)
  PROVE  Grown /\ WritersInOrder' /\ QueueShape' /\ tx' = tx
<1>. DEFINE a == Max({OwnTop(w), PersistedUpTo})
            c == [kind |-> "position", pos |-> a]
            l == Len(queue)
<1>1. tx' = tx /\ outbox' = [outbox EXCEPT ![w] = Append(@, c)]
  BY DEF Announce
<1>2. /\ w = TheWriter /\ TheWriter \in Writers /\ DOMAIN outbox = Writers
      /\ queue \in Seq(Commands) /\ l \in Nat /\ DOMAIN queue = 1 .. l
  BY QueueTypes DEF Inv, Shape, TypeOK
<1>3. queue' = Append(queue, c)
  BY <1>1, <1>2 DEF queue
<1>4. a \in Pos /\ a \in Nat /\ c \in Commands /\ c.kind = "position" /\ c.pos = a
  BY AnnouncedPos, PositionTypes DEF Commands
<1>5. \A p \in Positions : tx[p].state = "sent" => p <= a
  <2>. SUFFICES ASSUME NEW p \in Positions, tx[p].state = "sent" PROVE p <= a
    OBVIOUS
  <2>1. tx[p].writer = w
    BY <1>2, TxTypes, QueueTypes DEF Inv, Shape
  <2>2. p <= OwnTop(w) /\ OwnTop(w) <= a /\ OwnTop(w) \in Nat /\ p \in Nat
    BY <2>1, AnnouncedPos, PositionTypes
  <2>. QED
    BY <2>2, <1>4
<1>6. \A p \in Positions : p <= a => Written(p)
  <2>. SUFFICES ASSUME NEW p \in Positions, p <= a PROVE Written(p)
    OBVIOUS
  <2>0. p \in Nat /\ p > 0
    BY PositionTypes
  <2>1. CASE a = PersistedUpTo
    <3>1. PersistedUpTo \in Nat /\ p \in 1 .. PersistedUpTo
      BY <2>0, <2>1, <1>4
    <3>. QED
      BY <3>1, AnnouncedPos
  <2>2. CASE a = OwnTop(w)
    <3>1. OwnTop(w) \in Positions /\ tx[OwnTop(w)].state = "sent"
      BY <2>0, <2>2, <1>4, AnnouncedPos
    <3>2. p = OwnTop(w) \/ p < OwnTop(w)
      BY <2>0, <2>2, <1>4
    <3>. QED
      BY <3>1, <3>2 DEF Inv, FeedInv, WritersInOrder, Written
  <2>. QED
    BY <2>1, <2>2, AnnouncedPos
<1>7. ASSUME NEW r \in Positions, a < r PROVE \E p \in Positions : p <= r /\ ~Written(p)
  <2>. SUFFICES ASSUME \A p \in Positions : p <= r => Written(p) PROVE FALSE
    OBVIOUS
  <2>1. r \in 0 .. MaxPos - 1 /\ r \in Nat
    BY PositionTypes DEF Positions
  <2>2. \A p \in 1 .. r : p \in Positions /\ p <= r
    BY <2>1, PositionTypes DEF Positions
  <2>3. r <= PersistedUpTo
    BY <2>1, <2>2, AnnouncedPos
  <2>4. PersistedUpTo <= a /\ PersistedUpTo \in Nat
    BY AnnouncedPos, PositionTypes
  <2>. QED
    BY <2>1, <2>3, <2>4, <1>4, <1>7
<1>. HIDE DEF a, c, l
<1>8. /\ queue' \in Seq(Commands) /\ queue' # <<>> /\ Len(queue') = l + 1
      /\ \A i \in 1 .. l : queue'[i] = queue[i]
      /\ queue'[l + 1] = c
  BY <1>2, <1>3, <1>4, AppendProperties DEF l
<1>9. DOMAIN queue' = 1 .. l + 1
  BY <1>8, LenProperties
<1>10. \A n \in DOMAIN queue : n \in DOMAIN queue' /\ queue'[n] = queue[n]
  BY <1>2, <1>8, <1>9
<1>11. \A n \in DOMAIN queue' : n \notin DOMAIN queue => n = l + 1 /\ queue'[n] = c
  BY <1>2, <1>8, <1>9
<1>12. queue # <<>> => Head(queue') = Head(queue)
  <2>1. queue # <<>> => 1 \in DOMAIN queue
    BY <1>2, EmptySeq DEF l
  <2>2. queue # <<>> => queue'[1] = queue[1]
    BY <2>1, <1>10
  <2>. QED
    BY <2>2, <1>2, <1>8
<1>13. Grown
  BY <1>1, <1>4, <1>5, <1>6, <1>7, <1>8, <1>10, <1>11, <1>12, Zenon DEF Grown, Names
<1>14. WritersInOrder'
  BY <1>1 DEF Inv, FeedInv, WritersInOrder
<1>15. QueueShape'
  <2>0. \A n \in DOMAIN queue : /\ queue[n].pos \in Nat
                                /\ queue[n].kind # "position" => queue[n].pos <= a
    BY <1>5, QueueTypes DEF Inv, Shape, FeedInv, QueueTrue, CommandTrue
  <2>1. ASSUME NEW n \in DOMAIN queue', queue'[n].kind = "batch"
        PROVE  /\ n + 1 \in DOMAIN queue' /\ queue'[n + 1].kind # "position"
               /\ queue'[n + 1].pos = queue'[n].pos
    <3>1. n \in DOMAIN queue
      BY <2>1, <1>4, <1>11
    <3>2. n + 1 \in DOMAIN queue /\ queue[n + 1].kind # "position" /\ queue[n + 1].pos = queue[n].pos
      BY <1>10, <2>1, <3>1 DEF Inv, FeedInv, QueueShape
    <3>. QED
      BY <3>1, <3>2, <1>10
  <2>2. ASSUME NEW n \in DOMAIN queue', NEW m \in DOMAIN queue', n < m, queue'[n].kind # "position"
        PROVE  /\ queue'[n].pos <= queue'[m].pos
               /\ queue'[n].kind = "rdata" /\ queue'[m].kind # "position" => queue'[n].pos < queue'[m].pos
    <3>0. n \in DOMAIN queue /\ queue'[n] = queue[n]
      BY <2>2, <1>4, <1>10, <1>11
    <3>1. CASE m \in DOMAIN queue
      <4>1. queue'[m] = queue[m]
        BY <3>1, <1>10
      <4>. QED
        BY <3>0, <3>1, <4>1, <2>2, Zenon DEF Inv, FeedInv, QueueShape
    <3>2. CASE m \notin DOMAIN queue
      BY <3>0, <3>2, <2>0, <2>2, <1>4, <1>11
    <3>. QED
      BY <3>1, <3>2
  <2>. QED
    BY <2>1, <2>2, Zenon DEF QueueShape
<1>. QED
  BY <1>1, <1>13, <1>14, <1>15

\* A row to come stays one, and so does what has just been committed.
LEMMA ComingGrows ==
  ASSUME OneWriter, Inv, Grown, TypeOK', NEW n \in 0 .. Len(queue),
         NEW p \in Positions, NEW e \in Entities, Written(p)', Names(p, e)',
         Written(p) /\ Names(p, e) => Coming(n, p, e)
  PROVE  Coming(n, p, e)'
<1>1. /\ tx'[p].state \in {"committed", "sent"} /\ (Written(p) => tx'[p].rows = tx[p].rows)
      /\ ~Written(p) => tx'[p].state = "committed"
  BY DEF Grown, Written
<1>2. /\ Len(queue) \in Nat /\ DOMAIN queue = 1 .. Len(queue)
      /\ queue' \in Seq(Commands) /\ Len(queue') \in Nat /\ DOMAIN queue' = 1 .. Len(queue')
  <2>1. queue' \in Seq(Commands)
    BY QueueTypes DEF TypeOK, queue, Inv, Shape
  <2>. QED
    BY <2>1, LenProperties, QueueTypes DEF Inv, Shape
<1>3. CASE tx'[p].state = "committed"
  BY <1>3 DEF Coming
<1>4. CASE tx'[p].state = "sent"
  <2>1. Written(p) /\ Names(p, e)
    BY <1>1, <1>4 DEF Names
  <2>2. CASE tx[p].state = "committed"
    <3>1. PICK m \in DOMAIN queue' : m \notin DOMAIN queue /\ RowOf(queue'[m], p, e)
      BY <2>1, <2>2, <1>4 DEF Grown
    <3>2. n < m
      BY <3>1, <1>2
    <3>. QED
      BY <3>1, <3>2 DEF Coming
  <2>3. CASE \E m \in DOMAIN queue : n < m /\ RowOf(queue[m], p, e)
    BY <2>3 DEF Coming, Grown
  <2>. QED
    BY <2>1, <2>2, <2>3 DEF Coming
<1>. QED
  BY <1>1, <1>3, <1>4

\* A step of the writers keeps the invariant: it touches neither the subscriber
\* nor the caches.
LEMMA WriterKeeps ==
  ASSUME OneWriter, Inv, Shape', Grown, WritersInOrder', QueueShape', UNCHANGED <<subVars, own, memb>>
  PROVE  Inv'
<1>0. TypeOK /\ TypeOK' /\ FeedInv /\ CacheInv
  BY DEF Inv, Shape
<1>1. /\ phase' = phase /\ live' = live /\ position' = position /\ pending' = pending
      /\ applying' = applying /\ fill' = fill /\ sentTop' = sentTop /\ seed' = seed
      /\ applied' = applied /\ own' = own /\ memb' = memb
  BY DEF subVars, hist
<1>2. ASSUME NEW p \in Positions, Written(p)
      PROVE  Written(p)' /\ \A e \in Entities : Names(p, e)' <=> Names(p, e)
  <2>1. tx'[p].rows = tx[p].rows /\ tx'[p].state \in {"committed", "sent"}
    BY <1>2 DEF Grown, Written
  <2>. QED
    BY <2>1 DEF Written, Names
<1>3. /\ Len(queue) \in Nat /\ DOMAIN queue = 1 .. Len(queue) /\ 0 \in 0 .. Len(queue)
      /\ \A n \in DOMAIN queue : n \in 0 .. Len(queue)
      /\ \A n \in DOMAIN queue : queue[n].pos \in Nat
      /\ \A n \in DOMAIN queue : queue[n].kind # "position" => queue[n].pos \in Positions
  BY <1>0, QueueTypes
<1>4. \A n \in DOMAIN queue : n \in DOMAIN queue' /\ queue'[n] = queue[n]
  BY DEF Grown
<1>5. ASSUME NEW a, UpTo(a) PROVE UpTo(a)'
  BY <1>2, <1>5 DEF UpTo
<1>6. ASSUME NEW n \in 0 .. Len(queue), NEW p \in Positions, NEW e \in Entities, Written(p)', Names(p, e)',
             Written(p) /\ Names(p, e) => Coming(n, p, e)
      PROVE  Coming(n, p, e)'
  BY <1>0, <1>6, ComingGrows
<1>7. ASSUME NEW n \in DOMAIN queue', n \notin DOMAIN queue
      PROVE  \/ /\ queue'[n].kind # "position" /\ queue'[n].pos \in Positions
                /\ tx[queue'[n].pos].state = "committed" /\ tx'[queue'[n].pos].state = "sent"
             \/ /\ queue'[n].kind = "position" /\ queue'[n].pos \in Nat /\ tx' = tx
                /\ \A p \in Positions : p <= queue'[n].pos => Written(p)
                /\ \A p \in Positions : tx[p].state = "sent" => p <= queue'[n].pos
                /\ \A r \in Positions : queue'[n].pos < r => \E p \in Positions : p <= r /\ ~Written(p)
  BY <1>7, PositionTypes DEF Grown
<1>8. QueueTrue'
  <2>. SUFFICES ASSUME NEW n \in DOMAIN queue' PROVE CommandTrue(n)'
    BY DEF QueueTrue
  <2>. DEFINE a == queue'[n].pos
  <2>1. CASE n \in DOMAIN queue
    <3>1. CommandTrue(n) /\ queue'[n] = queue[n] /\ a = queue[n].pos
      BY <1>0, <2>1, <1>4 DEF FeedInv, QueueTrue
    <3>2. \A p \in Positions : p <= a => Written(p)'
      BY <3>1, <1>2 DEF CommandTrue, UpTo
    <3>3. queue'[n].kind # "position" => tx'[a].state = "sent"
      BY <2>1, <3>1, <1>3 DEF CommandTrue, Grown
    <3>4. ASSUME NEW p \in Positions, NEW e \in Entities, Written(p)', Names(p, e)', a < p
          PROVE  Coming(n, p, e)'
      <4>1. Written(p) /\ Names(p, e) => Coming(n, p, e)
        BY <3>1, <3>4 DEF CommandTrue
      <4>. QED
        BY <2>1, <3>4, <4>1, <1>3, <1>6
    <3>. QED
      BY <3>1, <3>2, <3>3, <3>4 DEF CommandTrue, UpTo
  <2>2. CASE n \notin DOMAIN queue /\ queue'[n].kind # "position"
    <3>1. a \in Positions /\ tx[a].state = "committed" /\ tx'[a].state = "sent"
      BY <2>2, <1>7
    <3>2. \A p \in Positions : p <= a => Written(p)'
      <4>1. \A p \in Positions : p <= a => p = a \/ p < a
        BY <3>1, PositionTypes
      <4>2. \A p \in Positions : p <= a => tx'[p].state = "sent"
        BY <3>1, <4>1 DEF WritersInOrder
      <4>. QED
        BY <4>2 DEF Written
    <3>3. ASSUME NEW p \in Positions, Written(p)', a < p
          PROVE  tx'[p].state = "committed"
      <4>1. tx[p].state # "sent"
        BY <1>0, <3>1, <3>3 DEF FeedInv, WritersInOrder
      <4>2. tx'[p].state # "sent"
        BY <3>1, <3>3, <4>1 DEF Grown
      <4>. QED
        BY <3>3, <4>2 DEF Written
    <3>. QED
      BY <2>2, <3>1, <3>2, <3>3 DEF CommandTrue, Coming, UpTo
  <2>3. CASE n \notin DOMAIN queue /\ queue'[n].kind = "position"
    <3>1. /\ \A p \in Positions : p <= a => Written(p)
          /\ \A p \in Positions : tx[p].state = "sent" => p <= a
          /\ a \in Nat /\ tx' = tx
      BY <2>3, <1>7
    <3>2. \A p \in Positions : p <= a => Written(p)'
      BY <3>1, <1>2
    <3>3. ASSUME NEW p \in Positions, Written(p)', a < p
          PROVE  tx'[p].state = "committed"
      <4>1. tx[p].state # "sent"
        BY <3>1, <3>3, PositionTypes
      <4>. QED
        BY <3>1, <3>3, <4>1 DEF Written
    <3>. QED
      BY <2>3, <3>2, <3>3 DEF CommandTrue, Coming, UpTo
  <2>. QED
    BY <2>1, <2>2, <2>3
<1>9. PendingFits'
  BY <1>0, <1>1 DEF FeedInv, PendingFits, Grown
<1>10. ASSUME NEW p \in Positions, NEW e \in Entities, InPending(p, e) PROVE InPending(p, e)'
  BY <1>1, <1>10 DEF InPending, Grown
<1>11. HandFits'
  <2>. SUFFICES ASSUME Handling
                PROVE  /\ HandTrue'
                       /\ \/ HandRows'
                          \/ /\ phase = "recorded" /\ applying.pos <= own.earliest
                             /\ applying.pos <= memb.earliest
    BY <1>1 DEF HandFits, Handling
  <2>1. HandTrue /\ (HandRows \/ (phase = "recorded" /\ applying.pos <= own.earliest
                                  /\ applying.pos <= memb.earliest))
    BY <1>0 DEF FeedInv, HandFits
  <2>2. HandTrue'
    <3>1. UpTo(applying.pos)'
      BY <2>1, <1>1, <1>2 DEF HandTrue, UpTo
    <3>2. ASSUME NEW p \in Positions, NEW e \in Entities, Written(p)', Names(p, e)', applying.pos < p
          PROVE  Coming(0, p, e)'
      BY <2>1, <3>2, <1>3, <1>6 DEF HandTrue
    <3>. QED
      BY <3>1, <3>2, <1>1 DEF HandTrue
  <2>3. ASSUME HandRows PROVE HandRows'
    <3>1. /\ applying.pos \in Positions /\ applying.pos \in Nat
          /\ tx[applying.pos].state = "sent" /\ tx'[applying.pos].state = "sent"
      BY <2>3, PositionTypes DEF HandRows, Grown
    <3>2. ASSUME NEW n \in DOMAIN queue'
          PROVE  /\ applying.pos <= queue'[n].pos
                 /\ queue'[n].kind # "position" => applying.pos < queue'[n].pos
      <4>1. CASE n \in DOMAIN queue
        BY <2>3, <4>1, <1>4 DEF HandRows
      <4>2. CASE n \notin DOMAIN queue /\ queue'[n].kind # "position"
        <5>. DEFINE a == queue'[n].pos
        <5>1. a \in Positions /\ tx[a].state = "committed"
          BY <4>2, <1>7
        <5>2. ~(a < applying.pos) /\ a # applying.pos
          BY <1>0, <3>1, <5>1 DEF FeedInv, WritersInOrder
        <5>3. applying.pos < a
          BY <3>1, <5>1, <5>2, PositionTypes
        <5>. QED
          BY <5>1, <5>3, <3>1, PositionTypes
      <4>3. CASE n \notin DOMAIN queue /\ queue'[n].kind = "position"
        BY <4>3, <1>7, <3>1
      <4>. QED
        BY <4>1, <4>2, <4>3
    <3>. QED
      BY <3>1, <3>2, <1>1 DEF HandRows
  <2>. QED
    BY <2>1, <2>2, <2>3
<1>12. PositionFits'
  BY <1>0, <1>1, <1>2 DEF CacheInv, PositionFits
<1>13. SessionFits'
  <2>1. ASSUME Connecting, NEW p \in Positions, NEW e \in Entities,
               sentTop < p, Written(p)', Names(p, e)'
        PROVE  Coming(0, p, e)'
    BY <1>0, <2>1, <1>3, <1>6 DEF CacheInv, SessionFits
  <2>. QED
    BY <1>0, <1>1, <2>1 DEF CacheInv, SessionFits, Connecting, positions
<1>14. \A p \in Positions, e \in Entities :
         /\ Known(own, e, p)' <=> Known(own, e, p)
         /\ Known(memb, e, p)' <=> Known(memb, e, p)
         /\ FillLeft(p, e)' <=> FillLeft(p, e)
         /\ OwnLeft(p, e)' <=> OwnLeft(p, e)
         /\ MembLeft(p, e)' <=> MembLeft(p, e)
  BY <1>1 DEF Known, FillLeft, OwnLeft, MembLeft
<1>15. (Deaf(own)' <=> Deaf(own)) /\ (Deaf(memb)' <=> Deaf(memb))
  BY <1>1 DEF Deaf
<1>16. OwnComplete'
  <2>. SUFFICES ASSUME phase \notin {"dropping", "aborting"}, ~Deaf(own),
                       NEW p \in Positions, NEW e \in Entities, Written(p)', Names(p, e)'
                PROVE  \/ Known(own, e, p) \/ Coming(0, p, e)' \/ InPending(p, e)'
                       \/ OwnLeft(p, e) \/ FillLeft(p, e)
    BY <1>1, <1>14, <1>15 DEF OwnComplete
  <2>1. Written(p) /\ Names(p, e) => \/ Known(own, e, p) \/ Coming(0, p, e) \/ InPending(p, e)
                                     \/ OwnLeft(p, e) \/ FillLeft(p, e)
    BY <1>0 DEF CacheInv, OwnComplete
  <2>. QED
    BY <2>1, <1>3, <1>6, <1>10
<1>17. MembComplete'
  <2>. SUFFICES ASSUME phase \notin {"dropping", "aborting"}, ~Deaf(memb),
                       NEW p \in Positions, NEW e \in Entities, sentTop < p, Written(p)', Names(p, e)'
                PROVE  \/ Known(memb, e, p) \/ Coming(0, p, e)' \/ InPending(p, e)'
                       \/ MembLeft(p, e)
    BY <1>1, <1>14, <1>15 DEF MembComplete
  <2>1. Written(p) /\ Names(p, e) => \/ Known(memb, e, p) \/ Coming(0, p, e) \/ InPending(p, e)
                                     \/ MembLeft(p, e)
    BY <1>0 DEF CacheInv, MembComplete
  <2>. QED
    BY <2>1, <1>3, <1>6, <1>10
<1>18. OwnServed'
  <2>. SUFFICES ASSUME ~Deaf(own), NEW p \in Positions, NEW e \in Entities,
                       seed < p, p <= position, Names(p, e)'
                PROVE  Known(own, e, p) \/ FillLeft(p, e)
    BY <1>1, <1>14, <1>15 DEF OwnServed
  <2>1. Written(p)
    BY <1>0 DEF CacheInv, PositionFits
  <2>. QED
    BY <1>0, <1>2, <2>1 DEF CacheInv, OwnServed
<1>19. MembServed'
  <2>. SUFFICES ASSUME ~Deaf(memb)
                PROVE  /\ seed <= memb.earliest
                       /\ \A p \in Positions, e \in Entities :
                            sentTop < p /\ p <= position /\ Names(p, e)' => Known(memb, e, p)
    BY <1>1, <1>14, <1>15 DEF MembServed
  <2>1. seed <= memb.earliest
    BY <1>0 DEF CacheInv, MembServed
  <2>2. ASSUME NEW p \in Positions, NEW e \in Entities, sentTop < p, p <= position, Names(p, e)'
        PROVE  Known(memb, e, p)
    <3>0. p \in Pos /\ p \in Nat /\ seed \in Nat /\ memb.earliest \in Nat /\ Sound(memb)
      BY <1>0, PositionTypes DEF TypeOK, Caches, Inv, Shape, PhaseFits
    <3>1. CASE p <= seed
      <4>1. p <= memb.earliest
        BY <2>1, <3>0, <3>1
      <4>. QED
        BY <3>0, <4>1, KnownBelowHorizon
    <3>2. CASE seed < p
      <4>1. Written(p)
        BY <1>0, <2>2, <3>2 DEF CacheInv, PositionFits
      <4>. QED
        BY <1>0, <1>2, <2>2, <4>1 DEF CacheInv, MembServed
    <3>. QED
      BY <3>0, <3>1, <3>2
  <2>. QED
    BY <2>1, <2>2
<1>20. ASSUME NEW r \in Positions, seed < r, r <= position, Late(r)' PROVE Late(r)
  <2>0. Written(r)
    BY <1>0, <1>20 DEF CacheInv, PositionFits
  <2>1. CASE \E n \in DOMAIN queue' : queue'[n].pos < r
    <3>1. PICK n \in DOMAIN queue' : queue'[n].pos < r
      BY <2>1
    <3>2. CASE n \in DOMAIN queue
      BY <3>1, <3>2, <1>4 DEF Late
    <3>3. CASE n \notin DOMAIN queue /\ queue'[n].kind # "position"
      <4>1. queue'[n].pos \in Positions /\ tx[queue'[n].pos].state # "sent"
        BY <3>3, <1>7
      <4>. QED
        BY <3>1, <4>1 DEF Late
    <3>4. CASE n \notin DOMAIN queue /\ queue'[n].kind = "position"
      <4>1. PICK p \in Positions : p <= r /\ ~Written(p)
        BY <3>1, <3>4, <1>7
      <4>2. p < r /\ tx[p].state # "sent"
        BY <2>0, <4>1, PositionTypes DEF Written
      <4>. QED
        BY <4>2 DEF Late
    <3>. QED
      BY <3>2, <3>3, <3>4
  <2>2. CASE \E p \in Positions : p < r /\ tx'[p].state # "sent"
    BY <2>2 DEF Late, Grown
  <2>3. CASE Handling /\ applying.pos < r
    BY <2>3 DEF Late
  <2>. QED
    BY <1>1, <1>20, <2>1, <2>2, <2>3 DEF Late, Handling
<1>21. OwnAhead'
  BY <1>0, <1>1, <1>20 DEF CacheInv, OwnAhead
<1>22. MembAhead'
  <2>. SUFFICES ASSUME ~Deaf(memb), NEW r \in Positions, sentTop < r, r <= position, Late(r)'
                PROVE  r <= memb.earliest
    BY <1>1, <1>15 DEF MembAhead
  <2>1. CASE r <= seed
    <3>1. seed <= memb.earliest
      BY <1>0 DEF CacheInv, MembServed
    <3>2. r \in Nat /\ seed \in Nat /\ memb.earliest \in Nat
      BY <1>0, PositionTypes DEF TypeOK, Caches
    <3>. QED
      BY <2>1, <3>1, <3>2
  <2>2. CASE seed < r
    BY <1>0, <1>20, <2>2 DEF CacheInv, MembAhead
  <2>3. r \in Nat /\ seed \in Nat
    BY <1>0, PositionTypes DEF TypeOK
  <2>. QED
    BY <2>1, <2>2, <2>3
<1>23. Delivered'
  <2>. SUFFICES ASSUME NEW p \in applied
                PROVE  /\ tx'[p].state = "sent"
                       /\ \A n \in DOMAIN queue' : p <= queue'[n].pos
                       /\ Handling => p <= applying.pos
                       /\ ~Deaf(own) => \A e \in Entities : Names(p, e)' => Known(own, e, p)
    BY <1>1, <1>15 DEF Delivered, Handling, Known
  <2>0. /\ p \in Positions /\ p \in Nat /\ tx[p].state = "sent"
        /\ \A n \in DOMAIN queue : p <= queue[n].pos
        /\ Handling => p <= applying.pos
        /\ ~Deaf(own) => \A e \in Entities : Names(p, e) => Known(own, e, p)
    BY <1>0, PositionTypes DEF CacheInv, Delivered, TypeOK
  <2>1. tx'[p].state = "sent"
    BY <2>0 DEF Grown
  <2>2. ASSUME NEW n \in DOMAIN queue' PROVE p <= queue'[n].pos
    <3>1. CASE n \in DOMAIN queue
      BY <2>0, <3>1, <1>4
    <3>2. CASE n \notin DOMAIN queue /\ queue'[n].kind # "position"
      <4>1. queue'[n].pos \in Positions /\ tx[queue'[n].pos].state = "committed"
        BY <3>2, <1>7
      <4>2. ~(queue'[n].pos < p)
        BY <1>0, <2>0, <4>1 DEF FeedInv, WritersInOrder
      <4>3. queue'[n].pos \in Nat /\ p \in Nat
        BY <2>0, <4>1, PositionTypes
      <4>. QED
        BY <4>2, <4>3
    <3>3. CASE n \notin DOMAIN queue /\ queue'[n].kind = "position"
      BY <2>0, <3>3, <1>7
    <3>. QED
      BY <3>1, <3>2, <3>3
  <2>3. \A e \in Entities : Names(p, e)' <=> Names(p, e)
    BY <2>0, <1>2 DEF Written
  <2>. QED
    BY <2>0, <2>1, <2>2, <2>3
<1>. QED
  BY <1>8, <1>9, <1>11, <1>12, <1>13, <1>16, <1>17, <1>18, <1>19, <1>21, <1>22, <1>23
  DEF Inv, FeedInv, CacheInv

\* Nothing is written, and nothing is claimed.
LEMMA InitInv == ASSUME OneWriter PROVE Init => Inv
<1>. SUFFICES ASSUME Init PROVE Inv
  OBVIOUS
<1>1. Shape
  BY InitTyped
<1>2. queue = <<>> /\ DOMAIN queue = {}
  BY QueueTypes, <1>1 DEF Init, queue, Shape
<1>3. \A p \in Positions : tx[p].state = "none" /\ ~Written(p)
  BY DEF Init, NoTx, Written
<1>4. phase = "starting" /\ position = 0 /\ seed = 0 /\ applied = {} /\ pending = <<>> /\ live = FALSE
  BY DEF Init
<1>5. own.disarmed /\ memb.disarmed /\ Deaf(own) /\ Deaf(memb)
  BY NewSound, ZeroIsPos DEF Init, Deaf
<1>6. FeedInv
  BY <1>2, <1>3, <1>4 DEF FeedInv, WritersInOrder, QueueShape, QueueTrue, PendingFits, HandFits, Handling
<1>7. PositionFits
  BY <1>4, PositionTypes DEF PositionFits
<1>8. SessionFits
  BY <1>4, <1>5 DEF SessionFits, Connecting
<1>9. OwnAhead /\ MembAhead
  <2>1. \A r \in Positions : ~(r <= position)
    BY <1>4, PositionTypes
  <2>. QED
    BY <2>1, <1>5 DEF OwnAhead, MembAhead
<1>. QED
  BY <1>1, <1>4, <1>5, <1>6, <1>7, <1>8, <1>9
  DEF Inv, CacheInv, OwnComplete, MembComplete, OwnServed, MembServed, Delivered

---------------------------------------------------------------------------
(* The subscriber's steps. Those that read nothing leave the feed alone;   *)
(* those that read take one command off its front.                         *)

LEMMA StillFacts ==
  ASSUME OneWriter, Inv, UNCHANGED <<tx, outbox>>
  PROVE  /\ WritersInOrder' /\ QueueShape' /\ QueueTrue' /\ queue' = queue
         /\ \A p \in Positions : (Written(p)' <=> Written(p)) /\ tx'[p] = tx[p]
         /\ \A p \in Positions, e \in Entities : Names(p, e)' <=> Names(p, e)
         /\ \A n \in Nat, p \in Positions, e \in Entities : Coming(n, p, e)' <=> Coming(n, p, e)
<1>0. WritersInOrder /\ QueueShape /\ QueueTrue
  BY DEF Inv, FeedInv
<1>1. queue' = queue /\ tx' = tx
  BY DEF queue
<1>2. WritersInOrder' /\ QueueShape'
  BY <1>0, <1>1 DEF WritersInOrder, QueueShape
<1>3. \A p \in Positions : (Written(p)' <=> Written(p)) /\ tx'[p] = tx[p]
  BY <1>1 DEF Written
<1>4. \A p \in Positions, e \in Entities : Names(p, e)' <=> Names(p, e)
  BY <1>1 DEF Names
<1>5. \A n, p, e : Coming(n, p, e)' <=> Coming(n, p, e)
  BY <1>1 DEF Coming
<1>6. QueueTrue'
  <2>. SUFFICES ASSUME NEW n \in DOMAIN queue PROVE CommandTrue(n)'
    BY <1>1 DEF QueueTrue
  <2>1. CommandTrue(n)
    BY <1>0 DEF QueueTrue
  <2>. QED
    BY <1>1, <1>3, <1>4, <1>5, <2>1 DEF CommandTrue, UpTo
<1>. QED
  BY <1>1, <1>2, <1>3, <1>4, <1>5, <1>6

LEMMA PoppedFacts ==
  ASSUME OneWriter, Inv, NEW w \in Writers, outbox[w] # <<>>, tx' = tx,
         outbox' = [outbox EXCEPT ![w] = Tail(@)]
  PROVE  /\ WritersInOrder' /\ QueueShape' /\ QueueTrue'
         /\ outbox[w] = queue /\ queue # <<>> /\ Head(queue) = queue[1] /\ 1 \in DOMAIN queue
         /\ \A n \in DOMAIN queue' : n \in Nat /\ n + 1 \in DOMAIN queue /\ queue'[n] = queue[n + 1]
         /\ \A n \in DOMAIN queue : n = 1 \/ (n - 1 \in DOMAIN queue' /\ queue'[n - 1] = queue[n])
         /\ \A p \in Positions : (Written(p)' <=> Written(p)) /\ tx'[p] = tx[p]
         /\ \A p \in Positions, e \in Entities : Names(p, e)' <=> Names(p, e)
         /\ \A p \in Positions, e \in Entities :
              /\ Coming(1, p, e) => Coming(0, p, e)'
              /\ Coming(0, p, e) => Coming(0, p, e)' \/ RowOf(queue[1], p, e)
<1>0. TypeOK /\ WritersInOrder /\ QueueShape /\ QueueTrue
  BY DEF Inv, FeedInv, Shape
<1>1. /\ outbox[w] = queue /\ queue # <<>> /\ Head(queue) = queue[1] /\ 1 \in DOMAIN queue
      /\ DOMAIN queue' = 1 .. Len(queue) - 1
      /\ \A n \in DOMAIN queue' : n \in Nat /\ n + 1 \in DOMAIN queue /\ queue'[n] = queue[n + 1]
      /\ \A n \in DOMAIN queue : n = 1 \/ (n - 1 \in DOMAIN queue' /\ queue'[n - 1] = queue[n])
  BY <1>0, Popped
<1>2. Len(queue) \in Nat /\ DOMAIN queue = 1 .. Len(queue)
  BY <1>0, QueueTypes
<1>3. WritersInOrder'
  BY <1>0 DEF WritersInOrder
<1>4. \A p \in Positions : (Written(p)' <=> Written(p)) /\ tx'[p] = tx[p]
  BY DEF Written
<1>5. \A p \in Positions, e \in Entities : Names(p, e)' <=> Names(p, e)
  BY DEF Names
<1>6. ASSUME NEW n \in Nat, NEW p \in Positions, NEW e \in Entities, Coming(n + 1, p, e)
      PROVE  Coming(n, p, e)'
  <2>1. CASE tx[p].state = "committed"
    BY <2>1 DEF Coming
  <2>2. CASE \E m \in DOMAIN queue : n + 1 < m /\ RowOf(queue[m], p, e)
    <3>1. PICK m \in DOMAIN queue : n + 1 < m /\ RowOf(queue[m], p, e)
      BY <2>2
    <3>2. m - 1 \in DOMAIN queue' /\ queue'[m - 1] = queue[m] /\ n < m - 1
      BY <3>1, <1>1, <1>2
    <3>. QED
      BY <3>1, <3>2 DEF Coming
  <2>. QED
    BY <1>6, <2>1, <2>2 DEF Coming
<1>7. ASSUME NEW p \in Positions, NEW e \in Entities, Coming(0, p, e), ~RowOf(queue[1], p, e)
      PROVE  Coming(1, p, e)
  <2>1. CASE \E m \in DOMAIN queue : 0 < m /\ RowOf(queue[m], p, e)
    <3>1. PICK m \in DOMAIN queue : RowOf(queue[m], p, e)
      BY <2>1
    <3>2. 1 < m
      BY <1>2, <1>7, <3>1
    <3>. QED
      BY <3>1, <3>2 DEF Coming
  <2>. QED
    BY <1>7, <2>1 DEF Coming
<1>8. QueueShape'
  <2>1. ASSUME NEW n \in DOMAIN queue', queue'[n].kind = "batch"
        PROVE  /\ n + 1 \in DOMAIN queue' /\ queue'[n + 1].kind # "position"
               /\ queue'[n + 1].pos = queue'[n].pos
    <3>1. n \in Nat /\ n + 1 \in DOMAIN queue /\ queue'[n] = queue[n + 1]
      BY <1>1
    <3>2. (n + 1) + 1 \in DOMAIN queue /\ queue[(n + 1) + 1].kind # "position"
          /\ queue[(n + 1) + 1].pos = queue[n + 1].pos
      BY <1>0, <2>1, <3>1 DEF QueueShape
    <3>3. n + 1 \in DOMAIN queue'
      BY <1>1, <1>2, <3>1, <3>2
    <3>. QED
      BY <3>1, <3>2, <3>3, <1>1
  <2>2. ASSUME NEW n \in DOMAIN queue', NEW m \in DOMAIN queue', n < m, queue'[n].kind # "position"
        PROVE  /\ queue'[n].pos <= queue'[m].pos
               /\ queue'[n].kind = "rdata" /\ queue'[m].kind # "position" => queue'[n].pos < queue'[m].pos
    <3>1. /\ n + 1 \in DOMAIN queue /\ queue'[n] = queue[n + 1] /\ n \in Nat
          /\ m + 1 \in DOMAIN queue /\ queue'[m] = queue[m + 1] /\ m \in Nat
      BY <1>1
    <3>2. n + 1 < m + 1
      BY <2>2, <3>1
    <3>. QED
      BY <1>0, <2>2, <3>1, <3>2, Zenon DEF QueueShape
  <2>. QED
    BY <2>1, <2>2 DEF QueueShape
<1>9. QueueTrue'
  <2>. SUFFICES ASSUME NEW n \in DOMAIN queue' PROVE CommandTrue(n)'
    BY DEF QueueTrue
  <2>1. n \in Nat /\ n + 1 \in DOMAIN queue /\ queue'[n] = queue[n + 1] /\ CommandTrue(n + 1)
    BY <1>0, <1>1 DEF QueueTrue
  <2>2. \A p \in Positions : p <= queue'[n].pos => Written(p)'
    BY <2>1, <1>4 DEF CommandTrue, UpTo
  <2>3. queue'[n].kind # "position" => tx'[queue'[n].pos].state = "sent"
    BY <2>1 DEF CommandTrue
  <2>4. ASSUME NEW p \in Positions, NEW e \in Entities, Written(p)', Names(p, e)', queue'[n].pos < p
        PROVE  Coming(n, p, e)'
    BY <2>1, <2>4, <1>4, <1>5, <1>6 DEF CommandTrue
  <2>. QED
    BY <2>2, <2>3, <2>4 DEF CommandTrue, UpTo
<1>10. 0 + 1 = 1 /\ 0 \in Nat
  OBVIOUS
<1>11. \A p \in Positions, e \in Entities : Coming(1, p, e) => Coming(0, p, e)'
  BY <1>6, <1>10
<1>. QED
  BY <1>1, <1>3, <1>4, <1>5, <1>7, <1>8, <1>9, <1>11

\* What the types give the arithmetic.
LEMMA Numbers ==
  ASSUME TypeOK
  PROVE  /\ position \in Nat /\ seed \in Nat /\ sentTop \in Nat /\ applying.pos \in Nat
         /\ own.earliest \in Nat /\ memb.earliest \in Nat
         /\ own.disarmed \in BOOLEAN /\ memb.disarmed \in BOOLEAN /\ applying.done \in Nat
         /\ fill.at \in Nat /\ fill.at \in Pos
<1>1. {position, seed, sentTop} \subseteq Pos /\ applying.pos \in Pos /\ fill.at \in Pos
      /\ applying.done \in Nat
  BY DEF TypeOK
<1>2. own.earliest \in Pos /\ memb.earliest \in Pos
      /\ own.disarmed \in BOOLEAN /\ memb.disarmed \in BOOLEAN
  BY DEF TypeOK, Caches
<1>. QED
  BY <1>1, <1>2, PositionTypes

\* A claim about a later change is a claim about an earlier one.
LEMMA KnownDown ==
  ASSUME NEW c, Sound(c), NEW e \in Entities, NEW p \in Pos, NEW q \in Pos, p <= q, Known(c, e, q)
  PROVE  Known(c, e, p)
<1>1. c.earliest \in Nat /\ c.entityPos[e] \in Nat /\ p \in Nat /\ q \in Nat
  BY PositionTypes DEF Sound, Caches
<1>. QED
  BY <1>1 DEF Known

\* A step that adds nothing to what is yet to be read makes nothing late.
LEMMA LateShrinks ==
  ASSUME tx' = tx, \A n \in DOMAIN queue' : \E m \in DOMAIN queue : queue'[n] = queue[m],
         NEW r \in Positions, (Handling' /\ applying'.pos < r) => Late(r), Late(r)'
  PROVE  Late(r)
<1>1. CASE \E n \in DOMAIN queue' : queue'[n].pos < r
  <2>1. PICK n \in DOMAIN queue' : queue'[n].pos < r
    BY <1>1
  <2>2. PICK m \in DOMAIN queue : queue'[n] = queue[m]
    OBVIOUS
  <2>. QED
    BY <2>1, <2>2 DEF Late
<1>2. CASE \E p \in Positions : p < r /\ tx'[p].state # "sent"
  BY <1>2 DEF Late
<1>3. CASE Handling' /\ applying'.pos < r
  BY <1>3
<1>. QED
  BY <1>1, <1>2, <1>3 DEF Late

\* A horizon that rises stays above what is late.
LEMMA OwnAheadKeeps ==
  ASSUME Shape, Shape', OwnAhead, UNCHANGED <<position, seed>>, own'.earliest >= own.earliest,
         \A r \in Positions : Late(r)' => Late(r)
  PROVE  OwnAhead'
<1>. SUFFICES ASSUME NEW r \in Positions, seed < r, r <= position, Late(r)' PROVE r <= own'.earliest
  BY DEF OwnAhead
<1>1. r <= own.earliest /\ r \in Nat
  BY PositionTypes DEF OwnAhead
<1>2. own.earliest \in Nat
  BY Numbers DEF Shape
<1>3. own'.earliest \in Nat
  BY PositionTypes DEF Shape, TypeOK, Caches
<1>. QED
  BY <1>1, <1>2, <1>3

LEMMA MembAheadKeeps ==
  ASSUME Shape, Shape', MembAhead, UNCHANGED <<position, sentTop>>, memb'.earliest >= memb.earliest,
         memb'.disarmed = memb.disarmed, \A r \in Positions : Late(r)' => Late(r)
  PROVE  MembAhead'
<1>. SUFFICES ASSUME ~Deaf(memb'), NEW r \in Positions, sentTop < r, r <= position, Late(r)'
              PROVE r <= memb'.earliest
  BY DEF MembAhead
<1>1. r <= memb.earliest /\ r \in Nat
  BY PositionTypes DEF MembAhead, Deaf
<1>2. memb.earliest \in Nat
  BY Numbers DEF Shape
<1>3. memb'.earliest \in Nat
  BY PositionTypes DEF Shape, TypeOK, Caches
<1>. QED
  BY <1>1, <1>2, <1>3

\* A cache that does not listen claims nothing.
LEMMA OwnDeaf ==
  ASSUME Deaf(own') PROVE OwnComplete' /\ OwnServed'
BY DEF OwnComplete, OwnServed

LEMMA MembDeaf ==
  ASSUME Deaf(memb') PROVE MembComplete' /\ MembServed' /\ MembAhead'
BY DEF MembComplete, MembServed, MembAhead

\* Between two reads nothing is in hand.
LEMMA RestFits ==
  ASSUME pending' = <<>>, ~Handling', WritersInOrder', QueueShape', QueueTrue'
  PROVE  FeedInv'
BY DEF FeedInv, PendingFits, HandFits

\* While it reads nothing, the subscriber holds nothing back.
LEMMA IdlePhases ==
  ASSUME Inv
  PROVE  /\ phase \notin {"reading", "aborted"} => pending = <<>>
         /\ phase \in {"starting", "down", "dropping", "aborting", "aborted"} =>
              ~live /\ ~Handling /\ ~Connecting
         /\ Connecting => live /\ ~Handling
         /\ phase = "reading" => live /\ ~Handling /\ ~Connecting
         /\ ~live /\ phase \notin {"dropping", "aborting"} => Deaf(own) /\ Deaf(memb)
         /\ Handling => ~Connecting
BY DEF Inv, FeedInv, CacheInv, PendingFits, SessionFits, Handling, Connecting, Deaf

\* Lose: what the channel drops while no connection reads it.
LEMMA LoseKeeps ==
  ASSUME OneWriter, Inv, Shape', NEW w \in Writers, Lose(w)
  PROVE  Inv'
<1>0. Shape /\ TypeOK /\ FeedInv /\ CacheInv
  BY DEF Inv, Shape
<1>1. /\ phase \in {"dropping", "down"} /\ outbox[w] # <<>> /\ outbox' = [outbox EXCEPT ![w] = Tail(@)]
      /\ tx' = tx /\ UNCHANGED <<subVars, own, memb>>
  BY DEF Lose
<1>2. /\ phase' = phase /\ live' = live /\ position' = position /\ pending' = pending
      /\ applying' = applying /\ fill' = fill /\ sentTop' = sentTop /\ seed' = seed
      /\ applied' = applied /\ own' = own /\ memb' = memb
  BY <1>1 DEF subVars, hist
<1>3. /\ WritersInOrder' /\ QueueShape' /\ QueueTrue'
      /\ \A n \in DOMAIN queue' : n \in Nat /\ n + 1 \in DOMAIN queue /\ queue'[n] = queue[n + 1]
      /\ \A p \in Positions : (Written(p)' <=> Written(p)) /\ tx'[p] = tx[p]
      /\ \A p \in Positions, e \in Entities : Names(p, e)' <=> Names(p, e)
  BY <1>1, PoppedFacts
<1>4. pending = <<>> /\ ~live /\ ~Handling /\ ~Connecting
  BY <1>1, IdlePhases
<1>5. ~Handling' /\ ~Connecting'
  BY <1>2, <1>4 DEF Handling, Connecting
<1>6. FeedInv'
  BY <1>2, <1>3, <1>4, <1>5, RestFits
<1>7. \A r \in Positions : Late(r)' => Late(r)
  BY <1>1, <1>3, <1>5, LateShrinks
<1>8. PositionFits'
  BY <1>0, <1>2, <1>3 DEF CacheInv, PositionFits
<1>9. SessionFits'
  BY <1>0, <1>1, <1>2, <1>4, <1>5 DEF CacheInv, SessionFits
<1>10. OwnComplete' /\ MembComplete'
  <2>1. phase = "dropping" \/ (Deaf(own) /\ Deaf(memb))
    BY <1>1, <1>4, IdlePhases
  <2>. QED
    BY <2>1, <1>2 DEF OwnComplete, MembComplete
<1>11. OwnServed' /\ MembServed'
  <2>1. \A p \in Positions, e \in Entities : FillLeft(p, e)' <=> FillLeft(p, e)
    BY <1>2 DEF FillLeft
  <2>. QED
    BY <1>0, <1>2, <1>3, <2>1 DEF CacheInv, OwnServed, MembServed
<1>12. OwnAhead' /\ MembAhead'
  <2>1. own'.earliest >= own.earliest /\ memb'.earliest >= memb.earliest
    BY <1>0, <1>2, Numbers
  <2>. QED
    BY <1>0, <1>2, <1>7, <2>1, OwnAheadKeeps, MembAheadKeeps DEF CacheInv
<1>13. Delivered'
  BY <1>0, <1>2, <1>3, <1>5 DEF CacheInv, Delivered, TypeOK
<1>. QED
  BY <1>6, <1>8, <1>9, <1>10, <1>11, <1>12, <1>13 DEF Inv, CacheInv

\* A step of the session between two reads: the feed stays, and so does every
\* claim of a cache whose horizon does not fall.
LEMMA SessionFrame ==
  ASSUME OneWriter, Inv, Shape', UNCHANGED <<tx, outbox>>, ~Handling, ~Handling', pending' = <<>>,
         applied' = {} \/ (applied' = applied /\ (own' = own \/ Deaf(own'))),
         own'.earliest >= own.earliest
  PROVE  /\ FeedInv' /\ Delivered' /\ \A r \in Positions : Late(r)' => Late(r)
         /\ UNCHANGED <<position, seed>> => PositionFits' /\ OwnAhead'
<1>0. Shape /\ TypeOK /\ FeedInv /\ CacheInv
  BY DEF Inv, Shape
<1>1. /\ WritersInOrder' /\ QueueShape' /\ QueueTrue' /\ queue' = queue
      /\ \A p \in Positions : (Written(p)' <=> Written(p)) /\ tx'[p] = tx[p]
      /\ \A p \in Positions, e \in Entities : Names(p, e)' <=> Names(p, e)
  BY StillFacts
<1>2. FeedInv'
  BY <1>1, RestFits
<1>3. \A r \in Positions : Late(r)' => Late(r)
  BY <1>1, LateShrinks
<1>4. Delivered'
  <2>. SUFFICES ASSUME NEW p \in applied'
                PROVE  /\ tx'[p].state = "sent"
                       /\ \A n \in DOMAIN queue' : p <= queue'[n].pos
                       /\ ~Deaf(own') => \A e \in Entities : Names(p, e)' => Known(own', e, p)
    BY DEF Delivered
  <2>1. p \in applied /\ p \in Positions /\ applied' = applied /\ (own' = own \/ Deaf(own'))
    BY <1>0 DEF TypeOK
  <2>2. /\ tx[p].state = "sent"
        /\ \A n \in DOMAIN queue : p <= queue[n].pos
        /\ ~Deaf(own) => \A e \in Entities : Names(p, e) => Known(own, e, p)
    BY <1>0, <2>1 DEF CacheInv, Delivered
  <2>. QED
    BY <1>1, <2>1, <2>2
<1>5. ASSUME UNCHANGED <<position, seed>> PROVE PositionFits' /\ OwnAhead'
  <2>1. PositionFits'
    BY <1>0, <1>1, <1>5 DEF CacheInv, PositionFits
  <2>2. OwnAhead'
    BY <1>0, <1>3, <1>5, OwnAheadKeeps DEF CacheInv
  <2>. QED
    BY <2>1, <2>2
<1>. QED
  BY <1>2, <1>3, <1>4, <1>5

\* Seed and Connect: the caches are disarmed, and what is published from now on
\* will be read.
LEMMA SeedKeeps ==
  ASSUME OneWriter, Inv, Shape', Seed
  PROVE  Inv'
<1>0. Shape /\ TypeOK /\ FeedInv /\ CacheInv
  BY DEF Inv, Shape
<1>1. /\ phase = "starting" /\ phase' = "down" /\ position' = seed'
      /\ tx' = tx /\ outbox' = outbox /\ live' = live /\ pending' = pending /\ applied' = applied
      /\ own' = own /\ memb' = memb
  BY DEF Seed, writerVars
<1>2. pending = <<>> /\ ~live /\ Deaf(own) /\ Deaf(memb) /\ ~Handling /\ ~Handling' /\ ~Connecting'
  BY <1>1, IdlePhases DEF Handling, Connecting
<1>3. own'.earliest >= own.earliest /\ own.disarmed /\ memb.disarmed
  BY <1>0, <1>1, <1>2, Numbers DEF CacheInv, SessionFits
<1>4. FeedInv' /\ Delivered'
  BY <1>1, <1>2, <1>3, SessionFrame
<1>5. \A r \in Positions : ~(seed' < r /\ r <= position')
  <2>1. position' \in Nat
    BY PositionTypes DEF Shape, TypeOK
  <2>. QED
    BY <1>1, <2>1, PositionTypes
<1>6. PositionFits'
  <2>1. position' \in Nat
    BY PositionTypes DEF Shape, TypeOK
  <2>2. seed' <= position'
    BY <1>1, <2>1
  <2>. QED
    BY <1>5, <2>2 DEF PositionFits
<1>7. SessionFits'
  BY <1>1, <1>2, <1>3 DEF SessionFits
<1>8. OwnAhead'
  BY <1>5 DEF OwnAhead
<1>9. OwnComplete' /\ OwnServed' /\ MembComplete' /\ MembServed' /\ MembAhead'
  BY <1>1, <1>2, OwnDeaf, MembDeaf
<1>. QED
  BY <1>4, <1>6, <1>7, <1>8, <1>9 DEF Inv, CacheInv

LEMMA ConnectKeeps ==
  ASSUME OneWriter, Inv, Shape', Connect
  PROVE  Inv'
<1>0. Shape /\ TypeOK /\ FeedInv /\ CacheInv
  BY DEF Inv, Shape
<1>1. /\ phase = "down" /\ phase' = "subscribed" /\ live' = TRUE /\ applied' = {}
      /\ tx' = tx /\ outbox' = outbox /\ pending' = pending /\ position' = position /\ seed' = seed
      /\ own' = own /\ memb' = memb /\ fill'.at = position
      /\ sentTop' = Max({0} \cup {p \in Positions : tx[p].state = "sent"})
  BY DEF Connect, writerVars, NoFill
<1>2. pending = <<>> /\ ~live /\ Deaf(own) /\ Deaf(memb) /\ ~Handling /\ ~Handling'
  BY <1>1, IdlePhases DEF Handling
<1>3. own'.earliest >= own.earliest /\ own.disarmed /\ memb.disarmed
  BY <1>0, <1>1, <1>2, Numbers DEF CacheInv, SessionFits
<1>4. FeedInv' /\ Delivered' /\ PositionFits' /\ OwnAhead'
  BY <1>1, <1>2, <1>3, SessionFrame
<1>5. ASSUME NEW p \in Positions, NEW e \in Entities, sentTop' < p, Written(p)'
      PROVE  Coming(0, p, e)'
  <2>1. {q \in Positions : tx[q].state = "sent"} \in SUBSET Positions
    OBVIOUS
  <2>2. /\ sentTop' \in Nat
        /\ \A q \in {q \in Positions : tx[q].state = "sent"} : q <= sentTop'
    BY <1>1, <2>1, TopOf
  <2>3. p \in Nat
    BY PositionTypes
  <2>4. tx[p].state # "sent"
    BY <1>5, <2>2, <2>3
  <2>. QED
    BY <1>1, <1>5, <2>4 DEF Written, Coming
<1>6. SessionFits'
  BY <1>1, <1>3, <1>5 DEF SessionFits, Connecting
<1>7. OwnComplete' /\ OwnServed' /\ MembComplete' /\ MembServed' /\ MembAhead'
  BY <1>1, <1>2, OwnDeaf, MembDeaf
<1>. QED
  BY <1>4, <1>6, <1>7 DEF Inv, CacheInv

\* LoseConnection, OnDrop and EndSession: a cache that has lost the feed may keep
\* what it claims until it is disarmed, because the position stays as well.
LEMMA LoseConnectionKeeps ==
  ASSUME OneWriter, Inv, Shape', LoseConnection
  PROVE  Inv'
<1>0. Shape /\ TypeOK /\ FeedInv /\ CacheInv
  BY DEF Inv, Shape
<1>1. /\ phase = "reading" /\ phase' = "dropping" /\ live' = FALSE /\ pending' = <<>>
      /\ tx' = tx /\ outbox' = outbox /\ position' = position /\ seed' = seed /\ sentTop' = sentTop
      /\ applied' = applied /\ own' = own /\ memb' = memb
  BY DEF LoseConnection, writerVars
<1>2. ~Handling /\ ~Handling' /\ ~Connecting' /\ own'.earliest >= own.earliest
      /\ memb'.earliest >= memb.earliest
  BY <1>0, <1>1, Numbers DEF Handling, Connecting
<1>3. FeedInv' /\ Delivered' /\ PositionFits' /\ OwnAhead' /\ \A r \in Positions : Late(r)' => Late(r)
  BY <1>1, <1>2, SessionFrame
<1>4. SessionFits'
  BY <1>1, <1>2 DEF SessionFits
<1>5. OwnComplete' /\ MembComplete'
  BY <1>1 DEF OwnComplete, MembComplete
<1>6. OwnServed' /\ MembServed'
  <2>1. \A p \in Positions, e \in Entities : ~FillLeft(p, e)
    BY <1>1 DEF FillLeft
  <2>. QED
    BY <1>0, <1>1, <2>1, StillFacts DEF CacheInv, OwnServed, MembServed
<1>7. MembAhead'
  BY <1>0, <1>1, <1>2, <1>3, MembAheadKeeps DEF CacheInv
<1>. QED
  BY <1>3, <1>4, <1>5, <1>6, <1>7 DEF Inv, CacheInv

LEMMA OnDropKeeps ==
  ASSUME OneWriter, Inv, Shape', OnDrop
  PROVE  Inv'
<1>0. Shape /\ TypeOK /\ FeedInv /\ CacheInv
  BY DEF Inv, Shape
<1>1. /\ phase \in {"dropping", "aborting"} /\ phase' \in {"down", "aborted"}
      /\ tx' = tx /\ outbox' = outbox /\ position' = position /\ seed' = seed
      /\ live' = live /\ pending' = pending /\ applied' = applied
      /\ own' = Disarm(own) /\ memb' = Disarm(memb)
  BY DEF OnDrop, writerVars, hist
<1>2. own'.disarmed /\ memb'.disarmed /\ Deaf(own') /\ Deaf(memb') /\ own'.earliest >= own.earliest
  BY <1>0, <1>1, DisarmKeeps DEF Deaf, Shape, PhaseFits
<1>3. pending' = <<>> /\ ~live' /\ ~Handling /\ ~Handling' /\ ~Connecting'
  BY <1>1, IdlePhases DEF Handling, Connecting
<1>4. FeedInv' /\ Delivered' /\ PositionFits' /\ OwnAhead'
  BY <1>1, <1>2, <1>3, SessionFrame
<1>5. SessionFits'
  BY <1>1, <1>2, <1>3 DEF SessionFits
<1>. QED
  BY <1>2, <1>4, <1>5, OwnDeaf, MembDeaf DEF Inv, CacheInv

LEMMA EndSessionKeeps ==
  ASSUME OneWriter, Inv, Shape', EndSession
  PROVE  Inv'
<1>0. Shape /\ TypeOK /\ FeedInv /\ CacheInv
  BY DEF Inv, Shape
<1>1. /\ phase = "aborted" /\ phase' = "down" /\ pending' = <<>>
      /\ tx' = tx /\ outbox' = outbox /\ position' = position /\ seed' = seed
      /\ live' = live /\ applied' = applied /\ own' = own /\ memb' = memb
  BY DEF EndSession, writerVars, hist
<1>2. ~live /\ Deaf(own) /\ Deaf(memb) /\ ~Handling /\ ~Handling' /\ ~Connecting'
  BY <1>1, IdlePhases DEF Handling, Connecting
<1>3. own'.earliest >= own.earliest /\ own.disarmed /\ memb.disarmed
  BY <1>0, <1>1, <1>2, Numbers DEF CacheInv, SessionFits
<1>4. FeedInv' /\ Delivered' /\ PositionFits' /\ OwnAhead'
  BY <1>1, <1>2, <1>3, SessionFrame
<1>5. SessionFits'
  BY <1>1, <1>2, <1>3 DEF SessionFits
<1>. QED
  BY <1>1, <1>2, <1>4, <1>5, OwnDeaf, MembDeaf DEF Inv, CacheInv

\* What can be listed is finite.
LEMMA ListedFinite ==
  ASSUME NEW S, IsFiniteSet(S), NEW f, f = [x \in S |-> f[x]], NEW T, T = {f[x] : x \in S}
  PROVE  IsFiniteSet(T)
<1>1. f \in Surjection(S, T)
  <2>1. \A x \in S : f[x] \in T
    OBVIOUS
  <2>2. \A t \in T : \E x \in S : f[x] = t
    OBVIOUS
  <2>3. f \in [S -> T]
    BY <2>1
  <2>. QED
    BY <2>2, <2>3, Fun_IsSurj
<1>. QED
  BY <1>1, FS_Surjection

LEMMA TableFinite ==
  ASSUME TypeOK
  PROVE  IsFiniteSet(TableRows) /\ Cardinality(TableRows) \in Nat
<1>. DEFINE list == [p \in Positions |-> [i \in DOMAIN tx[p].rows |-> <<tx[p].rows[i].entity, p>>]]
            rowsOf == [p \in Positions |-> {list[p][i] : i \in DOMAIN tx[p].rows}]
            T == {rowsOf[p] : p \in Positions}
<1>1. IsFiniteSet(Positions)
  <2>1. Positions \in SUBSET (0 .. MaxPos) /\ MaxPos \in Nat
    BY PositionTypes DEF Positions
  <2>. QED
    BY <2>1, IdsFinite
<1>2. rowsOf = [p \in Positions |-> rowsOf[p]]
  OBVIOUS
<1>3. IsFiniteSet(T)
  <2>. HIDE DEF rowsOf
  <2>. QED
    BY <1>1, <1>2, ListedFinite
<1>4. ASSUME NEW p \in Positions PROVE IsFiniteSet(rowsOf[p])
  <2>. DEFINE D == DOMAIN tx[p].rows
              g == list[p]
  <2>1. IsFiniteSet(D)
    <3>1. tx[p].rows = <<>> \/ tx[p].rows \in Seq(Rows)
      BY TxTypes, TransactionsAssumption DEF TypeOK, NoTx
    <3>2. D = {} \/ (Len(tx[p].rows) \in Nat /\ D = 1 .. Len(tx[p].rows))
      BY <3>1, LenProperties
    <3>3. \A n \in Nat : IsFiniteSet(1 .. n)
      BY FS_Interval
    <3>. HIDE DEF D
    <3>. QED
      BY <3>2, <3>3, FS_EmptySet
  <2>2. g = [i \in D |-> <<tx[p].rows[i].entity, p>>]
    OBVIOUS
  <2>3. rowsOf[p] = {g[i] : i \in D}
    OBVIOUS
  <2>4. g = [i \in D |-> g[i]]
    <3>. HIDE DEF g, D
    <3>. QED
      BY <2>2
  <2>. HIDE DEF D, g, rowsOf, list
  <2>. QED
    BY <2>1, <2>3, <2>4, ListedFinite
<1>5. IsFiniteSet(UNION T)
  <2>1. \A R \in T : IsFiniteSet(R)
    BY <1>4
  <2>. HIDE DEF T
  <2>. QED
    BY <1>3, <2>1, FS_UNION
<1>6. TableRows \subseteq UNION T
  <2>. SUFFICES ASSUME NEW r \in TableRows PROVE r \in UNION T
    OBVIOUS
  <2>1. r = <<r[1], r[2]>> /\ r[2] \in Positions /\ Names(r[2], r[1])
    BY DEF TableRows
  <2>2. PICK i \in DOMAIN tx[r[2]].rows : tx[r[2]].rows[i].entity = r[1]
    BY <2>1 DEF Names
  <2>3. list[r[2]][i] = r
    BY <2>1, <2>2
  <2>4. r \in rowsOf[r[2]] /\ rowsOf[r[2]] \in T
    <3>. HIDE DEF list
    <3>. QED
      BY <2>1, <2>2, <2>3
  <2>. QED
    BY <2>4
<1>. HIDE DEF T
<1>. QED
  BY <1>5, <1>6, FS_Subset, FS_CardinalityType

\* What the scan does not return is at or below the position it is trusted from.
LEMMA ScanCovers ==
  ASSUME TypeOK, NEW rows \in SUBSET TableRows, NewestRows(rows), NEW at \in Pos,
         NEW p \in Positions, NEW e \in Entities, Written(p), Names(p, e),
         ~(p <= TrustedFrom(rows, at))
  PROVE  \E r \in NewestPerEntity(rows) : r[1] = e /\ p <= r[2]
<1>1. <<e, p>> \in TableRows
  BY DEF TableRows
<1>2. rows \in SUBSET (Entities \X Positions) /\ \A r \in rows : r[2] \in Nat /\ r[2] \in Pos
  BY PositionTypes DEF TableRows
<1>3. rows # {}
  <2>. SUFFICES ASSUME rows = {} PROVE FALSE
    OBVIOUS
  <2>1. IsFiniteSet(TableRows) /\ Cardinality(TableRows) \in Nat /\ Cardinality(TableRows) # 0
    BY <1>1, TableFinite, FS_EmptySet
  <2>2. 0 = Min({ScanLimit, Cardinality(TableRows)})
    BY FS_EmptySet DEF NewestRows
  <2>3. {ScanLimit, Cardinality(TableRows)} \in SUBSET Nat
        /\ {ScanLimit, Cardinality(TableRows)} # {}
    BY <2>1, FeedBounds
  <2>4. Min({ScanLimit, Cardinality(TableRows)}) \in {ScanLimit, Cardinality(TableRows)}
    BY <2>3, MinIsLowest
  <2>. QED
    BY <2>1, <2>2, <2>4, FeedBounds
<1>4. <<e, p>> \in rows
  <2>1. PICK r \in rows : TrustedFrom(rows, at) = r[2] + 1
    BY <1>2, <1>3, TrustedPos
  <2>2. p \in Nat /\ r[2] \in Nat
    BY <1>2, PositionTypes
  <2>3. <<e, p>> \in TableRows \ rows => p <= r[2]
    BY DEF NewestRows
  <2>. QED
    BY <1>1, <2>1, <2>2, <2>3
<1>. DEFINE S == {r[2] : r \in {s \in rows : s[1] = e}}
<1>5. S \in SUBSET Pos /\ p \in S
  BY <1>2, <1>4
<1>6. \A x : x \in S <=> \E r \in rows : r[1] = e /\ x = r[2]
  OBVIOUS
<1>. HIDE DEF S
<1>7. PICK m \in S : \A x \in S : x <= m
  BY <1>5, HighestExists
<1>8. PICK r \in rows : r[1] = e /\ m = r[2]
  BY <1>6
<1>9. r \in NewestPerEntity(rows)
  BY <1>6, <1>7, <1>8 DEF NewestPerEntity
<1>. QED
  BY <1>5, <1>7, <1>8, <1>9

\* ScanAndArm: what the scan does not report, the new horizon covers.
LEMMA ScanAndArmKeeps ==
  ASSUME OneWriter, Inv, Shape', ScanAndArm
  PROVE  Inv'
<1>0. Shape /\ TypeOK /\ FeedInv /\ CacheInv
  BY DEF Inv, Shape
<1>1. /\ phase = "subscribed" /\ phase' = "armed"
      /\ tx' = tx /\ outbox' = outbox /\ position' = position /\ seed' = seed /\ sentTop' = sentTop
      /\ live' = live /\ pending' = pending /\ applied' = applied /\ memb' = memb
  BY DEF ScanAndArm, writerVars, hist
<1>2. PICK rows \in SUBSET TableRows :
        LET from == TrustedFrom(rows, fill.at)
        IN /\ NewestRows(rows) /\ from \in Pos
           /\ fill'.entries = NewestPerEntity(rows) /\ fill'.at = fill.at
           /\ Sound(own') /\ positions(own') = {}
           /\ from <= own'.earliest /\ own.earliest <= own'.earliest
  BY <1>0, ScanFacts
<1>. DEFINE from == TrustedFrom(rows, fill.at)
<1>3. /\ pending = <<>> /\ live /\ ~Handling /\ ~Handling' /\ Connecting /\ Connecting'
      /\ applied = {} /\ memb.disarmed /\ fill.at = position /\ fill.at \in Pos
  BY <1>0, <1>1, IdlePhases, Numbers DEF Handling, Connecting, CacheInv, SessionFits
<1>4. own'.earliest \in Nat /\ own.earliest \in Nat /\ from \in Nat
  BY <1>2, <1>0, Numbers, PositionTypes DEF Sound, Caches
<1>. HIDE DEF from
<1>5. FeedInv' /\ Delivered' /\ PositionFits' /\ OwnAhead'
  <2>1. own'.earliest >= own.earliest
    BY <1>2, <1>4
  <2>. QED
    BY <1>1, <1>3, <2>1, SessionFrame
<1>6. ASSUME NEW p \in Positions, NEW e \in Entities, Written(p), Names(p, e)
      PROVE  Known(own', e, p) \/ FillLeft(p, e)'
  <2>1. CASE p <= from
    <3>1. p \in Pos /\ p \in Nat
      BY PositionTypes
    <3>2. p <= own'.earliest
      BY <1>2, <1>4, <2>1, <3>1 DEF from
    <3>. QED
      BY <1>2, <3>1, <3>2, KnownBelowHorizon
  <2>2. CASE ~(p <= from)
    <3>1. \E r \in NewestPerEntity(rows) : r[1] = e /\ p <= r[2]
      BY <1>0, <1>2, <1>3, <1>6, <2>2, ScanCovers DEF from
    <3>. QED
      BY <1>1, <1>2, <3>1 DEF FillLeft
  <2>. QED
    BY <2>1, <2>2
<1>7. /\ \A p \in Positions : Written(p)' <=> Written(p)
      /\ \A p \in Positions, e \in Entities : Names(p, e)' <=> Names(p, e)
      /\ \A p \in Positions, e \in Entities : Coming(0, p, e)' <=> Coming(0, p, e)
  BY <1>1, StillFacts
<1>8. OwnComplete'
  BY <1>6, <1>7 DEF OwnComplete
<1>9. OwnServed'
  <2>1. \A p \in Positions : seed < p /\ p <= position => Written(p)
    BY <1>0 DEF CacheInv, PositionFits
  <2>. QED
    BY <1>1, <1>6, <1>7, <2>1 DEF OwnServed
<1>10. MembComplete' /\ MembServed' /\ MembAhead'
  BY <1>1, <1>3, MembDeaf DEF Deaf
<1>11. SessionFits'
  <2>1. \A p \in Positions, e \in Entities :
          sentTop < p /\ Written(p) /\ Names(p, e) => Coming(0, p, e)
    BY <1>0, <1>3 DEF CacheInv, SessionFits
  <2>. QED
    BY <1>1, <1>2, <1>3, <1>7, <2>1 DEF SessionFits
<1>. QED
  BY <1>5, <1>8, <1>9, <1>10, <1>11 DEF Inv, CacheInv

\* StartPrefill, PrefillEntry, EndPrefill: what is left to fill in shrinks by what
\* is filled in.
LEMMA FillKeeps ==
  ASSUME OneWriter, Inv, Shape', phase' \in {"prefilling", "filled"},
         phase \in {"armed", "prefilling"}, UNCHANGED <<tx, outbox, live, position, pending, memb, hist>>,
         fill'.at = fill.at, Sound(own'), own'.earliest >= own.earliest, own'.disarmed = own.disarmed,
         ~Deaf(own) => \A p \in Positions, e \in Entities :
           Known(own, e, p) \/ FillLeft(p, e) => Known(own', e, p) \/ FillLeft(p, e)'
  PROVE  Inv'
<1>0. Shape /\ TypeOK /\ FeedInv /\ CacheInv
  BY DEF Inv, Shape
<1>1. /\ tx' = tx /\ outbox' = outbox /\ position' = position /\ seed' = seed /\ sentTop' = sentTop
      /\ live' = live /\ pending' = pending /\ applied' = applied /\ memb' = memb
  BY DEF hist
<1>2. /\ pending = <<>> /\ live /\ ~Handling /\ ~Handling' /\ Connecting /\ Connecting'
      /\ applied = {} /\ memb.disarmed /\ fill.at = position
  BY <1>0, IdlePhases DEF Handling, Connecting, CacheInv, SessionFits
<1>3. FeedInv' /\ Delivered' /\ PositionFits' /\ OwnAhead'
  BY <1>1, <1>2, SessionFrame
<1>4. /\ queue' = queue
      /\ \A p \in Positions : Written(p)' <=> Written(p)
      /\ \A p \in Positions, e \in Entities : Names(p, e)' <=> Names(p, e)
      /\ \A p \in Positions, e \in Entities : Coming(0, p, e)' <=> Coming(0, p, e)
  BY <1>1, StillFacts
<1>5. Deaf(own') <=> Deaf(own)
  BY DEF Deaf
<1>6. OwnComplete'
  <2>. SUFFICES ASSUME ~Deaf(own'), NEW p \in Positions, NEW e \in Entities, Written(p), Names(p, e)
                PROVE  Known(own', e, p) \/ Coming(0, p, e)' \/ FillLeft(p, e)'
    BY <1>4 DEF OwnComplete
  <2>1. Known(own, e, p) \/ Coming(0, p, e) \/ InPending(p, e) \/ OwnLeft(p, e) \/ FillLeft(p, e)
    BY <1>0, <1>5 DEF CacheInv, OwnComplete
  <2>2. ~InPending(p, e) /\ ~OwnLeft(p, e)
    BY <1>2 DEF InPending, OwnLeft, Handling
  <2>. QED
    BY <1>4, <1>5, <2>1, <2>2
<1>7. OwnServed'
  <2>. SUFFICES ASSUME ~Deaf(own'), NEW p \in Positions, NEW e \in Entities,
                       seed < p, p <= position, Names(p, e)
                PROVE  Known(own', e, p) \/ FillLeft(p, e)'
    BY <1>1, <1>4 DEF OwnServed
  <2>1. Known(own, e, p) \/ FillLeft(p, e)
    BY <1>0, <1>5 DEF CacheInv, OwnServed
  <2>. QED
    BY <1>5, <2>1
<1>8. MembComplete' /\ MembServed' /\ MembAhead'
  BY <1>1, <1>2, MembDeaf DEF Deaf
<1>9. SessionFits'
  <2>1. \A p \in Positions, e \in Entities :
          sentTop < p /\ Written(p) /\ Names(p, e) => Coming(0, p, e)
    BY <1>0, <1>2 DEF CacheInv, SessionFits
  <2>. QED
    BY <1>1, <1>2, <1>4, <2>1 DEF SessionFits
<1>. QED
  BY <1>3, <1>6, <1>7, <1>8, <1>9 DEF Inv, CacheInv

LEMMA PrefillKeeps ==
  ASSUME OneWriter, Inv, Shape', StartPrefill \/ EndPrefill \/ \E r \in fill.entries : PrefillEntry(r)
  PROVE  Inv'
<1>0. Shape /\ Sound(own) /\ own.earliest >= own.earliest
  BY Numbers DEF Inv, Shape, PhaseFits
<1>1. CASE StartPrefill
  <2>1. /\ own' = own /\ fill' = fill /\ phase = "armed" /\ phase' = "prefilling"
        /\ UNCHANGED <<tx, outbox, live, position, pending, memb, hist>>
    BY <1>0, <1>1, StartPrefillTyped DEF StartPrefill, writerVars
  <2>2. \A p \in Positions, e \in Entities : FillLeft(p, e) => FillLeft(p, e)'
    BY <2>1 DEF FillLeft
  <2>. QED
    BY <1>0, <2>1, <2>2, FillKeeps
<1>2. CASE EndPrefill
  <2>1. /\ own' = own /\ fill' = fill /\ phase = "prefilling" /\ phase' = "filled" /\ fill.entries = {}
        /\ UNCHANGED <<tx, outbox, live, position, pending, memb, hist>>
    BY <1>2 DEF EndPrefill, writerVars
  <2>2. \A p \in Positions, e \in Entities : ~FillLeft(p, e)
    BY <2>1 DEF FillLeft
  <2>. QED
    BY <1>0, <2>1, <2>2, FillKeeps
<1>3. ASSUME NEW r \in fill.entries, PrefillEntry(r) PROVE Inv'
  <2>1. /\ phase = "prefilling" /\ phase' = "prefilling" /\ own' = EntityHasChanged(own, r[1], r[2])
        /\ fill' = [fill EXCEPT !.entries = @ \ {r}]
        /\ UNCHANGED <<tx, outbox, live, position, pending, memb, hist>>
    BY <1>3 DEF PrefillEntry, writerVars
  <2>2. r[1] \in Entities /\ r[2] \in Positions /\ r[2] \in Pos
    BY <1>0, <1>3, PrefillEntryTyped, PositionTypes
  <2>3. fill'.entries = fill.entries \ {r} /\ fill'.at = fill.at
    BY <1>0, <2>1 DEF Shape, TypeOK
  <2>4. /\ Sound(own') /\ own'.earliest >= own.earliest /\ own'.disarmed = own.disarmed
        /\ \A f \in Entities, q \in Pos : Known(own, f, q) => Known(own', f, q)
        /\ ~Deaf(own) => Known(own', r[1], r[2])
    BY <1>0, <2>1, <2>2, RecordKeeps
  <2>5. ASSUME ~Deaf(own), NEW p \in Positions, NEW e \in Entities, Known(own, e, p) \/ FillLeft(p, e)
        PROVE  Known(own', e, p) \/ FillLeft(p, e)'
    <3>0. p \in Pos
      BY PositionTypes
    <3>1. CASE Known(own, e, p)
      BY <2>4, <3>0, <3>1
    <3>2. CASE r[1] = e /\ p <= r[2]
      BY <2>2, <2>4, <2>5, <3>0, <3>2, KnownDown
    <3>3. CASE FillLeft(p, e) /\ ~(r[1] = e /\ p <= r[2])
      BY <2>1, <2>3, <3>3 DEF FillLeft
    <3>. QED
      BY <2>5, <3>1, <3>2, <3>3
  <2>. QED
    BY <2>1, <2>3, <2>4, <2>5, FillKeeps
<1>. QED
  BY <1>1, <1>2, <1>3

\* ArmMembership: what the new horizon does not cover is on its way.
LEMMA ArmMembershipKeeps ==
  ASSUME OneWriter, Inv, Shape', ArmMembership
  PROVE  Inv'
<1>0. Shape /\ TypeOK /\ FeedInv /\ CacheInv
  BY DEF Inv, Shape
<1>1. /\ phase = "filled" /\ phase' = "reading" /\ memb' = Arm(memb, fill.at)
      /\ tx' = tx /\ outbox' = outbox /\ position' = position /\ seed' = seed /\ sentTop' = sentTop
      /\ live' = live /\ pending' = pending /\ applying' = applying /\ applied' = applied /\ own' = own
  BY DEF ArmMembership, writerVars, hist
<1>2. /\ pending = <<>> /\ live /\ ~Handling /\ ~Handling' /\ Connecting /\ ~Connecting'
      /\ applied = {} /\ fill.at = position /\ fill.at \in Pos
      /\ position \in Nat /\ seed \in Nat /\ own'.earliest >= own.earliest
  BY <1>0, <1>1, IdlePhases, Numbers DEF Handling, Connecting, CacheInv, SessionFits
<1>3. memb \in Caches /\ Sound(memb') /\ memb'.earliest >= position /\ memb'.earliest \in Nat
  <2>1. memb \in Caches
    BY <1>0 DEF TypeOK
  <2>2. Sound(memb') /\ memb'.earliest >= position
    BY <1>1, <1>2, <2>1, ArmResets
  <2>. QED
    BY <2>1, <2>2, PositionTypes DEF Sound, Caches
<1>4. FeedInv' /\ Delivered' /\ PositionFits' /\ OwnAhead'
  BY <1>1, <1>2, SessionFrame
<1>5. /\ queue' = queue
      /\ \A p \in Positions : Written(p)' <=> Written(p)
      /\ \A p \in Positions, e \in Entities : Names(p, e)' <=> Names(p, e)
      /\ \A p \in Positions, e \in Entities : Coming(0, p, e)' <=> Coming(0, p, e)
  BY <1>1, StillFacts
<1>6. \A p \in Positions, e \in Entities :
        /\ ~FillLeft(p, e) /\ ~FillLeft(p, e)' /\ ~OwnLeft(p, e) /\ ~InPending(p, e)
  BY <1>1, <1>2 DEF FillLeft, OwnLeft, InPending
<1>7. OwnComplete'
  BY <1>0, <1>1, <1>5, <1>6 DEF CacheInv, OwnComplete
<1>8. OwnServed'
  BY <1>0, <1>1, <1>5, <1>6 DEF CacheInv, OwnServed
<1>9. MembComplete'
  <2>1. \A p \in Positions, e \in Entities :
          sentTop < p /\ Written(p) /\ Names(p, e) => Coming(0, p, e)
    BY <1>0, <1>2 DEF CacheInv, SessionFits
  <2>. QED
    BY <1>1, <1>5, <2>1 DEF MembComplete
<1>10. \A p \in Positions : p <= position => p \in Pos /\ p <= memb'.earliest
  <2>. SUFFICES ASSUME NEW p \in Positions, p <= position PROVE p \in Pos /\ p <= memb'.earliest
    OBVIOUS
  <2>1. p \in Pos /\ p \in Nat
    BY PositionTypes
  <2>. QED
    BY <1>2, <1>3, <2>1
<1>11. MembServed'
  <2>1. seed' <= memb'.earliest
    BY <1>0, <1>1, <1>2, <1>3 DEF CacheInv, PositionFits
  <2>2. \A p \in Positions, e \in Entities : p <= position => Known(memb', e, p)
    BY <1>3, <1>10, KnownBelowHorizon
  <2>. QED
    BY <1>1, <2>1, <2>2 DEF MembServed
<1>12. MembAhead'
  BY <1>1, <1>10 DEF MembAhead
<1>13. SessionFits'
  BY <1>1, <1>2 DEF SessionFits
<1>. QED
  BY <1>4, <1>7, <1>8, <1>9, <1>11, <1>12, <1>13 DEF Inv, CacheInv

\* PrefillFails: the caches stay deaf until the next connection.
LEMMA PrefillFailsKeeps ==
  ASSUME OneWriter, Inv, Shape', PrefillFails
  PROVE  Inv'
<1>0. Shape /\ TypeOK /\ FeedInv /\ CacheInv
  BY DEF Inv, Shape
<1>1. /\ phase \in {"subscribed", "filled"} /\ phase' = "reading"
      /\ tx' = tx /\ outbox' = outbox /\ position' = position /\ seed' = seed
      /\ live' = live /\ pending' = pending /\ applied' = applied
      /\ own' = Disarm(own) /\ memb' = Disarm(memb)
  BY DEF PrefillFails, writerVars, hist
<1>2. Deaf(own') /\ Deaf(memb') /\ own'.earliest >= own.earliest
  BY <1>0, <1>1, DisarmKeeps DEF Deaf, Shape, PhaseFits
<1>3. pending' = <<>> /\ live' /\ ~Handling /\ ~Handling' /\ ~Connecting'
  BY <1>1, IdlePhases DEF Handling, Connecting
<1>4. FeedInv' /\ Delivered' /\ PositionFits' /\ OwnAhead'
  BY <1>1, <1>2, <1>3, SessionFrame
<1>5. SessionFits'
  BY <1>1, <1>3 DEF SessionFits
<1>. QED
  BY <1>2, <1>4, <1>5, OwnDeaf, MembDeaf DEF Inv, CacheInv

\* A command is taken off the front of the queue: what it brings is the next
\* thing to know, and nothing becomes late by it.
LEMMA TakenFrame ==
  ASSUME OneWriter, Inv, NEW w \in Writers, NEW kind, Takes(w, kind),
         UNCHANGED <<tx, position, seed, sentTop, applied>>,
         Handling' => applying'.pos = queue[1].pos
  PROVE  /\ WritersInOrder' /\ QueueShape' /\ QueueTrue' /\ PositionFits'
         /\ Head(outbox[w]) = queue[1] /\ queue[1].kind = kind /\ 1 \in DOMAIN queue /\ queue # <<>>
         /\ queue[1].pos \in Pos /\ queue[1].pos \in Nat /\ CommandTrue(1)
         /\ Head(queue) = queue[1]
         /\ phase \in {"reading", "aborted"} /\ ~Handling /\ ~Connecting
         /\ \A n \in DOMAIN queue' : n \in Nat /\ n + 1 \in DOMAIN queue /\ queue'[n] = queue[n + 1]
         /\ \A n \in DOMAIN queue : n = 1 \/ (n - 1 \in DOMAIN queue' /\ queue'[n - 1] = queue[n])
         /\ \A p \in Positions : Written(p)' <=> Written(p)
         /\ \A p \in Positions, e \in Entities : Names(p, e)' <=> Names(p, e)
         /\ \A p \in Positions, e \in Entities :
              /\ Coming(1, p, e) => Coming(0, p, e)'
              /\ Coming(0, p, e) => Coming(0, p, e)' \/ RowOf(queue[1], p, e)
              /\ ~FillLeft(p, e) /\ ~OwnLeft(p, e) /\ ~MembLeft(p, e)
         /\ \A r \in Positions : Late(r)' => Late(r)
         /\ \A p \in applied : /\ p \in Positions /\ tx[p].state = "sent" /\ p <= queue[1].pos
                               /\ \A n \in DOMAIN queue' : p <= queue'[n].pos
<1>0. Shape /\ TypeOK /\ FeedInv /\ CacheInv
  BY DEF Inv, Shape
<1>1. /\ phase \in {"reading", "aborted"} /\ outbox[w] # <<>> /\ Head(outbox[w]).kind = kind
      /\ outbox' = [outbox EXCEPT ![w] = Tail(@)]
  BY DEF Takes, Reading
<1>2. /\ WritersInOrder' /\ QueueShape' /\ QueueTrue'
      /\ outbox[w] = queue /\ Head(queue) = queue[1] /\ 1 \in DOMAIN queue /\ queue # <<>>
      /\ \A n \in DOMAIN queue' : n \in Nat /\ n + 1 \in DOMAIN queue /\ queue'[n] = queue[n + 1]
      /\ \A n \in DOMAIN queue : n = 1 \/ (n - 1 \in DOMAIN queue' /\ queue'[n - 1] = queue[n])
      /\ \A p \in Positions : (Written(p)' <=> Written(p)) /\ tx'[p] = tx[p]
      /\ \A p \in Positions, e \in Entities : Names(p, e)' <=> Names(p, e)
      /\ \A p \in Positions, e \in Entities :
           /\ Coming(1, p, e) => Coming(0, p, e)'
           /\ Coming(0, p, e) => Coming(0, p, e)' \/ RowOf(queue[1], p, e)
  BY <1>1, PoppedFacts
<1>3. queue[1].pos \in Pos /\ queue[1].pos \in Nat /\ CommandTrue(1)
  BY <1>0, <1>2, QueueTypes DEF FeedInv, QueueTrue
<1>4. ~Handling /\ ~Connecting
  BY <1>1 DEF Handling, Connecting
<1>5. PositionFits'
  BY <1>0, <1>2 DEF CacheInv, PositionFits
<1>6. \A p \in Positions, e \in Entities : ~FillLeft(p, e) /\ ~OwnLeft(p, e) /\ ~MembLeft(p, e)
  BY <1>1 DEF FillLeft, OwnLeft, MembLeft
<1>7. \A r \in Positions : Late(r)' => Late(r)
  <2>1. \A n \in DOMAIN queue' : \E m \in DOMAIN queue : queue'[n] = queue[m]
    BY <1>2
  <2>2. ASSUME NEW r \in Positions, Handling', applying'.pos < r PROVE Late(r)
    BY <1>2, <2>2 DEF Late
  <2>. QED
    BY <2>1, <2>2, LateShrinks
<1>8. \A p \in applied : /\ p \in Positions /\ tx[p].state = "sent" /\ p <= queue[1].pos
                         /\ \A n \in DOMAIN queue' : p <= queue'[n].pos
  <2>1. \A p \in applied : /\ p \in Positions /\ tx[p].state = "sent"
                           /\ \A n \in DOMAIN queue : p <= queue[n].pos
    BY <1>0 DEF CacheInv, Delivered, TypeOK
  <2>. QED
    BY <1>2, <2>1
<1>. QED
  BY <1>1, <1>2, <1>3, <1>4, <1>5, <1>6, <1>7, <1>8

\* HandleBatch: the row read is held back, and the rest of its batch is next.
LEMMA HandleBatchKeeps ==
  ASSUME OneWriter, Inv, Shape', NEW w \in Writers, HandleBatch(w)
  PROVE  Inv'
<1>0. Shape /\ TypeOK /\ FeedInv /\ CacheInv
  BY DEF Inv, Shape
<1>1. /\ Takes(w, "batch") /\ pending' = Append(pending, Head(outbox[w]).row)
      /\ tx' = tx /\ position' = position /\ seed' = seed /\ sentTop' = sentTop /\ phase' = phase
      /\ live' = live /\ applying' = applying /\ fill' = fill /\ applied' = applied
      /\ own' = own /\ memb' = memb
  BY DEF HandleBatch, hist
<1>2. phase \in {"reading", "aborted"} /\ ~Handling /\ ~Handling' /\ ~Connecting'
  BY <1>1 DEF Takes, Reading, Handling, Connecting
<1>3. /\ WritersInOrder' /\ QueueShape' /\ QueueTrue' /\ PositionFits'
      /\ Head(outbox[w]) = queue[1] /\ queue[1].kind = "batch" /\ 1 \in DOMAIN queue
      /\ Head(queue) = queue[1] /\ queue # <<>>
      /\ \A n \in DOMAIN queue : n = 1 \/ (n - 1 \in DOMAIN queue' /\ queue'[n - 1] = queue[n])
      /\ \A p \in Positions : Written(p)' <=> Written(p)
      /\ \A p \in Positions, e \in Entities : Names(p, e)' <=> Names(p, e)
      /\ \A p \in Positions, e \in Entities :
           /\ Coming(0, p, e) => Coming(0, p, e)' \/ RowOf(queue[1], p, e)
           /\ ~FillLeft(p, e) /\ ~OwnLeft(p, e) /\ ~MembLeft(p, e)
      /\ \A r \in Positions : Late(r)' => Late(r)
      /\ \A p \in applied : /\ p \in Positions /\ tx[p].state = "sent"
                            /\ \A n \in DOMAIN queue' : p <= queue'[n].pos
  BY <1>1, <1>2, TakenFrame
<1>4. queue' # <<>> /\ Head(queue').kind # "position" /\ Head(queue').pos = queue[1].pos
  <2>1. 2 \in DOMAIN queue /\ queue[2].kind # "position" /\ queue[2].pos = queue[1].pos
    <3>1. 1 + 1 = 2
      OBVIOUS
    <3>. QED
      BY <1>0, <1>3, <3>1 DEF FeedInv, QueueShape
  <2>2. 1 \in DOMAIN queue' /\ queue'[1] = queue[2]
    <3>1. 2 - 1 = 1 /\ 2 # 1
      OBVIOUS
    <3>. QED
      BY <1>3, <2>1, <3>1
  <2>3. queue' \in Seq(Commands)
    <3>1. TheWriter \in Writers /\ outbox' \in [Writers -> Seq(Commands)]
      BY <1>0, QueueTypes DEF Shape, TypeOK
    <3>. QED
      BY <3>1 DEF queue
  <2>. QED
    BY <2>1, <2>2, <2>3, EmptySeq
<1>5. /\ DOMAIN pending \subseteq DOMAIN pending'
      /\ \A i \in DOMAIN pending : pending'[i] = pending[i]
      /\ \E i \in DOMAIN pending' : pending'[i] = queue[1].row
  <2>1. pending \in Seq(Rows) /\ queue[1].row \in Rows
    BY <1>0, <1>3, QueueTypes DEF TypeOK
  <2>2. /\ pending' \in Seq(Rows) /\ Len(pending') = Len(pending) + 1
        /\ \A i \in 1 .. Len(pending) : pending'[i] = pending[i]
        /\ pending'[Len(pending) + 1] = queue[1].row
    BY <1>1, <1>3, <2>1, AppendProperties
  <2>3. Len(pending) \in Nat /\ DOMAIN pending = 1 .. Len(pending)
        /\ DOMAIN pending' = 1 .. Len(pending) + 1
    BY <2>1, <2>2, LenProperties
  <2>. QED
    BY <2>2, <2>3
<1>6. FeedInv'
  BY <1>1, <1>2, <1>3, <1>4 DEF FeedInv, PendingFits, HandFits
<1>7. ASSUME NEW p \in Positions, NEW e \in Entities, Coming(0, p, e) \/ InPending(p, e)
      PROVE  Coming(0, p, e)' \/ InPending(p, e)'
  <2>1. CASE InPending(p, e)
    BY <1>3, <1>4, <1>5, <2>1 DEF InPending
  <2>2. CASE RowOf(queue[1], p, e)
    BY <1>4, <1>5, <2>2 DEF InPending, RowOf
  <2>. QED
    BY <1>3, <1>7, <2>1, <2>2
<1>8. OwnComplete'
  <2>. SUFFICES ASSUME ~Deaf(own), NEW p \in Positions, NEW e \in Entities, Written(p), Names(p, e)
                PROVE  Known(own, e, p) \/ Coming(0, p, e)' \/ InPending(p, e)'
    BY <1>1, <1>3 DEF OwnComplete
  <2>1. Known(own, e, p) \/ Coming(0, p, e) \/ InPending(p, e) \/ OwnLeft(p, e) \/ FillLeft(p, e)
    BY <1>0, <1>2 DEF CacheInv, OwnComplete
  <2>. QED
    BY <1>3, <1>7, <2>1
<1>9. MembComplete'
  <2>. SUFFICES ASSUME ~Deaf(memb), NEW p \in Positions, NEW e \in Entities, sentTop < p,
                       Written(p), Names(p, e)
                PROVE  Known(memb, e, p) \/ Coming(0, p, e)' \/ InPending(p, e)'
    BY <1>1, <1>3 DEF MembComplete
  <2>1. Known(memb, e, p) \/ Coming(0, p, e) \/ InPending(p, e) \/ MembLeft(p, e)
    BY <1>0, <1>2 DEF CacheInv, MembComplete
  <2>. QED
    BY <1>3, <1>7, <2>1
<1>10. OwnServed' /\ MembServed'
  BY <1>0, <1>1, <1>3 DEF CacheInv, OwnServed, MembServed
<1>11. OwnAhead' /\ MembAhead'
  <2>1. own'.earliest >= own.earliest /\ memb'.earliest >= memb.earliest
    BY <1>0, <1>1, Numbers
  <2>. QED
    BY <1>0, <1>1, <1>3, <2>1, OwnAheadKeeps, MembAheadKeeps DEF CacheInv
<1>12. Delivered'
  <2>1. ~Deaf(own) => \A p \in applied, e \in Entities : Names(p, e) => Known(own, e, p)
    BY <1>0 DEF CacheInv, Delivered
  <2>. QED
    BY <1>1, <1>2, <1>3, <2>1 DEF Delivered
<1>13. SessionFits'
  BY <1>0, <1>1, <1>2 DEF CacheInv, SessionFits, Connecting
<1>. QED
  BY <1>3, <1>6, <1>8, <1>9, <1>10, <1>11, <1>12, <1>13 DEF Inv, CacheInv

\* Overflow: a batch over its limit is dropped, and the connection with it.
LEMMA OverflowKeeps ==
  ASSUME OneWriter, Inv, Shape', NEW w \in Writers, Overflow(w)
  PROVE  Inv'
<1>0. Shape /\ TypeOK /\ FeedInv /\ CacheInv
  BY DEF Inv, Shape
<1>1. /\ Takes(w, "batch") /\ pending' = <<>> /\ live' = FALSE
      /\ IF live THEN phase' = "aborting" ELSE phase' = phase
      /\ tx' = tx /\ position' = position /\ seed' = seed /\ sentTop' = sentTop
      /\ applying' = applying /\ fill' = fill /\ applied' = applied
      /\ own' = own /\ memb' = memb
  BY DEF Overflow
<1>2. /\ phase \in {"reading", "aborted"} /\ ~Handling /\ ~Handling' /\ ~Connecting'
      /\ phase' = "aborting" \/ (phase' = "aborted" /\ Deaf(own) /\ Deaf(memb) /\ own.disarmed /\ memb.disarmed)
  <2>1. phase \in {"reading", "aborted"}
    BY <1>1 DEF Takes, Reading
  <2>2. ~live => phase = "aborted" /\ Deaf(own) /\ Deaf(memb) /\ own.disarmed /\ memb.disarmed
    BY <1>0, <2>1, IdlePhases DEF CacheInv, SessionFits
  <2>3. phase' \in {"aborting", "aborted"}
    BY <1>1, <2>2
  <2>. QED
    BY <1>1, <2>1, <2>2, <2>3 DEF Handling, Connecting
<1>3. /\ WritersInOrder' /\ QueueShape' /\ QueueTrue' /\ PositionFits'
      /\ \A p \in Positions : Written(p)' <=> Written(p)
      /\ \A p \in Positions, e \in Entities : Names(p, e)' <=> Names(p, e)
      /\ \A p \in Positions, e \in Entities : ~FillLeft(p, e)
      /\ \A r \in Positions : Late(r)' => Late(r)
      /\ \A p \in applied : /\ p \in Positions /\ tx[p].state = "sent"
                            /\ \A n \in DOMAIN queue' : p <= queue'[n].pos
  BY <1>1, <1>2, TakenFrame
<1>4. FeedInv'
  BY <1>1, <1>2, <1>3, RestFits
<1>5. OwnComplete' /\ MembComplete'
  BY <1>1, <1>2 DEF OwnComplete, MembComplete
<1>6. OwnServed' /\ MembServed'
  BY <1>0, <1>1, <1>3 DEF CacheInv, OwnServed, MembServed
<1>7. OwnAhead' /\ MembAhead'
  <2>1. own'.earliest >= own.earliest /\ memb'.earliest >= memb.earliest
    BY <1>0, <1>1, Numbers
  <2>. QED
    BY <1>0, <1>1, <1>3, <2>1, OwnAheadKeeps, MembAheadKeeps DEF CacheInv
<1>8. Delivered'
  <2>1. ~Deaf(own) => \A p \in applied, e \in Entities : Names(p, e) => Known(own, e, p)
    BY <1>0 DEF CacheInv, Delivered
  <2>. QED
    BY <1>1, <1>2, <1>3, <2>1 DEF Delivered
<1>9. SessionFits'
  BY <1>1, <1>2 DEF SessionFits
<1>. QED
  BY <1>3, <1>4, <1>5, <1>6, <1>7, <1>8, <1>9 DEF Inv, CacheInv

\* HandleRDATA: the batch is complete, and the loops have all of it to do.
LEMMA HandleRDATAKeeps ==
  ASSUME OneWriter, Inv, Shape', NEW w \in Writers, HandleRDATA(w)
  PROVE  Inv'
<1>0. Shape /\ TypeOK /\ FeedInv /\ CacheInv
  BY DEF Inv, Shape
<1>1. /\ Takes(w, "rdata") /\ pending' = <<>> /\ phase' = "invalidating"
      /\ tx' = tx /\ position' = position /\ seed' = seed /\ sentTop' = sentTop
      /\ live' = live /\ fill' = fill /\ applied' = applied /\ own' = own /\ memb' = memb
  BY DEF HandleRDATA, hist
<1>2. /\ applying'.pos = Head(outbox[w]).pos /\ applying'.pos \in Positions /\ applying'.done = 0
      /\ applying'.rows = Append(pending, Head(outbox[w]).row)
      /\ DOMAIN applying'.rows = 1 .. Len(pending) + 1
      /\ Len(pending) \in Nat /\ DOMAIN pending = 1 .. Len(pending)
      /\ \A i \in 1 .. Len(pending) : applying'.rows[i] = pending[i]
      /\ applying'.rows[Len(pending) + 1] = Head(outbox[w]).row
  BY <1>0, HandledRows
<1>3. phase \in {"reading", "aborted"} /\ ~Handling /\ Handling' /\ ~Connecting'
      /\ Head(outbox[w]) = queue[1]
  <2>1. outbox[w] = queue /\ Head(queue) = queue[1]
    BY <1>0, <1>1, Popped DEF Takes
  <2>. QED
    BY <1>1, <2>1 DEF Takes, Reading, Handling, Connecting
<1>4. /\ WritersInOrder' /\ QueueShape' /\ QueueTrue' /\ PositionFits' /\ CommandTrue(1)
      /\ queue[1].kind = "rdata" /\ 1 \in DOMAIN queue
      /\ Head(queue) = queue[1]
      /\ \A n \in DOMAIN queue' : n \in Nat /\ n + 1 \in DOMAIN queue /\ queue'[n] = queue[n + 1]
      /\ \A p \in Positions : Written(p)' <=> Written(p)
      /\ \A p \in Positions, e \in Entities : Names(p, e)' <=> Names(p, e)
      /\ \A p \in Positions, e \in Entities :
           /\ Coming(1, p, e) => Coming(0, p, e)'
           /\ Coming(0, p, e) => Coming(0, p, e)' \/ RowOf(queue[1], p, e)
           /\ ~FillLeft(p, e) /\ ~OwnLeft(p, e) /\ ~MembLeft(p, e)
      /\ \A r \in Positions : Late(r)' => Late(r)
      /\ \A p \in applied : /\ p \in Positions /\ tx[p].state = "sent" /\ p <= queue[1].pos
                            /\ \A n \in DOMAIN queue' : p <= queue'[n].pos
  BY <1>1, <1>2, <1>3, TakenFrame
<1>5. applying'.pos = queue[1].pos
  BY <1>2, <1>3
<1>6. HandTrue'
  <2>1. \A p \in Positions : p <= applying'.pos => Written(p)'
    BY <1>4, <1>5 DEF CommandTrue, UpTo
  <2>2. \A p \in Positions, e \in Entities :
          Written(p)' /\ Names(p, e)' /\ applying'.pos < p => Coming(0, p, e)'
    BY <1>4, <1>5 DEF CommandTrue
  <2>. QED
    BY <2>1, <2>2 DEF HandTrue, UpTo
<1>7. HandRows'
  <2>1. applying'.pos \in Positions /\ tx'[applying'.pos].state = "sent"
    BY <1>1, <1>2, <1>4, <1>5 DEF CommandTrue
  <2>2. ASSUME NEW n \in DOMAIN queue'
        PROVE  /\ applying'.pos <= queue'[n].pos
               /\ queue'[n].kind # "position" => applying'.pos < queue'[n].pos
    <3>1. n + 1 \in DOMAIN queue /\ queue'[n] = queue[n + 1] /\ 1 < n + 1
      <4>1. DOMAIN queue' \subseteq Nat \ {0}
        <5>1. TypeOK' /\ TheWriter \in Writers
          BY <1>0, QueueTypes DEF Shape
        <5>2. queue' \in Seq(Commands)
          BY <5>1 DEF TypeOK, queue
        <5>. QED
          BY <5>2, LenProperties
      <4>. QED
        BY <1>4, <4>1
    <3>. QED
      BY <1>0, <1>4, <1>5, <3>1 DEF FeedInv, QueueShape
  <2>. QED
    BY <2>1, <2>2 DEF HandRows
<1>8. FeedInv'
  BY <1>1, <1>4, <1>6, <1>7 DEF FeedInv, PendingFits, HandFits
<1>9. ASSUME NEW p \in Positions, NEW e \in Entities, Coming(0, p, e) \/ InPending(p, e)
      PROVE  Coming(0, p, e)' \/ (OwnLeft(p, e)' /\ MembLeft(p, e)')
  <2>1. CASE InPending(p, e)
    <3>1. PICK i \in 1 .. Len(pending) : pending[i].entity = e
      BY <1>2, <2>1 DEF InPending
    <3>2. i \in DOMAIN applying'.rows /\ applying'.rows[i].entity = e /\ 0 < i
      BY <1>2, <3>1
    <3>3. applying'.pos = p
      BY <1>4, <1>5, <2>1 DEF InPending
    <3>. QED
      BY <1>1, <1>2, <3>2, <3>3 DEF OwnLeft, MembLeft
  <2>2. CASE RowOf(queue[1], p, e)
    <3>1. Len(pending) + 1 \in DOMAIN applying'.rows /\ 0 < Len(pending) + 1
      BY <1>2
    <3>2. applying'.rows[Len(pending) + 1].entity = e /\ applying'.pos = p
      BY <1>2, <1>3, <1>5, <2>2 DEF RowOf
    <3>. QED
      BY <1>1, <1>2, <3>1, <3>2 DEF OwnLeft, MembLeft
  <2>. QED
    BY <1>4, <1>9, <2>1, <2>2
<1>10. OwnComplete'
  <2>. SUFFICES ASSUME ~Deaf(own), NEW p \in Positions, NEW e \in Entities, Written(p), Names(p, e)
                PROVE  Known(own, e, p) \/ Coming(0, p, e)' \/ OwnLeft(p, e)'
    BY <1>1, <1>4 DEF OwnComplete
  <2>1. Known(own, e, p) \/ Coming(0, p, e) \/ InPending(p, e) \/ OwnLeft(p, e) \/ FillLeft(p, e)
    BY <1>0, <1>3 DEF CacheInv, OwnComplete
  <2>. QED
    BY <1>4, <1>9, <2>1
<1>11. MembComplete'
  <2>. SUFFICES ASSUME ~Deaf(memb), NEW p \in Positions, NEW e \in Entities, sentTop < p,
                       Written(p), Names(p, e)
                PROVE  Known(memb, e, p) \/ Coming(0, p, e)' \/ MembLeft(p, e)'
    BY <1>1, <1>4 DEF MembComplete
  <2>1. Known(memb, e, p) \/ Coming(0, p, e) \/ InPending(p, e) \/ MembLeft(p, e)
    BY <1>0, <1>3 DEF CacheInv, MembComplete
  <2>. QED
    BY <1>4, <1>9, <2>1
<1>12. OwnServed' /\ MembServed'
  BY <1>0, <1>1, <1>4 DEF CacheInv, OwnServed, MembServed
<1>13. OwnAhead' /\ MembAhead'
  <2>1. own'.earliest >= own.earliest /\ memb'.earliest >= memb.earliest
    BY <1>0, <1>1, Numbers
  <2>. QED
    BY <1>0, <1>1, <1>4, <2>1, OwnAheadKeeps, MembAheadKeeps DEF CacheInv
<1>14. Delivered'
  <2>1. ~Deaf(own) => \A p \in applied, e \in Entities : Names(p, e) => Known(own, e, p)
    BY <1>0 DEF CacheInv, Delivered
  <2>. QED
    BY <1>1, <1>4, <1>5, <2>1 DEF Delivered
<1>15. SessionFits'
  <2>1. ~live => own.disarmed /\ memb.disarmed
    BY <1>0, <1>3 DEF CacheInv, SessionFits
  <2>. QED
    BY <1>1, <1>3, <2>1 DEF SessionFits
<1>. QED
  BY <1>4, <1>8, <1>10, <1>11, <1>12, <1>13, <1>14, <1>15 DEF Inv, CacheInv

\* HandlePosition: both caches are reset to a position up to which all is
\* committed; what was claimed above it was below the horizon already.
LEMMA HandlePositionKeeps ==
  ASSUME OneWriter, Inv, Shape', NEW w \in Writers, HandlePosition(w)
  PROVE  Inv'
<1>0. Shape /\ TypeOK /\ FeedInv /\ CacheInv /\ Sound(own) /\ Sound(memb)
  BY DEF Inv, Shape, PhaseFits
<1>1. /\ Takes(w, "position") /\ pending' = pending /\ phase' = "recorded"
      /\ tx' = tx /\ position' = position /\ seed' = seed /\ sentTop' = sentTop
      /\ live' = live /\ fill' = fill /\ applied' = applied
      /\ own' = AllEntitiesChanged(own, Head(outbox[w]).pos)
      /\ memb' = AllEntitiesChanged(memb, Head(outbox[w]).pos)
      /\ applying' = [NoBatch EXCEPT !.pos = Head(outbox[w]).pos]
  BY DEF HandlePosition, hist
<1>2. phase \in {"reading", "aborted"} /\ ~Handling /\ Handling' /\ ~Connecting'
      /\ Head(outbox[w]) = queue[1] /\ applying'.pos = queue[1].pos
  <2>1. outbox[w] = queue /\ Head(queue) = queue[1]
    BY <1>0, <1>1, Popped DEF Takes
  <2>. QED
    BY <1>1, <2>1 DEF Takes, Reading, Handling, Connecting, NoBatch
<1>3. /\ WritersInOrder' /\ QueueShape' /\ QueueTrue' /\ PositionFits' /\ CommandTrue(1)
      /\ queue[1].kind = "position" /\ 1 \in DOMAIN queue
      /\ queue[1].pos \in Pos /\ queue[1].pos \in Nat /\ Head(queue) = queue[1]
      /\ \A p \in Positions : Written(p)' <=> Written(p)
      /\ \A p \in Positions, e \in Entities : Names(p, e)' <=> Names(p, e)
      /\ \A p \in Positions, e \in Entities :
           /\ Coming(1, p, e) => Coming(0, p, e)'
           /\ ~FillLeft(p, e)
      /\ \A r \in Positions : Late(r)' => Late(r)
      /\ \A p \in applied : /\ p \in Positions /\ tx[p].state = "sent" /\ p <= queue[1].pos
                            /\ \A n \in DOMAIN queue' : p <= queue'[n].pos
  BY <1>1, <1>2, TakenFrame
<1>. DEFINE a == queue[1].pos
<1>4. /\ Sound(own') /\ own'.earliest >= own.earliest /\ own'.earliest >= a
      /\ own'.disarmed = own.disarmed
      /\ \A f \in Entities, q \in Pos : q <= a \/ q <= own.earliest => Known(own', f, q)
  BY <1>0, <1>1, <1>2, <1>3, ResetKeeps
<1>5. /\ Sound(memb') /\ memb'.earliest >= memb.earliest /\ memb'.earliest >= a
      /\ memb'.disarmed = memb.disarmed
      /\ \A f \in Entities, q \in Pos : q <= a \/ q <= memb.earliest => Known(memb', f, q)
  BY <1>0, <1>1, <1>2, <1>3, ResetKeeps
<1>6. (Deaf(own') <=> Deaf(own)) /\ (Deaf(memb') <=> Deaf(memb))
  BY <1>4, <1>5 DEF Deaf
<1>7. own'.earliest \in Nat /\ memb'.earliest \in Nat /\ own.earliest \in Nat /\ memb.earliest \in Nat
      /\ seed \in Nat /\ a \in Nat
  <2>1. own'.earliest \in Pos /\ memb'.earliest \in Pos
    BY <1>4, <1>5 DEF Sound, Caches
  <2>. QED
    BY <2>1, <1>0, <1>3, Numbers, PositionTypes
<1>8. pending = <<>>
  BY <1>0, <1>3 DEF FeedInv, PendingFits
<1>9. HandFits'
  <2>1. \A p \in Positions : p <= applying'.pos => Written(p)'
    BY <1>2, <1>3 DEF CommandTrue, UpTo
  <2>2. \A p \in Positions, e \in Entities :
          Written(p)' /\ Names(p, e)' /\ applying'.pos < p => Coming(0, p, e)'
    BY <1>2, <1>3 DEF CommandTrue
  <2>3. applying'.pos <= own'.earliest /\ applying'.pos <= memb'.earliest
    BY <1>2, <1>4, <1>5, <1>7
  <2>. QED
    BY <1>1, <2>1, <2>2, <2>3 DEF HandFits, HandTrue, UpTo
<1>10. FeedInv'
  BY <1>1, <1>3, <1>8, <1>9 DEF FeedInv, PendingFits
<1>11. ASSUME NEW p \in Positions, ~(p <= a) PROVE a < p
  BY <1>7, <1>11, PositionTypes
<1>12. \A p \in Positions : p \in Pos
  BY PositionTypes
<1>13. OwnComplete' /\ MembComplete'
  <2>1. ASSUME NEW p \in Positions, NEW e \in Entities, Written(p), Names(p, e)
        PROVE  (Known(own', e, p) /\ Known(memb', e, p)) \/ Coming(0, p, e)'
    <3>1. CASE p <= a
      BY <1>4, <1>5, <1>12, <3>1
    <3>2. CASE ~(p <= a)
      BY <1>3, <1>11, <2>1, <3>2 DEF CommandTrue
    <3>. QED
      BY <3>1, <3>2
  <2>. QED
    BY <1>3, <2>1 DEF OwnComplete, MembComplete
<1>14. \A r \in Positions : a < r => Late(r)
  BY <1>3 DEF Late
<1>15. OwnServed'
  <2>. SUFFICES ASSUME NEW p \in Positions, NEW e \in Entities, seed < p, p <= position
                PROVE  Known(own', e, p)
    BY <1>1, <1>3 DEF OwnServed
  <2>1. CASE p <= a
    BY <1>4, <1>12, <2>1
  <2>2. CASE ~(p <= a)
    <3>1. p <= own.earliest
      BY <1>0, <1>11, <1>14, <2>2 DEF CacheInv, OwnAhead
    <3>. QED
      BY <1>4, <1>12, <3>1
  <2>. QED
    BY <2>1, <2>2
<1>16. MembServed'
  <2>. SUFFICES ASSUME ~Deaf(memb)
                PROVE  /\ seed <= memb'.earliest
                       /\ \A p \in Positions, e \in Entities :
                            sentTop < p /\ p <= position => Known(memb', e, p)
    BY <1>1, <1>3, <1>6 DEF MembServed
  <2>1. seed <= memb'.earliest
    <3>1. seed <= memb.earliest
      BY <1>0 DEF CacheInv, MembServed
    <3>. QED
      BY <1>5, <1>7, <3>1
  <2>2. ASSUME NEW p \in Positions, NEW e \in Entities, sentTop < p, p <= position
        PROVE  Known(memb', e, p)
    <3>1. CASE p <= a
      BY <1>5, <1>12, <3>1
    <3>2. CASE ~(p <= a)
      <4>1. p <= memb.earliest
        BY <1>0, <1>11, <1>14, <2>2, <3>2 DEF CacheInv, MembAhead
      <4>. QED
        BY <1>5, <1>12, <4>1
    <3>. QED
      BY <3>1, <3>2
  <2>. QED
    BY <2>1, <2>2
<1>17. OwnAhead' /\ MembAhead'
  BY <1>0, <1>1, <1>3, <1>4, <1>5, OwnAheadKeeps, MembAheadKeeps DEF CacheInv
<1>18. Delivered'
  <2>1. \A p \in applied, e \in Entities : Known(own', e, p)
    BY <1>3, <1>4, <1>12
  <2>. QED
    BY <1>1, <1>2, <1>3, <2>1 DEF Delivered
<1>19. SessionFits'
  <2>1. ~live => own.disarmed /\ memb.disarmed
    BY <1>0, <1>2 DEF CacheInv, SessionFits
  <2>. QED
    BY <1>1, <1>2, <1>4, <1>5, <2>1 DEF SessionFits
<1>. QED
  BY <1>3, <1>10, <1>13, <1>15, <1>16, <1>17, <1>18, <1>19 DEF Inv, CacheInv

\* An iteration of a loop: the batch in hand stays the next thing to know.
LEMMA LoopFrame ==
  ASSUME OneWriter, Inv, Shape', phase \in {"invalidating", "feeding"},
         phase' \in {"invalidating", "feeding", "recorded"}, applying'.pos = applying.pos,
         UNCHANGED <<tx, outbox, live, position, pending, sentTop, seed>>,
         own'.disarmed = own.disarmed, memb'.disarmed = memb.disarmed
  PROVE  /\ FeedInv' /\ PositionFits' /\ SessionFits' /\ HandTrue /\ HandRows
         /\ pending' = <<>> /\ Handling /\ Handling' /\ queue' = queue
         /\ applying.pos \in Positions /\ applying.pos \in Pos /\ applying.pos \in Nat
         /\ \A p \in Positions : (Written(p)' <=> Written(p)) /\ tx'[p] = tx[p]
         /\ \A p \in Positions, e \in Entities : Names(p, e)' <=> Names(p, e)
         /\ \A p \in Positions, e \in Entities : Coming(0, p, e)' <=> Coming(0, p, e)
         /\ \A p \in Positions, e \in Entities : ~InPending(p, e) /\ ~FillLeft(p, e) /\ ~FillLeft(p, e)'
         /\ \A r \in Positions : Late(r)' => Late(r)
         /\ (Deaf(own') <=> Deaf(own)) /\ (Deaf(memb') <=> Deaf(memb))
<1>0. Shape /\ TypeOK /\ FeedInv /\ CacheInv
  BY DEF Inv, Shape
<1>1. Handling /\ Handling' /\ ~Connecting' /\ ~Connecting
  BY DEF Handling, Connecting
<1>2. HandTrue /\ HandRows
  BY <1>0, <1>1 DEF FeedInv, HandFits
<1>3. applying.pos \in Positions /\ applying.pos \in Pos /\ applying.pos \in Nat
  BY <1>2, PositionTypes DEF HandRows
<1>4. pending = <<>>
  BY <1>1, IdlePhases DEF Handling
<1>5. /\ WritersInOrder' /\ QueueShape' /\ QueueTrue' /\ queue' = queue
      /\ \A p \in Positions : (Written(p)' <=> Written(p)) /\ tx'[p] = tx[p]
      /\ \A p \in Positions, e \in Entities : Names(p, e)' <=> Names(p, e)
      /\ \A p \in Positions, e \in Entities : Coming(0, p, e)' <=> Coming(0, p, e)
  BY StillFacts
<1>6. \A r \in Positions : Late(r)' => Late(r)
  <2>1. \A r \in Positions : Handling' /\ applying'.pos < r => Late(r)
    BY <1>1 DEF Late
  <2>. QED
    BY <1>5, <2>1, LateShrinks
<1>7. HandFits'
  <2>1. HandTrue'
    BY <1>2, <1>5 DEF HandTrue, UpTo
  <2>2. HandRows'
    BY <1>2, <1>5 DEF HandRows
  <2>. QED
    BY <2>1, <2>2 DEF HandFits
<1>8. FeedInv'
  BY <1>4, <1>5, <1>7 DEF FeedInv, PendingFits
<1>9. PositionFits'
  BY <1>0, <1>5 DEF CacheInv, PositionFits
<1>10. SessionFits'
  <2>1. ~live => own.disarmed /\ memb.disarmed
    BY <1>0 DEF CacheInv, SessionFits
  <2>. QED
    BY <1>1, <2>1 DEF SessionFits
<1>11. \A p \in Positions, e \in Entities : ~InPending(p, e) /\ ~FillLeft(p, e) /\ ~FillLeft(p, e)'
  BY <1>4 DEF InPending, FillLeft
<1>. QED
  BY <1>1, <1>2, <1>3, <1>4, <1>5, <1>6, <1>8, <1>9, <1>10, <1>11 DEF Deaf

\* InvalidateRow: a legible row is known to the membership cache, and the others
\* are left for the reset.
LEMMA InvalidateRowKeeps ==
  ASSUME OneWriter, Inv, Shape', InvalidateRow
  PROVE  Inv'
<1>0. Shape /\ TypeOK /\ FeedInv /\ CacheInv /\ Sound(memb) /\ Sound(own)
  BY DEF Inv, Shape, PhaseFits
<1>1. /\ phase = "invalidating" /\ Iterate("feeding")
      /\ memb' = MembershipRow(memb, CurrentRow, applying.pos)
      /\ tx' = tx /\ outbox' = outbox /\ position' = position /\ seed' = seed /\ sentTop' = sentTop
      /\ live' = live /\ pending' = pending /\ applied' = applied /\ own' = own
  BY DEF InvalidateRow, writerVars, hist
<1>2. /\ applying.done + 1 \in DOMAIN applying.rows /\ CurrentRow \in Rows
      /\ CurrentRow = applying.rows[applying.done + 1]
      /\ DOMAIN applying.rows = 1 .. Len(applying.rows) /\ Len(applying.rows) \in Nat
      /\ applying.done \in Nat /\ applying'.pos = applying.pos /\ applying'.rows = applying.rows
      /\ applying.pos \in Pos
      /\ \/ phase' = "feeding" /\ applying'.done = 0 /\ applying.done + 1 = Len(applying.rows)
         \/ phase' = "invalidating" /\ applying'.done = applying.done + 1
  BY <1>0, <1>1, IterateFacts
<1>3. /\ Sound(memb') /\ memb'.earliest >= memb.earliest /\ memb'.disarmed = memb.disarmed
      /\ \A f \in Entities, q \in Pos : Known(memb, f, q) => Known(memb', f, q)
      /\ ~Deaf(memb) /\ CurrentRow.legible => Known(memb', CurrentRow.entity, applying.pos)
  <2>1. /\ CurrentRow.entity \in Entities
        /\ memb' = IF CurrentRow.legible THEN EntityHasChanged(memb, CurrentRow.entity, applying.pos) ELSE memb
    BY <1>1, <1>2, FeedRowIs
  <2>2. CASE CurrentRow.legible
    BY <1>0, <1>2, <2>1, <2>2, RecordKeeps
  <2>3. CASE ~CurrentRow.legible
    BY <1>0, <2>1, <2>3, Numbers
  <2>. QED
    BY <2>2, <2>3
<1>4. /\ FeedInv' /\ PositionFits' /\ SessionFits' /\ Handling /\ Handling' /\ queue' = queue
      /\ \A p \in Positions : (Written(p)' <=> Written(p)) /\ tx'[p] = tx[p]
      /\ \A p \in Positions, e \in Entities : Names(p, e)' <=> Names(p, e)
      /\ \A p \in Positions, e \in Entities : Coming(0, p, e)' <=> Coming(0, p, e)
      /\ \A p \in Positions, e \in Entities : ~InPending(p, e) /\ ~FillLeft(p, e) /\ ~FillLeft(p, e)'
      /\ \A r \in Positions : Late(r)' => Late(r)
      /\ (Deaf(own') <=> Deaf(own)) /\ (Deaf(memb') <=> Deaf(memb))
  BY <1>1, <1>2, <1>3, LoopFrame
<1>5. \A p \in Positions : p \in Pos
  BY PositionTypes
<1>6. ASSUME NEW p \in Positions, NEW e \in Entities, OwnLeft(p, e) PROVE OwnLeft(p, e)'
  <2>1. PICK i \in DOMAIN applying.rows : applying.rows[i].entity = e /\ applying.pos = p
    BY <1>6 DEF OwnLeft
  <2>2. 0 < i
    BY <1>2
  <2>. QED
    BY <1>2, <2>1, <2>2 DEF OwnLeft
<1>7. ASSUME ~Deaf(memb), NEW p \in Positions, NEW e \in Entities, MembLeft(p, e)
      PROVE  Known(memb', e, p) \/ MembLeft(p, e)'
  <2>1. PICK i \in DOMAIN applying.rows :
          /\ applying.rows[i].entity = e /\ applying.pos = p
          /\ applying.done < i \/ ~applying.rows[i].legible
    BY <1>1, <1>7 DEF MembLeft
  <2>2. i \in Nat /\ 0 < i /\ i <= Len(applying.rows)
    BY <1>2
  <2>3. CASE ~applying.rows[i].legible
    BY <1>2, <2>1, <2>2, <2>3 DEF MembLeft
  <2>4. CASE i = applying.done + 1 /\ applying.rows[i].legible
    BY <1>2, <1>3, <1>7, <2>1, <2>4
  <2>5. CASE i # applying.done + 1 /\ applying.rows[i].legible
    <3>1. applying.done < i
      BY <2>1, <2>5
    <3>2. applying.done + 1 < i
      BY <1>2, <2>2, <2>5, <3>1
    <3>3. phase' = "invalidating" /\ applying'.done = applying.done + 1
      BY <1>2, <2>2, <3>2
    <3>. QED
      BY <1>2, <2>1, <3>2, <3>3 DEF MembLeft
  <2>. QED
    BY <2>3, <2>4, <2>5
<1>8. OwnComplete'
  <2>. SUFFICES ASSUME ~Deaf(own), NEW p \in Positions, NEW e \in Entities, Written(p), Names(p, e)
                PROVE  Known(own, e, p) \/ Coming(0, p, e) \/ OwnLeft(p, e)'
    BY <1>1, <1>4 DEF OwnComplete
  <2>1. Known(own, e, p) \/ Coming(0, p, e) \/ InPending(p, e) \/ OwnLeft(p, e) \/ FillLeft(p, e)
    BY <1>0, <1>1 DEF CacheInv, OwnComplete
  <2>. QED
    BY <1>4, <1>6, <2>1
<1>9. MembComplete'
  <2>. SUFFICES ASSUME ~Deaf(memb), NEW p \in Positions, NEW e \in Entities, sentTop < p,
                       Written(p), Names(p, e)
                PROVE  Known(memb', e, p) \/ Coming(0, p, e) \/ MembLeft(p, e)'
    BY <1>1, <1>4 DEF MembComplete
  <2>1. Known(memb, e, p) \/ Coming(0, p, e) \/ InPending(p, e) \/ MembLeft(p, e)
    BY <1>0, <1>1 DEF CacheInv, MembComplete
  <2>. QED
    BY <1>3, <1>4, <1>5, <1>7, <2>1
<1>10. OwnServed'
  BY <1>0, <1>1, <1>4 DEF CacheInv, OwnServed
<1>11. MembServed'
  <2>1. ~Deaf(memb) => /\ seed <= memb.earliest
                       /\ \A p \in Positions, e \in Entities :
                            sentTop < p /\ p <= position /\ Names(p, e) => Known(memb, e, p)
    BY <1>0 DEF CacheInv, MembServed
  <2>2. memb'.earliest \in Nat /\ memb.earliest \in Nat /\ seed \in Nat
    BY <1>0, <1>3, Numbers, PositionTypes DEF Sound, Caches
  <2>3. seed <= memb.earliest => seed <= memb'.earliest
    BY <1>3, <2>2
  <2>. QED
    BY <1>1, <1>3, <1>4, <1>5, <2>1, <2>3 DEF MembServed
<1>12. OwnAhead' /\ MembAhead'
  <2>1. own'.earliest >= own.earliest
    BY <1>0, <1>1, Numbers
  <2>. QED
    BY <1>0, <1>1, <1>3, <1>4, <2>1, OwnAheadKeeps, MembAheadKeeps DEF CacheInv
<1>13. Delivered'
  <2>1. \A p \in applied : /\ p \in Positions /\ tx[p].state = "sent" /\ p <= applying.pos
                           /\ \A n \in DOMAIN queue : p <= queue[n].pos
                           /\ ~Deaf(own) => \A e \in Entities : Names(p, e) => Known(own, e, p)
    BY <1>0, <1>4 DEF CacheInv, Delivered, TypeOK
  <2>. QED
    BY <1>1, <1>2, <1>4, <2>1 DEF Delivered
<1>. QED
  BY <1>4, <1>8, <1>9, <1>10, <1>11, <1>12, <1>13 DEF Inv, CacheInv

\* RecordRow: the row is known to the stream's cache. An illegible one resets
\* both caches, and what it wipes out above its position is yet to be read, or
\* is below the horizon.
LEMMA RecordRowKeeps ==
  ASSUME OneWriter, Inv, Shape', RecordRow
  PROVE  Inv'
<1>0. Shape /\ TypeOK /\ FeedInv /\ CacheInv /\ Sound(memb) /\ Sound(own)
  BY DEF Inv, Shape, PhaseFits
<1>. DEFINE a == applying.pos
<1>1. /\ phase = "feeding" /\ Iterate("recorded")
      /\ own' = FeedRow(own, CurrentRow, a) /\ memb' = MembershipReset(memb, CurrentRow, a)
      /\ tx' = tx /\ outbox' = outbox /\ position' = position /\ seed' = seed /\ sentTop' = sentTop
      /\ live' = live /\ pending' = pending
      /\ applied' = IF LastRow THEN applied \cup {a} ELSE applied
  BY DEF RecordRow, writerVars
<1>2. /\ applying.done + 1 \in DOMAIN applying.rows /\ CurrentRow \in Rows
      /\ CurrentRow = applying.rows[applying.done + 1]
      /\ DOMAIN applying.rows = 1 .. Len(applying.rows) /\ Len(applying.rows) \in Nat
      /\ applying.done \in Nat /\ applying'.pos = a /\ applying'.rows = applying.rows
      /\ a \in Pos
      /\ \/ LastRow /\ phase' = "recorded" /\ applying.done + 1 = Len(applying.rows)
         \/ ~LastRow /\ phase' = "feeding" /\ applying'.done = applying.done + 1
  BY <1>0, <1>1, IterateFacts
<1>3. /\ CurrentRow.entity \in Entities
      /\ own' = IF CurrentRow.legible THEN EntityHasChanged(own, CurrentRow.entity, a)
                                      ELSE AllEntitiesChanged(own, a)
      /\ memb' = IF CurrentRow.legible THEN memb ELSE AllEntitiesChanged(memb, a)
  BY <1>1, <1>2, FeedRowIs
<1>4. /\ Sound(own') /\ own'.earliest >= own.earliest /\ own'.disarmed = own.disarmed
      /\ \A f \in Entities, q \in Pos :
           Known(own, f, q) /\ (q <= a \/ q <= own.earliest) => Known(own', f, q)
      /\ ~Deaf(own) => Known(own', CurrentRow.entity, a)
  <2>1. CASE CurrentRow.legible
    <3>1. own' = EntityHasChanged(own, CurrentRow.entity, a)
      BY <1>3, <2>1
    <3>. HIDE DEF a
    <3>. QED
      BY <1>0, <1>2, <1>3, <3>1, RecordKeeps
  <2>2. CASE ~CurrentRow.legible
    <3>1. own' = AllEntitiesChanged(own, a)
      BY <1>3, <2>2
    <3>. HIDE DEF a
    <3>0. a \in Nat
      BY <1>2, PositionTypes
    <3>2. a <= a
      BY <3>0
    <3>. QED
      BY <1>0, <1>2, <1>3, <3>1, <3>2, ResetKeeps
  <2>. QED
    BY <2>1, <2>2
<1>5. /\ Sound(memb') /\ memb'.earliest >= memb.earliest /\ memb'.disarmed = memb.disarmed
      /\ \A f \in Entities, q \in Pos :
           Known(memb, f, q) /\ (q <= a \/ q <= memb.earliest) => Known(memb', f, q)
      /\ ~CurrentRow.legible => \A f \in Entities : Known(memb', f, a)
  <2>1. CASE CurrentRow.legible
    <3>1. memb' = memb /\ memb.earliest >= memb.earliest
      BY <1>0, <1>3, <2>1, Numbers
    <3>. QED
      BY <1>0, <2>1, <3>1
  <2>2. CASE ~CurrentRow.legible
    <3>1. memb' = AllEntitiesChanged(memb, a)
      BY <1>3, <2>2
    <3>. HIDE DEF a
    <3>0. a \in Nat
      BY <1>2, PositionTypes
    <3>2. a <= a
      BY <3>0
    <3>. QED
      BY <1>0, <1>2, <3>1, <3>2, ResetKeeps
  <2>. QED
    BY <2>1, <2>2
<1>6. /\ FeedInv' /\ PositionFits' /\ SessionFits' /\ HandTrue /\ HandRows
      /\ Handling /\ Handling' /\ queue' = queue
      /\ a \in Positions /\ a \in Nat
      /\ \A p \in Positions : (Written(p)' <=> Written(p)) /\ tx'[p] = tx[p]
      /\ \A p \in Positions, e \in Entities : Names(p, e)' <=> Names(p, e)
      /\ \A p \in Positions, e \in Entities : Coming(0, p, e)' <=> Coming(0, p, e)
      /\ \A p \in Positions, e \in Entities : ~InPending(p, e) /\ ~FillLeft(p, e) /\ ~FillLeft(p, e)'
      /\ \A r \in Positions : Late(r)' => Late(r)
      /\ (Deaf(own') <=> Deaf(own)) /\ (Deaf(memb') <=> Deaf(memb))
  BY <1>1, <1>2, <1>4, <1>5, LoopFrame
<1>7. \A p \in Positions : p \in Pos
  BY PositionTypes
<1>. HIDE DEF a
<1>8. ASSUME NEW p \in Positions, ~(p <= a) PROVE a < p /\ Late(p)
  <2>1. a < p
    BY <1>6, <1>8, PositionTypes
  <2>. QED
    BY <1>6, <2>1 DEF Late, a
<1>9. ASSUME ~Deaf(own), NEW p \in Positions, NEW e \in Entities, OwnLeft(p, e)
      PROVE  Known(own', e, p) \/ OwnLeft(p, e)'
  <2>1. PICK i \in DOMAIN applying.rows :
          applying.rows[i].entity = e /\ a = p /\ applying.done < i
    BY <1>1, <1>9 DEF OwnLeft, a
  <2>2. i \in Nat /\ i <= Len(applying.rows)
    BY <1>2
  <2>3. CASE i = applying.done + 1
    BY <1>2, <1>4, <1>9, <2>1, <2>3
  <2>4. CASE i # applying.done + 1
    <3>1. applying.done + 1 < i
      BY <1>2, <2>1, <2>2, <2>4
    <3>2. phase' = "feeding" /\ applying'.done = applying.done + 1
      BY <1>2, <2>2, <3>1
    <3>. QED
      BY <1>2, <2>1, <3>1, <3>2 DEF OwnLeft
  <2>. QED
    BY <2>3, <2>4
<1>10. ASSUME NEW p \in Positions, NEW e \in Entities, MembLeft(p, e)
       PROVE  Known(memb', e, p) \/ MembLeft(p, e)'
  <2>1. PICK i \in DOMAIN applying.rows :
          applying.rows[i].entity = e /\ a = p /\ applying.done < i /\ ~applying.rows[i].legible
    BY <1>1, <1>10 DEF MembLeft, a
  <2>2. i \in Nat /\ i <= Len(applying.rows)
    BY <1>2
  <2>3. CASE i = applying.done + 1
    BY <1>2, <1>5, <2>1, <2>3
  <2>4. CASE i # applying.done + 1
    <3>1. applying.done + 1 < i
      BY <1>2, <2>1, <2>2, <2>4
    <3>2. phase' = "feeding" /\ applying'.done = applying.done + 1
      BY <1>2, <2>2, <3>1
    <3>. QED
      BY <1>2, <2>1, <3>1, <3>2 DEF MembLeft
  <2>. QED
    BY <2>3, <2>4
<1>11. ASSUME NEW p \in Positions, NEW e \in Entities, Written(p), Names(p, e), ~(p <= a)
       PROVE  Coming(0, p, e)
  BY <1>6, <1>8, <1>11 DEF HandTrue, a
<1>12. ASSUME ~Deaf(own), NEW p \in Positions, NEW e \in Entities, Written(p), Names(p, e)
       PROVE  Known(own', e, p) \/ Coming(0, p, e) \/ OwnLeft(p, e)'
  <2>1. Known(own, e, p) \/ Coming(0, p, e) \/ InPending(p, e) \/ OwnLeft(p, e) \/ FillLeft(p, e)
    BY <1>0, <1>1, <1>12 DEF CacheInv, OwnComplete
  <2>2. CASE p <= a
    BY <1>4, <1>6, <1>7, <1>9, <1>12, <2>1, <2>2
  <2>3. CASE ~(p <= a)
    BY <1>11, <1>12, <2>3
  <2>. QED
    BY <2>2, <2>3
<1>13. OwnComplete'
  BY <1>6, <1>12 DEF OwnComplete
<1>14. MembComplete'
  <2>. SUFFICES ASSUME ~Deaf(memb), NEW p \in Positions, NEW e \in Entities, sentTop < p,
                       Written(p), Names(p, e)
                PROVE  Known(memb', e, p) \/ Coming(0, p, e) \/ MembLeft(p, e)'
    BY <1>1, <1>6 DEF MembComplete
  <2>1. Known(memb, e, p) \/ Coming(0, p, e) \/ InPending(p, e) \/ MembLeft(p, e)
    BY <1>0, <1>1 DEF CacheInv, MembComplete
  <2>2. CASE p <= a
    BY <1>5, <1>6, <1>7, <1>10, <2>1, <2>2
  <2>3. CASE ~(p <= a)
    BY <1>11, <2>3
  <2>. QED
    BY <2>2, <2>3
<1>15. OwnServed'
  <2>. SUFFICES ASSUME ~Deaf(own), NEW p \in Positions, NEW e \in Entities, seed < p, p <= position,
                       Names(p, e)
                PROVE  Known(own', e, p)
    BY <1>1, <1>6 DEF OwnServed
  <2>1. Known(own, e, p)
    BY <1>0, <1>6 DEF CacheInv, OwnServed
  <2>2. p <= a \/ p <= own.earliest
    BY <1>0, <1>8 DEF CacheInv, OwnAhead
  <2>. QED
    BY <1>4, <1>7, <2>1, <2>2
<1>16. MembServed'
  <2>. SUFFICES ASSUME ~Deaf(memb)
                PROVE  /\ seed <= memb'.earliest
                       /\ \A p \in Positions, e \in Entities :
                            sentTop < p /\ p <= position /\ Names(p, e) => Known(memb', e, p)
    BY <1>1, <1>6 DEF MembServed
  <2>0. /\ seed <= memb.earliest
        /\ \A p \in Positions, e \in Entities :
             sentTop < p /\ p <= position /\ Names(p, e) => Known(memb, e, p)
    BY <1>0 DEF CacheInv, MembServed
  <2>1. seed <= memb'.earliest
    <3>1. memb'.earliest \in Nat /\ memb.earliest \in Nat /\ seed \in Nat
      BY <1>0, <1>5, Numbers, PositionTypes DEF Sound, Caches
    <3>. QED
      BY <1>5, <2>0, <3>1
  <2>2. ASSUME NEW p \in Positions, NEW e \in Entities, sentTop < p, p <= position, Names(p, e)
        PROVE  Known(memb', e, p)
    <3>1. Known(memb, e, p)
      BY <2>0, <2>2
    <3>2. p <= a \/ p <= memb.earliest
      BY <1>0, <1>8, <2>2 DEF CacheInv, MembAhead
    <3>. QED
      BY <1>5, <1>7, <3>1, <3>2
  <2>. QED
    BY <2>1, <2>2
<1>17. OwnAhead' /\ MembAhead'
  BY <1>0, <1>1, <1>4, <1>5, <1>6, OwnAheadKeeps, MembAheadKeeps DEF CacheInv
<1>18. ASSUME LastRow, ~Deaf(own), NEW p \in Positions, p = a, NEW e \in Entities, Names(p, e)
       PROVE  Known(own', e, p)
  <2>1. tx[p].state = "sent" /\ Written(p)
    BY <1>6, <1>18 DEF HandRows, Written, a
  <2>2. ~Coming(0, p, e)
    <3>1. ASSUME NEW n \in DOMAIN queue, RowOf(queue[n], p, e) PROVE FALSE
      <4>1. a < queue[n].pos /\ queue[n].pos = a
        BY <1>6, <1>18, <3>1 DEF HandRows, RowOf, a
      <4>. QED
        BY <1>6, <4>1
    <3>. QED
      BY <2>1, <3>1 DEF Coming
  <2>3. ~OwnLeft(p, e)'
    BY <1>2, <1>18 DEF OwnLeft
  <2>. QED
    BY <1>12, <1>18, <2>1, <2>2, <2>3
<1>19. ASSUME NEW p \in applied'
       PROVE  /\ tx[p].state = "sent" /\ p <= a
              /\ \A n \in DOMAIN queue : p <= queue[n].pos
              /\ ~Deaf(own) => \A e \in Entities : Names(p, e)' => Known(own', e, p)
  <2>1. CASE p \in applied
    <3>1. /\ p \in Positions /\ tx[p].state = "sent" /\ p <= a
          /\ \A n \in DOMAIN queue : p <= queue[n].pos
          /\ ~Deaf(own) => \A e \in Entities : Names(p, e) => Known(own, e, p)
      BY <1>0, <1>6, <2>1 DEF CacheInv, Delivered, TypeOK, a
    <3>. QED
      BY <1>4, <1>6, <1>7, <3>1
  <2>2. CASE p = a /\ LastRow
    <3>1. /\ tx[a].state = "sent" /\ a <= a
          /\ \A n \in DOMAIN queue : a <= queue[n].pos
      BY <1>6 DEF HandRows, a
    <3>. QED
      BY <1>6, <1>18, <2>2, <3>1
  <2>. QED
    BY <1>1, <1>19, <2>1, <2>2
<1>20. Delivered'
  <2>1. tx' = tx /\ applying'.pos = a /\ queue' = queue /\ (Deaf(own') <=> Deaf(own))
    BY <1>1, <1>2, <1>6
  <2>. QED
    BY <1>19, <2>1 DEF Delivered
<1>. QED
  BY <1>6, <1>13, <1>14, <1>15, <1>16, <1>17, <1>20 DEF Inv, CacheInv

\* Advance: the position covers the command in hand, and all of that is known.
LEMMA AdvanceKeeps ==
  ASSUME OneWriter, Inv, Shape', Advance
  PROVE  Inv'
<1>0. Shape /\ TypeOK /\ FeedInv /\ CacheInv /\ Sound(memb) /\ Sound(own)
  BY DEF Inv, Shape, PhaseFits
<1>. DEFINE a == applying.pos
<1>1. /\ phase = "recorded" /\ phase' = IF live THEN "reading" ELSE "aborted"
      /\ tx' = tx /\ outbox' = outbox /\ seed' = seed /\ sentTop' = sentTop
      /\ live' = live /\ pending' = pending /\ applied' = applied /\ own' = own /\ memb' = memb
      /\ fill' = fill
  BY DEF Advance, writerVars, hist
<1>2. /\ position' \in Nat /\ position \in Nat /\ a \in Nat /\ position <= position'
      /\ position' = position \/ position' = a
  <2>1. /\ position' \in Pos /\ a \in Pos /\ position' >= position
        /\ position' = position \/ position' = a
    BY <1>0, <1>1, AdvanceTyped
  <2>. QED
    BY <1>0, <2>1, Numbers, PositionTypes
<1>3. pending = <<>> /\ Handling /\ ~Handling' /\ ~Connecting /\ ~Connecting'
  BY <1>1, IdlePhases DEF Handling, Connecting
<1>4. /\ HandTrue
      /\ HandRows \/ (a <= own.earliest /\ a <= memb.earliest)
  BY <1>0, <1>3 DEF FeedInv, HandFits
<1>5. /\ WritersInOrder' /\ QueueShape' /\ QueueTrue' /\ queue' = queue
      /\ \A p \in Positions : (Written(p)' <=> Written(p)) /\ tx'[p] = tx[p]
      /\ \A p \in Positions, e \in Entities : Names(p, e)' <=> Names(p, e)
      /\ \A p \in Positions, e \in Entities : Coming(0, p, e)' <=> Coming(0, p, e)
  BY <1>1, StillFacts
<1>6. \A r \in Positions : Late(r)' => Late(r)
  <2>1. \A n \in DOMAIN queue' : \E m \in DOMAIN queue : queue'[n] = queue[m]
    BY <1>5
  <2>. QED
    BY <1>1, <1>3, <2>1, LateShrinks
<1>7. FeedInv'
  BY <1>1, <1>3, <1>5, RestFits
<1>8. \A p \in Positions, e \in Entities :
        /\ ~InPending(p, e) /\ ~OwnLeft(p, e) /\ ~MembLeft(p, e) /\ ~FillLeft(p, e) /\ ~FillLeft(p, e)'
  BY <1>1, <1>3 DEF InPending, OwnLeft, MembLeft, FillLeft
<1>. HIDE DEF a
<1>9. ASSUME NEW p \in Positions, p <= position' PROVE p <= position \/ p <= a
  BY <1>2, <1>9
<1>10. ASSUME NEW p \in Positions, p <= a PROVE Written(p)
  BY <1>4, <1>10 DEF HandTrue, UpTo, a
<1>11. PositionFits'
  <2>1. seed' <= position'
    BY <1>0, <1>1, <1>2, Numbers DEF CacheInv, PositionFits
  <2>2. \A p \in Positions : seed < p /\ p <= position' => Written(p)
    BY <1>0, <1>9, <1>10 DEF CacheInv, PositionFits
  <2>. QED
    BY <1>1, <1>5, <2>1, <2>2 DEF PositionFits
<1>12. ASSUME HandRows, NEW p \in Positions, p <= a
       PROVE  /\ tx[p].state = "sent" /\ \A e \in Entities : ~Coming(0, p, e)
              /\ ~Late(p)'
  <2>1. a \in Positions /\ tx[a].state = "sent"
    BY <1>12 DEF HandRows, a
  <2>2. \A q \in Positions : q <= a => tx[q].state = "sent"
    <3>1. \A q \in Positions : q <= a => q = a \/ q < a
      BY <1>2, PositionTypes
    <3>. QED
      BY <1>0, <2>1, <3>1 DEF FeedInv, WritersInOrder
  <2>3. \A n \in DOMAIN queue :
          /\ queue[n].pos \in Nat /\ a <= queue[n].pos
          /\ queue[n].kind # "position" => a < queue[n].pos
    BY <1>0, <1>12, QueueTypes DEF HandRows, a
  <2>4. p \in Nat
    BY PositionTypes
  <2>5. ASSUME NEW e \in Entities PROVE ~Coming(0, p, e)
    <3>1. ASSUME NEW n \in DOMAIN queue, RowOf(queue[n], p, e) PROVE FALSE
      <4>1. a < queue[n].pos /\ queue[n].pos = p
        BY <2>3, <3>1 DEF RowOf
      <4>. QED
        BY <1>2, <1>12, <4>1, <2>4
    <3>. QED
      BY <1>12, <2>2, <3>1 DEF Coming
  <2>6. ~Late(p)'
    <3>1. ASSUME NEW n \in DOMAIN queue, queue[n].pos < p PROVE FALSE
      BY <1>2, <1>12, <2>3, <2>4, <3>1
    <3>2. ASSUME NEW q \in Positions, q < p, tx[q].state # "sent" PROVE FALSE
      <4>1. q <= a
        BY <1>2, <1>12, <2>4, <3>2, PositionTypes
      <4>. QED
        BY <2>2, <3>2, <4>1
    <3>. QED
      BY <1>1, <1>3, <1>5, <3>1, <3>2 DEF Late
  <2>. QED
    BY <1>12, <2>2, <2>5, <2>6
<1>13. ASSUME NEW c, NEW p \in Positions, Sound(c), a <= c.earliest, p <= a
       PROVE  p <= c.earliest /\ p \in Pos
  <2>1. c.earliest \in Nat /\ p \in Nat /\ p \in Pos
    BY <1>13, PositionTypes DEF Sound, Caches
  <2>. QED
    BY <1>2, <1>13, <2>1
<1>14. OwnComplete' /\ MembComplete'
  <2>1. OwnComplete'
    BY <1>0, <1>1, <1>5, <1>8 DEF CacheInv, OwnComplete
  <2>2. MembComplete'
    BY <1>0, <1>1, <1>5, <1>8 DEF CacheInv, MembComplete
  <2>. QED
    BY <2>1, <2>2
<1>15. OwnServed'
  <2>. SUFFICES ASSUME ~Deaf(own), NEW p \in Positions, NEW e \in Entities, seed < p, p <= position',
                       Names(p, e)
                PROVE  Known(own, e, p)
    BY <1>1, <1>5 DEF OwnServed
  <2>1. CASE p <= position
    BY <1>0, <1>8, <2>1 DEF CacheInv, OwnServed
  <2>2. CASE p <= a /\ HandRows
    BY <1>0, <1>1, <1>8, <1>10, <1>12, <2>2 DEF CacheInv, OwnComplete
  <2>3. CASE p <= a /\ a <= own.earliest
    BY <1>0, <1>13, <2>3, KnownBelowHorizon
  <2>. QED
    BY <1>4, <1>9, <2>1, <2>2, <2>3
<1>16. MembServed'
  <2>. SUFFICES ASSUME ~Deaf(memb)
                PROVE  /\ seed <= memb.earliest
                       /\ \A p \in Positions, e \in Entities :
                            sentTop < p /\ p <= position' /\ Names(p, e) => Known(memb, e, p)
    BY <1>1, <1>5 DEF MembServed
  <2>0. seed <= memb.earliest
    BY <1>0 DEF CacheInv, MembServed
  <2>1. ASSUME NEW p \in Positions, NEW e \in Entities, sentTop < p, p <= position', Names(p, e)
        PROVE  Known(memb, e, p)
    <3>1. CASE p <= position
      BY <1>0, <2>1, <3>1 DEF CacheInv, MembServed
    <3>2. CASE p <= a /\ HandRows
      BY <1>0, <1>1, <1>8, <1>10, <1>12, <2>1, <3>2 DEF CacheInv, MembComplete
    <3>3. CASE p <= a /\ a <= memb.earliest
      BY <1>0, <1>13, <3>3, KnownBelowHorizon
    <3>. QED
      BY <1>4, <1>9, <2>1, <3>1, <3>2, <3>3
  <2>. QED
    BY <2>0, <2>1
<1>17. OwnAhead'
  <2>. SUFFICES ASSUME NEW r \in Positions, seed < r, r <= position', Late(r)'
                PROVE  r <= own.earliest
    BY <1>1 DEF OwnAhead
  <2>1. CASE r <= position
    BY <1>0, <1>6, <2>1 DEF CacheInv, OwnAhead
  <2>2. CASE r <= a /\ HandRows
    BY <1>12, <2>2
  <2>3. CASE r <= a /\ a <= own.earliest
    BY <1>0, <1>13, <2>3
  <2>. QED
    BY <1>4, <1>9, <2>1, <2>2, <2>3
<1>18. MembAhead'
  <2>. SUFFICES ASSUME ~Deaf(memb), NEW r \in Positions, sentTop < r, r <= position', Late(r)'
                PROVE  r <= memb.earliest
    BY <1>1 DEF MembAhead
  <2>1. CASE r <= position
    BY <1>0, <1>6, <2>1 DEF CacheInv, MembAhead
  <2>2. CASE r <= a /\ HandRows
    BY <1>12, <2>2
  <2>3. CASE r <= a /\ a <= memb.earliest
    BY <1>0, <1>13, <2>3
  <2>. QED
    BY <1>4, <1>9, <2>1, <2>2, <2>3
<1>19. Delivered'
  <2>1. \A p \in applied : /\ p \in Positions /\ tx[p].state = "sent"
                           /\ \A n \in DOMAIN queue : p <= queue[n].pos
                           /\ ~Deaf(own) => \A e \in Entities : Names(p, e) => Known(own, e, p)
    BY <1>0 DEF CacheInv, Delivered, TypeOK
  <2>. QED
    BY <1>1, <1>3, <1>5, <2>1 DEF Delivered
<1>20. SessionFits'
  <2>1. ~live => own.disarmed /\ memb.disarmed
    BY <1>0, <1>1 DEF CacheInv, SessionFits
  <2>2. phase' = "reading" => live
    BY <1>1
  <2>3. phase' \in {"reading", "aborted"} /\ (phase' = "aborted" => ~live)
    BY <1>1
  <2>. QED
    BY <1>1, <1>3, <2>1, <2>2, <2>3 DEF SessionFits
<1>. QED
  BY <1>7, <1>11, <1>14, <1>15, <1>16, <1>17, <1>18, <1>19, <1>20 DEF Inv, CacheInv

---------------------------------------------------------------------------
(* The invariant holds, and what it says to a reader.                      *)

LEMMA NextKeeps == ASSUME OneWriter PROVE Inv /\ [Next]_vars => Inv'
<1>. SUFFICES ASSUME Inv, [Next]_vars PROVE Inv'
  OBVIOUS
<1>0. Shape'
  BY NextTyped DEF Inv
<1>1. CASE \E w \in Writers, rows \in Transactions : Begin(w, rows)
  <2>1. PICK w \in Writers, rows \in Transactions : Begin(w, rows)
    BY <1>1
  <2>2. Grown /\ WritersInOrder' /\ queue' = queue
    BY <2>1, BeginGrows
  <2>3. QueueShape'
    BY <2>2 DEF Inv, FeedInv, QueueShape
  <2>. QED
    BY <1>0, <2>1, <2>2, <2>3, WriterKeeps DEF Begin
<1>2. CASE \E p \in Positions : Commit(p)
  <2>1. PICK p \in Positions : Commit(p)
    BY <1>2
  <2>2. Grown /\ WritersInOrder' /\ queue' = queue
    BY <2>1, CommitGrows
  <2>3. QueueShape'
    BY <2>2 DEF Inv, FeedInv, QueueShape
  <2>. QED
    BY <1>0, <2>1, <2>2, <2>3, WriterKeeps DEF Commit
<1>3. CASE \E p \in Positions : Publish(p)
  <2>1. PICK p \in Positions : Publish(p)
    BY <1>3
  <2>. QED
    BY <1>0, <2>1, PublishGrows, WriterKeeps DEF Publish
<1>4. CASE \E w \in Writers : Announce(w)
  <2>1. PICK w \in Writers : Announce(w)
    BY <1>4
  <2>. QED
    BY <1>0, <2>1, AnnounceGrows, WriterKeeps DEF Announce
<1>5. CASE \E w \in Writers : Lose(w)
  BY <1>0, <1>5, LoseKeeps
<1>6. CASE \E w \in Writers : HandleBatch(w) \/ Overflow(w)
  BY <1>0, <1>6, HandleBatchKeeps, OverflowKeeps
<1>7. CASE \E w \in Writers : HandleRDATA(w) \/ HandlePosition(w)
  BY <1>0, <1>7, HandleRDATAKeeps, HandlePositionKeeps
<1>8. CASE Seed \/ Connect \/ ScanAndArm
  BY <1>0, <1>8, SeedKeeps, ConnectKeeps, ScanAndArmKeeps
<1>9. CASE StartPrefill \/ EndPrefill \/ \E r \in fill.entries : PrefillEntry(r)
  BY <1>0, <1>9, PrefillKeeps
<1>10. CASE ArmMembership \/ PrefillFails
  BY <1>0, <1>10, ArmMembershipKeeps, PrefillFailsKeeps
<1>11. CASE LoseConnection \/ OnDrop \/ EndSession
  BY <1>0, <1>11, LoseConnectionKeeps, OnDropKeeps, EndSessionKeeps
<1>12. CASE InvalidateRow \/ RecordRow \/ Advance
  BY <1>0, <1>12, InvalidateRowKeeps, RecordRowKeeps, AdvanceKeeps
<1>13. CASE UNCHANGED vars
  <2>1. Grown
    BY <1>13 DEF vars, writerVars, Grown, queue
  <2>2. WritersInOrder' /\ QueueShape'
    BY <1>13, StillFacts DEF vars, writerVars
  <2>. QED
    BY <1>0, <1>13, <2>1, <2>2, WriterKeeps DEF vars
<1>. QED
  BY <1>1, <1>2, <1>3, <1>4, <1>5, <1>6, <1>7, <1>8, <1>9, <1>10, <1>11, <1>12, <1>13 DEF Next

\* On a stream of one writer the invariant holds of every state: every committed
\* row is known to the cache or on its way to it, and what the position covers
\* stays known through resets, drops and announcements.
THEOREM Invariance == ASSUME OneWriter PROVE Spec => []Inv
<1>1. Init => Inv
  BY InitInv
<1>2. Inv /\ [Next]_vars => Inv'
  BY NextKeeps
<1>. QED
  BY <1>1, <1>2, PTL DEF Spec

\* What a cache knows it does not deny, and a deaf cache denies nothing.
LEMMA KnownAnswers ==
  ASSUME NEW c \in Caches, NEW e \in Entities, NEW p \in Pos, NEW since \in Nat, since < p,
         Deaf(c) \/ Known(c, e, p)
  PROVE  e \in EntitiesChanged(c, since) /\ HasEntityChanged(c, e, since)
<1>1. c.earliest \in Nat /\ c.entityPos[e] \in Nat /\ p \in Nat
  BY PositionTypes DEF Caches
<1>2. CASE Deaf(c)
  BY <1>2 DEF Deaf, EntitiesChanged, HasEntityChanged
<1>3. CASE ~Deaf(c) /\ Known(c, e, p)
  <2>1. since < c.earliest \/ since < c.entityPos[e]
    BY <1>1, <1>3 DEF Known
  <2>. QED
    BY <1>1, <2>1 DEF EntitiesChanged, HasEntityChanged
<1>. QED
  BY <1>2, <1>3

\* A token minted from replication never steps over a transaction that has yet
\* to commit (currentToken, tokens.go:28-58), whatever the writer announces and
\* however often the connection is lost.
THEOREM TokenStepsOverNothing == ASSUME OneWriter PROVE Spec => []TokenCoversCommitted
<1>1. Inv => TokenCoversCommitted
  BY DEF Inv, CacheInv, PositionFits, TokenCoversCommitted, NowToken
<1>2. Spec => []Inv
  BY Invariance
<1>. QED
  BY <1>1, <1>2, PTL

\* A window that ends at replication's position, or ended at an earlier one,
\* leaves no changed entity out (RoomsWithEventsSince, streamgates.go).
THEOREM NoChangedEntityIsLeftOut == ASSUME OneWriter PROVE Spec => []ReplicatedWindowSound
<1>1. Inv => ReplicatedWindowSound
  <2>. SUFFICES ASSUME Inv, phase # "prefilling", NEW p \in Positions, NEW since \in Pos, NEW e \in Entities,
                       seed < p, p <= position, since < p, Names(p, e)
                PROVE  e \in EntitiesChanged(own, since)
    BY DEF ReplicatedWindowSound
  <2>1. own \in Caches /\ p \in Pos /\ since \in Nat
    BY PositionTypes DEF Inv, Shape, TypeOK
  <2>2. Deaf(own) \/ Known(own, e, p) \/ FillLeft(p, e)
    BY DEF Inv, CacheInv, OwnServed
  <2>3. CASE Deaf(own) \/ Known(own, e, p)
    BY <2>1, <2>3, KnownAnswers
  <2>4. CASE FillLeft(p, e)
    <3>1. positions(own) = {}
      BY <2>4 DEF FillLeft, Inv, CacheInv, SessionFits
    <3>. QED
      BY <3>1 DEF EntitiesChanged
  <2>. QED
    BY <2>2, <2>3, <2>4
<1>2. Spec => []Inv
  BY Invariance
<1>. QED
  BY <1>1, <1>2, PTL

\* No row the connection delivered is ever denied: "a false negative is a lost
\* event" (streamcache.go:7).
THEOREM NoDeliveredRowIsDenied == ASSUME OneWriter PROVE Spec => []DeliveredNeverDenied
<1>1. Inv => DeliveredNeverDenied
  <2>. SUFFICES ASSUME Inv, NEW p \in applied, NEW e \in Entities, NEW since \in Pos,
                       since < p, Names(p, e)
                PROVE  e \in EntitiesChanged(own, since)
    BY DEF DeliveredNeverDenied
  <2>1. own \in Caches /\ p \in Positions /\ p \in Pos /\ since \in Nat
    BY PositionTypes DEF Inv, Shape, TypeOK
  <2>2. Deaf(own) \/ Known(own, e, p)
    BY DEF Inv, CacheInv, Delivered
  <2>. QED
    BY <2>1, <2>2, KnownAnswers
<1>2. Spec => []Inv
  BY Invariance
<1>. QED
  BY <1>1, <1>2, PTL

\* The membership gate, armed empty at the positions given to onConnect, denies
\* no change published since the connection was made (streamgates.go:201-204).
THEOREM NoNewMembershipIsDenied == ASSUME OneWriter PROVE Spec => []MembershipSoundSinceConnect
<1>1. Inv => MembershipSoundSinceConnect
  <2>. SUFFICES ASSUME Inv, NEW since \in sentTop .. position, NEW e \in Entities,
                       ChangedIn(e, since, position)
                PROVE  HasEntityChanged(memb, e, since)
    BY DEF MembershipSoundSinceConnect
  <2>1. PICK p \in since + 1 .. position : p \in Positions /\ Names(p, e)
    BY DEF ChangedIn
  <2>2. /\ memb \in Caches /\ p \in Pos /\ position \in Nat /\ sentTop \in Nat
        /\ since \in Nat /\ p \in Nat
    BY <2>1, Numbers, PositionTypes DEF Inv, Shape, TypeOK
  <2>3. since < p /\ sentTop < p /\ p <= position
    BY <2>1, <2>2
  <2>4. Deaf(memb) \/ Known(memb, e, p)
    BY <2>1, <2>3 DEF Inv, CacheInv, MembServed
  <2>. QED
    BY <2>2, <2>3, <2>4, KnownAnswers
<1>2. Spec => []Inv
  BY Invariance
<1>. QED
  BY <1>1, <1>2, PTL

=============================================================================
