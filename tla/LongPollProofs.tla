--------------------------- MODULE LongPollProofs ---------------------------
(***************************************************************************)
(* The long poll against the replication stream, for every set of rooms,   *)
(* every mix of events and every chunk limit: a parked client has missed   *)
(* no wake-up, a response accounts for all that its token covers, and the  *)
(* client's token never falls.                                             *)
(***************************************************************************)
EXTENDS LongPoll, OrderLemmas, SequenceTheorems

\* The stages that come with a waiter in the notifier.
Registered == stage \in {"registered", "waiting"} \/ (stage = "answered" /\ poll.waits)

\* Which requests get to which stage: only one that waits is listed before its
\* token is taken, and of the requests without a token only /events'.
StageFits ==
  /\ stage \in {"start", "listed", "registered", "waiting"} =>
       poll.waits /\ (api = "sync" => since # None)
  /\ stage \in {"unlisted", "bounded"} /\ api = "sync" => ~poll.waits
  /\ poll.waits /\ api = "sync" => since # None
  /\ stage = "start" => api = "sync"

\* The window of a pass starts at the client's token, and for /events without
\* one where the request found the stream.
FromFits ==
  /\ stage # "idle" /\ since # None => poll.from = since
  /\ api = "events" /\ stage \notin {"idle", "start", "unlisted"} =>
       poll.from # None /\ (since = None => poll.from <= position)

\* The token of a pass is not behind the client's.
NowFits ==
  stage \in {"bounded", "answered", "waiting", "returning"} =>
    /\ since # None => poll.now >= since
    /\ api = "events" => poll.now >= poll.from

\* The stages that come with an answer.
HasAnswer == stage \in {"answered", "waiting", "returning"}

AnswerFits ==
  HasAnswer =>
    IF api = "events"
    THEN /\ poll.events = ChunkOf(poll.rooms, poll.from, poll.now)
         /\ poll.end = IF poll.events = {} THEN poll.now ELSE Max(poll.events)
    ELSE poll.end = poll.now /\ (ListMatchesToken => SyncComplete)

\* A registered waiter declares the rooms of the list.
WaiterFits == Registered => waiter.open /\ waiter.rooms = {r \in Rooms : poll.rooms[r] # "none"}

\* What the notifier was given since the token was taken woke the waiter, or is
\* none of its business; a parked poll had nothing to say.
WakeFits ==
  /\ stage = "waiting" => isEmpty
  /\ stage \in {"answered", "waiting"} /\ poll.waits /\ ~waiter.done =>
       \A p \in poll.now + 1 .. Notified : ~interested(waiter, log[p])

\* The inductive invariant.
Inv == TypeOK /\ StageFits /\ FromFits /\ NowFits /\ AnswerFits /\ WaiterFits /\ WakeFits

---------------------------------------------------------------------------
(* The log and what is read from it.                                       *)

\* A pass reads positions of the log only.
LEMMA ReadsTheLog ==
  ASSUME TypeOK, NEW r, NEW a \in Nat, NEW b \in 0 .. Len(log)
  PROVE  /\ Len(log) \in Nat
         /\ \A p \in 1 .. Len(log) : log[p] \in Events
         /\ \A p : p \in Changes(r, a, b) <=> p \in a + 1 .. b /\ log[p].room = r /\ OwnMembership(log[p])
         /\ \A p : p \in Window(r, a, b) <=> p \in a + 1 .. b /\ log[p].room = r /\ log[p].kind # "rejected"
         /\ Changes(r, a, b) \in SUBSET Window(r, a, b)
         /\ Window(r, a, b) \in SUBSET (a + 1 .. b)
         /\ a + 1 .. b \in SUBSET (1 .. Len(log))
         /\ a + 1 .. b \in SUBSET (0 .. Len(log))
<1>1. Len(log) \in Nat /\ \A p \in 1 .. Len(log) : log[p] \in Events
  BY DEF TypeOK
<1>2. Changes(r, a, b) \in SUBSET Window(r, a, b)
  BY DEF Changes, Window, OwnMembership
<1>. QED
  BY <1>1, <1>2 DEF Changes, Window

\* The last of a user's membership events in a window that has one.
LEMMA LastOfChanges ==
  ASSUME TypeOK, NEW r, NEW a \in Nat, NEW b \in 0 .. Len(log), Changes(r, a, b) # {}
  PROVE  /\ Max(Changes(r, a, b)) \in Changes(r, a, b)
         /\ \A p \in Changes(r, a, b) : p <= Max(Changes(r, a, b))
<1>1. Changes(r, a, b) \in SUBSET (0 .. Len(log)) /\ Len(log) \in Nat
  BY ReadsTheLog
<1>. QED
  BY <1>1, MaxIsHighest

\* The membership after a window is that of the last membership event in it, ...
LEMMA MembershipMoves ==
  ASSUME TypeOK, NEW r, NEW b \in 0 .. Len(log), NEW a \in 0 .. b, Changes(r, a, b) # {}
  PROVE  /\ MembershipAtPosition(r, b) = log[Max(Changes(r, a, b))].kind
         /\ MembershipAtPosition(r, b) \in {"join", "invite", "knock", "leave"}
<1>. DEFINE C == Changes(r, a, b)
            D == Changes(r, 0, b)
<1>0. a \in Nat /\ b \in Nat /\ Len(log) \in Nat /\ 0 \in Nat
  BY ReadsTheLog
<1>1. \A p : p \in C <=> p \in D /\ p > a
  <2>1. \A p : p \in a + 1 .. b <=> p \in 0 + 1 .. b /\ p > a
    BY <1>0
  <2>2. \A p : p \in C <=> p \in a + 1 .. b /\ log[p].room = r /\ OwnMembership(log[p])
    BY <1>0, ReadsTheLog
  <2>3. \A p : p \in D <=> p \in 0 + 1 .. b /\ log[p].room = r /\ OwnMembership(log[p])
    BY <1>0, ReadsTheLog
  <2>. HIDE DEF C, D
  <2>. QED
    BY <2>1, <2>2, <2>3
<1>2. Max(C) \in C /\ \A p \in C : p <= Max(C)
  BY <1>0, LastOfChanges
<1>3. D # {}
  BY <1>1, <1>2
<1>4. Max(D) \in D /\ \A p \in D : p <= Max(D)
  BY <1>0, <1>3, LastOfChanges
<1>5. \A p \in D : p \in 1 .. Len(log) /\ OwnMembership(log[p]) /\ p \in Nat
  <2>1. \A p : p \in D <=> p \in 0 + 1 .. b /\ log[p].room = r /\ OwnMembership(log[p])
    BY <1>0, ReadsTheLog
  <2>2. \A p \in 0 + 1 .. b : p \in 1 .. Len(log) /\ p \in Nat
    BY <1>0
  <2>. QED
    BY <2>1, <2>2
<1>. HIDE DEF C, D
<1>6. Max(C) = Max(D)
  <2>1. Max(C) \in D /\ Max(C) > a /\ Max(C) \in Nat /\ Max(D) \in Nat
    BY <1>1, <1>2, <1>4, <1>5
  <2>2. Max(C) <= Max(D)
    BY <2>1, <1>4
  <2>3. Max(D) > a
    BY <2>1, <2>2, <1>0
  <2>4. Max(D) \in C
    BY <2>3, <1>1, <1>4
  <2>. QED
    BY <2>1, <2>2, <2>4, <1>2
<1>7. log[Max(D)] \in Events /\ OwnMembership(log[Max(D)])
  BY <1>4, <1>5, ReadsTheLog, <1>0
<1>8. log[Max(D)].kind \in {"join", "invite", "knock", "leave"}
  BY <1>7, KindsAssumption DEF Events, OwnMembership
<1>. QED
  BY <1>6, <1>8, <1>3 DEF MembershipAtPosition, C, D

\* ... and the membership before it where there is none.
LEMMA MembershipStays ==
  ASSUME TypeOK, NEW r, NEW b \in 0 .. Len(log), NEW a \in 0 .. b, Changes(r, a, b) = {}
  PROVE  MembershipAtPosition(r, a) = MembershipAtPosition(r, b)
<1>0. a \in Nat /\ b \in Nat /\ Len(log) \in Nat /\ 0 \in Nat /\ a \in 0 .. Len(log)
  BY ReadsTheLog
<1>1. \A p : p \in Changes(r, 0, a) <=> p \in Changes(r, 0, b)
  <2>1. \A p : p \in 0 + 1 .. b <=> p \in 0 + 1 .. a \/ p \in a + 1 .. b
    BY <1>0
  <2>2. \A p : p \in Changes(r, 0, a) <=> p \in 0 + 1 .. a /\ log[p].room = r /\ OwnMembership(log[p])
    BY <1>0, ReadsTheLog
  <2>3. \A p : p \in Changes(r, 0, b) <=> p \in 0 + 1 .. b /\ log[p].room = r /\ OwnMembership(log[p])
    BY <1>0, ReadsTheLog
  <2>4. \A p : ~(p \in a + 1 .. b /\ log[p].room = r /\ OwnMembership(log[p]))
    BY <1>0, ReadsTheLog
  <2>. QED
    BY <2>1, <2>2, <2>3, <2>4
<1>2. Changes(r, 0, a) = Changes(r, 0, b)
  BY <1>1
<1>. QED
  BY <1>2 DEF MembershipAtPosition

\* A membership is a section.
LEMMA MembershipType ==
  ASSUME TypeOK, NEW r, NEW b \in 0 .. Len(log)
  PROVE  MembershipAtPosition(r, b) \in Sections
<1>0. Len(log) \in Nat /\ 0 \in 0 .. b
  BY ReadsTheLog
<1>1. CASE Changes(r, 0, b) = {}
  BY <1>1 DEF MembershipAtPosition, Sections
<1>2. CASE Changes(r, 0, b) # {}
  BY <1>0, <1>2, MembershipMoves DEF Sections
<1>. QED
  BY <1>1, <1>2

\* So is an entry of the list of rooms, which says of a room what the request asked
\* for and nothing else.
LEMMA RoomsType ==
  ASSUME TypeOK, NEW b \in 0 .. Len(log)
  PROVE  /\ RoomsAsOf(b) \in [Rooms -> Sections]
         /\ \A r \in Rooms : RoomsAsOf(b)[r] =
              IF MembershipAtPosition(r, b) \in Listed THEN MembershipAtPosition(r, b) ELSE "none"
<1>1. \A r \in Rooms : MembershipAtPosition(r, b) \in Sections
  BY MembershipType
<1>. QED
  BY <1>1 DEF RoomsAsOf, Sections

\* A joined room is on every list.
LEMMA JoinedIsListed ==
  ASSUME TypeOK, NEW r \in Rooms, NEW b \in 0 .. Len(log)
  PROVE  RoomsAsOf(b)[r] = "join" <=> MembershipAtPosition(r, b) = "join"
<1>1. "join" \in Listed
  BY DEF Listed
<1>. QED
  BY <1>1, RoomsType

---------------------------------------------------------------------------
(* The answer of a pass of /sync.                                          *)

\* lastChange is the membership at the token where the window has a change.
LEMMA LastChangeIs ==
  ASSUME TypeOK, NEW r, NEW now \in 0 .. Len(log), NEW from \in 0 .. now
  PROVE  /\ Changes(r, from, now) = {} => lastChange(r, from, now) = "none"
         /\ Changes(r, from, now) # {} => lastChange(r, from, now) = MembershipAtPosition(r, now)
         /\ lastChange(r, from, now) \in Sections
<1>1. CASE Changes(r, from, now) = {}
  BY <1>1 DEF lastChange, Sections
<1>2. CASE Changes(r, from, now) # {}
  BY <1>2, MembershipMoves DEF lastChange, Sections
<1>. QED
  BY <1>1, <1>2

\* The events of an answer are those of a timeline or of a departed room.
LEMMA InEventsOf ==
  ASSUME NEW rooms, NEW from, NEW now, NEW p
  PROVE  p \in EventsOf(rooms, from, now) <=>
           \E r \in Rooms : \/ p \in Timeline(rooms, r, from, now)
                            \/ /\ archived(rooms, r, from, now)
                               /\ p \in Window(r, from, Max(Changes(r, from, now)))
<1>. DEFINE T == UNION {Timeline(rooms, r, from, now) : r \in Rooms}
            A == UNION {Window(r, from, Max(Changes(r, from, now)))
                          : r \in {q \in Rooms : archived(rooms, q, from, now)}}
<1>1. p \in T <=> \E r \in Rooms : p \in Timeline(rooms, r, from, now)
  OBVIOUS
<1>2. p \in A <=> \E r \in Rooms : /\ archived(rooms, r, from, now)
                                   /\ p \in Window(r, from, Max(Changes(r, from, now)))
  OBVIOUS
<1>3. EventsOf(rooms, from, now) = T \cup A
  BY Zenon DEF EventsOf
<1>. HIDE DEF T, A
<1>. QED
  BY <1>1, <1>2, <1>3

\* What incrementalSync answers is of the types the response has.
LEMMA AnswerType ==
  ASSUME TypeOK, NEW rooms, NEW now \in 0 .. Len(log), NEW from \in 0 .. now
  PROVE  /\ SectionsOf(rooms, from, now) \in SUBSET (Rooms \X Sections)
         /\ EventsOf(rooms, from, now) \in SUBSET (1 .. Len(log))
<1>0. from \in Nat /\ now \in Nat /\ Len(log) \in Nat
  BY ReadsTheLog
<1>1. SectionsOf(rooms, from, now) \in SUBSET (Rooms \X Sections)
  <2>1. \A r \in Rooms : lastChange(r, from, now) \in Sections
    BY LastChangeIs
  <2>. QED
    BY <2>1 DEF SectionsOf, Sections
<1>2. ASSUME NEW r \in Rooms
      PROVE  Timeline(rooms, r, from, now) \in SUBSET (1 .. Len(log))
  <2>1. Window(r, from, now) \in SUBSET (1 .. Len(log))
    BY <1>0, ReadsTheLog
  <2>. QED
    BY <2>1 DEF Timeline
<1>3. ASSUME NEW r \in Rooms, archived(rooms, r, from, now)
      PROVE  Window(r, from, Max(Changes(r, from, now))) \in SUBSET (1 .. Len(log))
  <2>1. Changes(r, from, now) # {}
    BY <1>3, LastChangeIs DEF archived
  <2>2. Max(Changes(r, from, now)) \in from + 1 .. now
    BY <2>1, <1>0, LastOfChanges, ReadsTheLog
  <2>. DEFINE b == Max(Changes(r, from, now))
  <2>3. b \in 0 .. Len(log)
    BY <2>2, <1>0
  <2>. HIDE DEF b
  <2>4. Window(r, from, b) \in SUBSET (from + 1 .. b) /\ from + 1 .. b \in SUBSET (1 .. Len(log))
    BY <2>3, <1>0, ReadsTheLog
  <2>5. Window(r, from, b) \in SUBSET (1 .. Len(log))
    BY <2>4
  <2>. QED
    BY <2>5 DEF b
<1>4. ASSUME NEW p \in EventsOf(rooms, from, now)
      PROVE  p \in 1 .. Len(log)
  <2>1. PICK r \in Rooms : \/ p \in Timeline(rooms, r, from, now)
                           \/ /\ archived(rooms, r, from, now)
                              /\ p \in Window(r, from, Max(Changes(r, from, now)))
    BY InEventsOf
  <2>. QED
    BY <2>1, <1>2, <1>3
<1>. QED
  BY <1>1, <1>4

\* The sections, events and newly joined rooms of a pass account for everything in
\* its window, where the list of rooms has as joined what is joined at the token.
LEMMA AnswerAccounts ==
  ASSUME TypeOK, NEW rooms, NEW now \in 0 .. Len(log), NEW from \in 0 .. now, NEW r \in Rooms,
         rooms[r] = "join" <=> MembershipAtPosition(r, now) = "join"
  PROVE  LET m == MembershipAtPosition(r, now)
         IN /\ Changes(r, from, now) # {} => <<r, m>> \in SectionsOf(rooms, from, now)
            /\ m = "join" \/ m = "leave" =>
                 \A p \in Window(r, from, now) :
                   MembershipAtPosition(r, p) = "join" => p \in EventsOf(rooms, from, now)
            /\ m = "join" /\ (\E p \in from .. now : MembershipAtPosition(r, p) # "join") =>
                 newlyJoined(rooms, r, from, now)
<1>. DEFINE m == MembershipAtPosition(r, now)
            C == Changes(r, from, now)
<1>0. from \in Nat /\ now \in Nat /\ Len(log) \in Nat
  BY ReadsTheLog
<1>1. \A p : p \in C <=> p \in from + 1 .. now /\ log[p].room = r /\ OwnMembership(log[p])
  BY <1>0, ReadsTheLog
<1>2. C # {} => /\ Max(C) \in C
                /\ \A p \in C : p <= Max(C)
                /\ lastChange(r, from, now) = m
                /\ m = log[Max(C)].kind
                /\ m \in {"join", "invite", "knock", "leave"}
  BY <1>0, LastOfChanges, LastChangeIs, MembershipMoves
<1>3. \A p \in from .. now : p \in 0 .. Len(log) /\ p \in 0 .. now /\ p \in Nat
  BY <1>0
<1>4. C # {} /\ m = "leave" => archived(rooms, r, from, now)
  BY <1>2 DEF archived, Timeline
<1>5. C # {} /\ m = "join" => Timeline(rooms, r, from, now) # {}
  <2>1. C \in SUBSET Window(r, from, now)
    BY <1>0, ReadsTheLog
  <2>. QED
    BY <2>1 DEF Timeline
<1>6. C # {} => <<r, m>> \in SectionsOf(rooms, from, now)
  BY <1>2, <1>4, <1>5 DEF SectionsOf
<1>7. ASSUME NEW p \in from .. now, MembershipAtPosition(r, p) # m
      PROVE  Changes(r, p, now) # {} /\ C # {} /\ p < Max(C)
  <2>1. Changes(r, p, now) # {}
    BY <1>7, <1>3, MembershipStays
  <2>2. PICK q \in Changes(r, p, now) : TRUE
    BY <2>1
  <2>3. q \in p + 1 .. now /\ log[q].room = r /\ OwnMembership(log[q])
    BY <2>2, <1>3, <1>0, ReadsTheLog
  <2>4. q \in from + 1 .. now /\ q > p
    BY <2>3, <1>3, <1>0
  <2>5. q \in C
    BY <2>3, <2>4, <1>1
  <2>6. Max(C) \in Nat /\ q <= Max(C)
    BY <2>5, <1>2, <1>1, <1>0
  <2>. QED
    BY <2>1, <2>4, <2>5, <2>6, <1>3, <1>0
<1>8. ASSUME m = "join", NEW p \in Window(r, from, now)
      PROVE  p \in EventsOf(rooms, from, now)
  BY <1>8 DEF EventsOf, Timeline
<1>9. ASSUME m = "leave", NEW p \in Window(r, from, now), MembershipAtPosition(r, p) = "join"
      PROVE  p \in EventsOf(rooms, from, now)
  <2>1. p \in from + 1 .. now /\ log[p].room = r /\ log[p].kind # "rejected"
    BY DEF Window
  <2>2. p \in from .. now
    BY <2>1, <1>0
  <2>3. C # {} /\ p < Max(C)
    BY <1>7, <1>9, <2>2
  <2>4. archived(rooms, r, from, now)
    BY <2>3, <1>4, <1>9
  <2>5. Max(C) \in Nat
    BY <2>3, <1>2, <1>1, <1>0
  <2>6. p \in from + 1 .. Max(C)
    BY <2>1, <2>3, <2>5, <1>0
  <2>7. p \in Window(r, from, Max(C))
    BY <2>1, <2>6 DEF Window
  <2>. QED
    BY <2>4, <2>7, InEventsOf
<1>10. ASSUME m = "join", NEW p \in from .. now, MembershipAtPosition(r, p) # "join"
       PROVE  newlyJoined(rooms, r, from, now)
  <2>1. C # {}
    BY <1>7, <1>10
  <2>2. CASE MembershipAtPosition(r, from) # "join"
    BY <2>1, <2>2, <1>10 DEF newlyJoined
  <2>3. CASE MembershipAtPosition(r, from) = "join"
    <3>. DEFINE B == Changes(r, from, p)
    <3>1. p \in 0 .. Len(log) /\ from \in 0 .. p /\ p \in Nat
      BY <1>3, <1>0
    <3>2. B # {}
      BY <3>1, <2>3, <1>10, MembershipStays
    <3>3. MembershipAtPosition(r, p) = log[Max(B)].kind /\ Max(B) \in B
      BY <3>1, <3>2, <1>0, MembershipMoves, LastOfChanges
    <3>4. Max(B) \in from + 1 .. p /\ log[Max(B)].room = r /\ OwnMembership(log[Max(B)])
      BY <3>1, <3>3, <1>0, ReadsTheLog
    <3>. HIDE DEF B
    <3>5. Max(B) \in C
      BY <3>1, <3>4, <1>0, <1>1
    <3>. QED
      BY <2>1, <3>3, <3>5, <1>10 DEF newlyJoined
  <2>. QED
    BY <2>2, <2>3
<1>. QED
  BY <1>6, <1>8, <1>9, <1>10

\* What a complete response says of one room: its section, its events, its state.
SinceOrStart == IF since = None THEN 0 ELSE since

SectionTold(r) ==
  LET m == MembershipAtPosition(r, poll.now)
  IN Changes(r, SinceOrStart, poll.now) # {} =>
       <<r, m>> \in poll.sections \/ (since = None /\ m = "leave")

EventsTold(r) ==
  LET m == MembershipAtPosition(r, poll.now)
  IN m = "join" \/ (m = "leave" /\ since # None) =>
       \A p \in Window(r, SinceOrStart, poll.now) :
         MembershipAtPosition(r, p) = "join" => p \in poll.events

StateTold(r) ==
  MembershipAtPosition(r, poll.now) = "join"
    /\ (\E p \in SinceOrStart .. poll.now : MembershipAtPosition(r, p) # "join")
  => r \in poll.full

LEMMA CompleteParts ==
  /\ SyncComplete <=> \A r \in Rooms : SectionTold(r) /\ EventsTold(r) /\ StateTold(r)
  /\ SyncComplete' <=> \A r \in Rooms : SectionTold(r)' /\ EventsTold(r)' /\ StateTold(r)'
BY DEF SyncComplete, SectionTold, EventsTold, StateTold, SinceOrStart

---------------------------------------------------------------------------
(* A chunk of /events.                                                     *)

\* What the two queries of a chunk return together, before the cut.
Found(rooms, from, to) ==
  (UNION {RoomEventsForward(rooms, r, from, to) : r \in Rooms}) \cup MembershipEventsForUser(from, to)

LEMMA InFound ==
  ASSUME NEW rooms, NEW from, NEW to, NEW p
  PROVE  p \in Found(rooms, from, to) <=>
           \E r \in Rooms : p \in RoomEventsForward(rooms, r, from, to) \/ p \in Changes(r, from, to)
BY DEF Found, MembershipEventsForUser

\* The cut keeps a prefix of what it is given, and nothing only of nothing.
LEMMA OldestCuts ==
  ASSUME TypeOK, NEW S \in SUBSET (0 .. Len(log))
  PROVE  /\ Oldest(S) \in SUBSET S
         /\ Limit # 0 =>
              /\ IF Cardinality(Oldest(S)) = Limit
                 THEN Oldest(S) # {} /\ Oldest(S) = {m \in S : m <= Max(Oldest(S))}
                 ELSE Oldest(S) = S
              /\ \A m \in Oldest(S), o \in S : o <= m => o \in Oldest(S)
              /\ \A m \in Oldest(S) : Cardinality({o \in S : o <= m}) <= Limit
<1>1. Len(log) \in Nat /\ Oldest(S) \in SUBSET S /\ Limit \in Nat
  BY BoundsAssumption, ReadsTheLog DEF Oldest
<1>2. \A m \in S : m \in Oldest(S) <=> Cardinality({o \in S : o <= m}) <= Limit
  BY DEF Oldest
<1>3. ASSUME Limit # 0
      PROVE  /\ IF Cardinality(Oldest(S)) = Limit
                THEN Oldest(S) # {} /\ Oldest(S) = {m \in S : m <= Max(Oldest(S))}
                ELSE Oldest(S) = S
             /\ \A m \in Oldest(S), o \in S : o <= m => o \in Oldest(S)
  <2>1. Limit \in Nat \ {0}
    BY <1>1, <1>3
  <2>. DEFINE P == Oldest(S)
  <2>2. P \in SUBSET S /\ \A m \in S : m \in P <=> Cardinality({o \in S : o <= m}) <= Limit
    BY <1>1, <1>2
  <2>. HIDE DEF P
  <2>3. /\ IF Cardinality(P) = Limit
           THEN P # {} /\ P = {m \in S : m <= Max(P)}
           ELSE P = S
        /\ \A m \in P, o \in S : o <= m => o \in P
    BY <1>1, <2>1, <2>2, OldestAreAPrefix
  <2>. QED
    BY <2>3 DEF P
<1>. QED
  BY <1>1, <1>2, <1>3

\* What is found lies in the window.
LEMMA FoundType ==
  ASSUME TypeOK, NEW rooms, NEW from \in Nat, NEW to \in 0 .. Len(log)
  PROVE  /\ Found(rooms, from, to) \in SUBSET (from + 1 .. to)
         /\ Found(rooms, from, to) \in SUBSET (0 .. Len(log))
         /\ Found(rooms, from, to) \in SUBSET (1 .. Len(log))
<1>1. ASSUME NEW r
      PROVE  /\ Changes(r, from, to) \in SUBSET (from + 1 .. to)
             /\ RoomEventsForward(rooms, r, from, to) \in SUBSET (from + 1 .. to)
  BY DEF Changes, RoomEventsForward, Window
<1>2. \A p \in Found(rooms, from, to) : p \in from + 1 .. to
  BY <1>1, InFound
<1>3. from + 1 .. to \in SUBSET (1 .. Len(log)) /\ from + 1 .. to \in SUBSET (0 .. Len(log))
  BY ReadsTheLog
<1>. QED
  BY <1>2, <1>3

\* A chunk is a part of what was found, and empty only where nothing was.
LEMMA ChunkCuts ==
  ASSUME TypeOK, NEW rooms, NEW from \in Nat, NEW to \in 0 .. Len(log)
  PROVE  /\ ChunkOf(rooms, from, to) = IF Limit = 0 THEN Found(rooms, from, to) ELSE Oldest(Found(rooms, from, to))
         /\ ChunkOf(rooms, from, to) \in SUBSET Found(rooms, from, to)
         /\ ChunkOf(rooms, from, to) = {} <=> Found(rooms, from, to) = {}
<1>. DEFINE F == Found(rooms, from, to)
<1>1. ChunkOf(rooms, from, to) = IF Limit = 0 THEN F ELSE Oldest(F)
  BY DEF ChunkOf, Found
<1>2. F \in SUBSET (0 .. Len(log))
  BY FoundType
<1>. HIDE DEF F
<1>3. Oldest(F) \in SUBSET F
  BY <1>2, OldestCuts
<1>4. Limit # 0 /\ Oldest(F) = {} => F = {}
  BY <1>2, OldestCuts
<1>. QED
  BY <1>1, <1>3, <1>4 DEF F

\* The token a chunk ends with is in the window: a client does not fall behind the
\* token it came with, nor pass the one the chunk was read under.
LEMMA ChunkEnds ==
  ASSUME TypeOK, NEW rooms, NEW to \in 0 .. Len(log), NEW from \in 0 .. to
  PROVE  LET events == ChunkOf(rooms, from, to)
         IN /\ events \in SUBSET (1 .. Len(log))
            /\ events # {} => Max(events) \in events /\ \A p \in events : p <= Max(events)
            /\ (IF events = {} THEN to ELSE Max(events)) \in from .. to
<1>. DEFINE events == ChunkOf(rooms, from, to)
<1>0. from \in Nat /\ to \in Nat /\ Len(log) \in Nat
  BY ReadsTheLog
<1>1. events \in SUBSET (from + 1 .. to) /\ events \in SUBSET (1 .. Len(log)) /\ events \in SUBSET (0 .. Len(log))
  BY <1>0, FoundType, ChunkCuts
<1>. HIDE DEF events
<1>2. events # {} => Max(events) \in events /\ \A p \in events : p <= Max(events)
  BY <1>0, <1>1, MaxIsHighest
<1>3. (IF events = {} THEN to ELSE Max(events)) \in from .. to
  <2>1. CASE events = {}
    BY <1>0, <2>1
  <2>2. CASE events # {}
    <3>1. Max(events) \in from + 1 .. to
      BY <1>1, <1>2, <2>2
    <3>. QED
      BY <1>0, <3>1, <2>2
  <2>. QED
    BY <2>1, <2>2
<1>. QED
  BY <1>1, <1>2, <1>3 DEF events

---------------------------------------------------------------------------
(* Nothing that is committed changes: a window up to a position of the log *)
(* is answered alike before and after a step.                              *)

LogGrew ==
  /\ log' \in Seq(Events) /\ Len(log) <= Len(log')
  /\ \A p \in 1 .. Len(log) : log'[p] = log[p]

LEMMA WriteGrows ==
  ASSUME TypeOK, NEW r \in Rooms, NEW kind \in Kinds, Write(r, kind)
  PROVE  LogGrew /\ Len(log') = Len(log) + 1
<1>1. [room |-> r, kind |-> kind] \in Events
  BY DEF Events
<1>2. log' = Append(log, [room |-> r, kind |-> kind])
  BY DEF Write
<1>. QED
  BY <1>1, <1>2 DEF TypeOK, LogGrew

LEMMA UnchangedGrows ==
  ASSUME TypeOK, log' = log
  PROVE  LogGrew
BY DEF TypeOK, LogGrew

LEMMA ReadsAlike ==
  ASSUME TypeOK, LogGrew, NEW a \in Nat, NEW b \in 0 .. Len(log), NEW r
  PROVE  /\ Changes(r, a, b)' = Changes(r, a, b)
         /\ Window(r, a, b)' = Window(r, a, b)
         /\ \A rooms : RoomEventsForward(rooms, r, a, b)' = RoomEventsForward(rooms, r, a, b)
<1>1. \A p \in a + 1 .. b : log'[p] = log[p]
  BY DEF TypeOK, LogGrew
<1>2. Changes(r, a, b)' = Changes(r, a, b)
  BY <1>1 DEF Changes, OwnMembership
<1>3. Window(r, a, b)' = Window(r, a, b)
  BY <1>1 DEF Window
<1>4. {p \in a + 1 .. b : log'[p].room = r} = {p \in a + 1 .. b : log[p].room = r}
  BY <1>1
<1>. DEFINE S == {p \in a + 1 .. b : log[p].room = r}
<1>5. \A rooms : /\ RoomEventsForward(rooms, r, a, b) =
                      (IF rooms[r] = "join" THEN Oldest(S) \cap Window(r, a, b) ELSE {})
                 /\ RoomEventsForward(rooms, r, a, b)' =
                      (IF rooms[r] = "join"
                       THEN Oldest({p \in a + 1 .. b : log'[p].room = r}) \cap Window(r, a, b)'
                       ELSE {})
  BY DEF RoomEventsForward, Oldest
<1>. QED
  BY <1>2, <1>3, <1>4, <1>5

LEMMA MembershipAlike ==
  ASSUME TypeOK, LogGrew, NEW b \in 0 .. Len(log), NEW r
  PROVE  MembershipAtPosition(r, b)' = MembershipAtPosition(r, b)
<1>. DEFINE C == Changes(r, 0, b)
<1>0. 0 \in Nat /\ Len(log) \in Nat
  BY ReadsTheLog
<1>1. Changes(r, 0, b)' = C
  BY <1>0, ReadsAlike
<1>2. MembershipAtPosition(r, b)' = IF Changes(r, 0, b)' = {} THEN "none" ELSE log'[Max(Changes(r, 0, b)')].kind
  BY DEF MembershipAtPosition
<1>3. C # {} => log'[Max(C)] = log[Max(C)]
  <2>1. C # {} => Max(C) \in C
    BY <1>0, LastOfChanges
  <2>2. C \in SUBSET (1 .. Len(log))
    BY <1>0, ReadsTheLog
  <2>. QED
    BY <2>1, <2>2 DEF LogGrew
<1>. QED
  BY <1>1, <1>2, <1>3 DEF MembershipAtPosition

LEMMA ChunkAlike ==
  ASSUME TypeOK, LogGrew, NEW a \in Nat, NEW b \in 0 .. Len(log), NEW rooms
  PROVE  ChunkOf(rooms, a, b)' = ChunkOf(rooms, a, b)
<1>1. \A r \in Rooms : /\ RoomEventsForward(rooms, r, a, b)' = RoomEventsForward(rooms, r, a, b)
                       /\ Changes(r, a, b)' = Changes(r, a, b)
  BY ReadsAlike
<1>2. Found(rooms, a, b)' = Found(rooms, a, b)
  BY <1>1 DEF Found, MembershipEventsForUser
<1>3. /\ ChunkOf(rooms, a, b) = IF Limit = 0 THEN Found(rooms, a, b) ELSE Oldest(Found(rooms, a, b))
      /\ ChunkOf(rooms, a, b)' = IF Limit = 0 THEN Found(rooms, a, b)' ELSE Oldest(Found(rooms, a, b)')
  BY DEF ChunkOf, Found, Oldest
<1>. QED
  BY <1>2, <1>3

\* An answer that was complete stays so while the client and the poll stay as they
\* are, and so does the match of list and token.
LEMMA CompleteAlike ==
  ASSUME TypeOK, LogGrew, UNCHANGED <<poll, api, since>>
  PROVE  /\ ListMatchesToken' <=> ListMatchesToken
         /\ SyncComplete => SyncComplete'
<1>. DEFINE from == SinceOrStart
<1>1. poll.now \in 0 .. Len(log) /\ Len(log) \in Nat /\ poll.now \in Nat /\ from \in Nat
  BY DEF TypeOK, Polls, SinceOrStart
<1>2. \A r, p : p \in 0 .. Len(log) => MembershipAtPosition(r, p)' = MembershipAtPosition(r, p)
  BY MembershipAlike
<1>3. \A r : /\ Changes(r, from, poll.now)' = Changes(r, from, poll.now)
             /\ Window(r, from, poll.now)' = Window(r, from, poll.now)
  BY <1>1, ReadsAlike DEF SinceOrStart
<1>4. \A r : MembershipAtPosition(r, poll.now)' = MembershipAtPosition(r, poll.now)
  BY <1>1, <1>2
<1>5. ListMatchesToken' <=> ListMatchesToken
  BY <1>4 DEF ListMatchesToken, RoomsAsOf, Listed
<1>6. \A p \in from .. poll.now : p \in 0 .. Len(log)
  BY <1>1
<1>7. \A r : \A p \in Window(r, from, poll.now) : p \in 0 .. Len(log)
  BY <1>1 DEF Window
<1>8. ASSUME SyncComplete
      PROVE  SyncComplete'
  <2>1. ASSUME NEW r \in Rooms
        PROVE  SectionTold(r)' /\ EventsTold(r)' /\ StateTold(r)'
    <3>1. SectionTold(r) /\ EventsTold(r) /\ StateTold(r)
      BY <1>8, CompleteParts
    <3>2. SectionTold(r)'
      BY <3>1, <1>3, <1>4 DEF SectionTold
    <3>3. EventsTold(r)'
      BY <3>1, <1>2, <1>3, <1>4, <1>7 DEF EventsTold
    <3>4. StateTold(r)'
      <4>1. SinceOrStart' = SinceOrStart
        BY DEF SinceOrStart
      <4>. QED
        BY <4>1, <3>1, <1>2, <1>4, <1>6 DEF StateTold
    <3>. QED
      BY <3>2, <3>3, <3>4
  <2>. QED
    BY <2>1, CompleteParts
<1>. QED
  BY <1>5, <1>8

---------------------------------------------------------------------------
(* The steps that leave the poll and the client as they are.               *)

\* The token of a pass is not behind this worker's position nor the client's token,
\* and the notifier is not ahead of the position.
LEMMA TokenBounds ==
  ASSUME TypeOK
  PROVE  /\ Len(log) \in Nat
         /\ nowToken \in 0 .. Len(log)
         /\ nowToken >= position
         /\ since = None => nowToken = position
         /\ since # None => nowToken >= since /\ since \in 0 .. nowToken
         /\ Notified \in 0 .. position /\ Notified \in 0 .. Len(log)
<1>1. Len(log) \in Nat /\ position \in 0 .. Len(log) /\ since \in 0 .. Len(log) \cup {None}
  BY DEF TypeOK
<1>. DEFINE S == {position} \cup ({since} \ {None})
<1>2. S \in SUBSET (0 .. Len(log)) /\ position \in S /\ (since # None => since \in S)
  BY <1>1
<1>. HIDE DEF S
<1>3. Max(S) \in S /\ \A x \in S : x <= Max(S)
  BY <1>1, <1>2, MaxIsHighest
<1>4. nowToken = Max(S)
  BY DEF nowToken, S
<1>5. nowToken \in 0 .. Len(log) /\ position <= nowToken /\ (since # None => since <= nowToken)
  BY <1>2, <1>3, <1>4
<1>7. since = None => nowToken = position
  BY <1>3, <1>4 DEF S
<1>6. Notified \in 0 .. position /\ Notified \in 0 .. Len(log)
  BY <1>1 DEF TypeOK, Notified
<1>. QED
  BY <1>1, <1>5, <1>6, <1>7

\* The types of what a step leaves alone.
LEMMA TypesGrow ==
  ASSUME TypeOK, LogGrew, UNCHANGED poll
  PROVE  poll' \in Polls' /\ \A n \in 0 .. Len(log) : n \in 0 .. Len(log)'
<1>1. Len(log) \in Nat /\ Len(log') \in Nat /\ Len(log) <= Len(log')
  BY DEF TypeOK, LogGrew
<1>2. 0 .. Len(log) \in SUBSET (0 .. Len(log')) /\ 1 .. Len(log) \in SUBSET (1 .. Len(log'))
  BY <1>1
<1>3. poll \in Polls
  BY DEF TypeOK
<1>. QED
  BY <1>2, <1>3 DEF Polls

\* An answer stays the answer.
LEMMA AnswerStays ==
  ASSUME Inv, LogGrew, UNCHANGED <<poll, api, since>>, HasAnswer' => HasAnswer
  PROVE  AnswerFits'
<1>. USE DEF Inv
<1>1. SUFFICES ASSUME HasAnswer, HasAnswer'
               PROVE  AnswerFits'
  BY DEF AnswerFits
<1>2. CASE api = "events"
  <2>1. poll.from \in Nat /\ poll.now \in 0 .. Len(log)
    BY <1>1, <1>2 DEF TypeOK, Polls, FromFits, HasAnswer
  <2>2. ChunkOf(poll.rooms, poll.from, poll.now)' = ChunkOf(poll.rooms, poll.from, poll.now)
    BY <2>1, ChunkAlike
  <2>. QED
    BY <1>1, <1>2, <2>2 DEF AnswerFits
<1>3. CASE api # "events"
  BY <1>1, <1>3, CompleteAlike DEF AnswerFits
<1>. QED
  BY <1>2, <1>3

LEMMA WriteKeeps ==
  ASSUME Inv, NEW r \in Rooms, NEW kind \in Kinds, Write(r, kind)
  PROVE  Inv'
<1>. USE DEF Inv
<1>0. UNCHANGED <<position, waking, waiter, stage, expired, poll, api, since, view>>
  BY DEF Write, clientVars
<1>1. LogGrew /\ Len(log') = Len(log) + 1 /\ Len(log) < MaxPos
  BY WriteGrows DEF Write
<1>2. TypeOK'
  <2>1. poll' \in Polls' /\ \A n \in 0 .. Len(log) : n \in 0 .. Len(log)'
    BY <1>0, <1>1, TypesGrow
  <2>2. Len(log') <= MaxPos
    BY <1>1, BoundsAssumption DEF TypeOK
  <2>3. since' \in 0 .. Len(log)' \cup {None} /\ position' \in 0 .. Len(log)'
    BY <1>0, <2>1 DEF TypeOK
  <2>. QED
    BY <1>0, <1>1, <2>1, <2>2, <2>3 DEF TypeOK, LogGrew
<1>3. AnswerFits'
  BY <1>0, <1>1, AnswerStays DEF HasAnswer
<1>4. WakeFits'
  <2>1. Notified' = Notified /\ Notified \in 0 .. Len(log) /\ poll.now \in 0 .. Len(log)
    BY <1>0, TokenBounds DEF Notified, TypeOK, Polls
  <2>2. \A p \in poll.now + 1 .. Notified : log'[p] = log[p]
    BY <2>1, <1>1 DEF LogGrew, TypeOK
  <2>. QED
    BY <1>0, <2>1, <2>2 DEF WakeFits, isEmpty, interested, OwnMembership
<1>5. StageFits' /\ FromFits' /\ NowFits' /\ WaiterFits'
  BY <1>0 DEF StageFits, FromFits, NowFits, WaiterFits, Registered
<1>. QED
  BY <1>2, <1>3, <1>4, <1>5

LEMMA ReplicateKeeps ==
  ASSUME Inv, Replicate
  PROVE  Inv'
<1>. USE DEF Inv
<1>0. UNCHANGED <<log, waiter, stage, expired, poll, api, since, view>>
  BY DEF Replicate, clientVars
<1>1. TypeOK'
  BY <1>0 DEF TypeOK, Replicate, Polls
<1>2. AnswerFits'
  BY <1>0, UnchangedGrows, AnswerStays DEF HasAnswer
<1>3. WakeFits'
  <2>1. Notified' = Notified
    BY DEF Notified, Replicate, TypeOK
  <2>. QED
    BY <1>0, <2>1 DEF WakeFits, isEmpty, interested, OwnMembership
<1>4. FromFits'
  <2>1. position' = position + 1 /\ position \in Nat /\ poll.from \in Nat \cup {None}
    BY DEF Replicate, TypeOK, Polls
  <2>2. poll.from # None /\ poll.from <= position => poll.from <= position'
    BY <2>1
  <2>. QED
    BY <1>0, <2>2 DEF FromFits
<1>5. StageFits' /\ NowFits' /\ WaiterFits'
  BY <1>0 DEF StageFits, NowFits, WaiterFits, Registered
<1>. QED
  BY <1>1, <1>2, <1>3, <1>4, <1>5

\* The waiter was registered before the token was taken, so what the notifier is
\* given after that finds it open.
LEMMA WakeKeeps ==
  ASSUME Inv, Wake
  PROVE  Inv'
<1>. USE DEF Inv
<1>0. UNCHANGED <<log, position, stage, expired, poll, api, since, view>>
  BY DEF Wake, clientVars
<1>1. /\ waiter'.rooms = waiter.rooms /\ waiter'.open = waiter.open
      /\ waiter'.done \in BOOLEAN
      /\ waiter' \in [rooms : SUBSET Rooms, done : BOOLEAN, open : BOOLEAN]
      /\ ~waiter'.done => ~waiter.done /\ ~(waiter.open /\ interested(waiter, log[waking]))
  BY DEF Wake, TypeOK
<1>2. TypeOK'
  BY <1>0, <1>1 DEF TypeOK, Wake, Polls
<1>3. AnswerFits'
  BY <1>0, UnchangedGrows, AnswerStays DEF HasAnswer
<1>4. WakeFits'
  <2>1. /\ Notified' = position /\ Notified = position - 1 /\ waking = position /\ position \in Nat
        /\ poll.now \in Nat
    BY DEF Notified, Wake, TypeOK, Polls
  <2>2. \A p \in poll.now + 1 .. position : p \in poll.now + 1 .. position - 1 \/ p = position
    BY <2>1
  <2>4. \A ev : interested(waiter', ev) <=> interested(waiter, ev)
    BY <1>1 DEF interested
  <2>5. ASSUME stage \in {"answered", "waiting"}, poll.waits, ~waiter'.done,
               NEW p \in poll.now + 1 .. position
        PROVE  ~interested(waiter, log[p])
    <3>1. waiter.open
      BY <2>5 DEF WaiterFits, Registered
    <3>2. \A q \in poll.now + 1 .. position - 1 : ~interested(waiter, log[q])
      BY <2>1, <2>5, <1>1 DEF WakeFits
    <3>. QED
      BY <1>1, <2>1, <2>2, <2>5, <3>1, <3>2
  <2>6. isEmpty' <=> isEmpty
    BY <1>0 DEF isEmpty
  <2>. QED
    BY <1>0, <2>1, <2>4, <2>5, <2>6 DEF WakeFits
<1>5. StageFits' /\ FromFits' /\ NowFits' /\ WaiterFits'
  BY <1>0, <1>1 DEF StageFits, FromFits, NowFits, WaiterFits, Registered
<1>. QED
  BY <1>2, <1>3, <1>4, <1>5

LEMMA ExpireKeeps ==
  ASSUME Inv, Expire
  PROVE  Inv'
<1>. USE DEF Inv
<1>0. /\ UNCHANGED <<log, position, waking, waiter, stage, poll, api, since, view>>
      /\ expired' = TRUE
  BY DEF Expire, serverVars, clientVars
<1>1. TypeOK'
  BY <1>0 DEF TypeOK, Polls
<1>2. AnswerFits'
  BY <1>0, UnchangedGrows, AnswerStays DEF HasAnswer
<1>3. WakeFits'
  BY <1>0 DEF WakeFits, isEmpty, interested, OwnMembership, Notified
<1>4. StageFits' /\ FromFits' /\ NowFits' /\ WaiterFits'
  BY <1>0 DEF StageFits, FromFits, NowFits, WaiterFits, Registered
<1>. QED
  BY <1>1, <1>2, <1>3, <1>4

\* Register, Park, Return, Timeout and the two wakes: the handler moves on, with a
\* new waiter or without one.
LEMMA StageMoves ==
  ASSUME Inv, UNCHANGED <<log, position, waking, expired, poll, api, since, view>>,
         waiter' \in [rooms : SUBSET Rooms, done : BOOLEAN, open : BOOLEAN],
         stage' \in {"start", "listed", "registered", "waiting", "returning"},
         HasAnswer' => HasAnswer
  PROVE  TypeOK' /\ AnswerFits'
<1>. USE DEF Inv
<1>1. TypeOK'
  BY DEF TypeOK, Polls
<1>2. AnswerFits'
  BY UnchangedGrows, AnswerStays
<1>. QED
  BY <1>1, <1>2

LEMMA RegisterKeeps ==
  ASSUME Inv, Register
  PROVE  Inv'
<1>. USE DEF Inv
<1>0. /\ UNCHANGED <<log, position, waking, expired, poll, api, since, view>>
      /\ stage = "listed" /\ stage' = "registered"
      /\ waiter' = [rooms |-> {r \in Rooms : poll.rooms[r] # "none"}, done |-> FALSE, open |-> TRUE]
  BY DEF Register, serverVars, clientVars
<1>1. TypeOK' /\ AnswerFits'
  BY <1>0, StageMoves DEF HasAnswer
<1>2. WakeFits' /\ WaiterFits'
  BY <1>0 DEF WakeFits, WaiterFits
<1>3. StageFits' /\ FromFits' /\ NowFits'
  BY <1>0 DEF StageFits, FromFits, NowFits
<1>. QED
  BY <1>1, <1>2, <1>3

LEMMA ParkKeeps ==
  ASSUME Inv, Park
  PROVE  Inv'
<1>. USE DEF Inv
<1>0. /\ UNCHANGED <<log, position, waking, waiter, expired, poll, api, since, view>>
      /\ stage = "answered" /\ stage' = "waiting" /\ isEmpty /\ poll.waits
  BY DEF Park, serverVars, clientVars
<1>1. TypeOK' /\ AnswerFits'
  BY <1>0, StageMoves DEF HasAnswer, TypeOK
<1>2. WakeFits'
  BY <1>0 DEF WakeFits, isEmpty, interested, OwnMembership, Notified
<1>3. StageFits' /\ FromFits' /\ NowFits' /\ WaiterFits'
  BY <1>0 DEF StageFits, FromFits, NowFits, WaiterFits, Registered
<1>. QED
  BY <1>1, <1>2, <1>3

LEMMA ReturnKeeps ==
  ASSUME Inv, Return \/ Timeout
  PROVE  Inv'
<1>. USE DEF Inv
<1>0. /\ UNCHANGED <<log, position, waking, expired, poll, api, since, view>>
      /\ stage \in {"answered", "waiting"} /\ stage' = "returning" /\ waiter' = NoWaiter
  BY DEF Return, Timeout, serverVars, clientVars
<1>1. TypeOK' /\ AnswerFits'
  BY <1>0, StageMoves DEF HasAnswer, NoWaiter
<1>2. StageFits' /\ FromFits' /\ NowFits' /\ WaiterFits' /\ WakeFits'
  BY <1>0 DEF StageFits, FromFits, NowFits, WaiterFits, WakeFits, Registered
<1>. QED
  BY <1>1, <1>2

LEMMA WokenKeeps ==
  ASSUME Inv, Woken \/ EventsWoken
  PROVE  Inv'
<1>. USE DEF Inv
<1>0. /\ UNCHANGED <<log, position, waking, expired, poll, api, since, view>>
      /\ stage = "waiting" /\ waiter' = NoWaiter
      /\ \/ api = "sync" /\ stage' = "start"
         \/ api = "events" /\ stage' = "listed"
  BY DEF Woken, EventsWoken, serverVars, clientVars
<1>1. TypeOK' /\ AnswerFits'
  BY <1>0, StageMoves DEF HasAnswer, NoWaiter
<1>2. StageFits' /\ FromFits' /\ NowFits' /\ WaiterFits' /\ WakeFits'
  BY <1>0 DEF StageFits, FromFits, NowFits, WaiterFits, WakeFits, Registered
<1>. QED
  BY <1>1, <1>2

---------------------------------------------------------------------------
(* The ends of a request.                                                  *)

LEMMA NoPollType ==
  ASSUME TypeOK
  PROVE  NoPoll \in Polls /\ ~NoPoll.waits
BY DEF TypeOK, Polls, NoPoll, Sections

\* An idle handler owes nothing.
LEMMA IdleFits ==
  ASSUME stage' = "idle", poll' = NoPoll
  PROVE  StageFits' /\ FromFits' /\ NowFits' /\ AnswerFits' /\ WaiterFits' /\ WakeFits'
<1>1. ~poll'.waits
  BY DEF NoPoll
<1>. QED
  BY <1>1 DEF StageFits, FromFits, NowFits, AnswerFits, HasAnswer, WaiterFits, WakeFits, Registered

LEMMA EndKeeps ==
  ASSUME Inv, Fail \/ HangUp \/ LoseResponse
  PROVE  Inv'
<1>. USE DEF Inv
<1>0. /\ UNCHANGED <<log, position, waking, expired, api, since, view>>
      /\ stage' = "idle" /\ poll' = NoPoll /\ waiter' \in {waiter, NoWaiter}
  BY DEF Fail, HangUp, LoseResponse, serverVars, clientVars
<1>1. TypeOK'
  <2>1. waiter' \in [rooms : SUBSET Rooms, done : BOOLEAN, open : BOOLEAN]
    <3>. DEFINE W == [rooms : SUBSET Rooms, done : BOOLEAN, open : BOOLEAN]
    <3>1. NoWaiter \in W
      BY DEF NoWaiter
    <3>2. waiter \in W
      BY DEF TypeOK
    <3>. HIDE DEF W
    <3>3. waiter' \in W
      BY <1>0, <3>1, <3>2
    <3>. QED
      BY <3>3 DEF W
  <2>2. Polls' = Polls
    BY <1>0 DEF Polls
  <2>. QED
    BY <1>0, <2>1, <2>2, NoPollType DEF TypeOK
<1>. QED
  BY <1>0, <1>1, IdleFits

\* The section a client comes to see a room in.
LEMMA SeenType ==
  ASSUME TypeOK, NEW r \in Rooms
  PROVE  Seen(r) \in Sections
<1>. DEFINE own == {p \in poll.events : log[p].room = r /\ OwnMembership(log[p])}
            in == IF api = "sync" THEN {s \in Sections : <<r, s>> \in poll.sections}
                  ELSE IF own = {} THEN {} ELSE {log[Max(own)].kind}
<1>1. Len(log) \in Nat /\ own \in SUBSET (1 .. Len(log)) /\ view[r] \in Sections
  BY DEF TypeOK, Polls
<1>2. own \in SUBSET (0 .. Len(log))
  BY <1>1
<1>3. own # {} => log[Max(own)].kind \in Sections
  <2>1. own # {} => Max(own) \in own
    BY <1>1, <1>2, MaxIsHighest
  <2>2. \A p \in own : log[p] \in Events /\ OwnMembership(log[p])
    BY <1>1 DEF TypeOK
  <2>3. own # {} => log[Max(own)] \in Events /\ OwnMembership(log[Max(own)])
    BY <2>1, <2>2
  <2>. HIDE DEF own
  <2>. QED
    BY <2>3, KindsAssumption DEF Events, OwnMembership, Sections
<1>4. in \in SUBSET Sections
  <2>. HIDE DEF own
  <2>. QED
    BY <1>3
<1>5. Seen(r) = IF in = {} THEN view[r] ELSE IF "join" \in in THEN "join" ELSE CHOOSE s \in in : TRUE
  BY DEF Seen
<1>. HIDE DEF in
<1>. QED
  BY <1>1, <1>4, <1>5 DEF Sections

LEMMA DeliverKeeps ==
  ASSUME Inv, Deliver
  PROVE  Inv'
<1>. USE DEF Inv
<1>0. /\ UNCHANGED <<log, position, waking, waiter, expired, api>>
      /\ stage' = "idle" /\ poll' = NoPoll /\ since' = poll.end
      /\ view' = [r \in Rooms |-> Seen(r)]
  BY DEF Deliver, serverVars
<1>1. view' \in [Rooms -> Sections]
  BY <1>0, SeenType
<1>2. since' \in 0 .. Len(log)
  BY <1>0 DEF TypeOK, Polls
<1>3. TypeOK'
  BY <1>0, <1>1, <1>2, NoPollType DEF TypeOK, Polls
<1>. QED
  BY <1>0, <1>3, IdleFits

LEMMA ElsewhereKeeps ==
  ASSUME Inv, SyncElsewhere
  PROVE  Inv'
<1>. USE DEF Inv
<1>0. /\ UNCHANGED <<log, position, waking, waiter, stage, expired, poll, api>>
      /\ stage = "idle" /\ since' = Len(log)
      /\ view' = [r \in Rooms |-> MembershipAtPosition(r, Len(log))]
  BY DEF SyncElsewhere, serverVars
<1>1. Len(log) \in Nat /\ Len(log) # None
  BY NoneAssumption DEF TypeOK
<1>2. view' \in [Rooms -> Sections]
  BY <1>0, <1>1, MembershipType
<1>3. TypeOK'
  BY <1>0, <1>1, <1>2 DEF TypeOK, Polls
<1>. QED
  BY <1>0, <1>1, <1>3 DEF StageFits, FromFits, NowFits, AnswerFits, HasAnswer, WaiterFits, WakeFits, Registered

---------------------------------------------------------------------------
(* The passes.                                                             *)

LEMMA RequestKeeps ==
  ASSUME Inv, NEW waits \in BOOLEAN, Request(waits)
  PROVE  Inv'
<1>. USE DEF Inv
<1>0. /\ UNCHANGED <<log, position, waking, waiter, api, since, view>>
      /\ stage = "idle" /\ expired' = FALSE
      /\ stage' = IF api = "sync" /\ waits /\ since # None THEN "start" ELSE "unlisted"
  BY DEF Request, serverVars, clientVars
<1>1. /\ poll' \in Polls /\ poll'.from = since
      /\ poll'.waits <=> waits /\ (api = "sync" => since # None)
  <2>1. NoPoll \in Polls /\ since \in 0 .. Len(log) \cup {None}
    BY NoPollType DEF TypeOK
  <2>. QED
    BY <2>1 DEF Request, Polls
<1>2. TypeOK'
  BY <1>0, <1>1 DEF TypeOK, Polls
<1>3. api \in {"sync", "events"}
  BY ApisAssumption DEF TypeOK
<1>. QED
  BY <1>0, <1>1, <1>2, <1>3
     DEF StageFits, FromFits, NowFits, AnswerFits, HasAnswer, WaiterFits, WakeFits, Registered

LEMMA ListRoomsKeeps ==
  ASSUME Inv, ListRooms
  PROVE  Inv'
<1>. USE DEF Inv
<1>0. /\ UNCHANGED <<log, position, waking, waiter, expired, api, since, view>>
      /\ stage = "start" /\ stage' = "listed"
  BY DEF ListRooms, serverVars, clientVars
<1>1. /\ poll' \in Polls /\ poll'.from = poll.from /\ poll'.waits = poll.waits
  <2>1. RoomsForUser \in [Rooms -> Sections]
    BY RoomsType, ReadsTheLog DEF RoomsForUser, TypeOK
  <2>2. poll \in Polls /\ poll' = [poll EXCEPT !.rooms = RoomsForUser]
    BY DEF TypeOK, ListRooms
  <2>. QED
    BY <2>1, <2>2 DEF Polls
<1>2. TypeOK'
  BY <1>0, <1>1 DEF TypeOK, Polls
<1>. QED
  BY <1>0, <1>1, <1>2
     DEF StageFits, FromFits, NowFits, AnswerFits, HasAnswer, WaiterFits, WakeFits, Registered

LEMMA TakeTokenKeeps ==
  ASSUME Inv, TakeToken
  PROVE  Inv'
<1>. USE DEF Inv
<1>0. /\ UNCHANGED <<log, position, waking, waiter, expired, api, since, view>>
      /\ stage = "unlisted" /\ stage' = "bounded"
  BY DEF TakeToken, serverVars, clientVars
<1>. DEFINE start == IF api = "events" /\ since = None THEN nowToken ELSE since
<1>1. nowToken \in 0 .. Len(log) /\ Len(log) \in Nat /\ (since # None => nowToken >= since)
  BY TokenBounds
<1>2. start \in 0 .. Len(log) \cup {None}
  BY <1>1 DEF TypeOK
<1>3. poll \in Polls /\ poll' = [poll EXCEPT !.now = nowToken, !.from = start]
  BY DEF TypeOK, TakeToken
<1>. HIDE DEF start
<1>4. /\ poll' \in Polls /\ poll'.from = start /\ poll'.now = nowToken /\ poll'.waits = poll.waits
  BY <1>1, <1>2, <1>3 DEF Polls
<1>5. TypeOK'
  BY <1>0, <1>4 DEF TypeOK, Polls
<1>6. /\ since # None => start = since
      /\ api = "events" => start # None /\ nowToken >= start /\ (since = None => start <= position)
  BY <1>1, NoneAssumption, TokenBounds DEF start
<1>. QED
  BY <1>0, <1>1, <1>4, <1>5, <1>6
     DEF StageFits, FromFits, NowFits, AnswerFits, HasAnswer, WaiterFits, WakeFits, Registered

\* A pass of incrementalSync, on a list of rooms and up to a token.
LEMMA AnswerIs ==
  ASSUME TypeOK, NEW q \in Polls, NEW now \in 0 .. Len(log), since # None, since \in 0 .. now
  PROVE  LET a == Answer(q, now)
         IN /\ a \in Polls /\ a.waits = q.waits /\ a.rooms = q.rooms /\ a.from = q.from
            /\ a.now = now /\ a.end = now
            /\ a.sections = SectionsOf(q.rooms, since, now)
            /\ a.full = {r \in Rooms : newlyJoined(q.rooms, r, since, now)}
            /\ a.events = EventsOf(q.rooms, since, now)
<1>. DEFINE sections == SectionsOf(q.rooms, since, now)
            full == {r \in Rooms : newlyJoined(q.rooms, r, since, now)}
            events == EventsOf(q.rooms, since, now)
<1>1. sections \in SUBSET (Rooms \X Sections) /\ events \in SUBSET (1 .. Len(log)) /\ full \in SUBSET Rooms
  BY AnswerType
<1>2. Answer(q, now) = [q EXCEPT !.now = now, !.end = now, !.sections = sections, !.full = full, !.events = events]
  BY DEF Answer
<1>. HIDE DEF sections, full, events
<1>3. LET a == Answer(q, now)
      IN /\ a \in Polls /\ a.waits = q.waits /\ a.rooms = q.rooms /\ a.from = q.from
         /\ a.now = now /\ a.end = now
         /\ a.sections = sections /\ a.full = full /\ a.events = events
  BY <1>1, <1>2 DEF Polls
<1>. QED
  BY <1>3 DEF sections, full, events

\* ... which is complete where the list is the one of the token.
LEMMA AnswerCompletes ==
  ASSUME TypeOK, NEW q \in Polls, NEW now \in 0 .. Len(log), since # None, since \in 0 .. now,
         UNCHANGED <<log, api, since>>, poll' = Answer(q, now), ListMatchesToken'
  PROVE  SyncComplete'
<1>0. LogGrew /\ since' = since /\ log' = log /\ now \in Nat /\ Len(log) \in Nat
  BY UnchangedGrows, ReadsTheLog
<1>1. /\ poll'.rooms = q.rooms /\ poll'.now = now
      /\ poll'.sections = SectionsOf(q.rooms, since, now)
      /\ poll'.full = {r \in Rooms : newlyJoined(q.rooms, r, since, now)}
      /\ poll'.events = EventsOf(q.rooms, since, now)
  BY AnswerIs
<1>2. \A r : MembershipAtPosition(r, now)' = MembershipAtPosition(r, now)
  BY <1>0, MembershipAlike
<1>3. \A r \in Rooms : q.rooms[r] = "join" <=> MembershipAtPosition(r, now) = "join"
  <2>1. poll'.rooms = RoomsAsOf(poll.now)'
    BY DEF ListMatchesToken
  <2>2. RoomsAsOf(poll.now)' = RoomsAsOf(now)
    BY <1>1, <1>2 DEF RoomsAsOf, Listed
  <2>. QED
    BY <1>1, <2>1, <2>2, JoinedIsListed
<1>4. ASSUME NEW r \in Rooms
      PROVE  SectionTold(r)' /\ EventsTold(r)' /\ StateTold(r)'
  <2>. DEFINE m == MembershipAtPosition(r, now)
  <2>1. /\ Changes(r, since, now) # {} => <<r, m>> \in SectionsOf(q.rooms, since, now)
        /\ m = "join" \/ m = "leave" =>
             \A p \in Window(r, since, now) :
               MembershipAtPosition(r, p) = "join" => p \in EventsOf(q.rooms, since, now)
        /\ m = "join" /\ (\E p \in since .. now : MembershipAtPosition(r, p) # "join") =>
             newlyJoined(q.rooms, r, since, now)
    BY <1>3, AnswerAccounts
  <2>2. SinceOrStart' = since
    BY <1>0 DEF SinceOrStart
  <2>3. MembershipAtPosition(r, poll.now)' = m
    BY <1>1, <1>2
  <2>4. \A p : MembershipAtPosition(r, p)' = MembershipAtPosition(r, p)
    BY <1>0 DEF MembershipAtPosition, Changes, OwnMembership
  <2>5. /\ Changes(r, SinceOrStart, poll.now)' = Changes(r, since, now)
        /\ Window(r, SinceOrStart, poll.now)' = Window(r, since, now)
    BY <2>2, <1>0, <1>1 DEF Changes, Window, OwnMembership
  <2>. HIDE DEF m
  <2>6. SectionTold(r)'
    BY <1>1, <2>1, <2>3, <2>5 DEF SectionTold
  <2>7. EventsTold(r)'
    BY <1>1, <2>1, <2>3, <2>4, <2>5 DEF EventsTold
  <2>8. StateTold(r)'
    BY <1>1, <2>1, <2>2, <2>3, <2>4 DEF StateTold
  <2>. QED
    BY <2>6, <2>7, <2>8
<1>. QED
  BY <1>4, CompleteParts

\* A pass of /events.
LEMMA ChunkIs ==
  ASSUME TypeOK, NEW q \in Polls, NEW now \in 0 .. Len(log), q.from \in 0 .. now
  PROVE  LET c == Chunk(q, now)
         IN /\ c \in Polls /\ c.waits = q.waits /\ c.rooms = q.rooms /\ c.from = q.from
            /\ c.now = now /\ c.events = ChunkOf(q.rooms, q.from, now)
            /\ c.end = (IF c.events = {} THEN now ELSE Max(c.events))
<1>. DEFINE events == ChunkOf(q.rooms, q.from, now)
            end == IF events = {} THEN now ELSE Max(events)
<1>1. events \in SUBSET (1 .. Len(log)) /\ end \in q.from .. now /\ Len(log) \in Nat
  BY ChunkEnds, ReadsTheLog
<1>2. end \in 0 .. Len(log)
  BY <1>1
<1>3. Chunk(q, now) = [q EXCEPT !.now = now, !.events = events, !.end = end]
  BY DEF Chunk
<1>. HIDE DEF events, end
<1>4. LET c == Chunk(q, now)
      IN /\ c \in Polls /\ c.waits = q.waits /\ c.rooms = q.rooms /\ c.from = q.from
         /\ c.now = now /\ c.events = events /\ c.end = end
  BY <1>1, <1>2, <1>3 DEF Polls
<1>. QED
  BY <1>4 DEF events, end

LEMMA ComputeKeeps ==
  ASSUME Inv, Compute
  PROVE  Inv'
<1>. USE DEF Inv
<1>0. /\ UNCHANGED <<log, position, waking, waiter, expired, api, since, view>>
      /\ stage = "registered" /\ stage' = "answered"
      /\ poll' = IF api = "events" THEN Chunk(poll, nowToken) ELSE Answer(poll, nowToken)
  BY DEF Compute, serverVars, clientVars
<1>1. poll \in Polls /\ api \in {"sync", "events"} /\ poll.waits
  BY <1>0, ApisAssumption DEF TypeOK, StageFits
<1>2. /\ nowToken \in 0 .. Len(log) /\ nowToken >= position /\ Len(log) \in Nat /\ position \in Nat
      /\ since # None => nowToken >= since /\ since \in 0 .. nowToken
      /\ Notified \in 0 .. position
  BY TokenBounds DEF TypeOK
<1>3. api = "events" => poll.from \in 0 .. nowToken
  <2>1. CASE since # None
    BY <1>0, <1>2, <2>1 DEF FromFits
  <2>2. CASE since = None /\ api = "events"
    <3>1. poll.from \in 0 .. Len(log) /\ poll.from <= position
      BY <1>0, <1>1, <2>2 DEF FromFits, Polls
    <3>. QED
      BY <3>1, <1>2
  <2>. QED
    BY <2>1, <2>2

<1>4. poll' \in Polls /\ poll'.waits /\ poll'.rooms = poll.rooms /\ poll'.from = poll.from /\ poll'.now = nowToken
  <2>1. CASE api = "events"
    BY <1>0, <1>1, <1>2, <1>3, <2>1, ChunkIs
  <2>2. CASE api = "sync"
    BY <1>0, <1>1, <1>2, <2>2, AnswerIs DEF StageFits
  <2>. QED
    BY <1>1, <2>1, <2>2
<1>5. TypeOK'
  BY <1>0, <1>4 DEF TypeOK, Polls
<1>6. AnswerFits'
  <2>1. CASE api = "events"
    <3>1. /\ poll'.events = ChunkOf(poll.rooms, poll.from, nowToken)
          /\ poll'.end = IF poll'.events = {} THEN nowToken ELSE Max(poll'.events)
      BY <1>0, <1>1, <1>2, <1>3, <2>1, ChunkIs
    <3>2. ChunkOf(poll.rooms, poll.from, poll.now)' = ChunkOf(poll'.rooms, poll'.from, poll'.now)
      BY <1>0 DEF ChunkOf, Oldest, RoomEventsForward, Window, MembershipEventsForUser, Changes, OwnMembership
    <3>. QED
      BY <1>0, <1>4, <2>1, <3>1, <3>2 DEF AnswerFits
  <2>2. CASE api = "sync"
    <3>1. since # None /\ since \in 0 .. nowToken /\ poll' = Answer(poll, nowToken)
      BY <1>0, <1>2, <2>2 DEF StageFits
    <3>2. poll'.end = poll'.now
      BY <1>1, <1>2, <3>1, AnswerIs
    <3>3. ListMatchesToken' => SyncComplete'
      BY <1>0, <1>1, <1>2, <3>1, AnswerCompletes
    <3>. QED
      BY <1>0, <2>2, <3>2, <3>3 DEF AnswerFits
  <2>. QED
    BY <1>1, <2>1, <2>2
<1>7. WakeFits'
  <2>1. Notified' = Notified
    BY <1>0 DEF Notified
  <2>2. nowToken + 1 .. Notified = {}
    BY <1>2
  <2>. QED
    BY <1>0, <1>4, <2>1, <2>2 DEF WakeFits
<1>8. NowFits'
  BY <1>0, <1>2, <1>3, <1>4 DEF NowFits
<1>9. StageFits' /\ FromFits' /\ WaiterFits'
  BY <1>0, <1>4 DEF StageFits, FromFits, WaiterFits, Registered
<1>. QED
  BY <1>5, <1>6, <1>7, <1>8, <1>9

LEMMA ComputeOnceKeeps ==
  ASSUME Inv, ComputeOnce
  PROVE  Inv'
<1>. USE DEF Inv
<1>. DEFINE q == [poll EXCEPT !.rooms = RoomsForUser]
<1>0. /\ UNCHANGED <<log, position, waking, waiter, expired, api, since, view>>
      /\ stage = "bounded" /\ stage' = "answered" /\ api = "sync" /\ since # None
      /\ poll' = Answer(q, poll.now)
  BY DEF ComputeOnce, serverVars, clientVars
<1>1. q \in Polls /\ q.waits = poll.waits /\ q.from = poll.from /\ poll.now \in 0 .. Len(log)
  <2>1. RoomsForUser \in [Rooms -> Sections]
    BY RoomsType, ReadsTheLog DEF RoomsForUser, TypeOK
  <2>. QED
    BY <2>1 DEF TypeOK, Polls
<1>. HIDE DEF q
<1>2. since \in 0 .. poll.now /\ ~poll.waits
  BY <1>0, <1>1 DEF TypeOK, NowFits, StageFits
<1>3. poll' \in Polls /\ poll'.waits = poll.waits /\ poll'.from = poll.from /\ poll'.now = poll.now /\ poll'.end = poll.now
  BY <1>0, <1>1, <1>2, AnswerIs
<1>4. TypeOK'
  BY <1>0, <1>3 DEF TypeOK, Polls
<1>5. AnswerFits'
  <2>1. ListMatchesToken' => SyncComplete'
    BY <1>0, <1>1, <1>2, AnswerCompletes
  <2>. QED
    BY <1>0, <1>3, <2>1 DEF AnswerFits
<1>6. StageFits' /\ FromFits' /\ NowFits' /\ WaiterFits' /\ WakeFits'
  BY <1>0, <1>2, <1>3 DEF StageFits, FromFits, NowFits, WaiterFits, WakeFits, Registered
<1>. QED
  BY <1>4, <1>5, <1>6

LEMMA FirstChunkKeeps ==
  ASSUME Inv, FirstChunk
  PROVE  Inv'
<1>. USE DEF Inv
<1>. DEFINE q == [poll EXCEPT !.rooms = RoomsForUser]
<1>0. /\ UNCHANGED <<log, position, waking, waiter, expired, api, since, view>>
      /\ stage = "bounded" /\ api = "events"
      /\ stage' = IF poll'.events # {} \/ ~poll.waits THEN "returning" ELSE "listed"
      /\ poll' = Chunk(q, poll.now)
  BY DEF FirstChunk, serverVars, clientVars
<1>1. q \in Polls /\ q.waits = poll.waits /\ q.from = poll.from /\ poll.now \in 0 .. Len(log)
  <2>1. RoomsForUser \in [Rooms -> Sections]
    BY RoomsType, ReadsTheLog DEF RoomsForUser, TypeOK
  <2>. QED
    BY <2>1 DEF TypeOK, Polls
<1>. HIDE DEF q
<1>2. q.from \in 0 .. poll.now
  BY <1>0, <1>1 DEF TypeOK, Polls, NowFits, FromFits
<1>3. /\ poll' \in Polls /\ poll'.waits = poll.waits /\ poll'.from = poll.from /\ poll'.now = poll.now
      /\ poll'.rooms = q.rooms /\ poll'.events = ChunkOf(q.rooms, q.from, poll.now)
      /\ poll'.end = IF poll'.events = {} THEN poll.now ELSE Max(poll'.events)
  BY <1>0, <1>1, <1>2, ChunkIs
<1>4. TypeOK'
  BY <1>0, <1>3 DEF TypeOK, Polls
<1>5. AnswerFits'
  <2>1. ChunkOf(poll.rooms, poll.from, poll.now)' = ChunkOf(poll'.rooms, poll'.from, poll'.now)
    BY <1>0 DEF ChunkOf, Oldest, RoomEventsForward, Window, MembershipEventsForUser, Changes, OwnMembership
  <2>. QED
    BY <1>0, <1>1, <1>3, <2>1 DEF AnswerFits
<1>6. StageFits' /\ FromFits' /\ NowFits' /\ WaiterFits' /\ WakeFits'
  BY <1>0, <1>1, <1>3 DEF StageFits, FromFits, NowFits, WaiterFits, WakeFits, Registered
<1>. QED
  BY <1>4, <1>5, <1>6

LEMMA InitialSyncKeeps ==
  ASSUME Inv, NEW hidden \in SUBSET Rooms, InitialSync(hidden)
  PROVE  Inv'
<1>. USE DEF Inv
<1>. DEFINE q == [poll EXCEPT !.rooms = RoomsForUser]
            in(m) == {r \in Rooms : q.rooms[r] = m} \ hidden
            sections == UNION {in(m) \X {m} : m \in Listed}
            full == in("join")
            events == (UNION {Window(r, 0, q.now) : r \in in("join")})
                      \cup (UNION {Window(r, 0, Max(Changes(r, 0, Len(log)))) : r \in in("leave")})
<1>0. /\ UNCHANGED <<log, position, waking, waiter, expired, api, since, view>>
      /\ stage = "bounded" /\ stage' = "answered" /\ api = "sync" /\ since = None
      /\ hidden \subseteq Forgettable
      /\ poll' = InitialAnswer(q, hidden)
  BY DEF InitialSync, serverVars, clientVars
<1>1. Len(log) \in Nat /\ Len(log) \in 0 .. Len(log) /\ 0 \in Nat
  BY DEF TypeOK
<1>2. RoomsForUser \in [Rooms -> Sections]
  BY <1>1, RoomsType DEF RoomsForUser
<1>3. /\ q \in Polls /\ q.waits = poll.waits /\ q.from = poll.from /\ q.now = poll.now
      /\ q.rooms = RoomsForUser /\ poll.now \in 0 .. Len(log)
  BY <1>2 DEF TypeOK, Polls
<1>4. poll' = [q EXCEPT !.end = q.now, !.sections = sections, !.full = full, !.events = events]
  BY <1>0 DEF InitialAnswer
<1>. HIDE DEF q
<1>5. sections \in SUBSET (Rooms \X Sections)
  BY DEF Listed, Sections
<1>6. events \in SUBSET (1 .. Len(log))
  <2>1. \A r : Window(r, 0, q.now) \in SUBSET (1 .. Len(log))
    BY <1>1, <1>3 DEF Window
  <2>2. ASSUME NEW r \in in("leave")
        PROVE  Window(r, 0, Max(Changes(r, 0, Len(log)))) \in SUBSET (1 .. Len(log))
    <3>1. RoomsAsOf(Len(log))[r] = "leave" /\ r \in Rooms
      BY <1>3 DEF RoomsForUser
    <3>2. MembershipAtPosition(r, Len(log)) = "leave"
      BY <3>1, <1>1, RoomsType
    <3>3. Changes(r, 0, Len(log)) # {}
      BY <3>2 DEF MembershipAtPosition
    <3>4. Max(Changes(r, 0, Len(log))) \in Changes(r, 0, Len(log))
      BY <3>3, <1>1, LastOfChanges
    <3>5. Max(Changes(r, 0, Len(log))) \in 0 .. Len(log)
      BY <3>4, <1>1 DEF Changes
    <3>. QED
      BY <3>5, <1>1 DEF Window
  <2>. QED
    BY <2>1, <2>2
<1>7. full \in SUBSET Rooms
  OBVIOUS
<1>. HIDE DEF sections, full, events
<1>8. /\ poll' \in Polls /\ poll'.waits = poll.waits /\ poll'.from = poll.from /\ poll'.now = poll.now
      /\ poll'.end = poll.now /\ poll'.rooms = RoomsForUser
      /\ poll'.sections = sections /\ poll'.full = full /\ poll'.events = events
  BY <1>3, <1>4, <1>5, <1>6, <1>7 DEF Polls
<1>9. TypeOK'
  BY <1>0, <1>8 DEF TypeOK, Polls
<1>10. ASSUME ListMatchesToken'
       PROVE  SyncComplete'
  <2>0. \A r, p : MembershipAtPosition(r, p)' = MembershipAtPosition(r, p)
    BY <1>0 DEF MembershipAtPosition, Changes, OwnMembership
  <2>1. RoomsForUser = RoomsAsOf(poll.now)
    <3>1. RoomsAsOf(poll.now)' = RoomsAsOf(poll.now)
      BY <1>0, <1>8, <2>0 DEF RoomsAsOf, Listed
    <3>. QED
      BY <3>1, <1>8, <1>10 DEF ListMatchesToken
  <2>2. Listed = {"join", "invite", "knock", "leave"}
    BY <1>0 DEF Listed
  <2>3. ASSUME NEW r \in Rooms
        PROVE  SectionTold(r)' /\ EventsTold(r)' /\ StateTold(r)'
    <3>. DEFINE m == MembershipAtPosition(r, poll.now)
    <3>1. q.rooms[r] = IF m \in Listed THEN m ELSE "none"
      BY <1>3, <2>1, RoomsType
    <3>2. MembershipAtPosition(r, poll.now)' = m /\ SinceOrStart' = 0
      BY <1>0, <1>8, <2>0 DEF SinceOrStart
    <3>3. /\ Changes(r, SinceOrStart, poll.now)' = Changes(r, 0, poll.now)
          /\ Window(r, SinceOrStart, poll.now)' = Window(r, 0, poll.now)
      BY <3>2, <1>0, <1>8 DEF Changes, Window, OwnMembership
    <3>4. Changes(r, 0, poll.now) # {} => m \in Listed
      BY <1>1, <1>3, <2>2, MembershipMoves
    <3>5. r \in hidden => q.rooms[r] = "leave"
      BY <1>0, <1>3 DEF Forgettable
    <3>. HIDE DEF m
    <3>6. m = "join" => r \in in("join")
      BY <3>1, <3>5, <2>2
    <3>7. SectionTold(r)'
      <4>1. m \in Listed /\ m # "leave" => <<r, m>> \in sections
        BY <3>1, <3>5 DEF sections
      <4>. QED
        BY <1>0, <1>8, <3>2, <3>3, <3>4, <4>1 DEF SectionTold
    <3>8. EventsTold(r)'
      <4>1. m = "join" => Window(r, 0, poll.now) \in SUBSET events
        BY <3>6, <1>3 DEF events
      <4>. QED
        BY <1>0, <1>8, <3>2, <3>3, <4>1 DEF EventsTold
    <3>9. StateTold(r)'
      BY <1>8, <3>2, <3>6 DEF StateTold, full
    <3>. QED
      BY <3>7, <3>8, <3>9
  <2>. QED
    BY <2>3, CompleteParts
<1>11. AnswerFits'
  BY <1>0, <1>8, <1>10 DEF AnswerFits
<1>12. StageFits' /\ FromFits' /\ NowFits' /\ WaiterFits' /\ WakeFits'
  BY <1>0, <1>8 DEF StageFits, FromFits, NowFits, WaiterFits, WakeFits, Registered
<1>. QED
  BY <1>9, <1>11, <1>12

---------------------------------------------------------------------------
(* The theorems.                                                           *)

LEMMA InitFits ==
  ASSUME Init
  PROVE  Inv
<1>1. log = <<>> /\ Len(log) = 0 /\ log \in Seq(Events)
  BY DEF Init
<1>2. TypeOK
  <2>1. NoPoll \in Polls
    BY <1>1 DEF Polls, NoPoll, Sections
  <2>2. NoWaiter \in [rooms : SUBSET Rooms, done : BOOLEAN, open : BOOLEAN]
    BY DEF NoWaiter
  <2>3. view \in [Rooms -> Sections]
    BY DEF Init, Sections
  <2>4. Len(log) <= MaxPos /\ position \in 0 .. Len(log)
    BY <1>1, BoundsAssumption DEF Init
  <2>5. poll = NoPoll /\ waiter = NoWaiter
    BY DEF Init
  <2>6. waking \in {0, position} /\ api \in Apis /\ since \in 0 .. Len(log) \cup {None} /\ expired \in BOOLEAN
    BY DEF Init
  <2>7. stage = "idle"
    BY DEF Init
  <2>. QED
    BY <1>1, <2>1, <2>2, <2>3, <2>4, <2>5, <2>6, <2>7 DEF TypeOK
<1>3. ~poll.waits /\ stage = "idle"
  BY DEF Init, NoPoll
<1>. QED
  BY <1>2, <1>3
     DEF Inv, StageFits, FromFits, NowFits, AnswerFits, HasAnswer, WaiterFits, WakeFits, Registered

LEMMA NextKeeps ==
  ASSUME Inv, [Next]_vars
  PROVE  Inv'
<1>1. CASE UNCHANGED vars
  <2>1. UNCHANGED <<log, position, waking, waiter, stage, expired, poll, api, since, view>>
    BY <1>1 DEF vars, serverVars, clientVars
  <2>2. TypeOK'
    BY <2>1 DEF Inv, TypeOK, Polls
  <2>3. AnswerFits'
    BY <2>1, UnchangedGrows, AnswerStays DEF Inv, HasAnswer
  <2>4. StageFits' /\ FromFits' /\ NowFits' /\ WaiterFits' /\ WakeFits'
    BY <2>1 DEF Inv, StageFits, FromFits, NowFits, WaiterFits, WakeFits, Registered, isEmpty,
                interested, OwnMembership, Notified
  <2>. QED
    BY <2>2, <2>3, <2>4 DEF Inv
<1>2. ASSUME NEW r \in Rooms, NEW kind \in Kinds, Write(r, kind)
      PROVE  Inv'
  BY <1>2, WriteKeeps
<1>3. CASE Replicate \/ Wake
  BY <1>3, ReplicateKeeps, WakeKeeps
<1>4. ASSUME NEW waits \in BOOLEAN, Request(waits)
      PROVE  Inv'
  BY <1>4, RequestKeeps
<1>5. ASSUME NEW hidden \in SUBSET Rooms, InitialSync(hidden)
      PROVE  Inv'
  BY <1>5, InitialSyncKeeps
<1>6. CASE ListRooms \/ Register \/ Compute \/ TakeToken \/ ComputeOnce \/ FirstChunk
  BY <1>6, ListRoomsKeeps, RegisterKeeps, ComputeKeeps, TakeTokenKeeps, ComputeOnceKeeps, FirstChunkKeeps
<1>7. CASE Return \/ Park \/ Woken \/ EventsWoken \/ Timeout \/ Expire
  BY <1>7, ReturnKeeps, ParkKeeps, WokenKeeps, ExpireKeeps
<1>8. CASE Fail \/ HangUp \/ LoseResponse \/ Deliver \/ SyncElsewhere
  BY <1>8, EndKeeps, DeliverKeeps, ElsewhereKeeps
<1>. QED
  BY <1>1, <1>2, <1>3, <1>4, <1>5, <1>6, <1>7, <1>8 DEF Next, ServerStep

\* Inv is inductive: it holds of the start and no step of the server, the database,
\* the notifier or the client breaks it.
THEOREM Invariance == Spec => []Inv
<1>1. Init => Inv
  BY InitFits
<1>2. Inv /\ [Next]_vars => Inv'
  BY NextKeeps
<1>. QED
  BY <1>1, <1>2, PTL DEF Spec

\* The handler's state is of its types, and every token it hands out is a position
\* of the log.
THEOREM TypeCorrect == Spec => []TypeOK
<1>1. Inv => TypeOK
  BY DEF Inv
<1>. QED
  BY <1>1, Invariance, PTL

\* Where an answer ends is not before where it starts.
LEMMA AnswerMovesOn ==
  ASSUME Inv, stage = "returning", since # None
  PROVE  poll.end >= since
<1>. USE DEF Inv
<1>1. /\ HasAnswer /\ poll.now >= since /\ poll.now \in 0 .. Len(log) /\ since \in 0 .. Len(log)
      /\ poll.from = since /\ Len(log) \in Nat
  BY DEF HasAnswer, NowFits, FromFits, TypeOK, Polls
<1>2. CASE api = "events"
  <2>1. /\ poll.events = ChunkOf(poll.rooms, poll.from, poll.now)
        /\ poll.end = IF poll.events = {} THEN poll.now ELSE Max(poll.events)
    BY <1>1, <1>2 DEF AnswerFits
  <2>2. poll.from \in 0 .. poll.now
    BY <1>1
  <2>3. poll.end \in poll.from .. poll.now
    BY <1>1, <2>1, <2>2, ChunkEnds
  <2>. QED
    BY <1>1, <2>3
<1>3. CASE api # "events"
  BY <1>1, <1>3 DEF AnswerFits
<1>. QED
  BY <1>2, <1>3

\* A client's token never moves backwards, whichever worker answered it before and
\* however far behind replication is (boundBySince, tokens.go:73-81; events.go's
\* end token).
THEOREM TokensOnlyGrow == Spec => TokenNeverFalls
<1>1. ASSUME Inv, [Next]_vars
      PROVE  [since # None => since' >= since]_vars
  <2>1. SUFFICES ASSUME Next, since # None
                 PROVE  since' >= since
    BY <1>1
  <2>2. Len(log) \in Nat /\ since \in 0 .. Len(log)
    BY <1>1, <2>1 DEF Inv, TypeOK
  <2>3. CASE Deliver
    <3>1. poll.end >= since
      BY <1>1, <2>1, <2>3, AnswerMovesOn DEF Deliver
    <3>. QED
      BY <2>3, <3>1 DEF Deliver
  <2>4. CASE SyncElsewhere
    BY <2>2, <2>4 DEF SyncElsewhere
  <2>5. CASE since' = since
    BY <2>2, <2>5
  <2>6. Deliver \/ SyncElsewhere \/ since' = since
    BY <2>1 DEF Next, ServerStep, Write, Replicate, Wake, Request, ListRooms, Register, Compute, TakeToken,
                ComputeOnce, FirstChunk, InitialSync, Return, Park, Woken, EventsWoken, Timeout, Fail,
                HangUp, Expire, LoseResponse, clientVars
  <2>. QED
    BY <2>3, <2>4, <2>5, <2>6
<1>. QED
  BY <1>1, Invariance, PTL DEF Spec, TokenNeverFalls

\* A poll that parked had no membership event in its window, ...
LEMMA ParkedSawNoChange ==
  ASSUME Inv, stage = "waiting", ListMatchesToken
  PROVE  /\ poll.waits /\ poll.from \in 0 .. poll.now /\ poll.now \in 0 .. Len(log) /\ Len(log) \in Nat
         /\ api # "events" => since # None /\ poll.from = since /\ SyncComplete /\ poll.events = {}
         /\ api = "events" => Found(poll.rooms, poll.from, poll.now) = {}
         /\ \A r \in Rooms : Changes(r, poll.from, poll.now) = {}
<1>. USE DEF Inv
<1>0. poll.waits /\ isEmpty /\ HasAnswer /\ poll.now \in 0 .. Len(log) /\ Len(log) \in Nat /\ api \in {"sync", "events"}
  BY ApisAssumption DEF StageFits, WakeFits, HasAnswer, TypeOK, Polls
<1>1. CASE api = "sync"
  <2>1. since # None /\ poll.from = since /\ since \in 0 .. poll.now /\ SyncComplete
    BY <1>0, <1>1 DEF StageFits, FromFits, NowFits, AnswerFits, TypeOK
  <2>2. ASSUME NEW r \in Rooms
        PROVE  Changes(r, poll.from, poll.now) = {}
    BY <1>0, <2>1, CompleteParts DEF SectionTold, SinceOrStart, isEmpty
  <2>. QED
    BY <1>0, <1>1, <2>1, <2>2 DEF isEmpty
<1>2. CASE api = "events"
  <2>1. poll.from \in 0 .. poll.now
    BY <1>0, <1>2 DEF FromFits, NowFits, TypeOK, Polls
  <2>2. ChunkOf(poll.rooms, poll.from, poll.now) = {}
    BY <1>0, <1>2 DEF AnswerFits, isEmpty
  <2>3. Found(poll.rooms, poll.from, poll.now) = {}
    BY <1>0, <2>1, <2>2, ChunkCuts
  <2>4. \A r \in Rooms : Changes(r, poll.from, poll.now) = {}
    BY <2>3, InFound
  <2>. QED
    BY <1>0, <1>2, <2>1, <2>3, <2>4
<1>. QED
  BY <1>0, <1>1, <1>2

\* ... and what the notifier was given since then is no membership event, nor an event
\* of a room that is joined now: such a room was joined when the poll parked.
LEMMA ParkedHeardNothing ==
  ASSUME Inv, stage = "waiting", ~waiter.done, ListMatchesToken, NEW r \in Rooms
  PROVE  /\ Changes(r, poll.from, Notified) = {}
         /\ RoomsAsOf(Notified)[r] = "join" =>
              \A p \in poll.from + 1 .. Notified :
                log[p].room = r =>
                  /\ p \in poll.from + 1 .. poll.now /\ poll.rooms[r] = "join"
                  /\ MembershipAtPosition(r, poll.now) = "join"
<1>. USE DEF Inv
<1>. DEFINE n == Notified
            now == poll.now
            from == poll.from
<1>0. /\ n \in 0 .. Len(log) /\ now \in 0 .. Len(log) /\ from \in 0 .. now /\ Len(log) \in Nat
      /\ n \in Nat /\ now \in Nat /\ from \in Nat /\ from \in 0 .. Len(log) /\ poll.waits
      /\ Changes(r, from, now) = {}
  BY TokenBounds, ParkedSawNoChange
<1>1. \A p \in now + 1 .. n : ~interested(waiter, log[p])
  BY <1>0 DEF WakeFits
<1>2. waiter.rooms = {q \in Rooms : poll.rooms[q] # "none"}
  BY DEF WaiterFits, Registered
<1>3. \A p \in now + 1 .. n : ~OwnMembership(log[p]) /\ log[p].room \notin waiter.rooms
  BY <1>1 DEF interested
<1>. HIDE DEF n, now, from
<1>4. \A p : ~(p \in from + 1 .. now /\ log[p].room = r /\ OwnMembership(log[p]))
  BY <1>0 DEF Changes
<1>5. \A p \in from + 1 .. n : p \in from + 1 .. now \/ p \in now + 1 .. n
  BY <1>0
<1>6. \A p : ~(p \in from + 1 .. n /\ log[p].room = r /\ OwnMembership(log[p]))
  BY <1>3, <1>4, <1>5
<1>7. Changes(r, from, n) = {}
  BY <1>6 DEF Changes
<1>8. ASSUME RoomsAsOf(n)[r] = "join", NEW p \in from + 1 .. n, log[p].room = r
      PROVE  p \in from + 1 .. now /\ poll.rooms[r] = "join" /\ MembershipAtPosition(r, now) = "join"
  <2>1. from \in 0 .. n
    BY <1>0
  <2>2. MembershipAtPosition(r, n) = "join"
    BY <1>0, <1>8, JoinedIsListed
  <2>3. MembershipAtPosition(r, from) = "join"
    BY <1>0, <1>7, <2>1, <2>2, MembershipStays
  <2>4. MembershipAtPosition(r, now) = "join"
    BY <1>0, <2>3, MembershipStays
  <2>5. poll.rooms[r] = "join"
    BY <1>0, <2>4, JoinedIsListed DEF ListMatchesToken, now
  <2>6. r \in waiter.rooms
    BY <1>2, <2>5
  <2>. QED
    BY <1>3, <1>5, <1>8, <2>4, <2>5, <2>6
<1>. QED
  BY <1>7, <1>8 DEF n, now, from

\* A parked client has no news, whatever was written, replicated and announced
\* between its list, its token and its wait, for either endpoint and at any chunk
\* limit (sync.go:972-976, events.go:255-257).
THEOREM NoWakeUpIsLost == Spec => []ParkedHasNoNews
<1>1. ASSUME Inv
      PROVE  ParkedHasNoNews
  <2>1. SUFFICES ASSUME stage = "waiting", ~waiter.done, ListMatchesToken
                 PROVE  IF api = "events" THEN ChunkOf(RoomsAsOf(Notified), poll.from, Notified) = {}
                        ELSE SectionsOf(RoomsAsOf(Notified), since, Notified) = {}
    BY DEF ParkedHasNoNews
  <2>. DEFINE n == Notified
              now == poll.now
              from == poll.from
              rooms == RoomsAsOf(n)
  <2>2. /\ TypeOK /\ n \in 0 .. Len(log) /\ now \in 0 .. Len(log) /\ from \in 0 .. now /\ Len(log) \in Nat
        /\ n \in Nat /\ now \in Nat /\ from \in Nat
        /\ api # "events" => since # None /\ from = since /\ SyncComplete /\ poll.events = {}
        /\ api = "events" => Found(poll.rooms, from, now) = {}
        /\ \A r \in Rooms : Changes(r, from, now) = {}
    BY <1>1, <2>1, TokenBounds, ParkedSawNoChange DEF Inv
  <2>3. ASSUME NEW r \in Rooms
        PROVE  /\ Changes(r, from, n) = {}
               /\ rooms[r] = "join" =>
                    \A p \in from + 1 .. n :
                      log[p].room = r =>
                        /\ p \in from + 1 .. now /\ poll.rooms[r] = "join"
                        /\ MembershipAtPosition(r, now) = "join"
    BY <1>1, <2>1, ParkedHeardNothing
  <2>. HIDE DEF n, now, from, rooms
  <2>4. CASE api = "events"
    <3>1. ASSUME NEW r \in Rooms, NEW p \in RoomEventsForward(rooms, r, from, n)
          PROVE  FALSE
      <4>. DEFINE S == {x \in from + 1 .. n : log[x].room = r}
                  T == {x \in from + 1 .. now : log[x].room = r}
      <4>1. rooms[r] = "join" /\ p \in Oldest(S) /\ p \in Window(r, from, n)
        BY <3>1 DEF RoomEventsForward
      <4>2. p \in S /\ Cardinality({o \in S : o <= p}) <= Limit
        BY <4>1 DEF Oldest
      <4>3. p \in from + 1 .. now /\ poll.rooms[r] = "join" /\ log[p].room = r /\ p \in from + 1 .. n
        BY <2>3, <4>1, <4>2
      <4>4. \A o : o \in S /\ o <= p <=> o \in T /\ o <= p
        BY <2>2, <4>3
      <4>5. {o \in S : o <= p} = {o \in T : o <= p}
        BY <4>4
      <4>6. p \in Oldest(T)
        BY <4>2, <4>3, <4>5 DEF Oldest
      <4>7. p \in Window(r, from, now)
        BY <4>1, <4>3 DEF Window
      <4>8. p \in RoomEventsForward(poll.rooms, r, from, now)
        BY <4>3, <4>6, <4>7 DEF RoomEventsForward
      <4>9. p \in Found(poll.rooms, from, now)
        BY <4>8, InFound
      <4>. QED
        BY <2>2, <2>4, <4>9
    <3>2. Found(rooms, from, n) = {}
      BY <2>3, <3>1, InFound
    <3>3. ChunkOf(rooms, from, n) = {}
      BY <2>2, <3>2, ChunkCuts
    <3>. QED
      BY <2>4, <3>3 DEF rooms, from, n
  <2>5. CASE api # "events"
    <3>1. ASSUME NEW r \in Rooms
          PROVE  Timeline(rooms, r, from, n) = {}
      <4>1. SUFFICES ASSUME rooms[r] = "join", NEW p \in Window(r, from, n)
                     PROVE  FALSE
        BY DEF Timeline
      <4>2. p \in from + 1 .. n /\ log[p].room = r /\ log[p].kind # "rejected"
        BY DEF Window
      <4>3. p \in from + 1 .. now /\ MembershipAtPosition(r, now) = "join"
        BY <2>3, <4>1, <4>2
      <4>4. p \in Window(r, from, now)
        BY <4>2, <4>3 DEF Window
      <4>5. p \in 0 .. now /\ p \in 0 .. Len(log)
        BY <2>2, <4>3
      <4>6. \A x : ~(x \in from + 1 .. now /\ log[x].room = r /\ OwnMembership(log[x]))
        BY <2>2 DEF Changes
      <4>7. \A x \in p + 1 .. now : x \in from + 1 .. now
        BY <2>2, <4>3
      <4>8. Changes(r, p, now) = {}
        BY <4>6, <4>7 DEF Changes
      <4>9. MembershipAtPosition(r, p) = "join"
        BY <2>2, <4>3, <4>5, <4>8, MembershipStays
      <4>10. EventsTold(r)
        BY <2>2, <2>5, CompleteParts
      <4>11. p \in poll.events
        BY <2>2, <2>5, <4>3, <4>4, <4>9, <4>10 DEF EventsTold, SinceOrStart, now
      <4>. QED
        BY <2>2, <2>5, <4>11
    <3>2. ASSUME NEW r \in Rooms
          PROVE  lastChange(r, from, n) = "none" /\ ~newlyJoined(rooms, r, from, n)
      BY <2>3 DEF lastChange, newlyJoined
    <3>3. SectionsOf(rooms, from, n) = {}
      BY <3>1, <3>2 DEF SectionsOf, archived
    <3>. QED
      BY <2>2, <2>5, <3>3 DEF rooms, n
  <2>. QED
    BY <2>4, <2>5
<1>. QED
  BY <1>1, Invariance, PTL

\* A chunk of /events that is read up to its token has a gap nowhere, however the two
\* cuts fall, as long as no event of the stream is a rejected one.
LEMMA ChunkHasNoGap ==
  ASSUME Inv, stage = "returning", api = "events", ListMatchesToken, "rejected" \notin Kinds, Limit # 0
  PROVE  ChunkComplete
<1>. USE DEF Inv
<1>. DEFINE from == poll.from
            now == poll.now
            F == Found(poll.rooms, from, now)
            E == poll.events
<1>1. /\ now \in 0 .. Len(log) /\ Len(log) \in Nat /\ from \in 0 .. now /\ from \in Nat /\ now \in Nat
      /\ E = ChunkOf(poll.rooms, from, now)
      /\ poll.end = IF E = {} THEN now ELSE Max(E)
  BY DEF FromFits, NowFits, AnswerFits, HasAnswer, TypeOK, Polls
<1>2. /\ E = Oldest(F) /\ (E = {} <=> F = {})
      /\ F \in SUBSET (0 .. Len(log))
  BY <1>1, ChunkCuts, FoundType
<1>3. /\ E # {} => Max(E) \in E
      /\ poll.end \in from .. now
  BY <1>1, ChunkEnds
<1>4. /\ \A m \in Oldest(F), o \in F : o <= m => o \in Oldest(F)
      /\ \A m \in Oldest(F) : m \in F /\ Cardinality({o \in F : o <= m}) <= Limit
  BY <1>2, OldestCuts
<1>. HIDE DEF F, E, from, now
<1>5. SUFFICES ASSUME NEW p \in from + 1 .. poll.end,
                      OwnMembership(log[p]) \/ (log[p].kind # "rejected"
                                                /\ MembershipAtPosition(log[p].room, now) = "join")
               PROVE  p \in E
  BY DEF ChunkComplete, from, now, E
<1>6. p \in from + 1 .. now /\ p \in Nat /\ log[p] \in Events /\ p <= poll.end
  BY <1>1, <1>3 DEF TypeOK
<1>. DEFINE r == log[p].room
<1>7. r \in Rooms
  BY <1>6 DEF Events
<1>8. p \in F => p \in E
  <2>1. SUFFICES ASSUME p \in F PROVE p \in E
    OBVIOUS
  <2>2. E # {} /\ p <= Max(E)
    BY <1>1, <1>2, <1>6, <2>1
  <2>. QED
    BY <1>2, <1>3, <1>4, <2>1, <2>2
<1>9. CASE OwnMembership(log[p])
  <2>1. p \in Changes(r, from, now)
    BY <1>6, <1>9 DEF Changes
  <2>2. p \in F
    BY <1>7, <2>1, InFound DEF F
  <2>. QED
    BY <1>8, <2>2
<1>10. CASE ~OwnMembership(log[p])
  <2>. DEFINE S == {x \in from + 1 .. now : log[x].room = r}
  <2>1. poll.rooms[r] = "join"
    BY <1>1, <1>5, <1>7, <1>10, JoinedIsListed DEF ListMatchesToken, now
  <2>2. S \in SUBSET (0 .. Len(log)) /\ p \in S
    BY <1>1, <1>6
  <2>3. \A x \in S : log[x] \in Events /\ x \in Nat
    BY <1>1 DEF TypeOK
  <2>4. S \in SUBSET Window(r, from, now)
    BY <2>3 DEF Window, Events
  <2>5. RoomEventsForward(poll.rooms, r, from, now) = Oldest(S) \cap Window(r, from, now)
    BY <2>1 DEF RoomEventsForward
  <2>. HIDE DEF S
  <2>6. /\ Oldest(S) \in SUBSET S
        /\ IF Cardinality(Oldest(S)) = Limit THEN Oldest(S) # {} ELSE Oldest(S) = S
        /\ \A m \in Oldest(S), o \in S : o <= m => o \in Oldest(S)
    BY <2>2, OldestCuts
  <2>7. Oldest(S) \in SUBSET F
    <3>1. \A x \in Oldest(S) : x \in RoomEventsForward(poll.rooms, r, from, now)
      BY <2>4, <2>5, <2>6
    <3>. QED
      BY <3>1, <1>7, InFound DEF F
  <2>8. p \in Oldest(S)
    <3>1. SUFFICES ASSUME p \notin Oldest(S) PROVE FALSE
      OBVIOUS
    <3>2. Cardinality(Oldest(S)) = Limit /\ Oldest(S) # {}
      BY <2>2, <2>6, <3>1
    <3>3. E # {} /\ Max(E) \in E /\ poll.end = Max(E)
      BY <1>1, <1>2, <1>3, <2>7, <3>2
    <3>. DEFINE B == {o \in F : o <= Max(E)}
    <3>4. Max(E) \in F /\ Cardinality(B) <= Limit /\ Max(E) \in Nat /\ Max(E) \in B
      <4>1. Max(E) \in Oldest(F)
        BY <1>2, <3>3
      <4>2. Max(E) \in F /\ Cardinality({o \in F : o <= Max(E)}) <= Limit
        BY <1>4, <4>1
      <4>3. Max(E) \in Nat
        <5>1. \A x \in F : x \in 0 .. Len(log)
          BY <1>2
        <5>. QED
          BY <5>1, <4>2
      <4>. QED
        BY <4>2, <4>3
    <3>5. \A x \in Oldest(S) : x < p /\ x <= Max(E) /\ x \in F
      <4>1. ASSUME NEW x \in Oldest(S)
            PROVE  x < p /\ x \in F /\ x \in Nat
        <5>1. x \in Nat /\ x \in F
          BY <2>3, <2>6, <2>7
        <5>2. ~(p <= x)
          BY <2>2, <2>6, <3>1
        <5>. QED
          BY <1>6, <5>1, <5>2
      <4>2. p <= Max(E)
        BY <1>6, <3>3
      <4>. QED
        BY <1>6, <3>4, <4>1, <4>2
    <3>6. Oldest(S) \in SUBSET B
      BY <3>5
    <3>7. B \in SUBSET (0 .. Len(log))
      BY <1>2
    <3>. HIDE DEF B
    <3>8. IsFiniteSet(B) /\ Cardinality(B) \in Nat
      BY <1>1, <3>7, IdsFinite
    <3>9. /\ Cardinality(Oldest(S)) <= Cardinality(B)
          /\ Cardinality(B) = Cardinality(Oldest(S)) => B = Oldest(S)
      BY <3>6, <3>8, FS_Subset
    <3>10. B = Oldest(S)
      BY <3>2, <3>4, <3>8, <3>9, BoundsAssumption
    <3>11. Max(E) < p
      BY <3>4, <3>5, <3>10
    <3>. QED
      BY <1>6, <3>3, <3>4, <3>11
  <2>. QED
    BY <1>8, <2>7, <2>8
<1>. QED
  BY <1>9, <1>10

\* A response leaves out nothing that its token steps over: of /sync always, of
\* /events where its limit is not 0 and no event is a rejected one. The code returns
\* less in those two cases (events.go drops a rejected event after the room's cut, and
\* a limit of 0 keeps the membership events only).
THEOREM ResponsesAccount ==
  ASSUME "events" \in Apis => Limit # 0 /\ "rejected" \notin Kinds
  PROVE  Spec => []ResponseComplete
<1>1. ASSUME Inv
      PROVE  ResponseComplete
  <2>1. SUFFICES ASSUME stage = "returning", ListMatchesToken
                 PROVE  IF api = "events" THEN ChunkComplete ELSE SyncComplete
    BY DEF ResponseComplete
  <2>2. CASE api = "events"
    BY <1>1, <2>1, <2>2, ChunkHasNoGap DEF Inv, TypeOK
  <2>3. CASE api # "events"
    BY <1>1, <2>1, <2>3 DEF Inv, AnswerFits, HasAnswer
  <2>. QED
    BY <2>2, <2>3
<1>. QED
  BY <1>1, Invariance, PTL

=============================================================================
