----------------------------- MODULE StreamFeed -----------------------------
(***************************************************************************)
(* One database-backed stream, from Synapse's writers to the gates that    *)
(* let a sync skip a query: the replication subscriber                     *)
(* (internal/replication), the stream feeder and the invalidator           *)
(* (cmd/gosync-worker), the prefill and the two stream-change caches the   *)
(* stream feeds (internal/store/streamgates.go), and the token a request   *)
(* is bounded by (internal/handlers/tokens.go).                            *)
(*                                                                         *)
(* An entity stands for a room and for the user whose membership of it a   *)
(* row announces, so that one row feeds both the room-keyed cache `own`,   *)
(* prefilled from the table, and the user-keyed cache `memb`, armed empty. *)
(* Read for the presence stream, `own` is its user-keyed cache.            *)
(***************************************************************************)
EXTENDS StreamCache, Sequences, FiniteSetsExt

CONSTANTS
  Writers,      \* the instances that write the stream
  Transactions, \* the row sequences a transaction may write at its position
  MaxPending,   \* maxPendingBatch
  ScanLimit,    \* the LIMIT of the CacheDict query
  MaxAnnounce,  \* bound: POSITION commands sent
  MaxDrops      \* bound: connections lost

\* A row: what it changed, and whether rowDetails could read it.
Rows == [entity : Entities, legible : BOOLEAN]

ASSUME TransactionsAssumption == Transactions \subseteq Seq(Rows) \ {<<>>}
ASSUME FeedBounds ==
  {MaxPending, ScanLimit, MaxAnnounce, MaxDrops} \subseteq Nat /\ MaxPos > 0 /\ ScanLimit > 0

VARIABLES
  tx,        \* tx[p]: the transaction that wrote position p
  outbox,    \* outbox[w]: commands writer w has published, in order, unread
  announced, \* POSITION commands sent so far
  phase,     \* where the subscriber's goroutine is
  live,      \* Subscriber.live
  position,  \* Subscriber.positions[stream]
  pending,   \* Subscriber.pending[stream]
  applying,  \* the batch handleRDATA loops over: its position, its rows, how
             \* many of them the current loop has done
  fill,      \* what CacheDict returned, and the positions given to onConnect
  own,       \* the stream's cache
  memb,      \* the membership cache, in the same position space
  seed,      \* history: the position Seed took from the database
  drops,     \* connections lost so far
  sentTop,   \* history: the highest position published before the connection
  applied    \* history: the positions whose last row this connection delivered

writerVars == <<tx, outbox, announced>>
hist == <<drops, sentTop, seed, applied>>
subVars == <<phase, live, position, pending, applying, fill, hist>>
vars == <<writerVars, subVars, own, memb>>

Positions == 1 .. MaxPos - 1

NoTx == [state |-> "none", rows |-> <<>>]
NoFill == [entries |-> {}, minPos |-> 0, at |-> 0]
NoBatch == [pos |-> 0, rows |-> <<>>, done |-> 0]

Written(p) == tx[p].state \in {"committed", "sent"}
Names(p, e) == \E i \in DOMAIN tx[p].rows : tx[p].rows[i].entity = e
TableMax == Max({0} \cup {p \in Positions : Written(p)})

Init ==
  /\ tx = [p \in Positions |-> NoTx]
  /\ outbox = [w \in Writers |-> <<>>]
  /\ announced = 0
  /\ phase = "starting" /\ live = FALSE
  /\ position = 0
  /\ pending = <<>> /\ applying = NoBatch /\ fill = NoFill
  /\ own = New(0) /\ memb = New(0)
  /\ drops = 0 /\ sentTop = 0 /\ seed = 0 /\ applied = {}

---------------------------------------------------------------------------
(* Synapse's writers (external). A position is allocated when a            *)
(* transaction begins; transactions commit in any order; a writer          *)
(* publishes its own positions in order, and a position only once every    *)
(* lower one of its own has committed. The rows of one position are a      *)
(* batch: every command but the last carries "batch" for its token.        *)

Begin(w, rows) ==
  \E p \in Positions :
    /\ tx[p].state = "none"
    /\ \A q \in Positions : q < p => tx[q].state # "none"
    /\ tx' = [tx EXCEPT ![p] = [state |-> "open", writer |-> w, rows |-> rows]]
    /\ UNCHANGED <<outbox, announced, subVars, own, memb>>

Commit(p) ==
  /\ tx[p].state = "open"
  /\ tx' = [tx EXCEPT ![p].state = "committed"]
  /\ UNCHANGED <<outbox, announced, subVars, own, memb>>

\* The commands for position p.
Batch(p) ==
  [i \in DOMAIN tx[p].rows |->
     [kind |-> IF i < Len(tx[p].rows) THEN "batch" ELSE "rdata", row |-> tx[p].rows[i], pos |-> p]]

Publish(p) ==
  /\ tx[p].state = "committed"
  /\ \A q \in Positions : q < p /\ tx[q].state # "none" /\ tx[q].writer = tx[p].writer
                            => tx[q].state = "sent"
  /\ tx' = [tx EXCEPT ![p].state = "sent"]
  /\ outbox' = [outbox EXCEPT ![tx[p].writer] = @ \o Batch(p)]
  /\ UNCHANGED <<announced, subVars, own, memb>>

\* POSITION carries max(own position, the position all is persisted up to).
OwnTop(w) == Max({0} \cup {p \in Positions : tx[p].state = "sent" /\ tx[p].writer = w})
PersistedUpTo == Max({p \in 0 .. MaxPos - 1 : \A q \in 1 .. p : Written(q)})

Announce(w) ==
  /\ announced < MaxAnnounce
  /\ announced' = announced + 1
  /\ outbox' = [outbox EXCEPT ![w] =
       Append(@, [kind |-> "position", pos |-> Max({OwnTop(w), PersistedUpTo})])]
  /\ UNCHANGED <<tx, subVars, own, memb>>

\* A command nobody is subscribed to, or that the lost connection had buffered.
Lose(w) ==
  /\ phase \in {"dropping", "down"} /\ outbox[w] # <<>>
  /\ outbox' = [outbox EXCEPT ![w] = Tail(@)]
  /\ UNCHANGED <<tx, announced, subVars, own, memb>>

---------------------------------------------------------------------------
(* The subscriber. Its session subscribes, marks itself live, and calls    *)
(* onConnect, all on the goroutine that then reads the channel.            *)

\* main: Seed(StreamPositions) once, and then Run.
Seed ==
  /\ phase = "starting"
  /\ position' = TableMax /\ seed' = TableMax
  /\ phase' = "down"
  /\ UNCHANGED <<writerVars, live, pending, applying, fill, drops, sentTop, applied, own, memb>>

Connect ==
  /\ phase = "down"
  /\ phase' = "subscribed" /\ live' = TRUE
  /\ fill' = [NoFill EXCEPT !.at = position]
  /\ sentTop' = Max({0} \cup {p \in Positions : tx[p].state = "sent"})
  /\ applied' = {}
  /\ UNCHANGED <<writerVars, position, pending, applying, own, memb, drops, seed>>

TableRows == {r \in Entities \X Positions : Written(r[2]) /\ Names(r[2], r[1])}

\* CacheDict: the newest ScanLimit rows, ties cut anywhere; see StreamChangeCache.
NewestRows(rows) ==
  /\ \A r \in rows, s \in TableRows \ rows : s[2] <= r[2]
  /\ Cardinality(rows) = Min({ScanLimit, Cardinality(TableRows)})

NewestPerEntity(rows) == {r \in rows : \A s \in rows : s[1] = r[1] => s[2] <= r[2]}

\* Mutant: the lowest row is trusted though the LIMIT may have cut its group.
TrustedFromLowest(rows, maxValue) ==
  IF rows = {} THEN maxValue ELSE Min({r[2] : r \in rows}) - 1

TrustedFrom(rows, maxValue) ==
  IF rows = {} THEN maxValue ELSE Min({r[2] : r \in rows}) + 1

ScanAndArm ==
  /\ phase = "subscribed"
  /\ \E rows \in SUBSET TableRows :
       /\ NewestRows(rows)
       /\ fill' = [fill EXCEPT !.entries = NewestPerEntity(rows),
                               !.minPos = TrustedFrom(rows, fill.at)]
       /\ own' = Arm(own, TrustedFrom(rows, fill.at))
  /\ phase' = "armed"
  /\ UNCHANGED <<writerVars, live, position, pending, applying, memb, hist>>

\* Prefill, one critical section: the horizon, each entry in map order, the end.
StartPrefill ==
  /\ phase = "armed"
  /\ own' = PrefillHorizon(own, fill.minPos)
  /\ phase' = "prefilling"
  /\ UNCHANGED <<writerVars, live, position, pending, applying, fill, memb, hist>>

PrefillEntry(r) ==
  /\ phase = "prefilling"
  /\ own' = EntityHasChanged(own, r[1], r[2])
  /\ fill' = [fill EXCEPT !.entries = @ \ {r}]
  /\ UNCHANGED <<writerVars, phase, live, position, pending, applying, memb, hist>>

EndPrefill ==
  /\ phase = "prefilling" /\ fill.entries = {}
  /\ phase' = "filled"
  /\ UNCHANGED <<writerVars, live, position, pending, applying, fill, own, memb, hist>>

ArmMembership ==
  /\ phase = "filled"
  /\ memb' = Arm(memb, fill.at)
  /\ phase' = "reading" /\ fill' = NoFill
  /\ UNCHANGED <<writerVars, live, position, pending, applying, own, hist>>

\* A scan fails: onConnect disarms every cache, and the session goes on.
PrefillFails ==
  /\ phase \in {"subscribed", "filled"}
  /\ own' = Disarm(own) /\ memb' = Disarm(memb)
  /\ phase' = "reading" /\ fill' = NoFill
  /\ UNCHANGED <<writerVars, live, position, pending, applying, hist>>

---------------------------------------------------------------------------
(* handle: one command of the channel. A position is given to the          *)
(* listeners first and adopted after, and a request may run between the    *)
(* two. After an abort the reader may take further commands before it      *)
(* notices that its session was cancelled.                                 *)

Reading == phase \in {"reading", "aborted"}

\* The next command of writer w; the writers interleave on the channel.
Takes(w, kind) ==
  /\ Reading /\ outbox[w] # <<>> /\ Head(outbox[w]).kind = kind
  /\ outbox' = [outbox EXCEPT ![w] = Tail(@)]

\* OnStreamAdvance for one row: a row naming nobody resets the cache.
FeedRow(c, row, pos) ==
  IF row.legible THEN EntityHasChanged(c, row.entity, pos) ELSE AllEntitiesChanged(c, pos)

\* OnRow for one row, and StreamCacheReset's second half.
MembershipRow(c, row, pos) == IF row.legible THEN EntityHasChanged(c, row.entity, pos) ELSE c

\* Mutant: an unreadable row leaves the membership cache as it was.
MembershipResetSkipped(c, row, pos) == c

MembershipReset(c, row, pos) == IF row.legible THEN c ELSE AllEntitiesChanged(c, pos)

\* Mutant: a batch row is filed at the position known so far.
HandleBatchAtKnown(w) ==
  /\ Takes(w, "batch")
  /\ Len(pending) < MaxPending
  /\ own' = FeedRow(own, Head(outbox[w]).row, position)
  /\ memb' = MembershipRow(memb, Head(outbox[w]).row, position)
  /\ UNCHANGED <<tx, announced, phase, live, position, pending, applying, fill, hist>>

HandleBatch(w) ==
  /\ Takes(w, "batch")
  /\ Len(pending) < MaxPending
  /\ pending' = Append(pending, Head(outbox[w]).row)
  /\ UNCHANGED <<tx, announced, phase, live, position, applying, fill, hist,
                 own, memb>>

\* The buffer is over its limit: drop it and abort the session.
Overflow(w) ==
  /\ Takes(w, "batch")
  /\ Len(pending) >= MaxPending
  /\ pending' = <<>> /\ live' = FALSE
  /\ IF live THEN drops < MaxDrops /\ drops' = drops + 1 /\ phase' = "aborting"
             ELSE UNCHANGED <<drops, phase>>
  /\ UNCHANGED <<tx, announced, position, applying, fill, sentTop, seed, applied, own, memb>>

HandleRDATA(w) ==
  /\ Takes(w, "rdata")
  /\ applying' = [pos |-> Head(outbox[w]).pos, rows |-> Append(pending, Head(outbox[w]).row),
                  done |-> 0]
  /\ pending' = <<>> /\ phase' = "invalidating"
  /\ UNCHANGED <<tx, announced, live, position, fill, hist, own, memb>>

\* One iteration of a loop over the batch, and the phase once it is over.
CurrentRow == applying.rows[applying.done + 1]
LastRow == applying.done + 1 = Len(applying.rows)
Iterate(after) ==
  /\ phase' = IF LastRow THEN after ELSE phase
  /\ applying' = [applying EXCEPT !.done = IF LastRow THEN 0 ELSE @ + 1]

\* invalidator.OnRow, for every row, and then record, for every row.
InvalidateRow ==
  /\ phase = "invalidating" /\ Iterate("feeding")
  /\ memb' = MembershipRow(memb, CurrentRow, applying.pos)
  /\ UNCHANGED <<writerVars, live, position, pending, fill, hist, own>>

RecordRow ==
  /\ phase = "feeding" /\ Iterate("recorded")
  /\ own' = FeedRow(own, CurrentRow, applying.pos)
  /\ memb' = MembershipReset(memb, CurrentRow, applying.pos)
  /\ applied' = IF LastRow THEN applied \cup {applying.pos} ELSE applied
  /\ UNCHANGED <<writerVars, live, position, pending, fill, drops, sentTop, seed>>

HandlePosition(w) ==
  /\ Takes(w, "position")
  /\ own' = AllEntitiesChanged(own, Head(outbox[w]).pos)
  /\ memb' = AllEntitiesChanged(memb, Head(outbox[w]).pos)
  /\ applying' = [NoBatch EXCEPT !.pos = Head(outbox[w]).pos]
  /\ phase' = "recorded"
  /\ UNCHANGED <<tx, announced, live, position, pending, fill, hist>>

\* advance, for a stream that is not resettable: clamped to the maximum.
\* lastByInstance decides nothing here; Typing models the streams it decides.
Advance ==
  /\ phase = "recorded"
  /\ position' = Max({position, applying.pos})
  /\ applying' = NoBatch
  /\ phase' = IF live THEN "reading" ELSE "aborted"
  /\ UNCHANGED <<writerVars, live, pending, fill, hist, own, memb>>

\* The session ends: setLive(false), and then, outside the lock, onDrop.
LoseConnection ==
  /\ phase = "reading" /\ drops < MaxDrops
  /\ drops' = drops + 1
  /\ live' = FALSE /\ pending' = <<>>
  /\ phase' = "dropping"
  /\ UNCHANGED <<writerVars, position, applying, fill, sentTop, seed, applied, own, memb>>

OnDrop ==
  /\ phase \in {"dropping", "aborting"}
  /\ own' = Disarm(own) /\ memb' = Disarm(memb)
  /\ phase' = IF phase = "dropping" THEN "down" ELSE "aborted"
  /\ UNCHANGED <<writerVars, live, position, pending, applying, fill, hist>>

\* The aborted session returns; Run calls setLive(false) again.
EndSession ==
  /\ phase = "aborted"
  /\ phase' = "down" /\ pending' = <<>>
  /\ UNCHANGED <<writerVars, live, position, applying, fill, hist, own, memb>>

---------------------------------------------------------------------------
(* The end of a request's window (currentToken): replication's position    *)
(* while live, the table's maximum otherwise.                              *)

\* Mutant: the token is the maximum of both sources.
NowTokenMaximised ==
  IF live /\ position > 0 THEN Max({position, TableMax}) ELSE TableMax

NowToken ==
  IF live /\ position > 0 THEN position ELSE TableMax

Next ==
  \/ \E w \in Writers, rows \in Transactions : Begin(w, rows)
  \/ \E p \in Positions : Commit(p) \/ Publish(p)
  \/ \E w \in Writers :
       \/ Announce(w) \/ Lose(w)
       \/ HandleBatch(w) \/ Overflow(w) \/ HandleRDATA(w) \/ HandlePosition(w)
  \/ Seed \/ Connect \/ ScanAndArm \/ ArmMembership \/ PrefillFails
  \/ StartPrefill \/ EndPrefill \/ \E r \in fill.entries : PrefillEntry(r)
  \/ InvalidateRow \/ RecordRow \/ Advance \/ LoseConnection \/ OnDrop \/ EndSession

Spec == Init /\ [][Next]_vars

---------------------------------------------------------------------------
Commands == [kind : {"batch", "rdata"}, row : Rows, pos : Positions]
              \cup [kind : {"position"}, pos : Pos]

TypeOK ==
  /\ tx \in [Positions -> {NoTx} \cup
             [state : {"open", "committed", "sent"}, writer : Writers, rows : Transactions]]
  /\ outbox \in [Writers -> Seq(Commands)]
  /\ announced \in 0 .. MaxAnnounce /\ drops \in 0 .. MaxDrops
  /\ phase \in {"starting", "down", "subscribed", "armed", "prefilling", "filled", "reading",
                "invalidating", "feeding", "recorded", "dropping", "aborting", "aborted"}
  /\ live \in BOOLEAN /\ {position, sentTop, seed} \subseteq Pos /\ applied \subseteq Positions
  /\ pending \in Seq(Rows) /\ Len(pending) <= MaxPending
  /\ applying \in [pos : Pos, rows : Seq(Rows), done : Nat]
  /\ fill \in [entries : SUBSET (Entities \X Positions), minPos : Pos, at : Pos]
  /\ own \in Caches /\ memb \in Caches

\* The entity changed in a window, as the database would show it.
ChangedIn(e, since, now) ==
  \E p \in since + 1 .. now :
    p \in Positions /\ Written(p) /\ Names(p, e)

\* RoomsWithEventsSince leaves no changed room out of a window that ends at
\* replication's position, whenever in the life of a connection it is asked,
\* and so for a window that ended at an earlier position as well: the caches
\* are told of a row before the position covers it (replication.go:284-304). A
\* transaction still open below the position the worker started from is exempt
\* (docs/tokens.md:124); Prefill holds the cache's lock.
ReplicatedWindowSound ==
  phase # "prefilling" => \A p \in Positions, since \in Pos, e \in Entities :
    seed < p /\ p <= position /\ since < p /\ Written(p) /\ Names(p, e)
      => e \in EntitiesChanged(own, since)

\* No row that this connection delivered is ever denied, whatever the writers
\* do: "A false negative is a lost event" (streamcache.go:7), and a change
\* "filed below where it happened" is one (replication.go:541-555).
DeliveredNeverDenied ==
  \A p \in applied, e \in Entities, since \in Pos :
    since < p /\ Names(p, e) => e \in EntitiesChanged(own, since)

\* The same for a window that ends at the table's maximum because replication
\* is down. "While it is down we cannot see changes happening, so the only safe
\* answer is the one that costs a query" (DisarmStreamCaches,
\* streamgates.go:208-217).
DownWindowSound ==
  ~live => \A since \in 0 .. NowToken, e \in Entities :
    ChangedIn(e, since, NowToken) => e \in EntitiesChanged(own, since)

\* AnyPresenceSince never says "nothing moved" of a window that something
\* moved in (streamgates.go:244-255).
AnyGateSound ==
  phase # "prefilling" => \A since \in 0 .. position, e \in Entities :
    ChangedIn(e, since, position) => HasAnyEntityChanged(own, since)

\* The membership gate never says "unchanged" of a user whose membership moved
\* in the window. The cache is armed at the positions given to onConnect:
\* "they know nothing below it, which is exactly true" (streamgates.go:201-204).
MembershipGateSound ==
  \A since \in 0 .. position, e \in Entities :
    ChangedIn(e, since, position) => HasEntityChanged(memb, e, since)

\* It never does of a change published since the connection was made.
MembershipSoundSinceConnect ==
  \A since \in sentTop .. position, e \in Entities :
    ChangedIn(e, since, position) => HasEntityChanged(memb, e, since)

\* A token minted from replication never steps over a transaction that has yet
\* to commit, because nothing would ever report its events (tokens.go:28-58).
\* The startup seed is exempt: it is the table's maximum (docs/tokens.md:124).
TokenCoversCommitted ==
  live /\ position > 0 => \A p \in Positions : seed < p /\ p <= NowToken => Written(p)
=============================================================================
