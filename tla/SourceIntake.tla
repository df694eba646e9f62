----------------------------- MODULE SourceIntake -----------------------------
(***************************************************************************)
(* How the messages of a source channel reach the ledger: one turn of      *)
(* KiwiService.run_once after another (src/kiwi/service.py), with the      *)
(* Telethon reader (src/kiwi/platforms/telethon_source.py) or the Bot API. *)
(*                                                                         *)
(* All routes of the model read the same channel, hence share one cursor.  *)
(* Telethon's cursor lives in memory and is primed from the checkpoints    *)
(* after a restart; the Bot API's offset is saved before the messages of   *)
(* the batch are registered, and the server forgets what lies below it.    *)
(* Deliver stands for the engine of module SyncWorker.                     *)
(***************************************************************************)
EXTENDS Integers, FiniteSets, FiniteSetsExt

CONSTANTS
  Routes,      \* the routes of the channel
  Modes,       \* "telethon", "bot": TELEGRAM_SOURCE_MODE
  LastMessage, \* bound: the channel's last message id
  Album,       \* the consecutive ids of an album, published together; the others are single
  Backfill,    \* Backfill[r]: sync_backfill_count
  Started,     \* the routes that are not stopped at the beginning
  PollLimit,   \* poll_batch_size
  Budgets      \* bound: how many restarts, failed polls, and stops or starts there are

Messages == 1..LastMessage

ASSUME SourceIntakeAssumption ==
  /\ LastMessage \in Nat \ {0} /\ PollLimit \in Nat \ {0}
  /\ Modes \subseteq {"telethon", "bot"} /\ Modes # {}
  /\ Album \subseteq Messages
  /\ \A a, b \in Album : \A m \in Messages : a < m /\ m < b => m \in Album
  /\ Backfill \in [Routes -> Nat] /\ Started \subseteq Routes
  /\ Budgets \subseteq [{"crash", "fault", "operator"} -> Nat]

None == -1  \* no checkpoint row, no cursor

VARIABLES
  mode,
  published,  \* the channel's latest message
  cursor,     \* last id read: _last_message_id of the cursor key, or the offset
  checkpoint, \* checkpoint[r] in the ledger
  status,     \* status[r]
  rows,       \* rows[r]: what is registered, each row the ids it carries
  sent,       \* sent[r]: the rows that are terminal
  bucket,     \* bucket[r]: members of an album that waits in _pending_media_groups
  idle,       \* the routes whose bucket was not touched in the last turn
  ready,      \* the messages of this turn that are still to be registered
  pc,         \* where run_once is
  base,       \* base[r]: the first checkpoint (a history)
  missed,     \* missed[r]: what a fault, a stop or a shared cursor cost r (a history)
  calm,       \* nothing has happened so far that may cut an album (a history)
  budget

intakeVars == <<mode, published, cursor, checkpoint, status, rows, sent, bucket, idle,
                ready, pc, base, missed, calm, budget>>

IntakeTypeOK ==
  /\ published \in 0..LastMessage /\ cursor \in None..LastMessage
  /\ checkpoint \in [Routes -> None..LastMessage]
  /\ status \in [Routes -> {"syncing", "synced", "deactive"}]
  /\ \A r \in Routes : rows[r] \subseteq SUBSET Messages /\ sent[r] \subseteq rows[r]
  /\ bucket \in [Routes -> SUBSET Album] /\ idle \subseteq Routes
  /\ ready \subseteq Routes \X SUBSET Messages
  /\ pc \in {"baseline", "poll", "register", "drain", "activate"}

IntakeInit ==
  /\ mode \in Modes
  /\ published \in {0, 1} \ Album
  /\ cursor = IF mode = "bot" THEN 0 ELSE None
  /\ checkpoint = [r \in Routes |-> None]
  /\ status = [r \in Routes |-> IF r \in Started THEN "syncing" ELSE "deactive"]
  /\ rows = [r \in Routes |-> {}] /\ sent = rows
  /\ bucket = [r \in Routes |-> {}] /\ idle = {} /\ ready = {}
  /\ pc = "baseline"
  /\ base = [r \in Routes |-> None]
  /\ missed = [r \in Routes |-> {}]
  /\ calm = TRUE
  /\ budget \in Budgets

Spend(what) == budget[what] > 0 /\ budget' = [budget EXCEPT ![what] = @ - 1]

\* The id a row has in the ledger: of merged members, the highest.
RowId(row) == Max(row)
Carried(r) == UNION rows[r]
Pending(r) == rows[r] \ sent[r]
Active == {r \in Routes : status[r] # "deactive"}
Cuts(c) == \E a, b \in Album : a <= c /\ c < b
Between(a, b) == {m \in Messages : a < m /\ m <= b}
AtLeast(a, b) == IF a > b THEN a ELSE b

-----------------------------------------------------------------------------
\* The channel gets a message, or a whole album.
Publish ==
  /\ published < LastMessage
  /\ published' = IF published + 1 \in Album THEN Max(Album) ELSE published + 1
  /\ UNCHANGED <<mode, cursor, checkpoint, status, rows, sent, bucket, idle, ready, pc,
                 base, missed, calm, budget>>

\* _ensure_sync_baseline: the checkpoint of a route that has none begins
\* backfill_count below the latest message, or at 0 when that is not known: there
\* is no reader, its look-up failed, or did not answer within 3 s.
LatestKnown == IF mode = "bot" THEN {0} ELSE {0, published}

EnsureBaseline(r) ==
  /\ pc = "baseline" /\ r \in Active /\ checkpoint[r] = None
  /\ \E latest \in LatestKnown :
       LET first == AtLeast(0, latest - Backfill[r]) IN
       /\ latest # published => budget.fault > 0 \/ mode = "bot"
       /\ budget' = [budget EXCEPT !.fault = IF latest # published /\ @ > 0 THEN @ - 1 ELSE @]
       /\ checkpoint' = [checkpoint EXCEPT ![r] = first]
       /\ base' = [base EXCEPT ![r] = first]
       /\ status' = [status EXCEPT ![r] = IF latest = 0 THEN "syncing"
                                          ELSE IF latest > first THEN "syncing"
                                          ELSE "synced"]
       /\ missed' = [missed EXCEPT ![r] = @ \cup Between(first, cursor)]
       /\ calm' = (calm /\ ~Cuts(first))
  /\ UNCHANGED <<mode, published, cursor, rows, sent, bucket, idle, ready, pc>>

\* What a cursor that moves to c, whatever route r has got, passes over for it.
PassedOver(r, c) == Between(AtLeast(cursor, checkpoint[r]), c)

Primed == IF mode = "bot" THEN cursor ELSE Max({cursor} \cup {checkpoint[r] : r \in Active})

\* A route that is synced with no checkpoint to show for it goes back to syncing;
\* then prime_cursor, for each route in turn, sets the cursor or moves it on.
PrimeCursor ==
  /\ pc = "baseline" /\ \A r \in Active : checkpoint[r] # None
  /\ cursor' = Primed
  /\ missed' = [r \in Routes |-> missed[r] \cup (PassedOver(r, Primed) \ Carried(r))]
  /\ calm' = (calm /\ \A r \in Active : PassedOver(r, Primed) \cap Album = {})
  /\ status' = [r \in Routes |-> IF status[r] = "synced" /\ checkpoint[r] <= 0
                                 THEN "syncing" ELSE status[r]]
  /\ pc' = "poll"
  /\ UNCHANGED <<mode, published, checkpoint, rows, sent, bucket, idle, ready, base, budget>>

-----------------------------------------------------------------------------
\* What a poll reads: the oldest messages above the cursor; a channel all of whose
\* routes are stopped is not polled by Telethon.
Unread == IF mode = "telethon" /\ Active = {} THEN {} ELSE {m \in Messages : cursor < m /\ m <= published}

\* Mutant: the newest messages come first.
NewestBatch == {m \in Unread : Cardinality({l \in Unread : l >= m}) <= PollLimit}

NextBatch == {m \in Unread : Cardinality({l \in Unread : l <= m}) <= PollLimit}

\* poll_messages names the routes that are not stopped; the Bot API's updates are
\* matched with every route of the channel.
InScope == IF mode = "bot" THEN Routes ELSE Active

\* Mutant: a bucket that something has joined just now is flushed as well.
MayFlushAny(touched) == {r \in Routes : bucket[r] # {}}

\* Mutant: a bucket need never be flushed.
MustFlushNone(touched) == {}

\* _flush_ready_media_groups empties the buckets nothing has joined for
\* media_group_wait_sec: a bucket left alone for one turn may be, for two is.
MayFlush(touched) == {r \in Routes \ touched : bucket[r] # {}}

MustFlush(touched) == idle \ touched

\* _collect_ready_messages: a single message is ready, a member joins its bucket.
Singles(batch) == {<<r, {m}>> : r \in InScope, m \in batch \ Album}

Collect(batch) ==
  LET touched == {r \in InScope : batch \cap Album # {}}
      full == [r \in Routes |-> IF r \in touched THEN bucket[r] \cup (batch \cap Album) ELSE bucket[r]]
  IN \E flushed \in SUBSET MayFlush(touched) :
       /\ MustFlush(touched) \subseteq flushed
       /\ ready' = Singles(batch) \cup {<<r, bucket[r]>> : r \in flushed}
       /\ bucket' = [r \in Routes |-> IF r \in flushed THEN {} ELSE full[r]]
       /\ idle' = {r \in Routes \ (touched \cup flushed) : bucket[r] # {}}

OutOfScopeMisses(batch) == [r \in Routes |-> IF r \in InScope THEN missed[r] ELSE missed[r] \cup batch]

Poll ==
  /\ pc = "poll" /\ (cursor # None \/ Active = {})
  /\ Collect(NextBatch)
  /\ cursor' = IF NextBatch = {} THEN cursor ELSE Max(NextBatch)
  /\ missed' = OutOfScopeMisses(NextBatch)
  /\ pc' = "register"
  /\ UNCHANGED <<mode, published, checkpoint, status, rows, sent, base, calm, budget>>

\* The first poll of a cursor nothing has primed (its route was started since)
\* begins at the latest message, whatever the route's checkpoint.
FirstPoll ==
  /\ pc = "poll" /\ cursor = None /\ Active # {}
  /\ Collect({})
  /\ cursor' = published
  /\ missed' = [r \in Routes |-> missed[r] \cup (PassedOver(r, published) \ Carried(r))]
  /\ pc' = "register"
  /\ UNCHANGED <<mode, published, checkpoint, status, rows, sent, base, calm, budget>>

\* A source that raises keeps its cursor, and what was parsed of it before is used.
PollBreaks ==
  /\ pc = "poll" /\ mode = "telethon" /\ cursor # None /\ Spend("fault")
  /\ \E m \in NextBatch \cup {0} : Collect({l \in NextBatch : l <= m})
  /\ calm' = FALSE
  /\ pc' = "register"
  /\ UNCHANGED <<mode, published, cursor, checkpoint, status, rows, sent, base, missed>>

\* The time-out of the whole poll, while a later source is read: this channel's
\* cursor has moved and its messages are thrown away.
PollTimesOut ==
  /\ pc = "poll" /\ mode = "telethon" /\ cursor # None /\ Spend("fault")
  /\ Collect({})
  /\ cursor' = IF NextBatch = {} THEN cursor ELSE Max(NextBatch)
  /\ missed' = [r \in Routes |-> missed[r] \cup NextBatch]
  /\ calm' = FALSE
  /\ pc' = "register"
  /\ UNCHANGED <<mode, published, checkpoint, status, rows, sent, base>>

\* get_updates raises: without a reader beside it, the turn is over.
GetUpdatesFails ==
  /\ pc = "poll" /\ mode = "bot" /\ Spend("fault")
  /\ calm' = FALSE
  /\ pc' = "baseline"
  /\ UNCHANGED <<mode, published, cursor, checkpoint, status, rows, sent, bucket, idle, ready, base, missed>>

-----------------------------------------------------------------------------
\* Lowest id first, as run_once sorts what is ready.
Nearest(item) == item \in ready /\ \A other \in ready : RowId(item[2]) <= RowId(other[2])

\* Nothing at or below the checkpoint is registered.
AboveCheckpoint(r, row) == checkpoint[r] = None \/ RowId(row) > checkpoint[r]

\* register_message finds a row by its id: one that is terminal stays as it is,
\* another gets the new payload, be it with fewer members.
Registered(r, row) ==
  LET same == {k \in rows[r] : RowId(k) = RowId(row)} IN
  IF same \cap sent[r] # {} THEN rows[r] ELSE (rows[r] \ same) \cup {row}

\* _enqueue_sync_message; a stopped route's message is dropped before it.
EnqueueSyncMessage ==
  /\ pc = "register"
  /\ \E item \in ready :
       LET r == item[1]  row == item[2] IN
       /\ Nearest(item)
       /\ ready' = ready \ {item}
       /\ IF r \in Active /\ AboveCheckpoint(r, row)
          THEN /\ rows' = [rows EXCEPT ![r] = Registered(r, row)]
               /\ status' = [status EXCEPT ![r] = "syncing"]
               /\ missed' = [missed EXCEPT ![r] = @ \cup ((Carried(r) \cup row) \ UNION Registered(r, row))]
          ELSE /\ missed' = IF r \in Active THEN missed ELSE [missed EXCEPT ![r] = @ \cup row]
               /\ UNCHANGED <<rows, status>>
  /\ UNCHANGED <<mode, published, cursor, checkpoint, sent, bucket, idle, pc, base, calm, budget>>

EndRegistering ==
  /\ pc = "register" /\ ready = {}
  /\ pc' = "drain"
  /\ UNCHANGED <<mode, published, cursor, checkpoint, status, rows, sent, bucket, idle, ready,
                 base, missed, calm, budget>>

\* run() gives a turn a time limit: cut off while it registers, it loses the rest.
RunOnceTimesOut ==
  /\ pc = "register" /\ ready # {} /\ Spend("fault")
  /\ missed' = [r \in Routes |-> missed[r] \cup UNION {item[2] : item \in {i \in ready : i[1] = r}}]
  /\ ready' = {}
  /\ calm' = FALSE
  /\ pc' = "baseline"
  /\ UNCHANGED <<mode, published, cursor, checkpoint, status, rows, sent, bucket, idle, base>>

-----------------------------------------------------------------------------
\* Mutant: albums in their buckets do not hold the checkpoint back.
Uncapped(r) == LastMessage

\* A row is concluded, lowest first, and the checkpoint follows it, but not into
\* an album that is still in its bucket (_checkpoint_target_with_pending_groups).
\* A turn drains before it polls and after it has registered. A route started since
\* the baseline was looked at gets its checkpoint here, without a backfill.
BelowBucket(r) == IF bucket[r] = {} THEN LastMessage ELSE Min(bucket[r]) - 1

Deliver(r) ==
  /\ pc \in {"poll", "drain"} /\ r \in Active /\ Pending(r) # {}
  /\ LET row == CHOOSE k \in Pending(r) : \A l \in Pending(r) : RowId(k) <= RowId(l)
         target == IF RowId(row) <= BelowBucket(r) THEN RowId(row) ELSE BelowBucket(r)
     IN /\ sent' = [sent EXCEPT ![r] = @ \cup {row}]
        /\ checkpoint' = [checkpoint EXCEPT ![r] = AtLeast(@, target)]
        /\ base' = [base EXCEPT ![r] = IF @ = None THEN Min(row) - 1 ELSE @]
  /\ UNCHANGED <<mode, published, cursor, status, rows, bucket, idle, ready, pc, missed, calm, budget>>

EndDrain ==
  /\ pc = "drain"
  /\ pc' = "activate"
  /\ UNCHANGED <<mode, published, cursor, checkpoint, status, rows, sent, bucket, idle, ready,
                 base, missed, calm, budget>>

\* _maybe_auto_activate_route. Without a reader the checkpoint itself counts as
\* the latest message.
CaughtUp(r) ==
  /\ status[r] = "syncing" /\ Pending(r) = {} /\ checkpoint[r] > 0
  /\ mode = "telethon" => published <= checkpoint[r]

AutoActivate ==
  /\ pc = "activate"
  /\ status' = [r \in Routes |-> IF CaughtUp(r) THEN "synced" ELSE status[r]]
  /\ pc' = "baseline"
  /\ UNCHANGED <<mode, published, cursor, checkpoint, rows, sent, bucket, idle, ready, base,
                 missed, calm, budget>>

-----------------------------------------------------------------------------
\* The operator stops or starts a route.
StopRoute(r) ==
  /\ r \in Active /\ Spend("operator")
  /\ status' = [status EXCEPT ![r] = "deactive"]
  /\ calm' = FALSE
  /\ UNCHANGED <<mode, published, cursor, checkpoint, rows, sent, bucket, idle, ready, pc, base, missed>>

StartRoute(r) ==
  /\ r \notin Active /\ Spend("operator")
  /\ status' = [status EXCEPT ![r] = "syncing"]
  /\ calm' = FALSE
  /\ UNCHANGED <<mode, published, cursor, checkpoint, rows, sent, bucket, idle, ready, pc, base,
                 missed>>

\* The process dies and starts again: what is in memory is gone.
Lost(r) == bucket[r] \cup UNION {item[2] : item \in {i \in ready : i[1] = r}}

\* ... and is not read again, if the offset has passed it, or if the ledger holds a
\* higher row: that is delivered before the next poll, and the checkpoint is above
\* the album when its members come in again.
LostForGood(r) ==
  IF mode = "bot" THEN Lost(r) ELSE {m \in Lost(r) : \E row \in Pending(r) : RowId(row) > m}

Restart ==
  /\ Spend("crash")
  /\ cursor' = IF mode = "bot" THEN cursor ELSE None
  /\ missed' = [r \in Routes |-> missed[r] \cup LostForGood(r)]
  /\ calm' = (calm /\ mode = "telethon")
  /\ bucket' = [r \in Routes |-> {}] /\ idle' = {} /\ ready' = {}
  /\ pc' = "baseline"
  /\ UNCHANGED <<mode, published, checkpoint, status, rows, sent, base>>

IntakeNext ==
  \/ Publish
  \/ (\E r \in Routes : EnsureBaseline(r)) \/ PrimeCursor
  \/ Poll \/ FirstPoll \/ PollBreaks \/ PollTimesOut \/ GetUpdatesFails
  \/ EnqueueSyncMessage \/ EndRegistering \/ RunOnceTimesOut
  \/ (\E r \in Routes : Deliver(r)) \/ EndDrain \/ AutoActivate
  \/ (\E r \in Routes : StopRoute(r) \/ StartRoute(r))
  \/ Restart

\* run() begins a turn after another; every step of a turn is the loop's own.
IntakeFairness ==
  /\ WF_intakeVars((\E r \in Routes : EnsureBaseline(r)) \/ PrimeCursor \/ Poll \/ FirstPoll
                     \/ EnqueueSyncMessage \/ EndRegistering \/ EndDrain \/ AutoActivate)
  /\ \A r \in Routes : SF_intakeVars(Deliver(r))

IntakeSpec == IntakeInit /\ [][IntakeNext]_intakeVars /\ IntakeFairness

-----------------------------------------------------------------------------
\* Below the checkpoint nothing is left behind: each message between a route's
\* first checkpoint and its present one was delivered, is one that a fault, a stop
\* or a cursor shared with another route cost it, or belongs to a row above the
\* checkpoint that is still to be delivered (the rest of its album was read again, and
\* concluded first). Crashes alone cost nothing with Telethon: the checkpoint never
\* passes what a restart would have to read again (the order of registering, the cap
\* at waiting albums, the priming).
Straddling(r) == UNION {row \in Pending(r) : RowId(row) > checkpoint[r]}

CheckpointCovers ==
  \A r \in Routes : checkpoint[r] # None =>
    Between(base[r], checkpoint[r]) \subseteq (UNION sent[r]) \cup missed[r] \cup Straddling(r)

\* Nothing the cursor has passed is forgotten: it is in the ledger, in a bucket or
\* about to be registered, or is known to be lost for the reasons above.
CursorCovers ==
  \A r \in Routes : checkpoint[r] # None =>
    Between(base[r], cursor) \subseteq
      Carried(r) \cup missed[r] \cup Lost(r) \cup Between(0, checkpoint[r])

\* No message falls between the source, the buckets, the ledger and the checkpoint.
NothingPassedIsForgotten == IntakeTypeOK /\ CheckpointCovers /\ CursorCovers

\* An album is registered whole, unless a poll failed, a route was stopped or
\* started, its backfill began or a shared cursor was moved inside the album, or (with
\* the Bot API) the process died, before or between its members.
AlbumsAreWhole ==
  calm => \A r \in Routes : \A row \in rows[r] : row \cap Album # {} => row = Album

\* Again and again all that was published has got to the ledger of each route that is
\* not stopped, but for what a fault, a stop or the shared cursor cost it: polling,
\* buckets and registering starve no message.
Arrived(r, m) == m \in Carried(r) \cup missed[r] \/ m <= base[r]
EveryMessageArrives == []<>(\A r \in Active : \A m \in 1..published : Arrived(r, m))
===============================================================================
