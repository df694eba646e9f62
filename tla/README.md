# Kiwicore: a TLA+ model of the relay

Kiwicore relays the posts of Telegram channels to Bale channels.  This directory
models its relay engine, the stores and sources around it, what decides on the
words of a post, the edits of its configuration, and the monitor page
(`src/src/kiwi`, `src/scripts`).  TLC checks the models on small instances, and
TLAPS proves every safety property of the passing runs for every number of routes, messages,
workers, callers, outputs and tries.

Paths in comments are relative to the repository; line numbers are those of its files.

## 1. The system

| Component | State it keeps | Operations | Talks to |
|---|---|---|---|
| relay engine, `service.py` | routes in force, media-group buckets, interval clock, hydration flag, the drain task, media cache | `run_once` loop: hydrate, baseline, poll, register, drain; `_process_queued_item`; the attempts and stages of a delivery; forced backfill; auto-activation | everything below |
| sync ledger, `sync_ledger.py` | `sync_message_ledger`, `sync_route_checkpoint`, `sync_review_queue` (SQLite or MySQL) | one committed transaction per method | called by the engine and route management |
| sync queue, `sync_queue.py` | entries by due time, route locks with owner and TTL (memory or Redis) | enqueue, pop_due, acquire and release of a lock, purge | called by the engine and route management |
| route management, `management_api.py` | the routes file | start, stop, delete, edit, force sync, review retry and skip | ledger, queue, engine (reload) |
| Telegram sources: Bot API and `platforms/telethon_source.py` | update offset, cursor per source and topic | poll, seed, latest id, expand an album | called by the engine |
| guards, `guard_runner.py`, `scripts/gaurd_scrpts` | `last_reason` | a process per message: rules, then questions to a model | called by the engine |
| channel scripts, `script_runner.py`, `scripts/channel_scripts` | none | a process per message: asks a model for a text, judges it, asks again, makes the outputs | called by the engine |
| keyword links, `keyword_links.py` | table of the file and the file's time | turns keywords of the outputs into links | called by the engine |
| dispatcher and client, `dispatcher.py`, `platforms/client.py` | ids of the last dispatch, upload slots | send the outputs in order, as albums where they belong together; repeat a request; fall back to another form | called by the engine |
| message monitor, `message_monitor.py` | a row per message, a ring of events | register, note a stage, clear a route, list | engine writes, front ends read |
| web administration, `web_admin.py`, `webui/app.js` | sessions; sockets and the position of the push loop; the page's rows, timers and flags | HTTP calls of route management with a time-out, websockets that push events | management, monitor |
| traffic history, admin bot and store, configuration, logging | statistics, dialogues, environment | views and front ends of the calls above | engine, management |

One asyncio loop runs the engine.  What lies between two `await`s is atomic; the
awaits are the queue operations (with Redis), the polls, the external processes,
the requests and the alerts.  `run_once` is sequential: it registers what the
sources gave and then awaits a drain.  A drain pops a batch of due entries and runs
`_process_queued_item` for each in a pool of `SYNC_WORKER_COUNT` workers.  The
administration runs in other threads, edits the routes file and calls the ledger and
the queue directly; some of its calls run on the engine's loop and are cut off by the
request's time-out.

What is hard: the gates of `_process_queued_item` (order, checkpoint, interval) are
read before the route lock is awaited and not read again; a delivery may have happened
although nobody knows, in whole or in part; requests are repeated by the client, by
the attempt loop and by the queue; an entry may be in the queue, in a popped batch and
in a worker's hands at once; an operation on Redis is several commands; the offset,
the cursor, the album buckets and the checkpoint are four places where a message can
have been passed; the routes are kept in a file and in memory, and each writer of the
file reads it long before it writes; two deliveries share files, caches and fields.

What makes each component correct:

- *ledger*: a final row stays final, a checkpoint never moves back, an open question
  about a delivery is never lost;
- *queue*: an entry that was asked for is handed out, due no later than anybody asked;
  one owner per lock;
- *engine*: order within a route, no message dropped or forgotten, no duplicate unless a
  delivery is in doubt, progress after a crash;
- *sources*: every message gets to the ledger, albums whole, across restarts;
- *management*: a stopped route stays stopped and resumes where it was, an edit
  overwrites nothing but what it edits, the engine works with what the file says, a
  forced window is settled;
- *content*: what is let through was judged, no raw text of the source where that is
  forbidden, no part of a post lost on the way, a good text is not asked for again;
- *dispatcher and client*: outputs in order, none left out of a delivery that returns
  ok, none sent again that is known to have arrived; every delivery returns;
- *monitor*: the page shows the service's rows in the end.

`PROJECT.json` lists every component, and under `hazards` every place in the code
where one of these could go wrong and a test would hardly reach it.

## 2. Modules

| Module | Models | Composed in |
|---|---|---|
| `SyncLedger` | the three tables and the ledger's methods, one update each | `SyncWorker` |
| `SyncQueue` | the due queue and the route locks, one operator per backend operation | `SyncWorker` |
| `SyncWorker` | the engine: loop, drain, workers, crashes and time-outs, management calls | `MCRelay` |
| `OrderedRelay` | the abstract specification: what a route's messages may do | refined by `SyncWorker` |
| `Dispatch` | deliveries: the attempts, the dispatcher, the client's requests, the platform's answers | `MCDispatch` |
| `RedisQueue` | enqueue, pop_due and purge_route, one action per round trip to Redis | `MCStores` |
| `RedisLock` | SET NX, GET, DEL and the TTL of a route's lock | `MCStores` |
| `Workspace` | working directory, media cache, download with retries, `last_reason` | `MCStores` |
| `MonitorFeed` | the monitor, the push loop, the sockets and the page | `MCStores` |
| `SourceIntake` | turns of `run_once` between a channel and the ledger: baseline, cursor, offset, poll, album buckets, registering, checkpoint | `MCIntake` |
| `RouteConfig` | the routes file, the registry, the calls that edit and reload, the engine's own patches | `MCRoutes` |
| `ForceSync` | `force_route_sync` and `force_sync_route_backfill` beside the poll and the drain | `MCRoutes` |
| `PostText` | what scripts tell apart in a text, and the helpers that put it on messages | `ChannelScript` |
| `ChannelScript` | one run of the film and football scripts: questions, judgements, repetitions, outputs | `PostPipeline` |
| `PostPipeline` | one post from download to dispatch with the attempts around it; extends the two above | `MCContent` |
| `GuardRules` | one run of a guard: rules, questions to the model, the runner's reading of the answer | `MCContent` |
| `KeywordLinks` | reading of the table, priorities, choice among overlapping matches | `MCContent` |
| `MC*` | the instances TLC checks | |
| `SyncWorkerProofs`, `DispatchProofs`, `RouteConfigProofs`, `ForceSyncProofs` | theorems about the module of that name | |
| `SyncOutcomeProofs` | what becomes of a message in `SyncWorker`, and that it implements `OrderedRelay` | |
| `StoresProofs` | theorems about `RedisQueue`, `RedisLock` and `Workspace` | |
| `IntakeProofs` | theorems about `SourceIntake` | |
| `ContentProofs` | theorems about `GuardRules`, `PostPipeline` and `KeywordLinks` | |

`MCStores`, `MCContent` and `MCRoutes` put side by side parts that share no state; a
variable `part`, chosen at the start, says which of them runs, so that their states
add up instead of multiplying.

### How the model corresponds to the code

*Keys.*  A key is a `dedupe_key`.  `Id` is its message id (for an album the largest
member, as `_merge_group_messages` gives it), `First` the smallest member's.  Two keys
of a route have different ids (assumption `DistinctIds`).

*Ledger.*  `status`, `lastError` and `attempts` are columns of a row; error texts are
classes, because the code only tells apart `route_deactive` and whether an error is
there.  `attempts` is counted up to `AiMax`, the only number it is compared with.
`review` is the newest review of a key.

*Queue.*  In `SyncQueue` a set of keys: `enqueue` keeps one entry per key, and a due time
only decides when it is popped, so any subset of at most `BatchLimit` entries may be
popped.  A lock has an owner, is `Free`, or is an `Orphan`: its owner is gone and its
TTL still runs.  In `RedisQueue` an entry has its score, and `due`, `named` are the
sorted set and the route's hash.  `enqueue` is `ReadScore`, `WriteFields`, `WriteScore`;
`pop_due` takes the minimum out (`PopMin`), and puts it back if it is not due
(`PutBack`); `purge_route` reads, then removes.  `asked` is the history of what callers
asked for, `raced` the entries whose score was overwritten unread.

*Workers.*  `pc` names the await a worker of `_process_queued_item` is suspended in:

    idle --gates--> acquire --lock--> process --deliver--> settle --> release --> idle
      \                \                                     |-> notify -^
       \--> requeue <---/                                    '-> retry  -^

Everything the code does up to the next await is one action: `PassGates` (the gates at
826-912), `WaitForOrder` (877-908), `LockTaken` (the lock, then `mark_processing`),
`Deliver` (the attempt loop, down to one outcome), `Confirm`, `Block`, `GiveUpOnAi`,
`HoldForReview`, `RetryLater` (980-1090), `Release` (the `finally`).  A delivery is one
step there, with an outcome that is posted or not: `ok` is; an `ambiguous` one may be;
with `partial`, any other may be as well.  What happens inside a delivery is the
subject of `PostPipeline` (up to the dispatcher) and `Dispatch` (from there).

*Loop.*  `Hydrate`, `Arrive`, `CollectAlbum`, `FlushAlbum` and `StartDrain` happen when no
drain runs, as in `run_once`.  A bucket remembers the status of the route object it was
opened with, which is what `run_once` asks when it is flushed.  `SourceIntake` is the
same loop seen from the source: `pc` is the place in the turn, `EnsureBaseline`,
`PrimeCursor`, `Poll` (with its failures and its time budget), `EnqueueSyncMessage`,
`EndRegistering`, and `Deliver` for all the engine does.  Telethon's cursor is lost by a
crash and primed from the checkpoints; the Bot API's offset is saved before the batch is
registered.  `missed` is the history of what was lost, with its reason in the action that
adds to it: a poll that failed, a stop, a cursor shared with another route.

*Environment of the engine.*  The constant `Events` says what may go wrong or be asked
for: `crash`, `cancel` (the drain times out), `expire` (a lock's TTL runs out while its
owner works), `redeliver`, `ambiguous`, `partial` (a delivery that does not end ok has
reached the destination), `interval`, `queueError` (a Redis call raises), `stop`,
`startAll`, `delete`, `skip`, `retry`.  With the in-memory queue a crash loses entries and
locks; with Redis both stay.  A cancelled or failed `SET NX` may have set the lock:
`AskedLocks`.  A process dies in an await (`Crash`), or between the two transactions that
record an outcome, when the row's status is on the disk and its checkpoint or its review
is not (`CrashHalfSettled`); no other coroutine runs between these two, which is why they
are one step otherwise.

*Routes.*  A call of `RouteConfig` is `BeginCall` (read the file, compute the new
contents), `Write` (replace it, under the file lock), `Read` (read it again), `Install`
(the new registry).  `TakeRoute` is the loop taking a route object from the registry; it
keeps it across an await, in which a reload may replace the registry (`linked` becomes
false), and then patches it (`AutoActivateRoute`, `MarkSyncing`).  A call writes back the
whole list it read (`_save_and_reload`), so calls about different routes undo one another as
well.  `seen[c]` is the file as `c` read it, `crossed` that the registry was last installed
from a file that had been replaced meanwhile.  `Canonical` is the form in which entries are
written: 0 retries become 2.

*Forced synchronisation.*  `force.at` is the await the request is in: lock, purge, clear,
release, reset, seed, then for each message the enqueue and, for the first `Immediate`
of them, the delivery without the lock; then the drain it waits for, if it left anything.
`worker` is the drain's worker, `old` since before the reset.  `Settle` is every outcome of
a delivery, by worker or request: sent, blocked, `ambiguous`, or tried again, where the last
two may have brought the message, or part of it, to the destination (`PostedUnmarked`).
`paced` is the interval gate of a syncing route, `RecoverStale` the recovery at the beginning
of a drain.  The request's time-out cancels it in the await it is in (`RequestTimesOut`); in
the last one it cancels the drain with it, which the loop awaits too.  `twice`, `doubt`,
`late`, `skipped` are histories of the ways in which it can go wrong.

*Deliveries* (`Dispatch`).  One task is one call of
`_process_route_message_with_retries`; `pc` is the await it is suspended in:

    permission -> download -> guard -> script -> (slot ->) post -> settled
        ^             |          |        |         ^   |  |
        |             v          v        v         |   |  v
        '-- pause <---+----------+--------+---------|---' backoff

A stage passes or ends the attempt with one of its refusals; `Conclude` is what the
attempt loop makes of that: another attempt after a pause, or the outcome.  `Outputs[t]`
is what the channel script makes of the message, the same in every attempt.
`DispatchFrom` is `dispatch` from one request to the next: it skips stickers, joins a run
of one family to an album (`IsUnit`), looks its files up and asks for the request.
`Answered` is the whole of what follows an answer: the client repeats (`ClientRepeats`: at
once without the parse_mode, or after a back-off) or raises (`Raised`: the last error),
the dispatcher goes on (`Accepted`), falls back to a document or a text (`FallsBack`), or
the engine judges the error (`Verdict`).  After `lost` and `garbled` the platform may have
accepted the request; after HTTP 5xx only an album may have been accepted, which is what
the code's comments say of Bale.  `collected` is `last_dispatch_message_ids`, one list for
all tasks.  `trail`, `confirmed` and `unclear` are history.

*Posts.*  `PostPipeline` has a `stage` for each await of
`_process_route_message_detailed`; while `stage = "script"`, `ChannelScript` runs with a
`phase` for each kind of question: the first text, a refinement of one low in quality,
the strict repetition for one that is not Persian, the adjustment of its length.  A text is
who wrote it, its language, its promotional terms, whether it has a link, whether its length
fits, and whether it is `rough`: what `_looks_low_quality` finds in the text as it stands, with
its URLs and handles, while language and length are judged without them.  Three calls to action beside
a link count as three promotional terms.  The model may answer with any member of `Answers` or fail; the time budget is counted in the
steps the code compares it with.  `fetched` is `downloaded_total`; what the limit leaves bounds
the next download.  Choosing members (`Chosen`) and filtering by size (`FilterOversized`)
are recursive functions.  The four film and football scripts share this control
and differ in wording; the map names `film.py`.

*Guards.*  A post is what the rules count in it; a bundle of channels is one of its features,
the prompt guard's own switch one of the settings.  `ApplyRules` is `main` up to the first
request with the rules in their order; `AskRelevance` and `AskSafety` the questions;
`GuardBreaks` the catch-all; `ReadDecision` what `GuardRunner.run` reads.

*Keyword links.*  `LinkText(d)` is a text for destination `d`: the table is read again if
the file's time differs (`LoadIfChanged`, with a spoilt and a missing file), and
`usedRows` are the rows linked with.  `Parse` goes through the rows of the file one by one
(`WithRow`): a destination keeps the first row of a keyword, whose priority only rows with the
same link can raise.  `Accepted` is the choice of matches in a piece of text; `ChoiceIsFair`
says what it must be.  Both are recursive functions.  `ChoiceSpec` takes any set of matches as
the piece of text, `chunk`, that is worked on.

*Shared files.*  `Workspace` has inodes: a name in the working directory and the cache may
be links to one file, a download opens the name for writing and truncates what is there.
`place[d]` is the second a delivery began in, which names its directory.

*Monitor.*  `MonitorFeed` has the rows and the ring of the service, one queue per
websocket, and the page: its rows, the numbers it has seen, one timer per socket, one for
the page, and the load under way.  An answer is a copy of the rows when it was given
(`AnswerLoad`), of as many rows as a load asks for (`Page`, 500 in the code), and replaces the
page's rows when it arrives (`FinishLoad`).  `session` is the page's: sessions and tickets
are in memory, so after a restart the run does not know it.  A page without a session gets
401 for its loads and no ticket for a socket, and goes on showing what it has; only an
operator who logs in again (`SignIn`) helps it.

*Mutants.*  A comment that begins with "Mutant:" or "Bug:" introduces a mutated form of the
definition that follows.  No specification uses them; they show that a property notices
such a bug.

### Simplifications

- In `SyncWorker` a row's route object and the route of that name are one thing: a reload
  between two steps is a `stop`, `start` or `delete`.  The two are told apart in `RouteConfig`.
- The operations of management are single steps of `SyncWorker`; start-up of a route queues
  its rows at once, where the code awaits the queue between two rows.
- `syncing` and `synced` are one mode of `SyncWorker`; the interval clock is the choice
  `WaitForInterval`.
- The recovery and hydration limits (2000 and 5000 rows) are not reached.
- In `Dispatch` the stages before the requests are one step each; `PostPipeline` has them
  in full and takes the dispatcher's answer as a choice.
- In `SourceIntake` all routes read one channel without topics, and `Deliver` settles a
  registered row with no failure: failures are the subject of `SyncWorker`.
- `ForceSync` has one worker and one route; albums waiting in memory, which
  `RuntimeReset` forgets, are in `SourceIntake` only.  The loop's own drain time-outs are in
  `SyncWorker`.  Whether the route still syncs is part of when its slot comes, which may be
  at any time.  A request that is cut off in the very await that gives the lock back leaves
  the lock to its TTL, which is `RedisLock`'s subject.
- `PostPipeline` takes an album as it was collected: that its expansion at the source may
  fail, and the members known be sent, is left out.
- In `MonitorFeed` a row is the number of its last event; filters, sorting and the
  shortening of the page's list of seen numbers beyond 5000 are left out.

## 3. What is checked

### The engine (`MCRelay`)

One route, messages 1 and 4, in `albums` also an album of messages 2 and 3, two workers,
batches of two and one AI attempt.  Two messages and two workers are the smallest
instance in which one overtakes the other; the third puts an album between them.
`PostCap = 2` tells a duplicate from a single post; `AiMax = 1` lets a row give up on its
first AI failure or, if another kind of failure came first, on the attempt after it.
Workers are symmetric; symmetry is off in the liveness run.

| Run | Events | Shows |
|---|---|---|
| `relay` | crash, cancel, redeliver, ambiguous, partial, interval, queueError | `LockMutex`; `CheckpointRespectsOrder`, `DeliversInOrder`; `SentIsFinal`; `NoSilentDrop`; `DuplicatesOnlyAfterDoubt`; `ImplementsOrderedRelay`: the engine implements `OrderedRelay` |
| `albums` | stop, startAll, expire, delete | `CheckpointSparesAlbums`: the checkpoint never enters an album that is being assembled |
| `operator` | crash, stop, ambiguous, retry, skip; in-memory queue | `RetryableIsScheduled`: after hydration no retryable row is forgotten; `AmbiguousHasReview`: a delivery in doubt gets an open review, whatever was resolved before, and keeps it, unless the process dies between the two transactions |
| `progress` | crash, cancel | `ProcessingIsRecovered`: a row a crash left in processing is taken up again; `WaitsOnlyBehindRetries`: a row circles in the ordering wait only behind a lower one that is attempted again and again |

### Deliveries (`MCDispatch`)

| Run | Instance | Shows |
|---|---|---|
| `dispatch` | two deliveries, one upload slot, two tries of a request and two attempts; a text, an album with markup; a formatted voice, a sticker, a missing file; document fallback; answers lost, server, large, parse, null (ok without a result) | `PostsInOrder`, `OkIsComplete`, `ConfirmedIsNotResent`, `AlbumInDoubtIsNotResent`, `AssertionHolds`; `EveryDeliverySettles`: neither the slot nor the repetitions hold a delivery for ever |

The outputs are chosen so that each kind of unit occurs: a message, an album followed by
its markup, a file whose format can be dropped and that can fall back, an output that is
skipped and one that fails after others were sent.  Two deliveries compete for one slot.
Two tries are the fewest with a first and a last one, and two attempts show what one
leaves to the next.  Deadlock is checked here: only settled deliveries may stop.

### Stores and monitor (`MCStores`)

| Part | Bounds | Shows |
|---|---|---|
| queue | two entries of a route, two callers, due times 0 and 1, three requests, one purge, one fault | `NothingOwedIsLost`; `DamageOnlyByRace`: an entry is delayed (`DelayedOnlyByRace`) or hidden from a purge (`UnfindableOnlyAfterRace`) only by an overwritten score; `OwedIsHandedOut` |
| lock | three deliveries, two expiries, one death | `AtWorkHoldsLease`: no overlap without an expiry |
| files | two deliveries of a message, two seconds, two attempts, the cache grows old once | `NothingLeaks`: a delivery reads whole files (`ReadsWholeFile`) and the cache holds whole files (`CacheIsWhole`) unless two deliveries share a second; a denial is recorded with its own reason (`BlockedForOwnReason`) |
| feed | two messages, loads of one row, a ring of two events, pushes of one, one socket, two events, and one of: a reload by hand with a clear, a failed load or a busy page; a restart; the end of a session; a lost socket while the page is busy | `PageCatchesUp`: in the end a page with a good session shows the rows the service touched last, as many as a load brings, for good |

Two callers are what a read-then-write race needs, and a third request lets one overtake
both; with three deliveries the DEL of one can hit the lock of a third after two expiries.
A load and a push bring less than there is, so that each of them loses something.  The run is named `stores`.

### Intake (`MCIntake`)

Two routes of one channel (one with a backfill of 2, one stopped at first), messages 1 to 4
of which 2 and 3 are an album, polls of two messages, both ways of reading the source, and any
two of: a crash, a failed poll, stops and starts.  A poll of two can cut the album; two
routes share the cursor.  Run `intake` shows `NothingPassedIsForgotten` (`CheckpointCovers`:
below a route's checkpoint everything is settled, lost for a named reason, or in a row
that reaches above it and still waits; `CursorCovers`: what the cursor
has passed is in the ledger, in a bucket, or lost for a named reason), `AlbumsAreWhole` (no row
has part of the album unless a crash, a failed poll, a start or a baseline may have cut it:
`calm`), and `EveryMessageArrives`.

### Routes (`MCRoutes`)

| Part | Bounds | Shows |
|---|---|---|
| config | two routes, one thread of the web administration beside the loop, the setting 0; two calls that change the file (`MaxCalls`) | `WritesWhatItMeant`, `StopHolds`, `RegistryCatchesUp` |
| force | three messages, a window of two, one immediate delivery; one request, and one fault: a failure, an unclear outcome, an expired lock, a failed seeding or a cut-off | `ForceDisturbsOnlyItsOwn` (`DeliveredTwiceOnlyBeside`, `NothingStrandedByForce`), `WindowIsSettled` |

Two routes are what an edit of one needs to undo that of another; two calls are the fewest
of which one can lose the other, and a third adds no kind of overlap.  The theorems of
section 4 hold for any number.  With two faults and the same messages the force part was
checked once by hand (1.1 million states); it takes longer than a run should.  A window of two beside one older message separates what is seeded from
what is not, and one immediate delivery leaves one for the drain.  The run is named `routes`.

### Content (`MCContent`)

| Part | Bounds | Shows |
|---|---|---|
| post | six posts (words with a link, promotional, foreign; albums; a video, a sticker), four answers (one of them Persian, of the right length and rough), one retry of a request, one more attempt | `PostTravelsWhole` (`MediaTravelWhole`, `WordsTravel`, `NothingRawWhenMandatory`, `OwnLinkBlocks`), `GoodTextEndsTheScript`, `EveryPostIsJudged` |
| guard | every small count of the words the rules look for; four guards; every setting and answer | `AllowedIsVetted` (`GuardCoversOutputPolicy`, `AllowedAreLookedAt`) |
| links | files of at most two of four rows, three changes, a spoilt and a missing file | `TableFollowsFile` |
| match | all sets of at most three matches of two priorities and two keyword lengths in a text of length 4 | `ChoiceOfMatchesIsFair` |

The posts cover every branch of the script's decision what to ask; the counts of words go
up to the thresholds of the rules.  The run is named `content`.

Deadlock is not checked except in `dispatch`: when every message is final, every bound
is used up and nothing more may go wrong, these models stop, and so may the program.

### Disagreements between the code and its words

| Run | Property | What happens |
|---|---|---|
| `doubt_retried` | `AmbiguousIsNotRetried` | The ordering gate queues the lowest row while another worker delivers it.  The delivery ends in doubt, the left-over entry is popped, and the row is delivered again although "ambiguous dispatch must not be auto-retried". |
| `start_all` | `ParkedRowsResume` | "Will resume after route start": a row parked while its route was stopped is not queued by `start_all_routes`. |
| `shared_ids` | `ReportsOwnIds` | Two deliveries at once share `last_dispatch_message_ids`: the audit record of a message names the post of another. |

### Observations

What the models had to take into account, and a reader of the code may want to know.  They
are not violations of a property: the properties name them as their exceptions.

Engine and delivery
- A request whose answer was lost is repeated by the client itself (`client.py:340`), two
  layers below the code that must not retry it (`service.py:1455`); the client raises only
  its last error, so an HTTP 500 after a lost answer makes a delivery in doubt a failed one;
  an answer that is ok and has no result is an error after the post (`client.py:343`).
- A row an operator sends back is blocked at the checkpoint gate when a higher message was
  sent meanwhile (`service.py:862`); `resolve_review` does not look at the row's status.
- The ordering gate queues the lowest row with due time 0 and enqueue keeps the earliest
  time: a row that fails again and again loses its back-off.
- The status of a row and its review are two transactions (`service.py:1018`, `1024`): a
  crash between them leaves a row in doubt that no list shows.
- A repeated attempt sends confirmed outputs again (`service.py:1458`); an error of the
  traffic history after the post makes the attempt fail.

Sources
- Routes of a channel share a cursor: a route started late gets its backfill only if the
  cursor has not passed it; the first poll without a checkpoint begins at the latest
  message.  `_route_accepts_incoming_topic` (`service.py:1544`) is never called.
- A Bot API offset is saved before the batch is registered: a crash in between loses the
  batch.  With Telethon a crash loses only an album below a higher single message.

Configuration
- Every call reads the routes outside the lock that covers the replacement, and replaces all
  of them: of two overlapping edits one is lost, be they of different routes; an
  auto-activation writes the settings of the object it holds over an operator's stop that
  came after it was taken.
- The file is replaced before it is validated: an entry that is refused stays in the file,
  and the engine goes on with the older routes.
- 0 retries are stored as 2 (`management_api.py:703`), though the page offers 0.

Forced synchronisation
- The first messages of the window are delivered without the route lock, beside the drain.
  A delivery that began before the reset sets the checkpoint after it.  A request cut off
  after the purge leaves rows without queue entries, one cut off after seeding skips them;
  one cut off at its end cancels the drain the loop waits for too.
- A forced message whose immediate delivery ends `ambiguous` still has its entry in the
  queue, and `ambiguous` is not final: the drain delivers it again without an operator.

Redis
- `pop_due` puts an entry back with the score it read and so overwrites an earlier due
  time; it never removes the fields from the route's hash, so a purge finds entries that
  are gone, and an entry put back after a purge escapes the next.
- The release of the lock reads and deletes in two commands.

Content
- A relay's own keyword link or the destination's signature can turn a text with two promotional
  terms into one the output policy blocks (`output_promo_blocked`).
- A guard that breaks prints "false" whether it is to fail open or not; a guard that
  looks away from posts without words looks at captions only, so a text message is not shown
  to the model.
- Four words count as calls to action in the output policy and not in the guard.
- The table of all destinations keeps rows of a file that was removed or cannot be read; a
  higher priority of a repeated keyword does not reach it.
- The adjustment of the length may replace a Persian text by one that is not, and the post
  then fails; with non-mandatory AI `CHANNEL_SCRIPT_AI_FAIL_OPEN` has no effect.

Monitor
- The page's numbers of seen events are never forgotten at a restart of the service, whose
  numbers begin again: its pushes are passed over, and only reloads bring the page up to
  date.  A restart also forgets the page's session: it then shows old rows, with an error, until
  the operator logs in again.  Reloads are dropped while a dialog is open; the hint every two seconds is the only
  thing that heals that, which the mutants of `PageCatchesUp` show.

### Fairness

`SyncWorker!FairSpec` adds weak fairness of each worker (asyncio resumes a coroutine whose
await completes, and every await has a time-out), of hydration, of the expiry of an
orphaned lock and of beginning a popped item.  Popping is strongly fair for each key: the
queue is ordered by due time, so an entry is not passed over for ever by later ones.
Taking the lock is strongly fair for each key: a worker that lost it is due again in 0.7 s
while the winner's row backs off.  Crashes, drain time-outs and management calls are never
fair; the liveness properties say what holds if they stop.

`Dispatch!FairSpec` is weak fairness of every delivery's next step: requests, scripts,
guards and downloads have time-outs, sleeps end, and a waiter on the upload semaphore is
woken when a slot is free.

`RedisQueueFairness`: the worker loop drains again and again, a pop that began goes on, and
time passes.  `MonitorFairness`: the push loop and the browser's event loop go on, sockets
are opened again while the server lets them, loads are answered or refused, and the operator
is not busy for ever; that he logs in is not assumed.  `MCStores`
states each of them for the behaviours of its part.

`IntakeFairness`: a turn of the loop goes on, and a row that may be delivered again and
again is delivered (the engine's promise, with retries that are finite).
`ForceFairness`: the loop and the request go on, and the slot of the interval comes; popping
and the recovery of a stale row are strongly fair, because a drain begins again and again, takes
all that is due, and looks for rows that have been in processing for long.  `PipelineFairness`: a worker awaits one step of a post after the other,
each with a deadline.

## 4. What is proved

All theorems hold for every value of the constants that satisfies the named assumptions
(`LedgerAssumption`, `DistinctIds`, `OwnersAssumption`, `WorkerAssumption`,
`DispatchAssumption`, `RedisQueueAssumption`, `RedisLockAssumption`,
`RouteConfigAssumption`, `WorkspaceAssumption`, `SourceIntakeAssumption`, `ForceSyncAssumption`,
`GuardAssumption`, `ScriptAssumption`, `PostsAssumption`, `PipelineAssumption`,
`KeywordLinksAssumption`), which TLC evaluates in the runs.  `PostsAssumption` says of a post
what Telegram guarantees: with words and media, some medium can carry a caption.

Of `SyncWorker`:

- `TypeCorrect`: `[]TypeOK`, for every set of events.
- `MutualExclusion`: `[]LockMutex` without `expire`.  Exclusion is not inductive: `LockInv`
  adds that a worker under the lock owns it, that workers hold different keys, that a held
  key has left the batch, and that nothing drains before hydration.
- `CheckpointInOrder` and `DeliveryInOrder`: the order of a route, without `expire` and
  `retry`.  The gates are read before the lock is awaited; `OrderInv` says why that is safe: a
  worker that waits for the lock waits behind no lower row except those another worker has
  under the lock, and that worker must leave the lock, its row settled, before this one
  enters.  A lower row cannot become active otherwise: messages are registered between drains
  only, and all other changes make rows inactive.  An operator's `retry` does make a row
  active at any moment, hence the second assumption.
- `RelayRefinement`: the engine implements `OrderedRelay`, without `expire`, `retry` and `skip`.
  `StatusInv` adds that a row under delivery is `processing`, that a row waiting for the
  lock is not final, and that no row is blocked as `route_deactive`.  The proof maps each
  action to accept, park, resume, refuse, conclude or a stutter.
- `DoubtIsReviewed`, `AlbumsSpared`: `AmbiguousHasReview` and `CheckpointSparesAlbums`, for
  every set of events.  The first names the step that may leave a row in doubt unlisted, and
  no other is one.
- `SentStaysSent`: `SentIsFinal` from `StatusInv`, without `expire`, `retry` and `skip`.
- `NoDuplicateWithoutDoubt`: `[]DuplicatesOnlyAfterDoubt`, under the same assumptions.
  `PostInv` adds that a message posted without a doubt is recorded as sent, or in the hands of
  the worker that is about to record it; that no other worker has it is in `LockInv`.
- `NothingRetryableIsLost`: `[]RetryableIsScheduled` without `cancel`, `queueError` and
  `startAll`, each of which loses entries.
- `NothingIsSilentlyDropped`: `NoSilentDrop` without `expire`, `retry`, `skip` and `stop`.  An
  active row can be below the checkpoint, because a failed row is retried there; what keeps the
  gate from discarding it is that it has no queue entry (`BehindHasNoEntry`).  That needs that
  only active rows are put in the queue while they wait (`PushedIsActive`), that a worker about
  to schedule a retry holds no active row, and that the checkpoint passes no active row
  (`CheckpointPassesNoActive`).  With `stop` it fails: `start_route` queues a failed row a
  worker has in its hands again, and the entry outlives a crash that leaves the row `processing`.

Of `Dispatch`, for every number of deliveries, outputs, tries and slots and every set of
answers:

- `TypeCorrect`: `[]TypeOK`.  The inductive form adds that an attempt that is paused is not
  the last one (`PauseInv`).
- `PostsAreInOrder`, `OkMeansComplete`: `[]PostsInOrder` and `[]OkIsComplete`.
  `DispatchInv` says what a request relies on (`Underway`): all that comes before it has
  arrived, and nothing else has but a single output whose own request had no clear answer.
  An answer keeps this (`ObserveProgress`), going on from the next position re-establishes it
  (`FromProgress`), and an album cannot be repeated because its limit of tries is one
  (`TryLimits`).
- `ClientAssertion`: `[]AssertionHolds`: without an error kept, the assertion is reached by an
  ok without a result only, in the first try or in the one after the format was dropped.  A
  request that was tried before and is still formatted has met an error that was kept, because
  the only repetition that keeps none removes the format.
- `ConfirmedIsNeverResent`, `AlbumInDoubtIsNeverResent`: `ConfirmedIsNotResent` and
  `AlbumInDoubtIsNotResent`, action properties.  `ResendInv` says of a request (`NotAgain`) that
  it carries a whole run of outputs above all that is confirmed, and that no output of an album
  is in doubt while the delivery goes on.

Of what deliveries share, in Redis and on disk:

- `AtWorkAlwaysHoldsLease`: `AtWorkHoldsLease` is inductive as it stands: the history
  `robbed`, the deliveries whose key another's DEL removed, is what makes it so.
- `NothingOwedIsEverLost`: with `QueueShapeOK` (what a caller or a pop holds between two
  round trips), for any number of callers, entries and routes.
- `DamageOnlyEverByRace`: `DamageInv` adds what the pop has in hand: a member that is in
  the set again meanwhile is in `raced` (`InHandAndDue`), and one that is going to be put
  back still has its fields (`InHandIsNamed`) or is in `raced`.
- `NothingEverLeaks`: `[]NothingLeaks`, for any number of deliveries, attempts and seconds.
  `OwnFileInv`: unless two deliveries share a directory (`Crowded`), each writes to the file its
  own name stands for, that file is whole before it is cached or read, and so is the cache.

Of `RouteConfig`, for any number of routes, clients and settings:

- `CallsWriteWhatTheyMeant`, `StopAlwaysHolds`: action properties.  The first rests on
  `DraftsAreOfTheSeen`: what a call is about to write is what it makes of the file it read.
  For the second, `Applied` works entry by entry, so that a call about other routes leaves a
  settled one as it read it (`LoadKeepsSettled`, `ChangeKeepsSettled`), and no write, reload or
  patch of a settled route changes it (`StepKeepsSettled`).
- `RegistryAlwaysCatchesUp`: `RegistryCatchesUp` says nothing while a call is under way, so
  it is not inductive.  `RegistryRunsAhead` extends it to calls that have not written yet: a
  change of the held object's status runs ahead of the file only while the loop's own call
  is still to write it.

Of `ForceSync`, for every number of messages and every window:

- `ForceDisturbsOnlyItsOwnAlways`: `[]ForceDisturbsOnlyItsOwn`.  `ForceInv` adds that a message
  that was delivered, and is in none of the histories, is concluded and in nobody's hands (`DeliveredOnce`), that nothing the next
  checkpoint would strand waits below what is being delivered (`NothingStranded`), and that a
  ledger that was wiped is empty until the source has been read to its end (`ReadAtOnce`).

Of `SourceIntake`, for every number of routes and messages, an album of any size anywhere in the
channel, and polls of any size:

- `NothingIsEverForgotten`: `[]NothingPassedIsForgotten`.  The cursor is shared and the
  checkpoints are not, so neither half is inductive: `IntakeInv` adds that below every message a
  route knows of, too, each message is accounted for (`KnownCover`), because those of a source
  come in their order; that what waits for its delivery is above the checkpoint (`PendingAbove`,
  `BelowCovers`), and that a row's id is its own (`UniqueIds`).
- `AlbumsAreRegisteredWhole`: `[]AlbumsAreWhole`.  `AlbumKept` says where the members are while
  nothing has cut the album: what the cursor has passed of it is in the bucket, or all of it
  has left the bucket (`AlbumWaits`), or the checkpoint is above it and what is left is dropped
  (`AlbumPassed`).

Of `GuardRules`, for every set of posts and every setting:

- `AllowedIsAlwaysVetted`: `VettedOnTheWay` follows the run from the rules to the printed
  word; that the guard's rules cover the output policy is a lemma on the counts.

Of `PostPipeline`, for every set of posts and answers:

- `GoodTextAlwaysEndsTheScript`: `[]GoodTextEndsTheScript`.  `WorthAsking` names for each kind
  of question the fault of the text at hand that it is asked for; that of the second is what
  is rough in the text, with its URLs, which language and length do not look at.
- `PostAlwaysTravelsWhole`: `[]PostTravelsWhole`, for media lists of any length and any sizes and
  limit.  `PostHolds` says what each stage has in hand.  The media fetched are the first of the
  post's, and their bytes add up to `fetched`, step by step, within the limit (`FetchHolds`); a
  script's run starts from the post's messages, has its texts from the model, and prints
  nothing or the whole post (`ScriptHolds`); what is made, filtered and linked is whole, and
  without promotion until the relay links it (`StageHolds`).  `Whole` asks for the post's media behind
  at most one text (`Shaped`), which each way of making messages keeps (`GeneratedIsApplied`,
  `FallbackKeeps`, `SafeFailIs`, `PassthroughOfIs`, `LinkedIs`).  The output filter keeps all
  (`FilterKeepsAll`) because it subtracts the bytes the download added.

Of `KeywordLinks`, for files and pieces of text of any length and any priorities:

- `TableAlwaysFollowsFile`: `TableFollowsFile`.  What a file's table must be after each of its rows
  is `TablesOf`; each row keeps it (`NextRowKeepsTables`).  Over the life of the file `TimeTells`
  is what makes the time of change enough to go by: a time that is remembered belongs to one
  content, because a copy put back with its old time is the copy first read.
- `EveryChoiceIsFair`: `[]ChoiceOfMatchesIsFair`.  What is chosen from a place on is fair
  (`FairFrom`) if what is chosen from the end of the first match on is.

These two and `PostAlwaysTravelsWhole` are about recursive functions of numbers.  The theorems of
the library on recursion take an operator as parameter and are out of the provers' reach, so
that such a function exists, and what it computes, is shown by a least counterexample
(`SomethingParses`, `ParseMakesTables`; `SomethingChooses`, `ChoosesFairly`; `HoldsUpTo` and with
it `ChosenIs`): the natural numbers for which it fails would have a least one.  What the output
filter computes when all fits has a closed form (`FilterKeepsAll`).

Each of the engine, delivery, Redis, routes and guard models also has its type invariant as a
theorem; the other invariants contain theirs.

### What the proofs corrected

The instances are too small for some of what the proofs found.  In `SourceIntake`, with an album
that is not messages 2 and 3, a baseline can fall inside it, which the model called calm
(`_ensure_sync_baseline` takes the latest message, whatever album it is of), and a row with
members on both sides of a checkpoint may still wait for its delivery, which `CheckpointCovers`
did not allow for; the model now says so (`Cuts`, `Straddling`).  In `ForceSync` an exception of `NothingStrandedByForce` for messages
delivered twice turned out not to be needed, and is gone.

### Only model-checked

The liveness properties and the fairness they need (`ENABLED`) are out of the prover's reach.  The runs that expect a violation show single behaviours.

## 5. Plan

Done: the engine and its refinement; deliveries; the Redis stores; the shared files; the
intake; the routes file; forced synchronisation; posts, guards and keyword links; the
monitor.  Left, in this order:

1. The queue with due times beneath the engine: the starvation behind a failing row
   (`service.py:888`).
2. The music, wallpaper and photo-prompt scripts, whose control differs from the film script's.

## 6. Not modelled

The update parser (a conversion with no decision the engine depends on beyond the ids); the
requests of the scripts to the model and their wording; the vocabulary of the guards; the
scripts for music, wallpapers and photo prompts; login and media download of Telethon,
topics; the HTTP connection itself; the traffic history and other statistics; the dialogues
of the admin bot, which end in calls that are modelled; `force_sync_route_send_one_unsynced`; the log-in and
the other pages of the web administration; start-up, environment and logging.  They do not change the state the properties
above are about.  The statistics queries of the ledger and its MySQL dialect repeat the
SQLite statements.  Due times and the engine together are too large for TLC: `RedisQueue`
has the one, `SyncWorker` the other.
