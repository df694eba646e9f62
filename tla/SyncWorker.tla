------------------------------ MODULE SyncWorker ------------------------------
(***************************************************************************)
(* The relay engine of src/kiwi/service.py: messages of the source         *)
(* channels are registered in the ledger and queued; a drain pops a batch  *)
(* and runs _process_queued_item for each entry in a pool of workers; an   *)
(* operator stops and starts routes and resolves reviews.                  *)
(*                                                                         *)
(* Everything runs on one asyncio loop, so what lies between two awaits is *)
(* one step.  With the Redis queue every queue operation is an await, and  *)
(* so is the delivery: the program counter pc names the await a worker is  *)
(* suspended in.  The main loop (run_once) registers messages and then     *)
(* awaits the drain, so neither happens during the other.                  *)
(***************************************************************************)
EXTENDS SyncLedger, SyncQueue

CONSTANTS
  Workers,    \* SYNC_WORKER_COUNT permits of the drain's semaphore
  First,      \* First[k]: smallest message_id of an album, Id[k] for the rest
  BatchLimit, \* sync_worker_count * 4 in the code
  Backend,    \* "memory" or "redis" (SYNC_QUEUE_BACKEND)
  PostCap,    \* bound of the history variable posts
  Events,     \* what the environment may do, a subset of AllEvents
  NoKey

\* crash: the process dies and restarts.     cancel: the drain times out.
\* expire: a lock's TTL runs out while its owner works.
\* redeliver: a source delivers a message again.
\* ambiguous: a delivery may end without an answer.
\* partial: a delivery may fail after the destination got some or all of it
\* (module Dispatch shows how).
\* interval: a syncing route spaces its messages by sync_interval_sec.
\* queueError: a call to Redis raises.
\* stop, startAll, delete: management calls.  skip, retry: review resolutions.
AllEvents == {"crash", "cancel", "expire", "redeliver", "ambiguous", "partial",
              "interval", "queueError", "stop", "startAll", "delete", "skip", "retry"}

ASSUME WorkerAssumption ==
  /\ Workers \subseteq Owners
  /\ Workers # {}
  /\ First \in [Keys -> Nat \ {0}]
  /\ \A k \in Keys : First[k] <= Id[k]
  /\ BatchLimit \in Nat \ {0}
  /\ Backend \in {"memory", "redis"}
  /\ PostCap \in Nat \ {0}
  /\ Events \subseteq AllEvents
  /\ NoKey \notin Keys

VARIABLES
  mode,       \* status of each route: active (syncing or synced), deactive, deleted
  hydrated,   \* _retry_queue_hydrated
  bucket,     \* _pending_media_groups: the status the route had when the
              \* album's bucket was opened, "none" without a bucket
  batch,      \* entries the drain has popped and no worker has begun
  pc,         \* the await each worker is suspended in
  cur,        \* the key each worker is processing
  result,     \* what _process_route_message_with_retries returned
  posts,      \* history: how often the destination got the message, or a part
              \* of it, up to PostCap
  doubt       \* history: keys whose delivery the code could not confirm

loopVars == <<mode, hydrated, bucket, batch>>
workerVars == <<pc, cur, result>>
historyVars == <<posts, doubt>>
vars == <<ledgerVars, queueVars, loopVars, workerVars, historyVars>>

Awaits == {"idle", "acquire", "requeue", "process", "settle", "notify", "retry",
           "release"}
Results == {"none", "ok", "blocked", "ambiguous", "failure", "ai_failure"}

TypeOK ==
  /\ LedgerTypeOK
  /\ QueueTypeOK(Routes, Keys)
  /\ mode \in [Routes -> {"active", "deactive", "deleted"}]
  /\ hydrated \in BOOLEAN
  /\ bucket \in [Keys -> {"none", "active", "deactive"}]
  /\ batch \subseteq Keys
  /\ pc \in [Workers -> Awaits]
  /\ cur \in [Workers -> Keys \cup {NoKey}]
  /\ result \in [Workers -> Results]
  /\ posts \in [Keys -> 0..PostCap]
  /\ doubt \subseteq Keys
  /\ \A w \in Workers : pc[w] # "idle" => cur[w] \in Keys

Init ==
  /\ LedgerInit
  /\ QueueInit(Routes)
  /\ mode = [r \in Routes |-> "active"]
  /\ hydrated = FALSE
  /\ bucket = [k \in Keys |-> "none"]
  /\ batch = {}
  /\ pc = [w \in Workers |-> "idle"]
  /\ cur = [w \in Workers |-> NoKey]
  /\ result = [w \in Workers |-> "none"]
  /\ posts = [k \in Keys |-> 0]
  /\ doubt = {}

Draining == batch # {} \/ \E w \in Workers : pc[w] # "idle"

\* Between two drains of run_once, after the start-up hydration.
LoopIsFree == hydrated /\ ~Draining

IsAlbum(k) == First[k] < Id[k]

Assembling == {k \in Keys : bucket[k] # "none"}

-------------------------------------------------------------------------------
(* The main loop: hydration, registration of messages, the drain.          *)

\* Bug: only the rows found stale are queued again.
HydrateStaleOnly ==
  /\ ~hydrated
  /\ hydrated' = TRUE
  /\ \E stale \in SUBSET {k \in Keys : status[k] = "processing"} :
        StaleProcessing(stale) /\ Enqueue(stale)
  /\ UNCHANGED <<attempts, review, checkpoint, routeLock, mode, bucket,
                 batch, workerVars, historyVars>>

\* _hydrate_retry_queue_once: first thing after a start.  Rows left in
\* processing for two lock TTLs (those in stale) become failed, then every
\* retryable row gets a queue entry.
Hydrate ==
  /\ ~hydrated
  /\ hydrated' = TRUE
  /\ \E stale \in SUBSET {k \in Keys : status[k] = "processing"} :
        StaleProcessing(stale)
  /\ Enqueue({k \in Keys : status'[k] \in RetryableStatuses})
  /\ UNCHANGED <<attempts, review, checkpoint, routeLock, mode, bucket,
                 batch, workerVars, historyVars>>

\* _enqueue_sync_message registers and queues a message, unless it is at or
\* below the checkpoint or its row is final: then it leaves no trace.
Accepts(k) == /\ Id[k] > checkpoint[RouteOf[k]]
              /\ status[k] \notin TerminalStatuses

EnqueueSyncMessage(k) ==
  \/ Accepts(k) /\ RegisterMessage(k) /\ Enqueue({k})
  \/ ~Accepts(k) /\ UNCHANGED <<ledgerVars, queue>>

\* A source delivers a message, once unless "redeliver" is in Events.
IsDelivered(k) == status[k] = "absent" \/ "redeliver" \in Events

\* A message that is no album is registered if its route is not deactive.
Arrive(k) ==
  /\ LoopIsFree
  /\ ~IsAlbum(k)
  /\ IsDelivered(k)
  /\ mode[RouteOf[k]] = "active"
  /\ EnqueueSyncMessage(k)
  /\ UNCHANGED <<routeLock, loopVars, workerVars, historyVars>>

\* _collect_ready_messages: the members of an album wait for the others, in a
\* bucket that keeps the route object it was opened with.
CollectAlbum(k) ==
  /\ LoopIsFree
  /\ IsAlbum(k)
  /\ k \notin Assembling
  /\ IsDelivered(k)
  /\ mode[RouteOf[k]] # "deleted"
  /\ bucket' = [bucket EXCEPT ![k] = mode[RouteOf[k]]]
  /\ UNCHANGED <<ledgerVars, queueVars, mode, hydrated, batch, workerVars,
                 historyVars>>

\* _flush_ready_media_groups: the album leaves its bucket and is registered,
\* unless the bucket's route object is deactive.
FlushAlbum(k) ==
  /\ LoopIsFree
  /\ k \in Assembling
  /\ bucket' = [bucket EXCEPT ![k] = "none"]
  /\ IF bucket[k] = "active" THEN EnqueueSyncMessage(k)
                             ELSE UNCHANGED <<ledgerVars, queue>>
  /\ UNCHANGED <<routeLock, mode, hydrated, batch, workerVars, historyVars>>

\* _drain_sync_queue: recover stale processing rows when the recovery timer
\* is due (which re-queues every retryable row if there were any), then pop
\* entries that are due.
StartDrain(stale, popped) ==
  /\ LoopIsFree
  /\ StaleProcessing(stale)
  /\ LET entries == IF stale = {} THEN queue
                    ELSE queue \cup {k \in Keys : status'[k] \in RetryableStatuses}
     IN  /\ popped \subseteq entries
         /\ queue' = entries \ popped
  /\ Cardinality(popped) <= BatchLimit
  /\ stale # {} \/ popped # {}
  /\ batch' = popped
  /\ UNCHANGED <<attempts, review, checkpoint, routeLock, mode, hydrated,
                 bucket, workerVars, historyVars>>

-------------------------------------------------------------------------------
(* _process_queued_item: the gates before the route lock.                  *)

\* Bug: the item is not kept across the await.
SuspendWithoutKey(w, await, k) ==
  /\ pc' = [pc EXCEPT ![w] = await]
  /\ cur' = [cur EXCEPT ![w] = IF k = NoKey THEN k ELSE NoKey]

Suspend(w, await, k) ==
  /\ pc' = [pc EXCEPT ![w] = await]
  /\ cur' = [cur EXCEPT ![w] = k]

Return(w) == Suspend(w, "idle", NoKey)

\* The route of the row exists and takes messages.
Begins(w, k) ==
  /\ pc[w] = "idle"
  /\ k \in batch
  /\ batch' = batch \ {k}
  /\ UNCHANGED <<mode, hydrated, bucket, result, historyVars>>

\* Bug: a final row is not recognised.
MayProceedWhenFinal(k) == status[k] # "absent" /\ mode[RouteOf[k]] = "active"

MayProceed(k) == /\ status[k] \notin TerminalStatuses \cup {"absent"}
                 /\ mode[RouteOf[k]] = "active"

\* At or below the checkpoint, and not a row that is retried on purpose.
Overtaken(k) == /\ Id[k] <= checkpoint[RouteOf[k]]
                /\ status[k] \notin {"failed", "retry_wait"}

\* A row that is gone or final is dropped from the queue.
SkipFinished(w, k) ==
  /\ Begins(w, k)
  /\ status[k] \in TerminalStatuses \cup {"absent"}
  /\ UNCHANGED <<ledgerVars, queueVars, pc, cur>>

\* A deleted route blocks its rows, a stopped one parks them as failed.
RefuseRoute(w, k) ==
  /\ Begins(w, k)
  /\ status[k] \notin TerminalStatuses \cup {"absent"}
  /\ \/ /\ mode[RouteOf[k]] = "deleted"
        /\ MarkStatus(k, "blocked", "route_not_found")
     \/ /\ mode[RouteOf[k]] = "deactive"
        /\ MarkStatus(k, "failed", "route_deactive")
  /\ UNCHANGED <<attempts, review, checkpoint, queueVars, pc, cur>>

\* A row the checkpoint has overtaken is blocked.
DiscardOvertaken(w, k) ==
  /\ Begins(w, k)
  /\ MayProceed(k)
  /\ Overtaken(k)
  /\ MarkStatus(k, "blocked", "older_than_checkpoint")
  /\ UNCHANGED <<attempts, review, checkpoint, queueVars, pc, cur>>

\* A row behind a lower queued or processing row waits, and the lowest such
\* row is put at the front of the queue.
WaitForOrder(w, k) ==
  /\ Begins(w, k)
  /\ MayProceed(k)
  /\ ~Overtaken(k)
  /\ EarlierPending(k) # {}
  /\ Enqueue(FirstPending(RouteOf[k]))
  /\ Suspend(w, "requeue", k)
  /\ UNCHANGED <<ledgerVars, routeLock>>

\* A syncing route whose next slot has not come.
WaitForInterval(w, k) ==
  /\ "interval" \in Events
  /\ Begins(w, k)
  /\ MayProceed(k)
  /\ ~Overtaken(k)
  /\ EarlierPending(k) = {}
  /\ Suspend(w, "requeue", k)
  /\ UNCHANGED <<ledgerVars, queueVars>>

\* Bug: the gates are passed whatever is pending.
PassGatesInAnyOrder(w, k) ==
  /\ Begins(w, k)
  /\ MayProceed(k)
  /\ ~Overtaken(k)
  /\ Suspend(w, "acquire", k)
  /\ UNCHANGED <<ledgerVars, queueVars>>

PassGates(w, k) ==
  /\ Begins(w, k)
  /\ MayProceed(k)
  /\ ~Overtaken(k)
  /\ EarlierPending(k) = {}
  /\ Suspend(w, "acquire", k)
  /\ UNCHANGED <<ledgerVars, queueVars>>

\* schedule_retry of an entry that waits for its order, its interval or the
\* route lock.
Requeue(w) ==
  /\ pc[w] = "requeue"
  /\ Enqueue({cur[w]})
  /\ Return(w)
  /\ UNCHANGED <<ledgerVars, routeLock, loopVars, result, historyVars>>

-------------------------------------------------------------------------------
(* _process_queued_item: under the route lock.                             *)

LockBusy(w) ==
  /\ pc[w] = "acquire"
  /\ ~CanAcquire(RouteOf[cur[w]])
  /\ Suspend(w, "requeue", cur[w])
  /\ UNCHANGED <<ledgerVars, queueVars, loopVars, result, historyVars>>

\* Nothing the gates have checked is checked again.
LockTaken(w) ==
  /\ pc[w] = "acquire"
  /\ CanAcquire(RouteOf[cur[w]])
  /\ AcquireRouteLock(RouteOf[cur[w]], w)
  /\ MarkProcessing(cur[w])
  /\ Suspend(w, "process", cur[w])
  /\ UNCHANGED <<lastError, review, checkpoint, queue, loopVars, result,
                 historyVars>>

\* What an attempt can end with, and whether the destination got the message.
Outcomes ==
  {"ok", "blocked", "failure", "ai_failure"}
  \cup (IF "ambiguous" \in Events THEN {"ambiguous"} ELSE {})

IsPosted(outcome) ==
  CASE outcome = "ok" -> {TRUE}
    [] outcome = "ambiguous" \/ "partial" \in Events -> {TRUE, FALSE}
    [] OTHER -> {FALSE}

\* _process_route_message_with_retries, down to the call to the destination.
Deliver(w) ==
  /\ pc[w] = "process"
  /\ \E outcome \in Outcomes : \E posted \in IsPosted(outcome) :
       /\ result' = [result EXCEPT ![w] = outcome]
       /\ posts' = [posts EXCEPT ![cur[w]] = IF posted /\ @ < PostCap THEN @ + 1 ELSE @]
       /\ doubt' = IF posted /\ outcome \notin {"ok", "ambiguous"}
                     THEN doubt \cup {cur[w]} ELSE doubt
  /\ Suspend(w, "settle", cur[w])
  /\ UNCHANGED <<ledgerVars, queueVars, loopVars>>

\* Bug: albums that are still assembling are not looked at.
CheckpointAtMessage(k) == {Id[k]}

\* _checkpoint_target_with_pending_groups: the message itself, or just below
\* the first member of an album of the route that is still assembling.
CheckpointTargets(k) ==
  LET firsts == {First[g] : g \in Assembling \cap KeysOf(RouteOf[k])}
  IN  {n \in 0..Id[k] : /\ \A f \in firsts : n < f
                        /\ n = Id[k] \/ n + 1 \in firsts}

\* The outcome is final: the row, then the checkpoint (CrashHalfSettled).
Finish(w, s, e) ==
  /\ MarkStatus(cur[w], s, e)
  /\ \E n \in CheckpointTargets(cur[w]) : SetRouteCheckpoint(RouteOf[cur[w]], n)
  /\ Suspend(w, "release", cur[w])
  /\ UNCHANGED <<attempts, review, doubt>>

Settles(w) ==
  /\ pc[w] = "settle"
  /\ result' = [result EXCEPT ![w] = "none"]
  /\ UNCHANGED <<queueVars, loopVars, posts>>

Confirm(w) ==
  /\ Settles(w)
  /\ result[w] = "ok"
  /\ Finish(w, "sent", "none")

Block(w) ==
  /\ Settles(w)
  /\ result[w] = "blocked"
  /\ Finish(w, "blocked", "failure")

\* An AI failure is retried AiMax times at most.
GiveUpOnAi(w) ==
  /\ Settles(w)
  /\ result[w] = "ai_failure"
  /\ attempts[cur[w]] >= AiMax
  /\ Finish(w, "blocked", "failure")

\* A delivery without an answer goes to the review queue, in a transaction of
\* its own (CrashHalfSettled); the checkpoint stays.
HoldForReview(w) ==
  /\ Settles(w)
  /\ result[w] = "ambiguous"
  /\ MarkStatus(cur[w], "ambiguous", "failure")
  /\ AddReview(cur[w])
  /\ Suspend(w, "notify", cur[w])
  /\ doubt' = doubt \cup {cur[w]}
  /\ UNCHANGED <<attempts, checkpoint>>

\* Bug: a delivery without an answer is retried like a failed one.
RetryInDoubt(w) ==
  /\ Settles(w)
  /\ result[w] \in {"failure", "ai_failure", "ambiguous"}
  /\ MarkStatus(cur[w], "retry_wait", "failure")
  /\ Suspend(w, "retry", cur[w])
  /\ UNCHANGED <<attempts, review, checkpoint, doubt>>

RetryLater(w) ==
  /\ Settles(w)
  /\ \/ result[w] = "failure"
     \/ result[w] = "ai_failure" /\ attempts[cur[w]] < AiMax
  /\ MarkStatus(cur[w], "retry_wait", "failure")
  /\ Suspend(w, "retry", cur[w])
  /\ UNCHANGED <<attempts, review, checkpoint, doubt>>

\* The alert of a review has been sent, or the retry has been scheduled.
AlertSent(w) ==
  /\ pc[w] = "notify"
  /\ Suspend(w, "release", cur[w])
  /\ UNCHANGED <<ledgerVars, queueVars, loopVars, result, historyVars>>

RetryScheduled(w) ==
  /\ pc[w] = "retry"
  /\ Enqueue({cur[w]})
  /\ Suspend(w, "release", cur[w])
  /\ UNCHANGED <<ledgerVars, routeLock, loopVars, result, historyVars>>

Release(w) ==
  /\ pc[w] = "release"
  /\ ReleaseRouteLock(RouteOf[cur[w]], w)
  /\ Return(w)
  /\ UNCHANGED <<ledgerVars, queue, loopVars, result, historyVars>>

-------------------------------------------------------------------------------
(* Time-outs, crashes, lock expiry.                                        *)

UnderLock == {"process", "settle", "notify", "retry", "release"}

\* Keys whose delivery was under way and not yet recorded.
Unrecorded == {cur[w] : w \in {v \in Workers : pc[v] = "settle"}}

\* Every worker stops where it is and what was popped is forgotten.
AbandonWork ==
  /\ batch' = {}
  /\ pc' = [w \in Workers |-> "idle"]
  /\ cur' = [w \in Workers |-> NoKey]
  /\ result' = [w \in Workers |-> "none"]
  /\ doubt' = doubt \cup {k \in Unrecorded : status'[k] # "sent"}
  /\ UNCHANGED <<mode, posts>>

\* The routes whose lock a worker is asking Redis for: the lock may be set
\* there although the answer is never seen.
AskedLocks == {r \in Routes : /\ Backend = "redis"
                              /\ routeLock[r] = Free
                              /\ \E w \in Workers : /\ pc[w] = "acquire"
                                                    /\ RouteOf[cur[w]] = r}

\* _safe_tick_sync_drain cancels a drain that takes SYNC_DRAIN_TIMEOUT_SEC;
\* the finally clause releases the locks the workers know they hold.
CancelDrain ==
  /\ "cancel" \in Events
  /\ Draining
  /\ UNCHANGED <<ledgerVars, queue, hydrated, bucket>>
  /\ AbandonWork
  /\ \E leaked \in SUBSET AskedLocks :
       routeLock' = [r \in Routes |->
         IF r \in leaked THEN Orphan
         ELSE IF \E w \in Workers : /\ pc[w] \in UnderLock
                                    /\ RouteOf[cur[w]] = r
                                    /\ routeLock[r] = w
                THEN Free ELSE routeLock[r]]

\* The in-memory queue and locks go with the process; those in Redis stay,
\* the locks until their TTL.
LoseMemory ==
  /\ "crash" \in Events
  /\ AbandonWork
  /\ hydrated' = FALSE
  /\ bucket' = [k \in Keys |-> "none"]
  /\ IF Backend = "memory"
       THEN queue' = {} /\ routeLock' = [r \in Routes |-> Free]
       ELSE /\ UNCHANGED queue
            /\ \E leaked \in SUBSET AskedLocks :
                 routeLock' = [r \in Routes |->
                   IF routeLock[r] # Free \/ r \in leaked THEN Orphan ELSE Free]

\* The process dies in an await.
Crash == UNCHANGED ledgerVars /\ LoseMemory

\* The status is one transaction; the checkpoint, or the review, that follows
\* it is another.  No other coroutine runs between the two, but the process
\* may die there: the status is on the disk and the rest never happens.
CrashHalfSettled(w) ==
  /\ pc[w] = "settle"
  /\ \/ result[w] = "ok" /\ MarkStatus(cur[w], "sent", "none")
     \/ result[w] = "ambiguous" /\ MarkStatus(cur[w], "ambiguous", "failure")
     \/ /\ \/ result[w] = "blocked"
           \/ result[w] = "ai_failure" /\ attempts[cur[w]] >= AiMax
        /\ MarkStatus(cur[w], "blocked", "failure")
  /\ UNCHANGED <<attempts, review, checkpoint>>
  /\ LoseMemory

\* A queue call of a worker raises: gather() collects the exception and the
\* item is forgotten, after the finally clause if the worker holds the lock.
\* A lock whose setting or deletion failed may stay until its TTL.
QueueFails(w) ==
  /\ "queueError" \in Events
  /\ Backend = "redis"
  /\ \/ /\ pc[w] = "acquire"
        /\ Return(w)
        /\ \/ UNCHANGED routeLock
           \/ CanAcquire(RouteOf[cur[w]]) /\ AcquireRouteLock(RouteOf[cur[w]], Orphan)
     \/ /\ pc[w] = "requeue"
        /\ Return(w)
        /\ UNCHANGED routeLock
     \/ /\ pc[w] = "retry"
        /\ Suspend(w, "release", cur[w])
        /\ UNCHANGED routeLock
     \/ /\ pc[w] = "release"
        /\ Return(w)
        /\ routeLock' = [routeLock EXCEPT ![RouteOf[cur[w]]] = IF @ = w THEN Orphan ELSE @]
  /\ UNCHANGED <<ledgerVars, queue, loopVars, result, historyVars>>

ExpireLock(r) ==
  /\ \/ routeLock[r] = Orphan
     \/ routeLock[r] # Free /\ "expire" \in Events
  /\ routeLock' = [routeLock EXCEPT ![r] = Free]
  /\ UNCHANGED <<ledgerVars, queue, loopVars, workerVars, historyVars>>

-------------------------------------------------------------------------------
(* Management calls.                                                       *)

SetMode(r, m) == mode' = [mode EXCEPT ![r] = m]

StopRoute(r) ==
  /\ "stop" \in Events
  /\ mode[r] = "active"
  /\ SetMode(r, "deactive")
  /\ UNCHANGED <<ledgerVars, queueVars, hydrated, bucket, batch, workerVars,
                 historyVars>>

\* start_route_sync: parked rows are retryable again and are re-queued.
StartRoute(r) ==
  /\ mode[r] = "deactive"
  /\ SetMode(r, "active")
  /\ ReactivateRouteDeactiveBlocks(r)
  /\ Enqueue({k \in KeysOf(r) : status'[k] \in RetryableStatuses})
  /\ UNCHANGED <<attempts, review, checkpoint, routeLock, hydrated, bucket,
                 batch, workerVars, historyVars>>

\* start_all_routes only rewrites the routes' status.
StartAllRoutes ==
  /\ "startAll" \in Events
  /\ mode' = [r \in Routes |-> IF mode[r] = "deactive" THEN "active" ELSE mode[r]]
  /\ UNCHANGED <<ledgerVars, queueVars, hydrated, bucket, batch, workerVars,
                 historyVars>>

DeleteRoute(r) ==
  /\ "delete" \in Events
  /\ mode[r] # "deleted"
  /\ SetMode(r, "deleted")
  /\ UNCHANGED <<ledgerVars, queueVars, hydrated, bucket, batch, workerVars,
                 historyVars>>

\* sync_review_retry and sync_review_skip of an open review.
ReviewRetry(k) ==
  /\ "retry" \in Events
  /\ review[k] = "open"
  /\ ResolveReview(k, "retry")
  /\ Enqueue({k})
  /\ UNCHANGED <<attempts, checkpoint, routeLock, loopVars, workerVars, historyVars>>

ReviewSkip(k) ==
  /\ "skip" \in Events
  /\ review[k] = "open"
  /\ ResolveReview(k, "skip")
  /\ UNCHANGED <<attempts, checkpoint, queueVars, loopVars, workerVars, historyVars>>

-------------------------------------------------------------------------------
BeginItem(w, k) ==
  \/ SkipFinished(w, k)     \/ RefuseRoute(w, k)     \/ DiscardOvertaken(w, k)
  \/ WaitForOrder(w, k)     \/ WaitForInterval(w, k) \/ PassGates(w, k)

WorkerStep(w) ==
  \/ Requeue(w)     \/ LockBusy(w)      \/ LockTaken(w)  \/ Deliver(w)
  \/ Confirm(w)     \/ Block(w)         \/ GiveUpOnAi(w) \/ HoldForReview(w)
  \/ RetryLater(w)  \/ AlertSent(w)     \/ RetryScheduled(w)
  \/ Release(w)

Next ==
  \/ Hydrate
  \/ \E k \in Keys : Arrive(k) \/ CollectAlbum(k) \/ FlushAlbum(k)
  \/ \E stale, popped \in SUBSET Keys : StartDrain(stale, popped)
  \/ \E w \in Workers, k \in Keys : BeginItem(w, k)
  \/ \E w \in Workers : WorkerStep(w) \/ QueueFails(w)
  \/ \E w \in Workers : CrashHalfSettled(w)
  \/ CancelDrain \/ Crash \/ StartAllRoutes
  \/ \E r \in Routes : ExpireLock(r) \/ StopRoute(r) \/ StartRoute(r) \/ DeleteRoute(r)
  \/ \E k \in Keys : ReviewRetry(k) \/ ReviewSkip(k)

Spec == Init /\ [][Next]_vars

-------------------------------------------------------------------------------
(* Safety. *)

\* Two workers never process messages of one route at the same time: the
\* route lock, taken after two awaits, is what makes the rest sequential.
LockMutex ==
  \A v, w \in Workers :
    /\ pc[v] \in UnderLock /\ pc[w] \in UnderLock
    /\ RouteOf[cur[v]] = RouteOf[cur[w]]
    => v = w

\* A checkpoint that moves passes no queued or processing row of its route:
\* those would be refused from then on.  The ordering gate reads the pending
\* rows before the lock is taken and nothing reads them again.
CheckpointRespectsOrder ==
  [][\A k \in Keys : LET r == RouteOf[k] IN
       checkpoint[r] < Id[k] /\ Id[k] <= checkpoint'[r]
         => status'[k] \notin ActiveStatuses]_vars

\* Nor does it pass a member of an album that is still being assembled.
CheckpointSparesAlbums ==
  [][\A g \in Assembling : LET r == RouteOf[g] IN
       checkpoint[r] < First[g] => checkpoint'[r] < First[g]]_vars

\* A message reaches the destination after every lower message of its route
\* that was queued or under way.
DeliversInOrder ==
  [][\A k \in Keys : posts'[k] > posts[k] => EarlierPending(k) = {}]_vars

\* No queued or processing row is discarded because the checkpoint has
\* overtaken it.  Of the rows that let others pass, failed and retry_wait ones
\* are retried on purpose; only one held for review may be discarded so.
NoSilentDrop ==
  [][\A k \in Keys : status[k] \in ActiveStatuses
       => lastError'[k] # "older_than_checkpoint"]_vars

\* The destination gets a message twice only if a delivery that reached it was
\* not recorded as sent: its answer was ambiguous, it failed after the
\* destination got a part, or the process or the drain ended between the call
\* and the ledger's update.
DuplicatesOnlyAfterDoubt == \A k \in Keys : posts[k] > 1 => k \in doubt

\* A row that was sent is never taken up again, however often its entry comes
\* back to the queue.
SentIsFinal == [][\A k \in Keys : status[k] = "sent" => status'[k] = "sent"]_vars

\* Once the queue is hydrated a retryable row of a running route has a queue
\* entry or is in a worker's hands: nothing else would ever bring it back.
Scheduled(k) ==
  \/ k \in queue \cup batch
  \/ \E w \in Workers : pc[w] \notin {"idle", "notify", "release"} /\ cur[w] = k

RetryableIsScheduled ==
  hydrated => \A k \in RetryableKeys : mode[RouteOf[k]] = "active" => Scheduled(k)

\* An ambiguous row that is not on the operator's list of open reviews: nothing
\* retries it and nobody is asked about it.
Unlisted(k) == status[k] = "ambiguous" /\ review[k] # "open"

\* No delivery in doubt is forgotten, whatever the operator has resolved
\* before, unless the process dies between the two transactions that record it.
AmbiguousHasReview ==
  [][\A k \in Keys : Unlisted(k)' =>
       Unlisted(k) \/ \E w \in Workers : cur[w] = k /\ CrashHalfSettled(w)]_vars

\* "Ambiguous dispatch ... must not be auto-retried to avoid duplicate posts"
\* (_process_route_message_with_retries).
AmbiguousIsNotRetried ==
  [][\A k \in Keys : status[k] = "ambiguous" => status'[k] # "processing"]_vars

\* "Route is deactive; will resume after route start" (_process_queued_item):
\* a row parked because its route was stopped is back in the queue when the
\* route runs again.
ParkedRowsResume ==
  hydrated => \A k \in Keys :
    /\ status[k] = "failed"
    /\ lastError[k] = "route_deactive"
    /\ mode[RouteOf[k]] = "active"
    => Scheduled(k)

\* What the relay promises (module OrderedRelay): a queued or processing row
\* is open, a sent or blocked one closed, any other parked.
Phase(s) ==
  CASE s = "absent" -> "new"
    [] s \in ActiveStatuses -> "open"
    [] s \in TerminalStatuses -> "closed"
    [] OTHER -> "parked"

Relay == INSTANCE OrderedRelay
           WITH phase <- [k \in Keys |-> Phase(status[k])], horizon <- checkpoint

ImplementsOrderedRelay == Relay!RelaySpec

-------------------------------------------------------------------------------
(* Liveness.                                                               *)
(*                                                                         *)
(* asyncio resumes every coroutine whose await completes, and every await  *)
(* has a time-out, hence weak fairness of each worker.  The queue is       *)
(* ordered by due time and an entry's due time does not move, so an entry  *)
(* is popped in the end even if others come and go: strong fairness.  A    *)
(* worker that lost the lock is due again in 0.7 s, while the row that     *)
(* took it backs off for longer and longer, so it cannot lose for ever.    *)

Fairness ==
  /\ WF_vars(Hydrate)
  /\ \A w \in Workers : WF_vars(WorkerStep(w))
  /\ \A r \in Routes : WF_vars(routeLock[r] = Orphan /\ ExpireLock(r))
  /\ \A k \in Keys :
       /\ WF_vars(\E w \in Workers : BeginItem(w, k))
       /\ SF_vars(\E stale, popped \in SUBSET Keys :
                    k \in popped /\ StartDrain(stale, popped))
       /\ SF_vars(\E stale, popped \in SUBSET Keys :
                    k \in stale /\ StartDrain(stale, popped))
       /\ SF_vars(\E w \in Workers : cur[w] = k /\ LockTaken(w))

FairSpec == Spec /\ Fairness

\* If the process stops crashing, a row a crash left in processing is taken
\* up again: it does not block its route's order for ever.
ProcessingIsRecovered ==
  <>[]hydrated =>
    \A k \in Keys : status[k] = "processing" ~> status[k] # "processing"

\* If drains stop timing out and the process stops crashing, a row with a queue
\* entry waits for ever only behind a lower row of its route that is attempted
\* again and again.  In particular it does not circle behind a row whose own
\* entry a timed-out drain has lost: that entry is put back.
WaitsOnlyBehindRetries ==
  <>[][~CancelDrain]_vars /\ <>[]hydrated =>
    \A k \in Keys :
      <>[](status[k] = "queued" /\ Scheduled(k)) =>
        \E j \in KeysOf(RouteOf[k]) : Id[j] < Id[k] /\ []<>(status[j] = "processing")
===============================================================================
