--------------------------- MODULE SyncWorkerProofs ---------------------------
(***************************************************************************)
(* Theorems about SyncWorker for every set of routes, messages and         *)
(* workers, checked by TLAPS.                                              *)
(***************************************************************************)
EXTENDS SyncWorker, TLAPS

-------------------------------------------------------------------------------
(* Type correctness. *)

LEMMA InitTypeOK == Init => TypeOK
<1>. SUFFICES ASSUME Init PROVE TypeOK
  OBVIOUS
<1>1. LedgerTypeOK
  BY LedgerAssumption DEF Init, LedgerInit, LedgerTypeOK, Statuses, Errors
<1>2. QueueTypeOK(Routes, Keys)
  BY DEF Init, QueueInit, QueueTypeOK
<1>3. posts \in [Keys -> 0..PostCap]
  BY WorkerAssumption DEF Init
<1>. QED
  BY <1>1, <1>2, <1>3 DEF Init, TypeOK, Awaits, Results

LEMMA LoopTypeOK ==
  ASSUME TypeOK,
         \/ Hydrate
         \/ \E k \in Keys : Arrive(k) \/ CollectAlbum(k) \/ FlushAlbum(k)
         \/ \E stale, popped \in SUBSET Keys : StartDrain(stale, popped)
  PROVE  TypeOK'
<1>. USE DEF TypeOK, LedgerTypeOK, QueueTypeOK, Statuses, Errors,
             TerminalStatuses, RetryableStatuses, workerVars, historyVars, loopVars,
             ledgerVars, queueVars
<1>1. CASE Hydrate
  BY <1>1 DEF Hydrate, StaleProcessing, Enqueue
<1>2. CASE \E k \in Keys : Arrive(k)
  BY <1>2 DEF Arrive, EnqueueSyncMessage, RegisterMessage, Enqueue
<1>3. CASE \E k \in Keys : CollectAlbum(k)
  <2>1. PICK k \in Keys : CollectAlbum(k)
    BY <1>3
  <2>2. mode[RouteOf[k]] \in {"active", "deactive"}
    BY <2>1, LedgerAssumption DEF CollectAlbum
  <2>3. bucket' \in [Keys -> {"none", "active", "deactive"}]
    BY <2>1, <2>2 DEF CollectAlbum
  <2>. QED  BY <2>1, <2>3 DEF CollectAlbum
<1>4. CASE \E k \in Keys : FlushAlbum(k)
  BY <1>4 DEF FlushAlbum, EnqueueSyncMessage, RegisterMessage, Enqueue
<1>5. CASE \E stale, popped \in SUBSET Keys : StartDrain(stale, popped)
  BY <1>5 DEF StartDrain, StaleProcessing
<1>. QED  BY <1>1, <1>2, <1>3, <1>4, <1>5

LEMMA GateTypeOK ==
  ASSUME TypeOK, NEW w \in Workers, NEW k \in Keys, BeginItem(w, k)
  PROVE  TypeOK'
<1>. USE DEF TypeOK, LedgerTypeOK, QueueTypeOK, Statuses, Errors, Awaits,
             TerminalStatuses, workerVars, historyVars, loopVars, ledgerVars, queueVars,
             Begins, Suspend
<1>1. CASE SkipFinished(w, k)
  BY <1>1 DEF SkipFinished
<1>2. CASE RefuseRoute(w, k)
  BY <1>2 DEF RefuseRoute, MarkStatus
<1>3. CASE DiscardOvertaken(w, k)
  BY <1>3 DEF DiscardOvertaken, MarkStatus
<1>4. CASE WaitForOrder(w, k)
  BY <1>4 DEF WaitForOrder, Enqueue, FirstPending, PendingAbove, KeysOf
<1>5. CASE WaitForInterval(w, k)
  BY <1>5 DEF WaitForInterval
<1>6. CASE PassGates(w, k)
  BY <1>6 DEF PassGates
<1>. QED  BY <1>1, <1>2, <1>3, <1>4, <1>5, <1>6 DEF BeginItem

LEMMA WorkerTypeOK ==
  ASSUME TypeOK, NEW w \in Workers, WorkerStep(w) \/ QueueFails(w)
  PROVE  TypeOK'
<1>. USE LedgerAssumption, WorkerAssumption
     DEF TypeOK, LedgerTypeOK, QueueTypeOK, Statuses, Errors, Awaits, Results,
         workerVars, historyVars, loopVars, ledgerVars, queueVars, Suspend, Return
<1>1. CASE Requeue(w)
  BY <1>1 DEF Requeue, Enqueue
<1>2. CASE LockBusy(w)
  BY <1>2 DEF LockBusy
<1>3. CASE LockTaken(w)
  BY <1>3 DEF LockTaken, AcquireRouteLock, MarkProcessing
<1>4. CASE Deliver(w)
  <2>1. posts' \in [Keys -> 0..PostCap]
    BY <1>4 DEF Deliver
  <2>2. result' \in [Workers -> Results]
    BY <1>4 DEF Deliver, Outcomes
  <2>3. doubt' \subseteq Keys
    BY <1>4 DEF Deliver
  <2>. QED  BY <1>4, <2>1, <2>2, <2>3 DEF Deliver
<1>5. CASE Confirm(w) \/ Block(w) \/ GiveUpOnAi(w)
  BY <1>5 DEF Confirm, Block, GiveUpOnAi, Settles, Finish, MarkStatus,
              SetRouteCheckpoint, CheckpointTargets
<1>6. CASE HoldForReview(w)
  BY <1>6 DEF HoldForReview, Settles, MarkStatus, AddReview
<1>7. CASE RetryLater(w)
  BY <1>7 DEF RetryLater, Settles, MarkStatus
<1>8. CASE AlertSent(w)
  BY <1>8 DEF AlertSent
<1>9. CASE RetryScheduled(w)
  BY <1>9 DEF RetryScheduled, Enqueue
<1>10. CASE Release(w)
  BY <1>10 DEF Release, ReleaseRouteLock
<1>11. CASE QueueFails(w)
  <2>1. routeLock' \in [Routes -> Owners \cup {Free, Orphan}]
    BY <1>11 DEF QueueFails, AcquireRouteLock
  <2>2. /\ pc' \in [Workers -> Awaits]
        /\ cur' \in [Workers -> Keys \cup {NoKey}]
        /\ \A v \in Workers : pc'[v] # "idle" => cur'[v] \in Keys
    BY <1>11 DEF QueueFails
  <2>. QED  BY <1>11, <2>1, <2>2 DEF QueueFails
<1>. QED
  BY <1>1, <1>2, <1>3, <1>4, <1>5, <1>6, <1>7, <1>8, <1>9, <1>10, <1>11
  DEF WorkerStep

LEMMA EnvironmentTypeOK ==
  ASSUME TypeOK,
         \/ CancelDrain \/ Crash \/ StartAllRoutes
         \/ \E r \in Routes : ExpireLock(r) \/ StopRoute(r) \/ StartRoute(r) \/ DeleteRoute(r)
         \/ \E k \in Keys : ReviewRetry(k) \/ ReviewSkip(k)
  PROVE  TypeOK'
<1>. USE WorkerAssumption
     DEF TypeOK, LedgerTypeOK, QueueTypeOK, Statuses, Errors, Awaits, Results,
         workerVars, historyVars, loopVars, ledgerVars, queueVars
<1>1. CASE CancelDrain
  BY <1>1 DEF CancelDrain, AbandonWork, Unrecorded, AskedLocks
<1>2. CASE Crash
  <2>1. routeLock' \in [Routes -> Owners \cup {Free, Orphan}] /\ queue' \subseteq Keys
    BY <1>2 DEF Crash, LoseMemory
  <2>2. doubt' \subseteq Keys
    BY <1>2 DEF Crash, LoseMemory, AbandonWork, Unrecorded
  <2>. QED  BY <1>2, <2>1, <2>2 DEF Crash, LoseMemory, AbandonWork
<1>3. CASE StartAllRoutes
  BY <1>3 DEF StartAllRoutes
<1>4. CASE \E r \in Routes : ExpireLock(r)
  BY <1>4 DEF ExpireLock
<1>5. CASE \E r \in Routes : StopRoute(r)
  BY <1>5 DEF StopRoute, SetMode
<1>6. CASE \E r \in Routes : StartRoute(r)
  BY <1>6 DEF StartRoute, SetMode, ReactivateRouteDeactiveBlocks, Enqueue, KeysOf
<1>7. CASE \E r \in Routes : DeleteRoute(r)
  BY <1>7 DEF DeleteRoute, SetMode
<1>8. CASE \E k \in Keys : ReviewRetry(k)
  BY <1>8 DEF ReviewRetry, ResolveReview, MarkStatus, Enqueue
<1>9. CASE \E k \in Keys : ReviewSkip(k)
  BY <1>9 DEF ReviewSkip, ResolveReview, MarkStatus
<1>. QED  BY <1>1, <1>2, <1>3, <1>4, <1>5, <1>6, <1>7, <1>8, <1>9

LEMMA StutterTypeOK == ASSUME TypeOK, UNCHANGED vars PROVE TypeOK'
  BY DEF TypeOK, LedgerTypeOK, QueueTypeOK, vars, ledgerVars, queueVars, loopVars,
         workerVars, historyVars

\* Every variable keeps its type, and a worker that is suspended in an await
\* has a message in its hands: no handler forgets or invents an item.
\* A process that dies inside a settlement leaves the new status of one row,
\* and nothing else, behind.
LEMMA HalfSettled ==
  ASSUME TypeOK, NEW w \in Workers, CrashHalfSettled(w)
  PROVE  /\ pc[w] = "settle" /\ cur[w] \in Keys
         /\ batch' = {} /\ queue' \subseteq queue /\ hydrated' = FALSE
         /\ UNCHANGED <<attempts, review, checkpoint, mode, posts>>
         /\ \A v \in Workers : pc'[v] = "idle" /\ cur'[v] = NoKey
         /\ status' \in {[status EXCEPT ![cur[w]] = s] : s \in {"sent", "blocked", "ambiguous"}}
         /\ lastError' \in {[lastError EXCEPT ![cur[w]] = e] : e \in {"none", "failure"}}
         /\ doubt' = doubt \cup {k \in Unrecorded : status'[k] # "sent"}
<1>1. /\ pc[w] = "settle" /\ cur[w] \in Keys
      /\ UNCHANGED <<attempts, review, checkpoint>>
  BY DEF CrashHalfSettled, TypeOK
<1>2. /\ status' \in {[status EXCEPT ![cur[w]] = s] : s \in {"sent", "blocked", "ambiguous"}}
      /\ lastError' \in {[lastError EXCEPT ![cur[w]] = e] : e \in {"none", "failure"}}
  BY DEF CrashHalfSettled, MarkStatus
<1>3. /\ batch' = {} /\ hydrated' = FALSE
      /\ UNCHANGED <<mode, posts>>
      /\ \A v \in Workers : pc'[v] = "idle" /\ cur'[v] = NoKey
      /\ doubt' = doubt \cup {k \in Unrecorded : status'[k] # "sent"}
  BY DEF CrashHalfSettled, LoseMemory, AbandonWork
<1>4. queue' \subseteq queue
  BY DEF CrashHalfSettled, LoseMemory
<1>. QED  BY <1>1, <1>2, <1>3, <1>4

LEMMA HalfSettledTypeOK ==
  ASSUME TypeOK, NEW w \in Workers, CrashHalfSettled(w)
  PROVE  TypeOK'
<1>. USE DEF TypeOK, LedgerTypeOK, QueueTypeOK
<1>1. LedgerTypeOK'
  <2>1. PICK s \in {"sent", "blocked", "ambiguous"} : status' = [status EXCEPT ![cur[w]] = s]
    BY HalfSettled
  <2>2. PICK e \in {"none", "failure"} : lastError' = [lastError EXCEPT ![cur[w]] = e]
    BY HalfSettled
  <2>3. UNCHANGED <<attempts, review, checkpoint>>
    BY HalfSettled
  <2>. QED  BY <2>1, <2>2, <2>3 DEF Statuses, Errors
<1>2. /\ routeLock' \in [Routes -> Owners \cup {Free, Orphan}]
      /\ pc' \in [Workers -> Awaits]
      /\ cur' \in [Workers -> Keys \cup {NoKey}]
      /\ result' \in [Workers -> Results]
      /\ bucket' \in [Keys -> {"none", "active", "deactive"}]
  BY DEF CrashHalfSettled, LoseMemory, AbandonWork, Awaits, Results
<1>3. doubt' \subseteq Keys
  <2>1. doubt' \subseteq doubt \cup Unrecorded
    BY HalfSettled
  <2>2. Unrecorded \subseteq Keys
    BY DEF Unrecorded
  <2>. QED  BY <2>1, <2>2
<1>4. /\ queue' \subseteq Keys /\ hydrated' \in BOOLEAN /\ batch' \subseteq Keys
      /\ mode' = mode /\ posts' = posts
      /\ \A v \in Workers : pc'[v] # "idle" => cur'[v] \in Keys
  BY HalfSettled
<1>. QED  BY <1>1, <1>2, <1>3, <1>4

THEOREM TypeCorrect == Spec => []TypeOK
<1>1. TypeOK /\ [Next]_vars => TypeOK'
  BY LoopTypeOK, GateTypeOK, WorkerTypeOK, HalfSettledTypeOK, EnvironmentTypeOK,
     StutterTypeOK DEF Next
<1>. QED  BY <1>1, InitTypeOK, PTL DEF Spec

-------------------------------------------------------------------------------
(* The route lock.                                                         *)
(*                                                                         *)
(* Mutual exclusion is not inductive by itself: a worker under the lock    *)
(* must be known to own it, and two workers must be known to hold          *)
(* different items, which follows from an item leaving the batch when a    *)
(* worker begins it.                                                       *)

Busy(w) == pc[w] # "idle"

LockInv ==
  /\ ~hydrated => ~Draining
  /\ \A w \in Workers : Busy(w) => cur[w] \notin batch
  /\ \A v, w \in Workers : Busy(v) /\ Busy(w) /\ cur[v] = cur[w] => v = w
  /\ \A w \in Workers : pc[w] \in UnderLock => routeLock[RouteOf[cur[w]]] = w

LEMMA InitLockInv == Init => LockInv
  BY DEF Init, LockInv, Busy, Draining, UnderLock

LEMMA LoopLockInv ==
  ASSUME TypeOK, LockInv,
         \/ Hydrate
         \/ \E k \in Keys : Arrive(k) \/ CollectAlbum(k) \/ FlushAlbum(k)
         \/ \E stale, popped \in SUBSET Keys : StartDrain(stale, popped)
  PROVE  LockInv'
<1>1. /\ \A w \in Workers : ~Busy(w)
      /\ pc' = pc /\ cur' = cur
      /\ hydrated'
  BY DEF LockInv, Busy, Draining, LoopIsFree, Hydrate, Arrive, CollectAlbum, FlushAlbum,
         StartDrain, workerVars, loopVars
<1>. QED  BY <1>1 DEF LockInv, Busy, UnderLock

LEMMA GateLockInv ==
  ASSUME TypeOK, LockInv, NEW w \in Workers, NEW k \in Keys, BeginItem(w, k)
  PROVE  LockInv'
<1>1. /\ pc[w] = "idle" /\ k \in batch
      /\ batch' = batch \ {k}
      /\ hydrated' = hydrated /\ routeLock' = routeLock
      /\ \/ pc' = pc /\ cur' = cur
         \/ \E a \in {"acquire", "requeue"} :
               pc' = [pc EXCEPT ![w] = a] /\ cur' = [cur EXCEPT ![w] = k]
  BY DEF BeginItem, SkipFinished, RefuseRoute, DiscardOvertaken, WaitForOrder,
         WaitForInterval, PassGates, Begins, Suspend, queueVars
<1>2. hydrated
  BY <1>1 DEF LockInv, Draining
<1>3. CASE pc' = pc /\ cur' = cur
  BY <1>1, <1>2, <1>3 DEF LockInv, Busy, UnderLock
<1>4. CASE \E a \in {"acquire", "requeue"} :
             pc' = [pc EXCEPT ![w] = a] /\ cur' = [cur EXCEPT ![w] = k]
  <2>1. \A v \in Workers \ {w} : pc'[v] = pc[v] /\ cur'[v] = cur[v]
    BY <1>4 DEF TypeOK
  <2>2. cur'[w] = k /\ pc'[w] \notin UnderLock
    BY <1>4 DEF TypeOK, UnderLock
  <2>. QED  BY <1>1, <1>2, <2>1, <2>2 DEF LockInv, Busy
<1>. QED  BY <1>1, <1>3, <1>4

\* What a worker's step does to the workers' items and to the lock.
LEMMA WorkerFrame ==
  ASSUME TypeOK, NEW w \in Workers, WorkerStep(w) \/ QueueFails(w)
  PROVE  /\ hydrated' = hydrated /\ batch' = batch
         /\ Busy(w)
         /\ \A v \in Workers \ {w} : pc'[v] = pc[v] /\ cur'[v] = cur[v]
         /\ pc'[w] # "idle" => cur'[w] = cur[w]
         /\ pc[w] \notin {"acquire"} \cup UnderLock => pc'[w] = "idle"
<1>. USE DEF TypeOK, Busy, UnderLock, Suspend, Return, loopVars, workerVars, Settles
<1>1. CASE Requeue(w) \/ LockBusy(w) \/ LockTaken(w)
  BY <1>1 DEF Requeue, LockBusy, LockTaken
<1>2. CASE Deliver(w) \/ AlertSent(w) \/ RetryScheduled(w) \/ Release(w)
  BY <1>2 DEF Deliver, AlertSent, RetryScheduled, Release
<1>3. CASE Confirm(w) \/ Block(w) \/ GiveUpOnAi(w)
  BY <1>3 DEF Confirm, Block, GiveUpOnAi, Finish
<1>4. CASE HoldForReview(w) \/ RetryLater(w)
  BY <1>4 DEF HoldForReview, RetryLater
<1>5. CASE QueueFails(w)
  BY <1>5 DEF QueueFails
<1>. QED  BY <1>1, <1>2, <1>3, <1>4, <1>5 DEF WorkerStep

LEMMA WorkerLockInv ==
  ASSUME TypeOK, LockInv, NEW w \in Workers, WorkerStep(w) \/ QueueFails(w)
  PROVE  LockInv'
<1>. USE OwnersAssumption, WorkerAssumption, LedgerAssumption
<1>1. hydrated'
  BY WorkerFrame DEF LockInv, Draining, Busy
<1>2. \A v \in Workers : Busy(v)' => cur'[v] \notin batch'
  BY WorkerFrame DEF LockInv, Busy
<1>3. \A u, v \in Workers : Busy(u)' /\ Busy(v)' /\ cur'[u] = cur'[v] => u = v
  BY WorkerFrame DEF LockInv, Busy
<1>4. /\ pc'[w] \in UnderLock => routeLock'[RouteOf[cur'[w]]] = w
      /\ \A r \in Routes : routeLock[r] \in Workers \ {w} => routeLock'[r] = routeLock[r]
  <2>. USE DEF TypeOK, QueueTypeOK, LockInv, UnderLock, Suspend, Return, Settles, queueVars
  <2>1. CASE Requeue(w) \/ LockBusy(w)
    BY <2>1 DEF Requeue, LockBusy
  <2>2. CASE LockTaken(w)
    BY <2>2 DEF LockTaken, CanAcquire, AcquireRouteLock
  <2>3. CASE Deliver(w) \/ AlertSent(w) \/ RetryScheduled(w)
    BY <2>3 DEF Deliver, AlertSent, RetryScheduled
  <2>4. CASE Confirm(w) \/ Block(w) \/ GiveUpOnAi(w)
    BY <2>4 DEF Confirm, Block, GiveUpOnAi, Finish
  <2>5. CASE HoldForReview(w) \/ RetryLater(w)
    BY <2>5 DEF HoldForReview, RetryLater
  <2>6. CASE Release(w)
    BY <2>6 DEF Release, ReleaseRouteLock
  <2>7. CASE QueueFails(w)
    BY <2>7 DEF QueueFails, CanAcquire, AcquireRouteLock
  <2>. QED  BY <2>1, <2>2, <2>3, <2>4, <2>5, <2>6, <2>7 DEF WorkerStep
<1>5. \A v \in Workers : pc'[v] \in UnderLock => routeLock'[RouteOf[cur'[v]]] = v
  <2>1. \A v \in Workers : pc[v] \in UnderLock => RouteOf[cur[v]] \in Routes
    BY DEF TypeOK, UnderLock
  <2>. QED  BY <1>4, <2>1, WorkerFrame DEF LockInv
<1>. QED  BY <1>1, <1>2, <1>3, <1>5 DEF LockInv

LEMMA EnvironmentLockInv ==
  ASSUME TypeOK, LockInv, "expire" \notin Events,
         \/ CancelDrain \/ Crash \/ StartAllRoutes
         \/ \E r \in Routes : ExpireLock(r) \/ StopRoute(r) \/ StartRoute(r) \/ DeleteRoute(r)
         \/ \E k \in Keys : ReviewRetry(k) \/ ReviewSkip(k)
  PROVE  LockInv'
<1>1. CASE CancelDrain \/ Crash
  BY <1>1 DEF CancelDrain, Crash, LoseMemory, AbandonWork, LockInv, Busy, Draining, UnderLock
<1>2. CASE \E r \in Routes : ExpireLock(r)
  <2>1. PICK r \in Routes : ExpireLock(r)
    BY <1>2
  <2>2. \A w \in Workers : pc[w] \in UnderLock => routeLock'[RouteOf[cur[w]]] = w
    BY <2>1, OwnersAssumption, WorkerAssumption, LedgerAssumption
    DEF ExpireLock, LockInv, TypeOK, QueueTypeOK, UnderLock
  <2>. QED
    BY <2>1, <2>2 DEF ExpireLock, LockInv, Busy, Draining, loopVars, workerVars, UnderLock
<1>3. CASE \/ StartAllRoutes
           \/ \E r \in Routes : StopRoute(r) \/ StartRoute(r) \/ DeleteRoute(r)
           \/ \E k \in Keys : ReviewRetry(k) \/ ReviewSkip(k)
  <2>1. UNCHANGED <<routeLock, hydrated, batch, pc, cur>>
    BY <1>3 DEF StartAllRoutes, StopRoute, StartRoute, DeleteRoute, ReviewRetry,
                ReviewSkip, queueVars, loopVars, workerVars
  <2>. QED  BY <2>1 DEF LockInv, Busy, Draining, UnderLock
<1>. QED  BY <1>1, <1>2, <1>3

LEMMA HalfSettledLockInv ==
  ASSUME TypeOK, NEW w \in Workers, CrashHalfSettled(w)
  PROVE  LockInv'
  BY HalfSettled DEF LockInv, Busy, Draining, UnderLock

THEOREM LockInvariant == ASSUME "expire" \notin Events PROVE Spec => [](TypeOK /\ LockInv)
<1>1. TypeOK /\ LockInv /\ [Next]_vars => LockInv'
  <2>1. CASE UNCHANGED vars
    BY <2>1 DEF LockInv, Busy, Draining, UnderLock, vars, queueVars, loopVars, workerVars
  <2>. QED
    BY <2>1, LoopLockInv, GateLockInv, WorkerLockInv, HalfSettledLockInv, EnvironmentLockInv
    DEF Next
<1>. QED  BY <1>1, InitLockInv, TypeCorrect, PTL DEF Spec

\* Two workers are never under the lock of one route, as long as no lock runs
\* out while its owner works (SYNC_LOCK_TTL_SEC longer than any delivery).
THEOREM MutualExclusion == ASSUME "expire" \notin Events PROVE Spec => []LockMutex
<1>1. TypeOK /\ LockInv => LockMutex
  BY DEF LockInv, LockMutex
<1>. QED  BY <1>1, LockInvariant, PTL

-------------------------------------------------------------------------------
(* The order of a route.                                                   *)
(*                                                                         *)
(* The ordering gate is passed before the lock is taken, and not read      *)
(* again.  What keeps its answer true: any lower row that becomes active   *)
(* in between does so in the hands of a worker that holds the lock.        *)

Delivering(w) == pc[w] \in {"process", "settle"}

OrderInv ==
  \A w \in Workers, k \in Keys : cur[w] = k =>
    /\ Delivering(w) => EarlierPending(k) = {}
    /\ pc[w] = "acquire" =>
         \A j \in EarlierPending(k) : \E v \in Workers : Delivering(v) /\ cur[v] = j

LEMMA InitOrderInv == Init => OrderInv
  BY DEF Init, OrderInv, Delivering

\* The rows a row waits for only become fewer when no row becomes active and
\* no checkpoint moves back.
LEMMA EarlierPendingShrinks ==
  ASSUME TypeOK, TypeOK',
         \A j \in Keys : status'[j] \in ActiveStatuses => status[j] \in ActiveStatuses,
         \A r \in Routes : checkpoint[r] <= checkpoint'[r]
  PROVE  \A k \in Keys : EarlierPending(k)' \subseteq EarlierPending(k)
  BY LedgerAssumption DEF EarlierPending, PendingAbove, KeysOf, TypeOK, LedgerTypeOK

LEMMA CheckpointMonotone ==
  ASSUME TypeOK, NEW r \in Routes, NEW n \in Nat, SetRouteCheckpoint(r, n)
  PROVE  \A s \in Routes : checkpoint[s] <= checkpoint'[s]
  BY DEF SetRouteCheckpoint, TypeOK, LedgerTypeOK

\* A final outcome moves the checkpoint no further than the message.
LEMMA FinishCheckpoint ==
  ASSUME TypeOK, NEW w \in Workers, Confirm(w) \/ Block(w) \/ GiveUpOnAi(w)
  PROVE  LET k == cur[w]  r == RouteOf[k] IN
         /\ pc[w] = "settle" /\ k \in Keys
         /\ status' \in {[status EXCEPT ![k] = "sent"], [status EXCEPT ![k] = "blocked"]}
         /\ \E n \in 0..Id[k] :
              checkpoint' = [checkpoint EXCEPT ![r] = IF n > @ THEN n ELSE @]
  BY DEF Confirm, Block, GiveUpOnAi, Settles, Finish, MarkStatus, SetRouteCheckpoint,
         CheckpointTargets, TypeOK

LEMMA LoopOrderInv ==
  ASSUME TypeOK, LockInv,
         \/ Hydrate
         \/ \E k \in Keys : Arrive(k) \/ CollectAlbum(k) \/ FlushAlbum(k)
         \/ \E stale, popped \in SUBSET Keys : StartDrain(stale, popped)
  PROVE  OrderInv'
<1>1. (\A w \in Workers : ~Busy(w)) /\ pc' = pc
  BY DEF LockInv, Busy, Draining, LoopIsFree, Hydrate, Arrive, CollectAlbum, FlushAlbum,
         StartDrain, workerVars, loopVars
<1>. QED  BY <1>1 DEF OrderInv, Busy, Delivering

LEMMA GateOrderInv ==
  ASSUME TypeOK, TypeOK', LockInv, OrderInv, NEW w \in Workers, NEW k \in Keys, BeginItem(w, k)
  PROVE  OrderInv'
<1>. USE DEF Begins, Suspend
<1>1. /\ pc[w] = "idle" /\ checkpoint' = checkpoint
      /\ \/ status' = status
         \/ \E s \in {"blocked", "failed"} : status' = [status EXCEPT ![k] = s]
  BY DEF BeginItem, SkipFinished, RefuseRoute, DiscardOvertaken, WaitForOrder,
         WaitForInterval, PassGates, MarkStatus, ledgerVars
<1>2. \A j \in Keys : EarlierPending(j)' \subseteq EarlierPending(j)
  <2>1. \A j \in Keys : status'[j] \in ActiveStatuses => status[j] \in ActiveStatuses
    BY <1>1 DEF TypeOK, LedgerTypeOK, ActiveStatuses
  <2>2. \A r \in Routes : checkpoint[r] <= checkpoint'[r]
    BY <1>1 DEF TypeOK, LedgerTypeOK
  <2>. QED  BY <2>1, <2>2, EarlierPendingShrinks
<1>3. \A v \in Workers \ {w} : pc'[v] = pc[v] /\ cur'[v] = cur[v]
  BY DEF BeginItem, SkipFinished, RefuseRoute, DiscardOvertaken, WaitForOrder,
         WaitForInterval, PassGates, TypeOK
<1>4. /\ ~Delivering(w)'
      /\ pc'[w] = "acquire" => cur'[w] = k /\ EarlierPending(k) = {}
  BY <1>1 DEF BeginItem, SkipFinished, RefuseRoute, DiscardOvertaken, WaitForOrder,
         WaitForInterval, PassGates, TypeOK, Delivering
<1>5. \A v \in Workers : pc[v] # "idle" => cur[v] \in Keys
  BY DEF TypeOK
<1>. QED  BY <1>1, <1>2, <1>3, <1>4, <1>5 DEF OrderInv, Delivering

LEMMA LockTakenOrderInv ==
  ASSUME TypeOK, TypeOK', LockInv, OrderInv, NEW w \in Workers, LockTaken(w)
  PROVE  OrderInv'
<1>. PICK k \in Keys : k = cur[w]
  BY DEF LockTaken, TypeOK
<1>1. /\ pc[w] = "acquire"
      /\ routeLock[RouteOf[k]] = Free
      /\ status' = [status EXCEPT ![k] = "processing"]
      /\ checkpoint' = checkpoint
      /\ cur' = cur
      /\ pc'[w] = "process"
      /\ \A v \in Workers \ {w} : pc'[v] = pc[v]
  BY DEF LockTaken, CanAcquire, MarkProcessing, Suspend, TypeOK
<1>2. \A v \in Workers : Delivering(v) => RouteOf[cur[v]] # RouteOf[k] /\ v # w
  BY <1>1, OwnersAssumption, WorkerAssumption DEF LockInv, Delivering, UnderLock
<1>3. EarlierPending(k) = {}
  <2>1. \A j \in EarlierPending(k) : RouteOf[j] = RouteOf[k]
    BY DEF EarlierPending, PendingAbove, KeysOf
  <2>. QED  BY <1>1, <1>2, <2>1 DEF OrderInv
<1>4. \A i \in Keys : EarlierPending(i)' \subseteq EarlierPending(i) \cup {k}
  BY <1>1 DEF EarlierPending, PendingAbove, KeysOf, TypeOK, LedgerTypeOK
<1>5. \A i \in Keys : k \in EarlierPending(i)' => RouteOf[i] = RouteOf[k] /\ i # k
  BY LedgerAssumption DEF EarlierPending, PendingAbove, KeysOf
<1>6. ASSUME NEW v \in Workers, NEW i \in Keys, cur[v] = i, Delivering(v)'
      PROVE  EarlierPending(i)' = {}
  <2>1. CASE v = w
    BY <1>3, <1>4, <1>5, <1>6, <2>1
  <2>2. CASE v # w
    <3>1. Delivering(v)
      BY <1>1, <1>6, <2>2 DEF Delivering
    <3>2. EarlierPending(i) = {} /\ RouteOf[i] # RouteOf[k]
      BY <1>2, <1>6, <3>1 DEF OrderInv
    <3>. QED  BY <1>4, <1>5, <3>2
  <2>. QED  BY <2>1, <2>2
<1>7. ASSUME NEW v \in Workers, NEW i \in Keys, cur[v] = i, pc'[v] = "acquire",
             NEW j \in EarlierPending(i)'
      PROVE  \E u \in Workers : Delivering(u)' /\ cur'[u] = j
  <2>1. pc[v] = "acquire"
    BY <1>1, <1>7
  <2>2. CASE j = k
    BY <1>1, <2>2 DEF Delivering
  <2>3. CASE j \in EarlierPending(i)
    <3>1. PICK u \in Workers : Delivering(u) /\ cur[u] = j
      BY <1>7, <2>1, <2>3 DEF OrderInv
    <3>. QED  BY <1>1, <1>2, <3>1 DEF Delivering
  <2>4. j \in EarlierPending(i) \cup {k}
    BY <1>4, <1>7
  <2>. QED  BY <2>2, <2>3, <2>4
<1>. QED  BY <1>1, <1>6, <1>7 DEF OrderInv

LEMMA WorkerOrderInv ==
  ASSUME TypeOK, TypeOK', LockInv, OrderInv, NEW w \in Workers,
         WorkerStep(w) \/ QueueFails(w), ~LockTaken(w)
  PROVE  OrderInv'
<1>1. /\ \A j \in Keys : status'[j] \in ActiveStatuses => status[j] \in ActiveStatuses
      /\ \A r \in Routes : checkpoint[r] <= checkpoint'[r]
      /\ Delivering(w)' => Delivering(w)
      /\ pc'[w] # "acquire"
      /\ Delivering(w) /\ ~Delivering(w)' => status'[cur[w]] \notin ActiveStatuses
  <2>. USE DEF TypeOK, LedgerTypeOK, ActiveStatuses, Suspend, Return, Settles, Delivering,
               ledgerVars
  <2>1. CASE Requeue(w) \/ LockBusy(w)
    BY <2>1 DEF Requeue, LockBusy
  <2>2. CASE Deliver(w) \/ AlertSent(w) \/ RetryScheduled(w) \/ Release(w)
    BY <2>2 DEF Deliver, AlertSent, RetryScheduled, Release
  <2>3. CASE Confirm(w) \/ Block(w) \/ GiveUpOnAi(w)
    <3>1. pc'[w] = "release"
      BY <2>3 DEF Confirm, Block, GiveUpOnAi, Finish
    <3>. QED  BY <2>3, <3>1, FinishCheckpoint, LedgerAssumption
  <2>4. CASE HoldForReview(w) \/ RetryLater(w)
    BY <2>4 DEF HoldForReview, RetryLater, MarkStatus
  <2>5. CASE QueueFails(w)
    BY <2>5 DEF QueueFails
  <2>. QED  BY <2>1, <2>2, <2>3, <2>4, <2>5 DEF WorkerStep
<1>2. \A k \in Keys : EarlierPending(k)' \subseteq EarlierPending(k)
  BY <1>1, EarlierPendingShrinks
<1>3. \A v \in Workers : pc'[v] # "idle" => cur'[v] = cur[v] /\ cur[v] \in Keys
  BY WorkerFrame DEF TypeOK, Busy
<1>4. ASSUME NEW v \in Workers, NEW i \in Keys, cur'[v] = i, Delivering(v)'
      PROVE  EarlierPending(i)' = {}
  <2>1. Delivering(v) /\ cur[v] = i
    BY <1>1, <1>3, <1>4, WorkerFrame DEF Delivering
  <2>. QED  BY <1>2, <2>1 DEF OrderInv
<1>5. ASSUME NEW v \in Workers, NEW i \in Keys, cur'[v] = i, pc'[v] = "acquire",
             NEW j \in EarlierPending(i)'
      PROVE  \E u \in Workers : Delivering(u)' /\ cur'[u] = j
  <2>1. v # w /\ pc[v] = "acquire" /\ cur[v] = i
    BY <1>1, <1>3, <1>5, WorkerFrame
  <2>2. j \in EarlierPending(i)
    BY <1>2, <1>5
  <2>3. PICK u \in Workers : Delivering(u) /\ cur[u] = j
    BY <2>1, <2>2 DEF OrderInv
  <2>4. status'[j] \in ActiveStatuses
    BY <1>5 DEF EarlierPending, PendingAbove
  <2>5. Delivering(u)'
    BY <1>1, <2>3, <2>4, WorkerFrame DEF Delivering
  <2>. QED  BY <1>3, <2>3, <2>5 DEF Delivering
<1>. QED  BY <1>4, <1>5 DEF OrderInv

LEMMA EnvironmentOrderInv ==
  ASSUME TypeOK, TypeOK', OrderInv, "retry" \notin Events,
         \/ CancelDrain \/ Crash \/ StartAllRoutes
         \/ \E r \in Routes : ExpireLock(r) \/ StopRoute(r) \/ StartRoute(r) \/ DeleteRoute(r)
         \/ \E k \in Keys : ReviewRetry(k) \/ ReviewSkip(k)
  PROVE  OrderInv'
<1>1. CASE CancelDrain \/ Crash
  BY <1>1 DEF CancelDrain, Crash, LoseMemory, AbandonWork, OrderInv, Delivering
<1>2. CASE ~(CancelDrain \/ Crash)
  <2>1. pc' = pc /\ cur' = cur /\ checkpoint' = checkpoint
    BY <1>2 DEF StartAllRoutes, ExpireLock, StopRoute, StartRoute, DeleteRoute, ReviewRetry,
                ReviewSkip, ledgerVars, loopVars, workerVars
  <2>2. \A j \in Keys : status'[j] \in ActiveStatuses => status[j] \in ActiveStatuses
    <3>. USE DEF TypeOK, LedgerTypeOK, ActiveStatuses
    <3>1. CASE StartAllRoutes \/ \E r \in Routes : ExpireLock(r) \/ StopRoute(r) \/ DeleteRoute(r)
      BY <3>1 DEF StartAllRoutes, ExpireLock, StopRoute, DeleteRoute, ledgerVars
    <3>2. CASE \E r \in Routes : StartRoute(r)
      BY <3>2 DEF StartRoute, ReactivateRouteDeactiveBlocks
    <3>3. CASE \E k \in Keys : ReviewSkip(k)
      <4>1. \E k \in Keys : status' = [status EXCEPT ![k] = "blocked"]
        BY <3>3 DEF ReviewSkip, ResolveReview, MarkStatus
      <4>. QED  BY <4>1
    <3>4. ~\E k \in Keys : ReviewRetry(k)
      BY DEF ReviewRetry
    <3>. QED  BY <1>2, <3>1, <3>2, <3>3, <3>4
  <2>3. \A k \in Keys : EarlierPending(k)' \subseteq EarlierPending(k)
    <3>1. \A r \in Routes : checkpoint[r] <= checkpoint'[r]
      BY <2>1 DEF TypeOK, LedgerTypeOK
    <3>. QED  BY <2>2, <3>1, EarlierPendingShrinks
  <2>4. \A v \in Workers : pc[v] # "idle" => cur[v] \in Keys
    BY DEF TypeOK
  <2>. QED  BY <2>1, <2>3, <2>4 DEF OrderInv, Delivering
<1>. QED  BY <1>1, <1>2

LEMMA HalfSettledOrderInv ==
  ASSUME TypeOK, NEW w \in Workers, CrashHalfSettled(w)
  PROVE  OrderInv'
  BY HalfSettled DEF OrderInv, Delivering

THEOREM OrderInvariant ==
  ASSUME "expire" \notin Events, "retry" \notin Events
  PROVE  Spec => [](TypeOK /\ LockInv /\ OrderInv)
<1>1. TypeOK /\ TypeOK' /\ LockInv /\ OrderInv /\ [Next]_vars => OrderInv'
  <2>. SUFFICES ASSUME TypeOK, TypeOK', LockInv, OrderInv, [Next]_vars PROVE OrderInv'
    OBVIOUS
  <2>1. CASE UNCHANGED vars
    BY <2>1 DEF OrderInv, Delivering, EarlierPending, PendingAbove, vars, ledgerVars, workerVars
  <2>2. CASE \E w \in Workers : WorkerStep(w) \/ QueueFails(w)
    BY <2>2, LockTakenOrderInv, WorkerOrderInv
  <2>. QED
    BY <2>1, <2>2, LoopOrderInv, GateOrderInv, HalfSettledOrderInv, EnvironmentOrderInv
    DEF Next
<1>. QED  BY <1>1, InitOrderInv, LockInvariant, PTL DEF Spec

LEMMA CheckpointMoves ==
  ASSUME Next, checkpoint' # checkpoint
  PROVE  \E w \in Workers : Confirm(w) \/ Block(w) \/ GiveUpOnAi(w)
<1>. USE DEF ledgerVars, Begins, Settles
<1>1. ~(\/ Hydrate
        \/ \E k \in Keys : Arrive(k) \/ CollectAlbum(k) \/ FlushAlbum(k)
        \/ \E stale, popped \in SUBSET Keys : StartDrain(stale, popped))
  BY DEF Hydrate, Arrive, CollectAlbum, FlushAlbum, EnqueueSyncMessage, RegisterMessage,
         StartDrain
<1>2. ~\E w \in Workers, k \in Keys : BeginItem(w, k)
  BY DEF BeginItem, SkipFinished, RefuseRoute, DiscardOvertaken, WaitForOrder,
         WaitForInterval, PassGates
<1>3. ~(\/ CancelDrain \/ Crash \/ StartAllRoutes
        \/ \E w \in Workers : CrashHalfSettled(w)
        \/ \E r \in Routes : ExpireLock(r) \/ StopRoute(r) \/ StartRoute(r) \/ DeleteRoute(r)
        \/ \E k \in Keys : ReviewRetry(k) \/ ReviewSkip(k))
  BY DEF CancelDrain, Crash, CrashHalfSettled, LoseMemory, AbandonWork, StartAllRoutes, ExpireLock, StopRoute, StartRoute,
         DeleteRoute, ReviewRetry, ReviewSkip
<1>4. PICK w \in Workers : WorkerStep(w) \/ QueueFails(w)
  BY <1>1, <1>2, <1>3 DEF Next
<1>5. ~(Requeue(w) \/ LockBusy(w) \/ LockTaken(w) \/ Deliver(w) \/ AlertSent(w)
        \/ RetryScheduled(w) \/ Release(w) \/ QueueFails(w))
  BY DEF Requeue, LockBusy, LockTaken, Deliver, AlertSent, RetryScheduled, Release, QueueFails
<1>6. ~(HoldForReview(w) \/ RetryLater(w))
  BY DEF HoldForReview, RetryLater
<1>. QED  BY <1>4, <1>5, <1>6 DEF WorkerStep

\* What the ordering gate saw keeps the checkpoint below every row that waits.
LEMMA CheckpointPassesNoActive ==
  ASSUME TypeOK, OrderInv, Next, NEW k \in Keys,
         checkpoint[RouteOf[k]] < Id[k], Id[k] <= checkpoint'[RouteOf[k]]
  PROVE  status'[k] \notin ActiveStatuses
<1>. SUFFICES ASSUME status'[k] \in ActiveStatuses PROVE FALSE
  OBVIOUS
<1>. RouteOf[k] \in Routes /\ Id[k] \in Nat /\ checkpoint[RouteOf[k]] \in Nat
  BY LedgerAssumption DEF TypeOK, LedgerTypeOK
<1>1. PICK w \in Workers : Confirm(w) \/ Block(w) \/ GiveUpOnAi(w)
  BY CheckpointMoves
<1>. DEFINE c == cur[w]
<1>2. /\ Delivering(w) /\ c \in Keys
      /\ status' \in {[status EXCEPT ![c] = "sent"], [status EXCEPT ![c] = "blocked"]}
  BY <1>1, FinishCheckpoint DEF Delivering
<1>3. PICK n \in 0..Id[c] :
        checkpoint' = [checkpoint EXCEPT ![RouteOf[c]] = IF n > @ THEN n ELSE @]
  BY <1>1, FinishCheckpoint
<1>4. k # c /\ status[k] \in ActiveStatuses
  BY <1>2 DEF TypeOK, LedgerTypeOK, ActiveStatuses
<1>5. RouteOf[c] = RouteOf[k] /\ Id[k] <= n
  BY <1>3 DEF TypeOK, LedgerTypeOK
<1>6. Id[k] < Id[c]
  BY <1>2, <1>3, <1>4, <1>5, LedgerAssumption, DistinctIds
<1>7. k \in EarlierPending(c)
  BY <1>4, <1>5, <1>6 DEF EarlierPending, PendingAbove, KeysOf
<1>. QED  BY <1>2, <1>7 DEF OrderInv

\* A checkpoint never passes a queued or processing row of its route, in any
\* interleaving of the ordering gate, the route lock and the ledger updates:
\* no message is refused as overtaken while it waits for its turn.
THEOREM CheckpointInOrder ==
  ASSUME "expire" \notin Events, "retry" \notin Events
  PROVE  Spec => CheckpointRespectsOrder
<1>1. TypeOK /\ OrderInv /\ [Next]_vars =>
        [\A k \in Keys : LET r == RouteOf[k] IN
           checkpoint[r] < Id[k] /\ Id[k] <= checkpoint'[r]
             => status'[k] \notin ActiveStatuses]_vars
  BY CheckpointPassesNoActive
<1>. QED  BY <1>1, OrderInvariant, PTL DEF Spec, CheckpointRespectsOrder

LEMMA PostsMove ==
  ASSUME Next, posts' # posts
  PROVE  \E w \in Workers : Deliver(w)
<1>. USE DEF historyVars, Begins, Settles
<1>1. ~(\/ Hydrate
        \/ \E k \in Keys : Arrive(k) \/ CollectAlbum(k) \/ FlushAlbum(k)
        \/ \E stale, popped \in SUBSET Keys : StartDrain(stale, popped))
  BY DEF Hydrate, Arrive, CollectAlbum, FlushAlbum, StartDrain
<1>2. ~\E w \in Workers, k \in Keys : BeginItem(w, k)
  BY DEF BeginItem, SkipFinished, RefuseRoute, DiscardOvertaken, WaitForOrder,
         WaitForInterval, PassGates
<1>3. ~(\/ CancelDrain \/ Crash \/ StartAllRoutes
        \/ \E w \in Workers : CrashHalfSettled(w)
        \/ \E r \in Routes : ExpireLock(r) \/ StopRoute(r) \/ StartRoute(r) \/ DeleteRoute(r)
        \/ \E k \in Keys : ReviewRetry(k) \/ ReviewSkip(k))
  BY DEF CancelDrain, Crash, CrashHalfSettled, LoseMemory, AbandonWork, StartAllRoutes, ExpireLock, StopRoute, StartRoute,
         DeleteRoute, ReviewRetry, ReviewSkip
<1>4. PICK w \in Workers : WorkerStep(w) \/ QueueFails(w)
  BY <1>1, <1>2, <1>3 DEF Next
<1>5. ~(Requeue(w) \/ LockBusy(w) \/ LockTaken(w) \/ AlertSent(w)
        \/ RetryScheduled(w) \/ Release(w) \/ QueueFails(w))
  BY DEF Requeue, LockBusy, LockTaken, AlertSent, RetryScheduled, Release, QueueFails
<1>6. ~(Confirm(w) \/ Block(w) \/ GiveUpOnAi(w) \/ HoldForReview(w) \/ RetryLater(w))
  BY DEF Confirm, Block, GiveUpOnAi, HoldForReview, RetryLater
<1>. QED  BY <1>4, <1>5, <1>6 DEF WorkerStep

\* The destination gets a message only when no lower message of its route is
\* queued or under way.
THEOREM DeliveryInOrder ==
  ASSUME "expire" \notin Events, "retry" \notin Events
  PROVE  Spec => DeliversInOrder
<1>1. ASSUME TypeOK, LockInv, OrderInv, Next, NEW k \in Keys, posts'[k] > posts[k]
      PROVE  EarlierPending(k) = {}
  <2>1. posts[k] \in Nat
    BY <1>1, WorkerAssumption DEF TypeOK
  <2>2. PICK w \in Workers : Deliver(w)
    BY <1>1, <2>1, PostsMove
  <2>3. cur[w] = k /\ pc[w] = "process"
    BY <1>1, <2>1, <2>2 DEF Deliver, TypeOK
  <2>. QED  BY <1>1, <2>3 DEF OrderInv, Delivering
<1>2. TypeOK /\ LockInv /\ OrderInv /\ [Next]_vars =>
        [\A k \in Keys : posts'[k] > posts[k] => EarlierPending(k) = {}]_vars
  BY <1>1, WorkerAssumption DEF TypeOK, vars, historyVars
<1>. QED  BY <1>2, OrderInvariant, PTL DEF Spec, DeliversInOrder
===============================================================================
