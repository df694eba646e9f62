-------------------------- MODULE SyncOutcomeProofs ---------------------------
(***************************************************************************)
(* What becomes of a message in SyncWorker, for every set of routes,       *)
(* messages and workers: no delivery in doubt is forgotten, no album is    *)
(* overtaken, a sent row stays sent, no retryable row is out of reach, a   *)
(* message is posted twice only after a delivery nobody could confirm, and *)
(* no active row is discarded as overtaken; in short, SyncWorker           *)
(* implements OrderedRelay.                                                *)
(***************************************************************************)
EXTENDS SyncWorkerProofs

-------------------------------------------------------------------------------
(* The ordered relay. *)

\* What a worker has in its hands keeps the status the worker left it with:
\* others only take up rows of their own, and the operator's resolutions,
\* which do not care, are excluded below.
StatusInv ==
  /\ \A w \in Workers, k \in Keys : cur[w] = k =>
       /\ Delivering(w) => status[k] = "processing"
       /\ pc[w] = "acquire" => status[k] \notin TerminalStatuses \cup {"absent"}
  /\ \A k \in Keys : status[k] = "blocked" => lastError[k] # "route_deactive"

LEMMA InitStatusInv == Init => StatusInv
  BY DEF Init, LedgerInit, StatusInv, Delivering

LEMMA LoopStatusInv ==
  ASSUME TypeOK, LockInv, StatusInv,
         \/ Hydrate
         \/ \E k \in Keys : Arrive(k) \/ CollectAlbum(k) \/ FlushAlbum(k)
         \/ \E stale, popped \in SUBSET Keys : StartDrain(stale, popped)
  PROVE  StatusInv'
<1>1. (\A w \in Workers : ~Busy(w)) /\ pc' = pc
  BY DEF LockInv, Busy, Draining, LoopIsFree, Hydrate, Arrive, CollectAlbum, FlushAlbum,
         StartDrain, workerVars, loopVars
<1>2. \A k \in Keys : status'[k] = "blocked" => lastError'[k] # "route_deactive"
  <2>. USE DEF TypeOK, LedgerTypeOK, StatusInv, ledgerVars
  <2>1. CASE Hydrate \/ \E stale, popped \in SUBSET Keys : StartDrain(stale, popped)
    BY <2>1 DEF Hydrate, StartDrain, StaleProcessing
  <2>2. CASE \E k \in Keys : Arrive(k) \/ FlushAlbum(k)
    BY <2>2 DEF Arrive, FlushAlbum, EnqueueSyncMessage, RegisterMessage
  <2>3. CASE \E k \in Keys : CollectAlbum(k)
    BY <2>3 DEF CollectAlbum
  <2>. QED  BY <2>1, <2>2, <2>3
<1>. QED  BY <1>1, <1>2 DEF StatusInv, Busy, Delivering

LEMMA GateStatusInv ==
  ASSUME TypeOK, LockInv, StatusInv, NEW w \in Workers, NEW k \in Keys, BeginItem(w, k)
  PROVE  StatusInv'
<1>. USE DEF Begins, Suspend, TypeOK, LedgerTypeOK
<1>1. /\ pc[w] = "idle" /\ k \in batch
      /\ \A j \in Keys \ {k} : status'[j] = status[j]
      /\ \A v \in Workers \ {w} : pc'[v] = pc[v] /\ cur'[v] = cur[v]
      /\ ~Delivering(w)'
  BY DEF BeginItem, SkipFinished, RefuseRoute, DiscardOvertaken, WaitForOrder,
         WaitForInterval, PassGates, MarkStatus, ledgerVars, Delivering
<1>2. pc'[w] = "acquire" =>
        /\ cur'[w] = k
        /\ status'[k] \notin TerminalStatuses \cup {"absent"}
  BY DEF BeginItem, SkipFinished, RefuseRoute, DiscardOvertaken, WaitForOrder,
         WaitForInterval, PassGates, MayProceed, ledgerVars
<1>3. \A v \in Workers : Busy(v) => cur[v] # k
  BY <1>1 DEF LockInv
<1>4. \A j \in Keys : status'[j] = "blocked" => lastError'[j] # "route_deactive"
  <2>1. CASE SkipFinished(w, k) \/ WaitForOrder(w, k) \/ WaitForInterval(w, k) \/ PassGates(w, k)
    BY <2>1 DEF SkipFinished, WaitForOrder, WaitForInterval, PassGates, ledgerVars, StatusInv
  <2>2. CASE RefuseRoute(w, k)
    BY <2>2 DEF RefuseRoute, MarkStatus, StatusInv
  <2>3. CASE DiscardOvertaken(w, k)
    BY <2>3 DEF DiscardOvertaken, MarkStatus, StatusInv
  <2>. QED  BY <2>1, <2>2, <2>3 DEF BeginItem
<1>. QED  BY <1>1, <1>2, <1>3, <1>4 DEF StatusInv, Busy, Delivering

LEMMA WorkerStatusInv ==
  ASSUME TypeOK, LockInv, StatusInv, NEW w \in Workers, WorkerStep(w) \/ QueueFails(w)
  PROVE  StatusInv'
<1>. PICK k \in Keys : k = cur[w] /\ Busy(w)
  BY WorkerFrame DEF TypeOK, Busy
<1>1. /\ \A j \in Keys \ {k} : status'[j] = status[j] /\ lastError'[j] = lastError[j]
      /\ Delivering(w)' => status'[k] = "processing"
      /\ pc'[w] # "acquire"
      /\ status'[k] = "blocked" => lastError'[k] # "route_deactive"
  <2>. USE DEF TypeOK, LedgerTypeOK, Suspend, Return, Settles, Delivering, ledgerVars, StatusInv
  <2>1. CASE Requeue(w) \/ LockBusy(w) \/ LockTaken(w)
    BY <2>1 DEF Requeue, LockBusy, LockTaken, MarkProcessing
  <2>2. CASE Deliver(w) \/ AlertSent(w) \/ RetryScheduled(w) \/ Release(w)
    BY <2>2 DEF Deliver, AlertSent, RetryScheduled, Release
  <2>3. CASE Confirm(w) \/ Block(w) \/ GiveUpOnAi(w)
    BY <2>3 DEF Confirm, Block, GiveUpOnAi, Finish, MarkStatus
  <2>4. CASE HoldForReview(w) \/ RetryLater(w)
    BY <2>4 DEF HoldForReview, RetryLater, MarkStatus
  <2>5. CASE QueueFails(w)
    BY <2>5 DEF QueueFails
  <2>. QED  BY <2>1, <2>2, <2>3, <2>4, <2>5 DEF WorkerStep
<1>2. \A v \in Workers \ {w} : Busy(v) => cur[v] # k
  BY DEF LockInv
<1>3. \A v \in Workers \ {w} : pc'[v] = pc[v] /\ cur'[v] = cur[v]
  BY WorkerFrame
<1>4. Busy(w)' => cur'[w] = k
  BY WorkerFrame DEF Busy
<1>. QED  BY <1>1, <1>2, <1>3, <1>4 DEF StatusInv, Busy, Delivering

\* Starting a route finds no row to reactivate: nothing blocks a row because
\* its route is stopped.
LEMMA NothingToReactivate ==
  ASSUME TypeOK, StatusInv, NEW r \in Routes, ReactivateRouteDeactiveBlocks(r)
  PROVE  status' = status /\ lastError' = lastError
  BY DEF ReactivateRouteDeactiveBlocks, StatusInv, KeysOf, TypeOK, LedgerTypeOK

LEMMA EnvironmentKeepsRows ==
  ASSUME TypeOK, StatusInv, "retry" \notin Events, "skip" \notin Events,
         \/ CancelDrain \/ Crash \/ StartAllRoutes
         \/ \E r \in Routes : ExpireLock(r) \/ StopRoute(r) \/ StartRoute(r) \/ DeleteRoute(r)
         \/ \E k \in Keys : ReviewRetry(k) \/ ReviewSkip(k)
  PROVE  /\ UNCHANGED <<status, lastError, checkpoint>>
         /\ \/ \A w \in Workers : pc'[w] = "idle"
            \/ pc' = pc /\ cur' = cur
<1>1. CASE CancelDrain \/ Crash
  BY <1>1 DEF CancelDrain, Crash, LoseMemory, AbandonWork, ledgerVars
<1>2. CASE StartAllRoutes \/ \E r \in Routes : ExpireLock(r) \/ StopRoute(r) \/ DeleteRoute(r)
  BY <1>2 DEF StartAllRoutes, ExpireLock, StopRoute, DeleteRoute, ledgerVars, workerVars
<1>3. CASE \E r \in Routes : StartRoute(r)
  BY <1>3, NothingToReactivate DEF StartRoute, workerVars
<1>4. ~\E k \in Keys : ReviewRetry(k) \/ ReviewSkip(k)
  BY DEF ReviewRetry, ReviewSkip
<1>. QED  BY <1>1, <1>2, <1>3, <1>4

LEMMA EnvironmentStatusInv ==
  ASSUME StatusInv, UNCHANGED <<status, lastError>>,
         \/ \A w \in Workers : pc'[w] = "idle"
         \/ pc' = pc /\ cur' = cur
  PROVE  StatusInv'
  BY DEF StatusInv, Delivering

LEMMA HalfSettledStatusInv ==
  ASSUME TypeOK, StatusInv, NEW w \in Workers, CrashHalfSettled(w)
  PROVE  StatusInv'
<1>1. PICK s \in {"sent", "blocked", "ambiguous"} : status' = [status EXCEPT ![cur[w]] = s]
  BY HalfSettled
<1>2. PICK e \in {"none", "failure"} : lastError' = [lastError EXCEPT ![cur[w]] = e]
  BY HalfSettled
<1>3. \A v \in Workers : pc'[v] = "idle"
  BY HalfSettled
<1>. QED  BY <1>1, <1>2, <1>3 DEF StatusInv, Delivering, TypeOK, LedgerTypeOK

THEOREM StatusInvariant ==
  ASSUME "expire" \notin Events, "retry" \notin Events, "skip" \notin Events
  PROVE  Spec => []StatusInv
<1>1. TypeOK /\ LockInv /\ StatusInv /\ [Next]_vars => StatusInv'
  <2>. SUFFICES ASSUME TypeOK, LockInv, StatusInv, [Next]_vars PROVE StatusInv'
    OBVIOUS
  <2>1. CASE UNCHANGED vars
    BY <2>1, EnvironmentStatusInv DEF vars, ledgerVars, workerVars
  <2>. QED
    BY <2>1, LoopStatusInv, GateStatusInv, WorkerStatusInv, HalfSettledStatusInv,
       EnvironmentKeepsRows, EnvironmentStatusInv DEF Next
<1>. QED  BY <1>1, InitStatusInv, LockInvariant, PTL DEF Spec

-------------------------------------------------------------------------------
(* The simulation. *)

LEMMA RelayStutter ==
  ASSUME UNCHANGED <<status, checkpoint>>
  PROVE  UNCHANGED Relay!relayVars
  BY DEF Relay!relayVars, Phase

LEMMA ParksStale ==
  ASSUME TypeOK, NEW S, StaleProcessing(S), checkpoint' = checkpoint
  PROVE  Relay!RelayNext
<1>1. S \in SUBSET Keys
  BY DEF StaleProcessing
<1>2. Relay!Park(S)
  BY DEF StaleProcessing, Relay!Park, Phase, ActiveStatuses, TerminalStatuses
<1>. QED  BY <1>1, <1>2 DEF Relay!RelayNext

LEMMA LoopSimulates ==
  ASSUME TypeOK,
         \/ Hydrate
         \/ \E k \in Keys : Arrive(k) \/ CollectAlbum(k) \/ FlushAlbum(k)
         \/ \E stale, popped \in SUBSET Keys : StartDrain(stale, popped)
  PROVE  [Relay!RelayNext]_(Relay!relayVars)
<1>1. CASE Hydrate \/ \E stale, popped \in SUBSET Keys : StartDrain(stale, popped)
  BY <1>1, ParksStale DEF Hydrate, StartDrain
<1>2. ASSUME NEW k \in Keys, EnqueueSyncMessage(k)
      PROVE  [Relay!RelayNext]_(Relay!relayVars)
  <2>1. CASE status[k] = "absent" /\ Accepts(k)
    <3>1. status' = [status EXCEPT ![k] = "queued"] /\ checkpoint' = checkpoint
      BY <1>2, <2>1 DEF EnqueueSyncMessage, RegisterMessage
    <3>2. Relay!Accept(k)
      BY <2>1, <3>1
      DEF Relay!Accept, Accepts, Phase, ActiveStatuses, TerminalStatuses, TypeOK, LedgerTypeOK
    <3>. QED  BY <3>2 DEF Relay!RelayNext
  <2>2. CASE ~(status[k] = "absent" /\ Accepts(k))
    BY <1>2, <2>2, RelayStutter
    DEF EnqueueSyncMessage, RegisterMessage, ledgerVars, TypeOK, LedgerTypeOK
  <2>. QED  BY <2>1, <2>2
<1>3. CASE \E k \in Keys : Arrive(k) \/ CollectAlbum(k) \/ FlushAlbum(k)
  BY <1>2, <1>3, RelayStutter DEF Arrive, CollectAlbum, FlushAlbum, ledgerVars
<1>. QED  BY <1>1, <1>3

LEMMA GateSimulates ==
  ASSUME TypeOK, NEW w \in Workers, NEW k \in Keys, BeginItem(w, k)
  PROVE  [Relay!RelayNext]_(Relay!relayVars)
<1>. USE DEF TypeOK, LedgerTypeOK, Phase, Statuses, ActiveStatuses, TerminalStatuses
<1>1. CASE SkipFinished(w, k) \/ WaitForOrder(w, k) \/ WaitForInterval(w, k) \/ PassGates(w, k)
  BY <1>1, RelayStutter DEF SkipFinished, WaitForOrder, WaitForInterval, PassGates, ledgerVars
<1>2. CASE \/ DiscardOvertaken(w, k)
           \/ RefuseRoute(w, k) /\ mode[RouteOf[k]] = "deleted"
  <2>1. /\ status' = [status EXCEPT ![k] = "blocked"] /\ checkpoint' = checkpoint
        /\ status[k] \notin {"absent", "sent", "blocked"}
    BY <1>2 DEF DiscardOvertaken, RefuseRoute, MayProceed, MarkStatus
  <2>2. Relay!Refuse(k)
    BY <2>1 DEF Relay!Refuse
  <2>. QED  BY <2>2 DEF Relay!RelayNext
<1>3. CASE RefuseRoute(w, k) /\ mode[RouteOf[k]] = "deactive"
  <2>1. /\ status' = [status EXCEPT ![k] = "failed"] /\ checkpoint' = checkpoint
        /\ status[k] \notin {"absent", "sent", "blocked"}
    BY <1>3 DEF RefuseRoute, MarkStatus
  <2>2. CASE status[k] \in ActiveStatuses
    <3>1. Relay!Park({k})
      BY <2>1, <2>2 DEF Relay!Park
    <3>. QED  BY <3>1 DEF Relay!RelayNext
  <2>3. CASE status[k] \notin ActiveStatuses
    BY <2>1, <2>3 DEF Relay!relayVars
  <2>. QED  BY <2>2, <2>3
<1>. QED  BY <1>1, <1>2, <1>3 DEF BeginItem, RefuseRoute

LEMMA FinishSimulates ==
  ASSUME TypeOK, OrderInv, StatusInv, NEW w \in Workers,
         Confirm(w) \/ Block(w) \/ GiveUpOnAi(w)
  PROVE  Relay!RelayNext
<1>. PICK k \in Keys : k = cur[w]
  BY FinishCheckpoint
<1>1. /\ Delivering(w) /\ k \in Keys
      /\ status' \in {[status EXCEPT ![k] = "sent"], [status EXCEPT ![k] = "blocked"]}
  BY FinishCheckpoint DEF Delivering
<1>2. PICK n \in 0..Id[k] :
        checkpoint' = [checkpoint EXCEPT ![RouteOf[k]] = IF n > @ THEN n ELSE @]
  BY FinishCheckpoint
<1>3. status[k] = "processing" /\ EarlierPending(k) = {}
  BY <1>1 DEF StatusInv, OrderInv
<1>4. ASSUME NEW j \in Keys \ {k}, RouteOf[j] = RouteOf[k], Phase(status[j]) = "open"
      PROVE  Id[j] <= checkpoint[RouteOf[k]] \/ n < Id[j]
  <2>1. status[j] \in ActiveStatuses
    BY <1>4 DEF Phase, TerminalStatuses
  <2>2. /\ Id[j] \in Nat /\ Id[k] \in Nat /\ checkpoint[RouteOf[k]] \in Nat
        /\ Id[j] # Id[k]
    BY <1>1, <1>4, LedgerAssumption, DistinctIds DEF TypeOK, LedgerTypeOK
  <2>3. Id[j] <= checkpoint[RouteOf[k]] \/ Id[k] < Id[j]
    BY <1>3, <1>4, <2>1, <2>2 DEF EarlierPending, PendingAbove, KeysOf
  <2>. QED  BY <2>2, <2>3
<1>5. /\ [j \in Keys |-> Phase(status[j])][k] = "open"
      /\ [j \in Keys |-> Phase(status'[j])]
           = [[j \in Keys |-> Phase(status[j])] EXCEPT ![k] = "closed"]
  <2>1. \A j \in Keys \ {k} : status'[j] = status[j]
    BY <1>1 DEF TypeOK, LedgerTypeOK
  <2>2. Phase(status'[k]) = "closed" /\ Phase(status[k]) = "open"
    BY <1>1, <1>3 DEF Phase, ActiveStatuses, TerminalStatuses, TypeOK, LedgerTypeOK
  <2>. QED  BY <2>1, <2>2
<1>6. Relay!Conclude(k, n)
  BY <1>1, <1>2, <1>4, <1>5 DEF Relay!Conclude
<1>. QED  BY <1>1, <1>2, <1>6 DEF Relay!RelayNext

LEMMA WorkerSimulates ==
  ASSUME TypeOK, OrderInv, StatusInv, NEW w \in Workers, WorkerStep(w) \/ QueueFails(w)
  PROVE  [Relay!RelayNext]_(Relay!relayVars)
<1>. PICK k \in Keys : k = cur[w]
  BY WorkerFrame DEF TypeOK, Busy
<1>. USE DEF TypeOK, LedgerTypeOK, Phase, Statuses, ActiveStatuses, TerminalStatuses
<1>1. CASE \/ Requeue(w) \/ LockBusy(w) \/ Deliver(w) \/ AlertSent(w) \/ RetryScheduled(w)
           \/ Release(w) \/ QueueFails(w)
  BY <1>1, RelayStutter DEF Requeue, LockBusy, Deliver, AlertSent, RetryScheduled, Release,
                            QueueFails, ledgerVars
<1>2. CASE LockTaken(w)
  <2>1. /\ status' = [status EXCEPT ![k] = "processing"] /\ checkpoint' = checkpoint
        /\ status[k] \notin {"absent", "sent", "blocked"}
    BY <1>2 DEF LockTaken, MarkProcessing, StatusInv
  <2>2. CASE status[k] \in ActiveStatuses
    BY <2>1, <2>2 DEF Relay!relayVars
  <2>3. CASE status[k] \notin ActiveStatuses
    <3>1. Relay!Resume(k)
      BY <2>1, <2>3 DEF Relay!Resume
    <3>. QED  BY <3>1 DEF Relay!RelayNext
  <2>. QED  BY <2>2, <2>3
<1>3. CASE Confirm(w) \/ Block(w) \/ GiveUpOnAi(w)
  BY <1>3, FinishSimulates
<1>4. CASE HoldForReview(w) \/ RetryLater(w)
  <2>1. /\ \E s \in {"ambiguous", "retry_wait"} : status' = [status EXCEPT ![k] = s]
        /\ checkpoint' = checkpoint
        /\ status[k] = "processing"
    BY <1>4 DEF HoldForReview, RetryLater, Settles, MarkStatus, StatusInv, Delivering
  <2>2. Relay!Park({k})
    BY <2>1 DEF Relay!Park
  <2>. QED  BY <2>2 DEF Relay!RelayNext
<1>. QED  BY <1>1, <1>2, <1>3, <1>4 DEF WorkerStep

\* A row that is closed before the checkpoint could follow is a refused one to
\* the others of its route.
LEMMA HalfSettledSimulates ==
  ASSUME TypeOK, StatusInv, NEW w \in Workers, CrashHalfSettled(w)
  PROVE  Relay!RelayNext
<1>. PICK k \in Keys : k = cur[w]
  BY HalfSettled
<1>1. PICK s \in {"sent", "blocked", "ambiguous"} : status' = [status EXCEPT ![k] = s]
  BY HalfSettled
<1>2. checkpoint' = checkpoint /\ status[k] = "processing"
  BY HalfSettled DEF StatusInv, Delivering
<1>. USE DEF TypeOK, LedgerTypeOK, Phase, ActiveStatuses, TerminalStatuses
<1>3. CASE s = "ambiguous"
  <2>1. Relay!Park({k})
    BY <1>1, <1>2, <1>3 DEF Relay!Park
  <2>. QED  BY <2>1 DEF Relay!RelayNext
<1>4. CASE s \in {"sent", "blocked"}
  <2>1. Relay!Refuse(k)
    BY <1>1, <1>2, <1>4 DEF Relay!Refuse
  <2>. QED  BY <2>1 DEF Relay!RelayNext
<1>. QED  BY <1>3, <1>4

\* As long as no lock runs out under its owner and no operator resolves a
\* review, the engine does what the ordered relay promises: a message is
\* accepted once, a closed one stays closed, and the checkpoint passes no open
\* message.
THEOREM RelayRefinement ==
  ASSUME "expire" \notin Events, "retry" \notin Events, "skip" \notin Events
  PROVE  Spec => ImplementsOrderedRelay
<1>1. Init => Relay!RelayInit
  BY DEF Init, LedgerInit, Relay!RelayInit, Phase, ActiveStatuses, TerminalStatuses
<1>2. TypeOK /\ OrderInv /\ StatusInv /\ [Next]_vars => [Relay!RelayNext]_(Relay!relayVars)
  <2>. SUFFICES ASSUME TypeOK, OrderInv, StatusInv, [Next]_vars
                PROVE  [Relay!RelayNext]_(Relay!relayVars)
    OBVIOUS
  <2>1. CASE UNCHANGED vars
    BY <2>1, RelayStutter DEF vars, ledgerVars
  <2>2. CASE \/ CancelDrain \/ Crash \/ StartAllRoutes
             \/ \E r \in Routes : ExpireLock(r) \/ StopRoute(r) \/ StartRoute(r) \/ DeleteRoute(r)
             \/ \E k \in Keys : ReviewRetry(k) \/ ReviewSkip(k)
    BY <2>2, EnvironmentKeepsRows, RelayStutter
  <2>. QED
    BY <2>1, <2>2, LoopSimulates, GateSimulates, WorkerSimulates, HalfSettledSimulates DEF Next
<1>. QED
  BY <1>1, <1>2, OrderInvariant, StatusInvariant, PTL
  DEF Spec, ImplementsOrderedRelay, Relay!RelaySpec


-------------------------------------------------------------------------------
(* Reviews. *)

LEMMA WorkerKeepsReviews ==
  ASSUME TypeOK, NEW w \in Workers, WorkerStep(w) \/ QueueFails(w), NEW k \in Keys,
         Unlisted(k)'
  PROVE  Unlisted(k)
<1>. USE DEF TypeOK, LedgerTypeOK, Unlisted, ledgerVars, Settles
<1>1. CASE \/ Requeue(w) \/ LockBusy(w) \/ Deliver(w) \/ AlertSent(w) \/ RetryScheduled(w)
           \/ Release(w) \/ QueueFails(w)
  BY <1>1 DEF Requeue, LockBusy, Deliver, AlertSent, RetryScheduled, Release, QueueFails
<1>2. CASE LockTaken(w)
  BY <1>2 DEF LockTaken, MarkProcessing
<1>3. CASE Confirm(w) \/ Block(w) \/ GiveUpOnAi(w)
  BY <1>3 DEF Confirm, Block, GiveUpOnAi, Finish, MarkStatus
<1>4. CASE HoldForReview(w)
  BY <1>4 DEF HoldForReview, MarkStatus, AddReview
<1>5. CASE RetryLater(w)
  BY <1>5 DEF RetryLater, MarkStatus
<1>. QED  BY <1>1, <1>2, <1>3, <1>4, <1>5 DEF WorkerStep

LEMMA OthersKeepReviews ==
  ASSUME TypeOK, Next, NEW k \in Keys, Unlisted(k)',
         ~\E w \in Workers : WorkerStep(w) \/ QueueFails(w) \/ CrashHalfSettled(w)
  PROVE  Unlisted(k)
<1>. USE DEF TypeOK, LedgerTypeOK, Unlisted, ledgerVars, Begins
<1>1. CASE Hydrate \/ \E stale, popped \in SUBSET Keys : StartDrain(stale, popped)
  BY <1>1 DEF Hydrate, StartDrain, StaleProcessing
<1>2. CASE \E j \in Keys : Arrive(j) \/ CollectAlbum(j) \/ FlushAlbum(j)
  BY <1>2 DEF Arrive, CollectAlbum, FlushAlbum, EnqueueSyncMessage, RegisterMessage
<1>3. CASE \E w \in Workers, j \in Keys : BeginItem(w, j)
  BY <1>3 DEF BeginItem, SkipFinished, RefuseRoute, DiscardOvertaken, WaitForOrder,
              WaitForInterval, PassGates, MarkStatus
<1>4. CASE \/ CancelDrain \/ Crash \/ StartAllRoutes
           \/ \E r \in Routes : ExpireLock(r) \/ StopRoute(r) \/ DeleteRoute(r)
  BY <1>4 DEF CancelDrain, Crash, LoseMemory, AbandonWork, StartAllRoutes, ExpireLock, StopRoute,
              DeleteRoute
<1>5. CASE \E r \in Routes : StartRoute(r)
  BY <1>5 DEF StartRoute, ReactivateRouteDeactiveBlocks
<1>6. CASE \E j \in Keys : ReviewRetry(j) \/ ReviewSkip(j)
  BY <1>6 DEF ReviewRetry, ReviewSkip, ResolveReview, MarkStatus
<1>. QED  BY <1>1, <1>2, <1>3, <1>4, <1>5, <1>6 DEF Next

LEMMA HalfSettledUnlists ==
  ASSUME TypeOK, NEW w \in Workers, CrashHalfSettled(w), NEW k \in Keys, k # cur[w],
         Unlisted(k)'
  PROVE  Unlisted(k)
<1>1. PICK s \in {"sent", "blocked", "ambiguous"} : status' = [status EXCEPT ![cur[w]] = s]
  BY HalfSettled
<1>2. review' = review
  BY HalfSettled
<1>. QED  BY <1>1, <1>2 DEF Unlisted, TypeOK, LedgerTypeOK

\* Nothing but a process that dies between the row's transaction and the
\* review's leaves an ambiguous row off the list of open reviews, in any history
\* of deliveries, resolutions, restarts and route changes.
THEOREM DoubtIsReviewed == Spec => AmbiguousHasReview
<1>1. ASSUME TypeOK, Next, NEW k \in Keys, Unlisted(k)', ~Unlisted(k)
      PROVE  \E w \in Workers : cur[w] = k /\ CrashHalfSettled(w)
  BY <1>1, WorkerKeepsReviews, OthersKeepReviews, HalfSettledUnlists
<1>2. TypeOK /\ [Next]_vars =>
        [\A k \in Keys : Unlisted(k)' =>
           Unlisted(k) \/ \E w \in Workers : cur[w] = k /\ CrashHalfSettled(w)]_vars
  BY <1>1
<1>. QED  BY <1>2, TypeCorrect, PTL DEF Spec, AmbiguousHasReview

-------------------------------------------------------------------------------
(* Albums. *)

\* A checkpoint that moves stays below the first member of every album of the
\* route that is still being assembled: its messages are not refused when the
\* album is complete.
THEOREM AlbumsSpared == Spec => CheckpointSparesAlbums
<1>1. ASSUME TypeOK, Next, NEW g \in Assembling,
             checkpoint[RouteOf[g]] < First[g]
      PROVE  checkpoint'[RouteOf[g]] < First[g]
  <2>. SUFFICES ASSUME checkpoint'[RouteOf[g]] # checkpoint[RouteOf[g]]
                PROVE  checkpoint'[RouteOf[g]] < First[g]
    BY <1>1
  <2>1. PICK w \in Workers : Confirm(w) \/ Block(w) \/ GiveUpOnAi(w)
    BY <1>1, CheckpointMoves
  <2>. DEFINE r == RouteOf[cur[w]]
  <2>2. PICK n \in CheckpointTargets(cur[w]) :
          checkpoint' = [checkpoint EXCEPT ![r] = IF n > @ THEN n ELSE @]
    BY <2>1 DEF Confirm, Block, GiveUpOnAi, Finish, SetRouteCheckpoint
  <2>3. r = RouteOf[g] /\ checkpoint'[r] = n
    BY <1>1, <2>2 DEF TypeOK, LedgerTypeOK
  <2>4. g \in Assembling \cap KeysOf(r)
    BY <2>3 DEF KeysOf, Assembling
  <2>5. n < First[g]
    BY <2>2, <2>4 DEF CheckpointTargets
  <2>. QED  BY <2>3, <2>5
<1>2. TypeOK /\ [Next]_vars =>
        [\A g \in Assembling : LET r == RouteOf[g] IN
           checkpoint[r] < First[g] => checkpoint'[r] < First[g]]_vars
  BY <1>1
<1>. QED  BY <1>2, TypeCorrect, PTL DEF Spec, CheckpointSparesAlbums

-------------------------------------------------------------------------------
(* Sent rows. *)

LEMMA SentStays ==
  ASSUME TypeOK, StatusInv, "retry" \notin Events, "skip" \notin Events, Next,
         NEW k \in Keys, status[k] = "sent"
  PROVE  status'[k] = "sent"
<1>. USE DEF TypeOK, LedgerTypeOK, ledgerVars, TerminalStatuses
<1>1. CASE \/ Hydrate
           \/ \E j \in Keys : Arrive(j) \/ CollectAlbum(j) \/ FlushAlbum(j)
           \/ \E stale, popped \in SUBSET Keys : StartDrain(stale, popped)
  <2>1. CASE Hydrate \/ \E stale, popped \in SUBSET Keys : StartDrain(stale, popped)
    BY <2>1 DEF Hydrate, StartDrain, StaleProcessing
  <2>2. CASE \E j \in Keys : Arrive(j) \/ CollectAlbum(j) \/ FlushAlbum(j)
    BY <2>2 DEF Arrive, CollectAlbum, FlushAlbum, EnqueueSyncMessage, RegisterMessage
  <2>. QED  BY <1>1, <2>1, <2>2
<1>2. CASE \E w \in Workers, j \in Keys : BeginItem(w, j)
  BY <1>2 DEF BeginItem, SkipFinished, RefuseRoute, DiscardOvertaken, WaitForOrder,
              WaitForInterval, PassGates, MayProceed, MarkStatus
<1>3. ASSUME NEW w \in Workers, WorkerStep(w) \/ QueueFails(w)
      PROVE  status'[k] = "sent"
  <2>1. CASE \/ Requeue(w) \/ LockBusy(w) \/ Deliver(w) \/ AlertSent(w) \/ RetryScheduled(w)
             \/ Release(w) \/ QueueFails(w)
    BY <2>1 DEF Requeue, LockBusy, Deliver, AlertSent, RetryScheduled, Release, QueueFails
  <2>2. CASE LockTaken(w)
    BY <2>2 DEF LockTaken, MarkProcessing, StatusInv
  <2>3. CASE Confirm(w) \/ Block(w) \/ GiveUpOnAi(w) \/ HoldForReview(w) \/ RetryLater(w)
    BY <2>3 DEF Confirm, Block, GiveUpOnAi, HoldForReview, RetryLater, Settles, Finish,
                MarkStatus, StatusInv, Delivering
  <2>. QED  BY <1>3, <2>1, <2>2, <2>3 DEF WorkerStep
<1>4. CASE \/ CancelDrain \/ Crash \/ StartAllRoutes
           \/ \E r \in Routes : ExpireLock(r) \/ StopRoute(r) \/ StartRoute(r) \/ DeleteRoute(r)
           \/ \E j \in Keys : ReviewRetry(j) \/ ReviewSkip(j)
  BY <1>4, EnvironmentKeepsRows
<1>5. ASSUME NEW w \in Workers, CrashHalfSettled(w)
      PROVE  status'[k] = "sent"
  <2>1. PICK s \in {"sent", "blocked", "ambiguous"} : status' = [status EXCEPT ![cur[w]] = s]
    BY <1>5, HalfSettled
  <2>2. pc[w] = "settle" /\ cur[w] \in Keys
    BY <1>5, HalfSettled
  <2>. QED  BY <2>1, <2>2 DEF StatusInv, Delivering
<1>. QED  BY <1>1, <1>2, <1>3, <1>4, <1>5 DEF Next

\* A row that was sent is never taken up again: entries that come back from
\* Redis, redeliveries, stale-row recovery and route starts all leave it.
THEOREM SentStaysSent ==
  ASSUME "expire" \notin Events, "retry" \notin Events, "skip" \notin Events
  PROVE  Spec => SentIsFinal
<1>1. TypeOK /\ StatusInv /\ [Next]_vars =>
        [\A k \in Keys : status[k] = "sent" => status'[k] = "sent"]_vars
  BY SentStays
<1>. QED  BY <1>1, StatusInvariant, TypeCorrect, PTL DEF Spec, SentIsFinal

-------------------------------------------------------------------------------
(* Retryable rows.                                                         *)
(*                                                                         *)
(* Two rows are told apart in a worker's step: the one in its hands, and   *)
(* the others, whose reasons to be scheduled the step leaves alone.        *)

LEMMA LoopKeepsScheduled ==
  ASSUME TypeOK, RetryableIsScheduled,
         \/ Hydrate
         \/ \E k \in Keys : Arrive(k) \/ CollectAlbum(k) \/ FlushAlbum(k)
         \/ \E stale, popped \in SUBSET Keys : StartDrain(stale, popped)
  PROVE  RetryableIsScheduled'
<1>. USE DEF TypeOK, LedgerTypeOK, RetryableIsScheduled, RetryableKeys, workerVars
<1>1. CASE Hydrate
  BY <1>1 DEF Hydrate, Enqueue, Scheduled
<1>2. ASSUME NEW k \in Keys, EnqueueSyncMessage(k), UNCHANGED <<mode, hydrated, batch, pc, cur>>
      PROVE  RetryableIsScheduled'
  <2>1. \A j \in Keys \ {k} : status'[j] = status[j]
    BY <1>2 DEF EnqueueSyncMessage, RegisterMessage, ledgerVars
  <2>2. queue \subseteq queue' /\ (status'[k] = status[k] \/ k \in queue')
    BY <1>2 DEF EnqueueSyncMessage, RegisterMessage, Enqueue, ledgerVars
  <2>. QED  BY <1>2, <2>1, <2>2 DEF Scheduled
<1>3. CASE \E k \in Keys : Arrive(k) \/ CollectAlbum(k) \/ FlushAlbum(k)
  <2>1. CASE \E k \in Keys : EnqueueSyncMessage(k) /\ UNCHANGED <<mode, hydrated, batch, pc, cur>>
    BY <1>2, <2>1
  <2>2. CASE UNCHANGED <<status, queue, mode, hydrated, batch, pc, cur>>
    BY <2>2 DEF Scheduled
  <2>. QED  BY <1>3, <2>1, <2>2 DEF Arrive, CollectAlbum, FlushAlbum, loopVars, queueVars, ledgerVars
<1>4. CASE \E stale, popped \in SUBSET Keys : StartDrain(stale, popped)
  <2>1. PICK stale, popped \in SUBSET Keys : StartDrain(stale, popped)
    BY <1>4
  <2>2. /\ hydrated /\ batch = {} /\ \A w \in Workers : pc[w] = "idle"
        /\ mode' = mode /\ queue \subseteq queue' \cup batch'
    BY <2>1 DEF StartDrain, LoopIsFree, Draining
  <2>3. CASE stale = {}
    <3>1. status' = status
      BY <2>1, <2>3 DEF StartDrain, StaleProcessing
    <3>. QED  BY <2>2, <3>1 DEF Scheduled
  <2>4. CASE stale # {}
    <3>1. {k \in Keys : status'[k] \in RetryableStatuses} \subseteq queue' \cup batch'
      BY <2>1, <2>4 DEF StartDrain
    <3>. QED  BY <3>1 DEF Scheduled
  <2>. QED  BY <2>3, <2>4
<1>. QED  BY <1>1, <1>3, <1>4

LEMMA GateKeepsScheduled ==
  ASSUME TypeOK, RetryableIsScheduled, NEW w \in Workers, NEW k \in Keys, BeginItem(w, k)
  PROVE  RetryableIsScheduled'
<1>. USE DEF Begins, Suspend, TypeOK, LedgerTypeOK
<1>1. /\ pc[w] = "idle" /\ batch' = batch \ {k} /\ queue \subseteq queue'
      /\ mode' = mode /\ hydrated' = hydrated
      /\ \A j \in Keys \ {k} : status'[j] = status[j]
      /\ \A v \in Workers \ {w} : pc'[v] = pc[v] /\ cur'[v] = cur[v]
  BY DEF BeginItem, SkipFinished, RefuseRoute, DiscardOvertaken, WaitForOrder,
         WaitForInterval, PassGates, MarkStatus, Enqueue, ledgerVars, queueVars
<1>2. ASSUME status'[k] \in RetryableStatuses, mode[RouteOf[k]] = "active"
      PROVE  pc'[w] \in {"acquire", "requeue"} /\ cur'[w] = k
  BY <1>2 DEF BeginItem, SkipFinished, RefuseRoute, DiscardOvertaken, WaitForOrder,
         WaitForInterval, PassGates, MarkStatus, ledgerVars, TerminalStatuses, RetryableStatuses
<1>3. ASSUME NEW j \in Keys \ {k}, Scheduled(j)
      PROVE  Scheduled(j)'
  BY <1>1, <1>3 DEF Scheduled
<1>. QED  BY <1>1, <1>2, <1>3 DEF RetryableIsScheduled, RetryableKeys, Scheduled

LEMMA WorkerKeepsScheduled ==
  ASSUME TypeOK, RetryableIsScheduled, NEW w \in Workers, WorkerStep(w)
  PROVE  RetryableIsScheduled'
<1>. PICK k \in Keys : k = cur[w] /\ Busy(w)
  BY WorkerFrame DEF TypeOK, Busy
<1>1. /\ mode' = mode /\ hydrated' = hydrated /\ batch' = batch /\ queue \subseteq queue'
      /\ \A j \in Keys \ {k} : status'[j] = status[j]
      /\ \/ k \in queue'
         \/ status'[k] \notin RetryableStatuses
         \/ status'[k] = status[k] /\ pc[w] \in {"notify", "release"}
         \/ pc'[w] \notin {"idle", "notify", "release"} /\ cur'[w] = k
  <2>. USE DEF TypeOK, LedgerTypeOK, Suspend, Return, Settles, loopVars, queueVars, ledgerVars,
               RetryableStatuses
  <2>1. CASE Requeue(w) \/ RetryScheduled(w)
    BY <2>1 DEF Requeue, RetryScheduled, Enqueue
  <2>2. CASE LockBusy(w) \/ LockTaken(w) \/ Deliver(w)
    BY <2>2 DEF LockBusy, LockTaken, Deliver, MarkProcessing
  <2>3. CASE Confirm(w) \/ Block(w) \/ GiveUpOnAi(w)
    BY <2>3 DEF Confirm, Block, GiveUpOnAi, Finish, MarkStatus
  <2>4. CASE HoldForReview(w) \/ RetryLater(w)
    BY <2>4 DEF HoldForReview, RetryLater, MarkStatus
  <2>5. CASE AlertSent(w) \/ Release(w)
    BY <2>5 DEF AlertSent, Release
  <2>. QED  BY <2>1, <2>2, <2>3, <2>4, <2>5 DEF WorkerStep
<1>2. \A v \in Workers \ {w} : pc'[v] = pc[v] /\ cur'[v] = cur[v]
  BY WorkerFrame
<1>3. ASSUME NEW j \in Keys \ {k}, Scheduled(j)
      PROVE  Scheduled(j)'
  BY <1>1, <1>2, <1>3 DEF Scheduled
<1>4. ASSUME hydrated', status'[k] \in RetryableStatuses, mode'[RouteOf[k]] = "active"
      PROVE  Scheduled(k)'
  <2>1. CASE \/ k \in queue'
             \/ pc'[w] \notin {"idle", "notify", "release"} /\ cur'[w] = k
    BY <2>1 DEF Scheduled
  <2>2. CASE status'[k] = status[k] /\ pc[w] \in {"notify", "release"}
    <3>1. Scheduled(k)
      BY <1>1, <1>4, <2>2 DEF RetryableIsScheduled, RetryableKeys
    <3>. QED  BY <1>1, <1>2, <2>2, <3>1 DEF Scheduled
  <2>3. status'[k] \in RetryableStatuses
    BY <1>4
  <2>. QED  BY <1>1, <2>1, <2>2, <2>3
<1>. QED  BY <1>1, <1>3, <1>4 DEF RetryableIsScheduled, RetryableKeys

LEMMA EnvironmentKeepsScheduled ==
  ASSUME TypeOK, RetryableIsScheduled, "startAll" \notin Events, "cancel" \notin Events,
         \/ CancelDrain \/ Crash \/ StartAllRoutes
         \/ \E r \in Routes : ExpireLock(r) \/ StopRoute(r) \/ StartRoute(r) \/ DeleteRoute(r)
         \/ \E k \in Keys : ReviewRetry(k) \/ ReviewSkip(k)
  PROVE  RetryableIsScheduled'
<1>. USE DEF TypeOK, LedgerTypeOK, RetryableIsScheduled, RetryableKeys, Scheduled, workerVars,
             loopVars, queueVars, ledgerVars
<1>1. CASE Crash
  BY <1>1 DEF Crash, LoseMemory
<1>2. CASE \E r \in Routes : ExpireLock(r)
  BY <1>2 DEF ExpireLock
<1>3. CASE \E r \in Routes : StopRoute(r) \/ DeleteRoute(r)
  <2>1. \A q \in Routes : mode'[q] = "active" => mode[q] = "active"
    BY <1>3 DEF StopRoute, DeleteRoute, SetMode
  <2>2. UNCHANGED <<status, queue, hydrated, batch, pc, cur>>
    BY <1>3 DEF StopRoute, DeleteRoute
  <2>. QED  BY <2>1, <2>2, LedgerAssumption
<1>4. CASE \E r \in Routes : StartRoute(r)
  <2>1. PICK r \in Routes : StartRoute(r)
    BY <1>4
  <2>2. \A k \in Keys : RouteOf[k] # r => status'[k] = status[k] /\ mode'[RouteOf[k]] = mode[RouteOf[k]]
    BY <2>1, LedgerAssumption DEF StartRoute, SetMode, ReactivateRouteDeactiveBlocks, KeysOf
  <2>3. \A k \in Keys : RouteOf[k] = r /\ status'[k] \in RetryableStatuses => k \in queue'
    BY <2>1 DEF StartRoute, Enqueue, KeysOf
  <2>4. UNCHANGED <<hydrated, batch, pc, cur>> /\ queue \subseteq queue'
    BY <2>1 DEF StartRoute, Enqueue
  <2>. QED  BY <2>2, <2>3, <2>4
<1>5. CASE \E k \in Keys : ReviewRetry(k)
  BY <1>5 DEF ReviewRetry, ResolveReview, MarkStatus, Enqueue
<1>6. CASE \E k \in Keys : ReviewSkip(k)
  BY <1>6 DEF ReviewSkip, ResolveReview, MarkStatus, RetryableStatuses
<1>. QED  BY <1>1, <1>2, <1>3, <1>4, <1>5, <1>6 DEF CancelDrain, StartAllRoutes

LEMMA HalfSettledKeepsScheduled ==
  ASSUME TypeOK, NEW w \in Workers, CrashHalfSettled(w)
  PROVE  RetryableIsScheduled'
  BY HalfSettled DEF RetryableIsScheduled

\* After hydration every retryable row of a running route has an entry, or a
\* worker that will give it one, unless a drain was cancelled, a queue call
\* raised or all routes were started at once: those three lose entries.
THEOREM NothingRetryableIsLost ==
  ASSUME "cancel" \notin Events, "queueError" \notin Events, "startAll" \notin Events
  PROVE  Spec => []RetryableIsScheduled
<1>1. Init => RetryableIsScheduled
  BY DEF Init, RetryableIsScheduled
<1>2. TypeOK /\ RetryableIsScheduled /\ [Next]_vars => RetryableIsScheduled'
  <2>. SUFFICES ASSUME TypeOK, RetryableIsScheduled, [Next]_vars
                PROVE  RetryableIsScheduled'
    OBVIOUS
  <2>1. CASE UNCHANGED vars
    BY <2>1 DEF RetryableIsScheduled, RetryableKeys, Scheduled, vars, ledgerVars, queueVars,
                loopVars, workerVars
  <2>2. CASE \E w \in Workers : WorkerStep(w) \/ QueueFails(w)
    BY <2>2, WorkerKeepsScheduled DEF QueueFails
  <2>. QED
    BY <2>1, <2>2, LoopKeepsScheduled, GateKeepsScheduled, HalfSettledKeepsScheduled,
       EnvironmentKeepsScheduled DEF Next
<1>. QED  BY <1>1, <1>2, TypeCorrect, PTL DEF Spec

-------------------------------------------------------------------------------
(* Duplicates.                                                             *)
(*                                                                         *)
(* That a second post needs a doubt is not inductive: a message that was   *)
(* posted once without a doubt must be known to be recorded as sent, or to *)
(* be in the hands of the worker that is about to record it.               *)

\* A delivery of k that the destination got and a worker is about to record.
Recording(k) ==
  \E w \in Workers : pc[w] = "settle" /\ cur[w] = k /\ result[w] \in {"ok", "ambiguous"}

PostInv ==
  /\ DuplicatesOnlyAfterDoubt
  /\ \A k \in Keys : posts[k] > 0 /\ k \notin doubt => status[k] = "sent" \/ Recording(k)

\* The rows a step may change hold no sent message: all the loop and the gates
\* need, as no worker has one of these rows in its hands.
LEMMA RowsKeepPostInv ==
  ASSUME TypeOK, PostInv, UNCHANGED historyVars,
         \A k \in Keys : \/ status'[k] = status[k]
                         \/ status[k] # "sent" /\ ~Recording(k),
         \A k \in Keys : Recording(k) => Recording(k)'
  PROVE  PostInv'
  BY DEF PostInv, DuplicatesOnlyAfterDoubt, historyVars

LEMMA LoopPostInv ==
  ASSUME TypeOK, LockInv, PostInv,
         \/ Hydrate
         \/ \E k \in Keys : Arrive(k) \/ CollectAlbum(k) \/ FlushAlbum(k)
         \/ \E stale, popped \in SUBSET Keys : StartDrain(stale, popped)
  PROVE  PostInv'
<1>1. \A w \in Workers : ~Busy(w)
  BY DEF LockInv, Busy, Draining, LoopIsFree, Hydrate, Arrive, CollectAlbum, FlushAlbum, StartDrain
<1>2. \A k \in Keys : ~Recording(k)
  BY <1>1 DEF Recording, Busy
<1>3. \A k \in Keys : status'[k] = status[k] \/ status[k] # "sent"
  <2>. USE DEF TypeOK, LedgerTypeOK, ledgerVars
  <2>1. CASE Hydrate \/ \E stale, popped \in SUBSET Keys : StartDrain(stale, popped)
    BY <2>1 DEF Hydrate, StartDrain, StaleProcessing
  <2>2. CASE \E j \in Keys : Arrive(j) \/ CollectAlbum(j) \/ FlushAlbum(j)
    BY <2>2 DEF Arrive, CollectAlbum, FlushAlbum, EnqueueSyncMessage, RegisterMessage
  <2>. QED  BY <2>1, <2>2
<1>4. UNCHANGED historyVars
  BY DEF Hydrate, Arrive, CollectAlbum, FlushAlbum, StartDrain
<1>. QED  BY <1>2, <1>3, <1>4, RowsKeepPostInv

LEMMA GatePostInv ==
  ASSUME TypeOK, LockInv, PostInv, NEW w \in Workers, NEW k \in Keys, BeginItem(w, k)
  PROVE  PostInv'
<1>. USE DEF Begins, Suspend, TypeOK, LedgerTypeOK
<1>1. /\ pc[w] = "idle" /\ k \in batch
      /\ \A v \in Workers \ {w} : pc'[v] = pc[v] /\ cur'[v] = cur[v]
      /\ UNCHANGED <<result, historyVars>>
  BY DEF BeginItem, SkipFinished, RefuseRoute, DiscardOvertaken, WaitForOrder,
         WaitForInterval, PassGates
<1>2. ~Recording(k)
  BY <1>1 DEF LockInv, Busy, Recording
<1>3. \A j \in Keys : Recording(j) => Recording(j)'
  BY <1>1 DEF Recording
<1>4. \A j \in Keys : \/ status'[j] = status[j]
                      \/ j = k /\ status[j] # "sent"
  <2>1. CASE RefuseRoute(w, k) \/ DiscardOvertaken(w, k)
    <3>1. status[k] # "sent" /\ \E s \in Statuses : status' = [status EXCEPT ![k] = s]
      BY <2>1 DEF RefuseRoute, DiscardOvertaken, MarkStatus, MayProceed, TerminalStatuses, Statuses
    <3>. QED  BY <3>1
  <2>2. CASE ~(RefuseRoute(w, k) \/ DiscardOvertaken(w, k))
    BY <2>2 DEF BeginItem, SkipFinished, WaitForOrder, WaitForInterval, PassGates, ledgerVars
  <2>. QED  BY <2>1, <2>2
<1>. QED  BY <1>1, <1>2, <1>3, <1>4, RowsKeepPostInv

LEMMA WorkerPostInv ==
  ASSUME TypeOK, LockInv, StatusInv, PostInv, NEW w \in Workers, WorkerStep(w) \/ QueueFails(w)
  PROVE  PostInv'
<1>. PICK k \in Keys : k = cur[w] /\ Busy(w)
  BY WorkerFrame DEF TypeOK, Busy
<1>1. \A v \in Workers \ {w} : pc'[v] = pc[v] /\ cur'[v] = cur[v]
  BY WorkerFrame
<1>2. \A v \in Workers \ {w} : Busy(v) => cur[v] # k
  BY DEF LockInv
<1>3. /\ \A j \in Keys \ {k} : status'[j] = status[j] /\ posts'[j] = posts[j]
      /\ \A v \in Workers \ {w} : result'[v] = result[v]
      /\ doubt \subseteq doubt' /\ doubt' \subseteq doubt \cup {k}
  <2>. USE DEF TypeOK, LedgerTypeOK, ledgerVars, historyVars, Settles
  <2>1. CASE \/ Requeue(w) \/ LockBusy(w) \/ AlertSent(w) \/ RetryScheduled(w)
             \/ Release(w) \/ QueueFails(w) \/ LockTaken(w)
    BY <2>1 DEF Requeue, LockBusy, AlertSent, RetryScheduled, Release, QueueFails, LockTaken,
                MarkProcessing
  <2>2. CASE Deliver(w)
    BY <2>2 DEF Deliver
  <2>3. CASE Confirm(w) \/ Block(w) \/ GiveUpOnAi(w)
    BY <2>3 DEF Confirm, Block, GiveUpOnAi, Finish, MarkStatus
  <2>4. CASE HoldForReview(w) \/ RetryLater(w)
    BY <2>4 DEF HoldForReview, RetryLater, MarkStatus
  <2>. QED  BY <2>1, <2>2, <2>3, <2>4 DEF WorkerStep
<1>4. \A j \in Keys \ {k} : Recording(j) => Recording(j)'
  BY <1>1, <1>3 DEF Recording
<1>5. /\ posts'[k] > 1 => k \in doubt'
      /\ posts'[k] > 0 /\ k \notin doubt' => status'[k] = "sent" \/ Recording(k)'
  <2>. USE DEF PostInv, DuplicatesOnlyAfterDoubt
  <2>1. Recording(k) => pc[w] = "settle" /\ result[w] \in {"ok", "ambiguous"}
    BY <1>2 DEF Recording, Busy
  <2>2. CASE \/ Requeue(w) \/ LockBusy(w) \/ AlertSent(w) \/ RetryScheduled(w)
             \/ Release(w) \/ QueueFails(w)
    <3>1. pc[w] # "settle" /\ UNCHANGED <<status, historyVars>>
      BY <2>2 DEF Requeue, LockBusy, AlertSent, RetryScheduled, Release, QueueFails, ledgerVars
    <3>. QED  BY <2>1, <3>1 DEF historyVars
  <2>3. CASE LockTaken(w)
    <3>1. pc[w] = "acquire" /\ UNCHANGED historyVars /\ status[k] # "sent"
      BY <2>3 DEF LockTaken, StatusInv, TerminalStatuses
    <3>. QED  BY <2>1, <3>1 DEF historyVars
  <2>4. CASE Deliver(w)
    <3>1. status[k] # "sent" /\ ~Recording(k)
      BY <2>1, <2>4 DEF Deliver, StatusInv, Delivering
    <3>2. posts[k] \in Nat /\ (posts[k] = 0 \/ k \in doubt)
      BY <3>1, WorkerAssumption DEF TypeOK
    <3>3. PICK outcome \in Outcomes, posted \in BOOLEAN :
            /\ posted \in IsPosted(outcome)
            /\ result'[w] = outcome
            /\ posts'[k] = IF posted /\ posts[k] < PostCap THEN posts[k] + 1 ELSE posts[k]
            /\ doubt' = IF posted /\ outcome \notin {"ok", "ambiguous"}
                          THEN doubt \cup {k} ELSE doubt
      BY <2>4 DEF Deliver, IsPosted, TypeOK
    <3>4. pc'[w] = "settle" /\ cur'[w] = k
      BY <2>4 DEF Deliver, Suspend, TypeOK
    <3>5. outcome \in {"ok", "ambiguous"} => Recording(k)'
      BY <3>3, <3>4 DEF Recording
    <3>. QED  BY <3>2, <3>3, <3>5
  <2>5. CASE Confirm(w)
    <3>1. status'[k] = "sent" /\ posts' = posts /\ doubt' = doubt
      BY <2>5 DEF Confirm, Settles, Finish, MarkStatus, TypeOK, LedgerTypeOK
    <3>. QED  BY <3>1
  <2>6. CASE HoldForReview(w)
    BY <2>6 DEF HoldForReview
  <2>7. CASE Block(w) \/ GiveUpOnAi(w) \/ RetryLater(w)
    <3>1. /\ Delivering(w) /\ result[w] \notin {"ok", "ambiguous"}
          /\ posts' = posts /\ doubt' = doubt
      BY <2>7 DEF Block, GiveUpOnAi, RetryLater, Settles, Finish, Delivering
    <3>2. status[k] # "sent"
      BY <3>1 DEF StatusInv
    <3>. QED  BY <2>1, <3>1, <3>2
  <2>. QED  BY <2>2, <2>3, <2>4, <2>5, <2>6, <2>7 DEF WorkerStep
<1>. QED  BY <1>3, <1>4, <1>5 DEF PostInv, DuplicatesOnlyAfterDoubt

LEMMA EnvironmentPostInv ==
  ASSUME TypeOK, StatusInv, PostInv, "retry" \notin Events, "skip" \notin Events,
         \/ CancelDrain \/ Crash \/ StartAllRoutes
         \/ \E r \in Routes : ExpireLock(r) \/ StopRoute(r) \/ StartRoute(r) \/ DeleteRoute(r)
         \/ \E k \in Keys : ReviewRetry(k) \/ ReviewSkip(k)
  PROVE  PostInv'
<1>1. status' = status
  BY EnvironmentKeepsRows
<1>2. CASE CancelDrain \/ Crash
  <2>1. doubt' = doubt \cup {k \in Unrecorded : status'[k] # "sent"} /\ posts' = posts
    BY <1>2 DEF CancelDrain, Crash, LoseMemory, AbandonWork
  <2>2. \A k \in Keys : Recording(k) => k \in doubt' \/ status'[k] = "sent"
    BY <2>1 DEF Recording, Unrecorded
  <2>. QED  BY <1>1, <2>1, <2>2 DEF PostInv, DuplicatesOnlyAfterDoubt
<1>3. CASE ~(CancelDrain \/ Crash)
  <2>1. UNCHANGED <<workerVars, historyVars>>
    BY <1>3 DEF StartAllRoutes, ExpireLock, StopRoute, StartRoute, DeleteRoute, ReviewRetry,
                ReviewSkip
  <2>. QED  BY <1>1, <2>1 DEF PostInv, DuplicatesOnlyAfterDoubt, Recording, workerVars, historyVars
<1>. QED  BY <1>2, <1>3

LEMMA HalfSettledPostInv ==
  ASSUME TypeOK, StatusInv, PostInv, NEW w \in Workers, CrashHalfSettled(w)
  PROVE  PostInv'
<1>1. PICK s \in {"sent", "blocked", "ambiguous"} : status' = [status EXCEPT ![cur[w]] = s]
  BY HalfSettled
<1>2. /\ doubt' = doubt \cup {k \in Unrecorded : status'[k] # "sent"} /\ posts' = posts
      /\ pc[w] = "settle" /\ cur[w] \in Keys
  BY HalfSettled
<1>3. \A k \in Keys : Recording(k) => k \in doubt' \/ status'[k] = "sent"
  BY <1>2 DEF Recording, Unrecorded
<1>4. \A k \in Keys : status[k] = "sent" => status'[k] = "sent"
  BY <1>1, <1>2 DEF StatusInv, Delivering
<1>. QED  BY <1>2, <1>3, <1>4 DEF PostInv, DuplicatesOnlyAfterDoubt

\* The destination gets a message a second time only after a delivery that the
\* engine could not record as sent, in any interleaving of workers, crashes,
\* time-outs, lost queue entries and redeliveries.
THEOREM NoDuplicateWithoutDoubt ==
  ASSUME "expire" \notin Events, "retry" \notin Events, "skip" \notin Events
  PROVE  Spec => []DuplicatesOnlyAfterDoubt
<1>1. Init => PostInv
  BY DEF Init, PostInv, DuplicatesOnlyAfterDoubt
<1>2. TypeOK /\ LockInv /\ StatusInv /\ PostInv /\ [Next]_vars => PostInv'
  <2>. SUFFICES ASSUME TypeOK, LockInv, StatusInv, PostInv, [Next]_vars PROVE PostInv'
    OBVIOUS
  <2>1. CASE UNCHANGED vars
    BY <2>1 DEF PostInv, DuplicatesOnlyAfterDoubt, Recording, vars, ledgerVars, workerVars,
                historyVars
  <2>. QED
    BY <2>1, LoopPostInv, GatePostInv, WorkerPostInv, HalfSettledPostInv, EnvironmentPostInv
    DEF Next
<1>3. PostInv => DuplicatesOnlyAfterDoubt
  BY DEF PostInv
<1>. QED  BY <1>1, <1>2, <1>3, LockInvariant, StatusInvariant, PTL DEF Spec

-------------------------------------------------------------------------------
(* Overtaken rows.                                                         *)
(*                                                                         *)
(* An active row can be at or below the checkpoint: a retried row is       *)
(* processed there.  What keeps it from being taken for an overtaken       *)
(* message is that it has no entry: its own was popped, and nothing adds   *)
(* one for an active row the checkpoint has passed.                        *)

\* k is popped and has not got its lock yet.
Awaiting(k) ==
  \/ k \in batch
  \/ \E w \in Workers : pc[w] \in {"acquire", "requeue"} /\ cur[w] = k

\* An active row the checkpoint has passed.
Behind(k) == status[k] \in ActiveStatuses /\ Id[k] <= checkpoint[RouteOf[k]]

BehindHasNoEntry ==
  \A k \in Keys : Behind(k) => status[k] = "processing" /\ k \notin queue /\ ~Awaiting(k)

\* Only an active row is put in the queue while it waits (by FirstPending).
PushedIsActive == \A k \in Keys : k \in queue /\ Awaiting(k) => status[k] \in ActiveStatuses

EntryInv ==
  /\ \A r \in Routes : mode[r] # "deactive"
  /\ BehindHasNoEntry
  /\ PushedIsActive
  /\ \A w \in Workers : pc[w] = "retry" => status[cur[w]] \notin ActiveStatuses
  /\ \A k \in Keys : lastError[k] = "older_than_checkpoint" => status[k] = "blocked"

LEMMA LoopEntryInv ==
  ASSUME TypeOK, LockInv, EntryInv,
         \/ Hydrate
         \/ \E k \in Keys : Arrive(k) \/ CollectAlbum(k) \/ FlushAlbum(k)
         \/ \E stale, popped \in SUBSET Keys : StartDrain(stale, popped)
  PROVE  EntryInv'
<1>1. /\ \A w \in Workers : pc'[w] = "idle"
      /\ batch = {} /\ mode' = mode /\ checkpoint' = checkpoint
  BY DEF LockInv, Draining, LoopIsFree, Hydrate, Arrive, CollectAlbum, FlushAlbum, StartDrain,
         EnqueueSyncMessage, RegisterMessage, workerVars, loopVars, ledgerVars
<1>2. CASE Hydrate \/ \E stale, popped \in SUBSET Keys : StartDrain(stale, popped)
  <2>1. PICK S \in SUBSET Keys : StaleProcessing(S)
    BY <1>2 DEF Hydrate, StartDrain
  <2>2. /\ \A k \in Keys : status'[k] \in ActiveStatuses => status[k] = status'[k]
        /\ \A k \in Keys : lastError'[k] = "older_than_checkpoint" => status'[k] = "blocked"
    BY <2>1 DEF StaleProcessing, TypeOK, LedgerTypeOK, ActiveStatuses, EntryInv
  <2>3. /\ queue' \cup batch' \subseteq queue \cup {k \in Keys : status'[k] \in RetryableStatuses}
        /\ queue' \cap batch' = {}
    BY <1>1, <1>2 DEF Hydrate, Enqueue, StartDrain
  <2>4. BehindHasNoEntry'
    BY <1>1, <2>2, <2>3
    DEF EntryInv, BehindHasNoEntry, Behind, Awaiting, ActiveStatuses, RetryableStatuses
  <2>5. PushedIsActive'
    BY <1>1, <2>3 DEF PushedIsActive, Awaiting
  <2>. QED  BY <1>1, <2>2, <2>4, <2>5 DEF EntryInv
<1>3. CASE \E k \in Keys : Arrive(k) \/ CollectAlbum(k) \/ FlushAlbum(k)
  <2>1. /\ batch' = {} /\ lastError' = lastError
        /\ \/ UNCHANGED <<status, queue>>
           \/ \E k \in Keys : /\ Accepts(k)
                              /\ status' = [status EXCEPT ![k] = IF @ = "absent" THEN "queued" ELSE @]
                              /\ queue' = queue \cup {k}
    BY <1>1, <1>3 DEF Arrive, CollectAlbum, FlushAlbum, EnqueueSyncMessage, RegisterMessage,
                      Enqueue, loopVars, queueVars, ledgerVars
  <2>2. CASE UNCHANGED <<status, queue>>
    BY <1>1, <2>1, <2>2 DEF EntryInv, BehindHasNoEntry, PushedIsActive, Behind, Awaiting
  <2>3. ASSUME NEW k \in Keys, Accepts(k), queue' = queue \cup {k},
               status' = [status EXCEPT ![k] = IF @ = "absent" THEN "queued" ELSE @]
        PROVE  EntryInv'
    <3>1. /\ \A j \in Keys \ {k} : status'[j] = status[j]
          /\ status'[k] = status[k] \/ status[k] = "absent"
      BY <2>3 DEF TypeOK, LedgerTypeOK
    <3>. Id[k] \in Nat /\ checkpoint[RouteOf[k]] \in Nat
      BY LedgerAssumption DEF TypeOK, LedgerTypeOK
    <3>2. ~(Id[k] <= checkpoint[RouteOf[k]])
      BY <2>3 DEF Accepts
    <3>3. BehindHasNoEntry'
      BY <1>1, <2>1, <2>3, <3>1, <3>2 DEF EntryInv, BehindHasNoEntry, Behind, Awaiting
    <3>4. PushedIsActive'
      BY <1>1, <2>1 DEF PushedIsActive, Awaiting
    <3>. QED  BY <1>1, <2>1, <3>1, <3>3, <3>4 DEF EntryInv
  <2>. QED  BY <2>1, <2>2, <2>3
<1>. QED  BY <1>2, <1>3

LEMMA GateEntryInv ==
  ASSUME TypeOK, LockInv, EntryInv, NEW w \in Workers, NEW k \in Keys, BeginItem(w, k)
  PROVE  EntryInv'
<1>. USE DEF Begins, Suspend
<1>1. /\ pc[w] = "idle" /\ k \in batch /\ batch' = batch \ {k}
      /\ mode' = mode /\ checkpoint' = checkpoint
      /\ \A v \in Workers \ {w} : pc'[v] = pc[v] /\ cur'[v] = cur[v]
      /\ \A v \in Workers : Busy(v) => cur[v] # k
  BY DEF BeginItem, SkipFinished, RefuseRoute, DiscardOvertaken, WaitForOrder,
         WaitForInterval, PassGates, TypeOK, LockInv, ledgerVars
<1>2. /\ Awaiting(k)
      /\ \A j \in Keys \ {k} : Awaiting(j)' => Awaiting(j)
  <2>1. pc'[w] = "idle" \/ cur'[w] = k
    BY DEF BeginItem, SkipFinished, RefuseRoute, DiscardOvertaken, WaitForOrder,
           WaitForInterval, PassGates, TypeOK
  <2>. QED  BY <1>1, <2>1 DEF Awaiting
<1>3. CASE SkipFinished(w, k) \/ RefuseRoute(w, k) \/ DiscardOvertaken(w, k)
  <2>. USE DEF TypeOK, LedgerTypeOK
  <2>1. /\ queue' = queue /\ pc' = pc
        /\ \A j \in Keys \ {k} : status'[j] = status[j] /\ lastError'[j] = lastError[j]
        /\ status'[k] \notin ActiveStatuses
        /\ lastError'[k] = "older_than_checkpoint" => status'[k] = "blocked"
    BY <1>3 DEF SkipFinished, RefuseRoute, DiscardOvertaken, MarkStatus, EntryInv,
                queueVars, ledgerVars, TerminalStatuses, ActiveStatuses
  <2>2. ~Awaiting(k)'
    BY <1>1, <1>3, <2>1 DEF Awaiting, Busy
  <2>3. BehindHasNoEntry'
    BY <1>1, <1>2, <2>1 DEF EntryInv, BehindHasNoEntry, Behind
  <2>4. PushedIsActive'
    BY <1>2, <2>1, <2>2 DEF EntryInv, PushedIsActive
  <2>5. \A v \in Workers : pc'[v] = "retry" => cur'[v] \in Keys \ {k} /\ pc[v] = "retry" /\ cur'[v] = cur[v]
    BY <1>1, <2>1 DEF Busy
  <2>. QED  BY <1>1, <2>1, <2>3, <2>4, <2>5 DEF EntryInv
<1>4. CASE WaitForOrder(w, k) \/ WaitForInterval(w, k) \/ PassGates(w, k)
  <2>1. /\ UNCHANGED <<status, lastError>> /\ ~Overtaken(k)
        /\ pc'[w] \in {"acquire", "requeue"} /\ cur'[w] = k
        /\ queue' = queue \/ queue' = queue \cup FirstPending(RouteOf[k])
    BY <1>4 DEF WaitForOrder, WaitForInterval, PassGates, Enqueue, queueVars, ledgerVars, TypeOK
  <2>2. \A j \in Keys : j \in queue' /\ j \notin queue => status[j] \in ActiveStatuses /\ ~Behind(j)
    BY <2>1, LedgerAssumption
    DEF FirstPending, PendingAbove, KeysOf, Behind, TypeOK, LedgerTypeOK
  <2>3. ~Behind(k)
    BY <2>1 DEF Overtaken, Behind, ActiveStatuses
  <2>4. BehindHasNoEntry'
    BY <1>1, <1>2, <2>1, <2>2, <2>3 DEF EntryInv, BehindHasNoEntry, Behind
  <2>5. PushedIsActive'
    BY <1>2, <2>1, <2>2 DEF EntryInv, PushedIsActive
  <2>. QED  BY <1>1, <2>1, <2>4, <2>5 DEF EntryInv
<1>. QED  BY <1>3, <1>4 DEF BeginItem

LEMMA WorkerEntryInv ==
  ASSUME TypeOK, LockInv, OrderInv, StatusInv, EntryInv, Next,
         NEW w \in Workers, WorkerStep(w) \/ QueueFails(w)
  PROVE  EntryInv'
<1>. PICK k \in Keys : k = cur[w] /\ Busy(w)
  BY WorkerFrame DEF TypeOK, Busy
<1>1. /\ batch' = batch /\ k \notin batch
      /\ \A v \in Workers \ {w} : pc'[v] = pc[v] /\ cur'[v] = cur[v]
      /\ pc'[w] # "idle" => cur'[w] = k
      /\ \A v \in Workers \ {w} : Busy(v) => cur[v] # k
  BY WorkerFrame DEF LockInv
<1>2. /\ mode' = mode
      /\ \A j \in Keys \ {k} : status'[j] = status[j] /\ lastError'[j] = lastError[j]
      /\ \/ queue' = queue
         \/ pc[w] \in {"requeue", "retry"} /\ queue' = queue \cup {k}
      /\ pc'[w] \in {"acquire", "requeue"} => pc[w] = "acquire" /\ status' = status
      /\ pc'[w] = "retry" => status'[k] \notin ActiveStatuses
      /\ status'[k] \in ActiveStatuses =>
            \/ status'[k] = status[k]
            \/ status'[k] = "processing" /\ pc[w] = "acquire" /\ pc'[w] = "process"
      /\ lastError'[k] = "older_than_checkpoint" => status'[k] = "blocked"
  <2>. USE DEF TypeOK, LedgerTypeOK, ledgerVars, loopVars, queueVars, Suspend, Return, Settles,
               ActiveStatuses
  <2>1. CASE Requeue(w) \/ LockBusy(w) \/ AlertSent(w)
    BY <2>1 DEF Requeue, LockBusy, AlertSent, Enqueue, EntryInv
  <2>2. CASE Deliver(w) \/ RetryScheduled(w) \/ Release(w)
    BY <2>2 DEF Deliver, RetryScheduled, Release, Enqueue, EntryInv
  <2>3. CASE QueueFails(w)
    BY <2>3 DEF QueueFails, EntryInv
  <2>4. CASE LockTaken(w)
    BY <2>4 DEF LockTaken, MarkProcessing, EntryInv, StatusInv, TerminalStatuses
  <2>5. CASE Confirm(w) \/ Block(w) \/ GiveUpOnAi(w)
    BY <2>5 DEF Confirm, Block, GiveUpOnAi, Finish, MarkStatus
  <2>6. CASE HoldForReview(w) \/ RetryLater(w)
    BY <2>6 DEF HoldForReview, RetryLater, MarkStatus
  <2>. QED  BY <2>1, <2>2, <2>3, <2>4, <2>5, <2>6 DEF WorkerStep
<1>3. \A j \in Keys : Awaiting(j)' => Awaiting(j)
  BY <1>1, <1>2 DEF Awaiting
<1>4. \A j \in Keys : Awaiting(j) /\ ~Awaiting(j)' => j = k
  BY <1>1 DEF Awaiting, Busy
<1>5. \A j \in Keys : Behind(j)' => Id[j] <= checkpoint[RouteOf[j]]
  BY CheckpointPassesNoActive, LedgerAssumption DEF Behind, TypeOK, LedgerTypeOK
<1>6. Behind(k)' => status'[k] = "processing" /\ k \notin queue' /\ ~Awaiting(k)'
  <2>. SUFFICES ASSUME Behind(k)'
                PROVE  status'[k] = "processing" /\ k \notin queue' /\ ~Awaiting(k)'
    OBVIOUS
  <2>1. Id[k] <= checkpoint[RouteOf[k]] /\ status'[k] \in ActiveStatuses
    BY <1>5 DEF Behind
  <2>2. CASE status'[k] = status[k]
    <3>1. Behind(k)
      BY <2>1, <2>2 DEF Behind
    <3>2. status[k] = "processing" /\ k \notin queue /\ ~Awaiting(k)
      BY <3>1 DEF EntryInv, BehindHasNoEntry
    <3>3. pc[w] \notin {"requeue", "retry"}
      BY <2>1, <2>2, <3>2 DEF Awaiting, EntryInv
    <3>. QED  BY <1>2, <1>3, <2>2, <3>2, <3>3
  <2>3. CASE status'[k] = "processing" /\ pc[w] = "acquire" /\ pc'[w] = "process"
    <3>1. Awaiting(k) /\ queue' = queue
      BY <1>2, <2>3 DEF Awaiting
    <3>2. k \notin queue
      BY <2>1, <3>1 DEF EntryInv, PushedIsActive, BehindHasNoEntry, Behind
    <3>3. ~Awaiting(k)'
      BY <1>1, <2>3 DEF Awaiting, Busy
    <3>. QED  BY <2>3, <3>1, <3>2, <3>3
  <2>. QED  BY <1>2, <2>1, <2>2, <2>3
<1>7. BehindHasNoEntry'
  <2>1. \A j \in Keys \ {k} : Behind(j)' => Behind(j)
    BY <1>2, <1>5 DEF Behind
  <2>. QED  BY <1>2, <1>3, <1>6, <2>1 DEF EntryInv, BehindHasNoEntry
<1>8. PushedIsActive'
  <2>1. k \in queue' /\ Awaiting(k)' => status'[k] \in ActiveStatuses
    <3>. SUFFICES ASSUME k \in queue', Awaiting(k)' PROVE status'[k] \in ActiveStatuses
      OBVIOUS
    <3>1. pc'[w] \in {"acquire", "requeue"}
      BY <1>1 DEF Awaiting, Busy
    <3>2. status' = status /\ Awaiting(k)
      BY <1>2, <1>3, <3>1
    <3>. QED  BY <1>2, <3>1, <3>2 DEF EntryInv, PushedIsActive
  <2>2. \A j \in Keys \ {k} : j \in queue' => j \in queue
    BY <1>2
  <2>3. \A j \in Keys \ {k} : j \in queue' /\ Awaiting(j)' => status'[j] \in ActiveStatuses
    BY <1>2, <1>3, <2>2 DEF EntryInv, PushedIsActive
  <2>. QED  BY <2>1, <2>3 DEF PushedIsActive
<1>9. \A v \in Workers : pc'[v] = "retry" => status'[cur'[v]] \notin ActiveStatuses
  BY <1>1, <1>2 DEF EntryInv, Busy, TypeOK
<1>. QED  BY <1>2, <1>7, <1>8, <1>9 DEF EntryInv

LEMMA EnvironmentEntryInv ==
  ASSUME TypeOK, StatusInv, EntryInv,
         "retry" \notin Events, "skip" \notin Events, "stop" \notin Events,
         \/ CancelDrain \/ Crash \/ StartAllRoutes
         \/ \E r \in Routes : ExpireLock(r) \/ StopRoute(r) \/ StartRoute(r) \/ DeleteRoute(r)
         \/ \E k \in Keys : ReviewRetry(k) \/ ReviewSkip(k)
  PROVE  EntryInv'
<1>1. UNCHANGED <<status, lastError, checkpoint>>
  BY EnvironmentKeepsRows
<1>2. CASE CancelDrain \/ Crash
  <2>1. /\ batch' = {} /\ mode' = mode /\ queue' \subseteq queue
        /\ \A w \in Workers : pc'[w] = "idle"
    BY <1>2 DEF CancelDrain, Crash, LoseMemory, AbandonWork
  <2>. QED
    BY <1>1, <2>1 DEF EntryInv, BehindHasNoEntry, PushedIsActive, Behind, Awaiting
<1>3. CASE StartAllRoutes \/ \E r \in Routes : ExpireLock(r) \/ DeleteRoute(r)
  <2>1. UNCHANGED <<batch, queue, pc, cur>> /\ \A r \in Routes : mode'[r] # "deactive"
    BY <1>3 DEF StartAllRoutes, ExpireLock, DeleteRoute, SetMode, EntryInv, TypeOK, loopVars,
                queueVars, workerVars
  <2>. QED
    BY <1>1, <2>1 DEF EntryInv, BehindHasNoEntry, PushedIsActive, Behind, Awaiting
<1>. QED
  BY <1>2, <1>3 DEF StopRoute, StartRoute, ReviewRetry, ReviewSkip, EntryInv

LEMMA HalfSettledEntryInv ==
  ASSUME TypeOK, EntryInv, NEW w \in Workers, CrashHalfSettled(w)
  PROVE  EntryInv'
<1>1. PICK s \in {"sent", "blocked", "ambiguous"} : status' = [status EXCEPT ![cur[w]] = s]
  BY HalfSettled
<1>2. PICK e \in {"none", "failure"} : lastError' = [lastError EXCEPT ![cur[w]] = e]
  BY HalfSettled
<1>3. /\ cur[w] \in Keys /\ batch' = {} /\ queue' \subseteq queue
      /\ mode' = mode /\ checkpoint' = checkpoint
      /\ \A v \in Workers : pc'[v] = "idle"
  BY HalfSettled
<1>4. BehindHasNoEntry' /\ PushedIsActive'
  BY <1>1, <1>3 DEF EntryInv, BehindHasNoEntry, PushedIsActive, Behind, Awaiting,
                    ActiveStatuses, TypeOK, LedgerTypeOK
<1>5. \A k \in Keys : lastError'[k] = "older_than_checkpoint" => status'[k] = "blocked"
  BY <1>1, <1>2, <1>3 DEF EntryInv, TypeOK, LedgerTypeOK
<1>. QED  BY <1>3, <1>4, <1>5 DEF EntryInv

\* Nothing but the gate calls a row overtaken.
LEMMA OvertakenOnly ==
  ASSUME TypeOK, Next, NEW k \in Keys, lastError[k] # "older_than_checkpoint",
         lastError'[k] = "older_than_checkpoint"
  PROVE  \E w \in Workers : DiscardOvertaken(w, k)
<1>. USE DEF TypeOK, LedgerTypeOK, ledgerVars
<1>1. ~(\/ Hydrate
        \/ \E j \in Keys : Arrive(j) \/ CollectAlbum(j) \/ FlushAlbum(j)
        \/ \E stale, popped \in SUBSET Keys : StartDrain(stale, popped))
  BY DEF Hydrate, StartDrain, StaleProcessing, Arrive, CollectAlbum, FlushAlbum,
         EnqueueSyncMessage, RegisterMessage
<1>2. ~\E w \in Workers : WorkerStep(w) \/ QueueFails(w)
  <2>1. ~\E w \in Workers : \/ Requeue(w) \/ LockBusy(w) \/ AlertSent(w) \/ Deliver(w)
                            \/ RetryScheduled(w) \/ Release(w) \/ QueueFails(w) \/ LockTaken(w)
    BY DEF Requeue, LockBusy, AlertSent, Deliver, RetryScheduled, Release, QueueFails, LockTaken
  <2>2. ~\E w \in Workers : \/ Confirm(w) \/ Block(w) \/ GiveUpOnAi(w)
                            \/ HoldForReview(w) \/ RetryLater(w)
    BY DEF Confirm, Block, GiveUpOnAi, HoldForReview, RetryLater, Finish, MarkStatus
  <2>. QED  BY <2>1, <2>2 DEF WorkerStep
<1>3. ~(\/ CancelDrain \/ Crash \/ StartAllRoutes
        \/ \E r \in Routes : ExpireLock(r) \/ StopRoute(r) \/ StartRoute(r) \/ DeleteRoute(r)
        \/ \E j \in Keys : ReviewRetry(j) \/ ReviewSkip(j))
  <2>1. ~(\/ CancelDrain \/ Crash \/ StartAllRoutes
          \/ \E r \in Routes : ExpireLock(r) \/ StopRoute(r) \/ DeleteRoute(r))
    BY DEF CancelDrain, Crash, LoseMemory, AbandonWork, StartAllRoutes, ExpireLock, StopRoute,
           DeleteRoute
  <2>2. ~\E r \in Routes : StartRoute(r)
    BY DEF StartRoute, ReactivateRouteDeactiveBlocks
  <2>3. ~\E j \in Keys : ReviewRetry(j) \/ ReviewSkip(j)
    <3>. SUFFICES ASSUME NEW j \in Keys, ReviewRetry(j) \/ ReviewSkip(j) PROVE FALSE
      OBVIOUS
    <3>1. \E e \in {"none", "skipped", lastError[j]} : lastError' = [lastError EXCEPT ![j] = e]
      BY DEF ReviewRetry, ReviewSkip, ResolveReview, MarkStatus
    <3>. QED  BY <3>1
  <2>. QED  BY <2>1, <2>2, <2>3
<1>4. PICK w \in Workers, j \in Keys : BeginItem(w, j)
  <2>1. ~\E w \in Workers : CrashHalfSettled(w)
    BY HalfSettled
  <2>. QED  BY <1>1, <1>2, <1>3, <2>1 DEF Next
<1>5. ~(SkipFinished(w, j) \/ WaitForOrder(w, j) \/ WaitForInterval(w, j) \/ PassGates(w, j))
  BY DEF SkipFinished, WaitForOrder, WaitForInterval, PassGates
<1>6. ~RefuseRoute(w, j)
  BY DEF RefuseRoute, MarkStatus
<1>7. DiscardOvertaken(w, j) /\ j = k
  BY <1>4, <1>5, <1>6 DEF BeginItem, DiscardOvertaken, MarkStatus
<1>. QED  BY <1>7

\* No queued or processing row is discarded as overtaken by its route's
\* checkpoint: while no route is stopped, no review resolved and no lock runs
\* out, an active row that is popped is above the checkpoint.
THEOREM NothingIsSilentlyDropped ==
  ASSUME "expire" \notin Events, "retry" \notin Events, "skip" \notin Events,
         "stop" \notin Events
  PROVE  Spec => NoSilentDrop
<1>1. Init => EntryInv
  BY DEF Init, LedgerInit, EntryInv, BehindHasNoEntry, PushedIsActive, Behind, Awaiting,
         ActiveStatuses, QueueInit
<1>2. TypeOK /\ LockInv /\ OrderInv /\ StatusInv /\ EntryInv /\ [Next]_vars => EntryInv'
  <2>. SUFFICES ASSUME TypeOK, LockInv, OrderInv, StatusInv, EntryInv, [Next]_vars
                PROVE  EntryInv'
    OBVIOUS
  <2>1. CASE UNCHANGED vars
    BY <2>1 DEF EntryInv, BehindHasNoEntry, PushedIsActive, Behind, Awaiting, vars, ledgerVars,
                queueVars, loopVars, workerVars
  <2>. QED
    BY <2>1, LoopEntryInv, GateEntryInv, WorkerEntryInv, HalfSettledEntryInv,
       EnvironmentEntryInv DEF Next
<1>3. TypeOK /\ EntryInv /\ EntryInv' /\ [Next]_vars =>
        [\A k \in Keys : status[k] \in ActiveStatuses
           => lastError'[k] # "older_than_checkpoint"]_vars
  <2>. SUFFICES ASSUME TypeOK, EntryInv, EntryInv', Next, NEW k \in Keys,
                       status[k] \in ActiveStatuses,
                       lastError'[k] = "older_than_checkpoint"
                PROVE  FALSE
    OBVIOUS
  <2>1. lastError[k] # "older_than_checkpoint"
    BY DEF EntryInv, ActiveStatuses
  <2>2. PICK w \in Workers : DiscardOvertaken(w, k)
    BY <2>1, OvertakenOnly
  <2>3. Behind(k) /\ Awaiting(k)
    BY <2>2 DEF DiscardOvertaken, Begins, Overtaken, Behind, Awaiting
  <2>. QED  BY <2>3 DEF EntryInv, BehindHasNoEntry
<1>. QED
  BY <1>1, <1>2, <1>3, OrderInvariant, StatusInvariant, PTL DEF Spec, NoSilentDrop
===============================================================================
