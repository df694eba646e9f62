------------------------------- MODULE ForceSync ------------------------------
(***************************************************************************)
(* The operator's forced synchronisation of one route (the web             *)
(* administration's POST .../sync/force): force_route_sync wipes what is   *)
(* known of the route under its lock, and force_sync_route_backfill then   *)
(* registers the newest messages again, delivers the first of them itself, *)
(* without the lock, and waits for a drain. Meanwhile the main loop sets   *)
(* baselines, polls and drains; a drain's worker is in one of its awaits.  *)
(***************************************************************************)
EXTENDS Integers, FiniteSets, FiniteSetsExt

CONSTANTS
  Latest,     \* the source's last message id; all are published
  Window,     \* how many messages are seeded: sync_backfill_count, or the limit given
  Immediate,  \* FORCE_SYNC_IMMEDIATE_PROCESS_LIMIT
  Budget      \* bound: how many requests, and how many faults of any kind

Messages == 1..Latest

ASSUME ForceSyncAssumption ==
  /\ Latest \in Nat /\ Window \in 0..Latest /\ Immediate \in Nat
  /\ Budget \in [{"force", "fault"} -> Nat]

Unset == -1  \* no checkpoint row, no cursor, no message

VARIABLES
  row,        \* row[m]: status of the ledger row
  forced,     \* rows whose payload says _force_backfill
  checkpoint, cursor,
  queued,     \* entries of the sync queue
  lock,       \* "free", "force", "worker"
  loop,       \* run_once: "baseline" or "poll"
  paced,      \* the route syncs and its next slot (_sync_next_due_at) has not come
  worker,     \* [at, m, old]: idle, acquire (past the gates), deliver; old: since before a reset
  force,      \* [at, m, todo, done, rest]: the request; rest: not all it enqueued is done
  left,       \* what is left of the budget
  posts,      \* posts[m]: deliveries of m since the last reset (a history)
  twice,      \* messages two deliveries of which ran side by side (a history)
  doubt,      \* messages (part of) which was posted without being marked sent (a history)
  late,       \* a worker's delivery outlived a reset (a history)
  skipped     \* messages the first poll of a reset cursor jumped over, or a request
              \* that was cut off left without an entry (a history)

forceVars == <<row, forced, checkpoint, cursor, queued, lock, loop, paced, worker, force,
               left, posts, twice, doubt, late, skipped>>

Absent == "absent"
NoRequest == [at |-> "idle", m |-> Unset, todo |-> {}, done |-> 0, rest |-> FALSE]
NoWork == [at |-> "idle", m |-> Unset, old |-> FALSE]
Terminal == {"sent", "blocked"}
Retryable == {"queued", "retry_wait"}
ForceSteps == {"idle", "lock", "purge", "clear", "release", "runtime", "seed", "next",
               "gates", "deliver", "drain"}

ForceTypeOK ==
  /\ row \in [Messages -> {Absent, "processing", "ambiguous"} \cup Retryable \cup Terminal]
  /\ forced \subseteq {m \in Messages : row[m] # Absent}
  /\ checkpoint \in {Unset} \cup 0..Latest /\ cursor \in {Unset} \cup 0..Latest
  /\ queued \subseteq Messages
  /\ lock = "force" => force.at \in {"purge", "clear", "release"}
  /\ worker.at \in {"idle", "acquire", "deliver"} /\ force.at \in ForceSteps

\* A route that has been read up to the end; some of it waits.
ForceInit ==
  /\ \E done \in 0..Latest :
       /\ row = [m \in Messages |-> IF m <= done THEN "sent" ELSE "queued"]
       /\ checkpoint = done
       /\ queued = (done + 1)..Latest
  /\ forced = {} /\ cursor = Latest /\ lock = "free" /\ loop = "baseline" /\ paced = FALSE
  /\ worker = NoWork
  /\ force = NoRequest
  /\ left = Budget
  /\ posts = [m \in Messages |-> 0]
  /\ twice = {} /\ doubt = {} /\ late = FALSE /\ skipped = {}

Spending(what) == left[what] > 0 /\ left' = [left EXCEPT ![what] = @ - 1]
AtLeast(a, b) == IF a > b THEN a ELSE b
Recent(n) == {m \in Messages : m > Latest - n}

-----------------------------------------------------------------------------
\* What both deliveries share.

\* The gates of _process_queued_item: which message is held back, and how.
Over(m) == row[m] \in {Absent} \cup Terminal

TooOld(m, bypass) ==
  m <= checkpoint /\ row[m] # "retry_wait" /\ ~bypass /\ m \notin forced

\* Mutant: queued rows below do not hold a message back.
WaitsForProcessing(m) == \E l \in Messages : row[l] = "processing" /\ checkpoint < l /\ l < m

Pending == {l \in Messages : row[l] \in {"queued", "processing"} /\ checkpoint < l}
Waits(m) == \E l \in Pending : l < m

\* mark_processing, mark_status: an UPDATE, so a deleted row stays deleted.
Marked(m, status) == [row EXCEPT ![m] = IF @ = Absent THEN Absent ELSE status]

\* Mutant: nothing is put back.
Forgotten(m) == queued

\* schedule_retry
Requeued(m) == queued \cup {m}

\* (Part of) m reached the destination, or not, and is not marked sent.
PostedUnmarked(m) ==
  \/ posts' = [posts EXCEPT ![m] = @ + 1] /\ doubt' = doubt \cup {m}
  \/ UNCHANGED <<posts, doubt>>

\* A delivery ends: confirmed, refused (blocked), unclear, or to be tried again. Whatever
\* the outcome, a syncing route waits for its next slot.
Settle(m) ==
  /\ paced' = TRUE
  /\ \/ /\ row' = Marked(m, "sent")
        /\ checkpoint' = AtLeast(checkpoint, m)
        /\ posts' = [posts EXCEPT ![m] = @ + 1]
        /\ UNCHANGED <<queued, left, doubt>>
     \/ /\ row' = Marked(m, "blocked")
        /\ checkpoint' = AtLeast(checkpoint, m)
        /\ UNCHANGED <<queued, left, posts, doubt>>
     \/ /\ Spending("fault") /\ PostedUnmarked(m)
        /\ row' = Marked(m, "ambiguous")
        /\ UNCHANGED <<checkpoint, queued>>
     \/ /\ Spending("fault") /\ PostedUnmarked(m)
        /\ row' = Marked(m, "retry_wait")
        /\ queued' = Requeued(m)
        /\ UNCHANGED checkpoint

-----------------------------------------------------------------------------
\* The drain's worker. What has to wait is put back; if for a row below, beside an entry
\* for the lowest of them, whoever is delivering it.
Pop(m) ==
  /\ worker.at = "idle" /\ m \in queued
  /\ IF Over(m) THEN queued' = queued \ {m} /\ UNCHANGED <<row, worker>>
     ELSE IF TooOld(m, FALSE)
     THEN row' = Marked(m, "blocked") /\ queued' = queued \ {m} /\ UNCHANGED worker
     ELSE IF Waits(m)
     THEN queued' = queued \cup {Min(Pending)} /\ UNCHANGED <<row, worker>>
     ELSE /\ ~paced
          /\ queued' = queued \ {m}
          /\ worker' = [at |-> "acquire", m |-> m, old |-> FALSE]
          /\ UNCHANGED row
  /\ twice' = IF force.at = "deliver" /\ worker'.m = force.m THEN twice \cup {force.m} ELSE twice
  /\ UNCHANGED <<forced, checkpoint, cursor, lock, loop, paced, force, left, posts, doubt,
                 late, skipped>>

\* acquire_route_lock answers; the record that was read before is not read again.
Acquired ==
  /\ worker.at = "acquire"
  /\ IF lock = "free"
     THEN /\ lock' = "worker"
          /\ worker' = [worker EXCEPT !.at = "deliver"]
          /\ row' = Marked(worker.m, "processing")
          /\ UNCHANGED queued
     ELSE /\ worker' = NoWork
          /\ queued' = Requeued(worker.m)
          /\ UNCHANGED <<lock, row>>
  /\ UNCHANGED <<forced, checkpoint, cursor, loop, paced, force, left, posts, twice, doubt,
                 late, skipped>>

WorkerSettles ==
  /\ worker.at = "deliver"
  /\ Settle(worker.m)
  /\ worker' = NoWork
  /\ lock' = IF lock = "worker" THEN "free" ELSE lock
  /\ late' = (late \/ worker.old)
  /\ UNCHANGED <<forced, cursor, loop, force, twice, skipped>>

\* The lock's TTL ends before the delivery does.
LockExpires ==
  /\ lock = "worker" /\ Spending("fault")
  /\ lock' = "free"
  /\ UNCHANGED <<row, forced, checkpoint, cursor, queued, loop, paced, worker, force, posts,
                 twice, doubt, late, skipped>>

\* The slot comes, or the route has caught up and its interval is not looked at.
SlotComes ==
  /\ paced /\ paced' = FALSE
  /\ UNCHANGED <<row, forced, checkpoint, cursor, queued, lock, loop, worker, force, left,
                 posts, twice, doubt, late, skipped>>

\* A drain begins with _recover_stale_sync_records: a row that has been in processing for
\* long is given back, and every row that may be tried has an entry again.
RecoverStale(m) ==
  /\ worker.at = "idle" /\ row[m] = "processing"
  /\ row' = Marked(m, "retry_wait")
  /\ queued' = queued \cup {l \in Messages : row'[l] \in Retryable}
  /\ UNCHANGED <<forced, checkpoint, cursor, lock, loop, paced, worker, force, left, posts,
                 twice, doubt, late, skipped>>

-----------------------------------------------------------------------------
\* run_once: _ensure_sync_baseline and prime_cursor; then the poll, which registers
\* what is above cursor and checkpoint. The first poll without a cursor begins at the end.
Baseline ==
  /\ loop = "baseline" /\ loop' = "poll"
  /\ checkpoint' = IF checkpoint = Unset THEN AtLeast(0, Latest - Window) ELSE checkpoint
  /\ cursor' = AtLeast(cursor, checkpoint')
  /\ UNCHANGED <<row, forced, queued, lock, paced, worker, force, left, posts, twice, doubt,
                 late, skipped>>

PollAndRegister ==
  /\ loop = "poll" /\ loop' = "baseline"
  /\ LET unread == IF cursor = Unset THEN {}
                  ELSE {m \in Messages : m > cursor /\ m > checkpoint /\ row[m] \notin Terminal}
     IN /\ row' = [m \in Messages |-> IF m \in unread /\ row[m] = Absent THEN "queued" ELSE row[m]]
        /\ forced' = forced \ unread  \* the payload is replaced
        /\ queued' = queued \cup unread
  /\ skipped' = IF cursor = Unset THEN skipped \cup {m \in Messages : row[m] = Absent} ELSE skipped
  /\ cursor' = Latest
  /\ UNCHANGED <<checkpoint, lock, paced, worker, force, left, posts, twice, doubt, late>>

-----------------------------------------------------------------------------
\* The request. Forcing again is a new request, when the last has returned.
Goto(at) == force' = [force EXCEPT !.at = at]

RequestForce ==
  /\ force.at = "idle" /\ Spending("force")
  /\ Goto("lock")
  /\ UNCHANGED <<row, forced, checkpoint, cursor, queued, lock, loop, paced, worker, posts,
                 twice, doubt, late, skipped>>

\* ... or route_sync_busy, after lock_timeout_sec of tries.
AcquireForce ==
  /\ force.at = "lock"
  /\ IF lock = "free" THEN lock' = "force" /\ Goto("purge") ELSE force' = NoRequest /\ UNCHANGED lock
  /\ UNCHANGED <<row, forced, checkpoint, cursor, queued, loop, paced, worker, left, posts,
                 twice, doubt, late, skipped>>

PurgeRoute ==
  /\ force.at = "purge" /\ Goto("clear")
  /\ queued' = {}
  /\ UNCHANGED <<row, forced, checkpoint, cursor, lock, loop, paced, worker, left, posts,
                 twice, doubt, late, skipped>>

\* clear_route_sync_state, reset_route_cursor, status syncing: no await between them.
ClearState ==
  /\ force.at = "clear" /\ Goto("release")
  /\ row' = [m \in Messages |-> Absent]
  /\ forced' = {} /\ checkpoint' = Unset /\ cursor' = Unset
  /\ posts' = [m \in Messages |-> 0] /\ twice' = {} /\ doubt' = {} /\ skipped' = {}
  /\ worker' = [worker EXCEPT !.old = (worker.at # "idle")] /\ late' = FALSE
  /\ UNCHANGED <<queued, lock, loop, paced, left>>

ReleaseForce ==
  /\ force.at = "release" /\ Goto("runtime")
  /\ lock' = IF lock = "force" THEN "free" ELSE lock
  /\ UNCHANGED <<row, forced, checkpoint, cursor, queued, loop, paced, worker, left, posts,
                 twice, doubt, late, skipped>>

\* force_sync_route_runtime_reset: waiting albums and the interval are forgotten.
RuntimeReset ==
  /\ force.at = "runtime" /\ Goto("seed")
  /\ paced' = FALSE
  /\ UNCHANGED <<row, forced, checkpoint, cursor, queued, lock, loop, worker, left, posts,
                 twice, doubt, late, skipped>>

\* seed_recent_messages moves the cursor past what it returns; or fails three times.
Seed ==
  /\ force.at = "seed"
  /\ \/ /\ force' = [NoRequest EXCEPT !.at = "next", !.todo = Recent(Window)]
        /\ cursor' = Latest
        /\ UNCHANGED left
     \/ Spending("fault") /\ force' = NoRequest /\ UNCHANGED cursor
  /\ UNCHANGED <<row, forced, checkpoint, queued, lock, loop, paced, worker, posts, twice,
                 doubt, late, skipped>>

\* register_message: a row of its own, or a new payload; a terminal row is left alone.
Registered(m) ==
  /\ row' = [row EXCEPT ![m] = IF @ = Absent THEN "queued" ELSE @]
  /\ forced' = forced \cup {m}

\* _enqueue_sync_message with bypass_checkpoint_gate.
EnqueueForced ==
  /\ force.at = "next" /\ force.todo # {}
  /\ LET m == Min(force.todo) IN
     IF row[m] \in Terminal
     THEN force' = [force EXCEPT !.todo = @ \ {m}] /\ UNCHANGED <<row, forced, queued>>
     ELSE /\ Registered(m)
          /\ queued' = queued \cup {m}
          /\ force' = IF force.done < Immediate
                      THEN [force EXCEPT !.todo = @ \ {m}, !.m = m, !.at = "gates"]
                      ELSE [force EXCEPT !.todo = @ \ {m}, !.m = m, !.rest = TRUE]
  /\ UNCHANGED <<checkpoint, cursor, lock, loop, paced, worker, left, posts, twice, doubt,
                 late, skipped>>

\* ... and what is left is left to a drain, for which the request waits.
BackfillEnds ==
  /\ force.at = "next" /\ force.todo = {}
  /\ IF force.rest THEN Goto("drain") ELSE force' = NoRequest
  /\ UNCHANGED <<row, forced, checkpoint, cursor, queued, lock, loop, paced, worker, left,
                 posts, twice, doubt, late, skipped>>

DrainReturns ==
  /\ force.at = "drain" /\ worker.at = "idle" /\ force' = NoRequest
  /\ UNCHANGED <<row, forced, checkpoint, cursor, queued, lock, loop, paced, worker, left,
                 posts, twice, doubt, late, skipped>>

\* Mutant: the record is not looked at again after the await of enqueue.
DeliversAnyway(m) == ~Waits(m) /\ ~paced

\* _process_queued_item lets the message through.
Delivers(m) == ~Over(m) /\ ~Waits(m) /\ ~paced

\* ... with skip_route_lock. What is not over is put back, as by Pop.
PassGatesUnlocked ==
  /\ force.at = "gates"
  /\ IF Delivers(force.m)
     THEN /\ Goto("deliver")
          /\ row' = Marked(force.m, "processing")
          /\ twice' = IF worker.m = force.m THEN twice \cup {force.m} ELSE twice
          /\ UNCHANGED queued
     ELSE /\ force' = [force EXCEPT !.at = "next", !.rest = TRUE]
          /\ queued' = IF Over(force.m) THEN queued
                       ELSE Requeued(force.m) \cup IF Waits(force.m) THEN {Min(Pending)} ELSE {}
          /\ UNCHANGED <<row, twice>>
  /\ UNCHANGED <<forced, checkpoint, cursor, lock, loop, paced, worker, left, posts, doubt,
                 late, skipped>>

ForceSettles ==
  /\ force.at = "deliver"
  /\ Settle(force.m)
  /\ force' = [force EXCEPT !.at = "next", !.done = @ + 1]
  /\ UNCHANGED <<forced, cursor, lock, loop, worker, twice, late, skipped>>

-----------------------------------------------------------------------------
\* The request's time-out cancels it in the await it is in; its finally gives the lock back.

\* A message may be registered and have no entry yet.
CutEnqueue ==
  /\ \/ UNCHANGED <<row, forced>>
     \/ force.todo # {} /\ row[Min(force.todo)] \notin Terminal /\ Registered(Min(force.todo))
  /\ UNCHANGED <<queued, lock, loop, worker, posts, doubt, late>>

\* Some entries may be gone.
CutPurge ==
  /\ queued' \in SUBSET queued
  /\ lock' = IF lock = "force" THEN "free" ELSE lock
  /\ UNCHANGED <<row, forced, loop, worker, posts, doubt, late>>

\* The row stays in processing, or waits for a retry that is not queued.
CutDelivery ==
  /\ PostedUnmarked(force.m)
  /\ row' \in {row, Marked(force.m, "retry_wait")}
  /\ UNCHANGED <<forced, queued, lock, loop, worker, late>>

\* The drain it waits for is the loop's own: it is cancelled with the entries it holds. If
\* the loop waits for it too, run ends, and the service that is started in its place
\* hydrates the queue.
CutDrain ==
  /\ IF worker.at = "deliver" THEN PostedUnmarked(worker.m) ELSE UNCHANGED <<posts, doubt>>
  /\ late' = (late \/ (worker.old /\ posts' # posts))
  /\ UNCHANGED row \/ (worker.at = "deliver" /\ row' = Marked(worker.m, "retry_wait"))
  /\ worker' = NoWork
  /\ lock' = IF lock = "worker" THEN "free" ELSE lock
  /\ \E kept \in SUBSET queued :
       \/ queued' = kept /\ UNCHANGED loop
       \/ queued' = kept \cup {m \in Messages : row'[m] \in Retryable} /\ loop' = "baseline"
  /\ UNCHANGED forced

CutElsewhere ==
  /\ lock' = IF lock = "force" THEN "free" ELSE lock
  /\ UNCHANGED <<row, forced, queued, loop, worker, posts, doubt, late>>

RequestTimesOut ==
  /\ Spending("fault") /\ force' = NoRequest
  /\ \/ force.at = "next" /\ CutEnqueue
     \/ force.at = "purge" /\ CutPurge
     \/ force.at = "deliver" /\ CutDelivery
     \/ force.at = "drain" /\ CutDrain
     \/ force.at \in {"lock", "clear", "release", "seed", "gates"} /\ CutElsewhere
  /\ skipped' = skipped \cup {m \in force.todo : row'[m] = Absent}
                     \cup {m \in Messages \ (queued' \cup {worker'.m}) :
                               row'[m] \notin {Absent} \cup Terminal}
  /\ UNCHANGED <<checkpoint, cursor, paced, twice>>

ForceNext ==
  \/ (\E m \in Messages : Pop(m) \/ RecoverStale(m))
  \/ Acquired \/ WorkerSettles \/ LockExpires \/ SlotComes
  \/ Baseline \/ PollAndRegister
  \/ RequestForce \/ AcquireForce \/ PurgeRoute \/ ClearState \/ ReleaseForce \/ RuntimeReset
  \/ Seed \/ EnqueueForced \/ PassGatesUnlocked \/ ForceSettles \/ BackfillEnds \/ DrainReturns
  \/ RequestTimesOut

\* The loop goes on, the drain comes round to every entry that may go and every row that
\* was given up, time passes, and the request's coroutine is resumed.
ForceFairness ==
  /\ WF_forceVars(Baseline \/ PollAndRegister)
  /\ SF_forceVars(\E m \in Messages : Pop(m)) /\ SF_forceVars(\E m \in Messages : RecoverStale(m))
  /\ WF_forceVars(Acquired) /\ WF_forceVars(WorkerSettles) /\ WF_forceVars(SlotComes)
  /\ WF_forceVars(PurgeRoute \/ ClearState \/ ReleaseForce \/ RuntimeReset \/ Seed
                    \/ EnqueueForced \/ PassGatesUnlocked \/ ForceSettles \/ BackfillEnds
                    \/ DrainReturns)

ForceSpec == ForceInit /\ [][ForceNext]_forceVars /\ ForceFairness

-----------------------------------------------------------------------------
\* It is delivered twice only if the request delivered it beside the drain (it takes no
\* lock), if one delivery that reached the destination was not marked sent (its outcome
\* unclear, failed after a part, or cut off), or if a worker's delivery outlived the reset.
DeliveredTwiceOnlyBeside ==
  \A m \in Messages : posts[m] > 1 => m \in twice \cup doubt \/ late

\* A row that waits is never left below the checkpoint, where the drain refuses it as
\* too old, unless a delivery from before the reset set the checkpoint.
NothingStrandedByForce ==
  \A m \in Messages : row[m] = "queued" /\ m <= checkpoint => m \in forced \/ late

\* What an unlocked delivery and a wiped ledger may do to the order of a route.
ForceDisturbsOnlyItsOwn == ForceTypeOK /\ DeliveredTwiceOnlyBeside /\ NothingStrandedByForce

\* The last messages of the source are all settled in the end, whatever was wiped: if
\* seeding failed the poll reads them again, and what is queued is delivered. All that may
\* be left has no entry: the operator's part (ambiguous), what the first poll jumped over
\* or a request that was cut off left without one, and what a late delivery put below
\* the checkpoint.
LeftBehind(m) ==
  m \notin queued /\ (row[m] = "ambiguous" \/ m \in skipped \/ (late /\ row[m] = Absent))

WindowIsSettled == []<>(\A m \in Recent(Window) : row[m] \in Terminal \/ LeftBehind(m))
===============================================================================
