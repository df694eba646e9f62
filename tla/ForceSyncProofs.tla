---------------------------- MODULE ForceSyncProofs ----------------------------
(***************************************************************************)
(* Theorems about ForceSync for every source, window and limit of a forced *)
(* synchronisation, and every number of requests and faults, checked by    *)
(* TLAPS.                                                                  *)
(***************************************************************************)
EXTENDS ForceSync, WellFoundedInduction, TLAPS

-------------------------------------------------------------------------------
(* Type correctness. *)

Trouble == {"force", "fault"}
Statuses == {Absent, "queued", "retry_wait", "processing", "ambiguous", "sent", "blocked"}

WorkerStates == [at : {"idle", "acquire", "deliver"}, m : {Unset} \cup Messages, old : BOOLEAN]
RequestStates == [at : ForceSteps, m : {Unset} \cup Messages, todo : SUBSET Messages,
                  done : Nat, rest : BOOLEAN]

(* ForceTypeOK with the whole of the worker's and the request's record. *)
ForceShape ==
  /\ row \in [Messages -> Statuses]
  /\ forced \subseteq {m \in Messages : row[m] # Absent}
  /\ checkpoint \in {Unset} \cup 0..Latest /\ cursor \in {Unset} \cup 0..Latest
  /\ queued \subseteq Messages
  /\ lock = "force" => force.at \in {"purge", "clear", "release"}
  /\ worker \in WorkerStates
  /\ worker.at = "idle" <=> worker.m = Unset
  /\ force \in RequestStates
  /\ force.at \in {"gates", "deliver"} => force.m \in Messages
  /\ left \in [Trouble -> Nat] /\ posts \in [Messages -> Nat] /\ late \in BOOLEAN

(* The least of a set of natural numbers, and the operator Min. *)
LEMMA NatHasLeast ==
  ASSUME NEW S \in SUBSET Nat, S # {}
  PROVE  \E x \in S : \A y \in S : x <= y
<1>. DEFINE R == OpToRel(<, Nat)
<1>1. IsWellFoundedOn(R, Nat)
  BY NatLessThanWellFounded
<1>2. PICK x \in S : \A y \in S : ~ (<<y, x>> \in R)
  <2>. HIDE DEF R
  <2>. QED  BY <1>1, WFMin
<1>3. \A y \in S : ~(y < x)
  BY <1>2 DEF OpToRel
<1>. QED  BY <1>3

LEMMA MinOfMessages ==
  ASSUME NEW S \in SUBSET Messages, S # {}
  PROVE  Min(S) \in S
<1>1. S \in SUBSET Nat
  BY ForceSyncAssumption DEF Messages
<1>2. PICK x \in S : \A y \in S : x <= y
  BY <1>1, NatHasLeast
<1>. QED  BY <1>1, <1>2 DEF Min

LEMMA SpendingLeaves ==
  ASSUME left \in [Trouble -> Nat], NEW what \in Trouble, Spending(what)
  PROVE  left' \in [Trouble -> Nat]
BY DEF Spending

LEMMA MarkedRow ==
  ASSUME ForceShape, NEW m \in Messages, NEW status \in Statuses \ {Absent}
  PROVE  /\ Marked(m, status) \in [Messages -> Statuses]
         /\ \A l \in Messages \ {m} : Marked(m, status)[l] = row[l]
         /\ Marked(m, status)[m] = IF row[m] = Absent THEN Absent ELSE status
BY DEF ForceShape, Marked, Statuses

(* What a delivery of m leaves behind. *)
SettledAs(m) ==
  /\ row' \in [Messages -> Statuses]
  /\ \A l \in Messages \ {m} : row'[l] = row[l]
  /\ row'[m] = Absent <=> row[m] = Absent
  /\ row'[m] \in {Absent, "retry_wait", "ambiguous"} \cup Terminal
  /\ queued' \subseteq Messages /\ left' \in [Trouble -> Nat]
  /\ checkpoint' = checkpoint \/ checkpoint' = AtLeast(checkpoint, m)
  /\ doubt \subseteq doubt'
  /\ posts' = posts \/ /\ posts' = [posts EXCEPT ![m] = @ + 1]
                       /\ row'[m] \in {Absent, "sent"} \/ m \in doubt'

LEMMA SettleLeaves ==
  ASSUME ForceShape, NEW m \in Messages, Settle(m)
  PROVE  SettledAs(m)
<1>1. ASSUME NEW status \in {"sent", "blocked", "retry_wait", "ambiguous"}, row' = Marked(m, status)
      PROVE  /\ row' \in [Messages -> Statuses]
             /\ \A l \in Messages \ {m} : row'[l] = row[l]
             /\ row'[m] = IF row[m] = Absent THEN Absent ELSE status
  BY <1>1, MarkedRow DEF Statuses, Terminal, Absent
<1>2. CASE /\ row' = Marked(m, "sent") /\ checkpoint' = AtLeast(checkpoint, m)
           /\ posts' = [posts EXCEPT ![m] = @ + 1] /\ UNCHANGED <<queued, left, doubt>>
  BY <1>1, <1>2 DEF SettledAs, ForceShape, Terminal, Absent
<1>3. CASE /\ row' = Marked(m, "blocked") /\ checkpoint' = AtLeast(checkpoint, m)
           /\ UNCHANGED <<queued, left, posts, doubt>>
  BY <1>1, <1>3 DEF SettledAs, ForceShape, Terminal, Absent
<1>4. CASE /\ Spending("fault") /\ PostedUnmarked(m) /\ row' = Marked(m, "ambiguous")
           /\ UNCHANGED <<checkpoint, queued>>
  <2>1. left' \in [Trouble -> Nat] /\ queued' \subseteq Messages
    BY <1>4, SpendingLeaves DEF ForceShape, Trouble
  <2>. QED  BY <1>1, <1>4, <2>1 DEF SettledAs, PostedUnmarked, Absent
<1>5. CASE /\ Spending("fault") /\ PostedUnmarked(m) /\ row' = Marked(m, "retry_wait")
           /\ queued' = Requeued(m) /\ UNCHANGED checkpoint
  <2>1. left' \in [Trouble -> Nat]
    BY <1>5, SpendingLeaves DEF ForceShape, Trouble
  <2>2. queued' \subseteq Messages
    BY <1>5 DEF Requeued, ForceShape
  <2>. QED  BY <1>1, <1>5, <2>1, <2>2 DEF SettledAs, PostedUnmarked, Absent
<1>. QED  BY <1>2, <1>3, <1>4, <1>5 DEF Settle

LEMMA SettledIsTyped ==
  ASSUME ForceShape, NEW m \in Messages, SettledAs(m), UNCHANGED <<forced, cursor>>
  PROVE  /\ checkpoint' \in {Unset} \cup 0..Latest
         /\ posts' \in [Messages -> Nat]
         /\ forced' \subseteq {l \in Messages : row'[l] # Absent}
<1>1. checkpoint' \in {Unset} \cup 0..Latest
  BY ForceSyncAssumption DEF ForceShape, SettledAs, AtLeast, Messages, Unset
<1>2. posts' \in [Messages -> Nat]
  BY DEF ForceShape, SettledAs
<1>3. forced' \subseteq {l \in Messages : row'[l] # Absent}
  BY DEF ForceShape, SettledAs
<1>. QED  BY <1>1, <1>2, <1>3

LEMMA InitForceShape == ForceInit => ForceShape
<1>. SUFFICES ASSUME ForceInit PROVE ForceShape
  OBVIOUS
<1>1. PICK done \in 0..Latest :
        /\ row = [m \in Messages |-> IF m <= done THEN "sent" ELSE "queued"]
        /\ checkpoint = done
        /\ queued = (done + 1)..Latest
  BY DEF ForceInit
<1>2. row \in [Messages -> Statuses]
  BY <1>1 DEF Statuses, Terminal
<1>3. queued \subseteq Messages /\ cursor \in 0..Latest
  BY <1>1, ForceSyncAssumption DEF ForceInit, Messages
<1>4. /\ worker \in WorkerStates
      /\ worker.at = "idle" /\ worker.m = Unset
  BY DEF ForceInit, NoWork, WorkerStates
<1>5. /\ force \in RequestStates
      /\ force.at = "idle"
  BY DEF ForceInit, NoRequest, ForceSteps, RequestStates
<1>. QED  BY <1>1, <1>2, <1>3, <1>4, <1>5, ForceSyncAssumption DEF ForceInit, ForceShape, Trouble

LEMMA WorkerShape ==
  ASSUME ForceShape,
         \/ \E m \in Messages : Pop(m) \/ RecoverStale(m)
         \/ Acquired \/ WorkerSettles \/ LockExpires \/ SlotComes
  PROVE  ForceShape'
<1>0. Unset \notin Messages
  BY DEF Unset, Messages
<1>1. ASSUME NEW m \in Messages, Pop(m) PROVE ForceShape'
  <2>1. row' \in [Messages -> Statuses] /\ forced' \subseteq {l \in Messages : row'[l] # Absent}
    <3>1. row' = row \/ row' = Marked(m, "blocked")
      BY <1>1 DEF Pop
    <3>2. "blocked" \in Statuses \ {Absent} /\ forced' = forced
      BY <1>1 DEF Pop, Statuses, Terminal, Absent
    <3>. QED  BY <3>1, <3>2, MarkedRow DEF ForceShape
  <2>2. worker' = worker \/ worker' = [at |-> "acquire", m |-> m, old |-> FALSE]
    BY <1>1 DEF Pop
  <2>3. queued' \subseteq Messages
    <3>1. CASE Waits(m) /\ queued' = queued \cup {Min(Pending)}
      <4>1. Pending \subseteq Messages /\ Pending # {}
        BY <3>1 DEF Waits, Pending
      <4>. QED  BY <3>1, <4>1, MinOfMessages DEF ForceShape
    <3>2. CASE queued' = queued \ {m}
      BY <3>2 DEF ForceShape
    <3>. QED  BY <1>1, <3>1, <3>2 DEF Pop
  <2>4. worker' \in WorkerStates /\ (worker'.at = "idle" <=> worker'.m = Unset)
    <3>1. CASE worker' = worker
      BY <3>1 DEF ForceShape
    <3>2. CASE worker' = [at |-> "acquire", m |-> m, old |-> FALSE]
      BY <1>0, <3>2 DEF WorkerStates
    <3>. QED  BY <2>2, <3>1, <3>2
  <2>5. UNCHANGED <<checkpoint, cursor, lock, force, left, posts, late>>
    BY <1>1 DEF Pop
  <2>. QED  BY <2>1, <2>3, <2>4, <2>5 DEF ForceShape
<1>2. CASE Acquired
  <2>1. worker.m \in Messages
    BY <1>2 DEF Acquired, ForceShape, WorkerStates
  <2>2. row' \in [Messages -> Statuses] /\ forced' \subseteq {l \in Messages : row'[l] # Absent}
    <3>1. row' = row \/ row' = Marked(worker.m, "processing")
      BY <1>2 DEF Acquired
    <3>2. "processing" \in Statuses \ {Absent} /\ forced' = forced
      BY <1>2 DEF Acquired, Statuses, Absent
    <3>. QED  BY <2>1, <3>1, <3>2, MarkedRow DEF ForceShape
  <2>3. worker' = [worker EXCEPT !.at = "deliver"] \/ worker' = NoWork
    BY <1>2 DEF Acquired
  <2>4. queued' \subseteq Messages /\ (lock' = lock \/ lock' = "worker")
    BY <1>2, <2>1 DEF Acquired, Requeued, ForceShape
  <2>5. worker' \in WorkerStates /\ (worker'.at = "idle" <=> worker'.m = Unset)
    <3>1. worker \in WorkerStates /\ worker.m # Unset
      BY <1>0, <2>1 DEF ForceShape
    <3>2. CASE worker' = [worker EXCEPT !.at = "deliver"]
      BY <3>1, <3>2 DEF WorkerStates
    <3>3. CASE worker' = NoWork
      BY <3>3 DEF WorkerStates, NoWork
    <3>. QED  BY <2>3, <3>2, <3>3
  <2>6. UNCHANGED <<checkpoint, cursor, force, left, posts, late>>
    BY <1>2 DEF Acquired
  <2>. QED  BY <2>2, <2>4, <2>5, <2>6 DEF ForceShape
<1>3. CASE WorkerSettles
  <2>1. worker.m \in Messages /\ SettledAs(worker.m)
    BY <1>3, SettleLeaves DEF WorkerSettles, ForceShape, WorkerStates
  <2>2. UNCHANGED <<forced, cursor, force>> /\ worker' = NoWork
    BY <1>3 DEF WorkerSettles
  <2>3. (lock' = lock \/ lock' = "free") /\ late' \in BOOLEAN
    BY <1>3 DEF WorkerSettles, ForceShape
  <2>. QED  BY <2>1, <2>2, <2>3, SettledIsTyped DEF SettledAs, ForceShape, NoWork, WorkerStates
<1>4. CASE LockExpires
  BY <1>4, SpendingLeaves DEF LockExpires, ForceShape, Trouble
<1>5. CASE SlotComes
  BY <1>5 DEF SlotComes, ForceShape
<1>6. ASSUME NEW m \in Messages, RecoverStale(m) PROVE ForceShape'
  <2>1. row' \in [Messages -> Statuses] /\ forced' \subseteq {l \in Messages : row'[l] # Absent}
    <3>1. row' = Marked(m, "retry_wait") /\ forced' = forced
      BY <1>6 DEF RecoverStale
    <3>2. "retry_wait" \in Statuses \ {Absent}
      BY DEF Statuses, Absent
    <3>. QED  BY <3>1, <3>2, MarkedRow DEF ForceShape
  <2>2. queued' \subseteq Messages
    BY <1>6 DEF RecoverStale, ForceShape
  <2>. QED  BY <1>6, <2>1, <2>2 DEF RecoverStale, ForceShape
<1>. QED  BY <1>1, <1>2, <1>3, <1>4, <1>5, <1>6

LEMMA LoopShape ==
  ASSUME ForceShape, Baseline \/ PollAndRegister
  PROVE  ForceShape'
<1>1. CASE Baseline
  <2>1. checkpoint' \in {Unset} \cup 0..Latest /\ cursor' \in {Unset} \cup 0..Latest
    BY <1>1, ForceSyncAssumption DEF Baseline, ForceShape, AtLeast, Unset
  <2>. QED  BY <1>1, <2>1 DEF Baseline, ForceShape
<1>2. CASE PollAndRegister
  <2>1. PICK unread \in SUBSET Messages :
          /\ row' = [m \in Messages |-> IF m \in unread /\ row[m] = Absent THEN "queued" ELSE row[m]]
          /\ forced' = forced \ unread
          /\ queued' = queued \cup unread
    BY <1>2 DEF PollAndRegister
  <2>2. row' \in [Messages -> Statuses] /\ \A m \in Messages : row[m] # Absent => row'[m] # Absent
    BY <2>1 DEF ForceShape, Statuses, Absent
  <2>3. forced' \subseteq {m \in Messages : row'[m] # Absent} /\ queued' \subseteq Messages
    BY <2>1, <2>2 DEF ForceShape
  <2>4. cursor' \in 0..Latest
    BY <1>2, ForceSyncAssumption DEF PollAndRegister
  <2>. QED  BY <1>2, <2>2, <2>3, <2>4 DEF PollAndRegister, ForceShape
<1>. QED  BY <1>1, <1>2

LEMMA RequestShape ==
  ASSUME ForceShape,
         \/ RequestForce \/ AcquireForce \/ PurgeRoute \/ ClearState \/ ReleaseForce
         \/ RuntimeReset \/ Seed \/ BackfillEnds \/ DrainReturns
  PROVE  ForceShape'
<1>. USE DEF ForceShape, Goto, ForceSteps, NoRequest, RequestStates, WorkerStates
<1>1. CASE RequestForce
  BY <1>1, SpendingLeaves DEF RequestForce, Trouble
<1>0. NoRequest \in RequestStates /\ NoRequest.at = "idle"
  OBVIOUS
<1>2. CASE AcquireForce
  <2>1. CASE lock = "free" /\ lock' = "force" /\ Goto("purge")
    BY <1>2, <2>1 DEF AcquireForce
  <2>2. CASE lock # "free" /\ force' = NoRequest /\ UNCHANGED lock
    <3>1. lock # "force"
      BY <1>2 DEF AcquireForce
    <3>. QED  BY <1>0, <1>2, <2>2, <3>1 DEF AcquireForce
  <2>. QED  BY <1>2, <2>1, <2>2 DEF AcquireForce
<1>3. CASE PurgeRoute
  BY <1>3 DEF PurgeRoute
<1>4. CASE ClearState
  <2>1. row' \in [Messages -> Statuses] /\ posts' \in [Messages -> Nat]
    BY <1>4 DEF ClearState, Statuses
  <2>2. worker' \in WorkerStates
    BY <1>4 DEF ClearState
  <2>. QED  BY <1>4, <2>1, <2>2 DEF ClearState
<1>5. CASE ReleaseForce
  BY <1>5 DEF ReleaseForce
<1>6. CASE RuntimeReset
  BY <1>6 DEF RuntimeReset
<1>7. CASE Seed
  <2>1. left' \in [Trouble -> Nat]
    BY <1>7, SpendingLeaves DEF Seed, Trouble
  <2>2. cursor' \in {Unset} \cup 0..Latest
    BY <1>7, ForceSyncAssumption DEF Seed
  <2>3. Recent(Window) \subseteq Messages
    BY DEF Recent
  <2>4. force' = [NoRequest EXCEPT !.at = "next", !.todo = Recent(Window)] \/ force' = NoRequest
    BY <1>7 DEF Seed
  <2>5. force' \in RequestStates /\ force'.at \in {"next", "idle"}
    <3>1. CASE force' = [NoRequest EXCEPT !.at = "next", !.todo = Recent(Window)]
      <4>1. NoRequest \in RequestStates
        BY <1>0
      <4>2. "next" \in ForceSteps /\ Recent(Window) \in SUBSET Messages
        BY <2>3
      <4>. HIDE DEF NoRequest
      <4>. QED  BY <3>1, <4>1, <4>2 DEF RequestStates
    <3>2. CASE force' = NoRequest
      BY <1>0, <3>2
    <3>. QED  BY <2>4, <3>1, <3>2
  <2>6. UNCHANGED <<row, forced, checkpoint, queued, lock, worker, posts, late>>
    BY <1>7 DEF Seed
  <2>7. lock # "force"
    BY <1>7 DEF Seed
  <2>. QED  BY <2>1, <2>2, <2>5, <2>6, <2>7
<1>8. CASE BackfillEnds
  <2>1. force' \in RequestStates /\ force'.at \in {"drain", "idle"}
    <3>1. CASE force.rest /\ Goto("drain")
      BY <3>1
    <3>2. CASE force' = NoRequest
      BY <1>0, <3>2
    <3>. QED  BY <1>8, <3>1, <3>2 DEF BackfillEnds
  <2>2. /\ UNCHANGED <<row, forced, checkpoint, cursor, queued, lock, worker, left, posts, late>>
        /\ lock # "force"
    BY <1>8 DEF BackfillEnds
  <2>. QED  BY <2>1, <2>2
<1>9. CASE DrainReturns
  BY <1>9 DEF DrainReturns
<1>. QED  BY <1>1, <1>2, <1>3, <1>4, <1>5, <1>6, <1>7, <1>8, <1>9

LEMMA ForcedDeliveryShape ==
  ASSUME ForceShape, EnqueueForced \/ PassGatesUnlocked \/ ForceSettles
  PROVE  ForceShape'
<1>1. CASE EnqueueForced
  <2>. DEFINE m == Min(force.todo)
  <2>1. m \in Messages
    BY <1>1, MinOfMessages DEF EnqueueForced, ForceShape, RequestStates
  <2>2. /\ force' \in RequestStates
        /\ force'.at \in {"next", "gates"} /\ (force'.at = "gates" => force'.m \in Messages)
        /\ force.at = "next"
    <3>. HIDE DEF m
    <3>1. \/ force' = [force EXCEPT !.todo = @ \ {m}]
          \/ force' = [force EXCEPT !.todo = @ \ {m}, !.m = m, !.at = "gates"]
          \/ force' = [force EXCEPT !.todo = @ \ {m}, !.m = m, !.rest = TRUE]
      BY <1>1 DEF EnqueueForced, m
    <3>2. force.at = "next"
      BY <1>1 DEF EnqueueForced
    <3>3. force \in RequestStates
      BY DEF ForceShape
    <3>4. CASE force' = [force EXCEPT !.todo = @ \ {m}]
      BY <3>2, <3>3, <3>4 DEF RequestStates, ForceSteps
    <3>5. CASE force' = [force EXCEPT !.todo = @ \ {m}, !.m = m, !.at = "gates"]
      BY <2>1, <3>2, <3>3, <3>5 DEF RequestStates, ForceSteps
    <3>6. CASE force' = [force EXCEPT !.todo = @ \ {m}, !.m = m, !.rest = TRUE]
      BY <2>1, <3>2, <3>3, <3>6 DEF RequestStates, ForceSteps
    <3>. QED  BY <3>1, <3>2, <3>4, <3>5, <3>6
  <2>3. /\ row' \in [Messages -> Statuses] /\ forced' \subseteq {l \in Messages : row'[l] # Absent}
        /\ queued' \subseteq Messages
    BY <1>1, <2>1 DEF EnqueueForced, Registered, ForceShape, Statuses, Absent
  <2>. QED  BY <1>1, <2>2, <2>3 DEF EnqueueForced, ForceShape
<1>2. CASE PassGatesUnlocked
  <2>1. force.m \in Messages
    BY <1>2 DEF PassGatesUnlocked, ForceShape
  <2>2. row' = row \/ row' = Marked(force.m, "processing")
    BY <1>2 DEF PassGatesUnlocked
  <2>3. row' \in [Messages -> Statuses] /\ forced' \subseteq {l \in Messages : row'[l] # Absent}
    <3>1. "processing" \in Statuses \ {Absent} /\ forced' = forced
      BY <1>2 DEF PassGatesUnlocked, Statuses, Absent
    <3>. QED  BY <2>1, <2>2, <3>1, MarkedRow DEF ForceShape
  <2>4. /\ force' \in RequestStates /\ force'.at \in {"deliver", "next"}
        /\ force'.m = force.m /\ force.at = "gates"
    <3>1. \/ force' = [force EXCEPT !.at = "deliver"]
          \/ force' = [force EXCEPT !.at = "next", !.rest = TRUE]
      BY <1>2 DEF PassGatesUnlocked, Goto
    <3>2. force \in RequestStates /\ force.at = "gates"
      BY <1>2 DEF PassGatesUnlocked, ForceShape
    <3>. QED  BY <3>1, <3>2 DEF RequestStates, ForceSteps
  <2>5. queued' \subseteq Messages
    <3>1. CASE queued' = queued
      BY <3>1 DEF ForceShape
    <3>2. CASE queued' = Requeued(force.m) \cup IF Waits(force.m) THEN {Min(Pending)} ELSE {}
      <4>1. Waits(force.m) => Min(Pending) \in Messages
        <5>1. Pending \subseteq Messages /\ (Waits(force.m) => Pending # {})
          BY DEF Waits, Pending
        <5>. QED  BY <5>1, MinOfMessages
      <4>. QED  BY <2>1, <3>2, <4>1 DEF Requeued, ForceShape
    <3>. QED  BY <1>2, <3>1, <3>2 DEF PassGatesUnlocked
  <2>6. UNCHANGED <<checkpoint, cursor, lock, worker, left, posts, late>>
    BY <1>2 DEF PassGatesUnlocked
  <2>. QED  BY <2>1, <2>3, <2>4, <2>5, <2>6 DEF ForceShape
<1>3. CASE ForceSettles
  <2>1. force.m \in Messages /\ SettledAs(force.m)
    BY <1>3, SettleLeaves DEF ForceSettles, ForceShape
  <2>2. UNCHANGED <<forced, cursor, lock, worker, late>>
    BY <1>3 DEF ForceSettles
  <2>3. force' = [force EXCEPT !.at = "next", !.done = @ + 1] /\ force.at = "deliver"
    BY <1>3 DEF ForceSettles
  <2>4. force' \in RequestStates /\ force'.at = "next"
    <3>1. force \in RequestStates
      BY DEF ForceShape
    <3>2. force.done + 1 \in Nat /\ "next" \in ForceSteps
      BY <3>1 DEF RequestStates, ForceSteps
    <3>. QED  BY <2>3, <3>1, <3>2 DEF RequestStates
  <2>5. lock' = "force" => force'.at \in {"purge", "clear", "release"}
    BY <2>2, <2>3 DEF ForceShape
  <2>6. /\ row' \in [Messages -> Statuses] /\ queued' \subseteq Messages
        /\ left' \in [Trouble -> Nat]
    BY <2>1 DEF SettledAs
  <2>. QED  BY <2>1, <2>2, <2>4, <2>5, <2>6, SettledIsTyped DEF ForceShape
<1>. QED  BY <1>1, <1>2, <1>3

(* What a time-out of the request leaves of the rows, and of who is at work. *)
CutOff ==
  /\ row' \in [Messages -> Statuses] /\ forced \subseteq forced'
  /\ \A m \in Messages :
       \/ row'[m] = row[m]
       \/ /\ row'[m] = "queued" /\ row[m] = Absent /\ m \in forced'
          /\ force.at = "next"
       \/ /\ row'[m] = "retry_wait" /\ row[m] # Absent
          /\ (force.at = "deliver" /\ m = force.m) \/ (worker.at = "deliver" /\ m = worker.m)
  /\ forced' \subseteq {m \in Messages : row'[m] # Absent}
  /\ forced' # forced => force.at = "next"
  /\ queued' \subseteq Messages
  /\ worker' \in {worker, NoWork}
  /\ posts' \in [Messages -> Nat] /\ doubt \subseteq doubt'
  /\ \A m \in Messages : posts'[m] = posts[m] \/ m \in doubt'
  /\ late' \in BOOLEAN /\ (late => late')
  /\ lock' \in {lock, "free"} /\ (lock = "force" => lock' = "free" \/ force.at \notin {"purge", "clear", "release"})

LEMMA CutMark ==
  ASSUME ForceShape, NEW m \in Messages, row' = row \/ row' = Marked(m, "retry_wait")
  PROVE  /\ row' \in [Messages -> Statuses]
         /\ \A l \in Messages : \/ row'[l] = row[l]
                                \/ row'[l] = "retry_wait" /\ row[l] # Absent /\ l = m
         /\ forced \subseteq {l \in Messages : row'[l] # Absent}
<1>1. "retry_wait" \in Statuses \ {Absent}
  BY DEF Statuses, Absent
<1>2. row \in [Messages -> Statuses] /\ forced \subseteq {l \in Messages : row[l] # Absent}
  BY DEF ForceShape
<1>3. CASE row' = row
  BY <1>2, <1>3
<1>4. CASE row' = Marked(m, "retry_wait")
  <2>1. /\ row' \in [Messages -> Statuses]
        /\ \A l \in Messages \ {m} : row'[l] = row[l]
        /\ row'[m] = IF row[m] = Absent THEN Absent ELSE "retry_wait"
    BY <1>1, <1>4, MarkedRow
  <2>2. "retry_wait" # Absent
    BY <1>1
  <2>. QED  BY <1>2, <2>1, <2>2
<1>. QED  BY <1>3, <1>4

LEMMA CutPosts ==
  ASSUME ForceShape, NEW m \in Messages, PostedUnmarked(m)
  PROVE  /\ posts' \in [Messages -> Nat] /\ doubt \subseteq doubt'
         /\ \A l \in Messages : posts'[l] = posts[l] \/ l \in doubt'
BY DEF ForceShape, PostedUnmarked

LEMMA TimesOutCuts ==
  ASSUME ForceShape, RequestTimesOut
  PROVE  CutOff
<1>1. CASE force.at = "next" /\ CutEnqueue
  <2>1. UNCHANGED <<queued, lock, worker, posts, doubt, late>>
    BY <1>1 DEF CutEnqueue
  <2>2. CASE UNCHANGED <<row, forced>>
    BY <1>1, <2>1, <2>2 DEF CutOff, ForceShape
  <2>3. CASE /\ force.todo # {} /\ Registered(Min(force.todo))
    <3>. DEFINE m == Min(force.todo)
    <3>1. m \in Messages
      BY <2>3, MinOfMessages DEF ForceShape, RequestStates
    <3>2. /\ row' = [row EXCEPT ![m] = IF @ = Absent THEN "queued" ELSE @]
          /\ forced' = forced \cup {m}
      BY <2>3 DEF Registered
    <3>. HIDE DEF m
    <3>3. /\ row' \in [Messages -> Statuses]
          /\ \A l \in Messages \ {m} : row'[l] = row[l]
          /\ row'[m] = IF row[m] = Absent THEN "queued" ELSE row[m]
      BY <3>1, <3>2 DEF ForceShape, Statuses
    <3>4. "queued" # Absent
      BY DEF Absent
    <3>5. forced' \subseteq {l \in Messages : row'[l] # Absent}
      BY <3>1, <3>2, <3>3, <3>4 DEF ForceShape
    <3>. QED  BY <1>1, <2>1, <3>1, <3>2, <3>3, <3>5 DEF CutOff, ForceShape
  <2>. QED  BY <1>1, <2>2, <2>3 DEF CutEnqueue
<1>2. CASE force.at = "purge" /\ CutPurge
  BY <1>2 DEF CutPurge, CutOff, ForceShape
<1>3. CASE force.at = "deliver" /\ CutDelivery
  <2>1. force.m \in Messages
    BY <1>3 DEF ForceShape
  <2>2. UNCHANGED <<forced, queued, lock, worker, late>> /\ PostedUnmarked(force.m)
    BY <1>3 DEF CutDelivery
  <2>3. row' = row \/ row' = Marked(force.m, "retry_wait")
    BY <1>3 DEF CutDelivery
  <2>. QED  BY <1>3, <2>1, <2>2, <2>3, CutMark, CutPosts DEF CutOff, ForceShape
<1>4. CASE force.at = "drain" /\ CutDrain
  <2>1. /\ forced' = forced /\ worker' = NoWork
        /\ lock' = IF lock = "worker" THEN "free" ELSE lock
        /\ late' = (late \/ (worker.old /\ posts' # posts))
    BY <1>4 DEF CutDrain
  <2>2. queued' \subseteq Messages
    <3>1. PICK kept \in SUBSET queued :
            queued' = kept \/ queued' = kept \cup {m \in Messages : row'[m] \in Retryable}
      BY <1>4 DEF CutDrain
    <3>. QED  BY <3>1 DEF ForceShape
  <2>3. late' \in BOOLEAN /\ (late => late') /\ lock # "force"
    BY <1>4, <2>1 DEF ForceShape, WorkerStates
  <2>4. CASE worker.at = "deliver"
    <3>1. worker.m \in Messages
      BY <2>4 DEF ForceShape, WorkerStates
    <3>2. PostedUnmarked(worker.m)
      BY <1>4, <2>4 DEF CutDrain
    <3>3. row' = row \/ row' = Marked(worker.m, "retry_wait")
      BY <1>4 DEF CutDrain
    <3>. QED  BY <2>1, <2>2, <2>3, <2>4, <3>1, <3>2, <3>3, CutMark, CutPosts DEF CutOff
  <2>5. CASE worker.at # "deliver"
    <3>1. UNCHANGED <<row, posts, doubt>>
      BY <1>4, <2>5 DEF CutDrain
    <3>. QED  BY <2>1, <2>2, <2>3, <3>1 DEF CutOff, ForceShape
  <2>. QED  BY <2>4, <2>5
<1>5. CASE CutElsewhere
  BY <1>5 DEF CutElsewhere, CutOff, ForceShape
<1>. QED  BY <1>1, <1>2, <1>3, <1>4, <1>5 DEF RequestTimesOut

LEMMA TimesOutShape ==
  ASSUME ForceShape, RequestTimesOut
  PROVE  ForceShape'
<1>1. CutOff
  BY TimesOutCuts
<1>2. left' \in [Trouble -> Nat]
  BY SpendingLeaves DEF RequestTimesOut, Trouble, ForceShape
<1>3. UNCHANGED <<checkpoint, cursor>> /\ force' = NoRequest
  BY DEF RequestTimesOut
<1>4. force' \in RequestStates /\ force'.at = "idle"
  BY <1>3 DEF NoRequest, RequestStates, ForceSteps
<1>5. lock' # "force"
  BY <1>1 DEF CutOff, ForceShape
<1>6. worker' \in WorkerStates /\ (worker'.at = "idle" <=> worker'.m = Unset)
  <2>1. worker \in WorkerStates /\ (worker.at = "idle" <=> worker.m = Unset)
    BY DEF ForceShape
  <2>2. NoWork \in WorkerStates /\ NoWork.at = "idle" /\ NoWork.m = Unset
    BY DEF NoWork, WorkerStates
  <2>3. worker' = worker \/ worker' = NoWork
    BY <1>1 DEF CutOff
  <2>. QED  BY <2>1, <2>2, <2>3
<1>. QED  BY <1>1, <1>2, <1>3, <1>4, <1>5, <1>6 DEF CutOff, ForceShape

LEMMA StepForceShape ==
  ASSUME ForceShape, [ForceNext]_forceVars
  PROVE  ForceShape'
<1>1. CASE UNCHANGED forceVars
  BY <1>1 DEF forceVars, ForceShape
<1>. QED
  BY <1>1, WorkerShape, LoopShape, RequestShape, ForcedDeliveryShape, TimesOutShape DEF ForceNext

-------------------------------------------------------------------------------
(* The inductive invariant. *)

(* The ledger of a reset route is empty until the poll or the request has read
   the source to its end; until there is a checkpoint, only the request registers. *)
ReadAtOnce ==
  /\ cursor # Latest => forced = {} /\ \A m \in Messages : row[m] = Absent
  /\ force.at \in {"next", "gates", "deliver"} => cursor = Latest
  /\ checkpoint = Unset => /\ cursor \in {Unset, Latest}
                           /\ \A m \in Messages : row[m] = "queued" => m \in forced

(* What is being delivered has a row, unless a reset wiped it. *)
HasRow ==
  /\ worker.at # "idle" /\ ~worker.old => row[worker.m] # Absent
  /\ force.at \in {"gates", "deliver"} => row[force.m] # Absent

(* A message that was delivered is concluded and in nobody's hands; one that is in
   the hands of both is known to be. *)
DeliveredOnce ==
  /\ \A m \in Messages :
       ~late /\ m \notin twice \cup doubt /\ posts[m] # 0 =>
         /\ posts[m] = 1 /\ row[m] \in Terminal /\ worker.m # m
         /\ ~(force.at = "deliver" /\ force.m = m)
  /\ force.at = "deliver" /\ worker.m = force.m => force.m \in twice

(* Nothing that the checkpoint would strand waits below the message m. *)
ClearBelow(m) ==
  \A l \in Messages : row[l] = "queued" /\ checkpoint < l /\ l < m => l \in forced

NothingStranded ==
  ~late =>
    /\ \A m \in Messages : row[m] = "queued" /\ m <= checkpoint => m \in forced
    /\ worker.at # "idle" /\ ~worker.old => ClearBelow(worker.m)
    /\ force.at = "deliver" => ClearBelow(force.m)

ForceInv == ForceShape /\ ReadAtOnce /\ HasRow /\ DeliveredOnce /\ NothingStranded

LEMMA InitForceInv == ForceInit => ForceInv
<1>. SUFFICES ASSUME ForceInit PROVE ForceInv
  OBVIOUS
<1>1. ForceShape
  BY InitForceShape
<1>2. PICK done \in 0..Latest :
        /\ row = [m \in Messages |-> IF m <= done THEN "sent" ELSE "queued"]
        /\ checkpoint = done
  BY DEF ForceInit
<1>3. worker.at = "idle" /\ force.at = "idle" /\ cursor = Latest /\ checkpoint # Unset
  BY <1>2, ForceSyncAssumption DEF ForceInit, NoWork, NoRequest, Unset
<1>4. \A m \in Messages : row[m] = "queued" => ~(m <= checkpoint)
  BY <1>2
<1>5. \A m \in Messages : posts[m] = 0
  BY DEF ForceInit
<1>. QED
  BY <1>1, <1>3, <1>4, <1>5 DEF ForceInv, ReadAtOnce, HasRow, DeliveredOnce, NothingStranded

(* A delivery of m that ends leaves what is registered as it is, and may move the
   checkpoint up to m. *)
LEMMA SettledStillRead ==
  ASSUME ForceShape, ReadAtOnce, NEW m \in Messages, SettledAs(m),
         UNCHANGED <<forced, cursor>>,
         force'.at \in {"next", "gates", "deliver"} => force.at \in {"next", "gates", "deliver"}
  PROVE  ReadAtOnce'
<1>1. cursor # Latest => \A l \in Messages : row'[l] = Absent
  BY DEF ReadAtOnce, SettledAs
<1>2. checkpoint' = Unset => checkpoint = Unset
  BY DEF SettledAs, AtLeast, Unset, Messages, ForceShape
<1>3. \A l \in Messages : row'[l] = "queued" => row[l] = "queued"
  BY DEF SettledAs, Absent, Terminal
<1>. QED  BY <1>1, <1>2, <1>3 DEF ReadAtOnce

LEMMA SettledStrandsNothing ==
  ASSUME ForceShape, NEW m \in Messages, SettledAs(m), UNCHANGED forced,
         \A l \in Messages : row[l] = "queued" /\ l <= checkpoint => l \in forced,
         ClearBelow(m)
  PROVE  /\ \A l \in Messages : row'[l] = "queued" /\ l <= checkpoint' => l \in forced'
         /\ \A x \in Messages : ClearBelow(x) => ClearBelow(x)'
<1>1. \A l \in Messages : row'[l] = "queued" => row[l] = "queued" /\ l # m
  BY DEF SettledAs, Absent, Terminal
<1>2. /\ checkpoint \in Int /\ checkpoint' \in Int /\ Messages \subseteq Int
      /\ checkpoint' = checkpoint \/ checkpoint' = m \/ checkpoint' <= checkpoint
      /\ checkpoint <= checkpoint'
  BY ForceSyncAssumption DEF SettledAs, AtLeast, Unset, Messages, ForceShape
<1>3. ASSUME NEW l \in Messages, row'[l] = "queued", l <= checkpoint'
      PROVE  l \in forced'
  <2>1. CASE l <= checkpoint
    BY <1>1, <1>3, <2>1
  <2>2. CASE ~(l <= checkpoint)
    <3>1. checkpoint < l /\ l < m
      BY <1>1, <1>2, <1>3, <2>2
    <3>. QED  BY <1>1, <1>3, <3>1 DEF ClearBelow
  <2>. QED  BY <2>1, <2>2
<1>4. ASSUME NEW x \in Messages, ClearBelow(x)
      PROVE  ClearBelow(x)'
  <2>. SUFFICES ASSUME NEW l \in Messages, row'[l] = "queued", checkpoint' < l, l < x
                PROVE  l \in forced'
    BY DEF ClearBelow
  <2>1. checkpoint < l /\ row[l] = "queued"
    BY <1>1, <1>2
  <2>. QED  BY <1>4, <2>1 DEF ClearBelow
<1>. QED  BY <1>3, <1>4

(* A step that only moves the request between its steps, none of them a delivery. *)
LEMMA RequestMovesOn ==
  ASSUME ForceInv, ForceShape',
         UNCHANGED <<row, forced, checkpoint, worker, posts, twice, doubt, late>>,
         cursor' = cursor \/ cursor' = Latest,
         force'.at \notin {"gates", "deliver"}, force'.at = "next" => cursor' = Latest
  PROVE  ForceInv'
<1>. USE DEF ForceInv
<1>1. ReadAtOnce'
  BY DEF ReadAtOnce
<1>2. HasRow'
  BY DEF HasRow
<1>3. DeliveredOnce'
  BY DEF DeliveredOnce
<1>4. NothingStranded'
  BY DEF NothingStranded, ClearBelow
<1>. QED  BY <1>1, <1>2, <1>3, <1>4

LEMMA RequestKeepsInv ==
  ASSUME ForceInv, ForceShape',
         \/ RequestForce \/ AcquireForce \/ PurgeRoute \/ ReleaseForce
         \/ RuntimeReset \/ Seed \/ BackfillEnds \/ DrainReturns
  PROVE  ForceInv'
<1>0. force \in RequestStates
  BY DEF ForceInv, ForceShape
<1>1. /\ UNCHANGED <<row, forced, checkpoint, worker, posts, twice, doubt, late>>
      /\ cursor' = cursor \/ cursor' = Latest
  BY DEF RequestForce, AcquireForce, PurgeRoute, ReleaseForce, RuntimeReset, Seed,
         BackfillEnds, DrainReturns
<1>2. force'.at \notin {"gates", "deliver"} /\ (force'.at = "next" => cursor' = Latest)
  <2>1. CASE Seed
    <3>1. CASE /\ force' = [NoRequest EXCEPT !.at = "next", !.todo = Recent(Window)]
               /\ cursor' = Latest
      <4>1. DOMAIN NoRequest = {"at", "m", "todo", "done", "rest"}
        BY DEF NoRequest
      <4>. QED  BY <3>1, <4>1
    <3>2. CASE force' = NoRequest
      BY <3>2 DEF NoRequest
    <3>. QED  BY <2>1, <3>1, <3>2 DEF Seed
  <2>2. CASE BackfillEnds
    BY <1>0, <2>2 DEF BackfillEnds, Goto, NoRequest, RequestStates
  <2>3. CASE AcquireForce
    BY <1>0, <2>3 DEF AcquireForce, Goto, NoRequest, RequestStates
  <2>4. CASE RequestForce \/ PurgeRoute \/ ReleaseForce \/ RuntimeReset \/ DrainReturns
    BY <1>0, <2>4 DEF RequestForce, PurgeRoute, ReleaseForce, RuntimeReset, DrainReturns,
                      Goto, NoRequest, RequestStates
  <2>. QED  BY <2>1, <2>2, <2>3, <2>4
<1>. QED  BY <1>1, <1>2, RequestMovesOn

(* What is cut off is not concluded, and what it registers is forced. *)
LEMMA TimesOutKeepsInv ==
  ASSUME ForceInv, ForceShape', RequestTimesOut
  PROVE  ForceInv'
<1>. USE DEF ForceInv
<1>0. /\ CutOff /\ UNCHANGED <<checkpoint, cursor, twice>> /\ force'.at = "idle"
      /\ Unset \notin Messages
  BY TimesOutCuts DEF RequestTimesOut, NoRequest, Unset, Messages
<1>1. worker' = worker \/ worker' = NoWork
  BY <1>0 DEF CutOff
<1>2. worker'.at # "idle" => worker' = worker /\ worker.m \in Messages
  BY <1>1 DEF NoWork, ForceShape, WorkerStates
<1>3. /\ \A m \in Messages : row[m] # Absent => row'[m] # Absent
      /\ \A m \in Messages : row'[m] = "queued" => row[m] = "queued" \/ m \in forced'
      /\ \A m \in Messages : row'[m] # Absent => row[m] # Absent \/ force.at = "next"
      /\ forced \subseteq forced'
  BY <1>0 DEF CutOff, Absent
<1>4. ReadAtOnce'
  <2>1. cursor # Latest => force.at # "next"
    BY DEF ReadAtOnce
  <2>. QED  BY <1>0, <1>3, <2>1 DEF ReadAtOnce, CutOff
<1>5. HasRow'
  BY <1>0, <1>2, <1>3 DEF HasRow
<1>6. DeliveredOnce'
  <2>1. ASSUME NEW m \in Messages, ~late', m \notin twice' \cup doubt', posts'[m] # 0
        PROVE  posts'[m] = 1 /\ row'[m] \in Terminal /\ worker'.m # m
    <3>1. ~late /\ m \notin twice \cup doubt /\ posts[m] # 0 /\ posts'[m] = posts[m]
      BY <1>0, <2>1 DEF CutOff
    <3>2. /\ posts[m] = 1 /\ row[m] \in Terminal /\ worker.m # m
          /\ ~(force.at = "deliver" /\ force.m = m)
      BY <3>1 DEF DeliveredOnce
    <3>3. row'[m] = row[m]
      BY <1>0, <3>2 DEF CutOff, Absent, Terminal
    <3>4. worker'.m # m
      BY <1>0, <1>1, <3>2 DEF NoWork
    <3>. QED  BY <3>1, <3>2, <3>3, <3>4
  <2>. QED  BY <1>0, <2>1 DEF DeliveredOnce
<1>7. NothingStranded'
  <2>. SUFFICES ASSUME ~late' PROVE NothingStranded'
    BY DEF NothingStranded
  <2>1. ~late
    BY <1>0 DEF CutOff
  <2>2. \A m \in Messages : ClearBelow(m) => ClearBelow(m)'
    BY <1>0, <1>3 DEF ClearBelow
  <2>3. \A m \in Messages : row'[m] = "queued" /\ m <= checkpoint' => m \in forced'
    BY <1>0, <1>3, <2>1 DEF NothingStranded
  <2>. QED  BY <1>0, <1>2, <2>1, <2>2, <2>3 DEF NothingStranded, ClearBelow
<1>. QED  BY <1>4, <1>5, <1>6, <1>7

(* A row that is given back was in processing: not concluded, and it does not wait. *)
LEMMA RecoverKeepsInv ==
  ASSUME ForceInv, ForceShape', NEW m \in Messages, RecoverStale(m)
  PROVE  ForceInv'
<1>. USE DEF ForceInv
<1>0. /\ UNCHANGED <<forced, checkpoint, cursor, worker, force, posts, twice, doubt, late>>
      /\ row[m] = "processing"
  BY DEF RecoverStale
<1>1. /\ \A l \in Messages \ {m} : row'[l] = row[l]
      /\ row'[m] = "retry_wait"
  BY <1>0, MarkedRow DEF RecoverStale, Statuses, Absent
<1>2. \A l \in Messages : /\ row'[l] = Absent <=> row[l] = Absent
                          /\ row'[l] = "queued" => row[l] = "queued"
                          /\ row[l] \in Terminal => row'[l] \in Terminal
  BY <1>0, <1>1 DEF Absent, Terminal
<1>3. ReadAtOnce'
  BY <1>0, <1>2 DEF ReadAtOnce
<1>4. HasRow'
  BY <1>0, <1>2 DEF HasRow, ForceShape, WorkerStates
<1>5. DeliveredOnce'
  BY <1>0, <1>2 DEF DeliveredOnce
<1>6. NothingStranded'
  BY <1>0, <1>2 DEF NothingStranded, ClearBelow
<1>. QED  BY <1>3, <1>4, <1>5, <1>6

LEMMA PopKeepsInv ==
  ASSUME ForceInv, ForceShape', NEW m \in Messages, Pop(m)
  PROVE  ForceInv'
<1>. USE DEF ForceInv
<1>0. /\ worker.at = "idle" /\ worker.m = Unset /\ Unset \notin Messages
      /\ UNCHANGED <<forced, checkpoint, cursor, force, posts, doubt, late>>
      /\ twice' = IF force.at = "deliver" /\ worker'.m = force.m THEN twice \cup {force.m} ELSE twice
  BY DEF Pop, ForceShape, Unset, Messages
<1>1. CASE UNCHANGED <<row, worker>>
  BY <1>0, <1>1 DEF ReadAtOnce, HasRow, DeliveredOnce, NothingStranded, ClearBelow
<1>2. CASE ~Over(m) /\ row' = Marked(m, "blocked") /\ UNCHANGED worker
  <2>1. /\ \A l \in Messages \ {m} : row'[l] = row[l]
        /\ row[m] # Absent /\ row'[m] = "blocked"
    BY <1>2, MarkedRow DEF Over, Statuses, Terminal, Absent
  <2>2. \A l \in Messages : /\ row'[l] = Absent <=> row[l] = Absent
                            /\ row'[l] = "queued" => row[l] = "queued"
                            /\ row[l] \in Terminal => row'[l] \in Terminal
    BY <2>1 DEF Absent, Terminal
  <2>3. ReadAtOnce'
    BY <1>0, <2>2 DEF ReadAtOnce
  <2>4. HasRow'
    BY <1>0, <1>2, <2>2 DEF HasRow, ForceShape
  <2>5. DeliveredOnce'
    BY <1>0, <1>2, <2>2 DEF DeliveredOnce
  <2>6. NothingStranded'
    BY <1>0, <1>2, <2>2 DEF NothingStranded, ClearBelow
  <2>. QED  BY <2>3, <2>4, <2>5, <2>6
<1>3. CASE /\ ~Over(m) /\ ~Waits(m)
           /\ worker' = [at |-> "acquire", m |-> m, old |-> FALSE] /\ UNCHANGED row
  <2>1. ReadAtOnce'
    BY <1>0, <1>3 DEF ReadAtOnce
  <2>2. HasRow'
    BY <1>0, <1>3 DEF HasRow, Over
  <2>3. DeliveredOnce'
    BY <1>0, <1>3 DEF DeliveredOnce, Over
  <2>4. NothingStranded'
    <3>1. ClearBelow(m)
      BY <1>3 DEF Waits, Pending, ClearBelow
    <3>. QED  BY <1>0, <1>3, <3>1 DEF NothingStranded, ClearBelow
  <2>. QED  BY <2>1, <2>2, <2>3, <2>4
<1>. QED  BY <1>1, <1>2, <1>3 DEF Pop

LEMMA AcquiredKeepsInv ==
  ASSUME ForceInv, ForceShape', Acquired
  PROVE  ForceInv'
<1>. USE DEF ForceInv
<1>0. /\ worker \in WorkerStates /\ worker.at = "acquire" /\ worker.m \in Messages
      /\ UNCHANGED <<forced, checkpoint, cursor, force, posts, doubt, late, twice>>
  BY DEF Acquired, ForceShape, WorkerStates
<1>1. CASE worker' = NoWork /\ UNCHANGED row
  <2>1. worker'.at = "idle" /\ worker'.m = Unset /\ Unset \notin Messages
    BY <1>1 DEF NoWork, Unset, Messages
  <2>2. ReadAtOnce' /\ HasRow'
    BY <1>0, <1>1, <2>1 DEF ReadAtOnce, HasRow
  <2>3. DeliveredOnce'
    BY <1>0, <1>1, <2>1 DEF DeliveredOnce, ForceShape
  <2>4. NothingStranded'
    BY <1>0, <1>1, <2>1 DEF NothingStranded, ClearBelow
  <2>. QED  BY <2>2, <2>3, <2>4
<1>2. CASE /\ worker' = [worker EXCEPT !.at = "deliver"]
           /\ row' = Marked(worker.m, "processing")
  <2>1. worker'.at = "deliver" /\ worker'.m = worker.m /\ worker'.old = worker.old
    BY <1>0, <1>2 DEF WorkerStates
  <2>2. \A l \in Messages : /\ row'[l] = Absent <=> row[l] = Absent
                            /\ row'[l] = "queued" => row[l] = "queued"
                            /\ l # worker.m => row'[l] = row[l]
    BY <1>0, <1>2, MarkedRow DEF Statuses, Absent
  <2>3. ReadAtOnce'
    BY <1>0, <2>2 DEF ReadAtOnce
  <2>4. HasRow'
    BY <1>0, <2>1, <2>2 DEF HasRow, ForceShape
  <2>5. DeliveredOnce'
    BY <1>0, <2>1, <2>2 DEF DeliveredOnce
  <2>6. NothingStranded'
    BY <1>0, <2>1, <2>2 DEF NothingStranded, ClearBelow
  <2>. QED  BY <2>3, <2>4, <2>5, <2>6
<1>. QED  BY <1>1, <1>2 DEF Acquired

LEMMA WorkerSettlesKeepsInv ==
  ASSUME ForceInv, ForceShape', WorkerSettles
  PROVE  ForceInv'
<1>. USE DEF ForceInv
<1>. DEFINE m == worker.m
<1>0. /\ m \in Messages /\ SettledAs(m) /\ worker.at = "deliver" /\ worker \in WorkerStates
      /\ worker'.at = "idle" /\ worker'.m = Unset /\ Unset \notin Messages
      /\ UNCHANGED <<forced, cursor, force, twice>>
  <2>1. worker.at = "deliver" /\ m \in Messages /\ worker \in WorkerStates
    BY DEF WorkerSettles, ForceShape, WorkerStates
  <2>. QED  BY <2>1, SettleLeaves DEF WorkerSettles, NoWork, Unset, Messages
<1>1. late' = FALSE => ~late /\ ~worker.old
  BY DEF WorkerSettles, ForceShape
<1>2. ReadAtOnce'
  BY <1>0, SettledStillRead
<1>3. HasRow'
  BY <1>0 DEF HasRow, SettledAs, ForceShape
<1>4. DeliveredOnce'
  <2>1. ASSUME NEW x \in Messages, ~late', x \notin twice' \cup doubt', posts'[x] # 0
        PROVE  /\ posts'[x] = 1 /\ row'[x] \in Terminal /\ worker'.m # x
               /\ ~(force'.at = "deliver" /\ force'.m = x)
    <3>1. ~late /\ ~worker.old /\ x \notin twice \cup doubt
      BY <1>0, <1>1, <2>1 DEF ForceShape, SettledAs
    <3>2. CASE x = m
      <4>1. row[m] # Absent /\ posts[m] = 0
        BY <1>0, <3>1, <3>2 DEF HasRow, DeliveredOnce
      <4>2. posts'[m] = 1 /\ row'[m] \in Terminal
        BY <1>0, <2>1, <3>2, <4>1 DEF SettledAs, Terminal, ForceShape
      <4>3. ~(force.at = "deliver" /\ force.m = m)
        BY <3>1, <3>2 DEF DeliveredOnce
      <4>. QED  BY <1>0, <3>2, <4>2, <4>3
    <3>3. CASE x # m
      <4>1. posts'[x] = posts[x] /\ row'[x] = row[x]
        BY <1>0, <3>3 DEF SettledAs, ForceShape
      <4>. QED  BY <1>0, <2>1, <3>1, <4>1 DEF DeliveredOnce
    <3>. QED  BY <3>2, <3>3
  <2>2. ~(force'.at = "deliver" /\ worker'.m = force'.m)
    BY <1>0 DEF ForceShape
  <2>. QED  BY <2>1, <2>2 DEF DeliveredOnce
<1>5. NothingStranded'
  <2>. SUFFICES ASSUME ~late' PROVE NothingStranded'
    BY DEF NothingStranded
  <2>1. /\ ~late /\ ClearBelow(m)
        /\ \A l \in Messages : row[l] = "queued" /\ l <= checkpoint => l \in forced
    BY <1>0, <1>1 DEF NothingStranded, ForceShape
  <2>2. /\ \A l \in Messages : row'[l] = "queued" /\ l <= checkpoint' => l \in forced'
        /\ \A x \in Messages : ClearBelow(x) => ClearBelow(x)'
    BY <1>0, <2>1, SettledStrandsNothing
  <2>3. force'.at = "deliver" => ClearBelow(force.m)'
    BY <1>0, <2>1, <2>2 DEF NothingStranded, ForceShape
  <2>. QED  BY <1>0, <2>2, <2>3 DEF NothingStranded, ClearBelow
<1>. QED  BY <1>2, <1>3, <1>4, <1>5

(* The poll registers something only of a route whose ledger is empty. *)
LEMMA LoopKeepsInv ==
  ASSUME ForceInv, ForceShape', Baseline \/ PollAndRegister
  PROVE  ForceInv'
<1>. USE DEF ForceInv
<1>1. CASE Baseline
  <2>1. UNCHANGED <<row, forced, worker, force, posts, twice, doubt, late>>
    BY <1>1 DEF Baseline
  <2>2. /\ checkpoint' \in 0..Latest /\ checkpoint <= checkpoint'
        /\ checkpoint # Unset => checkpoint' = checkpoint
        /\ cursor = Latest => cursor' = Latest
    BY <1>1, ForceSyncAssumption DEF Baseline, ForceShape, AtLeast, Unset
  <2>3. ReadAtOnce'
    BY <2>1, <2>2 DEF ReadAtOnce, Unset
  <2>4. HasRow' /\ DeliveredOnce'
    BY <2>1 DEF HasRow, DeliveredOnce
  <2>5. NothingStranded'
    <3>1. \A x \in Messages : ClearBelow(x) => ClearBelow(x)'
      BY <2>1, <2>2, ForceSyncAssumption DEF ClearBelow, ForceShape, Messages, Unset
    <3>2. worker.at # "idle" => worker.m \in Messages
      BY DEF ForceShape, WorkerStates
    <3>3. force.at = "deliver" => force.m \in Messages
      BY DEF ForceShape
    <3>4. ~late => \A l \in Messages : row'[l] = "queued" /\ l <= checkpoint' => l \in forced'
      BY <2>1, <2>2 DEF NothingStranded, ReadAtOnce
    <3>. QED  BY <2>1, <3>1, <3>2, <3>3, <3>4 DEF NothingStranded, ClearBelow
  <2>. QED  BY <2>3, <2>4, <2>5
<1>2. CASE PollAndRegister
  <2>1. PICK unread \in SUBSET Messages :
          /\ row' = [m \in Messages |-> IF m \in unread /\ row[m] = Absent THEN "queued" ELSE row[m]]
          /\ forced' = forced \ unread
          /\ cursor = Unset => unread = {}
          /\ \A m \in unread : m > cursor /\ m > checkpoint
    <3>. DEFINE new == IF cursor = Unset THEN {}
                       ELSE {m \in Messages : m > cursor /\ m > checkpoint /\ row[m] \notin Terminal}
    <3>1. new \in SUBSET Messages
      OBVIOUS
    <3>2. /\ row' = [m \in Messages |-> IF m \in new /\ row[m] = Absent THEN "queued" ELSE row[m]]
          /\ forced' = forced \ new
      BY <1>2 DEF PollAndRegister
    <3>3. (cursor = Unset => new = {}) /\ \A m \in new : m > cursor /\ m > checkpoint
      OBVIOUS
    <3>. HIDE DEF new
    <3>. QED  BY <3>1, <3>2, <3>3
  <2>2. UNCHANGED <<checkpoint, worker, force, posts, twice, doubt, late>> /\ cursor' = Latest
    BY <1>2 DEF PollAndRegister
  <2>3. CASE unread = {}
    <3>1. row' = row /\ forced' = forced
      BY <2>1, <2>3 DEF ForceShape
    <3>2. ReadAtOnce'
      BY <2>2, <3>1 DEF ReadAtOnce
    <3>3. HasRow' /\ DeliveredOnce'
      BY <2>2, <3>1 DEF HasRow, DeliveredOnce
    <3>4. NothingStranded'
      BY <2>2, <3>1 DEF NothingStranded, ClearBelow
    <3>. QED  BY <3>2, <3>3, <3>4
  <2>4. CASE unread # {}
    <3>1. /\ cursor # Latest /\ cursor # Unset
          /\ \A m \in Messages : row[m] = Absent
          /\ force.at \notin {"next", "gates", "deliver"} /\ checkpoint # Unset
      <4>1. cursor # Unset /\ cursor # Latest
        <5>1. PICK m \in Messages : m > cursor
          BY <2>1, <2>4
        <5>2. m \in Int /\ m <= Latest /\ Latest \in Int
          BY ForceSyncAssumption DEF Messages
        <5>3. cursor # Unset
          BY <2>1, <2>4
        <5>. QED  BY <5>1, <5>2, <5>3
      <4>. QED  BY <4>1 DEF ReadAtOnce
    <3>2. worker.at # "idle" => worker.old /\ worker.m \in Messages
      BY <3>1 DEF HasRow, ForceShape, WorkerStates
    <3>3. \A m \in Messages : row'[m] = "queued" => checkpoint < m
      BY <2>1, <3>1 DEF ForceShape, Absent
    <3>4. ReadAtOnce'
      BY <2>2, <3>1 DEF ReadAtOnce
    <3>5. HasRow'
      BY <2>2, <3>1, <3>2 DEF HasRow
    <3>6. DeliveredOnce'
      BY <2>2, <3>1 DEF DeliveredOnce, Absent, Terminal
    <3>7. NothingStranded'
      BY <2>2, <3>1, <3>2, <3>3, ForceSyncAssumption DEF NothingStranded, ForceShape, Messages, Unset
    <3>. QED  BY <3>4, <3>5, <3>6, <3>7
  <2>. QED  BY <2>3, <2>4
<1>. QED  BY <1>1, <1>2

LEMMA ClearKeepsInv ==
  ASSUME ForceInv, ForceShape', ClearState
  PROVE  ForceInv'
<1>. USE DEF ForceInv
<1>1. /\ row' = [m \in Messages |-> Absent] /\ posts' = [m \in Messages |-> 0]
      /\ forced' = {} /\ checkpoint' = Unset /\ cursor' = Unset
      /\ force' = [force EXCEPT !.at = "release"]
      /\ worker' = [worker EXCEPT !.old = (worker.at # "idle")]
  BY DEF ClearState, Goto
<1>2. /\ force'.at = "release"
      /\ worker'.at # "idle" => worker'.old
  BY <1>1 DEF ForceShape, RequestStates, WorkerStates
<1>3. Unset # Latest
  BY ForceSyncAssumption DEF Unset
<1>4. ReadAtOnce' /\ HasRow'
  BY <1>1, <1>2, <1>3 DEF ReadAtOnce, HasRow, Absent
<1>5. DeliveredOnce'
  BY <1>1, <1>2 DEF DeliveredOnce
<1>6. NothingStranded'
  BY <1>1, <1>2 DEF NothingStranded, Absent
<1>. QED  BY <1>4, <1>5, <1>6

(* The request's own delivery. *)
LEMMA EnqueueForcedKeepsInv ==
  ASSUME ForceInv, ForceShape', EnqueueForced
  PROVE  ForceInv'
<1>. USE DEF ForceInv
<1>. DEFINE m == Min(force.todo)
<1>0. /\ m \in Messages /\ force \in RequestStates /\ cursor = Latest
      /\ UNCHANGED <<checkpoint, cursor, worker, posts, twice, doubt, late>>
  BY MinOfMessages DEF EnqueueForced, ForceShape, RequestStates, ReadAtOnce
<1>1. CASE /\ force' = [force EXCEPT !.todo = @ \ {m}] /\ UNCHANGED <<row, forced>>
           /\ force.at = "next"
  <2>1. force'.at = "next"
    BY <1>0, <1>1 DEF RequestStates
  <2>. QED  BY <1>0, <1>1, <2>1, RequestMovesOn
<1>2. CASE /\ row[m] \notin Terminal /\ force.at = "next"
           /\ row' = [row EXCEPT ![m] = IF @ = Absent THEN "queued" ELSE @]
           /\ forced' = forced \cup {m}
           /\ \/ force' = [force EXCEPT !.todo = @ \ {m}, !.m = m, !.at = "gates"]
              \/ force' = [force EXCEPT !.todo = @ \ {m}, !.m = m, !.rest = TRUE]
  <2>. HIDE DEF m
  <2>1. force'.at \in {"gates", "next"} /\ force'.m = m
    BY <1>0, <1>2 DEF RequestStates
  <2>2. /\ row'[m] # Absent /\ row'[m] = IF row[m] = Absent THEN "queued" ELSE row[m]
        /\ \A l \in Messages \ {m} : row'[l] = row[l]
    BY <1>0, <1>2 DEF ForceShape, Absent
  <2>3. /\ \A l \in Messages : row[l] # Absent => row'[l] = row[l]
        /\ \A l \in Messages : row'[l] = "queued" => row[l] = "queued" \/ l \in forced'
        /\ forced \subseteq forced'
    BY <1>2, <2>2
  <2>4. ReadAtOnce'
    BY <1>0, <2>3 DEF ReadAtOnce
  <2>5. HasRow'
    BY <1>0, <2>1, <2>2, <2>3 DEF HasRow, ForceShape, WorkerStates
  <2>6. DeliveredOnce'
    BY <1>0, <2>1, <2>3 DEF DeliveredOnce, Absent, Terminal
  <2>7. NothingStranded'
    <3>1. \A x \in Messages : ClearBelow(x) => ClearBelow(x)'
      BY <1>0, <2>3 DEF ClearBelow
    <3>2. worker.at # "idle" => worker.m \in Messages
      BY DEF ForceShape, WorkerStates
    <3>3. ~late => \A l \in Messages : row'[l] = "queued" /\ l <= checkpoint' => l \in forced'
      BY <1>0, <2>3 DEF NothingStranded
    <3>. QED  BY <1>0, <2>1, <3>1, <3>2, <3>3 DEF NothingStranded, ClearBelow
  <2>. QED  BY <2>4, <2>5, <2>6, <2>7
<1>. QED  BY <1>1, <1>2 DEF EnqueueForced, Registered

LEMMA PassGatesKeepsInv ==
  ASSUME ForceInv, ForceShape', PassGatesUnlocked
  PROVE  ForceInv'
<1>. USE DEF ForceInv
<1>. DEFINE m == force.m
<1>0. /\ m \in Messages /\ force \in RequestStates /\ force.at = "gates" /\ cursor = Latest
      /\ UNCHANGED <<forced, checkpoint, cursor, worker, posts, doubt, late>>
  BY DEF PassGatesUnlocked, ForceShape, ReadAtOnce
<1>1. CASE force' = [force EXCEPT !.at = "next", !.rest = TRUE] /\ UNCHANGED <<row, twice>>
  <2>1. force'.at = "next"
    BY <1>0, <1>1 DEF RequestStates
  <2>. QED  BY <1>0, <1>1, <2>1, RequestMovesOn
<1>2. CASE /\ Delivers(m) /\ force' = [force EXCEPT !.at = "deliver"]
           /\ row' = Marked(m, "processing")
           /\ twice' = IF worker.m = m THEN twice \cup {m} ELSE twice
  <2>1. force'.at = "deliver" /\ force'.m = m
    BY <1>0, <1>2 DEF RequestStates
  <2>2. \A l \in Messages : /\ row'[l] = Absent <=> row[l] = Absent
                            /\ row'[l] = "queued" => row[l] = "queued"
                            /\ l # m => row'[l] = row[l]
    BY <1>0, <1>2, MarkedRow DEF Statuses, Absent
  <2>3. ReadAtOnce'
    BY <1>0, <2>2 DEF ReadAtOnce
  <2>4. HasRow'
    BY <1>0, <2>1, <2>2 DEF HasRow, ForceShape, WorkerStates
  <2>5. DeliveredOnce'
    BY <1>0, <1>2, <2>1, <2>2 DEF DeliveredOnce, Delivers, Over
  <2>6. NothingStranded'
    <3>1. ClearBelow(m)
      BY <1>2 DEF Delivers, Waits, Pending, ClearBelow
    <3>2. \A x \in Messages : ClearBelow(x) => ClearBelow(x)'
      BY <1>0, <2>2 DEF ClearBelow
    <3>3. worker.at # "idle" => worker.m \in Messages
      BY DEF ForceShape, WorkerStates
    <3>4. ~late => \A l \in Messages : row'[l] = "queued" /\ l <= checkpoint' => l \in forced'
      BY <1>0, <2>2 DEF NothingStranded
    <3>. QED  BY <1>0, <2>1, <3>1, <3>2, <3>3, <3>4 DEF NothingStranded, ClearBelow
  <2>. QED  BY <2>3, <2>4, <2>5, <2>6
<1>. QED  BY <1>1, <1>2 DEF PassGatesUnlocked, Goto

LEMMA ForceSettlesKeepsInv ==
  ASSUME ForceInv, ForceShape', ForceSettles
  PROVE  ForceInv'
<1>. USE DEF ForceInv
<1>. DEFINE m == force.m
<1>0. /\ m \in Messages /\ SettledAs(m) /\ force.at = "deliver" /\ force'.at = "next"
      /\ UNCHANGED <<forced, cursor, worker, twice, late>>
  <2>1. force.at = "deliver" /\ m \in Messages /\ force \in RequestStates
    BY DEF ForceSettles, ForceShape
  <2>2. force' = [force EXCEPT !.at = "next", !.done = @ + 1]
    BY DEF ForceSettles
  <2>3. force'.at = "next"
    BY <2>1, <2>2 DEF RequestStates
  <2>. QED  BY <2>1, <2>3, SettleLeaves DEF ForceSettles
<1>1. worker.at # "idle" => worker.m \in Messages
  BY DEF ForceShape, WorkerStates
<1>2. ReadAtOnce'
  BY <1>0, SettledStillRead
<1>3. HasRow'
  BY <1>0, <1>1 DEF HasRow, SettledAs
<1>4. DeliveredOnce'
  <2>1. ASSUME NEW x \in Messages, ~late', x \notin twice' \cup doubt', posts'[x] # 0
        PROVE  posts'[x] = 1 /\ row'[x] \in Terminal /\ worker'.m # x
    <3>1. ~late /\ x \notin twice \cup doubt
      BY <1>0, <2>1 DEF SettledAs
    <3>2. CASE x = m
      <4>1. row[m] # Absent /\ posts[m] = 0 /\ worker.m # m
        BY <1>0, <3>1, <3>2 DEF HasRow, DeliveredOnce
      <4>2. posts'[m] = 1 /\ row'[m] \in Terminal
        BY <1>0, <2>1, <3>2, <4>1 DEF SettledAs, Terminal, ForceShape
      <4>. QED  BY <1>0, <3>2, <4>1, <4>2
    <3>3. CASE x # m
      <4>1. posts'[x] = posts[x] /\ row'[x] = row[x]
        BY <1>0, <3>3 DEF SettledAs, ForceShape
      <4>. QED  BY <1>0, <2>1, <3>1, <4>1 DEF DeliveredOnce
    <3>. QED  BY <3>2, <3>3
  <2>. QED  BY <1>0, <2>1 DEF DeliveredOnce
<1>5. NothingStranded'
  <2>. SUFFICES ASSUME ~late' PROVE NothingStranded'
    BY DEF NothingStranded
  <2>1. /\ ~late /\ ClearBelow(m)
        /\ \A l \in Messages : row[l] = "queued" /\ l <= checkpoint => l \in forced
    BY <1>0 DEF NothingStranded
  <2>2. /\ \A l \in Messages : row'[l] = "queued" /\ l <= checkpoint' => l \in forced'
        /\ \A x \in Messages : ClearBelow(x) => ClearBelow(x)'
    BY <1>0, <2>1, SettledStrandsNothing
  <2>3. worker'.at # "idle" /\ ~worker'.old => ClearBelow(worker.m)'
    BY <1>0, <1>1, <2>1, <2>2 DEF NothingStranded
  <2>. QED  BY <1>0, <2>2, <2>3 DEF NothingStranded, ClearBelow
<1>. QED  BY <1>2, <1>3, <1>4, <1>5

LEMMA StepForceInv ==
  ASSUME ForceInv, [ForceNext]_forceVars
  PROVE  ForceInv'
<1>1. ForceShape'
  BY StepForceShape DEF ForceInv
<1>2. CASE UNCHANGED forceVars \/ LockExpires \/ SlotComes
  BY <1>1, <1>2 DEF forceVars, LockExpires, SlotComes, ForceInv, ReadAtOnce, HasRow, DeliveredOnce,
                    NothingStranded, ClearBelow
<1>3. CASE \/ RequestForce \/ AcquireForce \/ PurgeRoute \/ ReleaseForce
           \/ RuntimeReset \/ Seed \/ BackfillEnds \/ DrainReturns
  BY <1>1, <1>3, RequestKeepsInv
<1>. QED
  BY <1>1, <1>2, <1>3, PopKeepsInv, RecoverKeepsInv, TimesOutKeepsInv, AcquiredKeepsInv, WorkerSettlesKeepsInv, LoopKeepsInv,
     ClearKeepsInv, EnqueueForcedKeepsInv, PassGatesKeepsInv, ForceSettlesKeepsInv DEF ForceNext

LEMMA ForceInvAlways == ForceSpec => []ForceInv
BY InitForceInv, StepForceInv, PTL DEF ForceSpec

(* Two deliveries of a message since the last reset mean that the request delivered it
   beside the drain, that one of them reached the destination without being marked sent
   (unclear, failed after a part, cut off), or that a delivery outlived the reset; a row is
   left below the checkpoint only in that last case. *)
THEOREM ForceDisturbsOnlyItsOwnAlways == ForceSpec => []ForceDisturbsOnlyItsOwn
<1>1. ForceInv => ForceTypeOK
  <2>1. Statuses = {Absent, "processing", "ambiguous"} \cup Retryable \cup Terminal
    BY DEF Statuses, Retryable, Terminal
  <2>. QED  BY <2>1 DEF ForceInv, ForceShape, ForceTypeOK, WorkerStates, RequestStates
<1>2. ForceInv => DeliveredTwiceOnlyBeside
  BY DEF ForceInv, DeliveredOnce, DeliveredTwiceOnlyBeside
<1>3. ForceInv => NothingStrandedByForce
  BY DEF ForceInv, NothingStranded, NothingStrandedByForce
<1>4. ForceInv => ForceDisturbsOnlyItsOwn
  BY <1>1, <1>2, <1>3 DEF ForceDisturbsOnlyItsOwn
<1>. QED  BY ForceInvAlways, <1>4, PTL
================================================================================
