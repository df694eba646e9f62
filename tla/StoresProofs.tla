------------------------------ MODULE StoresProofs ------------------------------
(***************************************************************************)
(* Theorems about what deliveries share beside the ledger, checked by      *)
(* TLAPS: RedisQueue for every set of entries and callers, every clock and *)
(* every number of requests, purges and faults; RedisLock for every set of *)
(* deliveries and every number of expiries and broken-off deliveries;      *)
(* Workspace for every set of deliveries and of seconds, every number of   *)
(* attempts and of expiries of the cache.                                  *)
(***************************************************************************)
EXTENDS RedisQueue, RedisLock, Workspace, TLAPS

-------------------------------------------------------------------------------
(* The Redis queue: type correctness. *)

Hand == [key : SUBSET Entries, score : 0..Never]

\* RedisQueueTypeOK with the whole of the drain's and the purge's record: the drain
\* has no more than one member in hand.
QueueShapeOK ==
  /\ due \in [Entries -> 0..Never]
  /\ named \subseteq Entries
  /\ asking \in [Callers -> {Resting} \cup
                   [at : {"write"}, key : Entries, score : Time, read : 0..Never]]
  /\ drain \in [on : BOOLEAN, now : Time, hand : Hand, out : SUBSET Entries]
  /\ \A k \in drain.hand.key : drain.hand.key = {k} /\ drain.hand.score \in Time
  /\ ~drain.on => drain.hand.key = {}
  /\ purge.matched \subseteq Entries /\ purge.began \subseteq Entries
  /\ purge = [at |-> purge.at, route |-> purge.route, began |-> purge.began,
              matched |-> purge.matched]
  /\ clock \in Time
  /\ asked \in [Entries -> 0..Never]
  /\ raced \subseteq Entries

LEMMA InitQueueShape == RedisQueueInit => QueueShapeOK
  BY RedisQueueAssumption
     DEF RedisQueueInit, QueueShapeOK, Hand, Never, Time, IdleDrain, IdlePurge, NoHand

LEMMA EnqueueShape ==
  ASSUME QueueShapeOK, NEW c \in Callers,
         \/ \E k \in Entries, t \in Time : ReadScore(c, k, t)
         \/ WriteFields(c)
         \/ WriteScore(c)
         \/ EnqueueFails(c)
  PROVE  QueueShapeOK'
<1>. USE RedisQueueAssumption DEF QueueShapeOK, Never, Time
<1>0. asking[c] # Resting => asking[c].key \in Entries /\ asking[c].score \in Time
  OBVIOUS
<1>1. ASSUME NEW k \in Entries, NEW t \in Time, ReadScore(c, k, t) PROVE QueueShapeOK'
  <2>1. asked' \in [Entries -> 0..Never]
    BY <1>1 DEF ReadScore, Promise, Least
  <2>2. asking' = [asking EXCEPT ![c] = [at |-> "write", key |-> k, score |-> t, read |-> due[k]]]
    BY <1>1 DEF ReadScore
  <2>. QED  BY <1>1, <2>1, <2>2 DEF ReadScore
<1>2. CASE WriteFields(c)
  <2>1. asking[c] # Resting
    BY <1>2 DEF WriteFields, Resting
  <2>. QED  BY <1>0, <1>2, <2>1 DEF WriteFields
<1>3. CASE WriteScore(c)
  <2>1. asking[c] # Resting
    BY <1>3 DEF WriteScore, Resting
  <2>2. asked' \in [Entries -> 0..Never]
    BY <1>0, <1>3, <2>1 DEF WriteScore, Promise, Least
  <2>3. due' \in [Entries -> 0..Never] /\ named' \subseteq Entries /\ raced' \subseteq Entries
    BY <1>0, <1>3, <2>1 DEF WriteScore
  <2>. QED  BY <1>3, <2>2, <2>3 DEF WriteScore
<1>4. CASE EnqueueFails(c)
  BY <1>4 DEF EnqueueFails
<1>. QED  BY <1>1, <1>2, <1>3, <1>4

LEMMA DrainShape ==
  ASSUME QueueShapeOK,
         \/ StartPop \/ PutBack \/ TakeOut \/ ReturnDue \/ PopFails
         \/ \E k \in Entries : PopMin(k)
  PROVE  QueueShapeOK'
<1>. USE RedisQueueAssumption DEF QueueShapeOK, Never, Time, Hand
<1>0. IdleDrain \in [on : BOOLEAN, now : Time, hand : Hand, out : SUBSET Entries]
      /\ IdleDrain.hand.key = {}
  BY DEF IdleDrain, NoHand
<1>1. CASE StartPop
  BY <1>0, <1>1 DEF StartPop
<1>2. CASE PutBack
  BY <1>0, <1>2 DEF PutBack
<1>3. CASE TakeOut
  <2>1. drain' = [drain EXCEPT !.hand = NoHand, !.out = @ \cup drain.hand.key]
    BY <1>3 DEF TakeOut
  <2>2. NoHand \in Hand /\ NoHand.key = {}
    BY DEF NoHand
  <2>. QED  BY <1>3, <2>1, <2>2 DEF TakeOut
<1>4. CASE ReturnDue
  BY <1>0, <1>4 DEF ReturnDue
<1>5. CASE PopFails
  BY <1>0, <1>5 DEF PopFails
<1>6. ASSUME NEW k \in Entries, PopMin(k) PROVE QueueShapeOK'
  <2>1. [key |-> {k}, score |-> due[k]] \in Hand
    OBVIOUS
  <2>. QED  BY <1>6, <2>1 DEF PopMin
<1>. QED  BY <1>1, <1>2, <1>3, <1>4, <1>5, <1>6

LEMMA PurgeShape ==
  ASSUME QueueShapeOK, (\E r : StartPurge(r)) \/ EndScan \/ Purge \/ Tick
  PROVE  QueueShapeOK'
<1>. USE RedisQueueAssumption DEF QueueShapeOK, Never, Time
<1>1. ASSUME NEW r, StartPurge(r) PROVE QueueShapeOK'
  BY <1>1 DEF StartPurge, IdlePurge
<1>2. CASE EndScan
  <2>1. PICK scanned \in SUBSET (purge.began \cup named) :
          purge' = [purge EXCEPT !.at = "delete",
                                 !.matched = {k \in scanned : RouteOfEntry[k] \in purge.route}]
    BY <1>2 DEF EndScan
  <2>2. purge'.matched \subseteq Entries /\ purge'.began \subseteq Entries
        /\ purge' = [at |-> purge'.at, route |-> purge'.route, began |-> purge'.began,
                     matched |-> purge'.matched]
    BY <2>1
  <2>. QED  BY <1>2, <2>2 DEF EndScan
<1>3. CASE Purge
  BY <1>3 DEF Purge, IdlePurge
<1>4. CASE Tick
  BY <1>4 DEF Tick
<1>. QED  BY <1>1, <1>2, <1>3, <1>4

LEMMA StepQueueShape ==
  ASSUME QueueShapeOK, [RedisQueueNext]_redisQueueVars PROVE QueueShapeOK'
<1>1. CASE UNCHANGED redisQueueVars
  BY <1>1 DEF redisQueueVars, QueueShapeOK
<1>. QED  BY <1>1, EnqueueShape, DrainShape, PurgeShape DEF RedisQueueNext

LEMMA QueueShapeIsInvariant == RedisQueueSpec => []QueueShapeOK
<1>. QED  BY InitQueueShape, StepQueueShape, PTL DEF RedisQueueSpec

(* src/kiwi/sync_queue.py 161-260: the type invariant of the queue in Redis, of the
   callers between their round trips and of the drain's pop. *)
THEOREM RedisQueueTypeCorrect == RedisQueueSpec => []RedisQueueTypeOK
<1>1. QueueShapeOK => RedisQueueTypeOK
  BY DEF QueueShapeOK, RedisQueueTypeOK, Hand
<1>. QED  BY <1>1, QueueShapeIsInvariant, PTL

-------------------------------------------------------------------------------
(* NothingOwedIsLost is inductive. *)

LEMMA StepLosesNothing ==
  ASSUME QueueShapeOK, NothingOwedIsLost, [RedisQueueNext]_redisQueueVars
  PROVE  NothingOwedIsLost'
<1>. USE RedisQueueAssumption DEF QueueShapeOK, NothingOwedIsLost, Never, Time, Hand
<1>1. ASSUME NEW c \in Callers, NEW k \in Entries, NEW t \in Time, ReadScore(c, k, t)
      PROVE  NothingOwedIsLost'
  (* What is promised at once is in the set already: its score is no later. *)
  <2>1. due[k] <= t => due[k] # Horizon + 1
    OBVIOUS
  <2>. QED  BY <1>1, <2>1 DEF ReadScore, Promise, Least
<1>2. ASSUME NEW c \in Callers, WriteFields(c) \/ EnqueueFails(c) PROVE NothingOwedIsLost'
  BY <1>2 DEF WriteFields, EnqueueFails
<1>3. ASSUME NEW c \in Callers, WriteScore(c) PROVE NothingOwedIsLost'
  <2>1. asking[c].key \in Entries /\ asking[c].score \in 0..Horizon
    BY <1>3 DEF WriteScore, Resting
  <2>2. due' = [due EXCEPT ![asking[c].key] = asking[c].score]
        /\ asked' = [asked EXCEPT ![asking[c].key] = Least(@, asking[c].score)]
        /\ drain' = drain
    BY <1>3 DEF WriteScore, Promise
  <2>. QED  BY <2>1, <2>2
<1>4. CASE StartPop \/ ReturnDue
  <2>1. drain.hand.key = {} /\ due' = due /\ asked' = asked
    BY <1>4 DEF StartPop, ReturnDue, NoHand
  <2>. QED  BY <2>1
<1>5. CASE PutBack
  <2>1. due' = [k \in Entries |-> IF k \in drain.hand.key THEN drain.hand.score ELSE due[k]]
        /\ asked' = asked
    BY <1>5 DEF PutBack
  <2>. QED  BY <2>1
<1>6. CASE TakeOut
  BY <1>6 DEF TakeOut
<1>7. CASE PopFails
  <2>1. asked' = [k \in Entries |->
                    IF k \in drain.hand.key /\ due[k] = Horizon + 1 THEN Horizon + 1 ELSE asked[k]]
        /\ due' = due
    BY <1>7 DEF PopFails
  <2>. QED  BY <2>1
<1>8. ASSUME NEW k \in Entries, PopMin(k) PROVE NothingOwedIsLost'
  <2>1. drain.hand.key = {} /\ drain'.hand.key = {k} /\ drain'.hand.score = due[k]
        /\ drain'.now = drain.now /\ due' = [due EXCEPT ![k] = Horizon + 1]
    BY <1>8 DEF PopMin, NoHand
  <2>2. CASE due[k] <= drain.now
    <3>1. asked' = [asked EXCEPT ![k] = Horizon + 1]
      BY <1>8, <2>2 DEF PopMin
    <3>. QED  BY <2>1, <3>1
  <2>3. CASE ~(due[k] <= drain.now)
    <3>1. asked' = asked
      BY <1>8, <2>3 DEF PopMin
    <3>. QED  BY <2>1, <2>3, <3>1
  <2>. QED  BY <2>2, <2>3
<1>9. ASSUME NEW r, StartPurge(r) PROVE NothingOwedIsLost'
  BY <1>9 DEF StartPurge
<1>10. CASE EndScan \/ Tick
  BY <1>10 DEF EndScan, Tick
<1>11. CASE Purge
  <2>1. due' = [k \in Entries |-> IF k \in purge.matched THEN Horizon + 1 ELSE due[k]]
        /\ asked' = [k \in Entries |-> IF k \in purge.matched THEN Horizon + 1 ELSE asked[k]]
        /\ drain' = drain
    BY <1>11 DEF Purge
  <2>. QED  BY <2>1
<1>12. CASE UNCHANGED redisQueueVars
  BY <1>12 DEF redisQueueVars
<1>. QED
  BY <1>1, <1>2, <1>3, <1>4, <1>5, <1>6, <1>7, <1>8, <1>9, <1>10, <1>11, <1>12
     DEF RedisQueueNext

(* src/kiwi/sync_queue.py 161-210, 228-260: an entry that was asked for is in the
   sorted set, or in the hand of a pop that is going to put it back, until it is
   handed out, purged or dropped with a failing pop; no interleaving of the round
   trips of any number of callers loses one. *)
THEOREM NothingOwedIsEverLost == RedisQueueSpec => []NothingOwedIsLost
<1>1. RedisQueueInit => NothingOwedIsLost
  BY DEF RedisQueueInit, NothingOwedIsLost
<1>. QED  BY <1>1, StepLosesNothing, QueueShapeIsInvariant, PTL DEF RedisQueueSpec

-------------------------------------------------------------------------------
(* DamageOnlyByRace: what is needed beside it is what the drain has in hand. A member
   that is in the set again while it is in hand has met a race, and one that is going
   to be put back still has its fields. *)

InHandAndDue == \A k \in drain.hand.key : due[k] # Never => k \in raced

InHandIsNamed ==
  \A k \in drain.hand.key : drain.hand.score > drain.now /\ k \notin raced => k \in named

\* DelayedOnlyByRace, where only a member that is put back counts as in hand.
InTime ==
  \A k \in Entries :
    asked[k] # Never /\ k \notin raced =>
      \/ due[k] <= asked[k]
      \/ /\ k \in drain.hand.key /\ drain.hand.score <= asked[k]
         /\ drain.hand.score > drain.now

DamageInv == InHandAndDue /\ InHandIsNamed /\ InTime /\ UnfindableOnlyAfterRace

LEMMA StepDamage ==
  ASSUME QueueShapeOK, NothingOwedIsLost, DamageInv, [RedisQueueNext]_redisQueueVars
  PROVE  DamageInv'
<1>. USE RedisQueueAssumption
     DEF QueueShapeOK, Never, Time, Hand, DamageInv, InHandAndDue, InHandIsNamed, InTime,
         UnfindableOnlyAfterRace
<1>1. ASSUME NEW c \in Callers, NEW k \in Entries, NEW t \in Time, ReadScore(c, k, t)
      PROVE  DamageInv'
  <2>1. UNCHANGED <<due, named, drain, raced>>
    BY <1>1 DEF ReadScore
  <2>2. CASE due[k] <= t
    <3>1. asked' = [asked EXCEPT ![k] = IF asked[k] <= t THEN asked[k] ELSE t]
      BY <1>1, <2>2 DEF ReadScore, Promise, Least
    <3>. QED  BY <2>1, <2>2, <3>1
  <2>3. CASE ~(due[k] <= t)
    <3>1. asked' = asked
      BY <1>1, <2>3 DEF ReadScore
    <3>. QED  BY <2>1, <3>1
  <2>. QED  BY <2>2, <2>3
<1>2. ASSUME NEW c \in Callers, WriteFields(c) \/ EnqueueFails(c) PROVE DamageInv'
  <2>1. UNCHANGED <<due, drain, asked, raced>> /\ named \subseteq named'
    BY <1>2 DEF WriteFields, EnqueueFails
  <2>. QED  BY <2>1
<1>3. ASSUME NEW c \in Callers, WriteScore(c) PROVE DamageInv'
  <2>. DEFINE a == asking[c]
  <2>1. a.key \in Entries /\ a.score \in 0..Horizon /\ a.read \in 0..(Horizon + 1)
    BY <1>3 DEF WriteScore, Resting
  <2>2. a.read = Horizon + 1 \/ a.read > a.score
    BY <1>3, <2>1 DEF WriteScore, KeepsScore
  <2>3. /\ due' = [due EXCEPT ![a.key] = a.score]
        /\ named' = named \cup {a.key}
        /\ asked' = [asked EXCEPT ![a.key] = IF asked[a.key] <= a.score THEN asked[a.key] ELSE a.score]
        /\ drain' = drain
    BY <1>3 DEF WriteScore, Promise, Least
  <2>4. /\ raced \subseteq raced' /\ raced' \subseteq raced \cup {a.key}
        /\ a.key \notin raced' => due[a.key] = a.read /\ a.key \notin drain.hand.key
    BY <1>3 DEF WriteScore
  <2>. HIDE DEF a
  <2>5. InHandAndDue' /\ InHandIsNamed' /\ UnfindableOnlyAfterRace'
    BY <2>1, <2>3, <2>4
  (* The score is lowered: it was, by what was read, later or not there at all. *)
  <2>6. InTime'
    BY <2>1, <2>2, <2>3, <2>4
  <2>. QED  BY <2>5, <2>6
<1>4. CASE StartPop \/ ReturnDue
  <2>1. drain.hand.key = {} /\ UNCHANGED <<due, named, asked, raced>>
    BY <1>4 DEF StartPop, ReturnDue, NoHand
  <2>2. drain'.hand = NoHand
    <3>1. CASE StartPop
      BY <3>1 DEF StartPop, IdleDrain
    <3>2. CASE ReturnDue
      BY <3>2 DEF ReturnDue, IdleDrain
    <3>. QED  BY <1>4, <3>1, <3>2
  <2>3. drain'.hand.key = {}
    BY <2>2 DEF NoHand
  <2>. QED  BY <2>1, <2>3
<1>5. CASE PutBack
  <2>1. due' = [k \in Entries |-> IF k \in drain.hand.key THEN drain.hand.score ELSE due[k]]
        /\ raced' = raced \cup {k \in drain.hand.key : due[k] # Horizon + 1}
        /\ drain'.hand.key = {} /\ drain.hand.score > drain.now /\ UNCHANGED <<named, asked>>
    BY <1>5 DEF PutBack, IdleDrain, NoHand
  <2>. QED  BY <2>1
<1>6. CASE TakeOut
  <2>1. drain'.hand.key = {} /\ drain.hand.score <= drain.now /\ UNCHANGED <<due, named, asked, raced>>
    BY <1>6 DEF TakeOut, NoHand
  <2>. QED  BY <2>1
<1>7. CASE PopFails
  <2>1. asked' = [k \in Entries |->
                    IF k \in drain.hand.key /\ due[k] = Horizon + 1 THEN Horizon + 1 ELSE asked[k]]
        /\ drain'.hand.key = {} /\ UNCHANGED <<due, named, raced>>
    BY <1>7 DEF PopFails, IdleDrain, NoHand
  <2>. QED  BY <2>1
<1>8. ASSUME NEW k \in Entries, PopMin(k) PROVE DamageInv'
  <2>1. drain.hand.key = {} /\ drain'.hand.key = {k} /\ drain'.hand.score = due[k]
        /\ drain'.now = drain.now /\ due' = [due EXCEPT ![k] = Horizon + 1] /\ named' = named
        /\ due[k] # Horizon + 1
    BY <1>8 DEF PopMin, NoHand
  <2>2. CASE due[k] <= drain.now
    <3>1. asked' = [asked EXCEPT ![k] = Horizon + 1] /\ raced' = raced \ {k}
      BY <1>8, <2>2 DEF PopMin
    <3>. QED  BY <2>1, <2>2, <3>1
  <2>3. CASE ~(due[k] <= drain.now)
    <3>1. asked' = asked /\ raced' = raced
      BY <1>8, <2>3 DEF PopMin
    <3>. QED  BY <2>1, <2>3, <3>1
  <2>. QED  BY <2>2, <2>3
<1>9. ASSUME NEW r, StartPurge(r) PROVE DamageInv'
  BY <1>9 DEF StartPurge
<1>10. CASE EndScan \/ Tick
  BY <1>10 DEF EndScan, Tick
<1>11. CASE Purge
  <2>1. due' = [k \in Entries |-> IF k \in purge.matched THEN Horizon + 1 ELSE due[k]]
        /\ asked' = [k \in Entries |-> IF k \in purge.matched THEN Horizon + 1 ELSE asked[k]]
        /\ raced' = raced \cup {k \in purge.matched : k \in drain.hand.key}
        /\ named' = named \ purge.matched /\ drain' = drain
    BY <1>11 DEF Purge
  <2>. QED  BY <2>1
<1>12. CASE UNCHANGED redisQueueVars
  BY <1>12 DEF redisQueueVars
<1>. QED
  BY <1>1, <1>2, <1>3, <1>4, <1>5, <1>6, <1>7, <1>8, <1>9, <1>10, <1>11, <1>12
     DEF RedisQueueNext

(* src/kiwi/sync_queue.py 165-177 ("Keep earliest due time"), 193, 228-260: an entry
   is due no later than anybody asked and known to the next purge, unless its score
   was overwritten unread, by an enqueue with a stale reading or a pop that puts it
   back. No other interleaving delays or hides an entry. *)
THEOREM DamageOnlyEverByRace == RedisQueueSpec => []DamageOnlyByRace
<1>1. RedisQueueInit => DamageInv
  BY DEF RedisQueueInit, DamageInv, InHandAndDue, InHandIsNamed, InTime,
         UnfindableOnlyAfterRace, IdleDrain, NoHand
<1>2. DamageInv => DamageOnlyByRace
  BY DEF DamageInv, InTime, DamageOnlyByRace, DelayedOnlyByRace
<1>. QED
  BY <1>1, <1>2, StepDamage, NothingOwedIsEverLost, QueueShapeIsInvariant, PTL DEF RedisQueueSpec

-------------------------------------------------------------------------------
(* The Redis route lock: type correctness. *)

LEMMA RedisLockInitTypeOK == RedisLockInit => RedisLockTypeOK
  BY RedisLockAssumption DEF RedisLockInit, RedisLockTypeOK

LEMMA RedisLockStepTypeOK ==
  ASSUME RedisLockTypeOK, [RedisLockNext]_redisLockVars
  PROVE  RedisLockTypeOK'
<1>. USE RedisLockAssumption DEF RedisLockTypeOK
<1>1. ASSUME NEW t \in Lockers, AcquireLease(t) PROVE RedisLockTypeOK'
  BY <1>1 DEF AcquireLease
<1>2. ASSUME NEW t \in Lockers, ReadOwner(t) PROVE RedisLockTypeOK'
  BY <1>2 DEF ReadOwner, Leave
<1>3. ASSUME NEW t \in Lockers, DeleteKey(t) PROVE RedisLockTypeOK'
  BY <1>3 DEF DeleteKey, Leave
<1>4. ASSUME NEW t \in Lockers, Break(t) PROVE RedisLockTypeOK'
  BY <1>4 DEF Break, Leave
<1>5. CASE Expire
  BY <1>5 DEF Expire
<1>6. CASE UNCHANGED redisLockVars
  BY <1>6 DEF redisLockVars
<1>. QED  BY <1>1, <1>2, <1>3, <1>4, <1>5, <1>6 DEF RedisLockNext

(* src/kiwi/sync_queue.py 87-97, 217-226: the lock's key holds nothing, the uuid
   of a delivery or of one that is gone, and every delivery is before, in or
   leaving its turn, whatever expires and whoever dies. *)
THEOREM RedisLockTypeCorrect == RedisLockSpec => []RedisLockTypeOK
<1>. QED  BY RedisLockInitTypeOK, RedisLockStepTypeOK, PTL DEF RedisLockSpec

-------------------------------------------------------------------------------
(* AtWorkHoldsLease is inductive: a delivery at work whose key is another's, or
   not set, is already known to have lost it. *)

LEMMA RedisLockStepHolds ==
  ASSUME RedisLockTypeOK, AtWorkHoldsLease, [RedisLockNext]_redisLockVars
  PROVE  AtWorkHoldsLease'
<1>. USE RedisLockAssumption DEF RedisLockTypeOK, AtWorkHoldsLease
<1>1. ASSUME NEW t \in Lockers, AcquireLease(t) PROVE AtWorkHoldsLease'
  (* No key is set, so whoever is at work has lost its own before. *)
  <2>1. \A u \in Lockers : stage[u] # "out" => u \in overran \cup robbed
    BY <1>1 DEF AcquireLease
  <2>. QED  BY <1>1, <2>1 DEF AcquireLease
<1>2. ASSUME NEW t \in Lockers, ReadOwner(t) PROVE AtWorkHoldsLease'
  BY <1>2 DEF ReadOwner, Leave
<1>3. ASSUME NEW t \in Lockers, DeleteKey(t) PROVE AtWorkHoldsLease'
  <2>1. \A u \in Lockers : stage'[u] # "out" => u # t /\ stage[u] # "out"
    BY <1>3 DEF DeleteKey, Leave
  <2>2. \A u \in Lockers \ {t} : u \in overran \cup robbed \/ lease = u
                                   => u \in overran' \cup robbed'
    BY <1>3 DEF DeleteKey, Leave
  <2>3. \A u \in Lockers : stage'[u] # "out" => u \in overran' \cup robbed'
    BY <2>1, <2>2
  (* The key deleted is another's only if the caller's own ran out before. *)
  <2>4. overran' \cup robbed' # {} => expiries > 0
    <3>1. CASE lease = t
      BY <1>3, <3>1 DEF DeleteKey, Leave
    <3>2. CASE lease # t
      <4>1. t \in overran \cup robbed
        BY <1>3, <3>2 DEF DeleteKey
      <4>. QED  BY <4>1
    <3>. QED  BY <3>1, <3>2
  <2>5. expiries' = expiries
    BY <1>3 DEF DeleteKey
  <2>. QED  BY <2>3, <2>4, <2>5
<1>4. ASSUME NEW t \in Lockers, Break(t) PROVE AtWorkHoldsLease'
  <2>1. \A u \in Lockers : stage'[u] # "out" /\ u \notin overran' \cup robbed'
          => u # t /\ lease = u
    BY <1>4 DEF Break, Leave
  <2>2. \A u \in Lockers : u # t /\ lease = u => lease' = u
    BY <1>4 DEF Break
  <2>3. overran' \cup robbed' # {} => expiries' > 0
    BY <1>4 DEF Break, Leave
  <2>. QED  BY <2>1, <2>2, <2>3
<1>5. CASE Expire
  <2>1. expiries' > 0
    BY <1>5 DEF Expire
  <2>2. \A u \in Lockers : stage'[u] # "out" => u \in overran' \cup robbed'
    BY <1>5 DEF Expire
  <2>. QED  BY <2>1, <2>2
<1>6. CASE UNCHANGED redisLockVars
  BY <1>6 DEF redisLockVars
<1>. QED  BY <1>1, <1>2, <1>3, <1>4, <1>5, <1>6 DEF RedisLockNext

(* src/kiwi/sync_queue.py 87-97, 217-226: a delivery at work holds the lock
   unless its TTL ran out or another's late DEL removed the key, and that DEL
   too needs an expiry before it: SET NX, GET and DEL alone never let two
   deliveries of a route overlap. *)
THEOREM AtWorkAlwaysHoldsLease == RedisLockSpec => []AtWorkHoldsLease
<1>1. RedisLockInit => AtWorkHoldsLease
  BY DEF RedisLockInit, AtWorkHoldsLease
<1>. QED  BY <1>1, RedisLockStepHolds, RedisLockTypeCorrect, PTL DEF RedisLockSpec

-------------------------------------------------------------------------------
(* The files and the guard runner the deliveries share. *)

(* A delivery that may still begin a download has an attempt left, and one that
   writes has opened its file. *)
AttemptsLeft ==
  \A d \in Deliveries : /\ at[d] \in {"new", "look"} => tries[d] = 0
                        /\ at[d] = "attempt" => tries[d] < Attempts
                        /\ at[d] = "write" => handle[d] \in written

WorkspaceShape ==
  /\ WorkspaceTypeOK /\ AttemptsLeft
  /\ printed \in [Deliveries -> Reasons \cup {NoReason}]

LEMMA NoFileIsNoInode == NoFile \notin Inodes
  BY DEF NoFile, Inodes

LEMMA InitWorkspaceShape == WorkspaceInit => WorkspaceShape
<1>. SUFFICES ASSUME WorkspaceInit PROVE WorkspaceShape
  OBVIOUS
<1>. USE WorkspaceAssumption DEF WorkspaceInit, Places
<1>1. /\ at \in [Deliveries -> Places] /\ tries \in [Deliveries -> 0..Attempts]
      /\ handle \in [Deliveries -> Inodes \cup {NoFile}]
      /\ file \in [Seconds -> Inodes \cup {NoFile}]
  OBVIOUS
<1>2. /\ seen \in [Deliveries -> {"nothing", "whole", "part", "missing"}]
      /\ printed \in [Deliveries -> Reasons \cup {NoReason}]
      /\ verdict \in [Deliveries -> Reasons \cup {NoReason}]
  OBVIOUS
<1>3. AttemptsLeft
  BY DEF AttemptsLeft
<1>. QED  BY <1>1, <1>2, <1>3 DEF WorkspaceShape, WorkspaceTypeOK

LEMMA StepWorkspaceShape ==
  ASSUME WorkspaceShape, [WorkspaceNext]_workspaceVars
  PROVE  WorkspaceShape'
<1>. USE WorkspaceAssumption
     DEF WorkspaceShape, WorkspaceTypeOK, AttemptsLeft, Move, Places, fileVars, cacheVars, guardVars
<1>1. ASSUME NEW d \in Deliveries, PrepareMessagePaths(d) PROVE WorkspaceShape'
  BY <1>1 DEF PrepareMessagePaths
<1>2. ASSUME NEW d \in Deliveries, Restore(d) PROVE WorkspaceShape'
  <2>1. /\ at' \in [Deliveries -> Places] /\ file' \in [Seconds -> Inodes \cup {NoFile}]
    BY <1>2 DEF Restore
  <2>2. /\ cached' \in Inodes \cup {NoFile} /\ expired' \in BOOLEAN
    BY <1>2 DEF Restore
  <2>3. UNCHANGED <<whole, written>>
    BY <1>2 DEF Restore
  <2>4. AttemptsLeft'
    BY <1>2, <2>3 DEF Restore
  <2>. QED  BY <1>2, <2>1, <2>2, <2>3, <2>4 DEF Restore
<1>3. ASSUME NEW d \in Deliveries, BeginAttempt(d) PROVE WorkspaceShape'
  BY <1>3 DEF BeginAttempt
<1>4. ASSUME NEW d \in Deliveries, OpenForWriting(d) PROVE WorkspaceShape'
  <2>1. PICK i \in Inodes : /\ handle' = [handle EXCEPT ![d] = i]
                            /\ file' = [file EXCEPT ![place[d]] = i]
                            /\ written' = written \cup {i}
                            /\ whole' = whole \ {i}
    BY <1>4 DEF OpenForWriting
  <2>. QED  BY <1>4, <2>1 DEF OpenForWriting
<1>5. ASSUME NEW d \in Deliveries, FinishDownload(d) PROVE WorkspaceShape'
  BY <1>5 DEF FinishDownload
<1>6. ASSUME NEW d \in Deliveries, FailDownload(d) PROVE WorkspaceShape'
  BY <1>6 DEF FailDownload, NextAttempt
<1>7. ASSUME NEW d \in Deliveries, SaveToCache(d) PROVE WorkspaceShape'
  BY <1>7 DEF SaveToCache
<1>8. ASSUME NEW d \in Deliveries, StartGuard(d) PROVE WorkspaceShape'
  BY <1>8 DEF StartGuard
<1>9. ASSUME NEW d \in Deliveries, Deny(d) \/ Allow(d) PROVE WorkspaceShape'
  <2>1. DenialReason(d) \in Reasons \cup {NoReason}
    BY DEF DenialReason
  <2>. QED  BY <1>9, <2>1 DEF Deny, Allow
<1>10. ASSUME NEW d \in Deliveries, ReadMedia(d) PROVE WorkspaceShape'
  BY <1>10 DEF ReadMedia
<1>11. CASE Age
  BY <1>11 DEF Age
<1>12. CASE UNCHANGED workspaceVars
  BY <1>12 DEF workspaceVars
<1>. QED  BY <1>1, <1>2, <1>3, <1>4, <1>5, <1>6, <1>7, <1>8, <1>9, <1>10, <1>11, <1>12
          DEF WorkspaceNext

(* What a file of the directory is worth, as far as its delivery has come. *)
HasItsFile(d) ==
  /\ at[d] = "request" => file[place[d]] = NoFile
  /\ at[d] = "write" => handle[d] = file[place[d]]
  /\ at[d] \in {"save", "guard", "judge", "read"} => file[place[d]] \in whole
  /\ seen[d] \in {"nothing", "whole"}

(* Of deliveries in directories of their own. *)
OwnFileInv ==
  ~Crowded =>
    /\ \A d \in Deliveries : HasItsFile(d)
    /\ cached # NoFile => cached \in whole

LEMMA CrowdedIsForGood ==
  ASSUME [WorkspaceNext]_workspaceVars
  PROVE  place' = place /\ Crowded' = Crowded
<1>1. place' = place
  BY DEF WorkspaceNext, workspaceVars, PrepareMessagePaths, Restore, BeginAttempt, OpenForWriting,
         FinishDownload, FailDownload, SaveToCache, StartGuard, Deny, Allow, ReadMedia, Age
<1>. QED  BY <1>1 DEF Crowded, Roommates

(* A step of d in a directory of its own: what it must show. *)
LEMMA OwnStep ==
  ASSUME WorkspaceShape, OwnFileInv, ~Crowded, place' = place, Crowded' = Crowded,
         NEW d \in Deliveries,
         \A e \in Deliveries \ {d} : /\ at'[e] = at[e] /\ handle'[e] = handle[e] /\ seen'[e] = seen[e]
                                     /\ file'[place[e]] = file[place[e]],
         whole \subseteq whole',
         HasItsFile(d)',
         cached' # NoFile => cached' \in whole'
  PROVE  OwnFileInv'
  BY DEF OwnFileInv, HasItsFile

LEMMA StepOwnFile ==
  ASSUME WorkspaceShape, OwnFileInv, [WorkspaceNext]_workspaceVars
  PROVE  OwnFileInv'
<1>. SUFFICES ASSUME ~Crowded PROVE OwnFileInv'
  BY CrowdedIsForGood DEF OwnFileInv
<1>0. /\ place' = place /\ Crowded' = Crowded
      /\ \A d, e \in Deliveries : place[d] = place[e] => d = e
  BY CrowdedIsForGood DEF Crowded, Roommates
<1>00. /\ \A d \in Deliveries : HasItsFile(d)
       /\ cached # NoFile => cached \in whole
  BY DEF OwnFileInv
<1>. USE NoFileIsNoInode DEF WorkspaceShape, WorkspaceTypeOK, Move, Places, fileVars, cacheVars, guardVars
<1>1. ASSUME NEW d \in Deliveries, PrepareMessagePaths(d) PROVE OwnFileInv'
  <2>1. HasItsFile(d)'
    BY <1>00, <1>0, <1>1 DEF PrepareMessagePaths, HasItsFile
  <2>. QED  BY <1>0, <1>00, <1>1, <2>1, OwnStep DEF PrepareMessagePaths
<1>2. ASSUME NEW d \in Deliveries, Restore(d) PROVE OwnFileInv'
  <2>1. HasItsFile(d)'
    BY <1>00, <1>0, <1>2 DEF Restore, HasItsFile
  <2>. QED  BY <1>0, <1>00, <1>2, <2>1, OwnStep DEF Restore
<1>3. ASSUME NEW d \in Deliveries, BeginAttempt(d) PROVE OwnFileInv'
  <2>1. HasItsFile(d)'
    BY <1>00, <1>0, <1>3 DEF BeginAttempt, HasItsFile
  <2>. QED  BY <1>0, <1>00, <1>3, <2>1, OwnStep DEF BeginAttempt
<1>4. ASSUME NEW d \in Deliveries, OpenForWriting(d) PROVE OwnFileInv'
  (* The name was removed, so the file is a new one, and none is cut. *)
  <2>1. PICK i \in Inodes : /\ i \notin written
                            /\ handle' = [handle EXCEPT ![d] = i]
                            /\ file' = [file EXCEPT ![place[d]] = i]
                            /\ whole' = whole \ {i}
    BY <1>00, <1>4 DEF OpenForWriting, HasItsFile
  <2>2. whole' = whole
    BY <2>1
  <2>3. HasItsFile(d)'
    BY <1>00, <1>0, <1>4, <2>1 DEF OpenForWriting, HasItsFile
  <2>. QED  BY <1>0, <1>00, <1>4, <2>1, <2>2, <2>3, OwnStep DEF OpenForWriting
<1>5. ASSUME NEW d \in Deliveries, FinishDownload(d) PROVE OwnFileInv'
  <2>1. HasItsFile(d)'
    BY <1>00, <1>0, <1>5 DEF FinishDownload, HasItsFile
  <2>. QED  BY <1>0, <1>00, <1>5, <2>1, OwnStep DEF FinishDownload
<1>6. ASSUME NEW d \in Deliveries, FailDownload(d) PROVE OwnFileInv'
  <2>1. HasItsFile(d)'
    BY <1>00, <1>0, <1>6 DEF FailDownload, NextAttempt, HasItsFile
  <2>. QED  BY <1>0, <1>00, <1>6, <2>1, OwnStep DEF FailDownload
<1>7. ASSUME NEW d \in Deliveries, SaveToCache(d) PROVE OwnFileInv'
  <2>1. HasItsFile(d)'
    BY <1>00, <1>0, <1>7 DEF SaveToCache, HasItsFile
  <2>2. cached' # NoFile => cached' \in whole'
    BY <1>00, <1>7 DEF SaveToCache, HasItsFile
  <2>. QED  BY <1>0, <1>00, <1>7, <2>1, <2>2, OwnStep DEF SaveToCache
<1>8. ASSUME NEW d \in Deliveries, StartGuard(d) PROVE OwnFileInv'
  <2>1. HasItsFile(d)'
    BY <1>00, <1>0, <1>8 DEF StartGuard, HasItsFile
  <2>. QED  BY <1>0, <1>00, <1>8, <2>1, OwnStep DEF StartGuard
<1>9. ASSUME NEW d \in Deliveries, Deny(d) \/ Allow(d) PROVE OwnFileInv'
  <2>1. HasItsFile(d)'
    BY <1>00, <1>0, <1>9 DEF Deny, Allow, HasItsFile
  <2>. QED  BY <1>0, <1>00, <1>9, <2>1, OwnStep DEF Deny, Allow
<1>10. ASSUME NEW d \in Deliveries, ReadMedia(d) PROVE OwnFileInv'
  <2>1. seen'[d] = "whole"
    BY <1>00, <1>10 DEF ReadMedia, HasItsFile
  <2>2. HasItsFile(d)'
    BY <1>00, <1>0, <1>10, <2>1 DEF ReadMedia, HasItsFile
  <2>. QED  BY <1>0, <1>00, <1>10, <2>2, OwnStep DEF ReadMedia
<1>11. CASE Age \/ UNCHANGED workspaceVars
  BY <1>0, <1>00, <1>11 DEF Age, workspaceVars, OwnFileInv, HasItsFile
<1>. QED  BY <1>1, <1>2, <1>3, <1>4, <1>5, <1>6, <1>7, <1>8, <1>9, <1>10, <1>11
          DEF WorkspaceNext

(* A denial takes what its own guard printed, and nothing changes it afterwards. *)
LEMMA StepOwnReason ==
  ASSUME WorkspaceShape, BlockedForOwnReason, [WorkspaceNext]_workspaceVars
  PROVE  BlockedForOwnReason'
<1>. USE DEF WorkspaceShape, WorkspaceTypeOK, BlockedForOwnReason, Move, guardVars
<1>1. ASSUME NEW d \in Deliveries, Deny(d) PROVE BlockedForOwnReason'
  BY <1>1 DEF Deny, DenialReason
<1>2. ASSUME NEW d \in Deliveries, StartGuard(d) PROVE BlockedForOwnReason'
  BY <1>2 DEF StartGuard
<1>3. ASSUME NEW d \in Deliveries,
             \/ PrepareMessagePaths(d) \/ Restore(d) \/ BeginAttempt(d) \/ OpenForWriting(d)
             \/ FinishDownload(d) \/ FailDownload(d) \/ SaveToCache(d) \/ Allow(d) \/ ReadMedia(d)
      PROVE BlockedForOwnReason'
  <2>0. NextAttempt(d) # "blocked"
    BY DEF NextAttempt
  <2>1. UNCHANGED <<printed, verdict>>
    BY <1>3 DEF PrepareMessagePaths, Restore, BeginAttempt, OpenForWriting, FinishDownload,
               FailDownload, SaveToCache, Allow, ReadMedia
  <2>2. \A e \in Deliveries : at'[e] = "blocked" => at[e] = "blocked"
    BY <1>3, <2>0 DEF PrepareMessagePaths, Restore, BeginAttempt, OpenForWriting, FinishDownload,
               FailDownload, SaveToCache, Allow, ReadMedia
  <2>. QED  BY <2>1, <2>2
<1>4. CASE Age \/ UNCHANGED workspaceVars
  BY <1>4 DEF Age, workspaceVars
<1>. QED  BY <1>1, <1>2, <1>3, <1>4 DEF WorkspaceNext

(* src/kiwi/service.py 1149-1356, src/kiwi/storage.py 15-30, src/kiwi/guard_runner.py
   25-218: however many deliveries of a message share the media cache and the
   guard runner, and however many of their downloads fail or time out, none reads
   or caches a truncated file unless two share a directory, and none is recorded
   as blocked for what another's guard printed. *)
THEOREM NothingEverLeaks == WorkspaceSpec => []NothingLeaks
<1>1. WorkspaceInit => WorkspaceShape /\ OwnFileInv /\ BlockedForOwnReason
  BY InitWorkspaceShape DEF WorkspaceInit, OwnFileInv, HasItsFile, BlockedForOwnReason
<1>2. WorkspaceShape /\ OwnFileInv /\ BlockedForOwnReason /\ [WorkspaceNext]_workspaceVars
        => (WorkspaceShape /\ OwnFileInv /\ BlockedForOwnReason)'
  BY StepWorkspaceShape, StepOwnFile, StepOwnReason
<1>3. WorkspaceShape /\ OwnFileInv /\ BlockedForOwnReason => NothingLeaks
  BY DEF WorkspaceShape, OwnFileInv, HasItsFile, NothingLeaks, ReadsWholeFile, CacheIsWhole
<1>. QED  BY <1>1, <1>2, <1>3, PTL DEF WorkspaceSpec
=================================================================================
