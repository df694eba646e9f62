------------------------------ MODULE RedisQueue ------------------------------
(***************************************************************************)
(* RedisSyncQueue of src/kiwi/sync_queue.py, one action per round trip to  *)
(* Redis: between two of them any other caller may run. A pipeline is one  *)
(* MULTI/EXEC and is atomic.                                               *)
(*                                                                         *)
(* Callers enqueue (a new row, a retry, a hydration, a start of a route),  *)
(* one drain pops, and a forced re-sync purges a route. Times are small    *)
(* numbers. Module SyncQueue is the queue as the engine sees it: a set of  *)
(* keys that only a pop or a purge makes smaller.                          *)
(***************************************************************************)
EXTENDS Integers, FiniteSets

CONSTANTS
  Entries,     \* the dedupe keys
  RouteOfEntry,\* the route of each key
  Callers,     \* the tasks that enqueue
  Horizon,     \* the last moment of the clock
  Take,        \* pop_due's limit
  RequestCap,  \* bound: how often anything is enqueued
  PurgeCap,    \* bound: how often a route is purged
  FaultCap     \* bound: failed round trips and crashes

ASSUME RedisQueueAssumption ==
  /\ Horizon \in Nat /\ Take \in Nat \ {0}
  /\ RequestCap \in Nat /\ PurgeCap \in Nat /\ FaultCap \in Nat

Time == 0..Horizon
Never == Horizon + 1   \* no due time: the key is not in the sorted set

VARIABLES
  due,     \* the sorted set: due[k] = Never for a key it does not hold
  named,   \* the keys with fields in the route and payload hashes
  asking,  \* asking[c]: what caller c is enqueueing, and the score it has read
  drain,   \* the drain's pop_due: its time, the member in hand, and its result
  purge,   \* the purge under way: its route, what was there when it began, its matches
  clock,
  asked,   \* earliest time asked for since the key was last handed out (a history)
  raced,   \* the keys whose score was overwritten unread (a history)
  budget   \* what is left of the bounds

redisQueueVars == <<due, named, asking, drain, purge, clock, asked, raced, budget>>

Resting == [at |-> "rest"]
NoHand == [key |-> {}, score |-> Never]
IdleDrain == [on |-> FALSE, now |-> 0, hand |-> NoHand, out |-> {}]
IdlePurge == [at |-> "rest", route |-> {}, began |-> {}, matched |-> {}]

RedisQueueTypeOK ==
  /\ due \in [Entries -> 0..Never]
  /\ named \subseteq Entries
  /\ \A c \in Callers :
       asking[c] = Resting
         \/ (asking[c].at = "write" /\ asking[c].key \in Entries
               /\ asking[c].score \in Time /\ asking[c].read \in 0..Never)
  /\ drain.now \in Time /\ drain.out \subseteq Entries /\ drain.hand.key \subseteq Entries
  /\ purge.matched \subseteq Entries
  /\ clock \in Time
  /\ asked \in [Entries -> 0..Never]
  /\ raced \subseteq Entries

RedisQueueInit ==
  /\ due = [k \in Entries |-> Never]
  /\ named = {}
  /\ asking = [c \in Callers |-> Resting]
  /\ drain = IdleDrain
  /\ purge = IdlePurge
  /\ clock = 0
  /\ asked = [k \in Entries |-> Never]
  /\ raced = {}
  /\ budget = [request |-> RequestCap, purge |-> PurgeCap, fault |-> FaultCap]

Least(a, b) == IF a <= b THEN a ELSE b

\* The queue owes k since a call that has returned (or only has fields to write).
Promise(k, t) == asked' = [asked EXCEPT ![k] = Least(@, t)]

Spend(what) == budget[what] > 0 /\ budget' = [budget EXCEPT ![what] = @ - 1]

-----------------------------------------------------------------------------
\* enqueue and schedule_retry read the score first ...
ReadScore(c, k, t) ==
  /\ asking[c] = Resting
  /\ Spend("request")
  /\ asking' = [asking EXCEPT ![c] = [at |-> "write", key |-> k, score |-> t, read |-> due[k]]]
  /\ IF due[k] <= t THEN Promise(k, t) ELSE UNCHANGED asked
  /\ UNCHANGED <<due, named, drain, purge, clock, raced>>

\* Bug: the comparison is the wrong way round.
KeepsLaterScore(a) == a.read # Never /\ a.read >= a.score

\* ... and leave it alone if it is as early, by what was read.
KeepsScore(a) == a.read # Never /\ a.read <= a.score

WriteFields(c) ==
  /\ asking[c].at = "write" /\ KeepsScore(asking[c])
  /\ named' = named \cup {asking[c].key}
  /\ asking' = [asking EXCEPT ![c] = Resting]
  /\ UNCHANGED <<due, drain, purge, clock, asked, raced, budget>>

\* Bug: only the sorted set is written.
WriteScoreOnly(c) ==
  LET a == asking[c] IN
  /\ a.at = "write" /\ ~KeepsScore(a)
  /\ due' = [due EXCEPT ![a.key] = a.score]
  /\ raced' = IF due[a.key] = a.read /\ drain.hand.key # {a.key} THEN raced ELSE raced \cup {a.key}
  /\ Promise(a.key, a.score)
  /\ asking' = [asking EXCEPT ![c] = Resting]
  /\ UNCHANGED <<named, drain, purge, clock, budget>>

WriteScore(c) ==
  LET a == asking[c] IN
  /\ a.at = "write" /\ ~KeepsScore(a)
  /\ due' = [due EXCEPT ![a.key] = a.score]
  /\ named' = named \cup {a.key}
  /\ raced' = IF due[a.key] = a.read /\ drain.hand.key # {a.key} THEN raced ELSE raced \cup {a.key}
  /\ Promise(a.key, a.score)
  /\ asking' = [asking EXCEPT ![c] = Resting]
  /\ UNCHANGED <<drain, purge, clock, budget>>

-----------------------------------------------------------------------------
\* Bug: the drain keeps the time of its first call.
StartPopStale ==
  /\ ~drain.on
  /\ drain' = [IdleDrain EXCEPT !.on = TRUE, !.now = 0]
  /\ UNCHANGED <<due, named, asking, purge, clock, asked, raced, budget>>

\* pop_due is called with the time of the call.
StartPop ==
  /\ ~drain.on
  /\ drain' = [IdleDrain EXCEPT !.on = TRUE, !.now = clock]
  /\ UNCHANGED <<due, named, asking, purge, clock, asked, raced, budget>>

\* ZPOPMIN: the member with the lowest score, whatever that is. If that is due,
\* the entry is the drain's from here on: nothing is owed any more.
PopMin(k) ==
  /\ drain.on /\ drain.hand = NoHand /\ Cardinality(drain.out) < Take
  /\ due[k] # Never /\ \A l \in Entries : due[k] <= due[l]
  /\ drain' = [drain EXCEPT !.hand = [key |-> {k}, score |-> due[k]]]
  /\ due' = [due EXCEPT ![k] = Never]
  /\ IF due[k] <= drain.now
     THEN asked' = [asked EXCEPT ![k] = Never] /\ raced' = raced \ {k}
     ELSE UNCHANGED <<asked, raced>>
  /\ UNCHANGED <<named, asking, purge, clock, budget>>

\* Bug: an entry that is not due is not put back.
PutBackForgotten ==
  /\ drain.hand # NoHand /\ drain.hand.score > drain.now
  /\ drain' = IdleDrain
  /\ UNCHANGED <<due, named, asking, purge, clock, asked, raced, budget>>

\* Not due yet: ZADD puts it back, over whatever is there now, and the call ends.
PutBack ==
  /\ drain.hand # NoHand /\ drain.hand.score > drain.now
  /\ due' = [k \in Entries |-> IF k \in drain.hand.key THEN drain.hand.score ELSE due[k]]
  /\ raced' = raced \cup {k \in drain.hand.key : due[k] # Never}
  /\ drain' = IdleDrain
  /\ UNCHANGED <<named, asking, purge, clock, asked, budget>>

\* Due: the hashes are read and it joins the result.
TakeOut ==
  /\ drain.hand # NoHand /\ drain.hand.score <= drain.now
  /\ drain' = [drain EXCEPT !.hand = NoHand, !.out = @ \cup drain.hand.key]
  /\ UNCHANGED <<due, named, asking, purge, clock, asked, raced, budget>>

ReturnDue ==
  /\ drain.on /\ drain.hand = NoHand
  /\ Cardinality(drain.out) = Take \/ \A k \in Entries : due[k] = Never
  /\ drain' = IdleDrain
  /\ UNCHANGED <<due, named, asking, purge, clock, asked, raced, budget>>

-----------------------------------------------------------------------------
\* purge_route walks the route hash with HSCAN: what is there all along is seen,
\* what comes or goes meanwhile may be.
StartPurge(r) ==
  /\ purge = IdlePurge
  /\ Spend("purge")
  /\ purge' = [IdlePurge EXCEPT !.at = "scan", !.route = {r}, !.began = named]
  /\ UNCHANGED <<due, named, asking, drain, clock, asked, raced>>

EndScan ==
  /\ purge.at = "scan"
  /\ \E seen \in SUBSET (purge.began \cup named) :
       /\ purge.began \cap named \subseteq seen
       /\ purge' = [purge EXCEPT !.at = "delete",
                                 !.matched = {k \in seen : RouteOfEntry[k] \in purge.route}]
  /\ UNCHANGED <<due, named, asking, drain, clock, asked, raced, budget>>

Purge ==
  /\ purge.at = "delete"
  /\ due' = [k \in Entries |-> IF k \in purge.matched THEN Never ELSE due[k]]
  /\ named' = named \ purge.matched
  /\ asked' = [k \in Entries |-> IF k \in purge.matched THEN Never ELSE asked[k]]
  /\ raced' = raced \cup {k \in purge.matched : k \in drain.hand.key}
  /\ purge' = IdlePurge
  /\ UNCHANGED <<asking, drain, clock, budget>>

-----------------------------------------------------------------------------
Tick ==
  /\ clock < Horizon
  /\ clock' = clock + 1
  /\ UNCHANGED <<due, named, asking, drain, purge, asked, raced, budget>>

\* A round trip of enqueue raises: nothing was written.
EnqueueFails(c) ==
  /\ asking[c] # Resting /\ Spend("fault")
  /\ asking' = [asking EXCEPT ![c] = Resting]
  /\ UNCHANGED <<due, named, drain, purge, clock, asked, raced>>

\* A round trip of pop_due raises, or the drain's time-out cancels it: the
\* member in hand and the result so far are gone from Redis and reach nobody.
PopFails ==
  /\ drain.on /\ Spend("fault")
  /\ drain' = IdleDrain
  /\ asked' = [k \in Entries |->
                 IF k \in drain.hand.key /\ due[k] = Never THEN Never ELSE asked[k]]
  /\ UNCHANGED <<due, named, asking, purge, clock, raced>>

RedisQueueNext ==
  \/ \E c \in Callers, k \in Entries, t \in Time : ReadScore(c, k, t)
  \/ \E c \in Callers : WriteFields(c) \/ WriteScore(c) \/ EnqueueFails(c)
  \/ StartPop \/ (\E k \in Entries : PopMin(k)) \/ PutBack \/ TakeOut \/ ReturnDue
  \/ (\E r \in {RouteOfEntry[k] : k \in Entries} : StartPurge(r)) \/ EndScan \/ Purge
  \/ Tick \/ PopFails

-----------------------------------------------------------------------------
\* The worker loop ticks the drain for ever, and time passes.
RedisQueueFairness ==
  /\ WF_redisQueueVars(StartPop)
  /\ WF_redisQueueVars((\E k \in Entries : PopMin(k)) \/ PutBack \/ TakeOut \/ ReturnDue)
  /\ WF_redisQueueVars(Tick)

RedisQueueSpec == RedisQueueInit /\ [][RedisQueueNext]_redisQueueVars

\* What was asked for and neither handed out nor purged is in the sorted set or
\* in the drain's hands: no interleaving of the round trips loses an entry
\* (enqueue, pop_due, purge_route).
NothingOwedIsLost ==
  \A k \in Entries :
    asked[k] # Never =>
      due[k] # Never \/ (k \in drain.hand.key /\ drain.hand.score > drain.now)

\* An entry is due no later than the earliest time anybody asked for ("Keep
\* earliest due time"), unless its score was overwritten unread: by an enqueue
\* whose reading was stale or met the entry in the drain's hand, or by the
\* drain that puts an entry back.
DelayedOnlyByRace ==
  \A k \in Entries :
    asked[k] # Never /\ k \notin raced =>
      \/ due[k] <= asked[k]
      \/ k \in drain.hand.key /\ drain.hand.score <= asked[k]

\* Every entry can be found by the next purge of its route (purge_route looks in
\* the route hash, not in the sorted set), unless the drain put it back after a
\* purge had removed its fields.
UnfindableOnlyAfterRace ==
  \A k \in Entries : due[k] # Never /\ k \notin raced => k \in named

\* An entry that no such race has met is exactly what was asked for: due in time, and
\* known to the purge.
DamageOnlyByRace == DelayedOnlyByRace /\ UnfindableOnlyAfterRace

\* What is owed is handed out, as long as the worker loop runs: neither the
\* race for the score nor an entry put back keeps it in the set for ever.
OwedIsHandedOut ==
  \A k \in Entries : asked[k] # Never ~> asked[k] = Never

===============================================================================
