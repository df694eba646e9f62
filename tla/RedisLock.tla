------------------------------- MODULE RedisLock -------------------------------
(***************************************************************************)
(* The route lock of RedisSyncQueue (src/kiwi/sync_queue.py): SET NX EX to *)
(* acquire; to release, a GET and then, if the answer was the caller's own *)
(* uuid, a DEL. Redis drops the key when its TTL (SYNC_LOCK_TTL_SEC) runs  *)
(* out, whatever its owner is doing.                                       *)
(***************************************************************************)
EXTENDS Naturals, FiniteSets

CONSTANTS
  Lockers,   \* the deliveries that want the lock of one route
  Nobody,    \* the key is not set
  DeadOwner, \* the key holds the uuid of a delivery that is gone
  ExpiryCap, \* bound: how often the TTL runs out
  BreakCap   \* bound: deliveries that end without releasing

ASSUME RedisLockAssumption ==
  /\ Nobody \notin Lockers /\ DeadOwner \notin Lockers /\ Nobody # DeadOwner
  /\ ExpiryCap \in Nat /\ BreakCap \in Nat

VARIABLES
  lease,   \* the lock's key in Redis
  stage,   \* stage[t]: "out", "in" its delivery, or "leaving": it saw its own uuid
  overran, \* the deliveries whose TTL ran out under them (a history)
  robbed,  \* the deliveries whose key another's DEL removed (a history)
  expiries, breaks

redisLockVars == <<lease, stage, overran, robbed, expiries, breaks>>

RedisLockTypeOK ==
  /\ lease \in Lockers \cup {Nobody, DeadOwner}
  /\ stage \in [Lockers -> {"out", "in", "leaving"}]
  /\ overran \subseteq Lockers /\ robbed \subseteq Lockers
  /\ expiries \in 0..ExpiryCap /\ breaks \in 0..BreakCap

RedisLockInit ==
  /\ lease = Nobody
  /\ stage = [t \in Lockers |-> "out"]
  /\ overran = {} /\ robbed = {}
  /\ expiries = 0 /\ breaks = 0

\* Bug: SET without NX.
AcquireLeaseOver(t) ==
  /\ stage[t] = "out"
  /\ lease' = t
  /\ stage' = [stage EXCEPT ![t] = "in"]
  /\ UNCHANGED <<overran, robbed, expiries, breaks>>

\* SET NX EX.
AcquireLease(t) ==
  /\ stage[t] = "out" /\ lease = Nobody
  /\ lease' = t
  /\ stage' = [stage EXCEPT ![t] = "in"]
  /\ UNCHANGED <<overran, robbed, expiries, breaks>>

Leave(t) ==
  /\ stage' = [stage EXCEPT ![t] = "out"]
  /\ overran' = overran \ {t}

\* GET: a key that is not the caller's own is left alone ...
ReadOwner(t) ==
  /\ stage[t] = "in"
  /\ \/ /\ lease = t
        /\ stage' = [stage EXCEPT ![t] = "leaving"] /\ UNCHANGED <<overran, robbed>>
     \/ /\ lease # t
        /\ Leave(t) /\ robbed' = robbed \ {t}
  /\ UNCHANGED <<lease, expiries, breaks>>

\* ... and DEL removes the key, whoever holds it by now.
DeleteKey(t) ==
  /\ stage[t] = "leaving"
  /\ lease' = Nobody
  /\ robbed' = (robbed \cup (Lockers \cap {lease})) \ {t}
  /\ Leave(t)
  /\ UNCHANGED <<expiries, breaks>>

Expire ==
  /\ lease # Nobody /\ expiries < ExpiryCap
  /\ lease' = Nobody
  /\ overran' = overran \cup (Lockers \cap {lease})
  /\ expiries' = expiries + 1
  /\ UNCHANGED <<stage, robbed, breaks>>

\* The delivery's process dies, or a round trip of the release raises: the key
\* stays until its TTL runs out.
Break(t) ==
  /\ stage[t] # "out" /\ breaks < BreakCap
  /\ breaks' = breaks + 1
  /\ Leave(t) /\ robbed' = robbed \ {t}
  /\ lease' = IF lease = t THEN DeadOwner ELSE lease
  /\ UNCHANGED expiries

RedisLockNext ==
  \/ \E t \in Lockers : AcquireLease(t) \/ ReadOwner(t) \/ DeleteKey(t) \/ Break(t)
  \/ Expire

RedisLockSpec == RedisLockInit /\ [][RedisLockNext]_redisLockVars

-----------------------------------------------------------------------------
\* A delivery that is at work holds the lock, unless its TTL ran out under it or
\* a late DEL of another removed its key; and no key is removed by another before
\* some TTL has run out. So two deliveries of a route are at work together only
\* after an expiry, never through an interleaving of SET NX, GET and DEL alone.
AtWorkHoldsLease ==
  /\ \A t \in Lockers : stage[t] # "out" /\ t \notin overran \cup robbed => lease = t
  /\ overran \cup robbed # {} => expiries > 0
===============================================================================
