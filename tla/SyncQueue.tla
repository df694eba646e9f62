------------------------------- MODULE SyncQueue -------------------------------
(***************************************************************************)
(* The due queue and the route locks of src/kiwi/sync_queue.py, as one     *)
(* operator per backend operation, each atomic: that is what               *)
(* InMemorySyncQueue gives, under its asyncio lock.                        *)
(*                                                                         *)
(* Time is not kept: an entry may be due or not at any moment, and a lock  *)
(* may outlive its owner until its TTL runs out.                           *)
(***************************************************************************)
EXTENDS Integers, FiniteSets

CONSTANTS
  Owners,  \* those who may hold a route lock
  Free,    \* the value of a lock nobody holds
  Orphan   \* the value of a lock whose owner is gone and whose TTL still runs

ASSUME OwnersAssumption == Free \notin Owners /\ Orphan \notin Owners /\ Free # Orphan

VARIABLES
  queue,    \* the keys with an entry in the due queue
  routeLock \* routeLock[r]: the owner of the lock of route r

queueVars == <<queue, routeLock>>

QueueTypeOK(RouteNames, EntryKeys) ==
  /\ queue \subseteq EntryKeys
  /\ routeLock \in [RouteNames -> Owners \cup {Free, Orphan}]

QueueInit(RouteNames) ==
  /\ queue = {}
  /\ routeLock = [r \in RouteNames |-> Free]

\* enqueue and schedule_retry: one entry per key, the earliest due time wins.
Enqueue(K) == queue' = queue \cup K

\* Bug: the lock is set without NX.
CanAlwaysAcquire(r) == r \in DOMAIN routeLock

\* acquire_route_lock succeeds on a free (or run-out) lock and fails on one
\* somebody else holds: every caller owns a fresh uuid.
CanAcquire(r) == routeLock[r] = Free

AcquireRouteLock(r, o) == routeLock' = [routeLock EXCEPT ![r] = o]

\* release_route_lock only removes the caller's own lock.
ReleaseRouteLock(r, o) ==
  routeLock' = [routeLock EXCEPT ![r] = IF @ = o THEN Free ELSE @]
===============================================================================
