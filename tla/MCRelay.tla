------------------------------- MODULE MCRelay -------------------------------
(***************************************************************************)
(* A small instance of SyncWorker for TLC: one route with a message m1, an *)
(* album whose members are 2 and 3, and a message m4; two workers.         *)
(***************************************************************************)
EXTENDS SyncWorker, TLC

CONSTANTS m1, album, m4, w1, w2, route

MCRoutes == {route}
MCRouteOf == [k \in Keys |-> route]
MCId == [k \in Keys |-> CASE k = m1 -> 1 [] k = album -> 3 [] k = m4 -> 4]
MCFirst == [k \in Keys |-> IF k = album THEN 2 ELSE MCId[k]]

MCWorkers == {w1, w2}

\* The workers are interchangeable: no definition distinguishes them.
MCSymmetry == Permutations(MCWorkers)
===============================================================================
