----------------------------- MODULE OrderedRelay -----------------------------
(***************************************************************************)
(* What the relay promises about one route's messages, without queue,      *)
(* lock, workers or operator: a message is accepted once, while it is      *)
(* above the route's horizon (the checkpoint); it is worked on or parked;  *)
(* a message once closed (sent or blocked) stays closed; and the horizon   *)
(* never moves back and never passes a message that is being worked on.    *)
(*                                                                         *)
(* A parked message (it failed, or its delivery is in doubt) lets the      *)
(* others of its route pass.                                               *)
(***************************************************************************)
EXTENDS Integers

CONSTANTS Routes, Keys, RouteOf, Id

VARIABLES
  phase,  \* of each message: new, open, parked or closed
  horizon \* of each route

relayVars == <<phase, horizon>>

RelayInit ==
  /\ phase = [k \in Keys |-> "new"]
  /\ horizon = [r \in Routes |-> 0]

Accept(k) ==
  /\ phase[k] = "new"
  /\ horizon[RouteOf[k]] < Id[k]
  /\ phase' = [phase EXCEPT ![k] = "open"]
  /\ UNCHANGED horizon

\* One message fails, or several that a crash left behind are found.
Park(K) ==
  /\ \A k \in K : phase[k] = "open"
  /\ phase' = [k \in Keys |-> IF k \in K THEN "parked" ELSE phase[k]]
  /\ UNCHANGED horizon

Resume(k) ==
  /\ phase[k] = "parked"
  /\ phase' = [phase EXCEPT ![k] = "open"]
  /\ UNCHANGED horizon

\* The message is refused: the others of its route are not affected.
Refuse(k) ==
  /\ phase[k] \in {"open", "parked"}
  /\ phase' = [phase EXCEPT ![k] = "closed"]
  /\ UNCHANGED horizon

\* The message is dealt with, and the horizon may move up to it if no other
\* open message lies between.
Conclude(k, n) ==
  /\ phase[k] = "open"
  /\ \A j \in Keys \ {k} :
       RouteOf[j] = RouteOf[k] /\ phase[j] = "open"
         => Id[j] <= horizon[RouteOf[k]] \/ n < Id[j]
  /\ phase' = [phase EXCEPT ![k] = "closed"]
  /\ horizon' = [horizon EXCEPT ![RouteOf[k]] = IF n > @ THEN n ELSE @]

RelayNext ==
  \/ \E k \in Keys : Accept(k) \/ Resume(k) \/ Refuse(k)
  \/ \E K \in SUBSET Keys : Park(K)
  \/ \E k \in Keys : \E n \in 0..Id[k] : Conclude(k, n)

RelaySpec == RelayInit /\ [][RelayNext]_relayVars
===============================================================================
