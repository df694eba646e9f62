------------------------------- MODULE MCIntake -------------------------------
(***************************************************************************)
(* A small instance of SourceIntake: messages 1 and 4 and an album of 2    *)
(* and 3; a poll reads two messages, so it may cut the album.              *)
(***************************************************************************)
EXTENDS SourceIntake, TLC

CONSTANTS r1, r2

\* Two troubles of different kinds, or a stop and a start.
MCBudgets == {b \in [{"crash", "fault", "operator"} -> 0..2] :
                b.crash < 2 /\ b.fault < 2 /\ b.crash + b.fault + b.operator = 2}
MCBackfill == [r \in Routes |-> IF r = r1 THEN 0 ELSE 2]
===============================================================================
