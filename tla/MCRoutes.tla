------------------------------- MODULE MCRoutes -------------------------------
(***************************************************************************)
(* Small instances of the two ways an operator's call meets the running    *)
(* service, side by side: the channels file and a forced synchronisation.  *)
(* They do not touch each other, so a behaviour runs one of them.          *)
(***************************************************************************)
EXTENDS RouteConfig, ForceSync

CONSTANT MaxCalls \* bound: how many calls change the channels file

VARIABLES
  part, \* what runs
  calls \* how many calls have begun

\* One request; one of a failure, an unclear outcome, an expired lock, a failed seed and
\* a time-out.
MCBudget == [force |-> 1, fault |-> 1]

CallBegins == \E c \in Callers : pc[c] = "idle" /\ pc'[c] = "loaded"

ConfigStep ==
  /\ part = "config" /\ ConfigNext /\ UNCHANGED forceVars
  /\ calls' = IF CallBegins THEN calls + 1 ELSE calls
  /\ calls' <= MaxCalls

ForceStep == part = "force" /\ ForceNext /\ UNCHANGED <<configVars, calls>>

RoutesInit ==
  /\ ConfigInit /\ ForceInit
  /\ part \in {"config", "force"} /\ calls = 0
  /\ part = "config" => checkpoint = 0
  /\ part = "force" => \A r \in Routes : file[r].status = "synced"

RoutesSpec ==
  /\ RoutesInit
  /\ [][UNCHANGED part /\ (ConfigStep \/ ForceStep)]_<<part, calls, configVars, forceVars>>
  /\ ForceFairness
===============================================================================
