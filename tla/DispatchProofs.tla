---------------------------- MODULE DispatchProofs ----------------------------
(***************************************************************************)
(* Proofs about Dispatch.  A step is a step of one delivery, and all that  *)
(* it shares with the others is the list of ids: what is proved of a       *)
(* delivery is proved for its own steps and framed for those of the others.*)
(***************************************************************************)
EXTENDS Dispatch, TLAPS

LEMMA Constants ==
  /\ \A t \in Tasks : Len(Outputs[t]) \in Nat
  /\ Retries \in Nat
  /\ MessageTries \in Nat /\ MessageTries > 1
  /\ FileTries \in Nat /\ FileTries > 1
<1>1. \A t \in Tasks : Len(Outputs[t]) \in Nat
  <2>1. \A t \in Tasks : Outputs[t] \in Seq([kind : Kinds, missing : BOOLEAN,
                                            link : BOOLEAN, markup : BOOLEAN])
    BY DispatchAssumption DEF DispatchAssumption
  <2>. QED  BY <2>1
<1>2. MessageTries \in Nat /\ MessageTries > 1 /\ FileTries \in Nat /\ FileTries > 1
  BY DispatchAssumption DEF DispatchAssumption
<1>3. Retries \in Nat
  BY DispatchAssumption DEF DispatchAssumption
<1>. QED  BY <1>1, <1>2, <1>3

\* An attempt that will be repeated is not the last one.
PauseInv == \A t \in Tasks : pc[t] = "pause" => attempt[t] <= Retries

TypeInv == TypeOK /\ PauseInv

LEMMA InitType == Init => TypeInv
BY Constants DEF Init, TypeInv, TypeOK, PauseInv, NoOutcome, Awaits, Requesting,
                 Statuses, Errors, Ids

\* The operators of which several actions are built.
LEMMA ConcludeType ==
  ASSUME TypeInv, NEW t \in Tasks, pc[t] # "settled", NEW s, NEW e, Conclude(t, s, e),
         s \in Statuses \ {"none"}, e \in Errors
  PROVE  /\ pc' \in [Tasks -> Awaits]
         /\ pc' = [pc EXCEPT ![t] = pc'[t]]
         /\ pc'[t] \in {"pause", "settled"}
         /\ outcome' \in [Tasks -> [status : Statuses, error : Errors]]
         /\ outcome' = [outcome EXCEPT ![t] = outcome'[t]]
         /\ outcome'[t] = NoOutcome <=> pc'[t] # "settled"
         /\ pc'[t] = "pause" => attempt'[t] <= Retries
         /\ UNCHANGED <<attempt, idx, last, req>>
<1>1. Returned(s, e) \in [status : Statuses, error : Errors]
  BY DEF Returned, Statuses, Errors
<1>2. Returned(s, e) # NoOutcome
  BY DEF Returned, NoOutcome
<1>3. attempt[t] \in 1..(Retries + 1) /\ outcome[t] = NoOutcome
  BY DEF TypeInv, TypeOK
<1>4. CASE TriesAgain(t, s, e)
  BY <1>3, <1>4 DEF Conclude, Goto, TriesAgain, requestVars, TypeInv, TypeOK, Awaits
<1>5. CASE ~TriesAgain(t, s, e)
  <2>1. pc' = [pc EXCEPT ![t] = "settled"]
    BY <1>5 DEF Conclude, Goto
  <2>2. outcome' = [outcome EXCEPT ![t] = Returned(s, e)]
    BY <1>5 DEF Conclude
  <2>3. outcome' \in [Tasks -> [status : Statuses, error : Errors]]
    <3>. DEFINE Results == [status : Statuses, error : Errors]
    <3>1. outcome \in [Tasks -> Results] /\ Returned(s, e) \in Results
      BY <1>1 DEF TypeInv, TypeOK
    <3>. HIDE DEF Results
    <3>2. outcome' \in [Tasks -> Results]
      BY <2>2, <3>1
    <3>. QED  BY <3>2 DEF Results
  <2>4. outcome'[t] = Returned(s, e) /\ pc'[t] = "settled"
    BY <2>1, <2>2 DEF TypeInv, TypeOK
  <2>5. pc' \in [Tasks -> Awaits]
    BY <2>1 DEF TypeInv, TypeOK, Awaits
  <2>. QED  BY <1>2, <2>1, <2>2, <2>3, <2>4, <2>5 DEF Conclude, requestVars
<1>. QED  BY <1>4, <1>5

\* A step of delivery t: it leaves the control state of the others alone, and
\* that of t well typed.
Requests == [part : {"main", "fallback", "markup"},
             try : 1..(MessageTries + FileTries),
             formatted : BOOLEAN,
             error : AllAnswers \cup {"none"}]

ControlStep(t) ==
  /\ pc' \in [Tasks -> Awaits] /\ pc' = [pc EXCEPT ![t] = pc'[t]]
  /\ attempt' \in [Tasks -> 1..(Retries + 1)]
  /\ attempt' = [attempt EXCEPT ![t] = attempt'[t]]
  /\ idx' \in [Tasks -> Nat] /\ idx' = [idx EXCEPT ![t] = idx'[t]]
  /\ last' \in [Tasks -> Nat] /\ last' = [last EXCEPT ![t] = last'[t]]
  /\ req' \in [Tasks -> Requests] /\ req' = [req EXCEPT ![t] = req'[t]]
  /\ outcome' \in [Tasks -> [status : Statuses, error : Errors]]
  /\ outcome' = [outcome EXCEPT ![t] = outcome'[t]]
  /\ pc'[t] \in Requesting => /\ idx'[t] \in Positions(t)
                              /\ last'[t] \in idx'[t]..Len(Outputs[t])
  /\ outcome'[t] = NoOutcome <=> pc'[t] # "settled"
  /\ pc'[t] = "pause" => attempt'[t] <= Retries

HistoryStep(t) ==
  /\ trail' \in [Tasks -> Seq(Nat)] /\ trail' = [trail EXCEPT ![t] = trail'[t]]
  /\ confirmed' \in [Tasks -> SUBSET Nat]
  /\ confirmed' = [confirmed EXCEPT ![t] = confirmed'[t]]
  /\ unclear' \in [Tasks -> SUBSET Nat]
  /\ unclear' = [unclear EXCEPT ![t] = unclear'[t]]

IdsStep == collected' \subseteq Ids /\ reported' \in [Tasks -> SUBSET Ids]

LEMMA StepType ==
  ASSUME TypeInv, NEW t \in Tasks, ControlStep(t), HistoryStep(t), IdsStep
  PROVE  TypeInv'
<1>1. ASSUME NEW u \in Tasks
      PROVE  /\ pc'[u] \in Requesting => /\ idx'[u] \in Positions(u)
                                         /\ last'[u] \in idx'[u]..Len(Outputs[u])
             /\ outcome'[u] = NoOutcome <=> pc'[u] # "settled"
             /\ pc'[u] = "pause" => attempt'[u] <= Retries
  <2>1. CASE u = t
    BY <2>1 DEF ControlStep
  <2>2. CASE u # t
    <3>1. /\ pc'[u] = pc[u] /\ attempt'[u] = attempt[u] /\ idx'[u] = idx[u]
          /\ last'[u] = last[u] /\ outcome'[u] = outcome[u]
      BY <2>2 DEF ControlStep, TypeInv, TypeOK
    <3>. QED  BY <3>1 DEF TypeInv, TypeOK, PauseInv
  <2>. QED  BY <2>1, <2>2
<1>2. TypeOK'
  BY <1>1 DEF ControlStep, HistoryStep, IdsStep, TypeOK, Ids, Positions, Requests
<1>3. PauseInv'
  BY <1>1 DEF PauseInv
<1>. QED  BY <1>2, <1>3 DEF TypeInv

\* The same facts of the unprimed state, in the form the steps use them.
LEMMA Typed ==
  ASSUME TypeInv, NEW t \in Tasks
  PROVE  /\ pc \in [Tasks -> Awaits] /\ attempt \in [Tasks -> 1..(Retries + 1)]
         /\ idx \in [Tasks -> Nat] /\ last \in [Tasks -> Nat]
         /\ req \in [Tasks -> Requests]
         /\ outcome \in [Tasks -> [status : Statuses, error : Errors]]
         /\ pc[t] \in Requesting => /\ idx[t] \in Positions(t)
                                    /\ last[t] \in idx[t]..Len(Outputs[t])
         /\ outcome[t] = NoOutcome <=> pc[t] # "settled"
         /\ pc[t] = "pause" => attempt[t] <= Retries
BY DEF TypeInv, TypeOK, PauseInv, Requests

LEMMA ConcludeStep ==
  ASSUME TypeInv, NEW t \in Tasks, pc[t] # "settled", NEW s, NEW e, Conclude(t, s, e),
         s \in Statuses \ {"none"}, e \in Errors
  PROVE  ControlStep(t) /\ pc'[t] \in {"pause", "settled"}
<1>1. pc'[t] \notin Requesting
  BY ConcludeType DEF Requesting
<1>. QED  BY <1>1, ConcludeType, Typed DEF ControlStep

LEMMA AskStep ==
  ASSUME TypeInv, NEW t \in Tasks, pc[t] # "settled",
         NEW i \in Positions(t), NEW e \in i..Len(Outputs[t]),
         NEW part \in {"main", "fallback", "markup"}, Ask(t, i, e, part)
  PROVE  /\ ControlStep(t)
         /\ pc'[t] \in {"slot", "post"} /\ idx'[t] = i /\ last'[t] = e
         /\ req'[t].part = part /\ req'[t].try = 1
<1>. DEFINE r == [part |-> part, try |-> 1, error |-> "none",
                  formatted |-> part # "markup" /\ HasLink(t, i, e)]
            await == IF IsUpload(t, i, part) THEN "slot" ELSE "post"
<1>1. r \in Requests
  BY Constants DEF Requests
<1>2. e \in Nat /\ i \in Nat
  BY Constants DEF Positions
<1>3. await \in {"slot", "post"}
  OBVIOUS
<1>4. /\ pc' = [pc EXCEPT ![t] = await] /\ idx' = [idx EXCEPT ![t] = i]
      /\ last' = [last EXCEPT ![t] = e] /\ req' = [req EXCEPT ![t] = r]
      /\ attempt' = attempt /\ outcome' = outcome
  BY DEF Ask, Goto
<1>5. /\ r.part = part /\ r.try = 1
  OBVIOUS
<1>. HIDE DEF r, await
<1>6. /\ pc'[t] = await /\ idx'[t] = i /\ last'[t] = e /\ req'[t] = r
      /\ attempt'[t] = attempt[t] /\ outcome'[t] = NoOutcome
  BY <1>4, Typed
<1>. QED  BY <1>1, <1>2, <1>3, <1>4, <1>5, <1>6, Typed
          DEF ControlStep, Awaits, Requesting

\* What DispatchFrom may do, and that the control state stays well typed.
LEMMA DispatchFromStep ==
  ASSUME TypeInv, NEW t \in Tasks, pc[t] # "settled", NEW i \in Nat,
         i \in 1..(Len(Outputs[t]) + 1), collected' \subseteq Ids, DispatchFrom(t, i)
  PROVE  ControlStep(t) /\ reported' \in [Tasks -> SUBSET Ids]
<1>1. PICK j \in i..(Len(Outputs[t]) + 1) :
        \/ /\ j \notin Positions(t)
           /\ DispatchEnds(t)
        \/ \E e \in j..Len(Outputs[t]) :
             /\ IF HasMissingFile(t, j, e)
                  THEN Conclude(t, "failed", "dispatch_error")
                  ELSE Ask(t, j, e, "main")
             /\ UNCHANGED reported
  BY DEF DispatchFrom
<1>2. reported' \in [Tasks -> SUBSET Ids]
  BY <1>1 DEF DispatchEnds, TypeInv, TypeOK
<1>3. CASE Conclude(t, "ok", "none")
  BY <1>2, <1>3, ConcludeStep DEF Statuses, Errors
<1>4. CASE Conclude(t, "failed", "dispatch_error")
  BY <1>2, <1>4, ConcludeStep DEF Statuses, Errors
<1>5. ASSUME NEW e \in j..Len(Outputs[t]), Ask(t, j, e, "main")
      PROVE  ControlStep(t)
  <2>1. j \in Positions(t)
    BY Constants DEF Positions
  <2>. QED  BY <1>5, <2>1, AskStep
<1>. QED  BY <1>1, <1>2, <1>3, <1>4, <1>5 DEF DispatchEnds

LEMMA ObserveStep ==
  ASSUME TypeInv, NEW t \in Tasks, pc[t] \in Requesting, NEW answer, Observe(t, answer)
  PROVE  HistoryStep(t)
<1>1. /\ idx[t] \in Nat /\ last[t] \in Nat /\ idx[t] <= last[t] /\ Len(Outputs[t]) \in Nat
      /\ idx[t] > 0
  BY Typed, Constants DEF Positions
<1>2. CarriedInOrder(t) \in Seq(Nat)
  <2>1. [n \in 1..(last[t] - idx[t] + 1) |-> idx[t] + n - 1] \in Seq(Nat)
    BY <1>1
  <2>. QED  BY <2>1 DEF CarriedInOrder
<1>3. Carried(t) \subseteq Nat
  BY <1>1 DEF Carried
<1>4. trail[t] \in Seq(Nat) /\ trail[t] \o CarriedInOrder(t) \in Seq(Nat)
  BY <1>2 DEF TypeInv, TypeOK
<1>5. trail' \in [Tasks -> Seq(Nat)] /\ trail' = [trail EXCEPT ![t] = trail'[t]]
  <2>. DEFINE longer == trail[t] \o CarriedInOrder(t)
  <2>1. trail' = [trail EXCEPT ![t] = longer] \/ trail' = trail
    BY DEF Observe
  <2>2. trail \in [Tasks -> Seq(Nat)] /\ longer \in Seq(Nat)
    BY <1>4 DEF TypeInv, TypeOK
  <2>. HIDE DEF longer
  <2>. QED  BY <2>1, <2>2
<1>6. /\ confirmed' \in [Tasks -> SUBSET Nat]
      /\ confirmed' = [confirmed EXCEPT ![t] = confirmed'[t]]
  BY <1>3 DEF Observe, TypeInv, TypeOK
<1>7. /\ unclear' \in [Tasks -> SUBSET Nat]
      /\ unclear' = [unclear EXCEPT ![t] = unclear'[t]]
  BY <1>3 DEF Observe, TypeInv, TypeOK
<1>. QED  BY <1>5, <1>6, <1>7 DEF HistoryStep

LEMMA UnchangedHistory ==
  ASSUME TypeInv, NEW t \in Tasks, UNCHANGED historyVars
  PROVE  HistoryStep(t)
BY DEF HistoryStep, historyVars, TypeInv, TypeOK

\* A step that only moves on: to another await, the request as it was.
LEMMA GotoStep ==
  ASSUME TypeInv, NEW t \in Tasks, pc[t] # "settled", NEW await, Goto(t, await),
         await \in Awaits \ {"settled", "pause"},
         await \in Requesting => pc[t] \in Requesting,
         UNCHANGED <<attempt, requestVars, outcome>>
  PROVE  ControlStep(t)
BY Typed DEF ControlStep, Goto, requestVars

LEMMA RequestStep ==
  ASSUME TypeInv, NEW t \in Tasks, pc[t] \in Requesting, NEW await \in Requesting,
         Goto(t, await), NEW r \in Requests, req' = [req EXCEPT ![t] = r],
         UNCHANGED <<attempt, idx, last, outcome>>
  PROVE  ControlStep(t)
BY Typed DEF ControlStep, Goto, Requesting, Awaits

LEMMA UnchangedIds ==
  ASSUME TypeInv, UNCHANGED <<collected, reported>>
  PROVE  IdsStep
BY DEF IdsStep, TypeInv, TypeOK

LEMMA TryLimits ==
  ASSUME NEW t \in Tasks
  PROVE  /\ TryLimit(t) \in 1..(MessageTries + FileTries - 1)
         /\ IsAlbumRequest(t) => TryLimit(t) = 1
         /\ ~IsAlbumRequest(t) => TryLimit(t) > 1
BY Constants DEF TryLimit

-------------------------------------------------------------------------------
(* Type correctness.                                                       *)

\* A stage passes or refuses.
LEMMA StageType ==
  ASSUME TypeInv, NEW t \in Tasks,
         Permission(t) \/ Download(t) \/ Guard(t) \/ ScriptFails(t)
  PROVE  ControlStep(t) /\ HistoryStep(t) /\ IdsStep
<1>1. ASSUME NEW stage, NEW next, StagePasses(t, stage, next), stage # "settled",
             next \in {"download", "guard", "script"}
      PROVE  ControlStep(t) /\ HistoryStep(t) /\ IdsStep
  <2>1. ControlStep(t)
    BY <1>1, GotoStep DEF StagePasses, Awaits, Requesting
  <2>. QED  BY <1>1, <2>1, UnchangedHistory, UnchangedIds DEF StagePasses
<1>2. ASSUME NEW stage, NEW refusals, StageRefuses(t, stage, refusals), stage # "settled",
             refusals \subseteq {"blocked", "failed"} \X Errors
      PROVE  ControlStep(t) /\ HistoryStep(t) /\ IdsStep
  <2>1. PICK r \in refusals : Conclude(t, r[1], r[2])
    BY <1>2 DEF StageRefuses
  <2>2. r[1] \in Statuses \ {"none"} /\ r[2] \in Errors
    BY <1>2 DEF Statuses
  <2>3. ControlStep(t)
    BY <1>2, <2>1, <2>2, ConcludeStep DEF StageRefuses
  <2>. QED  BY <1>2, <2>3, UnchangedHistory, UnchangedIds DEF StageRefuses
<1>3. CASE Permission(t)
  BY <1>1, <1>2, <1>3 DEF Permission, Errors, AllAnswers
<1>4. CASE Download(t)
  BY <1>1, <1>2, <1>4 DEF Download, Errors, AllAnswers
<1>5. CASE Guard(t)
  BY <1>1, <1>2, <1>5 DEF Guard, Errors
<1>6. CASE ScriptFails(t)
  BY <1>2, <1>6 DEF ScriptFails, Errors
<1>. QED  BY <1>3, <1>4, <1>5, <1>6

\* The platform's answer and what the client and the dispatcher make of it.
LEMMA AnsweredType ==
  ASSUME TypeInv, NEW t \in Tasks, Answered(t)
  PROVE  ControlStep(t) /\ HistoryStep(t) /\ IdsStep
<1>1. PICK answer \in Answers \cup {"ok"} :
        /\ Observe(t, answer)
        /\ \/ answer = "ok" /\ Accepted(t)
           \/ answer # "ok" /\ ClientRepeats(t, answer)
           \/ answer # "ok" /\ GivesUp(t, Raised(t, answer))
  BY DEF Answered
<1>2. pc[t] \in Requesting /\ pc[t] # "settled"
  BY DEF Answered, Requesting
<1>3. HistoryStep(t)
  BY <1>1, <1>2, ObserveStep
<1>4. /\ idx[t] \in Positions(t) /\ last[t] \in idx[t]..Len(Outputs[t])
      /\ idx[t] \in Nat /\ last[t] \in Nat /\ Len(Outputs[t]) \in Nat
      /\ req[t] \in Requests
  BY <1>2, Typed, Constants
<1>5. answer \in AllAnswers \cup {"ok"}
  BY DispatchAssumption DEF DispatchAssumption
<1>6. CASE Accepted(t)
  <2>1. collected' \subseteq Ids
    <3>1. {<<t, i>> : i \in idx[t]..last[t]} \subseteq Ids
      BY <1>4 DEF Ids, Positions
    <3>. QED  BY <1>6, <3>1 DEF Accepted, TypeInv, TypeOK
  <2>2. CASE Ask(t, idx[t], last[t], "markup") /\ UNCHANGED reported
    <3>1. ControlStep(t)
      BY <1>2, <1>4, <2>2, AskStep
    <3>. QED  BY <1>3, <2>1, <2>2, <3>1 DEF IdsStep, TypeInv, TypeOK
  <2>3. CASE DispatchFrom(t, NextPosition(t))
    <3>1. NextPosition(t) \in Nat /\ NextPosition(t) \in 1..(Len(Outputs[t]) + 1)
      BY <1>4 DEF NextPosition, Positions
    <3>. QED  BY <1>2, <1>3, <2>1, <2>3, <3>1, DispatchFromStep DEF IdsStep
  <2>. QED  BY <1>6, <2>2, <2>3 DEF Accepted
<1>7. CASE answer # "ok" /\ ClientRepeats(t, answer)
  <2>1. req[t].try + 1 \in 1..(MessageTries + FileTries)
    BY <1>4, <1>7, TryLimits, Constants DEF ClientRepeats, Requests
  <2>2. UNCHANGED <<attempt, idx, last, outcome, collected, reported>>
    BY <1>7 DEF ClientRepeats
  <2>3. CASE TryUnformatted(t)
    <3>. DEFINE r == [req[t] EXCEPT !.try = @ + 1, !.formatted = FALSE]
                await == IF IsUpload(t, idx[t], req[t].part) THEN "slot" ELSE "post"
    <3>1. r \in Requests /\ await \in Requesting
      BY <1>4, <2>1 DEF Requests, Requesting
    <3>2. Goto(t, await) /\ req' = [req EXCEPT ![t] = r]
      BY <2>3, Typed DEF TryUnformatted
    <3>. HIDE DEF r, await
    <3>3. ControlStep(t)
      BY <1>2, <2>2, <3>1, <3>2, RequestStep
    <3>. QED  BY <1>3, <2>2, <3>3, UnchangedIds
  <2>4. CASE TryAfterBackoff(t, answer)
    <3>. DEFINE r == [req[t] EXCEPT !.try = @ + 1, !.error = answer]
    <3>1. r \in Requests
      BY <1>4, <1>5, <1>7, <2>1 DEF Requests
    <3>2. Goto(t, "backoff") /\ req' = [req EXCEPT ![t] = r]
      BY <2>4, Typed DEF TryAfterBackoff
    <3>. HIDE DEF r
    <3>3. ControlStep(t)
      BY <1>2, <2>2, <3>1, <3>2, RequestStep DEF Requesting
    <3>. QED  BY <1>3, <2>2, <3>3, UnchangedIds
  <2>. QED  BY <1>7, <2>3, <2>4 DEF ClientRepeats
<1>8. CASE answer # "ok" /\ GivesUp(t, Raised(t, answer))
  <2>1. IdsStep
    BY <1>8, UnchangedIds DEF GivesUp
  <2>2. CASE Ask(t, idx[t], last[t], "fallback")
    BY <1>2, <1>3, <1>4, <2>1, <2>2, AskStep
  <2>3. CASE Conclude(t, Verdict(t, Raised(t, answer)), Raised(t, answer))
    <3>1. Raised(t, answer) \in Errors
      BY <1>4, <1>5, <1>8 DEF Raised, IsEmptyHanded, CanDropFormat, Requests, Errors
    <3>2. Verdict(t, Raised(t, answer)) \in Statuses \ {"none"}
      BY DEF Verdict, Statuses
    <3>. QED  BY <1>2, <1>3, <2>1, <2>3, <3>1, <3>2, ConcludeStep
  <2>. QED  BY <1>8, <2>2, <2>3 DEF GivesUp
<1>. QED  BY <1>1, <1>6, <1>7, <1>8

LEMMA StepKeepsType ==
  ASSUME TypeInv, NEW t \in Tasks, Step(t)
  PROVE  ControlStep(t) /\ HistoryStep(t) /\ IdsStep
<1>1. CASE Permission(t) \/ Download(t) \/ Guard(t) \/ ScriptFails(t)
  BY <1>1, StageType
<1>2. CASE ScriptSucceeds(t)
  <2>1. 1 \in Nat /\ 1 \in 1..(Len(Outputs[t]) + 1)
    BY Constants
  <2>2. collected' \subseteq Ids /\ pc[t] # "settled" /\ DispatchFrom(t, 1)
    BY <1>2 DEF ScriptSucceeds
  <2>. QED  BY <1>2, <2>1, <2>2, DispatchFromStep, UnchangedHistory
            DEF ScriptSucceeds, IdsStep
<1>3. CASE TakeSlot(t)
  <2>1. ControlStep(t)
    BY <1>3, GotoStep DEF TakeSlot, Awaits, Requesting
  <2>. QED  BY <1>3, <2>1, UnchangedHistory, UnchangedIds DEF TakeSlot
<1>4. CASE Answered(t)
  BY <1>4, AnsweredType
<1>5. CASE BackoffOver(t)
  <2>. DEFINE await == IF IsUpload(t, idx[t], req[t].part) THEN "slot" ELSE "post"
  <2>1. await \in {"slot", "post"} /\ Goto(t, await) /\ pc[t] = "backoff"
    BY <1>5 DEF BackoffOver
  <2>. HIDE DEF await
  <2>2. ControlStep(t)
    BY <1>5, <2>1, GotoStep DEF BackoffOver, Awaits, Requesting
  <2>. QED  BY <1>5, <2>2, UnchangedHistory, UnchangedIds DEF BackoffOver
<1>6. CASE PauseOver(t)
  <2>1. attempt[t] + 1 \in 1..(Retries + 1)
    BY <1>6, Typed, Constants DEF PauseOver
  <2>2. ControlStep(t)
    BY <1>6, <2>1, Typed DEF PauseOver, ControlStep, Goto, requestVars, Awaits, Requesting
  <2>3. HistoryStep(t)
    BY <1>6 DEF PauseOver, HistoryStep, TypeInv, TypeOK
  <2>. QED  BY <1>6, <2>2, <2>3, UnchangedIds DEF PauseOver
<1>. QED  BY <1>1, <1>2, <1>3, <1>4, <1>5, <1>6 DEF Step

LEMMA NextKeepsType == TypeInv /\ [Next]_vars => TypeInv'
<1>1. ASSUME TypeInv, NEW t \in Tasks, Step(t)
      PROVE  TypeInv'
  BY <1>1, StepKeepsType, StepType
<1>2. ASSUME TypeInv, UNCHANGED vars
      PROVE  TypeInv'
  BY <1>2 DEF vars, requestVars, historyVars, TypeInv, TypeOK, PauseInv, Ids, Positions
<1>. QED  BY <1>1, <1>2 DEF Next, AllSettled

\* Every variable keeps its type, and a delivery has an outcome exactly when
\* it has returned: _process_route_message_with_retries returns once.
THEOREM TypeCorrect == Spec => []TypeOK
<1>1. TypeInv => TypeOK
  BY DEF TypeInv
<1>. QED  BY InitType, NextKeepsType, <1>1, PTL DEF Spec

-------------------------------------------------------------------------------
(* What the destination gets.                                              *)

Sent(t) == {trail[t][n] : n \in DOMAIN trail[t]}

\* Of the outputs, the destination has got exactly those below position n.
Reached(t, n) ==
  /\ \A k \in DOMAIN trail[t] : trail[t][k] \in Sendable(t) /\ trail[t][k] < n
  /\ \A k \in Sendable(t) : k < n => k \in Sent(t)

\* While a request is under way the destination has got what lies below it; of
\* the request itself it may have got a single output whose fate is unclear.
\* The markup of an album is asked for when the album is confirmed.
Underway(t) ==
  /\ idx[t]..last[t] \subseteq Sendable(t)
  /\ req[t].part = "fallback" => idx[t] = last[t]
  /\ req[t].part = "markup" => Reached(t, last[t] + 1)
  /\ req[t].part # "markup" =>
       /\ \A k \in Sendable(t) : k < idx[t] => k \in Sent(t)
       /\ \A n \in DOMAIN trail[t] :
            \/ trail[t][n] < idx[t]
            \/ trail[t][n] = idx[t] /\ idx[t] = last[t] /\ idx[t] \in unclear[t]
  /\ req[t].error = "none" => req[t].try = 1 \/ (req[t].try = 2 /\ ~req[t].formatted)

Progress(t) ==
  /\ InOrder(t)
  /\ Sent(t) \subseteq Sendable(t)
  /\ pc[t] \in {"permission", "download", "guard", "script"} => trail[t] = <<>>
  /\ pc[t] \in Requesting => Underway(t)
  /\ outcome[t].status = "ok" => Sendable(t) \subseteq Sent(t)

DispatchInv == \A t \in Tasks : Progress(t)

LEMMA InitDispatch == Init => DispatchInv
BY DEF Init, DispatchInv, Progress, InOrder, Sent, NoOutcome, Requesting

\* A delivery returns ok only if an attempt ended ok.
LEMMA ConcludeOutcome ==
  ASSUME TypeInv, NEW t \in Tasks, pc[t] # "settled", NEW s, NEW e, Conclude(t, s, e),
         s # "ok"
  PROVE  outcome'[t].status # "ok"
<1>1. Returned(s, e).status # "ok"
  BY DEF Returned
<1>2. outcome[t] = NoOutcome
  BY Typed
<1>3. outcome' = outcome \/ outcome' = [outcome EXCEPT ![t] = Returned(s, e)]
  BY DEF Conclude
<1>4. outcome'[t] = NoOutcome \/ outcome'[t] = Returned(s, e)
  <2>. HIDE DEF NoOutcome
  <2>. QED  BY <1>2, <1>3, Typed
<1>. QED  BY <1>1, <1>4 DEF NoOutcome

\* An attempt that ends leaves the order as it is.
LEMMA ConcludeProgress ==
  ASSUME TypeInv, NEW t \in Tasks, pc[t] # "settled", NEW s, NEW e, Conclude(t, s, e),
         s \in Statuses \ {"none"}, e \in Errors,
         InOrder(t)', Sent(t)' \subseteq Sendable(t),
         s = "ok" => Sendable(t) \subseteq Sent(t)'
  PROVE  Progress(t)'
<1>1. pc'[t] \in {"pause", "settled"}
  BY ConcludeStep
<1>2. s # "ok" => outcome'[t].status # "ok"
  BY ConcludeOutcome
<1>. QED  BY <1>1, <1>2 DEF Progress, Requesting, Sendable, Positions, Kind

LEMMA FromProgress ==
  ASSUME TypeInv, NEW t \in Tasks, pc[t] # "settled",
         NEW i \in 1..(Len(Outputs[t]) + 1), DispatchFrom(t, i),
         InOrder(t)', Reached(t, i)'
  PROVE  Progress(t)'
<1>1. PICK j \in i..(Len(Outputs[t]) + 1) :
        /\ Continues(t, i, j)
        /\ \/ j \notin Positions(t) /\ DispatchEnds(t)
           \/ \E e \in j..Len(Outputs[t]) :
                /\ IsUnit(t, j, e)
                /\ IF HasMissingFile(t, j, e)
                     THEN Conclude(t, "failed", "dispatch_error")
                     ELSE Ask(t, j, e, "main")
  BY DEF DispatchFrom
<1>2. j \in Nat /\ i \in Nat /\ i <= j /\ Len(Outputs[t]) \in Nat
  BY Constants
<1>3. \A k \in Sendable(t) : k < j => k < i
  BY <1>1, <1>2 DEF Continues, IsSkipped, Sendable, Positions
<1>4. /\ \A k \in DOMAIN trail'[t] : trail'[t][k] \in Sendable(t) /\ trail'[t][k] < i
      /\ \A k \in Sendable(t) : k < i => k \in Sent(t)'
  BY DEF Reached, Sendable, Positions, Kind
<1>5. Sent(t)' \subseteq Sendable(t)
  BY <1>4 DEF Sent
<1>6. CASE j \notin Positions(t) /\ Conclude(t, "ok", "none")
  <2>1. \A k \in Sendable(t) : k < j
    BY <1>2, <1>6 DEF Sendable, Positions
  <2>2. Sendable(t) \subseteq Sent(t)'
    BY <1>3, <1>4, <2>1
  <2>. QED  BY <1>5, <1>6, <2>2, ConcludeProgress DEF Statuses, Errors
<1>7. CASE Conclude(t, "failed", "dispatch_error")
  BY <1>5, <1>7, ConcludeProgress DEF Statuses, Errors
<1>8. ASSUME NEW e \in j..Len(Outputs[t]), IsUnit(t, j, e), ~HasMissingFile(t, j, e),
             Ask(t, j, e, "main")
      PROVE  Progress(t)'
  <2>1. j \in Positions(t) /\ e \in Nat
    BY <1>2 DEF Positions
  <2>2. /\ pc'[t] \in {"slot", "post"} /\ idx'[t] = j /\ last'[t] = e
        /\ req'[t].part = "main" /\ req'[t].try = 1 /\ ControlStep(t)
    BY <1>8, <2>1, AskStep
  <2>3. \A k \in j..e : Kind(t, k) # "sticker"
    <3>1. Kind(t, j) # "sticker"
      BY <1>1, <1>2, <1>8, <2>1 DEF Continues, IsSkipped, HasMissingFile
    <3>2. \A k \in (j + 1)..e : Kind(t, k) # "sticker"
      BY <1>8 DEF IsUnit, Family
    <3>. QED  BY <1>2, <2>1, <3>1, <3>2
  <2>4. j..e \subseteq Sendable(t)
    BY <1>2, <2>1, <2>3 DEF Sendable, Positions
  <2>5. \A k \in DOMAIN trail'[t] : trail'[t][k] < j
    BY <1>2, <1>4 DEF Sendable, Positions
  <2>6. \A k \in Sendable(t) : k < j => k \in Sent(t)'
    BY <1>3, <1>4
  <2>7. Underway(t)'
    BY <2>2, <2>4, <2>5, <2>6 DEF Underway, Sendable, Positions, Kind
  <2>8. outcome'[t].status # "ok"
    BY <2>2 DEF ControlStep, NoOutcome
  <2>. QED  BY <1>5, <2>2, <2>7, <2>8 DEF Progress, Sendable, Positions, Kind
<1>. QED  BY <1>1, <1>6, <1>7, <1>8 DEF DispatchEnds

\* What an answer adds to the trail, element by element.
LEMMA ObserveTrail ==
  ASSUME TypeInv, NEW t \in Tasks, pc[t] \in Requesting, NEW answer, Observe(t, answer)
  PROVE  /\ unclear[t] \subseteq unclear'[t]
         /\ IsUnclear(t, answer) => Carried(t) \subseteq unclear'[t]
         /\ req[t].part = "markup" => trail'[t] = trail[t]
         /\ \/ trail'[t] = trail[t] /\ answer # "ok"
            \/ req[t].part = "markup" /\ trail'[t] = trail[t]
            \/ /\ req[t].part # "markup"
               /\ answer = "ok" \/ IsUnclear(t, answer)
               /\ DOMAIN trail'[t] = 1..(Len(trail[t]) + last[t] - idx[t] + 1)
               /\ \A n \in DOMAIN trail[t] : trail'[t][n] = trail[t][n]
               /\ \A n \in DOMAIN trail'[t] \ DOMAIN trail[t] :
                    trail'[t][n] = idx[t] + (n - Len(trail[t])) - 1
<1>1. /\ idx[t] \in Nat /\ last[t] \in Nat /\ idx[t] <= last[t] /\ idx[t] > 0
      /\ trail[t] \in Seq(Nat) /\ trail \in [Tasks -> Seq(Nat)]
      /\ unclear \in [Tasks -> SUBSET Nat]
  BY Typed, Constants DEF Positions, TypeInv, TypeOK
<1>2. /\ unclear[t] \subseteq unclear'[t]
      /\ IsUnclear(t, answer) => Carried(t) \subseteq unclear'[t]
  BY <1>1 DEF Observe
<1>3. CASE UNCHANGED trail /\ answer # "ok"
  BY <1>2, <1>3
<1>4. CASE /\ answer = "ok" \/ IsUnclear(t, answer)
           /\ trail' = [trail EXCEPT ![t] = @ \o CarriedInOrder(t)]
  <2>1. trail'[t] = trail[t] \o CarriedInOrder(t)
    BY <1>1, <1>4
  <2>2. CASE req[t].part = "markup"
    BY <1>1, <1>2, <2>1, <2>2 DEF CarriedInOrder
  <2>3. CASE req[t].part # "markup"
    <3>. DEFINE d == last[t] - idx[t] + 1
                c == [n \in 1..d |-> idx[t] + n - 1]
                old == trail[t]
                new == trail'[t]
    <3>1. d \in Nat /\ \A m \in 1..d : idx[t] + m - 1 \in Nat
      BY <1>1
    <3>2. new = old \o c /\ old \in Seq(Nat)
      BY <1>1, <2>1, <2>3 DEF CarriedInOrder
    <3>3. c \in [1..d -> Nat]
      BY <3>1
    <3>4. \A m \in 1..d : c[m] = idx[t] + m - 1
      OBVIOUS
    <3>. HIDE DEF c, d, old, new
    <3>5. c \in Seq(Nat) /\ Len(c) = d
      BY <3>1, <3>3
    <3>6. /\ DOMAIN old = 1..Len(old) /\ Len(old) \in Nat
          /\ DOMAIN new = 1..(Len(old) + d)
          /\ \A n \in 1..(Len(old) + d) :
               new[n] = IF n <= Len(old) THEN old[n] ELSE c[n - Len(old)]
      <4>1. /\ Len(old) \in Nat /\ DOMAIN old = 1..Len(old)
            /\ Len(old \o c) = Len(old) + Len(c)
            /\ \A n \in 1..(Len(old) + Len(c)) :
                 (old \o c)[n] = IF n <= Len(old) THEN old[n] ELSE c[n - Len(old)]
        BY <3>2, <3>5
      <4>2. old \o c \in Seq(Nat)
        BY <3>2, <3>5
      <4>3. DOMAIN (old \o c) = 1..Len(old \o c)
        BY <4>2
      <4>. QED  BY <3>2, <3>5, <4>1, <4>3
    <3>7. \A n \in DOMAIN old : new[n] = old[n]
      BY <3>1, <3>6
    <3>8. \A n \in DOMAIN new \ DOMAIN old : new[n] = idx[t] + (n - Len(old)) - 1
      BY <3>1, <3>4, <3>6
    <3>9. Len(old) + d = Len(old) + last[t] - idx[t] + 1
      BY <1>1, <3>6 DEF d
    <3>. QED  BY <1>2, <1>4, <2>3, <3>6, <3>7, <3>8, <3>9 DEF old, new
  <2>. QED  BY <2>2, <2>3
<1>. QED  BY <1>3, <1>4 DEF Observe

\* An answer keeps the order, and leaves the destination with what the
\* request's state says.
LEMMA ObserveProgress ==
  ASSUME TypeInv, NEW t \in Tasks, pc[t] \in Requesting, Progress(t),
         NEW answer, Observe(t, answer)
  PROVE  /\ InOrder(t)'
         /\ \A n \in DOMAIN trail'[t] : /\ trail'[t][n] \in Sendable(t)
                                        /\ trail'[t][n] < last[t] + 1
         /\ \A k \in Sendable(t) : k < idx[t] => k \in Sent(t)'
         /\ answer = "ok" =>
              \A k \in Sendable(t) : k < last[t] + 1 => k \in Sent(t)'
         /\ req[t].part # "markup" /\ answer # "ok" /\ ~IsAlbumRequest(t) =>
              /\ idx[t] = last[t]
              /\ \A n \in DOMAIN trail'[t] :
                   \/ trail'[t][n] < idx[t]
                   \/ trail'[t][n] = idx[t] /\ idx[t] \in unclear'[t]
<1>. DEFINE old == trail[t]
            new == trail'[t]
            i == idx[t]
            l == last[t]
<1>1. /\ i \in Nat /\ l \in Nat /\ i <= l /\ i > 0 /\ i..l \subseteq Sendable(t)
      /\ Sendable(t) \subseteq Nat
      /\ Len(old) \in Nat /\ DOMAIN old = 1..Len(old)
  <2>1. trail[t] \in Seq(Nat)
    BY DEF TypeInv, TypeOK
  <2>. QED  BY <2>1, Typed, Constants DEF Positions, Progress, Underway, Sendable
<1>2. Underway(t) /\ InOrder(t) /\ Sent(t) \subseteq Sendable(t)
  BY DEF Progress
<1>3. req[t].part \in {"main", "fallback", "markup"}
  BY Typed DEF Requests
<1>4. /\ unclear[t] \subseteq unclear'[t]
      /\ IsUnclear(t, answer) => Carried(t) \subseteq unclear'[t]
      /\ req[t].part = "markup" => new = old
      /\ \/ new = old /\ answer # "ok"
         \/ req[t].part = "markup" /\ new = old
         \/ /\ req[t].part # "markup"
            /\ answer = "ok" \/ IsUnclear(t, answer)
            /\ DOMAIN new = 1..(Len(old) + l - i + 1)
            /\ \A n \in DOMAIN old : new[n] = old[n]
            /\ \A n \in DOMAIN new \ DOMAIN old : new[n] = i + (n - Len(old)) - 1
  BY ObserveTrail
<1>5. /\ \A n \in DOMAIN old : old[n] \in Sendable(t) /\ old[n] < l + 1
      /\ \A k \in Sendable(t) : k < i => k \in Sent(t)
  <2>1. CASE req[t].part = "markup"
    BY <1>1, <1>2, <2>1 DEF Underway, Reached
  <2>2. CASE req[t].part # "markup"
    <3>1. \A n \in DOMAIN old : old[n] \in Sendable(t)
      BY <1>2 DEF Sent
    <3>2. \A n \in DOMAIN old : old[n] < i \/ old[n] = i
      BY <1>2, <2>2 DEF Underway
    <3>. QED  BY <1>1, <1>2, <2>2, <3>1, <3>2 DEF Underway
  <2>. QED  BY <2>1, <2>2
<1>6. req[t].part # "markup" /\ ~IsAlbumRequest(t) => i = l
  BY <1>1, <1>2, <1>3 DEF IsAlbumRequest, IsAlbum, Underway
<1>9. req[t].part # "markup" =>
        \A n \in DOMAIN old : \/ old[n] < i
                              \/ old[n] = i /\ i = l /\ i \in unclear[t]
  BY <1>2 DEF Underway
<1>7. CASE new = old
  <2>1. InOrder(t)'
    BY <1>2, <1>4, <1>7 DEF InOrder, Sendable, Positions, Kind
  <2>2. Sent(t)' = Sent(t)
    BY <1>7 DEF Sent
  <2>3. answer = "ok" => req[t].part = "markup"
    BY <1>1, <1>4, <1>7
  <2>4. req[t].part = "markup" => \A k \in Sendable(t) : k < l + 1 => k \in Sent(t)
    BY <1>2 DEF Underway, Reached
  <2>5. req[t].part # "markup" /\ ~IsAlbumRequest(t) =>
          \A n \in DOMAIN new : \/ new[n] < i
                                \/ new[n] = i /\ i \in unclear'[t]
    BY <1>2, <1>4, <1>7 DEF Underway
  <2>6. \A n \in DOMAIN new : new[n] \in Sendable(t) /\ new[n] < l + 1
    BY <1>5, <1>7
  <2>7. \A k \in Sendable(t) : k < i => k \in Sent(t)'
    BY <1>5, <2>2
  <2>8. answer = "ok" => \A k \in Sendable(t) : k < l + 1 => k \in Sent(t)'
    BY <2>2, <2>3, <2>4
  <2>. HIDE DEF new, i, l
  <2>9. /\ req[t].part # "markup" /\ answer # "ok" /\ ~IsAlbumRequest(t) =>
             /\ i = l
             /\ \A n \in DOMAIN new : \/ new[n] < i
                                      \/ new[n] = i /\ i \in unclear'[t]
    BY <1>6, <2>5
  <2>. QED  BY <2>1, <2>6, <2>7, <2>8, <2>9 DEF new, i, l
<1>8. CASE /\ req[t].part # "markup"
           /\ answer = "ok" \/ IsUnclear(t, answer)
           /\ DOMAIN new = 1..(Len(old) + l - i + 1)
           /\ \A n \in DOMAIN old : new[n] = old[n]
           /\ \A n \in DOMAIN new \ DOMAIN old : new[n] = i + (n - Len(old)) - 1
  <2>. HIDE DEF old, new, i, l
  <2>1. \A n \in DOMAIN old : n \in DOMAIN new
    BY <1>1, <1>8
  <2>2. \A n \in DOMAIN new \ DOMAIN old : new[n] \in i..l
    BY <1>1, <1>8
  <2>3. \A n \in DOMAIN old : \/ old[n] < i
                              \/ old[n] = i /\ i = l /\ i \in unclear[t]
    BY <1>8, <1>9
  <2>4. \A n \in DOMAIN new : new[n] \in Sendable(t) /\ new[n] < l + 1
    BY <1>1, <1>5, <1>8, <2>2
  <2>5. Sent(t) \subseteq Sent(t)'
    BY <1>8, <2>1 DEF Sent, old, new
  <2>6. \A k \in i..l : k \in Sent(t)'
    <3>. SUFFICES ASSUME NEW k \in i..l  PROVE \E n \in DOMAIN new : new[n] = k
      BY DEF Sent, new
    <3>1. PICK n \in Nat : n = Len(old) + k - i + 1
      BY <1>1
    <3>2. n \in DOMAIN new \ DOMAIN old
      BY <1>1, <1>8, <3>1
    <3>3. new[n] = i + (n - Len(old)) - 1
      BY <1>8, <3>2
    <3>. QED  BY <1>1, <3>1, <3>2, <3>3
  <2>7. \A k \in Sendable(t) : k < l + 1 => k \in Sent(t)'
    BY <1>1, <1>5, <2>5, <2>6
  <2>8. ASSUME answer # "ok", ~IsAlbumRequest(t)
        PROVE  \A n \in DOMAIN new : \/ new[n] < i
                                     \/ new[n] = i /\ i \in unclear'[t]
    <3>1. i \in unclear'[t]
      BY <1>1, <1>4, <1>8, <2>8 DEF Carried, i, l
    <3>2. i = l
      BY <1>6, <1>8, <2>8
    <3>. QED  BY <1>1, <1>8, <2>2, <2>3, <3>1, <3>2
  <2>9. InOrder(t)'
    <3>1. SUFFICES ASSUME NEW b \in DOMAIN new
                   PROVE  /\ \A a \in 1..(b - 1) :
                                 \/ new[a] < new[b]
                                 \/ new[a] = new[b] /\ new[a] \in unclear'[t]
                          /\ \A k \in Sendable(t) : k < new[b] =>
                                 \E a \in 1..(b - 1) : new[a] = k
      BY DEF InOrder, Sendable, Positions, Kind, new
    <3>2. CASE b \in DOMAIN old
      <4>1. \A a \in 1..(b - 1) : a \in DOMAIN old
        BY <1>1, <3>2
      <4>2. /\ \A a \in 1..(b - 1) : \/ old[a] < old[b]
                                     \/ old[a] = old[b] /\ old[a] \in unclear[t]
            /\ \A k \in Sendable(t) : k < old[b] => \E a \in 1..(b - 1) : old[a] = k
        BY <1>2, <3>2 DEF InOrder, old
      <4>3. new[b] = old[b] /\ \A a \in 1..(b - 1) : new[a] = old[a]
        BY <1>8, <3>2, <4>1
      <4>. QED  BY <1>4, <4>2, <4>3
    <3>3. CASE b \notin DOMAIN old
      <4>1. b \in Nat /\ b > Len(old) /\ new[b] = i + (b - Len(old)) - 1 /\ new[b] \in i..l
        BY <1>1, <1>8, <2>2, <3>3
      <4>2. ASSUME NEW a \in 1..(b - 1)
            PROVE  \/ new[a] < new[b]
                   \/ new[a] = new[b] /\ new[a] \in unclear'[t]
        <5>1. CASE a \in DOMAIN old
          <6>1. new[a] = old[a] /\ (old[a] < i \/ (old[a] = i /\ i \in unclear[t]))
            BY <1>8, <2>3, <5>1
          <6>2. old[a] \in Nat
            BY <1>1, <1>5, <5>1
          <6>3. new[b] \in Nat /\ new[b] >= i
            BY <1>1, <4>1
          <6>4. old[a] = i => old[a] = new[b] \/ old[a] < new[b]
            BY <1>1, <6>3
          <6>5. old[a] < i => old[a] < new[b]
            BY <1>1, <6>2, <6>3
          <6>. QED  BY <1>4, <6>1, <6>4, <6>5
        <5>2. CASE a \notin DOMAIN old
          <6>1. a \in DOMAIN new /\ a > Len(old)
            BY <1>1, <1>8, <4>1, <5>2
          <6>2. new[a] = i + (a - Len(old)) - 1
            BY <1>8, <5>2, <6>1
          <6>. QED  BY <1>1, <4>1, <6>1, <6>2
        <5>. QED  BY <5>1, <5>2
      <4>3. ASSUME NEW k \in Sendable(t), k < new[b]
            PROVE  \E a \in 1..(b - 1) : new[a] = k
        <5>1. CASE k < i
          <6>1. PICK a \in DOMAIN old : old[a] = k
            BY <1>5, <5>1 DEF Sent, old
          <6>2. new[a] = k /\ a \in 1..(b - 1)
            BY <1>1, <1>8, <4>1, <6>1
          <6>. QED  BY <6>2
        <5>2. CASE ~(k < i)
          <6>1. k \in Nat /\ k >= i /\ k < i + (b - Len(old)) - 1
            BY <1>1, <4>1, <4>3, <5>2
          <6>2. PICK a \in Nat : a = Len(old) + k - i + 1
            <7>1. Len(old) + k - i + 1 \in Nat
              BY <1>1, <6>1
            <7>. QED  BY <7>1, Zenon
          <6>3. a \in 1..(b - 1)
            BY <1>1, <4>1, <6>1, <6>2
          <6>4. a \in DOMAIN new \ DOMAIN old
            BY <1>1, <1>8, <4>1, <6>1, <6>2
          <6>5. new[a] = i + (a - Len(old)) - 1
            BY <1>8, <6>4
          <6>. QED  BY <1>1, <6>1, <6>2, <6>3, <6>5
        <5>. QED  BY <5>1, <5>2
      <4>. QED  BY <4>2, <4>3
    <3>. QED  BY <3>2, <3>3
  <2>10. \A k \in Sendable(t) : k < i => k \in Sent(t)'
    BY <1>5, <2>5
  <2>. QED  BY <1>6, <1>8, <2>4, <2>7, <2>8, <2>9, <2>10 DEF old, new, i, l
<1>. QED  BY <1>4, <1>7, <1>8

\* A request goes on being tried, or another one of the same unit is made.
LEMMA UnderwayProgress ==
  ASSUME NEW t \in Tasks, ControlStep(t), InOrder(t)', pc'[t] \in Requesting,
         \A n \in DOMAIN trail'[t] : trail'[t][n] \in Sendable(t), Underway(t)'
  PROVE  Progress(t)'
<1>1. Sent(t)' \subseteq Sendable(t)
  BY DEF Sent
<1>2. outcome'[t].status # "ok"
  BY DEF ControlStep, NoOutcome, Requesting
<1>. QED  BY <1>1, <1>2 DEF Progress, Requesting, Sendable, Positions, Kind

LEMMA AnsweredProgress ==
  ASSUME TypeInv, NEW t \in Tasks, Progress(t), Answered(t)
  PROVE  Progress(t)'
<1>1. PICK answer \in Answers \cup {"ok"} :
        /\ Observe(t, answer)
        /\ \/ answer = "ok" /\ Accepted(t)
           \/ answer # "ok" /\ ClientRepeats(t, answer)
           \/ answer # "ok" /\ GivesUp(t, Raised(t, answer))
  BY DEF Answered
<1>2. /\ pc[t] \in Requesting /\ pc[t] # "settled" /\ Underway(t)
      /\ answer \in AllAnswers \cup {"ok"}
  BY DispatchAssumption DEF DispatchAssumption, Answered, Requesting, Progress
<1>3. /\ idx[t] \in Positions(t) /\ last[t] \in idx[t]..Len(Outputs[t])
      /\ idx[t] \in Nat /\ last[t] \in Nat /\ Len(Outputs[t]) \in Nat
      /\ idx[t] <= last[t] /\ idx[t] > 0 /\ req[t] \in Requests
      /\ idx[t]..last[t] \subseteq Sendable(t)
  BY <1>2, Typed, Constants DEF Positions, Underway
<1>4. ControlStep(t)
  BY AnsweredType
<1>5. /\ InOrder(t)'
      /\ \A n \in DOMAIN trail'[t] : /\ trail'[t][n] \in Sendable(t)
                                     /\ trail'[t][n] < last[t] + 1
      /\ \A k \in Sendable(t) : k < idx[t] => k \in Sent(t)'
      /\ answer = "ok" =>
           \A k \in Sendable(t) : k < last[t] + 1 => k \in Sent(t)'
      /\ req[t].part # "markup" /\ answer # "ok" /\ ~IsAlbumRequest(t) =>
           /\ idx[t] = last[t]
           /\ \A n \in DOMAIN trail'[t] :
                \/ trail'[t][n] < idx[t]
                \/ trail'[t][n] = idx[t] /\ idx[t] \in unclear'[t]
  BY <1>1, <1>2, ObserveProgress
<1>6. CASE answer = "ok" /\ Accepted(t)
  <2>. DEFINE n == last[t] + 1
  <2>1. \A m \in {n} : Reached(t, m)'
    BY <1>5, <1>6 DEF Reached, Sendable, Positions, Kind
  <2>2. CASE Ask(t, idx[t], last[t], "markup")
    <3>1. /\ pc'[t] \in {"slot", "post"} /\ idx'[t] = idx[t] /\ last'[t] = last[t]
          /\ req'[t].part = "markup" /\ req'[t].try = 1
      BY <1>2, <1>3, <2>2, AskStep
    <3>2. PICK m \in {n} : m = last[t] + 1
      OBVIOUS
    <3>3. Reached(t, m)'
      BY <2>1
    <3>4. Reached(t, last[t] + 1)'
      BY <3>1, <3>2, <3>3 DEF Reached, Sendable, Positions, Kind, Sent
    <3>5. Underway(t)'
      BY <1>3, <3>1, <3>4 DEF Underway, Sendable, Positions, Kind
    <3>. QED  BY <1>4, <1>5, <3>1, <3>5, UnderwayProgress DEF Requesting
  <2>3. CASE DispatchFrom(t, NextPosition(t))
    <3>1. PICK m \in {n} : m = NextPosition(t)
      BY DEF NextPosition
    <3>2. m \in 1..(Len(Outputs[t]) + 1)
      BY <1>3, <3>1 DEF NextPosition
    <3>3. Reached(t, m)'
      BY <2>1
    <3>4. DispatchFrom(t, m)
      BY <2>3, <3>1
    <3>. QED  BY <1>2, <1>5, <3>2, <3>3, <3>4, FromProgress
  <2>. QED  BY <1>6, <2>2, <2>3 DEF Accepted
<1>7. CASE answer # "ok" /\ ClientRepeats(t, answer)
  <2>1. ~IsAlbumRequest(t)
    BY <1>3, <1>7, TryLimits DEF ClientRepeats, Requests
  <2>2. idx'[t] = idx[t] /\ last'[t] = last[t]
    BY <1>7 DEF ClientRepeats
  <2>3. /\ pc'[t] \in Requesting /\ req'[t].part = req[t].part
        /\ req'[t].error = "none" => req'[t].try = 1 \/ (req'[t].try = 2 /\ ~req'[t].formatted)
    <3>1. CASE CanDropFormat(t, answer) /\ TryUnformatted(t)
      <4>1. req[t].formatted /\ req[t].try \in Nat
        BY <1>3, <3>1 DEF CanDropFormat, Requests
      <4>2. req[t].error = "none" => req[t].try = 1
        BY <1>2, <4>1 DEF Underway
      <4>3. /\ pc'[t] \in Requesting /\ req'[t].part = req[t].part /\ ~req'[t].formatted
            /\ req'[t].error = req[t].error /\ req'[t].try = req[t].try + 1
        BY <1>3, <3>1, Typed DEF TryUnformatted, Goto, Requesting, Requests
      <4>. QED  BY <4>1, <4>2, <4>3
    <3>2. CASE TryAfterBackoff(t, answer)
      BY <1>2, <1>3, <1>7, <3>2, Typed
         DEF TryAfterBackoff, Goto, Requesting, Requests, AllAnswers
    <3>. QED  BY <1>7, <3>1, <3>2 DEF ClientRepeats
  <2>4. CASE req[t].part = "markup"
    <3>1. trail'[t] = trail[t]
      BY <1>1, <1>2, <2>4, ObserveTrail
    <3>2. Reached(t, last[t] + 1)
      BY <1>2, <2>4 DEF Underway
    <3>3. Reached(t, last[t] + 1)'
      BY <2>2, <3>1, <3>2 DEF Reached, Sendable, Positions, Kind, Sent
    <3>4. Underway(t)'
      BY <1>3, <2>2, <2>3, <2>4, <3>3 DEF Underway, Sendable, Positions, Kind
    <3>. QED  BY <1>4, <1>5, <2>3, <3>4, UnderwayProgress
  <2>5. CASE req[t].part # "markup"
    <3>1. Underway(t)'
      BY <1>3, <1>5, <1>7, <2>1, <2>2, <2>3, <2>5 DEF Underway, Sendable, Positions, Kind
    <3>. QED  BY <1>4, <1>5, <2>3, <3>1, UnderwayProgress
  <2>. QED  BY <2>4, <2>5
<1>8. CASE answer # "ok" /\ GivesUp(t, Raised(t, answer))
  <2>1. CASE /\ FallsBack(t, Raised(t, answer))
             /\ Ask(t, idx[t], last[t], "fallback")
    <3>1. /\ pc'[t] \in {"slot", "post"} /\ idx'[t] = idx[t] /\ last'[t] = last[t]
          /\ req'[t].part = "fallback" /\ req'[t].try = 1
      BY <1>2, <1>3, <2>1, AskStep
    <3>2. req[t].part = "main" /\ ~IsAlbumRequest(t)
      BY <2>1 DEF FallsBack, IsAlbumRequest
    <3>3. Underway(t)'
      BY <1>3, <1>5, <1>8, <3>1, <3>2 DEF Underway, Sendable, Positions, Kind
    <3>. QED  BY <1>4, <1>5, <3>1, <3>3, UnderwayProgress DEF Requesting
  <2>2. CASE Conclude(t, Verdict(t, Raised(t, answer)), Raised(t, answer))
    <3>1. Raised(t, answer) \in Errors
      BY <1>2, <1>3, <1>8 DEF Raised, IsEmptyHanded, CanDropFormat, Requests, Errors
    <3>2. Verdict(t, Raised(t, answer)) \in Statuses \ {"none", "ok"}
      BY DEF Verdict, Statuses
    <3>3. Sent(t)' \subseteq Sendable(t)
      BY <1>5 DEF Sent
    <3>. QED  BY <1>2, <1>5, <2>2, <3>1, <3>2, <3>3, ConcludeProgress
  <2>. QED  BY <1>8, <2>1, <2>2 DEF GivesUp
<1>. QED  BY <1>1, <1>6, <1>7, <1>8

\* Steps that send nothing.
LEMMA QuietProgress ==
  ASSUME TypeInv, NEW t \in Tasks, Progress(t), ControlStep(t),
         trail'[t] = trail[t], unclear'[t] = unclear[t],
         \/ /\ pc'[t] \in Requesting /\ pc[t] \in Requesting
            /\ idx'[t] = idx[t] /\ last'[t] = last[t] /\ req'[t] = req[t]
         \/ /\ pc'[t] \in {"permission", "download", "guard", "script"}
            /\ trail[t] = <<>>,
         pc'[t] # "settled"
  PROVE  Progress(t)'
<1>1. InOrder(t)' /\ Sent(t)' \subseteq Sendable(t)
  BY DEF Progress, InOrder, Sent, Sendable, Positions, Kind
<1>2. outcome'[t].status # "ok"
  BY DEF ControlStep, NoOutcome
<1>3. pc'[t] \in Requesting => Underway(t)'
  BY DEF Progress, Underway, Reached, Sent, Sendable, Positions, Kind, Requesting
<1>4. pc'[t] \in {"permission", "download", "guard", "script"} => trail'[t] = <<>>
  BY DEF Requesting
<1>. QED  BY <1>1, <1>2, <1>3, <1>4 DEF Progress, Sendable, Positions, Kind

LEMMA StageProgress ==
  ASSUME TypeInv, NEW t \in Tasks, Progress(t),
         Permission(t) \/ Download(t) \/ Guard(t) \/ ScriptFails(t)
  PROVE  Progress(t)'
<1>1. ControlStep(t)
  BY StageType
<1>2. ASSUME NEW stage \in {"permission", "download", "guard"}, NEW next,
             StagePasses(t, stage, next), next \in {"download", "guard", "script"}
      PROVE  Progress(t)'
  <2>1. /\ trail'[t] = trail[t] /\ unclear'[t] = unclear[t] /\ trail[t] = <<>>
        /\ pc'[t] \in {"permission", "download", "guard", "script"}
    BY <1>2, Typed DEF StagePasses, Goto, historyVars, Progress
  <2>. QED  BY <1>1, <2>1, QuietProgress
<1>3. ASSUME NEW stage \in {"permission", "download", "guard", "script"}, NEW refusals,
             StageRefuses(t, stage, refusals),
             refusals \subseteq {"blocked", "failed"} \X Errors
      PROVE  Progress(t)'
  <2>1. PICK r \in refusals : Conclude(t, r[1], r[2])
    BY <1>3 DEF StageRefuses
  <2>2. r[1] \in Statuses \ {"none", "ok"} /\ r[2] \in Errors
    BY <1>3 DEF Statuses
  <2>3. InOrder(t)' /\ Sent(t)' \subseteq Sendable(t)
    BY <1>3 DEF StageRefuses, historyVars, Progress, InOrder, Sent, Sendable, Positions, Kind
  <2>. QED  BY <1>3, <2>1, <2>2, <2>3, ConcludeProgress DEF StageRefuses
<1>4. CASE Permission(t)
  BY <1>2, <1>3, <1>4 DEF Permission, Errors, AllAnswers
<1>5. CASE Download(t)
  BY <1>2, <1>3, <1>5 DEF Download, Errors, AllAnswers
<1>6. CASE Guard(t)
  BY <1>2, <1>3, <1>6 DEF Guard, Errors
<1>7. CASE ScriptFails(t)
  BY <1>3, <1>7 DEF ScriptFails, Errors
<1>. QED  BY <1>4, <1>5, <1>6, <1>7

LEMMA StepProgress ==
  ASSUME TypeInv, NEW t \in Tasks, Progress(t), Step(t)
  PROVE  Progress(t)'
<1>1. ControlStep(t)
  BY StepKeepsType
<1>2. CASE Permission(t) \/ Download(t) \/ Guard(t) \/ ScriptFails(t)
  BY <1>2, StageProgress
<1>3. CASE ScriptSucceeds(t)
  <2>1. trail'[t] = <<>> /\ pc[t] # "settled" /\ DispatchFrom(t, 1)
    BY <1>3 DEF ScriptSucceeds, historyVars, Progress
  <2>2. InOrder(t)'
    BY <2>1 DEF InOrder
  <2>3. \A i \in {1} : Reached(t, i)'
    BY <2>1 DEF Reached, Sendable, Positions, Kind
  <2>4. 1 \in 1..(Len(Outputs[t]) + 1)
    BY Constants
  <2>. QED  BY <2>1, <2>2, <2>3, <2>4, FromProgress
<1>4. CASE TakeSlot(t)
  <2>1. /\ pc[t] \in Requesting /\ pc'[t] \in Requesting /\ pc'[t] # "settled"
        /\ UNCHANGED <<idx, last, req, trail, unclear>>
    BY <1>4, Typed DEF TakeSlot, Goto, Requesting, requestVars, historyVars
  <2>. QED  BY <1>1, <2>1, QuietProgress
<1>5. CASE Answered(t)
  BY <1>5, AnsweredProgress
<1>6. CASE BackoffOver(t)
  <2>1. /\ pc[t] \in Requesting /\ pc'[t] \in Requesting /\ pc'[t] # "settled"
        /\ UNCHANGED <<idx, last, req, trail, unclear>>
    BY <1>6, Typed DEF BackoffOver, Goto, Requesting, requestVars, historyVars
  <2>. QED  BY <1>1, <2>1, QuietProgress
<1>7. CASE PauseOver(t)
  <2>1. trail'[t] = <<>> /\ pc'[t] = "permission"
    BY <1>7, Typed DEF PauseOver, Goto, TypeInv, TypeOK
  <2>2. InOrder(t)' /\ Sent(t)' \subseteq Sendable(t)
    BY <2>1 DEF InOrder, Sent
  <2>3. outcome'[t].status # "ok"
    BY <1>1, <2>1 DEF ControlStep, NoOutcome
  <2>. QED  BY <2>1, <2>2, <2>3 DEF Progress, Requesting, Sendable, Positions, Kind
<1>. QED  BY <1>2, <1>3, <1>4, <1>5, <1>6, <1>7 DEF Step

LEMMA NextKeepsDispatch == TypeInv /\ DispatchInv /\ [Next]_vars => DispatchInv'
<1>1. ASSUME TypeInv, DispatchInv, NEW t \in Tasks, Step(t), NEW u \in Tasks
      PROVE  Progress(u)'
  <2>1. CASE u = t
    BY <1>1, <2>1, StepProgress DEF DispatchInv
  <2>2. CASE u # t
    <3>1. ControlStep(t) /\ HistoryStep(t)
      BY <1>1, StepKeepsType
    <3>2. /\ pc'[u] = pc[u] /\ idx'[u] = idx[u] /\ last'[u] = last[u]
          /\ req'[u] = req[u] /\ outcome'[u] = outcome[u]
          /\ trail'[u] = trail[u] /\ unclear'[u] = unclear[u]
      BY <1>1, <2>2, <3>1 DEF ControlStep, HistoryStep, TypeInv, TypeOK
    <3>. QED  BY <1>1, <3>2 DEF DispatchInv, Progress, InOrder, Sent, Underway,
                                Reached, Sendable, Positions, Kind
  <2>. QED  BY <2>1, <2>2
<1>2. ASSUME DispatchInv, UNCHANGED vars
      PROVE  DispatchInv'
  BY <1>2 DEF DispatchInv, Progress, InOrder, Sent, Underway, Reached, Sendable,
              Positions, Kind, vars, requestVars, historyVars
<1>. QED  BY <1>1, <1>2 DEF Next, AllSettled, DispatchInv

\* In every attempt, whatever the platform answers and the other deliveries
\* do, the destination gets the outputs in the order of the channel script,
\* without a gap, and one twice only after an unclear answer.
THEOREM PostsAreInOrder == Spec => []PostsInOrder
<1>1. DispatchInv => PostsInOrder
  BY DEF DispatchInv, Progress, PostsInOrder
<1>. QED  BY InitType, NextKeepsType, InitDispatch, NextKeepsDispatch, <1>1, PTL DEF Spec

\* A delivery that returns ok has brought every output to the destination.
THEOREM OkMeansComplete == Spec => []OkIsComplete
<1>1. DispatchInv => OkIsComplete
  <2>. SUFFICES ASSUME DispatchInv, NEW t \in Tasks, outcome[t].status = "ok"
                PROVE  Sendable(t) = {trail[t][n] : n \in DOMAIN trail[t]}
    BY DEF OkIsComplete
  <2>. QED  BY DEF DispatchInv, Progress, Sent
<1>. QED  BY InitType, NextKeepsType, InitDispatch, NextKeepsDispatch, <1>1, PTL DEF Spec

\* The assertion at the end of the client's loops fails only on an ok without a
\* result to a try that none but a dropped parse_mode came before, for any number
\* of tries greater than one; never because the last try dropped it.
THEOREM ClientAssertion == Spec => []AssertionHolds
<1>1. TypeInv /\ DispatchInv => AssertionHolds
  <2>. SUFFICES ASSUME TypeInv, DispatchInv, NEW t \in Tasks, pc[t] = "post",
                       NEW answer \in AllAnswers, LeavesEmptyHanded(t, answer),
                       req[t].error = "none"
                PROVE  /\ answer = "null"
                       /\ req[t].try = 1 \/ (req[t].try = 2 /\ ~req[t].formatted)
    BY DEF AssertionHolds
  <2>1. req[t].try = 1 \/ (req[t].try = 2 /\ ~req[t].formatted)
    BY DEF DispatchInv, Progress, Underway, Requesting
  <2>2. CASE answer # "null"
    <3>1. CanDropFormat(t, answer) /\ req[t].try = TryLimit(t)
      BY <2>2 DEF LeavesEmptyHanded, IsEmptyHanded
    <3>2. req[t].formatted /\ TryLimit(t) > 1
      BY <3>1, TryLimits DEF CanDropFormat
    <3>. QED  BY <2>1, <3>1, <3>2
  <2>. QED  BY <2>1, <2>2
<1>. QED  BY InitType, NextKeepsType, InitDispatch, NextKeepsDispatch, <1>1, PTL DEF Spec

-------------------------------------------------------------------------------
(* What is not sent again.                                                 *)

\* The output i is not of the same album as the one before it.
BeginsRun(t, i) ==
  i - 1 \in Positions(t) /\ Family(Kind(t, i)) # "none"
    => Family(Kind(t, i - 1)) # Family(Kind(t, i))

\* A request carries a whole run of outputs, all that was confirmed lies below it
\* (or in it, when only an album's markup is asked for), and no output of an album
\* is in doubt while anything may still be sent.
NotAgain(t) ==
  /\ pc[t] \in {"permission", "download", "guard", "script"} => confirmed[t] = {}
  /\ pc[t] \in Requesting =>
       /\ IsUnit(t, idx[t], last[t]) /\ BeginsRun(t, idx[t])
       /\ \A k \in confirmed[t] : k < idx[t] \/ (req[t].part = "markup" /\ k <= last[t])
  /\ pc[t] # "settled" => \A k \in unclear[t] : ~InAlbum(t, k)

ResendInv == \A t \in Tasks : NotAgain(t)

\* An output that makes a request by itself is of no album.
LEMMA SingleIsNotInAlbum ==
  ASSUME NEW t \in Tasks, NEW i \in Positions(t), IsUnit(t, i, i), BeginsRun(t, i)
  PROVE  ~InAlbum(t, i)
BY Constants DEF IsUnit, BeginsRun, InAlbum

\* The output after a request's is not of the same album, stickers between them or not.
LEMMA NextBeginsRun ==
  ASSUME NEW t \in Tasks, NEW i \in Positions(t), NEW e \in i..Len(Outputs[t]),
         IsUnit(t, i, e)
  PROVE  e + 1 \in Positions(t) => BeginsRun(t, e + 1)
<1>1. i \in Nat /\ e \in Nat /\ i <= e /\ (e + 1) - 1 = e
  BY Constants DEF Positions
<1>2. Family(Kind(t, e)) = Family(Kind(t, i))
  BY <1>1 DEF IsUnit
<1>3. e + 1 \in Positions(t) => \/ Family(Kind(t, i)) = "none"
                               \/ Family(Kind(t, e + 1)) # Family(Kind(t, i))
  BY DEF IsUnit
<1>. QED  BY <1>1, <1>2, <1>3 DEF BeginsRun

LEMMA FromNotAgain ==
  ASSUME TypeInv, NEW t \in Tasks, pc[t] # "settled",
         NEW i \in 1..(Len(Outputs[t]) + 1), DispatchFrom(t, i),
         i \in Positions(t) => BeginsRun(t, i),
         \A k \in confirmed'[t] : k < i,
         confirmed'[t] \subseteq Nat,
         \A k \in unclear'[t] : ~InAlbum(t, k)
  PROVE  NotAgain(t)'
<1>1. PICK j \in i..(Len(Outputs[t]) + 1) :
        /\ Continues(t, i, j)
        /\ \/ j \notin Positions(t) /\ DispatchEnds(t)
           \/ \E e \in j..Len(Outputs[t]) :
                /\ IsUnit(t, j, e)
                /\ IF HasMissingFile(t, j, e)
                     THEN Conclude(t, "failed", "dispatch_error")
                     ELSE Ask(t, j, e, "main")
  BY DEF DispatchFrom
<1>2. j \in Nat /\ i \in Nat /\ i <= j /\ Len(Outputs[t]) \in Nat
  BY Constants
<1>3. \A k \in unclear'[t] : ~InAlbum(t, k)'
  BY DEF InAlbum, Kind, Positions
<1>4. CASE Conclude(t, "ok", "none") \/ Conclude(t, "failed", "dispatch_error")
  <2>1. pc'[t] \in {"pause", "settled"}
    BY <1>4, ConcludeStep DEF Statuses, Errors
  <2>. QED  BY <1>3, <2>1 DEF NotAgain, Requesting
<1>5. ASSUME NEW e \in j..Len(Outputs[t]), IsUnit(t, j, e), Ask(t, j, e, "main")
      PROVE  NotAgain(t)'
  <2>1. j \in Positions(t) /\ e \in Nat
    BY <1>2 DEF Positions
  <2>2. /\ pc'[t] \in {"slot", "post"} /\ idx'[t] = j /\ last'[t] = e
    BY <1>5, <2>1, AskStep
  <2>3. BeginsRun(t, j)
    <3>1. CASE j = i
      BY <2>1, <3>1
    <3>2. CASE j # i
      <4>1. Kind(t, j - 1) = "sticker"
        BY <1>1, <1>2, <3>2 DEF Continues, IsSkipped
      <4>. QED  BY <4>1 DEF BeginsRun, Family
    <3>. QED  BY <3>1, <3>2
  <2>4. IsUnit(t, idx[t], last[t])'
    BY <1>5, <2>2 DEF IsUnit, Kind, Positions
  <2>5. BeginsRun(t, idx[t])'
    BY <2>2, <2>3 DEF BeginsRun, Kind, Positions
  <2>6. \A k \in confirmed'[t] : k < idx'[t]
    BY <1>2, <2>2
  <2>. QED  BY <1>3, <2>2, <2>4, <2>5, <2>6 DEF NotAgain
<1>. QED  BY <1>1, <1>4, <1>5 DEF DispatchEnds

\* What an answer makes known and leaves in doubt.
LEMMA ObserveDoubt ==
  ASSUME TypeInv, NEW t \in Tasks, pc[t] \in Requesting, Underway(t), NotAgain(t),
         NEW answer, Observe(t, answer)
  PROVE  /\ confirmed'[t] \subseteq Nat
         /\ \A k \in confirmed'[t] : k < last[t] + 1
         /\ answer # "ok" => confirmed'[t] = confirmed[t]
         /\ ~(IsAlbumRequest(t) /\ IsUnclear(t, answer)) =>
              \A k \in unclear'[t] : ~InAlbum(t, k)
<1>1. /\ idx[t] \in Nat /\ last[t] \in Nat /\ idx[t] <= last[t]
      /\ idx[t] \in Positions(t)
      /\ confirmed \in [Tasks -> SUBSET Nat] /\ unclear \in [Tasks -> SUBSET Nat]
      /\ req[t].part \in {"main", "fallback", "markup"}
  BY Typed, Constants DEF Positions, TypeInv, TypeOK
<1>2. /\ confirmed'[t] = IF answer = "ok" THEN confirmed[t] \cup Carried(t) ELSE confirmed[t]
      /\ unclear'[t] = IF IsUnclear(t, answer) THEN unclear[t] \cup Carried(t) ELSE unclear[t]
  BY <1>1 DEF Observe
<1>3. Carried(t) \subseteq Nat /\ \A k \in Carried(t) : k < last[t] + 1
  BY <1>1 DEF Carried
<1>4. confirmed[t] \subseteq Nat /\ \A k \in confirmed[t] : k < last[t] + 1
  BY <1>1 DEF NotAgain
<1>5. ASSUME ~IsAlbumRequest(t) PROVE \A k \in Carried(t) : ~InAlbum(t, k)
  <2>1. CASE req[t].part = "markup"
    BY <2>1 DEF Carried
  <2>2. CASE req[t].part # "markup"
    <3>1. idx[t] = last[t]
      BY <1>1, <1>5, <2>2 DEF IsAlbumRequest, IsAlbum, Underway
    <3>2. Carried(t) = {idx[t]}
      BY <1>1, <2>2, <3>1 DEF Carried
    <3>. QED  BY <1>1, <3>1, <3>2, SingleIsNotInAlbum DEF NotAgain
  <2>. QED  BY <2>1, <2>2
<1>6. \A k \in unclear[t] : ~InAlbum(t, k)
  BY DEF NotAgain, Requesting
<1>. QED  BY <1>2, <1>3, <1>4, <1>5, <1>6

LEMMA AnsweredNotAgain ==
  ASSUME TypeInv, NEW t \in Tasks, Progress(t), NotAgain(t), Answered(t)
  PROVE  NotAgain(t)'
<1>1. PICK answer \in Answers \cup {"ok"} :
        /\ Observe(t, answer)
        /\ \/ answer = "ok" /\ Accepted(t)
           \/ answer # "ok" /\ ClientRepeats(t, answer)
           \/ answer # "ok" /\ GivesUp(t, Raised(t, answer))
  BY DEF Answered
<1>2. /\ pc[t] = "post" /\ pc[t] \in Requesting /\ pc[t] # "settled" /\ Underway(t)
      /\ answer \in AllAnswers \cup {"ok"}
  BY DispatchAssumption DEF DispatchAssumption, Answered, Requesting, Progress
<1>3. /\ idx[t] \in Positions(t) /\ last[t] \in idx[t]..Len(Outputs[t])
      /\ idx[t] \in Nat /\ last[t] \in Nat /\ Len(Outputs[t]) \in Nat
      /\ idx[t] <= last[t] /\ idx[t] > 0 /\ req[t] \in Requests
      /\ IsUnit(t, idx[t], last[t]) /\ BeginsRun(t, idx[t])
  BY <1>2, Typed, Constants DEF Positions, NotAgain
<1>4. /\ confirmed'[t] \subseteq Nat
      /\ \A k \in confirmed'[t] : k < last[t] + 1
      /\ answer # "ok" => confirmed'[t] = confirmed[t]
      /\ ~(IsAlbumRequest(t) /\ IsUnclear(t, answer)) =>
           \A k \in unclear'[t] : ~InAlbum(t, k)
  BY <1>1, <1>2, ObserveDoubt
<1>5. CASE answer = "ok" /\ Accepted(t)
  <2>1. \A k \in unclear'[t] : ~InAlbum(t, k)
    BY <1>4, <1>5 DEF IsUnclear
  <2>2. CASE Ask(t, idx[t], last[t], "markup")
    <3>1. /\ pc'[t] \in {"slot", "post"} /\ idx'[t] = idx[t] /\ last'[t] = last[t]
          /\ req'[t].part = "markup"
      BY <1>2, <1>3, <2>2, AskStep
    <3>2. \A k \in confirmed'[t] : k <= last[t]
      BY <1>3, <1>4
    <3>. QED  BY <1>3, <2>1, <3>1, <3>2
              DEF NotAgain, IsUnit, BeginsRun, InAlbum, Kind, Positions
  <2>3. CASE DispatchFrom(t, NextPosition(t))
    <3>1. PICK m \in Nat : m = NextPosition(t)
      BY <1>3 DEF NextPosition
    <3>2. m \in 1..(Len(Outputs[t]) + 1) /\ m = last[t] + 1
      BY <1>3, <3>1 DEF NextPosition
    <3>3. m \in Positions(t) => BeginsRun(t, m)
      BY <1>3, <3>2, NextBeginsRun
    <3>4. DispatchFrom(t, m)
      BY <2>3, <3>1
    <3>. QED  BY <1>2, <1>4, <2>1, <3>2, <3>3, <3>4, FromNotAgain
  <2>. QED  BY <1>5, <2>2, <2>3 DEF Accepted
<1>6. CASE answer # "ok" /\ ClientRepeats(t, answer)
  <2>1. ~IsAlbumRequest(t)
    BY <1>3, <1>6, TryLimits DEF ClientRepeats, Requests
  <2>2. idx'[t] = idx[t] /\ last'[t] = last[t]
    BY <1>6 DEF ClientRepeats
  <2>3. pc'[t] \in Requesting /\ req'[t].part = req[t].part
    <3>1. CASE TryUnformatted(t)
      BY <1>3, <3>1, Typed DEF TryUnformatted, Goto, Requesting, Requests
    <3>2. CASE TryAfterBackoff(t, answer)
      BY <1>2, <1>3, <1>6, <3>2, Typed
         DEF TryAfterBackoff, Goto, Requesting, Requests, AllAnswers
    <3>. QED  BY <1>6, <3>1, <3>2 DEF ClientRepeats
  <2>. QED  BY <1>2, <1>3, <1>4, <1>6, <2>1, <2>2, <2>3
            DEF NotAgain, Requesting, IsUnit, BeginsRun, InAlbum, Kind, Positions
<1>7. CASE answer # "ok" /\ GivesUp(t, Raised(t, answer))
  <2>1. CASE /\ FallsBack(t, Raised(t, answer))
             /\ Ask(t, idx[t], last[t], "fallback")
    <3>1. /\ pc'[t] \in {"slot", "post"} /\ idx'[t] = idx[t] /\ last'[t] = last[t]
          /\ req'[t].part = "fallback"
      BY <1>2, <1>3, <2>1, AskStep
    <3>2. req[t].part = "main" /\ ~IsAlbumRequest(t)
      BY <2>1 DEF FallsBack, IsAlbumRequest
    <3>. QED  BY <1>2, <1>3, <1>4, <1>7, <3>1, <3>2
              DEF NotAgain, Requesting, IsUnit, BeginsRun, InAlbum, Kind, Positions
  <2>2. CASE Conclude(t, Verdict(t, Raised(t, answer)), Raised(t, answer))
    <3>1. Raised(t, answer) \in Errors
      BY <1>2, <1>3, <1>7 DEF Raised, IsEmptyHanded, CanDropFormat, Requests, Errors
    <3>2. Verdict(t, Raised(t, answer)) \in Statuses \ {"none", "ok"}
      BY DEF Verdict, Statuses
    <3>3. pc'[t] \in {"pause", "settled"}
      BY <1>2, <2>2, <3>1, <3>2, ConcludeStep
    (* An album in doubt is not tried again: it is ambiguous, or garbled. *)
    <3>4. IsAlbumRequest(t) /\ IsUnclear(t, answer) => pc'[t] = "settled"
      <4>. SUFFICES ASSUME IsAlbumRequest(t), IsUnclear(t, answer) PROVE pc'[t] = "settled"
        OBVIOUS
      <4>1. Raised(t, answer) = answer /\ IsAlbum(t)
        BY DEF Raised, IsEmptyHanded, CanDropFormat, IsAlbumRequest
      <4>2. ~TriesAgain(t, Verdict(t, answer), answer)
        BY <4>1 DEF TriesAgain, Verdict, Transient, IsUnclear
      <4>3. pc' = [pc EXCEPT ![t] = "settled"]
        BY <2>2, <4>1, <4>2 DEF Conclude, Goto
      <4>. QED  BY <4>3, Typed
    <3>5. pc'[t] # "settled" => \A k \in unclear'[t] : ~InAlbum(t, k)'
      BY <1>4, <3>4 DEF InAlbum, Kind, Positions
    <3>. QED  BY <3>3, <3>5 DEF NotAgain, Requesting
  <2>. QED  BY <1>7, <2>1, <2>2 DEF GivesUp
<1>. QED  BY <1>1, <1>5, <1>6, <1>7

LEMMA StepNotAgain ==
  ASSUME TypeInv, NEW t \in Tasks, Progress(t), NotAgain(t), Step(t)
  PROVE  NotAgain(t)'
<1>. USE DEF IsUnit, BeginsRun, InAlbum, Kind, Positions
<1>1. CASE Permission(t) \/ Download(t) \/ Guard(t) \/ ScriptFails(t)
  <2>1. /\ pc[t] # "settled" /\ UNCHANGED <<confirmed, unclear>>
        /\ pc[t] \in {"permission", "download", "guard", "script"}
    BY <1>1 DEF Permission, Download, Guard, ScriptFails, StagePasses, StageRefuses, historyVars
  <2>2. ControlStep(t) /\ pc'[t] \in {"download", "guard", "script", "pause", "settled"}
    <3>1. ASSUME NEW stage, NEW next, StagePasses(t, stage, next),
                 next \in {"download", "guard", "script"}
          PROVE  pc'[t] \in {"download", "guard", "script"}
      BY <3>1, Typed DEF StagePasses, Goto
    <3>2. ASSUME NEW stage, NEW refusals, StageRefuses(t, stage, refusals)
          PROVE  pc'[t] \in {"pause", "settled"}
      BY <3>2, Typed DEF StageRefuses, Conclude, Goto
    <3>. QED  BY <1>1, <3>1, <3>2, StageType DEF Permission, Download, Guard, ScriptFails
  <2>. QED  BY <2>1, <2>2 DEF NotAgain, Requesting
<1>2. CASE ScriptSucceeds(t)
  <2>1. /\ pc[t] = "script" /\ DispatchFrom(t, 1)
        /\ confirmed' = confirmed /\ unclear' = unclear
    BY <1>2 DEF ScriptSucceeds, historyVars
  <2>2. confirmed'[t] = {} /\ \A k \in unclear'[t] : ~InAlbum(t, k)
    BY <2>1 DEF NotAgain
  <2>3. 1 \in 1..(Len(Outputs[t]) + 1) /\ 1 - 1 \notin Positions(t)
    BY Constants
  <2>4. BeginsRun(t, 1)
    BY <2>3
  <2>. QED  BY <2>1, <2>2, <2>3, <2>4, FromNotAgain
<1>3. CASE TakeSlot(t) \/ BackoffOver(t)
  <2>1. /\ pc[t] \in Requesting /\ pc'[t] \in Requesting
        /\ UNCHANGED <<idx, last, req, confirmed, unclear>>
    BY <1>3, Typed DEF TakeSlot, BackoffOver, Goto, Requesting, requestVars, historyVars
  <2>. QED  BY <2>1 DEF NotAgain, Requesting
<1>4. CASE Answered(t)
  BY <1>4, AnsweredNotAgain
<1>5. CASE PauseOver(t)
  <2>1. pc[t] = "pause" /\ pc'[t] = "permission" /\ confirmed'[t] = {} /\ unclear' = unclear
    BY <1>5, Typed DEF PauseOver, Goto, TypeInv, TypeOK
  <2>. QED  BY <2>1 DEF NotAgain, Requesting
<1>. QED  BY <1>1, <1>2, <1>3, <1>4, <1>5 DEF Step

LEMMA NextKeepsResend ==
  TypeInv /\ DispatchInv /\ ResendInv /\ [Next]_vars => ResendInv'
<1>. USE DEF NotAgain, IsUnit, BeginsRun, InAlbum, Kind, Positions
<1>1. ASSUME TypeInv, DispatchInv, ResendInv, NEW t \in Tasks, Step(t), NEW u \in Tasks
      PROVE  NotAgain(u)'
  <2>1. CASE u = t
    BY <1>1, <2>1, StepNotAgain DEF DispatchInv, ResendInv
  <2>2. CASE u # t
    <3>1. ControlStep(t) /\ HistoryStep(t)
      BY <1>1, StepKeepsType
    <3>2. /\ pc'[u] = pc[u] /\ idx'[u] = idx[u] /\ last'[u] = last[u] /\ req'[u] = req[u]
          /\ confirmed'[u] = confirmed[u] /\ unclear'[u] = unclear[u]
      BY <1>1, <2>2, <3>1 DEF ControlStep, HistoryStep, TypeInv, TypeOK
    <3>. QED  BY <1>1, <3>2 DEF ResendInv
  <2>. QED  BY <2>1, <2>2
<1>2. ASSUME ResendInv, UNCHANGED vars
      PROVE  ResendInv'
  BY <1>2 DEF ResendInv, vars, requestVars, historyVars
<1>. QED  BY <1>1, <1>2 DEF Next, AllSettled, ResendInv

\* What a step adds to a trail is what the delivery's request carries.
LEMMA OnlyTheRequestArrives ==
  ASSUME TypeInv, [Next]_vars, NEW t \in Tasks, NEW n \in DOMAIN trail'[t] \ DOMAIN trail[t]
  PROVE  /\ pc[t] = "post" /\ req[t].part # "markup"
         /\ idx[t] \in Nat /\ trail'[t][n] \in Nat /\ trail'[t][n] >= idx[t]
<1>1. ~(UNCHANGED trail)
  OBVIOUS
<1>2. PICK u \in Tasks : Step(u)
  BY <1>1 DEF Next, AllSettled, vars, historyVars
<1>3. u = t
  <2>1. HistoryStep(u)
    BY <1>2, StepKeepsType
  <2>. QED  BY <2>1 DEF HistoryStep, TypeInv, TypeOK
<1>4. CASE PauseOver(t)
  BY <1>4 DEF PauseOver, TypeInv, TypeOK
<1>5. CASE Answered(t)
  <2>1. PICK answer : Observe(t, answer)
    BY <1>5 DEF Answered
  <2>2. pc[t] = "post" /\ pc[t] \in Requesting
    BY <1>5 DEF Answered, Requesting
  <2>3. /\ req[t].part # "markup"
        /\ DOMAIN trail'[t] = 1..(Len(trail[t]) + last[t] - idx[t] + 1)
        /\ trail'[t][n] = idx[t] + (n - Len(trail[t])) - 1
    BY <2>1, <2>2, ObserveTrail
  <2>4. /\ idx[t] \in Nat /\ last[t] \in Nat /\ Len(trail[t]) \in Nat
        /\ DOMAIN trail[t] = 1..Len(trail[t])
    BY Typed DEF TypeInv, TypeOK
  <2>5. n \in Nat /\ n > Len(trail[t])
    BY <2>3, <2>4
  <2>. QED  BY <2>2, <2>3, <2>4, <2>5
<1>6. CASE /\ ~PauseOver(t) /\ ~Answered(t)
  BY <1>1, <1>2, <1>3, <1>6
     DEF Step, Permission, Download, Guard, ScriptFails, StagePasses, StageRefuses,
         ScriptSucceeds, TakeSlot, BackoffOver, historyVars
<1>. QED  BY <1>4, <1>5, <1>6

LEMMA InitResend == Init => ResendInv
BY DEF Init, ResendInv, NotAgain, Requesting

\* src/kiwi/dispatcher.py 80-127, src/kiwi/platforms/client.py: within an attempt no
\* output the platform has confirmed is sent again, whatever requests are
\* repeated, fall back to another form or are followed by an album's markup.
THEOREM ConfirmedIsNeverResent == Spec => ConfirmedIsNotResent
<1>1. TypeInv /\ ResendInv /\ [Next]_vars =>
        [\A t \in Tasks : \A n \in DOMAIN trail'[t] \ DOMAIN trail[t] :
           attempt'[t] = attempt[t] => trail'[t][n] \notin confirmed[t]]_vars
  <2>. SUFFICES ASSUME TypeInv, ResendInv, [Next]_vars, NEW t \in Tasks,
                       NEW n \in DOMAIN trail'[t] \ DOMAIN trail[t]
                PROVE  trail'[t][n] \notin confirmed[t]
    OBVIOUS
  <2>1. /\ pc[t] = "post" /\ req[t].part # "markup"
        /\ idx[t] \in Nat /\ trail'[t][n] \in Nat /\ trail'[t][n] >= idx[t]
    BY OnlyTheRequestArrives
  <2>2. \A k \in confirmed[t] : k < idx[t]
    BY <2>1 DEF ResendInv, NotAgain, Requesting
  <2>. QED  BY <2>1, <2>2
<1>. QED  BY InitType, NextKeepsType, InitDispatch, NextKeepsDispatch, InitResend,
             NextKeepsResend, <1>1, PTL DEF Spec, ConfirmedIsNotResent

\* src/kiwi/platforms/client.py 243-251, src/kiwi/service.py 2481-2543 ("Media-group
\* delivery is not safely retryable"): an output of an album whose
\* sendMediaGroup had no clear answer is sent again neither by the client, nor by
\* the dispatcher, nor in a later attempt of the delivery.
THEOREM AlbumInDoubtIsNeverResent == Spec => AlbumInDoubtIsNotResent
<1>1. TypeInv /\ ResendInv /\ [Next]_vars =>
        [\A t \in Tasks : \A n \in DOMAIN trail'[t] \ DOMAIN trail[t] :
           trail'[t][n] \in unclear[t] => ~InAlbum(t, trail'[t][n])]_vars
  BY OnlyTheRequestArrives DEF ResendInv, NotAgain
<1>. QED  BY InitType, NextKeepsType, InitDispatch, NextKeepsDispatch, InitResend,
             NextKeepsResend, <1>1, PTL DEF Spec, AlbumInDoubtIsNotResent
===============================================================================
