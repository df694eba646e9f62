------------------------------- MODULE Dispatch -------------------------------
(***************************************************************************)
(* The delivery of messages: the attempts of                               *)
(* _process_route_message_with_retries, the stages of an attempt           *)
(* (permission, download, guard, channel script), the dispatcher that      *)
(* sends the outputs of the script in order, and the client that repeats a *)
(* request.  Several workers deliver at once, one message each; they share *)
(* one dispatcher and one client.                                          *)
(*                                                                         *)
(* An action runs from one await to the next.  What the platform does with *)
(* a request is its choice: it answers, or the answer is lost and it may   *)
(* have accepted the request or not.                                       *)
(***************************************************************************)
EXTENDS Naturals, Sequences, FiniteSets

CONSTANTS
  Tasks,        \* the deliveries under way
  Outputs,      \* Outputs[t]: what the channel script makes of the message
  Retries,      \* sync_retry_attempts of the route
  MessageTries, \* 3 in send_message
  FileTries,    \* 5 in _send_file
  Slots,        \* upload_max_concurrency; 0 means no limit
  Fallback,     \* media_upload_fallback_mode: "none", "text" or "document"
  Answers       \* the answers, other than ok, the platform may give

Kinds == {"text", "photo", "video", "document", "audio", "voice", "animation",
          "sticker", "video_note"}

\* lost: a network error, or a text that says timeout.  server: another HTTP
\* 5xx.  bytes: "failed to upload file bytes".  parse: "can't parse entities".
\* denied: forbidden.  large: HTTP 413.  other: any other API error.
\* garbled: HTTP 200 with a body or a result of another type than the method's.
\* null: HTTP 200 and ok, without a result.
AllAnswers == {"lost", "server", "bytes", "parse", "denied", "large", "other",
               "garbled", "null"}

ASSUME DispatchAssumption ==
  /\ Outputs \in [Tasks -> Seq([kind : Kinds, missing : BOOLEAN,
                                link : BOOLEAN, markup : BOOLEAN])]
  /\ Retries \in Nat
  /\ MessageTries \in Nat \ {0, 1}
  /\ FileTries \in Nat \ {0, 1}
  /\ Slots \in Nat
  /\ Fallback \in {"none", "text", "document"}
  /\ Answers \subseteq AllAnswers

VARIABLES
  pc,        \* the await each delivery is suspended in
  attempt,   \* number of the attempt under way
  idx,       \* position of the first output of the request under way
  last,      \* position of its last output: greater than idx for an album
  req,       \* the request under way: which of the unit's requests, its try,
             \* whether it still has a parse_mode, and last_error
  outcome,   \* what the delivery returned
  collected, \* last_dispatch_message_ids, as the outputs the ids stand for
  reported,  \* the ids the audit record of a delivery names
  trail,     \* history: the outputs the destination got in this attempt
  confirmed, \* history: the outputs of this attempt the platform confirmed
  unclear    \* history: outputs sent in any attempt whose fate was not answered

requestVars == <<idx, last, req>>
historyVars == <<trail, confirmed, unclear>>
vars == <<pc, attempt, requestVars, outcome, collected, reported, historyVars>>

Awaits == {"permission", "download", "guard", "script", "slot", "post",
           "backoff", "pause", "settled"}
Requesting == {"slot", "post", "backoff"}
Statuses == {"none", "ok", "blocked", "failed", "ambiguous"}
Errors == AllAnswers \cup
  {"none", "too_large", "source_unavailable", "download_timeout", "local_error",
   "guard_denied", "guard_error", "no_output", "script_error", "script_timeout",
   "ai_required", "not_acceptable", "dispatch_error", "retry_exhausted"}

Positions(t) == 1..Len(Outputs[t])

Ids == {x \in Tasks \X Nat : x[2] \in Positions(x[1])}

NoOutcome == [status |-> "none", error |-> "none"]

TypeOK ==
  /\ pc \in [Tasks -> Awaits]
  /\ attempt \in [Tasks -> 1..(Retries + 1)]
  /\ idx \in [Tasks -> Nat]
  /\ last \in [Tasks -> Nat]
  /\ req \in [Tasks -> [part : {"main", "fallback", "markup"},
                        try : 1..(MessageTries + FileTries),
                        formatted : BOOLEAN,
                        error : AllAnswers \cup {"none"}]]
  /\ outcome \in [Tasks -> [status : Statuses, error : Errors]]
  /\ collected \subseteq Ids
  /\ reported \in [Tasks -> SUBSET Ids]
  /\ trail \in [Tasks -> Seq(Nat)]
  /\ confirmed \in [Tasks -> SUBSET Nat]
  /\ unclear \in [Tasks -> SUBSET Nat]
  /\ \A t \in Tasks :
       /\ pc[t] \in Requesting => /\ idx[t] \in Positions(t)
                                 /\ last[t] \in idx[t]..Len(Outputs[t])
       /\ outcome[t] = NoOutcome <=> pc[t] # "settled"

Init ==
  /\ pc = [t \in Tasks |-> "permission"]
  /\ attempt = [t \in Tasks |-> 1]
  /\ idx = [t \in Tasks |-> 1]
  /\ last = [t \in Tasks |-> 1]
  /\ req = [t \in Tasks |-> [part |-> "main", try |-> 1, formatted |-> FALSE,
                             error |-> "none"]]
  /\ outcome = [t \in Tasks |-> NoOutcome]
  /\ collected = {}
  /\ reported = [t \in Tasks |-> {}]
  /\ trail = [t \in Tasks |-> <<>>]
  /\ confirmed = [t \in Tasks |-> {}]
  /\ unclear = [t \in Tasks |-> {}]

Goto(t, await) == pc' = [pc EXCEPT ![t] = await]

-------------------------------------------------------------------------------
(* The attempts and the stages before the dispatch.                        *)

Transient(e) == e \in {"lost", "server", "bytes", "download_timeout"}

\* _process_route_message_with_retries: an attempt has ended with a status and
\* an error; either another one follows after a pause or the delivery returns.
TriesAgain(t, s, e) ==
  /\ s = "failed"
  /\ e = "script_timeout" \/ Transient(e)
  /\ attempt[t] <= Retries

Returned(s, e) ==
  CASE e = "not_acceptable" -> [status |-> "blocked", error |-> e]
    [] e = "script_timeout" -> [status |-> "failed", error |-> "retry_exhausted"]
    [] OTHER -> [status |-> s, error |-> e]

\* Bug: an attempt that is repeated has already returned its result.
ConcludeAtOnce(t, s, e) ==
  /\ Goto(t, IF TriesAgain(t, s, e) THEN "pause" ELSE "settled")
  /\ outcome' = [outcome EXCEPT ![t] = Returned(s, e)]
  /\ UNCHANGED <<attempt, requestVars>>

Conclude(t, s, e) ==
  /\ IF TriesAgain(t, s, e)
       THEN Goto(t, "pause") /\ UNCHANGED outcome
       ELSE Goto(t, "settled") /\ outcome' = [outcome EXCEPT ![t] = Returned(s, e)]
  /\ UNCHANGED <<attempt, requestVars>>

\* Bug: the attempts are not counted.
PauseOverUncounted(t) ==
  /\ pc[t] = "pause"
  /\ Goto(t, "permission")
  /\ trail' = [trail EXCEPT ![t] = <<>>]
  /\ confirmed' = [confirmed EXCEPT ![t] = {}]
  /\ UNCHANGED <<attempt, requestVars, outcome, collected, reported, unclear>>

PauseOver(t) ==
  /\ pc[t] = "pause"
  /\ Goto(t, "permission")
  /\ attempt' = [attempt EXCEPT ![t] = @ + 1]
  /\ trail' = [trail EXCEPT ![t] = <<>>]
  /\ confirmed' = [confirmed EXCEPT ![t] = {}]
  /\ UNCHANGED <<requestVars, outcome, collected, reported, unclear>>

\* A stage passes, or ends the attempt with one of its refusals.
StagePasses(t, stage, next) ==
  /\ pc[t] = stage
  /\ Goto(t, next)
  /\ UNCHANGED <<attempt, requestVars, outcome, collected, reported, historyVars>>

StageRefuses(t, stage, refusals) ==
  /\ pc[t] = stage
  /\ \E r \in refusals : Conclude(t, r[1], r[2])
  /\ UNCHANGED <<collected, reported, historyVars>>

\* _check_dispatch_permission; an error that is not a refusal lets it pass.
Permission(t) ==
  \/ StagePasses(t, "permission", "download")
  \/ StageRefuses(t, "permission", {<<"blocked", "denied">>})

\* Storage, the source's files, the payload.
Download(t) ==
  \/ StagePasses(t, "download", "guard")
  \/ StageRefuses(t, "download",
       {<<"blocked", "too_large">>, <<"blocked", "source_unavailable">>,
        <<"failed", "download_timeout">>, <<"failed", "lost">>,
        <<"failed", "server">>, <<"failed", "local_error">>})

Guard(t) ==
  \/ StagePasses(t, "guard", "script")
  \/ StageRefuses(t, "guard",
       {<<"blocked", "guard_denied">>, <<"failed", "guard_error">>})

\* no_output: nothing, nothing within the size limit, or nothing but promotion.
ScriptFails(t) ==
  StageRefuses(t, "script",
    {<<"blocked", "no_output">>, <<"failed", "script_error">>,
     <<"failed", "script_timeout">>, <<"failed", "ai_required">>,
     <<"failed", "not_acceptable">>})

-------------------------------------------------------------------------------
(* The dispatcher.                                                         *)

Kind(t, i) == Outputs[t][i].kind

Family(kind) ==
  CASE kind \in {"photo", "video"} -> "visual"
    [] kind \in {"document", "audio"} -> kind
    [] OTHER -> "none"

\* The outputs i..e are sent together: a run of one family, which is an album
\* if it is longer than one, or a single output that is of no family.
IsUnit(t, i, e) ==
  /\ \A k \in (i + 1)..e : /\ Family(Kind(t, k)) = Family(Kind(t, i))
                           /\ Family(Kind(t, i)) # "none"
  /\ e + 1 \in Positions(t) => \/ Family(Kind(t, i)) = "none"
                              \/ Family(Kind(t, e + 1)) # Family(Kind(t, i))

\* A sticker is resolved to its file and then not sent.
IsSkipped(t, i) == Kind(t, i) = "sticker" /\ ~Outputs[t][i].missing

\* From position i on, the next output to be sent is j; past the end, none is.
Continues(t, i, j) ==
  /\ \A k \in i..(j - 1) : k \in Positions(t) /\ IsSkipped(t, k)
  /\ j \in Positions(t) => ~IsSkipped(t, j)
  /\ j <= Len(Outputs[t]) + 1

\* All files of a unit are looked up before any of them is sent.
HasMissingFile(t, i, e) ==
  \E k \in i..e : Kind(t, k) # "text" /\ Outputs[t][k].missing

HasLink(t, i, e) == \E k \in i..e : Outputs[t][k].link

\* sendMessage does not upload and takes no slot.
IsUpload(t, i, part) ==
  /\ part # "markup"
  /\ Kind(t, i) # "text"
  /\ part = "fallback" => Fallback = "document"

Ask(t, i, e, part) ==
  /\ Goto(t, IF IsUpload(t, i, part) THEN "slot" ELSE "post")
  /\ idx' = [idx EXCEPT ![t] = i]
  /\ last' = [last EXCEPT ![t] = e]
  /\ req' = [req EXCEPT ![t] =
                [part |-> part, try |-> 1, error |-> "none",
                 formatted |-> part # "markup" /\ HasLink(t, i, e)]]
  /\ UNCHANGED <<attempt, outcome>>

\* Nothing is left: the ids the dispatcher has collected are read, unless the
\* traffic history cannot be written, which fails the attempt after all.
DispatchEnds(t) ==
  \/ /\ Conclude(t, "ok", "none")
     /\ reported' = [reported EXCEPT ![t] = collected']
  \/ /\ Conclude(t, "failed", "dispatch_error")
     /\ UNCHANGED reported

\* dispatch, from position i to its next request or to its end.
DispatchFrom(t, i) ==
  \E j \in i..(Len(Outputs[t]) + 1) :
    /\ Continues(t, i, j)
    /\ \/ j \notin Positions(t) /\ DispatchEnds(t)
       \/ \E e \in j..Len(Outputs[t]) :
            /\ IsUnit(t, j, e)
            /\ IF HasMissingFile(t, j, e)
                 THEN Conclude(t, "failed", "dispatch_error")
                 ELSE Ask(t, j, e, "main")
            /\ UNCHANGED reported

\* The script has succeeded; dispatch empties the shared list of ids.
ScriptSucceeds(t) ==
  /\ pc[t] = "script"
  /\ collected' = {}
  /\ DispatchFrom(t, 1)
  /\ UNCHANGED historyVars

Uploading ==
  {t \in Tasks : pc[t] = "post" /\ IsUpload(t, idx[t], req[t].part)}

TakeSlot(t) ==
  /\ pc[t] = "slot"
  /\ Slots = 0 \/ Cardinality(Uploading) < Slots
  /\ Goto(t, "post")
  /\ UNCHANGED <<attempt, requestVars, outcome, collected, reported, historyVars>>

-------------------------------------------------------------------------------
(* A request and its answer.                                               *)

IsAlbum(t) == idx[t] < last[t]

IsAlbumRequest(t) == req[t].part = "main" /\ IsAlbum(t)

\* The outputs a request carries; the markup that follows an album carries
\* none.
Carried(t) == IF req[t].part = "markup" THEN {} ELSE idx[t]..last[t]

CarriedInOrder(t) ==
  IF req[t].part = "markup" THEN <<>>
  ELSE [n \in 1..(last[t] - idx[t] + 1) |-> idx[t] + n - 1]

\* Bug: an album is sent again like any other file.
TryLimitOfFiles(t) ==
  IF IsUpload(t, idx[t], req[t].part) THEN FileTries ELSE MessageTries

\* Albums are sent once: the client does not repeat sendMediaGroup.
TryLimit(t) ==
  CASE IsAlbumRequest(t) -> 1
    [] ~IsAlbumRequest(t) /\ IsUpload(t, idx[t], req[t].part) -> FileTries
    [] OTHER -> MessageTries

\* Answers after which the platform may have accepted the request or not.
IsUnclear(t, answer) ==
  \/ answer \in {"lost", "garbled", "null"}
  \/ IsAlbumRequest(t) /\ answer \in {"server", "bytes"}

\* History: what the destination got and what of it is known.
Observe(t, answer) ==
  /\ \/ /\ answer = "ok" \/ IsUnclear(t, answer)
        /\ trail' = [trail EXCEPT ![t] = @ \o CarriedInOrder(t)]
     \/ answer # "ok" /\ UNCHANGED trail
  /\ confirmed' = [confirmed EXCEPT ![t] =
                     IF answer = "ok" THEN @ \cup Carried(t) ELSE @]
  /\ unclear' = [unclear EXCEPT ![t] =
                   IF IsUnclear(t, answer) THEN @ \cup Carried(t) ELSE @]

\* Bug: after an album the dispatcher goes on with the album's second output.
NextPositionByOne(t) == idx[t] + 1

NextPosition(t) == last[t] + 1

HasMarkup(t) == \E k \in idx[t]..last[t] : Outputs[t][k].markup

\* The platform has confirmed the request.  An album's markup follows as a
\* message of its own.
Accepted(t) ==
  /\ collected' = collected \cup {<<t, i>> : i \in idx[t]..last[t]}
  /\ IF IsAlbumRequest(t) /\ HasMarkup(t)
       THEN Ask(t, idx[t], last[t], "markup") /\ UNCHANGED reported
       ELSE DispatchFrom(t, NextPosition(t))

\* The client tries again: at once without parse_mode, or after a back-off.
CanDropFormat(t, answer) ==
  answer = "parse" /\ req[t].formatted /\ ~IsAlbumRequest(t)

\* Bug: parse_mode stays in the payload.
TryUnchanged(t) ==
  /\ Goto(t, IF IsUpload(t, idx[t], req[t].part) THEN "slot" ELSE "post")
  /\ req' = [req EXCEPT ![t].try = @ + 1]

TryUnformatted(t) ==
  /\ Goto(t, IF IsUpload(t, idx[t], req[t].part) THEN "slot" ELSE "post")
  /\ req' = [req EXCEPT ![t].try = @ + 1, ![t].formatted = FALSE]

TryAfterBackoff(t, answer) ==
  /\ Goto(t, "backoff")
  /\ req' = [req EXCEPT ![t].try = @ + 1, ![t].error = answer]

ClientRepeats(t, answer) ==
  /\ req[t].try < TryLimit(t)
  /\ \/ CanDropFormat(t, answer) /\ TryUnformatted(t)
     \/ answer \in {"lost", "server", "bytes"} /\ TryAfterBackoff(t, answer)
  /\ UNCHANGED <<attempt, idx, last, outcome, collected, reported>>

BackoffOver(t) ==
  /\ pc[t] = "backoff"
  /\ Goto(t, IF IsUpload(t, idx[t], req[t].part) THEN "slot" ELSE "post")
  /\ UNCHANGED <<attempt, requestVars, outcome, collected, reported, historyVars>>

\* The client leaves its loop with neither a response nor an error of this try:
\* the platform gave no result, or the last try only dropped the parse_mode.
IsEmptyHanded(t, answer) ==
  CanDropFormat(t, answer) \/ (answer = "null" /\ ~IsAlbumRequest(t))

\* The error the client raises: that of this try, or else that of an earlier one.
\* When there was none its assertion fails, an error without a name.
Raised(t, answer) ==
  IF ~IsEmptyHanded(t, answer) THEN answer
  ELSE IF req[t].error # "none" THEN req[t].error ELSE "dispatch_error"

\* The dispatcher may send a file that was refused in another form.
FallsBack(t, error) ==
  /\ req[t].part = "main"
  /\ ~IsAlbum(t)
  /\ Kind(t, idx[t]) \notin {"text", "video_note"}
  /\ error \in {"bytes", "large"}
  /\ \/ Fallback = "text"
     \/ Fallback = "document" /\ Kind(t, idx[t]) # "photo"

\* Bug: the errors of sendMediaGroup are judged like those of other methods.
VerdictOfAnyMethod(t, error) ==
  CASE error \in {"denied", "large"} -> "blocked"
    [] error = "lost" -> "ambiguous"
    [] OTHER -> "failed"

\* The status of an attempt whose dispatch raised an error.  Errors of an
\* album, and of the markup that follows it, carry the album's name.
Verdict(t, error) ==
  CASE error \in {"denied", "large"} -> "blocked"
    [] error = "lost" -> "ambiguous"
    [] error \in {"server", "bytes"} /\ IsAlbum(t) -> "ambiguous"
    [] OTHER -> "failed"

\* Bug: an output that cannot be sent is left out.
GivesUpOnOutput(t, error) ==
  /\ UNCHANGED collected
  /\ DispatchFrom(t, NextPosition(t))

GivesUp(t, error) ==
  /\ IF FallsBack(t, error)
       THEN Ask(t, idx[t], last[t], "fallback")
       ELSE Conclude(t, Verdict(t, error), error)
  /\ UNCHANGED <<collected, reported>>

Answered(t) ==
  /\ pc[t] = "post"
  /\ \E answer \in Answers \cup {"ok"} :
       /\ answer = "parse" => req[t].formatted
       /\ Observe(t, answer)
       /\ \/ answer = "ok" /\ Accepted(t)
          \/ answer # "ok" /\ ClientRepeats(t, answer)
          \/ /\ answer # "ok"
             /\ \/ req[t].try = TryLimit(t)
                \/ /\ ~CanDropFormat(t, answer)
                   /\ answer \notin {"lost", "server", "bytes"}
             /\ GivesUp(t, Raised(t, answer))

-------------------------------------------------------------------------------

Step(t) ==
  \/ Permission(t)     \/ Download(t)  \/ Guard(t)        \/ ScriptFails(t)
  \/ ScriptSucceeds(t) \/ TakeSlot(t)  \/ Answered(t)     \/ BackoffOver(t)
  \/ PauseOver(t)

AllSettled == (\A t \in Tasks : pc[t] = "settled") /\ UNCHANGED vars

Next == (\E t \in Tasks : Step(t)) \/ AllSettled

Spec == Init /\ [][Next]_vars

\* Every await ends: requests, scripts and downloads have time-outs.
FairSpec == Spec /\ \A t \in Tasks : WF_vars(Step(t))

-------------------------------------------------------------------------------
(* Properties.                                                             *)

Sendable(t) == {i \in Positions(t) : Kind(t, i) # "sticker"}

InOrder(t) ==
  \A b \in DOMAIN trail[t] :
    /\ \A a \in 1..(b - 1) : \/ trail[t][a] < trail[t][b]
                             \/ trail[t][a] = trail[t][b] /\ trail[t][a] \in unclear[t]
    /\ \A i \in Sendable(t) : i < trail[t][b] => \E a \in 1..(b - 1) : trail[t][a] = i

\* In an attempt the destination gets the outputs in the script's order and
\* without a gap, whatever fails, is repeated or falls back to another form;
\* it gets one twice only if a request that carried it had no clear answer.
PostsInOrder == \A t \in Tasks : InOrder(t)

\* A delivery that returns ok has brought every output to the destination in
\* its last attempt: this is what "sent" in the ledger relies on.
OkIsComplete ==
  \A t \in Tasks : outcome[t].status = "ok" =>
    Sendable(t) = {trail[t][n] : n \in DOMAIN trail[t]}

\* Within an attempt nothing the platform has confirmed is sent again.
ConfirmedIsNotResent ==
  [][\A t \in Tasks : \A n \in DOMAIN trail'[t] \ DOMAIN trail[t] :
       attempt'[t] = attempt[t] => trail'[t][n] \notin confirmed[t]]_vars

InAlbum(t, i) ==
  /\ Family(Kind(t, i)) # "none"
  /\ \E k \in {i - 1, i + 1} \cap Positions(t) : Family(Kind(t, k)) = Family(Kind(t, i))

\* An album whose fate is unknown is never sent again, by the client, by the
\* dispatcher or by a later attempt ("Media-group delivery is not safely
\* retryable").
AlbumInDoubtIsNotResent ==
  [][\A t \in Tasks : \A n \in DOMAIN trail'[t] \ DOMAIN trail[t] :
       trail'[t][n] \in unclear[t] => ~InAlbum(t, trail'[t][n])]_vars

LeavesEmptyHanded(t, answer) ==
  IsEmptyHanded(t, answer) /\ (answer = "null" \/ req[t].try = TryLimit(t))

\* The client's "assert last_error is not None" fails on one answer only, an ok
\* without a result to the first try or to the one that has just dropped its
\* parse_mode.  A last try that drops the parse_mode, the other way out of the
\* loop without a response, follows a try that met an error.
AssertionHolds ==
  \A t \in Tasks : pc[t] = "post" =>
    \A answer \in AllAnswers :
      LeavesEmptyHanded(t, answer) /\ req[t].error = "none" =>
        /\ answer = "null"
        /\ req[t].try = 1 \/ (req[t].try = 2 /\ ~req[t].formatted)

\* Every delivery returns, also with fewer upload slots than deliveries.
EveryDeliverySettles == \A t \in Tasks : <>(pc[t] = "settled")

\* What the audit record says: the ids it names are those of the message.
ReportsOwnIds ==
  \A t \in Tasks : outcome[t].status = "ok" =>
    reported[t] = {<<t, i>> : i \in Sendable(t)}
===============================================================================
