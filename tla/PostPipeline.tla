------------------------------- MODULE PostPipeline -------------------------------
(***************************************************************************)
(* One post on one route, from its media to the dispatcher:                *)
(* _process_route_message_detailed and _process_route_message_with_retries *)
(* of src/kiwi/service.py with src/kiwi/script_runner.py and               *)
(* src/kiwi/keyword_links.py's effect on the words. The route has a        *)
(* channel script (ChannelScript) or passes its posts on as they are.      *)
(*                                                                         *)
(* Sizes are small numbers, Limit the route's max_message_mb. What the     *)
(* guard, the downloads and the dispatcher answer is chosen freely.        *)
(***************************************************************************)
EXTENDS ChannelScript

CONSTANTS
  Limit,     \* the most bytes of media in a message
  Retrials   \* sync_retry_attempts

ASSUME PipelineAssumption == Limit \in Nat \ {0} /\ Retrials \in Nat

VARIABLES
  stage,     \* where the post is
  size,      \* size[i]: the bytes of the i-th medium
  scripted,  \* the route has a channel script
  keyworded, \* the words hold one of the destination's keywords
  inputs,    \* the media downloaded, as indices into the post's
  fetched,   \* their bytes
  trial,     \* attempts begun
  verdict,   \* [status, error] of the last attempt
  made,      \* the messages made of the post
  ready      \* the messages to dispatch

pipeVars == <<stage, size, scripted, keyworded, inputs, fetched, trial, verdict, made, ready>>
pipelineVars == <<scriptVars, pipeVars>>

Stages == {"start", "storage", "download", "script", "output", "link",
           "dispatch", "attempted", "done"}
Errors == {"none", "permission_denied", "storage_permission_denied", "source_media_unavailable",
           "download_timeout", "too_large", "network error", "http 5xx", "guard_denied",
           "guard_execution_error", "script_execution_error", "ai_generation_required_failed",
           "ai_output_not_acceptable", "channel_script_timeout", "channel_script_empty_output",
           "output_size_limit", "output_promo_blocked", "platform error", "unexpected_error", "timeout",
           "channel_script_retry_exhausted"}
Verdicts == [status : {"none", "ok", "failed", "blocked", "ambiguous"}, error : Errors]
NoVerdict == [status |-> "none", error |-> "none"]

PipelineTypeOK ==
  /\ ScriptTypeOK
  /\ stage \in Stages /\ size \in [DOMAIN post.inputs -> 1..Limit + 1]
  /\ scripted \in BOOLEAN /\ keyworded \in BOOLEAN
  /\ inputs \in Seq(DOMAIN post.inputs) /\ trial \in 0..Retrials + 1
  /\ verdict \in Verdicts
  /\ fetched \in 0..Limit
  /\ made \in Seq(Messages) /\ ready \in Seq(Messages)

PipelineInit ==
  /\ ScriptInit
  /\ stage = "start" /\ inputs = <<>> /\ fetched = 0 /\ trial = 0 /\ verdict = NoVerdict
  /\ scripted \in BOOLEAN /\ keyworded \in BOOLEAN
  /\ size \in [DOMAIN post.inputs -> 1..Limit + 1]
  /\ made = <<>> /\ ready = <<>>

Conclude(status, error) ==
  stage' = "attempted" /\ verdict' = [status |-> status, error |-> error]

(* An attempt begins with the destination's permission, then the storage. *)
CheckDispatchPermission ==
  /\ stage = "start" /\ trial <= Retrials
  /\ trial' = trial + 1
  /\ \/ stage' = "storage" /\ UNCHANGED verdict
     \/ Conclude("blocked", "permission_denied")
  /\ UNCHANGED <<scriptVars, size, scripted, keyworded, inputs, fetched, made, ready>>

PrepareStorage ==
  /\ stage = "storage"
  /\ \/ stage' = "download" /\ inputs' = <<>> /\ fetched' = 0 /\ UNCHANGED verdict
     \/ /\ \/ Conclude("failed", "storage_permission_denied")
           \/ Conclude("blocked", "source_media_unavailable")
           \/ Conclude("failed", "unexpected_error")
        /\ UNCHANGED <<inputs, fetched>>
  /\ UNCHANGED <<scriptVars, size, scripted, keyworded, trial, made, ready>>

Usable ==
  Chosen([i \in DOMAIN post.inputs |-> i], {i \in DOMAIN post.inputs : post.inputs[i] # "sticker"})

RemainingOfAny == Limit

Remaining == Limit - fetched

(* The media are fetched in order, each within what the message has left;
   stickers are passed over. *)
DownloadNext ==
  /\ stage = "download" /\ Len(inputs) < Len(Usable)
  /\ LET i == Usable[Len(inputs) + 1] IN
     \/ /\ Remaining > 0 /\ size[i] <= Remaining
        /\ inputs' = Append(inputs, i) /\ fetched' = fetched + size[i]
        /\ UNCHANGED <<stage, verdict>>
     \/ /\ Remaining <= 0 \/ size[i] > Remaining
        /\ Conclude("blocked", "too_large") /\ UNCHANGED <<inputs, fetched>>
  /\ UNCHANGED <<scriptVars, size, scripted, keyworded, trial, made, ready>>

(* A download that fails is told apart by its error. *)
DownloadFails ==
  /\ stage = "download" /\ Len(inputs) < Len(Usable)
  /\ \/ Conclude("failed", "download_timeout")
     \/ Conclude("blocked", "source_media_unavailable")
     \/ Conclude("failed", "network error")
     \/ Conclude("failed", "unexpected_error")
  /\ UNCHANGED <<scriptVars, size, scripted, keyworded, inputs, fetched, trial, made, ready>>

(* The payload is written and the guard asked; the script is started, a new
   process with the same payload and environment at every attempt. *)
Guard ==
  /\ stage = "download" /\ Len(inputs) = Len(Usable)
  /\ \/ /\ stage' = "script" /\ UNCHANGED verdict
        /\ phase' = "begin" /\ body' = NoText /\ images' = FALSE /\ attempt' = 0
        /\ left' = 0 /\ budget' = 3 /\ broke' = FALSE /\ out' = <<>> /\ base' = <<>>
     \/ Conclude("blocked", "guard_denied") /\ UNCHANGED scriptVars
     \/ Conclude("failed", "guard_execution_error") /\ UNCHANGED scriptVars
  /\ UNCHANGED <<post, conf, size, scripted, keyworded, inputs, fetched, trial, made, ready>>

(* The script's own steps. *)
RunScript ==
  /\ stage = "script" /\ scripted
  /\ ScriptNext
  /\ UNCHANGED pipeVars

(* What stands in for the script on a route without one: every medium, the
   words on the first, or the words alone. *)
PassthroughOf ==
  LET kinds == [i \in DOMAIN inputs |-> post.inputs[inputs[i]]]
  IN IF kinds # <<>>
     THEN [i \in DOMAIN kinds |-> Message(kinds[i], IF i = 1 THEN post.text ELSE NoText)]
     ELSE IF post.text # NoText THEN <<Message("text", post.text)>> ELSE <<>>

(* The script's messages, or the passthrough's, go to the output stage; none
   at all blocks the post. *)
ScriptCompletes ==
  /\ stage = "script" /\ (scripted => phase = "printed")
  /\ made' = IF scripted THEN out ELSE PassthroughOf
  /\ IF made' = <<>> THEN Conclude("blocked", "channel_script_empty_output")
                     ELSE stage' = "output" /\ UNCHANGED verdict
  /\ UNCHANGED <<scriptVars, size, scripted, keyworded, inputs, fetched, trial, ready>>

(* The script exits on an error of its own. *)
ScriptFails ==
  /\ stage = "script" /\ scripted
  /\ \/ phase = "owed" /\ Conclude("failed", "ai_generation_required_failed")
     \/ phase = "rejected" /\ Conclude("failed", "ai_output_not_acceptable")
  /\ UNCHANGED <<scriptVars, size, scripted, keyworded, inputs, fetched, trial, made, ready>>

(* The process outlives its time and is killed, or dies. *)
ScriptIsKilled ==
  /\ stage = "script" /\ scripted /\ phase \notin {"printed", "owed", "rejected"}
  /\ Conclude("failed", "channel_script_timeout") \/ Conclude("failed", "script_execution_error")
  /\ UNCHANGED <<scriptVars, size, scripted, keyworded, inputs, fetched, trial, made, ready>>

(* The next message is kept if its medium fits in what is left of the limit;
   `media` counts the media looked at. *)
Kept(state, message) ==
  LET bytes == size[inputs[state.media + 1]]
      fits  == bytes <= Limit /\ bytes <= state.left
  IN IF ~IsMedia(message) THEN [state EXCEPT !.kept = Append(@, message)]
     ELSE [left  |-> IF fits THEN state.left - bytes ELSE state.left,
           kept  |-> IF fits THEN Append(state.kept, message) ELSE state.kept,
           media |-> state.media + 1]

(* Messages are kept in order while their media fit in the limit. *)
FilterOversized(messages) ==
  LET filtered[n \in 0..Len(messages)] ==
        IF n = 0 THEN [left |-> Limit, kept |-> <<>>, media |-> 0]
        ELSE Kept(filtered[n - 1], messages[n])
  IN filtered[Len(messages)].kept

FilterOutput ==
  /\ stage = "output"
  /\ ready' = FilterOversized(made)
  /\ IF ready' = <<>> THEN Conclude("blocked", "output_size_limit")
                      ELSE stage' = "link" /\ UNCHANGED verdict
  /\ UNCHANGED <<scriptVars, size, scripted, keyworded, inputs, fetched, trial, made>>

(* A keyword in a text becomes a link to its channel. *)
Linkify(messages) ==
  [i \in DOMAIN messages |->
     IF messages[i].text = NoText THEN messages[i]
     ELSE [messages[i] EXCEPT !.text.ref = "url"]]

(* The relay's own look at the messages, with the script's terms. *)
IsObviousPromotionalOutput(messages) == AnyPromotional(messages)

(* The keywords are linked, and what now looks promotional is blocked. *)
LinkKeywords ==
  /\ stage = "link"
  /\ ready' = IF keyworded THEN Linkify(ready) ELSE ready
  /\ IF IsObviousPromotionalOutput(ready') THEN Conclude("blocked", "output_promo_blocked")
                                ELSE stage' = "dispatch" /\ UNCHANGED verdict
  /\ UNCHANGED <<scriptVars, size, scripted, keyworded, inputs, fetched, trial, made>>

(* The dispatcher (module Dispatch) ends in one of these ways: done, a right
   missing or a body too large, a doubt about what arrived, an error. *)
Dispatch ==
  /\ stage = "dispatch"
  /\ \/ Conclude("ok", "none")
     \/ Conclude("blocked", "permission_denied")
     \/ Conclude("blocked", "too_large")
     \/ Conclude("ambiguous", "timeout")
     \/ Conclude("failed", "http 5xx")
     \/ Conclude("failed", "platform error")
     \/ Conclude("failed", "unexpected_error")
  /\ UNCHANGED <<scriptVars, size, scripted, keyworded, inputs, fetched, trial, made, ready>>

IsTransient(error) == error \in {"network error", "http 5xx", "download_timeout"}

IsRetryableScriptError(error) == error = "channel_script_timeout"

IsPermanentScriptError(error) == error = "ai_output_not_acceptable"

TriesForever ==
  verdict.status = "failed" /\ (IsRetryableScriptError(verdict.error) \/ IsTransient(verdict.error))

(* Whether the attempt that ended is followed by another at once. *)
TriesAgain ==
  /\ trial <= Retrials
  /\ verdict.status = "failed"
  /\ IsRetryableScriptError(verdict.error) \/ IsTransient(verdict.error)

Retry ==
  /\ stage = "attempted" /\ TriesAgain
  /\ stage' = "start" /\ ready' = <<>> /\ made' = <<>> /\ inputs' = <<>> /\ fetched' = 0
  /\ verdict' = NoVerdict
  /\ UNCHANGED <<scriptVars, size, scripted, keyworded, trial>>

(* The verdict on the post: text that is never acceptable blocks it, a script
   that ran out of time in every attempt fails under a name of its own. *)
Settle ==
  /\ stage = "attempted" /\ ~TriesAgain
  /\ stage' = "done"
  /\ verdict' = CASE verdict.status = "failed" /\ IsPermanentScriptError(verdict.error) ->
                        [verdict EXCEPT !.status = "blocked"]
                   [] IsRetryableScriptError(verdict.error) ->
                        [verdict EXCEPT !.error = "channel_script_retry_exhausted"]
                   [] OTHER -> verdict
  /\ UNCHANGED <<scriptVars, size, scripted, keyworded, inputs, fetched, trial, made, ready>>

PipelineNext ==
  \/ CheckDispatchPermission \/ PrepareStorage \/ DownloadNext \/ DownloadFails \/ Guard
  \/ RunScript \/ ScriptCompletes \/ ScriptFails \/ ScriptIsKilled
  \/ FilterOutput \/ LinkKeywords \/ Dispatch \/ Retry \/ Settle

(* The worker awaits each step of a post before the next, the script has a
   deadline, and every download and request a timeout. *)
PipelineFairness == WF_pipelineVars(PipelineNext)

PipelineSpec == PipelineInit /\ [][PipelineNext]_pipelineVars /\ PipelineFairness

--------------------------------------------------------------------------------

(* No medium of a post is lost or moved on the way out: what is dispatched
   carries the media of the source, stickers aside, in their order. The
   download has let in no more than the output filter lets out. *)
MediaTravelWhole ==
  stage = "dispatch" =>
    KindsOf(MediaIn(ready)) = MediaOf(post.inputs)

(* With mandatory AI no word of the source leaves: all text is the model's and
   Persian, unless the script broke on an error it has no name for. *)
NothingRawWhenMandatory ==
  stage = "dispatch" /\ scripted /\ AiMandatoryMode /\ ~broke =>
    \A i \in DOMAIN ready : ready[i].text # NoText =>
      ready[i].text.by = "ai" /\ ready[i].text.lang = "persian"

(* A post with words leaves with words, unless the script broke. *)
WordsTravel ==
  stage = "dispatch" /\ post.text # NoText /\ ~broke =>
    \E i \in DOMAIN ready : ready[i].text # NoText

(* What a script printed is blocked as promotional only for the link the relay
   itself put in: the script has dropped what was promotional before. *)
OwnLinkBlocks ==
  scripted /\ verdict.error = "output_promo_blocked" => keyworded

(* A post travels as what it was, or not at all. *)
PostTravelsWhole ==
  PipelineTypeOK /\ MediaTravelWhole /\ WordsTravel /\ NothingRawWhenMandatory
    /\ OwnLinkBlocks

(* A text that is Persian and of the right length is asked for again in one
   request only, the second, and only when as it stands it looks poor: no
   request of the strict or the adjust loop, which come after it, can put a
   worse one in its place. *)
GoodTextEndsTheScript ==
  stage = "script" /\ phase \in Asking /\ IsPersianAcceptable(body) /\ IsLengthAcceptable(body)
    => phase = "refine" /\ LooksLowQuality(body)

(* Every post comes to a verdict, whatever the script, its model and the
   requests do. *)
EveryPostIsJudged == <>(stage = "done")
================================================================================
