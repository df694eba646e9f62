------------------------------- MODULE GuardRules -------------------------------
(***************************************************************************)
(* One run of a guard script on one post (scripts/gaurd_scrpts) and what   *)
(* src/kiwi/guard_runner.py makes of it. The four guards share the rules   *)
(* of default_guard.py; music_guard adds the track's data, photo_prompt    *)
(* and wallpaper_guard ask the model once more.                            *)
(*                                                                         *)
(* A post is what the rules count in it: the terms of each kind, a link, a *)
(* handle, a digit, whether it is a bundle of channels (four lines that    *)
(* describe one, or two below a heading that asks to follow them), and     *)
(* what its media are. "late" are the three words that only the output     *)
(* policy of the relay and the signal rule know as a call to action.       *)
(***************************************************************************)
EXTENDS Naturals

CONSTANTS
  Guarded,  \* the posts
  Guards    \* the scripts

ASSUME GuardAssumption ==
  /\ \A p \in Guarded : {p.strong, p.signal, p.cta, p.late} \subseteq Nat
                        /\ {p.link, p.handle, p.bundle} \subseteq BOOLEAN
  /\ Guards \subseteq {"default", "music", "photo_prompt", "wallpaper"}

VARIABLES
  seenPost,  \* the post
  script,    \* the guard that runs
  guardEnv,  \* its settings
  guardAt,   \* where it is
  answers,   \* what the model answered to the questions asked
  word,      \* the decision printed, "" before
  why,       \* the reason printed
  decision   \* what the runner made of it

guardRunVars == <<seenPost, script, guardEnv, guardAt, answers, word, why, decision>>

(* asking: whether a guard that knows its channel asks the model about it, and
   what a question without an answer counts as: a refusal, a consent for what
   looks the part, or a consent; prompts: whether the prompt guard has rules of its
   own. *)
Settings == [enabled : BOOLEAN, blockAds : BOOLEAN, failOpen : BOOLEAN, skips : BOOLEAN,
             prompts : BOOLEAN,
             asking : {"off", "closed", "soft", "open"}]
GuardPlaces == {"start", "relevance", "safety", "printed", "silent", "read"}
Reasons == {"", "exception", "irrelevant_caption", "missing_image", "missing_prompt_text",
            "prompt_pattern", "advertisement", "vpn", "music", "relevance", "ai", "unreachable"}
ModelAnswers == {"allow", "block", "failure", "unknown"}

GuardTypeOK ==
  /\ seenPost \in Guarded /\ script \in Guards /\ guardEnv \in Settings
  /\ guardAt \in GuardPlaces /\ answers \in [{"relevance", "safety"} -> ModelAnswers \cup {""}]
  /\ word \in {"", "true", "false"} /\ why \in Reasons
  /\ decision \in {"allow", "deny", "error"} \/ (decision = "" /\ guardAt # "read")

GuardInit ==
  /\ seenPost \in Guarded /\ script \in Guards /\ guardEnv \in Settings
  /\ script \notin {"wallpaper", "photo_prompt"} => guardEnv.asking = "off"
  /\ script # "wallpaper" => ~guardEnv.skips
  /\ script # "photo_prompt" => guardEnv.prompts
  /\ ~guardEnv.prompts => guardEnv.asking = "off"
  /\ guardAt = "start" /\ answers = [q \in {"relevance", "safety"} |-> ""]
  /\ word = "" /\ why = "" /\ decision = ""

SignalsInNumber(p) == p.signal >= 3

(* The signal and channel promotions, with or without plain calls to action. *)
IsSignalPromotion(p) ==
  \/ p.signal >= 2 /\ (p.link \/ p.handle)
  \/ p.signal >= 3
  \/ p.signal >= 1 /\ p.cta + p.late >= 2 /\ (p.link \/ p.handle)

(* A gambling site by name, free spins with a gate or a claim, or talk of
   gambling with calls to action, a link or a code. *)
IsGambling(p) ==
  \/ p.game \in {"brand", "spins"}
  \/ p.game = "talk" /\ (p.cta >= 2 \/ (p.link /\ (p.cta >= 1 \/ p.code)))

(* An exchange's campaign: its name with a way to it, an offer of the kind only
   exchanges make, or talk of coins with strong calls to action. *)
IsCryptoPlatform(p) ==
  \/ p.trade = "campaign"
  \/ p.trade = "platform" /\ (p.link \/ p.handle \/ p.cta >= 1 \/ p.code)
  \/ p.trade = "offer" /\ (p.link \/ p.handle)
  \/ p.trade = "coins" /\ (p.link \/ p.handle) /\ (p.cta >= 2 \/ p.code)

(* An obvious advertisement: a word that discloses one, calls to action with a
   link, a handle or a number, signal promotions, gambling, exchanges, bundles. *)
IsObviousAdvertisement(p) ==
  \/ p.strong > 0
  \/ p.link /\ p.cta >= 1
  \/ p.handle /\ p.cta >= 2
  \/ p.digit /\ p.cta >= 2
  \/ p.cta >= 3
  \/ IsSignalPromotion(p)
  \/ IsGambling(p)
  \/ IsCryptoPlatform(p)
  \/ p.bundle

(* The configurations of tunnels: any of their names, or a link with the words
   such addresses have. *)
IsVpn(p) == p.vpn = "name" \/ (p.vpn = "address" /\ p.link)

(* A route of music takes no track that is too short or of an unknown artist. *)
MusicViolation(p) == script = "music" /\ p.audio \in {"short", "unknown"}

HasWords(p) == p.words # "none"

(* An invitation to the source's own channel is let through. *)
IsOwnInvite(p) == p.invite

IsIrrelevantCaption(p) ==
  script = "wallpaper" /\ ~IsOwnInvite(p) /\ HasWords(p) /\ p.topic = "other"

PromptMissing(p) ==
  IF script # "photo_prompt" \/ ~guardEnv.prompts THEN ""
  ELSE IF ~p.image THEN "missing_image"
  ELSE IF ~HasWords(p) THEN "missing_prompt_text"
  ELSE IF p.topic # "prompt" THEN "prompt_pattern"
  ELSE ""

Say(allow, reason) ==
  guardAt' = "printed" /\ word' = (IF allow THEN "true" ELSE "false") /\ why' = reason

(* Why the rules refuse the post before any model is asked, in their order. *)
RuleAgainst(p) ==
  IF PromptMissing(p) # "" THEN PromptMissing(p)
  ELSE IF IsIrrelevantCaption(p) THEN "irrelevant_caption"
  ELSE IF guardEnv.blockAds /\ IsObviousAdvertisement(p) THEN "advertisement"
  ELSE IF MusicViolation(p) THEN "music"
  ELSE IF IsVpn(p) THEN "vpn"
  ELSE ""

SkipsWithoutText(p) == guardEnv.skips /\ p.words # "text"

(* A wallpaper without a caption is not shown to the model. *)
SkipsModel(p) == guardEnv.skips /\ p.words # "caption"

AsksRelevance(p) == guardEnv.asking # "off" /\ (script = "wallpaper" => ~IsOwnInvite(p))

(* main up to the first request. *)
ApplyRules ==
  /\ guardAt = "start"
  /\ IF ~guardEnv.enabled THEN Say(TRUE, "")
     ELSE IF RuleAgainst(seenPost) # "" THEN Say(FALSE, RuleAgainst(seenPost))
     ELSE IF SkipsModel(seenPost) THEN Say(TRUE, "")
     ELSE /\ guardAt' = IF AsksRelevance(seenPost) THEN "relevance" ELSE "safety"
          /\ UNCHANGED <<word, why>>
  /\ UNCHANGED <<seenPost, script, guardEnv, answers, decision>>

(* An error of the script itself is printed as a refusal. *)
GuardBreaks ==
  /\ guardAt \in {"start", "relevance", "safety"} /\ guardEnv.enabled
  /\ Say(FALSE, "exception")
  /\ UNCHANGED <<seenPost, script, guardEnv, answers, decision>>

(* A request that fails or is not answered by 0 or 1 allows the post when the
   guard is to fail open. *)
Allows(answer, open) == answer = "allow" \/ (answer \in {"failure", "unknown"} /\ open)

IsTechnicalFailure(answer) ==
  answer = "failure" \/ (script = "photo_prompt" /\ answer = "unknown")

LooksRelevant(p) ==
  IF script = "photo_prompt" THEN p.image /\ p.topic = "prompt"
  ELSE p.topic = "wallpaper" \/ (p.image /\ ~p.other)

(* The guards that know their channel ask whether the post belongs there; when
   the model cannot be asked, a post that looks the part may go on. *)
AskRelevance ==
  /\ guardAt = "relevance"
  /\ \E answer \in ModelAnswers :
       /\ answers' = [answers EXCEPT !["relevance"] = answer]
       /\ IF \/ Allows(answer, guardEnv.asking = "open")
             \/ guardEnv.asking = "soft" /\ IsTechnicalFailure(answer) /\ LooksRelevant(seenPost)
          THEN guardAt' = "safety" /\ UNCHANGED <<word, why>>
          ELSE Say(FALSE, "relevance")
  /\ UNCHANGED <<seenPost, script, guardEnv, decision>>

AskSafety ==
  /\ guardAt = "safety"
  /\ \E answer \in ModelAnswers :
       /\ answers' = [answers EXCEPT !["safety"] = answer]
       /\ IF Allows(answer, guardEnv.failOpen) THEN Say(TRUE, "")
          ELSE Say(FALSE, IF answer = "block" THEN "ai" ELSE "unreachable")
  /\ UNCHANGED <<seenPost, script, guardEnv, decision>>

(* The process is killed at its deadline, ends with an error code or prints
   nothing that is a decision. *)
GuardIsLost ==
  /\ guardAt \in {"start", "relevance", "safety"}
  /\ guardAt' = "silent"
  /\ UNCHANGED <<seenPost, script, guardEnv, answers, word, why, decision>>

(* What was printed; a process that printed no decision is an error. *)
DecisionRead ==
  IF guardAt = "silent" THEN "error" ELSE IF word = "true" THEN "allow" ELSE "deny"

(* GuardRunner.run: the last line decides; no decision is an error. *)
ReadDecision ==
  /\ guardAt \in {"printed", "silent"}
  /\ guardAt' = "read"
  /\ decision' = DecisionRead
  /\ UNCHANGED <<seenPost, script, guardEnv, answers, word, why>>

GuardNext ==
  \/ ApplyRules \/ GuardBreaks \/ AskRelevance \/ AskSafety \/ GuardIsLost \/ ReadDecision

GuardFairness == WF_guardRunVars(GuardNext)

GuardSpec == GuardInit /\ [][GuardNext]_guardRunVars /\ GuardFairness

--------------------------------------------------------------------------------

(* The promotional policy of the channel scripts and of the relay's output. *)
IsPromotionalOutput(p) ==
  \/ p.strong + p.signal >= 2 /\ (p.link \/ p.handle)
  \/ p.strong + p.signal >= 3
  \/ p.cta + p.late >= 3 /\ (p.link \/ p.handle)

(* A post the guard lets through is not what the later policy calls
   promotional, unless for at least two of the words only that policy counts. *)
GuardCoversOutputPolicy ==
  decision = "allow" /\ guardEnv.enabled /\ guardEnv.blockAds
  /\ IsPromotionalOutput(seenPost)
    => seenPost.late >= 2 /\ seenPost.signal = 0 /\ seenPost.strong = 0

(* A post that was let through was looked at: the model allowed it, or could
   not and the guard is to fail open, or it is a wallpaper without a caption. *)
AllowedAreLookedAt ==
  decision = "allow" /\ guardEnv.enabled =>
    \/ answers["safety"] = "allow"
    \/ guardEnv.failOpen /\ answers["safety"] \in {"failure", "unknown"}
    \/ script = "wallpaper" /\ guardEnv.skips /\ seenPost.words # "caption"

(* What the guard lets through was judged, by the same measure as what leaves. *)
AllowedIsVetted == GuardCoversOutputPolicy /\ AllowedAreLookedAt
================================================================================
