----------------------------- MODULE ContentProofs -----------------------------
(***************************************************************************)
(* Theorems about what decides on the words of a post, checked by TLAPS:   *)
(* about GuardRules for every set of posts, whatever numbers of terms of   *)
(* each kind they have; about the script's run and what is dispatched in   *)
(* PostPipeline for all posts, sizes and answers; about the choice of      *)
(* matches in KeywordLinks for every set of matches in a text of any       *)
(* length, and about its tables for files of any rows.                     *)
(***************************************************************************)
EXTENDS PostPipeline, KeywordLinks, GuardRules, WellFoundedInduction, NaturalsInduction,
        SequenceTheorems, TLAPS

--------------------------------------------------------------------------------
(* The rules by themselves. *)

\* A post that is no obvious advertisement is promotional only by the late words:
\* strong and signal terms, and plain calls to action, are caught by the first rules.
LEMMA AdvertisementCoversPromotion ==
  ASSUME NEW p \in Guarded, ~IsObviousAdvertisement(p), IsPromotionalOutput(p)
  PROVE  p.late >= 2 /\ p.signal = 0 /\ p.strong = 0
<1>1. /\ p.strong \in Nat /\ p.signal \in Nat /\ p.cta \in Nat /\ p.late \in Nat
      /\ p.link \in BOOLEAN /\ p.handle \in BOOLEAN
  BY GuardAssumption
<1>2. p.strong = 0 /\ p.signal < 3 /\ (p.link => p.cta < 1) /\ (p.handle => p.cta < 2)
  BY <1>1 DEF IsObviousAdvertisement, IsSignalPromotion
<1>3. p.link \/ p.handle => p.signal < 2
  BY <1>1 DEF IsObviousAdvertisement, IsSignalPromotion
<1>4. p.cta + p.late >= 3 /\ (p.link \/ p.handle)
  BY <1>1, <1>2, <1>3 DEF IsPromotionalOutput
<1>5. p.late >= 2
  BY <1>1, <1>2, <1>4
<1>6. ~(p.signal >= 1)
  BY <1>1, <1>4 DEF IsObviousAdvertisement, IsSignalPromotion
<1>. QED  BY <1>1, <1>2, <1>5, <1>6

\* The rules that come before the advertisement rule refuse as well.
LEMMA NoRuleMeansNoAdvertisement ==
  ASSUME NEW p, RuleAgainst(p) = "", guardEnv.blockAds
  PROVE  ~IsObviousAdvertisement(p)
  BY DEF RuleAgainst

--------------------------------------------------------------------------------
(* Type correctness. *)

LEMMA RuleIsReason == ASSUME NEW p PROVE RuleAgainst(p) \in Reasons
  BY DEF RuleAgainst, PromptMissing, Reasons

LEMMA GuardInitTypeOK == GuardInit => GuardTypeOK
  BY DEF GuardInit, GuardTypeOK, GuardPlaces, Reasons

LEMMA GuardStepTypeOK ==
  ASSUME GuardTypeOK, [GuardNext]_guardRunVars PROVE GuardTypeOK'
<1>. USE DEF GuardTypeOK, GuardPlaces
<1>1. CASE ApplyRules
  <2>1. guardAt = "start" /\ UNCHANGED <<seenPost, script, guardEnv, answers, decision>>
    BY <1>1 DEF ApplyRules
  <2>2. guardAt' \in GuardPlaces /\ word' \in {"", "true", "false"} /\ why' \in Reasons
    BY <1>1, RuleIsReason DEF ApplyRules, Say, Reasons
  <2>3. guardAt' # "read"
    BY <1>1 DEF ApplyRules, Say
  <2>. QED  BY <2>1, <2>2, <2>3
<1>2. CASE GuardBreaks
  BY <1>2 DEF GuardBreaks, Say, Reasons
<1>3. CASE AskRelevance
  <2>1. guardAt = "relevance" /\ UNCHANGED <<seenPost, script, guardEnv, decision>>
    BY <1>3 DEF AskRelevance
  <2>2. /\ guardAt' \in GuardPlaces \ {"read"} /\ word' \in {"", "true", "false"} /\ why' \in Reasons
        /\ answers' \in [{"relevance", "safety"} -> ModelAnswers \cup {""}]
    BY <1>3 DEF AskRelevance, Say, Reasons
  <2>. QED  BY <2>1, <2>2
<1>4. CASE AskSafety
  <2>1. guardAt = "safety" /\ UNCHANGED <<seenPost, script, guardEnv, decision>>
    BY <1>4 DEF AskSafety
  <2>2. /\ guardAt' \in GuardPlaces \ {"read"} /\ word' \in {"", "true", "false"} /\ why' \in Reasons
        /\ answers' \in [{"relevance", "safety"} -> ModelAnswers \cup {""}]
    BY <1>4 DEF AskSafety, Say, Reasons
  <2>. QED  BY <2>1, <2>2
<1>5. CASE GuardIsLost
  BY <1>5 DEF GuardIsLost
<1>6. CASE ReadDecision
  BY <1>6 DEF ReadDecision, DecisionRead
<1>7. CASE UNCHANGED guardRunVars
  BY <1>7 DEF guardRunVars
<1>. QED  BY <1>1, <1>2, <1>3, <1>4, <1>5, <1>6, <1>7 DEF GuardNext

(* scripts/gaurd_scrpts/default_guard.py 728-775, src/kiwi/guard_runner.py: the type
   invariant; in particular a run that was read has one of the three decisions. *)
THEOREM GuardTypeCorrect == GuardSpec => []GuardTypeOK
<1>. QED  BY GuardInitTypeOK, GuardStepTypeOK, PTL DEF GuardSpec

--------------------------------------------------------------------------------
(* AllowedIsVetted speaks of a run that is over. What holds on the way there: no
   question is asked of a post the rules refuse, and "true" is printed only of a
   post that has passed both. *)

PassedRules == guardEnv.enabled /\ RuleAgainst(seenPost) = ""

LookedAt ==
  \/ answers["safety"] = "allow"
  \/ guardEnv.failOpen /\ answers["safety"] \in {"failure", "unknown"}
  \/ script = "wallpaper" /\ guardEnv.skips /\ seenPost.words # "caption"

VettedOnTheWay ==
  /\ script # "wallpaper" => ~guardEnv.skips
  /\ guardAt \in {"relevance", "safety"} => PassedRules /\ word = ""
  /\ guardAt \in {"start", "silent"} => word = ""
  /\ word = "true" /\ guardEnv.enabled => PassedRules /\ LookedAt
  /\ decision = "allow" => word = "true"

\* What the rules say does not depend on where the run is.
LEMMA RulesAreStable ==
  ASSUME UNCHANGED <<seenPost, script, guardEnv>> PROVE PassedRules' = PassedRules
<1>1. /\ PromptMissing(seenPost)' = PromptMissing(seenPost)
      /\ IsIrrelevantCaption(seenPost)' = IsIrrelevantCaption(seenPost)
      /\ MusicViolation(seenPost)' = MusicViolation(seenPost)
  BY DEF PromptMissing, IsIrrelevantCaption, MusicViolation
<1>2. RuleAgainst(seenPost)' = RuleAgainst(seenPost)
  BY <1>1 DEF RuleAgainst
<1>. QED  BY <1>2 DEF PassedRules

LEMMA StepVets ==
  ASSUME GuardTypeOK, VettedOnTheWay, [GuardNext]_guardRunVars PROVE VettedOnTheWay'
<1>. USE DEF GuardTypeOK, VettedOnTheWay, GuardPlaces
<1>1. CASE ApplyRules
  <2>1. UNCHANGED <<seenPost, script, guardEnv, answers, decision>> /\ guardAt = "start"
    BY <1>1 DEF ApplyRules
  <2>2. PassedRules' = PassedRules /\ LookedAt' = LookedAt
    BY <2>1, RulesAreStable DEF LookedAt
  <2>3. decision' # "allow"
    BY <2>1
  <2>4. /\ guardAt' \in {"relevance", "safety"} => PassedRules /\ word' = ""
        /\ guardAt' \notin {"start", "silent"}
        /\ word' = "true" /\ guardEnv.enabled => PassedRules /\ SkipsModel(seenPost)
    BY <1>1 DEF ApplyRules, Say, PassedRules
  <2>5. word' = "true" /\ guardEnv.enabled => LookedAt
    BY <2>4 DEF SkipsModel, LookedAt
  <2>. QED  BY <2>1, <2>2, <2>3, <2>4, <2>5
<1>2. CASE GuardBreaks
  BY <1>2 DEF GuardBreaks, Say
<1>3. CASE AskRelevance
  <2>1. UNCHANGED <<seenPost, script, guardEnv, decision>> /\ guardAt = "relevance"
    BY <1>3 DEF AskRelevance
  <2>2. PassedRules' = PassedRules
    BY <2>1, RulesAreStable
  <2>3. (guardAt' = "safety" /\ word' = word) \/ (guardAt' = "printed" /\ word' = "false")
    BY <1>3 DEF AskRelevance, Say
  <2>. QED  BY <2>1, <2>2, <2>3
<1>4. CASE AskSafety
  <2>1. UNCHANGED <<seenPost, script, guardEnv, decision>> /\ guardAt = "safety"
    BY <1>4 DEF AskSafety
  <2>2. PassedRules' = PassedRules
    BY <2>1, RulesAreStable
  <2>3. PICK answer \in ModelAnswers :
          /\ answers' = [answers EXCEPT !["safety"] = answer]
          /\ IF Allows(answer, guardEnv.failOpen) THEN Say(TRUE, "")
             ELSE Say(FALSE, IF answer = "block" THEN "ai" ELSE "unreachable")
    BY <1>4 DEF AskSafety
  <2>4. guardAt' = "printed" /\ (word' = "true" => Allows(answer, guardEnv.failOpen))
    BY <2>3 DEF Say
  <2>5. answers'["safety"] = answer
    BY <2>3
  <2>6. word' = "true" => LookedAt'
    BY <2>1, <2>4, <2>5 DEF LookedAt, Allows
  <2>. QED  BY <2>1, <2>2, <2>4, <2>6
<1>5. CASE GuardIsLost
  <2>1. UNCHANGED <<seenPost, script, guardEnv, answers, word, decision>> /\ guardAt' = "silent"
        /\ guardAt \in {"start", "relevance", "safety"}
    BY <1>5 DEF GuardIsLost
  <2>. QED  BY <2>1
<1>6. CASE ReadDecision
  <2>1. UNCHANGED <<seenPost, script, guardEnv, answers, word>> /\ guardAt' = "read"
        /\ (decision' = "allow" => word = "true")
    BY <1>6 DEF ReadDecision, DecisionRead
  <2>2. PassedRules' = PassedRules /\ LookedAt' = LookedAt
    BY <2>1, RulesAreStable DEF LookedAt
  <2>. QED  BY <2>1, <2>2
<1>7. CASE UNCHANGED guardRunVars
  <2>1. PassedRules' = PassedRules /\ LookedAt' = LookedAt
    BY <1>7, RulesAreStable DEF guardRunVars, LookedAt
  <2>. QED  BY <1>7, <2>1 DEF guardRunVars
<1>. QED  BY <1>1, <1>2, <1>3, <1>4, <1>5, <1>6, <1>7 DEF GuardNext

(* scripts/gaurd_scrpts/default_guard.py 300-726 beside src/kiwi/service.py
   3689-3760: what a guard lets through was seen by the model, or could not be and
   the guard is to fail open, or is a wallpaper without caption; and the relay's own
   promotional policy can find in it only words that policy alone counts. *)
THEOREM AllowedIsAlwaysVetted == GuardSpec => []AllowedIsVetted
<1>1. GuardInit => VettedOnTheWay
  BY DEF GuardInit, VettedOnTheWay
<1>2. GuardTypeOK /\ VettedOnTheWay => AllowedIsVetted
  <2>. SUFFICES ASSUME GuardTypeOK, VettedOnTheWay, decision = "allow", guardEnv.enabled
                PROVE  /\ guardEnv.blockAds /\ IsPromotionalOutput(seenPost)
                           => seenPost.late >= 2 /\ seenPost.signal = 0 /\ seenPost.strong = 0
                       /\ LookedAt
    BY DEF AllowedIsVetted, GuardCoversOutputPolicy, AllowedAreLookedAt, LookedAt
  <2>1. RuleAgainst(seenPost) = "" /\ LookedAt
    BY DEF VettedOnTheWay, PassedRules
  <2>2. seenPost \in Guarded
    BY DEF GuardTypeOK
  <2>3. guardEnv.blockAds => ~IsObviousAdvertisement(seenPost)
    BY <2>1, NoRuleMeansNoAdvertisement
  <2>. QED  BY <2>1, <2>2, <2>3, AdvertisementCoversPromotion
<1>. QED  BY <1>1, <1>2, StepVets, GuardTypeCorrect, PTL DEF GuardSpec

--------------------------------------------------------------------------------
(* The questions a channel script asks. *)

(* Why each question is asked: the answers so far are none, poor, not Persian, or of
   the wrong length. *)
WorthAsking ==
  /\ phase \in {"begin", "look", "broken", "first"} => body = NoText
  /\ phase = "refine" => LooksLowQuality(body) \/ ~IsLengthAcceptable(body)
  /\ phase = "strict" => ~IsPersianAcceptable(body)
  /\ phase = "adjust" => WrongLength(body)

LEMMA ComposeEnds ==
  ASSUME NEW text, NEW absent, Compose(text, absent)
  PROVE  phase' \in {"printed", "owed", "rejected"}
BY DEF Compose, Fail, PrintMessages

LEMMA AfterRefineAsks ==
  ASSUME NEW text, NEW time, AfterRefine(text, time), body' = text
  PROVE  WorthAsking'
<1>1. CASE phase' = "strict" /\ ~IsPersianAcceptable(text)
  BY <1>1 DEF WorthAsking, IsPersianAcceptable
<1>2. CASE AfterStrict(text, time)
  <2>1. CASE phase' = "adjust" /\ WrongLength(text)
    BY <2>1 DEF WorthAsking, WrongLength, IsLengthAcceptable
  <2>2. CASE Finish(text)
    BY <2>2, ComposeEnds DEF Finish, WorthAsking
  <2>. QED  BY <1>2, <2>1, <2>2 DEF AfterStrict
<1>. QED  BY <1>1, <1>2 DEF AfterRefine

LEMMA AfterStrictAsks ==
  ASSUME NEW text, NEW time, AfterStrict(text, time), body' = text
  PROVE  WorthAsking'
<1>1. CASE phase' = "adjust" /\ WrongLength(text)
  BY <1>1 DEF WorthAsking, WrongLength, IsLengthAcceptable
<1>2. CASE Finish(text)
  BY <1>2, ComposeEnds DEF Finish, WorthAsking
<1>. QED  BY <1>1, <1>2 DEF AfterStrict

LEMMA FinishAsks ==
  ASSUME NEW text, Finish(text)
  PROVE  WorthAsking'
BY ComposeEnds DEF Finish, WorthAsking

LEMMA ReplyAsks ==
  ASSUME WorthAsking, Reply
  PROVE  WorthAsking'
<1>1. PICK candidate :
       \/ /\ phase = "first"
          /\ body' = candidate /\ AfterFirst(candidate, budget')
       \/ /\ phase = "refine"
          /\ body' = Better(candidate) /\ AfterRefine(body', budget')
       \/ /\ phase = "strict"
          /\ body' = Better(candidate)
          /\ IF ~IsPersianAcceptable(body') /\ budget' >= 2 /\ left > 1
             THEN left' = left - 1 /\ UNCHANGED <<phase, out>>
             ELSE AfterStrict(body', budget')
       \/ /\ phase = "adjust"
          /\ body' = Better(candidate)
          /\ IF ~IsLengthAcceptable(body') /\ budget' >= 2 /\ left > 1
             THEN left' = left - 1 /\ UNCHANGED <<phase, out>>
             ELSE Finish(body')
  BY DEF Reply
<1>2. CASE phase = "first" /\ body' = candidate /\ AfterFirst(candidate, budget')
  <2>1. CASE /\ LooksLowQuality(candidate) \/ ~IsLengthAcceptable(candidate)
             /\ phase' = "refine"
    BY <1>2, <2>1 DEF WorthAsking, LooksLowQuality, IsLengthAcceptable
  <2>2. CASE AfterRefine(candidate, budget')
    BY <1>2, <2>2, AfterRefineAsks
  <2>. QED  BY <1>2, <2>1, <2>2 DEF AfterFirst
<1>3. CASE phase = "refine" /\ AfterRefine(body', budget')
  BY <1>3, AfterRefineAsks
<1>4. CASE /\ phase = "strict"
           /\ IF ~IsPersianAcceptable(body') /\ budget' >= 2 /\ left > 1
              THEN left' = left - 1 /\ UNCHANGED <<phase, out>>
              ELSE AfterStrict(body', budget')
  <2>1. CASE ~IsPersianAcceptable(body') /\ phase' = phase
    BY <1>4, <2>1 DEF WorthAsking, IsPersianAcceptable
  <2>2. CASE AfterStrict(body', budget')
    BY <2>2, AfterStrictAsks
  <2>. QED  BY <1>4, <2>1, <2>2
<1>5. CASE /\ phase = "adjust" /\ body' = Better(candidate)
           /\ IF ~IsLengthAcceptable(body') /\ budget' >= 2 /\ left > 1
              THEN left' = left - 1 /\ UNCHANGED <<phase, out>>
              ELSE Finish(body')
  <2>1. CASE ~IsLengthAcceptable(body') /\ phase' = phase
    <3>1. body' # NoText
      BY <1>5 DEF WorthAsking, WrongLength, Better
    <3>. QED  BY <1>5, <2>1, <3>1 DEF WorthAsking, WrongLength, IsLengthAcceptable
  <2>2. CASE Finish(body')
    BY <2>2, FinishAsks
  <2>. QED  BY <1>5, <2>1, <2>2
<1>. QED  BY <1>1, <1>2, <1>3, <1>4, <1>5

LEMMA NoReplyAsks ==
  ASSUME WorthAsking, NoReply
  PROVE  WorthAsking'
<1>0. body' = body
  BY DEF NoReply
<1>1. CASE UNCHANGED phase
  BY <1>0, <1>1 DEF WorthAsking, LooksLowQuality, IsLengthAcceptable, IsPersianAcceptable, WrongLength
<1>2. CASE Compose(NoText, AiFailOpen)
  BY <1>2, ComposeEnds DEF WorthAsking
<1>3. CASE AfterRefine(body, budget')
  BY <1>0, <1>3, AfterRefineAsks
<1>4. CASE AfterStrict(body, budget')
  BY <1>0, <1>4, AfterStrictAsks
<1>5. CASE Finish(body)
  BY <1>5, FinishAsks
<1>. QED  BY <1>1, <1>2, <1>3, <1>4, <1>5 DEF NoReply

LEMMA StepAsks ==
  ASSUME WorthAsking, [PipelineNext]_pipelineVars
  PROVE  WorthAsking'
<1>1. CASE UNCHANGED <<phase, body>>
  BY <1>1 DEF WorthAsking, LooksLowQuality, IsLengthAcceptable, IsPersianAcceptable, WrongLength
<1>2. CASE phase' = "begin" /\ body' = NoText
  BY <1>2 DEF WorthAsking
<1>3. CASE RunScript
  <2>1. CASE BuildBase \/ BeginToAsk \/ Break
    BY <2>1 DEF BuildBase, BeginToAsk, Break, Rewritable, WorthAsking
  <2>2. CASE Skip \/ PassVideo \/ FailOpen
    BY <2>2 DEF Skip, PassVideo, FailOpen, PrintMessages, WorthAsking
  <2>3. CASE DoNotAsk
    BY <2>3, ComposeEnds DEF DoNotAsk, WorthAsking
  <2>4. CASE AttemptFails
    BY <1>1, <2>4 DEF AttemptFails
  <2>. QED  BY <1>3, <2>1, <2>2, <2>3, <2>4, ReplyAsks, NoReplyAsks DEF RunScript, ScriptNext
<1>4. CASE UNCHANGED pipelineVars
  BY <1>1, <1>4 DEF pipelineVars, scriptVars
<1>5. CASE Guard
  BY <1>1, <1>2, <1>5 DEF Guard, scriptVars
<1>6. CASE \/ CheckDispatchPermission \/ PrepareStorage \/ DownloadNext \/ DownloadFails
           \/ ScriptCompletes \/ ScriptFails \/ ScriptIsKilled
           \/ FilterOutput \/ LinkKeywords \/ Dispatch \/ Retry \/ Settle
  <2>1. UNCHANGED scriptVars
    BY <1>6 DEF CheckDispatchPermission, PrepareStorage, DownloadNext, DownloadFails, ScriptCompletes,
                ScriptFails, ScriptIsKilled, FilterOutput, LinkKeywords, Dispatch, Retry, Settle
  <2>. QED  BY <1>1, <2>1 DEF scriptVars
<1>. QED  BY <1>3, <1>4, <1>5, <1>6 DEF PipelineNext

(* scripts/channel_scripts/film.py 1061-1281: once the text at hand is Persian and of
   the right length no request is made but the second, and that only for a text that
   looks poor as it stands, whatever the model answers, in which attempt, and however
   much time is left. *)
THEOREM GoodTextAlwaysEndsTheScript == PipelineSpec => []GoodTextEndsTheScript
<1>1. PipelineInit => WorthAsking
  BY DEF PipelineInit, ScriptInit, WorthAsking
<1>2. WorthAsking => GoodTextEndsTheScript
  BY DEF WorthAsking, GoodTextEndsTheScript, Asking, LooksLowQuality, IsLengthAcceptable,
         IsPersianAcceptable, WrongLength
<1>. QED  BY <1>1, <1>2, StepAsks, PTL DEF PipelineSpec

--------------------------------------------------------------------------------
(* The choice of the matches that are linked. *)

LEMMA SomeNatIsLeast ==
  ASSUME NEW S \in SUBSET Nat, S # {}
  PROVE  \E x \in S : \A y \in S : x <= y
<1>. DEFINE R == OpToRel(<, Nat)
<1>1. IsWellFoundedOn(R, Nat)
  BY NatLessThanWellFounded
<1>2. PICK x \in S : \A y \in S : ~ (<<y, x>> \in R)
  <2>. HIDE DEF R
  <2>. QED  BY <1>1, WFMin
<1>3. \A y \in S : ~(y < x)
  BY <1>2 DEF OpToRel
<1>. QED  BY <1>3

LEMMA SomeNatIsHighest ==
  ASSUME NEW S \in SUBSET Nat, NEW high \in Nat, \A x \in S : x <= high, S # {}
  PROVE  \E x \in S : \A y \in S : y <= x
<1>. DEFINE T == {n \in Nat : high - n \in S}
<1>1. PICK s \in S : TRUE
  OBVIOUS
<1>2. high - s \in T
  OBVIOUS
<1>3. PICK x \in T : \A y \in T : x <= y
  BY <1>2, SomeNatIsLeast
<1>4. \A y \in S : high - y \in T
  OBVIOUS
<1>5. high - x \in S /\ \A y \in S : y <= high - x
  BY <1>3, <1>4
<1>. QED  BY <1>5

LEMMA MatchIs ==
  ASSUME NEW m \in Matches
  PROVE  /\ m.from \in Nat /\ m.to \in Nat /\ m.priority \in Nat /\ m.length \in Nat
         /\ m.from < m.to /\ m.to <= Width
         /\ m.priority <= TopPriority /\ m.length <= LongestWord
BY KeywordLinksAssumption DEF Matches

LEMMA BestIsPreferred ==
  ASSUME NEW matches \in SUBSET Matches, NEW place, \E m \in matches : m.from = place
  PROVE  LET best == BestFrom(matches, place) IN
         best \in matches /\ best.from = place /\ \A b \in matches : b.from = place => Preferred(best, b)
<1>. DEFINE Here == {m \in matches : m.from = place}
            Ranks == {m.priority : m \in Here}
<1>1. PICK p \in Ranks : \A q \in Ranks : q <= p
  <2>1. Ranks \in SUBSET Nat /\ Ranks # {} /\ \A q \in Ranks : q <= TopPriority
    BY MatchIs
  <2>. HIDE DEF Ranks
  <2>. QED  BY <2>1, SomeNatIsHighest, KeywordLinksAssumption
<1>. DEFINE Lengths == {m.length : m \in {n \in Here : n.priority = p}}
<1>2. PICK t \in Lengths : \A u \in Lengths : u <= t
  <2>1. Lengths \in SUBSET Nat /\ Lengths # {} /\ \A q \in Lengths : q <= LongestWord
    BY <1>1, MatchIs
  <2>. HIDE DEF Lengths
  <2>. QED  BY <2>1, SomeNatIsHighest, KeywordLinksAssumption
<1>3. PICK a \in Here : a.priority = p /\ a.length = t
  BY <1>2
<1>4. ASSUME NEW b \in Here PROVE Preferred(a, b)
  <2>1. b.priority <= p /\ b.priority \in Nat /\ p \in Nat
    BY <1>1, <1>3, MatchIs
  <2>2. b.priority = p => b.length <= t
    BY <1>2
  <2>. QED  BY <1>3, <2>1, <2>2, MatchIs DEF Preferred
<1>5. \E x \in Here : \A b \in Here : Preferred(x, b)
  BY <1>4
<1>6. /\ BestFrom(matches, place) \in Here
      /\ \A b \in Here : Preferred(BestFrom(matches, place), b)
  BY <1>5 DEF BestFrom
<1>. QED  BY <1>6

Opening(matches, cursor) == {m.from : m \in {m \in matches : m.from >= cursor}}

NextMatch(matches, cursor) == BestFrom(matches, Min(Opening(matches, cursor)))

(* One turn of the loop of _apply_patterns: f is what the later turns choose. *)
ChoiceFrom(matches, f, cursor) ==
  IF Opening(matches, cursor) = {} THEN {}
  ELSE {NextMatch(matches, cursor)} \cup f[NextMatch(matches, cursor).to]

LEMMA NextMatchIs ==
  ASSUME NEW matches \in SUBSET Matches, NEW cursor \in Nat, Opening(matches, cursor) # {}
  PROVE  LET best == NextMatch(matches, cursor) IN
         /\ best \in matches /\ cursor <= best.from
         /\ \A m \in matches : m.from >= cursor => best.from <= m.from
         /\ \A m \in matches : m.from = best.from => Preferred(best, m)
<1>. DEFINE O == Opening(matches, cursor)
<1>1. O \in SUBSET Nat /\ O # {}
  BY MatchIs DEF Opening
<1>2. Min(O) \in O /\ \A x \in O : Min(O) <= x
  <2>1. \E x \in O : \A y \in O : x <= y
    BY <1>1, SomeNatIsLeast
  <2>. HIDE DEF O
  <2>. QED  BY <2>1 DEF Min
<1>3. /\ \E m \in matches : m.from = Min(O) /\ m.from >= cursor
      /\ \A m \in matches : m.from >= cursor => Min(O) <= m.from
  BY <1>2 DEF Opening
<1>. HIDE DEF O
<1>4. LET best == BestFrom(matches, Min(O)) IN
      best \in matches /\ best.from = Min(O) /\ \A b \in matches : b.from = Min(O) => Preferred(best, b)
  BY <1>3, BestIsPreferred
<1>. QED  BY <1>3, <1>4 DEF NextMatch, O

(* The loop ends: there is a function that chooses from every place on. *)
Chooses(matches, f, low) ==
  /\ f = [c \in low..Width |-> f[c]]
  /\ \A c \in low..Width : f[c] = ChoiceFrom(matches, f, c)

LEMMA SomethingChooses ==
  ASSUME NEW matches \in SUBSET Matches
  PROVE  \E f : Chooses(matches, f, 0)
<1>. DEFINE Undone == {n \in 0..Width : ~\E f : Chooses(matches, f, Width - n)}
<1>0. Width \in Nat
  BY KeywordLinksAssumption
<1>1. ASSUME Undone # {} PROVE FALSE
  <2>1. PICK n \in Undone : \A k \in Undone : n <= k
    <3>1. Undone \in SUBSET Nat
      BY <1>0
    <3>. HIDE DEF Undone
    <3>. QED  BY <1>1, <3>1, SomeNatIsLeast
  <2>2. n \in 0..Width /\ ~\E f : Chooses(matches, f, Width - n)
    OBVIOUS
  <2>3. CASE n = 0
    <3>. DEFINE g == [c \in Width..Width |-> {}]
    <3>1. Opening(matches, Width) = {}
      BY MatchIs, <1>0 DEF Opening
    <3>2. Chooses(matches, g, Width)
      BY <1>0, <3>1 DEF Chooses, ChoiceFrom
    <3>. QED  BY <1>0, <2>2, <2>3, <3>2
  <2>4. CASE n > 0
    <3>. DEFINE low == Width - n
    <3>1. PICK g : Chooses(matches, g, low + 1)
      <4>1. n - 1 \in 0..Width /\ n - 1 \notin Undone
        BY <1>0, <2>1, <2>2, <2>4
      <4>2. Width - (n - 1) = low + 1
        BY <1>0, <2>2
      <4>. QED  BY <4>1, <4>2
    <3>. DEFINE h == [c \in low..Width |-> IF c = low THEN ChoiceFrom(matches, g, low) ELSE g[c]]
    <3>2. low \in Nat /\ low <= Width
      BY <1>0, <2>2
    <3>3. ASSUME NEW c \in low..Width PROVE ChoiceFrom(matches, h, c) = ChoiceFrom(matches, g, c)
      <4>1. CASE Opening(matches, c) = {}
        BY <4>1 DEF ChoiceFrom
      <4>2. CASE Opening(matches, c) # {}
        <5>1. c \in Nat
          BY <3>2, <1>0
        <5>2. NextMatch(matches, c) \in Matches /\ c <= NextMatch(matches, c).from
          BY <4>2, <5>1, NextMatchIs
        <5>3. NextMatch(matches, c).to \in (low + 1)..Width
          BY <3>2, <5>1, <5>2, <1>0, MatchIs
        <5>4. h[NextMatch(matches, c).to] = g[NextMatch(matches, c).to]
          BY <3>2, <5>3, <1>0
        <5>. QED  BY <4>2, <5>4 DEF ChoiceFrom
      <4>. QED  BY <4>1, <4>2
    <3>4. ASSUME NEW c \in low..Width PROVE h[c] = ChoiceFrom(matches, g, c)
      <4>1. CASE c = low
        BY <4>1
      <4>2. CASE c # low
        <5>1. c \in (low + 1)..Width
          BY <3>2, <4>2, <1>0
        <5>. QED  BY <3>1, <4>2, <5>1 DEF Chooses
      <4>. QED  BY <4>1, <4>2
    <3>5. Chooses(matches, h, low)
      <4>1. h = [c \in low..Width |-> h[c]]
        OBVIOUS
      <4>. HIDE DEF h
      <4>. QED  BY <3>3, <3>4, <4>1 DEF Chooses
    <3>. QED  BY <2>2, <3>5
  <2>. QED  BY <1>0, <2>2, <2>3, <2>4
<1>2. Width \in 0..Width /\ Width - Width = 0
  BY <1>0
<1>. QED  BY <1>1, <1>2

(* What is chosen from a place on: links that do not overlap, and none left out but
   for a better one. *)
FairFrom(matches, chosen, cursor) ==
  /\ \A a \in chosen : a \in matches /\ a.from >= cursor
  /\ \A a, b \in chosen : a # b => ~Overlap(a, b)
  /\ \A m \in matches \ chosen : m.from >= cursor => \E a \in chosen :
       Overlap(a, m) /\ (a.from < m.from \/ (a.from = m.from /\ Preferred(a, m)))

LEMMA FirstThenFair ==
  ASSUME NEW matches \in SUBSET Matches, NEW cursor \in Nat, Opening(matches, cursor) # {},
         NEW later, FairFrom(matches, later, NextMatch(matches, cursor).to)
  PROVE  FairFrom(matches, {NextMatch(matches, cursor)} \cup later, cursor)
<1>. DEFINE best == NextMatch(matches, cursor)
            chosen == {best} \cup later
<1>1. /\ best \in matches /\ cursor <= best.from
      /\ \A m \in matches : m.from >= cursor => best.from <= m.from
      /\ \A m \in matches : m.from = best.from => Preferred(best, m)
  BY NextMatchIs
<1>. HIDE DEF best
<1>2. best.from \in Nat /\ best.to \in Nat /\ best.from < best.to
  BY <1>1, MatchIs
<1>3. \A a \in later : a \in matches /\ a.from >= best.to
  BY DEF FairFrom, best
<1>4. \A m \in matches : m.from \in Nat /\ m.to \in Nat /\ m.from < m.to
  BY MatchIs
<1>5. \A a \in chosen : a \in matches /\ a.from >= cursor
  BY <1>1, <1>2, <1>3, <1>4
<1>6. ASSUME NEW a \in chosen, NEW b \in chosen, a # b PROVE ~Overlap(a, b)
  <2>1. CASE a \in later /\ b \in later
    BY <1>6, <2>1 DEF FairFrom
  <2>2. CASE a = best /\ b \in later
    BY <1>2, <1>3, <1>4, <2>2 DEF Overlap
  <2>3. CASE b = best /\ a \in later
    BY <1>2, <1>3, <1>4, <2>3 DEF Overlap
  <2>. QED  BY <1>6, <2>1, <2>2, <2>3
<1>7. ASSUME NEW m \in matches \ chosen, m.from >= cursor
      PROVE  \E a \in chosen : Overlap(a, m) /\ (a.from < m.from \/ (a.from = m.from /\ Preferred(a, m)))
  <2>1. CASE m.from >= best.to
    BY <2>1 DEF FairFrom, best
  <2>2. CASE m.from < best.to
    <3>1. best.from <= m.from /\ (m.from = best.from => Preferred(best, m))
      BY <1>1, <1>7
    <3>2. Overlap(best, m)
      BY <1>2, <1>4, <2>2, <3>1 DEF Overlap
    <3>3. best.from < m.from \/ (best.from = m.from /\ Preferred(best, m))
      BY <1>2, <1>4, <3>1
    <3>. QED  BY <3>2, <3>3
  <2>. QED  BY <1>2, <1>4, <2>1, <2>2
<1>8. FairFrom(matches, chosen, cursor)
  BY <1>5, <1>6, <1>7 DEF FairFrom
<1>. QED  BY <1>8 DEF best

LEMMA ChoosesFairly ==
  ASSUME NEW matches \in SUBSET Matches, NEW f, Chooses(matches, f, 0), NEW cursor \in 0..Width
  PROVE  FairFrom(matches, f[cursor], cursor)
<1>. DEFINE Unfair == {n \in 0..Width : ~FairFrom(matches, f[Width - n], Width - n)}
<1>0. Width \in Nat
  BY KeywordLinksAssumption
<1>1. ASSUME Unfair # {} PROVE FALSE
  <2>1. PICK n \in Unfair : \A k \in Unfair : n <= k
    <3>1. Unfair \in SUBSET Nat
      BY <1>0
    <3>. HIDE DEF Unfair
    <3>. QED  BY <1>1, <3>1, SomeNatIsLeast
  <2>. DEFINE c == Width - n
  <2>2. n \in 0..Width /\ c \in 0..Width /\ c \in Nat /\ ~FairFrom(matches, f[c], c)
    BY <1>0
  <2>3. f[c] = ChoiceFrom(matches, f, c)
    BY <2>2 DEF Chooses
  <2>. HIDE DEF c
  <2>4. CASE Opening(matches, c) = {}
    <3>1. \A m \in matches : ~(m.from >= c)
      BY <2>4 DEF Opening
    <3>. QED  BY <2>2, <2>3, <2>4, <3>1 DEF ChoiceFrom, FairFrom
  <2>5. CASE Opening(matches, c) # {}
    <3>1. NextMatch(matches, c) \in Matches /\ c <= NextMatch(matches, c).from
      BY <2>2, <2>5, NextMatchIs
    <3>. DEFINE d == NextMatch(matches, c).to
    <3>2. d \in Nat /\ c < d /\ d <= Width
      BY <2>2, <3>1, MatchIs
    <3>3. FairFrom(matches, f[d], d)
      <4>1. Width - d \in 0..Width /\ Width - d < n /\ Width - (Width - d) = d
        BY <1>0, <2>2, <3>2 DEF c
      <4>2. Width - d \notin Unfair
        BY <1>0, <2>1, <2>2, <4>1
      <4>. QED  BY <4>1, <4>2
    <3>. QED  BY <2>2, <2>3, <2>5, <3>3, FirstThenFair DEF ChoiceFrom
  <2>. QED  BY <2>4, <2>5
<1>2. Width - cursor \in 0..Width /\ Width - (Width - cursor) = cursor
  BY <1>0
<1>. QED  BY <1>1, <1>2

LEMMA AcceptedChooses ==
  ASSUME NEW matches \in SUBSET Matches
  PROVE  \E f : Chooses(matches, f, 0) /\ Accepted(matches) = f[0]
<1>. DEFINE f == CHOOSE f : f = [cursor \in 0..Width |-> ChoiceFrom(matches, f, cursor)]
<1>1. Accepted(matches) = f[0]
  BY DEF Accepted, ChoiceFrom, NextMatch, Opening
<1>2. \E g : g = [cursor \in 0..Width |-> ChoiceFrom(matches, g, cursor)]
  <2>1. PICK g : Chooses(matches, g, 0)
    BY SomethingChooses
  <2>2. g = [cursor \in 0..Width |-> ChoiceFrom(matches, g, cursor)]
    BY <2>1 DEF Chooses
  <2>. QED  BY <2>2
<1>3. f = [cursor \in 0..Width |-> ChoiceFrom(matches, f, cursor)]
  BY <1>2
<1>. HIDE DEF f
<1>4. Chooses(matches, f, 0)
  BY <1>3 DEF Chooses
<1>. QED  BY <1>1, <1>4

(* src/kiwi/keyword_links.py 184-237 (_apply_patterns): for every set of matches, of
   any length of text and any priorities, the loop links no two that overlap, and
   leaves none out but for one that begins before it, or at its place and preferred. *)
THEOREM EveryChoiceIsFair == ChoiceSpec => []ChoiceOfMatchesIsFair
<1>1. chunk \in SUBSET Matches => ChoiceOfMatchesIsFair
  <2>. SUFFICES ASSUME chunk \in SUBSET Matches PROVE ChoiceIsFair(chunk)
    BY DEF ChoiceOfMatchesIsFair
  <2>1. PICK f : Chooses(chunk, f, 0) /\ Accepted(chunk) = f[0]
    BY AcceptedChooses
  <2>2. FairFrom(chunk, Accepted(chunk), 0)
    <3>1. 0 \in 0..Width
      BY KeywordLinksAssumption
    <3>. QED  BY <2>1, <3>1, ChoosesFairly
  <2>3. \A m \in chunk : m.from >= 0
    BY MatchIs
  <2>. QED  BY <2>2, <2>3 DEF FairFrom, ChoiceIsFair
<1>2. chunk \in SUBSET Matches /\ [UNCHANGED chunk]_chunk => (chunk \in SUBSET Matches)'
  OBVIOUS
<1>. QED  BY <1>1, <1>2, PTL DEF ChoiceSpec

--------------------------------------------------------------------------------
(* The tables of a file, row by row. *)

LEMMA RowsAreKept ==
  /\ \A row \in Rows : row \in KeptRows
  /\ \A kept \in KeptRows, row \in Rows : Raised(kept, row) \in KeptRows
  /\ \A kept \in KeptRows : kept.priority \in Int
<1>1. ASSUME NEW row \in Rows PROVE row \in KeptRows
  <2>1. row = [row EXCEPT !.priority = row.priority]
    BY KeywordLinksAssumption
  <2>. QED  BY <2>1 DEF KeptRows, Priorities
<1>2. ASSUME NEW kept \in KeptRows
      PROVE  kept.priority \in Int /\ \A row \in Rows : Raised(kept, row) \in KeptRows
  <2>1. PICK r \in Rows, p \in Priorities : kept = [r EXCEPT !.priority = p]
    BY DEF KeptRows
  <2>2. kept = [dest |-> r.dest, word |-> r.word, link |-> r.link, priority |-> p]
    BY <2>1, KeywordLinksAssumption
  <2>3. ASSUME NEW row \in Rows PROVE Raised(kept, row) \in KeptRows
    <3>. DEFINE high == row.priority
    <3>1. high \in Priorities
      BY DEF Priorities
    <3>2. Raised(kept, row) = kept \/ Raised(kept, row) = [kept EXCEPT !.priority = high]
      BY DEF Raised
    <3>. HIDE DEF high
    <3>3. [kept EXCEPT !.priority = high] = [r EXCEPT !.priority = high]
      BY <2>1, <2>2, KeywordLinksAssumption
    <3>4. [r EXCEPT !.priority = high] \in KeptRows
      BY <3>1 DEF KeptRows
    <3>. QED  BY <3>2, <3>3, <3>4
  <2>4. p \in Int
    BY KeywordLinksAssumption DEF Priorities
  <2>. QED  BY <2>2, <2>3, <2>4
<1>. QED  BY <1>1, <1>2

\* Raised never takes a word, a link or a priority away, and honours the row's.
LEMMA RaisedHonours ==
  ASSUME NEW kept \in KeptRows, NEW row \in Rows
  PROVE  LET new == Raised(kept, row) IN
         /\ new.word = kept.word /\ new.link = kept.link
         /\ new.priority >= kept.priority
         /\ SameLink(kept, row) => new.priority >= row.priority
<1>1. kept.priority \in Int /\ row.priority \in Int
  BY RowsAreKept, KeywordLinksAssumption
<1>2. PICK r \in Rows, p \in Priorities : kept = [r EXCEPT !.priority = p]
  BY DEF KeptRows
<1>3. kept = [dest |-> r.dest, word |-> r.word, link |-> r.link, priority |-> p]
  BY <1>2, KeywordLinksAssumption
<1>4. CASE kept.link = row.link /\ row.priority > kept.priority
  BY <1>1, <1>3, <1>4 DEF Raised, SameLink
<1>5. CASE ~(kept.link = row.link /\ row.priority > kept.priority)
  BY <1>1, <1>5 DEF Raised, SameLink
<1>. QED  BY <1>4, <1>5

LEMMA MergedIs ==
  ASSUME NEW rows \in Seq(KeptRows), NEW row \in Rows, NEW at \in SUBSET DOMAIN rows
  PROVE  LET new == Merged(rows, row, at) IN
         /\ new \in Seq(KeptRows)
         /\ at = {} => /\ DOMAIN new = DOMAIN rows \cup {Len(rows) + 1}
                       /\ new[Len(rows) + 1] = row
                       /\ \A i \in DOMAIN rows : new[i] = rows[i]
         /\ at # {} => /\ DOMAIN new = DOMAIN rows
                       /\ \A i \in DOMAIN rows : new[i] = IF i \in at THEN Raised(rows[i], row) ELSE rows[i]
<1>1. rows \in [1..Len(rows) -> KeptRows] /\ Len(rows) \in Nat /\ DOMAIN rows = 1..Len(rows)
  OBVIOUS
<1>2. row \in KeptRows
  BY RowsAreKept
<1>3. CASE at = {}
  <2>1. Merged(rows, row, at) = Append(rows, row)
    BY <1>3 DEF Merged
  <2>2. /\ Append(rows, row) \in Seq(KeptRows) /\ Len(Append(rows, row)) = Len(rows) + 1
        /\ \A i \in 1..Len(rows) : Append(rows, row)[i] = rows[i]
        /\ Append(rows, row)[Len(rows) + 1] = row
    BY <1>2, AppendProperties
  <2>3. DOMAIN Append(rows, row) = 1..(Len(rows) + 1)
    BY <2>2
  <2>4. 1..(Len(rows) + 1) = (1..Len(rows)) \cup {Len(rows) + 1}
    BY <1>1
  <2>. QED  BY <1>1, <1>3, <2>1, <2>2, <2>3, <2>4
<1>4. CASE at # {}
  <2>. DEFINE new == [i \in 1..Len(rows) |-> IF i \in at THEN Raised(rows[i], row) ELSE rows[i]]
  <2>1. Merged(rows, row, at) = new
    BY <1>1, <1>4 DEF Merged
  <2>2. ASSUME NEW i \in 1..Len(rows) PROVE new[i] \in KeptRows
    BY <1>1, RowsAreKept
  <2>3. new \in [1..Len(rows) -> KeptRows]
    BY <2>2
  <2>4. new \in Seq(KeptRows)
    BY <1>1, <2>3
  <2>5. DOMAIN new = DOMAIN rows
    BY <1>1
  <2>. QED  BY <1>1, <1>4, <2>1, <2>4, <2>5
<1>. QED  BY <1>3, <1>4

LEMMA ContentIs ==
  ASSUME NEW content \in Contents
  PROVE  /\ Len(content) \in Nat /\ DOMAIN content = 1..Len(content)
         /\ \A i \in 1..Len(content) : content[i] \in Rows /\ content[i].dest \in Destinations
<1>1. PICK m \in 0..FileRows : content \in [1..m -> Rows]
  BY DEF Contents, SeqOf
<1>2. m \in Nat
  BY KeywordLinksAssumption
<1>3. content \in Seq(Rows)
  BY <1>1, <1>2
<1>. QED  BY <1>3 DEF Destinations

(* The first row that a destination has for its keyword. *)
FirstForWord(content, i) ==
  \A j \in 1..(i - 1) : ~(SameWord(content[i], content[j]) /\ content[i].dest = content[j].dest)

(* The tables after the first n rows: every row kept is one of these, a destination
   keeps one for a word, and that is its first, with the highest priority given. *)
TablesOf(content, n, kept) ==
  /\ kept.of \in [Destinations -> Seq(KeptRows)] /\ kept.all \in Seq(KeptRows)
  /\ \A d \in Destinations : \A x, y \in DOMAIN kept.of[d] :
       SameWord(kept.of[d][x], kept.of[d][y]) => x = y
  /\ \A d \in Destinations : \A x \in DOMAIN kept.of[d] : \E j \in 1..n :
       content[j].dest = d /\ SameLink(content[j], kept.of[d][x])
  /\ \A x \in DOMAIN kept.all : \E j \in 1..n : SameLink(content[j], kept.all[x])
  /\ \A i \in 1..n : FirstForWord(content, i) =>
       \E x \in DOMAIN kept.of[content[i].dest] :
         /\ SameLink(kept.of[content[i].dest][x], content[i])
         /\ \A k \in 1..n : content[k].dest = content[i].dest /\ SameLink(content[i], content[k])
              => kept.of[content[i].dest][x].priority >= content[k].priority

LEMMA NextRowKeepsTables ==
  ASSUME NEW content \in Contents, NEW n \in 1..Len(content), NEW kept,
         TablesOf(content, n - 1, kept)
  PROVE  TablesOf(content, n, WithRow(kept, content[n]))
<1>. DEFINE row   == content[n]
            own   == kept.of[row.dest]
            known == {x \in DOMAIN own : SameWord(own[x], row)}
            glob  == kept.all
            linked == {x \in DOMAIN glob : SameLink(glob[x], row)}
            wide  == Merged(glob, row, linked)
            mine  == Merged(own, row, known)
            new   == WithRow(kept, row)
<1>1. Len(content) \in Nat /\ n \in Nat /\ n \in 1..n /\ n - 1 \in Nat
  BY ContentIs
<1>2. \A i \in 1..n : content[i] \in Rows /\ content[i].dest \in Destinations /\ content[i].priority \in Int
  BY <1>1, ContentIs, KeywordLinksAssumption
<1>3. 1..n = (1..(n - 1)) \cup {n}
  BY <1>1
<1>4. own \in Seq(KeptRows) /\ kept.all \in Seq(KeptRows) /\ row \in Rows /\ row.dest \in Destinations
  BY <1>1, <1>2 DEF TablesOf
<1>5. /\ new.of = [kept.of EXCEPT ![row.dest] = mine]
      /\ new.all = IF known # {} THEN kept.all ELSE wide
  BY DEF WithRow
<1>6. /\ mine \in Seq(KeptRows)
      /\ known = {} => /\ DOMAIN mine = DOMAIN own \cup {Len(own) + 1}
                       /\ mine[Len(own) + 1] = row
                       /\ \A i \in DOMAIN own : mine[i] = own[i]
      /\ known # {} => /\ DOMAIN mine = DOMAIN own
                       /\ \A i \in DOMAIN own : mine[i] = IF i \in known THEN Raised(own[i], row) ELSE own[i]
  <2>. HIDE DEF own
  <2>1. known \in SUBSET DOMAIN own
    OBVIOUS
  <2>. HIDE DEF known
  <2>. QED  BY <1>4, <2>1, MergedIs
<1>7. /\ new.of \in [Destinations -> Seq(KeptRows)]
      /\ new.of[row.dest] = mine
      /\ \A d \in Destinations \ {row.dest} : new.of[d] = kept.of[d]
  <2>1. kept.of \in [Destinations -> Seq(KeptRows)]
    BY DEF TablesOf
  <2>. HIDE DEF mine, new
  <2>. QED  BY <1>4, <1>5, <1>6, <2>1
<1>8. /\ new.all \in Seq(KeptRows)
      /\ \A x \in DOMAIN new.all : SameLink(row, new.all[x])
                                   \/ (x \in DOMAIN kept.all /\ SameLink(kept.all[x], new.all[x]))
  <2>1. CASE known # {}
    <3>1. new.all = kept.all
      BY <1>5, <2>1
    <3>. QED  BY <1>4, <3>1 DEF SameLink
  <2>2. CASE known = {}
    <3>1. new.all = wide
      BY <1>5, <2>2
    <3>2. glob = kept.all /\ glob \in Seq(KeptRows)
      BY <1>4
    <3>3. linked \in SUBSET DOMAIN glob
      OBVIOUS
    <3>. HIDE DEF glob, linked, row, own, known, mine
    <3>4. /\ wide \in Seq(KeptRows)
          /\ linked = {} => /\ DOMAIN wide = DOMAIN glob \cup {Len(glob) + 1}
                            /\ wide[Len(glob) + 1] = row
                            /\ \A i \in DOMAIN glob : wide[i] = glob[i]
          /\ linked # {} => /\ DOMAIN wide = DOMAIN glob
                            /\ \A i \in DOMAIN glob :
                                 wide[i] = IF i \in linked THEN Raised(glob[i], row) ELSE glob[i]
      <4>1. row \in Rows /\ glob \in Seq(KeptRows)
        BY <1>4, <3>2
      <4>. QED  BY <3>3, <4>1, MergedIs
    <3>. HIDE DEF wide, new
    <3>5. ASSUME NEW i \in DOMAIN glob PROVE SameLink(glob[i], Raised(glob[i], row))
      <4>1. glob[i] \in KeptRows
        BY <3>2
      <4>. QED  BY <1>4, <4>1, RaisedHonours DEF SameLink
    <3>6. CASE linked = {}
      BY <3>1, <3>2, <3>4, <3>6 DEF SameLink
    <3>7. CASE linked # {}
      BY <3>1, <3>2, <3>4, <3>5, <3>7 DEF SameLink
    <3>. QED  BY <3>6, <3>7
  <2>. QED  BY <2>1, <2>2
<1>9. \A x \in DOMAIN own : x \in DOMAIN mine /\ mine[x].word = own[x].word /\ mine[x].link = own[x].link
                            /\ mine[x].priority >= own[x].priority
                            /\ (SameLink(own[x], row) => mine[x].priority >= row.priority)
  <2>1. ASSUME NEW x \in DOMAIN own
        PROVE  /\ own[x] \in KeptRows /\ own[x].priority \in Int
               /\ SameLink(own[x], row) => x \in known
    BY <1>4, RowsAreKept DEF SameLink, SameWord
  <2>. HIDE DEF own, known, row, mine
  <2>2. ASSUME NEW x \in DOMAIN own
        PROVE  LET r == Raised(own[x], row) IN
               /\ r.word = own[x].word /\ r.link = own[x].link /\ r.priority >= own[x].priority
               /\ (SameLink(own[x], row) => r.priority >= row.priority)
    BY <1>4, <2>1, RaisedHonours
  <2>3. CASE known = {}
    BY <1>6, <2>1, <2>3
  <2>4. CASE known # {}
    BY <1>6, <2>1, <2>2, <2>4
  <2>. QED  BY <2>3, <2>4
<1>10. \A x \in DOMAIN mine \ DOMAIN own : known = {} /\ x = Len(own) + 1 /\ mine[x] = row
  <2>. HIDE DEF own, known, row, mine
  <2>. QED  BY <1>6
<1>. HIDE DEF mine, new, row
<1>11. \A x, y \in DOMAIN mine : SameWord(mine[x], mine[y]) => x = y
  <2>1. \A x, y \in DOMAIN own : SameWord(own[x], own[y]) => x = y
    BY <1>4 DEF TablesOf
  <2>2. \A x \in DOMAIN mine \ DOMAIN own, y \in DOMAIN own : ~SameWord(own[y], mine[x])
    BY <1>10
  <2>3. \A x \in DOMAIN mine, y \in DOMAIN mine : x \notin DOMAIN own /\ y \notin DOMAIN own => x = y
    BY <1>10
  <2>. HIDE DEF own, known
  <2>. QED  BY <1>9, <2>1, <2>2, <2>3 DEF SameWord
<1>12. \A d \in Destinations : \A x, y \in DOMAIN new.of[d] : SameWord(new.of[d][x], new.of[d][y]) => x = y
  BY <1>7, <1>11 DEF TablesOf
<1>13. \A d \in Destinations : \A x \in DOMAIN new.of[d] : \E j \in 1..n :
         content[j].dest = d /\ SameLink(content[j], new.of[d][x])
  <2>1. \A d \in Destinations : \A x \in DOMAIN kept.of[d] : \E j \in 1..n :
          content[j].dest = d /\ SameLink(content[j], kept.of[d][x])
    BY <1>3 DEF TablesOf
  <2>2. ASSUME NEW x \in DOMAIN mine
        PROVE  \E j \in 1..n : content[j].dest = row.dest /\ SameLink(content[j], mine[x])
    <3>1. CASE x \in DOMAIN own
      <4>1. PICK j \in 1..n : content[j].dest = row.dest /\ SameLink(content[j], own[x])
        BY <1>4, <2>1, <3>1
      <4>. HIDE DEF own, known
      <4>. QED  BY <1>9, <3>1, <4>1 DEF SameLink
    <3>2. CASE x \notin DOMAIN own
      <4>1. mine[x] = row
        BY <1>10, <3>2
      <4>. QED  BY <1>1, <4>1 DEF SameLink, row
    <3>. QED  BY <3>1, <3>2
  <2>. QED  BY <1>7, <2>1, <2>2
<1>14. \A x \in DOMAIN new.all : \E j \in 1..n : SameLink(content[j], new.all[x])
  <2>1. \A x \in DOMAIN kept.all : \E j \in 1..n : SameLink(content[j], kept.all[x])
    BY <1>3 DEF TablesOf
  <2>. QED  BY <1>1, <1>8, <2>1 DEF SameLink, row
<1>15. ASSUME NEW i \in 1..n, FirstForWord(content, i)
       PROVE  \E x \in DOMAIN new.of[content[i].dest] :
                /\ SameLink(new.of[content[i].dest][x], content[i])
                /\ \A k \in 1..n : content[k].dest = content[i].dest /\ SameLink(content[i], content[k])
                     => new.of[content[i].dest][x].priority >= content[k].priority
  <2>. DEFINE d == content[i].dest
  <2>1. CASE i \in 1..(n - 1)
    <3>1. PICK x \in DOMAIN kept.of[d] :
            /\ SameLink(kept.of[d][x], content[i])
            /\ \A k \in 1..(n - 1) : content[k].dest = d /\ SameLink(content[i], content[k])
                 => kept.of[d][x].priority >= content[k].priority
      BY <1>15, <2>1 DEF TablesOf
    <3>2. CASE d # row.dest
      <4>1. new.of[d] = kept.of[d]
        BY <1>2, <1>7, <3>2
      <4>. QED  BY <1>3, <3>1, <3>2, <4>1 DEF row
    <3>3. CASE d = row.dest
      <4>1. /\ x \in DOMAIN own /\ SameLink(own[x], content[i])
            /\ \A k \in 1..(n - 1) : content[k].dest = d /\ SameLink(content[i], content[k])
                 => own[x].priority >= content[k].priority
        BY <3>1, <3>3
      <4>2. own[x] \in KeptRows /\ own[x].priority \in Int
        BY <1>4, <4>1, RowsAreKept
      <4>3. mine[x] \in KeptRows /\ mine[x].priority \in Int
        <5>1. x \in DOMAIN mine
          BY <1>9, <4>1
        <5>. QED  BY <1>6, <5>1, RowsAreKept
      <4>. HIDE DEF own, known, d
      <4>4. x \in DOMAIN mine /\ SameLink(mine[x], content[i]) /\ mine[x].priority >= own[x].priority
        BY <1>9, <4>1 DEF SameLink
      <4>5. ASSUME NEW k \in 1..n, content[k].dest = d, SameLink(content[i], content[k])
            PROVE  mine[x].priority >= content[k].priority
        <5>1. CASE k \in 1..(n - 1)
          <6>1. own[x].priority >= content[k].priority
            BY <4>1, <4>5, <5>1
          <6>2. content[k].priority \in Int
            BY <1>2
          <6>. QED  BY <4>2, <4>3, <4>4, <6>1, <6>2
        <5>2. CASE k = n
          <6>1. SameLink(own[x], row)
            BY <4>1, <4>5, <5>2 DEF SameLink, row
          <6>. QED  BY <1>9, <4>1, <5>2, <6>1 DEF row
        <5>. QED  BY <1>3, <5>1, <5>2
      <4>. QED  BY <1>7, <3>3, <4>4, <4>5 DEF d
    <3>. QED  BY <3>2, <3>3
  <2>2. CASE i = n
    <3>1. \A j \in 1..(n - 1) : ~(SameWord(row, content[j]) /\ row.dest = content[j].dest)
      BY <1>15, <2>2 DEF FirstForWord, row
    <3>2. known = {}
      <4>1. SUFFICES ASSUME NEW x \in DOMAIN own, SameWord(own[x], row) PROVE FALSE
        OBVIOUS
      <4>2. PICK j \in 1..(n - 1) : content[j].dest = row.dest /\ SameLink(content[j], own[x])
        BY <1>4 DEF TablesOf
      <4>. QED  BY <3>1, <4>1, <4>2 DEF SameLink, SameWord
    <3>. DEFINE x == Len(own) + 1
    <3>3. x \in DOMAIN mine /\ mine[x] = row
      BY <1>6, <3>2
    <3>4. ASSUME NEW k \in 1..n, content[k].dest = row.dest, SameLink(row, content[k])
          PROVE  row.priority >= content[k].priority
      <4>1. k = n
        BY <1>3, <3>1, <3>4 DEF SameLink, SameWord
      <4>. QED  BY <1>2, <4>1 DEF row
    <3>5. SameLink(mine[x], row)
      BY <3>3 DEF SameLink
    <3>. HIDE DEF x
    <3>. QED  BY <1>7, <2>2, <3>3, <3>4, <3>5 DEF row
  <2>. QED  BY <1>3, <2>1, <2>2
<1>16. TablesOf(content, n, new)
  BY <1>7, <1>8, <1>12, <1>13, <1>14, <1>15 DEF TablesOf
<1>. QED  BY <1>16 DEF new, row

(* One turn of the loop of _load_if_changed: f is what the earlier turns made. *)
TablesAfter(content, f, n) ==
  IF n = 0 THEN [of |-> NoEntries, all |-> <<>>] ELSE WithRow(f[n - 1], content[n])

(* The loop ends: there is a function that gives the tables after every row. *)
ParsesTo(content, f, high) ==
  /\ f = [n \in 0..high |-> f[n]]
  /\ \A n \in 0..high : f[n] = TablesAfter(content, f, n)

LEMMA SomethingParses ==
  ASSUME NEW content \in Contents
  PROVE  \E f : ParsesTo(content, f, Len(content))
<1>. DEFINE Undone == {n \in 0..Len(content) : ~\E f : ParsesTo(content, f, n)}
<1>0. Len(content) \in Nat
  BY ContentIs
<1>1. ASSUME Undone # {} PROVE FALSE
  <2>1. PICK n \in Undone : \A k \in Undone : n <= k
    <3>1. Undone \in SUBSET Nat
      BY <1>0
    <3>. HIDE DEF Undone
    <3>. QED  BY <1>1, <3>1, SomeNatIsLeast
  <2>2. n \in 0..Len(content) /\ n \in Nat /\ ~\E f : ParsesTo(content, f, n)
    BY <1>0
  <2>3. CASE n = 0
    <3>. DEFINE g == [k \in 0..0 |-> [of |-> NoEntries, all |-> <<>>]]
    <3>1. ParsesTo(content, g, 0)
      BY DEF ParsesTo, TablesAfter
    <3>. QED  BY <2>2, <2>3, <3>1
  <2>4. CASE n > 0
    <3>1. PICK g : ParsesTo(content, g, n - 1)
      <4>1. n - 1 \in 0..Len(content) /\ n - 1 \notin Undone
        BY <1>0, <2>1, <2>2, <2>4
      <4>. QED  BY <4>1
    <3>. DEFINE h == [k \in 0..n |-> IF k = n THEN WithRow(g[n - 1], content[n]) ELSE g[k]]
    <3>2. \A k \in 0..(n - 1) : k \in 0..n /\ k # n /\ (k # 0 => k - 1 \in 0..(n - 1))
      BY <2>2
    <3>3. \A k \in 0..(n - 1) : h[k] = g[k]
      BY <3>2
    <3>4. ASSUME NEW k \in 0..n PROVE h[k] = TablesAfter(content, h, k)
      <4>1. CASE k = n
        <5>1. n - 1 \in 0..(n - 1) /\ n # 0
          BY <2>2, <2>4
        <5>2. h[n] = WithRow(g[n - 1], content[n]) /\ h[n - 1] = g[n - 1]
          BY <2>2, <3>3, <5>1
        <5>. HIDE DEF h
        <5>. QED  BY <4>1, <5>1, <5>2 DEF TablesAfter
      <4>2. CASE k # n
        <5>1. k \in 0..(n - 1)
          BY <2>2, <4>2
        <5>2. h[k] = g[k] /\ (k # 0 => h[k - 1] = g[k - 1])
          BY <3>2, <3>3, <5>1
        <5>3. g[k] = TablesAfter(content, g, k)
          BY <3>1, <5>1 DEF ParsesTo
        <5>. HIDE DEF h
        <5>. QED  BY <5>2, <5>3 DEF TablesAfter
      <4>. QED  BY <4>1, <4>2
    <3>5. h = [k \in 0..n |-> h[k]]
      OBVIOUS
    <3>. HIDE DEF h
    <3>6. ParsesTo(content, h, n)
      BY <3>4, <3>5 DEF ParsesTo
    <3>. QED  BY <2>2, <3>6
  <2>. QED  BY <2>2, <2>3, <2>4
<1>2. Len(content) \in 0..Len(content)
  BY <1>0
<1>. QED  BY <1>1, <1>2

LEMMA ParseIs ==
  ASSUME NEW content \in Contents
  PROVE  \E f : ParsesTo(content, f, Len(content)) /\ Parse(content) = f[Len(content)]
<1>. DEFINE f == CHOOSE f : f = [n \in 0..Len(content) |-> TablesAfter(content, f, n)]
<1>1. Parse(content) = f[Len(content)]
  BY DEF Parse, TablesAfter
<1>2. \E g : g = [n \in 0..Len(content) |-> TablesAfter(content, g, n)]
  <2>1. PICK g : ParsesTo(content, g, Len(content))
    BY SomethingParses
  <2>2. g = [n \in 0..Len(content) |-> TablesAfter(content, g, n)]
    BY <2>1 DEF ParsesTo
  <2>. QED  BY <2>2
<1>3. f = [n \in 0..Len(content) |-> TablesAfter(content, f, n)]
  BY <1>2
<1>. HIDE DEF f
<1>4. ParsesTo(content, f, Len(content))
  BY <1>3 DEF ParsesTo
<1>. QED  BY <1>1, <1>4

LEMMA NoEntriesAreTables ==
  /\ NoEntries \in [Destinations -> Seq(KeptRows)]
  /\ \A d \in Destinations : DOMAIN NoEntries[d] = {}
<1>1. <<>> \in Seq(KeptRows) /\ DOMAIN <<>> = {}
  OBVIOUS
<1>. QED  BY <1>1 DEF NoEntries

LEMMA ParseMakesTables ==
  ASSUME NEW content \in Contents
  PROVE  TablesOf(content, Len(content), Parse(content))
<1>1. PICK f : ParsesTo(content, f, Len(content)) /\ Parse(content) = f[Len(content)]
  BY ParseIs
<1>. DEFINE Wrong == {n \in 0..Len(content) : ~TablesOf(content, n, f[n])}
<1>2. Len(content) \in Nat
  BY ContentIs
<1>3. ASSUME Wrong # {} PROVE FALSE
  <2>1. PICK n \in Wrong : \A k \in Wrong : n <= k
    <3>1. Wrong \in SUBSET Nat
      BY <1>2
    <3>. HIDE DEF Wrong
    <3>. QED  BY <1>3, <3>1, SomeNatIsLeast
  <2>2. n \in 0..Len(content) /\ n \in Nat /\ ~TablesOf(content, n, f[n])
    BY <1>2
  <2>3. f[n] = TablesAfter(content, f, n)
    BY <1>1, <2>2 DEF ParsesTo
  <2>4. CASE n = 0
    <3>1. f[n] = [of |-> NoEntries, all |-> <<>>]
      BY <2>3, <2>4 DEF TablesAfter
    <3>2. f[n].of = NoEntries /\ f[n].all = <<>>
      BY <3>1
    <3>3. f[n].all \in Seq(KeptRows) /\ DOMAIN f[n].all = {}
      BY <3>2
    <3>4. 1..n = {}
      BY <2>4
    <3>. QED  BY <2>2, <3>2, <3>3, <3>4, NoEntriesAreTables DEF TablesOf
  <2>5. CASE n # 0
    <3>1. n - 1 \in 0..Len(content) /\ n - 1 < n /\ n \in 1..Len(content)
      BY <1>2, <2>2, <2>5
    <3>2. TablesOf(content, n - 1, f[n - 1])
      BY <2>1, <2>2, <3>1
    <3>3. f[n] = WithRow(f[n - 1], content[n])
      BY <2>3, <2>5 DEF TablesAfter
    <3>. QED  BY <2>2, <3>1, <3>2, <3>3, NextRowKeepsTables
  <2>. QED  BY <2>4, <2>5
<1>4. Len(content) \in 0..Len(content)
  BY <1>2
<1>. QED  BY <1>1, <1>3, <1>4

(* What the linker remembers is the file's, unless the time tells it is not. *)
FileShape ==
  /\ edits \in 0..EditCap /\ fileTime \in 0..edits /\ (readTime \in 0..edits \/ readTime = NoTime)
  /\ linksFile \in Contents \cup {Gone, Bad} /\ backup.rows \in Contents /\ backup.time = 0
  /\ entries \in [Destinations -> Seq(KeptRows)] /\ globalRows \in Seq(KeptRows)
  /\ usedRows \subseteq KeptRows
  /\ \A d \in Destinations : \A x, y \in DOMAIN entries[d] :
       SameWord(entries[d][x], entries[d][y]) => x = y

TablesAre(content) == entries = Parse(content).of /\ globalRows = Parse(content).all

TimeTells ==
  /\ linksFile = Bad => fileTime > 0
  /\ Readable /\ fileTime = 0 => linksFile = backup.rows
  /\ readTime = 0 => TablesAre(backup.rows)
  /\ Readable /\ AlreadyRead => TablesAre(linksFile)

LEMMA KeywordInitHolds == KeywordInit => FileShape /\ TimeTells
<1>. SUFFICES ASSUME KeywordInit PROVE FileShape /\ TimeTells
  OBVIOUS
<1>1. TablesOf(linksFile, Len(linksFile), Parse(linksFile))
  BY ParseMakesTables DEF KeywordInit
<1>2. linksFile # Bad
  BY KeywordLinksAssumption DEF KeywordInit
<1>3. EditCap \in Nat
  BY KeywordLinksAssumption
<1>4. FileShape
  BY <1>1, <1>3 DEF KeywordInit, FileShape, TablesOf
<1>. QED  BY <1>2, <1>4 DEF KeywordInit, TimeTells, TablesAre

LEMMA ChangesHold ==
  ASSUME FileShape, TimeTells, SaveKeywordLinks \/ RemoveFile \/ SpoilFile \/ PutBackFile
  PROVE  FileShape' /\ TimeTells'
<1>1. /\ edits \in 0..EditCap /\ edits < EditCap /\ edits' = edits + 1 /\ EditCap \in Nat
      /\ fileTime \in 0..edits /\ (readTime \in 0..edits \/ readTime = EditCap + 1)
      /\ UNCHANGED <<readTime, entries, globalRows, usedRows, backup>>
  BY KeywordLinksAssumption
     DEF FileShape, SaveKeywordLinks, RemoveFile, SpoilFile, PutBackFile, Changes, NoTime
<1>2. edits' \in 0..EditCap /\ (readTime' \in 0..edits' \/ readTime' = NoTime)
      /\ edits' # readTime /\ edits' > 0 /\ fileTime \in 0..edits'
  BY <1>1 DEF NoTime
<1>3. linksFile' \in Contents \cup {Gone, Bad} /\ fileTime' \in 0..edits'
  <2>1. edits' \in 0..edits' /\ 0 \in 0..edits'
    BY <1>1
  <2>. QED  BY <1>2, <2>1 DEF FileShape, SaveKeywordLinks, RemoveFile, SpoilFile, PutBackFile
<1>4. FileShape'
  BY <1>1, <1>2, <1>3 DEF FileShape
<1>5. CASE SaveKeywordLinks \/ SpoilFile
  <2>1. fileTime' = edits' /\ (linksFile' \in Contents \/ linksFile' = Bad)
    BY <1>5 DEF SaveKeywordLinks, SpoilFile
  <2>. QED  BY <1>1, <1>2, <1>4, <2>1 DEF TimeTells, TablesAre, AlreadyRead
<1>6. CASE RemoveFile
  <2>1. linksFile' = Gone /\ Gone # Bad
    BY <1>6, KeywordLinksAssumption DEF RemoveFile
  <2>. QED  BY <1>1, <1>4, <2>1 DEF TimeTells, TablesAre, Readable
<1>7. CASE PutBackFile
  <2>1. linksFile' = backup.rows /\ fileTime' = 0 /\ backup.rows \in Contents
    BY <1>7 DEF PutBackFile, FileShape
  <2>2. linksFile' # Bad
    BY <2>1, KeywordLinksAssumption
  <2>. QED  BY <1>1, <1>4, <2>1, <2>2 DEF TimeTells, TablesAre, AlreadyRead
<1>. QED  BY <1>5, <1>6, <1>7

\* A text is linked with the tables of the file, if there is one to read.
LEMMA LinkReads ==
  ASSUME FileShape, TimeTells, NEW d \in Destinations, LinkText(d)
  PROVE  /\ FileShape' /\ TimeTells'
         /\ Readable => TablesAre(linksFile)'
<1>1. UNCHANGED <<linksFile, backup, fileTime, edits>>
  BY DEF LinkText
<1>2. CASE linksFile = Gone
  <2>1. entries' = NoEntries /\ readTime' = NoTime /\ globalRows' = globalRows /\ ~Readable
    BY <1>2, KeywordLinksAssumption DEF LinkText, LoadIfChanged, ForgottenTime, Readable
  <2>2. TimeTells'
    <3>1. NoTime # 0 /\ Gone # Bad
      BY KeywordLinksAssumption DEF NoTime
    <3>. QED  BY <1>1, <1>2, <2>1, <3>1 DEF TimeTells, Readable
  <2>3. \A e \in Destinations : DOMAIN entries'[e] = {}
    BY <2>1, NoEntriesAreTables
  <2>4. entries' \in [Destinations -> Seq(KeptRows)]
    BY <2>1, NoEntriesAreTables
  <2>5. usedRows' \subseteq KeptRows
    BY <2>1, <2>3, <2>4 DEF LinkText, FileShape, Range
  <2>. QED  BY <1>1, <2>1, <2>2, <2>3, <2>4, <2>5 DEF FileShape
<1>3. CASE linksFile # Gone /\ AlreadyRead
  <2>1. UNCHANGED <<entries, readTime, globalRows>>
    BY <1>3 DEF LinkText, LoadIfChanged
  <2>2. TimeTells' /\ (Readable => TablesAre(linksFile)')
    BY <1>1, <1>3, <2>1 DEF TimeTells, TablesAre, AlreadyRead, Readable
  <2>3. usedRows' \subseteq KeptRows
    BY <2>1 DEF LinkText, FileShape, Range
  <2>. QED  BY <1>1, <2>1, <2>2, <2>3 DEF FileShape
<1>4. CASE linksFile = Bad /\ ~AlreadyRead
  <2>1. /\ entries' = NoEntries /\ readTime' = fileTime /\ globalRows' = globalRows
        /\ ~Readable /\ fileTime > 0 /\ fileTime \in 0..edits
    BY <1>4, KeywordLinksAssumption DEF LinkText, LoadIfChanged, Readable, TimeTells, FileShape
  <2>2. TimeTells'
    BY <1>1, <1>4, <2>1 DEF TimeTells, Readable
  <2>3. \A e \in Destinations : DOMAIN entries'[e] = {}
    BY <2>1, NoEntriesAreTables
  <2>4. entries' \in [Destinations -> Seq(KeptRows)]
    BY <2>1, NoEntriesAreTables
  <2>5. usedRows' \subseteq KeptRows
    BY <2>1, <2>3, <2>4 DEF LinkText, FileShape, Range
  <2>. QED  BY <1>1, <2>1, <2>2, <2>3, <2>4, <2>5 DEF FileShape
<1>5. CASE linksFile \notin {Gone, Bad} /\ ~AlreadyRead
  <2>1. readTime' = fileTime /\ TablesAre(linksFile)'
    BY <1>1, <1>5 DEF LinkText, LoadIfChanged, TablesAre
  <2>2. linksFile \in Contents /\ fileTime \in 0..edits
    BY <1>5 DEF FileShape
  <2>3. TablesOf(linksFile, Len(linksFile), Parse(linksFile))
    BY <2>2, ParseMakesTables
  <2>4. entries' = Parse(linksFile).of /\ globalRows' = Parse(linksFile).all
    BY <1>1, <2>1 DEF TablesAre
  <2>5. TimeTells'
    BY <1>1, <1>5, <2>1 DEF TimeTells, TablesAre, Readable
  <2>6. usedRows' \subseteq KeptRows
    BY <2>3, <2>4 DEF LinkText, TablesOf, Range
  <2>. QED  BY <1>1, <2>1, <2>2, <2>3, <2>4, <2>5, <2>6 DEF FileShape, TablesOf
<1>. QED  BY <1>2, <1>3, <1>4, <1>5

LEMMA StepFollowsFile ==
  ASSUME FileShape, TimeTells, [KeywordNext]_keywordVars
  PROVE  /\ FileShape' /\ TimeTells'
         /\ KeywordTypeOK /\ LinksAreOfTheFile /\ FirstRowIsHonoured
<1>1. FileShape' /\ TimeTells'
  <2>1. CASE UNCHANGED keywordVars
    BY <2>1 DEF keywordVars, FileShape, TimeTells, TablesAre, Readable, AlreadyRead
  <2>. QED  BY <2>1, ChangesHold, LinkReads DEF KeywordNext
<1>2. KeywordTypeOK
  BY KeywordLinksAssumption DEF KeywordTypeOK, FileShape, NoTime, SameWord
<1>3. ASSUME NEW d \in Destinations, LinkText(d), Readable
      PROVE  /\ linksFile \in Contents
             /\ TablesOf(linksFile, Len(linksFile), Parse(linksFile))
             /\ usedRows' = Range(Parse(linksFile).all) \cup Range(Parse(linksFile).of[d])
  <2>1. linksFile \in Contents
    BY <1>3 DEF Readable, FileShape
  <2>2. UNCHANGED linksFile /\ TablesAre(linksFile)'
    BY <1>3, LinkReads DEF LinkText
  <2>. QED  BY <1>3, <2>1, <2>2, ParseMakesTables DEF LinkText, TablesAre
<1>4. LinksAreOfTheFile
  <2>. SUFFICES ASSUME NEW d \in Destinations, LinkText(d), Readable, NEW row \in usedRows'
                PROVE  \E i \in DOMAIN linksFile : SameLink(linksFile[i], row)
    BY DEF LinksAreOfTheFile
  <2>1. DOMAIN linksFile = 1..Len(linksFile)
    BY <1>3, ContentIs
  <2>. DEFINE table == Parse(linksFile)
  <2>2. \/ \E x \in DOMAIN table.all : row = table.all[x]
        \/ \E x \in DOMAIN table.of[d] : row = table.of[d][x]
    BY <1>3 DEF Range
  <2>3. TablesOf(linksFile, Len(linksFile), table)
    BY <1>3
  <2>. HIDE DEF table
  <2>4. /\ \A x \in DOMAIN table.all : \E j \in 1..Len(linksFile) : SameLink(linksFile[j], table.all[x])
        /\ \A x \in DOMAIN table.of[d] : \E j \in 1..Len(linksFile) : SameLink(linksFile[j], table.of[d][x])
    BY <2>3, Zenon DEF TablesOf
  <2>. QED  BY <2>1, <2>2, <2>4, Zenon
<1>5. FirstRowIsHonoured
  <2>. SUFFICES ASSUME Readable, NEW i \in DOMAIN linksFile, NEW k \in DOMAIN linksFile,
                       LinkText(linksFile[i].dest),
                       linksFile[i].dest = linksFile[k].dest, SameLink(linksFile[i], linksFile[k]),
                       \A j \in 1..(i - 1) : ~(SameWord(linksFile[i], linksFile[j])
                                               /\ linksFile[i].dest = linksFile[j].dest)
                PROVE  \E row \in usedRows' : SameLink(row, linksFile[k])
                                              /\ row.priority >= linksFile[k].priority
    BY DEF FirstRowIsHonoured
  <2>. DEFINE d == linksFile[i].dest
              own == Parse(linksFile).of[d]
  <2>1. linksFile \in Contents
    BY DEF Readable, FileShape
  <2>2. i \in 1..Len(linksFile) /\ k \in 1..Len(linksFile) /\ d \in Destinations
    BY <2>1, ContentIs
  <2>3. FirstForWord(linksFile, i)
    BY DEF FirstForWord
  <2>4. PICK x \in DOMAIN own : /\ SameLink(own[x], linksFile[i])
                                /\ own[x].priority >= linksFile[k].priority
    BY <1>3, <2>2, <2>3 DEF TablesOf
  <2>5. own[x] \in usedRows'
    BY <1>3, <2>2, <2>4 DEF Range
  <2>. HIDE DEF own
  <2>. QED  BY <2>4, <2>5 DEF SameLink
<1>. QED  BY <1>1, <1>2, <1>4, <1>5

(* src/kiwi/keyword_links.py 93-165 (_load_if_changed, linkify): however the file is
   saved, removed, spoilt or put back with its old time, for files of any length and
   any rows, a text is linked with what the file says, and the first row of a keyword
   is honoured with the highest priority its rows give it. *)
THEOREM TableAlwaysFollowsFile == KeywordSpec => TableFollowsFile
<1>1. FileShape /\ TimeTells /\ [KeywordNext]_keywordVars
        => [KeywordTypeOK /\ LinksAreOfTheFile /\ FirstRowIsHonoured]_keywordVars
  BY StepFollowsFile
<1>2. FileShape /\ TimeTells /\ [KeywordNext]_keywordVars => FileShape' /\ TimeTells'
  BY StepFollowsFile
<1>. QED  BY <1>1, <1>2, KeywordInitHolds, PTL DEF KeywordSpec, TableFollowsFile

--------------------------------------------------------------------------------
(* What is dispatched of a post. The invariant is PostHolds, below: what each stage of
   _process_route_message_detailed has in hand is the whole post. *)

\* What holds of 0, and of a number when it holds of the one before, holds up to n.
LEMMA HoldsUpTo ==
  ASSUME NEW n \in Nat, NEW T, 0 \in T, \A k \in 1..n : k - 1 \in T => k \in T
  PROVE  \A k \in 0..n : k \in T
<1>. DEFINE Others == {k \in 0..n : k \notin T}
<1>1. ASSUME Others # {} PROVE FALSE
  <2>1. Others \in SUBSET Nat
    OBVIOUS
  <2>2. PICK k \in Others : \A j \in Others : k <= j
    <3>. HIDE DEF Others
    <3>. QED  BY <1>1, <2>1, SomeNatIsLeast
  <2>3. k \in 1..n /\ k - 1 \in 0..n /\ ~(k <= k - 1)
    BY <2>2
  <2>. QED  BY <2>2, <2>3
<1>. QED  BY <1>1

--------------------------------------------------------------------------------
(* The members of a sequence at some of its places. *)

\* The members chosen among the first of them, one more at a time.
ChosenUpTo(s, at, f) ==
  /\ f[0] = <<>>
  /\ \A n \in 1..Len(s) : f[n] = IF n \in at THEN Append(f[n - 1], s[n]) ELSE f[n - 1]

LEMMA ChosenIs ==
  ASSUME NEW S, NEW s \in Seq(S), NEW at
  PROVE  \E f \in [0..Len(s) -> Seq(S)] : ChosenUpTo(s, at, f) /\ Chosen(s, at) = f[Len(s)]
<1>. DEFINE L == Len(s)
            More(t, n) == IF n \in at THEN Append(t, s[n]) ELSE t
            Turn(f, n) == IF n = 0 THEN <<>> ELSE More(f[n - 1], n)
            c == CHOOSE f : f = [n \in 0..L |-> Turn(f, n)]
            Histories(m) == {f \in [0..m -> Seq(S)] :
                               f[0] = <<>> /\ \A k \in 1..m : f[k] = More(f[k - 1], k)}
            Done == {m \in 0..L : Histories(m) # {}}
<1>1. L \in Nat /\ \A n \in 1..L : s[n] \in S
  BY LenProperties
<1>2. Chosen(s, at) = c[L]
  BY DEF Chosen
<1>3. \A n \in 1..L : \A t \in Seq(S) : More(t, n) \in Seq(S)
  BY <1>1
<1>4. <<>> \in Seq(S)
  OBVIOUS
<1>. HIDE DEF More, c, L
<1>5. 0 \in Done
  <2>1. [k \in 0..0 |-> <<>>] \in Histories(0)
    BY <1>4
  <2>2. 0 \in 0..L
    BY <1>1
  <2>. HIDE DEF Histories
  <2>. QED  BY <2>1, <2>2
<1>6. ASSUME NEW m \in 1..L, m - 1 \in Done PROVE m \in Done
  <2>1. PICK f : f \in Histories(m - 1)
    BY <1>6
  <2>. DEFINE g == [k \in 0..m |-> IF k = m THEN More(f[m - 1], m) ELSE f[k]]
  <2>2. /\ f \in [0..(m - 1) -> Seq(S)] /\ f[0] = <<>>
        /\ \A k \in 1..(m - 1) : f[k] = More(f[k - 1], k)
    BY <2>1
  <2>3. \A k \in 0..m : k = m \/ k \in 0..(m - 1)
    BY <1>6
  <2>4. m - 1 \in 0..(m - 1) /\ m \in 0..L /\ 0 \in 0..m /\ 0 # m
    BY <1>1, <1>6
  <2>5. More(f[m - 1], m) \in Seq(S)
    BY <1>3, <2>2, <2>4
  <2>6. g \in [0..m -> Seq(S)] /\ g[0] = <<>>
    BY <2>2, <2>3, <2>4, <2>5
  <2>7. ASSUME NEW k \in 1..m PROVE g[k] = More(g[k - 1], k)
    <3>1. k - 1 \in 0..m /\ k - 1 # m /\ k \in 0..m
      BY <1>6, <2>7
    <3>2. g[k - 1] = f[k - 1]
      BY <3>1
    <3>3. CASE k = m
      BY <3>1, <3>2, <3>3
    <3>4. CASE k # m
      <4>1. k \in 1..(m - 1)
        BY <1>6, <2>7, <3>4
      <4>. QED  BY <2>2, <3>1, <3>2, <3>4, <4>1
    <3>. QED  BY <3>3, <3>4
  <2>. HIDE DEF g
  <2>8. g \in Histories(m)
    BY <2>6, <2>7
  <2>. HIDE DEF Histories
  <2>. QED  BY <2>4, <2>8
<1>7. L \in Done
  <2>. HIDE DEF Done
  <2>1. \A k \in 0..L : k \in Done
    BY <1>1, <1>5, <1>6, HoldsUpTo
  <2>. QED  BY <1>1, <2>1
<1>8. PICK g \in [0..L -> Seq(S)] : g[0] = <<>> /\ \A k \in 1..L : g[k] = More(g[k - 1], k)
  BY <1>7
<1>9. \A n \in 0..L : n = 0 \/ (n \in 1..L /\ n # 0)
  BY <1>1
<1>10. \A n \in 0..L : g[n] = Turn(g, n)
  BY <1>8, <1>9
<1>11. g = [n \in 0..L |-> Turn(g, n)]
  BY <1>8, <1>10
<1>12. c = [n \in 0..L |-> Turn(c, n)]
  <2>. HIDE DEF Turn
  <2>. QED  BY <1>11 DEF c
<1>13. \A n \in 0..L : c[n] = Turn(c, n)
  <2>. HIDE DEF Turn
  <2>. QED  BY <1>12
<1>14. c[0] = <<>> /\ \A n \in 1..L : c[n] = More(c[n - 1], n)
  <2>1. 0 \in 0..L /\ \A n \in 1..L : n \in 0..L /\ n # 0
    BY <1>1
  <2>. QED  BY <1>13, <2>1
<1>15. \A n \in 0..L : c[n] \in Seq(S)
  <2>. DEFINE T == {n \in 0..L : c[n] \in Seq(S)}
  <2>1. 0 \in T
    <3>1. 0 \in 0..L
      BY <1>1
    <3>. QED  BY <1>4, <1>14, <3>1
  <2>2. \A k \in 1..L : k - 1 \in T => k \in T
    <3>1. \A k \in 1..L : k \in 0..L
      BY <1>1
    <3>. QED  BY <1>3, <1>14, <3>1
  <2>. HIDE DEF T
  <2>3. \A k \in 0..L : k \in T
    BY <1>1, <2>1, <2>2, HoldsUpTo
  <2>. QED  BY <2>3 DEF T
<1>16. c \in [0..L -> Seq(S)]
  <2>. HIDE DEF Turn
  <2>. QED  BY <1>12, <1>15
<1>17. ChosenUpTo(s, at, c)
  BY <1>14 DEF ChosenUpTo, More, L
<1>. QED  BY <1>2, <1>16, <1>17 DEF L

\* From every place after the first d: the rest of the sequence.
LEMMA ChosenTail ==
  ASSUME NEW S, NEW s \in Seq(S), NEW d \in 0..Len(s), NEW at,
         \A i \in 1..Len(s) : i \in at <=> i > d
  PROVE  /\ Chosen(s, at) \in Seq(S) /\ Len(Chosen(s, at)) = Len(s) - d
         /\ \A i \in 1..(Len(s) - d) : Chosen(s, at)[i] = s[i + d]
<1>1. PICK f \in [0..Len(s) -> Seq(S)] : ChosenUpTo(s, at, f) /\ Chosen(s, at) = f[Len(s)]
  BY ChosenIs
<1>. DEFINE L == Len(s)
            RestUpTo(t, n) ==
              /\ Len(t) = IF n <= d THEN 0 ELSE n - d
              /\ \A i \in 1..Len(t) : t[i] = s[i + d]
            T == {n \in 0..L : RestUpTo(f[n], n)}
<1>2. L \in Nat /\ \A n \in 1..L : s[n] \in S
  BY LenProperties
<1>3. /\ d \in 0..L /\ f \in [0..L -> Seq(S)] /\ f[0] = <<>>
      /\ \A n \in 1..L : f[n] = IF n \in at THEN Append(f[n - 1], s[n]) ELSE f[n - 1]
  BY <1>1 DEF ChosenUpTo
<1>4. \A n \in 1..L : n \in at <=> n > d
  OBVIOUS
<1>. HIDE DEF L
<1>5. 0 \in T
  <2>1. 0 \in 0..L /\ 0 <= d /\ Len(<<>>) = 0
    BY <1>2
  <2>. QED  BY <1>3, <2>1
<1>6. ASSUME NEW n \in 1..L, n - 1 \in T PROVE n \in T
  <2>1. n \in 0..L /\ n - 1 \in 0..L
    BY <1>2
  <2>2. RestUpTo(f[n - 1], n - 1) /\ f[n - 1] \in Seq(S)
    BY <1>3, <1>6, <2>1
  <2>3. CASE n <= d
    <3>1. f[n] = f[n - 1] /\ n - 1 <= d
      <4>1. d \in Nat /\ n \in Nat
        BY <1>2, <1>3
      <4>2. n \notin at /\ n - 1 <= d
        BY <1>4, <2>3, <4>1
      <4>. QED  BY <1>3, <4>2
    <3>. QED  BY <2>1, <2>2, <2>3, <3>1
  <2>4. CASE n > d
    <3>1. f[n] = Append(f[n - 1], s[n]) /\ s[n] \in S
      <4>1. n \in at
        BY <1>4, <2>4
      <4>. QED  BY <1>2, <1>3, <4>1
    <3>2. Len(f[n - 1]) = n - 1 - d
      BY <1>3, <2>1, <2>2, <2>4
    <3>3. /\ Len(f[n]) = n - d
          /\ \A i \in 1..(n - d) : f[n][i] = IF i = n - d THEN s[n] ELSE f[n - 1][i]
      <4>1. n - 1 - d \in Nat /\ n - d = (n - 1 - d) + 1
        BY <1>2, <1>3, <2>4
      <4>. QED  BY <2>2, <3>1, <3>2, <4>1
    <3>4. ASSUME NEW i \in 1..(n - d) PROVE f[n][i] = s[i + d]
      <4>1. CASE i = n - d
        <5>1. i + d = n
          BY <1>2, <1>3, <4>1
        <5>. QED  BY <3>3, <4>1, <5>1
      <4>2. CASE i # n - d
        <5>1. i \in 1..Len(f[n - 1])
          BY <1>2, <1>3, <3>2, <4>2
        <5>. QED  BY <2>2, <3>3, <4>2, <5>1
      <4>. QED  BY <4>1, <4>2
    <3>5. ~(n <= d)
      BY <1>2, <1>3, <2>4
    <3>6. RestUpTo(f[n], n)
      BY <3>3, <3>4, <3>5
    <3>. HIDE DEF RestUpTo
    <3>. QED  BY <2>1, <3>6
  <2>. QED  BY <1>2, <1>3, <2>3, <2>4
<1>7. L \in T
  <2>. HIDE DEF T
  <2>1. \A n \in 0..L : n \in T
    BY <1>2, <1>5, <1>6, HoldsUpTo
  <2>. QED  BY <1>2, <2>1
<1>8. RestUpTo(f[L], L) /\ f[L] \in Seq(S)
  BY <1>2, <1>3, <1>7
<1>9. Len(f[L]) = L - d
  BY <1>2, <1>3, <1>8
<1>. QED  BY <1>1, <1>8, <1>9 DEF L

Places(s) == [i \in 1..Len(s) |-> i]

(* The members of s at the places `places`, which are all those in `at`. *)
ByPlaces(s, at, members, places) ==
  /\ places \in Seq(1..Len(s))
  /\ Len(members) = Len(places)
  /\ \A k \in 1..Len(places) : places[k] \in at /\ members[k] = s[places[k]]
  /\ \A i \in at \cap (1..Len(s)) : \E k \in 1..Len(places) : places[k] = i

\* Choosing members is choosing their places.
LEMMA ChosenByPlaces ==
  ASSUME NEW S, NEW s \in Seq(S), NEW at
  PROVE  Chosen(s, at) \in Seq(S) /\ ByPlaces(s, at, Chosen(s, at), Chosen(Places(s), at))
<1>. DEFINE L == Len(s)
            id == [i \in 1..L |-> i]
<1>1. L \in Nat /\ \A n \in 1..L : s[n] \in S
  BY LenProperties
<1>2. id \in Seq(1..L) /\ Len(id) = L
  BY <1>1
<1>3. PICK f \in [0..L -> Seq(S)] : ChosenUpTo(s, at, f) /\ Chosen(s, at) = f[L]
  BY ChosenIs
<1>. HIDE DEF L
<1>4. PICK g \in [0..L -> Seq(1..L)] : ChosenUpTo(id, at, g) /\ Chosen(id, at) = g[L]
  <2>. HIDE DEF id
  <2>. QED  BY <1>2, ChosenIs
<1>5. f[0] = <<>> /\ \A n \in 1..L : f[n] = IF n \in at THEN Append(f[n - 1], s[n]) ELSE f[n - 1]
  BY <1>3 DEF ChosenUpTo, L
<1>6. g[0] = <<>> /\ \A n \in 1..L : g[n] = IF n \in at THEN Append(g[n - 1], n) ELSE g[n - 1]
  <2>1. \A n \in 1..L : id[n] = n
    OBVIOUS
  <2>. HIDE DEF id
  <2>. QED  BY <1>2, <1>4, <2>1 DEF ChosenUpTo
<1>. DEFINE Alike(t, p, n) ==
              /\ Len(t) = Len(p)
              /\ \A k \in 1..Len(p) : p[k] \in at /\ t[k] = s[p[k]]
              /\ \A i \in at \cap (1..n) : \E k \in 1..Len(p) : p[k] = i
            T == {n \in 0..L : Alike(f[n], g[n], n)}
<1>7. 0 \in T
  <2>1. 0 \in 0..L /\ Len(<<>>) = 0 /\ 1..0 = {}
    BY <1>1
  <2>. QED  BY <1>5, <1>6, <2>1
<1>8. ASSUME NEW n \in 1..L, n - 1 \in T PROVE n \in T
  <2>1. n \in 0..L /\ n - 1 \in 0..L /\ n \in Nat
    BY <1>1
  <2>. DEFINE t == f[n - 1]
              p == g[n - 1]
  <2>2. Alike(t, p, n - 1) /\ t \in Seq(S) /\ p \in Seq(1..L)
    BY <1>3, <1>4, <1>8, <2>1
  <2>3. 1..n = (1..(n - 1)) \cup {n}
    BY <2>1
  <2>4. CASE n \notin at
    <3>1. f[n] = t /\ g[n] = p
      BY <1>5, <1>6, <2>4
    <3>. HIDE DEF t, p
    <3>. QED  BY <2>1, <2>2, <2>3, <2>4, <3>1
  <2>5. CASE n \in at
    <3>1. f[n] = Append(t, s[n]) /\ g[n] = Append(p, n) /\ s[n] \in S
      BY <1>1, <1>5, <1>6, <2>5
    <3>. HIDE DEF t, p
    <3>2. Len(p) \in Nat /\ Len(t) = Len(p)
      BY <2>2
    <3>. DEFINE m == Len(p)
    <3>3. Len(f[n]) = m + 1 /\ \A k \in 1..(m + 1) : f[n][k] = IF k = m + 1 THEN s[n] ELSE t[k]
      BY <2>2, <3>1, <3>2
    <3>4. Len(g[n]) = m + 1 /\ \A k \in 1..(m + 1) : g[n][k] = IF k = m + 1 THEN n ELSE p[k]
      BY <2>2, <3>1, <3>2
    <3>. HIDE DEF m
    <3>5. m \in Nat /\ \A k \in 1..(m + 1) : k = m + 1 \/ k \in 1..m
      BY <3>2 DEF m
    <3>6. \A k \in 1..m : p[k] \in at /\ t[k] = s[p[k]]
      BY <2>2 DEF m
    <3>7. \A k \in 1..(m + 1) : g[n][k] \in at /\ f[n][k] = s[g[n][k]]
      BY <2>5, <3>3, <3>4, <3>5, <3>6
    <3>8. ASSUME NEW i \in at \cap (1..n) PROVE \E k \in 1..(m + 1) : g[n][k] = i
      <4>1. CASE i = n
        <5>1. m + 1 \in 1..(m + 1)
          BY <3>5
        <5>. QED  BY <3>4, <4>1, <5>1
      <4>2. CASE i \in 1..(n - 1)
        <5>1. PICK k \in 1..m : p[k] = i
          BY <2>2, <4>2 DEF m
        <5>2. k \in 1..(m + 1) /\ k # m + 1
          BY <3>5
        <5>. QED  BY <3>4, <5>1, <5>2
      <4>. QED  BY <2>3, <4>1, <4>2
    <3>9. Alike(f[n], g[n], n)
      BY <3>3, <3>4, <3>7, <3>8
    <3>. HIDE DEF Alike
    <3>. QED  BY <2>1, <3>9
  <2>. QED  BY <2>4, <2>5
<1>9. L \in T
  <2>. HIDE DEF T
  <2>1. \A n \in 0..L : n \in T
    BY <1>1, <1>7, <1>8, HoldsUpTo
  <2>. QED  BY <1>1, <2>1
<1>10. L \in 0..L
  BY <1>1
<1>11. Alike(f[L], g[L], L) /\ f[L] \in Seq(S) /\ g[L] \in Seq(1..L)
  BY <1>3, <1>4, <1>9, <1>10
<1>12. Chosen(id, at) = Chosen(Places(s), at)
  BY DEF L, Places
<1>. QED  BY <1>3, <1>4, <1>11, <1>12 DEF L, ByPlaces

--------------------------------------------------------------------------------
(* The messages a post is made into. *)

(* Words alone in at most one message, before all others; then the media. *)
Shaped(messages, kinds) ==
  \E d \in {0, 1} :
    /\ Len(messages) = d + Len(kinds)
    /\ \A i \in 1..d : messages[i].kind = "text"
    /\ \A i \in 1..Len(kinds) : messages[i + d].kind = kinds[i]

FirstCarrier(kinds, i) ==
  /\ i \in 1..Len(kinds) /\ kinds[i] \in CaptionTypes
  /\ \A j \in 1..Len(kinds) : kinds[j] \in CaptionTypes => i <= j

LEMMA MessageIs ==
  ASSUME NEW m \in Messages
  PROVE  /\ m.kind \in {"text"} \cup MediaKinds /\ m.text \in Texts \cup {NoText}
         /\ IsMedia(m) <=> m.kind # "text"
  BY DEF Messages, IsMedia, TextTypes, MediaKinds, CaptionTypes

LEMMA MessageMade ==
  ASSUME NEW kind \in {"text"} \cup MediaKinds, NEW text \in Texts \cup {NoText}
  PROVE  Message(kind, text) \in Messages
  BY DEF Messages, Message, TextTypes

LEMMA SomethingCarriesFirst ==
  ASSUME NEW kinds \in Seq(MediaKinds), NEW i \in 1..Len(kinds), kinds[i] \in CaptionTypes
  PROVE  \E j : FirstCarrier(kinds, j)
<1>. DEFINE carriers == {j \in 1..Len(kinds) : kinds[j] \in CaptionTypes}
<1>1. carriers \in SUBSET Nat /\ i \in carriers
  OBVIOUS
<1>2. PICK j \in carriers : \A k \in carriers : j <= k
  <2>. HIDE DEF carriers
  <2>. QED  BY <1>1, SomeNatIsLeast
<1>. QED  BY <1>2 DEF FirstCarrier

\* The media of shaped messages are those behind the words.
LEMMA MediaInShaped ==
  ASSUME NEW messages \in Seq(Messages), NEW kinds \in Seq(MediaKinds), NEW d \in {0, 1},
         Len(messages) = d + Len(kinds),
         \A i \in 1..d : messages[i].kind = "text",
         \A i \in 1..Len(kinds) : messages[i + d].kind = kinds[i]
  PROVE  /\ MediaIn(messages) \in Seq(Messages) /\ Len(MediaIn(messages)) = Len(kinds)
         /\ \A i \in 1..Len(kinds) : MediaIn(messages)[i] = messages[i + d]
<1>. DEFINE at == {i \in DOMAIN messages : IsMedia(messages[i])}
<1>1. /\ Len(kinds) \in Nat /\ Len(messages) \in Nat /\ DOMAIN messages = 1..Len(messages)
      /\ d \in 0..Len(messages) /\ Len(messages) - d = Len(kinds)
  OBVIOUS
<1>2. ASSUME NEW i \in 1..Len(messages) PROVE i \in at <=> i > d
  <2>1. messages[i] \in Messages
    BY <1>2
  <2>2. CASE i > d
    <3>1. i - d \in 1..Len(kinds) /\ (i - d) + d = i
      BY <1>1, <2>2
    <3>2. messages[i].kind = kinds[i - d] /\ kinds[i - d] \in MediaKinds
      BY <3>1
    <3>. QED  BY <1>1, <2>2, <3>2 DEF IsMedia
  <2>3. CASE ~(i > d)
    <3>1. i \in 1..d
      BY <1>1, <2>3
    <3>. QED  BY <2>1, <2>3, <3>1, MessageIs
  <2>. QED  BY <2>2, <2>3
<1>. HIDE DEF at
<1>3. /\ Chosen(messages, at) \in Seq(Messages) /\ Len(Chosen(messages, at)) = Len(messages) - d
      /\ \A i \in 1..(Len(messages) - d) : Chosen(messages, at)[i] = messages[i + d]
  BY <1>1, <1>2, ChosenTail
<1>4. MediaIn(messages) = Chosen(messages, at)
  BY DEF MediaIn, at
<1>. QED  BY <1>1, <1>3, <1>4

LEMMA ShapedTravels ==
  ASSUME NEW messages \in Seq(Messages), NEW kinds \in Seq(MediaKinds), Shaped(messages, kinds)
  PROVE  KindsOf(MediaIn(messages)) = kinds
<1>1. PICK d \in {0, 1} :
        /\ Len(messages) = d + Len(kinds)
        /\ \A i \in 1..d : messages[i].kind = "text"
        /\ \A i \in 1..Len(kinds) : messages[i + d].kind = kinds[i]
  BY DEF Shaped
<1>2. /\ MediaIn(messages) \in Seq(Messages) /\ Len(MediaIn(messages)) = Len(kinds)
      /\ \A i \in 1..Len(kinds) : MediaIn(messages)[i] = messages[i + d]
  BY <1>1, MediaInShaped
<1>. QED  BY <1>1, <1>2 DEF KindsOf

LEMMA MediaAreKinds ==
  ASSUME NEW given \in Seq(MediaKinds \cup {"sticker"})
  PROVE  /\ MediaOf(given) \in Seq(MediaKinds)
         /\ \A i \in DOMAIN given : given[i] \in CaptionTypes =>
              \E j : FirstCarrier(MediaOf(given), j)
<1>. DEFINE at == {i \in DOMAIN given : given[i] \in MediaKinds}
            places == Chosen(Places(given), at)
            kinds == MediaOf(given)
<1>1. DOMAIN given = 1..Len(given)
  OBVIOUS
<1>. HIDE DEF at
<1>2. Chosen(given, at) \in Seq(MediaKinds \cup {"sticker"})
      /\ ByPlaces(given, at, Chosen(given, at), places)
  BY ChosenByPlaces
<1>3. kinds = Chosen(given, at)
  BY DEF MediaOf, at
<1>. HIDE DEF places, kinds
<1>4. \A k \in 1..Len(kinds) : kinds[k] \in MediaKinds
  BY <1>2, <1>3 DEF at, ByPlaces
<1>5. kinds \in Seq(MediaKinds)
  BY <1>2, <1>3, <1>4
<1>6. ASSUME NEW i \in DOMAIN given, given[i] \in CaptionTypes
      PROVE  \E j : FirstCarrier(kinds, j)
  <2>1. i \in at
    BY <1>6 DEF at, MediaKinds
  <2>2. PICK k \in 1..Len(kinds) : kinds[k] = given[i]
    BY <1>1, <1>2, <1>3, <2>1 DEF ByPlaces
  <2>. QED  BY <1>5, <1>6, <2>2, SomethingCarriesFirst
<1>. QED  BY <1>5, <1>6 DEF kinds

LEMMA PassthroughIs ==
  ASSUME NEW given \in Seq(MediaKinds \cup {"sticker"}), NEW text \in Texts \cup {NoText}
  PROVE  LET kinds == MediaOf(given)
             made0 == PassthroughMessages(given, text)
         IN  /\ made0 \in Seq(Messages)
             /\ kinds # <<>> =>
                  /\ Len(made0) = Len(kinds)
                  /\ \A i \in 1..Len(kinds) :
                       /\ made0[i].kind = kinds[i]
                       /\ made0[i].text = IF FirstCarrier(kinds, i) THEN text ELSE NoText
             /\ kinds = <<>> =>
                  made0 = IF text # NoText THEN <<Message("text", text)>> ELSE <<>>
<1>. DEFINE kinds == MediaOf(given)
            carriers == {i \in DOMAIN kinds : kinds[i] \in CaptionTypes}
            first(i) == i \in carriers /\ \A j \in carriers : i <= j
            M == [i \in DOMAIN kinds |-> Message(kinds[i], IF first(i) THEN text ELSE NoText)]
<1>1. kinds \in Seq(MediaKinds)
  BY MediaAreKinds
<1>2. PassthroughMessages(given, text) =
        IF kinds # <<>> THEN M
        ELSE IF text # NoText THEN <<Message("text", text)>> ELSE <<>>
  BY DEF PassthroughMessages
<1>. HIDE DEF kinds
<1>3. DOMAIN kinds = 1..Len(kinds) /\ Len(kinds) \in Nat
  BY <1>1
<1>4. \A i \in 1..Len(kinds) : first(i) <=> FirstCarrier(kinds, i)
  BY <1>3 DEF FirstCarrier
<1>5. CASE kinds # <<>>
  <2>1. \A i \in 1..Len(kinds) : M[i] = Message(kinds[i], IF FirstCarrier(kinds, i) THEN text ELSE NoText)
    <3>. HIDE DEF first
    <3>. QED  BY <1>3, <1>4
  <2>2. ASSUME NEW i \in 1..Len(kinds) PROVE M[i] \in Messages
    <3>1. kinds[i] \in {"text"} \cup MediaKinds
      BY <1>1
    <3>2. (IF FirstCarrier(kinds, i) THEN text ELSE NoText) \in Texts \cup {NoText}
      OBVIOUS
    <3>. HIDE DEF M
    <3>. QED  BY <2>1, <3>1, <3>2, MessageMade
  <2>3. DOMAIN M = 1..Len(kinds)
    BY <1>3
  <2>4. M = [i \in 1..Len(kinds) |-> M[i]]
    BY <1>3
  <2>. HIDE DEF M
  <2>5. M \in Seq(Messages) /\ Len(M) = Len(kinds)
    BY <1>3, <2>2, <2>4
  <2>6. ASSUME NEW i \in 1..Len(kinds)
        PROVE  /\ M[i].kind = kinds[i]
               /\ M[i].text = IF FirstCarrier(kinds, i) THEN text ELSE NoText
    <3>. DEFINE t == IF FirstCarrier(kinds, i) THEN text ELSE NoText
    <3>1. M[i] = Message(kinds[i], t)
      BY <2>1
    <3>. HIDE DEF t
    <3>2. M[i].kind = kinds[i] /\ M[i].text = t
      BY <3>1 DEF Message
    <3>. QED  BY <3>2 DEF t
  <2>7. PassthroughMessages(given, text) = M
    BY <1>2, <1>5
  <2>. QED  BY <1>5, <2>5, <2>6, <2>7 DEF kinds
<1>6. CASE kinds = <<>>
  <2>1. text # NoText => Message("text", text) \in Messages
    BY MessageMade
  <2>. QED  BY <1>2, <1>6, <2>1 DEF kinds
<1>. QED  BY <1>5, <1>6

HoldsWords(messages) == \E i \in DOMAIN messages : messages[i].text # NoText

\* The first carrier of the words is the only first.
LEMMA OneCarriesFirst ==
  ASSUME NEW kinds \in Seq(MediaKinds), NEW i, NEW j, FirstCarrier(kinds, i), FirstCarrier(kinds, j)
  PROVE  i = j
  BY DEF FirstCarrier

LEMMA PassthroughMedia ==
  ASSUME NEW given \in Seq(MediaKinds \cup {"sticker"}), NEW text \in Texts \cup {NoText}
  PROVE  LET kinds == MediaOf(given)
             start == PassthroughMessages(given, text)
         IN  /\ Shaped(start, kinds)
             /\ MediaIn(start) \in Seq(Messages) /\ Len(MediaIn(start)) = Len(kinds)
             /\ \A i \in 1..Len(kinds) :
                  /\ MediaIn(start)[i].kind = kinds[i]
                  /\ ~FirstCarrier(kinds, i) => MediaIn(start)[i].text = NoText
<1>. DEFINE kinds == MediaOf(given)
            start == PassthroughMessages(given, text)
<1>1. kinds \in Seq(MediaKinds)
  BY MediaAreKinds
<1>2. /\ start \in Seq(Messages)
      /\ kinds # <<>> =>
           /\ Len(start) = Len(kinds)
           /\ \A i \in 1..Len(kinds) :
                /\ start[i].kind = kinds[i]
                /\ start[i].text = IF FirstCarrier(kinds, i) THEN text ELSE NoText
      /\ kinds = <<>> => start = IF text # NoText THEN <<Message("text", text)>> ELSE <<>>
  BY PassthroughIs
<1>. HIDE DEF kinds, start
<1>3. \E d \in {0, 1} :
        /\ Len(start) = d + Len(kinds)
        /\ \A i \in 1..d : start[i].kind = "text"
        /\ \A i \in 1..Len(kinds) :
             /\ start[i + d].kind = kinds[i]
             /\ ~FirstCarrier(kinds, i) => start[i + d].text = NoText
  <2>1. CASE kinds # <<>>
    <3>1. Len(start) = 0 + Len(kinds) /\ 1..0 = {} /\ \A i \in 1..Len(kinds) : i + 0 = i
      BY <1>1, <1>2, <2>1
    <3>. QED  BY <1>2, <2>1, <3>1
  <2>2. CASE kinds = <<>> /\ text # NoText
    <3>1. start = <<Message("text", text)>>
      BY <1>2, <2>2
    <3>2. Len(start) = 1 /\ start[1].kind = "text" /\ Len(kinds) = 0 /\ 1..0 = {} /\ 1..1 = {1}
      BY <2>2, <3>1 DEF Message
    <3>3. Len(start) = 1 + Len(kinds) /\ \A i \in 1..1 : start[i].kind = "text"
      BY <3>2
    <3>. HIDE DEF FirstCarrier
    <3>. QED  BY <3>2, <3>3
  <2>3. CASE kinds = <<>> /\ text = NoText
    <3>1. start = <<>>
      BY <1>2, <2>3
    <3>2. Len(start) = 0 + Len(kinds) /\ Len(kinds) = 0 /\ 1..0 = {}
      BY <2>3, <3>1
    <3>. QED  BY <3>2
  <2>. QED  BY <2>1, <2>2, <2>3
<1>4. PICK d \in {0, 1} :
        /\ Len(start) = d + Len(kinds)
        /\ \A i \in 1..d : start[i].kind = "text"
        /\ \A i \in 1..Len(kinds) :
             /\ start[i + d].kind = kinds[i]
             /\ ~FirstCarrier(kinds, i) => start[i + d].text = NoText
  BY <1>3
<1>5. Shaped(start, kinds)
  BY <1>4 DEF Shaped
<1>6. /\ MediaIn(start) \in Seq(Messages) /\ Len(MediaIn(start)) = Len(kinds)
      /\ \A i \in 1..Len(kinds) : MediaIn(start)[i] = start[i + d]
  BY <1>1, <1>2, <1>4, MediaInShaped
<1>. QED  BY <1>4, <1>5, <1>6 DEF kinds, start

\* The generated text takes the words' place and the media stay.
LEMMA GeneratedIsApplied ==
  ASSUME NEW given \in Seq(MediaKinds \cup {"sticker"}), NEW words \in Texts \cup {NoText},
         NEW text \in Texts
  PROVE  LET kinds == MediaOf(given)
             start == PassthroughMessages(given, words)
             made0 == ApplyGeneratedText(start, text)
         IN  /\ made0 \in Seq(Messages) /\ Shaped(made0, kinds)
             /\ \A i \in 1..Len(made0) : made0[i].text \in {text, NoText}
             /\ \E i \in 1..Len(made0) : made0[i].text = text
<1>. DEFINE kinds == MediaOf(given)
            start == PassthroughMessages(given, words)
            media == MediaIn(start)
            carriers == {i \in DOMAIN media : media[i].kind \in CaptionTypes}
            first == CHOOSE i \in carriers : \A j \in carriers : i <= j
<1>1. kinds \in Seq(MediaKinds)
  BY MediaAreKinds
<1>2. /\ media \in Seq(Messages) /\ Len(media) = Len(kinds)
      /\ \A i \in 1..Len(kinds) :
           /\ media[i].kind = kinds[i]
           /\ ~FirstCarrier(kinds, i) => media[i].text = NoText
  BY PassthroughMedia
<1>3. ApplyGeneratedText(start, text) =
        IF carriers = {} THEN <<Message("text", text)>> \o media ELSE [media EXCEPT ![first].text = text]
  BY DEF ApplyGeneratedText
<1>. HIDE DEF kinds, start, media
<1>4. DOMAIN media = 1..Len(kinds) /\ Len(kinds) \in Nat
  BY <1>1, <1>2
<1>5. CASE carriers = {}
  <2>. DEFINE front == <<Message("text", text)>>
              M == front \o media
  <2>1. Message("text", text) \in Messages
    BY MessageMade
  <2>2. front \in Seq(Messages) /\ Len(front) = 1 /\ front[1] = Message("text", text)
    BY <2>1
  <2>. HIDE DEF front
  <2>3. /\ M \in Seq(Messages) /\ Len(M) = 1 + Len(kinds)
        /\ \A i \in 1..(1 + Len(kinds)) : M[i] = IF i <= 1 THEN front[i] ELSE media[i - 1]
    <3>. HIDE DEF carriers
    <3>1. /\ front \o media \in Seq(Messages)
          /\ Len(front \o media) = Len(front) + Len(media)
          /\ \A i \in 1..(Len(front) + Len(media)) :
               (front \o media)[i] = IF i <= Len(front) THEN front[i] ELSE media[i - Len(front)]
      <4>1. front \in Seq(Messages) /\ media \in Seq(Messages)
        BY <1>2, <2>2
      <4>. QED  BY <4>1, ConcatProperties
    <3>. QED  BY <1>2, <2>2, <3>1
  <2>. HIDE DEF M
  <2>4. M[1].kind = "text" /\ M[1].text = text
    <3>1. 1 \in 1..(1 + Len(kinds)) /\ 1 <= 1
      BY <1>4
    <3>2. M[1] = Message("text", text)
      BY <2>2, <2>3, <3>1
    <3>. QED  BY <3>2 DEF Message
  <2>5. ASSUME NEW i \in 1..Len(kinds)
        PROVE  M[i + 1].kind = kinds[i] /\ M[i + 1].text = NoText
    <3>1. i + 1 \in 1..(1 + Len(kinds)) /\ ~(i + 1 <= 1) /\ (i + 1) - 1 = i
      BY <1>4
    <3>2. M[i + 1] = media[i]
      BY <2>3, <3>1
    <3>3. ~FirstCarrier(kinds, i)
      BY <1>2, <1>4, <1>5 DEF FirstCarrier
    <3>. QED  BY <1>2, <3>2, <3>3
  <2>6. Shaped(M, kinds)
    BY <2>3, <2>4, <2>5 DEF Shaped
  <2>7. ASSUME NEW i \in 1..Len(M) PROVE M[i].text \in {text, NoText}
    <3>1. i = 1 \/ (i - 1 \in 1..Len(kinds) /\ (i - 1) + 1 = i)
      BY <1>4, <2>3
    <3>. QED  BY <2>4, <2>5, <3>1
  <2>8. 1 \in 1..Len(M)
    BY <1>4, <2>3
  <2>9. ApplyGeneratedText(start, text) = M
    BY <1>3, <1>5 DEF M, front
  <2>. QED  BY <2>3, <2>4, <2>6, <2>7, <2>8, <2>9 DEF kinds, start
<1>6. CASE carriers # {}
  <2>1. first \in carriers /\ \A j \in carriers : first <= j
    <3>1. carriers \in SUBSET Nat
      BY <1>4
    <3>2. \E i \in carriers : \A j \in carriers : i <= j
      <4>. HIDE DEF carriers
      <4>. QED  BY <1>6, <3>1, SomeNatIsLeast
    <3>. HIDE DEF carriers
    <3>. QED  BY <3>2
  <2>. HIDE DEF first
  <2>2. FirstCarrier(kinds, first)
    BY <1>2, <1>4, <2>1 DEF FirstCarrier
  <2>. DEFINE M == [media EXCEPT ![first].text = text]
  <2>3. first \in 1..Len(kinds) /\ media[first] \in Messages
    BY <1>2, <2>2 DEF FirstCarrier
  <2>4. [media[first] EXCEPT !.text = text] \in Messages
    BY <2>3 DEF Messages
  <2>5. /\ M \in Seq(Messages) /\ Len(M) = Len(kinds)
        /\ \A i \in 1..Len(kinds) :
             M[i] = IF i = first THEN [media[first] EXCEPT !.text = text] ELSE media[i]
    <3>1. M = [media EXCEPT ![first] = [media[first] EXCEPT !.text = text]]
      OBVIOUS
    <3>. HIDE DEF M
    <3>. QED  BY <1>2, <2>3, <2>4, <3>1, ExceptSeq
  <2>6. ASSUME NEW i \in 1..Len(kinds)
        PROVE  M[i].kind = kinds[i] /\ M[i].text = IF i = first THEN text ELSE NoText
    <3>. HIDE DEF M
    <3>1. CASE i = first
      <4>1. M[i] = [media[first] EXCEPT !.text = text]
        BY <2>5, <3>1
      <4>2. M[i].kind = media[first].kind /\ M[i].text = text
        BY <2>3, <4>1 DEF Messages
      <4>. QED  BY <1>2, <3>1, <4>2
    <3>2. CASE i # first
      <4>1. M[i] = media[i] /\ ~FirstCarrier(kinds, i)
        BY <1>1, <2>2, <2>5, <3>2, OneCarriesFirst
      <4>. QED  BY <1>2, <3>2, <4>1
    <3>. QED  BY <3>1, <3>2
  <2>7. ApplyGeneratedText(start, text) = M
    BY <1>3, <1>6
  <2>. HIDE DEF M
  <2>8. Shaped(M, kinds)
    <3>1. Len(M) = 0 + Len(kinds) /\ 1..0 = {} /\ \A i \in 1..Len(kinds) : i + 0 = i
      BY <1>4, <2>5
    <3>. QED  BY <2>6, <3>1 DEF Shaped
  <2>9. \A i \in 1..Len(M) : M[i].text \in {text, NoText}
    BY <2>5, <2>6
  <2>10. first \in 1..Len(M) /\ M[first].text = text
    BY <2>3, <2>5, <2>6
  <2>. QED  BY <2>5, <2>7, <2>8, <2>9, <2>10 DEF kinds, start
<1>. QED  BY <1>5, <1>6

LEMMA FallbackKeeps ==
  ASSUME NEW messages \in Seq(Messages), NEW text \in Texts, NEW kinds, Shaped(messages, kinds)
  PROVE  LET made0 == WithFallbackCaption(messages, text)
         IN  /\ made0 \in Seq(Messages) /\ Shaped(made0, kinds)
             /\ HoldsWords(messages) => HoldsWords(made0)
<1>. DEFINE bare == {i \in DOMAIN messages :
                      messages[i].kind \in CaptionTypes /\ messages[i].text = NoText}
            first == CHOOSE i \in bare : \A j \in bare : i <= j
            M == [messages EXCEPT ![first].text = text]
<1>1. WithFallbackCaption(messages, text) = IF bare = {} THEN messages ELSE M
  BY DEF WithFallbackCaption
<1>2. CASE bare # {}
  <2>1. DOMAIN messages = 1..Len(messages) /\ Len(messages) \in Nat
    OBVIOUS
  <2>2. first \in bare
    <3>1. bare \in SUBSET Nat
      BY <2>1
    <3>2. \E i \in bare : \A j \in bare : i <= j
      <4>. HIDE DEF bare
      <4>. QED  BY <1>2, <3>1, SomeNatIsLeast
    <3>. HIDE DEF bare
    <3>. QED  BY <3>2
  <2>3. first \in 1..Len(messages) /\ messages[first] \in Messages
    BY <2>1, <2>2
  <2>. HIDE DEF first
  <2>4. [messages[first] EXCEPT !.text = text] \in Messages
    BY <2>3 DEF Messages
  <2>5. /\ M \in Seq(Messages) /\ Len(M) = Len(messages)
        /\ \A i \in 1..Len(messages) :
             M[i] = IF i = first THEN [messages[first] EXCEPT !.text = text] ELSE messages[i]
    <3>1. M = [messages EXCEPT ![first] = [messages[first] EXCEPT !.text = text]]
      OBVIOUS
    <3>. HIDE DEF M
    <3>. QED  BY <2>3, <2>4, <3>1, ExceptSeq
  <2>. HIDE DEF M
  <2>6. M[first].kind = messages[first].kind /\ M[first].text = text
    BY <2>3, <2>5 DEF Messages
  <2>7. \A i \in 1..Len(messages) : M[i].kind = messages[i].kind
    BY <2>5, <2>6
  <2>8. text # NoText
    BY PostsAssumption
  <2>9. HoldsWords(M)
    BY <2>3, <2>5, <2>6, <2>8 DEF HoldsWords
  <2>10. Shaped(M, kinds)
    <3>1. PICK d \in {0, 1} :
            /\ Len(messages) = d + Len(kinds)
            /\ \A i \in 1..d : messages[i].kind = "text"
            /\ \A i \in 1..Len(kinds) : messages[i + d].kind = kinds[i]
      BY DEF Shaped
    <3>2. \A i \in 1..d : i \in 1..Len(messages)
      BY <2>5, <3>1
    <3>3. \A i \in 1..Len(kinds) : i + d \in 1..Len(messages)
      BY <2>5, <3>1
    <3>. QED  BY <2>5, <2>7, <3>1, <3>2, <3>3 DEF Shaped
  <2>. QED  BY <1>1, <1>2, <2>5, <2>9, <2>10
<1>3. CASE bare = {}
  BY <1>1, <1>3
<1>. QED  BY <1>2, <1>3

\* Cleaning a text leaves a text, and no text no text.
LEMMA CleanedAreTexts ==
  ASSUME NEW text \in Texts \cup {NoText}, NEW cleaned \in SanitizedForms(text)
  PROVE  cleaned \in Texts \cup {NoText} /\ (cleaned = NoText <=> text = NoText)
<1>1. CASE cleaned = text
  BY <1>1
<1>2. CASE text # NoText /\ cleaned \in CleanedForms(text)
  <2>1. text \in Texts
    BY <1>2
  <2>2. SignatureText \in Texts
    BY PostsAssumption DEF SignatureText, Texts, Languages
  <2>3. \A n \in {0, 2, 3} : [text EXCEPT !.ref = Signature, !.terms = n] \in Texts
    BY <2>1, PostsAssumption DEF Texts
  <2>4. cleaned \in Texts
    BY <1>2, <2>2, <2>3 DEF CleanedForms
  <2>. QED  BY <1>2, <2>4, PostsAssumption
<1>. QED  BY <1>1, <1>2 DEF SanitizedForms

LEMMA PostIs ==
  ASSUME NEW p \in Posts
  PROVE  /\ p.inputs \in Seq(MediaKinds \cup {"sticker"}) /\ p.text \in Texts \cup {NoText}
         /\ p.text # NoText /\ MediaOf(p.inputs) # <<>> =>
              \E j : FirstCarrier(MediaOf(p.inputs), j)
<1>1. /\ p.inputs \in Seq(MediaKinds \cup {"sticker"}) /\ p.text \in Texts \cup {NoText}
      /\ p.text # NoText /\ MediaOf(p.inputs) # <<>>
           => \E i \in DOMAIN p.inputs : p.inputs[i] \in CaptionTypes
  BY PostsAssumption
<1>2. \A i \in DOMAIN p.inputs : p.inputs[i] \in CaptionTypes =>
        \E j : FirstCarrier(MediaOf(p.inputs), j)
  BY <1>1, MediaAreKinds
<1>. QED  BY <1>1, <1>2

LEMMA BaseIs ==
  ASSUME NEW p \in Posts, NEW cleaner \in BOOLEAN,
         NEW start \in BaseMessages(p.inputs, p.text, cleaner)
  PROVE  /\ \E words \in Texts \cup {NoText} :
              start = PassthroughMessages(p.inputs, words) /\ (words = NoText <=> p.text = NoText)
         /\ start \in Seq(Messages) /\ Shaped(start, MediaOf(p.inputs))
         /\ p.text # NoText => HoldsWords(start)
         /\ p.text = NoText => \A i \in 1..Len(start) : start[i].text = NoText
<1>1. PICK words \in Texts \cup {NoText} :
        start = PassthroughMessages(p.inputs, words) /\ (words = NoText <=> p.text = NoText)
  <2>1. p.text \in Texts \cup {NoText}
    BY PostIs
  <2>. QED  BY <2>1, CleanedAreTexts DEF BaseMessages
<1>. DEFINE kinds == MediaOf(p.inputs)
<1>2. kinds \in Seq(MediaKinds)
  BY PostIs, MediaAreKinds
<1>3. /\ start \in Seq(Messages)
      /\ kinds # <<>> =>
           /\ Len(start) = Len(kinds)
           /\ \A i \in 1..Len(kinds) :
                /\ start[i].kind = kinds[i]
                /\ start[i].text = IF FirstCarrier(kinds, i) THEN words ELSE NoText
      /\ kinds = <<>> => start = IF words # NoText THEN <<Message("text", words)>> ELSE <<>>
  BY <1>1, PostIs, PassthroughIs
<1>4. Shaped(start, kinds)
  BY <1>1, PostIs, PassthroughMedia
<1>5. p.text # NoText /\ kinds # <<>> => \E j : FirstCarrier(kinds, j)
  BY PostIs
<1>. HIDE DEF kinds
<1>6. p.text # NoText => HoldsWords(start)
  <2>1. CASE p.text # NoText /\ kinds # <<>>
    <3>1. PICK j : FirstCarrier(kinds, j)
      BY <1>5, <2>1
    <3>2. j \in 1..Len(kinds)
      BY <3>1 DEF FirstCarrier
    <3>3. start[j].text = words /\ j \in DOMAIN start
      BY <1>3, <2>1, <3>1, <3>2
    <3>. QED  BY <1>1, <2>1, <3>3 DEF HoldsWords
  <2>2. CASE p.text # NoText /\ kinds = <<>>
    <3>1. start = <<Message("text", words)>>
      BY <1>1, <1>3, <2>2
    <3>2. 1 \in DOMAIN start /\ start[1].text = words
      BY <3>1 DEF Message
    <3>. QED  BY <1>1, <2>2, <3>2 DEF HoldsWords
  <2>. QED  BY <2>1, <2>2
<1>7. p.text = NoText => \A i \in 1..Len(start) : start[i].text = NoText
  <2>1. CASE kinds # <<>>
    BY <1>1, <1>3, <2>1
  <2>2. CASE kinds = <<>> /\ p.text = NoText
    <3>1. start = <<>>
      BY <1>1, <1>3, <2>2
    <3>2. 1..Len(start) = {}
      BY <3>1
    <3>. QED  BY <3>2
  <2>. QED  BY <2>1, <2>2
<1>. QED  BY <1>1, <1>3, <1>4, <1>6, <1>7 DEF kinds

\* What a run composes carries the media, words if the post had words, and with
\* mandatory AI no other words than the model's.
LEMMA ComposedIs ==
  ASSUME post \in Posts, conf \in Configurations,
         base \in BaseMessages(post.inputs, post.text, conf.cleaner),
         NEW text \in Texts \cup {NoText}, NEW absent \in BOOLEAN
  PROVE  LET made0 == Composed(text, absent)
         IN  /\ made0 \in Seq(Messages) /\ Shaped(made0, MediaOf(post.inputs))
             /\ post.text # NoText => HoldsWords(made0)
             /\ AiMandatoryMode /\ ~OwesText(text, absent) =>
                  \A i \in 1..Len(made0) : made0[i].text \in {text, NoText}
<1>. DEFINE rewritten == IF absent \/ text = NoText THEN base ELSE ApplyGeneratedText(base, text)
            kinds == MediaOf(post.inputs)
            made0 == Composed(text, absent)
<1>1. conf.cleaner \in BOOLEAN
  BY DEF Configurations
<1>2. /\ \E words \in Texts \cup {NoText} :
           base = PassthroughMessages(post.inputs, words) /\ (words = NoText <=> post.text = NoText)
      /\ base \in Seq(Messages) /\ Shaped(base, kinds)
      /\ post.text # NoText => HoldsWords(base)
      /\ post.text = NoText => \A i \in 1..Len(base) : base[i].text = NoText
  BY <1>1, BaseIs
<1>3. NoText \notin Texts
  BY PostsAssumption
<1>. HIDE DEF kinds
<1>4. /\ rewritten \in Seq(Messages) /\ Shaped(rewritten, kinds)
      /\ post.text # NoText => HoldsWords(rewritten)
      /\ AiMandatoryMode /\ ~OwesText(text, absent) =>
           \A i \in 1..Len(rewritten) : rewritten[i].text \in {text, NoText}
  <2>1. CASE absent \/ text = NoText
    <3>1. rewritten = base
      BY <2>1
    <3>2. ~OwesText(text, absent) => post.text = NoText
      BY <2>1 DEF OwesText, HasTextualSource
    <3>. QED  BY <1>2, <3>1, <3>2
  <2>2. CASE ~(absent \/ text = NoText)
    <3>1. text \in Texts /\ rewritten = ApplyGeneratedText(base, text)
      BY <2>2
    <3>2. /\ rewritten \in Seq(Messages) /\ Shaped(rewritten, kinds)
          /\ \A i \in 1..Len(rewritten) : rewritten[i].text \in {text, NoText}
          /\ \E i \in 1..Len(rewritten) : rewritten[i].text = text
      <4>1. post.inputs \in Seq(MediaKinds \cup {"sticker"})
        BY PostIs
      <4>2. PICK words \in Texts \cup {NoText} : base = PassthroughMessages(post.inputs, words)
        BY <1>2
      <4>. DEFINE start == PassthroughMessages(post.inputs, words)
                  applied == ApplyGeneratedText(start, text)
      <4>3. /\ applied \in Seq(Messages) /\ Shaped(applied, kinds)
            /\ \A i \in 1..Len(applied) : applied[i].text \in {text, NoText}
            /\ \E i \in 1..Len(applied) : applied[i].text = text
        BY <3>1, <4>1, GeneratedIsApplied DEF kinds
      <4>4. rewritten = applied
        BY <3>1, <4>2
      <4>. HIDE DEF rewritten, applied
      <4>. QED  BY <4>3, <4>4
    <3>. HIDE DEF rewritten
    <3>3. HoldsWords(rewritten)
      BY <1>3, <3>1, <3>2 DEF HoldsWords
    <3>. QED  BY <3>2, <3>3
  <2>. QED  BY <2>1, <2>2
<1>5. made0 = IF HasMediaWithoutCaption(rewritten) /\ ~AiMandatoryMode /\ HasTextualSource
                 /\ post.inputs # <<>>
              THEN WithFallbackCaption(rewritten, post.text) ELSE rewritten
  BY DEF Composed
<1>. HIDE DEF rewritten, made0
<1>6. CASE made0 = rewritten
  BY <1>4, <1>6 DEF kinds, made0
<1>7. CASE made0 = WithFallbackCaption(rewritten, post.text) /\ HasTextualSource /\ ~AiMandatoryMode
  <2>1. post.text \in Texts
    BY <1>7, PostIs DEF HasTextualSource
  <2>2. /\ made0 \in Seq(Messages) /\ Shaped(made0, kinds)
        /\ HoldsWords(rewritten) => HoldsWords(made0)
    BY <1>4, <1>7, <2>1, FallbackKeeps
  <2>. QED  BY <1>4, <1>7, <2>2 DEF kinds, made0
<1>. QED  BY <1>5, <1>6, <1>7

\* What a broken run lets out is all the media or nothing, and not promotional.
LEMMA SafeFailIs ==
  ASSUME NEW p \in Posts, NEW cleaner \in BOOLEAN,
         NEW start \in BaseMessages(p.inputs, p.text, cleaner)
  PROVE  LET made0 == SafeFailOpenMessages(start)
         IN  /\ made0 \in Seq(Messages) /\ ~AnyPromotional(made0)
             /\ made0 = <<>> \/ Shaped(made0, MediaOf(p.inputs))
<1>. DEFINE safe(t) == ~IsPromotional(t) /\ IsPersianAcceptable(t)
            at == {i \in DOMAIN start : IsMedia(start[i]) \/ safe(start[i].text)}
            kept == Chosen(start, at)
            kinds == MediaOf(p.inputs)
            M == [i \in DOMAIN kept |->
                    IF kept[i].text # NoText /\ ~safe(kept[i].text)
                    THEN [kept[i] EXCEPT !.text = NoText] ELSE kept[i]]
<1>1. start \in Seq(Messages) /\ Shaped(start, kinds)
  BY BaseIs
<1>2. kinds \in Seq(MediaKinds)
  BY PostIs, MediaAreKinds
<1>3. SafeFailOpenMessages(start) = M
  BY DEF SafeFailOpenMessages
<1>4. DOMAIN start = 1..Len(start) /\ Len(start) \in Nat /\ Len(kinds) \in Nat
  BY <1>1, <1>2
<1>5. \E words : start = PassthroughMessages(p.inputs, words) /\ words \in Texts \cup {NoText}
  BY BaseIs
<1>. HIDE DEF kinds
<1>6. \/ \A i \in 1..Len(start) : i \in at
      \/ \A i \in 1..Len(start) : i \notin at
  <2>1. PICK d \in {0, 1} :
          /\ Len(start) = d + Len(kinds)
          /\ \A i \in 1..d : start[i].kind = "text"
          /\ \A i \in 1..Len(kinds) : start[i + d].kind = kinds[i]
    BY <1>1 DEF Shaped
  <2>2. CASE kinds # <<>>
    <3>1. Len(start) = Len(kinds) /\ \A i \in 1..Len(kinds) : start[i].kind = kinds[i]
      BY <1>5, <2>2, PostIs, PassthroughIs DEF kinds
    <3>2. \A i \in 1..Len(start) : IsMedia(start[i])
      BY <1>2, <3>1 DEF IsMedia
    <3>. QED  BY <1>4, <3>2
  <2>3. CASE kinds = <<>>
    <3>1. Len(start) \in {0, 1}
      BY <2>1, <2>3
    <3>2. \A i \in 1..Len(start) : i = 1
      <4>1. 1..0 = {} /\ 1..1 = {1}
        OBVIOUS
      <4>. QED  BY <3>1, <4>1
    <3>. HIDE DEF at
    <3>. QED  BY <3>2
  <2>. QED  BY <2>2, <2>3
<1>. HIDE DEF at
<1>7. kept \in Seq(Messages)
  BY <1>1, ChosenByPlaces
<1>8. kept = <<>> \/ kept = start
  <2>1. CASE \A i \in 1..Len(start) : i \in at
    <3>1. 0 \in 0..Len(start) /\ Len(start) - 0 = Len(start)
          /\ \A i \in 1..Len(start) : i > 0 /\ i + 0 = i
      BY <1>4
    <3>2. /\ Len(kept) = Len(start) - 0
          /\ \A i \in 1..(Len(start) - 0) : kept[i] = start[i + 0]
      <4>1. \A i \in 1..Len(start) : i \in at <=> i > 0
        BY <2>1, <3>1
      <4>. QED  BY <1>1, <3>1, <4>1, ChosenTail
    <3>3. Len(kept) = Len(start) /\ \A i \in 1..Len(kept) : kept[i] = start[i]
      BY <3>1, <3>2
    <3>. HIDE DEF kept
    <3>. QED  BY <1>1, <1>7, <3>3, SeqEqual
  <2>2. CASE \A i \in 1..Len(start) : i \notin at
    <3>1. Len(start) \in 0..Len(start) /\ Len(start) - Len(start) = 0
          /\ \A i \in 1..Len(start) : ~(i > Len(start))
      BY <1>4
    <3>2. Len(kept) = Len(start) - Len(start)
      <4>1. \A i \in 1..Len(start) : i \in at <=> i > Len(start)
        BY <2>2, <3>1
      <4>. QED  BY <1>1, <3>1, <4>1, ChosenTail
    <3>3. Len(kept) = 0
      BY <3>1, <3>2
    <3>. HIDE DEF kept
    <3>. QED  BY <1>7, <3>3
  <2>. QED  BY <1>6, <2>1, <2>2
<1>. HIDE DEF kept
<1>9. DOMAIN kept = 1..Len(kept) /\ Len(kept) \in Nat
  BY <1>7
<1>10. ASSUME NEW i \in 1..Len(kept)
       PROVE  M[i] \in Messages /\ M[i].kind = kept[i].kind /\ ~IsPromotional(M[i].text)
  <2>1. kept[i] \in Messages
    BY <1>7
  <2>2. M[i] = IF kept[i].text # NoText /\ ~safe(kept[i].text)
               THEN [kept[i] EXCEPT !.text = NoText] ELSE kept[i]
    BY <1>9
  <2>. HIDE DEF M
  <2>3. CASE M[i] = [kept[i] EXCEPT !.text = NoText]
    BY <2>1, <2>3 DEF Messages, IsPromotional
  <2>4. CASE M[i] = kept[i] /\ (kept[i].text = NoText \/ safe(kept[i].text))
    BY <2>1, <2>4 DEF IsPromotional
  <2>. QED  BY <2>2, <2>3, <2>4
<1>11. M \in Seq(Messages) /\ Len(M) = Len(kept) /\ DOMAIN M = 1..Len(kept)
  <2>1. M = [i \in 1..Len(kept) |-> M[i]]
    BY <1>9
  <2>. HIDE DEF M
  <2>. QED  BY <1>9, <1>10, <2>1
<1>. HIDE DEF M
<1>12. ~AnyPromotional(M)
  BY <1>10, <1>11 DEF AnyPromotional
<1>13. M = <<>> \/ Shaped(M, kinds)
  <2>1. CASE kept = <<>>
    BY <1>11, <2>1
  <2>2. CASE kept = start
    <3>1. PICK d \in {0, 1} :
            /\ Len(start) = d + Len(kinds)
            /\ \A i \in 1..d : start[i].kind = "text"
            /\ \A i \in 1..Len(kinds) : start[i + d].kind = kinds[i]
      BY <1>1 DEF Shaped
    <3>2. /\ \A i \in 1..d : i \in 1..Len(start)
          /\ \A i \in 1..Len(kinds) : i + d \in 1..Len(start)
      BY <1>4, <3>1
    <3>. QED  BY <1>10, <1>11, <2>2, <3>1, <3>2 DEF Shaped
  <2>. QED  BY <1>8, <2>1, <2>2
<1>. QED  BY <1>3, <1>11, <1>12, <1>13 DEF kinds

\* The media fetched are the post's, stickers aside.
LEMMA UsableAreMedia ==
  ASSUME post \in Posts
  PROVE  /\ Usable \in Seq(DOMAIN post.inputs) /\ MediaOf(post.inputs) \in Seq(MediaKinds)
         /\ Len(Usable) = Len(MediaOf(post.inputs))
         /\ \A k \in 1..Len(Usable) : MediaOf(post.inputs)[k] = post.inputs[Usable[k]]
<1>. DEFINE given == post.inputs
            at == {i \in DOMAIN given : given[i] \in MediaKinds}
<1>1. given \in Seq(MediaKinds \cup {"sticker"})
  BY PostIs
<1>2. DOMAIN given = 1..Len(given)
  BY <1>1
<1>3. "sticker" \notin MediaKinds
  BY DEF MediaKinds, CaptionTypes
<1>4. at = {i \in DOMAIN given : given[i] # "sticker"}
  <2>1. \A i \in DOMAIN given : given[i] \in MediaKinds <=> given[i] # "sticker"
    BY <1>1, <1>3
  <2>. QED  BY <2>1
<1>5. Usable = Chosen(Places(given), at)
  BY <1>2, <1>4 DEF Usable, Places
<1>6. MediaOf(given) = Chosen(given, at)
  BY DEF MediaOf
<1>. HIDE DEF at
<1>7. ByPlaces(given, at, MediaOf(given), Usable)
  BY <1>1, <1>5, <1>6, ChosenByPlaces
<1>8. MediaOf(given) \in Seq(MediaKinds)
  BY <1>1, MediaAreKinds
<1>. QED  BY <1>2, <1>7, <1>8 DEF ByPlaces

LEMMA PassthroughOfIs ==
  ASSUME post \in Posts, inputs = Usable
  PROVE  /\ PassthroughOf \in Seq(Messages) /\ Shaped(PassthroughOf, MediaOf(post.inputs))
         /\ post.text # NoText => HoldsWords(PassthroughOf)
<1>. DEFINE kinds == [i \in DOMAIN inputs |-> post.inputs[inputs[i]]]
            media == MediaOf(post.inputs)
            M == [i \in DOMAIN kinds |-> Message(kinds[i], IF i = 1 THEN post.text ELSE NoText)]
<1>1. /\ Usable \in Seq(DOMAIN post.inputs) /\ media \in Seq(MediaKinds)
      /\ Len(Usable) = Len(media)
      /\ \A k \in 1..Len(Usable) : media[k] = post.inputs[Usable[k]]
  BY UsableAreMedia
<1>2. post.text \in Texts \cup {NoText}
  BY PostIs
<1>. HIDE DEF media
<1>3. kinds = media
  <2>1. DOMAIN kinds = 1..Len(media) /\ \A i \in 1..Len(media) : kinds[i] = media[i]
    BY <1>1
  <2>2. kinds = [i \in 1..Len(media) |-> kinds[i]] /\ media = [i \in 1..Len(media) |-> media[i]]
    BY <1>1, <2>1
  <2>. HIDE DEF kinds
  <2>. QED  BY <2>1, <2>2
<1>4. PassthroughOf = IF kinds # <<>> THEN M
                      ELSE IF post.text # NoText THEN <<Message("text", post.text)>> ELSE <<>>
  BY DEF PassthroughOf
<1>. HIDE DEF kinds
<1>5. DOMAIN media = 1..Len(media) /\ Len(media) \in Nat
  BY <1>1
<1>6. CASE media # <<>>
  <2>1. ASSUME NEW i \in 1..Len(media)
        PROVE  /\ M[i] \in Messages /\ M[i].kind = media[i]
               /\ i = 1 => M[i].text = post.text
    <3>. DEFINE t == IF i = 1 THEN post.text ELSE NoText
    <3>1. M[i] = Message(media[i], t)
      BY <1>3, <1>5
    <3>2. t \in Texts \cup {NoText} /\ (i = 1 => t = post.text)
      BY <1>2
    <3>3. media[i] \in {"text"} \cup MediaKinds
      BY <1>1
    <3>. HIDE DEF t, M
    <3>4. Message(media[i], t) \in Messages
      BY <3>2, <3>3, MessageMade
    <3>5. M[i].kind = media[i] /\ M[i].text = t
      BY <3>1 DEF Message
    <3>. QED  BY <3>1, <3>2, <3>4, <3>5
  <2>2. M = [i \in 1..Len(media) |-> M[i]]
    BY <1>3, <1>5
  <2>. HIDE DEF M
  <2>3. M \in Seq(Messages) /\ Len(M) = Len(media) /\ DOMAIN M = 1..Len(media)
    BY <1>5, <2>1, <2>2
  <2>4. Len(M) = 0 + Len(media) /\ 1..0 = {} /\ \A i \in 1..Len(media) : i + 0 = i
    BY <1>5, <2>3
  <2>5. Shaped(M, media)
    BY <2>1, <2>4 DEF Shaped
  <2>6. 1 \in 1..Len(media)
    BY <1>1, <1>6
  <2>7. post.text # NoText => HoldsWords(M)
    BY <2>1, <2>3, <2>6 DEF HoldsWords
  <2>8. PassthroughOf = M
    BY <1>3, <1>4, <1>6
  <2>. QED  BY <2>3, <2>5, <2>7, <2>8 DEF media
<1>7. CASE media = <<>> /\ post.text # NoText
  <2>1. PassthroughOf = <<Message("text", post.text)>>
    BY <1>3, <1>4, <1>7
  <2>2. Message("text", post.text) \in Messages
    BY <1>2, MessageMade
  <2>3. /\ PassthroughOf \in Seq(Messages) /\ Len(PassthroughOf) = 1 /\ 1 \in DOMAIN PassthroughOf
        /\ PassthroughOf[1].kind = "text" /\ PassthroughOf[1].text = post.text
    BY <2>1, <2>2 DEF Message
  <2>4. Len(PassthroughOf) = 1 + Len(media) /\ 1..1 = {1} /\ 1..Len(media) = {}
    BY <1>7, <2>3
  <2>5. Shaped(PassthroughOf, media)
    BY <2>3, <2>4 DEF Shaped
  <2>6. HoldsWords(PassthroughOf)
    BY <1>7, <2>3 DEF HoldsWords
  <2>. QED  BY <2>3, <2>5, <2>6 DEF media
<1>8. CASE media = <<>> /\ post.text = NoText
  <2>1. PassthroughOf = <<>>
    BY <1>3, <1>4, <1>8
  <2>2. PassthroughOf \in Seq(Messages) /\ Len(PassthroughOf) = 0 + Len(media)
        /\ 1..0 = {} /\ 1..Len(media) = {}
    BY <1>8, <2>1
  <2>3. Shaped(PassthroughOf, media)
    BY <2>2 DEF Shaped
  <2>. QED  BY <1>8, <2>2, <2>3 DEF media
<1>. QED  BY <1>6, <1>7, <1>8

LEMMA FitsInWhatIsLeft ==
  ASSUME NEW limit \in Nat, NEW bytes \in Nat, NEW before \in 0..limit, NEW after \in 0..limit,
         after = before + bytes
  PROVE  bytes <= limit /\ bytes <= limit - before /\ (limit - before) - bytes = limit - after
  OBVIOUS

\* When every medium fits in what those before it leave, the filter keeps all.
LEMMA FilterKeepsAll ==
  ASSUME Limit \in Nat, NEW messages \in Seq(Messages), NEW d \in {0, 1}, NEW count \in Nat,
         Len(messages) = d + count,
         \A i \in 1..d : messages[i].kind = "text",
         \A i \in 1..count : messages[i + d].kind # "text",
         NEW t \in [0..count -> 0..Limit], t[0] = 0,
         \A k \in 1..count : size[inputs[k]] \in Nat /\ t[k] = t[k - 1] + size[inputs[k]]
  PROVE  FilterOversized(messages) = messages
<1>. DEFINE L == Len(messages)
            m(n) == IF n <= d THEN 0 ELSE n - d
            kept(n) == [i \in 1..n |-> messages[i]]
            State(n) == [left |-> Limit - t[m(n)], kept |-> kept(n), media |-> m(n)]
            Turn(f, n) == IF n = 0 THEN [left |-> Limit, kept |-> <<>>, media |-> 0]
                          ELSE Kept(f[n - 1], messages[n])
            c == CHOOSE f : f = [n \in 0..L |-> Turn(f, n)]
            g == [n \in 0..L |-> State(n)]
<1>1. L \in Nat /\ d \in 0..L /\ \A n \in 1..L : messages[n] \in Messages
  OBVIOUS
<1>2. FilterOversized(messages) = c[L].kept
  BY DEF FilterOversized
<1>3. State(0) = [left |-> Limit, kept |-> <<>>, media |-> 0]
  <2>1. m(0) = 0 /\ Limit - t[0] = Limit /\ kept(0) = <<>>
    BY <1>1
  <2>. QED  BY <2>1
<1>4. ASSUME NEW n \in 1..L PROVE State(n) = Kept(State(n - 1), messages[n])
  <2>1. messages[n] \in Messages /\ n \in Nat /\ n - 1 \in Nat
    BY <1>1
  <2>2. Append(kept(n - 1), messages[n]) = kept(n)
    <3>1. kept(n - 1) \in Seq(Messages) /\ Len(kept(n - 1)) = n - 1
      <4>1. \A i \in 1..(n - 1) : i \in 1..L
        BY <1>1
      <4>. QED  BY <1>1, <2>1, <4>1
    <3>2. kept(n) \in Seq(Messages) /\ Len(kept(n)) = n
      <4>1. \A i \in 1..n : i \in 1..L
        BY <1>1
      <4>. QED  BY <1>1, <2>1, <4>1
    <3>3. \A i \in 1..n : i = (n - 1) + 1 \/ i \in 1..(n - 1)
      BY <2>1
    <3>4. \A i \in 1..n : Append(kept(n - 1), messages[n])[i] = kept(n)[i]
      BY <2>1, <3>1, <3>3
    <3>5. /\ Append(kept(n - 1), messages[n]) \in Seq(Messages)
          /\ Len(Append(kept(n - 1), messages[n])) = n
      BY <2>1, <3>1
    <3>. HIDE DEF kept
    <3>. QED  BY <3>2, <3>4, <3>5, SeqEqual
  <2>3. CASE n <= d
    <3>1. m(n) = 0 /\ m(n - 1) = 0 /\ n \in 1..d
      BY <1>1, <2>1, <2>3
    <3>2. ~IsMedia(messages[n])
      BY <2>1, <3>1, MessageIs
    <3>. HIDE DEF kept, m
    <3>. QED  BY <2>2, <3>1, <3>2 DEF Kept
  <2>4. CASE ~(n <= d)
    <3>. DEFINE k == n - d
    <3>1. k \in 1..count /\ k + d = n /\ m(n) = k /\ m(n - 1) = k - 1 /\ k \in Nat
      BY <1>1, <2>1, <2>4
    <3>2. IsMedia(messages[n])
      BY <2>1, <3>1, MessageIs
    <3>. HIDE DEF kept, m, k
    <3>3. k - 1 \in 0..count /\ k \in 0..count /\ (k - 1) + 1 = k
      BY <3>1
    <3>. DEFINE bytes == size[inputs[k]]
    <3>4. bytes \in Nat /\ t[k] = t[k - 1] + bytes /\ t[k] \in 0..Limit /\ t[k - 1] \in 0..Limit
      BY <3>1, <3>3
    <3>5. bytes <= Limit /\ bytes <= Limit - t[k - 1] /\ (Limit - t[k - 1]) - bytes = Limit - t[k]
      <4>. DEFINE before == t[k - 1]
                  after  == t[k]
      <4>1. bytes \in Nat /\ after = before + bytes /\ after \in 0..Limit /\ before \in 0..Limit
        BY <3>4
      <4>. HIDE DEF bytes, before, after
      <4>2. bytes <= Limit /\ bytes <= Limit - before /\ (Limit - before) - bytes = Limit - after
        BY <4>1, FitsInWhatIsLeft
      <4>. QED  BY <4>2 DEF before, after
    <3>6. State(n - 1).left = Limit - t[k - 1] /\ State(n - 1).media = k - 1
          /\ State(n - 1).kept = kept(n - 1)
      <4>. DEFINE before == State(n - 1)
      <4>1. before = [left |-> Limit - t[m(n - 1)], kept |-> kept(n - 1), media |-> m(n - 1)]
        OBVIOUS
      <4>2. /\ before.left = Limit - t[m(n - 1)] /\ before.media = m(n - 1)
            /\ before.kept = kept(n - 1)
        <5>. HIDE DEF before
        <5>. QED  BY <4>1
      <4>. HIDE DEF before
      <4>3. before.left = Limit - t[k - 1] /\ before.media = k - 1 /\ before.kept = kept(n - 1)
        BY <3>1, <4>2
      <4>. QED  BY <4>3 DEF before
    <3>7. size[inputs[State(n - 1).media + 1]] = bytes
      BY <3>3, <3>6
    <3>8. State(n) = [left |-> Limit - t[k], kept |-> kept(n), media |-> k]
      BY <3>1
    <3>. HIDE DEF State, bytes
    <3>9. Kept(State(n - 1), messages[n])
            = [left |-> State(n - 1).left - bytes, kept |-> Append(State(n - 1).kept, messages[n]),
               media |-> State(n - 1).media + 1]
      BY <3>2, <3>5, <3>6, <3>7 DEF Kept
    <3>. QED  BY <2>2, <3>3, <3>5, <3>6, <3>8, <3>9
  <2>. QED  BY <2>3, <2>4
<1>. HIDE DEF State, c
<1>5. \A n \in 0..L : n = 0 \/ (n \in 1..L /\ n # 0 /\ n - 1 \in 0..L)
  BY <1>1
<1>6. \A n \in 0..L : g[n] = Turn(g, n)
  <2>1. \A n \in 0..L : g[n] = State(n)
    OBVIOUS
  <2>. HIDE DEF g
  <2>. QED  BY <1>3, <1>4, <1>5, <2>1
<1>7. g = [n \in 0..L |-> Turn(g, n)]
  <2>1. g = [n \in 0..L |-> g[n]]
    OBVIOUS
  <2>. HIDE DEF g, Turn
  <2>. QED  BY <1>6, <2>1
<1>8. c = [n \in 0..L |-> Turn(c, n)]
  <2>. HIDE DEF Turn, g
  <2>. QED  BY <1>7 DEF c
<1>9. \A n \in 0..L : c[n] = Turn(c, n)
  <2>. HIDE DEF Turn
  <2>. QED  BY <1>8
<1>. DEFINE T == {n \in 0..L : c[n] = State(n)}
<1>10. 0 \in T
  <2>1. 0 \in 0..L
    BY <1>1
  <2>. QED  BY <1>3, <1>9, <2>1
<1>11. ASSUME NEW n \in 1..L, n - 1 \in T PROVE n \in T
  <2>1. n \in 0..L /\ n # 0 /\ c[n - 1] = State(n - 1)
    BY <1>1, <1>11
  <2>. QED  BY <1>4, <1>9, <2>1
<1>12. L \in T
  <2>. HIDE DEF T
  <2>1. \A n \in 0..L : n \in T
    BY <1>1, <1>10, <1>11, HoldsUpTo
  <2>. QED  BY <1>1, <2>1
<1>13. c[L].kept = kept(L)
  BY <1>12 DEF State
<1>14. kept(L) = messages
  OBVIOUS
<1>. QED  BY <1>2, <1>13, <1>14

--------------------------------------------------------------------------------
(* A post on its way. *)

OnlyModels(messages) ==
  \A i \in DOMAIN messages : messages[i].text # NoText =>
    messages[i].text.by = "ai" /\ messages[i].text.lang = "persian"

(* What PostTravelsWhole asks of the messages to dispatch. *)
Whole(messages) ==
  /\ Shaped(messages, MediaOf(post.inputs))
  /\ post.text # NoText /\ ~broke => HoldsWords(messages)
  /\ scripted /\ AiMandatoryMode /\ ~broke => OnlyModels(messages)

Printable(messages) == messages = <<>> \/ (Whole(messages) /\ ~AnyPromotional(messages))

(* The run of the script starts from the post's messages, takes its texts from the
   model, and prints nothing or the post. *)
ScriptHolds ==
  /\ phase # "begin" => base \in BaseMessages(post.inputs, post.text, conf.cleaner)
  /\ phase = "broken" => broke
  /\ body # NoText => body.by = "ai"
  /\ phase = "printed" => Printable(out)

(* The media fetched are the first of the post's, and t[k] the bytes of the first k. *)
FetchHolds ==
  /\ Len(inputs) <= Len(Usable) /\ \A i \in 1..Len(inputs) : inputs[i] = Usable[i]
  /\ \E t \in [0..Len(inputs) -> 0..Limit] :
       /\ t[0] = 0 /\ t[Len(inputs)] = fetched
       /\ \A k \in 1..Len(inputs) : t[k] = t[k - 1] + size[inputs[k]]
  /\ stage \in {"script", "output"} => Len(inputs) = Len(Usable)

StageHolds ==
  /\ stage = "output" => Whole(made) /\ (scripted => ~AnyPromotional(made))
  /\ stage = "link" => Whole(ready) /\ (scripted => ~AnyPromotional(ready))
  /\ stage = "dispatch" => Whole(ready)
  /\ OwnLinkBlocks

PostHolds == PipelineTypeOK /\ ScriptHolds /\ FetchHolds /\ StageHolds

--------------------------------------------------------------------------------
(* What the script prints. *)

(* A run has read its post. *)
RunHolds ==
  /\ post \in Posts /\ conf \in Configurations /\ out \in Seq(Messages) /\ left \in 0..4
  /\ base \in BaseMessages(post.inputs, post.text, conf.cleaner)

(* A text the model gave, or none. *)
IsGiven(text) == text \in Texts \cup {NoText} /\ (text # NoText => text.by = "ai")

(* Where a run gets to with a text in hand. *)
RunGoesOn ==
  /\ phase' \in Asking \cup {"printed", "owed", "rejected"}
  /\ out' \in Seq(Messages)
  /\ phase' = "printed" => Printable(out')

LEMMA ComposePrints ==
  ASSUME RunHolds, NEW text, IsGiven(text), text # NoText => IsPersianAcceptable(text),
         NEW absent \in BOOLEAN, Compose(text, absent)
  PROVE  RunGoesOn
<1>. DEFINE M == Composed(text, absent)
<1>1. /\ M \in Seq(Messages) /\ Shaped(M, MediaOf(post.inputs))
      /\ post.text # NoText => HoldsWords(M)
      /\ AiMandatoryMode /\ ~OwesText(text, absent) =>
           \A i \in 1..Len(M) : M[i].text \in {text, NoText}
  BY ComposedIs DEF RunHolds, IsGiven
<1>2. /\ phase' \in {"printed", "owed", "rejected"}
      /\ phase' # "printed" => out' = out
      /\ phase' = "printed" => \/ out' = <<>>
                               \/ /\ out' = M /\ ~AnyPromotional(M)
                                  /\ ~(AiMandatoryMode /\ OwesText(text, absent))
  BY DEF Compose, Fail, PrintMessages, IsDropped
<1>. HIDE DEF M
<1>3. AiMandatoryMode /\ ~OwesText(text, absent) => OnlyModels(M)
  <2>1. DOMAIN M = 1..Len(M)
    BY <1>1
  <2>. QED  BY <1>1, <2>1 DEF OnlyModels, IsGiven, IsPersianAcceptable
<1>4. phase' = "printed" => Printable(out')
  BY <1>1, <1>2, <1>3 DEF Printable, Whole
<1>5. out' \in Seq(Messages)
  <2>1. <<>> \in Seq(Messages)
    OBVIOUS
  <2>2. out' \in {out, <<>>, M}
    BY <1>2
  <2>. QED  BY <1>1, <2>1, <2>2 DEF RunHolds
<1>6. phase' \in Asking \cup {"printed", "owed", "rejected"}
  BY <1>2
<1>. QED  BY <1>4, <1>5, <1>6 DEF RunGoesOn

LEMMA FinishPrints ==
  ASSUME RunHolds, NEW text, IsGiven(text), Finish(text)
  PROVE  RunGoesOn /\ left' \in 0..4
<1>. DEFINE final == IF IsPersianAcceptable(text) THEN text ELSE NoText
<1>1. IsGiven(final) /\ (final # NoText => IsPersianAcceptable(final))
  BY DEF IsGiven
<1>2. Compose(final, FALSE) /\ left' = left
  BY DEF Finish
<1>. HIDE DEF final
<1>. QED  BY <1>1, <1>2, ComposePrints DEF RunHolds

LEMMA AfterStrictPrints ==
  ASSUME RunHolds, NEW text, NEW time, IsGiven(text), AfterStrict(text, time)
  PROVE  RunGoesOn /\ left' \in 0..4
<1>1. CASE phase' = "adjust" /\ left' = 2 /\ UNCHANGED out
  BY <1>1 DEF RunGoesOn, RunHolds, Asking
<1>. QED  BY <1>1, FinishPrints DEF AfterStrict

LEMMA AfterRefinePrints ==
  ASSUME RunHolds, NEW text, NEW time, IsGiven(text), AfterRefine(text, time)
  PROVE  RunGoesOn /\ left' \in 0..4
<1>1. CASE phase' = "strict" /\ left' \in {2, 4} /\ UNCHANGED out
  BY <1>1 DEF RunGoesOn, RunHolds, Asking
<1>. QED  BY <1>1, AfterStrictPrints DEF AfterRefine

LEMMA AfterFirstPrints ==
  ASSUME RunHolds, NEW text, NEW time, IsGiven(text), AfterFirst(text, time)
  PROVE  RunGoesOn /\ left' \in 0..4
<1>1. CASE phase' = "refine" /\ UNCHANGED <<left, out>>
  BY <1>1 DEF RunGoesOn, RunHolds, Asking
<1>. QED  BY <1>1, AfterRefinePrints DEF AfterFirst

LEMMA ReplyPrints ==
  ASSUME RunHolds, IsGiven(body), Reply
  PROVE  RunGoesOn /\ left' \in 0..4 /\ IsGiven(body')
<1>1. PICK candidate \in UNION {Candidates(answer) : answer \in Answers} :
       \/ /\ phase = "first"
          /\ body' = candidate /\ AfterFirst(candidate, budget')
       \/ /\ phase = "refine"
          /\ body' = Better(candidate) /\ AfterRefine(body', budget')
       \/ /\ phase = "strict"
          /\ body' = Better(candidate)
          /\ IF ~IsPersianAcceptable(body') /\ budget' >= 2 /\ left > 1
             THEN left' = left - 1 /\ UNCHANGED <<phase, out>>
             ELSE AfterStrict(body', budget')
       \/ /\ phase = "adjust"
          /\ body' = Better(candidate)
          /\ IF ~IsLengthAcceptable(body') /\ budget' >= 2 /\ left > 1
             THEN left' = left - 1 /\ UNCHANGED <<phase, out>>
             ELSE Finish(body')
  BY DEF Reply
<1>2. IsGiven(candidate) /\ IsGiven(Better(candidate))
  BY PostsAssumption DEF IsGiven, Candidates, Better
<1>3. IsGiven(body')
  BY <1>1, <1>2
<1>4. CASE AfterFirst(candidate, budget')
  BY <1>2, <1>3, <1>4, AfterFirstPrints
<1>5. CASE AfterRefine(body', budget')
  BY <1>3, <1>5, AfterRefinePrints
<1>6. CASE AfterStrict(body', budget')
  BY <1>3, <1>6, AfterStrictPrints
<1>7. CASE Finish(body')
  BY <1>3, <1>7, FinishPrints
<1>8. CASE left > 1 /\ left' = left - 1 /\ UNCHANGED <<phase, out>> /\ phase \in Asking
  <2>1. left' \in 0..4
    BY <1>8 DEF RunHolds
  <2>2. phase' \in Asking /\ phase' # "printed"
    BY <1>8 DEF Asking
  <2>. QED  BY <1>3, <1>8, <2>1, <2>2 DEF RunGoesOn, RunHolds
<1>. QED  BY <1>1, <1>4, <1>5, <1>6, <1>7, <1>8 DEF Asking

LEMMA NoReplyPrints ==
  ASSUME RunHolds, IsGiven(body), NoReply
  PROVE  RunGoesOn /\ left' \in 0..4 /\ body' = body /\ images' \in {images, FALSE}
<1>1. body' = body /\ images' \in {images, FALSE} /\ phase \in Asking
  BY DEF NoReply
<1>2. CASE UNCHANGED <<phase, left, out>>
  <2>1. phase' \in Asking /\ phase' # "printed"
    BY <1>1, <1>2 DEF Asking
  <2>. QED  BY <1>1, <1>2, <2>1 DEF RunGoesOn, RunHolds
<1>3. CASE Compose(NoText, AiFailOpen) /\ UNCHANGED left
  <2>1. IsGiven(NoText) /\ AiFailOpen \in BOOLEAN
    BY DEF IsGiven, AiFailOpen, RunHolds, Configurations
  <2>. QED  BY <1>1, <1>3, <2>1, ComposePrints DEF RunHolds
<1>4. CASE AfterRefine(body, budget')
  BY <1>1, <1>4, AfterRefinePrints
<1>5. CASE AfterStrict(body, budget')
  BY <1>1, <1>5, AfterStrictPrints
<1>6. CASE Finish(body)
  BY <1>1, <1>6, FinishPrints
<1>7. CASE left > 1 /\ left' = left - 1 /\ UNCHANGED <<phase, out>>
  <2>1. left' \in 0..4
    BY <1>7 DEF RunHolds
  <2>2. phase' \in Asking /\ phase' # "printed"
    BY <1>1, <1>7 DEF Asking
  <2>. QED  BY <1>1, <1>7, <2>1, <2>2 DEF RunGoesOn, RunHolds
<1>. QED  BY <1>2, <1>3, <1>4, <1>5, <1>6, <1>7 DEF NoReply

\* Messages are judged by the post, and the post stays what it is.
LEMMA JudgedTheSame ==
  ASSUME UNCHANGED <<post, conf, scripted, broke>>
  PROVE  /\ Printable(out') => Printable(out)'
         /\ Whole(made') => Whole(made)'
         /\ Whole(ready') => Whole(ready)'
BY DEF Printable, Whole, AiMandatoryMode

LEMMA RunIsRead ==
  ASSUME PostHolds, phase # "begin"
  PROVE  RunHolds /\ IsGiven(body)
BY DEF PostHolds, PipelineTypeOK, ScriptTypeOK, ScriptHolds, RunHolds, IsGiven

LEMMA ScriptStepHolds ==
  ASSUME PostHolds, ScriptNext, UNCHANGED scripted
  PROVE  ScriptTypeOK' /\ ScriptHolds'
<1>1. UNCHANGED <<post, conf>>
  BY DEF ScriptNext, BuildBase, Skip, PassVideo, DoNotAsk, BeginToAsk, Break, FailOpen,
         AttemptFails, Reply, NoReply
<1>2. ScriptTypeOK /\ ScriptHolds
  BY DEF PostHolds, PipelineTypeOK
<1>3. post \in Posts /\ conf.cleaner \in BOOLEAN
  BY <1>2 DEF ScriptTypeOK, Configurations
<1>4. ASSUME RunGoesOn, RunHolds, UNCHANGED <<base, broke>>, left' \in 0..4, IsGiven(body'),
             images' \in BOOLEAN, attempt' \in 0..Retries, budget' \in 0..3
      PROVE  ScriptTypeOK' /\ ScriptHolds'
  <2>1. phase' \in Phases /\ phase' # "broken" /\ phase' # "begin"
    BY <1>4 DEF RunGoesOn, Phases, Asking
  <2>2. ScriptTypeOK'
    BY <1>1, <1>2, <1>4, <2>1 DEF ScriptTypeOK, RunGoesOn, IsGiven
  <2>3. phase' = "printed" => Printable(out)'
    BY <1>1, <1>4, JudgedTheSame DEF RunGoesOn
  <2>4. base' \in BaseMessages(post'.inputs, post'.text, conf'.cleaner)
    BY <1>1, <1>4 DEF RunHolds
  <2>. QED  BY <1>4, <2>1, <2>2, <2>3, <2>4 DEF ScriptHolds, IsGiven
<1>5. CASE BuildBase
  <2>1. base' \in Seq(Messages)
    BY <1>3, <1>5, BaseIs DEF BuildBase
  <2>2. UNCHANGED <<post, conf, body, images, attempt, left, budget, broke, out>> /\ phase' = "look"
        /\ base' \in BaseMessages(post'.inputs, post'.text, conf'.cleaner)
    BY <1>5 DEF BuildBase
  <2>3. ScriptTypeOK'
    BY <1>2, <2>1, <2>2 DEF ScriptTypeOK, Phases
  <2>. QED  BY <1>2, <2>2, <2>3 DEF ScriptHolds
<1>6. CASE Skip \/ PassVideo \/ DoNotAsk
  <2>1. phase # "begin" /\ UNCHANGED <<base, body, images, attempt, left, budget, broke>>
    BY <1>6 DEF Skip, PassVideo, DoNotAsk, Rewritable
  <2>2. RunHolds /\ IsGiven(body)
    BY <2>1, RunIsRead
  <2>3. RunGoesOn
    <3>1. CASE Skip
      <4>1. phase' = "printed" /\ out' = <<>> /\ <<>> \in Seq(Messages)
        BY <3>1 DEF Skip, PrintMessages
      <4>. QED  BY <4>1 DEF RunGoesOn, Printable
    <3>2. CASE PassVideo
      <4>1. phase' = "printed" /\ (out' = <<>> \/ (out' = base /\ ~AnyPromotional(base)))
            /\ post.text = NoText /\ <<>> \in Seq(Messages)
        BY <3>2 DEF PassVideo, PrintMessages, IsDropped, HasTextualSource
      <4>2. /\ base \in Seq(Messages) /\ Shaped(base, MediaOf(post.inputs))
            /\ \A i \in 1..Len(base) : base[i].text = NoText
        BY <1>3, <2>2, <4>1, BaseIs DEF RunHolds
      <4>3. DOMAIN base = 1..Len(base)
        BY <4>2
      <4>4. OnlyModels(base)
        BY <4>2, <4>3 DEF OnlyModels
      <4>5. ~AnyPromotional(base) => Printable(base)
        BY <4>1, <4>2, <4>4 DEF Printable, Whole
      <4>. QED  BY <4>1, <4>2, <4>5 DEF RunGoesOn, Printable
    <3>3. CASE DoNotAsk
      <4>1. Compose(NoText, TRUE) /\ IsGiven(NoText)
        BY <3>3 DEF DoNotAsk, IsGiven
      <4>. QED  BY <2>2, <4>1, ComposePrints
    <3>. QED  BY <1>6, <3>1, <3>2, <3>3
  <2>4. left' \in 0..4 /\ IsGiven(body') /\ images' \in BOOLEAN /\ attempt' \in 0..Retries
        /\ budget' \in 0..3
    BY <1>2, <2>1, <2>2 DEF ScriptTypeOK
  <2>. QED  BY <1>4, <2>1, <2>2, <2>3, <2>4
<1>7. CASE BeginToAsk
  <2>1. /\ phase = "look" /\ phase' = "first" /\ images' \in BOOLEAN
        /\ UNCHANGED <<post, conf, base, body, attempt, left, budget, broke, out>>
    BY <1>7 DEF BeginToAsk, Rewritable, HasImages
  <2>2. ScriptTypeOK'
    BY <1>2, <2>1 DEF ScriptTypeOK, Phases, Asking
  <2>3. base' \in BaseMessages(post'.inputs, post'.text, conf'.cleaner)
    BY <1>2, <2>1 DEF ScriptHolds
  <2>. QED  BY <1>2, <2>1, <2>2, <2>3 DEF ScriptHolds
<1>8. CASE Break
  <2>1. /\ phase = "look" /\ phase' = "broken" /\ broke' = TRUE
        /\ UNCHANGED <<post, conf, base, body, images, attempt, left, budget, out>>
    BY <1>8 DEF Break, Rewritable
  <2>2. ScriptTypeOK'
    BY <1>2, <2>1 DEF ScriptTypeOK, Phases
  <2>3. base' \in BaseMessages(post'.inputs, post'.text, conf'.cleaner)
    BY <1>2, <2>1 DEF ScriptHolds
  <2>. QED  BY <1>2, <2>1, <2>2, <2>3 DEF ScriptHolds
<1>9. CASE FailOpen
  <2>1. phase = "broken" /\ UNCHANGED <<base, body, images, attempt, left, budget, broke>>
    BY <1>9 DEF FailOpen
  <2>2. RunHolds /\ IsGiven(body) /\ broke
    BY <1>2, <2>1, RunIsRead DEF ScriptHolds
  <2>3. PICK again \in BaseMessages(post.inputs, post.text, conf.cleaner) :
          phase' = "printed" /\ out' = SafeFailOpenMessages(again)
    BY <1>9 DEF FailOpen, PrintMessages
  <2>4. /\ out' \in Seq(Messages) /\ ~AnyPromotional(out')
        /\ out' = <<>> \/ Shaped(out', MediaOf(post.inputs))
    BY <1>3, <2>3, SafeFailIs
  <2>5. RunGoesOn
    BY <2>2, <2>3, <2>4 DEF RunGoesOn, Printable, Whole
  <2>6. left' \in 0..4 /\ IsGiven(body') /\ images' \in BOOLEAN /\ attempt' \in 0..Retries
        /\ budget' \in 0..3
    BY <1>2, <2>1, <2>2 DEF ScriptTypeOK
  <2>. QED  BY <1>4, <2>1, <2>2, <2>5, <2>6
<1>10. CASE AttemptFails
  <2>1. /\ phase \in Asking /\ attempt < Retries /\ attempt' = attempt + 1 /\ budget' \in 0..budget
        /\ UNCHANGED <<post, conf, phase, base, body, images, left, broke, out>>
    BY <1>10 DEF AttemptFails, RetriesAgain
  <2>2. attempt' \in 0..Retries /\ budget' \in 0..3
    BY <1>2, <2>1, ScriptAssumption DEF ScriptTypeOK
  <2>3. ScriptTypeOK'
    BY <1>2, <2>1, <2>2 DEF ScriptTypeOK
  <2>4. phase' \notin {"begin", "broken", "printed"} /\ phase # "begin"
    BY <2>1 DEF Asking
  <2>5. base' \in BaseMessages(post'.inputs, post'.text, conf'.cleaner)
    BY <1>2, <2>1, <2>4 DEF ScriptHolds
  <2>. QED  BY <1>2, <2>1, <2>3, <2>4, <2>5 DEF ScriptHolds
<1>11. CASE Reply
  <2>1. phase \in Asking /\ phase # "begin" /\ UNCHANGED <<base, images, broke>>
        /\ attempt' = 0 /\ budget' \in 0..budget
    BY <1>11 DEF Reply, Asking
  <2>2. RunHolds /\ IsGiven(body)
    BY <2>1, RunIsRead
  <2>3. RunGoesOn /\ left' \in 0..4 /\ IsGiven(body')
    BY <1>11, <2>2, ReplyPrints
  <2>4. images' \in BOOLEAN /\ attempt' \in 0..Retries /\ budget' \in 0..3
    BY <1>2, <2>1, ScriptAssumption DEF ScriptTypeOK
  <2>. QED  BY <1>4, <2>1, <2>2, <2>3, <2>4
<1>12. CASE NoReply
  <2>1. phase \in Asking /\ phase # "begin" /\ UNCHANGED <<base, broke>>
        /\ attempt' = 0 /\ budget' \in 0..budget
    BY <1>12 DEF NoReply, Asking
  <2>2. RunHolds /\ IsGiven(body)
    BY <2>1, RunIsRead
  <2>3. RunGoesOn /\ left' \in 0..4 /\ body' = body /\ images' \in {images, FALSE}
    BY <1>12, <2>2, NoReplyPrints
  <2>4. images' \in BOOLEAN /\ attempt' \in 0..Retries /\ budget' \in 0..3
    <3>1. images \in BOOLEAN /\ budget \in 0..3
      BY <1>2 DEF ScriptTypeOK
    <3>2. images' \in BOOLEAN
      BY <2>3, <3>1
    <3>. QED  BY <2>1, <3>1, <3>2, ScriptAssumption
  <2>5. IsGiven(body')
    BY <2>2, <2>3
  <2>. QED  BY <1>4, <2>1, <2>2, <2>3, <2>4, <2>5
<1>. QED  BY <1>5, <1>6, <1>7, <1>8, <1>9, <1>10, <1>11, <1>12 DEF ScriptNext

--------------------------------------------------------------------------------
(* The pipeline's steps. *)

LEMMA ScriptRests ==
  ASSUME PostHolds, UNCHANGED <<scriptVars, scripted>>
  PROVE  ScriptTypeOK' /\ ScriptHolds'
<1>1. ScriptTypeOK'
  BY DEF PostHolds, PipelineTypeOK, ScriptTypeOK, scriptVars
<1>2. phase = "printed" => Printable(out)'
  <2>1. UNCHANGED <<post, conf, scripted, broke, out>>
    BY DEF scriptVars
  <2>2. phase = "printed" => Printable(out')
    BY <2>1 DEF PostHolds, ScriptHolds
  <2>. QED  BY <2>1, <2>2, JudgedTheSame
<1>3. phase' # "begin" => base' \in BaseMessages(post'.inputs, post'.text, conf'.cleaner)
  BY DEF PostHolds, ScriptHolds, scriptVars
<1>. QED  BY <1>1, <1>2, <1>3 DEF PostHolds, ScriptHolds, scriptVars

LEMMA FetchRests ==
  ASSUME FetchHolds, UNCHANGED <<post, size, inputs, fetched>>,
         stage' \in {"script", "output"} => Len(inputs) = Len(Usable)
  PROVE  FetchHolds'
<1>1. Usable' = Usable
  BY DEF Usable
<1>. QED  BY <1>1 DEF FetchHolds

\* Nothing is fetched at first.
LEMMA NothingFetched ==
  ASSUME post' \in Posts, inputs' = <<>>, fetched' = 0, stage' \notin {"script", "output"}
  PROVE  FetchHolds' /\ inputs' \in Seq(DOMAIN post'.inputs) /\ fetched' \in 0..Limit
<1>. DEFINE t == [k \in 0..0 |-> 0]
<1>1. Limit \in Nat
  BY PipelineAssumption
<1>2. Len(inputs') = 0 /\ 1..0 = {} /\ inputs' \in Seq(DOMAIN post'.inputs)
  OBVIOUS
<1>3. Usable' \in Seq(DOMAIN post'.inputs)
  <2>. DEFINE given == post'.inputs
              at == {i \in DOMAIN given : given[i] # "sticker"}
  <2>1. given \in Seq(MediaKinds \cup {"sticker"})
    BY PostIs
  <2>2. DOMAIN given = 1..Len(given) /\ Len(given) \in Nat
    BY <2>1
  <2>3. Places(given) \in Seq(DOMAIN given)
    BY <2>2 DEF Places
  <2>4. Usable' = Chosen(Places(given), at)
    BY <2>2 DEF Usable, Places
  <2>. HIDE DEF given, at
  <2>5. Chosen(Places(given), at) \in Seq(DOMAIN given)
    BY <2>3, ChosenByPlaces
  <2>. QED  BY <2>4, <2>5 DEF given
<1>4. Len(Usable') \in Nat
  BY <1>3
<1>5. /\ t \in [0..Len(inputs') -> 0..Limit] /\ t[0] = 0 /\ t[Len(inputs')] = fetched'
      /\ \A k \in 1..Len(inputs') : t[k] = t[k - 1] + size'[inputs'[k]]
  BY <1>1, <1>2
<1>. HIDE DEF t
<1>6. FetchHolds'
  BY <1>2, <1>4, <1>5 DEF FetchHolds
<1>. QED  BY <1>1, <1>2, <1>6

LEMMA ConcludedHolds ==
  ASSUME NEW status \in {"ok", "failed", "blocked", "ambiguous"},
         NEW error \in Errors \ {"output_promo_blocked"}, Conclude(status, error)
  PROVE  stage' = "attempted" /\ StageHolds' /\ verdict' \in Verdicts
<1>1. stage' = "attempted" /\ verdict' = [status |-> status, error |-> error]
  BY DEF Conclude
<1>2. verdict' \in Verdicts /\ verdict'.error # "output_promo_blocked"
  BY <1>1 DEF Verdicts
<1>. QED  BY <1>1, <1>2 DEF StageHolds, OwnLinkBlocks

\* The conjuncts of PipelineTypeOK beyond the script's.
PipeShape ==
  /\ stage \in Stages /\ size \in [DOMAIN post.inputs -> 1..Limit + 1]
  /\ scripted \in BOOLEAN /\ keyworded \in BOOLEAN
  /\ inputs \in Seq(DOMAIN post.inputs) /\ trial \in 0..Retrials + 1
  /\ verdict \in Verdicts
  /\ fetched \in 0..Limit
  /\ made \in Seq(Messages) /\ ready \in Seq(Messages)

LEMMA TypeIs ==
  /\ PipelineTypeOK <=> ScriptTypeOK /\ PipeShape
  /\ PipelineTypeOK' <=> ScriptTypeOK' /\ PipeShape'
  BY DEF PipelineTypeOK, PipeShape

\* A step that leaves the script, the fetched media and the messages alone.
LEMMA BesideMessages ==
  ASSUME PostHolds, UNCHANGED <<scriptVars, size, scripted, keyworded, inputs, fetched, trial, made, ready>>,
         stage' \in Stages \ {"script", "output"}, verdict' \in Verdicts, StageHolds'
  PROVE  PostHolds'
<1>1. ScriptTypeOK' /\ ScriptHolds'
  BY ScriptRests
<1>2. PipeShape'
  BY TypeIs DEF PostHolds, PipeShape, scriptVars
<1>3. FetchHolds'
  BY FetchRests DEF PostHolds, scriptVars
<1>. QED  BY <1>1, <1>2, <1>3, TypeIs DEF PostHolds

\* No step of the script alone reaches the stages after it.
LEMMA RunScriptHolds ==
  ASSUME PostHolds, RunScript PROVE PostHolds'
<1>1. UNCHANGED <<pipeVars, post>> /\ stage = "script" /\ ScriptNext /\ UNCHANGED scripted
  BY DEF RunScript, pipeVars, ScriptNext, BuildBase, Skip, PassVideo, DoNotAsk, BeginToAsk, Break,
         FailOpen, AttemptFails, Reply, NoReply
<1>2. ScriptTypeOK' /\ ScriptHolds'
  BY <1>1, ScriptStepHolds
<1>3. PipeShape'
  BY <1>1, TypeIs DEF PostHolds, PipeShape, pipeVars
<1>4. FetchHolds'
  <2>1. Len(inputs) = Len(Usable)
    BY <1>1 DEF PostHolds, FetchHolds
  <2>. QED  BY <1>1, <2>1, FetchRests DEF PostHolds, pipeVars
<1>5. StageHolds'
  BY <1>1 DEF PostHolds, StageHolds, OwnLinkBlocks, pipeVars
<1>. QED  BY <1>2, <1>3, <1>4, <1>5, TypeIs DEF PostHolds

LEMMA DownloadNextHolds ==
  ASSUME PostHolds, DownloadNext PROVE PostHolds'
<1>. DEFINE i == Usable[Len(inputs) + 1]
<1>0. /\ stage = "download" /\ Len(inputs) < Len(Usable)
      /\ UNCHANGED <<scriptVars, size, scripted, keyworded, trial, made, ready>>
      /\ \/ /\ Remaining > 0 /\ size[i] <= Remaining
            /\ inputs' = Append(inputs, i) /\ fetched' = fetched + size[i]
            /\ UNCHANGED <<stage, verdict>>
         \/ Conclude("blocked", "too_large") /\ UNCHANGED <<inputs, fetched>>
  BY DEF DownloadNext
<1>1. CASE Conclude("blocked", "too_large") /\ UNCHANGED <<inputs, fetched>>
  <2>1. stage' = "attempted" /\ StageHolds' /\ verdict' \in Verdicts
    BY <1>1, ConcludedHolds DEF Errors
  <2>. QED  BY <1>0, <1>1, <2>1, BesideMessages DEF Stages
<1>2. CASE /\ size[i] <= Remaining /\ inputs' = Append(inputs, i) /\ fetched' = fetched + size[i]
           /\ UNCHANGED <<stage, verdict>>
  <2>1. ScriptTypeOK' /\ ScriptHolds'
    BY <1>0, ScriptRests
  <2>2. PipeShape /\ FetchHolds /\ StageHolds /\ post \in Posts
    BY TypeIs DEF PostHolds, ScriptTypeOK
  <2>3. /\ Usable \in Seq(DOMAIN post.inputs) /\ UNCHANGED post /\ Limit \in Nat
        /\ inputs \in Seq(DOMAIN post.inputs) /\ size \in [DOMAIN post.inputs -> 1..Limit + 1]
    BY <1>0, <2>2, UsableAreMedia, PipelineAssumption DEF scriptVars, PipeShape
  <2>. DEFINE l == Len(inputs)
  <2>4. l \in Nat /\ Len(Usable) \in Nat /\ l + 1 \in 1..Len(Usable) /\ i \in DOMAIN post.inputs
    BY <1>0, <2>3
  <2>5. /\ inputs' \in Seq(DOMAIN post.inputs) /\ Len(inputs') = l + 1
        /\ \A k \in 1..(l + 1) : inputs'[k] = IF k = l + 1 THEN i ELSE inputs[k]
    <3>. HIDE DEF i
    <3>. QED  BY <1>2, <2>3, <2>4
  <2>6. Usable' = Usable
    BY <2>3 DEF Usable
  <2>7. PICK t \in [0..l -> 0..Limit] :
          /\ t[0] = 0 /\ t[l] = fetched
          /\ \A k \in 1..l : t[k] = t[k - 1] + size[inputs[k]]
    BY <2>2 DEF FetchHolds
  <2>. DEFINE u == [k \in 0..(l + 1) |-> IF k = l + 1 THEN fetched' ELSE t[k]]
  <2>8. fetched' \in 0..Limit /\ size[i] \in Nat /\ fetched \in 0..Limit
    <3>1. fetched \in 0..Limit /\ size[i] \in 1..Limit + 1
      BY <2>2, <2>3, <2>4 DEF PipeShape
    <3>2. fetched' = fetched + size[i] /\ size[i] <= Limit - fetched
      BY <1>2 DEF Remaining
    <3>. HIDE DEF i
    <3>. QED  BY <2>3, <3>1, <3>2
  <2>. HIDE DEF i, l
  <2>9. \A k \in 0..(l + 1) : k = l + 1 \/ (k \in 0..l /\ k # l + 1)
    BY <2>4
  <2>10. /\ u \in [0..(l + 1) -> 0..Limit] /\ u[0] = 0 /\ u[l + 1] = fetched'
    <3>1. 0 \in 0..(l + 1) /\ 0 # l + 1 /\ l + 1 \in 0..(l + 1)
      BY <2>4
    <3>. QED  BY <2>7, <2>8, <2>9, <3>1
  <2>11. ASSUME NEW k \in 1..(l + 1) PROVE u[k] = u[k - 1] + size'[inputs'[k]]
    <3>1. k - 1 \in 0..(l + 1) /\ k - 1 # l + 1 /\ k \in 0..(l + 1)
      BY <2>4
    <3>2. u[k - 1] = t[k - 1] /\ size' = size
      BY <1>0, <3>1
    <3>3. CASE k = l + 1
      <4>1. u[k] = fetched + size[i] /\ k - 1 = l /\ inputs'[k] = i
        BY <1>2, <2>4, <2>5, <3>1, <3>3
      <4>. QED  BY <2>7, <3>2, <4>1
    <3>4. CASE k # l + 1
      <4>1. k \in 1..l
        BY <2>4, <3>4
      <4>2. u[k] = t[k] /\ inputs'[k] = inputs[k]
        BY <2>5, <3>1, <3>4
      <4>. QED  BY <2>7, <3>2, <4>1, <4>2
    <3>. QED  BY <3>3, <3>4
  <2>. HIDE DEF u
  <2>12. Len(inputs') <= Len(Usable') /\ \A k \in 1..Len(inputs') : inputs'[k] = Usable'[k]
    <3>1. \A k \in 1..l : inputs[k] = Usable[k]
      BY <2>2 DEF FetchHolds, l
    <3>2. \A k \in 1..(l + 1) : k = l + 1 \/ k \in 1..l
      BY <2>4
    <3>3. \A k \in 1..(l + 1) : inputs'[k] = Usable[k]
      BY <2>5, <3>1, <3>2 DEF i, l
    <3>. QED  BY <2>4, <2>5, <2>6, <3>3
  <2>13. FetchHolds'
    <3>1. \E v \in [0..Len(inputs') -> 0..Limit] :
            /\ v[0] = 0 /\ v[Len(inputs')] = fetched'
            /\ \A k \in 1..Len(inputs') : v[k] = v[k - 1] + size'[inputs'[k]]
      BY <2>5, <2>10, <2>11
    <3>2. stage' = "download"
      BY <1>0, <1>2
    <3>. QED  BY <2>12, <3>1, <3>2 DEF FetchHolds
  <2>14. PipeShape'
    BY <1>0, <1>2, <2>2, <2>3, <2>5, <2>8 DEF PipeShape
  <2>15. StageHolds'
    BY <1>0, <1>2, <2>2 DEF StageHolds, OwnLinkBlocks
  <2>. QED  BY <2>1, <2>13, <2>14, <2>15, TypeIs DEF PostHolds
<1>. QED  BY <1>0, <1>1, <1>2

\* The attempt begins, and its storage.
LEMMA BeginningHolds ==
  ASSUME PostHolds, CheckDispatchPermission \/ PrepareStorage PROVE PostHolds'
<1>1. CASE CheckDispatchPermission
  <2>1. /\ trial' = trial + 1 /\ trial <= Retrials
        /\ UNCHANGED <<scriptVars, size, scripted, keyworded, inputs, fetched, made, ready>>
        /\ \/ stage' = "storage" /\ UNCHANGED verdict
           \/ Conclude("blocked", "permission_denied")
    BY <1>1 DEF CheckDispatchPermission
  <2>2. /\ stage' \in Stages \ {"script", "output"} /\ StageHolds' /\ verdict' \in Verdicts
    <3>1. CASE stage' = "storage" /\ UNCHANGED verdict
      BY <2>1, <3>1, TypeIs DEF PostHolds, PipeShape, StageHolds, OwnLinkBlocks, Stages
    <3>2. CASE Conclude("blocked", "permission_denied")
      BY <3>2, ConcludedHolds DEF Errors, Stages
    <3>. QED  BY <2>1, <3>1, <3>2
  <2>3. ScriptTypeOK' /\ ScriptHolds'
    BY <2>1, ScriptRests
  <2>4. trial' \in 0..Retrials + 1
    BY <2>1, TypeIs, PipelineAssumption DEF PostHolds, PipeShape
  <2>5. PipeShape'
    BY <2>1, <2>2, <2>4, TypeIs DEF PostHolds, PipeShape, scriptVars
  <2>6. FetchHolds'
    BY <2>1, <2>2, FetchRests DEF PostHolds, scriptVars
  <2>. QED  BY <2>2, <2>3, <2>5, <2>6, TypeIs DEF PostHolds
<1>2. CASE PrepareStorage
  <2>1. UNCHANGED <<scriptVars, size, scripted, keyworded, trial, made, ready>>
    BY <1>2 DEF PrepareStorage
  <2>2. CASE stage' = "download" /\ inputs' = <<>> /\ fetched' = 0 /\ UNCHANGED verdict
    <3>1. ScriptTypeOK' /\ ScriptHolds'
      BY <2>1, ScriptRests
    <3>2. FetchHolds' /\ inputs' \in Seq(DOMAIN post'.inputs) /\ fetched' \in 0..Limit
      BY <2>2, <3>1, NothingFetched DEF ScriptTypeOK
    <3>3. PipeShape'
      BY <2>1, <2>2, <3>2, TypeIs DEF PostHolds, PipeShape, scriptVars, Stages
    <3>4. StageHolds'
      BY <2>1, <2>2 DEF PostHolds, StageHolds, OwnLinkBlocks
    <3>. QED  BY <3>1, <3>2, <3>3, <3>4, TypeIs DEF PostHolds
  <2>3. CASE /\ \/ Conclude("failed", "storage_permission_denied")
                \/ Conclude("blocked", "source_media_unavailable")
                \/ Conclude("failed", "unexpected_error")
             /\ UNCHANGED <<inputs, fetched>>
    <3>1. stage' = "attempted" /\ StageHolds' /\ verdict' \in Verdicts
      BY <2>3, ConcludedHolds DEF Errors
    <3>. QED  BY <2>1, <2>3, <3>1, BesideMessages DEF Stages
  <2>. QED  BY <1>2, <2>2, <2>3 DEF PrepareStorage
<1>. QED  BY <1>1, <1>2

\* Steps that end the attempt, or the post, and change nothing else.
LEMMA EndingHolds ==
  ASSUME PostHolds, DownloadFails \/ ScriptFails \/ ScriptIsKilled \/ Dispatch PROVE PostHolds'
<1>1. UNCHANGED <<scriptVars, size, scripted, keyworded, inputs, fetched, trial, made, ready>>
  BY DEF DownloadFails, ScriptFails, ScriptIsKilled, Dispatch
<1>2. \E status \in {"ok", "failed", "blocked", "ambiguous"} :
        \E error \in Errors \ {"output_promo_blocked"} : Conclude(status, error)
  <2>1. CASE DownloadFails
    BY <2>1 DEF DownloadFails, Errors
  <2>2. CASE ScriptFails
    BY <2>2 DEF ScriptFails, Errors
  <2>3. CASE ScriptIsKilled
    BY <2>3 DEF ScriptIsKilled, Errors
  <2>4. CASE Dispatch
    BY <2>4 DEF Dispatch, Errors
  <2>. QED  BY <2>1, <2>2, <2>3, <2>4
<1>3. stage' = "attempted" /\ StageHolds' /\ verdict' \in Verdicts
  BY <1>2, ConcludedHolds
<1>. QED  BY <1>1, <1>3, BesideMessages DEF Stages

LEMMA SettleHolds ==
  ASSUME PostHolds, Settle PROVE PostHolds'
<1>1. UNCHANGED <<scriptVars, size, scripted, keyworded, inputs, fetched, trial, made, ready>>
      /\ stage' = "done"
  BY DEF Settle
<1>2. /\ verdict' \in {verdict, [verdict EXCEPT !.status = "blocked"],
                       [verdict EXCEPT !.error = "channel_script_retry_exhausted"]}
  BY DEF Settle, IsPermanentScriptError, IsRetryableScriptError
<1>3. verdict \in Verdicts /\ OwnLinkBlocks
  BY TypeIs DEF PostHolds, PipeShape, StageHolds
<1>4. verdict' \in Verdicts
  BY <1>2, <1>3 DEF Verdicts, Errors
<1>5. verdict'.error = "output_promo_blocked" => verdict.error = "output_promo_blocked"
  BY <1>2, <1>3 DEF Verdicts, Errors
<1>6. StageHolds'
  BY <1>1, <1>3, <1>5 DEF StageHolds, OwnLinkBlocks
<1>. QED  BY <1>1, <1>4, <1>6, BesideMessages DEF Stages

LEMMA RetryHolds ==
  ASSUME PostHolds, Retry PROVE PostHolds'
<1>1. /\ stage' = "start" /\ ready' = <<>> /\ made' = <<>> /\ inputs' = <<>> /\ fetched' = 0
      /\ verdict' = NoVerdict /\ UNCHANGED <<scriptVars, size, scripted, keyworded, trial>>
  BY DEF Retry
<1>2. ScriptTypeOK' /\ ScriptHolds'
  BY <1>1, ScriptRests
<1>3. FetchHolds' /\ inputs' \in Seq(DOMAIN post'.inputs) /\ fetched' \in 0..Limit
  BY <1>1, <1>2, NothingFetched DEF ScriptTypeOK
<1>4. <<>> \in Seq(Messages) /\ NoVerdict \in Verdicts /\ NoVerdict.error = "none"
  BY DEF NoVerdict, Verdicts, Errors
<1>5. PipeShape'
  BY <1>1, <1>3, <1>4, TypeIs DEF PostHolds, PipeShape, scriptVars, Stages
<1>6. StageHolds'
  BY <1>1, <1>4 DEF StageHolds, OwnLinkBlocks
<1>. QED  BY <1>2, <1>3, <1>5, <1>6, TypeIs DEF PostHolds

LEMMA GuardHolds ==
  ASSUME PostHolds, Guard PROVE PostHolds'
<1>1. stage = "download" /\ Len(inputs) = Len(Usable)
      /\ UNCHANGED <<post, conf, size, scripted, keyworded, inputs, fetched, trial, made, ready>>
  BY DEF Guard
<1>2. CASE /\ stage' = "script" /\ UNCHANGED verdict
           /\ phase' = "begin" /\ body' = NoText /\ images' = FALSE /\ attempt' = 0
           /\ left' = 0 /\ budget' = 3 /\ broke' = FALSE /\ out' = <<>> /\ base' = <<>>
  <2>1. <<>> \in Seq(Messages) /\ 0 \in 0..Retries
    BY ScriptAssumption
  <2>2. ScriptTypeOK'
    <3>1. post \in Posts /\ conf \in Configurations
      BY TypeIs DEF PostHolds, ScriptTypeOK
    <3>2. post' \in Posts /\ conf' \in Configurations /\ phase' \in Phases
      BY <1>1, <1>2, <3>1 DEF Phases
    <3>3. base' \in Seq(Messages) /\ out' \in Seq(Messages)
      BY <1>2, <2>1
    <3>4. body' \in Texts \cup {NoText}
      BY <1>2
    <3>5. images' \in BOOLEAN /\ broke' \in BOOLEAN
      BY <1>2
    <3>6. attempt' \in 0..Retries /\ left' \in 0..4 /\ budget' \in 0..3
      BY <1>2, <2>1
    <3>. QED  BY <3>2, <3>3, <3>4, <3>5, <3>6 DEF ScriptTypeOK
  <2>3. ScriptHolds'
    BY <1>2 DEF ScriptHolds
  <2>4. PipeShape'
    BY <1>1, <1>2, TypeIs DEF PostHolds, PipeShape, Stages
  <2>5. FetchHolds'
    BY <1>1, FetchRests DEF PostHolds
  <2>6. StageHolds'
    BY <1>1, <1>2 DEF PostHolds, StageHolds, OwnLinkBlocks
  <2>. QED  BY <2>2, <2>3, <2>4, <2>5, <2>6, TypeIs DEF PostHolds
<1>3. CASE UNCHANGED scriptVars
           /\ (Conclude("blocked", "guard_denied") \/ Conclude("failed", "guard_execution_error"))
  <2>1. stage' = "attempted" /\ StageHolds' /\ verdict' \in Verdicts
    BY <1>3, ConcludedHolds DEF Errors
  <2>. QED  BY <1>1, <1>3, <2>1, BesideMessages DEF Stages
<1>. QED  BY <1>2, <1>3 DEF Guard

LEMMA ScriptCompletesHolds ==
  ASSUME PostHolds, ScriptCompletes PROVE PostHolds'
<1>1. /\ stage = "script" /\ (scripted => phase = "printed")
      /\ made' = IF scripted THEN out ELSE PassthroughOf
      /\ IF made' = <<>> THEN Conclude("blocked", "channel_script_empty_output")
                         ELSE stage' = "output" /\ UNCHANGED verdict
      /\ UNCHANGED <<scriptVars, size, scripted, keyworded, inputs, fetched, trial, ready>>
  BY DEF ScriptCompletes
<1>2. ScriptTypeOK' /\ ScriptHolds'
  BY <1>1, ScriptRests
<1>3. ScriptTypeOK /\ PipeShape /\ ScriptHolds /\ FetchHolds /\ StageHolds
  BY TypeIs DEF PostHolds
<1>4. post \in Posts /\ inputs = Usable /\ Len(inputs) = Len(Usable)
  <2>1. post \in Posts
    BY <1>3 DEF ScriptTypeOK
  <2>2. Usable \in Seq(DOMAIN post.inputs) /\ inputs \in Seq(DOMAIN post.inputs)
    BY <1>3, <2>1, UsableAreMedia DEF PipeShape
  <2>3. Len(inputs) = Len(Usable) /\ \A i \in 1..Len(inputs) : inputs[i] = Usable[i]
    BY <1>1, <1>3 DEF FetchHolds
  <2>. QED  BY <2>1, <2>2, <2>3, SeqEqual
<1>5. made' \in Seq(Messages)
  BY <1>1, <1>3, <1>4, PassthroughOfIs DEF ScriptTypeOK
<1>6. made' # <<>> => Whole(made') /\ (scripted => ~AnyPromotional(made'))
  <2>1. CASE scripted
    BY <1>1, <1>3, <2>1 DEF ScriptHolds, Printable
  <2>2. CASE ~scripted
    BY <1>1, <1>4, <2>2, PassthroughOfIs DEF Whole
  <2>. QED  BY <2>1, <2>2
<1>7. UNCHANGED <<post, conf, scripted, broke>>
  BY <1>1 DEF scriptVars
<1>8. stage' \in {"attempted", "output"} /\ verdict' \in Verdicts /\ StageHolds'
  <2>1. CASE Conclude("blocked", "channel_script_empty_output")
    BY <2>1, ConcludedHolds DEF Errors
  <2>2. CASE made' # <<>> /\ stage' = "output" /\ UNCHANGED verdict
    <3>1. Whole(made)' /\ (scripted' => ~AnyPromotional(made'))
      BY <1>6, <1>7, <2>2, JudgedTheSame
    <3>. QED  BY <1>1, <1>3, <2>2, <3>1 DEF StageHolds, OwnLinkBlocks, PipeShape
  <2>. QED  BY <1>1, <2>1, <2>2
<1>9. PipeShape'
  BY <1>1, <1>3, <1>5, <1>7, <1>8 DEF PipeShape, Stages
<1>10. FetchHolds'
  BY <1>1, <1>3, <1>4, <1>7, FetchRests
<1>. QED  BY <1>2, <1>8, <1>9, <1>10, TypeIs DEF PostHolds

LEMMA FilterOutputHolds ==
  ASSUME PostHolds, FilterOutput PROVE PostHolds'
<1>1. /\ stage = "output" /\ ready' = FilterOversized(made)
      /\ \/ Conclude("blocked", "output_size_limit")
         \/ stage' = "link" /\ UNCHANGED verdict
      /\ UNCHANGED <<scriptVars, size, scripted, keyworded, inputs, fetched, trial, made>>
  BY DEF FilterOutput
<1>2. ScriptTypeOK' /\ ScriptHolds'
  BY <1>1, ScriptRests
<1>3. ScriptTypeOK /\ PipeShape /\ FetchHolds /\ StageHolds
  BY TypeIs DEF PostHolds
<1>4. Whole(made) /\ (scripted => ~AnyPromotional(made)) /\ made \in Seq(Messages)
  BY <1>1, <1>3 DEF StageHolds, PipeShape
<1>5. FilterOversized(made) = made
  <2>. DEFINE kinds == MediaOf(post.inputs)
              count == Len(inputs)
  <2>1. kinds \in Seq(MediaKinds) /\ Len(Usable) = Len(kinds)
    BY <1>3, UsableAreMedia DEF ScriptTypeOK
  <2>2. count = Len(kinds) /\ count \in Nat
    BY <1>1, <1>3, <2>1 DEF FetchHolds
  <2>3. PICK d \in {0, 1} :
          /\ Len(made) = d + Len(kinds)
          /\ \A i \in 1..d : made[i].kind = "text"
          /\ \A i \in 1..Len(kinds) : made[i + d].kind = kinds[i]
    BY <1>4 DEF Whole, Shaped
  <2>4. PICK t \in [0..count -> 0..Limit] :
          t[0] = 0 /\ \A k \in 1..count : t[k] = t[k - 1] + size[inputs[k]]
    BY <1>3 DEF FetchHolds
  <2>5. \A k \in 1..count : size[inputs[k]] \in Nat
    <3>1. /\ inputs \in Seq(DOMAIN post.inputs) /\ size \in [DOMAIN post.inputs -> 1..Limit + 1]
      BY <1>3 DEF PipeShape
    <3>2. \A k \in 1..count : inputs[k] \in DOMAIN post.inputs
      BY <3>1
    <3>. QED  BY <3>1, <3>2
  <2>. HIDE DEF kinds, count
  <2>6. \A i \in 1..count : made[i + d].kind # "text"
    <3>1. \A i \in 1..count : kinds[i] # "text"
      BY <2>1, <2>2 DEF MediaKinds, CaptionTypes
    <3>. QED  BY <2>2, <2>3, <3>1
  <2>7. Limit \in Nat
    BY PipelineAssumption
  <2>8. Len(made) = d + count
    BY <2>2, <2>3
  <2>. QED  BY <1>4, <2>2, <2>3, <2>4, <2>5, <2>6, <2>7, <2>8, FilterKeepsAll
<1>6. ready' = made
  BY <1>1, <1>5
<1>7. UNCHANGED <<post, conf, scripted, broke>>
  BY <1>1 DEF scriptVars
<1>8. stage' \in {"attempted", "link"} /\ verdict' \in Verdicts /\ StageHolds'
  <2>1. CASE Conclude("blocked", "output_size_limit")
    BY <2>1, ConcludedHolds DEF Errors
  <2>2. CASE stage' = "link" /\ UNCHANGED verdict
    <3>1. Whole(ready)' /\ (scripted' => ~AnyPromotional(ready'))
      BY <1>4, <1>6, <1>7, JudgedTheSame
    <3>. QED  BY <1>1, <1>3, <2>2, <3>1 DEF StageHolds, OwnLinkBlocks, PipeShape
  <2>. QED  BY <1>1, <2>1, <2>2
<1>9. PipeShape'
  BY <1>1, <1>3, <1>4, <1>6, <1>7, <1>8 DEF PipeShape, Stages
<1>10. FetchHolds'
  BY <1>1, <1>3, <1>7, <1>8, FetchRests
<1>. QED  BY <1>2, <1>8, <1>9, <1>10, TypeIs DEF PostHolds

\* Links change neither the media nor whose words they are.
LEMMA LinkedIs ==
  ASSUME NEW messages \in Seq(Messages), Whole(messages)
  PROVE  Linkify(messages) \in Seq(Messages) /\ Whole(Linkify(messages))
<1>. DEFINE M == Linkify(messages)
<1>1. DOMAIN messages = 1..Len(messages) /\ Len(messages) \in Nat
  OBVIOUS
<1>2. ASSUME NEW i \in 1..Len(messages)
      PROVE  /\ M[i] \in Messages /\ M[i].kind = messages[i].kind
             /\ M[i].text = NoText <=> messages[i].text = NoText
             /\ messages[i].text # NoText =>
                  M[i].text.by = messages[i].text.by /\ M[i].text.lang = messages[i].text.lang
  <2>1. messages[i] \in Messages
    BY <1>2
  <2>2. M[i] = IF messages[i].text = NoText THEN messages[i]
               ELSE [messages[i] EXCEPT !.text.ref = "url"]
    BY <1>1 DEF Linkify
  <2>. HIDE DEF M
  <2>3. CASE messages[i].text = NoText
    BY <2>1, <2>2, <2>3
  <2>4. CASE messages[i].text # NoText
    <3>. DEFINE m == messages[i]
                linked == [m.text EXCEPT !.ref = "url"]
    <3>1. m.text \in Texts /\ m.kind \in TextTypes \cup MediaKinds
      BY <2>1, <2>4 DEF Messages
    <3>2. M[i] = [m EXCEPT !.text = linked]
      BY <2>2, <2>4
    <3>3. linked \in Texts /\ linked.by = m.text.by /\ linked.lang = m.text.lang
      BY <3>1 DEF Texts, References
    <3>. HIDE DEF linked
    <3>4. M[i].kind = m.kind /\ M[i].text = linked /\ M[i] \in Messages
      BY <2>1, <3>2, <3>3 DEF Messages
    <3>. QED  BY <2>4, <3>3, <3>4, PostsAssumption
  <2>. QED  BY <2>3, <2>4
<1>3. M \in Seq(Messages) /\ Len(M) = Len(messages) /\ DOMAIN M = 1..Len(messages)
  <2>1. M = [i \in 1..Len(messages) |-> M[i]]
    BY <1>1 DEF Linkify
  <2>. HIDE DEF M
  <2>. QED  BY <1>1, <1>2, <2>1
<1>. HIDE DEF M
<1>4. HoldsWords(messages) => HoldsWords(M)
  BY <1>1, <1>2, <1>3 DEF HoldsWords
<1>5. OnlyModels(messages) => OnlyModels(M)
  BY <1>1, <1>2, <1>3 DEF OnlyModels
<1>6. Shaped(M, MediaOf(post.inputs))
  <2>. DEFINE kinds == MediaOf(post.inputs)
  <2>. HIDE DEF kinds
  <2>1. PICK d \in {0, 1} :
          /\ Len(messages) = d + Len(kinds)
          /\ \A i \in 1..d : messages[i].kind = "text"
          /\ \A i \in 1..Len(kinds) : messages[i + d].kind = kinds[i]
    BY DEF Whole, Shaped, kinds
  <2>3. /\ \A i \in 1..d : i \in 1..Len(messages)
        /\ \A i \in 1..Len(kinds) : i + d \in 1..Len(messages)
    BY <1>1, <2>1
  <2>4. Shaped(M, kinds)
    BY <1>2, <1>3, <2>1, <2>3 DEF Shaped
  <2>. QED  BY <2>4 DEF kinds
<1>. QED  BY <1>3, <1>4, <1>5, <1>6 DEF Whole, M

LEMMA LinkKeywordsHolds ==
  ASSUME PostHolds, LinkKeywords PROVE PostHolds'
<1>1. /\ stage = "link" /\ ready' = IF keyworded THEN Linkify(ready) ELSE ready
      /\ IF AnyPromotional(ready') THEN Conclude("blocked", "output_promo_blocked")
                                   ELSE stage' = "dispatch" /\ UNCHANGED verdict
      /\ UNCHANGED <<scriptVars, size, scripted, keyworded, inputs, fetched, trial, made>>
  BY DEF LinkKeywords, IsObviousPromotionalOutput
<1>2. ScriptTypeOK' /\ ScriptHolds'
  BY <1>1, ScriptRests
<1>3. PipeShape /\ FetchHolds /\ StageHolds
  BY TypeIs DEF PostHolds
<1>4. Whole(ready) /\ (scripted => ~AnyPromotional(ready)) /\ ready \in Seq(Messages)
  BY <1>1, <1>3 DEF StageHolds, PipeShape
<1>5. ready' \in Seq(Messages) /\ Whole(ready')
  <2>1. Linkify(ready) \in Seq(Messages) /\ Whole(Linkify(ready))
    BY <1>4, LinkedIs
  <2>. QED  BY <1>1, <1>4, <2>1
<1>6. UNCHANGED <<post, conf, scripted, broke>>
  BY <1>1 DEF scriptVars
<1>7. Whole(ready)'
  BY <1>5, <1>6, JudgedTheSame
<1>8. stage' \in {"attempted", "dispatch"} /\ verdict' \in Verdicts /\ StageHolds'
  <2>1. CASE AnyPromotional(ready')
    <3>1. stage' = "attempted" /\ verdict' = [status |-> "blocked", error |-> "output_promo_blocked"]
      BY <1>1, <2>1 DEF Conclude
    <3>2. verdict' \in Verdicts
      BY <3>1 DEF Verdicts, Errors
    <3>3. scripted => keyworded
      BY <1>1, <1>4, <2>1
    <3>. QED  BY <1>1, <3>1, <3>2, <3>3 DEF StageHolds, OwnLinkBlocks
  <2>2. CASE ~AnyPromotional(ready')
    BY <1>1, <1>3, <1>7, <2>2 DEF StageHolds, OwnLinkBlocks, PipeShape
  <2>. QED  BY <2>1, <2>2
<1>9. PipeShape'
  BY <1>1, <1>3, <1>5, <1>6, <1>8 DEF PipeShape, Stages
<1>10. FetchHolds'
  BY <1>1, <1>3, <1>6, <1>8, FetchRests
<1>. QED  BY <1>2, <1>8, <1>9, <1>10, TypeIs DEF PostHolds

LEMMA PostBegins ==
  ASSUME PipelineInit PROVE PostHolds
<1>1. /\ post \in Posts /\ conf \in Configurations /\ phase = "begin" /\ base = <<>>
      /\ body = NoText /\ images = FALSE /\ attempt = 0 /\ left = 0 /\ budget = 3
      /\ broke = FALSE /\ out = <<>>
  BY DEF PipelineInit, ScriptInit
<1>2. /\ stage = "start" /\ inputs = <<>> /\ fetched = 0 /\ trial = 0 /\ verdict = NoVerdict
      /\ scripted \in BOOLEAN /\ keyworded \in BOOLEAN /\ made = <<>> /\ ready = <<>>
      /\ size \in [DOMAIN post.inputs -> 1..Limit + 1]
  BY DEF PipelineInit
<1>3. Limit \in Nat /\ Retrials \in Nat /\ 0 \in 0..Retries
  BY PipelineAssumption, ScriptAssumption
<1>4. <<>> \in Seq(Messages) /\ <<>> \in Seq(DOMAIN post.inputs)
  OBVIOUS
<1>5. ScriptTypeOK
  <2>1. phase \in Phases /\ base \in Seq(Messages) /\ out \in Seq(Messages)
    BY <1>1, <1>4 DEF Phases
  <2>2. images \in BOOLEAN /\ broke \in BOOLEAN
    BY <1>1
  <2>3. attempt \in 0..Retries /\ left \in 0..4 /\ budget \in 0..3
    BY <1>1, <1>3
  <2>4. body \in Texts \cup {NoText}
    BY <1>1
  <2>. QED  BY <1>1, <2>1, <2>2, <2>3, <2>4 DEF ScriptTypeOK
<1>6. PipeShape
  <2>1. verdict \in Verdicts
    BY <1>2 DEF NoVerdict, Verdicts, Errors
  <2>2. fetched \in 0..Limit /\ trial \in 0..Retrials + 1
    BY <1>2, <1>3
  <2>3. inputs \in Seq(DOMAIN post.inputs) /\ made \in Seq(Messages) /\ ready \in Seq(Messages)
    BY <1>2, <1>4
  <2>. QED  BY <1>2, <2>1, <2>2, <2>3 DEF PipeShape, Stages
<1>7. ScriptHolds
  BY <1>1 DEF ScriptHolds
<1>8. FetchHolds
  <2>. DEFINE t == [k \in 0..0 |-> 0]
  <2>1. Usable \in Seq(DOMAIN post.inputs)
    BY <1>1, UsableAreMedia
  <2>2. Len(Usable) \in Nat /\ Len(inputs) = 0 /\ 1..0 = {}
    BY <1>2, <2>1
  <2>3. /\ t \in [0..Len(inputs) -> 0..Limit] /\ t[0] = 0 /\ t[Len(inputs)] = fetched
        /\ \A k \in 1..Len(inputs) : t[k] = t[k - 1] + size[inputs[k]]
    BY <1>2, <1>3, <2>2
  <2>. HIDE DEF t
  <2>. QED  BY <1>2, <2>2, <2>3 DEF FetchHolds
<1>9. StageHolds
  BY <1>2 DEF StageHolds, OwnLinkBlocks, NoVerdict
<1>. QED  BY <1>5, <1>6, <1>7, <1>8, <1>9, TypeIs DEF PostHolds

LEMMA PostGoesOn ==
  ASSUME PostHolds, [PipelineNext]_pipelineVars PROVE PostHolds'
<1>1. CASE CheckDispatchPermission \/ PrepareStorage
  BY <1>1, BeginningHolds
<1>2. CASE DownloadNext
  BY <1>2, DownloadNextHolds
<1>3. CASE Guard
  BY <1>3, GuardHolds
<1>4. CASE RunScript
  BY <1>4, RunScriptHolds
<1>5. CASE ScriptCompletes
  BY <1>5, ScriptCompletesHolds
<1>6. CASE FilterOutput
  BY <1>6, FilterOutputHolds
<1>7. CASE LinkKeywords
  BY <1>7, LinkKeywordsHolds
<1>8. CASE DownloadFails \/ ScriptFails \/ ScriptIsKilled \/ Dispatch
  BY <1>8, EndingHolds
<1>9. CASE Retry
  BY <1>9, RetryHolds
<1>10. CASE Settle
  BY <1>10, SettleHolds
<1>11. CASE UNCHANGED pipelineVars
  <2>1. UNCHANGED <<scriptVars, pipeVars>> /\ UNCHANGED <<post, conf, scripted, broke>>
    BY <1>11 DEF pipelineVars, scriptVars, pipeVars
  <2>2. ScriptTypeOK' /\ ScriptHolds'
    BY <2>1, ScriptRests
  <2>3. PipeShape'
    BY <2>1, TypeIs DEF PostHolds, PipeShape, pipeVars
  <2>4. FetchHolds'
    <3>1. FetchHolds /\ UNCHANGED <<size, inputs, fetched, stage>>
      BY <2>1 DEF PostHolds, pipeVars
    <3>. QED  BY <2>1, <3>1, FetchRests DEF FetchHolds
  <2>5. StageHolds'
    <3>1. StageHolds /\ UNCHANGED <<stage, made, ready, verdict, keyworded, scripted>>
      BY <2>1 DEF PostHolds, pipeVars
    <3>2. /\ Whole(made') => Whole(made)'
          /\ Whole(ready') => Whole(ready)'
      BY <2>1, JudgedTheSame
    <3>. QED  BY <3>1, <3>2 DEF StageHolds, OwnLinkBlocks
  <2>. QED  BY <2>2, <2>3, <2>4, <2>5, TypeIs DEF PostHolds
<1>. QED  BY <1>1, <1>2, <1>3, <1>4, <1>5, <1>6, <1>7, <1>8, <1>9, <1>10, <1>11 DEF PipelineNext

LEMMA HeldPostIsWhole == PostHolds => PostTravelsWhole
<1>. SUFFICES ASSUME PostHolds PROVE PostTravelsWhole
  OBVIOUS
<1>1. PipelineTypeOK /\ StageHolds /\ post \in Posts /\ ready \in Seq(Messages)
  BY DEF PostHolds, PipelineTypeOK, ScriptTypeOK
<1>2. stage = "dispatch" => Whole(ready)
  BY <1>1 DEF StageHolds
<1>3. MediaTravelWhole
  <2>1. MediaOf(post.inputs) \in Seq(MediaKinds)
    <3>1. post.inputs \in Seq(MediaKinds \cup {"sticker"})
      BY <1>1, PostIs
    <3>. QED  BY <3>1, MediaAreKinds
  <2>2. Shaped(ready, MediaOf(post.inputs)) => KindsOf(MediaIn(ready)) = MediaOf(post.inputs)
    BY <1>1, <2>1, ShapedTravels
  <2>. QED  BY <1>2, <2>2 DEF Whole, MediaTravelWhole
<1>4. WordsTravel
  BY <1>2 DEF Whole, WordsTravel, HoldsWords
<1>5. NothingRawWhenMandatory
  BY <1>2 DEF Whole, NothingRawWhenMandatory, OnlyModels
<1>. QED  BY <1>1, <1>3, <1>4, <1>5 DEF PostTravelsWhole, StageHolds

\* What goes to the dispatcher carries the source's media, stickers aside, in their
\* order, words when the post had words, and no word but the model's where AI is
\* mandatory; and a script's messages are called promotional only for the relay's own
\* link: _process_route_message_detailed (src/kiwi/service.py), for every post of a media
\* list of any length, every size and limit, every answer of the model, and whatever
\* attempts are repeated.
THEOREM PostAlwaysTravelsWhole == PipelineSpec => []PostTravelsWhole
<1>1. PipelineInit => PostHolds
  BY PostBegins
<1>2. PostHolds /\ [PipelineNext]_pipelineVars => PostHolds'
  BY PostGoesOn
<1>3. PostHolds => PostTravelsWhole
  BY HeldPostIsWhole
<1>. QED  BY <1>1, <1>2, <1>3, PTL DEF PipelineSpec
================================================================================
