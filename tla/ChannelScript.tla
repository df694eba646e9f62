------------------------------ MODULE ChannelScript ------------------------------
(***************************************************************************)
(* One run of a channel script on one post: scripts/channel_scripts/film.py*)
(* (film_informal.py, football.py and football_informal.py share its       *)
(* control), a process of its own. It asks the model for a text, and again *)
(* when the answer is low in quality, not Persian or of the wrong length,  *)
(* within a time budget, and puts the text on the post's messages.         *)
(*                                                                         *)
(* The budget is kept in the steps the code compares it with: 3 is more    *)
(* than 6 s left, 2 more than 4 s, 1 more than 2 s, 0 no time to ask.      *)
(***************************************************************************)
EXTENDS PostText

CONSTANTS
  Posts,     \* the posts given to a run: [inputs |-> kinds, text |-> text or NoText]
  Answers,   \* the texts the model may answer with
  Retries    \* CHANNEL_SCRIPT_AI_RETRY_COUNT, as _ai_retry_count bounds it

ASSUME ScriptAssumption == Retries \in 0..3

(* Telegram gives words to every kind of medium but video notes and stickers; what
   the model answers is a text of its own. *)
ASSUME PostsAssumption ==
  /\ \A p \in Posts :
       /\ p.inputs \in Seq(MediaKinds \cup {"sticker"}) /\ p.text \in Texts \cup {NoText}
       /\ p.text # NoText /\ MediaOf(p.inputs) # <<>>
            => \E i \in DOMAIN p.inputs : p.inputs[i] \in CaptionTypes
  /\ Answers \subseteq Texts /\ \A answer \in Answers : answer.by = "ai"
  /\ Signature \in References /\ NoText \notin Texts

VARIABLES
  post,     \* the payload
  conf,     \* the script's environment
  phase,    \* where the run is
  base,     \* the messages before rewriting
  body,     \* the generated text so far ("" is NoText)
  images,   \* the images still go with the prompt
  attempt,  \* attempts of the request under way that failed
  left,     \* rewrites left in the strict or the adjust loop
  budget,   \* the time left
  broke,    \* the run met an error of another kind than the two it names
  out       \* the messages printed

scriptVars == <<post, conf, phase, base, body, images, attempt, left, budget, broke, out>>

Configurations ==
  [enabled : BOOLEAN, mandatory : BOOLEAN, failOpen : BOOLEAN,
   endpoint : BOOLEAN, cleaner : BOOLEAN]

Asking == {"first", "refine", "strict", "adjust"}
Phases == {"begin", "look", "broken", "printed", "owed", "rejected"} \cup Asking

ScriptTypeOK ==
  /\ post \in Posts /\ conf \in Configurations /\ phase \in Phases
  /\ base \in Seq(Messages) /\ out \in Seq(Messages)
  /\ body \in Texts \cup {NoText} /\ images \in BOOLEAN /\ broke \in BOOLEAN
  /\ attempt \in 0..Retries /\ left \in 0..4 /\ budget \in 0..3

AiMandatoryMode == conf.mandatory /\ conf.enabled

AiFailOpen == ~AiMandatoryMode /\ conf.failOpen

HasTextualSource == post.text # NoText

HasVideoInput == \E i \in DOMAIN post.inputs : post.inputs[i] \in {"video", "video_note"}

HasMeaningfulSource ==
  HasTextualSource \/ \E i \in DOMAIN post.inputs : post.inputs[i] # "sticker"

HasImages == \E i \in DOMAIN post.inputs : post.inputs[i] = "photo"

ScriptInit ==
  /\ post \in Posts
  /\ conf \in Configurations
  /\ phase = "begin" /\ base = <<>> /\ body = NoText /\ images = FALSE /\ attempt = 0
  /\ left = 0 /\ budget = 3 /\ broke = FALSE /\ out = <<>>

PrintMessages(messages) == phase' = "printed" /\ out' = messages

(* The captions are not looked at. *)
DropsTextsOnly(messages) ==
  \E i \in DOMAIN messages : messages[i].kind = "text" /\ IsPromotional(messages[i].text)

(* The script prints no message at all when one of them is promotional. *)
IsDropped(messages) == AnyPromotional(messages)

(* The payload is read and its base messages are built. *)
BuildBase ==
  /\ phase = "begin"
  /\ base' \in BaseMessages(post.inputs, post.text, conf.cleaner)
  /\ phase' = "look"
  /\ UNCHANGED <<post, conf, body, images, attempt, left, budget, broke, out>>

(* A promotional source, or an update with nothing in it, gives no message. *)
Skip ==
  /\ phase = "look"
  /\ IsPromotional(post.text) \/ ~HasMeaningfulSource
  /\ PrintMessages(<<>>)
  /\ UNCHANGED <<post, conf, base, body, images, attempt, left, budget, broke>>

Rewritable == phase = "look" /\ ~IsPromotional(post.text) /\ HasMeaningfulSource

(* A video without words passes as it is. *)
PassVideo ==
  /\ Rewritable /\ HasVideoInput /\ ~HasTextualSource
  /\ PrintMessages(IF IsDropped(base) THEN <<>> ELSE base)
  /\ UNCHANGED <<post, conf, base, body, images, attempt, left, budget, broke>>

(* The script ends on one of its two named errors: "owed" is
   ai_generation_required_failed, "rejected" ai_output_not_acceptable. *)
Fail(error) == phase' = error /\ UNCHANGED out

NotPersian(messages) ==
  \E i \in DOMAIN messages :
     /\ messages[i].kind \in TextTypes \cup CaptionTypes
     /\ messages[i].text # NoText /\ ~IsPersianAcceptable(messages[i].text)

(* The messages a run makes of its generated text: absent means the model was
   not asked or may be done without, NoText that it gave nothing to use. *)
Composed(text, absent) ==
  LET rewritten == IF absent \/ text = NoText THEN base ELSE ApplyGeneratedText(base, text)
  IN IF HasMediaWithoutCaption(rewritten) /\ ~AiMandatoryMode /\ HasTextualSource
        /\ post.inputs # <<>>
     THEN WithFallbackCaption(rewritten, post.text) ELSE rewritten

(* Only a model that was not asked leaves the text owing. *)
OwesTextUnasked(text, absent) == absent

(* The post needs a text of the model and has none: it has words, or nothing
   but words would leave. *)
OwesText(text, absent) ==
  /\ absent \/ text = NoText
  /\ HasTextualSource \/ ~\E i \in DOMAIN base : IsMedia(base[i])

(* build_messages once the text is generated: with mandatory AI a post with
   words needs one; a promotional result is dropped; text that is not Persian
   fails the run. *)
Compose(text, absent) ==
  LET messages == Composed(text, absent)
  IN IF AiMandatoryMode /\ OwesText(text, absent) THEN Fail("owed")
     ELSE IF IsDropped(messages) THEN PrintMessages(<<>>)
     ELSE IF AiMandatoryMode /\ NotPersian(messages) THEN Fail("rejected")
     ELSE PrintMessages(messages)

(* The model is not asked: no AI, no endpoint, or nothing to show it, the
   images being too large to go along. *)
DoNotAsk ==
  /\ Rewritable /\ (HasVideoInput => HasTextualSource)
  /\ ~conf.enabled \/ ~conf.endpoint \/ ~HasTextualSource
  /\ Compose(NoText, TRUE)
  /\ UNCHANGED <<post, conf, base, body, images, attempt, left, budget, broke>>

BeginToAsk ==
  /\ Rewritable /\ (HasVideoInput => HasTextualSource)
  /\ conf.enabled /\ conf.endpoint
  /\ images' \in {HasImages, FALSE} /\ (HasTextualSource \/ images')
  /\ phase' = "first"
  /\ UNCHANGED <<post, conf, base, body, attempt, left, budget, broke, out>>

(* Reading an image can fail with an error the script does not name. *)
Break ==
  /\ Rewritable /\ conf.enabled /\ conf.endpoint /\ HasImages
  /\ HasVideoInput => HasTextualSource
  /\ phase' = "broken" /\ broke' = TRUE
  /\ UNCHANGED <<post, conf, base, body, images, attempt, left, budget, out>>

(* The base is built again and what is safe of it is printed. *)
FailOpen ==
  /\ phase = "broken"
  /\ \E again \in BaseMessages(post.inputs, post.text, conf.cleaner) :
       PrintMessages(SafeFailOpenMessages(again))
  /\ UNCHANGED <<post, conf, base, body, images, attempt, left, budget, broke>>

(* The final text: one that is not Persian counts as none. *)
Finish(text) ==
  /\ Compose(IF IsPersianAcceptable(text) THEN text ELSE NoText, FALSE)
  /\ UNCHANGED left

AnyLength(text) == text # NoText

WrongLength(text) == text # NoText /\ ~IsLengthAcceptable(text)

(* A text of the wrong length is rewritten, twice at most. *)
AfterStrict(text, time) ==
  IF WrongLength(text) /\ time >= 2
  THEN phase' = "adjust" /\ left' = 2 /\ UNCHANGED out
  ELSE Finish(text)

(* A text that is not Persian is asked for again, twice from the text at hand
   and twice from the source's. *)
AfterRefine(text, time) ==
  IF ~IsPersianAcceptable(text) /\ time >= 2
  THEN /\ phase' = "strict"
       /\ left' = IF text # NoText /\ HasTextualSource THEN 4 ELSE 2
       /\ UNCHANGED out
  ELSE AfterStrict(text, time)

AfterFirst(text, time) ==
  IF (LooksLowQuality(text) \/ ~IsLengthAcceptable(text)) /\ time = 3
  THEN phase' = "refine" /\ UNCHANGED <<left, out>>
  ELSE AfterRefine(text, time)

RetriesAgain == attempt < Retries

(* A request in the air: an attempt that fails is repeated while there are
   retries and time. *)
AttemptFails ==
  /\ phase \in Asking /\ RetriesAgain /\ budget >= 1
  /\ attempt' = attempt + 1
  /\ budget' \in 0..budget
  /\ UNCHANGED <<post, conf, phase, base, body, images, left, broke, out>>

(* What the post-processing may leave of an answer: itself, or nothing. *)
Candidates(answer) == {answer, NoText}

Better(candidate) == IF candidate = NoText THEN body ELSE candidate

(* The model answered. *)
Reply ==
  /\ phase \in Asking /\ (budget >= 1 \/ attempt > 0)
  /\ attempt' = 0 /\ budget' \in 0..budget
  /\ \E answer \in Answers : \E candidate \in Candidates(answer) :
       \/ /\ phase = "first"
          /\ body' = candidate /\ AfterFirst(candidate, budget')
       \/ /\ phase = "refine"
          /\ body' = Better(candidate) /\ AfterRefine(body', budget')
       \/ /\ phase = "strict"
          /\ body' = Better(candidate)
          /\ IF ~IsPersianAcceptable(body') /\ budget' >= 2 /\ left > 1
             THEN left' = left - 1 /\ UNCHANGED <<phase, out>>
             ELSE AfterStrict(body', budget')
       \/ /\ phase = "adjust"
          /\ body' = Better(candidate)
          /\ IF ~IsLengthAcceptable(body') /\ budget' >= 2 /\ left > 1
             THEN left' = left - 1 /\ UNCHANGED <<phase, out>>
             ELSE Finish(body')
  /\ UNCHANGED <<post, conf, base, images, broke>>

(* The request gave nothing: the attempts are used up, the time is, or there
   was none to begin with. A first request with images is repeated without
   them. *)
NoReply ==
  /\ phase \in Asking
  /\ attempt' = 0 /\ budget' \in 0..budget
  /\ \/ /\ phase = "first" /\ images /\ HasTextualSource
        /\ images' = FALSE
        /\ UNCHANGED <<phase, left, out>>
     \/ /\ phase = "first" /\ ~(images /\ HasTextualSource)
        /\ Compose(NoText, AiFailOpen)
        /\ UNCHANGED <<left, images>>
     \/ phase = "refine" /\ AfterRefine(body, budget') /\ UNCHANGED images
     \/ /\ phase = "strict" /\ UNCHANGED images
        /\ IF budget' >= 2 /\ left > 1
           THEN left' = left - 1 /\ UNCHANGED <<phase, out>>
           ELSE AfterStrict(body, budget')
     \/ phase = "adjust" /\ Finish(body) /\ UNCHANGED images
  /\ UNCHANGED <<post, conf, base, body, broke>>

ScriptNext ==
  \/ BuildBase \/ Skip \/ PassVideo \/ DoNotAsk \/ BeginToAsk \/ Break \/ FailOpen
  \/ AttemptFails \/ Reply \/ NoReply

ScriptFairness == WF_scriptVars(ScriptNext)

ScriptSpec == ScriptInit /\ [][ScriptNext]_scriptVars /\ ScriptFairness

================================================================================
