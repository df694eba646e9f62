-------------------------------- MODULE PostText --------------------------------
(***************************************************************************)
(* What the channel scripts tell apart in the words of a post, and the     *)
(* messages they make of a post before any rewriting:                      *)
(* scripts/channel_scripts/default_channel_script.py and the helpers of    *)
(* scripts/channel_scripts/film.py.                                        *)
(*                                                                         *)
(* A text is abstracted to who wrote it, its language, how many            *)
(* promotional terms it holds, whether it holds a URL or an @handle,       *)
(* whether its length is near the source's, and whether it is rough as it  *)
(* stands. The language and the length are judged without URLs, handles,   *)
(* hashtags and the destination's line, the roughness with them, so none   *)
(* says anything of the others. A text of no language is a bare signature. *)
(* Three calls to action beside a link or a handle count as three          *)
(* promotional terms. A post has the kinds of its media, in order, and its *)
(* text or caption.                                                        *)
(***************************************************************************)
EXTENDS Naturals, Sequences

CONSTANTS
  Signature, \* what the destination's name counts as in a text: "handle" or "none"
  NoText     \* no text

Languages == {"persian", "mixed", "foreign", "none"}
References == {"none", "handle", "url"}

Texts == [by : {"source", "ai"}, lang : Languages, terms : {0, 2, 3},
          ref : References, fits : BOOLEAN, rough : BOOLEAN]

TextTypes == {"text"}
CaptionTypes == {"photo", "video", "voice", "audio", "document", "animation"}
MediaKinds == CaptionTypes \cup {"video_note"}

(* Two promotional terms and a link or a handle, or three terms. *)
IsPromotional(t) ==
  t # NoText /\ (t.terms >= 3 \/ (t.terms >= 2 /\ t.ref # "none"))

(* At most a fifth of the words are Latin; links, mentions and the
   destination's own line do not count. *)
IsPersianAcceptable(t) == t # NoText /\ t.lang = "persian"

(* The text as it stands has less than 18 characters, no Persian letter, words
   of the prompt, or more than 35% Latin words, those of a URL among them. *)
LooksLowQuality(t) == t = NoText \/ t.rough

IsLengthAcceptable(t) == t # NoText /\ t.fits

SignatureText ==
  [by |-> "source", lang |-> "none", terms |-> 0, ref |-> Signature, fits |-> FALSE,
   rough |-> TRUE]

(* What the clean-up of a text with a URL may leave: the URL goes, words of
   the reference go with it, the AI may leave nothing, and the destination
   signs what is left. *)
CleanedForms(t) ==
  {SignatureText} \cup
  {[t EXCEPT !.ref = Signature, !.terms = n] : n \in {n \in {0, 2, 3} : n <= t.terms}}

(* A text without a reference passes as it is. When the destination has no
   name to sign with, a text that was all reference is gone. *)
SanitizedForms(t) ==
  IF t = NoText \/ t.ref # "url" THEN {t} ELSE CleanedForms(t)

Message(kind, text) == [kind |-> kind, text |-> text]
Messages == [kind : TextTypes \cup MediaKinds, text : Texts \cup {NoText}]

IsMedia(m) == m.kind \in MediaKinds

(* The members of s at the places in `at`, in their order. *)
Chosen(s, at) ==
  LET chosen[n \in 0..Len(s)] ==
        IF n = 0 THEN <<>>
        ELSE IF n \in at THEN Append(chosen[n - 1], s[n]) ELSE chosen[n - 1]
  IN chosen[Len(s)]

(* The media of a post that are passed on, and of its messages. *)
MediaOf(inputs) == Chosen(inputs, {i \in DOMAIN inputs : inputs[i] \in MediaKinds})
MediaIn(messages) == Chosen(messages, {i \in DOMAIN messages : IsMedia(messages[i])})

(* One message per usable medium, the first that can carry a caption with
   the post's words; the words alone when there is no medium. Stickers are
   dropped. *)
PassthroughMessages(inputs, text) ==
  LET kinds == MediaOf(inputs)
      carriers == {i \in DOMAIN kinds : kinds[i] \in CaptionTypes}
      first(i) == i \in carriers /\ \A j \in carriers : i <= j
  IN IF kinds # <<>>
     THEN [i \in DOMAIN kinds |-> Message(kinds[i], IF first(i) THEN text ELSE NoText)]
     ELSE IF text # NoText THEN <<Message("text", text)>> ELSE <<>>

(* The base a channel script starts from: sanitised words, or the words as
   they are when the default script cannot be used. *)
BaseMessages(inputs, text, cleaner) ==
  {PassthroughMessages(inputs, t) : t \in IF cleaner THEN SanitizedForms(text) ELSE {text}}

AnyPromotional(messages) == \E i \in DOMAIN messages : IsPromotional(messages[i].text)

HasMediaWithoutCaption(messages) ==
  \E i \in DOMAIN messages : IsMedia(messages[i]) /\ messages[i].text = NoText

(* An answer that replaces the words of text messages only. *)
ApplyToTextOnly(messages, text) ==
  [i \in DOMAIN messages |->
     IF messages[i].kind = "text" THEN [messages[i] EXCEPT !.text = text]
     ELSE [messages[i] EXCEPT !.text = NoText]]

(* The generated text takes the place of every text message and becomes the
   caption of the first medium that can carry one, or stands before the rest. *)
ApplyGeneratedText(messages, text) ==
  LET media == MediaIn(messages)
      carriers == {i \in DOMAIN media : media[i].kind \in CaptionTypes}
  IN IF carriers = {} THEN <<Message("text", text)>> \o media
     ELSE LET first == CHOOSE i \in carriers : \A j \in carriers : i <= j
          IN [media EXCEPT ![first].text = text]

(* The source's caption on the first medium still without one. *)
WithFallbackCaption(messages, text) ==
  LET bare == {i \in DOMAIN messages :
                 messages[i].kind \in CaptionTypes /\ messages[i].text = NoText}
  IN IF bare = {} THEN messages
     ELSE LET first == CHOOSE i \in bare : \A j \in bare : i <= j
          IN [messages EXCEPT ![first].text = text]

(* What may leave when a script breaks: text messages that are Persian and
   not promotional; media always, their caption on the same terms. *)
SafeFailOpenMessages(messages) ==
  LET safe(t) == ~IsPromotional(t) /\ IsPersianAcceptable(t)
      kept == Chosen(messages, {i \in DOMAIN messages : IsMedia(messages[i]) \/ safe(messages[i].text)})
  IN [i \in DOMAIN kept |->
        IF kept[i].text # NoText /\ ~safe(kept[i].text)
        THEN [kept[i] EXCEPT !.text = NoText] ELSE kept[i]]

KindsOf(messages) == [i \in DOMAIN messages |-> messages[i].kind]
================================================================================
