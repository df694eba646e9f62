------------------------------- MODULE MCContent -------------------------------
(***************************************************************************)
(* Small instances of what decides on the words of a post: its way through *)
(* its script and the output stages, the guard's run on it, the table of   *)
(* keyword links and the choice of the matches to link. The four share no  *)
(* state; a behaviour is of one part, and the others rest where they end.  *)
(***************************************************************************)
EXTENDS PostPipeline, KeywordLinks, GuardRules, TLC

VARIABLE part  \* the part that runs

Text(lang, terms, ref) ==
  [by |-> "source", lang |-> lang, terms |-> terms, ref |-> ref, fits |-> TRUE,
   rough |-> FALSE]
Answer(lang, terms, ref, fits, rough) ==
  [by |-> "ai", lang |-> lang, terms |-> terms, ref |-> ref, fits |-> fits,
   rough |-> rough]
Post(kinds, text) == [inputs |-> kinds, text |-> text]

(* Words alone; albums with and without words; a video and a sticker without;
   words with a URL, with promotional terms, in another language. *)
MCPosts ==
  {Post(<<>>, Text("foreign", 0, "url")),
   Post(<<>>, Text("persian", 2, "url")),
   Post(<<"photo", "video">>, Text("persian", 2, "none")),
   Post(<<"photo", "photo">>, NoText),
   Post(<<"sticker", "video">>, NoText),
   Post(<<"sticker">>, NoText)}

(* A good answer; a promotional one of the wrong length; one that is all right
   but for the Latin words of its URL; one in another language. *)
MCAnswers ==
  {Answer("persian", 0, "none", TRUE, FALSE), Answer("persian", 2, "handle", FALSE, FALSE),
   Answer("persian", 0, "url", TRUE, TRUE), Answer("foreign", 0, "none", TRUE, TRUE)}

(* Two destinations that share a keyword, two links and two priorities. *)
Row(dest, keyword, link, priority) ==
  [dest |-> dest, word |-> keyword, link |-> link, priority |-> priority]
MCRows ==
  {Row("d1", "k1", "l1", 0), Row("d1", "k1", "l1", 1), Row("d1", "k1", "l2", 1),
   Row("d2", "k1", "l2", 0)}

Plain ==
  [words |-> "text", topic |-> "prompt", strong |-> 0, signal |-> 0, cta |-> 0, late |-> 0,
   link |-> FALSE, handle |-> FALSE, digit |-> FALSE, game |-> "none", trade |-> "none",
   code |-> FALSE, vpn |-> "none", bundle |-> FALSE,
   image |-> TRUE, other |-> FALSE, invite |-> FALSE, audio |-> "none"]

(* The terms in every small number and company, and what else a rule asks. *)
Advertising ==
  {[Plain EXCEPT !.strong = s, !.signal = g, !.cta = c, !.late = l, !.link = r[1], !.handle = r[2]] :
     s \in {0, 1}, g \in 0..2, c \in 0..2, l \in {0, 2},
     r \in {<<FALSE, FALSE>>, <<TRUE, FALSE>>, <<FALSE, TRUE>>}}
MCGuarded ==
  Advertising \cup
  {[Plain EXCEPT !.words = w, !.topic = t, !.image = i, !.invite = v, !.other = ~i] :
     w \in {"none", "text", "caption"}, t \in {"other", "prompt", "wallpaper"},
     i \in BOOLEAN, v \in BOOLEAN} \cup
  {[Plain EXCEPT !.game = g, !.trade = t, !.code = TRUE] :
     g \in {"none", "talk"}, t \in {"platform", "offer", "coins"}} \cup
  {[Plain EXCEPT !.digit = TRUE, !.cta = 2], [Plain EXCEPT !.bundle = TRUE], [Plain EXCEPT !.vpn = "name"],
   [Plain EXCEPT !.vpn = "address"], [Plain EXCEPT !.audio = "short"]}

MCGuards == {"default", "music", "photo_prompt", "wallpaper"}

Chunks == {{}} \cup {{a, b, c} : a, b, c \in Matches}

PostAtRest ==
  /\ post = Post(<<>>, Text("persian", 2, "url")) /\ phase = "begin" /\ base = <<>> /\ body = NoText
  /\ conf = [enabled |-> TRUE, mandatory |-> TRUE, failOpen |-> TRUE, endpoint |-> TRUE, cleaner |-> TRUE]
  /\ images = FALSE /\ attempt = 0 /\ left = 0 /\ budget = 3 /\ broke = FALSE /\ out = <<>>
  /\ stage = "done" /\ size = <<>> /\ scripted = FALSE /\ keyworded = FALSE /\ inputs = <<>> /\ fetched = 0
  /\ trial = 1 /\ verdict = [status |-> "blocked", error |-> "permission_denied"]
  /\ made = <<>> /\ ready = <<>>

GuardAtRest ==
  /\ seenPost = Plain /\ script = "default" /\ guardAt = "read" /\ word = "" /\ why = ""
  /\ guardEnv = [enabled |-> TRUE, blockAds |-> TRUE, failOpen |-> TRUE, skips |-> FALSE,
                 prompts |-> TRUE, asking |-> "off"]
  /\ answers = [q \in {"relevance", "safety"} |-> ""] /\ decision = "error"

LinksAtRest == linksFile = <<>> /\ KeywordInit

(* A route without a script and a script without AI read less of the
   environment: what they do not read is fixed. *)
ToldApart ==
  /\ ~scripted => conf.enabled
  /\ ~conf.enabled \/ ~scripted => conf.mandatory /\ conf.failOpen /\ conf.endpoint
  /\ ~scripted => conf.cleaner

ContentInit ==
  \/ part = "post"  /\ PipelineInit /\ ToldApart /\ GuardAtRest /\ LinksAtRest /\ chunk = {}
  \/ part = "guard" /\ PostAtRest /\ GuardInit /\ LinksAtRest /\ chunk = {}
  \/ part = "links" /\ PostAtRest /\ GuardAtRest /\ KeywordInit /\ chunk = {}
  \/ part = "match" /\ PostAtRest /\ GuardAtRest /\ LinksAtRest /\ chunk \in Chunks

ContentNext ==
  /\ UNCHANGED <<part, chunk>>
  /\ \/ part = "post" /\ PipelineNext /\ UNCHANGED <<guardRunVars, keywordVars>>
     \/ part = "guard" /\ GuardNext /\ UNCHANGED <<pipelineVars, keywordVars>>
     \/ part = "links" /\ KeywordNext /\ UNCHANGED <<pipelineVars, guardRunVars>>

ContentSpec ==
  ContentInit /\ [][ContentNext]_<<part, chunk, pipelineVars, guardRunVars, keywordVars>>
  /\ PipelineFairness
================================================================================
