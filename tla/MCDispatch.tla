------------------------------ MODULE MCDispatch ------------------------------
(***************************************************************************)
(* Small instances of Dispatch for TLC: two messages that are delivered    *)
(* side by side, one with a text and an album with markup, one with a      *)
(* voice that has a link in its caption, a sticker and a missing file; and *)
(* messages of one text.                                                   *)
(***************************************************************************)
EXTENDS Dispatch

CONSTANTS t1, t2

Plain(kind) == [kind |-> kind, missing |-> FALSE, link |-> FALSE, markup |-> FALSE]

MCPair == [t \in Tasks |->
  IF t = t1 THEN << Plain("text"), [Plain("photo") EXCEPT !.markup = TRUE], Plain("video") >>
  ELSE << [Plain("voice") EXCEPT !.link = TRUE], Plain("sticker"),
          [Plain("audio") EXCEPT !.missing = TRUE] >>]

MCTexts == [t \in Tasks |-> << Plain("text") >>]
===============================================================================
