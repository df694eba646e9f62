------------------------------- MODULE KeywordLinks -------------------------------
(***************************************************************************)
(* src/kiwi/keyword_links.py: the linker that turns keywords of a text     *)
(* into links. It reads keyword_links.json again whenever the file's time  *)
(* of change differs from the one it remembers; the management API         *)
(* replaces the file, an operator may remove it, put it back or spoil it.  *)
(*                                                                         *)
(* A row of the file gives a destination, a keyword, a link and a          *)
(* priority. The second half is the choice of non-overlapping matches in   *)
(* one piece of text, `chunk`.                                             *)
(***************************************************************************)
EXTENDS Integers, Sequences, SequencesExt, FiniteSetsExt

CONSTANTS
  Gone,     \* no file
  Bad,      \* a file that does not parse
  Rows,     \* the rows a file may have: [dest, word, link, priority]
  FileRows, \* bound: rows in a file
  EditCap,  \* bound: changes of the file
  Width,    \* bound: length of the text matches are chosen in
  TopPriority, \* bound: the highest priority of a match
  LongestWord  \* bound: the length of a keyword

Contents == SeqOf(Rows, FileRows)

ASSUME KeywordLinksAssumption ==
  /\ \A r \in Rows : /\ r = [dest |-> r.dest, word |-> r.word, link |-> r.link, priority |-> r.priority]
                     /\ r.priority \in Int
  /\ FileRows \in Nat /\ EditCap \in Nat
  /\ Gone # Bad /\ Gone \notin Contents /\ Bad \notin Contents
  /\ Width \in Nat /\ TopPriority \in Nat /\ LongestWord \in Nat

VARIABLES
  linksFile,   \* the rows on disk, or Gone, or Bad
  backup,      \* a copy of an earlier file: [rows, time]
  fileTime,    \* its time of change
  readTime,    \* the time of the file last read, or NoTime
  entries,     \* entries[d]: the rows kept for destination d
  globalRows,  \* the rows kept for every destination
  usedRows,    \* the rows the last text was linked with
  edits,
  chunk        \* the matches of all keywords in a piece of text

keywordVars == <<linksFile, backup, fileTime, readTime, entries, globalRows, usedRows, edits>>

NoTime == EditCap + 1

Destinations == {r.dest : r \in Rows}

Priorities == {r.priority : r \in Rows}

KeptRows == {[r EXCEPT !.priority = high] : r \in Rows, high \in Priorities}

KeywordTypeOK ==
  /\ linksFile \in Contents \cup {Gone, Bad} /\ backup.rows \in Contents
  /\ fileTime \in 0..EditCap /\ readTime \in 0..NoTime /\ edits \in 0..EditCap
  /\ entries \in [Destinations -> Seq(KeptRows)] /\ globalRows \in Seq(KeptRows)
  /\ usedRows \subseteq KeptRows
  /\ \A d \in Destinations : \A i, k \in DOMAIN entries[d] :
       entries[d][i].word = entries[d][k].word => i = k

AsFirst(kept, row) == kept

Raised(kept, row) ==
  IF kept.link = row.link /\ row.priority > kept.priority
  THEN [kept EXCEPT !.priority = row.priority] ELSE kept

SameLink(a, b) == a.word = b.word /\ a.link = b.link
SameWord(a, b) == a.word = b.word

(* The rows after one more, where `at` are the places that already hold it: a
   higher priority counts only for the same link. *)
Merged(rows, row, at) ==
  IF at = {} THEN Append(rows, row)
  ELSE [i \in DOMAIN rows |-> IF i \in at THEN Raised(rows[i], row) ELSE rows[i]]

NoEntries == [d \in Destinations |-> <<>>]

(* The rows of each destination, and those of all: a keyword a destination
   already has keeps its link, and its row does not reach the rows of all. *)
WithRow(kept, row) ==
  LET own   == kept.of[row.dest]
      known == {i \in DOMAIN own : SameWord(own[i], row)}
  IN [of  |-> [kept.of EXCEPT ![row.dest] = Merged(own, row, known)],
      all |-> IF known # {} THEN kept.all
              ELSE Merged(kept.all, row, {i \in DOMAIN kept.all : SameLink(kept.all[i], row)})]

Parse(content) ==
  LET parsed[n \in 0..Len(content)] ==
        IF n = 0 THEN [of |-> NoEntries, all |-> <<>>]
        ELSE WithRow(parsed[n - 1], content[n])
  IN parsed[Len(content)]

KeywordInit ==
  /\ linksFile \in Contents /\ backup = [rows |-> linksFile, time |-> 0] /\ fileTime = 0
  /\ readTime = 0 /\ entries = Parse(linksFile).of /\ globalRows = Parse(linksFile).all
  /\ usedRows = {} /\ edits = 0

Changes == edits < EditCap /\ edits' = edits + 1 /\ UNCHANGED <<readTime, entries, globalRows, usedRows>>

(* save_keyword_links: the file is replaced whole. *)
SaveKeywordLinks ==
  /\ Changes
  /\ linksFile' \in Contents /\ fileTime' = edits'
  /\ UNCHANGED backup

(* An operator's hand: the file goes, is cut short, or comes back from a copy
   with the time the copy had. *)
RemoveFile == Changes /\ linksFile \notin {Gone} /\ linksFile' = Gone /\ UNCHANGED <<backup, fileTime>>
SpoilFile  == Changes /\ linksFile' = Bad /\ fileTime' = edits' /\ UNCHANGED backup
PutBackFile ==
  /\ Changes /\ linksFile = Gone
  /\ linksFile' = backup.rows /\ fileTime' = backup.time /\ UNCHANGED backup

(* What is remembered of a file that is not there. *)
ForgottenTime == NoTime

ReadBefore == fileTime <= readTime

(* The file's time is the one remembered. *)
AlreadyRead == fileTime = readTime

(* Both tables are replaced together; a file that is gone or spoilt empties
   only the destinations' own. *)
LoadIfChanged ==
  CASE linksFile = Gone -> /\ entries' = NoEntries /\ readTime' = ForgottenTime
                           /\ UNCHANGED globalRows
    [] linksFile # Gone /\ AlreadyRead -> UNCHANGED <<entries, readTime, globalRows>>
    [] linksFile = Bad /\ ~AlreadyRead ->
         entries' = NoEntries /\ readTime' = fileTime /\ UNCHANGED globalRows
    [] OTHER -> /\ readTime' = fileTime
                /\ entries' = Parse(linksFile).of /\ globalRows' = Parse(linksFile).all

(* A text for destination d is linked with the rows of all and its own. *)
LinkText(d) ==
  /\ LoadIfChanged
  /\ usedRows' = Range(globalRows') \cup Range(entries'[d])
  /\ UNCHANGED <<linksFile, backup, fileTime, edits>>

KeywordNext ==
  \/ SaveKeywordLinks \/ RemoveFile \/ SpoilFile \/ PutBackFile
  \/ \E d \in Destinations : LinkText(d)

KeywordSpec == KeywordInit /\ [][KeywordNext]_keywordVars

Readable == linksFile \notin {Gone, Bad}

(* A text is linked with what the file says, however it came to say so; the
   rows of an earlier file are used only while there is none to read. *)
LinksAreOfTheFile ==
  (\E d \in Destinations : LinkText(d)) /\ Readable =>
    \A row \in usedRows' : \E i \in DOMAIN linksFile : SameLink(linksFile[i], row)

(* In a text for a destination, the first row it has for a keyword is honoured,
   with the highest priority its rows give that keyword and link. *)
FirstRowIsHonoured ==
  Readable => \A i, k \in DOMAIN linksFile :
    /\ LinkText(linksFile[i].dest)
    /\ linksFile[i].dest = linksFile[k].dest /\ SameLink(linksFile[i], linksFile[k])
    /\ \A j \in 1..(i - 1) : ~(SameWord(linksFile[i], linksFile[j])
                               /\ linksFile[i].dest = linksFile[j].dest)
    => \E row \in usedRows' : SameLink(row, linksFile[k])
                              /\ row.priority >= linksFile[k].priority

(* The table in memory is the file's, row by row, whenever a text is linked. *)
TableFollowsFile ==
  [][KeywordTypeOK /\ LinksAreOfTheFile /\ FirstRowIsHonoured]_keywordVars

--------------------------------------------------------------------------------
(* _apply_patterns: from the matches of all keywords in a chunk of text, those
   that are turned into links. *)

(* Where it is, and the priority and the length of the keyword as listed; the
   match may be longer, for any run of separators stands for one. *)
Matches ==
  {m \in [from : 0..Width - 1, to : 1..Width, priority : 0..TopPriority, length : 1..LongestWord] :
     m.from < m.to}

(* Of the matches that begin at the same place, the one of highest priority,
   then that of the longest keyword. *)
Preferred(a, b) ==
  \/ a.priority > b.priority
  \/ a.priority = b.priority /\ a.length >= b.length

BestFrom(matches, place) ==
  CHOOSE a \in {m \in matches : m.from = place} :
    \A b \in {m \in matches : m.from = place} : Preferred(a, b)

(* A match that begins where the last one ended is passed over. *)
AcceptedApart(matches) ==
  LET choose[cursor \in 0..Width + 1] ==
        LET open == {m.from : m \in {m \in matches : m.from >= cursor}}
        IN IF open = {} THEN {}
           ELSE LET best == BestFrom(matches, Min(open)) IN {best} \cup choose[best.to + 1]
  IN choose[0]

(* From left to right, each match that begins after the last one ended. *)
Accepted(matches) ==
  LET choose[cursor \in 0..Width] ==
        LET open == {m.from : m \in {m \in matches : m.from >= cursor}}
        IN IF open = {} THEN {}
           ELSE LET best == BestFrom(matches, Min(open)) IN {best} \cup choose[best.to]
  IN choose[0]

Overlap(a, b) == a.from < b.to /\ b.from < a.to

(* What the choice promises: no two links overlap; a match is left out only
   for one it overlaps, that begins before it or is preferred to it. *)
ChoiceIsFair(matches) ==
  LET chosen == Accepted(matches) IN
  /\ \A a, b \in chosen : a # b => ~Overlap(a, b)
  /\ \A m \in matches \ chosen : \E a \in chosen :
       Overlap(a, m) /\ (a.from < m.from \/ (a.from = m.from /\ Preferred(a, m)))

(* The pieces of text are worked on one by one, and share nothing. *)
ChoiceSpec == chunk \in SUBSET Matches /\ [][UNCHANGED chunk]_chunk

(* Whatever matches a piece of text has, those made links do not overlap, and
   none is left out but for one that begins before it or is preferred to it
   (_apply_patterns). *)
ChoiceOfMatchesIsFair == ChoiceIsFair(chunk)
================================================================================
