------------------------------- MODULE Workspace -------------------------------
(***************************************************************************)
(* The files and the guard runner that deliveries share: the working       *)
(* directory (src/kiwi/storage.py), the media cache and the download with  *)
(* retries (src/kiwi/service.py), and GuardRunner's last_reason.           *)
(*                                                                         *)
(* The deliveries modelled are those of ONE source message: its routes,    *)
(* and the retries. Its media file has one name and one cache key; the     *)
(* directory is named by the source channel, the update id and the second. *)
(* A file is an inode: a name and the cache may be links to the same one.  *)
(* Between two awaits nothing else runs.                                   *)
(***************************************************************************)
EXTENDS Naturals, FiniteSets

CONSTANTS
  Deliveries, \* the deliveries of the message
  Seconds,    \* the seconds in which one may begin
  Reasons,    \* what a guard may print after "false:"
  NoReason,   \* a guard that prints none
  Attempts,   \* download attempts (2, or 3 from Telethon)
  AgeCap      \* bound: how often the cached file outlives its TTL

ASSUME WorkspaceAssumption ==
  /\ Attempts \in Nat \ {0} /\ AgeCap \in Nat
  /\ NoReason \notin Reasons

Inodes == 1..(Cardinality(Deliveries) * Attempts)
NoFile == 0

VARIABLES
  at,        \* at[d]: where delivery d is
  place,     \* place[d]: the second in its directory's name
  tries,     \* tries[d]: download attempts begun
  handle,    \* handle[d]: the inode it is writing
  file,      \* file[s]: the inode the media's name in directory s links to
  whole,     \* the inodes whose content is complete
  written,   \* the inodes that exist
  cached,    \* the inode in the cache, or NoFile
  expired,   \* the cached file is older than MEDIA_CACHE_TTL_SEC
  seen,      \* seen[d]: what guard, script and dispatcher read of the media
  lastReason,\* GuardRunner.last_reason
  printed,   \* printed[d]: what d's own guard printed
  verdict,   \* verdict[d]: the reason recorded for a blocked d
  aged

workspaceVars == <<at, place, tries, handle, file, whole, written, cached, expired,
                   seen, lastReason, printed, verdict, aged>>
fileVars == <<file, whole, written>>
cacheVars == <<cached, expired, aged>>
guardVars == <<lastReason, printed, verdict>>

Places == {"new", "look", "attempt", "request", "write", "save", "guard", "judge",
           "read", "done", "failed", "blocked"}

WorkspaceTypeOK ==
  /\ at \in [Deliveries -> Places]
  /\ place \in [Deliveries -> Seconds]
  /\ tries \in [Deliveries -> 0..Attempts]
  /\ handle \in [Deliveries -> Inodes \cup {NoFile}]
  /\ file \in [Seconds -> Inodes \cup {NoFile}]
  /\ whole \subseteq written /\ written \subseteq Inodes
  /\ cached \in Inodes \cup {NoFile} /\ expired \in BOOLEAN
  /\ seen \in [Deliveries -> {"nothing", "whole", "part", "missing"}]
  /\ lastReason \in Reasons \cup {NoReason}
  /\ verdict \in [Deliveries -> Reasons \cup {NoReason}]

WorkspaceInit ==
  /\ at = [d \in Deliveries |-> "new"]
  /\ place \in [Deliveries -> Seconds]
  /\ tries = [d \in Deliveries |-> 0]
  /\ handle = [d \in Deliveries |-> NoFile]
  /\ file = [s \in Seconds |-> NoFile]
  /\ whole = {} /\ written = {}
  /\ cached = NoFile /\ expired = FALSE /\ aged = 0
  /\ seen = [d \in Deliveries |-> "nothing"]
  /\ lastReason = NoReason
  /\ printed = [d \in Deliveries |-> NoReason]
  /\ verdict = [d \in Deliveries |-> NoReason]

Move(d, from, to) == at[d] = from /\ at' = [at EXCEPT ![d] = to]

-----------------------------------------------------------------------------
\* prepare_message_paths: an existing directory is taken as it is. A delivery
\* begins in its second, so one of a later second does not begin first.
PrepareMessagePaths(d) ==
  /\ Move(d, "new", "look")
  /\ UNCHANGED <<place, tries, handle, fileVars, cacheVars, seen, guardVars>>

\* _restore_media_from_cache links the cached file over the name; a stale one is
\* removed, and so is every stale file when the cache is pruned.
Restore(d) ==
  /\ at[d] = "look"
  /\ \/ /\ cached # NoFile /\ ~expired
        /\ Move(d, "look", "guard")
        /\ file' = [file EXCEPT ![place[d]] = cached]
        /\ UNCHANGED <<whole, written, cacheVars>>
     \/ /\ cached = NoFile \/ expired
        /\ Move(d, "look", "attempt")
        /\ cached' = NoFile /\ expired' = FALSE
        /\ UNCHANGED <<fileVars, aged>>
  /\ UNCHANGED <<place, tries, handle, seen, guardVars>>

\* Each attempt of _download_input_media_with_retries first removes the name.
BeginAttempt(d) ==
  /\ Move(d, "attempt", "request")
  /\ tries' = [tries EXCEPT ![d] = @ + 1]
  /\ file' = [file EXCEPT ![place[d]] = NoFile]
  /\ UNCHANGED <<place, handle, whole, written, cacheVars, seen, guardVars>>

\* download_file opens the name for writing when the answer is there: a new file,
\* or the one that has this name by now, cut to nothing.
OpenForWriting(d) ==
  /\ Move(d, "request", "write")
  /\ LET there == file[place[d]] IN
     \E i \in Inodes :
       /\ IF there = NoFile THEN i \notin written /\ \A j \in Inodes : j < i => j \in written
                            ELSE i = there
       /\ handle' = [handle EXCEPT ![d] = i]
       /\ file' = [file EXCEPT ![place[d]] = i]
       /\ written' = written \cup {i}
       /\ whole' = whole \ {i}
  /\ UNCHANGED <<place, tries, cacheVars, seen, guardVars>>

FinishDownload(d) ==
  /\ Move(d, "write", "save")
  /\ whole' = whole \cup {handle[d]}
  /\ UNCHANGED <<place, tries, handle, file, written, cacheVars, seen, guardVars>>

\* Bug: a file that timed out is taken as downloaded.
NextAttemptNone(d) == IF tries[d] < Attempts THEN "attempt" ELSE "save"

\* Whether another attempt follows.
NextAttempt(d) == IF tries[d] < Attempts THEN "attempt" ELSE "failed"

\* A network error removes the name again (HTTP errors leave no file), a time-out
\* (wait_for) leaves what was written; then the next attempt, or none.
FailDownload(d) ==
  /\ at[d] \in {"request", "write"}
  /\ at' = [at EXCEPT ![d] = NextAttempt(d)]
  /\ handle' = [handle EXCEPT ![d] = NoFile]
  /\ file' \in {file, [file EXCEPT ![place[d]] = NoFile]}
  /\ UNCHANGED <<place, tries, whole, written, cacheVars, seen, guardVars>>

\* _save_media_to_cache links the file the name has now; a cached one is kept.
SaveToCache(d) ==
  /\ Move(d, "save", "guard")
  /\ handle' = [handle EXCEPT ![d] = NoFile]
  /\ cached' = IF cached = NoFile THEN file[place[d]] ELSE cached
  /\ expired' = FALSE
  /\ UNCHANGED <<place, tries, fileVars, seen, guardVars, aged>>

Age ==
  /\ cached # NoFile /\ ~expired /\ aged < AgeCap
  /\ expired' = TRUE /\ aged' = aged + 1
  /\ UNCHANGED <<at, place, tries, handle, fileVars, cached, seen, guardVars>>

-----------------------------------------------------------------------------
\* GuardRunner.run clears last_reason, then waits for the guard's process.
StartGuard(d) ==
  /\ Move(d, "guard", "judge")
  /\ lastReason' = NoReason
  /\ \E r \in Reasons \cup {NoReason} : printed' = [printed EXCEPT ![d] = r]
  /\ UNCHANGED <<place, tries, handle, fileVars, cacheVars, seen, verdict>>

\* The reason of a denial: what this guard printed, or else what is there.
DenialReason(d) == IF printed[d] # NoReason THEN printed[d] ELSE lastReason

Deny(d) ==
  /\ Move(d, "judge", "blocked")
  /\ lastReason' = DenialReason(d)
  /\ verdict' = [verdict EXCEPT ![d] = DenialReason(d)]
  /\ UNCHANGED <<place, tries, handle, fileVars, cacheVars, seen, printed>>

\* "true:<note>" sets last_reason as well.
Allow(d) ==
  /\ Move(d, "judge", "read")
  /\ lastReason' = DenialReason(d)
  /\ UNCHANGED <<place, tries, handle, fileVars, cacheVars, seen, printed, verdict>>

\* The script and the dispatcher open the media by its name.
ReadMedia(d) ==
  /\ Move(d, "read", "done")
  /\ seen' = [seen EXCEPT ![d] = IF file[place[d]] = NoFile THEN "missing"
                                 ELSE IF file[place[d]] \in whole THEN "whole" ELSE "part"]
  /\ UNCHANGED <<place, tries, handle, fileVars, cacheVars, guardVars>>

WorkspaceNext ==
  \/ \E d \in Deliveries :
       \/ PrepareMessagePaths(d) \/ Restore(d) \/ BeginAttempt(d) \/ OpenForWriting(d)
       \/ FinishDownload(d) \/ FailDownload(d) \/ SaveToCache(d)
       \/ StartGuard(d) \/ Deny(d) \/ Allow(d) \/ ReadMedia(d)
  \/ Age

WorkspaceSpec == WorkspaceInit /\ [][WorkspaceNext]_workspaceVars

-----------------------------------------------------------------------------
\* Deliveries that share a directory: same message, same second.
Roommates(d) == {e \in Deliveries \ {d} : place[e] = place[d]}
Crowded == \E d \in Deliveries : Roommates(d) # {}

\* What is read of the media is the whole file, whatever attempts failed or timed
\* out before and however the cache aged, unless two deliveries of the message
\* began in the same second and share a directory.
ReadsWholeFile == \A d \in Deliveries : seen[d] \in {"part", "missing"} => Crowded

\* The cache never holds a truncated file, under the same condition: otherwise a
\* download that is cut short poisons every later delivery until the TTL.
CacheIsWhole == cached # NoFile /\ cached \notin whole => Crowded

\* The reason recorded for a blocked message is its own guard's: one that prints a
\* reason is never recorded with another delivery's, though last_reason is shared.
BlockedForOwnReason ==
  \A d \in Deliveries : at[d] = "blocked" /\ printed[d] # NoReason => verdict[d] = printed[d]

\* What deliveries share (the directory, the cache, last_reason) does not leak from
\* one into another.
NothingLeaks == WorkspaceTypeOK /\ ReadsWholeFile /\ CacheIsWhole /\ BlockedForOwnReason

===============================================================================
