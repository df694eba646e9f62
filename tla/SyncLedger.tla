------------------------------ MODULE SyncLedger ------------------------------
(***************************************************************************)
(* The durable tables of src/kiwi/sync_ledger.py: one row per source       *)
(* message of a route (sync_message_ledger), one checkpoint per route      *)
(* (sync_route_checkpoint) and the operator's review queue                 *)
(* (sync_review_queue).                                                    *)
(*                                                                         *)
(* A key stands for a dedupe_key, route|source|message_id|group.  Every    *)
(* method of SyncLedger takes the object's lock and commits one            *)
(* transaction, so each is a single update here: an operator that          *)
(* constrains the primed tables it writes and leaves the rest to the       *)
(* action that calls it.                                                   *)
(***************************************************************************)
EXTENDS Integers, FiniteSets

CONSTANTS
  Routes,   \* route names
  Keys,     \* dedupe keys of the source messages
  RouteOf,  \* RouteOf[k]: the route of a key
  Id,       \* Id[k]: its message_id (of an album: the largest of its members)
  AiMax     \* SYNC_AI_REQUIRED_MAX_ATTEMPTS

ASSUME LedgerAssumption ==
  /\ RouteOf \in [Keys -> Routes]
  /\ Id \in [Keys -> Nat \ {0}]
  /\ AiMax \in Nat \ {0}

\* A message of a route has one key: the two ways a message can arrive (Bot
\* API, Telethon) produce the same dedupe_key.
ASSUME DistinctIds ==
  \A j, k \in Keys : RouteOf[j] = RouteOf[k] /\ Id[j] = Id[k] => j = k

VARIABLES
  status,    \* status column of each key's row, "absent" where there is none
  lastError, \* last_error column, by the classes the code tells apart
  attempts,  \* attempt_count, counted up to AiMax (it is only compared to it)
  review,    \* the key's newest review: none, open or resolved
  checkpoint \* last_source_message_id of each route

ledgerVars == <<status, lastError, attempts, review, checkpoint>>

Statuses == {"absent", "queued", "processing", "sent", "blocked", "ambiguous",
             "retry_wait", "failed"}
Errors == {"none", "failure", "route_deactive", "route_not_found",
           "older_than_checkpoint", "resumed", "stale", "skipped"}

\* "skipped" is stored as "blocked" (mark_status), so it is not a status here.
TerminalStatuses == {"sent", "blocked"}
ActiveStatuses == {"queued", "processing"}
RetryableStatuses == {"queued", "failed", "retry_wait"}

LedgerTypeOK ==
  /\ status \in [Keys -> Statuses]
  /\ lastError \in [Keys -> Errors]
  /\ attempts \in [Keys -> 0..AiMax]
  /\ review \in [Keys -> {"none", "open", "resolved"}]
  /\ checkpoint \in [Routes -> Nat]

LedgerInit ==
  /\ status = [k \in Keys |-> "absent"]
  /\ lastError = [k \in Keys |-> "none"]
  /\ attempts = [k \in Keys |-> 0]
  /\ review = [k \in Keys |-> "none"]
  /\ checkpoint = [r \in Routes |-> 0]

-------------------------------------------------------------------------------
(* Queries. *)

KeysOf(r) == {k \in Keys : RouteOf[k] = r}

\* list_retryable_keys and list_retryable_keys_for_route, as sets: the order
\* of the rows only spreads the due times of the entries they become.
RetryableKeys == {k \in Keys : status[k] \in RetryableStatuses}
RetryableKeysOf(r) == RetryableKeys \cap KeysOf(r)

\* Bug: queued rows do not hold the order.
PendingAboveIgnoresQueued(r) ==
  {k \in KeysOf(r) : status[k] = "processing" /\ Id[k] > checkpoint[r]}

\* The rows that hold the route's order: queued or processing, above the
\* checkpoint.
PendingAbove(r) ==
  {k \in KeysOf(r) : status[k] \in ActiveStatuses /\ Id[k] > checkpoint[r]}

\* Bug: a row that is being processed does not hold the order.
EarlierPendingIgnoresProcessing(k) ==
  {j \in PendingAbove(RouteOf[k]) : Id[j] < Id[k] /\ status[j] = "queued"}

\* A row below k that min_active_message_id_for_route makes k wait for.
EarlierPending(k) == {j \in PendingAbove(RouteOf[k]) : Id[j] < Id[k]}

\* Bug: the ordering wait does not push the row it waits for.
NoFirstPending(r) == {k \in PendingAbove(r) : Id[k] < checkpoint[r]}

\* first_active_key_for_route_message_id of the smallest pending message_id.
FirstPending(r) ==
  {k \in PendingAbove(r) : \A j \in PendingAbove(r) : Id[k] <= Id[j]}

-------------------------------------------------------------------------------
(* Updates. *)

\* A new row is queued; an existing one keeps its status.
RegisterMessage(k) ==
  /\ status' = [status EXCEPT ![k] = IF @ = "absent" THEN "queued" ELSE @]
  /\ UNCHANGED <<lastError, attempts, review, checkpoint>>

\* Whatever the status was: nothing is compared.
MarkProcessing(k) ==
  /\ status' = [status EXCEPT ![k] = "processing"]
  /\ attempts' = [attempts EXCEPT ![k] = IF @ < AiMax THEN @ + 1 ELSE @]

MarkStatus(k, s, e) ==
  /\ status' = [status EXCEPT ![k] = s]
  /\ lastError' = [lastError EXCEPT ![k] = e]

\* Bug: the last writer wins.
SetRouteCheckpointBlindly(r, n) == checkpoint' = [checkpoint EXCEPT ![r] = n]

\* The stored checkpoint never moves back.
SetRouteCheckpoint(r, n) ==
  checkpoint' = [checkpoint EXCEPT ![r] = IF n > @ THEN n ELSE @]

\* Bug: any earlier review of the key is reused, a resolved one too.
AddReviewOnce(k) ==
  review' = [review EXCEPT ![k] = IF @ = "none" THEN "open" ELSE @]

\* An unresolved review of the key is reused, otherwise one is inserted.
AddReview(k) == review' = [review EXCEPT ![k] = "open"]

\* resolve_review: "retry" puts the row back to queued, "skip" blocks it and
\* keeps an error it already has.
ResolveReview(k, resolution) ==
  /\ review' = [review EXCEPT ![k] = "resolved"]
  /\ IF resolution = "retry"
       THEN MarkStatus(k, "queued", "none")
       ELSE MarkStatus(k, "blocked",
                       IF lastError[k] = "none" THEN "skipped" ELSE lastError[k])

\* Bug: the cutoff is computed in the wrong direction, so no row is stale.
NothingIsStale(S) == S = {} /\ UNCHANGED <<status, lastError>>

\* requeue_stale_processing: the processing rows in S are old enough.
StaleProcessing(S) ==
  /\ S \subseteq {k \in Keys : status[k] = "processing"}
  /\ status' = [k \in Keys |-> IF k \in S THEN "failed" ELSE status[k]]
  /\ lastError' = [k \in Keys |-> IF k \in S THEN "stale" ELSE lastError[k]]

\* reactivate_route_deactive_blocks: rows blocked because the route was
\* stopped become failed, hence retryable.
ReactivateRouteDeactiveBlocks(r) ==
  LET resumed == {k \in KeysOf(r) : /\ status[k] = "blocked"
                                    /\ lastError[k] = "route_deactive"}
  IN  /\ status' = [k \in Keys |-> IF k \in resumed THEN "failed" ELSE status[k]]
      /\ lastError' = [k \in Keys |-> IF k \in resumed THEN "resumed" ELSE lastError[k]]
===============================================================================
