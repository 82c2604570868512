------------------------------ MODULE JobStore ------------------------------
(***************************************************************************)
(* The upload_jobs table, one row at a time.                               *)
(*                                                                         *)
(* Every SQL statement of store/upload_jobs.go that writes a row is a pair *)
(* of pure operators: the WHERE clause as a predicate on the row, and the  *)
(* SET clause as a function from the old row to the new one.  A statement  *)
(* whose WHERE clause does not match leaves the row alone and reports      *)
(* ErrNotClaimed, so a module that uses the pair takes the step only where *)
(* the predicate holds and follows the code's error path elsewhere.        *)
(*                                                                         *)
(* Abstractions.  A timestamp is kept as the comparison the code makes     *)
(* with it: lease_until as lapsed (lease_until <= now), next_attempt_at as *)
(* due (next_attempt_at <= now), updated_at as quiet (updated_at <=        *)
(* idleBefore), the nullable marker columns as whether they are set.  The  *)
(* guest's name and address, the error text and the failure counters decide *)
(* nothing the properties speak of and are left out.                       *)
(***************************************************************************)
CONSTANTS
    Token,   \* lease tokens
    Media,   \* media ids
    Null     \* SQL NULL

JobStatus == {"uploading", "pending", "processing", "cleanup", "complete",
              "discarding", "discarded"}

Terminal == {"complete", "discarded"}

Reason == {"", "cancelled", "unobservable", "unsupported_type",
           "checksum_mismatch"}

UploadJob ==
    [status    : JobStatus,
     cancelled : BOOLEAN,               \* cancellation_requested_at
     completed : BOOLEAN,               \* source_completed_at
     token     : Token \cup {Null},     \* lease_token
     lapsed    : BOOLEAN,               \* lease_until <= now
     due       : BOOLEAN,               \* next_attempt_at <= now
     quiet     : BOOLEAN,               \* updated_at <= idleBefore
     stored    : BOOLEAN,               \* stored_filename, authoritative_sha256
     result    : Media \cup {Null},     \* result_media_id
     reason    : Reason]                \* terminal_reason

(***************************************************************************)
(* CreateUploadingJob: the row of an upload admitted before its first byte. *)
(***************************************************************************)
NewUploadingJob ==
    [status |-> "uploading", cancelled |-> FALSE, completed |-> FALSE,
     token |-> Null, lapsed |-> FALSE, due |-> TRUE, quiet |-> FALSE,
     stored |-> FALSE, result |-> Null, reason |-> ""]

\* CASE WHEN first = '' THEN second ELSE first END, on terminal_reason.
FirstReason(first, second) == IF first = "" THEN second ELSE first

Unleased(row) == [row EXCEPT !.token = Null, !.lapsed = FALSE]

(***************************************************************************)
(* PromoteToPending: the durability commit.                                *)
(***************************************************************************)
\* Mutant: only a finished or cancelled row is refused.
Mutant_PromoteAnyLive(row) == row.status \notin Terminal /\ ~row.cancelled

MayPromote(row) == row.status = "uploading" /\ ~row.cancelled

Promoted(row) ==
    [row EXCEPT !.status = "pending", !.completed = TRUE,
                !.due = TRUE, !.quiet = FALSE]

(***************************************************************************)
(* ClaimNextJob(from, to): the lease is free when lease_until is NULL or   *)
(* has passed.  The claim replaces whatever token the row carried.         *)
(***************************************************************************)
Claimable(row, from) ==
    row.status = from /\ row.due /\ (row.token = Null \/ row.lapsed)

Claimed(row, to, token) ==
    [row EXCEPT !.status = to, !.token = token, !.lapsed = FALSE,
                !.quiet = FALSE]

\* "WHERE upload_id = ? AND lease_token = ?", the fence of every worker write.
Holds(row, token) == row.token = token

(***************************************************************************)
(* ReleaseForRetry: hand the job back, not due before its backoff passes.  *)
(***************************************************************************)
Released(row, status) ==
    [Unleased(row) EXCEPT !.status = status, !.due = FALSE, !.quiet = FALSE]

(***************************************************************************)
(* RecordArtifactIdentity and RecordPrepared (prepared_at itself is never  *)
(* read back).                                                             *)
(***************************************************************************)
Identified(row) == [row EXCEPT !.stored = TRUE, !.quiet = FALSE]

PreparedRow(row) == [row EXCEPT !.quiet = FALSE]

(***************************************************************************)
(* The job's half of the PublishMedia transaction.                         *)
(***************************************************************************)
MayPublish(row, token) == row.status = "processing" /\ Holds(row, token)

Published(row, media) ==
    [Unleased(row) EXCEPT !.status = "cleanup", !.result = media,
                          !.quiet = FALSE]

\* Mutant: the bound parameters of status and terminal_reason are swapped.
Mutant_FinishedSwapped(row, status, reason) ==
    [Unleased(row) EXCEPT !.status = reason, !.reason = status, !.quiet = FALSE]

(***************************************************************************)
(* FinishJob: an empty reason keeps the recorded one; next_attempt_at is   *)
(* not touched.                                                            *)
(***************************************************************************)
Finished(row, status, reason) ==
    [Unleased(row) EXCEPT !.status = status,
                          !.reason = FirstReason(reason, row.reason),
                          !.quiet = FALSE]

\* Mutant: a cancellation is accepted for any row that is not terminal.
Mutant_CancelAnyLive(row) == row.status \notin Terminal

(***************************************************************************)
(* RequestCancellation.                                                    *)
(***************************************************************************)
MayCancel(row) == row.status = "uploading"

CancelRequested(row) == [row EXCEPT !.cancelled = TRUE, !.quiet = FALSE]

\* Mutant: the janitor claims any row that is not terminal.
Mutant_DiscardAnyLive(row) == row.status \notin Terminal

(***************************************************************************)
(* ClaimUploadingForDiscard (the incomplete-upload janitor, cancelled or   *)
(* not) and ClaimCancelledForDiscard (the reconciler's sweep, which also   *)
(* clears the lease columns).                                              *)
(***************************************************************************)
MayDiscard(row) == row.status = "uploading"

MaySweep(row) == row.status = "uploading" /\ row.cancelled /\ row.quiet

DiscardClaimed(row) ==
    [row EXCEPT !.status = "discarding", !.due = TRUE, !.quiet = FALSE,
                !.reason = FirstReason(row.reason, "cancelled")]

\* Mutant: a swept row is not told why it goes.
Mutant_SweptUnexplained(row) ==
    [Unleased(DiscardClaimed(row)) EXCEPT !.reason = row.reason]

SweptForDiscard(row) == Unleased(DiscardClaimed(row))

\* Mutant: any live row without bytes is closed out.
Mutant_MarkAnyLive(row) == row.status \notin Terminal

(***************************************************************************)
(* ListStaleUploading and MarkUnobservable.                                *)
(***************************************************************************)
IsStale(row) ==
    row.status = "uploading" /\ ~row.completed /\ ~row.cancelled /\ row.quiet

MayMarkUnobservable(row) == row.status = "uploading" /\ ~row.completed

Unobservable(row) ==
    [Unleased(row) EXCEPT !.status = "discarded", !.reason = "unobservable",
                          !.quiet = FALSE]

(***************************************************************************)
(* RequeueStartup: interrupted work is claimable at once after a restart.  *)
(***************************************************************************)
RequeueStage(status) == IF status = "processing" THEN "pending" ELSE status

Requeued(row) ==
    IF row.status \in {"processing", "cleanup", "discarding"}
    THEN [Unleased(row) EXCEPT !.status = RequeueStage(row.status),
                               !.due = TRUE, !.quiet = FALSE]
    ELSE row

(***************************************************************************)
(* ReopenTerminal and DeleteUploadJob share the WHERE clause.              *)
(***************************************************************************)
MayReopen(row) == row.status \in Terminal

Reopened(row, status) ==
    [Unleased(row) EXCEPT !.status = status, !.due = TRUE, !.quiet = FALSE]

(***************************************************************************)
(* The row shape the schema and the statements keep: a lease only in the   *)
(* three worked stages, always one while processing, and no expiry without *)
(* a lease (the CHECK constraint of the upload_jobs migration).            *)
(***************************************************************************)
LeaseShape(row) ==
    /\ row.status = "processing" => row.token # Null
    /\ row.status \in {"uploading", "pending"} \cup Terminal => row.token = Null
    /\ row.lapsed => row.token # Null
=============================================================================
