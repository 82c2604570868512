----------------------------- MODULE IngestQueue -----------------------------
(***************************************************************************)
(* The leased worker pool of ingest/process.go over the durable queue: what *)
(* happens to an upload from its durability commit to its terminal row.    *)
(*                                                                         *)
(* A worker scans the four stages in order, claims one due row under a     *)
(* fresh lease token and runs one stage of it.  Every call the stage makes *)
(* to the database, to the media volume, to the upload directory or to     *)
(* tusd is a step of its own, so the other workers, the administrator's    *)
(* purge, the clock and a crash come between any two of them.              *)
(*                                                                         *)
(* Two clocks run on an attempt.  Its context (ProcessingTimeout) expires  *)
(* first and makes every later call that takes the context fail; its lease *)
(* (ProcessingTimeout + ReconcileInterval) lapses after that and lets      *)
(* another worker take the row.  Calls that take no context (os.Rename,    *)
(* os.Remove, stat, fsync, VerifyOriginal) still happen, so a slow worker  *)
(* keeps acting on files beside its successor.                             *)
(*                                                                         *)
(* A worker runs one attempt at a time and every write names its upload,   *)
(* so the worker stands for the token of its current attempt.  The media   *)
(* id is minted at admission, one per upload, and never reused, so the     *)
(* upload stands for its own media id.                                     *)
(***************************************************************************)
CONSTANTS
    Upload,     \* upload ids, and the media id minted for each of them
    Worker,     \* worker goroutines, and the lease token of their attempt
    Content,    \* SHA-256 sums
    ContentOf,  \* the sum of each upload's bytes
    Verdict,    \* what sniffing and the declared checksum say of the bytes
    Moderated,  \* media ids an administrator trashes, restores and purges
    Null

ASSUME QueueAssumption ==
    /\ Null \notin Upload /\ Null \notin Worker
    /\ ContentOf \in [Upload -> Content]
    /\ Verdict \in [Upload -> {"accept", "unsupported_type", "checksum_mismatch"}]
    /\ Moderated \subseteq Upload

INSTANCE JobStore WITH Token <- Worker, Media <- Upload

VARIABLES
    jobs,      \* upload_jobs, one row per upload
    media,     \* media_items.status of each media id, "none" without a row
    data,      \* uploads whose tus data file is on disk
    info,      \* uploads whose tus sidecar is on disk
    live,      \* media ids whose original is at its live path
    staged,    \* media ids whose original is in a purge stage
    purge,     \* the administrator's permanent deletion in progress
    pc,        \* per worker: the call it makes next
    cur,       \* per worker: the upload of its attempt
    snap,      \* per worker: the row as ClaimNextJob returned it
    ctx,       \* per worker: the attempt's context has not expired
    tmp,       \* per worker: its lease-scoped temporary copy exists
    dup        \* per worker: the row GetBySHA256 returned

vars == <<jobs, media, data, info, live, staged, purge, pc, cur, snap, ctx, tmp, dup>>

Scans == {"scanCleanup", "scanDiscard", "scanPending", "scanLapsed"}

ProcessingCalls == {"health", "inspect", "reject", "identify", "copy", "rename",
                    "verify", "prepared", "lookup", "verifyKept", "publish"}

RemovalCalls == {"deletable", "owner", "unlink", "sweep", "terminate",
                 "checkGone", "finish"}

TypeOK ==
    /\ jobs \in [Upload -> UploadJob]
    /\ media \in [Upload -> {"none", "active", "trashed"}]
    /\ data \subseteq Upload
    /\ info \subseteq Upload
    /\ live \subseteq Upload
    /\ staged \subseteq Upload
    /\ purge \in [pc   : {"idle", "decide", "finalize", "restore", "left"},
                  item : Upload \cup {Null}]
    /\ pc \in [Worker -> Scans \cup ProcessingCalls \cup RemovalCalls]
    /\ cur \in [Worker -> Upload \cup {Null}]
    /\ snap \in [Worker -> UploadJob]
    /\ ctx \in [Worker -> BOOLEAN]
    /\ tmp \in [Worker -> BOOLEAN]
    /\ dup \in [Worker -> Upload \cup {Null}]

(***************************************************************************)
(* Every upload has been admitted and its bytes are complete on disk; the  *)
(* durability barrier, the client and the reconciler are IngestBarrier's.  *)
(***************************************************************************)
Init ==
    /\ jobs = [u \in Upload |-> NewUploadingJob]
    /\ media = [m \in Upload |-> "none"]
    /\ data = Upload
    /\ info = Upload
    /\ live = {}
    /\ staged = {}
    /\ purge = [pc |-> "idle", item |-> Null]
    /\ pc = [w \in Worker |-> "scanCleanup"]
    /\ cur = [w \in Worker |-> Null]
    /\ snap = [w \in Worker |-> NewUploadingJob]
    /\ ctx = [w \in Worker |-> FALSE]
    /\ tmp = [w \in Worker |-> FALSE]
    /\ dup = [w \in Worker |-> Null]

files == <<data, info, live, staged>>
attempt == <<cur, snap, ctx, tmp, dup>>

-----------------------------------------------------------------------------
(* What the rest of the system does to a row, and the clock. *)

SetRow(u, row) == jobs' = [jobs EXCEPT ![u] = row]

\* The durability barrier commits the upload.
Promote(u) ==
    /\ MayPromote(jobs[u])
    /\ SetRow(u, Promoted(jobs[u]))
    /\ UNCHANGED <<media, files, purge, pc, attempt>>

\* A cancelled or abandoned upload is claimed for removal before it commits.
Discard(u) ==
    /\ MayDiscard(jobs[u])
    /\ SetRow(u, DiscardClaimed(jobs[u]))
    /\ UNCHANGED <<media, files, purge, pc, attempt>>

\* A released row's backoff passes.
BecomesDue(u) ==
    /\ ~jobs[u].due
    /\ SetRow(u, [jobs[u] EXCEPT !.due = TRUE])
    /\ UNCHANGED <<media, files, purge, pc, attempt>>

\* The attempt's own deadline passes.
ContextExpires(w) ==
    /\ cur[w] # Null /\ ctx[w]
    /\ ctx' = [ctx EXCEPT ![w] = FALSE]
    /\ UNCHANGED <<jobs, media, files, purge, pc, cur, snap, tmp, dup>>

\* A lease lapses, never before the context of the attempt that holds it.
LeaseLapses(u) ==
    /\ jobs[u].token # Null /\ ~jobs[u].lapsed
    /\ \A w \in Worker : cur[w] = u /\ Holds(jobs[u], w) => ~ctx[w]
    /\ SetRow(u, [jobs[u] EXCEPT !.lapsed = TRUE])
    /\ UNCHANGED <<media, files, purge, pc, attempt>>

-----------------------------------------------------------------------------
(* claimAndRunOnce. *)

FirstCall(from) == IF from \in {"pending", "processing"} THEN "health" ELSE "deletable"

\* One stage of the scan: claim a due row of this stage and run it, or go on
\* to the next stage; after the last stage the worker waits for its ticker.
Scan(w, here, from, to, next) ==
    /\ pc[w] = here
    /\ \/ \E u \in Upload :
            /\ Claimable(jobs[u], from)
            /\ SetRow(u, Claimed(jobs[u], to, w))
            /\ snap' = [snap EXCEPT ![w] = Claimed(jobs[u], to, w)]
            /\ cur' = [cur EXCEPT ![w] = u]
            /\ ctx' = [ctx EXCEPT ![w] = TRUE]
            /\ pc' = [pc EXCEPT ![w] = FirstCall(from)]
       \/ /\ \A u \in Upload : ~Claimable(jobs[u], from)
          /\ pc' = [pc EXCEPT ![w] = next]
          /\ UNCHANGED <<jobs, snap, cur, ctx>>
    /\ UNCHANGED <<media, files, purge, tmp, dup>>

\* Mutant: no scan for processing rows whose lease has lapsed.
Mutant_NoLapsedScan(w) ==
    \/ Scan(w, "scanCleanup", "cleanup", "cleanup", "scanDiscard")
    \/ Scan(w, "scanDiscard", "discarding", "discarding", "scanPending")
    \/ Scan(w, "scanPending", "pending", "processing", "scanCleanup")

ClaimAndRunOnce(w) ==
    \/ Scan(w, "scanCleanup", "cleanup", "cleanup", "scanDiscard")
    \/ Scan(w, "scanDiscard", "discarding", "discarding", "scanPending")
    \/ Scan(w, "scanPending", "pending", "processing", "scanLapsed")
    \/ Scan(w, "scanLapsed", "processing", "processing", "scanCleanup")

\* The stage function returns and the worker scans again.
EndAttempt(w) ==
    /\ pc' = [pc EXCEPT ![w] = "scanCleanup"]
    /\ cur' = [cur EXCEPT ![w] = Null]
    /\ snap' = [snap EXCEPT ![w] = NewUploadingJob]
    /\ ctx' = [ctx EXCEPT ![w] = FALSE]
    /\ tmp' = [tmp EXCEPT ![w] = FALSE]
    /\ dup' = [dup EXCEPT ![w] = Null]

Goto(w, call) ==
    /\ pc' = [pc EXCEPT ![w] = call]
    /\ UNCHANGED <<cur, snap, ctx>>

At(w, call) == pc[w] = call

-----------------------------------------------------------------------------
(* runProcessing and prepareAndPublish. *)

\* health.Check before anything is written to the media volume.
CheckHealth(w) ==
    /\ At(w, "health") /\ ctx[w]
    /\ Goto(w, "inspect")
    /\ UNCHANGED <<jobs, media, files, purge, tmp, dup>>

\* Mutant: an inspection cut short by its context is taken for a mismatch.
Mutant_ExpiredRejected(w) ==
    /\ At(w, "inspect") /\ cur[w] \in data
    /\ Goto(w, IF Verdict[cur[w]] = "accept" /\ ctx[w] THEN "identify" ELSE "reject")
    /\ UNCHANGED <<jobs, media, files, purge, tmp, dup>>

\* Sniff, hash and stat the source.  Only the hash takes the context, so an
\* unsupported type is still recognised after it has expired.
Inspect(w) ==
    /\ At(w, "inspect") /\ cur[w] \in data
    /\ ctx[w] \/ Verdict[cur[w]] = "unsupported_type"
    /\ Goto(w, IF Verdict[cur[w]] = "accept" THEN "identify" ELSE "reject")
    /\ UNCHANGED <<jobs, media, files, purge, tmp, dup>>

\* The rejection is recorded under the lease, on the manager's lifetime.
Reject(w) ==
    /\ At(w, "reject")
    /\ jobs' = IF Holds(jobs[cur[w]], w)
               THEN [jobs EXCEPT ![cur[w]] =
                       Finished(@, "discarding", Verdict[cur[w]])]
               ELSE jobs
    /\ EndAttempt(w)
    /\ UNCHANGED <<media, files, purge>>

RecordArtifactIdentity(w) ==
    /\ At(w, "identify") /\ ctx[w] /\ Holds(jobs[cur[w]], w)
    /\ SetRow(cur[w], Identified(jobs[cur[w]]))
    /\ Goto(w, "copy")
    /\ UNCHANGED <<media, files, purge, tmp, dup>>

\* PrepareOriginal up to its last look at the context: reuse a final original
\* that is already there, or copy the source to this attempt's temporary.
PrepareCopy(w) ==
    /\ At(w, "copy")
    /\ \/ /\ cur[w] \in live
          /\ Goto(w, "verify")
          /\ UNCHANGED tmp
       \/ /\ cur[w] \notin live /\ cur[w] \in data /\ ctx[w]
          /\ tmp' = [tmp EXCEPT ![w] = TRUE]
          /\ Goto(w, "rename")
    /\ UNCHANGED <<jobs, media, files, purge, dup>>

\* The rename itself takes no context; it fails when a later attempt has
\* swept the temporary.
PrepareRename(w) ==
    /\ At(w, "rename") /\ tmp[w]
    /\ live' = live \cup {cur[w]}
    /\ tmp' = [tmp EXCEPT ![w] = FALSE]
    /\ Goto(w, "verify")
    /\ UNCHANGED <<jobs, media, data, info, staged, purge, dup>>

VerifyPrepared(w) ==
    /\ At(w, "verify") /\ cur[w] \in live
    /\ Goto(w, "prepared")
    /\ UNCHANGED <<jobs, media, files, purge, tmp, dup>>

RecordPrepared(w) ==
    /\ At(w, "prepared") /\ ctx[w] /\ Holds(jobs[cur[w]], w)
    /\ SetRow(cur[w], PreparedRow(jobs[cur[w]]))
    /\ Goto(w, "lookup")
    /\ UNCHANGED <<media, files, purge, tmp, dup>>

\* The media row that owns these bytes, whatever its status.
Owns(m, c) == media[m] # "none" /\ ContentOf[m] = c

LookUpExisting(w) ==
    /\ At(w, "lookup") /\ ctx[w]
    /\ \/ \E m \in Upload :
            /\ Owns(m, ContentOf[cur[w]])
            /\ dup' = [dup EXCEPT ![w] = m]
            /\ Goto(w, "verifyKept")
       \/ /\ \A m \in Upload : ~Owns(m, ContentOf[cur[w]])
          /\ Goto(w, "publish")
          /\ UNCHANGED dup
    /\ UNCHANGED <<jobs, media, files, purge, tmp>>

\* The copy a duplicate would keep must be intact.
VerifyKept(w) ==
    /\ At(w, "verifyKept") /\ dup[w] \in live
    /\ dup' = [dup EXCEPT ![w] = Null]
    /\ Goto(w, "publish")
    /\ UNCHANGED <<jobs, media, files, purge, tmp>>

\* PublishMedia, one transaction: fence, insert unless the content is taken,
\* resolve the owner, move the job to cleanup.
PublishMedia(w) ==
    LET u == cur[w] IN
    /\ At(w, "publish") /\ ctx[w] /\ MayPublish(jobs[u], w)
    /\ \/ \E m \in Upload :
            /\ Owns(m, ContentOf[u])
            /\ SetRow(u, Published(jobs[u], m))
            /\ UNCHANGED media
       \/ /\ \A m \in Upload : ~Owns(m, ContentOf[u])
          /\ media' = [media EXCEPT ![u] = "active"]
          /\ SetRow(u, Published(jobs[u], u))
    /\ EndAttempt(w)
    /\ UNCHANGED <<files, purge>>

-----------------------------------------------------------------------------
(* runCleanup and runDiscard. *)

\* deletionAllowed; then a published job whose own id won keeps its artifacts,
\* a duplicate and a discarded upload go on to remove theirs.
CheckDeletionAllowed(w) ==
    /\ At(w, "deletable") /\ ctx[w]
    /\ IF snap[w].status = "cleanup" /\ snap[w].result \in {Null, cur[w]}
       THEN Goto(w, "sweep")
       ELSE Goto(w, "owner")
    /\ UNCHANGED <<jobs, media, files, purge, tmp, dup>>

\* removeArtifactsIfUnowned reads ownership here and deletes in the next step.
CheckOwner(w) ==
    /\ At(w, "owner") /\ ctx[w]
    /\ IF media[cur[w]] = "none" THEN Goto(w, "unlink") ELSE Goto(w, "sweep")
    /\ UNCHANGED <<jobs, media, files, purge, tmp, dup>>

RemoveArtifacts(w) ==
    /\ At(w, "unlink")
    /\ live' = IF snap[w].stored THEN live \ {cur[w]} ELSE live
    /\ Goto(w, "sweep")
    /\ UNCHANGED <<jobs, media, data, info, staged, purge, tmp, dup>>

\* Every temporary of this media id, whichever attempt wrote it.
SweepTemporaries(w) ==
    /\ At(w, "sweep")
    /\ tmp' = [x \in Worker |-> tmp[x] /\ cur[x] # cur[w]]
    /\ Goto(w, "terminate")
    /\ UNCHANGED <<jobs, media, files, purge, dup>>

\* Server.Terminate refuses a source the queue may still need; tusd resolves
\* an upload through its sidecar and its data file, and removes both.
QueueMayNeed(u) == jobs[u].status \in {"uploading", "pending", "processing"}

TerminateSource(w) ==
    LET u == cur[w] IN
    /\ At(w, "terminate")
    /\ \/ /\ u \notin data
          /\ UNCHANGED <<data, info>>
       \/ /\ u \in data /\ ctx[w] /\ ~QueueMayNeed(u)
          /\ data' = IF u \in info THEN data \ {u} ELSE data
          /\ info' = info \ {u}
    /\ Goto(w, "checkGone")
    /\ UNCHANGED <<jobs, media, live, staged, purge, tmp, dup>>

\* Both paths are checked after a directory fsync, and whichever outlived the
\* other is unlinked; both still there is a failed termination.
RemoveResidue(w) ==
    LET u == cur[w] IN
    /\ At(w, "checkGone") /\ ~(u \in data /\ u \in info)
    /\ data' = data \ {u}
    /\ info' = info \ {u}
    /\ Goto(w, "finish")
    /\ UNCHANGED <<jobs, media, live, staged, purge, tmp, dup>>

\* Mutant: the terminal state is written on the strength of Terminate alone.
Mutant_TrustTerminate(w) ==
    LET u == cur[w] IN
    /\ pc[w] \in {"checkGone", "finish"}
    /\ jobs' = IF Holds(jobs[u], w)
               THEN [jobs EXCEPT ![u] =
                       IF snap[w].status = "cleanup"
                       THEN Finished(@, "complete", "")
                       ELSE Finished(@, "discarded", snap[w].reason)]
               ELSE jobs
    /\ EndAttempt(w)
    /\ UNCHANGED <<media, files, purge>>

\* Both paths verified absent once more, then the terminal state under the
\* lease; a lost lease is logged and nothing else.
FinishRemoval(w) ==
    LET u == cur[w] IN
    /\ At(w, "finish") /\ u \notin data /\ u \notin info
    /\ jobs' = IF Holds(jobs[u], w)
               THEN [jobs EXCEPT ![u] =
                       IF snap[w].status = "cleanup"
                       THEN Finished(@, "complete", "")
                       ELSE Finished(@, "discarded", snap[w].reason)]
               ELSE jobs
    /\ EndAttempt(w)
    /\ UNCHANGED <<media, files, purge>>

-----------------------------------------------------------------------------
(* Failure: every call may fail, and some must. *)

\* Mutant: a failed attempt goes back to the stage it was claimed in.
Mutant_RetrySame(w) == snap[w].status

\* Mutant: every failed attempt goes back to pending.
Mutant_RetryPending(w) == "pending"

\* The stage a failed attempt goes back to: processing to pending, a removal
\* to its own stage.
RetryStage(w) == IF pc[w] \in ProcessingCalls THEN "pending" ELSE snap[w].status

\* ReleaseForRetry under the lease; the write itself may be lost, and a failed
\* FinishJob (of a rejection or of a removal) is only logged.  In both cases
\* the row waits for its lease to lapse.
GiveUp(w) ==
    /\ cur[w] # Null
    /\ \/ UNCHANGED jobs
       \/ /\ pc[w] # "reject" /\ Holds(jobs[cur[w]], w)
          /\ SetRow(cur[w], Released(jobs[cur[w]], RetryStage(w)))
    /\ EndAttempt(w)
    /\ UNCHANGED <<media, files, purge>>

\* The call the worker is at cannot succeed: the context has expired, the
\* lease is another's, or the file it needs is not there.
Blocked(w) ==
    LET u == cur[w] IN
    \/ At(w, "health") /\ ~ctx[w]
    \/ At(w, "inspect") /\ (u \notin data \/ (Verdict[u] # "unsupported_type" /\ ~ctx[w]))
    \/ pc[w] \in {"identify", "prepared"} /\ ~(ctx[w] /\ Holds(jobs[u], w))
    \/ At(w, "copy") /\ u \notin live /\ ~(u \in data /\ ctx[w])
    \/ At(w, "rename") /\ ~tmp[w]
    \/ At(w, "verify") /\ u \notin live
    \/ At(w, "lookup") /\ ~ctx[w]
    \/ At(w, "verifyKept") /\ dup[w] \notin live
    \/ At(w, "publish") /\ ~(ctx[w] /\ MayPublish(jobs[u], w))
    \/ pc[w] \in {"deletable", "owner"} /\ ~ctx[w]
    \/ At(w, "terminate") /\ u \in data /\ (~ctx[w] \/ QueueMayNeed(u))
    \/ At(w, "checkGone") /\ u \in data /\ u \in info
    \/ At(w, "finish") /\ (u \in data \/ u \in info)

\* A claim that errors ends the scan; the worker starts over at its ticker.
ScanFault(w) ==
    /\ pc[w] \in Scans
    /\ pc' = [pc EXCEPT ![w] = "scanCleanup"]
    /\ UNCHANGED <<jobs, media, files, purge, attempt>>

FailAttempt(w) == Blocked(w) /\ GiveUp(w)

\* A transient fault: a busy database, an I/O error, an unhealthy volume.
Fault(w) == ~Blocked(w) /\ GiveUp(w)

\* tusd dies between its two unlinks, leaving one of the two files.
TusdFault(w) ==
    LET u == cur[w] IN
    /\ At(w, "terminate") /\ ctx[w] /\ ~QueueMayNeed(u)
    /\ u \in data /\ u \in info
    /\ \/ data' = data \ {u} /\ UNCHANGED info
       \/ info' = info \ {u} /\ UNCHANGED data
    /\ UNCHANGED <<media, live, staged, purge>>
    /\ \/ UNCHANGED jobs
       \/ /\ Holds(jobs[u], w)
          /\ SetRow(u, Released(jobs[u], snap[w].status))
    /\ EndAttempt(w)

\* The process dies and starts again; RequeueStartup may fail, and is then not
\* retried.  A purge in progress leaves its stage directory behind.
Restart ==
    /\ jobs' \in {jobs, [u \in Upload |-> Requeued(jobs[u])]}
    /\ pc' = [w \in Worker |-> "scanCleanup"]
    /\ cur' = [w \in Worker |-> Null]
    /\ snap' = [w \in Worker |-> NewUploadingJob]
    /\ ctx' = [w \in Worker |-> FALSE]
    /\ tmp' = [w \in Worker |-> FALSE]
    /\ dup' = [w \in Worker |-> Null]
    /\ purge' = IF purge.pc = "idle" THEN purge ELSE [purge EXCEPT !.pc = "left"]
    /\ UNCHANGED <<media, files>>

-----------------------------------------------------------------------------
(* The administrator: trash, restore, permanent deletion. *)

Trash(m) ==
    /\ media[m] = "active"
    /\ media' = [media EXCEPT ![m] = "trashed"]
    /\ UNCHANGED <<jobs, files, purge, pc, attempt>>

Untrash(m) ==
    /\ media[m] = "trashed"
    /\ media' = [media EXCEPT ![m] = "active"]
    /\ UNCHANGED <<jobs, files, purge, pc, attempt>>

\* purgeMedia reads the row, then StageForPurge moves the original aside; a
\* missing original is success.
StageForPurge(m) ==
    /\ purge.pc = "idle" /\ media[m] = "trashed"
    /\ purge' = [pc |-> "decide", item |-> m]
    /\ live' = live \ {m}
    /\ staged' = staged \cup (live \cap {m})
    /\ UNCHANGED <<jobs, media, data, info, pc, attempt>>

\* Mutant: a job in cleanup is taken to need the row no longer.
Mutant_NeededUntilPublished(m) ==
    \E u \in Upload : jobs[u].result = m /\ jobs[u].status \in {"pending", "processing"}

\* PurgeTrashed deletes the row unless it was restored meanwhile or a job that
\* is not terminal has resolved to it; an error deletes nothing.
NeededByJob(m) == \E u \in Upload : jobs[u].result = m /\ jobs[u].status \notin Terminal

\* Mutant: jobs that resolved to the row are not asked.
Mutant_PurgeUnasked ==
    LET m == purge.item IN
    /\ purge.pc = "decide"
    /\ \/ /\ media[m] = "trashed"
          /\ media' = [media EXCEPT ![m] = "none"]
          /\ purge' = [purge EXCEPT !.pc = "finalize"]
       \/ /\ purge' = [purge EXCEPT !.pc = "restore"]
          /\ UNCHANGED media
    /\ UNCHANGED <<jobs, files, pc, attempt>>

PurgeTrashed ==
    LET m == purge.item IN
    /\ purge.pc = "decide"
    /\ \/ /\ media[m] = "trashed" /\ ~NeededByJob(m)
          /\ media' = [media EXCEPT ![m] = "none"]
          /\ purge' = [purge EXCEPT !.pc = "finalize"]
       \/ /\ purge' = [purge EXCEPT !.pc = "restore"]
          /\ UNCHANGED media
    /\ UNCHANGED <<jobs, files, pc, attempt>>

\* Restore refuses to overwrite a live path; Finalize removes the staged file.
EndPurge(restore) ==
    LET m == purge.item IN
    /\ IF restore
       THEN /\ staged' = IF m \in live THEN staged ELSE staged \ {m}
            /\ live' = live \cup (staged \cap {m})
       ELSE /\ staged' = staged \ {m}
            /\ UNCHANGED live
    /\ purge' = IF restore /\ m \in live \cap staged
                THEN [purge EXCEPT !.pc = "left"]
                ELSE [pc |-> "idle", item |-> Null]
    /\ UNCHANGED <<jobs, media, data, info, pc, attempt>>

FinishPurge ==
    /\ purge.pc \in {"finalize", "restore"}
    /\ EndPurge(purge.pc = "restore")

\* Mutant: every stage a restart left behind is taken for a finished purge.
Mutant_ReconcileBlind ==
    /\ purge.pc = "left"
    /\ EndPurge(FALSE)

\* reconcilePurgeStages, on a stage a restart left behind.
ReconcilePurgeStage ==
    /\ purge.pc = "left"
    /\ EndPurge(media[purge.item] # "none")

-----------------------------------------------------------------------------
WorkerStep(w) ==
    \/ ClaimAndRunOnce(w)
    \/ CheckHealth(w) \/ Inspect(w) \/ Reject(w) \/ RecordArtifactIdentity(w)
    \/ PrepareCopy(w) \/ PrepareRename(w) \/ VerifyPrepared(w) \/ RecordPrepared(w)
    \/ LookUpExisting(w) \/ VerifyKept(w) \/ PublishMedia(w)
    \/ CheckDeletionAllowed(w) \/ CheckOwner(w) \/ RemoveArtifacts(w)
    \/ SweepTemporaries(w) \/ TerminateSource(w) \/ RemoveResidue(w) \/ FinishRemoval(w)
    \/ FailAttempt(w)

Disturbance ==
    \/ Restart
    \/ \E w \in Worker : Fault(w) \/ TusdFault(w) \/ ScanFault(w) \/ ContextExpires(w)

\* What happens when nothing goes wrong and no new purge begins.
CalmNext ==
    \/ \E w \in Worker : WorkerStep(w)
    \/ \E u \in Upload : Promote(u) \/ Discard(u) \/ BecomesDue(u) \/ LeaseLapses(u)
    \/ \E m \in Moderated : Trash(m) \/ Untrash(m)
    \/ PurgeTrashed \/ FinishPurge \/ ReconcilePurgeStage

Next ==
    \/ CalmNext
    \/ Disturbance
    \/ \E m \in Moderated : StageForPurge(m)

Spec == Init /\ [][Next]_vars

(***************************************************************************)
(* Goroutines keep running, backoffs pass, leases lapse, a purge once begun *)
(* ends.  Faults, and purges that move an original a duplicate is being    *)
(* checked against, do not recur for ever: retries are indefinite, so that *)
(* is all a pending job needs.                                             *)
(***************************************************************************)
Fairness ==
    /\ \A w \in Worker : WF_vars(WorkerStep(w))
    /\ \A u \in Upload : WF_vars(BecomesDue(u)) /\ WF_vars(LeaseLapses(u))
    /\ WF_vars(PurgeTrashed) /\ WF_vars(FinishPurge) /\ WF_vars(ReconcilePurgeStage)

EventuallyCalm == <>[][CalmNext]_vars

FairSpec == Spec /\ Fairness /\ EventuallyCalm

-----------------------------------------------------------------------------
(* Properties. *)

\* A media id with a row in the table and its original on the media volume.
Available(m) == media[m] # "none" /\ m \in live \cup staged

\* Every media row has its original, at its live path or in the stage of a
\* purge that has not deleted the row: no interleaving of a slow worker, a
\* duplicate's cleanup, a purge and a restart removes it from under the row.
PublishedHasOriginal ==
    \A m \in Upload : media[m] # "none" => m \in live \cup staged

\* A job in cleanup is about to delete its source, so the row it resolved to
\* still exists, holds the same bytes and has its original, even when that row
\* belongs to another upload that an administrator is purging.
KeptCopy ==
    \A u \in Upload : jobs[u].status = "cleanup" =>
        \E m \in Upload : /\ jobs[u].result = m
                          /\ ContentOf[m] = ContentOf[u]
                          /\ Available(m)

\* An upload that is discarded never reaches the gallery under its own id.
RejectedNeverShown ==
    \A u \in Upload : jobs[u].status \in {"discarding", "discarded"} => media[u] = "none"

\* A terminal row means both tus paths are gone, whichever worker, stale or
\* current, removed them and wherever tusd died in between.
TerminalSourceGone ==
    \A u \in Upload : jobs[u].status \in Terminal => u \notin data /\ u \notin info

\* A source disappears only under a recorded decision to discard it, or while
\* the row its job resolved to is there with its original.
RemovalDecided ==
    [][\A u \in data \ data' :
         \/ jobs[u].status = "discarding"
         \/ jobs[u].status = "cleanup" /\ Available(jobs[u].result)]_vars

\* Once promoted an upload is eventually published or discarded, and its job
\* terminal, however often attempts failed or the process died before.
PendingSettles ==
    \A u \in Upload : jobs[u].status = "pending" ~> jobs[u].status \in Terminal

-----------------------------------------------------------------------------
(***************************************************************************)
(* The inductive invariant behind the safety properties.                   *)
(***************************************************************************)
Settled == {"cleanup", "complete", "discarding", "discarded"}

\* Rows: leases where the schema allows them, a source wherever the queue may
\* need it, a result from publication on.
RowsInv ==
    \A u \in Upload :
        /\ LeaseShape(jobs[u])
        /\ QueueMayNeed(u) => u \in data
        /\ jobs[u].status \notin {"cleanup", "complete"} => jobs[u].result = Null

\* Media rows: UNIQUE(sha256), inserted only by the job that minted the id.
MediaInv ==
    /\ \A m, n \in Upload :
         media[m] # "none" /\ media[n] # "none" /\ ContentOf[m] = ContentOf[n] => m = n
    /\ \A m \in Upload : media[m] # "none" => jobs[m].status \in {"cleanup", "complete"}

\* A purge works on an id whose job is published, and only its own original is
\* away from its live path.
PurgeInv ==
    /\ purge.pc = "idle" => purge.item = Null /\ staged = {}
    /\ purge.pc # "idle" =>
         /\ purge.item \in Upload
         /\ staged \subseteq {purge.item}
         /\ jobs[purge.item].status \in {"cleanup", "complete"}
    /\ purge.pc = "finalize" => media[purge.item] = "none"

\* The stage an attempt runs, and what a lost lease still leaves true of its row.
StageInv(w) ==
    LET u == cur[w] IN
    /\ pc[w] \in ProcessingCalls => snap[w].status = "processing"
    /\ pc[w] \in RemovalCalls => snap[w].status \in {"cleanup", "discarding"}
    /\ snap[w].status = "processing" => jobs[u].status # "uploading"
    /\ snap[w].status = "cleanup" =>
         jobs[u].status \in {"cleanup", "complete"} /\ snap[w].result = jobs[u].result
    /\ snap[w].status = "discarding" => jobs[u].status \in {"discarding", "discarded"}
    /\ Holds(jobs[u], w) => jobs[u].status = snap[w].status

\* What an attempt has established by the call it is at.
CallInv(w) ==
    LET u == cur[w] IN
    /\ pc[w] \in {"prepared", "lookup", "verifyKept", "publish"} /\ Holds(jobs[u], w)
         => u \in live
    /\ pc[w] \in ProcessingCalls \ {"health", "inspect", "reject"} => Verdict[u] = "accept"
    /\ pc[w] = "unlink" => media[u] = "none"

\* A worker has an upload exactly while it runs an attempt, and records the
\* rejection of no other bytes than those the pipeline refuses.
AttemptInv ==
    \A w \in Worker :
        /\ pc[w] \in Scans <=> cur[w] = Null
        /\ pc[w] = "reject" => Verdict[cur[w]] # "accept"

WorkersInv == \A w \in Worker : cur[w] # Null => StageInv(w) /\ CallInv(w)

QueueInv ==
    /\ RowsInv
    /\ MediaInv
    /\ PublishedHasOriginal
    /\ KeptCopy
    /\ PurgeInv
    /\ AttemptInv
    /\ WorkersInv

-----------------------------------------------------------------------------
(* The queue implements the promise. *)

StateOf(status) ==
    CASE status = "uploading" -> "transferring"
      [] status \in {"pending", "processing"} -> "durable"
      [] status \in {"cleanup", "complete"} -> "published"
      [] status \in {"discarding", "discarded"} -> "condemned"

Promise == INSTANCE IngestPromise WITH
    Refusable <- {u \in Upload : Verdict[u] # "accept"},
    state     <- [u \in Upload |-> StateOf(jobs[u].status)],
    source    <- data

\* Every step of the worker pool is a step of the promise or none.
PromiseKept == Promise!Spec
=============================================================================
