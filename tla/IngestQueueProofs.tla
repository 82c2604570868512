-------------------------- MODULE IngestQueueProofs --------------------------
(***************************************************************************)
(* Proofs about IngestQueue, for any uploads, workers, contents, verdicts  *)
(* and moderated items: the types, the inductive invariant and the safety  *)
(* properties that follow from it.                                         *)
(***************************************************************************)
EXTENDS IngestQueue, TLAPS

-----------------------------------------------------------------------------
(* The rows. *)

\* Every statement of the queue yields a row of the table's type.
LEMMA RowTypes ==
    ASSUME NEW row \in UploadJob
    PROVE  /\ Promoted(row) \in UploadJob
           /\ DiscardClaimed(row) \in UploadJob
           /\ Identified(row) \in UploadJob
           /\ PreparedRow(row) \in UploadJob
           /\ Requeued(row) \in UploadJob
           /\ \A b \in BOOLEAN : [row EXCEPT !.due = b] \in UploadJob
           /\ \A b \in BOOLEAN : [row EXCEPT !.lapsed = b] \in UploadJob
           /\ \A status \in JobStatus, w \in Worker : Claimed(row, status, w) \in UploadJob
           /\ \A status \in JobStatus : Released(row, status) \in UploadJob
           /\ \A m \in Upload : Published(row, m) \in UploadJob
           /\ \A status \in JobStatus, reason \in Reason :
                Finished(row, status, reason) \in UploadJob
<1> USE DEF UploadJob
<1>0. {"pending", "cleanup", "discarding"} \subseteq JobStatus /\ "cancelled" \in Reason
  BY DEF JobStatus, Reason
<1>1. Promoted(row) \in UploadJob  BY <1>0 DEF Promoted
<1>2. DiscardClaimed(row) \in UploadJob
  <2>1. FirstReason(row.reason, "cancelled") \in Reason  BY <1>0 DEF FirstReason
  <2> QED  BY <1>0, <2>1 DEF DiscardClaimed
<1>3. Identified(row) \in UploadJob  BY DEF Identified
<1>4. PreparedRow(row) \in UploadJob  BY DEF PreparedRow
<1>5. Unleased(row) \in UploadJob  BY DEF Unleased
<1>6. Requeued(row) \in UploadJob
  <2>1. RequeueStage(row.status) \in JobStatus  BY <1>0 DEF RequeueStage
  <2>2. [Unleased(row) EXCEPT !.status = RequeueStage(row.status),
                              !.due = TRUE, !.quiet = FALSE] \in UploadJob
    BY <1>5, <2>1
  <2> HIDE DEF UploadJob
  <2> QED  BY <2>2 DEF Requeued
<1>7. \A b \in BOOLEAN : [row EXCEPT !.due = b] \in UploadJob  OBVIOUS
<1>8. \A b \in BOOLEAN : [row EXCEPT !.lapsed = b] \in UploadJob  OBVIOUS
<1>9. \A status \in JobStatus, w \in Worker : Claimed(row, status, w) \in UploadJob
  BY DEF Claimed
<1>10. \A status \in JobStatus : Released(row, status) \in UploadJob
  BY <1>5 DEF Released
<1>11. \A m \in Upload : Published(row, m) \in UploadJob
  BY <1>0, <1>5 DEF Published
<1>12. \A status \in JobStatus, reason \in Reason :
         Finished(row, status, reason) \in UploadJob
  <2> TAKE status \in JobStatus, reason \in Reason
  <2>1. FirstReason(reason, row.reason) \in Reason  BY DEF FirstReason
  <2>2. [Unleased(row) EXCEPT !.status = status, !.reason = FirstReason(reason, row.reason),
                              !.quiet = FALSE] \in UploadJob
    BY <1>5, <2>1
  <2> HIDE DEF UploadJob
  <2> QED  BY <2>2 DEF Finished
<1> HIDE DEF UploadJob
<1> QED
  BY <1>1, <1>2, <1>3, <1>4, <1>6, <1>7, <1>8, <1>9, <1>10, <1>11, <1>12

\* The row an admission writes has the table's type.
LEMMA NewRowType == NewUploadingJob \in UploadJob
BY SMT DEF NewUploadingJob, UploadJob, JobStatus, Reason

-----------------------------------------------------------------------------
(* Types. *)

\* Giving an upload a well-typed row keeps the table's type.
LEMMA SetRowType ==
    ASSUME jobs \in [Upload -> UploadJob], NEW u, NEW row \in UploadJob, SetRow(u, row)
    PROVE  jobs' \in [Upload -> UploadJob]
BY DEF SetRow

\* The variables of the workers' attempts.
AttemptTypes ==
    /\ pc \in [Worker -> Scans \cup ProcessingCalls \cup RemovalCalls]
    /\ cur \in [Worker -> Upload \cup {Null}]
    /\ snap \in [Worker -> UploadJob]
    /\ ctx \in [Worker -> BOOLEAN]
    /\ tmp \in [Worker -> BOOLEAN]
    /\ dup \in [Worker -> Upload \cup {Null}]
    /\ AttemptInv

\* An attempt that ends leaves its worker scanning, without an upload.
LEMMA EndAttemptTypes ==
    ASSUME AttemptTypes, NEW w \in Worker, EndAttempt(w)
    PROVE  AttemptTypes'
<1>1. NewUploadingJob \in UploadJob  BY NewRowType
<1> QED
  BY <1>1, QueueAssumption DEF AttemptTypes, EndAttempt, AttemptInv, Scans

\* An attempt that moves to its next call keeps its upload and its types.
LEMMA GotoTypes ==
    ASSUME AttemptTypes, NEW w \in Worker, cur[w] # Null,
           NEW call \in ProcessingCalls \cup RemovalCalls, Goto(w, call),
           call = "reject" => Verdict[cur[w]] # "accept",
           tmp' \in [Worker -> BOOLEAN], dup' \in [Worker -> Upload \cup {Null}]
    PROVE  AttemptTypes'
<1>1. call \notin Scans  BY DEF Scans, ProcessingCalls, RemovalCalls
<1> QED
  BY <1>1 DEF AttemptTypes, Goto, AttemptInv

\* At a call of an attempt, the worker has an upload.
LEMMA AtCall ==
    ASSUME AttemptTypes, NEW w \in Worker, pc[w] \notin Scans
    PROVE  cur[w] \in Upload
BY DEF AttemptTypes, AttemptInv

\* The tables, the files and the purge.
StoreTypes ==
    /\ jobs \in [Upload -> UploadJob]
    /\ media \in [Upload -> {"none", "active", "trashed"}]
    /\ data \subseteq Upload
    /\ info \subseteq Upload
    /\ live \subseteq Upload
    /\ staged \subseteq Upload
    /\ purge \in [pc   : {"idle", "decide", "finalize", "restore", "left"},
                  item : Upload \cup {Null}]

Typed == StoreTypes /\ AttemptTypes

\* Typed is the type invariant and the correspondence of calls and attempts.
LEMMA TypedParts == Typed <=> TypeOK /\ AttemptInv
BY DEF Typed, StoreTypes, AttemptTypes, TypeOK

\* Rows a stage writes for the upload of its attempt.
LEMMA WorkerRows ==
    ASSUME Typed, NEW w \in Worker, cur[w] \in Upload
    PROVE  /\ jobs[cur[w]] \in UploadJob
           /\ snap[w] \in UploadJob
           /\ Finished(jobs[cur[w]], "complete", "") \in UploadJob
           /\ Finished(jobs[cur[w]], "discarded", snap[w].reason) \in UploadJob
           /\ pc[w] = "reject" =>
                Finished(jobs[cur[w]], "discarding", Verdict[cur[w]]) \in UploadJob
           /\ Released(jobs[cur[w]], snap[w].status) \in UploadJob
           /\ Released(jobs[cur[w]], RetryStage(w)) \in UploadJob
<1>1. jobs[cur[w]] \in UploadJob /\ snap[w] \in UploadJob
  <2> HIDE DEF UploadJob
  <2> QED  BY DEF Typed, StoreTypes, AttemptTypes
<1>2. snap[w].status \in JobStatus /\ snap[w].reason \in Reason
  BY <1>1 DEF UploadJob
<1>3. pc[w] = "reject" => Verdict[cur[w]] \in Reason
  BY QueueAssumption DEF Reason, Typed, AttemptTypes, AttemptInv
<1>4. "complete" \in JobStatus /\ "discarding" \in JobStatus /\ "discarded" \in JobStatus
  BY DEF JobStatus
<1>5. RetryStage(w) \in JobStatus  BY <1>2 DEF RetryStage, JobStatus
<1>6. "" \in Reason  BY DEF Reason
<1> HIDE DEF UploadJob, JobStatus, Reason
<1> QED
  BY <1>1, <1>2, <1>3, <1>4, <1>5, <1>6, RowTypes

\* Every worker step keeps the types: a call that goes on to the next one, and
\* a call that ends the attempt.
LEMMA TypedWorkerStep ==
    ASSUME Typed, NEW w \in Worker, WorkerStep(w) \/ Fault(w) \/ TusdFault(w) \/ ScanFault(w)
    PROVE  Typed'
<1>0. AttemptTypes /\ StoreTypes  BY DEF Typed
<1> USE DEF At
<1>1. CASE ClaimAndRunOnce(w)
  <2> SUFFICES ASSUME NEW here \in Scans, NEW from \in JobStatus, NEW to \in JobStatus,
                      NEW next \in Scans, Scan(w, here, from, to, next)
               PROVE  Typed'
    BY <1>1 DEF ClaimAndRunOnce, Scans, JobStatus
  <2>1. CASE \A u \in Upload : ~Claimable(jobs[u], from)
    <3>1. pc' = [pc EXCEPT ![w] = next] /\ UNCHANGED <<jobs, snap, cur, ctx>>
      BY <2>1 DEF Scan
    <3>2. AttemptTypes'
      BY <1>0, <3>1 DEF Scan, AttemptTypes, AttemptInv, Scans
    <3> QED  BY <1>0, <3>1, <3>2 DEF Scan, Typed, StoreTypes, files
  <2>2. ASSUME NEW u \in Upload, Claimable(jobs[u], from),
               SetRow(u, Claimed(jobs[u], to, w)),
               snap' = [snap EXCEPT ![w] = Claimed(jobs[u], to, w)],
               cur' = [cur EXCEPT ![w] = u], ctx' = [ctx EXCEPT ![w] = TRUE],
               pc' = [pc EXCEPT ![w] = FirstCall(from)]
        PROVE  Typed'
    <3>1. jobs[u] \in UploadJob  BY <1>0 DEF StoreTypes
    <3>2. Claimed(jobs[u], to, w) \in UploadJob  BY <3>1, RowTypes
    <3>3. jobs' \in [Upload -> UploadJob]  BY <1>0, <2>2, <3>2, SetRowType DEF StoreTypes
    <3>4. FirstCall(from) \in {"health", "deletable"}  BY DEF FirstCall
    <3>5. AttemptTypes'
      BY <1>0, <2>2, <3>2, <3>4, QueueAssumption
         DEF Scan, AttemptTypes, AttemptInv, Scans, ProcessingCalls, RemovalCalls
    <3> QED  BY <1>0, <3>3, <3>5 DEF Scan, Typed, StoreTypes, files
  <2> QED  BY <2>1, <2>2 DEF Scan
<1>2. CASE CheckHealth(w)
  <2>1. cur[w] \in Upload /\ cur[w] # Null
    BY <1>0, <1>2, AtCall, QueueAssumption DEF CheckHealth, Scans
  <2>3. StoreTypes'
    BY <1>0, <1>2, <2>1 DEF CheckHealth, StoreTypes, files
  <2>4. AttemptTypes'
    BY <1>0, <1>2, <2>1, GotoTypes
       DEF CheckHealth, AttemptTypes, ProcessingCalls, RemovalCalls
  <2> QED  BY <2>3, <2>4 DEF Typed
<1>3. CASE Inspect(w)
  <2>1. cur[w] \in Upload /\ cur[w] # Null
    BY <1>0, <1>3, AtCall, QueueAssumption DEF Inspect, Scans
  <2>3. StoreTypes'
    BY <1>0, <1>3, <2>1 DEF Inspect, StoreTypes, files
  <2>4. AttemptTypes'
    BY <1>0, <1>3, <2>1, GotoTypes
       DEF Inspect, AttemptTypes, ProcessingCalls, RemovalCalls
  <2> QED  BY <2>3, <2>4 DEF Typed
<1>4. CASE RecordArtifactIdentity(w)
  <2>1. cur[w] \in Upload /\ cur[w] # Null
    BY <1>0, <1>4, AtCall, QueueAssumption DEF RecordArtifactIdentity, Scans
  <2>2. Identified(jobs[cur[w]]) \in UploadJob  BY <1>0, <2>1, RowTypes DEF StoreTypes
  <2>3. StoreTypes'
    BY <1>0, <1>4, <2>2, SetRowType DEF RecordArtifactIdentity, StoreTypes, files
  <2>4. AttemptTypes'
    BY <1>0, <1>4, <2>1, GotoTypes
       DEF RecordArtifactIdentity, AttemptTypes, ProcessingCalls, RemovalCalls
  <2> QED  BY <2>3, <2>4 DEF Typed
<1>5. CASE PrepareCopy(w)
  <2>1. cur[w] \in Upload /\ cur[w] # Null
    BY <1>0, <1>5, AtCall, QueueAssumption DEF PrepareCopy, Scans
  <2>3. StoreTypes'
    BY <1>0, <1>5, <2>1 DEF PrepareCopy, StoreTypes, files
  <2>4. AttemptTypes'
    BY <1>0, <1>5, <2>1, GotoTypes
       DEF PrepareCopy, AttemptTypes, ProcessingCalls, RemovalCalls
  <2> QED  BY <2>3, <2>4 DEF Typed
<1>6. CASE PrepareRename(w)
  <2>1. cur[w] \in Upload /\ cur[w] # Null
    BY <1>0, <1>6, AtCall, QueueAssumption DEF PrepareRename, Scans
  <2>3. StoreTypes'
    BY <1>0, <1>6, <2>1 DEF PrepareRename, StoreTypes, files
  <2>4. AttemptTypes'
    BY <1>0, <1>6, <2>1, GotoTypes
       DEF PrepareRename, AttemptTypes, ProcessingCalls, RemovalCalls
  <2> QED  BY <2>3, <2>4 DEF Typed
<1>7. CASE VerifyPrepared(w)
  <2>1. cur[w] \in Upload /\ cur[w] # Null
    BY <1>0, <1>7, AtCall, QueueAssumption DEF VerifyPrepared, Scans
  <2>3. StoreTypes'
    BY <1>0, <1>7, <2>1 DEF VerifyPrepared, StoreTypes, files
  <2>4. AttemptTypes'
    BY <1>0, <1>7, <2>1, GotoTypes
       DEF VerifyPrepared, AttemptTypes, ProcessingCalls, RemovalCalls
  <2> QED  BY <2>3, <2>4 DEF Typed
<1>8. CASE RecordPrepared(w)
  <2>1. cur[w] \in Upload /\ cur[w] # Null
    BY <1>0, <1>8, AtCall, QueueAssumption DEF RecordPrepared, Scans
  <2>2. PreparedRow(jobs[cur[w]]) \in UploadJob  BY <1>0, <2>1, RowTypes DEF StoreTypes
  <2>3. StoreTypes'
    BY <1>0, <1>8, <2>2, SetRowType DEF RecordPrepared, StoreTypes, files
  <2>4. AttemptTypes'
    BY <1>0, <1>8, <2>1, GotoTypes
       DEF RecordPrepared, AttemptTypes, ProcessingCalls, RemovalCalls
  <2> QED  BY <2>3, <2>4 DEF Typed
<1>9. CASE LookUpExisting(w)
  <2>1. cur[w] \in Upload /\ cur[w] # Null
    BY <1>0, <1>9, AtCall, QueueAssumption DEF LookUpExisting, Scans
  <2>3. StoreTypes'
    BY <1>0, <1>9, <2>1 DEF LookUpExisting, StoreTypes, files
  <2>4. AttemptTypes'
    BY <1>0, <1>9, <2>1, GotoTypes
       DEF LookUpExisting, AttemptTypes, ProcessingCalls, RemovalCalls
  <2> QED  BY <2>3, <2>4 DEF Typed
<1>10. CASE VerifyKept(w)
  <2>1. cur[w] \in Upload /\ cur[w] # Null
    BY <1>0, <1>10, AtCall, QueueAssumption DEF VerifyKept, Scans
  <2>3. StoreTypes'
    BY <1>0, <1>10, <2>1 DEF VerifyKept, StoreTypes, files
  <2>4. AttemptTypes'
    BY <1>0, <1>10, <2>1, GotoTypes
       DEF VerifyKept, AttemptTypes, ProcessingCalls, RemovalCalls
  <2> QED  BY <2>3, <2>4 DEF Typed
<1>11. CASE CheckDeletionAllowed(w)
  <2>1. cur[w] \in Upload /\ cur[w] # Null
    BY <1>0, <1>11, AtCall, QueueAssumption DEF CheckDeletionAllowed, Scans
  <2>3. StoreTypes'
    BY <1>0, <1>11, <2>1 DEF CheckDeletionAllowed, StoreTypes, files
  <2>4. AttemptTypes'
    BY <1>0, <1>11, <2>1, GotoTypes
       DEF CheckDeletionAllowed, AttemptTypes, ProcessingCalls, RemovalCalls
  <2> QED  BY <2>3, <2>4 DEF Typed
<1>12. CASE CheckOwner(w)
  <2>1. cur[w] \in Upload /\ cur[w] # Null
    BY <1>0, <1>12, AtCall, QueueAssumption DEF CheckOwner, Scans
  <2>3. StoreTypes'
    BY <1>0, <1>12, <2>1 DEF CheckOwner, StoreTypes, files
  <2>4. AttemptTypes'
    BY <1>0, <1>12, <2>1, GotoTypes
       DEF CheckOwner, AttemptTypes, ProcessingCalls, RemovalCalls
  <2> QED  BY <2>3, <2>4 DEF Typed
<1>13. CASE RemoveArtifacts(w)
  <2>1. cur[w] \in Upload /\ cur[w] # Null
    BY <1>0, <1>13, AtCall, QueueAssumption DEF RemoveArtifacts, Scans
  <2>3. StoreTypes'
    BY <1>0, <1>13, <2>1 DEF RemoveArtifacts, StoreTypes, files
  <2>4. AttemptTypes'
    BY <1>0, <1>13, <2>1, GotoTypes
       DEF RemoveArtifacts, AttemptTypes, ProcessingCalls, RemovalCalls
  <2> QED  BY <2>3, <2>4 DEF Typed
<1>14. CASE SweepTemporaries(w)
  <2>1. cur[w] \in Upload /\ cur[w] # Null
    BY <1>0, <1>14, AtCall, QueueAssumption DEF SweepTemporaries, Scans
  <2>3. StoreTypes'
    BY <1>0, <1>14, <2>1 DEF SweepTemporaries, StoreTypes, files
  <2>4. AttemptTypes'
    BY <1>0, <1>14, <2>1, GotoTypes
       DEF SweepTemporaries, AttemptTypes, ProcessingCalls, RemovalCalls
  <2> QED  BY <2>3, <2>4 DEF Typed
<1>15. CASE TerminateSource(w)
  <2>1. cur[w] \in Upload /\ cur[w] # Null
    BY <1>0, <1>15, AtCall, QueueAssumption DEF TerminateSource, Scans
  <2>3. StoreTypes'
    BY <1>0, <1>15, <2>1 DEF TerminateSource, StoreTypes, files
  <2>4. AttemptTypes'
    BY <1>0, <1>15, <2>1, GotoTypes
       DEF TerminateSource, AttemptTypes, ProcessingCalls, RemovalCalls
  <2> QED  BY <2>3, <2>4 DEF Typed
<1>16. CASE RemoveResidue(w)
  <2>1. cur[w] \in Upload /\ cur[w] # Null
    BY <1>0, <1>16, AtCall, QueueAssumption DEF RemoveResidue, Scans
  <2>3. StoreTypes'
    BY <1>0, <1>16, <2>1 DEF RemoveResidue, StoreTypes, files
  <2>4. AttemptTypes'
    BY <1>0, <1>16, <2>1, GotoTypes
       DEF RemoveResidue, AttemptTypes, ProcessingCalls, RemovalCalls
  <2> QED  BY <2>3, <2>4 DEF Typed
<1>17. CASE Reject(w)
  <2>1. cur[w] \in Upload
    BY <1>0, <1>17, AtCall DEF Reject, Scans
  <2>3. StoreTypes'
    BY <1>0, <1>17, <2>1, WorkerRows DEF Reject, StoreTypes, files
  <2>4. AttemptTypes'
    BY <1>0, <1>17, EndAttemptTypes DEF Reject
  <2> QED  BY <2>3, <2>4 DEF Typed
<1>18. CASE PublishMedia(w)
  <2>1. cur[w] \in Upload
    BY <1>0, <1>18, AtCall DEF PublishMedia, Scans
  <2>2. \A m \in Upload : Published(jobs[cur[w]], m) \in UploadJob
    BY <1>0, <2>1, RowTypes DEF StoreTypes
  <2>3. StoreTypes'
    BY <1>0, <1>18, <2>1, <2>2, SetRowType DEF PublishMedia, StoreTypes, files
  <2>4. AttemptTypes'
    BY <1>0, <1>18, EndAttemptTypes DEF PublishMedia
  <2> QED  BY <2>3, <2>4 DEF Typed
<1>19. CASE FinishRemoval(w)
  <2>1. cur[w] \in Upload
    BY <1>0, <1>19, AtCall DEF FinishRemoval, Scans
  <2>3. StoreTypes'
    BY <1>0, <1>19, <2>1, WorkerRows DEF FinishRemoval, StoreTypes, files
  <2>4. AttemptTypes'
    BY <1>0, <1>19, EndAttemptTypes DEF FinishRemoval
  <2> QED  BY <2>3, <2>4 DEF Typed
<1>20. CASE GiveUp(w)
  <2>1. cur[w] \in Upload  BY <1>0, <1>20 DEF GiveUp, AttemptTypes
  <2>2. StoreTypes'
    BY <1>0, <1>20, <2>1, WorkerRows, SetRowType DEF GiveUp, StoreTypes, files
  <2>3. AttemptTypes'  BY <1>0, <1>20, EndAttemptTypes DEF GiveUp
  <2> QED  BY <2>2, <2>3 DEF Typed
<1>21. CASE TusdFault(w)
  <2>1. cur[w] \in Upload  BY <1>0, <1>21, AtCall DEF TusdFault, Scans
  <2>2. jobs' \in [Upload -> UploadJob]
    BY <1>0, <1>21, <2>1, WorkerRows, SetRowType DEF TusdFault, StoreTypes
  <2>3. StoreTypes'
    BY <1>0, <1>21, <2>2 DEF TusdFault, StoreTypes
  <2>4. AttemptTypes'  BY <1>0, <1>21, EndAttemptTypes DEF TusdFault
  <2> QED  BY <2>3, <2>4 DEF Typed
<1>22. CASE ScanFault(w)
  <2>1. AttemptTypes'
    BY <1>0, <1>22 DEF ScanFault, AttemptTypes, AttemptInv, Scans, attempt
  <2> QED  BY <1>0, <1>22, <2>1 DEF ScanFault, Typed, StoreTypes, files
<1> QED
  BY <1>1, <1>2, <1>3, <1>4, <1>5, <1>6, <1>7, <1>8, <1>9, <1>10, <1>11, <1>12, <1>13, <1>14, <1>15, <1>16, <1>17, <1>18, <1>19, <1>20, <1>21, <1>22
     DEF WorkerStep, FailAttempt, Fault

\* A step that changes no attempt and leaves the stores typed.
LEMMA SameAttempts ==
    ASSUME Typed, StoreTypes', UNCHANGED <<pc, attempt>>
    PROVE  Typed'
BY DEF Typed, AttemptTypes, AttemptInv, attempt

\* The rest of the system, the administrator and a restart keep the types.
LEMMA TypedOtherStep ==
    ASSUME Typed,
           \/ Restart
           \/ \E w \in Worker : ContextExpires(w)
           \/ \E u \in Upload : Promote(u) \/ Discard(u) \/ BecomesDue(u) \/ LeaseLapses(u)
           \/ \E m \in Upload : Trash(m) \/ Untrash(m) \/ StageForPurge(m)
           \/ PurgeTrashed \/ FinishPurge \/ ReconcilePurgeStage
    PROVE  Typed'
<1>0. AttemptTypes /\ StoreTypes  BY DEF Typed
<1>1. CASE Restart
  <2>1. [u \in Upload |-> Requeued(jobs[u])] \in [Upload -> UploadJob]
    BY <1>0, RowTypes DEF StoreTypes
  <2>2. StoreTypes'  BY <1>0, <1>1, <2>1 DEF Restart, StoreTypes, files
  <2>3. NewUploadingJob \in UploadJob  BY NewRowType
  <2>4. AttemptTypes'
    BY <1>1, <2>3 DEF Restart, AttemptTypes, AttemptInv, Scans
  <2> QED  BY <2>2, <2>4 DEF Typed
<1>2. ASSUME NEW w \in Worker, ContextExpires(w)  PROVE Typed'
  BY <1>0, <1>2 DEF ContextExpires, Typed, StoreTypes, AttemptTypes, AttemptInv, files
<1>3. ASSUME NEW u \in Upload, Promote(u) \/ Discard(u) \/ BecomesDue(u) \/ LeaseLapses(u)
      PROVE  Typed'
  <2>1. jobs[u] \in UploadJob  BY <1>0 DEF StoreTypes
  <2>2. /\ Promoted(jobs[u]) \in UploadJob
        /\ DiscardClaimed(jobs[u]) \in UploadJob
        /\ [jobs[u] EXCEPT !.due = TRUE] \in UploadJob
        /\ [jobs[u] EXCEPT !.lapsed = TRUE] \in UploadJob
    BY <2>1, RowTypes
  <2>3. jobs' \in [Upload -> UploadJob]
    BY <1>0, <1>3, <2>2, SetRowType
       DEF StoreTypes, Promote, Discard, BecomesDue, LeaseLapses
  <2>4. StoreTypes'
    BY <1>0, <1>3, <2>3
       DEF StoreTypes, Promote, Discard, BecomesDue, LeaseLapses, files
  <2> QED
    BY <1>3, <2>4, SameAttempts DEF Promote, Discard, BecomesDue, LeaseLapses
<1>4. ASSUME NEW m \in Upload, Trash(m) \/ Untrash(m) \/ StageForPurge(m)
      PROVE  Typed'
  <2>1. StoreTypes'
    BY <1>0, <1>4 DEF StoreTypes, Trash, Untrash, StageForPurge, files
  <2> QED  BY <1>4, <2>1, SameAttempts DEF Trash, Untrash, StageForPurge
<1>5. CASE PurgeTrashed
  <2>1. StoreTypes'
    BY <1>0, <1>5 DEF StoreTypes, PurgeTrashed, files
  <2> QED  BY <1>5, <2>1, SameAttempts DEF PurgeTrashed
<1>6. CASE FinishPurge \/ ReconcilePurgeStage
  <2>1. PICK b \in BOOLEAN : EndPurge(b)
    BY <1>6 DEF FinishPurge, ReconcilePurgeStage
  <2>2. StoreTypes'
    BY <1>0, <2>1 DEF StoreTypes, EndPurge
  <2> QED  BY <2>1, <2>2, SameAttempts DEF EndPurge
<1> QED  BY <1>1, <1>2, <1>3, <1>4, <1>5, <1>6

\* A step that changes nothing keeps the types.
LEMMA TypedStutter == Typed /\ UNCHANGED vars => Typed'
BY DEF Typed, StoreTypes, AttemptTypes, AttemptInv, vars

\* The queue starts well typed: rows in uploading, workers scanning.
LEMMA TypedInit == Init => Typed
<1> SUFFICES ASSUME Init PROVE Typed  OBVIOUS
<1>1. NewUploadingJob \in UploadJob  BY NewRowType
<1> QED
  BY <1>1 DEF Init, Typed, StoreTypes, AttemptTypes, AttemptInv, Scans

\* The types are inductive.
LEMMA TypedStep == Typed /\ [Next]_vars => Typed'
<1> SUFFICES ASSUME Typed, [Next]_vars  PROVE Typed'  OBVIOUS
<1>1. CASE UNCHANGED vars  BY <1>1, TypedStutter
<1>2. ASSUME NEW w \in Worker, WorkerStep(w) \/ Fault(w) \/ TusdFault(w) \/ ScanFault(w)
      PROVE  Typed'
  BY <1>2, TypedWorkerStep
<1>3. ASSUME \/ Restart
             \/ \E w \in Worker : ContextExpires(w)
             \/ \E u \in Upload : Promote(u) \/ Discard(u) \/ BecomesDue(u) \/ LeaseLapses(u)
             \/ \E m \in Upload : Trash(m) \/ Untrash(m) \/ StageForPurge(m)
             \/ PurgeTrashed \/ FinishPurge \/ ReconcilePurgeStage
      PROVE  Typed'
  BY <1>3, TypedOtherStep
<1> QED
  BY <1>1, <1>2, <1>3, QueueAssumption DEF Next, CalmNext, Disturbance

\* Type correctness: no statement, call, fault or restart of the pool writes a
\* row or an attempt the program could not have.
THEOREM TypeCorrect == Spec => []TypeOK
<1>1. Typed => TypeOK  BY TypedParts
<1> QED  BY <1>1, TypedInit, TypedStep, PTL DEF Spec

-----------------------------------------------------------------------------
(***************************************************************************)
(* Safety.  Two ideas carry the argument.  A row only advances: nothing    *)
(* brings a published row out of cleanup and complete, or a condemned one  *)
(* out of discarding and discarded, so what a stale worker read of its row *)
(* stays true after it has lost the lease.  And whatever takes an original *)
(* away from its live path does it for an id no worker is still about to   *)
(* publish.                                                                *)
(***************************************************************************)

Shown == {"cleanup", "complete"}
Condemned == {"discarding", "discarded"}

\* What a statement may do to a row, when any lease it hands out is w's.
Advances(r, s, w) ==
    /\ LeaseShape(s)
    /\ r.status # "uploading" => s.status # "uploading"
    /\ r.status \in Shown => s.status \in Shown /\ s.result = r.result
    /\ r.status \in Condemned => s.status \in Condemned
    /\ s.status \notin Shown => s.result = Null
    /\ \/ s.token = Null
       \/ s.token = w
       \/ s.token = r.token /\ s.status = r.status

\* ... without publishing it.
Unpublished(r, s) == s.status = "cleanup" => r.status = "cleanup"

\* The invariants of the tables, the files and the purge.
StoresInv == RowsInv /\ MediaInv /\ PublishedHasOriginal /\ KeptCopy /\ PurgeInv

\* The shape RowsInv gives a row.
RowShape(row) ==
    /\ LeaseShape(row)
    /\ row.status \notin Shown => row.result = Null

-----------------------------------------------------------------------------
(* Rows. *)

\* Writes that leave the stage alone.
LEMMA SameStageAdvances ==
    ASSUME NEW row \in UploadJob, RowShape(row), NEW w
    PROVE  /\ Advances(row, row, w) /\ Unpublished(row, row)
           /\ Advances(row, Identified(row), w) /\ Unpublished(row, Identified(row))
           /\ Advances(row, PreparedRow(row), w) /\ Unpublished(row, PreparedRow(row))
           /\ LET s == [row EXCEPT !.due = TRUE]
              IN  Advances(row, s, w) /\ Unpublished(row, s)
           /\ row.token # Null =>
                LET s == [row EXCEPT !.lapsed = TRUE]
                IN  Advances(row, s, w) /\ Unpublished(row, s)
BY DEF RowShape, Advances, Unpublished, LeaseShape, Identified, PreparedRow, UploadJob,
       Shown, Condemned

\* The statements that move a row, each under its WHERE clause.
LEMMA StageAdvances ==
    ASSUME NEW row \in UploadJob, RowShape(row), NEW w
    PROVE  /\ MayPromote(row) =>
                Advances(row, Promoted(row), w) /\ Unpublished(row, Promoted(row))
           /\ MayDiscard(row) =>
                Advances(row, DiscardClaimed(row), w) /\ Unpublished(row, DiscardClaimed(row))
           /\ \A reason : row.status = "processing" =>
                LET s == Finished(row, "discarding", reason)
                IN  Advances(row, s, w) /\ Unpublished(row, s)
           /\ \A reason : row.status = "cleanup" =>
                LET s == Finished(row, "complete", reason)
                IN  Advances(row, s, w) /\ Unpublished(row, s)
           /\ \A reason : row.status = "discarding" =>
                LET s == Finished(row, "discarded", reason)
                IN  Advances(row, s, w) /\ Unpublished(row, s)
           /\ row.status = "processing" =>
                LET s == Released(row, "pending")
                IN  Advances(row, s, w) /\ Unpublished(row, s)
           /\ row.status \in {"cleanup", "discarding"} =>
                LET s == Released(row, row.status)
                IN  Advances(row, s, w) /\ Unpublished(row, s)
           /\ Advances(row, Requeued(row), w) /\ Unpublished(row, Requeued(row))
           /\ \A m \in Upload : row.status = "processing" => Advances(row, Published(row, m), w)
<1> USE QueueAssumption DEF RowShape, Advances, Unpublished, LeaseShape, UploadJob,
        Shown, Condemned
<1>1. MayPromote(row) =>
        Advances(row, Promoted(row), w) /\ Unpublished(row, Promoted(row))
  BY DEF MayPromote, Promoted
<1>2. MayDiscard(row) =>
        Advances(row, DiscardClaimed(row), w) /\ Unpublished(row, DiscardClaimed(row))
  BY DEF MayDiscard, DiscardClaimed
<1>3. \A reason : row.status = "processing" =>
        LET s == Finished(row, "discarding", reason)
        IN  Advances(row, s, w) /\ Unpublished(row, s)
  BY DEF Finished, Unleased
<1>4. \A reason : row.status = "cleanup" =>
        LET s == Finished(row, "complete", reason)
        IN  Advances(row, s, w) /\ Unpublished(row, s)
  BY DEF Finished, Unleased
<1>5. \A reason : row.status = "discarding" =>
        LET s == Finished(row, "discarded", reason)
        IN  Advances(row, s, w) /\ Unpublished(row, s)
  BY DEF Finished, Unleased
<1>6. row.status = "processing" =>
        LET s == Released(row, "pending")
        IN  Advances(row, s, w) /\ Unpublished(row, s)
  BY DEF Released, Unleased
<1>7. row.status \in {"cleanup", "discarding"} =>
        LET s == Released(row, row.status)
        IN  Advances(row, s, w) /\ Unpublished(row, s)
  BY DEF Released, Unleased
<1>8. Advances(row, Requeued(row), w) /\ Unpublished(row, Requeued(row))
  BY DEF Requeued, RequeueStage, Unleased
<1>9. \A m \in Upload : row.status = "processing" => Advances(row, Published(row, m), w)
  BY DEF Published, Unleased
<1> QED
  BY <1>1, <1>2, <1>3, <1>4, <1>5, <1>6, <1>7, <1>8, <1>9

\* A claim gives the lease to the claiming worker.
LEMMA ClaimAdvances ==
    ASSUME NEW row \in UploadJob, RowShape(row), NEW w \in Worker, NEW from, NEW to,
           row.status = from,
           \/ from \in {"cleanup", "discarding", "processing"} /\ to = from
           \/ from = "pending" /\ to = "processing"
    PROVE  /\ Advances(row, Claimed(row, to, w), w) /\ Unpublished(row, Claimed(row, to, w))
           /\ Claimed(row, to, w).status = to
           /\ Claimed(row, to, w).result = row.result
           /\ Claimed(row, to, w).token = w
BY QueueAssumption
   DEF RowShape, Advances, Unpublished, LeaseShape, UploadJob, Shown, Condemned, Claimed,
       Terminal

-----------------------------------------------------------------------------
(* What a step leaves true of the attempts and the stores it does not own. *)

\* Rows advance, an original leaves its live path only once its upload is
\* settled, and a media row appears only before.
Steady(w) ==
    /\ \A u \in Upload : Advances(jobs[u], jobs'[u], w)
    /\ \A u \in live : u \notin live' => jobs[u].status \in Settled
    /\ \A u \in Upload : media'[u] # "none" => media[u] # "none" \/ jobs[u].status \notin Settled

AttemptOk(w) == StageInv(w) /\ CallInv(w)

\* RowsInv gives every row its type and shape.
LEMMA Rows ==
    ASSUME Typed, RowsInv, NEW u \in Upload
    PROVE  jobs[u] \in UploadJob /\ RowShape(jobs[u])
<1>1. jobs[u] \in UploadJob  BY DEF Typed, StoreTypes
<1>2. RowShape(jobs[u])  BY DEF RowsInv, RowShape, Shown
<1> QED  BY <1>1, <1>2

\* An attempt survives every steady step of others.
LEMMA OthersUndisturbed ==
    ASSUME Typed, QueueInv, NEW w, Steady(w), NEW x \in Worker, x # w, cur[x] # Null,
           UNCHANGED <<pc[x], cur[x], snap[x]>>
    PROVE  AttemptOk(x)'
<1> DEFINE u == cur[x]
<1>1. u \in Upload  BY DEF Typed, AttemptTypes
<1>2. StageInv(x) /\ CallInv(x)  BY DEF QueueInv, WorkersInv
<1>3. Advances(jobs[u], jobs'[u], w)  BY <1>1 DEF Steady
<1>4. jobs'[u].token = x => jobs[u].token = x /\ jobs'[u].status = jobs[u].status
  BY <1>3, QueueAssumption DEF Advances
<1>5. StageInv(x)'
  BY <1>2, <1>3, <1>4 DEF StageInv, Advances, Holds, Shown, Condemned
<1>6. CallInv(x)'
  <2>1. ASSUME pc[x] \in {"prepared", "lookup", "verifyKept", "publish"}, jobs'[u].token = x
        PROVE  u \in live'
    <3>1. u \in live /\ jobs[u].status = "processing"
      BY <1>2, <1>4, <2>1 DEF CallInv, StageInv, Holds, ProcessingCalls
    <3> QED  BY <3>1 DEF Steady, Settled
  <2>2. ASSUME pc[x] = "unlink"  PROVE media'[u] = "none"
    <3>1. media[u] = "none" /\ jobs[u].status \in Settled
      BY <1>2, <2>2 DEF CallInv, StageInv, RemovalCalls, Settled
    <3> QED  BY <1>1, <3>1 DEF Steady
  <2> QED  BY <1>2, <2>1, <2>2 DEF CallInv, Holds
<1> QED  BY <1>5, <1>6 DEF AttemptOk

\* Advancing rows keep their shape, and a source while they may need it.
LEMMA RowsUndisturbed ==
    ASSUME Typed, Typed', QueueInv, NEW w, Steady(w),
           \A u \in data : u \in data' \/ jobs[u].status \in Settled
    PROVE  RowsInv'
<1> SUFFICES ASSUME NEW u \in Upload
             PROVE  /\ LeaseShape(jobs'[u])
                    /\ QueueMayNeed(u)' => u \in data'
                    /\ jobs'[u].status \notin {"cleanup", "complete"} => jobs'[u].result = Null
  BY DEF RowsInv
<1>1. Advances(jobs[u], jobs'[u], w)  BY DEF Steady
<1>2. jobs[u].status \in JobStatus
  <2>1. jobs[u] \in UploadJob  BY DEF Typed, StoreTypes
  <2> QED  BY <2>1 DEF UploadJob
<1>3. QueueMayNeed(u)' => QueueMayNeed(u)
  BY <1>1, <1>2 DEF QueueMayNeed, Advances, JobStatus, Shown, Condemned
<1>4. QueueMayNeed(u) => u \in data /\ jobs[u].status \notin Settled
  BY DEF QueueInv, RowsInv, QueueMayNeed, Settled
<1> QED  BY <1>1, <1>3, <1>4 DEF Advances, Shown

\* The stores keep their invariants when rows advance without being published,
\* only unneeded sources and unowned originals go, and no media row changes.
LEMMA StoresUndisturbed ==
    ASSUME Typed, Typed', QueueInv, NEW w, Steady(w),
           \A u \in Upload : Unpublished(jobs[u], jobs'[u]),
           \A u \in data : u \in data' \/ jobs[u].status \in Settled,
           \A m \in live : m \in live' \/ media[m] = "none",
           media' = media, staged' = staged,
           purge' = purge \/ (purge.pc # "idle" /\ purge' = [purge EXCEPT !.pc = "left"])
    PROVE  StoresInv'
<1>0. \A u \in Upload : Advances(jobs[u], jobs'[u], w)
  BY DEF Steady
<1>1. RowsInv'  BY RowsUndisturbed
<1>2. MediaInv'
  BY <1>0 DEF QueueInv, MediaInv, Advances, Shown
<1>3. PublishedHasOriginal'
  BY DEF QueueInv, PublishedHasOriginal
<1>4. KeptCopy'
  <2> SUFFICES ASSUME NEW u \in Upload, jobs'[u].status = "cleanup"
               PROVE  \E m \in Upload : /\ jobs'[u].result = m
                                        /\ ContentOf[m] = ContentOf[u]
                                        /\ Available(m)'
    BY DEF KeptCopy
  <2>1. jobs[u].status = "cleanup"  BY DEF Unpublished
  <2>2. PICK m \in Upload : /\ jobs[u].result = m
                            /\ ContentOf[m] = ContentOf[u]
                            /\ Available(m)
    BY <2>1 DEF QueueInv, KeptCopy
  <2>3. jobs'[u].result = m  BY <1>0, <2>1, <2>2 DEF Advances, Shown
  <2> QED  BY <2>2, <2>3 DEF Available
<1>5. PurgeInv'
  <2>1. purge.pc # "idle" => jobs'[purge.item].status \in {"cleanup", "complete"}
    BY <1>0 DEF QueueInv, PurgeInv, Advances, Shown
  <2>2. CASE purge' = purge  BY <2>1, <2>2 DEF QueueInv, PurgeInv
  <2>3. CASE purge.pc # "idle" /\ purge' = [purge EXCEPT !.pc = "left"]
    <3>1. purge'.pc = "left" /\ purge'.item = purge.item
      BY <2>3 DEF Typed, StoreTypes
    <3> QED  BY <2>1, <2>3, <3>1 DEF QueueInv, PurgeInv
  <2> QED  BY <2>2, <2>3
<1> QED  BY <1>1, <1>2, <1>3, <1>4, <1>5 DEF StoresInv

\* The pool's invariant after a steady step of w, from what w itself kept.
LEMMA WorkersUndisturbed ==
    ASSUME Typed, QueueInv, NEW w, Steady(w),
           \A x \in Worker : x # w => UNCHANGED <<pc[x], cur[x], snap[x]>>,
           w \in Worker => cur'[w] = Null \/ AttemptOk(w)'
    PROVE  WorkersInv'
<1> SUFFICES ASSUME NEW x \in Worker, cur'[x] # Null  PROVE AttemptOk(x)'
  BY DEF WorkersInv, AttemptOk
<1>1. CASE x = w  BY <1>1
<1>2. CASE x # w  BY <1>2, OthersUndisturbed
<1> QED  BY <1>1, <1>2

-----------------------------------------------------------------------------
(* The steps. *)

Others(w) == \A x \in Worker : x # w => UNCHANGED <<pc[x], cur[x], snap[x]>>

\* A worker that moves to its next call leaves the others' attempts alone.
LEMMA GotoOthers ==
    ASSUME Typed, NEW w \in Worker, NEW call, Goto(w, call)
    PROVE  Others(w) /\ pc'[w] = call /\ cur'[w] = cur[w] /\ snap'[w] = snap[w]
BY DEF Others, Goto, Typed, AttemptTypes

\* A worker that ends its attempt leaves the others' attempts alone.
LEMMA EndOthers ==
    ASSUME Typed, NEW w \in Worker, EndAttempt(w)
    PROVE  Others(w) /\ cur'[w] = Null
BY DEF Others, EndAttempt, Typed, AttemptTypes

\* Nothing but the attempt changes.
LEMMA QuietSteady ==
    ASSUME Typed, QueueInv, NEW w, UNCHANGED <<jobs, media, live>>
    PROVE  Steady(w) /\ \A u \in Upload : Unpublished(jobs[u], jobs'[u])
<1>1. \A u \in Upload : Advances(jobs[u], jobs[u], w)
  BY Rows, SameStageAdvances DEF QueueInv
<1> QED  BY <1>1 DEF Steady, Unpublished

\* One row changes.
LEMMA RowSteady ==
    ASSUME Typed, QueueInv, NEW w, NEW u \in Upload, NEW row, SetRow(u, row),
           Advances(jobs[u], row, w), Unpublished(jobs[u], row),
           UNCHANGED <<media, live>>
    PROVE  Steady(w) /\ \A v \in Upload : Unpublished(jobs[v], jobs'[v])
<1>1. \A v \in Upload : Advances(jobs[v], jobs[v], w) /\ Unpublished(jobs[v], jobs[v])
  BY Rows, SameStageAdvances DEF QueueInv
<1>2. \A v \in Upload : jobs'[v] = IF v = u THEN row ELSE jobs[v]
  BY DEF SetRow, Typed, StoreTypes
<1> QED  BY <1>1, <1>2 DEF Steady

\* Every call of an attempt, successful or not, keeps the pool's invariant.
LEMMA WorkerStepKeeps ==
    ASSUME Typed, Typed', QueueInv, NEW w \in Worker,
           WorkerStep(w) \/ Fault(w) \/ TusdFault(w) \/ ScanFault(w)
    PROVE  StoresInv' /\ WorkersInv'
<1> DEFINE Goal == StoresInv' /\ WorkersInv'
<1> DEFINE Quiet == UNCHANGED <<jobs, media, files, purge>>
<1>q. ASSUME Quiet, Others(w), cur'[w] = Null \/ AttemptOk(w)'  PROVE Goal
  <2>1. Steady(w) /\ \A u \in Upload : Unpublished(jobs[u], jobs'[u])
    BY <1>q, QuietSteady DEF files
  <2>2. StoresInv'
    BY <1>q, <2>1, StoresUndisturbed DEF files
  <2>3. WorkersInv'  BY <1>q, <2>1, WorkersUndisturbed DEF Others
  <2> QED  BY <2>2, <2>3
<1>r. ASSUME NEW u \in Upload, NEW row, SetRow(u, row),
             Advances(jobs[u], row, w), Unpublished(jobs[u], row),
             UNCHANGED <<media, files, purge>>,
             Others(w), cur'[w] = Null \/ AttemptOk(w)'
      PROVE  Goal
  <2>1. Steady(w) /\ \A v \in Upload : Unpublished(jobs[v], jobs'[v])
    BY <1>r, RowSteady DEF files
  <2>2. StoresInv'
    BY <1>r, <2>1, StoresUndisturbed DEF files
  <2>3. WorkersInv'  BY <1>r, <2>1, WorkersUndisturbed DEF Others
  <2> QED  BY <2>2, <2>3
<1>c. ASSUME pc[w] \notin Scans
      PROVE  /\ cur[w] \in Upload /\ StageInv(w) /\ CallInv(w)
             /\ jobs[cur[w]] \in UploadJob /\ RowShape(jobs[cur[w]])
             /\ snap[w] \in UploadJob
  <2>1. cur[w] \in Upload  BY <1>c, AtCall DEF Typed
  <2>2. StageInv(w) /\ CallInv(w)
    BY <2>1, QueueAssumption DEF QueueInv, WorkersInv
  <2> QED  BY <2>1, <2>2, Rows, WorkerRows DEF QueueInv
<1> USE DEF At
<1>1. CASE ClaimAndRunOnce(w)
  <2> SUFFICES ASSUME NEW here \in Scans, NEW from, NEW to,
                      NEW next \in Scans, Scan(w, here, from, to, next),
                      \/ from \in {"cleanup", "discarding", "processing"} /\ to = from
                      \/ from = "pending" /\ to = "processing"
               PROVE  Goal
    BY <1>1 DEF ClaimAndRunOnce, Scans
  <2>0. AttemptInv /\ pc[w] = here /\ cur[w] = Null
    BY DEF Scan, QueueInv, AttemptInv
  <2>1. CASE \A u \in Upload : ~Claimable(jobs[u], from)
    <3>1. Others(w) /\ cur'[w] = Null
      BY <2>0, <2>1 DEF Scan, Others, Typed, AttemptTypes
    <3> QED  BY <1>q, <2>1, <3>1 DEF Scan
  <2>2. ASSUME NEW u \in Upload, Claimable(jobs[u], from),
               SetRow(u, Claimed(jobs[u], to, w)),
               snap' = [snap EXCEPT ![w] = Claimed(jobs[u], to, w)],
               cur' = [cur EXCEPT ![w] = u], ctx' = [ctx EXCEPT ![w] = TRUE],
               pc' = [pc EXCEPT ![w] = FirstCall(from)]
        PROVE  Goal
    <3> DEFINE row == Claimed(jobs[u], to, w)
    <3>1. jobs[u] \in UploadJob /\ RowShape(jobs[u])  BY Rows DEF QueueInv
    <3>2. /\ Advances(jobs[u], row, w) /\ Unpublished(jobs[u], row)
          /\ row.status = to /\ row.result = jobs[u].result /\ row.token = w
      BY <2>2, <3>1, ClaimAdvances DEF Claimable
    <3> HIDE DEF row
    <3>3. Others(w) /\ cur'[w] = u /\ snap'[w] = row /\ pc'[w] = FirstCall(from)
      BY <2>2 DEF Others, Typed, AttemptTypes, row
    <3>4. jobs'[u] = row  BY <2>2 DEF SetRow, Typed, StoreTypes, row
    <3>5. AttemptOk(w)'
      <4>1. StageInv(w)'
        BY <3>2, <3>3, <3>4
           DEF StageInv, FirstCall, ProcessingCalls, RemovalCalls, Holds
      <4>2. CallInv(w)'
        BY <3>3 DEF CallInv, FirstCall, ProcessingCalls
      <4> QED  BY <4>1, <4>2 DEF AttemptOk
    <3> QED  BY <1>r, <2>2, <3>2, <3>3, <3>5 DEF Scan, row
  <2> QED  BY <2>1, <2>2 DEF Scan
<1>2. CASE \/ CheckHealth(w) \/ Inspect(w) \/ PrepareCopy(w) \/ VerifyPrepared(w)
           \/ LookUpExisting(w) \/ VerifyKept(w)
           \/ CheckDeletionAllowed(w) \/ CheckOwner(w) \/ SweepTemporaries(w)
  <2>1. pc[w] \notin Scans
    BY <1>2 DEF CheckHealth, Inspect, PrepareCopy, VerifyPrepared, LookUpExisting,
                VerifyKept, CheckDeletionAllowed, CheckOwner, SweepTemporaries, Scans
  <2>2. Quiet
    BY <1>2 DEF CheckHealth, Inspect, PrepareCopy, VerifyPrepared, LookUpExisting,
                VerifyKept, CheckDeletionAllowed, CheckOwner, SweepTemporaries
  <2>3. PICK call : Goto(w, call)
    BY <1>2 DEF CheckHealth, Inspect, PrepareCopy, VerifyPrepared, LookUpExisting,
                VerifyKept, CheckDeletionAllowed, CheckOwner, SweepTemporaries
  <2>4. Others(w) /\ pc'[w] = call /\ cur'[w] = cur[w] /\ snap'[w] = snap[w]
    BY <2>3, GotoOthers
  <2>5. \/ pc[w] \in ProcessingCalls /\ call \in ProcessingCalls
        \/ pc[w] \in RemovalCalls /\ call \in RemovalCalls
    BY <1>2, <2>3, <2>4
       DEF CheckHealth, Inspect, PrepareCopy, VerifyPrepared, LookUpExisting, VerifyKept,
           CheckDeletionAllowed, CheckOwner, SweepTemporaries, Goto, Typed, AttemptTypes,
           ProcessingCalls, RemovalCalls
  <2>6. StageInv(w)'
    BY <1>c, <2>1, <2>2, <2>4, <2>5 DEF StageInv, Holds, ProcessingCalls, RemovalCalls
  <2>7. CallInv(w)'
    <3>1. /\ pc[w] \in {"prepared", "lookup", "verifyKept", "publish"} /\ Holds(jobs[cur[w]], w)
               => cur[w] \in live
          /\ pc[w] \in ProcessingCalls \ {"health", "inspect", "reject"}
               => Verdict[cur[w]] = "accept"
      BY <1>c, <2>1 DEF CallInv
    <3>2. call \in {"prepared", "lookup", "verifyKept", "publish"} =>
            pc[w] \in {"prepared", "lookup", "verifyKept", "publish"} \/ cur[w] \in live
      BY <1>2, <2>3, <2>4
         DEF CheckHealth, Inspect, PrepareCopy, VerifyPrepared, LookUpExisting, VerifyKept,
             CheckDeletionAllowed, CheckOwner, SweepTemporaries, Goto, Typed, AttemptTypes
    <3>3. call \in ProcessingCalls \ {"health", "inspect", "reject"} =>
            \/ pc[w] \in ProcessingCalls \ {"health", "inspect", "reject"}
            \/ Verdict[cur[w]] = "accept"
      BY <1>2, <2>3, <2>4
         DEF CheckHealth, Inspect, PrepareCopy, VerifyPrepared, LookUpExisting, VerifyKept,
             CheckDeletionAllowed, CheckOwner, SweepTemporaries, Goto, Typed, AttemptTypes,
             ProcessingCalls
    <3>4. call = "unlink" => media[cur[w]] = "none"
      BY <1>2, <2>3, <2>4
         DEF CheckHealth, Inspect, PrepareCopy, VerifyPrepared, LookUpExisting, VerifyKept,
             CheckDeletionAllowed, CheckOwner, SweepTemporaries, Goto, Typed, AttemptTypes
    <3> QED  BY <2>2, <2>4, <3>1, <3>2, <3>3, <3>4 DEF CallInv, files, Holds
  <2> QED  BY <1>q, <2>2, <2>4, <2>6, <2>7 DEF AttemptOk
<1>3. CASE RecordArtifactIdentity(w)
  <2>1. pc[w] = "identify" /\ Goto(w, "copy") /\ SetRow(cur[w], Identified(jobs[cur[w]]))
        /\ UNCHANGED <<media, files, purge>>
    BY <1>3 DEF RecordArtifactIdentity
  <2>2. Others(w) /\ pc'[w] = "copy" /\ cur'[w] = cur[w] /\ snap'[w] = snap[w]
    BY <2>1, GotoOthers
  <2>3. cur[w] \in Upload /\ StageInv(w) /\ CallInv(w)
        /\ jobs[cur[w]] \in UploadJob /\ RowShape(jobs[cur[w]])
    BY <1>c, <2>1 DEF Scans
  <2>4. Advances(jobs[cur[w]], Identified(jobs[cur[w]]), w)
        /\ Unpublished(jobs[cur[w]], Identified(jobs[cur[w]]))
    BY <2>3, SameStageAdvances
  <2>5. jobs'[cur[w]].status = jobs[cur[w]].status
        /\ jobs'[cur[w]].result = jobs[cur[w]].result
        /\ jobs'[cur[w]].token = jobs[cur[w]].token
    BY <2>1, <2>3 DEF SetRow, Typed, StoreTypes, Identified, UploadJob
  <2>6. AttemptOk(w)'
    BY <2>1, <2>2, <2>3, <2>5
       DEF AttemptOk, StageInv, CallInv, Holds, ProcessingCalls, RemovalCalls
  <2> QED  BY <1>r, <2>1, <2>2, <2>3, <2>4, <2>6
<1>4. CASE RecordPrepared(w)
  <2>1. pc[w] = "prepared" /\ Goto(w, "lookup") /\ SetRow(cur[w], PreparedRow(jobs[cur[w]]))
        /\ UNCHANGED <<media, files, purge>>
    BY <1>4 DEF RecordPrepared
  <2>2. Others(w) /\ pc'[w] = "lookup" /\ cur'[w] = cur[w] /\ snap'[w] = snap[w]
    BY <2>1, GotoOthers
  <2>3. cur[w] \in Upload /\ StageInv(w) /\ CallInv(w)
        /\ jobs[cur[w]] \in UploadJob /\ RowShape(jobs[cur[w]])
    BY <1>c, <2>1 DEF Scans
  <2>4. Advances(jobs[cur[w]], PreparedRow(jobs[cur[w]]), w)
        /\ Unpublished(jobs[cur[w]], PreparedRow(jobs[cur[w]]))
    BY <2>3, SameStageAdvances
  <2>5. jobs'[cur[w]].status = jobs[cur[w]].status
        /\ jobs'[cur[w]].result = jobs[cur[w]].result
        /\ jobs'[cur[w]].token = jobs[cur[w]].token
    BY <2>1, <2>3 DEF SetRow, Typed, StoreTypes, PreparedRow, UploadJob
  <2>6. AttemptOk(w)'
    BY <2>1, <2>2, <2>3, <2>5
       DEF AttemptOk, StageInv, CallInv, Holds, ProcessingCalls, RemovalCalls, files
  <2> QED  BY <1>r, <2>1, <2>2, <2>3, <2>4, <2>6
<1>5. CASE PrepareRename(w)
  <2>1. /\ pc[w] = "rename" /\ Goto(w, "verify") /\ live' = live \cup {cur[w]}
        /\ UNCHANGED <<jobs, media, data, staged, purge>>
    BY <1>5 DEF PrepareRename
  <2>2. Others(w) /\ pc'[w] = "verify" /\ cur'[w] = cur[w] /\ snap'[w] = snap[w]
    BY <2>1, GotoOthers
  <2>3. StageInv(w) /\ CallInv(w)  BY <1>c, <2>1 DEF Scans
  <2>4. AttemptOk(w)'
    BY <2>1, <2>2, <2>3
       DEF AttemptOk, StageInv, CallInv, Holds, ProcessingCalls, RemovalCalls
  <2>5. \A u \in Upload : Advances(jobs[u], jobs[u], w) /\ Unpublished(jobs[u], jobs[u])
    BY Rows, SameStageAdvances DEF QueueInv
  <2>6. Steady(w)  BY <2>1, <2>5 DEF Steady
  <2>7. StoresInv'  BY <2>1, <2>5, <2>6, StoresUndisturbed
  <2> QED  BY <2>2, <2>4, <2>6, <2>7, WorkersUndisturbed DEF Others
<1>6. CASE RemoveArtifacts(w)
  <2>1. /\ pc[w] = "unlink" /\ Goto(w, "sweep") /\ live \ {cur[w]} \subseteq live'
        /\ UNCHANGED <<jobs, media, data, staged, purge>>
    BY <1>6 DEF RemoveArtifacts
  <2>2. Others(w) /\ pc'[w] = "sweep" /\ cur'[w] = cur[w] /\ snap'[w] = snap[w]
    BY <2>1, GotoOthers
  <2>3. StageInv(w) /\ CallInv(w)  BY <1>c, <2>1 DEF Scans
  <2>4. AttemptOk(w)'
    BY <2>1, <2>2, <2>3
       DEF AttemptOk, StageInv, CallInv, Holds, ProcessingCalls, RemovalCalls
  <2>5. \A u \in Upload : Advances(jobs[u], jobs[u], w) /\ Unpublished(jobs[u], jobs[u])
    BY Rows, SameStageAdvances DEF QueueInv
  <2>6. media[cur[w]] = "none" /\ jobs[cur[w]].status \in Settled
    BY <2>1, <2>3 DEF CallInv, StageInv, RemovalCalls, Settled
  <2>7. Steady(w)  BY <2>1, <2>5, <2>6 DEF Steady
  <2>8. StoresInv'  BY <2>1, <2>5, <2>6, <2>7, StoresUndisturbed
  <2> QED  BY <2>2, <2>4, <2>7, <2>8, WorkersUndisturbed DEF Others
<1>7. CASE TerminateSource(w) \/ RemoveResidue(w)
  <2>1. /\ pc[w] \in {"terminate", "checkGone"}
        /\ UNCHANGED <<jobs, media, live, staged, purge>>
        /\ data \ {cur[w]} \subseteq data'
    BY <1>7 DEF TerminateSource, RemoveResidue
  <2>2. PICK call \in {"checkGone", "finish"} : Goto(w, call)
    BY <1>7 DEF TerminateSource, RemoveResidue
  <2>3. Others(w) /\ pc'[w] = call /\ cur'[w] = cur[w] /\ snap'[w] = snap[w]
    BY <2>2, GotoOthers
  <2>4. StageInv(w) /\ CallInv(w)  BY <1>c, <2>1 DEF Scans
  <2>5. AttemptOk(w)'
    BY <2>1, <2>2, <2>3, <2>4
       DEF AttemptOk, StageInv, CallInv, Holds, ProcessingCalls, RemovalCalls
  <2>6. jobs[cur[w]].status \in Settled
    BY <2>1, <2>4 DEF StageInv, RemovalCalls, Settled
  <2>7. Steady(w) /\ \A u \in Upload : Unpublished(jobs[u], jobs'[u])
    BY <2>1, QuietSteady
  <2>8. StoresInv'  BY <2>1, <2>6, <2>7, StoresUndisturbed
  <2> QED  BY <2>3, <2>5, <2>7, <2>8, WorkersUndisturbed DEF Others
<1>8. CASE Reject(w) \/ FinishRemoval(w) \/ GiveUp(w)
  <2>1. pc[w] \notin Scans
    BY <1>8, QueueAssumption DEF Reject, FinishRemoval, GiveUp, Scans, QueueInv, AttemptInv
  <2>2. /\ cur[w] \in Upload /\ StageInv(w) /\ CallInv(w)
        /\ jobs[cur[w]] \in UploadJob /\ RowShape(jobs[cur[w]])
    BY <1>c, <2>1
  <2>3. /\ UNCHANGED <<media, files, purge>>
        /\ Others(w) /\ cur'[w] = Null
    BY <1>8, EndOthers DEF Reject, FinishRemoval, GiveUp
  <2>4. CASE jobs' = jobs  BY <1>q, <2>3, <2>4
  <2>5. CASE jobs' # jobs
    <3>1. Holds(jobs[cur[w]], w) /\ jobs[cur[w]].status = snap[w].status
      BY <1>8, <2>2, <2>5 DEF Reject, FinishRemoval, GiveUp, StageInv
    <3>2. PICK row : /\ SetRow(cur[w], row)
                     /\ Advances(jobs[cur[w]], row, w) /\ Unpublished(jobs[cur[w]], row)
      <4>1. CASE Reject(w)
        <5>1. jobs[cur[w]].status = "processing"
          BY <2>2, <3>1, <4>1 DEF Reject, StageInv, ProcessingCalls
        <5> QED
          BY <2>2, <3>1, <4>1, <5>1, StageAdvances DEF Reject, SetRow, Typed, StoreTypes
      <4>2. CASE FinishRemoval(w)
        <5>1. jobs[cur[w]].status \in {"cleanup", "discarding"}
          BY <2>2, <3>1, <4>2 DEF FinishRemoval, StageInv, RemovalCalls
        <5> QED
          BY <2>2, <3>1, <4>2, <5>1, StageAdvances DEF FinishRemoval, SetRow, Typed, StoreTypes
      <4>3. CASE GiveUp(w)
        <5>1. SetRow(cur[w], Released(jobs[cur[w]], RetryStage(w)))
          BY <2>5, <4>3 DEF GiveUp
        <5>2. CASE pc[w] \in ProcessingCalls
          BY <2>2, <3>1, <5>1, <5>2, StageAdvances DEF RetryStage, StageInv
        <5>3. CASE pc[w] \in RemovalCalls
          <6>1. pc[w] \notin ProcessingCalls
            BY <5>3 DEF ProcessingCalls, RemovalCalls
          <6> QED
            BY <2>2, <3>1, <5>1, <5>3, <6>1, StageAdvances DEF RetryStage, StageInv
        <5> QED  BY <2>1, <5>2, <5>3 DEF Typed, AttemptTypes
      <4> QED  BY <1>8, <4>1, <4>2, <4>3
    <3> QED  BY <1>r, <2>2, <2>3, <3>2
  <2> QED  BY <2>4, <2>5
<1>9. CASE TusdFault(w)
  <2>1. /\ pc[w] = "terminate" /\ EndAttempt(w)
        /\ UNCHANGED <<media, live, staged, purge>>
        /\ data \ {cur[w]} \subseteq data'
    BY <1>9 DEF TusdFault
  <2>2. /\ cur[w] \in Upload /\ StageInv(w)
        /\ jobs[cur[w]] \in UploadJob /\ RowShape(jobs[cur[w]])
    BY <1>c, <2>1 DEF Scans
  <2>3. Others(w) /\ cur'[w] = Null  BY <2>1, EndOthers
  <2>4. jobs[cur[w]].status \in Settled
    BY <2>1, <2>2 DEF StageInv, RemovalCalls, Settled
  <2>5. Steady(w) /\ \A u \in Upload : Unpublished(jobs[u], jobs'[u])
    <3>1. CASE jobs' = jobs  BY <2>1, <3>1, QuietSteady
    <3>2. CASE jobs' # jobs
      <4>1. /\ Holds(jobs[cur[w]], w)
            /\ SetRow(cur[w], Released(jobs[cur[w]], snap[w].status))
        BY <1>9, <3>2 DEF TusdFault
      <4>2. /\ jobs[cur[w]].status = snap[w].status
            /\ snap[w].status \in {"cleanup", "discarding"}
        BY <2>1, <2>2, <4>1 DEF StageInv, RemovalCalls
      <4>3. LET row == Released(jobs[cur[w]], snap[w].status)
            IN  Advances(jobs[cur[w]], row, w) /\ Unpublished(jobs[cur[w]], row)
        BY <2>2, <4>2, StageAdvances
      <4> QED  BY <2>1, <2>2, <4>1, <4>3, RowSteady
    <3> QED  BY <3>1, <3>2
  <2>6. StoresInv'  BY <2>1, <2>4, <2>5, StoresUndisturbed
  <2> QED  BY <2>3, <2>5, <2>6, WorkersUndisturbed DEF Others
<1>10. CASE ScanFault(w)
  <2>1. Others(w) /\ cur'[w] = Null
    BY <1>10 DEF ScanFault, Others, Typed, AttemptTypes, attempt, QueueInv, AttemptInv
  <2> QED  BY <1>q, <1>10, <2>1 DEF ScanFault
<1>11. CASE PublishMedia(w)
  <2> DEFINE u == cur[w]
  <2>1. /\ pc[w] = "publish" /\ EndAttempt(w) /\ UNCHANGED <<files, purge>>
        /\ jobs[u].status = "processing" /\ Holds(jobs[u], w)
    BY <1>11 DEF PublishMedia, MayPublish
  <2>2. /\ u \in Upload /\ u \in live
        /\ jobs[u] \in UploadJob /\ RowShape(jobs[u])
    BY <1>c, <2>1 DEF CallInv, Scans
  <2>3. PICK m \in Upload :
          /\ SetRow(u, Published(jobs[u], m))
          /\ ContentOf[m] = ContentOf[u]
          /\ \/ media' = media /\ media[m] # "none"
             \/ /\ m = u /\ media' = [media EXCEPT ![u] = "active"]
                /\ \A n \in Upload : ~Owns(n, ContentOf[u])
    BY <1>11, <2>2 DEF PublishMedia, Owns
  <2>4. \A n \in Upload : media'[n] # "none" <=> media[n] # "none" \/ n = m
    BY <2>3 DEF Typed, StoreTypes
  <2>5. \A n \in Upload : media'[n] # "none" => media[n] # "none" \/ n = u
    BY <2>3 DEF Typed, StoreTypes
  <2>6. \A v \in Upload : jobs'[v] = IF v = u THEN Published(jobs[u], m) ELSE jobs[v]
    BY <2>3 DEF SetRow, Typed, StoreTypes
  <2>7. Published(jobs[u], m).status = "cleanup" /\ Published(jobs[u], m).result = m
    BY <2>2 DEF Published, Unleased, UploadJob
  <2>8. Steady(w)
    <3>1. \A v \in Upload : Advances(jobs[v], jobs'[v], w)
      BY <2>1, <2>2, <2>6, Rows, SameStageAdvances, StageAdvances DEF QueueInv
    <3> QED  BY <2>1, <2>5, <3>1 DEF Steady, files, Settled
  <2>9. RowsInv'  BY <2>1, <2>8, RowsUndisturbed DEF files
  <2>10. MediaInv'
    <3>1. \A n \in Upload : media'[n] # "none" => jobs'[n].status \in {"cleanup", "complete"}
      BY <2>5, <2>6, <2>7 DEF QueueInv, MediaInv
    <3>2. \A n, k \in Upload :
            media'[n] # "none" /\ media'[k] # "none" /\ ContentOf[n] = ContentOf[k] => n = k
      BY <2>2, <2>3, <2>5 DEF QueueInv, MediaInv, Owns
    <3> QED  BY <3>1, <3>2 DEF MediaInv
  <2>11. PublishedHasOriginal'
    BY <2>1, <2>2, <2>5 DEF QueueInv, PublishedHasOriginal, files
  <2>12. KeptCopy'
    <3>1. Available(m)'  BY <2>4, <2>11 DEF Available, PublishedHasOriginal
    <3>2. ASSUME NEW v \in Upload, v # u, jobs'[v].status = "cleanup"
          PROVE  \E n \in Upload : /\ jobs'[v].result = n
                                   /\ ContentOf[n] = ContentOf[v]
                                   /\ Available(n)'
      BY <2>1, <2>4, <2>6, <3>2 DEF QueueInv, KeptCopy, Available, files
    <3> QED  BY <2>3, <2>6, <2>7, <3>1, <3>2 DEF KeptCopy
  <2>13. PurgeInv'
    <3>1. purge.pc # "idle" => purge.item # u
      BY <2>1 DEF QueueInv, PurgeInv
    <3> QED
      BY <2>1, <2>5, <2>6, <3>1 DEF QueueInv, PurgeInv, files
  <2>14. WorkersInv'
    BY <2>1, <2>8, EndOthers, WorkersUndisturbed DEF Others
  <2> QED  BY <2>9, <2>10, <2>11, <2>12, <2>13, <2>14 DEF StoresInv
<1> QED
  BY <1>1, <1>2, <1>3, <1>4, <1>5, <1>6, <1>7, <1>8, <1>9, <1>10, <1>11
     DEF WorkerStep, FailAttempt, Fault

\* Rows moved by the rest of the system, the clock and a restart.
LEMMA RowStepKeeps ==
    ASSUME Typed, Typed', QueueInv,
           \/ Restart
           \/ \E w \in Worker : ContextExpires(w)
           \/ \E u \in Upload : Promote(u) \/ Discard(u) \/ BecomesDue(u) \/ LeaseLapses(u)
    PROVE  StoresInv' /\ WorkersInv'
<1>0. Null \notin Worker  BY QueueAssumption
<1>1. CASE Restart
  <2>1. /\ UNCHANGED <<media, data, live, staged>>
        /\ purge' = purge \/ (purge.pc # "idle" /\ purge' = [purge EXCEPT !.pc = "left"])
        /\ \A w \in Worker : cur'[w] = Null
        /\ \A u \in Upload : jobs'[u] = jobs[u] \/ jobs'[u] = Requeued(jobs[u])
    BY <1>1 DEF Restart, files
  <2>2. WorkersInv'  BY <2>1 DEF WorkersInv
  <2>3. ASSUME NEW u \in Upload
        PROVE  Advances(jobs[u], jobs'[u], Null) /\ Unpublished(jobs[u], jobs'[u])
    <3>1. jobs[u] \in UploadJob /\ RowShape(jobs[u])  BY Rows DEF QueueInv
    <3> QED  BY <2>1, <3>1, SameStageAdvances, StageAdvances
  <2>4. Steady(Null)  BY <2>1, <2>3 DEF Steady
  <2>5. StoresInv'  BY <2>1, <2>3, <2>4, StoresUndisturbed
  <2> QED  BY <2>2, <2>5
<1>2. ASSUME NEW w \in Worker, ContextExpires(w)  PROVE StoresInv' /\ WorkersInv'
  <2>1. UNCHANGED <<jobs, media, data, live, staged, purge, pc, cur, snap>>
    BY <1>2 DEF ContextExpires, files
  <2>2. Steady(Null) /\ \A u \in Upload : Unpublished(jobs[u], jobs'[u])
    BY <2>1, QuietSteady
  <2>3. StoresInv'  BY <2>1, <2>2, StoresUndisturbed
  <2>4. WorkersInv'  BY <1>0, <2>1, <2>2, WorkersUndisturbed
  <2> QED  BY <2>3, <2>4
<1>3. ASSUME NEW u \in Upload, Promote(u) \/ Discard(u) \/ BecomesDue(u) \/ LeaseLapses(u)
      PROVE  StoresInv' /\ WorkersInv'
  <2>1. jobs[u] \in UploadJob /\ RowShape(jobs[u])  BY Rows DEF QueueInv
  <2>2. UNCHANGED <<media, data, live, staged, purge, pc, cur, snap>>
    BY <1>3 DEF Promote, Discard, BecomesDue, LeaseLapses, files, attempt
  <2>3. PICK row : /\ SetRow(u, row)
                   /\ Advances(jobs[u], row, Null) /\ Unpublished(jobs[u], row)
    BY <1>3, <2>1, SameStageAdvances, StageAdvances
       DEF Promote, Discard, BecomesDue, LeaseLapses
  <2>4. Steady(Null) /\ \A v \in Upload : Unpublished(jobs[v], jobs'[v])
    BY <2>2, <2>3, RowSteady
  <2>5. StoresInv'  BY <2>2, <2>4, StoresUndisturbed
  <2>6. WorkersInv'  BY <1>0, <2>2, <2>4, WorkersUndisturbed
  <2> QED  BY <2>5, <2>6
<1> QED  BY <1>1, <1>2, <1>3

\* What the administrator's trash and purge do, rows and attempts aside.
LEMMA PurgeStepKeeps ==
    ASSUME Typed, Typed', QueueInv,
           \/ \E m \in Upload : Trash(m) \/ Untrash(m) \/ StageForPurge(m)
           \/ PurgeTrashed \/ FinishPurge \/ ReconcilePurgeStage
    PROVE  StoresInv' /\ WorkersInv'
<1>0. Null \notin Worker  BY QueueAssumption
<1>1. UNCHANGED <<jobs, data, pc, cur, snap>>
  BY DEF Trash, Untrash, StageForPurge, PurgeTrashed, FinishPurge, ReconcilePurgeStage,
         EndPurge, files, attempt
<1>2. \A u \in Upload : media'[u] # "none" => media[u] # "none"
  BY DEF Trash, Untrash, StageForPurge, PurgeTrashed, FinishPurge, ReconcilePurgeStage,
         EndPurge, Typed, StoreTypes
<1>3. \A u \in Upload : u \in live => u \in live' \/ jobs[u].status \in Settled
  <2>1. ASSUME NEW m \in Upload, StageForPurge(m)
        PROVE  \A u \in Upload : u \in live => u \in live' \/ jobs[u].status \in Settled
    BY <2>1 DEF StageForPurge, QueueInv, MediaInv, Settled
  <2> QED
    BY <2>1 DEF Trash, Untrash, PurgeTrashed, FinishPurge, ReconcilePurgeStage, EndPurge, files
<1>4. \A u \in Upload : Advances(jobs[u], jobs[u], Null)
  BY Rows, SameStageAdvances DEF QueueInv
<1>5. Steady(Null)  BY <1>1, <1>2, <1>3, <1>4 DEF Steady, Typed, StoreTypes
<1>6. WorkersInv'  BY <1>0, <1>1, <1>5, WorkersUndisturbed
<1>7. RowsInv'  BY <1>1, <1>5, RowsUndisturbed
<1>8. MediaInv'  BY <1>1, <1>2 DEF QueueInv, MediaInv
<1>9. PublishedHasOriginal' /\ KeptCopy' /\ PurgeInv'
  <2>1. ASSUME NEW m \in Upload, Trash(m) \/ Untrash(m)
        PROVE  PublishedHasOriginal' /\ KeptCopy' /\ PurgeInv'
    <3>1. UNCHANGED <<jobs, live, staged, purge>>
          /\ \A n \in Upload : media'[n] = "none" <=> media[n] = "none"
      BY <2>1 DEF Trash, Untrash, files, Typed, StoreTypes
    <3> QED
      BY <3>1 DEF QueueInv, PublishedHasOriginal, KeptCopy, Available, PurgeInv
  <2>2. ASSUME NEW m \in Upload, StageForPurge(m)
        PROVE  PublishedHasOriginal' /\ KeptCopy' /\ PurgeInv'
    <3>1. /\ UNCHANGED <<jobs, media>> /\ live' \cup staged' = live \cup staged
          /\ staged = {} /\ staged' \subseteq {m}
          /\ purge'.pc = "decide" /\ purge'.item = m /\ media[m] # "none"
      BY <2>2 DEF StageForPurge, QueueInv, PurgeInv
    <3>2. PublishedHasOriginal' /\ KeptCopy'
      BY <3>1 DEF QueueInv, PublishedHasOriginal, KeptCopy, Available
    <3>3. PurgeInv'
      BY <3>1 DEF QueueInv, PurgeInv, MediaInv
    <3> QED  BY <3>2, <3>3
  <2>3. CASE PurgeTrashed
    <3> DEFINE m == purge.item
    <3>1. /\ UNCHANGED <<jobs, live, staged>> /\ m \in Upload /\ purge'.item = m
          /\ \/ /\ purge'.pc = "finalize" /\ ~NeededByJob(m)
                /\ media' = [media EXCEPT ![m] = "none"]
             \/ purge'.pc = "restore" /\ media' = media
      BY <2>3 DEF PurgeTrashed, files, QueueInv, PurgeInv, Typed, StoreTypes
    <3>2. \A n \in Upload : media'[n] # "none" <=> media[n] # "none" /\ (n = m => purge'.pc = "restore")
      BY <3>1 DEF Typed, StoreTypes, QueueInv
    <3>3. PublishedHasOriginal'
      BY <3>1, <3>2 DEF QueueInv, PublishedHasOriginal
    <3>4. KeptCopy'
      BY <3>1, <3>2 DEF QueueInv, KeptCopy, Available, NeededByJob, Terminal
    <3>5. PurgeInv'
      BY <2>3, <3>1, <3>2 DEF QueueInv, PurgeInv, PurgeTrashed
    <3> QED  BY <3>3, <3>4, <3>5
  <2>4. ASSUME NEW restore \in BOOLEAN, EndPurge(restore), purge.pc # "idle",
               ~restore => media[purge.item] = "none"
        PROVE  PublishedHasOriginal' /\ KeptCopy' /\ PurgeInv'
    <3> DEFINE m == purge.item
    <3>1. UNCHANGED <<jobs, media>> /\ m \in Upload /\ staged \subseteq {m}
      BY <2>4 DEF EndPurge, QueueInv, PurgeInv
    <3>2. \A n \in Upload : n \in live \cup staged /\ media[n] # "none" => n \in live' \cup staged'
      BY <2>4, <3>1 DEF EndPurge
    <3>3. PublishedHasOriginal' /\ KeptCopy'
      BY <3>1, <3>2 DEF QueueInv, PublishedHasOriginal, KeptCopy, Available
    <3>4. PurgeInv'
      <4>1. CASE restore /\ m \in live \cap staged
        <5>1. purge'.pc = "left" /\ purge'.item = m /\ staged' = staged
          BY <2>4, <4>1 DEF EndPurge, Typed, StoreTypes
        <5> QED  BY <2>4, <3>1, <5>1 DEF QueueInv, PurgeInv
      <4>2. CASE ~(restore /\ m \in live \cap staged)
        <5>1. purge'.pc = "idle" /\ purge'.item = Null /\ staged' = {}
          BY <2>4, <3>1, <4>2 DEF EndPurge
        <5> QED  BY <5>1 DEF PurgeInv
      <4> QED  BY <4>1, <4>2
    <3> QED  BY <3>3, <3>4
  <2>5. CASE FinishPurge
    <3>1. EndPurge(purge.pc = "restore") /\ purge.pc \in {"finalize", "restore"}
      BY <2>5 DEF FinishPurge
    <3>2. purge.pc = "finalize" => media[purge.item] = "none"
      BY DEF QueueInv, PurgeInv
    <3> QED  BY <2>4, <3>1, <3>2
  <2>6. CASE ReconcilePurgeStage
    BY <2>4, <2>6 DEF ReconcilePurgeStage
  <2> QED  BY <2>1, <2>2, <2>3, <2>5, <2>6
<1> QED  BY <1>6, <1>7, <1>8, <1>9 DEF StoresInv

-----------------------------------------------------------------------------
(* The theorems. *)

\* The invariant holds of a queue whose uploads are all in transfer.
LEMMA SafetyInit == Init => QueueInv
<1> SUFFICES ASSUME Init PROVE QueueInv  OBVIOUS
<1>1. \A u \in Upload : jobs[u].status = "uploading" /\ jobs[u].token = Null
                        /\ jobs[u].result = Null /\ jobs[u].lapsed = FALSE
  BY DEF Init, NewUploadingJob
<1>2. RowsInv  BY <1>1 DEF Init, RowsInv, LeaseShape, Terminal
<1>3. MediaInv /\ PublishedHasOriginal /\ PurgeInv
  BY DEF Init, MediaInv, PublishedHasOriginal, PurgeInv
<1>4. KeptCopy  BY <1>1 DEF KeptCopy
<1>5. AttemptInv /\ WorkersInv
  BY DEF Init, AttemptInv, WorkersInv, Scans
<1> QED  BY <1>2, <1>3, <1>4, <1>5 DEF QueueInv

\* The invariant is inductive, given the types.
LEMMA SafetyStep == Typed /\ QueueInv /\ [Next]_vars => QueueInv'
<1> SUFFICES ASSUME Typed, QueueInv, [Next]_vars  PROVE QueueInv'  OBVIOUS
<1>1. Typed'  BY TypedStep
<1>2. AttemptInv'  BY <1>1 DEF Typed, AttemptTypes
<1>3. StoresInv' /\ WorkersInv'
  <2>1. CASE UNCHANGED vars
    <3>1. Null \notin Worker  BY QueueAssumption
    <3>2. UNCHANGED <<jobs, media, data, live, staged, purge, pc, cur, snap>>
      BY <2>1 DEF vars
    <3>3. Steady(Null) /\ \A u \in Upload : Unpublished(jobs[u], jobs'[u])
      BY <3>2, QuietSteady
    <3>4. StoresInv'  BY <1>1, <3>2, <3>3, StoresUndisturbed
    <3>5. WorkersInv'  BY <3>1, <3>2, <3>3, WorkersUndisturbed
    <3> QED  BY <3>4, <3>5
  <2>2. ASSUME NEW w \in Worker, WorkerStep(w) \/ Fault(w) \/ TusdFault(w) \/ ScanFault(w)
        PROVE  StoresInv' /\ WorkersInv'
    BY <1>1, <2>2, WorkerStepKeeps
  <2>3. CASE \/ Restart
             \/ \E w \in Worker : ContextExpires(w)
             \/ \E u \in Upload : Promote(u) \/ Discard(u) \/ BecomesDue(u) \/ LeaseLapses(u)
    BY <1>1, <2>3, RowStepKeeps
  <2>4. CASE \/ \E m \in Upload : Trash(m) \/ Untrash(m) \/ StageForPurge(m)
             \/ PurgeTrashed \/ FinishPurge \/ ReconcilePurgeStage
    BY <1>1, <2>4, PurgeStepKeeps
  <2> QED
    BY <2>1, <2>2, <2>3, <2>4, QueueAssumption DEF Next, CalmNext, Disturbance
<1> QED  BY <1>2, <1>3 DEF QueueInv, StoresInv

\* The inductive invariant of the worker pool, the ground of every theorem
\* below: rows, media rows, purge and attempts agree in every state, whatever
\* leases lapse, calls fail and processes restart.
THEOREM PoolInvariant == Spec => [](Typed /\ QueueInv)
BY TypedInit, TypedStep, SafetyInit, SafetyStep, PTL DEF Spec

\* No interleaving of slow workers, duplicates, purges and restarts takes an
\* original away from under its media row.
THEOREM OriginalsStay == Spec => []PublishedHasOriginal
<1>1. QueueInv => PublishedHasOriginal  BY DEF QueueInv
<1> QED  BY <1>1, PoolInvariant, PTL

\* While a job still has its source to remove, the media row it resolved to
\* keeps the same bytes for it, even when the row is another upload's.
THEOREM CopiesKept == Spec => []KeptCopy
<1>1. QueueInv => KeptCopy  BY DEF QueueInv
<1> QED  BY <1>1, PoolInvariant, PTL

\* What was condemned is never shown under its own id.
THEOREM RejectedHidden == Spec => []RejectedNeverShown
<1>1. QueueInv => RejectedNeverShown
  BY DEF QueueInv, MediaInv, RejectedNeverShown
<1> QED  BY <1>1, PoolInvariant, PTL
=============================================================================
