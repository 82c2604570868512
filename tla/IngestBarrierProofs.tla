------------------------- MODULE IngestBarrierProofs -------------------------
(***************************************************************************)
(* Proofs about IngestBarrier, for any number of requests.                 *)
(***************************************************************************)
EXTENDS IngestBarrier, TLAPS

-----------------------------------------------------------------------------
(* The statements, by the columns the invariants read. *)

\* t is s with another status and reason, as far as the invariants look.
Written(s, t, status, reason) ==
    /\ t \in UploadJob
    /\ t.status = status /\ t.reason = reason /\ t.cancelled = s.cancelled
    /\ t.quiet => s.quiet

Turned(s, t, status) == Written(s, t, status, s.reason)

\* The statements that only move a row on.
LEMMA Statements ==
    ASSUME NEW job \in UploadJob
    PROVE  /\ Turned(job, Promoted(job), "pending")
           /\ Turned(job, Claimed(job, "processing", "lease"), "processing")
           /\ Turned(job, Published(job, "media"), "cleanup")
           /\ \A s \in {"complete", "discarded"} : Turned(job, Finished(job, s, ""), s)
           /\ \A s \in {"cleanup", "discarding"} : Turned(job, Reopened(job, s), s)
           /\ Turned(job, Requeued(job), RequeueStage(job.status))
<1> USE DEF UploadJob, JobStatus, Turned, Written
<1>1. Turned(job, Promoted(job), "pending")  BY DEF Promoted
<1>2. Turned(job, Claimed(job, "processing", "lease"), "processing")  BY DEF Claimed
<1>3. Turned(job, Published(job, "media"), "cleanup")  BY DEF Published, Unleased
<1>4. \A s \in {"complete", "discarded"} : Turned(job, Finished(job, s, ""), s)
  <2>1. FirstReason("", job.reason) = job.reason  BY DEF FirstReason
  <2> QED  BY <2>1 DEF Finished, Unleased
<1>5. \A s \in {"cleanup", "discarding"} : Turned(job, Reopened(job, s), s)
  BY DEF Reopened, Unleased
<1>6. Turned(job, Requeued(job), RequeueStage(job.status))
  BY DEF Requeued, RequeueStage, Unleased
<1> QED  BY <1>1, <1>2, <1>3, <1>4, <1>5, <1>6

\* Those that close it out, ask for that, or admit it.
LEMMA Closures ==
    ASSUME NEW job \in UploadJob
    PROVE  /\ LET t == CancelRequested(job) IN
                t \in UploadJob /\ t.status = job.status /\ t.reason = job.reason
                /\ t.cancelled /\ ~t.quiet
           /\ job.reason = "" => /\ Written(job, DiscardClaimed(job), "discarding", "cancelled")
                                 /\ Written(job, SweptForDiscard(job), "discarding", "cancelled")
           /\ Written(job, Unobservable(job), "discarded", "unobservable")
           /\ Written(job, Finished(job, "discarding", "unsupported_type"),
                      "discarding", "unsupported_type")
<1> USE DEF UploadJob, JobStatus, Reason, FirstReason, Unleased, Written
<1>1. LET t == CancelRequested(job) IN
        t \in UploadJob /\ t.status = job.status /\ t.reason = job.reason
        /\ t.cancelled /\ ~t.quiet
  BY DEF CancelRequested
<1>2. job.reason = "" => Written(job, DiscardClaimed(job), "discarding", "cancelled")
  BY DEF DiscardClaimed
<1>3. job.reason = "" => Written(job, SweptForDiscard(job), "discarding", "cancelled")
  BY DEF DiscardClaimed, SweptForDiscard
<1>4. Written(job, Unobservable(job), "discarded", "unobservable")  BY DEF Unobservable
<1>5. Written(job, Finished(job, "discarding", "unsupported_type"),
              "discarding", "unsupported_type")
  BY DEF Finished
<1> HIDE DEF UploadJob, JobStatus, Reason, FirstReason, Unleased, Written
<1> QED  BY <1>1, <1>2, <1>3, <1>4, <1>5

\* An admission's row is of the table's type.
LEMMA NewRow == NewUploadingJob \in UploadJob
BY DEF NewUploadingJob, UploadJob, JobStatus, Reason

-----------------------------------------------------------------------------
(* What a step does to the row. *)

\* The row as somebody has just written it.
RowBecomes(status, reason) == HasRow /\ HasRow' /\ Written(row, row', status, reason)

Refreshes == RowBecomes(row.status, row.reason)
Requeues == StatusIs({"processing"}) /\ RowBecomes("pending", row.reason) /\ op' = "none"

Ages ==
    /\ StatusIs({"uploading"}) /\ HasRow' /\ row' \in UploadJob
    /\ row'.status = row.status /\ row'.reason = row.reason /\ row'.cancelled = row.cancelled
    /\ post => "delay" \in Faults
Cancels ==
    /\ StatusIs({"uploading"}) /\ HasRow' /\ row' \in UploadJob
    /\ row'.status = row.status /\ row'.reason = row.reason /\ row'.cancelled /\ ~row'.quiet
Promotes ==
    /\ op = "promote" /\ op' = "none" /\ StatusIs({"uploading"}) /\ ~row.cancelled
    /\ RowBecomes("pending", row.reason)
Closes == StatusIs({"uploading"}) /\ RowBecomes("discarding", "cancelled")
Marks == rec.pc = "mark" /\ StatusIs({"uploading"}) /\ RowBecomes("discarded", "unobservable")
Works ==
    \/ StatusIs({"pending"}) /\ RowBecomes("processing", row.reason)
    \/ StatusIs({"cleanup"}) /\ RowBecomes("complete", row.reason)
    \/ StatusIs({"discarding"}) /\ RowBecomes("discarded", row.reason)
Publishes == ~Refusable /\ StatusIs({"processing"}) /\ RowBecomes("cleanup", row.reason)
Rejects == Refusable /\ StatusIs({"processing"}) /\ RowBecomes("discarding", "unsupported_type")
Reopens ==
    /\ rec.pc = "reopen" /\ StatusIs(Terminal)
    /\ RowBecomes(IF rec.kind = "complete" THEN "cleanup" ELSE "discarding", row.reason)
    /\ rec'.pc = "end"
Deletes == rec.pc = "delete" /\ StatusIs(Terminal) /\ row' = Null /\ rec'.pc # "delete"
Adopts == rec.pc = "adopt" /\ ~HasRow /\ row' = NewUploadingJob

\* Only a restart, which may requeue a row, may also take files away.
RowMove ==
    \/ row' = row
    \/ Refreshes \/ Requeues
    \/ /\ UNCHANGED volume
       /\ \/ Ages \/ Cancels \/ Promotes \/ Closes \/ Marks \/ Works
          \/ Publishes \/ Rejects \/ Reopens \/ Deletes \/ Adopts

\* Every step moves the row in one of these ways.
LEMMA RowMoves ==
    ASSUME TypeOK, RowInv, [Next]_vars
    PROVE  RowMove
<1> USE DEF HasRow, StatusIs
<1>0. /\ HasRow => row \in UploadJob
      /\ Null \notin UploadJob
  BY BarrierAssumption DEF TypeOK
<1>00. \A pc : GoRec(pc) => rec'.pc = pc  BY DEF GoRec, TypeOK
<1>1. ASSUME NEW r \in Request, RequestCancellation(r)  PROVE RowMove
  <2>1. CASE HasRow /\ MayCancel(row)
    <3>1. row' = CancelRequested(row) /\ UNCHANGED volume  BY <1>1, <2>1 DEF RequestCancellation
    <3>2. Cancels  BY <1>0, <2>1, <3>1, Closures DEF Cancels, MayCancel
    <3> QED  BY <3>1, <3>2 DEF RowMove
  <2>2. CASE ~(HasRow /\ MayCancel(row))
    BY <1>1, <2>2 DEF RequestCancellation, RowMove
  <2> QED  BY <2>1, <2>2
<1>2. CASE OpPromote
  <2>1. CASE HasRow /\ MayPromote(row)
    <3>1. row' = Promoted(row) /\ op' = "none" /\ op = "promote" /\ UNCHANGED volume
      BY <1>2, <2>1 DEF OpPromote, OpDone
    <3>2. Turned(row, row', "pending")  BY <1>0, <2>1, <3>1, Statements
    <3>3. Promotes
      BY <1>0, <2>1, <3>1, <3>2 DEF Promotes, MayPromote, RowBecomes, Turned, Written
    <3> QED  BY <3>1, <3>3 DEF RowMove
  <2>2. CASE ~(HasRow /\ MayPromote(row))
    BY <1>2, <2>2 DEF OpPromote, RowMove
  <2> QED  BY <2>1, <2>2
<1>3. CASE SweepCancelled
  <2>1. CASE HasRow /\ MaySweep(row)
    <3>1. row' = SweptForDiscard(row) /\ UNCHANGED volume  BY <1>3, <2>1 DEF SweepCancelled
    <3>2. Written(row, row', "discarding", "cancelled")
      BY <1>0, <2>1, <3>1, Closures DEF MaySweep, RowInv
    <3>3. Closes  BY <1>0, <2>1, <3>2 DEF Closes, MaySweep, RowBecomes, Written
    <3> QED  BY <3>1, <3>3 DEF RowMove
  <2>2. CASE ~(HasRow /\ MaySweep(row))
    BY <1>3, <2>2 DEF SweepCancelled, RowMove
  <2> QED  BY <2>1, <2>2
<1>4. CASE MarkUnobservable
  <2>1. CASE HasRow /\ MayMarkUnobservable(row)
    <3>1. row' = Unobservable(row) /\ rec.pc = "mark" /\ UNCHANGED volume
      BY <1>4, <2>1 DEF MarkUnobservable
    <3>2. Written(row, row', "discarded", "unobservable")  BY <1>0, <2>1, <3>1, Closures
    <3>3. Marks
      BY <1>0, <2>1, <3>1, <3>2 DEF Marks, MayMarkUnobservable, RowBecomes, Written
    <3> QED  BY <3>1, <3>3 DEF RowMove
  <2>2. CASE ~(HasRow /\ MayMarkUnobservable(row))
    BY <1>4, <2>2 DEF MarkUnobservable, RowMove
  <2> QED  BY <2>1, <2>2
<1>5. CASE DeleteUploadJob
  BY <1>00, <1>5 DEF DeleteUploadJob, Deletes, MayReopen, RowMove
<1>6. CASE ReopenTerminal
  <2>1. CASE HasRow /\ MayReopen(row)
    <3> DEFINE status == IF rec.kind = "complete" THEN "cleanup" ELSE "discarding"
    <3>1. row' = Reopened(row, status) /\ rec.pc = "reopen" /\ rec'.pc = "end" /\ UNCHANGED volume
      BY <1>00, <1>6, <2>1 DEF ReopenTerminal, GoRec
    <3>2. Turned(row, Reopened(row, status), status)  BY <1>0, <2>1, Statements
    <3>3. Reopens
      BY <1>0, <2>1, <3>1, <3>2 DEF Reopens, MayReopen, RowBecomes, Turned, Written
    <3> QED  BY <3>1, <3>3 DEF RowMove
  <2>2. CASE ~(HasRow /\ MayReopen(row))
    BY <1>6, <2>2 DEF ReopenTerminal, RowMove
  <2> QED  BY <2>1, <2>2
<1>7. CASE Adopt
  BY <1>7 DEF Adopt, Adopts, RowMove
<1>8. CASE ClaimUploadingForDiscard
  <2>1. CASE HasRow /\ MayDiscard(row)
    <3>1. row' = DiscardClaimed(row) /\ UNCHANGED volume
      BY <1>8, <2>1 DEF ClaimUploadingForDiscard
    <3>2. Written(row, row', "discarding", "cancelled")
      BY <1>0, <2>1, <3>1, Closures DEF MayDiscard, RowInv
    <3>3. Closes  BY <1>0, <2>1, <3>2 DEF Closes, MayDiscard, RowBecomes, Written
    <3> QED  BY <3>1, <3>3 DEF RowMove
  <2>2. CASE ~(HasRow /\ MayDiscard(row))
    BY <1>8, <2>2 DEF ClaimUploadingForDiscard, RowMove
  <2> QED  BY <2>1, <2>2
<1>9. CASE ClaimPending
  <2>1. row' = Claimed(row, "processing", "lease") /\ StatusIs({"pending"}) /\ UNCHANGED volume
    BY <1>9 DEF ClaimPending, Claimable
  <2>2. Turned(row, row', "processing")  BY <1>0, <2>1, Statements
  <2>3. Works  BY <1>0, <2>1, <2>2 DEF Works, RowBecomes, Turned, Written
  <2> QED  BY <2>1, <2>3 DEF RowMove
<1>10. CASE Publish
  <2>1. row' = Published(row, "media") /\ StatusIs({"processing"}) /\ ~Refusable /\ UNCHANGED volume
    BY <1>10 DEF Publish, MayPublish
  <2>2. Turned(row, row', "cleanup")  BY <1>0, <2>1, Statements
  <2>3. Publishes  BY <1>0, <2>1, <2>2 DEF Publishes, RowBecomes, Turned, Written
  <2> QED  BY <2>1, <2>3 DEF RowMove
<1>11. CASE Reject
  <2>1. /\ row' = Finished(row, "discarding", "unsupported_type")
        /\ StatusIs({"processing"}) /\ Refusable /\ UNCHANGED volume
    BY <1>11 DEF Reject
  <2>2. Written(row, row', "discarding", "unsupported_type")  BY <1>0, <2>1, Closures
  <2>3. Rejects  BY <1>0, <2>1, <2>2 DEF Rejects, RowBecomes, Written
  <2> QED  BY <2>1, <2>3 DEF RowMove
<1>12. CASE FinishRemoval
  <2>1. /\ row' = Finished(row, IF row.status = "cleanup" THEN "complete" ELSE "discarded", "")
        /\ StatusIs({"cleanup", "discarding"}) /\ UNCHANGED volume
    BY <1>12 DEF FinishRemoval
  <2>2. Turned(row, row', IF row.status = "cleanup" THEN "complete" ELSE "discarded")
    BY <1>0, <2>1, Statements
  <2>3. Works  BY <1>0, <2>1, <2>2 DEF Works, RowBecomes, Turned, Written
  <2> QED  BY <2>1, <2>3 DEF RowMove
<1>13. CASE BecomesQuiet
  <2>1. /\ row' = [row EXCEPT !.quiet = TRUE] /\ StatusIs({"uploading"})
        /\ post => "delay" \in Faults
        /\ UNCHANGED volume
    BY <1>13 DEF BecomesQuiet
  <2>2. /\ row' \in UploadJob /\ row'.status = row.status
        /\ row'.reason = row.reason /\ row'.cancelled = row.cancelled
    BY <1>0, <2>1 DEF UploadJob
  <2>3. Ages  BY <1>0, <2>1, <2>2 DEF Ages
  <2> QED  BY <2>1, <2>3 DEF RowMove
<1>14. CASE Restarted
  <2>1. CASE row' = row  BY <2>1 DEF RowMove
  <2>2. CASE HasRow /\ row' = Requeued(row)
    <3>1. Turned(row, Requeued(row), RequeueStage(row.status))  BY <1>0, <2>2, Statements
    <3>2. op' = "none"  BY <1>14 DEF Restarted
    <3>3. CASE row.status = "processing"
      BY <1>0, <2>2, <3>1, <3>2, <3>3 DEF RowMove, Requeues, RequeueStage, RowBecomes, Turned, Written
    <3>4. CASE row.status # "processing"
      BY <1>0, <2>2, <3>1, <3>4 DEF RowMove, Refreshes, RequeueStage, RowBecomes, Turned, Written
    <3> QED  BY <3>3, <3>4
  <2> QED  BY <1>14, <2>1, <2>2 DEF Restarted
<1>15. CASE UNCHANGED vars  BY <1>15 DEF vars, RowMove
<1>16. CASE row' = row  BY <1>16 DEF RowMove
<1>17. ASSUME CalmNext, row' # row
       PROVE  \/ OpPromote \/ SweepCancelled \/ MarkUnobservable \/ DeleteUploadJob \/ ReopenTerminal
              \/ Adopt \/ ClaimUploadingForDiscard \/ ClaimPending \/ Publish \/ Reject
              \/ FinishRemoval \/ BecomesQuiet
  BY <1>17 DEF CalmNext, Arrive, FenceRead, FenceStat, EnsureDurable, ForwardComplete, ForwardPatch,
     DeleteRead, Refused, OpStep, OpRead, OpStat, OpSync, OpClassify, OpBlocked, RecStep,
     ReconcileOnce, ListStale, UploadPathsExist, ReconcileRead, ReconcileLook, ReconcileEnsure,
     EndPass, QueueStep, TerminateSource, InspectCandidate, JanitorStep, UploadJobExists,
     JanitorTerminate, TusdDelete, CreateFiles, BecomesStale, Return
<1>18. ASSUME Disturbance, row' # row  PROVE Restarted
  BY <1>18 DEF Disturbance, OpFault, ReconcileFault, JanitorFault, Hide, Restart, PowerLoss
<1> QED
  BY <1>1, <1>2, <1>3, <1>4, <1>5, <1>6, <1>7, <1>8, <1>9, <1>10, <1>11, <1>12, <1>13, <1>14,
     <1>15, <1>16, <1>17, <1>18 DEF Next

-----------------------------------------------------------------------------
(* What a step does to the files. *)

Grows == data = "partial" /\ data' = "complete" /\ UNCHANGED <<disk, post, op, del>>
Syncs == op = "sync" /\ disk' = data /\ UNCHANGED <<data, post, del>>
Removes == del /\ data' = "absent" /\ disk' = "absent" /\ UNCHANGED <<post, op>>
Creates ==
    /\ post /\ ~post' /\ UNCHANGED <<op, del>>
    /\ \/ data' = "partial" /\ disk' = "partial"
       \/ UNCHANGED <<data, disk>>
LosesPower ==
    /\ data' \in {data, disk} /\ disk' = data' /\ ~post' /\ ~del'
    /\ op' = "none" /\ rec' = NoPass /\ jan' = "idle"
    /\ req' = [r \in Request |-> NoRequest]

\* Nothing but a restart touches row and files in one step.
FileMove ==
    \/ UNCHANGED <<data, disk, post>>
    \/ UNCHANGED row /\ (Grows \/ Syncs \/ Removes \/ Creates)
    \/ LosesPower

\* Every step moves the files in one of these ways.
LEMMA FileMoves ==
    ASSUME TypeOK, [Next]_vars
    PROVE  FileMove
<1>1. ASSUME NEW r \in Request, ForwardPatch(r)  PROVE FileMove
  BY <1>1 DEF ForwardPatch, Grows, FileMove
<1>2. CASE OpSync  BY <1>2 DEF OpSync, Syncs, FileMove
<1>3. CASE TusdDelete  BY <1>3 DEF TusdDelete, Removes, FileMove
<1>4. CASE CreateFiles  BY <1>4 DEF CreateFiles, Creates, FileMove, Untouched
<1>5. CASE PowerLoss  BY <1>5 DEF PowerLoss, Restarted, LosesPower, FileMove
<1>6. CASE UNCHANGED <<data, disk, post>>  BY <1>6 DEF FileMove
<1>7. ASSUME CalmNext, ~UNCHANGED <<data, disk, post>>
      PROVE  (\E r \in Request : ForwardPatch(r)) \/ OpSync \/ TusdDelete \/ CreateFiles
  BY <1>7 DEF CalmNext, Arrive, FenceRead, FenceStat, EnsureDurable, ForwardComplete,
     DeleteRead, Refused, OpStep, OpRead, OpStat, OpPromote, OpClassify, OpBlocked, RecStep,
     ReconcileOnce, SweepCancelled, ListStale, UploadPathsExist, MarkUnobservable, ReconcileRead,
     ReconcileLook, DeleteUploadJob, ReopenTerminal, Adopt, ReconcileEnsure, EndPass, QueueStep,
     ClaimPending, Publish, Reject, TerminateSource, FinishRemoval, InspectCandidate, JanitorStep,
     ClaimUploadingForDiscard, UploadJobExists, JanitorTerminate, BecomesQuiet, BecomesStale,
     Return, volume, files
<1>8. ASSUME Disturbance, ~UNCHANGED <<data, disk, post>>  PROVE PowerLoss
  BY <1>8 DEF Disturbance, OpFault, ReconcileFault, JanitorFault, Hide, Restart, volume, files
<1>9. CASE UNCHANGED vars  BY <1>9 DEF vars, volume, files, FileMove
<1>10. ASSUME NEW r \in Request, RequestCancellation(r)  PROVE FileMove
  BY <1>10 DEF RequestCancellation, volume, files, FileMove
<1> QED  BY <1>1, <1>2, <1>3, <1>4, <1>5, <1>6, <1>7, <1>8, <1>9, <1>10 DEF Next

-----------------------------------------------------------------------------
(* What a step does to the operation. *)

Starts == op = "none" /\ op' = "read" /\ WantsDurable
Admits == op = "read" /\ op' = "stat" /\ StatusIs({"uploading"})
Finds == op = "stat" /\ op' = "sync" /\ Seen = "complete"
Synced == op = "sync" /\ op' = "promote" /\ disk' = data
Misses == op = "promote" /\ op' = "classify"

\* An operation makes its calls one after the other.
OpMove ==
    \/ op' = op
    \/ op' = "none"
    \/ /\ row' = row /\ data' = data
       /\ Starts \/ Admits \/ Finds \/ Synced \/ Misses

\* Every step moves the operation in one of these ways.
LEMMA OpMoves ==
    ASSUME TypeOK, [Next]_vars
    PROVE  OpMove
<1> USE DEF OpMove, volume, files
<1>1. ASSUME NEW r \in Request, EnsureDurable(r)  PROVE OpMove
  BY <1>1 DEF EnsureDurable, Starts, WantsDurable
<1>2. CASE OpRead  BY <1>2 DEF OpRead, GoOp, OpDone, Admits
<1>3. CASE OpStat  BY <1>3 DEF OpStat, GoOp, OpDone, Finds
<1>4. CASE OpSync  BY <1>4 DEF OpSync, GoOp, Synced
<1>5. CASE OpPromote  BY <1>5 DEF OpPromote, GoOp, OpDone, Misses
<1>6. CASE OpClassify \/ OpBlocked \/ OpFault
  BY <1>6 DEF OpClassify, OpBlocked, OpFault, OpDone
<1>7. CASE ReconcileEnsure  BY <1>7 DEF ReconcileEnsure, Starts, WantsDurable
<1>8. CASE Restarted  BY <1>8 DEF Restarted
<1>9. ASSUME CalmNext, op' # op
      PROVE  \/ \E r \in Request : EnsureDurable(r)
             \/ OpStep \/ ReconcileEnsure
  BY <1>9 DEF CalmNext, Arrive, FenceRead, FenceStat, ForwardComplete, ForwardPatch,
     DeleteRead, Refused, RecStep,
     ReconcileOnce, SweepCancelled, ListStale, UploadPathsExist, MarkUnobservable, ReconcileRead,
     ReconcileLook, DeleteUploadJob, ReopenTerminal, Adopt, EndPass, QueueStep,
     ClaimPending, Publish, Reject, TerminateSource, FinishRemoval, InspectCandidate, JanitorStep,
     ClaimUploadingForDiscard, UploadJobExists, JanitorTerminate, TusdDelete, CreateFiles,
     BecomesQuiet, BecomesStale, Return, Untouched
<1>10. ASSUME Disturbance, op' # op  PROVE OpFault \/ Restarted
  BY <1>10 DEF Disturbance, ReconcileFault, JanitorFault, Hide, Restart, PowerLoss, Untouched
<1>11. CASE UNCHANGED vars  BY <1>11 DEF vars
<1>12. ASSUME NEW r \in Request, RequestCancellation(r)  PROVE OpMove
  BY <1>12 DEF RequestCancellation
<1>13. CASE op' = op  BY <1>13
<1> QED
  BY <1>1, <1>2, <1>3, <1>4, <1>5, <1>6, <1>7, <1>8, <1>9, <1>10, <1>11, <1>12, <1>13
  DEF Next, OpStep

-----------------------------------------------------------------------------
(* What a step does to the pass. *)

Begins == rec'.pc = "sweep" /\ rec'.listed = (Seen # "absent") /\ rec'.kind = "owned"
Reads ==
    /\ rec.pc = "read" /\ rec'.pc \in {"look", "end"} /\ rec'.listed = rec.listed
    /\ rec'.kind = Kind(row) /\ (rec'.pc = "look" => rec'.kind # "owned")
    /\ row' = row
Looks ==
    /\ rec.pc = "look" /\ rec'.pc = Resolution(rec.kind, Seen)
    /\ rec'.listed = rec.listed /\ rec'.kind = rec.kind
    /\ row' = row
Walks ==
    /\ rec'.listed = rec.listed /\ rec'.kind = rec.kind
    /\ \/ rec'.pc \in {"list", "end", "wait"}
       \/ rec'.pc = "read" /\ rec.listed
       \/ rec'.pc = "paths" /\ HasRow /\ row.quiet /\ row' = row
       \/ rec'.pc = "mark" /\ rec.pc = "paths" /\ Seen = "absent" /\ row' = row
       \/ rec'.pc = "adopt" /\ rec.pc = "delete"
       \/ rec'.pc = "ensure" /\ rec.pc = "adopt"

\* A pass makes its calls one after the other.
RecMove ==
    \/ rec' = rec
    \/ rec' = NoPass
    \/ UNCHANGED volume /\ (Begins \/ Reads \/ Looks \/ Walks)

\* Where a pass goes on after a call.
LEMMA PassSteps ==
    ASSUME TypeOK
    PROVE  /\ \A pc : GoRec(pc) => /\ rec'.pc = pc
                                   /\ rec'.listed = rec.listed /\ rec'.kind = rec.kind
           /\ \A pc \in {"sweep", "list", "paths", "mark", "read", "adopt", "ensure", "wait", "end"} :
                GoRec(pc) => rec' \in PassRecord
           /\ AfterRows \in {"read", "end"} /\ (AfterRows = "read" => rec.listed)
<1> USE DEF TypeOK, PassRecord
<1>1. \A pc : GoRec(pc) => rec'.pc = pc /\ rec'.listed = rec.listed /\ rec'.kind = rec.kind
  BY DEF GoRec
<1>2. \A pc \in {"sweep", "list", "paths", "mark", "read", "adopt", "ensure", "wait", "end"} :
        GoRec(pc) => rec' \in PassRecord
  BY DEF GoRec
<1>3. AfterRows \in {"read", "end"} /\ (AfterRows = "read" => rec.listed)
  BY DEF AfterRows
<1> QED  BY <1>1, <1>2, <1>3

\* The kinds of row reconcileOne goes on for.
LEMMA Kinds ==
    ASSUME TypeOK
    PROVE  /\ Kind(row) \in {"owned", "rowless", "unobservable", "uploading"} \cup Terminal
           /\ Kind(row) = "rowless" <=> ~HasRow
           /\ Kind(row) = "unobservable" <=> StatusIs({"discarded"}) /\ row.reason = "unobservable"
           /\ Kind(row) = "discarded" <=> StatusIs({"discarded"}) /\ row.reason # "unobservable"
           /\ Kind(row) = "complete" <=> StatusIs({"complete"})
BY DEF Kind, HasRow, StatusIs, Terminal

\* What is left to resolve is resolved.
LEMMA Resolutions ==
    ASSUME TypeOK, PassInv, rec.pc = "look"
    PROVE  LET pc == Resolution(rec.kind, Seen) IN
           /\ pc \in {"adopt", "delete", "ensure", "reopen", "end"}
           /\ pc = "adopt" => rec.kind = "rowless"
           /\ pc = "delete" => rec.kind = "unobservable"
           /\ pc = "ensure" => Seen = "complete"
           /\ pc = "reopen" => rec.kind \in Terminal
<1>1. rec.kind \in {"rowless", "unobservable", "uploading"} \cup Terminal
  BY DEF TypeOK, PassInv, PassRecord
<1> QED  BY <1>1 DEF Resolution, Terminal

\* Every step moves the pass in one of these ways.
LEMMA RecMoves ==
    ASSUME TypeOK, PassInv, [Next]_vars
    PROVE  RecMove /\ rec' \in PassRecord
<1> USE DEF RecMove, volume, files
<1>0. rec \in PassRecord /\ NoPass \in PassRecord
  BY DEF TypeOK, PassRecord, NoPass
<1>1. CASE ReconcileOnce
  BY <1>1 DEF ReconcileOnce, Begins, NoPass, PassRecord
<1>2. CASE SweepCancelled
  BY <1>2, PassSteps DEF SweepCancelled, Walks
<1>3. CASE ListStale
  BY <1>3, PassSteps DEF ListStale, Walks, IsStale
<1>4. CASE UploadPathsExist
  BY <1>4, PassSteps DEF UploadPathsExist, Walks
<1>5. CASE MarkUnobservable
  BY <1>5, PassSteps DEF MarkUnobservable, Walks
<1>6. CASE ReconcileRead
  <2>1. /\ rec'.pc = IF Kind(row) = "owned" THEN "end" ELSE "look"
        /\ rec'.listed = rec.listed /\ rec'.kind = Kind(row) /\ rec' \in PassRecord
    BY <1>0, <1>6, Kinds DEF ReconcileRead, PassRecord
  <2>2. Reads  BY <1>6, <2>1 DEF ReconcileRead, Reads
  <2> QED  BY <1>6, <2>1, <2>2 DEF ReconcileRead
<1>7. CASE ReconcileLook
  <2>1. Resolution(rec.kind, Seen) \in {"adopt", "delete", "ensure", "reopen", "end"}
    BY <1>7, Resolutions DEF ReconcileLook
  <2>2. /\ rec'.pc = Resolution(rec.kind, Seen)
        /\ rec'.listed = rec.listed /\ rec'.kind = rec.kind /\ rec' \in PassRecord
    BY <1>0, <1>7, <2>1 DEF ReconcileLook, PassRecord
  <2>3. Looks  BY <1>7, <2>2 DEF ReconcileLook, Looks
  <2> QED  BY <1>7, <2>2, <2>3 DEF ReconcileLook
<1>8. CASE DeleteUploadJob
  BY <1>8, PassSteps DEF DeleteUploadJob, Walks
<1>9. CASE ReopenTerminal
  BY <1>9, PassSteps DEF ReopenTerminal, Walks
<1>10. CASE Adopt
  BY <1>10, PassSteps DEF Adopt, Walks
<1>11. CASE ReconcileEnsure
  BY <1>11, PassSteps DEF ReconcileEnsure, Walks
<1>12. CASE ReconcileFault
  BY <1>12, PassSteps DEF ReconcileFault, Walks
<1>13. CASE EndPass  BY <1>0, <1>13 DEF EndPass
<1>14. CASE Restarted  BY <1>0, <1>14 DEF Restarted
<1>15. ASSUME NEW result, OpDone(result), UNCHANGED volume  PROVE RecMove /\ rec' \in PassRecord
  BY <1>0, <1>15 DEF OpDone, Walks, PassRecord
<1>16. CASE rec' = rec  BY <1>0, <1>16
<1>17. ASSUME OpStep \/ OpFault, rec' # rec
       PROVE  \E result : OpDone(result) /\ UNCHANGED volume
  BY <1>17 DEF OpStep, OpFault, OpRead, OpStat, OpSync, OpPromote, OpClassify, OpBlocked, GoOp
<1>18. ASSUME CalmNext, rec' # rec  PROVE OpStep \/ RecStep
  BY <1>18 DEF CalmNext, Arrive, FenceRead, FenceStat, EnsureDurable, ForwardComplete, ForwardPatch,
     DeleteRead, Refused, QueueStep,
     ClaimPending, Publish, Reject, TerminateSource, FinishRemoval, InspectCandidate, JanitorStep,
     ClaimUploadingForDiscard, UploadJobExists, JanitorTerminate, TusdDelete, CreateFiles,
     BecomesQuiet, BecomesStale, Return, Untouched
<1>19. ASSUME Disturbance, rec' # rec  PROVE OpFault \/ ReconcileFault \/ Restarted
  BY <1>19 DEF Disturbance, JanitorFault, Hide, Restart, PowerLoss, Untouched
<1>20. CASE UNCHANGED vars  BY <1>0, <1>20 DEF vars
<1>21. ASSUME NEW r \in Request, RequestCancellation(r)  PROVE rec' = rec
  BY <1>21 DEF RequestCancellation
<1> QED
  BY <1>1, <1>2, <1>3, <1>4, <1>5, <1>6, <1>7, <1>8, <1>9, <1>10, <1>11, <1>12, <1>13, <1>14,
     <1>15, <1>16, <1>17, <1>18, <1>19, <1>20, <1>21
  DEF Next, RecStep

-----------------------------------------------------------------------------
(* What a step tells the browser. *)

Answered(a) == a \in told' /\ a \notin told

\* What an operation answers as it ends.
LEMMA OpAnswers ==
    ASSUME NEW result, OpDone(result)
    PROVE  /\ Answered("committed") => result = "ok"
           /\ Answered("gone") => result = "final"
           /\ ~Answered("cancelled")
BY DEF OpDone, Answered

\* The row each verdict is given for.
LEMMA Answers ==
    ASSUME TypeOK, [Next]_vars
    PROVE  /\ Answered("committed") => Committed'
           /\ Answered("cancelled") =>
                ~HasRow \/ (StatusIs({"uploading"})' /\ row'.cancelled)
           /\ Answered("gone") =>
                /\ row' = row
                /\ \/ ~HasRow \/ Rejected
                   \/ StatusIs({"uploading"}) /\ row.cancelled
                   \/ op = "stat" /\ Seen # "complete"
<1> DEFINE Right ==
      /\ Answered("committed") => Committed'
      /\ Answered("cancelled") => ~HasRow \/ (StatusIs({"uploading"})' /\ row'.cancelled)
      /\ Answered("gone") =>
           /\ row' = row
           /\ \/ ~HasRow \/ Rejected
              \/ StatusIs({"uploading"}) /\ row.cancelled
              \/ op = "stat" /\ Seen # "complete"
<1>0. /\ HasRow => row \in UploadJob
      /\ Null \notin UploadJob
  BY BarrierAssumption DEF TypeOK, HasRow
<1>1. ASSUME NEW r \in Request, ForwardComplete(r)  PROVE Right
  BY <1>1 DEF ForwardComplete, Answered
<1>2. ASSUME NEW r \in Request, DeleteRead(r)  PROVE Right
  BY <1>2 DEF DeleteRead, Answered
<1>3. ASSUME NEW r \in Request, RequestCancellation(r)  PROVE Right
  <2>1. CASE HasRow /\ MayCancel(row)
    <3>1. row' = CancelRequested(row) /\ told' = told \cup {"cancelled"}
      BY <1>3, <2>1 DEF RequestCancellation
    <3>2. row' \in UploadJob /\ row'.status = "uploading" /\ row'.cancelled
      BY <1>0, <2>1, <3>1, Closures DEF MayCancel
    <3> QED  BY <1>0, <3>1, <3>2 DEF Answered, StatusIs, HasRow
  <2>2. CASE ~(HasRow /\ MayCancel(row))
    BY <1>3, <2>2 DEF RequestCancellation, Answered
  <2> QED  BY <2>1, <2>2
<1>4. CASE OpRead
  <2>1. CASE StatusIs({"uploading"}) /\ GoOp("stat")  BY <2>1 DEF GoOp, Answered
  <2>2. CASE (~HasRow \/ Rejected) /\ OpDone("final")
    BY <1>4, <2>2, OpAnswers DEF OpRead
  <2>3. CASE Committed /\ OpDone("ok")
    BY <1>4, <2>3, OpAnswers DEF OpRead, Committed, StatusIs, HasRow
  <2> QED  BY <1>4, <2>1, <2>2, <2>3 DEF OpRead
<1>5. CASE OpStat
  <2>1. CASE Seen = "complete"  BY <1>5, <2>1 DEF OpStat, GoOp, Answered
  <2>2. CASE Seen # "complete"  BY <1>5, <2>2, OpAnswers DEF OpStat
  <2> QED  BY <2>1, <2>2
<1>6. CASE OpSync  BY <1>6 DEF OpSync, GoOp, Answered
<1>7. CASE OpPromote
  <2>1. CASE HasRow /\ MayPromote(row)
    <3>1. row' = Promoted(row) /\ OpDone("ok")  BY <1>7, <2>1 DEF OpPromote
    <3>2. Turned(row, row', "pending")  BY <1>0, <2>1, <3>1, Statements
    <3>3. Committed'  BY <1>0, <3>2 DEF Turned, Written, Committed, StatusIs, HasRow
    <3> QED  BY <3>1, <3>3, OpAnswers
  <2>2. CASE ~(HasRow /\ MayPromote(row))
    BY <1>7, <2>2 DEF OpPromote, GoOp, Answered
  <2> QED  BY <2>1, <2>2
<1>8. CASE OpClassify
  <2>1. CASE (~HasRow \/ Rejected) /\ OpDone("final")
    BY <1>8, <2>1, OpAnswers DEF OpClassify
  <2>2. CASE StatusIs({"uploading"}) /\ OpDone(IF row.cancelled THEN "final" ELSE "retry")
    BY <1>8, <2>2, OpAnswers DEF OpClassify
  <2>3. CASE Committed /\ OpDone("ok")
    BY <1>8, <2>3, OpAnswers DEF OpClassify, Committed, StatusIs, HasRow
  <2> QED  BY <1>8, <2>1, <2>2, <2>3 DEF OpClassify
<1>9. CASE OpBlocked \/ OpFault
  BY <1>9, OpAnswers DEF OpBlocked, OpFault
<1>10. CASE told' = told  BY <1>10 DEF Answered
<1>11. ASSUME CalmNext, told' # told
       PROVE  \/ \E r \in Request : ForwardComplete(r) \/ DeleteRead(r)
              \/ OpStep
  BY <1>11 DEF CalmNext, Arrive, FenceRead, FenceStat, EnsureDurable, ForwardPatch,
     Refused, RecStep,
     ReconcileOnce, SweepCancelled, ListStale, UploadPathsExist, MarkUnobservable, ReconcileRead,
     ReconcileLook, DeleteUploadJob, ReopenTerminal, Adopt, ReconcileEnsure, EndPass, QueueStep,
     ClaimPending, Publish, Reject, TerminateSource, FinishRemoval, InspectCandidate, JanitorStep,
     ClaimUploadingForDiscard, UploadJobExists, JanitorTerminate, TusdDelete, CreateFiles,
     BecomesQuiet, BecomesStale, Return, Untouched
<1>12. ASSUME Disturbance, told' # told  PROVE OpFault
  BY <1>12 DEF Disturbance, ReconcileFault, JanitorFault, Hide, Restart, PowerLoss, Restarted,
     Untouched
<1>13. CASE UNCHANGED vars  BY <1>13 DEF vars, Answered
<1>14. OpStep => Right  BY <1>4, <1>5, <1>6, <1>7, <1>8, <1>9 DEF OpStep
<1>15. CalmNext => Right  BY <1>1, <1>2, <1>10, <1>11, <1>14
<1>16. Disturbance => Right  BY <1>9, <1>10, <1>12
<1>17. Right  BY <1>3, <1>13, <1>15, <1>16 DEF Next
<1> QED  BY <1>17

-----------------------------------------------------------------------------
(* Who wants the upload durable, and who removes it. *)

\* Nobody begins to ask for durability before all bytes are in sight.
LEMMA Wants ==
    ASSUME TypeOK, PassInv, [Next]_vars, WantsDurable', ~WantsDurable
    PROVE  data' = "complete" \/ rec.pc = "adopt"
<1>0. op = "none" /\ rec.pc # "ensure" /\ \A r \in Request : req[r].pc \notin {"ensure", "hook"}
  BY DEF WantsDurable
<1>1. op' = "none"
  BY <1>0, OpMoves DEF OpMove, Starts, Admits, Finds, Synced, Misses
<1>2. CASE rec'.pc = "ensure"
  <2>1. CASE rec.pc = "adopt"  BY <2>1
  <2>2. CASE Looks /\ UNCHANGED volume
    BY <1>2, <2>2, Resolutions DEF Looks, Seen, volume, files
  <2>3. CASE rec.pc # "adopt" /\ ~(Looks /\ UNCHANGED volume)
    BY <1>0, <1>2, <2>3, RecMoves DEF RecMove, Begins, Reads, Walks, NoPass
  <2> QED  BY <2>1, <2>2, <2>3
<1>3. ASSUME NEW r \in Request, req'[r].pc \in {"ensure", "hook"}
      PROVE  data' = "complete"
  <2>0. req'[r] # req[r] /\ req \in [Request -> RequestRecord]  BY <1>0, <1>3 DEF TypeOK
  <2> USE DEF RequestRecord, NoRequest, GoReq, EndReq, volume, files
  <2>1. ASSUME NEW q \in Request, FenceStat(q)  PROVE data' = "complete"
    BY <1>3, <2>0, <2>1 DEF FenceStat, Unfenced, Seen
  <2>2. ASSUME NEW q \in Request, ForwardPatch(q)  PROVE data' = "complete"
    BY <1>3, <2>0, <2>2 DEF ForwardPatch
  <2>3. ASSUME NEW q \in Request, NEW method \in Method, Arrive(q, method)  PROVE FALSE
    BY <1>3, <2>0, <2>3 DEF Arrive
  <2>4. ASSUME NEW q \in Request, FenceRead(q)  PROVE FALSE
    BY <1>3, <2>0, <2>4 DEF FenceRead, Unfenced
  <2>5. ASSUME NEW q \in Request, EnsureDurable(q)  PROVE FALSE
    BY <1>3, <2>0, <2>5 DEF EnsureDurable
  <2>6. ASSUME NEW q \in Request, ForwardComplete(q) \/ DeleteRead(q) \/ Refused(q) \/ RequestCancellation(q)
        PROVE  FALSE
    BY <1>3, <2>0, <2>6 DEF ForwardComplete, DeleteRead, Refused, RequestCancellation
  <2>7. ASSUME NEW result, OpDone(result)  PROVE FALSE
    BY <1>3, <2>0, <2>7 DEF OpDone, Unfenced
  <2>8. CASE Restarted  BY <1>3, <2>8 DEF Restarted
  <2>9. ASSUME OpStep \/ OpFault  PROVE req' = req \/ \E result : OpDone(result)
    BY <2>9 DEF OpStep, OpFault, OpRead, OpStat, OpSync, OpPromote, OpClassify, OpBlocked, GoOp
  <2>10. ASSUME CalmNext, req' # req
         PROVE  \/ \E q \in Request : \/ \E method \in Method : Arrive(q, method)
                                      \/ FenceRead(q) \/ FenceStat(q) \/ EnsureDurable(q)
                                      \/ ForwardComplete(q) \/ ForwardPatch(q)
                                      \/ DeleteRead(q) \/ Refused(q)
                \/ OpStep
    BY <2>10 DEF CalmNext, RecStep,
     ReconcileOnce, SweepCancelled, ListStale, UploadPathsExist, MarkUnobservable, ReconcileRead,
     ReconcileLook, DeleteUploadJob, ReopenTerminal, Adopt, ReconcileEnsure, EndPass, QueueStep,
     ClaimPending, Publish, Reject, TerminateSource, FinishRemoval, InspectCandidate, JanitorStep,
     ClaimUploadingForDiscard, UploadJobExists, JanitorTerminate, TusdDelete, CreateFiles,
     BecomesQuiet, BecomesStale, Return, Untouched
  <2>11. ASSUME Disturbance, req' # req  PROVE OpFault \/ Restarted
    BY <2>11 DEF Disturbance, ReconcileFault, JanitorFault, Hide, Restart, PowerLoss, Untouched
  <2>12. req' # req /\ ~UNCHANGED vars  BY <2>0 DEF vars
  <2> QED
    BY <2>1, <2>2, <2>3, <2>4, <2>5, <2>6, <2>7, <2>8, <2>9, <2>10, <2>11, <2>12 DEF Next
<1> QED  BY <1>1, <1>2, <1>3 DEF WantsDurable

\* A DELETE is sent for a row whose cleanup has begun, or by the janitor, who
\* has closed the row out or found none.
LEMMA Removals ==
    ASSUME TypeOK, RowInv, [Next]_vars
    PROVE  /\ del' => del \/ jan = "terminate" \/ (row' = row /\ StatusIs({"cleanup", "discarding"}))
           /\ jan' = "terminate" =>
                \/ jan = "terminate"
                \/ Closes
                \/ jan = "exists" /\ ~HasRow
           /\ jan' # "idle" => jan # "idle" \/ Janitor
           /\ jan' \in {"idle", "claim", "exists", "terminate"}
<1> DEFINE Right ==
      /\ del' => del \/ jan = "terminate" \/ (row' = row /\ StatusIs({"cleanup", "discarding"}))
      /\ jan' = "terminate" => jan = "terminate" \/ Closes \/ (jan = "exists" /\ ~HasRow)
      /\ jan' # "idle" => jan # "idle" \/ Janitor
      /\ jan' \in {"idle", "claim", "exists", "terminate"}
<1>0. jan \in {"idle", "claim", "exists", "terminate"}  BY DEF TypeOK
<1>1. CASE ClaimUploadingForDiscard
  <2>1. CASE HasRow /\ MayDiscard(row)
    <3>1. row' = DiscardClaimed(row) /\ row \in UploadJob /\ row.reason = "" /\ Null \notin UploadJob
      BY <1>1, <2>1, BarrierAssumption
      DEF ClaimUploadingForDiscard, TypeOK, RowInv, HasRow, StatusIs, MayDiscard
    <3>2. Written(row, row', "discarding", "cancelled")  BY <3>1, Closures
    <3>3. Closes
      BY <2>1, <3>1, <3>2 DEF Closes, MayDiscard, RowBecomes, Written, HasRow, StatusIs
    <3> QED  BY <1>1, <2>1, <3>3 DEF ClaimUploadingForDiscard, volume
  <2>2. CASE ~(HasRow /\ MayDiscard(row))
    BY <1>1, <2>2 DEF ClaimUploadingForDiscard, volume
  <2> QED  BY <2>1, <2>2
<1>2. CASE UploadJobExists  BY <1>2 DEF UploadJobExists, volume
<1>3. CASE InspectCandidate  BY <1>3 DEF InspectCandidate, volume
<1>4. CASE JanitorTerminate  BY <1>0, <1>4 DEF JanitorTerminate
<1>5. CASE JanitorFault  BY <1>5 DEF JanitorFault, volume
<1>6. CASE TerminateSource  BY <1>0, <1>6 DEF TerminateSource, Untouched
<1>7. CASE Restart  BY <1>7 DEF Restart, Restarted, volume
<1>8. CASE PowerLoss  BY <1>8 DEF PowerLoss, Restarted
<1>9. CASE del' = del /\ jan' = jan  BY <1>0, <1>9
<1>10. CASE TusdDelete  BY <1>0, <1>10 DEF TusdDelete
<1>11. ASSUME CalmNext, <<del, jan>>' # <<del, jan>>
       PROVE  InspectCandidate \/ JanitorStep \/ TerminateSource \/ TusdDelete
  BY <1>11 DEF CalmNext, Arrive, FenceRead, FenceStat, EnsureDurable, ForwardComplete, ForwardPatch,
     DeleteRead, Refused, OpStep, OpRead, OpStat, OpSync, OpPromote, OpClassify, OpBlocked, RecStep,
     ReconcileOnce, SweepCancelled, ListStale, UploadPathsExist, MarkUnobservable, ReconcileRead,
     ReconcileLook, DeleteUploadJob, ReopenTerminal, Adopt, ReconcileEnsure, EndPass, QueueStep,
     ClaimPending, Publish, Reject, FinishRemoval, CreateFiles,
     BecomesQuiet, BecomesStale, Return, Untouched, volume
<1>12. ASSUME Disturbance, <<del, jan>>' # <<del, jan>>
       PROVE  JanitorFault \/ Restart \/ PowerLoss
  BY <1>12 DEF Disturbance, OpFault, ReconcileFault, Hide, Untouched, volume
<1>13. CASE UNCHANGED vars  BY <1>0, <1>13 DEF vars, volume
<1>14. ASSUME NEW r \in Request, RequestCancellation(r)  PROVE Right
  BY <1>0, <1>14 DEF RequestCancellation, volume
<1>15. CalmNext => Right  BY <1>1, <1>2, <1>3, <1>4, <1>6, <1>9, <1>10, <1>11 DEF JanitorStep
<1>16. Disturbance => Right  BY <1>5, <1>7, <1>8, <1>9, <1>12
<1>17. Right  BY <1>13, <1>14, <1>15, <1>16 DEF Next
<1> QED  BY <1>17

-----------------------------------------------------------------------------
(* Types. *)

\* The requests keep their type.
LEMMA RequestTypes ==
    ASSUME TypeOK, [Next]_vars
    PROVE  req' \in [Request -> RequestRecord]
<1> DEFINE Right == req' \in [Request -> RequestRecord]
<1>0. /\ req \in [Request -> RequestRecord] /\ NoRequest \in RequestRecord
      /\ \A r \in Request : Unfenced(r) \in {"readRow", "forward"}
  BY DEF TypeOK, RequestRecord, NoRequest, Unfenced, Method
<1>1. ASSUME NEW r \in Request,
             NEW pc \in {"stat", "ensure", "fenceWait", "forward", "hook", "hookWait", "readRow", "cancel"},
             GoReq(r, pc)
      PROVE  Right
  BY <1>0, <1>1 DEF GoReq, RequestRecord
<1>2. ASSUME NEW r \in Request, EndReq(r)  PROVE Right
  BY <1>0, <1>2 DEF EndReq
<1>3. ASSUME NEW r \in Request, NEW method \in Method, Arrive(r, method)  PROVE Right
  <2>1. [method |-> method, pc |-> "fence"] \in RequestRecord  BY DEF RequestRecord
  <2> QED  BY <1>0, <1>3, <2>1 DEF Arrive
<1>4. ASSUME NEW result, OpDone(result)  PROVE Right
  <2>1. \A r \in Request : [req[r] EXCEPT !.pc = Unfenced(r)] \in RequestRecord
    BY <1>0 DEF RequestRecord
  <2> QED  BY <1>0, <1>4, <2>1 DEF OpDone
<1>5. CASE Restarted  BY <1>0, <1>5 DEF Restarted
<1>6. CASE req' = req  BY <1>0, <1>6
<1>7. ASSUME NEW r \in Request,
             \/ FenceRead(r) \/ FenceStat(r) \/ EnsureDurable(r) \/ ForwardComplete(r)
             \/ ForwardPatch(r) \/ DeleteRead(r) \/ Refused(r) \/ RequestCancellation(r)
      PROVE  Right
  BY <1>0, <1>1, <1>2, <1>7 DEF FenceRead, FenceStat, EnsureDurable, ForwardComplete,
     ForwardPatch, DeleteRead, Refused, RequestCancellation
<1>8. OpStep \/ OpFault => Right
  BY <1>4, <1>6 DEF OpStep, OpFault, OpRead, OpStat, OpSync, OpPromote, OpClassify, OpBlocked, GoOp
<1>9. ASSUME CalmNext, req' # req
      PROVE  \/ \E r \in Request : \/ \E method \in Method : Arrive(r, method)
                                   \/ FenceRead(r) \/ FenceStat(r) \/ EnsureDurable(r)
                                   \/ ForwardComplete(r) \/ ForwardPatch(r)
                                   \/ DeleteRead(r) \/ Refused(r)
             \/ OpStep
  BY <1>9 DEF CalmNext, RecStep,
     ReconcileOnce, SweepCancelled, ListStale, UploadPathsExist, MarkUnobservable, ReconcileRead,
     ReconcileLook, DeleteUploadJob, ReopenTerminal, Adopt, ReconcileEnsure, EndPass, QueueStep,
     ClaimPending, Publish, Reject, TerminateSource, FinishRemoval, InspectCandidate, JanitorStep,
     ClaimUploadingForDiscard, UploadJobExists, JanitorTerminate, TusdDelete, CreateFiles,
     BecomesQuiet, BecomesStale, Return, Untouched
<1>10. ASSUME Disturbance, req' # req  PROVE OpFault \/ Restarted
  BY <1>10 DEF Disturbance, ReconcileFault, JanitorFault, Hide, Restart, PowerLoss, Untouched
<1>11. CalmNext => Right  BY <1>3, <1>6, <1>7, <1>8, <1>9
<1>12. Disturbance => Right  BY <1>5, <1>6, <1>8, <1>10
<1>13. UNCHANGED vars => Right  BY <1>6 DEF vars
<1>14. Right  BY <1>7, <1>11, <1>12, <1>13 DEF Next
<1> QED  BY <1>14

\* The flags and the answers keep theirs.
LEMMA FlagTypes ==
    ASSUME TypeOK, [Next]_vars
    PROVE  {post, stale, hidden, del, ready}' \subseteq BOOLEAN /\ told' \subseteq Answer
<1> DEFINE Flags == {post, stale, hidden, del, ready}' \subseteq BOOLEAN
           Told == told' \subseteq Answer
<1> USE DEF volume, files
<1>0. /\ post \in BOOLEAN /\ stale \in BOOLEAN /\ hidden \in BOOLEAN /\ del \in BOOLEAN
      /\ ready \in BOOLEAN /\ told \subseteq Answer
  BY DEF TypeOK
<1>1. ASSUME NEW r \in Request, NEW method \in Method,
             \/ Arrive(r, method) \/ FenceRead(r) \/ FenceStat(r) \/ EnsureDurable(r)
             \/ ForwardComplete(r) \/ ForwardPatch(r) \/ DeleteRead(r) \/ Refused(r)
             \/ RequestCancellation(r)
      PROVE  Flags /\ Told
  BY <1>0, <1>1 DEF Arrive, FenceRead, FenceStat, EnsureDurable, ForwardComplete, ForwardPatch,
     DeleteRead, Refused, RequestCancellation, Answer
<1>2. CASE OpStep \/ OpFault
  <2>1. UNCHANGED <<post, stale, hidden, del, ready>>
    BY <1>2 DEF OpStep, OpFault, OpRead, OpStat, OpSync, OpPromote, OpClassify, OpBlocked
  <2>2. told' = told \/ \E result : OpDone(result)
    BY <1>2 DEF OpStep, OpFault, OpRead, OpStat, OpSync, OpPromote, OpClassify, OpBlocked, GoOp
  <2>3. Told  BY <1>0, <2>2 DEF OpDone, Answer
  <2> QED  BY <1>0, <2>1, <2>3
<1>3. CASE RecStep \/ ReconcileFault
  BY <1>0, <1>3 DEF RecStep, ReconcileFault, ReconcileOnce, SweepCancelled, ListStale,
     UploadPathsExist, MarkUnobservable, ReconcileRead, ReconcileLook, DeleteUploadJob,
     ReopenTerminal, Adopt, ReconcileEnsure, EndPass
<1>4. CASE InspectCandidate \/ JanitorStep \/ TusdDelete \/ JanitorFault
  BY <1>0, <1>4 DEF InspectCandidate, JanitorStep, ClaimUploadingForDiscard, UploadJobExists,
     JanitorTerminate, MayTerminate, TusdDelete, JanitorFault
<1>5. CASE QueueStep
  BY <1>0, <1>5 DEF QueueStep, ClaimPending, Publish, Reject, TerminateSource, FinishRemoval,
     Untouched
<1>6. CASE CreateFiles \/ BecomesQuiet \/ BecomesStale \/ Hide \/ Return
  BY <1>0, <1>6 DEF CreateFiles, BecomesQuiet, BecomesStale, Hide, Return, Untouched
<1>7. CASE Restart \/ PowerLoss
  BY <1>0, <1>7 DEF Restart, PowerLoss, Restarted
<1>8. CASE UNCHANGED vars  BY <1>0, <1>8 DEF vars
<1>9. "HEAD" \in Method  BY DEF Method
<1>10. CalmNext => Flags /\ Told
  BY <1>1, <1>2, <1>3, <1>4, <1>5, <1>6, <1>9 DEF CalmNext
<1>11. Disturbance => Flags /\ Told  BY <1>2, <1>3, <1>4, <1>6, <1>7 DEF Disturbance
<1> QED  BY <1>1, <1>8, <1>9, <1>10, <1>11 DEF Next

\* TypeOK is inductive, with the reasons recorded and the pass.
LEMMA TypeStep ==
    ASSUME TypeOK, RowInv, PassInv, [Next]_vars
    PROVE  TypeOK'
<1>1. row' \in UploadJob \cup {Null}
  BY RowMoves, NewRow DEF TypeOK, RowMove, Refreshes, Requeues, Ages, Cancels, Promotes, Closes,
     Marks, Works, Publishes, Rejects, Reopens, Deletes, Adopts, RowBecomes, Written
<1>2. data' \in Bytes /\ disk' \in Bytes
  BY FileMoves DEF TypeOK, FileMove, Grows, Syncs, Removes, Creates, LosesPower, Bytes
<1>3. op' \in OpCall
  BY OpMoves DEF TypeOK, OpMove, Starts, Admits, Finds, Synced, Misses, OpCall
<1> QED  BY <1>1, <1>2, <1>3, FlagTypes, RequestTypes, RecMoves, Removals DEF TypeOK

-----------------------------------------------------------------------------
(* The invariants nothing is assumed for. *)

\* The reasons stay with the statuses they were recorded for.
LEMMA RowStep ==
    ASSUME TypeOK, RowInv, PassInv, [Next]_vars
    PROVE  RowInv'
<1>1. CASE Reopens
  <2>1. Kind(row) = rec.kind /\ rec.kind \in Terminal
    BY <1>1 DEF Reopens, PassInv
  <2> QED
    BY <1>1, <2>1, Kinds DEF RowInv, Reopens, RowBecomes, Written, StatusIs, HasRow, Terminal
<1>2. CASE Adopts
  BY <1>2 DEF Adopts, RowInv, StatusIs, NewUploadingJob
<1>3. CASE ~Reopens /\ ~Adopts
  BY <1>3, RowMoves DEF RowInv, RowMove, Refreshes, Requeues, Ages, Cancels, Promotes, Closes,
     Marks, Works, Publishes, Rejects, Deletes, RowBecomes, Written, StatusIs, HasRow
<1> QED  BY <1>1, <1>2, <1>3

\* Only the pass itself moves a terminal row.
LEMMA TerminalStays ==
    ASSUME TypeOK, RowInv, [Next]_vars, Kind(row) \in Terminal \cup {"unobservable"},
           ~Reopens, ~Deletes
    PROVE  Kind(row)' = Kind(row)
<1>1. StatusIs(Terminal)  BY Kinds DEF StatusIs, Terminal
<1> QED
  BY <1>1, RowMoves DEF Kind, RowMove, Refreshes, Requeues, Ages, Cancels, Promotes, Closes,
     Marks, Works, Publishes, Rejects, Adopts, RowBecomes, Written, StatusIs, HasRow, Terminal

\* What the pass has read of a terminal row holds until it acts.
LEMMA PassStep ==
    ASSUME TypeOK, RowInv, PassInv, [Next]_vars
    PROVE  PassInv'
<1>0. jan' # "idle" => Janitor  BY Removals DEF PassInv
<1>1. CASE rec' = rec
  <2>1. ~Reopens /\ ~Deletes  BY <1>1 DEF Reopens, Deletes
  <2>2. rec.pc \in {"look", "delete", "reopen"} /\ rec.kind \in Terminal \cup {"unobservable"} =>
          Kind(row)' = rec.kind
    BY <2>1, TerminalStays DEF PassInv
  <2> QED  BY <1>0, <1>1, <2>2 DEF PassInv
<1>2. CASE rec'.pc \notin {"look", "delete", "reopen"}
  BY <1>0, <1>2 DEF PassInv
<1>3. CASE Reads
  <2>1. Kind(row)' = Kind(row)  BY <1>3 DEF Reads, Kind
  <2> QED  BY <1>0, <1>3, <2>1 DEF Reads, PassInv
<1>4. CASE Looks
  <2>1. Kind(row)' = Kind(row)  BY <1>4 DEF Looks, Kind
  <2> QED  BY <1>0, <1>4, <2>1, Resolutions DEF Looks, PassInv
<1> QED  BY <1>1, <1>2, <1>3, <1>4, RecMoves DEF RecMove, Begins, Walks, NoPass

\* What would survive a power loss stays part of what is there.
LEMMA FilesStep ==
    ASSUME TypeOK, FilesInv, [Next]_vars
    PROVE  FilesInv'
BY FileMoves DEF TypeOK, FilesInv, FileMove, Grows, Syncs, Removes, Creates, LosesPower, Bytes

\* A committed upload stays committed or is refused for its own bytes.
LEMMA DurableStays ==
    ASSUME TypeOK, RowInv, PassInv, [Next]_vars, Durable
    PROVE  Durable'
<1> USE DEF Durable, Committed, Rejected, StatusIs, HasRow
<1>1. CASE Reopens
  <2>1. Kind(row) = rec.kind /\ rec.kind \in Terminal
    BY <1>1 DEF Reopens, PassInv
  <2> QED  BY <1>1, <2>1, Kinds DEF Reopens, RowBecomes, Written, Terminal
<1>2. CASE Deletes
  <2>1. Kind(row) = "unobservable"  BY <1>2 DEF Deletes, PassInv
  <2> QED  BY <1>2, <2>1, Kinds
<1>3. CASE ~Reopens /\ ~Deletes
  BY <1>3, RowMoves DEF RowMove, Refreshes, Requeues, Ages, Cancels, Promotes, Closes,
     Marks, Works, Publishes, Rejects, Adopts, RowBecomes, Written
<1> QED  BY <1>1, <1>2, <1>3

\* A PATCH that pre-finish let succeed stays true.
LEMMA HookStep ==
    ASSUME TypeOK, RowInv, PassInv, HookTruthful, [Next]_vars
    PROVE  HookTruthful'
<1> SUFFICES ASSUME "committed" \in told' PROVE Durable'  BY DEF HookTruthful
<1>1. CASE "committed" \in told  BY <1>1, DurableStays DEF HookTruthful
<1>2. CASE "committed" \notin told  BY <1>2, Answers DEF Answered, Durable
<1> QED  BY <1>1, <1>2

-----------------------------------------------------------------------------
(* The source of a committed upload. *)

\* Nothing brings a row back once tusd may remove its source.
LEMMA SpentStays ==
    ASSUME TypeOK, RowInv, PassInv, [Next]_vars, Spent
    PROVE  Spent'
<1> USE DEF Spent, Condemned, Rejected, StatusIs, HasRow, Kind
<1>1. CASE Reopens
  <2>1. Kind(row) = rec.kind /\ rec.kind \in Terminal
    BY <1>1 DEF Reopens, PassInv
  <2> QED  BY <1>1, <2>1 DEF Reopens, RowBecomes, Written, Terminal
<1>2. CASE Deletes
  <2>1. Kind(row) = "unobservable"  BY <1>2 DEF Deletes, PassInv
  <2> QED  BY <2>1
<1>3. CASE ~Reopens /\ ~Deletes
  BY <1>3, RowMoves DEF RowInv, RowMove, Refreshes, Requeues, Ages, Cancels, Promotes, Closes,
     Marks, Works, Publishes, Rejects, Adopts, RowBecomes, Written
<1> QED  BY <1>1, <1>2, <1>3

\* A spent row waits for no worker and for no commit.
LEMMA SpentRow ==
    ASSUME Spent
    PROVE  ~StatusIs({"uploading", "pending", "processing"})
BY DEF Spent, Condemned, Rejected, StatusIs, HasRow

\* All bytes stay, but for a spent row or a power loss.
LEMMA BytesStay ==
    ASSUME TypeOK, RowInv, PassInv, FilesInv, SourceInv, [Next]_vars,
           Spent \/ data = "complete"
    PROVE  \/ Spent' \/ data' = "complete"
           \/ LosesPower
<1>1. CASE Spent  BY <1>1, SpentStays
<1>2. CASE data = "complete"
  BY <1>2, FileMoves, SpentStays
  DEF FilesInv, FileMove, Grows, Syncs, Removes, Creates, SourceInv
<1> QED  BY <1>1, <1>2

\* A DELETE is on its way only for a spent row.
LEMMA RemovalStep ==
    ASSUME TypeOK, RowInv, PassInv, SourceInv, Sheltered, Steady => SightInv, [Next]_vars
    PROVE  (del \/ jan = "terminate" => Spent)'
<1> SUFFICES ASSUME (del \/ jan = "terminate")' PROVE Spent'  OBVIOUS
<1>1. CASE del \/ jan = "terminate"  BY <1>1, SpentStays DEF SourceInv
<1>2. CASE StatusIs({"cleanup", "discarding"})
  <2>1. Spent
    BY <1>2 DEF Spent, Condemned, Rejected, StatusIs, HasRow, Kind
  <2> QED  BY <2>1, SpentStays
<1>3. CASE Closes
  BY <1>3 DEF Closes, RowBecomes, Written, Spent, Condemned, Rejected, StatusIs, HasRow, Kind
<1>4. CASE jan = "exists" /\ ~HasRow
  BY <1>4 DEF PassInv, Sheltered, SightInv
<1> QED  BY <1>1, <1>2, <1>3, <1>4, Removals

\* An operation commits what it has seen and synced.
LEMMA SyncStep ==
    ASSUME TypeOK, RowInv, PassInv, FilesInv, SourceInv, [Next]_vars
    PROVE  /\ (op \in {"sync", "promote"} => Spent \/ data = "complete")'
           /\ (op = "promote" => Spent \/ disk = "complete")'
<1>1. ASSUME op' \in {"sync", "promote"}  PROVE Spent' \/ data' = "complete"
  <2>1. ~LosesPower  BY <1>1 DEF LosesPower
  <2>2. CASE op \in {"sync", "promote"}  BY <2>1, <2>2, BytesStay DEF SourceInv
  <2>3. CASE op \notin {"sync", "promote"}
    BY <1>1, <2>3, OpMoves DEF OpMove, Starts, Admits, Finds, Synced, Misses, Seen
  <2> QED  BY <2>2, <2>3
<1>2. ASSUME op' = "promote"  PROVE Spent' \/ disk' = "complete"
  <2>1. CASE op = "promote"
    <3>1. CASE Spent  BY <3>1, SpentStays
    <3>2. CASE disk = "complete"
      BY <1>2, <2>1, <3>2, FileMoves, SpentStays
      DEF FilesInv, FileMove, Grows, Syncs, Removes, Creates, LosesPower, SourceInv
    <3> QED  BY <2>1, <3>1, <3>2 DEF SourceInv
  <2>2. CASE op # "promote"
    <3>1. Synced /\ row' = row /\ data' = data
      BY <1>2, <2>2, OpMoves DEF OpMove, Starts, Admits, Finds, Synced, Misses
    <3>2. Spent \/ data = "complete"  BY <3>1 DEF Synced, SourceInv
    <3> QED  BY <3>1, <3>2, SpentStays DEF Synced
  <2> QED  BY <2>1, <2>2
<1> QED  BY <1>1, <1>2

\* Only the operation commits, and only what is complete on disk.
LEMMA Commits ==
    ASSUME TypeOK, RowInv, PassInv, FilesInv, SourceInv, [Next]_vars, Committed', ~Committed
    PROVE  /\ ~post' /\ disk' = data' /\ data' = "complete"
           /\ UNCHANGED volume /\ Promotes
<1>1. ~Reopens
  <2> SUFFICES ASSUME Reopens PROVE FALSE  OBVIOUS
  <2>1. Kind(row) = rec.kind  BY DEF Reopens, PassInv
  <2> QED
    BY <2>1, Kinds DEF Reopens, RowBecomes, Written, Committed, StatusIs, HasRow, Terminal
<1>2. ~Adopts
  <2>1. NewUploadingJob.status = "uploading"  BY DEF NewUploadingJob
  <2> QED  BY <2>1 DEF Adopts, Committed, StatusIs
<1>3. Promotes /\ UNCHANGED volume
  BY <1>1, <1>2, RowMoves DEF RowMove, Refreshes, Requeues, Ages, Cancels, Closes, Marks, Works,
     Publishes, Rejects, Deletes, RowBecomes, Written, Committed, StatusIs, HasRow
<1>4. ~Spent  BY <1>3, SpentRow DEF Promotes, StatusIs
<1> QED  BY <1>3, <1>4 DEF Promotes, SourceInv, FilesInv, volume, files

\* The source of a committed upload is whole until it goes.
LEMMA WholeStep ==
    ASSUME TypeOK, RowInv, PassInv, FilesInv, SourceInv, [Next]_vars
    PROVE  /\ (Committed => ~post /\ disk = data /\ data # "partial")'
           /\ CommittedComplete'
<1>1. CASE Committed' /\ ~Committed  BY <1>1, Commits DEF CommittedComplete
<1>2. CASE Committed' /\ Committed
  <2>1. ~post' /\ disk' = data' /\ data' # "partial"
    BY <1>2, FileMoves
    DEF TypeOK, SourceInv, FileMove, Grows, Syncs, Removes, Creates, LosesPower
  <2>2. ASSUME StatusIs({"pending", "processing"})'  PROVE data' = "complete"
    <3>1. ~Spent'
      BY <2>2 DEF Spent, Condemned, Rejected, StatusIs, HasRow
    <3>2. ~Spent  BY <3>1, SpentStays
    <3>3. data = "complete" /\ disk = "complete"
      BY <1>2, <3>2 DEF SourceInv, CommittedComplete, Committed, Spent, StatusIs, HasRow
    <3> QED
      BY <3>2, <3>3, FileMoves
      DEF FilesInv, FileMove, Grows, Syncs, Removes, Creates, LosesPower, SourceInv
  <2> QED  BY <2>1, <2>2 DEF CommittedComplete
<1>3. CASE ~Committed'
  BY <1>3 DEF Committed, CommittedComplete, StatusIs, HasRow
<1> QED  BY <1>1, <1>2, <1>3

\* SourceInv is inductive wherever no janitor runs beside hidden files.
LEMMA SourceStep ==
    ASSUME TypeOK, RowInv, PassInv, FilesInv, SourceInv, Sheltered, Steady => SightInv, [Next]_vars
    PROVE  SourceInv'
BY RemovalStep, SyncStep, WholeStep DEF SourceInv

-----------------------------------------------------------------------------
(* Nothing goes out of sight. *)

\* What is assumed where neither rows nor files go out of sight.
Sighted ==
    /\ Steady /\ TypeOK /\ RowInv /\ PassInv /\ FilesInv /\ SourceInv /\ SightInv

\* A mount stays, a row is only rewritten, and the three faults that would
\* take either away do not happen.
LEMMA InSight ==
    ASSUME Sighted, [Next]_vars
    PROVE  /\ HasRow' /\ ~hidden'
           /\ ~Deletes /\ ~Adopts
           /\ Seen = data
           /\ "delay" \notin Faults
<1>1. ~Deletes /\ ~Adopts  BY DEF Sighted, SightInv, Deletes, Adopts
<1>2. HasRow'
  BY <1>1, RowMoves DEF Sighted, SightInv, RowMove, Refreshes, Requeues, Ages, Cancels, Promotes,
     Closes, Marks, Works, Publishes, Rejects, Reopens, RowBecomes, HasRow
<1>3. ~hidden'
  <2>1. hidden' # hidden => hidden' = FALSE \/ Hide
    BY DEF Next, CalmNext, Disturbance, Arrive, FenceRead, FenceStat, EnsureDurable,
     ForwardComplete, ForwardPatch, DeleteRead, Refused, RequestCancellation, OpStep, OpRead,
     OpStat, OpSync, OpPromote, OpClassify, OpBlocked, OpFault, RecStep, ReconcileFault,
     ReconcileOnce, SweepCancelled, ListStale, UploadPathsExist, MarkUnobservable, ReconcileRead,
     ReconcileLook, DeleteUploadJob, ReopenTerminal, Adopt, ReconcileEnsure, EndPass, QueueStep,
     ClaimPending, Publish, Reject, TerminateSource, FinishRemoval, InspectCandidate, JanitorStep,
     ClaimUploadingForDiscard, UploadJobExists, JanitorTerminate, JanitorFault, TusdDelete,
     CreateFiles, BecomesQuiet, BecomesStale, Return, Restart, PowerLoss, volume, files, vars
  <2>2. ~Hide  BY DEF Hide, Sighted, Steady
  <2> QED  BY <2>1, <2>2 DEF Sighted, SightInv
<1>4. Seen = data  BY DEF Sighted, SightInv, Seen
<1>5. "delay" \notin Faults  BY DEF Sighted, Steady
<1> QED  BY <1>1, <1>2, <1>3, <1>4, <1>5

\* A row is quiet, and a pass closes one out, only once tusd has had its chance
\* to create the files.
LEMMA QuietStep ==
    ASSUME Sighted, [Next]_vars
    PROVE  /\ (row.quiet \/ rec.pc \in {"paths", "mark"} => ~post)'
           /\ (rec.pc = "mark" => data = "absent")'
<1> USE DEF Sighted
<1>1. post' => post
  BY FileMoves DEF FileMove, Grows, Syncs, Removes, Creates, LosesPower
<1>2. row'.quiet => row.quiet \/ Ages
  BY InSight, RowMoves DEF RowMove, Refreshes, Requeues, Cancels, Promotes,
     Closes, Marks, Works, Publishes, Rejects, Reopens, RowBecomes, Written, HasRow
<1>3. ASSUME row'.quiet  PROVE ~post'
  BY <1>1, <1>2, <1>3, InSight DEF SightInv, Ages
<1>4. ASSUME rec'.pc \in {"paths", "mark"}  PROVE ~post'
  <2>1. rec.pc \in {"paths", "mark"} \/ row.quiet
    BY <1>4, RecMoves, Resolutions DEF RecMove, Begins, Reads, Looks, Walks, NoPass
  <2> QED  BY <1>1, <2>1 DEF SightInv
<1>5. ASSUME rec'.pc = "mark"  PROVE data' = "absent"
  <2>1. CASE rec.pc = "mark"
    <3>1. ~LosesPower  BY <1>5 DEF LosesPower, NoPass
    <3> QED  BY <2>1, <3>1, FileMoves
        DEF SightInv, FilesInv, FileMove, Grows, Syncs, Removes, Creates
  <2>2. CASE rec.pc # "mark"
    <3>1. Seen = "absent" /\ data' = data
      BY <1>5, <2>2, RecMoves, Resolutions
      DEF RecMove, Begins, Reads, Looks, Walks, NoPass, volume, files
    <3> QED  BY <3>1, InSight
  <2> QED  BY <2>1, <2>2
<1> QED  BY <1>3, <1>4, <1>5

\* A row is closed out as unobservable only if its upload never had files.
LEMMA VoidStep ==
    ASSUME Sighted, [Next]_vars
    PROVE  /\ (Kind(row) = "unobservable" => Void)'
           /\ Void => (~post /\ data = "absent")'
<1> USE DEF Sighted
<1>1. ASSUME ~post, data = "absent"  PROVE ~post' /\ data' = "absent"
  BY <1>1, FileMoves DEF FilesInv, FileMove, Grows, Syncs, Removes, Creates, LosesPower
<1>2. ASSUME Kind(row)' = "unobservable"  PROVE Kind(row) = "unobservable" \/ Marks
  <2>1. CASE Reopens
    <3>1. Kind(row) = rec.kind /\ rec.kind \in Terminal  BY <2>1 DEF PassInv, Reopens
    <3> QED  BY <1>2, <2>1, <3>1 DEF Reopens, RowBecomes, Written, Kind
  <2>2. CASE ~Reopens
    BY <1>2, <2>2, InSight, RowMoves DEF RowInv, RowMove, Refreshes, Requeues, Ages, Cancels,
       Promotes, Closes, Marks, Works, Publishes, Rejects, RowBecomes, Written, Kind, HasRow, StatusIs
  <2> QED  BY <2>1, <2>2
<1>3. ASSUME Kind(row)' = "unobservable"  PROVE Void'
  <2>1. ~post /\ data = "absent"  BY <1>2, <1>3 DEF SightInv, Void, Marks
  <2> QED  BY <1>1, <1>3, <2>1 DEF Void
<1> QED  BY <1>1, <1>3 DEF Void

\* A pass lists no upload that is without files for good.
LEMMA ListedStep ==
    ASSUME Sighted, [Next]_vars
    PROVE  (post \/ Void => ~rec.listed)'
<1> USE DEF Sighted
<1> SUFFICES ASSUME post' \/ Void', rec'.listed PROVE FALSE  OBVIOUS
<1>1. ~LosesPower  BY DEF LosesPower, NoPass
<1>2. post' => post
  BY FileMoves DEF FileMove, Grows, Syncs, Removes, Creates, LosesPower
<1>3. data' = "absent"  BY <1>2, FilesStep DEF FilesInv, Void
<1>4. CASE Begins /\ UNCHANGED volume
  BY <1>3, <1>4, InSight DEF Begins, volume, files
<1>5. CASE ~(Begins /\ UNCHANGED volume)
  <2>1. rec.listed
    <3>1. rec' # NoPass  BY DEF NoPass
    <3>2. rec'.listed = rec.listed  BY <1>5, <3>1, RecMoves DEF RecMove, Reads, Looks, Walks
    <3> QED  BY <3>2
  <2>2. ~post /\ ~Void /\ Void'  BY <1>2, <2>1 DEF SightInv
  <2>3. CASE data = "absent"
    <3>1. ~(StatusIs({"uploading"}) \/ Kind(row) = "unobservable")  BY <2>2, <2>3 DEF Void
    <3>2. (StatusIs({"uploading"}) \/ Kind(row) = "unobservable")'  BY <2>2 DEF Void
    <3>3. CASE Reopens
      BY <3>2, <3>3 DEF Reopens, RowBecomes, Written, Kind, StatusIs, HasRow
    <3>4. CASE ~Reopens
      BY <3>1, <3>2, <3>4, InSight, RowMoves DEF RowInv, RowMove, Refreshes, Requeues, Ages, Cancels,
         Promotes, Closes, Marks, Works, Publishes, Rejects, RowBecomes, Written, Kind, HasRow,
         StatusIs
    <3> QED  BY <3>3, <3>4
  <2>4. CASE data # "absent"
    <3>1. Removes /\ row' = row
      BY <1>1, <1>3, <2>4, FileMoves DEF FilesInv, FileMove, Grows, Syncs, Creates
    <3>2. Spent  BY <3>1 DEF Removes, SourceInv
    <3> QED  BY <2>2, <3>1, <3>2
        DEF Void, Spent, Condemned, Rejected, StatusIs, HasRow, Kind
  <2> QED  BY <2>3, <2>4
<1> QED  BY <1>4, <1>5

\* So it finds a row for what it has listed, and that row has had files.
LEMMA KnownStep ==
    ASSUME Sighted, [Next]_vars
    PROVE  /\ (rec.pc \in {"read", "look", "reopen", "ensure"} => rec.listed)'
           /\ rec'.pc \notin {"delete", "adopt"} /\ rec'.kind \notin {"rowless", "unobservable"}
<1> USE DEF Sighted, SightInv
<1>1. CASE Reads
  <2>1. HasRow /\ ~Void  BY <1>1 DEF Reads
  <2>2. rec'.kind \notin {"rowless", "unobservable"}  BY <1>1, <2>1, Kinds DEF Reads
  <2> QED  BY <1>1, <2>2 DEF Reads
<1>2. CASE Looks
  <2>1. rec'.pc \in {"ensure", "reopen", "end"}  BY <1>2, Resolutions DEF Looks
  <2> QED  BY <1>2, <2>1 DEF Looks
<1>3. CASE ~Reads /\ ~Looks
  BY <1>3, RecMoves DEF RecMove, Begins, Walks, NoPass
<1> QED  BY <1>1, <1>2, <1>3

\* SightInv is inductive.
LEMMA SightStep ==
    ASSUME Sighted, [Next]_vars
    PROVE  SightInv'
BY InSight, QuietStep, VoidStep, ListedStep, KnownStep DEF SightInv

-----------------------------------------------------------------------------
(* The verdicts. *)

\* Whoever wants the upload durable has seen all of it.
LEMMA WantStep ==
    ASSUME Sighted, VerdictInv, [Next]_vars
    PROVE  (WantsDurable => Spent \/ data = "complete")'
<1> USE DEF Sighted
<1> SUFFICES ASSUME WantsDurable' PROVE Spent' \/ data' = "complete"  OBVIOUS
<1>1. ~LosesPower  BY DEF LosesPower, WantsDurable, NoPass, NoRequest
<1>2. CASE WantsDurable  BY <1>1, <1>2, BytesStay DEF VerdictInv
<1>3. CASE ~WantsDurable  BY <1>3, Wants DEF SightInv
<1> QED  BY <1>2, <1>3

\* An operation that has found the upload uploading is the only one to commit it.
LEMMA CommitStep ==
    ASSUME Sighted, VerdictInv, [Next]_vars
    PROVE  (op \in {"stat", "sync", "promote", "classify"} => ~Committed)'
<1> USE DEF Sighted
<1> SUFFICES ASSUME op' \in {"stat", "sync", "promote", "classify"}, Committed' PROVE FALSE
  OBVIOUS
<1>1. CASE Committed
  BY <1>1, OpMoves
  DEF VerdictInv, OpMove, Starts, Admits, Finds, Synced, Misses, Committed, StatusIs, HasRow
<1>2. CASE ~Committed  BY <1>2, Commits DEF Promotes
<1> QED  BY <1>1, <1>2

\* An upload given up stays so.
LEMMA GoneStep ==
    ASSUME Sighted, VerdictInv, [Next]_vars
    PROVE  ("gone" \in told => Rejected \/ (StatusIs({"uploading"}) /\ row.cancelled))'
<1> USE DEF Sighted
<1> DEFINE Given == Rejected \/ (StatusIs({"uploading"}) /\ row.cancelled)
<1>1. ASSUME Given  PROVE Given'
  <2>1. CASE Reopens
    <3>1. Kind(row) = rec.kind  BY <2>1 DEF Reopens, PassInv
    <3>2. rec.kind # "complete"
      BY <1>1, <3>1, Kinds DEF Rejected, StatusIs
    <3> QED  BY <2>1, <3>2 DEF Reopens, RowBecomes, Written, Rejected, StatusIs, HasRow
  <2>2. CASE ~Reopens
    BY <1>1, <2>2, InSight, RowMoves DEF RowMove, Refreshes, Requeues, Ages, Cancels,
       Promotes, Closes, Marks, Works, Publishes, Rejects, RowBecomes, Written, Rejected, HasRow,
       StatusIs
  <2> QED  BY <2>1, <2>2
<1>2. ASSUME Answered("gone")  PROVE Given
  <2>1. HasRow /\ Seen = data  BY InSight DEF SightInv
  <2>2. CASE op = "stat" /\ Seen # "complete"
    <3>1. Spent /\ ~Committed  BY <2>1, <2>2 DEF VerdictInv, WantsDurable
    <3> QED  BY <3>1 DEF Spent, Condemned, Committed, StatusIs
  <2> QED  BY <1>2, <2>1, <2>2, Answers
<1> QED  BY <1>1, <1>2 DEF VerdictInv, Answered

\* An acknowledged cancellation is never committed over.
LEMMA CancelStep ==
    ASSUME Sighted, VerdictInv, [Next]_vars
    PROVE  ("cancelled" \in told => ~Committed /\ row.cancelled)'
<1> USE DEF Sighted
<1> SUFFICES ASSUME "cancelled" \in told' PROVE ~Committed' /\ row'.cancelled  OBVIOUS
<1>1. CASE Answered("cancelled")
  BY <1>1, Answers DEF SightInv, Committed, StatusIs
<1>2. CASE ~Answered("cancelled")
  <2>1. ~Committed /\ row.cancelled  BY <1>2 DEF VerdictInv, Answered
  <2>2. ~Committed'  BY <2>1, Commits DEF Promotes
  <2>3. row'.cancelled
    BY <2>1, InSight, RowMoves DEF RowMove, Refreshes, Requeues, Ages, Cancels, Promotes, Closes,
       Marks, Works, Publishes, Rejects, Reopens, RowBecomes, Written
  <2> QED  BY <2>2, <2>3
<1> QED  BY <1>1, <1>2

\* VerdictInv is inductive.
LEMMA VerdictStep ==
    ASSUME Sighted, VerdictInv, [Next]_vars
    PROVE  VerdictInv'
BY WantStep, CommitStep, GoneStep, CancelStep DEF VerdictInv

-----------------------------------------------------------------------------
(* The inductive invariant. *)

\* The invariant holds of an admission, and of a legacy upload.
LEMMA BarrierInit == Init => BarrierInv
<1> SUFFICES ASSUME Init PROVE BarrierInv  OBVIOUS
<1>1. PICK legacy \in BOOLEAN :
        /\ legacy => "legacy" \in Faults
        /\ row = IF legacy THEN Null ELSE NewUploadingJob
        /\ data = IF legacy THEN "partial" ELSE "absent"
        /\ disk = IF legacy THEN "partial" ELSE "absent"
        /\ post = ~legacy
        /\ ready = ~legacy
  BY DEF Init
<1>2. /\ stale = FALSE /\ hidden = FALSE /\ del = FALSE
      /\ op = "none" /\ rec = NoPass /\ jan = "idle" /\ told = {}
      /\ \A r \in Request : req[r].pc = "idle"
  BY DEF Init, NoRequest
<1>3. rec.pc = "idle" /\ ~rec.listed /\ rec.kind = "owned"
  BY <1>2 DEF NoPass
<1>4. /\ NewUploadingJob.status = "uploading" /\ NewUploadingJob.reason = ""
      /\ ~NewUploadingJob.quiet /\ NewUploadingJob # Null
  BY NewRow, BarrierAssumption DEF NewUploadingJob
<1>5. TypeOK
  <2>1. NoRequest \in RequestRecord /\ NoPass \in PassRecord
    BY DEF NoRequest, RequestRecord, Method, NoPass, PassRecord
  <2>2. req \in [Request -> RequestRecord]  BY <2>1 DEF Init
  <2>3. row \in UploadJob \cup {Null} /\ data \in Bytes /\ disk \in Bytes
    BY <1>1, NewRow DEF Bytes
  <2>4. post \in BOOLEAN /\ ready \in BOOLEAN  BY <1>1
  <2> QED  BY <1>2, <2>1, <2>2, <2>3, <2>4 DEF TypeOK, OpCall
<1>6. RowInv  BY <1>1, <1>4 DEF RowInv, StatusIs, HasRow
<1>7. PassInv /\ HookTruthful  BY <1>2, <1>3 DEF PassInv, HookTruthful
<1>8. FilesInv  BY <1>1 DEF FilesInv
<1>9. ~Committed /\ ~StatusIs({"pending", "processing"})
  BY <1>1, <1>4 DEF Committed, StatusIs, HasRow
<1>10. SourceInv  BY <1>2, <1>9 DEF SourceInv, CommittedComplete
<1>11. ASSUME Steady  PROVE SightInv /\ VerdictInv
  <2>1. ~legacy  BY <1>1, <1>11 DEF Steady
  <2>2. row = NewUploadingJob /\ post /\ data = "absent"  BY <1>1, <2>1
  <2>3. Kind(row) = "uploading"  BY <1>4, <2>2 DEF Kind
  <2>4. SightInv  BY <1>2, <1>3, <1>4, <2>2, <2>3 DEF SightInv, Void, HasRow
  <2>5. VerdictInv  BY <1>2, <1>3 DEF VerdictInv, WantsDurable
  <2> QED  BY <2>4, <2>5
<1> QED  BY <1>5, <1>6, <1>7, <1>8, <1>10, <1>11 DEF BarrierInv

\* Every step keeps the invariant.
LEMMA BarrierStep == BarrierInv /\ [Next]_vars => BarrierInv'
<1> SUFFICES ASSUME BarrierInv, [Next]_vars PROVE BarrierInv'  OBVIOUS
<1> USE DEF BarrierInv
<1>1. (TypeOK /\ RowInv /\ PassInv /\ FilesInv /\ HookTruthful)'
  BY TypeStep, RowStep, PassStep, FilesStep, HookStep
<1>2. Sheltered => SourceInv'  BY SourceStep
<1>3. Steady => Sheltered  BY DEF Sheltered
<1>4. Steady => SightInv' /\ VerdictInv'
  BY <1>3, SightStep, VerdictStep DEF Sighted
<1> QED  BY <1>1, <1>2, <1>4

\* The inductive invariant holds whatever may go wrong; its last two parts say
\* of themselves where.
THEOREM BarrierInvariant == Spec => []BarrierInv
BY BarrierInit, BarrierStep, PTL DEF Spec

\* A final PATCH that pre-finish let succeed is never taken back, with any
\* faults: the upload stays committed, or is refused for its own bytes.
THEOREM HookKeepsItsWord == Spec => []HookTruthful
<1>1. BarrierInv => HookTruthful  BY DEF BarrierInv
<1> QED  BY <1>1, BarrierInvariant, PTL

\* What the queue may still read is complete, and synced.
THEOREM CommittedStaysWhole ==
    ASSUME Sheltered
    PROVE  Spec => []CommittedComplete
<1>1. BarrierInv => CommittedComplete  BY DEF BarrierInv, SourceInv
<1> QED  BY <1>1, BarrierInvariant, PTL

\* An upload whose cancellation was acknowledged never reaches the gallery.
THEOREM CancellationStands ==
    ASSUME Steady
    PROVE  Spec => []CancelledStays
<1>1. BarrierInv => CancelledStays  BY DEF BarrierInv, VerdictInv, CancelledStays
<1> QED  BY <1>1, BarrierInvariant, PTL

\* ErrDurabilityFinal is relayed only for an upload that is never committed.
THEOREM FinalVerdict ==
    ASSUME Steady
    PROVE  Spec => []FinalIsFinal
<1>1. BarrierInv => FinalIsFinal
  BY DEF BarrierInv, VerdictInv, FinalIsFinal, Rejected, Committed, StatusIs
<1> QED  BY <1>1, BarrierInvariant, PTL

\* No DELETE tusd acts on takes the source of a committed upload.
THEOREM SourceSpared ==
    ASSUME Sheltered
    PROVE  Spec => NeededSpared
<1>1. BarrierInv => (TusdDelete => ~StatusIs({"pending", "processing"}))
  BY SpentRow DEF BarrierInv, SourceInv, TusdDelete, StatusIs
<1> QED  BY <1>1, BarrierInvariant, PTL DEF NeededSpared

\* A verdict the status API has given is given again.
LEMMA ReceiptStep ==
    ASSUME Steady, BarrierInv, [Next]_vars,
           PublicState \in {"published", "failed", "cancelled"}
    PROVE  PublicState' = PublicState
<1>0. Sighted  BY DEF Sighted, BarrierInv, Sheltered
<1> USE DEF PublicState
<1>1. HasRow /\ HasRow' /\ row \in UploadJob
  BY <1>0, InSight DEF Sighted, SightInv, TypeOK, HasRow
<1>2. CASE Reopens
  <2>1. Kind(row) = rec.kind /\ rec.kind \in Terminal
    BY <1>0, <1>2 DEF Sighted, PassInv, Reopens
  <2>2. row.status = rec.kind  BY <1>1, <2>1 DEF Kind, Terminal, HasRow
  <2> QED  BY <1>1, <1>2, <2>1, <2>2 DEF Reopens, RowBecomes, Written, Terminal
<1>3. CASE ~Reopens
  BY <1>0, <1>1, <1>3, InSight, RowMoves DEF Sighted, RowInv, RowMove, Refreshes, Requeues, Ages, Cancels,
     Promotes, Closes, Marks, Works, Publishes, Rejects, RowBecomes, Written, StatusIs
<1> QED  BY <1>2, <1>3

\* What the status API has once reported published, failed or cancelled it
\* never reports as anything else.
THEOREM ReceiptsAreFinal ==
    ASSUME Steady
    PROVE  Spec => ReceiptFinal
<1>1. BarrierInv /\ [Next]_vars =>
        [(PublicState \in {"published", "failed", "cancelled"}) => PublicState' = PublicState]_vars
  BY ReceiptStep
<1> QED  BY <1>1, BarrierInvariant, PTL DEF Spec, ReceiptFinal

-----------------------------------------------------------------------------
(* The way into the queue implements the promise. *)

\* What each state of the promise stands for.
LEMMA States ==
    ASSUME NEW job \in UploadJob \cup {Null}
    PROVE  /\ StateOf(job) \in {"transferring", "durable", "published", "condemned"}
           /\ StateOf(job) = "durable" <=>
                job # Null /\ job.status \in {"pending", "processing"}
           /\ StateOf(job) = "published" <=>
                job # Null /\ job.status \in {"cleanup", "complete"}
           /\ StateOf(job) = "condemned" <=>
                /\ job # Null /\ job.status \in {"discarding", "discarded"}
                /\ ~(job.status = "discarded" /\ job.reason = "unobservable")
<1>1. job # Null => job.status \in JobStatus  BY DEF UploadJob
<1>2. CASE job = Null  BY <1>2 DEF StateOf
<1>3. CASE job # Null
  BY <1>1, <1>3 DEF StateOf, Kind, JobStatus, Terminal
<1> QED  BY <1>2, <1>3

\* What the promise sees of the row's step.
RowSeen ==
    \/ StateOf(row)' = StateOf(row)
    \/ /\ UNCHANGED disk
       /\ \/ StateOf(row) = "transferring" /\ StateOf(row)' = "durable" /\ disk = "complete"
          \/ StateOf(row) = "transferring" /\ StateOf(row)' = "condemned"
          \/ StateOf(row) = "durable" /\ StateOf(row)' = "condemned" /\ Refusable
          \/ StateOf(row) = "durable" /\ StateOf(row)' = "published" /\ ~Refusable

\* Every step of the row is one of those.
LEMMA RowIsSeen ==
    ASSUME TypeOK, RowInv, PassInv, SourceInv, [Next]_vars
    PROVE  RowSeen
<1> USE DEF RowSeen, RowBecomes, Written, StatusIs, HasRow, volume, files
<1>1. row \in UploadJob \cup {Null} /\ row' \in UploadJob \cup {Null}
  BY TypeStep DEF TypeOK
<1>2. CASE row' = row  BY <1>2
<1>3. CASE Refreshes \/ Requeues \/ Ages \/ Cancels
  BY <1>1, <1>3, States DEF Refreshes, Requeues, Ages, Cancels
<1>4. CASE Promotes /\ UNCHANGED volume
  <2>1. disk = "complete"  BY <1>4, SpentRow DEF Promotes, SourceInv
  <2> QED  BY <1>1, <1>4, <2>1, States DEF Promotes
<1>5. CASE Closes /\ UNCHANGED volume  BY <1>1, <1>5, States DEF Closes
<1>6. CASE Marks  BY <1>1, <1>6, States DEF Marks
<1>7. CASE Works  BY <1>1, <1>7, States DEF Works, RowInv
<1>8. CASE Publishes /\ UNCHANGED volume  BY <1>1, <1>8, States DEF Publishes
<1>9. CASE Rejects /\ UNCHANGED volume  BY <1>1, <1>9, States DEF Rejects
<1>10. CASE Reopens
  <2>1. Kind(row) = rec.kind /\ rec.kind \in Terminal  BY <1>10 DEF PassInv, Reopens
  <2>2. row.status = rec.kind /\ ~(row.status = "discarded" /\ row.reason = "unobservable")
    BY <1>10, <2>1 DEF Kind, Terminal, Reopens
  <2> QED  BY <1>1, <1>10, <2>1, <2>2, States DEF Reopens, Terminal
<1>11. CASE Deletes
  <2>1. Kind(row) = "unobservable"  BY <1>11 DEF PassInv, Deletes
  <2>2. row.status = "discarded" /\ row.reason = "unobservable"
    BY <2>1, Kinds
  <2> QED  BY <1>1, <1>11, <2>2, States DEF Deletes
<1>12. CASE Adopts
  <2>1. NewUploadingJob.status = "uploading"  BY DEF NewUploadingJob
  <2> QED  BY <1>1, <1>12, <2>1, States DEF Adopts
<1> QED
  BY <1>2, <1>3, <1>4, <1>5, <1>6, <1>7, <1>8, <1>9, <1>10, <1>11, <1>12, RowMoves DEF RowMove

\* What the promise sees of the source's.
LEMMA SourceIsSeen ==
    ASSUME TypeOK, RowInv, FilesInv, SourceInv, [Next]_vars
    PROVE  /\ disk' = "complete" /\ disk # "complete" =>
                StateOf(row) \in {"transferring", "condemned"}
           /\ disk = "complete" /\ disk' # "complete" =>
                StateOf(row) \in {"published", "condemned"}
<1>0. row \in UploadJob \cup {Null}  BY DEF TypeOK
<1>1. ASSUME disk' = "complete", disk # "complete"
      PROVE  StateOf(row) \in {"transferring", "condemned"}
  <2>1. data # disk
    BY <1>1, FileMoves DEF FilesInv, FileMove, Grows, Syncs, Removes, Creates, LosesPower
  <2>2. ~Committed  BY <2>1 DEF SourceInv
  <2> QED  BY <1>0, <2>2, States DEF Committed, StatusIs, HasRow
<1>2. ASSUME disk = "complete", disk' # "complete"
      PROVE  StateOf(row) \in {"published", "condemned"}
  <2>1. Removes
    BY <1>2, FileMoves DEF FilesInv, FileMove, Grows, Syncs, Creates, LosesPower
  <2>2. Spent  BY <2>1 DEF Removes, SourceInv
  <2> QED  BY <1>0, <2>2, States DEF Spent, Condemned, Rejected, Kind, StatusIs, HasRow
<1> QED  BY <1>1, <1>2

\* An upload is admitted into a transfer.
LEMMA PromiseInit == Init => Promise!Init
<1> SUFFICES ASSUME Init PROVE Promise!Init  OBVIOUS
<1>1. row \in {Null, NewUploadingJob}  BY DEF Init
<1>2. NewUploadingJob.status = "uploading"  BY DEF NewUploadingJob
<1>3. StateOf(row) = "transferring"  BY <1>1, <1>2 DEF StateOf
<1> QED  BY <1>3 DEF Promise!Init

\* Every step is a step of the promise or none.
LEMMA PromiseStep ==
    ASSUME TypeOK, RowInv, PassInv, FilesInv, SourceInv, [Next]_vars
    PROVE  [Promise!Next]_(Promise!vars)
<1> DEFINE u == "upload"
           place == [v \in {u} |-> StateOf(row)]
           synced == {v \in {u} : disk = "complete"}
<1>1. /\ place[u] = StateOf(row)
      /\ place' = [place EXCEPT ![u] = StateOf(row)']
      /\ StateOf(row)' = StateOf(row) => place' = place
      /\ u \in synced <=> disk = "complete"
      /\ (disk' = "complete") = (disk = "complete") => synced' = synced
      /\ disk' = "complete" => synced' = synced \cup {u}
      /\ disk' # "complete" => synced' = synced \ {u}
      /\ u \in {v \in {u} : Refusable} <=> Refusable
  OBVIOUS
<1>2. CASE StateOf(row)' = StateOf(row) /\ (disk' = "complete") = (disk = "complete")
  BY <1>1, <1>2 DEF Promise!vars
<1>3. CASE StateOf(row)' = StateOf(row) /\ disk' = "complete" /\ disk # "complete"
  <2>1. Promise!Arrive(u)  BY <1>1, <1>3, SourceIsSeen DEF Promise!Arrive
  <2> QED  BY <2>1 DEF Promise!Next
<1>4. CASE StateOf(row)' = StateOf(row) /\ disk = "complete" /\ disk' # "complete"
  <2>1. Promise!Remove(u)  BY <1>1, <1>4, SourceIsSeen DEF Promise!Remove
  <2> QED  BY <2>1 DEF Promise!Next
<1>5. CASE /\ UNCHANGED disk
           /\ StateOf(row) = "transferring" /\ StateOf(row)' = "durable" /\ disk = "complete"
  <2>1. Promise!Commit(u)  BY <1>1, <1>5 DEF Promise!Commit, Promise!Becomes
  <2> QED  BY <2>1 DEF Promise!Next
<1>6. CASE UNCHANGED disk /\ StateOf(row) = "transferring" /\ StateOf(row)' = "condemned"
  <2>1. Promise!Abandon(u)  BY <1>1, <1>6 DEF Promise!Abandon, Promise!Becomes
  <2> QED  BY <2>1 DEF Promise!Next
<1>7. CASE UNCHANGED disk /\ StateOf(row) = "durable" /\ StateOf(row)' = "condemned" /\ Refusable
  <2>1. Promise!Refuse(u)  BY <1>1, <1>7 DEF Promise!Refuse, Promise!Becomes
  <2> QED  BY <2>1 DEF Promise!Next
<1>8. CASE UNCHANGED disk /\ StateOf(row) = "durable" /\ StateOf(row)' = "published" /\ ~Refusable
  <2>1. Promise!Publish(u)  BY <1>1, <1>8 DEF Promise!Publish, Promise!Becomes
  <2> QED  BY <2>1 DEF Promise!Next
<1> QED  BY <1>2, <1>3, <1>4, <1>5, <1>6, <1>7, <1>8, RowIsSeen DEF RowSeen

\* The fence, the operation, the reconciler and the janitor together keep the
\* promise made to the guest.
THEOREM KeepsPromise ==
    ASSUME Sheltered
    PROVE  Spec => PromiseKept
<1>1. BarrierInv /\ [Next]_vars => [Promise!Next]_(Promise!vars)
  BY PromiseStep DEF BarrierInv
<1> QED  BY <1>1, PromiseInit, BarrierInvariant, PTL DEF Spec, PromiseKept, Promise!Spec
=============================================================================
