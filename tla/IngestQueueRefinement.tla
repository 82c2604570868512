------------------------ MODULE IngestQueueRefinement ------------------------
(***************************************************************************)
(* The worker pool implements the promise, and a source goes only once its *)
(* removal is decided.                                                     *)
(*                                                                         *)
(* Every step is classified by what the promise sees of it: nothing, one   *)
(* upload that moves on, or one source that goes.                          *)
(***************************************************************************)
EXTENDS IngestQueueProofs

StateOfRow(row) == StateOf(row.status)

\* The promise sees nothing of the row's step, and the row does not turn
\* terminal before both files are gone.
Same(u) ==
    /\ StateOfRow(jobs'[u]) = StateOfRow(jobs[u])
    /\ jobs'[u].status \in Terminal =>
         jobs[u].status \in Terminal \/ (u \notin data /\ u \notin info)

Unseen == UNCHANGED <<data, info>> /\ \A u \in Upload : Same(u)

\* One upload goes from one state of the promise to another.
Moved(u, from, to) ==
    /\ UNCHANGED <<data, info>>
    /\ StateOfRow(jobs[u]) = from /\ StateOfRow(jobs'[u]) = to
    /\ jobs'[u].status \notin Terminal
    /\ \A v \in Upload \ {u} : jobs'[v] = jobs[v]

\* A source goes, or its sidecar, of a settled upload.
SourceGoes(u) ==
    /\ jobs[u].status \in Settled
    /\ data' \subseteq data /\ data \ data' \subseteq {u} /\ info' \subseteq info
    /\ \A v \in Upload : jobs'[v].status = jobs[v].status

Seen ==
    \E u \in Upload :
        \/ Moved(u, "transferring", "durable") /\ u \in data
        \/ Moved(u, "transferring", "condemned")
        \/ Moved(u, "durable", "condemned") /\ Verdict[u] # "accept"
        \/ Moved(u, "durable", "published") /\ Verdict[u] = "accept"
        \/ SourceGoes(u)

-----------------------------------------------------------------------------
\* The state of the promise each status stands for.
LEMMA StatesOf ==
    /\ StateOf("uploading") = "transferring"
    /\ StateOf("pending") = "durable"
    /\ StateOf("processing") = "durable"
    /\ StateOf("cleanup") = "published"
    /\ StateOf("complete") = "published"
    /\ StateOf("discarding") = "condemned"
    /\ StateOf("discarded") = "condemned"
<1>1. StateOf("uploading") = "transferring"  BY DEF StateOf
<1>2. StateOf("pending") = "durable"  BY DEF StateOf
<1>3. StateOf("processing") = "durable"  BY DEF StateOf
<1>4. StateOf("cleanup") = "published"  BY DEF StateOf
<1>5. StateOf("complete") = "published"  BY DEF StateOf
<1>6. StateOf("discarding") = "condemned"  BY DEF StateOf
<1>7. StateOf("discarded") = "condemned"  BY DEF StateOf
<1> QED  BY <1>1, <1>2, <1>3, <1>4, <1>5, <1>6, <1>7

\* The statements that keep a row in its state of the promise.
LEMMA RowsUnseen ==
    ASSUME NEW row \in UploadJob
    PROVE  /\ Identified(row).status = row.status
           /\ PreparedRow(row).status = row.status
           /\ [row EXCEPT !.due = TRUE].status = row.status
           /\ [row EXCEPT !.lapsed = TRUE].status = row.status
           /\ Promoted(row).status = "pending"
           /\ DiscardClaimed(row).status = "discarding"
           /\ \A status \in JobStatus : \A reason : Finished(row, status, reason).status = status
           /\ \A status \in JobStatus : Released(row, status).status = status
           /\ \A status \in JobStatus : \A w : Claimed(row, status, w).status = status
           /\ \A m : Published(row, m).status = "cleanup"
           /\ Requeued(row).status = RequeueStage(row.status)
BY DEF UploadJob, JobStatus, Identified, PreparedRow, Promoted, DiscardClaimed, Finished,
       Released, Claimed, Published, Requeued, RequeueStage, Unleased

\* Nothing changes but one row, which stays in its state and is not finished.
LEMMA OneRowUnseen ==
    ASSUME Typed, NEW u \in Upload, NEW row, SetRow(u, row), UNCHANGED <<data, info>>,
           StateOfRow(row) = StateOfRow(jobs[u]), row.status \notin Terminal
    PROVE  Unseen
BY DEF Typed, StoreTypes, SetRow, Unseen, Same

\* One row moves to the next state of the promise, and no source changes.
LEMMA OneRowMoved ==
    ASSUME Typed, NEW u \in Upload, NEW row, SetRow(u, row), UNCHANGED <<data, info>>,
           row.status \notin Terminal
    PROVE  Moved(u, StateOfRow(jobs[u]), StateOfRow(row))
BY DEF Typed, StoreTypes, SetRow, Moved

\* Every step of a worker's attempt.
LEMMA WorkerStepSeen ==
    ASSUME Typed, Typed', QueueInv, NEW w \in Worker,
           WorkerStep(w) \/ Fault(w) \/ TusdFault(w) \/ ScanFault(w)
    PROVE  Unseen \/ Seen
<1> USE DEF At, files
<1>q. ASSUME UNCHANGED <<jobs, data, info>>  PROVE Unseen
  BY <1>q DEF Unseen, Same
<1>c. ASSUME pc[w] \notin Scans
      PROVE  /\ cur[w] \in Upload /\ StageInv(w) /\ CallInv(w)
             /\ jobs[cur[w]] \in UploadJob /\ snap[w] \in UploadJob
  <2>1. cur[w] \in Upload  BY <1>c, AtCall DEF Typed
  <2>2. StageInv(w) /\ CallInv(w)
    BY <2>1, QueueAssumption DEF QueueInv, WorkersInv
  <2> QED  BY <2>1, <2>2, WorkerRows
<1>1. CASE ClaimAndRunOnce(w)
  <2> SUFFICES ASSUME NEW here \in Scans, NEW from, NEW to,
                      NEW next \in Scans, Scan(w, here, from, to, next),
                      \/ from \in {"cleanup", "discarding", "processing"} /\ to = from
                      \/ from = "pending" /\ to = "processing"
               PROVE  Unseen
    BY <1>1 DEF ClaimAndRunOnce, Scans
  <2>1. CASE jobs' = jobs  BY <1>q, <2>1 DEF Scan
  <2>2. ASSUME NEW u \in Upload, Claimable(jobs[u], from), SetRow(u, Claimed(jobs[u], to, w))
        PROVE  Unseen
    <3>1. jobs[u] \in UploadJob /\ jobs[u].status = from
      BY <2>2 DEF Typed, StoreTypes, Claimable
    <3>2. Claimed(jobs[u], to, w).status = to
      BY <3>1, RowsUnseen DEF JobStatus
    <3>3. StateOf(to) = StateOf(from)  BY StatesOf
    <3>4. to \notin Terminal  BY DEF Terminal
    <3> QED
      BY <2>2, <3>1, <3>2, <3>3, <3>4, OneRowUnseen DEF Scan, StateOfRow
  <2> QED  BY <2>1, <2>2 DEF Scan
<1>2. CASE \/ CheckHealth(w) \/ Inspect(w) \/ PrepareCopy(w) \/ VerifyPrepared(w)
           \/ LookUpExisting(w) \/ VerifyKept(w) \/ PrepareRename(w) \/ RemoveArtifacts(w)
           \/ CheckDeletionAllowed(w) \/ CheckOwner(w) \/ SweepTemporaries(w) \/ ScanFault(w)
  BY <1>q, <1>2
     DEF CheckHealth, Inspect, PrepareCopy, VerifyPrepared, LookUpExisting, VerifyKept,
         CheckDeletionAllowed, CheckOwner, SweepTemporaries, PrepareRename, RemoveArtifacts,
         ScanFault
<1>3. CASE RecordArtifactIdentity(w) \/ RecordPrepared(w)
  <2>1. pc[w] \in {"identify", "prepared"} /\ Holds(jobs[cur[w]], w)
    BY <1>3 DEF RecordArtifactIdentity, RecordPrepared
  <2>2. /\ cur[w] \in Upload /\ jobs[cur[w]] \in UploadJob
        /\ jobs[cur[w]].status = "processing"
    BY <1>c, <2>1 DEF Scans, StageInv, ProcessingCalls
  <2>3. PICK row : SetRow(cur[w], row) /\ row.status = jobs[cur[w]].status
    BY <1>3, <2>2, RowsUnseen DEF RecordArtifactIdentity, RecordPrepared
  <2> QED
    BY <1>3, <2>2, <2>3, OneRowUnseen
       DEF RecordArtifactIdentity, RecordPrepared, StateOfRow, Terminal
<1>4. CASE TerminateSource(w) \/ RemoveResidue(w) \/ TusdFault(w)
  <2>1. pc[w] \in {"terminate", "checkGone"}
    BY <1>4 DEF TerminateSource, RemoveResidue, TusdFault
  <2>2. /\ cur[w] \in Upload /\ StageInv(w)
        /\ jobs[cur[w]] \in UploadJob /\ snap[w] \in UploadJob
    BY <1>c, <2>1 DEF Scans
  <2>3. data' \subseteq data /\ data \ data' \subseteq {cur[w]} /\ info' \subseteq info
    BY <1>4 DEF TerminateSource, RemoveResidue, TusdFault
  <2>4. jobs[cur[w]].status \in Settled
    BY <2>1, <2>2 DEF StageInv, RemovalCalls, Settled
  <2>5. \A v \in Upload : jobs'[v].status = jobs[v].status
    <3>1. CASE jobs' = jobs  BY <3>1
    <3>2. CASE jobs' # jobs
      <4>1. /\ TusdFault(w) /\ Holds(jobs[cur[w]], w)
            /\ SetRow(cur[w], Released(jobs[cur[w]], snap[w].status))
        BY <1>4, <3>2 DEF TerminateSource, RemoveResidue, TusdFault
      <4>2. jobs[cur[w]].status = snap[w].status
        BY <2>2, <4>1 DEF StageInv
      <4>3. Released(jobs[cur[w]], snap[w].status).status = snap[w].status
        BY <2>2, RowsUnseen DEF UploadJob
      <4> QED  BY <2>2, <4>1, <4>2, <4>3 DEF SetRow, Typed, StoreTypes
    <3> QED  BY <3>1, <3>2
  <2> QED  BY <2>2, <2>3, <2>4, <2>5 DEF Seen, SourceGoes
<1>5. CASE Reject(w)
  <2>1. /\ cur[w] \in Upload /\ StageInv(w) /\ jobs[cur[w]] \in UploadJob
        /\ Verdict[cur[w]] # "accept"
    BY <1>5, <1>c DEF Reject, Scans, QueueInv, AttemptInv
  <2>2. CASE jobs' = jobs  BY <1>q, <1>5, <2>2 DEF Reject
  <2>3. CASE jobs' # jobs
    <3> DEFINE row == Finished(jobs[cur[w]], "discarding", Verdict[cur[w]])
    <3>1. Holds(jobs[cur[w]], w) /\ SetRow(cur[w], row)
      BY <1>5, <2>3 DEF Reject, SetRow
    <3>2. jobs[cur[w]].status = "processing"
      BY <1>5, <2>1, <3>1 DEF Reject, StageInv, ProcessingCalls
    <3>3. row.status = "discarding"  BY <2>1, RowsUnseen DEF JobStatus
    <3> HIDE DEF row
    <3>4. Moved(cur[w], "durable", "condemned")
      BY <1>5, <2>1, <3>1, <3>2, <3>3, OneRowMoved, StatesOf DEF Reject, StateOfRow, Terminal
    <3> QED  BY <2>1, <3>4 DEF Seen
  <2> QED  BY <2>2, <2>3
<1>6. CASE PublishMedia(w)
  <2>1. /\ cur[w] \in Upload /\ jobs[cur[w]] \in UploadJob
        /\ Verdict[cur[w]] = "accept" /\ jobs[cur[w]].status = "processing"
    BY <1>6, <1>c DEF PublishMedia, MayPublish, Scans, CallInv, ProcessingCalls
  <2>2. PICK m : SetRow(cur[w], Published(jobs[cur[w]], m))
    BY <1>6 DEF PublishMedia
  <2>3. Published(jobs[cur[w]], m).status = "cleanup"  BY <2>1, RowsUnseen
  <2>4. Moved(cur[w], "durable", "published")
    BY <1>6, <2>1, <2>2, <2>3, OneRowMoved, StatesOf DEF PublishMedia, StateOfRow, Terminal
  <2> QED  BY <2>1, <2>4 DEF Seen
<1>7. CASE FinishRemoval(w)
  <2>1. /\ cur[w] \in Upload /\ StageInv(w) /\ jobs[cur[w]] \in UploadJob
        /\ cur[w] \notin data /\ cur[w] \notin info /\ UNCHANGED <<data, info>>
    BY <1>7, <1>c DEF FinishRemoval, Scans
  <2>2. CASE jobs' = jobs  BY <1>q, <2>1, <2>2
  <2>3. CASE jobs' # jobs
    <3>1. Holds(jobs[cur[w]], w)  BY <1>7, <2>3 DEF FinishRemoval
    <3>2. /\ jobs[cur[w]].status = snap[w].status
          /\ snap[w].status \in {"cleanup", "discarding"}
      BY <1>7, <2>1, <3>1 DEF FinishRemoval, StageInv, RemovalCalls
    <3>3. PICK row : /\ SetRow(cur[w], row)
                     /\ \/ snap[w].status = "cleanup" /\ row.status = "complete"
                        \/ snap[w].status = "discarding" /\ row.status = "discarded"
      <4>1. /\ Finished(jobs[cur[w]], "complete", "").status = "complete"
            /\ Finished(jobs[cur[w]], "discarded", snap[w].reason).status = "discarded"
        <5>1. "complete" \in JobStatus /\ "discarded" \in JobStatus  BY DEF JobStatus
        <5>2. \A status \in JobStatus : \A reason :
                Finished(jobs[cur[w]], status, reason).status = status
          BY <2>1, RowsUnseen
        <5> QED  BY <5>1, <5>2
      <4>2. CASE snap[w].status = "cleanup"
        BY <1>7, <3>1, <4>1, <4>2 DEF FinishRemoval, SetRow
      <4>3. CASE snap[w].status = "discarding"
        BY <1>7, <3>1, <4>1, <4>3 DEF FinishRemoval, SetRow
      <4> QED  BY <3>2, <4>2, <4>3
    <3>4. StateOfRow(row) = StateOfRow(jobs[cur[w]])
      BY <3>2, <3>3, StatesOf DEF StateOfRow
    <3>5. \A v \in Upload : jobs'[v] = IF v = cur[w] THEN row ELSE jobs[v]
      BY <3>3 DEF SetRow, Typed, StoreTypes
    <3> QED  BY <2>1, <3>4, <3>5 DEF Unseen, Same
  <2> QED  BY <2>2, <2>3
<1>8. CASE GiveUp(w)
  <2>1. pc[w] \notin Scans /\ UNCHANGED <<data, info>>
    BY <1>8 DEF GiveUp, QueueInv, AttemptInv
  <2>2. CASE jobs' = jobs  BY <1>q, <2>1, <2>2
  <2>3. CASE jobs' # jobs
    <3>1. /\ Holds(jobs[cur[w]], w)
          /\ SetRow(cur[w], Released(jobs[cur[w]], RetryStage(w)))
      BY <1>8, <2>3 DEF GiveUp
    <3>2. /\ cur[w] \in Upload /\ StageInv(w) /\ jobs[cur[w]] \in UploadJob
          /\ jobs[cur[w]].status = snap[w].status
      BY <1>c, <2>1, <3>1 DEF StageInv
    <3>3. /\ RetryStage(w) \in JobStatus \ Terminal
          /\ StateOf(RetryStage(w)) = StateOf(snap[w].status)
      <4>1. CASE pc[w] \in ProcessingCalls
        BY <3>2, <4>1, StatesOf DEF RetryStage, StageInv, JobStatus, Terminal
      <4>2. CASE pc[w] \in RemovalCalls
        <5>1. pc[w] \notin ProcessingCalls
          BY <4>2 DEF ProcessingCalls, RemovalCalls
        <5> QED  BY <3>2, <4>2, <5>1 DEF RetryStage, StageInv, JobStatus, Terminal
      <4> QED  BY <2>1, <4>1, <4>2 DEF Typed, AttemptTypes
    <3>4. Released(jobs[cur[w]], RetryStage(w)).status = RetryStage(w)
      BY <3>2, <3>3, RowsUnseen
    <3> QED  BY <2>1, <3>1, <3>2, <3>3, <3>4, OneRowUnseen DEF StateOfRow
  <2> QED  BY <2>2, <2>3
<1> QED
  BY <1>1, <1>2, <1>3, <1>4, <1>5, <1>6, <1>7, <1>8
     DEF WorkerStep, FailAttempt, Fault

\* Every step, as the promise sees it.
LEMMA StepSeen ==
    ASSUME Typed, QueueInv, [Next]_vars
    PROVE  Unseen \/ Seen
<1>0. Typed'  BY TypedStep
<1>1. ASSUME UNCHANGED <<jobs, data, info>>  PROVE Unseen
  BY <1>1 DEF Unseen, Same
<1>2. ASSUME NEW w \in Worker, WorkerStep(w) \/ Fault(w) \/ TusdFault(w) \/ ScanFault(w)
      PROVE  Unseen \/ Seen
  BY <1>0, <1>2, WorkerStepSeen
<1>3. CASE Restart
  <2> SUFFICES ASSUME NEW u \in Upload  PROVE Same(u)
    BY <1>3 DEF Unseen, Restart, files
  <2>1. jobs[u] \in UploadJob  BY DEF Typed, StoreTypes
  <2>2. jobs'[u] = jobs[u] \/ jobs'[u].status = RequeueStage(jobs[u].status)
    BY <1>3, <2>1, RowsUnseen DEF Restart
  <2>3. /\ StateOf(RequeueStage(jobs[u].status)) = StateOf(jobs[u].status)
        /\ RequeueStage(jobs[u].status) \in Terminal => jobs[u].status \in Terminal
    BY StatesOf DEF RequeueStage, Terminal
  <2> QED  BY <2>2, <2>3 DEF Same, StateOfRow
<1>4. ASSUME NEW u \in Upload, Promote(u) \/ Discard(u) \/ BecomesDue(u) \/ LeaseLapses(u)
      PROVE  Unseen \/ Seen
  <2>1. jobs[u] \in UploadJob /\ UNCHANGED <<data, info>>
    BY <1>4 DEF Typed, StoreTypes, Promote, Discard, BecomesDue, LeaseLapses, files
  <2>2. CASE Promote(u)
    <3>1. jobs[u].status = "uploading" /\ u \in data
      BY <2>2 DEF Promote, MayPromote, QueueInv, RowsInv, QueueMayNeed
    <3>2. Promoted(jobs[u]).status = "pending"  BY <2>1, RowsUnseen
    <3>3. Moved(u, "transferring", "durable")
      BY <2>1, <2>2, <3>1, <3>2, OneRowMoved, StatesOf DEF Promote, StateOfRow, Terminal
    <3> QED  BY <3>1, <3>3 DEF Seen
  <2>3. CASE Discard(u)
    <3>1. jobs[u].status = "uploading"  BY <2>3 DEF Discard, MayDiscard
    <3>2. DiscardClaimed(jobs[u]).status = "discarding"  BY <2>1, RowsUnseen
    <3>3. Moved(u, "transferring", "condemned")
      BY <2>1, <2>3, <3>1, <3>2, OneRowMoved, StatesOf DEF Discard, StateOfRow, Terminal
    <3> QED  BY <3>3 DEF Seen
  <2>4. CASE BecomesDue(u) \/ LeaseLapses(u)
    <3>1. PICK row : SetRow(u, row) /\ row.status = jobs[u].status
      <4>1. /\ [jobs[u] EXCEPT !.due = TRUE].status = jobs[u].status
            /\ [jobs[u] EXCEPT !.lapsed = TRUE].status = jobs[u].status
        BY <2>1, RowsUnseen
      <4> QED  BY <2>4, <4>1 DEF BecomesDue, LeaseLapses
    <3>2. \A v \in Upload : jobs'[v].status = jobs[v].status
      BY <3>1 DEF SetRow, Typed, StoreTypes
    <3> QED  BY <2>1, <3>2 DEF Unseen, Same, StateOfRow
  <2> QED  BY <1>4, <2>2, <2>3, <2>4
<1>5. CASE \/ \E w \in Worker : ContextExpires(w)
           \/ \E m \in Upload : Trash(m) \/ Untrash(m) \/ StageForPurge(m)
           \/ PurgeTrashed \/ FinishPurge \/ ReconcilePurgeStage
  BY <1>1, <1>5
     DEF ContextExpires, Trash, Untrash, StageForPurge, PurgeTrashed, FinishPurge,
         ReconcilePurgeStage, EndPurge, files
<1>6. CASE UNCHANGED vars  BY <1>1, <1>6 DEF vars
<1> QED
  BY <1>2, <1>3, <1>4, <1>5, <1>6, QueueAssumption DEF Next, CalmNext, Disturbance

-----------------------------------------------------------------------------
(* The promise. *)

PromiseInit == Promise!Init
PromiseStep == [Promise!Next]_(Promise!vars)

\* An initial queue is an initial promise.
LEMMA RefinesInit == Init => PromiseInit
<1> SUFFICES ASSUME Init PROVE PromiseInit  OBVIOUS
<1>1. [u \in Upload |-> StateOf(jobs[u].status)] = [u \in Upload |-> "transferring"]
  BY StatesOf DEF Init, NewUploadingJob
<1>2. data \in SUBSET Upload  BY DEF Init
<1> QED  BY <1>1, <1>2 DEF PromiseInit, Promise!Init

\* A step of the queue is a step of the promise or leaves it unchanged.
LEMMA RefinesStep ==
    ASSUME Typed, QueueInv, [Next]_vars
    PROVE  PromiseStep
<1> DEFINE state == [u \in Upload |-> StateOf(jobs[u].status)]
<1>1. CASE Unseen
  <2>1. state' = state /\ data' = data
    BY <1>1 DEF Unseen, Same, StateOfRow
  <2> QED  BY <2>1 DEF PromiseStep, Promise!vars
<1>2. CASE Seen
  <2>1. ASSUME NEW u \in Upload, NEW from, NEW to, Moved(u, from, to)
        PROVE  state[u] = from /\ Promise!Becomes(u, to)
    <3>1. state[u] = from  BY <2>1 DEF Moved, StateOfRow
    <3>2. state' = [state EXCEPT ![u] = to]
      BY <2>1 DEF Moved, StateOfRow
    <3> QED  BY <2>1, <3>1, <3>2 DEF Moved, Promise!Becomes
  <2>2. PICK u \in Upload :
          \/ Moved(u, "transferring", "durable") /\ u \in data
          \/ Moved(u, "transferring", "condemned")
          \/ Moved(u, "durable", "condemned") /\ Verdict[u] # "accept"
          \/ Moved(u, "durable", "published") /\ Verdict[u] = "accept"
          \/ SourceGoes(u)
    BY <1>2 DEF Seen
  <2>3. CASE Moved(u, "transferring", "durable") /\ u \in data
    <3>1. Promise!Commit(u)  BY <2>1, <2>3 DEF Promise!Commit
    <3> QED  BY <3>1 DEF PromiseStep, Promise!Next
  <2>4. CASE Moved(u, "transferring", "condemned")
    <3>1. Promise!Abandon(u)  BY <2>1, <2>4 DEF Promise!Abandon
    <3> QED  BY <3>1 DEF PromiseStep, Promise!Next
  <2>5. CASE Moved(u, "durable", "condemned") /\ Verdict[u] # "accept"
    <3>1. Promise!Refuse(u)  BY <2>1, <2>5 DEF Promise!Refuse
    <3> QED  BY <3>1 DEF PromiseStep, Promise!Next
  <2>6. CASE Moved(u, "durable", "published") /\ Verdict[u] = "accept"
    <3>1. Promise!Publish(u)  BY <2>1, <2>6 DEF Promise!Publish
    <3> QED  BY <3>1 DEF PromiseStep, Promise!Next
  <2>7. CASE SourceGoes(u)
    <3>1. state' = state  BY <2>7 DEF SourceGoes
    <3>2. CASE data' = data  BY <3>1, <3>2 DEF PromiseStep, Promise!vars
    <3>3. CASE data' # data
      <4>1. u \in data /\ data' = data \ {u}  BY <2>7, <3>3 DEF SourceGoes
      <4>2. state[u] \in {"published", "condemned"}
        BY <2>7, StatesOf DEF SourceGoes, Settled
      <4>3. Promise!Remove(u)  BY <3>1, <4>1, <4>2 DEF Promise!Remove
      <4> QED  BY <4>3 DEF PromiseStep, Promise!Next
    <3> QED  BY <3>2, <3>3
  <2> QED  BY <2>2, <2>3, <2>4, <2>5, <2>6, <2>7
<1> QED  BY <1>1, <1>2, StepSeen

\* The worker pool keeps the promise: committed uploads are published or
\* refused for their own bytes, and no source goes before either.
THEOREM KeepsPromise == Spec => PromiseKept
<1>1. Typed /\ QueueInv /\ [Next]_vars => [Promise!Next]_(Promise!vars)
  BY RefinesStep DEF PromiseStep
<1>2. Init => Promise!Init  BY RefinesInit DEF PromiseInit
<1> QED
  BY <1>1, <1>2, PoolInvariant, PTL DEF Spec, PromiseKept, Promise!Spec

-----------------------------------------------------------------------------
(* Sources. *)

\* No step leaves or brings back a tus file of a terminal row.
LEMMA SourcesStep ==
    ASSUME Typed, QueueInv, [Next]_vars, TerminalSourceGone
    PROVE  /\ TerminalSourceGone'
           /\ \A u \in data \ data' :
                \/ jobs[u].status = "discarding"
                \/ jobs[u].status = "cleanup" /\ Available(jobs[u].result)
<1>1. CASE Unseen
  BY <1>1 DEF Unseen, Same, TerminalSourceGone
<1>2. CASE Seen
  <2>1. PICK u \in Upload :
          \/ \E from, to : Moved(u, from, to)
          \/ SourceGoes(u)
    BY <1>2 DEF Seen
  <2>2. CASE \E from, to : Moved(u, from, to)
    BY <2>2 DEF Moved, TerminalSourceGone
  <2>3. CASE SourceGoes(u)
    <3>1. TerminalSourceGone'
      BY <2>3 DEF SourceGoes, TerminalSourceGone
    <3>2. u \in data =>
            \/ jobs[u].status = "discarding"
            \/ jobs[u].status = "cleanup" /\ Available(jobs[u].result)
      BY <2>3 DEF SourceGoes, Settled, TerminalSourceGone, Terminal, QueueInv, KeptCopy
    <3> QED  BY <2>3, <3>1, <3>2 DEF SourceGoes
  <2> QED  BY <2>1, <2>2, <2>3
<1> QED  BY <1>1, <1>2, StepSeen

\* No upload starts terminal.
LEMMA SourcesInit == Init => TerminalSourceGone
<1> SUFFICES ASSUME Init, NEW u \in Upload, jobs[u].status \in Terminal
             PROVE  FALSE
  BY DEF TerminalSourceGone
<1>1. jobs[u].status = "uploading"  BY DEF Init, NewUploadingJob
<1> QED  BY <1>1 DEF Terminal

\* A terminal row means both tus paths are gone, whichever worker removed them
\* and wherever tusd died in between.
THEOREM SourcesGone == Spec => []TerminalSourceGone
<1>1. Typed /\ QueueInv /\ TerminalSourceGone /\ [Next]_vars => TerminalSourceGone'
  BY SourcesStep
<1> QED  BY <1>1, SourcesInit, PoolInvariant, PTL DEF Spec

\* No step of any worker, stale or current, removes a source without a recorded
\* decision to discard it or an available media row its job resolved to.
THEOREM RemovalsDecided == Spec => RemovalDecided
<1>1. Typed /\ QueueInv /\ TerminalSourceGone /\ [Next]_vars =>
        [\A u \in data \ data' :
           \/ jobs[u].status = "discarding"
           \/ jobs[u].status = "cleanup" /\ Available(jobs[u].result)]_vars
  BY SourcesStep
<1> QED  BY <1>1, SourcesGone, PoolInvariant, PTL DEF Spec, RemovalDecided
=============================================================================
