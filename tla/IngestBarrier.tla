---------------------------- MODULE IngestBarrier ----------------------------
(***************************************************************************)
(* The way of one upload into the queue: the completion fence and the      *)
(* public DELETE of httpapi/tus_proxy.go, tusd's pre-finish hook, the      *)
(* durability operation of ingest/durability.go that they and the          *)
(* reconciler share, the reconciler of ingest/recover.go, the incomplete-  *)
(* upload janitor of httpapi/storage_cleanup.go, and what the workers do   *)
(* to the row afterwards, one step per stage.                              *)
(*                                                                         *)
(* Each read and write of the row, of a file and of tusd is a step.  The   *)
(* sidecar comes and goes with its data file and is always readable where  *)
(* the data file is; half-removed uploads are IngestQueue's.  An operation *)
(* runs detached from its callers, who may give up waiting at any time.    *)
(***************************************************************************)
CONSTANTS
    Request,    \* concurrent client requests for the upload
    Faults,     \* what may go wrong, besides lost answers and busy executors
    Janitor,    \* whether an incomplete-upload retention is configured
    Refusable,  \* whether the pipeline refuses the upload's own bytes
    Null

INSTANCE JobStore WITH Token <- {"lease"}, Media <- {"media"}

ASSUME BarrierAssumption ==
    /\ Null \notin UploadJob \cup {"lease", "media"}
    /\ Janitor \in BOOLEAN /\ Refusable \in BOOLEAN
    /\ Faults \subseteq {"restart", "power", "hide", "delay", "legacy"}

VARIABLES
    row,     \* the upload_jobs row, or Null
    data,    \* the tus data file: how much of it there is
    disk,    \* how much of it a power loss would leave
    post,    \* tusd has not yet created the files of the admitted upload
    stale,   \* the files' activity is older than the incomplete retention
    hidden,  \* the backend's mount of the upload directory is faulted
    del,     \* a DELETE from this backend is on its way through tusd
    ready,   \* the startup inventory has finished
    op,      \* the durability operation in flight: the call it makes next
    req,     \* per request: its method and the call it makes next
    rec,     \* the reconciler's pass
    jan,     \* the janitor: the call it makes next
    told     \* what the browser has been answered

files == <<data, disk, post, stale>>
volume == <<files, hidden, del>>
vars == <<row, volume, ready, op, req, rec, jan, told>>

Bytes == {"absent", "partial", "complete"}
Method == {"HEAD", "PATCH", "DELETE"}
Answer == {"committed", "complete", "gone", "cancelled"}
OpCall == {"none", "read", "stat", "sync", "promote", "classify"}
RequestRecord ==
    [method : Method,
     pc : {"idle", "fence", "stat", "ensure", "fenceWait", "forward",
           "hook", "hookWait", "readRow", "cancel"}]
PassRecord ==
    [pc : {"idle", "sweep", "list", "paths", "mark", "read", "look", "delete",
           "adopt", "reopen", "ensure", "wait", "end"},
     listed : BOOLEAN, full : BOOLEAN,
     kind : {"owned", "rowless", "unobservable", "uploading"} \cup Terminal]
NoRequest == [method |-> "HEAD", pc |-> "idle"]
NoPass == [pc |-> "idle", listed |-> FALSE, kind |-> "owned", full |-> FALSE]

TypeOK ==
    /\ row \in UploadJob \cup {Null}
    /\ data \in Bytes /\ disk \in Bytes
    /\ {post, stale, hidden, del, ready} \subseteq BOOLEAN
    /\ op \in OpCall
    /\ req \in [Request -> RequestRecord]
    /\ rec \in PassRecord
    /\ jan \in {"idle", "claim", "exists", "terminate"}
    /\ told \subseteq Answer

\* An admission has just been recorded; or a legacy upload was cut short before
\* the table existed, and the upgraded process has yet to take its inventory.
Init ==
    \E legacy \in BOOLEAN :
    /\ legacy => "legacy" \in Faults
    /\ row = IF legacy THEN Null ELSE NewUploadingJob
    /\ data = IF legacy THEN "partial" ELSE "absent"
    /\ disk = IF legacy THEN "partial" ELSE "absent"
    /\ post = ~legacy
    /\ ready = ~legacy
    /\ stale = FALSE /\ hidden = FALSE /\ del = FALSE
    /\ op = "none"
    /\ req = [r \in Request |-> NoRequest]
    /\ rec = NoPass
    /\ jan = "idle"
    /\ told = {}

HasRow == row # Null
StatusIs(statuses) == HasRow /\ row.status \in statuses
Rejected == StatusIs({"discarding", "discarded"})
Committed == StatusIs({"pending", "processing", "cleanup", "complete"})

\* What a stat of the data path shows the backend.
Seen == IF hidden THEN "absent" ELSE data

\* tusd serves one request per upload at a time; a PATCH keeps its lock
\* through the pre-finish hook.
Locked == \E r \in Request : req[r].pc \in {"hook", "hookWait"}

GoReq(r, pc) == req' = [req EXCEPT ![r].pc = pc]
EndReq(r) == req' = [req EXCEPT ![r] = NoRequest]

-----------------------------------------------------------------------------
(* The client's requests. *)

\* Nothing is forwarded before the startup inventory has finished.
Arrive(r, method) ==
    /\ req[r].pc = "idle" /\ ready
    /\ req' = [req EXCEPT ![r] = [method |-> method, pc |-> "fence"]]
    /\ UNCHANGED <<row, volume, ready, op, rec, jan, told>>

\* Where a request the fence lets through goes on.
Unfenced(r) == IF req[r].method = "DELETE" THEN "readRow" ELSE "forward"

FenceRead(r) ==
    /\ req[r].pc = "fence"
    /\ GoReq(r, IF StatusIs({"uploading"}) THEN "stat" ELSE Unfenced(r))
    /\ UNCHANGED <<row, volume, ready, op, rec, jan, told>>

FenceStat(r) ==
    /\ req[r].pc = "stat"
    /\ GoReq(r, IF Seen = "complete" THEN "ensure" ELSE Unfenced(r))
    /\ UNCHANGED <<row, volume, ready, op, rec, jan, told>>

\* ensure: join the operation in flight or start one.
EnsureDurable(r) ==
    /\ req[r].pc \in {"ensure", "hook"}
    /\ op' = IF op = "none" THEN "read" ELSE op
    /\ GoReq(r, IF req[r].pc = "hook" THEN "hookWait" ELSE "fenceWait")
    /\ UNCHANGED <<row, volume, ready, rec, jan, told>>

\* Backpressure, an expired budget, a 404 from tusd, or a client that is gone.
Refused(r) ==
    /\ req[r].pc # "idle"
    /\ EndReq(r)
    /\ UNCHANGED <<row, volume, ready, op, rec, jan, told>>

\* tusd answers an already complete upload itself, without the hook.
ForwardComplete(r) ==
    /\ req[r].pc = "forward" /\ data = "complete" /\ ~Locked
    /\ told' = told \cup {"complete"}
    /\ EndReq(r)
    /\ UNCHANGED <<row, volume, ready, op, rec, jan>>

\* A PATCH appends; the one that completes the file calls pre-finish.
ForwardPatch(r) ==
    /\ req[r].pc = "forward" /\ req[r].method = "PATCH"
    /\ data = "partial" /\ ~Locked
    /\ \/ EndReq(r) /\ UNCHANGED data
       \/ GoReq(r, "hook") /\ data' = "complete"
    /\ stale' = FALSE
    /\ UNCHANGED <<row, disk, post, hidden, del, ready, op, rec, jan, told>>

\* handleTusDelete: an upload without a row is answered as cancelled.
DeleteRead(r) ==
    /\ req[r].pc = "readRow"
    /\ IF StatusIs({"uploading"})
       THEN GoReq(r, "cancel") /\ UNCHANGED told
       ELSE EndReq(r) /\ told' = IF HasRow THEN told ELSE told \cup {"cancelled"}
    /\ UNCHANGED <<row, volume, ready, op, rec, jan>>

RequestCancellation(r) ==
    /\ req[r].pc = "cancel"
    /\ IF HasRow /\ MayCancel(row)
       THEN row' = CancelRequested(row) /\ told' = told \cup {"cancelled"}
       ELSE UNCHANGED <<row, told>>
    /\ EndReq(r)
    /\ UNCHANGED <<volume, ready, op, rec, jan>>

\* publicUploadState: what the upload status API says of the row.
PublicState ==
    IF ~HasRow THEN IF ready THEN "unknown" ELSE "recovering"
    ELSE CASE row.status = "uploading" -> IF row.cancelled THEN "cancelled" ELSE "uploading"
           [] row.status \in {"pending", "processing"} -> "processing"
           [] row.status \in {"cleanup", "complete"} -> "published"
           [] row.status \in {"discarding", "discarded"} ->
                IF row.reason \in {"cancelled", "unobservable"} THEN "cancelled" ELSE "failed"

-----------------------------------------------------------------------------
(* The durability operation. *)

GoOp(pc) == op' = pc /\ UNCHANGED <<req, rec, told>>

\* The operation ends and wakes everyone who still waits for it: the fence
\* lets its request through on success, the hook answers for tusd.
OpDone(result) ==
    LET waits(pc) == {r \in Request : req[r].pc = pc} IN
    /\ op' = "none"
    /\ req' = [r \in Request |->
                 IF r \in waits("fenceWait") /\ result = "ok"
                 THEN [req[r] EXCEPT !.pc = Unfenced(r)]
                 ELSE IF r \in waits("fenceWait") \cup waits("hookWait")
                 THEN NoRequest ELSE req[r]]
    /\ rec' = IF rec.pc = "wait" THEN [rec EXCEPT !.pc = "end"] ELSE rec
    /\ told' = told
         \cup {a \in {"committed"} : result = "ok" /\ waits("hookWait") # {}}
         \cup {a \in {"gone"} : /\ result = "final"
                                /\ waits("fenceWait") \cup waits("hookWait") # {}}

\* makeDurable and classifyLostPromotion read the row alike, but for an upload
\* that is still uploading.
OpRead ==
    /\ op = "read"
    /\ \/ StatusIs({"uploading"}) /\ GoOp("stat")
       \/ (~HasRow \/ Rejected) /\ OpDone("final")
       \/ Committed /\ OpDone("ok")
    /\ UNCHANGED <<row, volume, ready, jan>>

\* Any failed stat, and any other size, is final.
OpStat ==
    /\ op = "stat"
    /\ IF Seen = "complete" THEN GoOp("sync") ELSE OpDone("final")
    /\ UNCHANGED <<row, volume, ready, jan>>

\* Mutant: the source is not synced before the commit.
Mutant_OpSyncSkipped ==
    /\ op = "sync" /\ Seen # "absent"
    /\ GoOp("promote")
    /\ UNCHANGED <<row, volume, ready, jan>>

\* fsync of data file, sidecar and directory.
OpSync ==
    /\ op = "sync" /\ Seen # "absent"
    /\ disk' = data
    /\ GoOp("promote")
    /\ UNCHANGED <<row, data, post, stale, hidden, del, ready, jan>>

\* Mutant: an update that matched no row is taken for a success.
Mutant_OpPromoteBlind ==
    /\ op = "promote"
    /\ row' = IF HasRow /\ MayPromote(row) THEN Promoted(row) ELSE row
    /\ OpDone("ok")
    /\ UNCHANGED <<volume, ready, jan>>

OpPromote ==
    /\ op = "promote"
    /\ IF HasRow /\ MayPromote(row)
       THEN row' = Promoted(row) /\ OpDone("ok")
       ELSE UNCHANGED row /\ GoOp("classify")
    /\ UNCHANGED <<volume, ready, jan>>

OpClassify ==
    /\ op = "classify"
    /\ \/ (~HasRow \/ Rejected) /\ OpDone("final")
       \/ StatusIs({"uploading"}) /\ OpDone(IF row.cancelled THEN "final" ELSE "retry")
       \/ Committed /\ OpDone("ok")
    /\ UNCHANGED <<row, volume, ready, jan>>

\* The source cannot be opened for the fsync.
OpBlocked ==
    /\ op = "sync" /\ Seen = "absent"
    /\ OpDone("retry")
    /\ UNCHANGED <<row, volume, ready, jan>>

\* Mutant: every failure is relayed as final.
Mutant_OpFaultFinal ==
    /\ op # "none" /\ OpDone("final")
    /\ UNCHANGED <<row, volume, ready, jan>>

\* A busy database, an I/O error, the operation's own timeout.
OpFault ==
    /\ op # "none" /\ OpDone("retry")
    /\ UNCHANGED <<row, volume, ready, jan>>

OpStep == OpRead \/ OpStat \/ OpSync \/ OpPromote \/ OpClassify \/ OpBlocked

-----------------------------------------------------------------------------
(* The reconciler. *)

GoRec(pc) == rec' = [rec EXCEPT !.pc = pc]

\* Nothing is done for an upload the directory did not list.
AfterRows == IF rec.listed THEN "read" ELSE "end"

\* The directory is read before anything acts.
ReconcileOnce ==
    /\ rec.pc = "idle"
    /\ rec' = [NoPass EXCEPT !.pc = "sweep", !.listed = (Seen # "absent")]
    /\ UNCHANGED <<row, volume, ready, op, req, jan, told>>

SweepCancelled ==
    /\ rec.pc = "sweep"
    /\ row' = IF HasRow /\ MaySweep(row) THEN SweptForDiscard(row) ELSE row
    /\ GoRec("list")
    /\ UNCHANGED <<volume, ready, op, req, jan, told>>

ListStale ==
    /\ rec.pc = "list"
    /\ GoRec(IF HasRow /\ IsStale(row) THEN "paths" ELSE AfterRows)
    /\ UNCHANGED <<row, volume, ready, op, req, jan, told>>

UploadPathsExist ==
    /\ rec.pc = "paths"
    /\ GoRec(IF Seen = "absent" THEN "mark" ELSE AfterRows)
    /\ UNCHANGED <<row, volume, ready, op, req, jan, told>>

MarkUnobservable ==
    /\ rec.pc = "mark"
    /\ row' = IF HasRow /\ MayMarkUnobservable(row) THEN Unobservable(row) ELSE row
    /\ GoRec(AfterRows)
    /\ UNCHANGED <<volume, ready, op, req, jan, told>>

\* reconcileOne reads the row first, and goes on for four kinds of it.
Kind(job) ==
    IF job = Null THEN "rowless"
    ELSE IF job.status = "discarded" /\ job.reason = "unobservable" THEN "unobservable"
    ELSE IF job.status \in {"uploading"} \cup Terminal THEN job.status
    ELSE "owned"

ReconcileRead ==
    /\ rec.pc = "read"
    /\ rec' = [rec EXCEPT !.pc = IF Kind(row) = "owned" THEN "end" ELSE "look",
                          !.kind = Kind(row)]
    /\ UNCHANGED <<row, volume, ready, op, req, jan, told>>

\* Mutant: an unobservable row is a discarded one like any other.
Mutant_UnobservableKept(kind, bytes) ==
    CASE kind = "rowless"  -> IF bytes = "complete" THEN "adopt" ELSE "end"
      [] kind = "uploading" -> IF bytes = "complete" THEN "ensure" ELSE "end"
      [] OTHER -> IF bytes = "absent" \/ kind = "unobservable" THEN "end" ELSE "reopen"

\* Mutant: a finished row is left alone whatever came back.
Mutant_ReturnedIgnored(kind, bytes) ==
    CASE kind = "rowless"      -> IF bytes = "complete" THEN "adopt" ELSE "end"
      [] kind = "unobservable" -> "delete"
      [] kind = "uploading"    -> IF bytes = "complete" THEN "ensure" ELSE "end"
      [] kind \in Terminal     -> "end"

\* What becomes of an upload of that kind, given the files.  An unobservable
\* row goes whatever came back; what follows depends on how much that is.
Resolution(kind, bytes) ==
    CASE kind = "rowless"      -> IF bytes = "complete" THEN "adopt" ELSE "end"
      [] kind = "unobservable" -> "delete"
      [] kind = "uploading"    -> IF bytes = "complete" THEN "ensure" ELSE "end"
      [] kind \in Terminal     -> IF bytes = "absent" THEN "end" ELSE "reopen"

ReconcileLook ==
    /\ rec.pc = "look"
    /\ rec' = [rec EXCEPT !.pc = Resolution(rec.kind, Seen), !.full = (Seen = "complete")]
    /\ UNCHANGED <<row, volume, ready, op, req, jan, told>>

DeleteUploadJob ==
    /\ rec.pc = "delete"
    /\ row' = IF HasRow /\ MayReopen(row) THEN Null ELSE row
    /\ GoRec(IF rec.full THEN "adopt" ELSE "end")
    /\ UNCHANGED <<volume, ready, op, req, jan, told>>

ReopenTerminal ==
    /\ rec.pc = "reopen"
    /\ row' = IF HasRow /\ MayReopen(row)
              THEN Reopened(row, IF rec.kind = "complete" THEN "cleanup" ELSE "discarding")
              ELSE row
    /\ GoRec("end")
    /\ UNCHANGED <<volume, ready, op, req, jan, told>>

\* CreateUploadingJob fails where there is a row.
Adopt ==
    /\ rec.pc = "adopt"
    /\ IF HasRow
       THEN UNCHANGED row /\ GoRec("end")
       ELSE row' = NewUploadingJob /\ GoRec("ensure")
    /\ UNCHANGED <<volume, ready, op, req, jan, told>>

ReconcileEnsure ==
    /\ rec.pc = "ensure"
    /\ op' = IF op = "none" THEN "read" ELSE op
    /\ GoRec("wait")
    /\ UNCHANGED <<row, volume, ready, req, jan, told>>

\* A failed sweep or listing only ends that part of the pass, a failed call of
\* reconcileOne or a busy executor the pass's work on this upload.
ReconcileFault ==
    /\ rec.pc \notin {"idle", "paths", "look", "wait", "end"}
    /\ GoRec(CASE rec.pc = "sweep" -> "list"
               [] rec.pc \in {"list", "mark"} -> AfterRows
               [] OTHER -> "end")
    /\ UNCHANGED <<row, volume, ready, op, req, jan, told>>

\* A pass that completed opens the gate after a restart.
EndPass ==
    /\ rec.pc = "end"
    /\ rec' = NoPass
    /\ ready' = TRUE
    /\ UNCHANGED <<row, volume, op, req, jan, told>>

RecStep ==
    \/ ReconcileOnce \/ SweepCancelled \/ ListStale \/ UploadPathsExist \/ MarkUnobservable
    \/ ReconcileRead \/ ReconcileLook \/ DeleteUploadJob \/ ReopenTerminal \/ Adopt
    \/ ReconcileEnsure \/ EndPass

-----------------------------------------------------------------------------
(* The janitor and the removal of files. *)

\* The second look, which must find the upload as partial and as idle as the
\* first one did.
InspectCandidate ==
    /\ Janitor /\ jan = "idle"
    /\ Seen = "partial" /\ stale
    /\ jan' = "claim"
    /\ UNCHANGED <<row, volume, ready, op, req, rec, told>>

ClaimUploadingForDiscard ==
    /\ jan = "claim"
    /\ IF HasRow /\ MayDiscard(row)
       THEN row' = DiscardClaimed(row) /\ jan' = "terminate"
       ELSE UNCHANGED row /\ jan' = "exists"
    /\ UNCHANGED <<volume, ready, op, req, rec, told>>

\* uploadJobExists: a partial without a row is residue.
UploadJobExists ==
    /\ jan = "exists"
    /\ jan' = IF HasRow THEN "idle" ELSE "terminate"
    /\ UNCHANGED <<row, volume, ready, op, req, rec, told>>

\* Terminate refuses what the queue may still need, then sends the DELETE;
\* tusd acts on it later, even if its caller has given up or died.
MayTerminate == ~StatusIs({"uploading", "pending", "processing"})

JanitorTerminate ==
    /\ jan = "terminate"
    /\ del' = (del \/ MayTerminate)
    /\ jan' = "idle"
    /\ UNCHANGED <<row, files, hidden, ready, op, req, rec, told>>

JanitorFault ==
    /\ jan # "idle" /\ jan' = "idle"
    /\ UNCHANGED <<row, volume, ready, op, req, rec, told>>

TusdDelete ==
    /\ del /\ ~Locked
    /\ data' = "absent" /\ disk' = "absent"
    /\ del' = FALSE
    /\ UNCHANGED <<row, post, stale, hidden, ready, op, req, rec, jan, told>>

JanitorStep == ClaimUploadingForDiscard \/ UploadJobExists \/ JanitorTerminate

-----------------------------------------------------------------------------
(* The workers, a stage at a time. *)

Untouched == UNCHANGED <<ready, op, req, rec, jan, told>>

ClaimPending ==
    /\ HasRow /\ Claimable(row, "pending")
    /\ row' = Claimed(row, "processing", "lease")
    /\ UNCHANGED volume /\ Untouched

Publish ==
    /\ HasRow /\ MayPublish(row, "lease") /\ ~Refusable /\ Seen = "complete"
    /\ row' = Published(row, "media")
    /\ UNCHANGED volume /\ Untouched

Reject ==
    /\ StatusIs({"processing"}) /\ Refusable /\ Seen = "complete"
    /\ row' = Finished(row, "discarding", "unsupported_type")
    /\ UNCHANGED volume /\ Untouched

TerminateSource ==
    /\ StatusIs({"cleanup", "discarding"}) /\ Seen # "absent" /\ ~del
    /\ del' = TRUE
    /\ UNCHANGED <<row, files, hidden>> /\ Untouched

FinishRemoval ==
    /\ StatusIs({"cleanup", "discarding"}) /\ Seen = "absent"
    /\ row' = Finished(row, IF row.status = "cleanup" THEN "complete" ELSE "discarded", "")
    /\ UNCHANGED volume /\ Untouched

QueueStep == ClaimPending \/ Publish \/ Reject \/ TerminateSource \/ FinishRemoval

-----------------------------------------------------------------------------
(* tusd, the clock, and what may go wrong. *)

\* tusd creates the files of an admitted upload, or dies before.
CreateFiles ==
    /\ post /\ post' = FALSE
    /\ \/ data' = "partial" /\ disk' = "partial"
       \/ UNCHANGED <<data, disk>>
    /\ UNCHANGED <<row, stale, hidden, del>> /\ Untouched

\* The row has not been written for a reconcile interval.
BecomesQuiet ==
    /\ StatusIs({"uploading"}) /\ ~row.quiet
    /\ post => "delay" \in Faults
    /\ row' = [row EXCEPT !.quiet = TRUE]
    /\ UNCHANGED volume /\ Untouched

BecomesStale ==
    /\ Janitor /\ data = "partial" /\ ~stale
    /\ stale' = TRUE
    /\ UNCHANGED <<row, data, disk, post, hidden, del>> /\ Untouched

Hide ==
    /\ "hide" \in Faults /\ ~hidden
    /\ hidden' = TRUE
    /\ UNCHANGED <<row, files, del>> /\ Untouched

Return ==
    /\ hidden /\ hidden' = FALSE
    /\ UNCHANGED <<row, files, del>> /\ Untouched

\* The backend dies and starts again: requests, the operation and the pass are
\* gone, interrupted work is requeued unless that write fails.
Restarted ==
    /\ row' \in {row} \cup {Requeued(job) : job \in {row} \ {Null}}
    /\ ready' = FALSE /\ op' = "none" /\ jan' = "idle" /\ rec' = NoPass
    /\ req' = [r \in Request |-> NoRequest]
    /\ UNCHANGED told

Restart ==
    /\ "restart" \in Faults
    /\ Restarted
    /\ UNCHANGED volume

\* Power is lost: what was not synced may be gone, and so is every message.
\* SQLite commits are (synchronous=FULL).
PowerLoss ==
    /\ "power" \in Faults
    /\ Restarted
    /\ data' \in {data, disk} /\ disk' = data'
    /\ post' = FALSE /\ del' = FALSE /\ hidden' = FALSE
    /\ UNCHANGED stale

Disturbance == OpFault \/ ReconcileFault \/ JanitorFault \/ Hide \/ Restart \/ PowerLoss

\* What happens when nothing goes wrong and nobody repeats a cancellation.
CalmNext ==
    \/ \E r \in Request :
         \/ \E method \in Method : Arrive(r, method)
         \/ FenceRead(r) \/ FenceStat(r) \/ EnsureDurable(r)
         \/ ForwardComplete(r) \/ ForwardPatch(r)
         \/ DeleteRead(r) \/ Refused(r)
    \/ OpStep \/ RecStep \/ QueueStep
    \/ InspectCandidate \/ JanitorStep \/ TusdDelete
    \/ CreateFiles \/ BecomesQuiet \/ BecomesStale \/ Return

Next ==
    \/ CalmNext
    \/ Disturbance
    \/ \E r \in Request : RequestCancellation(r)

Spec == Init /\ [][Next]_vars

(***************************************************************************)
(* Operations run to their end, the reconciler's ticker fires, workers and *)
(* tusd do their work, a mount comes back.  No client is asked to do        *)
(* anything, but that it stops repeating its cancellation: each one makes  *)
(* the sweep wait for another reconcile interval.                          *)
(***************************************************************************)
Fairness ==
    /\ WF_vars(OpStep) /\ WF_vars(RecStep) /\ WF_vars(JanitorStep)
    /\ \A r \in Request : WF_vars(EnsureDurable(r))
    /\ WF_vars(ClaimPending) /\ WF_vars(Publish) /\ WF_vars(Reject)
    /\ WF_vars(TerminateSource) /\ WF_vars(FinishRemoval) /\ WF_vars(TusdDelete)
    /\ WF_vars(BecomesQuiet) /\ WF_vars(Return)

\* Busy databases, restarts and faulted mounts do not recur for ever.
EventuallyCalm == <>[][CalmNext]_vars

FairSpec == Spec /\ Fairness /\ EventuallyCalm

-----------------------------------------------------------------------------
(* Properties. *)

Durable == Committed \/ (Rejected /\ row.reason = "unsupported_type")

\* What the queue may still read is complete and would survive a power loss:
\* no cancellation, janitor, hidden mount or detached operation commits an
\* upload whose bytes are not there, or takes them away once it is committed.
CommittedComplete ==
    StatusIs({"pending", "processing"}) => data = "complete" /\ disk = "complete"

\* A final PATCH that pre-finish let succeed is never taken back, whatever the
\* reconciler, a second request or a restart does later.
HookTruthful == "committed" \in told => Durable

\* An upload whose cancellation was acknowledged never reaches the gallery.
CancelledStays == "cancelled" \in told => ~Committed

\* The durable ingest design, Invariant 1: a tus upload reported successful to
\* the browser is durably recorded with its source synced.
SuccessTruthful == "complete" \in told => Durable

\* ErrDurabilityFinal: retrying can only fail the same way.
FinalIsFinal == "gone" \in told => ~Committed

\* The verdicts of the upload status API are final: an upload once reported
\* published, failed or cancelled is never reported as anything else.
ReceiptFinal ==
    [][(PublicState \in {"published", "failed", "cancelled"}) => PublicState' = PublicState]_vars

\* Terminate refuses to remove a source the queue may still need: no DELETE
\* tusd acts on takes the source of a committed upload.
NeededSpared == [][TusdDelete => ~StatusIs({"pending", "processing"})]_vars

\* The guest's cancellation, the janitor's or the pipeline's refusal.
Condemned == Rejected /\ Kind(row) # "unobservable"

\* Nothing is lost meanwhile: a complete upload nobody could promote in time,
\* or whose row was closed out while its files were hidden, is committed by
\* the reconciler unless it was condemned or a power loss took bytes of it; no
\* client has to come back, and nobody deletes it instead.
CompleteSettles == data = "complete" ~> Committed \/ Condemned \/ data = "partial"

\* The bytes of a condemned upload are reclaimed, and stay so.
CondemnedReclaimed == Condemned ~> data = "absent"

-----------------------------------------------------------------------------
(* Why the safety properties hold. *)

\* Neither rows nor files go out of sight: no faulted mount, no files that come
\* after their row was closed out, no upload without a row.  Only then may a
\* janitor run beside the reconciler.
Steady == Faults \subseteq {"restart", "power"}
Sheltered == Janitor => Steady

\* A row whose source tusd may remove stays such a row.
Spent == StatusIs({"cleanup", "complete"}) \/ Condemned

\* The reasons a row is closed out for.
RowInv ==
    /\ StatusIs({"uploading"}) => row.reason = ""
    /\ StatusIs({"discarding"}) => row.reason # "unobservable"

\* A terminal row waits for the reconciler that has read it.
PassInv ==
    /\ rec.pc \in {"look", "delete", "reopen"} /\ rec.kind \in Terminal \cup {"unobservable"} =>
           Kind(row) = rec.kind
    /\ rec.pc = "look" => rec.kind # "owned"
    /\ rec.pc = "delete" => rec.kind = "unobservable"
    /\ rec.pc = "reopen" => rec.kind \in Terminal
    /\ jan # "idle" => Janitor

\* What survives a power loss is never more than what is there.
FilesInv ==
    /\ post => data = "absent"
    /\ data = "absent" <=> disk = "absent"
    /\ disk = "complete" => data = "complete"

\* The source of a committed upload is synced until it goes, whole; what an
\* operation has synced stays for its commit.
SourceInv ==
    /\ del \/ jan = "terminate" => Spent
    /\ op \in {"sync", "promote"} => Spent \/ data = "complete"
    /\ op = "promote" => Spent \/ disk = "complete"
    /\ Committed => ~post /\ disk = data /\ data # "partial"
    /\ CommittedComplete

\* The upload has a row but no files, and never will have.
Void ==
    /\ ~post /\ data = "absent"
    /\ StatusIs({"uploading"}) \/ Kind(row) = "unobservable"

\* Whoever wants an upload durable has seen all of it; nothing but the
\* operation commits one.
WantsDurable ==
    op # "none" \/ rec.pc = "ensure" \/ \E r \in Request : req[r].pc \in {"ensure", "hook"}

\* With everything in sight a row is never lost, and what has no files was
\* never listed.
SightInv ==
    /\ HasRow /\ ~hidden
    /\ row.quiet \/ rec.pc \in {"paths", "mark"} => ~post
    /\ rec.pc = "mark" => data = "absent"
    /\ Kind(row) = "unobservable" => Void
    /\ post \/ Void => ~rec.listed
    /\ rec.pc \in {"read", "look", "reopen", "ensure"} => rec.listed
    /\ rec.pc \notin {"delete", "adopt"} /\ rec.kind \notin {"rowless", "unobservable"}

\* What was refused or given up is not committed any more.
VerdictInv ==
    /\ WantsDurable => Spent \/ data = "complete"
    /\ op \in {"stat", "sync", "promote", "classify"} => ~Committed
    /\ "gone" \in told => Rejected \/ (StatusIs({"uploading"}) /\ row.cancelled)
    /\ "cancelled" \in told => ~Committed /\ row.cancelled

\* The inductive invariant.
BarrierInv ==
    /\ TypeOK /\ RowInv /\ PassInv /\ FilesInv /\ HookTruthful
    /\ Sheltered => SourceInv
    /\ Steady => SightInv /\ VerdictInv

-----------------------------------------------------------------------------
(* The way into the queue implements the promise. *)

StateOf(job) ==
    IF job = Null \/ job.status = "uploading" \/ Kind(job) = "unobservable"
    THEN "transferring"
    ELSE CASE job.status \in {"pending", "processing"} -> "durable"
           [] job.status \in {"cleanup", "complete"} -> "published"
           [] job.status \in {"discarding", "discarded"} -> "condemned"

Promise == INSTANCE IngestPromise WITH
    Upload    <- {"upload"},
    Refusable <- {u \in {"upload"} : Refusable},
    state     <- [u \in {"upload"} |-> StateOf(row)],
    source    <- {u \in {"upload"} : disk = "complete"}

\* Every step is a step of the promise made to the guest or none.
PromiseKept == Promise!Spec
=============================================================================
