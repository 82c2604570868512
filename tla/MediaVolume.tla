----------------------------- MODULE MediaVolume -----------------------------
(***************************************************************************)
(* The originals directory through power failures and missing mounts:      *)
(* PrepareOriginal and VerifyOriginal (media/durable.go), the health gate  *)
(* (ingest/health.go) and the attempts that use them (ingest/process.go).  *)
(*                                                                         *)
(* A directory entry is what a reader finds now, beside all it may be once *)
(* the power has failed: a directory fsync leaves one outcome, a rename or *)
(* an unlink adds one, and a file whose bytes were not synced may come     *)
(* back short.  A volume that is not mounted leaves an empty directory in  *)
(* its place; a mount is made or missed when the process starts.           *)
(*                                                                         *)
(* Rows are durable once committed (synchronous=FULL) and sources since    *)
(* the barrier; leases, retries and purges are IngestQueue's matter.       *)
(***************************************************************************)
EXTENDS Naturals, Sequences, FiniteSets

CONSTANTS
    Upload,     \* uploads whose source is durable and whose row is pending
    Old,        \* an item published before, the first row of the gallery
    Worker,
    Content,
    SampleSize, \* rows the health gate samples, the oldest ones
    Null

ASSUME VolumeAssumption ==
    /\ Old \notin Upload /\ Null \notin Worker
    /\ SampleSize \in Nat \ {0}

VARIABLES
    content,    \* the bytes of each item
    status,     \* upload_jobs.status
    lease,      \* the worker whose token the row holds
    rows,       \* media_items, by rowid
    source,     \* uploads whose tus source exists
    mounted,
    file,       \* what a reader finds under each name of each directory
    disk,       \* what it may find there after a power failure
    pc, job,    \* each worker's step and upload
    tmp         \* its temporary

queue == <<status, lease, rows, source>>
volume == <<mounted, file, disk>>
vars == <<content, queue, volume, pc, job, tmp>>

Media == Upload \cup {Old}
Dir == {"real", "bare"}
View == IF mounted THEN "real" ELSE "bare"
File == {"none", "short", "full", "unsynced"}
Reads(f) == IF f = "unsynced" THEN "full" ELSE f
Survives(f) == IF f = "unsynced" THEN {"short", "full"} ELSE {f}

Ingesting == {"check", "stat", "copy", "sync", "rename", "resync", "verify", "existing", "publish"}
Cleaning == {"own", "sweep", "remove"}
Rows == {rows[i] : i \in DOMAIN rows}

TypeOK ==
    /\ content \in [Media -> Content]
    /\ status \in [Upload -> {"pending", "processing", "cleanup", "complete"}]
    /\ lease \in [Upload -> Worker \cup {Null}]
    /\ rows \in Seq(Media) /\ source \subseteq Upload /\ mounted \in BOOLEAN
    /\ file \in [Dir -> [Media -> File]] /\ disk \in [Dir -> [Media -> SUBSET File]]
    /\ pc \in [Worker -> {"idle"} \cup Ingesting \cup Cleaning]
    /\ job \in [Worker -> Upload \cup {Null}]
    /\ tmp \in [Worker -> {"none", "unsynced", "full"}]

Init ==
    /\ content \in [Media -> Content]
    /\ status = [u \in Upload |-> "pending"] /\ lease = [u \in Upload |-> Null]
    /\ rows = <<Old>> /\ source = Upload /\ mounted = TRUE
    \* the old original may have been damaged since
    /\ \E f \in {"none", "short", "full"} :
           file = [d \in Dir |-> [m \in Media |-> IF d = "real" /\ m = Old THEN f ELSE "none"]]
    /\ disk = [d \in Dir |-> [m \in Media |-> {file[d][m]}]]
    /\ pc = [w \in Worker |-> "idle"] /\ job = [w \in Worker |-> Null]
    /\ tmp = [w \in Worker |-> "none"]

-----------------------------------------------------------------------------
(* The file system, under the directory the process sees. *)

Found(m) == Reads(file[View][m])

\* rename and unlink: the entry changes, the old one may come back.
Enter(m, f) ==
    /\ file' = [file EXCEPT ![View][m] = f]
    /\ disk' = [disk EXCEPT ![View][m] = @ \cup {f}]

\* FsyncDir: the entries are what they are.
SyncedDir == [disk EXCEPT ![View] = [m \in Media |-> {file[View][m]}]]

Goto(w, p) == pc' = [pc EXCEPT ![w] = p]
Holds(w) == lease[job[w]] = w
At(w, p) == pc[w] = p

\* The attempt ends: the row, if still its own, is handed back.
Release(w) ==
    /\ Goto(w, "idle")
    /\ tmp' = [tmp EXCEPT ![w] = "none"] /\ job' = [job EXCEPT ![w] = Null]
    /\ IF Holds(w)
       THEN /\ lease' = [lease EXCEPT ![job[w]] = Null]
            /\ status' = [status EXCEPT ![job[w]] = IF @ = "processing" THEN "pending" ELSE @]
       ELSE UNCHANGED <<lease, status>>

-----------------------------------------------------------------------------
(* An attempt. *)

\* ClaimNextJob: a pending row, one whose worker's lease lapsed, or a cleanup.
Claim(w, u) ==
    /\ At(w, "idle") /\ lease[u] = Null /\ status[u] # "complete"
    /\ status' = [status EXCEPT ![u] = IF @ = "pending" THEN "processing" ELSE @]
    /\ lease' = [lease EXCEPT ![u] = w]
    /\ job' = [job EXCEPT ![w] = u] /\ Goto(w, "check")
    /\ UNCHANGED <<content, rows, source, volume, tmp>>

\* Mutant: whoever found the volume once need not look again.
Mutant_TrustMount(w) ==
    /\ At(w, "check")
    /\ Goto(w, IF status[job[w]] = "cleanup" THEN "own" ELSE "stat")
    /\ UNCHANGED <<content, queue, volume, job, tmp>>

\* health.Check: one of the sampled originals exists, whatever its size.  It
\* comes before every attempt and before every deletion.
Check(w) ==
    /\ At(w, "check") /\ Holds(w)
    /\ rows # <<>> => \E i \in DOMAIN rows : i <= SampleSize /\ file[View][rows[i]] # "none"
    /\ Goto(w, IF status[job[w]] = "cleanup" THEN "own" ELSE "stat")
    /\ UNCHANGED <<content, queue, volume, job, tmp>>

\* Mutant: an original found in place goes straight to its verification.
Mutant_ReuseAsIs(w) ==
    /\ At(w, "stat") /\ job[w] \in source
    /\ Found(job[w]) # "short"
    /\ Goto(w, IF Found(job[w]) = "full" THEN "verify" ELSE "copy")
    /\ UNCHANGED <<content, queue, volume, job, tmp>>

\* PrepareOriginal reuses an original already in place, once its directory is
\* synced; one that does not match is an error.
Stat(w) ==
    /\ At(w, "stat") /\ job[w] \in source
    /\ Found(job[w]) # "short"
    /\ Goto(w, IF Found(job[w]) = "full" THEN "resync" ELSE "copy")
    /\ UNCHANGED <<content, queue, volume, job, tmp>>

Copy(w) ==
    /\ At(w, "copy") /\ job[w] \in source
    /\ tmp' = [tmp EXCEPT ![w] = "unsynced"] /\ Goto(w, "sync")
    /\ UNCHANGED <<content, queue, volume, job>>

\* Mutant: the temporary's bytes are left to the kernel.
Mutant_SyncNameOnly(w) ==
    /\ At(w, "sync") /\ Holds(w)
    /\ disk' = SyncedDir /\ Goto(w, "rename")
    /\ UNCHANGED <<content, queue, mounted, file, job, tmp>>

\* The temporary is synced, its directory entry too, and the context is alive.
Sync(w) ==
    /\ At(w, "sync") /\ Holds(w)
    /\ tmp' = [tmp EXCEPT ![w] = "full"]
    /\ disk' = SyncedDir /\ Goto(w, "rename")
    /\ UNCHANGED <<content, queue, mounted, file, job>>

\* Nothing is looked at any more: the lease may be gone by now.
Rename(w) ==
    /\ At(w, "rename") /\ tmp[w] # "none"
    /\ Enter(job[w], tmp[w])
    /\ tmp' = [tmp EXCEPT ![w] = "none"] /\ Goto(w, "resync")
    /\ UNCHANGED <<content, queue, mounted, job>>

Resync(w) ==
    /\ At(w, "resync")
    /\ disk' = SyncedDir /\ Goto(w, "verify")
    /\ UNCHANGED <<content, queue, mounted, file, job, tmp>>

\* VerifyOriginal by size and hash, then RecordPrepared under the lease.
Verify(w) ==
    /\ At(w, "verify") /\ Holds(w)
    /\ Found(job[w]) = "full"
    /\ Goto(w, "existing")
    /\ UNCHANGED <<content, queue, volume, job, tmp>>

\* Mutant: a row is enough to keep the copy it describes.
Mutant_TrustRow(w) ==
    /\ At(w, "existing")
    /\ Goto(w, "publish")
    /\ UNCHANGED <<content, queue, volume, job, tmp>>

\* The row that holds these bytes already is kept only with its original.
Existing(w) ==
    /\ At(w, "existing")
    /\ \A m \in Rows : content[m] = content[job[w]] => Found(m) = "full"
    /\ Goto(w, "publish")
    /\ UNCHANGED <<content, queue, volume, job, tmp>>

\* PublishMedia, fenced by the lease: whoever was first owns the content.
Publish(w) ==
    /\ At(w, "publish") /\ Holds(w) /\ status[job[w]] = "processing"
    /\ rows' = IF \E m \in Rows : content[m] = content[job[w]] THEN rows ELSE Append(rows, job[w])
    /\ status' = [status EXCEPT ![job[w]] = "cleanup"]
    /\ lease' = [lease EXCEPT ![job[w]] = Null]
    /\ job' = [job EXCEPT ![w] = Null] /\ Goto(w, "idle")
    /\ UNCHANGED <<content, source, volume, tmp>>

\* removeArtifactsIfUnowned, whose directory fsync may fail unnoticed.
RemoveOwn(w) ==
    /\ At(w, "own") /\ Holds(w)
    /\ IF job[w] \in Rows
       THEN UNCHANGED <<file, disk>>
       ELSE Enter(job[w], "none")
    /\ Goto(w, "sweep")
    /\ UNCHANGED <<content, queue, mounted, job, tmp>>

\* sweepTemporaries, whichever attempt wrote them.
Sweep(w) ==
    /\ At(w, "sweep")
    /\ tmp' = [v \in Worker |-> IF job[v] = job[w] THEN "none" ELSE tmp[v]]
    /\ Goto(w, "remove")
    /\ UNCHANGED <<content, queue, volume, job>>

\* finishBySourceRemoval: the terminal state may fail to be recorded.
RemoveSource(w) ==
    /\ At(w, "remove") /\ Holds(w)
    /\ source' = source \ {job[w]}
    /\ status' \in {status, [status EXCEPT ![job[w]] = "complete"]}
    /\ lease' = [lease EXCEPT ![job[w]] = Null]
    /\ job' = [job EXCEPT ![w] = Null] /\ Goto(w, "idle")
    /\ UNCHANGED <<content, rows, volume, tmp>>

\* An error, or a context that ended.
Fail(w) ==
    /\ ~At(w, "idle") /\ Release(w)
    /\ UNCHANGED <<content, rows, source, volume>>

Step(w) ==
    \/ Check(w) \/ Stat(w) \/ Copy(w) \/ Sync(w) \/ Rename(w) \/ Resync(w) \/ Verify(w)
    \/ Existing(w) \/ Publish(w) \/ RemoveOwn(w) \/ Sweep(w) \/ RemoveSource(w) \/ Fail(w)

\* The lease outlives the attempt's context, not an attempt that goes on.
Lapse(u) ==
    /\ lease[u] # Null
    /\ lease' = [lease EXCEPT ![u] = Null]
    /\ UNCHANGED <<content, status, rows, source, volume, pc, job, tmp>>

-----------------------------------------------------------------------------
(* Faults. *)

\* The next process finds the volume mounted, or not; RequeueStartup.
Reboots ==
    /\ pc' = [w \in Worker |-> "idle"] /\ job' = [w \in Worker |-> Null]
    /\ tmp' = [w \in Worker |-> "none"]
    /\ lease' = [u \in Upload |-> Null]
    /\ status' = [u \in Upload |-> IF status[u] = "processing" THEN "pending" ELSE status[u]]
    /\ mounted' \in BOOLEAN
    /\ UNCHANGED <<content, rows, source>>

Restart == Reboots /\ UNCHANGED <<file, disk>>

\* Each entry is one of its outcomes, and its bytes are what was synced.
Outcomes(d) ==
    {after \in [Media -> {"none", "short", "full"}] :
        \A m \in Media : \E f \in disk[d][m] : after[m] \in Survives(f)}

PowerFails ==
    /\ Reboots
    /\ \E real \in Outcomes("real"), bare \in Outcomes("bare") :
           file' = [d \in Dir |-> IF d = "real" THEN real ELSE bare]
    /\ disk' = [d \in Dir |-> [m \in Media |-> {file'[d][m]}]]

Next ==
    \/ \E w \in Worker : (\E u \in Upload : Claim(w, u)) \/ Step(w)
    \/ \E u \in Upload : Lapse(u)
    \/ Restart \/ PowerFails

Spec == Init /\ [][Next]_vars

-----------------------------------------------------------------------------
(* Properties. *)

Kept(m) == file["real"][m] = "full" /\ disk["real"][m] = {"full"}

\* A crash may leave a stale temporary, never a truncated original.
NeverTruncated == \A d \in Dir, u \in Upload : file[d][u] # "short"

\* A committed row has its original on the volume itself, complete, and so
\* durably that no power failure takes it away.
RowsBacked == \A u \in Upload \cap Rows : Kept(u)

\* The source is removed when a committed row keeps its bytes, in the upload's
\* own original or in the one that was there before: it is never the last copy.
RemovedIsKept ==
    \A u \in Upload \ source : \E m \in Rows : content[m] = content[u] /\ Kept(m)

\* Nothing is written where the volume should be; what is on it is complete
\* under every name that may be found, and the old original is left alone.
Tree ==
    /\ \A m \in Media : file["bare"][m] = "none" /\ disk["bare"][m] = {"none"}
    /\ \A u \in Upload : file["real"][u] \in {"none", "full"} /\ disk["real"][u] \subseteq {"none", "full"}
    /\ file["real"][Old] # "unsynced" /\ disk["real"][Old] = {file["real"][Old]}

\* What an attempt knows at each of its steps.
Attempt(w) ==
    /\ ~At(w, "idle") => job[w] \in Upload
    /\ pc[w] \notin {"idle", "check"} => mounted
    /\ tmp[w] = "unsynced" => At(w, "sync")
    /\ At(w, "resync") /\ Holds(w) => file["real"][job[w]] = "full"
    /\ pc[w] \in {"verify", "existing", "publish"} /\ Holds(w) => Kept(job[w])
    /\ At(w, "publish") /\ content[Old] = content[job[w]] => file["real"][Old] = "full"
    /\ pc[w] \in Cleaning => status[job[w]] \in {"cleanup", "complete"}

\* A row is found by the oldest items; a published upload has its bytes kept.
Published ==
    /\ rows # <<>> /\ rows[1] = Old
    /\ \A u \in Upload : status[u] \in {"cleanup", "complete"} \/ u \notin source =>
           \E m \in Rows : content[m] = content[u] /\ Kept(m)

\* The inductive invariant.
VolumeInv == TypeOK /\ Tree /\ (\A w \in Worker : Attempt(w)) /\ Published /\ RowsBacked
=============================================================================
