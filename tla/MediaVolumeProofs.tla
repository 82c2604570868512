-------------------------- MODULE MediaVolumeProofs --------------------------
(***************************************************************************)
(* Proofs about MediaVolume, for any uploads, workers, contents and sample *)
(* sizes.                                                                  *)
(***************************************************************************)
EXTENDS MediaVolume, TLAPS

-----------------------------------------------------------------------------
(* The directories. *)

\* Past its health check an attempt sees the volume.
LEMMA SeesVolume ==
    ASSUME VolumeInv, NEW w \in Worker, pc[w] \notin {"idle", "check"}
    PROVE  View = "real" /\ job[w] \in Upload
  BY DEF VolumeInv, Attempt, At, View

\* Who touches the directories, and how.
LEMMA Writers ==
    ASSUME VolumeInv, Next
    PROVE  \/ UNCHANGED <<file, disk>>
           \/ /\ file' = file
              /\ disk' = [disk EXCEPT !["real"] = [m \in Media |-> {file["real"][m]}]]
           \/ \E w \in Worker : /\ Rename(w) /\ job[w] \in Upload /\ tmp[w] = "full"
                                /\ file' = [file EXCEPT !["real"][job[w]] = "full"]
                                /\ disk' = [disk EXCEPT !["real"][job[w]] = @ \cup {"full"}]
           \/ \E w \in Worker : /\ RemoveOwn(w) /\ job[w] \in Upload \ Rows
                                /\ file' = [file EXCEPT !["real"][job[w]] = "none"]
                                /\ disk' = [disk EXCEPT !["real"][job[w]] = @ \cup {"none"}]
           \/ PowerFails
<1>1. CASE \E u \in Upload : Lapse(u)  BY <1>1 DEF Lapse, volume
<1>2. CASE Restart  BY <1>2 DEF Restart
<1>3. ASSUME NEW w \in Worker, NEW u \in Upload, Claim(w, u) PROVE UNCHANGED <<file, disk>>
  BY <1>3 DEF Claim, volume
<1>4. ASSUME NEW w \in Worker, Check(w) \/ Stat(w) \/ Copy(w) \/ Verify(w) \/ Existing(w)
                               \/ Publish(w) \/ Sweep(w) \/ RemoveSource(w) \/ Fail(w)
      PROVE  UNCHANGED <<file, disk>>
  BY <1>4 DEF Check, Stat, Copy, Verify, Existing, Publish, Sweep, RemoveSource, Fail, volume
<1>5. ASSUME NEW w \in Worker, Sync(w) \/ Resync(w)
      PROVE  /\ file' = file
             /\ disk' = [disk EXCEPT !["real"] = [m \in Media |-> {file["real"][m]}]]
  <2>1. View = "real"  BY <1>5, SeesVolume DEF Sync, Resync, At
  <2> QED  BY <1>5, <2>1 DEF Sync, Resync, SyncedDir
<1>6. ASSUME NEW w \in Worker, Rename(w)
      PROVE  /\ job[w] \in Upload /\ tmp[w] = "full"
             /\ file' = [file EXCEPT !["real"][job[w]] = "full"]
             /\ disk' = [disk EXCEPT !["real"][job[w]] = @ \cup {"full"}]
  <2>1. View = "real" /\ job[w] \in Upload  BY <1>6, SeesVolume DEF Rename, At
  <2>2. tmp[w] = "full"  BY <1>6 DEF Rename, VolumeInv, Attempt, TypeOK, At
  <2> QED  BY <1>6, <2>1, <2>2 DEF Rename, Enter
<1>7. ASSUME NEW w \in Worker, RemoveOwn(w)
      PROVE  \/ UNCHANGED <<file, disk>>
             \/ /\ job[w] \in Upload \ Rows
                /\ file' = [file EXCEPT !["real"][job[w]] = "none"]
                /\ disk' = [disk EXCEPT !["real"][job[w]] = @ \cup {"none"}]
  <2>1. View = "real" /\ job[w] \in Upload  BY <1>7, SeesVolume DEF RemoveOwn, At
  <2> QED  BY <1>7, <2>1 DEF RemoveOwn, Enter
<1> QED  BY <1>1, <1>2, <1>3, <1>4, <1>5, <1>6, <1>7 DEF Next, Step

\* What a power failure leaves is one of the outcomes.
LEMMA AfterPowerFails ==
    ASSUME VolumeInv, PowerFails
    PROVE  /\ file' \in [Dir -> [Media -> {"none", "short", "full"}]]
           /\ \A d \in Dir, m \in Media :
                  disk'[d][m] = {file'[d][m]} /\ \E f \in disk[d][m] : file'[d][m] \in Survives(f)
<1>1. PICK real \in Outcomes("real"), bare \in Outcomes("bare") :
        file' = [d \in Dir |-> IF d = "real" THEN real ELSE bare]
  BY DEF PowerFails
<1>2. real \in [Media -> {"none", "short", "full"}] /\ bare \in [Media -> {"none", "short", "full"}]
  BY DEF Outcomes
<1>3. file'["real"] = real /\ file'["bare"] = bare  BY <1>1 DEF Dir
<1>4. \A m \in Media : /\ \E f \in disk["real"][m] : real[m] \in Survives(f)
                       /\ \E f \in disk["bare"][m] : bare[m] \in Survives(f)
  BY DEF Outcomes
<1>5. \A d \in Dir : d = "real" \/ d = "bare"  BY DEF Dir
<1>6. \A d \in Dir, m \in Media : disk'[d][m] = {file'[d][m]}  BY DEF PowerFails
<1>7. file' \in [Dir -> [Media -> {"none", "short", "full"}]]  BY <1>1, <1>2
<1> QED  BY <1>3, <1>4, <1>5, <1>6, <1>7

LEMMA SurvivesAs ==
    /\ \A f \in File : "unsynced" \notin Survives(f)
    /\ \A f \in {"none", "short", "full"} : Survives(f) = {f}
  BY DEF Survives, File

LEMMA TreeTyped ==
    ASSUME VolumeInv, Next
    PROVE  file' \in [Dir -> [Media -> File]] /\ disk' \in [Dir -> [Media -> SUBSET File]]
<1>1. file \in [Dir -> [Media -> File]] /\ disk \in [Dir -> [Media -> SUBSET File]]
      /\ "real" \in Dir
  BY DEF VolumeInv, TypeOK, Dir
<1>2. {"none", "full"} \subseteq File  BY DEF File
<1>3. CASE PowerFails
  <2>1. file' \in [Dir -> [Media -> File]]
    <3>1. file' \in [Dir -> [Media -> {"none", "short", "full"}]]  BY <1>3, AfterPowerFails
    <3>2. \A d \in Dir : file'[d] \in [Media -> File]
      BY <3>1 DEF File
    <3> QED  BY <3>1, <3>2
  <2>2. disk' = [d \in Dir |-> [m \in Media |-> {file'[d][m]}]]  BY <1>3 DEF PowerFails
  <2>3. \A d \in Dir, m \in Media : {file'[d][m]} \in SUBSET File  BY <2>1
  <2>4. \A d \in Dir : [m \in Media |-> {file'[d][m]}] \in [Media -> SUBSET File]  BY <2>3
  <2> QED  BY <2>1, <2>2, <2>4
<1>4. CASE disk' = [disk EXCEPT !["real"] = [m \in Media |-> {file["real"][m]}]] /\ file' = file
  <2>1. [m \in Media |-> {file["real"][m]}] \in [Media -> SUBSET File]
    <3>1. \A m \in Media : {file["real"][m]} \in SUBSET File  BY <1>1
    <3> QED  BY <3>1
  <2> QED  BY <1>1, <1>4, <2>1
<1>5. ASSUME NEW u \in Media, NEW f \in {"none", "full"},
             file' = [file EXCEPT !["real"][u] = f],
             disk' = [disk EXCEPT !["real"][u] = @ \cup {f}]
      PROVE  file' \in [Dir -> [Media -> File]] /\ disk' \in [Dir -> [Media -> SUBSET File]]
  <2>1. [file["real"] EXCEPT ![u] = f] \in [Media -> File]  BY <1>1, <1>2
  <2>2. [disk["real"] EXCEPT ![u] = @ \cup {f}] \in [Media -> SUBSET File]
    <3>1. disk["real"][u] \cup {f} \in SUBSET File  BY <1>1, <1>2
    <3> QED  BY <1>1, <3>1
  <2>3. file' = [file EXCEPT !["real"] = [file["real"] EXCEPT ![u] = f]]  BY <1>1, <1>5
  <2>4. disk' = [disk EXCEPT !["real"] = [disk["real"] EXCEPT ![u] = @ \cup {f}]]  BY <1>1, <1>5
  <2> QED  BY <1>1, <2>1, <2>2, <2>3, <2>4
<1> QED  BY <1>1, <1>3, <1>4, <1>5, Writers DEF Media

LEMMA TreeNext ==
    ASSUME VolumeInv, Next
    PROVE  Tree'
<1>1. file \in [Dir -> [Media -> File]] /\ disk \in [Dir -> [Media -> SUBSET File]]
      /\ Tree /\ "real" \in Dir /\ "bare" \in Dir /\ Old \in Media /\ Old \notin Upload
      /\ Upload \subseteq Media
  BY VolumeAssumption DEF VolumeInv, TypeOK, Dir, Media
<1>2. CASE UNCHANGED <<file, disk>>  BY <1>1, <1>2 DEF Tree
<1>3. CASE PowerFails
  <2>1. \A d \in Dir, m \in Media :
          disk'[d][m] = {file'[d][m]} /\ \E f \in disk[d][m] : file'[d][m] \in Survives(f)
    BY <1>3, AfterPowerFails
  <2>2. ASSUME NEW m \in Media PROVE file'["bare"][m] = "none"
    <3>1. PICK f \in disk["bare"][m] : file'["bare"][m] \in Survives(f)  BY <1>1, <2>1
    <3>2. f = "none"  BY <1>1, <3>1 DEF Tree
    <3> QED  BY <3>1, <3>2, SurvivesAs
  <2>3. ASSUME NEW u \in Upload PROVE file'["real"][u] \in {"none", "full"}
    <3>1. PICK f \in disk["real"][u] : file'["real"][u] \in Survives(f)  BY <1>1, <2>1
    <3>2. f \in {"none", "full"}  BY <1>1, <3>1 DEF Tree
    <3> QED  BY <3>1, <3>2, SurvivesAs
  <2>4. file'["real"][Old] # "unsynced"
    <3>1. PICK f \in disk["real"][Old] : file'["real"][Old] \in Survives(f)  BY <1>1, <2>1
    <3>2. f \in File  BY <1>1, <3>1
    <3> QED  BY <3>1, <3>2, SurvivesAs
  <2> QED  BY <1>1, <2>1, <2>2, <2>3, <2>4 DEF Tree
<1>4. CASE disk' = [disk EXCEPT !["real"] = [m \in Media |-> {file["real"][m]}]] /\ file' = file
  <2>1. \A m \in Media : disk'["real"][m] = {file["real"][m]} /\ disk'["bare"][m] = disk["bare"][m]
    BY <1>1, <1>4
  <2> QED  BY <1>1, <1>4, <2>1 DEF Tree
<1>5. ASSUME NEW u \in Upload, NEW f \in {"none", "full"},
             file' = [file EXCEPT !["real"][u] = f],
             disk' = [disk EXCEPT !["real"][u] = @ \cup {f}]
      PROVE  Tree'
  <2>1. \A m \in Media : file'["bare"][m] = file["bare"][m] /\ disk'["bare"][m] = disk["bare"][m]
    BY <1>1, <1>5
  <2>2. \A m \in Media \ {u} : /\ file'["real"][m] = file["real"][m]
                               /\ disk'["real"][m] = disk["real"][m]
    BY <1>1, <1>5
  <2>3. file'["real"][u] = f /\ disk'["real"][u] = disk["real"][u] \cup {f}  BY <1>1, <1>5
  <2> QED  BY <1>1, <2>1, <2>2, <2>3 DEF Tree
<1> QED  BY <1>2, <1>3, <1>4, <1>5, Writers

\* An original that is kept stays, unless it is an upload's without a row.
LEMMA KeptStays ==
    ASSUME VolumeInv, Next, NEW m \in Media, Kept(m),
           \A w \in Worker : RemoveOwn(w) => m \in Rows \/ job[w] # m
    PROVE  Kept(m)'
<1>1. file \in [Dir -> [Media -> File]] /\ disk \in [Dir -> [Media -> SUBSET File]]
      /\ "real" \in Dir /\ Upload \subseteq Media
  BY DEF VolumeInv, TypeOK, Dir, Media
<1>2. CASE UNCHANGED <<file, disk>>  BY <1>2 DEF Kept
<1>3. CASE PowerFails
  <2>1. disk'["real"][m] = {file'["real"][m]}
        /\ \E f \in disk["real"][m] : file'["real"][m] \in Survives(f)
    BY <1>1, <1>3, AfterPowerFails
  <2> QED  BY <2>1 DEF Kept, Survives
<1>4. CASE disk' = [disk EXCEPT !["real"] = [n \in Media |-> {file["real"][n]}]] /\ file' = file
  BY <1>1, <1>4 DEF Kept
<1>5. ASSUME NEW u \in Upload, file' = [file EXCEPT !["real"][u] = "full"],
             disk' = [disk EXCEPT !["real"][u] = @ \cup {"full"}]
      PROVE  Kept(m)'
  BY <1>1, <1>5 DEF Kept
<1>6. ASSUME NEW u \in Upload, u # m, file' = [file EXCEPT !["real"][u] = "none"],
             disk' = [disk EXCEPT !["real"][u] = @ \cup {"none"}]
      PROVE  Kept(m)'
  BY <1>1, <1>6 DEF Kept
<1> QED  BY <1>2, <1>3, <1>4, <1>5, <1>6, Writers

-----------------------------------------------------------------------------
(* The attempts. *)

\* Everything but the directories.
LEMMA TypeNext ==
    ASSUME VolumeInv, Next
    PROVE  TypeOK'
<1> USE DEF VolumeInv
<1>1. file' \in [Dir -> [Media -> File]] /\ disk' \in [Dir -> [Media -> SUBSET File]]
  BY TreeTyped
<1>2. ASSUME NEW w \in Worker, NEW p \in {"idle"} \cup Ingesting \cup Cleaning, Goto(w, p)
      PROVE  pc' \in [Worker -> {"idle"} \cup Ingesting \cup Cleaning]
  BY <1>2 DEF Goto, TypeOK
<1>3. {"check", "stat", "copy", "sync", "rename", "resync", "verify", "existing", "publish", "own",
       "sweep", "remove", "idle"} \subseteq {"idle"} \cup Ingesting \cup Cleaning
  BY DEF Ingesting, Cleaning
<1>4. ASSUME NEW w \in Worker, ~At(w, "idle") PROVE job[w] \in Upload  BY <1>4 DEF Attempt
<1>5. ASSUME NEW w \in Worker, NEW u \in Upload, Claim(w, u) PROVE TypeOK'
  <2>1. pc' \in [Worker -> {"idle"} \cup Ingesting \cup Cleaning]  BY <1>2, <1>3, <1>5 DEF Claim
  <2> QED  BY <1>1, <1>5, <2>1 DEF Claim, TypeOK, volume
<1>6. ASSUME NEW w \in Worker, Check(w) \/ Stat(w) \/ Verify(w) \/ Existing(w) PROVE TypeOK'
  <2>1. pc' \in [Worker -> {"idle"} \cup Ingesting \cup Cleaning]
    BY <1>2, <1>3, <1>6 DEF Check, Stat, Verify, Existing
  <2> QED  BY <1>1, <1>6, <2>1 DEF Check, Stat, Verify, Existing, TypeOK, queue, volume
<1>7. ASSUME NEW w \in Worker, Copy(w) \/ Sync(w) \/ Rename(w) \/ Resync(w) PROVE TypeOK'
  <2>1. pc' \in [Worker -> {"idle"} \cup Ingesting \cup Cleaning]
    BY <1>2, <1>3, <1>7 DEF Copy, Sync, Rename, Resync
  <2>2. tmp' \in [Worker -> {"none", "unsynced", "full"}]
    BY <1>7 DEF Copy, Sync, Rename, Resync, TypeOK
  <2> QED  BY <1>1, <1>7, <2>1, <2>2 DEF Copy, Sync, Rename, Resync, TypeOK, queue, volume
<1>8. ASSUME NEW w \in Worker, RemoveOwn(w) \/ Sweep(w) PROVE TypeOK'
  <2>1. pc' \in [Worker -> {"idle"} \cup Ingesting \cup Cleaning]
    BY <1>2, <1>3, <1>8 DEF RemoveOwn, Sweep
  <2>2. tmp' \in [Worker -> {"none", "unsynced", "full"}]
    BY <1>8 DEF RemoveOwn, Sweep, TypeOK
  <2> QED  BY <1>1, <1>8, <2>1, <2>2 DEF RemoveOwn, Sweep, TypeOK, queue, volume
<1>9. ASSUME NEW w \in Worker, Publish(w) PROVE TypeOK'
  <2>1. pc' \in [Worker -> {"idle"} \cup Ingesting \cup Cleaning]
    BY <1>2, <1>3, <1>9 DEF Publish
  <2>2. job[w] \in Upload  BY <1>4, <1>9 DEF Publish, At
  <2>3. rows' \in Seq(Media)  BY <1>9, <2>2 DEF Publish, TypeOK, Media
  <2> QED  BY <1>1, <1>9, <2>1, <2>2, <2>3 DEF Publish, TypeOK, volume
<1>10. ASSUME NEW w \in Worker, RemoveSource(w) PROVE TypeOK'
  <2>1. pc' \in [Worker -> {"idle"} \cup Ingesting \cup Cleaning]
    BY <1>2, <1>3, <1>10 DEF RemoveSource
  <2>2. status' \in [Upload -> {"pending", "processing", "cleanup", "complete"}]
    BY <1>10 DEF RemoveSource, TypeOK
  <2> QED  BY <1>1, <1>10, <2>1, <2>2 DEF RemoveSource, TypeOK, volume
<1>11. ASSUME NEW w \in Worker, Fail(w) PROVE TypeOK'
  <2>1. pc' \in [Worker -> {"idle"} \cup Ingesting \cup Cleaning]
    BY <1>2, <1>3, <1>11 DEF Fail, Release
  <2>2. /\ lease' \in [Upload -> Worker \cup {Null}]
        /\ status' \in [Upload -> {"pending", "processing", "cleanup", "complete"}]
    BY <1>11 DEF Fail, Release, TypeOK
  <2>3. /\ tmp' \in [Worker -> {"none", "unsynced", "full"}]
        /\ job' \in [Worker -> Upload \cup {Null}]
    BY <1>11 DEF Fail, Release, TypeOK
  <2> QED  BY <1>1, <1>11, <2>1, <2>2, <2>3 DEF Fail, TypeOK, volume
<1>12. ASSUME NEW u \in Upload, Lapse(u) PROVE TypeOK'
  BY <1>1, <1>12 DEF Lapse, TypeOK, volume
<1>13. ASSUME Reboots PROVE TypeOK'
  <2>1. status' \in [Upload -> {"pending", "processing", "cleanup", "complete"}]
    <3>1. \A u \in Upload : (IF status[u] = "processing" THEN "pending" ELSE status[u])
                             \in {"pending", "processing", "cleanup", "complete"}
      BY DEF TypeOK
    <3> QED  BY <1>13, <3>1 DEF Reboots
  <2>2. pc' \in [Worker -> {"idle"} \cup Ingesting \cup Cleaning]  BY <1>13 DEF Reboots
  <2>3. job' \in [Worker -> Upload \cup {Null}] /\ lease' \in [Upload -> Worker \cup {Null}]
        /\ tmp' \in [Worker -> {"none", "unsynced", "full"}]
    BY <1>13 DEF Reboots
  <2> QED  BY <1>1, <1>13, <2>1, <2>2, <2>3 DEF Reboots, TypeOK
<1> QED
  BY <1>5, <1>6, <1>7, <1>8, <1>9, <1>10, <1>11, <1>12, <1>13 DEF Next, Step, Restart, PowerFails

\* Rows are only added, Old stays the oldest one.
LEMMA RowsGrow ==
    ASSUME VolumeInv, Next
    PROVE  /\ Rows \subseteq Rows' /\ rows' # <<>> /\ rows'[1] = Old /\ content' = content
           /\ \/ rows' = rows
              \/ \E w \in Worker : /\ Publish(w) /\ job[w] \in Upload
                                   /\ Rows' = Rows \cup {job[w]}
<1> USE DEF VolumeInv
<1>1. ASSUME NEW w \in Worker, Publish(w), rows' # rows
      PROVE  /\ job[w] \in Upload /\ Rows' = Rows \cup {job[w]}
             /\ rows' # <<>> /\ rows'[1] = Old
  <2>1. job[w] \in Upload  BY <1>1 DEF Publish, Attempt, At
  <2>2. rows \in Seq(Media) /\ rows' = Append(rows, job[w])  BY <1>1 DEF Publish, TypeOK
  <2>3. /\ DOMAIN rows = 1 .. Len(rows) /\ DOMAIN rows' = 1 .. Len(rows) + 1
        /\ \A i \in 1 .. Len(rows) : rows'[i] = rows[i]
        /\ rows'[Len(rows) + 1] = job[w] /\ Len(rows) \in Nat
    BY <2>1, <2>2 DEF Media
  <2>4. Rows' = Rows \cup {job[w]}
    <3>1. Rows' \subseteq Rows \cup {job[w]}  BY <2>3 DEF Rows
    <3>2. Rows \cup {job[w]} \subseteq Rows'  BY <2>3 DEF Rows
    <3> QED  BY <3>1, <3>2
  <2>5. Len(rows) > 0  BY <2>2 DEF Published
  <2>6. rows' # <<>>  BY <2>2, <2>3
  <2> QED  BY <2>1, <2>3, <2>4, <2>5, <2>6 DEF Published
<1>2. rows' = rows => Rows \subseteq Rows' /\ rows' # <<>> /\ rows'[1] = Old
  BY DEF Rows, Published
<1>3. content' = content
  BY DEF Next, Step, Claim, Check, Stat, Copy, Sync, Rename, Resync, Verify, Existing, Publish,
         RemoveOwn, Sweep, RemoveSource, Fail, Lapse, Restart, PowerFails, Reboots
<1>4. rows' = rows \/ \E w \in Worker : Publish(w)
  BY DEF Next, Step, Claim, Check, Stat, Copy, Sync, Rename, Resync, Verify, Existing,
         RemoveOwn, Sweep, RemoveSource, Fail, Lapse, Restart, PowerFails, Reboots, queue
<1> QED  BY <1>1, <1>2, <1>3, <1>4

\* An upload that is published stays so.
LEMMA PublishedStays ==
    ASSUME VolumeInv, Next, NEW u \in Upload, status[u] \in {"cleanup", "complete"}
    PROVE  status'[u] \in {"cleanup", "complete"}
<1> USE DEF VolumeInv, TypeOK
<1>1. ASSUME NEW w \in Worker, NEW v \in Upload, Claim(w, v)
      PROVE  status'[u] \in {"cleanup", "complete"}
  BY <1>1 DEF Claim
<1>2. ASSUME NEW w \in Worker, Publish(w) \/ RemoveSource(w)
      PROVE  status'[u] \in {"cleanup", "complete"}
  BY <1>2 DEF Publish, RemoveSource
<1>3. ASSUME NEW w \in Worker, Fail(w)
      PROVE  status'[u] \in {"cleanup", "complete"}
  BY <1>3 DEF Fail, Release
<1>4. ASSUME Reboots PROVE status'[u] \in {"cleanup", "complete"}  BY <1>4 DEF Reboots
<1>5. ASSUME NEW w \in Worker, Check(w) \/ Stat(w) \/ Copy(w) \/ Sync(w) \/ Rename(w) \/ Resync(w)
                               \/ Verify(w) \/ Existing(w) \/ RemoveOwn(w) \/ Sweep(w)
      PROVE  status' = status
  BY <1>5 DEF Check, Stat, Copy, Sync, Rename, Resync, Verify, Existing, RemoveOwn, Sweep, queue
<1>6. ASSUME NEW v \in Upload, Lapse(v) PROVE status' = status  BY <1>6 DEF Lapse
<1> QED  BY <1>1, <1>2, <1>3, <1>4, <1>5, <1>6 DEF Next, Step, Restart, PowerFails

\* Another worker's step, or a lease that lapses, takes nothing of an
\* attempt's but its temporary and its lease.
LEMMA Bystander ==
    ASSUME VolumeInv, Next, ~Reboots, NEW w \in Worker,
           ~(\E u \in Upload : Claim(w, u)), ~Step(w)
    PROVE  /\ pc'[w] = pc[w] /\ job'[w] = job[w] /\ mounted' = mounted
           /\ tmp'[w] \in {tmp[w], "none"}
           /\ ~At(w, "idle") /\ Holds(w)' => Holds(w)
<1> USE DEF VolumeInv
<1>0. pc \in [Worker -> {"idle"} \cup Ingesting \cup Cleaning] /\ job \in [Worker -> Upload \cup {Null}]
      /\ tmp \in [Worker -> {"none", "unsynced", "full"}] /\ lease \in [Upload -> Worker \cup {Null}]
      /\ Null \notin Worker
  BY VolumeAssumption DEF TypeOK
<1>1. ~At(w, "idle") => job[w] \in Upload  BY DEF Attempt
<1>2. ASSUME NEW u \in Upload, Lapse(u)
      PROVE  UNCHANGED <<pc, job, tmp, mounted>> /\ \A v \in Upload : lease'[v] \in {lease[v], Null}
  BY <1>0, <1>2 DEF Lapse, volume
<1>3. ASSUME NEW v \in Worker \ {w}, NEW u \in Upload, Claim(v, u)
      PROVE  /\ pc'[w] = pc[w] /\ job'[w] = job[w] /\ mounted' = mounted /\ tmp' = tmp
             /\ \A x \in Upload : lease'[x] \in {lease[x], v}
  BY <1>0, <1>3 DEF Claim, Goto, volume
<1>4. ASSUME NEW v \in Worker \ {w}, Check(v) \/ Stat(v) \/ Verify(v) \/ Existing(v) \/ RemoveOwn(v)
      PROVE  pc'[w] = pc[w] /\ UNCHANGED <<job, mounted, tmp, lease>>
  BY <1>0, <1>4 DEF Check, Stat, Verify, Existing, RemoveOwn, Goto, queue, volume
<1>5. ASSUME NEW v \in Worker \ {w}, Copy(v) \/ Sync(v) \/ Rename(v) \/ Resync(v)
      PROVE  pc'[w] = pc[w] /\ tmp'[w] = tmp[w] /\ UNCHANGED <<job, mounted, lease>>
  BY <1>0, <1>5 DEF Copy, Sync, Rename, Resync, Goto, queue, volume
<1>6. ASSUME NEW v \in Worker \ {w}, Sweep(v)
      PROVE  pc'[w] = pc[w] /\ tmp'[w] \in {tmp[w], "none"} /\ UNCHANGED <<job, mounted, lease>>
  BY <1>0, <1>6 DEF Sweep, Goto, queue, volume
<1>7. ASSUME NEW v \in Worker \ {w}, Publish(v) \/ RemoveSource(v) \/ Fail(v)
      PROVE  /\ pc'[w] = pc[w] /\ job'[w] = job[w] /\ tmp'[w] = tmp[w] /\ mounted' = mounted
             /\ \A u \in Upload : lease'[u] \in {lease[u], Null}
  BY <1>0, <1>7 DEF Publish, RemoveSource, Fail, Release, Goto, volume
<1>8. /\ pc'[w] = pc[w] /\ job'[w] = job[w] /\ mounted' = mounted /\ tmp'[w] \in {tmp[w], "none"}
      /\ \A u \in Upload : lease'[u] = lease[u] \/ lease'[u] # w
  BY <1>0, <1>2, <1>3, <1>4, <1>5, <1>6, <1>7 DEF Next, Step, Restart, PowerFails
<1> QED  BY <1>1, <1>8 DEF Holds

\* Only the holder of the row removes its original, while it cleans up.
LEMMA HolderRemoves ==
    ASSUME VolumeInv, NEW w \in Worker, NEW v \in Worker, Holds(w), RemoveOwn(v), job[v] = job[w]
    PROVE  At(w, "own")
  BY DEF RemoveOwn, Holds

\* The health check does not pass without the volume.
LEMMA CheckSees ==
    ASSUME VolumeInv, NEW w \in Worker, Check(w)
    PROVE  mounted
<1>1. PICK i \in DOMAIN rows : file[View][rows[i]] # "none"
  BY DEF Check, VolumeInv, Published
<1>2. rows[i] \in Media  BY <1>1 DEF VolumeInv, TypeOK
<1> QED  BY <1>1, <1>2 DEF VolumeInv, Tree, View

\* What the old original holds changes only while the power fails.
LEMMA OldStays ==
    ASSUME VolumeInv, Next, ~PowerFails
    PROVE  file'["real"][Old] = file["real"][Old]
<1>1. file \in [Dir -> [Media -> File]] /\ "real" \in Dir /\ Old \in Media /\ Old \notin Upload
  BY VolumeAssumption DEF VolumeInv, TypeOK, Dir, Media
<1> QED  BY <1>1, Writers

\* What another worker's step leaves of an attempt.
LEMMA AttemptStays ==
    ASSUME VolumeInv, Next, ~Reboots, NEW w \in Worker,
           ~(\E u \in Upload : Claim(w, u)), ~Step(w)
    PROVE  Attempt(w)'
<1> USE DEF VolumeInv
<1>1. /\ pc'[w] = pc[w] /\ job'[w] = job[w] /\ mounted' = mounted
      /\ tmp'[w] \in {tmp[w], "none"}
      /\ ~At(w, "idle") /\ Holds(w)' => Holds(w)
  BY Bystander
<1>2. Attempt(w) /\ (~At(w, "idle") => job[w] \in Upload)  BY DEF Attempt
<1>3. ASSUME At(w, "resync"), Holds(w)' PROVE file'["real"][job[w]] = "full"
  <2>1. job[w] \in Upload /\ Holds(w) /\ file["real"][job[w]] = "full"
    BY <1>1, <1>2, <1>3 DEF Attempt, At
  <2>2. \A v \in Worker : RemoveOwn(v) => job[v] # job[w]  BY <1>3, <2>1, HolderRemoves DEF At
  <2>3. file \in [Dir -> [Media -> File]] /\ "real" \in Dir /\ job[w] \in Media
    BY <2>1 DEF TypeOK, Dir, Media
  <2>4. ~PowerFails  BY DEF PowerFails
  <2>5. CASE file' = file  BY <2>1, <2>5
  <2>6. ASSUME NEW v \in Worker, NEW f \in {"none", "full"}, f = "none" => job[v] # job[w],
               file' = [file EXCEPT !["real"][job[v]] = f]
        PROVE  file'["real"][job[w]] = "full"
    BY <2>1, <2>3, <2>6
  <2> QED  BY <2>2, <2>4, <2>5, <2>6, Writers
<1>4. ASSUME pc[w] \in {"verify", "existing", "publish"}, Holds(w)' PROVE Kept(job[w])'
  <2>1. job[w] \in Upload /\ Holds(w) /\ Kept(job[w])  BY <1>1, <1>2, <1>4 DEF Attempt, At
  <2>2. \A v \in Worker : RemoveOwn(v) => job[v] # job[w]  BY <1>4, <2>1, HolderRemoves DEF At
  <2>3. \A m \in Media : Kept(m) /\ (\A v \in Worker : RemoveOwn(v) => m \in Rows \/ job[v] # m)
                         => file'["real"][m] = "full" /\ disk'["real"][m] = {"full"}
    BY KeptStays DEF Kept
  <2> QED  BY <1>1, <2>1, <2>2, <2>3 DEF Kept, Media
<1>5. content' = content /\ file'["real"][Old] = file["real"][Old]
  BY RowsGrow, OldStays DEF PowerFails
<1>6. pc[w] \in Cleaning => status'[job[w]] \in {"cleanup", "complete"}
  BY <1>2, PublishedStays DEF Attempt, At, Cleaning
<1>7. ~At(w, "idle")' => job'[w] \in Upload  BY <1>1, <1>2 DEF At
<1>8. pc'[w] \notin {"idle", "check"} => mounted'  BY <1>1, <1>2 DEF Attempt
<1>9. tmp'[w] = "unsynced" => At(w, "sync")'  BY <1>1, <1>2 DEF Attempt, At
<1>10. At(w, "resync")' /\ Holds(w)' => file'["real"][job'[w]] = "full"  BY <1>1, <1>3 DEF At
<1>11. pc'[w] \in {"verify", "existing", "publish"} /\ Holds(w)' => Kept(job[w])'  BY <1>1, <1>4
<1>12. At(w, "publish")' /\ content'[Old] = content'[job'[w]] => file'["real"][Old] = "full"
  BY <1>1, <1>2, <1>5 DEF Attempt, At
<1>13. pc'[w] \in Cleaning => status'[job'[w]] \in {"cleanup", "complete"}  BY <1>1, <1>6
<1> QED  BY <1>7, <1>8, <1>9, <1>10, <1>11, <1>12, <1>13 DEF Attempt

\* An attempt's own step leaves what the next one needs.
LEMMA AttemptSteps ==
    ASSUME VolumeInv, Next, NEW w \in Worker, (\E u \in Upload : Claim(w, u)) \/ Step(w)
    PROVE  Attempt(w)'
<1> USE DEF VolumeInv
<1>0. /\ pc \in [Worker -> {"idle"} \cup Ingesting \cup Cleaning] /\ job \in [Worker -> Upload \cup {Null}]
      /\ tmp \in [Worker -> {"none", "unsynced", "full"}] /\ mounted \in BOOLEAN
      /\ file \in [Dir -> [Media -> File]] /\ "real" \in Dir /\ Upload \subseteq Media /\ Old \in Media
      /\ disk \in [Dir -> [Media -> SUBSET File]]
  BY DEF TypeOK, Dir, Media
<1>1. ASSUME NEW u \in Upload, Claim(w, u) PROVE Attempt(w)'
  BY <1>0, <1>1 DEF Claim, Goto, Attempt, At, Cleaning, volume
<1>2. CASE Check(w)
  <2>1. mounted  BY <1>2, CheckSees
  <2>2. job[w] \in Upload /\ (pc'[w] = "own" => status[job[w]] = "cleanup")
        /\ pc'[w] \in {"own", "stat"} /\ tmp[w] # "unsynced"
    BY <1>0, <1>2 DEF Check, Goto, Attempt, At
  <2> QED  BY <1>0, <1>2, <2>1, <2>2 DEF Check, Attempt, At, Cleaning, queue, volume
<1>3. CASE Stat(w)
  <2>1. View = "real" /\ job[w] \in Upload /\ mounted
    BY <1>3, SeesVolume DEF Stat, At, View
  <2>2. pc'[w] = "resync" => file["real"][job[w]] = "full"
    BY <1>0, <1>3, <2>1 DEF Stat, Goto, Found, Reads, Tree
  <2>3. pc'[w] \in {"resync", "copy"} /\ tmp[w] # "unsynced"
    BY <1>0, <1>3 DEF Stat, Goto, Attempt, At
  <2> QED  BY <1>0, <1>3, <2>1, <2>2, <2>3 DEF Stat, Attempt, At, Cleaning, queue, volume
<1>4. CASE Copy(w) \/ Sync(w)
  <2>1. job[w] \in Upload /\ mounted  BY <1>4 DEF Copy, Sync, Attempt, At
  <2>2. /\ pc'[w] \in {"sync", "rename"} /\ (tmp'[w] = "unsynced" => pc'[w] = "sync")
        /\ job' = job /\ mounted' = mounted
    BY <1>0, <1>4 DEF Copy, Sync, Goto, queue, volume
  <2> QED  BY <2>1, <2>2 DEF Attempt, At, Cleaning
<1>5. CASE Rename(w)
  <2>1. View = "real" /\ job[w] \in Upload /\ mounted
    BY <1>5, SeesVolume DEF Rename, At, View
  <2>2. tmp[w] = "full"  BY <1>0, <1>5 DEF Rename, Attempt, At
  <2>3. file'["real"][job[w]] = "full"  BY <1>0, <1>5, <2>1, <2>2 DEF Rename, Enter
  <2>4. pc'[w] = "resync" /\ tmp'[w] = "none" /\ job' = job /\ mounted' = mounted
    BY <1>0, <1>5 DEF Rename, Goto, queue, volume
  <2> QED  BY <2>1, <2>3, <2>4 DEF Attempt, At, Cleaning
<1>6. CASE Resync(w)
  <2>1. View = "real" /\ job[w] \in Upload /\ mounted
    BY <1>6, SeesVolume DEF Resync, At, View
  <2>2. /\ pc'[w] = "verify" /\ tmp'[w] # "unsynced" /\ file' = file
        /\ UNCHANGED <<job, mounted, lease>>
    BY <1>0, <1>6 DEF Resync, Goto, Attempt, At, queue
  <2>3. disk'["real"] = [m \in Media |-> {file["real"][m]}]
    BY <1>0, <1>6, <2>1 DEF Resync, SyncedDir
  <2>4. Holds(w) => file["real"][job[w]] = "full"  BY <1>6 DEF Resync, Attempt, At
  <2>5. Holds(w)' => file'["real"][job'[w]] = "full" /\ disk'["real"][job'[w]] = {"full"}
    BY <1>0, <2>1, <2>2, <2>3, <2>4 DEF Holds
  <2> QED  BY <2>1, <2>2, <2>5 DEF Attempt, At, Cleaning, Kept
<1>7. CASE Verify(w)
  <2>1. job[w] \in Upload /\ mounted /\ (Holds(w) => Kept(job[w])) /\ tmp[w] # "unsynced"
    BY <1>7 DEF Verify, Attempt, At
  <2>2. pc'[w] = "existing" /\ UNCHANGED <<job, mounted, lease, file, disk, tmp>>
    BY <1>0, <1>7 DEF Verify, Goto, queue, volume
  <2> QED  BY <2>1, <2>2 DEF Attempt, At, Cleaning, Kept, Holds
<1>8. CASE Existing(w)
  <2>1. job[w] \in Upload /\ mounted /\ (Holds(w) => Kept(job[w])) /\ tmp[w] # "unsynced"
    BY <1>8 DEF Existing, Attempt, At
  <2>2. pc'[w] = "publish" /\ UNCHANGED <<content, job, mounted, lease, file, disk, tmp>>
    BY <1>0, <1>8 DEF Existing, Goto, queue, volume
  <2>3. View = "real"  BY <1>8, SeesVolume DEF Existing, At
  <2>4. Old \in Rows
    <3>1. rows # <<>> /\ rows[1] = Old /\ rows \in Seq(Media)  BY DEF Published, TypeOK
    <3>2. 1 \in DOMAIN rows  BY <3>1
    <3> QED  BY <3>1, <3>2 DEF Rows
  <2>5. content[Old] = content[job[w]] => file["real"][Old] = "full"
    BY <1>0, <1>8, <2>3, <2>4 DEF Existing, Found, Reads, Tree
  <2> QED  BY <2>1, <2>2, <2>5 DEF Attempt, At, Cleaning, Kept, Holds
<1>9. CASE Publish(w) \/ RemoveSource(w)
  <2>1. pc'[w] = "idle" /\ tmp' = tmp /\ tmp[w] # "unsynced"
    BY <1>0, <1>9 DEF Publish, RemoveSource, Goto, Attempt, At
  <2> QED  BY <2>1 DEF Attempt, At, Cleaning
<1>10. CASE Fail(w)
  <2>1. pc'[w] = "idle" /\ tmp'[w] = "none"  BY <1>0, <1>10 DEF Fail, Release, Goto
  <2> QED  BY <2>1 DEF Attempt, At, Cleaning
<1>11. CASE RemoveOwn(w) \/ Sweep(w)
  <2>1. job[w] \in Upload /\ mounted /\ status[job[w]] \in {"cleanup", "complete"} /\ tmp[w] # "unsynced"
    BY <1>11 DEF RemoveOwn, Sweep, Attempt, At, Cleaning
  <2>2. /\ pc'[w] \in {"sweep", "remove"} /\ tmp'[w] \in {tmp[w], "none"}
        /\ UNCHANGED <<job, mounted, status>>
    BY <1>0, <1>11 DEF RemoveOwn, Sweep, Goto, queue, volume
  <2> QED  BY <2>1, <2>2 DEF Attempt, At, Cleaning
<1> QED
  BY <1>1, <1>2, <1>3, <1>4, <1>5, <1>6, <1>7, <1>8, <1>9, <1>10, <1>11 DEF Step

LEMMA AttemptNext ==
    ASSUME VolumeInv, Next, NEW w \in Worker
    PROVE  Attempt(w)'
<1>1. CASE Reboots
  <2>1. pc'[w] = "idle" /\ tmp'[w] = "none"  BY <1>1 DEF Reboots
  <2> QED  BY <2>1 DEF Attempt, At, Cleaning
<1> QED  BY <1>1, AttemptStays, AttemptSteps

-----------------------------------------------------------------------------
(* The rows and their originals. *)

\* No original of a row is removed.
LEMMA RowsKept ==
    ASSUME VolumeInv, Next, NEW m \in Rows, Kept(m)
    PROVE  file'["real"][m] = "full" /\ disk'["real"][m] = {"full"}
<1>1. m \in Media  BY DEF VolumeInv, TypeOK, Rows
<1> QED  BY <1>1, KeptStays DEF Kept

\* What is published is verified, durable and the upload's own.
LEMMA PublishedKept ==
    ASSUME VolumeInv, Next, NEW w \in Worker, Publish(w)
    PROVE  Kept(job[w]) /\ UNCHANGED <<file, disk>>
  BY DEF Publish, VolumeInv, Attempt, At, volume

LEMMA RowsBackedNext ==
    ASSUME VolumeInv, Next
    PROVE  RowsBacked'
<1> SUFFICES ASSUME NEW u \in Upload, u \in Rows'
             PROVE  file'["real"][u] = "full" /\ disk'["real"][u] = {"full"}
  BY DEF RowsBacked, Kept
<1>1. CASE u \in Rows  BY <1>1, RowsKept DEF VolumeInv, RowsBacked
<1>2. CASE u \notin Rows
  <2>1. PICK w \in Worker : Publish(w) /\ Rows' = Rows \cup {job[w]}
    BY <1>2, RowsGrow DEF Rows
  <2>2. u = job[w]  BY <1>2, <2>1
  <2> QED  BY <2>1, <2>2, PublishedKept DEF Kept
<1> QED  BY <1>1, <1>2

LEMMA PublishedNext ==
    ASSUME VolumeInv, Next
    PROVE  Published'
<1> USE DEF VolumeInv
<1>1. Rows \subseteq Rows' /\ rows' # <<>> /\ rows'[1] = Old /\ content' = content  BY RowsGrow
<1> SUFFICES ASSUME NEW u \in Upload, status'[u] \in {"cleanup", "complete"} \/ u \notin source'
             PROVE  \E m \in Rows' : content[m] = content[u] /\ Kept(m)'
  BY <1>1 DEF Published
<1>2. CASE status[u] \in {"cleanup", "complete"} \/ u \notin source
  <2>1. PICK m \in Rows : content[m] = content[u] /\ Kept(m)  BY <1>2 DEF Published
  <2>2. Kept(m)'  BY <2>1, RowsKept DEF Kept
  <2> QED  BY <1>1, <2>1, <2>2
<1>3. ASSUME NEW w \in Worker, Publish(w), job[w] = u
      PROVE  \E m \in Rows' : content[m] = content[u] /\ Kept(m)'
  <2>1. Kept(u) /\ UNCHANGED <<file, disk>>  BY <1>3, PublishedKept
  <2>2. CASE \E m \in Rows : content[m] = content[u]
    <3>1. PICK m \in Rows : content[m] = content[u]  BY <2>2
    <3>2. m \in Media  BY DEF TypeOK, Rows
    <3>3. CASE m \in Upload  BY <1>1, <2>1, <3>1, <3>3 DEF RowsBacked, Kept
    <3>4. CASE m = Old
      <4>1. file["real"][Old] = "full"  BY <1>3, <3>1, <3>4 DEF Attempt, Publish, At
      <4>2. disk["real"][Old] = {"full"}  BY <4>1 DEF Tree
      <4> QED  BY <1>1, <2>1, <3>1, <3>4, <4>1, <4>2 DEF Kept
    <3> QED  BY <3>2, <3>3, <3>4 DEF Media
  <2>3. CASE ~ \E m \in Rows : content[m] = content[u]
    <3>1. rows' = Append(rows, u) /\ rows \in Seq(Media) /\ u \in Media
      BY <1>3, <2>3 DEF Publish, TypeOK, Media
    <3>2. Len(rows) + 1 \in DOMAIN rows' /\ rows'[Len(rows) + 1] = u  BY <3>1
    <3>3. u \in Rows'  BY <3>2 DEF Rows
    <3> QED  BY <2>1, <3>3 DEF Kept
  <2> QED  BY <2>2, <2>3
<1>4. CASE status[u] \notin {"cleanup", "complete"} /\ u \in source
  <2>1. status \in [Upload -> {"pending", "processing", "cleanup", "complete"}]  BY DEF TypeOK
  <2>2. ASSUME NEW w \in Worker, RemoveSource(w) PROVE FALSE
    <3>1. status[job[w]] \in {"cleanup", "complete"} /\ job[w] \in Upload
      BY <2>2 DEF RemoveSource, Attempt, At, Cleaning
    <3> QED  BY <1>4, <2>1, <2>2, <3>1 DEF RemoveSource
  <2>3. ASSUME NEW w \in Worker, Publish(w), job[w] # u PROVE FALSE
    <3>1. job[w] \in Upload  BY <2>3 DEF Publish, Attempt, At
    <3> QED  BY <1>4, <2>1, <2>3, <3>1 DEF Publish
  <2>4. ASSUME NEW w \in Worker, NEW v \in Upload, Claim(w, v) PROVE FALSE
    BY <1>4, <2>1, <2>4 DEF Claim
  <2>5. ASSUME NEW w \in Worker, Fail(w) PROVE FALSE
    BY <1>4, <2>1, <2>5 DEF Fail, Release
  <2>6. ~Reboots  BY <1>4, <2>1 DEF Reboots
  <2>7. ASSUME NEW w \in Worker, Check(w) \/ Stat(w) \/ Copy(w) \/ Sync(w) \/ Rename(w) \/ Resync(w)
                                 \/ Verify(w) \/ Existing(w) \/ RemoveOwn(w) \/ Sweep(w)
        PROVE  FALSE
    BY <1>4, <2>7 DEF Check, Stat, Copy, Sync, Rename, Resync, Verify, Existing, RemoveOwn, Sweep, queue
  <2>8. ASSUME NEW v \in Upload, Lapse(v) PROVE FALSE  BY <1>4, <2>8 DEF Lapse
  <2>9. PICK w \in Worker : Publish(w) /\ job[w] = u
    BY <2>2, <2>3, <2>4, <2>5, <2>6, <2>7, <2>8 DEF Next, Step, Restart, PowerFails
  <2> QED  BY <1>3, <2>9
<1> QED  BY <1>2, <1>4

-----------------------------------------------------------------------------
(* The theorems. *)

LEMMA VolumeInit ==
    ASSUME Init
    PROVE  VolumeInv
<1>1. PICK f \in {"none", "short", "full"} :
        file = [d \in Dir |-> [m \in Media |-> IF d = "real" /\ m = Old THEN f ELSE "none"]]
  BY DEF Init
<1>2. "real" \in Dir /\ "bare" \in Dir /\ Old \in Media /\ Upload \subseteq Media /\ Old \notin Upload
  BY VolumeAssumption DEF Dir, Media
<1>3. disk = [d \in Dir |-> [m \in Media |-> {file[d][m]}]]  BY DEF Init
<1>4. file \in [Dir -> [Media -> File]]  BY <1>1 DEF File
<1>5. disk \in [Dir -> [Media -> SUBSET File]]
  <2>1. \A d \in Dir : [m \in Media |-> {file[d][m]}] \in [Media -> SUBSET File]
    <3>1. \A d \in Dir, m \in Media : {file[d][m]} \in SUBSET File  BY <1>4
    <3> QED  BY <3>1
  <2> QED  BY <1>3, <2>1
<1>6. rows = <<Old>> /\ rows \in Seq(Media)  BY <1>2 DEF Init
<1>7. TypeOK  BY <1>4, <1>5, <1>6 DEF Init, TypeOK, Ingesting, Cleaning
<1>8. Tree  BY <1>1, <1>2, <1>3 DEF Tree
<1>9. \A w \in Worker : Attempt(w)  BY DEF Init, Attempt, At, Cleaning
<1>10. Published  BY <1>6 DEF Init, Published
<1>11. RowsBacked
  <2>1. Rows = {Old}  BY <1>6 DEF Rows
  <2> QED  BY <1>2, <2>1 DEF RowsBacked
<1> QED  BY <1>7, <1>8, <1>9, <1>10, <1>11 DEF VolumeInv

LEMMA VolumeStep == VolumeInv /\ [Next]_vars => VolumeInv'
<1> SUFFICES ASSUME VolumeInv, [Next]_vars PROVE VolumeInv'
  OBVIOUS
<1>1. CASE Next
  <2>1. TypeOK' /\ Tree' /\ Published' /\ RowsBacked'
    BY <1>1, TypeNext, TreeNext, PublishedNext, RowsBackedNext
  <2>2. \A w \in Worker : Attempt(w)'  BY <1>1, AttemptNext
  <2> QED  BY <2>1, <2>2 DEF VolumeInv
<1>2. CASE UNCHANGED vars
  <2> USE <1>2 DEF vars, queue, volume, VolumeInv
  <2>1. TypeOK'  BY DEF TypeOK
  <2>2. Tree'  BY DEF Tree
  <2>3. \A w \in Worker : Attempt(w)'  BY DEF Attempt, At, Holds, Kept
  <2>4. Rows' = Rows  BY DEF Rows
  <2>5. RowsBacked'  BY <2>4 DEF RowsBacked, Kept
  <2>6. Published'  BY <2>4 DEF Published, Kept
  <2> QED  BY <2>1, <2>2, <2>3, <2>5, <2>6
<1> QED  BY <1>1, <1>2

\* The directories, the attempts and the rows agree at every step of the code,
\* whatever fails.
THEOREM VolumeCorrect == Spec => []VolumeInv
  BY VolumeInit, VolumeStep, PTL DEF Spec

\* No original is ever found short, by a reader or after a power failure:
\* PrepareOriginal renames only what it has synced.
THEOREM NoOriginalIsTruncated == Spec => []NeverTruncated
<1>1. VolumeInv => NeverTruncated
  <2> SUFFICES ASSUME VolumeInv, NEW d \in Dir, NEW u \in Upload PROVE file[d][u] # "short"
    BY DEF NeverTruncated
  <2>1. d = "real" \/ d = "bare"  BY DEF Dir
  <2> QED  BY <2>1 DEF VolumeInv, Tree, Media
<1> QED  BY <1>1, VolumeCorrect, PTL

\* PublishMedia commits a row only over an original that outlives the power.
THEOREM RowsAreBacked == Spec => []RowsBacked
<1>1. VolumeInv => RowsBacked  BY DEF VolumeInv
<1> QED  BY <1>1, VolumeCorrect, PTL

\* finishBySourceRemoval never removes the last copy of an upload.
THEOREM TheLastCopyIsKept == Spec => []RemovedIsKept
<1>1. VolumeInv => RemovedIsKept  BY DEF VolumeInv, Published, RemovedIsKept
<1> QED  BY <1>1, VolumeCorrect, PTL

=============================================================================
