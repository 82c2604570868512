----------------------------- MODULE MediaPurge -----------------------------
(***************************************************************************)
(* Permanent deletion of published media: httpapi/storage_cleanup.go and   *)
(* store/purge.go with the recoverable staging of media/purge.go, and the  *)
(* cleanup pass that settles the stages a crash left behind, beside        *)
(* further purges, the administrator's trash and uploads of the same bytes.*)
(*                                                                         *)
(* One call to the database or to the media volume is one step.  Purges    *)
(* are requested by the administrator or by the retention pass, which runs *)
(* the same code.  A thumbnail stands for both derived files.              *)
(***************************************************************************)
CONSTANTS
    Media,      \* ids of media items
    Purger,     \* concurrent permanent deletions
    Dir,        \* names of stage directories
    Janitor,    \* the storage cleanup pass
    Null

VARIABLES
    status,     \* of each media_items row, "none" before and "purged" after
    needed,     \* rows an unfinished upload job has resolved to
    live,       \* files at their live path: <<media, kind>>
    stage,      \* stage directories: media, manifest and files, or Null
    at,         \* what each purge and the cleanup pass is doing
    met         \* media whose stages two of them handled at once

rows == <<status, needed>>
disk == <<live, stage>>
vars == <<rows, disk, at, met>>

Agent == Purger \cup {Janitor}
Kind == {"original", "thumbnail"}
Handle == Dir \X Media
Stage == [media : Media, manifest : BOOLEAN, files : SUBSET Kind]

ASSUME PurgeAssumption == Janitor \notin Purger /\ Null \notin Handle \cup Stage

\* An agent: its next call, items to stage, stages it holds and has yet to
\* settle, the stage it is at, and the ids its transaction deleted.
Idle == [pc |-> "idle", todo |-> {}, mine |-> {}, cur |-> Null, deleted |-> {}]

Moving == {"moveOriginal", "moveThumbnail", "sync"}
Staging == {"stage", "commit"} \cup Moving
Restoring == {"restoreOriginal", "restoreThumbnail"}
Settling == {"restoreOriginal", "restoreThumbnail", "removeOriginal", "removeThumbnail",
             "removeManifest", "removeDir"}
AgentState ==
    [pc : {"idle", "stage", "commit", "settle", "look"} \cup Moving \cup Settling,
     todo : SUBSET Media, mine : SUBSET Handle,
     cur : Handle \cup {Null}, deleted : SUBSET Media]

TypeOK ==
    /\ status \in [Media -> {"none", "active", "trashed", "purged"}]
    /\ needed \subseteq Media /\ met \subseteq Media
    /\ live \subseteq Media \X Kind
    /\ stage \in [Dir -> Stage \cup {Null}]
    /\ at \in [Agent -> AgentState]

Init ==
    /\ status = [m \in Media |-> "none"]
    /\ needed = {} /\ met = {}
    /\ live = {} /\ stage = [d \in Dir |-> Null]
    /\ at = [a \in Agent |-> Idle]

HasRow(m) == status[m] \in {"active", "trashed"}

-----------------------------------------------------------------------------
(* Rows. *)

\* The files are in place before the row is.
InsertMedia(m) ==
    /\ status[m] = "none"
    /\ status' = [status EXCEPT ![m] = "active"]
    /\ live' = live \cup ({m} \X Kind)
    /\ UNCHANGED <<needed, stage, at, met>>

\* The administrator's delete and restore.
SetStatusBulk(ids, target) ==
    /\ status' = [m \in Media |-> IF m \in ids /\ HasRow(m) THEN target ELSE status[m]]
    /\ UNCHANGED <<needed, disk, at, met>>

\* An upload of the same bytes resolves to the row, and later finishes.
JobResolves(m) ==
    /\ HasRow(m) /\ m \notin needed
    /\ needed' = needed \cup {m}
    /\ UNCHANGED <<status, disk, at, met>>

JobFinishes(m) ==
    /\ m \in needed
    /\ needed' = needed \ {m}
    /\ UNCHANGED <<status, disk, at, met>>

-----------------------------------------------------------------------------
(* The agents' bookkeeping. *)

At(a, pc) == at[a].pc = pc
Cur(a) == at[a].cur[1]          \* the directory the agent is at
Item(a) == at[a].cur[2]         \* and the item of its manifest in memory
Goto(a, pc) == at' = [at EXCEPT ![a].pc = pc]
Loop(a) == IF a = Janitor THEN "look" ELSE "settle"

\* Done with this stage, for good or leaving it to a later cleanup pass.
NextStage(a) == at' = [at EXCEPT ![a].pc = Loop(a), ![a].mine = @ \ {at[a].cur},
                                 ![a].cur = Null]

Holds(a) == {h[2] : h \in at[a].mine}
Meets(a, items) == {m \in items : \E b \in Agent \ {a} : m \in Holds(b)}

Exists(d) == stage[d] # Null
Unused(d) == ~Exists(d) /\ \A a \in Agent, m \in Media : <<d, m>> \notin at[a].mine

-----------------------------------------------------------------------------
(* purgeMedia. *)

\* Every item must be in the trash, and the volume healthy; missing ids are
\* skipped.
PurgeMedia(p, ids) ==
    /\ At(p, "idle")
    /\ \A m \in ids : status[m] = "trashed"
    /\ at' = [at EXCEPT ![p].pc = "stage", ![p].todo = ids]
    /\ UNCHANGED <<rows, disk, met>>

\* StageForPurge makes a directory of its own with a synced manifest.
StageForPurge(p) ==
    /\ At(p, "stage")
    /\ \E m \in at[p].todo, d \in Dir :
         /\ Unused(d)
         /\ stage' = [stage EXCEPT ![d] = [media |-> m, manifest |-> TRUE, files |-> {}]]
         /\ at' = [at EXCEPT ![p].pc = "moveOriginal", ![p].todo = @ \ {m},
                             ![p].mine = @ \cup {<<d, m>>}, ![p].cur = <<d, m>>]
         /\ met' = met \cup Meets(p, {m})
    /\ UNCHANGED <<rows, live>>

\* Whatever was staged so far is to be restored.
Abort(p) == at' = [at EXCEPT ![p].pc = "settle", ![p].todo = {}, ![p].cur = Null]

\* moveIfExists: a file that is not there is fine, a directory that is gone is
\* noticed by the sync that follows.
Move(p, kind, next) ==
    /\ IF Exists(Cur(p))
       THEN LET file == <<Item(p), kind>> IN
            /\ live' = live \ {file}
            /\ stage' = [stage EXCEPT ![Cur(p)].files = @ \cup {k \in {kind} : file \in live}]
            /\ Goto(p, next)
       ELSE Abort(p) /\ UNCHANGED disk
    /\ UNCHANGED <<rows, met>>

MoveOriginal(p)  == At(p, "moveOriginal") /\ Move(p, "original", "moveThumbnail")
MoveThumbnail(p) == At(p, "moveThumbnail") /\ Move(p, "thumbnail", "sync")

Staged(p) ==
    /\ At(p, "sync")
    /\ IF Exists(Cur(p))
       THEN at' = [at EXCEPT ![p].cur = Null,
                             ![p].pc = IF at[p].todo = {} THEN "commit" ELSE "stage"]
       ELSE Abort(p)
    /\ UNCHANGED <<rows, disk, met>>

\* One transaction deletes the rows that are still in the trash and that no
\* unfinished job needs.
PurgeTrashed(p) ==
    /\ At(p, "commit")
    /\ LET deleted == {m \in Holds(p) : status[m] = "trashed" /\ m \notin needed} IN
       /\ status' = [m \in Media |-> IF m \in deleted THEN "purged" ELSE status[m]]
       /\ at' = [at EXCEPT ![p].pc = "settle", ![p].deleted = deleted]
    /\ UNCHANGED <<needed, disk, met>>

\* Finalize the stages of deleted rows, restore the others.
Settle(p) ==
    /\ At(p, "settle")
    /\ \/ /\ at[p].mine = {}
          /\ at' = [at EXCEPT ![p] = Idle]
       \/ \E h \in at[p].mine :
            at' = [at EXCEPT ![p].cur = h,
                             ![p].pc = IF h[2] \in at[p].deleted
                                       THEN "removeOriginal" ELSE "restoreOriginal"]
    /\ UNCHANGED <<rows, disk, met>>

-----------------------------------------------------------------------------
(* Restore and Finalize, of a purge and of the cleanup pass. *)

InStage(a, kind) == Exists(Cur(a)) /\ kind \in stage[Cur(a)].files

\* restoreIfExists refuses to overwrite.
Restore(a, kind, next) ==
    LET file == <<Item(a), kind>> IN
    /\ IF ~InStage(a, kind)
       THEN Goto(a, next) /\ UNCHANGED disk
       ELSE IF file \in live
       THEN NextStage(a) /\ UNCHANGED disk
       ELSE /\ live' = live \cup {file}
            /\ stage' = [stage EXCEPT ![Cur(a)].files = @ \ {kind}]
            /\ Goto(a, next)
    /\ UNCHANGED <<rows, met>>

Finalize(a, kind, next) ==
    /\ stage' = IF InStage(a, kind)
                THEN [stage EXCEPT ![Cur(a)].files = @ \ {kind}] ELSE stage
    /\ Goto(a, next)
    /\ UNCHANGED <<rows, live, met>>

\* Mutant: an upload's original is all there is to restore.
Mutant_RestoreOnlyOriginal(a) ==
    At(a, "restoreOriginal") /\ Restore(a, "original", "removeManifest")

RestoreOriginal(a)  == At(a, "restoreOriginal") /\ Restore(a, "original", "restoreThumbnail")
RestoreThumbnail(a) == At(a, "restoreThumbnail") /\ Restore(a, "thumbnail", "removeManifest")
RemoveOriginal(a)   == At(a, "removeOriginal") /\ Finalize(a, "original", "removeThumbnail")
RemoveThumbnail(a)  == At(a, "removeThumbnail") /\ Finalize(a, "thumbnail", "removeManifest")

\* The sync that follows fails if the directory is gone.
RemoveManifest(a) ==
    /\ At(a, "removeManifest")
    /\ IF Exists(Cur(a))
       THEN stage' = [stage EXCEPT ![Cur(a)].manifest = FALSE] /\ Goto(a, "removeDir")
       ELSE NextStage(a) /\ UNCHANGED stage
    /\ UNCHANGED <<rows, live, met>>

\* Mutant: the directory is removed with what it contains.
Mutant_RemoveAll(a) ==
    /\ At(a, "removeDir")
    /\ stage' = IF Exists(Cur(a)) THEN [stage EXCEPT ![Cur(a)] = Null] ELSE stage
    /\ NextStage(a)
    /\ UNCHANGED <<rows, live, met>>

\* A directory that is not empty stays.
RemoveDir(a) ==
    /\ At(a, "removeDir")
    /\ stage' = IF Exists(Cur(a)) /\ stage[Cur(a)].files = {}
                THEN [stage EXCEPT ![Cur(a)] = Null] ELSE stage
    /\ NextStage(a)
    /\ UNCHANGED <<rows, live, met>>

-----------------------------------------------------------------------------
(* reconcilePurgeStages. *)

\* LoadPurgeStages takes what has a manifest, and drops empty directories.
LoadPurgeStages ==
    /\ At(Janitor, "idle")
    /\ LET found == {h \in Handle : /\ Exists(h[1]) /\ stage[h[1]].media = h[2]
                                    /\ stage[h[1]].manifest} IN
       /\ at' = [at EXCEPT ![Janitor].pc = "look", ![Janitor].mine = found]
       /\ met' = met \cup Meets(Janitor, {h[2] : h \in found})
    /\ stage' = [d \in Dir |-> IF /\ Exists(d) /\ ~stage[d].manifest
                                  /\ stage[d].files = {}
                               THEN Null ELSE stage[d]]
    /\ UNCHANGED <<rows, live>>

\* Mutant: only what is still in the trash is restored.
Mutant_ReconcileTrash ==
    /\ At(Janitor, "look")
    /\ \/ /\ at[Janitor].mine = {}
          /\ at' = [at EXCEPT ![Janitor] = Idle]
       \/ \E h \in at[Janitor].mine :
            at' = [at EXCEPT ![Janitor].cur = h,
                             ![Janitor].pc = IF status[h[2]] = "trashed"
                                             THEN "restoreOriginal" ELSE "removeOriginal"]
    /\ UNCHANGED <<rows, disk, met>>

\* Mutant: every interrupted purge is undone.
Mutant_ReconcileRestores ==
    /\ At(Janitor, "look")
    /\ \/ /\ at[Janitor].mine = {}
          /\ at' = [at EXCEPT ![Janitor] = Idle]
       \/ \E h \in at[Janitor].mine :
            at' = [at EXCEPT ![Janitor].cur = h, ![Janitor].pc = "restoreOriginal"]
    /\ UNCHANGED <<rows, disk, met>>

\* Each stage is settled by whether its row exists; a failed lookup leaves it.
ReconcilePurgeStages ==
    /\ At(Janitor, "look")
    /\ \/ /\ at[Janitor].mine = {}
          /\ at' = [at EXCEPT ![Janitor] = Idle]
       \/ \E h \in at[Janitor].mine :
            at' = [at EXCEPT ![Janitor].cur = h,
                             ![Janitor].pc = IF HasRow(h[2])
                                             THEN "restoreOriginal" ELSE "removeOriginal"]
    /\ UNCHANGED <<rows, disk, met>>

-----------------------------------------------------------------------------
(* Failures. *)

\* A call fails.  Before the commit the purge restores what it has staged;
\* afterwards the stage is left for a later pass.
Fault(a) ==
    /\ \/ at[a].pc \in Staging /\ Abort(a)
       \/ at[a].pc \in Settling /\ NextStage(a)
    /\ UNCHANGED <<rows, disk, met>>

\* The process dies; every directory stays as it is.
Restart ==
    /\ \E a \in Agent : at[a] # Idle
    /\ at' = [a \in Agent |-> Idle]
    /\ UNCHANGED <<rows, disk, met>>

-----------------------------------------------------------------------------
PurgeStep(p) ==
    \/ StageForPurge(p) \/ MoveOriginal(p) \/ MoveThumbnail(p) \/ Staged(p)
    \/ PurgeTrashed(p) \/ Settle(p)

FileStep(a) ==
    \/ RestoreOriginal(a) \/ RestoreThumbnail(a) \/ RemoveOriginal(a) \/ RemoveThumbnail(a)
    \/ RemoveManifest(a) \/ RemoveDir(a)

JanitorStep == LoadPurgeStages \/ ReconcilePurgeStages \/ FileStep(Janitor)

\* What happens when nothing goes wrong and no new purge begins.
CalmNext ==
    \/ \E m \in Media : InsertMedia(m) \/ JobResolves(m) \/ JobFinishes(m)
    \/ \E ids \in SUBSET Media \ {{}} :
         \E target \in {"active", "trashed"} : SetStatusBulk(ids, target)
    \/ \E p \in Purger : PurgeStep(p) \/ FileStep(p)
    \/ JanitorStep

Next ==
    \/ CalmNext
    \/ \E p \in Purger, ids \in SUBSET Media \ {{}} : PurgeMedia(p, ids)
    \/ \E a \in Agent : Fault(a)
    \/ Restart

Spec == Init /\ [][Next]_vars

\* A purge once begun goes on, the cleanup pass comes round again; failures,
\* restarts and new purges do not recur for ever.
Fairness ==
    /\ \A p \in Purger : WF_vars(PurgeStep(p) \/ FileStep(p))
    /\ WF_vars(JanitorStep)

FairSpec == Spec /\ Fairness /\ <>[][CalmNext]_vars

-----------------------------------------------------------------------------
(* Properties. *)

\* No original is destroyed while its row exists, whatever purges, cleanup
\* pass, failures and restarts do with its stages.
OriginalKept ==
    \A m \in Media : HasRow(m) =>
        \/ <<m, "original">> \in live
        \/ \E d \in Dir : Exists(d) /\ stage[d].media = m /\ "original" \in stage[d].files

\* PurgeStage: if the row is gone, its files are removed for good.  Once
\* nobody handles a stage of it and none is left, nothing is.
Untouched(m) ==
    /\ \A a \in Agent : m \notin Holds(a)
    /\ \A d \in Dir : Exists(d) => stage[d].media # m
PurgedGone ==
    \A m \in Media : status[m] = "purged" /\ Untouched(m) => \A k \in Kind : <<m, k>> \notin live

\* The same, for items whose stages were handled by one agent at a time.
PurgedGoneAlone ==
    \A m \in Media \ met :
        status[m] = "purged" /\ Untouched(m) => \A k \in Kind : <<m, k>> \notin live

\* The files of a row that survived its purge come back to their live paths,
\* also after a crash in the middle of staging or of restoring.
FilesReturn ==
    \A m \in Media :
        HasRow(m) ~> \/ \A k \in Kind : <<m, k>> \in live
                     \/ status[m] = "purged" \/ m \in met

-----------------------------------------------------------------------------
(* The inductive invariant behind OriginalKept and PurgedGoneAlone. *)

\* What an agent holds are stages, if they still exist, of known media; it is
\* at one of them whenever its next call concerns one.
Owned ==
    \A a \in Agent :
        /\ \A m \in at[a].todo : status[m] # "none"
        /\ \A h \in at[a].mine :
             /\ status[h[2]] # "none"
             /\ Exists(h[1]) => stage[h[1]].media = h[2]
        /\ at[a].cur # Null => at[a].cur \in at[a].mine
        /\ at[a].pc \in Moving \cup Settling => at[a].cur # Null
        /\ at[a].pc = "idle" => at[a] = Idle

Known == \A d \in Dir : Exists(d) => status[stage[d].media] # "none"

\* Only the stages of rows that are gone are being finalized.
Gone ==
    \A a \in Agent :
        /\ \A m \in at[a].deleted : status[m] = "purged"
        /\ at[a].pc = "removeOriginal" => status[Item(a)] = "purged"

\* What keeps the originals of rows.
KeptInv == TypeOK /\ Owned /\ Known /\ Gone /\ OriginalKept

\* An item is handled by one agent at a time until two of them have met.
OneHolder ==
    \A m \in Media \ met, a, b \in Agent : m \in Holds(a) /\ m \in Holds(b) => a = b

\* Only purges stage, they have deleted nothing until they commit, and do not
\* restore what they deleted.
Roles ==
    /\ at[Janitor].pc \notin Staging \cup {"settle"}
    /\ \A p \in Purger :
         /\ at[p].pc # "look"
         /\ at[p].pc \in Staging => at[p].deleted = {}
         /\ at[p].pc \in Restoring => Item(p) \notin at[p].deleted

\* A purge that may still commit has moved every file of its items away, but
\* those of the stage it is at.
MovedBy(p) ==
    \A h \in at[p].mine, k \in Kind : h[2] \notin met /\ <<h[2], k>> \in live =>
        /\ h = at[p].cur
        /\ \/ at[p].pc = "moveOriginal"
           \/ at[p].pc = "moveThumbnail" /\ k = "thumbnail"
MovedAway == \A p \in Purger : at[p].pc \in Staging => MovedBy(p)

\* Of a purged item no file is at its live path, the cleanup pass restores
\* none, and a purge that did not delete it staged none.
NothingReturns ==
    \A m \in Media \ met : status[m] = "purged" =>
        /\ \A k \in Kind : <<m, k>> \notin live
        /\ at[Janitor].pc \in Restoring => Item(Janitor) # m
        /\ \A p \in Purger : \A h \in at[p].mine :
             h[2] = m /\ m \notin at[p].deleted /\ Exists(h[1]) => stage[h[1]].files = {}

\* What keeps purged files away, where agents handle an item one at a time.
AloneInv == OneHolder /\ Roles /\ MovedAway /\ NothingReturns

\* Everything the purges, the cleanup pass and the rows agree on.
PurgeInv == KeptInv /\ AloneInv
=============================================================================
