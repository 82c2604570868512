-------------------------- MODULE MediaPurgeProofs --------------------------
(***************************************************************************)
(* Proofs about MediaPurge, for any media, purges and stage directories.   *)
(***************************************************************************)
EXTENDS MediaPurge, TLAPS

-----------------------------------------------------------------------------
(* Types. *)

\* A handle names a directory and an item.
LEMMA HandleParts == \A h \in Handle : h[1] \in Dir /\ h[2] \in Media /\ h = <<h[1], h[2]>>
BY DEF Handle

\* An agent at a stage is at a directory, with an item.
LEMMA AtStage ==
    ASSUME TypeOK, NEW a \in Agent, at[a].cur # Null
    PROVE  at[a].cur \in Handle /\ Cur(a) \in Dir /\ Item(a) \in Media
<1>1. at[a].cur \in Handle  BY DEF TypeOK, AgentState
<1> QED  BY <1>1, HandleParts DEF Cur, Item

\* The two ways an agent moves on keep its type.
LEMMA MoveTypes ==
    ASSUME TypeOK, NEW a \in Agent
    PROVE  /\ NextStage(a) => at' \in [Agent -> AgentState]
           /\ Abort(a) => at' \in [Agent -> AgentState]
           /\ \A pc \in {"idle", "stage", "commit", "settle", "look"} \cup Moving \cup Settling :
                Goto(a, pc) => at' \in [Agent -> AgentState]
<1>0. at[a] \in AgentState  BY DEF TypeOK
<1>1. Loop(a) \in {"settle", "look"}  BY DEF Loop
<1>2. NextStage(a) => at' \in [Agent -> AgentState]
  <2> SUFFICES ASSUME NextStage(a) PROVE at' \in [Agent -> AgentState]  OBVIOUS
  <2> DEFINE new == [at[a] EXCEPT !.pc = Loop(a), !.mine = @ \ {at[a].cur}, !.cur = Null]
  <2>1. new \in AgentState  BY <1>0, <1>1 DEF AgentState
  <2>2. at' = [at EXCEPT ![a] = new]  BY DEF NextStage
  <2> QED  BY <2>1, <2>2 DEF TypeOK
<1>3. Abort(a) => at' \in [Agent -> AgentState]
  <2> SUFFICES ASSUME Abort(a) PROVE at' \in [Agent -> AgentState]  OBVIOUS
  <2> DEFINE new == [at[a] EXCEPT !.pc = "settle", !.todo = {}, !.cur = Null]
  <2>1. new \in AgentState  BY <1>0 DEF AgentState
  <2>2. at' = [at EXCEPT ![a] = new]  BY DEF Abort
  <2> QED  BY <2>1, <2>2 DEF TypeOK
<1>4. \A pc \in {"idle", "stage", "commit", "settle", "look"} \cup Moving \cup Settling :
        Goto(a, pc) => at' \in [Agent -> AgentState]
  BY DEF Goto, TypeOK, AgentState
<1> QED  BY <1>2, <1>3, <1>4

\* What the file calls do to a stage keeps its type.
LEMMA StageTypes ==
    ASSUME TypeOK, NEW d \in Dir, Exists(d)
    PROVE  /\ \A F \in SUBSET Kind :
                [stage EXCEPT ![d].files = F] \in [Dir -> Stage \cup {Null}]
           /\ \A b \in BOOLEAN :
                [stage EXCEPT ![d].manifest = b] \in [Dir -> Stage \cup {Null}]
<1>1. stage[d] \in Stage  BY DEF TypeOK, Exists
<1>2. /\ \A F \in SUBSET Kind : [stage[d] EXCEPT !.files = F] \in Stage
      /\ \A b \in BOOLEAN : [stage[d] EXCEPT !.manifest = b] \in Stage
  BY <1>1 DEF Stage
<1> QED  BY <1>2 DEF TypeOK

-----------------------------------------------------------------------------
(* What most steps leave alone. *)

\* No stage appears, and none changes its item.
StagesKept == \A d \in Dir : stage'[d] # Null => stage[d] # Null /\ stage'[d].media = stage[d].media

\* No row disappears without a trace, and none comes back.
RowsKept ==
    \A m \in Media : /\ status[m] # "none" => status'[m] # "none"
                     /\ status[m] = "purged" => status'[m] = "purged"

\* A step of one agent that takes up nothing new keeps what is owned.
LEMMA OwnedKept ==
    ASSUME TypeOK, Owned, StagesKept, RowsKept, NEW a \in Agent,
           \A b \in Agent \ {a} : at'[b] = at[b],
           at'[a].todo \subseteq at[a].todo,
           at'[a].mine \subseteq at[a].mine,
           at'[a].cur # Null => at'[a].cur \in at'[a].mine,
           at'[a].pc \in Moving \cup Settling => at'[a].cur # Null,
           at'[a].pc = "idle" => at'[a] = Idle
    PROVE  Owned'
<1> SUFFICES ASSUME NEW b \in Agent
             PROVE  /\ \A m \in at'[b].todo : status'[m] # "none"
                    /\ \A h \in at'[b].mine :
                         /\ status'[h[2]] # "none"
                         /\ stage'[h[1]] # Null => stage'[h[1]].media = h[2]
                    /\ at'[b].cur # Null => at'[b].cur \in at'[b].mine
                    /\ at'[b].pc \in Moving \cup Settling => at'[b].cur # Null
                    /\ at'[b].pc = "idle" => at'[b] = Idle
  BY DEF Owned, Exists
<1>1. at'[b].todo \subseteq at[b].todo /\ at'[b].mine \subseteq at[b].mine
  BY DEF Owned
<1>2. at[b].todo \subseteq Media /\ at[b].mine \subseteq Handle
  BY DEF TypeOK, AgentState
<1>3. \A m \in at'[b].todo : status'[m] # "none"
  BY <1>1, <1>2 DEF Owned, RowsKept
<1>4. \A h \in at'[b].mine :
        /\ status'[h[2]] # "none"
        /\ stage'[h[1]] # Null => stage'[h[1]].media = h[2]
  BY <1>1, <1>2, HandleParts DEF Owned, RowsKept, StagesKept, Exists
<1>5. CASE b = a  BY <1>3, <1>4, <1>5
<1>6. CASE b # a
  <2>1. at'[b] = at[b]  BY <1>6
  <2> QED  BY <1>3, <1>4, <2>1 DEF Owned
<1> QED  BY <1>5, <1>6

\* A step that adds no stage keeps the stages known.
LEMMA KnownKept ==
    ASSUME TypeOK, Known, StagesKept, RowsKept
    PROVE  Known'
<1> SUFFICES ASSUME NEW d \in Dir, stage'[d] # Null
             PROVE  status'[stage'[d].media] # "none"
  BY DEF Known, Exists
<1>1. stage[d] # Null /\ stage'[d].media = stage[d].media  BY DEF StagesKept
<1>2. stage[d].media \in Media  BY <1>1 DEF TypeOK, Stage
<1> QED  BY <1>1, <1>2 DEF Known, Exists, RowsKept

\* A step of one agent that begins no removal and deletes no row.
LEMMA GoneKept ==
    ASSUME TypeOK, Owned, Gone, RowsKept, NEW a \in Agent,
           \A b \in Agent \ {a} : at'[b] = at[b],
           at'[a].deleted \subseteq at[a].deleted,
           at'[a].pc = "removeOriginal" => status'[at'[a].cur[2]] = "purged"
    PROVE  Gone'
<1> SUFFICES ASSUME NEW b \in Agent
             PROVE  /\ \A m \in at'[b].deleted : status'[m] = "purged"
                    /\ at'[b].pc = "removeOriginal" => status'[at'[b].cur[2]] = "purged"
  BY DEF Gone, Item
<1>1. at[b].deleted \subseteq Media  BY DEF TypeOK, AgentState
<1>2. CASE b = a  BY <1>1, <1>2 DEF Gone, RowsKept
<1>3. CASE b # a
  <2>1. at'[b] = at[b]  BY <1>3
  <2>2. at[b].pc = "removeOriginal" => Item(b) \in Media
    BY AtStage DEF Owned, Settling
  <2> QED  BY <1>1, <2>1, <2>2 DEF Gone, RowsKept, Item
<1> QED  BY <1>2, <1>3

\* A step that touches neither rows nor files.
LEMMA DiskKept ==
    ASSUME OriginalKept, UNCHANGED <<rows, disk>>
    PROVE  OriginalKept' /\ StagesKept /\ RowsKept
BY DEF OriginalKept, HasRow, Exists, StagesKept, RowsKept, rows, disk

-----------------------------------------------------------------------------
(* The ways an agent moves on. *)

\* What moving on changes.
LEMMA MoveEffects ==
    ASSUME TypeOK, NEW a \in Agent
    PROVE  /\ NextStage(a) => /\ \A b \in Agent \ {a} : at'[b] = at[b]
                              /\ at'[a].pc = Loop(a) /\ at'[a].cur = Null
                              /\ at'[a].todo = at[a].todo
                              /\ at'[a].mine = at[a].mine \ {at[a].cur}
                              /\ at'[a].deleted = at[a].deleted
           /\ Abort(a) => /\ \A b \in Agent \ {a} : at'[b] = at[b]
                          /\ at'[a].pc = "settle" /\ at'[a].cur = Null
                          /\ at'[a].todo = {} /\ at'[a].mine = at[a].mine
                          /\ at'[a].deleted = at[a].deleted
           /\ \A pc : Goto(a, pc) =>
                /\ \A b \in Agent \ {a} : at'[b] = at[b]
                /\ at'[a].pc = pc /\ at'[a].cur = at[a].cur
                /\ at'[a].todo = at[a].todo /\ at'[a].mine = at[a].mine
                /\ at'[a].deleted = at[a].deleted
BY DEF NextStage, Abort, Goto, TypeOK, AgentState

\* Moving on keeps what the agents know, whatever it does to files.
LEMMA MoveKeeps ==
    ASSUME TypeOK, Owned, Known, Gone, StagesKept, RowsKept, NEW a \in Agent,
           \/ NextStage(a) \/ Abort(a)
           \/ /\ at[a].cur # Null
              /\ \E pc \in (Moving \cup Settling) \ {"removeOriginal"} : Goto(a, pc)
    PROVE  Owned' /\ Known' /\ Gone' /\ at' \in [Agent -> AgentState]
<1>1. Known'  BY KnownKept
<1>2. CASE NextStage(a)
  <2>1. Loop(a) \in {"settle", "look"}  BY DEF Loop
  <2>2. Owned'  BY <1>2, <2>1, MoveEffects, OwnedKept DEF Moving, Settling
  <2>3. Gone'  BY <1>2, <2>1, MoveEffects, GoneKept
  <2> QED  BY <1>1, <1>2, <2>2, <2>3, MoveTypes
<1>3. CASE Abort(a)
  <2>1. Owned'  BY <1>3, MoveEffects, OwnedKept DEF Moving, Settling
  <2>2. Gone'  BY <1>3, MoveEffects, GoneKept
  <2> QED  BY <1>1, <1>3, <2>1, <2>2, MoveTypes
<1>4. ASSUME at[a].cur # Null,
             NEW pc \in (Moving \cup Settling) \ {"removeOriginal"}, Goto(a, pc)
      PROVE  Owned' /\ Gone' /\ at' \in [Agent -> AgentState]
  <2>1. at[a].cur \in at[a].mine  BY <1>4 DEF Owned
  <2>2. pc # "idle"  BY DEF Moving, Settling
  <2>3. Owned'  BY <1>4, <2>1, <2>2, MoveEffects, OwnedKept
  <2>4. Gone'  BY <1>4, MoveEffects, GoneKept
  <2> QED  BY <1>4, <2>3, <2>4, MoveTypes
<1> QED  BY <1>1, <1>2, <1>3, <1>4

-----------------------------------------------------------------------------
(* Steps of the rows. *)

\* Rows come, change status and are needed; what purges know stays true.
LEMMA RowSteps ==
    ASSUME KeptInv,
           \/ \E m \in Media : InsertMedia(m) \/ JobResolves(m) \/ JobFinishes(m)
           \/ \E ids \in SUBSET Media \ {{}}, target \in {"active", "trashed"} :
                SetStatusBulk(ids, target)
    PROVE  KeptInv'
<1> USE DEF KeptInv
<1>0. Janitor \in Agent  BY DEF Agent
<1>1. ASSUME RowsKept, UNCHANGED <<stage, at>>
      PROVE  Owned' /\ Known' /\ Gone'
  <2>1. StagesKept  BY <1>1 DEF StagesKept
  <2>2. Owned'  BY <1>0, <1>1, <2>1, OwnedKept DEF Owned
  <2>3. Gone'
    <3>1. at[Janitor].pc = "removeOriginal" => Item(Janitor) \in Media
      BY <1>0, AtStage DEF Owned, Settling
    <3> QED  BY <1>0, <1>1, <3>1, GoneKept DEF Gone, RowsKept, Item
  <2> QED  BY <1>1, <2>1, <2>2, <2>3, KnownKept
<1>2. ASSUME NEW m \in Media, InsertMedia(m)  PROVE KeptInv'
  <2>1. RowsKept  BY <1>2 DEF InsertMedia, RowsKept, TypeOK
  <2>2. TypeOK'  BY <1>2 DEF InsertMedia, TypeOK
  <2>3. OriginalKept'
    BY <1>2 DEF InsertMedia, OriginalKept, HasRow, TypeOK, Kind, Exists
  <2> QED  BY <1>1, <1>2, <2>1, <2>2, <2>3 DEF InsertMedia
<1>3. ASSUME NEW m \in Media, JobResolves(m) \/ JobFinishes(m)  PROVE KeptInv'
  <2>1. RowsKept  BY <1>3 DEF JobResolves, JobFinishes, RowsKept
  <2>2. TypeOK'  BY <1>3 DEF JobResolves, JobFinishes, TypeOK, disk
  <2>3. OriginalKept'
    BY <1>3 DEF JobResolves, JobFinishes, OriginalKept, HasRow, Exists, disk
  <2> QED  BY <1>1, <1>3, <2>1, <2>2, <2>3 DEF JobResolves, JobFinishes, disk
<1>4. ASSUME NEW ids \in SUBSET Media, NEW target \in {"active", "trashed"},
             SetStatusBulk(ids, target)
      PROVE  KeptInv'
  <2>1. RowsKept  BY <1>4 DEF SetStatusBulk, RowsKept, HasRow, TypeOK
  <2>2. TypeOK'  BY <1>4 DEF SetStatusBulk, TypeOK, disk
  <2>3. OriginalKept'
    BY <1>4 DEF SetStatusBulk, OriginalKept, HasRow, Exists, disk, TypeOK
  <2> QED  BY <1>1, <1>4, <2>1, <2>2, <2>3 DEF SetStatusBulk, disk
<1> QED  BY <1>2, <1>3, <1>4

-----------------------------------------------------------------------------
(* Files are restored and finalized. *)

\* Taking a file out of a stage, or its manifest, keeps the stages' items.
LEMMA StageEdits ==
    ASSUME TypeOK, NEW d \in Dir, Exists(d), NEW F, NEW b
    PROVE  /\ stage' = [stage EXCEPT ![d].files = F] =>
                /\ StagesKept
                /\ \A e \in Dir \ {d} : stage'[e] = stage[e]
                /\ stage'[d].media = stage[d].media /\ stage'[d].files = F
                /\ F \in SUBSET Kind => stage'[d] \in Stage /\ stage'[d] # Null
           /\ stage' = [stage EXCEPT ![d].manifest = b] =>
                /\ StagesKept
                /\ \A e \in Dir \ {d} : stage'[e] = stage[e]
                /\ stage'[d].media = stage[d].media /\ stage'[d].files = stage[d].files
                /\ b \in BOOLEAN => stage'[d] \in Stage /\ stage'[d] # Null
<1>1. stage[d] \in Stage /\ stage[d] # Null  BY DEF TypeOK, Exists
<1>2. Null \notin Stage  BY PurgeAssumption
<1> QED  BY <1>1, <1>2 DEF TypeOK, StagesKept, Stage

\* A file restored leaves its stage for its live path.
LEMMA RestoreStep ==
    ASSUME KeptInv, NEW a \in Agent, at[a].cur # Null,
           NEW kind \in Kind, NEW next \in Settling \ {"removeOriginal"},
           Restore(a, kind, next)
    PROVE  KeptInv'
<1> USE DEF KeptInv
<1>1. Cur(a) \in Dir /\ Item(a) \in Media  BY AtStage
<1>2. RowsKept  BY DEF Restore, RowsKept, rows
<1>3. CASE UNCHANGED disk /\ (NextStage(a) \/ Goto(a, next))
  <2>1. OriginalKept' /\ StagesKept  BY <1>3, DiskKept DEF Restore, rows
  <2>2. Owned' /\ Known' /\ Gone' /\ at' \in [Agent -> AgentState]
    BY <1>2, <1>3, <2>1, MoveKeeps
  <2> QED  BY <1>3, <2>1, <2>2 DEF Restore, TypeOK, rows, disk
<1>4. CASE /\ InStage(a, kind)
           /\ live' = live \cup {<<Item(a), kind>>}
           /\ stage' = [stage EXCEPT ![Cur(a)].files = @ \ {kind}]
           /\ Goto(a, next)
  <2>1. Exists(Cur(a)) /\ stage[Cur(a)].files \in SUBSET Kind
    BY <1>1, <1>4 DEF InStage, TypeOK, Exists, Stage
  <2>2. stage' = [stage EXCEPT ![Cur(a)].files = stage[Cur(a)].files \ {kind}]
    BY <1>4
  <2>3. stage[Cur(a)].files \ {kind} \in SUBSET Kind  BY <2>1
  <2>4. /\ StagesKept /\ stage'[Cur(a)].media = stage[Cur(a)].media
        /\ stage'[Cur(a)].files = stage[Cur(a)].files \ {kind}
        /\ stage'[Cur(a)] # Null
        /\ \A e \in Dir \ {Cur(a)} : stage'[e] = stage[e]
    BY <1>1, <2>1, <2>2, <2>3, StageEdits
  <2>5. Owned' /\ Known' /\ Gone' /\ at' \in [Agent -> AgentState]
    BY <1>2, <1>4, <2>4, MoveKeeps
  <2>6. TypeOK'
    <3>1. stage' \in [Dir -> Stage \cup {Null}]
      BY <1>1, <2>1, <2>2, <2>3, StageTypes
    <3>2. live' \subseteq Media \X Kind  BY <1>1, <1>4 DEF TypeOK
    <3> QED  BY <2>5, <3>1, <3>2 DEF Restore, TypeOK, rows
  <2>7. OriginalKept'
    <3> SUFFICES ASSUME NEW m \in Media, HasRow(m)'
                 PROVE  \/ <<m, "original">> \in live'
                        \/ \E d \in Dir : /\ stage'[d] # Null /\ stage'[d].media = m
                                          /\ "original" \in stage'[d].files
      BY DEF OriginalKept, Exists
    <3>1. HasRow(m)  BY DEF Restore, HasRow, rows
    <3>2. stage[Cur(a)].media = Item(a)  BY <2>1 DEF Owned, Cur, Item
    <3>3. CASE <<m, "original">> \in live  BY <1>4, <3>3
    <3>4. CASE \E d \in Dir : /\ Exists(d) /\ stage[d].media = m
                              /\ "original" \in stage[d].files
      <4>1. PICK d \in Dir : /\ Exists(d) /\ stage[d].media = m
                             /\ "original" \in stage[d].files
        BY <3>4
      <4>2. CASE d # Cur(a)  BY <2>4, <4>1, <4>2 DEF Exists
      <4>3. CASE d = Cur(a)
        <5>1. CASE kind = "original"  BY <1>4, <3>2, <4>1, <4>3, <5>1
        <5>2. CASE kind # "original"  BY <2>4, <4>1, <4>3, <5>2
        <5> QED  BY <5>1, <5>2
      <4> QED  BY <4>2, <4>3
    <3> QED  BY <3>1, <3>3, <3>4 DEF OriginalKept
  <2> QED  BY <2>5, <2>6, <2>7
<1> QED  BY <1>3, <1>4 DEF Restore

\* An original is unlinked only after its row is gone for good.
LEMMA FinalizeStep ==
    ASSUME KeptInv, NEW a \in Agent, at[a].cur # Null,
           NEW kind \in Kind, kind = "original" => status[Item(a)] = "purged",
           NEW next \in Settling \ {"removeOriginal"}, Finalize(a, kind, next)
    PROVE  KeptInv'
<1> USE DEF KeptInv
<1>1. Cur(a) \in Dir /\ Item(a) \in Media  BY AtStage
<1>2. RowsKept  BY DEF Finalize, RowsKept, rows
<1>3. CASE UNCHANGED stage
  <2>1. OriginalKept' /\ StagesKept  BY <1>3, DiskKept DEF Finalize, rows, disk
  <2>2. Owned' /\ Known' /\ Gone' /\ at' \in [Agent -> AgentState]
    BY <1>2, <2>1, MoveKeeps DEF Finalize
  <2> QED  BY <1>3, <2>1, <2>2 DEF Finalize, TypeOK, rows
<1>4. CASE /\ InStage(a, kind)
           /\ stage' = [stage EXCEPT ![Cur(a)].files = @ \ {kind}]
  <2>1. Exists(Cur(a)) /\ stage[Cur(a)].files \in SUBSET Kind
    BY <1>1, <1>4 DEF InStage, TypeOK, Exists, Stage
  <2>2. stage' = [stage EXCEPT ![Cur(a)].files = stage[Cur(a)].files \ {kind}]
    BY <1>4
  <2>3. stage[Cur(a)].files \ {kind} \in SUBSET Kind  BY <2>1
  <2>4. /\ StagesKept /\ stage'[Cur(a)].media = stage[Cur(a)].media
        /\ stage'[Cur(a)].files = stage[Cur(a)].files \ {kind}
        /\ stage'[Cur(a)] # Null
        /\ \A e \in Dir \ {Cur(a)} : stage'[e] = stage[e]
    BY <1>1, <2>1, <2>2, <2>3, StageEdits
  <2>5. Owned' /\ Known' /\ Gone' /\ at' \in [Agent -> AgentState]
    BY <1>2, <2>4, MoveKeeps DEF Finalize
  <2>6. TypeOK'
    <3>1. stage' \in [Dir -> Stage \cup {Null}]
      BY <1>1, <2>1, <2>2, <2>3, StageTypes
    <3> QED  BY <2>5, <3>1 DEF Finalize, TypeOK, rows
  <2>7. OriginalKept'
    <3> SUFFICES ASSUME NEW m \in Media, HasRow(m)'
                 PROVE  \/ <<m, "original">> \in live'
                        \/ \E d \in Dir : /\ stage'[d] # Null /\ stage'[d].media = m
                                          /\ "original" \in stage'[d].files
      BY DEF OriginalKept, Exists
    <3>1. HasRow(m)  BY DEF Finalize, HasRow, rows
    <3>2. stage[Cur(a)].media = Item(a)  BY <2>1 DEF Owned, Cur, Item
    <3>3. CASE <<m, "original">> \in live  BY <3>3 DEF Finalize
    <3>4. CASE \E d \in Dir : /\ Exists(d) /\ stage[d].media = m
                              /\ "original" \in stage[d].files
      <4>1. PICK d \in Dir : /\ Exists(d) /\ stage[d].media = m
                             /\ "original" \in stage[d].files
        BY <3>4
      <4>2. CASE d # Cur(a)  BY <2>4, <4>1, <4>2 DEF Exists
      <4>3. CASE d = Cur(a)
        <5>1. kind # "original"  BY <3>1, <3>2, <4>1, <4>3 DEF HasRow
        <5> QED  BY <2>4, <4>1, <4>3, <5>1
      <4> QED  BY <4>2, <4>3
    <3> QED  BY <3>1, <3>3, <3>4 DEF OriginalKept
  <2> QED  BY <2>5, <2>6, <2>7
<1> QED  BY <1>3, <1>4 DEF Finalize

\* Only empty directories are removed, and only manifests besides files.
LEMMA RemoveSteps ==
    ASSUME KeptInv, NEW a \in Agent, RemoveManifest(a) \/ RemoveDir(a)
    PROVE  KeptInv'
<1> USE DEF KeptInv
<1>1. at[a].cur # Null  BY DEF RemoveManifest, RemoveDir, At, Owned, Settling
<1>2. Cur(a) \in Dir  BY <1>1, AtStage
<1>3. RowsKept  BY DEF RemoveManifest, RemoveDir, RowsKept, rows
<1>4. NextStage(a) \/ Goto(a, "removeDir")  BY DEF RemoveManifest, RemoveDir
<1>5. /\ StagesKept /\ stage' \in [Dir -> Stage \cup {Null}]
      /\ \A d \in Dir : Exists(d) /\ "original" \in stage[d].files =>
           /\ stage'[d] # Null /\ stage'[d].media = stage[d].media
           /\ stage'[d].files = stage[d].files
  <2>1. CASE UNCHANGED stage  BY <2>1 DEF StagesKept, TypeOK, Exists
  <2>2. CASE Exists(Cur(a)) /\ stage' = [stage EXCEPT ![Cur(a)].manifest = FALSE]
    <3>1. stage' \in [Dir -> Stage \cup {Null}]
      BY <1>2, <2>2, StageTypes
    <3>2. /\ StagesKept
          /\ \A e \in Dir \ {Cur(a)} : stage'[e] = stage[e]
          /\ stage'[Cur(a)].media = stage[Cur(a)].media
          /\ stage'[Cur(a)].files = stage[Cur(a)].files
          /\ stage'[Cur(a)] # Null
      BY <1>2, <2>2, StageEdits
    <3> QED  BY <1>2, <3>1, <3>2 DEF Exists
  <2>3. CASE /\ Exists(Cur(a)) /\ stage[Cur(a)].files = {}
             /\ stage' = [stage EXCEPT ![Cur(a)] = Null]
    BY <1>2, <2>3 DEF TypeOK, StagesKept, Exists
  <2> QED  BY <2>1, <2>2, <2>3 DEF RemoveManifest, RemoveDir
<1>6. Owned' /\ Known' /\ Gone' /\ at' \in [Agent -> AgentState]
  BY <1>1, <1>3, <1>4, <1>5, MoveKeeps DEF Settling
<1>7. OriginalKept'
  BY <1>5 DEF OriginalKept, HasRow, Exists, RemoveManifest, RemoveDir, rows
<1>8. TypeOK'  BY <1>5, <1>6 DEF TypeOK, RemoveManifest, RemoveDir, rows
<1> QED  BY <1>6, <1>7, <1>8

\* Every call on a stage being settled keeps the invariant.
LEMMA FileSteps ==
    ASSUME KeptInv, NEW a \in Agent, FileStep(a)
    PROVE  KeptInv'
<1>1. CASE RemoveManifest(a) \/ RemoveDir(a)  BY <1>1, RemoveSteps
<1>2. CASE RestoreOriginal(a) \/ RestoreThumbnail(a)
  <2>1. at[a].cur # Null
    BY <1>2 DEF KeptInv, RestoreOriginal, RestoreThumbnail, At, Owned, Settling
  <2> QED  BY <1>2, <2>1, RestoreStep DEF RestoreOriginal, RestoreThumbnail, Kind, Settling
<1>3. CASE RemoveOriginal(a) \/ RemoveThumbnail(a)
  <2>1. at[a].cur # Null
    BY <1>3 DEF KeptInv, RemoveOriginal, RemoveThumbnail, At, Owned, Settling
  <2>2. RemoveOriginal(a) => status[Item(a)] = "purged"
    BY DEF KeptInv, RemoveOriginal, At, Gone
  <2> QED  BY <1>3, <2>1, <2>2, FinalizeStep DEF RemoveOriginal, RemoveThumbnail, Kind, Settling
<1> QED  BY <1>1, <1>2, <1>3 DEF FileStep

-----------------------------------------------------------------------------
(* Purges and the cleanup pass. *)

\* A purge begins with items that have rows.
LEMMA BeginStep ==
    ASSUME KeptInv, NEW p \in Purger, NEW ids \in SUBSET Media, PurgeMedia(p, ids)
    PROVE  KeptInv'
<1> USE DEF KeptInv
<1>0. p \in Agent  BY DEF Agent
<1>1. OriginalKept' /\ StagesKept /\ RowsKept  BY DiskKept DEF PurgeMedia
<1>2. Known'  BY <1>1, KnownKept
<1>3. /\ \A b \in Agent \ {p} : at'[b] = at[b]
      /\ at'[p].pc = "stage" /\ at'[p].todo = ids
      /\ at'[p].mine = at[p].mine /\ at'[p].cur = at[p].cur
      /\ at'[p].deleted = at[p].deleted
  BY <1>0 DEF PurgeMedia, TypeOK, AgentState
<1>4. Gone'  BY <1>0, <1>1, <1>3, GoneKept
<1>5. Owned'
  <2>1. \A m \in ids : status'[m] # "none"  BY DEF PurgeMedia, rows
  <2>2. UNCHANGED <<status, stage>>  BY DEF PurgeMedia, rows, disk
  <2>3. "stage" \notin Moving \cup Settling  BY DEF Moving, Settling
  <2> SUFFICES ASSUME NEW b \in Agent
               PROVE  /\ \A m \in at'[b].todo : status[m] # "none"
                      /\ \A h \in at'[b].mine :
                           /\ status[h[2]] # "none"
                           /\ stage[h[1]] # Null => stage[h[1]].media = h[2]
                      /\ at'[b].cur # Null => at'[b].cur \in at'[b].mine
                      /\ at'[b].pc \in Moving \cup Settling => at'[b].cur # Null
                      /\ at'[b].pc = "idle" => at'[b] = Idle
    BY <2>2 DEF Owned, Exists
  <2>4. CASE b = p  BY <1>0, <1>3, <2>1, <2>2, <2>3, <2>4 DEF Owned, Exists
  <2>5. CASE b # p  BY <1>3, <2>5 DEF Owned, Exists
  <2> QED  BY <2>4, <2>5
<1>6. TypeOK'
  <2>1. [at[p] EXCEPT !.pc = "stage", !.todo = ids] \in AgentState
    BY <1>0 DEF TypeOK, AgentState
  <2> QED  BY <1>0, <2>1 DEF PurgeMedia, TypeOK, rows, disk
<1> QED  BY <1>1, <1>2, <1>4, <1>5, <1>6

\* A new stage is its maker's alone, and empty.
LEMMA StageStep ==
    ASSUME KeptInv, NEW p \in Purger, StageForPurge(p)
    PROVE  KeptInv'
<1> USE DEF KeptInv
<1>0. p \in Agent  BY DEF Agent
<1>1. PICK m \in at[p].todo, d \in Dir :
        /\ Unused(d)
        /\ stage' = [stage EXCEPT ![d] = [media |-> m, manifest |-> TRUE, files |-> {}]]
        /\ at' = [at EXCEPT ![p].pc = "moveOriginal", ![p].todo = @ \ {m},
                            ![p].mine = @ \cup {<<d, m>>}, ![p].cur = <<d, m>>]
        /\ met' = met \cup Meets(p, {m})
  BY DEF StageForPurge
<1>2. /\ m \in Media /\ status[m] # "none" /\ <<d, m>> \in Handle
      /\ [media |-> m, manifest |-> TRUE, files |-> {}] \in Stage
      /\ at[p] \in AgentState
  BY <1>0, <1>1 DEF TypeOK, AgentState, Owned, Handle, Stage
<1>3. /\ UNCHANGED status
      /\ \A e \in Dir \ {d} : stage'[e] = stage[e]
      /\ stage'[d].media = m /\ stage'[d].files = {}
  BY <1>1 DEF StageForPurge, rows, TypeOK
<1>4. /\ \A b \in Agent \ {p} : at'[b] = at[b]
      /\ at'[p].pc = "moveOriginal" /\ at'[p].todo = at[p].todo \ {m}
      /\ at'[p].mine = at[p].mine \cup {<<d, m>>} /\ at'[p].cur = <<d, m>>
      /\ at'[p].deleted = at[p].deleted
  BY <1>0, <1>1, <1>2 DEF TypeOK, AgentState
<1>5. TypeOK'
  <2>1. [at[p] EXCEPT !.pc = "moveOriginal", !.todo = @ \ {m},
                      !.mine = @ \cup {<<d, m>>}, !.cur = <<d, m>>] \in AgentState
    BY <1>2 DEF AgentState, Moving
  <2>2. at' \in [Agent -> AgentState]  BY <1>0, <1>1, <2>1 DEF TypeOK
  <2>3. stage' \in [Dir -> Stage \cup {Null}]  BY <1>1, <1>2 DEF TypeOK
  <2>4. met' \subseteq Media  BY <1>1, <1>2 DEF Meets, TypeOK
  <2> QED  BY <2>2, <2>3, <2>4 DEF StageForPurge, TypeOK, rows
<1>6. Owned'
  <2> SUFFICES ASSUME NEW b \in Agent
               PROVE  /\ \A n \in at'[b].todo : status[n] # "none"
                      /\ \A h \in at'[b].mine :
                           /\ status[h[2]] # "none"
                           /\ stage'[h[1]] # Null => stage'[h[1]].media = h[2]
                      /\ at'[b].cur # Null => at'[b].cur \in at'[b].mine
                      /\ at'[b].pc \in Moving \cup Settling => at'[b].cur # Null
                      /\ at'[b].pc = "idle" => at'[b] = Idle
    BY <1>3 DEF Owned, Exists
  <2>1. ASSUME NEW h \in at[b].mine
        PROVE  /\ status[h[2]] # "none"
               /\ stage'[h[1]] # Null => stage'[h[1]].media = h[2]
    <3>1. h \in Handle  BY DEF TypeOK, AgentState
    <3>2. h[1] # d  BY <1>1, <3>1, HandleParts DEF Unused
    <3> QED  BY <1>3, <3>1, <3>2, HandleParts DEF Owned, Exists
  <2>2. CASE b # p  BY <1>4, <2>1, <2>2 DEF Owned
  <2>3. CASE b = p
    <3>1. <<d, m>> # Null  BY <1>2, PurgeAssumption
    <3> QED  BY <1>2, <1>3, <1>4, <2>1, <2>3, <3>1 DEF Owned
  <2> QED  BY <2>2, <2>3
<1>7. Known'
  BY <1>2, <1>3 DEF Known, Exists
<1>8. Gone'
  <2>1. RowsKept  BY <1>3 DEF RowsKept
  <2> QED  BY <1>0, <1>4, <2>1, GoneKept
<1>9. OriginalKept'
  BY <1>1, <1>3 DEF OriginalKept, HasRow, Exists, Unused, StageForPurge
<1> QED  BY <1>5, <1>6, <1>7, <1>8, <1>9

\* A file moved leaves its live path for its item's stage.
LEMMA MoveStep ==
    ASSUME KeptInv, NEW p \in Purger, at[p].cur # Null, NEW kind \in Kind,
           NEW next \in Moving, Move(p, kind, next)
    PROVE  KeptInv'
<1> USE DEF KeptInv
<1>0. p \in Agent  BY DEF Agent
<1>1. Cur(p) \in Dir /\ Item(p) \in Media  BY <1>0, AtStage
<1>2. RowsKept  BY DEF Move, RowsKept, rows
<1>3. CASE Abort(p) /\ UNCHANGED disk
  <2>1. OriginalKept' /\ StagesKept  BY <1>3, DiskKept DEF Move, rows
  <2>2. Owned' /\ Known' /\ Gone' /\ at' \in [Agent -> AgentState]
    BY <1>0, <1>2, <1>3, <2>1, MoveKeeps
  <2> QED  BY <1>3, <2>1, <2>2 DEF Move, TypeOK, rows, disk
<1>4. CASE /\ Exists(Cur(p)) /\ live' = live \ {<<Item(p), kind>>}
           /\ stage' = [stage EXCEPT ![Cur(p)].files =
                          @ \cup {k \in {kind} : <<Item(p), kind>> \in live}]
           /\ Goto(p, next)
  <2> DEFINE files == stage[Cur(p)].files \cup {k \in {kind} : <<Item(p), kind>> \in live}
  <2>1. Exists(Cur(p)) /\ stage[Cur(p)].files \in SUBSET Kind
    BY <1>1, <1>4 DEF TypeOK, Exists, Stage
  <2>2. stage' = [stage EXCEPT ![Cur(p)].files = files]  BY <1>4
  <2>3. files \in SUBSET Kind  BY <2>1
  <2> HIDE DEF files
  <2>4. /\ StagesKept /\ stage'[Cur(p)].media = stage[Cur(p)].media
        /\ stage'[Cur(p)].files = files /\ stage'[Cur(p)] # Null
        /\ \A e \in Dir \ {Cur(p)} : stage'[e] = stage[e]
    BY <1>1, <1>4, <2>2, <2>3, StageEdits
  <2>5. next # "removeOriginal"  BY DEF Moving
  <2>6. Owned' /\ Known' /\ Gone' /\ at' \in [Agent -> AgentState]
    BY <1>0, <1>2, <1>4, <2>4, <2>5, MoveKeeps
  <2>7. TypeOK'
    <3>1. stage' \in [Dir -> Stage \cup {Null}]
      BY <1>1, <2>1, <2>2, <2>3, StageTypes
    <3> QED  BY <1>4, <2>6, <3>1 DEF Move, TypeOK, rows
  <2>8. OriginalKept'
    <3> SUFFICES ASSUME NEW m \in Media, HasRow(m)'
                 PROVE  \/ <<m, "original">> \in live'
                        \/ \E d \in Dir : /\ stage'[d] # Null /\ stage'[d].media = m
                                          /\ "original" \in stage'[d].files
      BY DEF OriginalKept, Exists
    <3>1. HasRow(m)  BY DEF Move, HasRow, rows
    <3>2. stage[Cur(p)].media = Item(p)  BY <1>0, <1>4 DEF Owned, Cur, Item
    <3>3. CASE <<m, "original">> \in live
      <4>1. CASE m = Item(p) /\ kind = "original"
        <5>1. "original" \in files  BY <3>3, <4>1 DEF files
        <5> QED  BY <1>1, <2>4, <3>2, <4>1, <5>1
      <4>2. CASE ~(m = Item(p) /\ kind = "original")  BY <1>4, <3>3, <4>2
      <4> QED  BY <4>1, <4>2
    <3>4. CASE \E d \in Dir : /\ Exists(d) /\ stage[d].media = m
                              /\ "original" \in stage[d].files
      <4>1. PICK d \in Dir : /\ Exists(d) /\ stage[d].media = m
                             /\ "original" \in stage[d].files
        BY <3>4
      <4>2. CASE d # Cur(p)  BY <2>4, <4>1, <4>2 DEF Exists
      <4>3. CASE d = Cur(p)
        <5>1. "original" \in files  BY <4>1, <4>3 DEF files
        <5> QED  BY <2>4, <4>1, <4>3, <5>1
      <4> QED  BY <4>2, <4>3
    <3> QED  BY <3>1, <3>3, <3>4 DEF OriginalKept
  <2> QED  BY <2>6, <2>7, <2>8
<1> QED  BY <1>3, <1>4 DEF Move

\* The synced stage is complete, or the purge gives up.
LEMMA StagedStep ==
    ASSUME KeptInv, NEW p \in Purger, Staged(p)
    PROVE  KeptInv'
<1> USE DEF KeptInv
<1>0. p \in Agent  BY DEF Agent
<1>1. OriginalKept' /\ StagesKept /\ RowsKept  BY DiskKept DEF Staged
<1>2. CASE Abort(p)
  <2>1. Owned' /\ Known' /\ Gone' /\ at' \in [Agent -> AgentState]
    BY <1>0, <1>1, <1>2, MoveKeeps
  <2> QED  BY <1>1, <2>1 DEF Staged, TypeOK, rows, disk
<1>3. ASSUME NEW pc \in {"commit", "stage"},
             at' = [at EXCEPT ![p].cur = Null, ![p].pc = pc]
      PROVE  KeptInv'
  <2>1. /\ \A b \in Agent \ {p} : at'[b] = at[b]
        /\ at'[p].pc = pc /\ at'[p].todo = at[p].todo
        /\ at'[p].mine = at[p].mine /\ at'[p].cur = Null
        /\ at'[p].deleted = at[p].deleted
    BY <1>0, <1>3 DEF TypeOK, AgentState
  <2>2. at' \in [Agent -> AgentState]
    <3>1. [at[p] EXCEPT !.cur = Null, !.pc = pc] \in AgentState
      BY <1>0 DEF TypeOK, AgentState
    <3> QED  BY <1>0, <1>3, <3>1 DEF TypeOK
  <2>3. pc \notin Moving \cup Settling  BY DEF Moving, Settling
  <2>4. Owned'  BY <1>0, <1>1, <2>1, <2>3, OwnedKept
  <2>5. Gone'  BY <1>0, <1>1, <2>1, GoneKept
  <2> QED  BY <1>1, <2>2, <2>4, <2>5, KnownKept DEF Staged, TypeOK, rows, disk
<1> QED  BY <1>2, <1>3 DEF Staged

\* The transaction takes rows from the trash only.
LEMMA CommitStep ==
    ASSUME KeptInv, NEW p \in Purger, PurgeTrashed(p)
    PROVE  KeptInv'
<1> USE DEF KeptInv
<1>0. p \in Agent  BY DEF Agent
<1> DEFINE gone == {m \in Holds(p) : status[m] = "trashed" /\ m \notin needed}
<1>1. gone \subseteq Media
  BY <1>0, HandleParts DEF Holds, TypeOK, AgentState
<1>2. /\ status' = [m \in Media |-> IF m \in gone THEN "purged" ELSE status[m]]
      /\ at' = [at EXCEPT ![p].pc = "settle", ![p].deleted = gone]
      /\ UNCHANGED <<needed, disk, met>>
  BY DEF PurgeTrashed
<1> HIDE DEF gone
<1>3. /\ \A b \in Agent \ {p} : at'[b] = at[b]
      /\ at'[p].pc = "settle" /\ at'[p].todo = at[p].todo
      /\ at'[p].mine = at[p].mine /\ at'[p].cur = at[p].cur
      /\ at'[p].deleted = gone
  BY <1>0, <1>2 DEF TypeOK, AgentState
<1>4. RowsKept /\ StagesKept
  BY <1>2 DEF RowsKept, StagesKept, disk, TypeOK
<1>5. TypeOK'
  <2>1. [at[p] EXCEPT !.pc = "settle", !.deleted = gone] \in AgentState
    BY <1>0, <1>1 DEF TypeOK, AgentState
  <2>2. at' \in [Agent -> AgentState]  BY <1>0, <1>2, <2>1 DEF TypeOK
  <2>3. status' \in [Media -> {"none", "active", "trashed", "purged"}]
    BY <1>2 DEF TypeOK
  <2> QED  BY <1>2, <2>2, <2>3 DEF TypeOK, disk
<1>6. Owned'
  <2>1. at[p].cur # Null => at[p].cur \in at[p].mine  BY <1>0 DEF Owned
  <2>2. "settle" \notin Moving \cup Settling  BY DEF Moving, Settling
  <2> QED  BY <1>0, <1>3, <1>4, <2>1, <2>2, OwnedKept
<1>7. Gone'
  <2> SUFFICES ASSUME NEW b \in Agent
               PROVE  /\ \A m \in at'[b].deleted : status'[m] = "purged"
                      /\ at'[b].pc = "removeOriginal" => status'[at'[b].cur[2]] = "purged"
    BY DEF Gone, Item
  <2>1. CASE b = p  BY <1>1, <1>2, <1>3, <2>1
  <2>2. CASE b # p
    <3>1. at'[b] = at[b]  BY <1>3, <2>2
    <3>2. at[b].deleted \subseteq Media  BY DEF TypeOK, AgentState
    <3>3. at[b].pc = "removeOriginal" => Item(b) \in Media
      BY AtStage DEF Owned, Settling
    <3> QED  BY <1>4, <3>1, <3>2, <3>3 DEF Gone, RowsKept, Item
  <2> QED  BY <2>1, <2>2
<1>8. OriginalKept'
  <2>1. \A m \in Media : HasRow(m)' => HasRow(m)
    BY <1>2 DEF HasRow
  <2> QED  BY <1>2, <2>1 DEF OriginalKept, Exists, disk
<1> QED  BY <1>4, <1>5, <1>6, <1>7, <1>8, KnownKept

\* Turning to a stage it holds, an agent finalizes only where the row is gone.
LEMMA TurnStep ==
    ASSUME KeptInv, NEW a \in Agent, UNCHANGED <<rows, disk, met>>,
           NEW h \in at[a].mine, NEW pc \in {"restoreOriginal", "removeOriginal"},
           pc = "removeOriginal" => status[h[2]] = "purged",
           at' = [at EXCEPT ![a].cur = h, ![a].pc = pc]
    PROVE  KeptInv'
<1> USE DEF KeptInv
<1>1. OriginalKept' /\ StagesKept /\ RowsKept  BY DiskKept
<1>2. /\ \A b \in Agent \ {a} : at'[b] = at[b]
      /\ at'[a].pc = pc /\ at'[a].todo = at[a].todo
      /\ at'[a].mine = at[a].mine /\ at'[a].cur = h
      /\ at'[a].deleted = at[a].deleted
  BY DEF TypeOK, AgentState
<1>3. h \in Handle /\ h # Null
  BY PurgeAssumption DEF TypeOK, AgentState
<1>4. TypeOK'
  <2>0. at[a] \in AgentState  BY DEF TypeOK
  <2>1. [at[a] EXCEPT !.cur = h, !.pc = pc] \in AgentState
    BY <1>3, <2>0 DEF AgentState, Settling
  <2> QED  BY <2>1 DEF TypeOK, rows, disk
<1>5. Owned'  BY <1>1, <1>2, <1>3, OwnedKept
<1>6. Gone'  BY <1>1, <1>2, GoneKept DEF rows
<1> QED  BY <1>1, <1>4, <1>5, <1>6, KnownKept

\* An agent that stops holds nothing, and knows nothing.
LEMMA IdleTypes == Idle \in AgentState
BY DEF Idle, AgentState

LEMMA StopStep ==
    ASSUME KeptInv, UNCHANGED <<rows, disk, met>>,
           at' \in [Agent -> AgentState],
           \A a \in Agent : at'[a] = at[a] \/ at'[a] = Idle
    PROVE  KeptInv'
<1> USE DEF KeptInv
<1>1. OriginalKept' /\ StagesKept /\ RowsKept  BY DiskKept
<1>2. Owned'
  BY DEF Owned, Idle, Moving, Settling, Exists, rows, disk
<1>3. Gone'  BY DEF Gone, Idle, Item, rows
<1>4. TypeOK'  BY DEF TypeOK, rows, disk
<1> QED  BY <1>1, <1>2, <1>3, <1>4, KnownKept

\* What is settled next is decided by what was deleted, or by the row.
LEMMA SettleSteps ==
    ASSUME KeptInv
    PROVE  /\ \A p \in Purger : Settle(p) => KeptInv'
           /\ ReconcilePurgeStages => KeptInv'
<1>1. ASSUME NEW a \in Agent, UNCHANGED <<rows, disk, met>>, at' = [at EXCEPT ![a] = Idle]
      PROVE  KeptInv'
  BY <1>1, StopStep, IdleTypes DEF KeptInv, TypeOK
<1>2. ASSUME NEW p \in Purger, Settle(p)  PROVE KeptInv'
  <2>0. p \in Agent /\ UNCHANGED <<rows, disk, met>>  BY <1>2 DEF Agent, Settle
  <2>1. CASE at' = [at EXCEPT ![p] = Idle]  BY <1>1, <2>0, <2>1
  <2>2. ASSUME NEW h \in at[p].mine,
               at' = [at EXCEPT ![p].cur = h,
                                ![p].pc = IF h[2] \in at[p].deleted
                                          THEN "removeOriginal" ELSE "restoreOriginal"]
        PROVE  KeptInv'
    <3>1. CASE h[2] \in at[p].deleted
      <4>1. status[h[2]] = "purged"  BY <2>0, <3>1 DEF KeptInv, Gone
      <4> QED  BY <2>0, <2>2, <3>1, <4>1, TurnStep
    <3>2. CASE h[2] \notin at[p].deleted  BY <2>0, <2>2, <3>2, TurnStep
    <3> QED  BY <3>1, <3>2
  <2> QED  BY <1>2, <2>1, <2>2 DEF Settle
<1>3. ASSUME ReconcilePurgeStages  PROVE KeptInv'
  <2>0. Janitor \in Agent /\ UNCHANGED <<rows, disk, met>>
    BY <1>3 DEF Agent, ReconcilePurgeStages
  <2>1. CASE at' = [at EXCEPT ![Janitor] = Idle]  BY <1>1, <2>0, <2>1
  <2>2. ASSUME NEW h \in at[Janitor].mine,
               at' = [at EXCEPT ![Janitor].cur = h,
                                ![Janitor].pc = IF HasRow(h[2])
                                                THEN "restoreOriginal" ELSE "removeOriginal"]
        PROVE  KeptInv'
    <3>1. CASE HasRow(h[2])  BY <2>0, <2>2, <3>1, TurnStep
    <3>2. CASE ~HasRow(h[2])
      <4>1. h[2] \in Media /\ status[h[2]] # "none"
        BY <2>0, HandleParts DEF KeptInv, TypeOK, AgentState, Owned
      <4>2. status[h[2]] = "purged"  BY <3>2, <4>1 DEF KeptInv, TypeOK, HasRow
      <4> QED  BY <2>0, <2>2, <3>2, <4>2, TurnStep
    <3> QED  BY <3>1, <3>2
  <2> QED  BY <1>3, <2>1, <2>2 DEF ReconcilePurgeStages
<1> QED  BY <1>2, <1>3

\* The cleanup pass takes up the stages there are.
LEMMA LoadStep ==
    ASSUME KeptInv, LoadPurgeStages
    PROVE  KeptInv'
<1> USE DEF KeptInv
<1>0. Janitor \in Agent  BY DEF Agent
<1> DEFINE found == {h \in Handle : /\ Exists(h[1]) /\ stage[h[1]].media = h[2]
                                    /\ stage[h[1]].manifest}
<1>1. /\ at' = [at EXCEPT ![Janitor].pc = "look", ![Janitor].mine = found]
      /\ met' = met \cup Meets(Janitor, {h[2] : h \in found})
      /\ stage' = [d \in Dir |-> IF /\ Exists(d) /\ ~stage[d].manifest
                                   /\ stage[d].files = {}
                                THEN Null ELSE stage[d]]
      /\ UNCHANGED <<rows, live>>
      /\ at[Janitor].pc = "idle"
  BY DEF LoadPurgeStages, At
<1>2. /\ found \subseteq Handle
      /\ \A h \in found : Exists(h[1]) /\ stage[h[1]].media = h[2]
  OBVIOUS
<1> HIDE DEF found
<1>3. /\ \A b \in Agent \ {Janitor} : at'[b] = at[b]
      /\ at'[Janitor].pc = "look" /\ at'[Janitor].todo = at[Janitor].todo
      /\ at'[Janitor].mine = found /\ at'[Janitor].cur = at[Janitor].cur
      /\ at'[Janitor].deleted = at[Janitor].deleted
  BY <1>0, <1>1 DEF TypeOK, AgentState
<1>4. RowsKept /\ StagesKept
  BY <1>1 DEF RowsKept, StagesKept, rows, Exists
<1>5. TypeOK'
  <2>0. at[Janitor] \in AgentState  BY <1>0 DEF TypeOK
  <2>1. [at[Janitor] EXCEPT !.pc = "look", !.mine = found] \in AgentState
    BY <1>2, <2>0 DEF AgentState
  <2>2. at' \in [Agent -> AgentState]  BY <1>0, <1>1, <2>1 DEF TypeOK
  <2>3. stage' \in [Dir -> Stage \cup {Null}]  BY <1>1 DEF TypeOK
  <2>4. {h[2] : h \in found} \subseteq Media  BY <1>2, HandleParts
  <2>5. met' \subseteq Media  BY <1>1, <2>4 DEF Meets, TypeOK
  <2> QED  BY <1>1, <2>2, <2>3, <2>5 DEF TypeOK, rows
<1>6. Gone'  BY <1>0, <1>3, <1>4, GoneKept
<1>7. Owned'
  <2> SUFFICES ASSUME NEW b \in Agent
               PROVE  /\ \A m \in at'[b].todo : status[m] # "none"
                      /\ \A h \in at'[b].mine :
                           /\ status[h[2]] # "none"
                           /\ stage'[h[1]] # Null => stage'[h[1]].media = h[2]
                      /\ at'[b].cur # Null => at'[b].cur \in at'[b].mine
                      /\ at'[b].pc \in Moving \cup Settling => at'[b].cur # Null
                      /\ at'[b].pc = "idle" => at'[b] = Idle
    BY <1>1 DEF Owned, Exists, rows
  <2>1. ASSUME NEW h \in at[b].mine \cup found
        PROVE  /\ status[h[2]] # "none"
               /\ stage'[h[1]] # Null => stage'[h[1]].media = h[2]
    <3>1. h \in Handle  BY <1>2 DEF TypeOK, AgentState
    <3>2. status[h[2]] # "none" /\ (Exists(h[1]) => stage[h[1]].media = h[2])
      BY <1>2, <3>1, HandleParts DEF Owned, Known
    <3> QED  BY <1>4, <3>1, <3>2, HandleParts DEF StagesKept, Exists
  <2>2. CASE b # Janitor  BY <1>3, <2>1, <2>2 DEF Owned
  <2>3. CASE b = Janitor
    <3>1. at[Janitor].cur = Null  BY <1>0, <1>1 DEF Owned, Idle
    <3> QED  BY <1>3, <2>1, <2>3, <3>1 DEF Owned, Moving, Settling
  <2> QED  BY <2>2, <2>3
<1>8. OriginalKept'
  BY <1>1 DEF OriginalKept, HasRow, Exists, rows
<1> QED  BY <1>4, <1>5, <1>6, <1>7, <1>8, KnownKept

\* A failed call, and the death of the process.
LEMMA FaultSteps ==
    ASSUME KeptInv, Restart \/ \E a \in Agent : Fault(a)
    PROVE  KeptInv'
<1>1. CASE Restart
  <2>1. /\ at' \in [Agent -> AgentState]
        /\ \A a \in Agent : at'[a] = Idle
    BY <1>1, IdleTypes DEF Restart
  <2> QED  BY <1>1, <2>1, StopStep DEF Restart
<1>2. ASSUME NEW a \in Agent, Fault(a)  PROVE KeptInv'
  <2> USE DEF KeptInv
  <2>1. OriginalKept' /\ StagesKept /\ RowsKept  BY <1>2, DiskKept DEF Fault
  <2>2. NextStage(a) \/ Abort(a)  BY <1>2 DEF Fault
  <2>3. Owned' /\ Known' /\ Gone' /\ at' \in [Agent -> AgentState]
    BY <2>1, <2>2, MoveKeeps
  <2> QED  BY <1>2, <2>1, <2>3 DEF Fault, TypeOK, rows, disk
<1> QED  BY <1>1, <1>2

\* The steps of a purge up to its commit.
LEMMA PurgeSteps ==
    ASSUME KeptInv, NEW p \in Purger, PurgeStep(p)
    PROVE  KeptInv'
<1>1. p \in Agent  BY DEF Agent
<1>2. CASE MoveOriginal(p) \/ MoveThumbnail(p)
  <2>1. at[p].cur # Null
    BY <1>1, <1>2 DEF KeptInv, Owned, MoveOriginal, MoveThumbnail, At, Moving
  <2> QED  BY <1>2, <2>1, MoveStep DEF MoveOriginal, MoveThumbnail, Kind, Moving
<1> QED
  BY <1>2, StageStep, StagedStep, CommitStep, SettleSteps DEF PurgeStep

-----------------------------------------------------------------------------
(* Items handled by one agent at a time. *)

\* Purges and the cleanup pass are the agents; an agent at a stage holds it.
LEMMA Agents ==
    ASSUME KeptInv
    PROVE  /\ Janitor \in Agent /\ \A p \in Purger : p \in Agent /\ p # Janitor
           /\ \A a \in Agent : \A h \in at[a].mine :
                h \in Handle /\ h[1] \in Dir /\ h[2] \in Media /\ h[2] \in Holds(a)
           /\ \A a \in Agent : at[a].cur # Null =>
                at[a].cur \in at[a].mine /\ Item(a) \in Holds(a) /\ Item(a) \in Media
           /\ \A a \in Agent : Holds(a) \subseteq Media
<1>1. Janitor \in Agent /\ \A p \in Purger : p \in Agent /\ p # Janitor
  BY PurgeAssumption DEF Agent
<1>2. \A a \in Agent : at[a].mine \subseteq Handle  BY DEF KeptInv, TypeOK, AgentState
<1>3. \A a \in Agent : \A h \in at[a].mine :
        h \in Handle /\ h[1] \in Dir /\ h[2] \in Media /\ h[2] \in Holds(a)
  BY <1>2, HandleParts DEF Holds
<1>4. \A a \in Agent : at[a].cur # Null => at[a].cur \in at[a].mine
  BY DEF KeptInv, Owned
<1> QED  BY <1>1, <1>3, <1>4 DEF Item, Holds

\* What a step of one agent must respect: it takes up no stage, shows no purged
\* file, and fills no stage of a purged item.
LEMMA AloneKept ==
    ASSUME KeptInv, AloneInv, NEW a \in Agent, UNCHANGED <<rows, met>>,
           \A b \in Agent \ {a} : at'[b] = at[b],
           at'[a].mine \subseteq at[a].mine,
           \A m \in at[a].deleted : m \in at'[a].deleted,
           \A m \in Media \ met, k \in Kind : <<m, k>> \in live' =>
                <<m, k>> \in live \/ (m \in Holds(a) /\ status[m] # "purged"),
           \A d \in Dir : stage'[d] # Null =>
                /\ stage[d] # Null
                /\ \/ stage'[d].files \subseteq stage[d].files
                   \/ stage[d].media \in met \/ status[stage[d].media] # "purged",
           a = Janitor =>
                /\ at'[a].pc \notin Staging \cup {"settle"}
                /\ at'[a].pc \in Restoring =>
                     at'[a].cur[2] \in met \/ status[at'[a].cur[2]] # "purged",
           a \in Purger =>
                /\ at'[a].pc # "look"
                /\ at'[a].pc \in Restoring => at'[a].cur[2] \notin at'[a].deleted
                /\ at'[a].pc \in Staging => at'[a].deleted = {} /\ MovedBy(a)'
    PROVE  AloneInv'
<1> USE DEF AloneInv
<1>0. UNCHANGED status  BY DEF rows
<1>1. \A b \in Agent : at'[b].mine \subseteq at[b].mine  OBVIOUS
<1>2. \A b \in Agent : Holds(b)' \subseteq Holds(b)  BY <1>1 DEF Holds
<1>3. OneHolder'  BY <1>2 DEF OneHolder
<1>4. Roles'
  <2>1. at'[Janitor].pc \notin Staging \cup {"settle"}
    BY Agents DEF Roles
  <2>2. ASSUME NEW p \in Purger
        PROVE  /\ at'[p].pc # "look"
               /\ at'[p].pc \in Staging => at'[p].deleted = {}
               /\ at'[p].pc \in Restoring => at'[p].cur[2] \notin at'[p].deleted
    <3>1. CASE p = a  BY <3>1
    <3>2. CASE p # a
      <4>1. at'[p] = at[p]  BY <3>2, Agents
      <4> QED  BY <4>1 DEF Roles, Item
    <3> QED  BY <3>1, <3>2
  <2> QED  BY <2>1, <2>2 DEF Roles, Item
<1>5. MovedAway'
  <2> SUFFICES ASSUME NEW p \in Purger, at'[p].pc \in Staging  PROVE MovedBy(p)'
    BY DEF MovedAway
  <2>1. CASE p = a  BY <2>1
  <2>2. CASE p # a
    <3>1. p \in Agent /\ at'[p] = at[p]  BY <2>2, Agents
    <3>2. MovedBy(p)  BY <3>1 DEF MovedAway
    <3>3. ASSUME NEW h \in at[p].mine, NEW k \in Kind, h[2] \notin met, <<h[2], k>> \in live'
          PROVE  <<h[2], k>> \in live
      <4>1. h[2] \in Media /\ h[2] \in Holds(p)  BY <3>1, Agents
      <4>2. h[2] \notin Holds(a)  BY <2>2, <3>1, <3>3, <4>1 DEF OneHolder
      <4> QED  BY <3>3, <4>1, <4>2
    <3> QED  BY <3>1, <3>2, <3>3 DEF MovedBy
  <2> QED  BY <2>1, <2>2
<1>6. NothingReturns'
  <2> SUFFICES ASSUME NEW m \in Media \ met, status[m] = "purged"
               PROVE  /\ \A k \in Kind : <<m, k>> \notin live'
                      /\ at'[Janitor].pc \in Restoring => at'[Janitor].cur[2] # m
                      /\ \A p \in Purger : \A h \in at'[p].mine :
                           h[2] = m /\ m \notin at'[p].deleted /\ stage'[h[1]] # Null =>
                             stage'[h[1]].files = {}
    BY <1>0 DEF NothingReturns, Item, Exists
  <2>1. \A k \in Kind : <<m, k>> \notin live'  BY DEF NothingReturns
  <2>2. at'[Janitor].pc \in Restoring => at'[Janitor].cur[2] # m
    BY Agents DEF NothingReturns, Item
  <2>3. ASSUME NEW p \in Purger, NEW h \in at'[p].mine,
               h[2] = m, m \notin at'[p].deleted, stage'[h[1]] # Null
        PROVE  stage'[h[1]].files = {}
    <3>1. p \in Agent /\ h \in at[p].mine /\ m \notin at[p].deleted
      BY <1>1, <2>3, Agents
    <3>2. h[1] \in Dir /\ stage[h[1]] # Null  BY <2>3, <3>1, Agents
    <3>3. stage[h[1]].media = m  BY <2>3, <3>1, <3>2 DEF KeptInv, Owned, Exists
    <3>4. stage[h[1]].files = {}  BY <2>3, <3>1, <3>2 DEF NothingReturns, Exists
    <3> QED  BY <2>3, <3>2, <3>3, <3>4
  <2> QED  BY <2>1, <2>2, <2>3
<1> QED  BY <1>3, <1>4, <1>5, <1>6

\* The same, for a step that leaves the files alone.
LEMMA AloneTurn ==
    ASSUME KeptInv, AloneInv, NEW a \in Agent, UNCHANGED <<rows, disk, met>>,
           \A b \in Agent \ {a} : at'[b] = at[b],
           at'[a].mine \subseteq at[a].mine,
           \A m \in at[a].deleted : m \in at'[a].deleted,
           a = Janitor =>
                /\ at'[a].pc \notin Staging \cup {"settle"}
                /\ at'[a].pc \in Restoring => status[at'[a].cur[2]] # "purged",
           a \in Purger =>
                /\ at'[a].pc # "look"
                /\ at'[a].pc \in Restoring => at'[a].cur[2] \notin at'[a].deleted
                /\ at'[a].pc \in Staging => at'[a].deleted = {} /\ MovedBy(a)'
    PROVE  AloneInv'
BY AloneKept DEF disk

\* The parts of a purge are told apart by their calls.
LEMMA Calls ==
    /\ "look" \notin Staging /\ "settle" \notin Staging /\ "idle" \notin Staging
    /\ \A pc \in Settling : pc \notin Staging /\ pc \notin {"look", "settle", "idle"}
    /\ Restoring \subseteq Settling
    /\ \A pc \in Staging \cup {"look", "settle", "idle"} : pc \notin Restoring
    /\ \A pc \in Moving : pc \in Staging
BY DEF Staging, Moving, Settling, Restoring

\* Rows come and change status: the files of a new row are of nobody's stage.
LEMMA AloneRows ==
    ASSUME KeptInv, AloneInv,
           \/ \E m \in Media : InsertMedia(m) \/ JobResolves(m) \/ JobFinishes(m)
           \/ \E ids \in SUBSET Media \ {{}}, target \in {"active", "trashed"} :
                SetStatusBulk(ids, target)
    PROVE  AloneInv'
<1> USE DEF AloneInv
<1>1. UNCHANGED <<stage, at, met>>
  BY DEF InsertMedia, JobResolves, JobFinishes, SetStatusBulk, disk
<1>2. \A m \in Media : status'[m] = "purged" => status[m] = "purged"
  BY DEF InsertMedia, JobResolves, JobFinishes, SetStatusBulk, HasRow, KeptInv, TypeOK
<1>3. \A m \in Media, k \in Kind : <<m, k>> \in live' => <<m, k>> \in live \/ status[m] = "none"
  BY DEF InsertMedia, JobResolves, JobFinishes, SetStatusBulk, disk
<1>4. \A m \in Media : status'[m] = "purged" => \A k \in Kind : <<m, k>> \in live' => <<m, k>> \in live
  BY <1>2, <1>3
<1>5. OneHolder' /\ Roles'
  BY <1>1 DEF OneHolder, Holds, Roles, Item
<1>6. MovedAway'
  <2> SUFFICES ASSUME NEW p \in Purger, at[p].pc \in Staging  PROVE MovedBy(p)'
    BY <1>1 DEF MovedAway
  <2>1. \A h \in at[p].mine : h[2] \in Media /\ status[h[2]] # "none"
    BY Agents DEF KeptInv, Owned
  <2>2. MovedBy(p)  BY DEF MovedAway
  <2> QED  BY <1>1, <1>3, <2>1, <2>2 DEF MovedBy
<1>7. NothingReturns'
  BY <1>1, <1>2, <1>4 DEF NothingReturns, Item, Exists
<1> QED  BY <1>5, <1>6, <1>7

\* Agents that stop hold nothing.
LEMMA AloneStops ==
    ASSUME KeptInv, AloneInv, UNCHANGED <<rows, disk, met>>,
           \A a \in Agent : at'[a] = at[a] \/ at'[a] = Idle
    PROVE  AloneInv'
<1> USE DEF AloneInv
<1>1. UNCHANGED <<status, live, stage, met>>  BY DEF rows, disk
<1>2. /\ Idle.pc = "idle" /\ Idle.mine = {} /\ Idle.deleted = {}
      /\ "idle" \notin Staging \cup Restoring \cup {"settle", "look"}
  BY Calls DEF Idle
<1>3. \A a \in Agent : Holds(a)' \subseteq Holds(a)  BY <1>2 DEF Holds
<1>4. OneHolder'  BY <1>1, <1>3 DEF OneHolder
<1>5. Roles'  BY <1>2, Agents DEF Roles, Item
<1>6. MovedAway'
  <2> SUFFICES ASSUME NEW p \in Purger, at'[p].pc \in Staging  PROVE MovedBy(p)'
    BY DEF MovedAway
  <2>1. at'[p] = at[p]  BY <1>2, Agents
  <2> QED  BY <1>1, <2>1 DEF MovedAway, MovedBy
<1>7. NothingReturns'
  <2> SUFFICES ASSUME NEW m \in Media \ met, status[m] = "purged"
               PROVE  /\ \A k \in Kind : <<m, k>> \notin live
                      /\ at'[Janitor].pc \in Restoring => at'[Janitor].cur[2] # m
                      /\ \A p \in Purger : \A h \in at'[p].mine :
                           h[2] = m /\ m \notin at'[p].deleted /\ stage[h[1]] # Null =>
                             stage[h[1]].files = {}
    BY <1>1 DEF NothingReturns, Item, Exists
  <2>1. at'[Janitor].pc \in Restoring => at'[Janitor].cur[2] # m
    BY <1>2, Agents DEF NothingReturns, Item
  <2>2. ASSUME NEW p \in Purger, NEW h \in at'[p].mine,
               h[2] = m, m \notin at'[p].deleted, stage[h[1]] # Null
        PROVE  stage[h[1]].files = {}
    <3>1. at'[p] = at[p]  BY <1>2, <2>2, Agents
    <3> QED  BY <2>2, <3>1 DEF NothingReturns, Exists
  <2> QED  BY <2>1, <2>2 DEF NothingReturns
<1> QED  BY <1>4, <1>5, <1>6, <1>7

\* A purge begins with empty hands.
LEMMA AloneBegins ==
    ASSUME KeptInv, AloneInv, NEW p \in Purger, NEW ids \in SUBSET Media, PurgeMedia(p, ids)
    PROVE  AloneInv'
<1>0. p \in Agent /\ p # Janitor  BY Agents
<1>1. at[p] = Idle  BY <1>0 DEF KeptInv, Owned, PurgeMedia, At
<1>2. /\ \A b \in Agent \ {p} : at'[b] = at[b]
      /\ at'[p].pc = "stage" /\ at'[p].mine = {} /\ at'[p].deleted = {}
  BY <1>0, <1>1 DEF PurgeMedia, KeptInv, TypeOK, Idle
<1>3. at[p].deleted = {} /\ MovedBy(p)'  BY <1>1, <1>2 DEF Idle, MovedBy
<1>4. "stage" \notin Restoring \cup {"look"}  BY DEF Restoring
<1> QED  BY <1>0, <1>2, <1>3, <1>4, AloneTurn DEF PurgeMedia

\* A purge goes to a stage to finalize what it deleted and to restore the rest,
\* the cleanup pass goes by the row.
LEMMA AloneSettles ==
    ASSUME KeptInv, AloneInv, ReconcilePurgeStages \/ \E p \in Purger : Settle(p)
    PROVE  AloneInv'
<1>1. ASSUME NEW a \in Agent, UNCHANGED <<rows, disk, met>>, at' = [at EXCEPT ![a] = Idle]
      PROVE  AloneInv'
  BY <1>1, AloneStops DEF KeptInv, TypeOK
<1>2. ASSUME NEW p \in Purger, Settle(p)  PROVE AloneInv'
  <2>0. p \in Agent /\ p # Janitor /\ UNCHANGED <<rows, disk, met>>
    BY <1>2, Agents DEF Settle
  <2>1. CASE at' = [at EXCEPT ![p] = Idle]  BY <1>1, <2>0, <2>1
  <2>2. ASSUME NEW h \in at[p].mine,
               at' = [at EXCEPT ![p].cur = h,
                                ![p].pc = IF h[2] \in at[p].deleted
                                          THEN "removeOriginal" ELSE "restoreOriginal"]
        PROVE  AloneInv'
    <3>1. /\ \A b \in Agent \ {p} : at'[b] = at[b]
          /\ at'[p].mine = at[p].mine /\ at'[p].deleted = at[p].deleted /\ at'[p].cur = h
          /\ at'[p].pc = IF h[2] \in at[p].deleted THEN "removeOriginal" ELSE "restoreOriginal"
      BY <2>0, <2>2 DEF KeptInv, TypeOK, AgentState
    <3>2. /\ at'[p].pc \notin Staging \cup {"look"}
          /\ at'[p].pc \in Restoring => h[2] \notin at[p].deleted
      BY <3>1 DEF Staging, Moving, Restoring
    <3> QED  BY <2>0, <3>1, <3>2, AloneTurn
  <2> QED  BY <1>2, <2>1, <2>2 DEF Settle
<1>3. ASSUME ReconcilePurgeStages  PROVE AloneInv'
  <2>0. Janitor \in Agent /\ Janitor \notin Purger /\ UNCHANGED <<rows, disk, met>>
    BY <1>3, Agents DEF ReconcilePurgeStages
  <2>1. CASE at' = [at EXCEPT ![Janitor] = Idle]  BY <1>1, <2>0, <2>1
  <2>2. ASSUME NEW h \in at[Janitor].mine,
               at' = [at EXCEPT ![Janitor].cur = h,
                                ![Janitor].pc = IF HasRow(h[2])
                                                THEN "restoreOriginal" ELSE "removeOriginal"]
        PROVE  AloneInv'
    <3>1. /\ \A b \in Agent \ {Janitor} : at'[b] = at[b]
          /\ at'[Janitor].mine = at[Janitor].mine
          /\ at'[Janitor].deleted = at[Janitor].deleted /\ at'[Janitor].cur = h
          /\ at'[Janitor].pc = IF HasRow(h[2]) THEN "restoreOriginal" ELSE "removeOriginal"
      BY <2>0, <2>2 DEF KeptInv, TypeOK, AgentState
    <3>2. /\ at'[Janitor].pc \notin Staging \cup {"settle"}
          /\ at'[Janitor].pc \in Restoring => status[h[2]] # "purged"
      BY <3>1 DEF Staging, Moving, Restoring, HasRow
    <3> QED  BY <2>0, <3>1, <3>2, AloneTurn
  <2> QED  BY <1>3, <2>1, <2>2 DEF ReconcilePurgeStages
<1> QED  BY <1>2, <1>3

\* An agent that gives up is a purge; one that goes on to its next stage restores
\* nothing yet.
LEMMA AloneMovesOn ==
    ASSUME KeptInv, AloneInv, NEW a \in Agent,
           \/ NextStage(a) /\ at[a].pc \in Settling
           \/ Abort(a) /\ at[a].pc \in Staging
    PROVE  /\ \A b \in Agent \ {a} : at'[b] = at[b]
           /\ at'[a].mine \subseteq at[a].mine /\ at'[a].deleted = at[a].deleted
           /\ a = Janitor => at'[a].pc \notin Staging \cup Restoring \cup {"settle"}
           /\ a \in Purger => at'[a].pc \notin Staging \cup Restoring \cup {"look"}
<1>1. CASE NextStage(a)
  <2>1. /\ \A b \in Agent \ {a} : at'[b] = at[b]
        /\ at'[a].mine \subseteq at[a].mine /\ at'[a].deleted = at[a].deleted
        /\ at'[a].pc = Loop(a)
    BY <1>1, MoveEffects DEF KeptInv
  <2>2. a = Janitor => Loop(a) \notin Staging \cup Restoring \cup {"settle"}
    BY Calls DEF Loop
  <2>3. a \in Purger => Loop(a) \notin Staging \cup Restoring \cup {"look"}
    BY Calls, PurgeAssumption DEF Loop
  <2> QED  BY <2>1, <2>2, <2>3
<1>2. CASE Abort(a) /\ at[a].pc \in Staging
  <2>1. /\ \A b \in Agent \ {a} : at'[b] = at[b]
        /\ at'[a].mine = at[a].mine /\ at'[a].deleted = at[a].deleted
        /\ at'[a].pc = "settle"
    BY <1>2, MoveEffects DEF KeptInv
  <2>2. a # Janitor  BY <1>2 DEF AloneInv, Roles
  <2> QED  BY <2>1, <2>2, Calls
<1> QED  BY <1>1, <1>2

\* A failed call, and the death of the process.
LEMMA AloneFaults ==
    ASSUME KeptInv, AloneInv, Restart \/ \E a \in Agent : Fault(a)
    PROVE  AloneInv'
<1>1. CASE Restart  BY <1>1, AloneStops DEF Restart
<1>2. ASSUME NEW a \in Agent, Fault(a)  PROVE AloneInv'
  <2>1. /\ \A b \in Agent \ {a} : at'[b] = at[b]
        /\ at'[a].mine \subseteq at[a].mine /\ at'[a].deleted = at[a].deleted
        /\ a = Janitor => at'[a].pc \notin Staging \cup Restoring \cup {"settle"}
        /\ a \in Purger => at'[a].pc \notin Staging \cup Restoring \cup {"look"}
    BY <1>2, AloneMovesOn DEF Fault
  <2> QED  BY <1>2, <2>1, AloneTurn DEF Fault
<1> QED  BY <1>1, <1>2

\* A synced stage has all files of its item.
LEMMA AloneStaged ==
    ASSUME KeptInv, AloneInv, NEW p \in Purger, Staged(p)
    PROVE  AloneInv'
<1>0. p \in Agent /\ p # Janitor /\ at[p].pc = "sync"  BY Agents DEF Staged, At
<1>1. "sync" \in Staging  BY DEF Staging, Moving
<1>2. CASE Abort(p)
  <2>1. /\ \A b \in Agent \ {p} : at'[b] = at[b]
        /\ at'[p].mine \subseteq at[p].mine /\ at'[p].deleted = at[p].deleted
        /\ at'[p].pc \notin Staging \cup Restoring \cup {"look"}
    BY <1>0, <1>1, <1>2, AloneMovesOn
  <2> QED  BY <1>0, <2>1, AloneTurn DEF Staged
<1>3. ASSUME NEW pc \in {"commit", "stage"}, at' = [at EXCEPT ![p].cur = Null, ![p].pc = pc]
      PROVE  AloneInv'
  <2>1. /\ \A b \in Agent \ {p} : at'[b] = at[b]
        /\ at'[p].mine = at[p].mine /\ at'[p].deleted = at[p].deleted /\ at'[p].pc = pc
    BY <1>0, <1>3 DEF KeptInv, TypeOK, AgentState
  <2>2. at[p].deleted = {} /\ MovedBy(p)
    BY <1>0, <1>1 DEF AloneInv, Roles, MovedAway
  <2>3. \A h \in at[p].mine, k \in Kind : h[2] \notin met => <<h[2], k>> \notin live
    BY <1>0, <2>2 DEF MovedBy
  <2>4. UNCHANGED <<live, met>>  BY DEF Staged, disk
  <2>5. MovedBy(p)'  BY <2>1, <2>3, <2>4 DEF MovedBy
  <2>6. pc \notin Restoring \cup {"look"}  BY DEF Restoring
  <2> QED  BY <1>0, <2>1, <2>2, <2>5, <2>6, AloneTurn DEF Staged
<1> QED  BY <1>2, <1>3 DEF Staged

\* A move takes a file from its live path, and adds to the stage at most a file
\* that was live.
LEMMA AloneMoves ==
    ASSUME KeptInv, AloneInv, NEW p \in Purger, MoveOriginal(p) \/ MoveThumbnail(p)
    PROVE  AloneInv'
<1>0. /\ p \in Agent /\ p # Janitor
      /\ at[p].pc \in Moving /\ at[p].pc \in Staging
      /\ at[p].cur # Null /\ Cur(p) \in Dir
  <2>1. p \in Agent /\ p # Janitor  BY Agents
  <2>2. at[p].pc \in Moving  BY DEF MoveOriginal, MoveThumbnail, At, Moving
  <2>3. at[p].pc \in Staging  BY <2>2, Calls
  <2>4. at[p].cur # Null  BY <2>1, <2>2 DEF KeptInv, Owned
  <2> QED  BY <2>1, <2>2, <2>3, <2>4, AtStage DEF KeptInv
<1>1. at[p].deleted = {} /\ MovedBy(p)  BY <1>0 DEF AloneInv, Roles, MovedAway
<1>2. PICK kind \in Kind, next \in {"moveThumbnail", "sync"} :
        /\ Move(p, kind, next)
        /\ kind = "original" => at[p].pc = "moveOriginal" /\ next = "moveThumbnail"
        /\ kind = "thumbnail" => at[p].pc = "moveThumbnail" /\ next = "sync"
  BY DEF MoveOriginal, MoveThumbnail, At, Kind
<1>3. CASE Abort(p) /\ UNCHANGED disk
  <2>1. /\ \A b \in Agent \ {p} : at'[b] = at[b]
        /\ at'[p].mine \subseteq at[p].mine /\ at'[p].deleted = at[p].deleted
        /\ at'[p].pc \notin Staging \cup Restoring \cup {"look"}
    BY <1>0, <1>3, AloneMovesOn
  <2> QED  BY <1>0, <1>2, <1>3, <2>1, AloneTurn DEF Move
<1>4. CASE /\ Exists(Cur(p)) /\ live' = live \ {<<Item(p), kind>>}
           /\ stage' = [stage EXCEPT ![Cur(p)].files =
                          @ \cup {k \in {kind} : <<Item(p), kind>> \in live}]
           /\ Goto(p, next)
  <2>1. /\ \A b \in Agent \ {p} : at'[b] = at[b]
        /\ at'[p].mine = at[p].mine /\ at'[p].deleted = at[p].deleted
        /\ at'[p].cur = at[p].cur /\ at'[p].pc = next
    BY <1>0, <1>4, MoveEffects DEF KeptInv
  <2>2. UNCHANGED <<rows, met>>  BY <1>2 DEF Move
  <2>3. MovedBy(p)'
    <3> SUFFICES ASSUME NEW h \in at[p].mine, NEW k \in Kind,
                        h[2] \notin met, <<h[2], k>> \in live'
                 PROVE  h = at[p].cur /\ next = "moveThumbnail" /\ k = "thumbnail"
      BY <2>1, <2>2 DEF MovedBy
    <3>1. h = at[p].cur /\ (at[p].pc = "moveOriginal" \/ (at[p].pc = "moveThumbnail" /\ k = "thumbnail"))
      BY <1>1, <1>4 DEF MovedBy
    <3>2. k # kind  BY <1>4, <3>1 DEF Item
    <3> QED  BY <1>2, <3>1, <3>2 DEF Kind
  <2>4. ASSUME NEW d \in Dir, stage'[d] # Null
        PROVE  /\ stage[d] # Null
               /\ \/ stage'[d].files \subseteq stage[d].files
                  \/ stage[d].media \in met \/ status[stage[d].media] # "purged"
    <3>1. stage[Cur(p)] \in Stage  BY <1>0, <1>4 DEF KeptInv, TypeOK, Exists
    <3>2. CASE d # Cur(p)  BY <1>4, <2>4, <3>2 DEF KeptInv, TypeOK
    <3>3. CASE d = Cur(p)
      <4>1. stage'[d].files = stage[d].files \cup {k \in {kind} : <<Item(p), kind>> \in live}
        BY <1>4, <3>1, <3>3 DEF KeptInv, TypeOK, Stage
      <4>2. stage[d].media = Item(p) /\ Item(p) \in Media
        BY <1>0, <1>4, <3>3, Agents DEF KeptInv, Owned, Cur, Item
      <4>3. CASE <<Item(p), kind>> \in live
        BY <1>4, <3>3, <4>2, <4>3 DEF AloneInv, NothingReturns, Exists
      <4>4. CASE <<Item(p), kind>> \notin live  BY <1>4, <3>3, <4>1, <4>4 DEF Exists
      <4> QED  BY <4>3, <4>4
    <3> QED  BY <3>2, <3>3
  <2>5. next \notin Restoring \cup {"look"}  BY DEF Restoring
  <2>6. \A m \in Media, k \in Kind : <<m, k>> \in live' => <<m, k>> \in live  BY <1>4
  <2> QED  BY <1>0, <1>1, <2>1, <2>2, <2>3, <2>4, <2>5, <2>6, AloneKept
<1> QED  BY <1>2, <1>3, <1>4 DEF Move

\* What is restored has not been purged while it was held.
LEMMA AloneRestores ==
    ASSUME KeptInv, AloneInv, NEW a \in Agent, RestoreOriginal(a) \/ RestoreThumbnail(a)
    PROVE  AloneInv'
<1>1. /\ at[a].pc \in Restoring /\ at[a].pc \in Settling
      /\ a = Janitor \/ a \in Purger
      /\ at[a].cur # Null /\ Cur(a) \in Dir /\ Item(a) \in Holds(a) /\ Item(a) \in Media
      /\ Exists(Cur(a)) => stage[Cur(a)].media = Item(a)
  <2>1. at[a].pc \in Restoring  BY DEF RestoreOriginal, RestoreThumbnail, At, Restoring
  <2>2. at[a].pc \in Settling  BY <2>1, Calls
  <2>3. at[a].cur # Null  BY <2>2 DEF KeptInv, Owned
  <2>4. Cur(a) \in Dir  BY <2>3, AtStage DEF KeptInv
  <2>5. Exists(Cur(a)) => stage[Cur(a)].media = Item(a)
    BY <2>3 DEF KeptInv, Owned, Cur, Item
  <2> QED  BY <2>1, <2>2, <2>3, <2>4, <2>5, Agents DEF Agent
<1>2. PICK kind \in Kind, next \in {"restoreThumbnail", "removeManifest"} :
        Restore(a, kind, next)
  BY DEF RestoreOriginal, RestoreThumbnail, Kind
<1>3. UNCHANGED <<rows, met>>  BY <1>2 DEF Restore
<1>4. CASE NextStage(a) /\ UNCHANGED disk
  <2>1. /\ \A b \in Agent \ {a} : at'[b] = at[b]
        /\ at'[a].mine \subseteq at[a].mine /\ at'[a].deleted = at[a].deleted
        /\ a = Janitor => at'[a].pc \notin Staging \cup Restoring \cup {"settle"}
        /\ a \in Purger => at'[a].pc \notin Staging \cup Restoring \cup {"look"}
    BY <1>1, <1>4, AloneMovesOn
  <2> QED  BY <1>3, <1>4, <2>1, AloneTurn
<1>5. CASE Goto(a, next)
  <2>1. /\ \A b \in Agent \ {a} : at'[b] = at[b]
        /\ at'[a].mine = at[a].mine /\ at'[a].deleted = at[a].deleted
        /\ at'[a].cur = at[a].cur /\ at'[a].pc = next
    BY <1>5, MoveEffects DEF KeptInv
  <2>2. next \notin Staging \cup {"settle", "look"}  BY DEF Staging, Moving
  <2>3. a = Janitor => Item(a) \in met \/ status[Item(a)] # "purged"
    BY <1>1 DEF AloneInv, NothingReturns
  <2>4. a \in Purger => Item(a) \notin at[a].deleted
    BY <1>1 DEF AloneInv, Roles
  <2>5. a \in Purger /\ InStage(a, kind) => Item(a) \in met \/ status[Item(a)] # "purged"
    BY <1>1, <2>4, Agents DEF AloneInv, NothingReturns, InStage, Cur, Item
  <2>6. \A m \in Media \ met, k \in Kind : <<m, k>> \in live' =>
          <<m, k>> \in live \/ (m \in Holds(a) /\ status[m] # "purged")
    BY <1>1, <1>2, <2>3, <2>5 DEF Restore, disk
  <2>7. \A d \in Dir : stage'[d] # Null => stage[d] # Null /\ stage'[d].files \subseteq stage[d].files
    <3>1. CASE UNCHANGED stage  BY <3>1
    <3>2. CASE /\ InStage(a, kind)
               /\ stage' = [stage EXCEPT ![Cur(a)].files = @ \ {kind}]
      BY <1>1, <3>2 DEF InStage, Exists, KeptInv, TypeOK, Stage
    <3> QED  BY <1>2, <3>1, <3>2 DEF Restore, disk
  <2> QED  BY <1>3, <2>1, <2>2, <2>3, <2>4, <2>6, <2>7, AloneKept DEF Item
<1> QED  BY <1>2, <1>4, <1>5 DEF Restore

\* Finalizing only ever empties stages.
LEMMA AloneFinalizes ==
    ASSUME KeptInv, AloneInv, NEW a \in Agent,
           \/ RemoveOriginal(a) \/ RemoveThumbnail(a) \/ RemoveManifest(a) \/ RemoveDir(a)
    PROVE  AloneInv'
<1>1. /\ at[a].pc \in Settling
      /\ at[a].cur # Null /\ Cur(a) \in Dir
  <2>1. at[a].pc \in Settling
    BY DEF RemoveOriginal, RemoveThumbnail, RemoveManifest, RemoveDir, At, Settling
  <2>2. at[a].cur # Null  BY <2>1 DEF KeptInv, Owned
  <2> QED  BY <2>1, <2>2, AtStage DEF KeptInv
<1>2. UNCHANGED <<rows, live, met>>
  BY DEF RemoveOriginal, RemoveThumbnail, RemoveManifest, RemoveDir, Finalize
<1>3. \A d \in Dir : stage'[d] # Null => stage[d] # Null /\ stage'[d].files \subseteq stage[d].files
  <2>1. CASE UNCHANGED stage  BY <2>1
  <2>2. ASSUME NEW kind \in Kind, InStage(a, kind),
               stage' = [stage EXCEPT ![Cur(a)].files = @ \ {kind}]
        PROVE  \A d \in Dir : stage'[d] # Null =>
                 stage[d] # Null /\ stage'[d].files \subseteq stage[d].files
    BY <1>1, <2>2 DEF InStage, Exists, KeptInv, TypeOK, Stage
  <2>3. CASE Exists(Cur(a)) /\ stage' = [stage EXCEPT ![Cur(a)].manifest = FALSE]
    BY <1>1, <2>3 DEF Exists, KeptInv, TypeOK, Stage
  <2>4. CASE stage' = [stage EXCEPT ![Cur(a)] = Null]
    BY <1>1, <2>4 DEF KeptInv, TypeOK
  <2> QED
    BY <2>1, <2>2, <2>3, <2>4
    DEF RemoveOriginal, RemoveThumbnail, RemoveManifest, RemoveDir, Finalize, Kind
<1>4. /\ \A b \in Agent \ {a} : at'[b] = at[b]
      /\ at'[a].mine \subseteq at[a].mine /\ at'[a].deleted = at[a].deleted
      /\ a = Janitor => at'[a].pc \notin Staging \cup Restoring \cup {"settle"}
      /\ a \in Purger => at'[a].pc \notin Staging \cup Restoring \cup {"look"}
  <2>1. CASE NextStage(a)  BY <1>1, <2>1, AloneMovesOn
  <2>2. ASSUME NEW pc \in {"removeThumbnail", "removeManifest", "removeDir"}, Goto(a, pc)
        PROVE  /\ \A b \in Agent \ {a} : at'[b] = at[b]
               /\ at'[a].mine = at[a].mine /\ at'[a].deleted = at[a].deleted
               /\ at'[a].pc \notin Staging \cup Restoring \cup {"settle", "look"}
    BY <2>2, MoveEffects DEF KeptInv, Staging, Moving, Restoring
  <2> QED
    BY <2>1, <2>2 DEF RemoveOriginal, RemoveThumbnail, RemoveManifest, RemoveDir, Finalize
<1> QED  BY <1>2, <1>3, <1>4, AloneKept

\* A stage is new when a purge makes it, and the purge is the only one to hold
\* it: otherwise it has met another.
LEMMA AloneStages ==
    ASSUME KeptInv, AloneInv, NEW p \in Purger, StageForPurge(p)
    PROVE  AloneInv'
<1> USE DEF AloneInv
<1>0. p \in Agent /\ p # Janitor /\ at[p].pc = "stage"
  BY Agents DEF StageForPurge, At
<1>1. PICK m \in at[p].todo, d \in Dir :
        /\ Unused(d)
        /\ stage' = [stage EXCEPT ![d] = [media |-> m, manifest |-> TRUE, files |-> {}]]
        /\ at' = [at EXCEPT ![p].pc = "moveOriginal", ![p].todo = @ \ {m},
                            ![p].mine = @ \cup {<<d, m>>}, ![p].cur = <<d, m>>]
        /\ met' = met \cup Meets(p, {m})
        /\ UNCHANGED <<rows, live>>
  BY DEF StageForPurge
<1>2. /\ \A b \in Agent \ {p} : at'[b] = at[b]
      /\ at'[p].pc = "moveOriginal" /\ at'[p].mine = at[p].mine \cup {<<d, m>>}
      /\ at'[p].cur = <<d, m>> /\ at'[p].deleted = at[p].deleted
  BY <1>0, <1>1 DEF KeptInv, TypeOK, AgentState
<1>3. /\ \A e \in Dir \ {d} : stage'[e] = stage[e]
      /\ stage'[d].files = {}
  BY <1>1 DEF KeptInv, TypeOK
<1>4. UNCHANGED <<status, live>>  BY <1>1 DEF rows
<1>5. /\ "stage" \in Staging /\ "moveOriginal" \in Staging
      /\ "moveOriginal" \notin Restoring \cup {"look"}
  BY DEF Staging, Moving, Restoring
<1>6. OneHolder'
  <2> SUFFICES ASSUME NEW n \in Media \ met', NEW a \in Agent, NEW b \in Agent,
                      n \in Holds(a)', n \in Holds(b)'
               PROVE  a = b
    BY DEF OneHolder
  <2>1. Holds(p)' \subseteq Holds(p) \cup {m}  BY <1>2 DEF Holds
  <2>2. \A c \in Agent \ {p} : Holds(c)' = Holds(c)  BY <1>2 DEF Holds
  <2>3. n \notin met  BY <1>1
  <2>4. n = m => \A c \in Agent \ {p} : m \notin Holds(c)
    BY <1>1 DEF Meets
  <2> QED  BY <2>1, <2>2, <2>3, <2>4 DEF OneHolder
<1>7. Roles'
  <2>1. at'[Janitor] = at[Janitor]  BY <1>0, <1>2, Agents
  <2>2. ASSUME NEW q \in Purger
        PROVE  /\ at'[q].pc # "look"
               /\ at'[q].pc \in Staging => at'[q].deleted = {}
               /\ at'[q].pc \in Restoring => at'[q].cur[2] \notin at'[q].deleted
    <3>1. CASE q = p  BY <1>0, <1>2, <1>5, <3>1 DEF Roles
    <3>2. CASE q # p
      <4>1. at'[q] = at[q]  BY <1>2, <3>2, Agents
      <4> QED  BY <4>1 DEF Roles, Item
    <3> QED  BY <3>1, <3>2
  <2> QED  BY <2>1, <2>2 DEF Roles, Item
<1>8. MovedAway'
  <2> SUFFICES ASSUME NEW q \in Purger, at'[q].pc \in Staging  PROVE MovedBy(q)'
    BY DEF MovedAway
  <2>0. \A n : n \notin met' => n \notin met  BY <1>1
  <2>1. CASE q # p
    <3>1. at'[q] = at[q]  BY <1>2, <2>1, Agents
    <3> QED  BY <1>4, <2>0, <3>1 DEF MovedAway, MovedBy
  <2>2. CASE q = p
    <3>1. MovedBy(p)  BY <1>0, <1>5 DEF MovedAway
    <3>2. \A h \in at[p].mine, k \in Kind : h[2] \notin met => <<h[2], k>> \notin live
      BY <1>0, <3>1 DEF MovedBy
    <3> QED  BY <1>2, <1>4, <2>0, <2>2, <3>2 DEF MovedBy
  <2> QED  BY <2>1, <2>2
<1>9. NothingReturns'
  <2> SUFFICES ASSUME NEW n \in Media \ met, status[n] = "purged"
               PROVE  /\ \A k \in Kind : <<n, k>> \notin live
                      /\ at'[Janitor].pc \in Restoring => at'[Janitor].cur[2] # n
                      /\ \A q \in Purger : \A h \in at'[q].mine :
                           h[2] = n /\ n \notin at'[q].deleted /\ stage'[h[1]] # Null =>
                             stage'[h[1]].files = {}
    BY <1>1, <1>4 DEF NothingReturns, Item, Exists
  <2>1. at'[Janitor] = at[Janitor]  BY <1>0, <1>2, Agents
  <2>2. ASSUME NEW q \in Purger, NEW h \in at'[q].mine,
               h[2] = n, n \notin at'[q].deleted, stage'[h[1]] # Null
        PROVE  stage'[h[1]].files = {}
    <3>1. CASE h[1] = d  BY <1>3, <3>1
    <3>2. CASE h[1] # d
      <4>1. h \in at[q].mine /\ n \notin at[q].deleted
        <5>1. CASE q = p  BY <1>2, <2>2, <3>2, <5>1
        <5>2. CASE q # p
          <6>1. at'[q] = at[q]  BY <1>2, <5>2, Agents
          <6> QED  BY <2>2, <6>1
        <5> QED  BY <5>1, <5>2
      <4>2. h[1] \in Dir  BY <4>1, Agents
      <4>3. stage'[h[1]] = stage[h[1]]  BY <1>3, <3>2, <4>2
      <4> QED  BY <2>2, <4>1, <4>3 DEF NothingReturns, Exists
    <3> QED  BY <3>1, <3>2
  <2> QED  BY <2>1, <2>2 DEF NothingReturns, Item
<1> QED  BY <1>6, <1>7, <1>8, <1>9

\* The cleanup pass takes up what nobody else holds, or has met somebody.
LEMMA AloneLoads ==
    ASSUME KeptInv, AloneInv, LoadPurgeStages
    PROVE  AloneInv'
<1> USE DEF AloneInv
<1>0. Janitor \in Agent  BY Agents
<1> DEFINE found == {h \in Handle : /\ Exists(h[1]) /\ stage[h[1]].media = h[2]
                                    /\ stage[h[1]].manifest}
<1>1. /\ at' = [at EXCEPT ![Janitor].pc = "look", ![Janitor].mine = found]
      /\ met' = met \cup Meets(Janitor, {h[2] : h \in found})
      /\ stage' = [d \in Dir |-> IF /\ Exists(d) /\ ~stage[d].manifest
                                   /\ stage[d].files = {}
                                THEN Null ELSE stage[d]]
      /\ UNCHANGED <<rows, live>>
  BY DEF LoadPurgeStages
<1> HIDE DEF found
<1>2. /\ \A b \in Agent \ {Janitor} : at'[b] = at[b]
      /\ at'[Janitor].pc = "look" /\ at'[Janitor].mine = found
  BY <1>0, <1>1 DEF KeptInv, TypeOK, AgentState
<1>3. \A q \in Purger : q \in Agent /\ at'[q] = at[q]  BY <1>2, Agents
<1>4. UNCHANGED <<status, live>> /\ \A n : n \notin met' => n \notin met
  BY <1>1 DEF rows
<1>5. OneHolder'
  <2> SUFFICES ASSUME NEW n \in Media \ met', NEW a \in Agent, NEW b \in Agent,
                      n \in Holds(a)', n \in Holds(b)'
               PROVE  a = b
    BY DEF OneHolder
  <2>1. Holds(Janitor)' = {h[2] : h \in found}  BY <1>2 DEF Holds
  <2>2. \A c \in Agent \ {Janitor} : Holds(c)' = Holds(c)  BY <1>2 DEF Holds
  <2>3. n \notin met  BY <1>4
  <2>4. n \in {h[2] : h \in found} => \A c \in Agent \ {Janitor} : n \notin Holds(c)
    BY <1>1 DEF Meets
  <2> QED  BY <2>1, <2>2, <2>3, <2>4 DEF OneHolder
<1>6. Roles'  BY <1>2, <1>3, Calls DEF Roles, Item
<1>7. MovedAway'  BY <1>3, <1>4 DEF MovedAway, MovedBy
<1>8. NothingReturns'
  <2> SUFFICES ASSUME NEW n \in Media \ met, status[n] = "purged"
               PROVE  /\ \A k \in Kind : <<n, k>> \notin live
                      /\ at'[Janitor].pc \in Restoring => at'[Janitor].cur[2] # n
                      /\ \A q \in Purger : \A h \in at'[q].mine :
                           h[2] = n /\ n \notin at'[q].deleted /\ stage'[h[1]] # Null =>
                             stage'[h[1]].files = {}
    BY <1>4 DEF NothingReturns, Item, Exists
  <2>1. "look" \notin Restoring  BY DEF Restoring
  <2>2. ASSUME NEW q \in Purger, NEW h \in at[q].mine,
               h[2] = n, n \notin at[q].deleted, stage'[h[1]] # Null
        PROVE  stage'[h[1]].files = {}
    <3>1. h[1] \in Dir  BY <1>3, Agents
    <3>2. stage'[h[1]] = stage[h[1]]  BY <1>1, <2>2, <3>1
    <3> QED  BY <2>2, <3>2 DEF NothingReturns, Exists
  <2> QED  BY <1>2, <1>3, <2>1, <2>2 DEF NothingReturns
<1> QED  BY <1>5, <1>6, <1>7, <1>8

\* What a commit deletes has no file at its live path and no other holder.
LEMMA AloneCommits ==
    ASSUME KeptInv, AloneInv, NEW p \in Purger, PurgeTrashed(p)
    PROVE  AloneInv'
<1> USE DEF AloneInv
<1>0. p \in Agent /\ p # Janitor /\ at[p].pc = "commit" /\ "commit" \in Staging
  BY Agents DEF PurgeTrashed, At, Staging
<1> DEFINE gone == {m \in Holds(p) : status[m] = "trashed" /\ m \notin needed}
<1>1. /\ status' = [m \in Media |-> IF m \in gone THEN "purged" ELSE status[m]]
      /\ at' = [at EXCEPT ![p].pc = "settle", ![p].deleted = gone]
      /\ UNCHANGED <<live, stage, met>>
  BY DEF PurgeTrashed, disk
<1>2. gone \subseteq Holds(p)  OBVIOUS
<1> HIDE DEF gone
<1>3. /\ \A b \in Agent \ {p} : at'[b] = at[b]
      /\ at'[p].pc = "settle" /\ at'[p].mine = at[p].mine /\ at'[p].cur = at[p].cur
      /\ at'[p].deleted = gone
  BY <1>0, <1>1 DEF KeptInv, TypeOK, AgentState
<1>4. \A q \in Purger \ {p} : q \in Agent /\ at'[q] = at[q]  BY <1>3, Agents
<1>5. Janitor \in Agent /\ at'[Janitor] = at[Janitor]  BY <1>0, <1>3, Agents
<1>6. OneHolder'
  <2>1. \A b \in Agent : Holds(b)' = Holds(b)  BY <1>3 DEF Holds
  <2> QED  BY <1>1, <2>1 DEF OneHolder
<1>7. Roles'  BY <1>3, <1>4, <1>5, Calls DEF Roles, Item
<1>8. MovedAway'
  <2> SUFFICES ASSUME NEW q \in Purger, at'[q].pc \in Staging  PROVE MovedBy(q)'
    BY DEF MovedAway
  <2>1. q # p  BY <1>3, Calls
  <2> QED  BY <1>1, <1>4, <2>1 DEF MovedAway, MovedBy
<1>9. NothingReturns'
  <2> SUFFICES ASSUME NEW m \in Media \ met, status'[m] = "purged"
               PROVE  /\ \A k \in Kind : <<m, k>> \notin live
                      /\ at[Janitor].pc \in Restoring => Item(Janitor) # m
                      /\ \A q \in Purger : \A h \in at'[q].mine :
                           h[2] = m /\ m \notin at'[q].deleted /\ stage[h[1]] # Null =>
                             stage[h[1]].files = {}
    BY <1>1, <1>5 DEF NothingReturns, Item, Exists
  <2>1. CASE m \in gone
    <3>1. m \in Holds(p) /\ \A b \in Agent \ {p} : m \notin Holds(b)
      BY <1>0, <1>2, <2>1 DEF OneHolder
    <3>2. \A k \in Kind : <<m, k>> \notin live
      <4>1. MovedBy(p)  BY <1>0 DEF MovedAway
      <4> QED  BY <1>0, <3>1, <4>1 DEF MovedBy, Holds
    <3>3. at[Janitor].pc \in Restoring => Item(Janitor) # m
      <4>1. at[Janitor].pc \in Restoring => at[Janitor].cur # Null
        BY <1>5, Calls DEF KeptInv, Owned
      <4> QED  BY <1>0, <1>5, <3>1, <4>1, Agents
    <3>4. ASSUME NEW q \in Purger, NEW h \in at'[q].mine, h[2] = m
          PROVE  m \in at'[q].deleted
      <4>1. q = p  BY <1>4, <3>1, <3>4, Agents
      <4> QED  BY <1>3, <2>1, <4>1
    <3> QED  BY <3>2, <3>3, <3>4
  <2>2. CASE m \notin gone
    <3>1. status[m] = "purged"  BY <1>1, <2>2
    <3>2. at[p].deleted = {}  BY <1>0 DEF Roles
    <3>3. ASSUME NEW q \in Purger, NEW h \in at'[q].mine, m \notin at'[q].deleted
          PROVE  h \in at[q].mine /\ m \notin at[q].deleted
      BY <1>3, <1>4, <3>2, <3>3
    <3> QED  BY <3>1, <3>3 DEF NothingReturns, Exists
  <2> QED  BY <2>1, <2>2
<1> QED  BY <1>6, <1>7, <1>8, <1>9

-----------------------------------------------------------------------------
(* The theorems. *)

\* What keeps originals is inductive by itself.
LEMMA KeptInvariant == Spec => []KeptInv
<1>1. Init => KeptInv
  <2> SUFFICES ASSUME Init PROVE KeptInv  OBVIOUS
  <2>1. TypeOK  BY IdleTypes DEF Init, TypeOK
  <2>2. Owned  BY DEF Init, Owned, Idle, Moving, Settling
  <2>3. Known /\ OriginalKept
    BY DEF Init, Known, OriginalKept, HasRow, Exists
  <2>4. Gone  BY DEF Init, Gone, Idle
  <2> QED  BY <2>1, <2>2, <2>3, <2>4 DEF KeptInv
<1>2. KeptInv /\ [Next]_vars => KeptInv'
  <2> SUFFICES ASSUME KeptInv, [Next]_vars PROVE KeptInv'  OBVIOUS
  <2>1. CASE UNCHANGED vars
    <3>1. at' \in [Agent -> AgentState] /\ UNCHANGED <<rows, disk, met, at>>
      BY <2>1 DEF vars, KeptInv, TypeOK
    <3> QED  BY <3>1, StopStep
  <2>2. ASSUME NEW m \in Media, InsertMedia(m) \/ JobResolves(m) \/ JobFinishes(m)
        PROVE  KeptInv'
    BY <2>2, RowSteps
  <2>3. ASSUME NEW ids \in SUBSET Media \ {{}}, NEW target \in {"active", "trashed"},
               SetStatusBulk(ids, target)
        PROVE  KeptInv'
    BY <2>3, RowSteps
  <2>4. ASSUME NEW p \in Purger, PurgeStep(p) \/ FileStep(p)  PROVE KeptInv'
    BY <2>4, PurgeSteps, FileSteps DEF Agent
  <2>5. CASE JanitorStep
    BY <2>5, LoadStep, SettleSteps, FileSteps DEF JanitorStep, Agent
  <2>6. ASSUME NEW p \in Purger, NEW ids \in SUBSET Media \ {{}}, PurgeMedia(p, ids)
        PROVE  KeptInv'
    BY <2>6, BeginStep
  <2>7. CASE Restart \/ \E a \in Agent : Fault(a)  BY <2>7, FaultSteps
  <2> QED  BY <2>1, <2>2, <2>3, <2>4, <2>5, <2>6, <2>7 DEF Next, CalmNext
<1> QED  BY <1>1, <1>2, PTL DEF Spec

\* With it, so is what keeps purged files away.
LEMMA AloneStep ==
    ASSUME KeptInv, AloneInv, [Next]_vars
    PROVE  AloneInv'
<1>1. CASE UNCHANGED vars
  BY <1>1, AloneStops DEF vars
<1>2. CASE CalmNext
  <2>1. ASSUME NEW p \in Purger, PurgeStep(p)  PROVE AloneInv'
    BY <2>1, AloneStages, AloneMoves, AloneStaged, AloneCommits, AloneSettles DEF PurgeStep
  <2>2. ASSUME NEW a \in Agent, FileStep(a)  PROVE AloneInv'
    BY <2>2, AloneRestores, AloneFinalizes DEF FileStep
  <2>3. CASE JanitorStep
    BY <2>2, <2>3, AloneLoads, AloneSettles, Agents DEF JanitorStep
  <2> QED  BY <1>2, <2>1, <2>2, <2>3, AloneRows, Agents DEF CalmNext
<1>3. ASSUME NEW p \in Purger, NEW ids \in SUBSET Media \ {{}}, PurgeMedia(p, ids)
      PROVE  AloneInv'
  BY <1>3, AloneBegins
<1>4. CASE Restart \/ \E a \in Agent : Fault(a)  BY <1>4, AloneFaults
<1> QED  BY <1>1, <1>2, <1>3, <1>4 DEF Next

\* Purges, cleanup pass and rows agree in every reachable state, for any media,
\* purges and stage directories.
THEOREM PurgeInvariant == Spec => []PurgeInv
<1>1. Init => AloneInv
  <2> SUFFICES ASSUME Init PROVE AloneInv  OBVIOUS
  <2>1. \A a \in Agent : at[a] = Idle  BY DEF Init
  <2>2. /\ Janitor \in Agent /\ \A p \in Purger : p \in Agent
        /\ \A a \in Agent : Holds(a) = {} /\ at[a].mine = {} /\ at[a].pc = "idle"
    BY <2>1 DEF Agent, Idle, Holds
  <2>3. OneHolder  BY <2>2 DEF OneHolder
  <2>4. Roles /\ MovedAway  BY <2>2, Calls DEF Roles, MovedAway
  <2>5. NothingReturns  BY DEF Init, NothingReturns
  <2> QED  BY <2>3, <2>4, <2>5 DEF AloneInv
<1>2. KeptInv /\ AloneInv /\ [Next]_vars => AloneInv'  BY AloneStep
<1>3. Spec => []AloneInv  BY <1>1, <1>2, KeptInvariant, PTL DEF Spec
<1> QED  BY <1>3, KeptInvariant, PTL DEF PurgeInv

\* No original is destroyed while its row exists.
THEOREM OriginalsKept == Spec => []OriginalKept
<1>1. PurgeInv => OriginalKept  BY DEF PurgeInv, KeptInv
<1> QED  BY <1>1, PurgeInvariant, PTL

\* The files of an item whose row is gone are gone, unless two agents handled
\* its stages at once.
THEOREM NothingComesBack == Spec => []PurgedGoneAlone
<1>1. PurgeInv => PurgedGoneAlone
  BY DEF PurgeInv, AloneInv, NothingReturns, PurgedGoneAlone
<1> QED  BY <1>1, PurgeInvariant, PTL
=============================================================================
