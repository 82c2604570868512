--------------------------- MODULE LifecycleProofs ---------------------------
(***************************************************************************)
(* Proofs about Lifecycle, for any workers, hooks, uploads, slots and any  *)
(* finite set of operations.                                               *)
(***************************************************************************)
EXTENDS Lifecycle, FiniteSetTheorems, TLAPS

Inv == TypeOK /\ Held /\ RegistryExact /\ Attentive /\ InOrder /\ ClosedQuietly

-----------------------------------------------------------------------------
(* Types. *)

\* What a worker's record, and an operation's, may become.
LEMMA Records ==
    /\ \A pc \in {"none", "scan", "run", "idle", "select", "gone"}, sight \in SUBSET Upload :
           Place(pc, sight) \in WorkerRecord
    /\ \A u \in Upload : Running(u) \in WorkerRecord
    /\ NoOp \in OpRecord /\ [upload |-> Null, pc |-> "close"] \in OpRecord
    /\ \A u \in Upload : [upload |-> u, pc |-> "work"] \in OpRecord
<1>1. \A pc \in {"none", "scan", "run", "idle", "select", "gone"}, sight \in SUBSET Upload :
        Place(pc, sight) \in WorkerRecord
  BY DEF WorkerRecord, Place, Stage
<1>2. \A u \in Upload : Running(u) \in WorkerRecord  BY DEF WorkerRecord, Running, Stage
<1>3. NoOp \in OpRecord /\ [upload |-> Null, pc |-> "close"] \in OpRecord
  BY DEF OpRecord, NoOp
<1>4. \A u \in Upload : [upload |-> u, pc |-> "work"] \in OpRecord  BY DEF OpRecord
<1> QED  BY <1>1, <1>2, <1>3, <1>4

LEMMA LessInSight ==
    ASSUME NEW r \in WorkerRecord, NEW u
    PROVE  [r EXCEPT !.sight = @ \ {u}] \in WorkerRecord
  BY DEF WorkerRecord

LEMMA NextStage ==
    ASSUME NEW r \in WorkerRecord
    PROVE  [r EXCEPT !.stage = "pending"] \in WorkerRecord
  BY DEF WorkerRecord, Stage

LEMMA NextPlace ==
    ASSUME NEW r \in OpRecord, NEW pc \in {"work", "wake", "release", "close", "over"}
    PROVE  [r EXCEPT !.pc = pc] \in OpRecord
  BY DEF OpRecord

LEMMA TypeInit == Init => TypeOK
<1> SUFFICES ASSUME Init PROVE TypeOK  OBVIOUS
<1>1. status \in [Upload -> {"uploading", "pending", "cleanup", "complete"}]
  <2>1. \A u \in Upload : status[u] \in {"uploading", "pending", "cleanup", "complete"}
    BY DEF Init
  <2> QED  BY <2>1 DEF Init
<1>2. due \subseteq Upload /\ late \subseteq due /\ wake \in BOOLEAN
  BY LifecycleAssumption DEF Init
<1>3. worker \in [Worker -> WorkerRecord]
  <2>1. Place("none", {}) \in WorkerRecord  BY Records
  <2> QED  BY <2>1 DEF Init
<1>4. op \in [Op -> OpRecord]  BY Records DEF Init
<1>5. slots \in 0 .. Slots  BY LifecycleAssumption DEF Init
<1>6. inFlight \in [Upload -> Op \cup {Null}] /\ caller \in [Caller -> Op \cup {"idle"}]
  BY DEF Init
<1>7. main \in Phase  BY DEF Init, Phase
<1> QED  BY <1>1, <1>2, <1>3, <1>4, <1>5, <1>6, <1>7 DEF Init, TypeOK

\* Who moves the queue, and who leaves it alone.
LEMMA QueueMoves ==
    ASSUME Next
    PROVE  \/ Start
           \/ \E o \in Op : MakeDurable(o)
           \/ \E o \in Op : OpWake(o)
           \/ \E w \in Worker : WorkerStep(w) \/ Woken(w) \/ Tick(w) \/ WorkerReturns(w)
           \/ \E u \in Upload : BecomesDue(u)
           \/ UNCHANGED queue
  BY DEF Next, MainStep, ShutdownReturns, CancelLifetime, CloseRegistry, CloseDatabase, Signal,
         ListenFails, Becomes, EnsureDurable, Answered, GiveUp, OpStep, Release, CloseDone,
         ReconcilerReturns, CleanupReturns, queue

\* Who moves the registry.
LEMMA RegistryMoves ==
    ASSUME Next
    PROVE  \/ \E c \in Caller, u \in Upload : Begin(c, u)
           \/ \E o \in Op : OpStep(o)
           \/ UNCHANGED <<op, inFlight, slots>>
<1>1. CASE \E c \in Caller, u \in Upload : EnsureDurable(c, u)
  BY <1>1 DEF EnsureDurable, Join, Refuse, registry
<1>2. CASE \E w \in Worker : WorkerStep(w) \/ Woken(w) \/ Tick(w) \/ WorkerReturns(w)
  BY <1>2 DEF WorkerStep, Claim, NothingToClaim, ClaimFails, Processed, CleanedUp, AttemptFails,
              Sleep, Woken, Tick, WorkerReturns, registry
<1> QED
  BY <1>1, <1>2 DEF Next, MainStep, Start, ShutdownReturns, CancelLifetime, CloseRegistry,
     CloseDatabase, Signal, ListenFails, Becomes, Answered, GiveUp, BecomesDue,
     ReconcilerReturns, CleanupReturns, registry

\* An operation takes a slot, and gives back the one it took.
LEMMA SlotTaken ==
    ASSUME Inv, NEW o \in Op, ~Unfinished(o),
           \A p \in Op : Unfinished(p)' <=> (p = o \/ Unfinished(p))
    PROVE  Cardinality({p \in Op : Unfinished(p)'}) = slots + 1
<1> DEFINE S == {p \in Op : Unfinished(p)}
<1>1. IsFiniteSet(S)  BY LifecycleAssumption, FS_Subset
<1>2. {p \in Op : Unfinished(p)'} = S \cup {o}  OBVIOUS
<1>3. Cardinality(S \cup {o}) = Cardinality(S) + 1  BY <1>1, FS_AddElement
<1> QED  BY <1>2, <1>3 DEF Inv, RegistryExact

LEMMA SlotReturned ==
    ASSUME Inv, NEW o \in Op, Unfinished(o),
           \A p \in Op : Unfinished(p)' <=> (p # o /\ Unfinished(p))
    PROVE  /\ Cardinality({p \in Op : Unfinished(p)'}) = slots - 1
           /\ slots > 0
<1> DEFINE S == {p \in Op : Unfinished(p)}
<1>1. IsFiniteSet(S)  BY LifecycleAssumption, FS_Subset
<1>2. {p \in Op : Unfinished(p)'} = S \ {o} /\ o \in S  OBVIOUS
<1>3. Cardinality(S \ {o}) = Cardinality(S) - 1  BY <1>1, <1>2, FS_RemoveElement
<1>4. IsFiniteSet(S \ {o}) /\ Cardinality(S \ {o}) \in Nat /\ Cardinality(S) \in Nat
  BY <1>1, FS_RemoveElement, FS_CardinalityType
<1>5. Cardinality(S) = slots  BY DEF Inv, RegistryExact
<1> QED  BY <1>2, <1>3, <1>4, <1>5

\* Where nothing changes what is at work, the count stays.
LEMMA SlotsStay ==
    ASSUME Inv, \A p \in Op : Unfinished(p)' <=> Unfinished(p)
    PROVE  Cardinality({p \in Op : Unfinished(p)'}) = slots
<1>1. {p \in Op : Unfinished(p)'} = {p \in Op : Unfinished(p)}  OBVIOUS
<1> QED  BY <1>1 DEF Inv, RegistryExact

-----------------------------------------------------------------------------
(* TypeOK is preserved, one group of actions at a time. *)

LEMMA TypeQueue ==
    ASSUME Inv, NEW w \in Worker, WorkerStep(w) \/ Woken(w) \/ Tick(w) \/ WorkerReturns(w)
    PROVE  TypeOK'
<1> USE DEF Inv
<1>1. \A u \in Upload : status[u] \in {"uploading", "pending", "cleanup", "complete"}
  BY DEF TypeOK
<1>2. UNCHANGED <<main, op, inFlight, slots, closing, caller, reconciler, cleanup>>
  BY DEF WorkerStep, Claim, NothingToClaim, ClaimFails, Processed, CleanedUp, AttemptFails, Sleep,
         Woken, Tick, WorkerReturns, registry, processes
<1>3. wake' \in BOOLEAN
  BY DEF TypeOK, WorkerStep, Claim, NothingToClaim, ClaimFails, Processed, CleanedUp, AttemptFails,
         Sleep, Woken, Tick, WorkerReturns, Wake
<1>4. At(w, "run") => worker[w].job \in Upload  BY DEF Held
<1>5. status' \in [Upload -> {"uploading", "pending", "cleanup", "complete"}]
  BY <1>4 DEF TypeOK, WorkerStep, Claim, NothingToClaim, ClaimFails, Processed, CleanedUp,
         AttemptFails, Sleep, Woken, Tick, WorkerReturns
<1>6. due' \subseteq Upload /\ late' \subseteq due'
  BY <1>4 DEF TypeOK, WorkerStep, Claim, NothingToClaim, ClaimFails, Processed, CleanedUp,
         AttemptFails, Sleep, Woken, Tick, WorkerReturns
<1>7. worker' \in [Worker -> WorkerRecord]
  <2>1. worker \in [Worker -> WorkerRecord] /\ due \in SUBSET Upload  BY DEF TypeOK
  <2>2. \A pc \in {"scan", "idle", "select", "gone"} : Place(pc, {}) \in WorkerRecord
    BY Records
  <2>3. Place("scan", due) \in WorkerRecord /\ Place("scan", due') \in WorkerRecord
    BY <2>1, <1>6, Records
  <2>4. ASSUME NEW u \in Upload, Claim(w, u) PROVE worker' \in [Worker -> WorkerRecord]
    BY <2>1, <2>4, Records DEF Claim
  <2>5. CASE NothingToClaim(w)
    <3>1. [worker[w] EXCEPT !.stage = "pending"] \in WorkerRecord  BY <2>1, NextStage
    <3>2. worker' = [worker EXCEPT ![w] = [worker[w] EXCEPT !.stage = "pending"]]
          \/ Go(w, "idle")
      BY <2>1, <2>5 DEF NothingToClaim
    <3> QED  BY <2>1, <2>2, <3>1, <3>2 DEF Go
  <2>6. CASE Processed(w)
    <3>1. \A v \in Worker : [worker[v] EXCEPT !.sight = @ \ {worker[w].job}] \in WorkerRecord
      BY <2>1, LessInSight
    <3> QED  BY <2>3, <2>6, <3>1 DEF Processed
  <2>7. CASE ClaimFails(w) \/ CleanedUp(w) \/ AttemptFails(w) \/ Sleep(w) \/ Woken(w) \/ Tick(w)
             \/ WorkerReturns(w)
    BY <2>1, <2>2, <2>3, <2>7 DEF ClaimFails, CleanedUp, AttemptFails, Sleep, Woken, Tick,
       WorkerReturns, Go, Look
  <2> QED  BY <2>4, <2>5, <2>6, <2>7 DEF WorkerStep
<1> QED  BY <1>2, <1>3, <1>5, <1>6, <1>7 DEF TypeOK

\* A job that becomes due stays a job, and leaves the records records.
LEMMA TypeDue ==
    ASSUME TypeOK, NEW u \in Upload, Due(u)
    PROVE  due' \subseteq Upload /\ late \subseteq due' /\ worker' \in [Worker -> WorkerRecord]
<1>1. \A w \in Worker : [worker[w] EXCEPT !.sight = @ \ {u}] \in WorkerRecord
  BY LessInSight DEF TypeOK
<1> QED  BY <1>1 DEF TypeOK, Due

LEMMA TypeMakeDurable ==
    ASSUME Inv, NEW o \in Op, MakeDurable(o)
    PROVE  TypeOK'
<1> USE DEF Inv
<1> DEFINE u == op[o].upload
<1>1. Unfinished(o)  BY DEF MakeDurable, Unfinished
<1>2. u \in Upload  BY <1>1 DEF TypeOK, RegistryExact, OpRecord
<1>3. op' \in [Op -> OpRecord]
  <2>1. \A pc \in {"wake", "release"} : [op[o] EXCEPT !.pc = pc] \in OpRecord
    BY NextPlace DEF TypeOK
  <2>2. \E pc \in {"wake", "release"} : op' = [op EXCEPT ![o] = [op[o] EXCEPT !.pc = pc]]
    BY DEF MakeDurable, Move, TypeOK
  <2> QED  BY <2>1, <2>2 DEF TypeOK
<1>4. status' \in [Upload -> {"uploading", "pending", "cleanup", "complete"}]
  <2>1. status' = status \/ status' = [status EXCEPT ![u] = "pending"]
                        \/ status' = [status EXCEPT ![u] = status[u]]
    BY <1>2 DEF MakeDurable, TypeOK
  <2> QED  BY <1>2, <2>1 DEF TypeOK
<1>5. due' \subseteq Upload /\ late \subseteq due' /\ worker' \in [Worker -> WorkerRecord]
  <2>1. Due(u) \/ UNCHANGED <<due, worker>>  BY DEF MakeDurable
  <2> QED  BY <1>2, <2>1, TypeDue DEF TypeOK
<1> QED  BY <1>3, <1>4, <1>5 DEF MakeDurable, TypeOK, processes

LEMMA TypeRegistry ==
    ASSUME Inv, NEW o \in Op, OpWake(o) \/ Release(o) \/ CloseDone(o)
    PROVE  TypeOK'
<1> USE DEF Inv
<1>1. op' \in [Op -> OpRecord]
  <2>1. op \in [Op -> OpRecord] /\ [op[o] EXCEPT !.pc = "release"] \in OpRecord
    BY NextPlace DEF TypeOK
  <2>2. CASE OpWake(o)
    <3>1. op' = [op EXCEPT ![o] = [op[o] EXCEPT !.pc = "release"]]
      BY <2>1, <2>2 DEF OpWake, Move
    <3> QED  BY <2>1, <3>1
  <2>3. CASE Release(o)  BY <2>1, <2>3, Records DEF Release
  <2>4. CASE CloseDone(o)  BY <2>1, <2>4, Records DEF CloseDone
  <2> QED  BY <2>2, <2>3, <2>4
<1>2. CASE OpWake(o)  BY <1>1, <1>2 DEF OpWake, Wake, TypeOK, processes
<1>3. CASE Release(o)
  <2>1. Unfinished(o)  BY <1>3 DEF Release, Unfinished
  <2>2. Cardinality({p \in Op : Unfinished(p)'}) = slots - 1 /\ slots > 0
    <3>1. \A p \in Op : Unfinished(p)' <=> (p # o /\ Unfinished(p))
      BY <1>3 DEF Release, Unfinished, TypeOK
    <3> QED  BY <2>1, <3>1, SlotReturned
  <2>3. slots' \in 0 .. Slots  BY <1>3, <2>2, LifecycleAssumption DEF Release, TypeOK
  <2>4. inFlight' \in [Upload -> Op \cup {Null}]  BY <1>3 DEF Release, TypeOK
  <2> QED  BY <1>1, <1>3, <2>3, <2>4 DEF Release, TypeOK, queue, processes
<1>4. CASE CloseDone(o)  BY <1>1, <1>4 DEF CloseDone, TypeOK, queue, processes
<1> QED  BY <1>2, <1>3, <1>4

LEMMA TypeCaller ==
    ASSUME Inv, NEW c \in Caller,
           (\E u \in Upload : EnsureDurable(c, u)) \/ Answered(c) \/ GiveUp(c)
    PROVE  TypeOK'
<1> USE DEF Inv
<1>1. ASSUME NEW u \in Upload, EnsureDurable(c, u) PROVE TypeOK'
  <2>1. CASE Join(c, u)
    <3>1. caller' \in [Caller -> Op \cup {"idle"}]  BY <2>1 DEF Join, TypeOK
    <3> QED  BY <1>1, <2>1, <3>1 DEF Join, EnsureDurable, TypeOK, queue, registry, processes
  <2>2. CASE Refuse(c, u)
    BY <1>1, <2>2 DEF Refuse, EnsureDurable, TypeOK, queue, registry, processes
  <2>3. CASE Begin(c, u)
    <3>1. PICK o \in Op : /\ op' = [op EXCEPT ![o] = [upload |-> u, pc |-> "work"]]
                          /\ inFlight' = [inFlight EXCEPT ![u] = o]
                          /\ caller' = [caller EXCEPT ![c] = o]
      BY <2>3 DEF Begin
    <3>2. op' \in [Op -> OpRecord]  BY <3>1, Records DEF TypeOK
    <3>3. inFlight' \in [Upload -> Op \cup {Null}] /\ caller' \in [Caller -> Op \cup {"idle"}]
      BY <3>1 DEF TypeOK
    <3>4. slots' \in 0 .. Slots  BY <2>3, LifecycleAssumption DEF Begin, TypeOK
    <3> QED  BY <1>1, <2>3, <3>2, <3>3, <3>4 DEF Begin, EnsureDurable, TypeOK, queue, processes
  <2> QED  BY <1>1, <2>1, <2>2, <2>3 DEF EnsureDurable
<1>2. CASE Answered(c) \/ GiveUp(c)
  <2>1. caller' \in [Caller -> Op \cup {"idle"}]  BY <1>2 DEF Answered, GiveUp, TypeOK
  <2> QED  BY <1>2, <2>1 DEF Answered, GiveUp, TypeOK, queue, registry, processes
<1> QED  BY <1>1, <1>2

LEMMA TypeMain ==
    ASSUME Inv, MainStep \/ Signal \/ ListenFails \/ ReconcilerReturns \/ CleanupReturns
    PROVE  TypeOK'
<1> USE DEF Inv
<1>1. CASE Start
  <2>1. Place("scan", due) \in WorkerRecord  BY Records DEF TypeOK
  <2>2. worker' \in [Worker -> WorkerRecord]  BY <1>1, <2>1 DEF Start
  <2> QED  BY <1>1, <2>2 DEF Start, Wake, TypeOK, Phase, registry
<1>2. CASE ShutdownReturns \/ CancelLifetime \/ CloseDatabase \/ Signal \/ ListenFails
  BY <1>2 DEF ShutdownReturns, CancelLifetime, CloseDatabase, Signal, ListenFails, Becomes, TypeOK,
              Phase, queue, registry, processes
<1>3. CASE CloseRegistry  BY <1>3 DEF CloseRegistry, TypeOK, Phase, queue, processes
<1>4. CASE ReconcilerReturns \/ CleanupReturns
  BY <1>4 DEF ReconcilerReturns, CleanupReturns, TypeOK, queue, registry
<1> QED  BY <1>1, <1>2, <1>3, <1>4 DEF MainStep

LEMMA TypeNext == Inv /\ [Next]_vars => TypeOK'
<1> SUFFICES ASSUME Inv, [Next]_vars PROVE TypeOK'  OBVIOUS
<1>1. CASE UNCHANGED vars
  BY <1>1 DEF Inv, vars, TypeOK, queue, registry, processes
<1>2. ASSUME NEW u \in Upload, BecomesDue(u) PROVE TypeOK'
  <2>1. due' \subseteq Upload /\ late \subseteq due' /\ worker' \in [Worker -> WorkerRecord]
    BY <1>2, TypeDue DEF Inv, BecomesDue
  <2> QED  BY <1>2, <2>1 DEF Inv, BecomesDue, Due, TypeOK, registry, processes
<1> QED
  BY <1>1, <1>2, TypeQueue, TypeMakeDurable, TypeRegistry, TypeCaller, TypeMain DEF Next, OpStep

-----------------------------------------------------------------------------
(* A job is one worker's. *)

\* A job that becomes due belongs to nobody; workers keep their place and job.
LEMMA HeldDue ==
    ASSUME TypeOK, Held, NEW u \in Upload, Due(u), status'[u] \in Stage,
           \A v \in Upload \ {u} : status'[v] = status[v],
           \A w \in Worker : At(w, "run") => worker[w].job # u
    PROVE  Held'
<1>1. \A w \in Worker : worker'[w].pc = worker[w].pc /\ worker'[w].job = worker[w].job
  BY DEF Due, TypeOK, WorkerRecord
<1>2. \A v \in due' : status'[v] \in Stage  BY DEF Due, Held, TypeOK
<1>3. ASSUME NEW w \in Worker, At(w, "run")
      PROVE  worker[w].job \in Upload \ due' /\ status'[worker[w].job] \in Stage
  BY <1>3 DEF Due, Held
<1> QED  BY <1>1, <1>2, <1>3 DEF Held, At

LEMMA HeldStep ==
    ASSUME Inv, NEW w \in Worker, WorkerStep(w) \/ Woken(w) \/ Tick(w) \/ WorkerReturns(w)
    PROVE  Held'
<1> USE DEF Inv
<1>1. ASSUME NEW u \in Upload, Claim(w, u) PROVE Held'
  <2>1. worker'[w] = Running(u) /\ \A v \in Worker \ {w} : worker'[v] = worker[v]
    BY <1>1 DEF Claim, TypeOK
  <2>2. u \in due /\ due' = due \ {u} /\ status' = status  BY <1>1 DEF Claim, CanClaim
  <2>3. \A v \in Worker : At(v, "run") => worker[v].job # u  BY <2>2 DEF Held
  <2> QED  BY <2>1, <2>2, <2>3 DEF Held, At, Running, TypeOK
<1>2. ASSUME \A v \in Worker \ {w} : worker'[v].pc = worker[v].pc /\ worker'[v].job = worker[v].job,
             worker'[w].pc # "run", due' = due, status' = status
      PROVE  Held'
  BY <1>2 DEF Held, At
<1>3. \A pc, sight : Place(pc, sight).pc = pc  BY DEF Place
<1>4. CASE NothingToClaim(w)
  <2>1. worker'[w].pc # "run" /\ \A v \in Worker \ {w} : worker'[v] = worker[v]
    <3>1. worker' = [worker EXCEPT ![w].stage = "pending"] \/ Go(w, "idle")
      BY <1>4 DEF NothingToClaim
    <3>2. worker[w].pc = "scan" /\ worker[w] \in WorkerRecord
      BY <1>4 DEF NothingToClaim, At, TypeOK
    <3>3. CASE worker' = [worker EXCEPT ![w].stage = "pending"]
      BY <3>2, <3>3 DEF TypeOK, WorkerRecord
    <3>4. CASE Go(w, "idle")  BY <1>3, <3>4 DEF Go, TypeOK
    <3> QED  BY <3>1, <3>3, <3>4
  <2> QED  BY <1>2, <1>4, <2>1 DEF NothingToClaim
<1>5. CASE ClaimFails(w) \/ AttemptFails(w) \/ Sleep(w) \/ Woken(w) \/ Tick(w) \/ WorkerReturns(w)
  <2>1. worker'[w].pc # "run" /\ \A v \in Worker \ {w} : worker'[v] = worker[v]
    BY <1>3, <1>5 DEF ClaimFails, AttemptFails, Sleep, Woken, Tick, WorkerReturns, Go, Look, TypeOK
  <2>2. due' = due /\ status' = status
    BY <1>5 DEF ClaimFails, AttemptFails, Sleep, Woken, Tick, WorkerReturns
  <2> QED  BY <1>2, <2>1, <2>2
<1>6. CASE Processed(w)
  <2> DEFINE j == worker[w].job
  <2>1. At(w, "run") /\ j \in Upload \ due  BY <1>6 DEF Processed, Held
  <2>2. due' = due \cup {j} /\ status' = [status EXCEPT ![j] = "cleanup"]  BY <1>6 DEF Processed
  <2>3. worker'[w].pc = "scan"  BY <1>3, <1>6 DEF Processed
  <2>4. \A v \in Worker \ {w} : worker'[v].pc = worker[v].pc /\ worker'[v].job = worker[v].job
    BY <1>6 DEF Processed, TypeOK, WorkerRecord
  <2>5. \A v \in Worker \ {w} : At(v, "run") => worker[v].job # j  BY <2>1 DEF Held
  <2> QED  BY <2>1, <2>2, <2>3, <2>4, <2>5 DEF Held, At, Stage, TypeOK
<1>7. CASE CleanedUp(w)
  <2> DEFINE j == worker[w].job
  <2>1. At(w, "run") /\ j \in Upload \ due  BY <1>7 DEF CleanedUp, Held
  <2>2. due' = due /\ status' = [status EXCEPT ![j] = "complete"]  BY <1>7 DEF CleanedUp
  <2>3. worker'[w].pc = "scan" /\ \A v \in Worker \ {w} : worker'[v] = worker[v]
    BY <1>3, <1>7 DEF CleanedUp, Look, TypeOK
  <2>4. \A v \in Worker \ {w} : At(v, "run") => worker[v].job # j  BY <2>1 DEF Held
  <2> QED  BY <2>1, <2>2, <2>3, <2>4 DEF Held, At, TypeOK
<1> QED  BY <1>1, <1>4, <1>5, <1>6, <1>7 DEF WorkerStep

LEMMA HeldNext == Inv /\ [Next]_vars => Held'
<1> SUFFICES ASSUME Inv, [Next]_vars PROVE Held'  OBVIOUS
<1> USE DEF Inv
<1>1. CASE UNCHANGED queue  BY <1>1 DEF Held, At, queue
<1>2. CASE Start
  <2>1. \A w \in Worker : worker'[w].pc = "scan"  BY <1>2 DEF Start, Place
  <2> QED  BY <1>2, <2>1 DEF Start, Held, At
<1>3. ASSUME NEW o \in Op, MakeDurable(o) PROVE Held'
  <2> DEFINE u == op[o].upload
  <2>1. u \in Upload  BY <1>3 DEF MakeDurable, Unfinished, TypeOK, RegistryExact, OpRecord
  <2>2. CASE status[u] = "uploading" /\ ~UNCHANGED <<status, due, worker>>
    <3>1. Due(u) /\ status' = [status EXCEPT ![u] = "pending"]
      BY <1>3, <2>1, <2>2 DEF MakeDurable, TypeOK
    <3>2. \A w \in Worker : At(w, "run") => worker[w].job # u  BY <2>2 DEF Held, Stage
    <3> QED  BY <2>1, <3>1, <3>2, HeldDue DEF TypeOK, Stage
  <2>3. CASE status[u] # "uploading" \/ UNCHANGED <<status, due, worker>>
    <3>1. UNCHANGED <<status, due, worker>>  BY <1>3, <2>1, <2>3 DEF MakeDurable, TypeOK
    <3> QED  BY <3>1 DEF Held, At
  <2> QED  BY <2>2, <2>3
<1>4. ASSUME NEW u \in Upload, BecomesDue(u) PROVE Held'
  BY <1>4, HeldDue DEF BecomesDue
<1>5. ASSUME NEW o \in Op, OpWake(o) PROVE Held'  BY <1>5 DEF OpWake, Held, At
<1> QED  BY <1>1, <1>2, <1>3, <1>4, <1>5, HeldStep, QueueMoves DEF vars, queue

-----------------------------------------------------------------------------
(* The registry. *)

LEMMA RegistryBegin ==
    ASSUME Inv, NEW c \in Caller, NEW u \in Upload, Begin(c, u)
    PROVE  RegistryExact'
<1> USE DEF Inv
<1>1. PICK o \in Op : /\ Free(o)
                      /\ op' = [op EXCEPT ![o] = [upload |-> u, pc |-> "work"]]
                      /\ inFlight' = [inFlight EXCEPT ![u] = o]
  BY DEF Begin
<1>2. ~Unfinished(o) /\ \A p \in Op : Unfinished(p)' <=> (p = o \/ Unfinished(p))
  BY <1>1 DEF Unfinished, Free, TypeOK
<1>3. Cardinality({p \in Op : Unfinished(p)'}) = slots + 1  BY <1>2, SlotTaken
<1>4. op'[o].upload = u /\ inFlight'[u] = o /\ inFlight[u] = Null
  BY <1>1 DEF Begin, TypeOK
<1>5. ASSUME NEW p \in Op \ {o}, Unfinished(p)
      PROVE  op'[p] = op[p] /\ op[p].upload # u /\ op[p].upload \in Upload
                /\ inFlight'[op[p].upload] = p
  <2>1. op'[p] = op[p]  BY <1>1 DEF TypeOK
  <2>2. op[p].upload \in Upload /\ inFlight[op[p].upload] = p
    BY <1>5 DEF RegistryExact, TypeOK, OpRecord
  <2>3. op[p].upload # u  BY <1>4, <2>2, LifecycleAssumption
  <2> QED  BY <1>1, <2>1, <2>2, <2>3 DEF TypeOK
<1>6. ASSUME NEW v \in Upload \ {u}, inFlight'[v] # Null
      PROVE  inFlight'[v] \in Op \ {o} /\ Unfinished(inFlight'[v])
                /\ op'[inFlight'[v]].upload = v
  <2>1. inFlight'[v] = inFlight[v]  BY <1>1 DEF TypeOK
  <2>2. Unfinished(inFlight[v]) /\ inFlight[v] \in Op /\ op[inFlight[v]].upload = v
    BY <1>6, <2>1 DEF RegistryExact, TypeOK
  <2>3. inFlight[v] # o  BY <1>2, <2>2
  <2> QED  BY <1>1, <2>1, <2>2, <2>3 DEF TypeOK
<1>7. u # Null  BY LifecycleAssumption
<1>8. slots' = slots + 1  BY DEF Begin
<1>9. \A p \in Op : Unfinished(p)' => op'[p].upload # Null /\ inFlight'[op'[p].upload] = p
  BY <1>2, <1>4, <1>5, <1>7, LifecycleAssumption
<1>10. \A v \in Upload : inFlight'[v] # Null =>
          /\ op'[inFlight'[v]].pc \in {"work", "wake", "release"}
          /\ op'[inFlight'[v]].upload = v
  BY <1>2, <1>4, <1>6 DEF Unfinished
<1> QED  BY <1>3, <1>8, <1>9, <1>10 DEF RegistryExact, Unfinished

LEMMA RegistryOp ==
    ASSUME Inv, NEW o \in Op, OpStep(o)
    PROVE  RegistryExact'
<1> USE DEF Inv
<1>1. CASE MakeDurable(o) \/ OpWake(o)
  <2>1. op'[o].upload = op[o].upload /\ \A p \in Op \ {o} : op'[p] = op[p]
    BY <1>1 DEF MakeDurable, OpWake, Move, TypeOK, OpRecord
  <2>2. Unfinished(o) /\ Unfinished(o)'
    BY <1>1 DEF MakeDurable, OpWake, Move, Unfinished, TypeOK, OpRecord
  <2>3. \A p \in Op : Unfinished(p)' <=> Unfinished(p)  BY <2>1, <2>2 DEF Unfinished
  <2>4. inFlight' = inFlight /\ slots' = slots  BY <1>1 DEF MakeDurable, OpWake
  <2>5. Cardinality({p \in Op : Unfinished(p)'}) = slots  BY <2>3, SlotsStay
  <2>6. \A u \in Upload : inFlight[u] # Null => inFlight[u] \in Op  BY DEF TypeOK
  <2> QED  BY <2>1, <2>3, <2>4, <2>5, <2>6 DEF RegistryExact
<1>2. CASE Release(o)
  <2> DEFINE u == op[o].upload
  <2>1. Unfinished(o)  BY <1>2 DEF Release, Unfinished
  <2>2. u \in Upload /\ inFlight[u] = o  BY <2>1 DEF RegistryExact, TypeOK, OpRecord
  <2>3. \A p \in Op : Unfinished(p)' <=> (p # o /\ Unfinished(p))
    BY <1>2 DEF Release, Unfinished, TypeOK
  <2>4. Cardinality({p \in Op : Unfinished(p)'}) = slots - 1  BY <2>1, <2>3, SlotReturned
  <2>5. inFlight' = [inFlight EXCEPT ![u] = Null] /\ slots' = slots - 1
    BY <1>2 DEF Release
  <2>6. \A p \in Op \ {o} : op'[p] = op[p]  BY <1>2 DEF Release, TypeOK
  <2>7. ASSUME NEW p \in Op \ {o}, Unfinished(p)
        PROVE  op[p].upload # Null /\ inFlight'[op[p].upload] = p
    <3>1. op[p].upload \in Upload /\ inFlight[op[p].upload] = p
      BY <2>7 DEF RegistryExact, TypeOK, OpRecord
    <3> QED  BY <2>2, <2>5, <3>1, LifecycleAssumption DEF TypeOK
  <2>8. ASSUME NEW v \in Upload, inFlight'[v] # Null
        PROVE  inFlight'[v] \in Op \ {o} /\ Unfinished(inFlight'[v])
                  /\ op[inFlight'[v]].upload = v
    <3>1. v # u /\ inFlight'[v] = inFlight[v]  BY <2>2, <2>5, <2>8 DEF TypeOK
    <3>2. Unfinished(inFlight[v]) /\ op[inFlight[v]].upload = v /\ inFlight[v] \in Op
      BY <2>8, <3>1 DEF RegistryExact, TypeOK
    <3> QED  BY <3>1, <3>2
  <2>9. \A p \in Op : Unfinished(p)' => op'[p].upload # Null /\ inFlight'[op'[p].upload] = p
    BY <2>3, <2>6, <2>7
  <2>10. \A v \in Upload : inFlight'[v] # Null =>
            /\ op'[inFlight'[v]].pc \in {"work", "wake", "release"}
            /\ op'[inFlight'[v]].upload = v
    BY <2>3, <2>6, <2>8 DEF Unfinished
  <2> QED  BY <2>4, <2>5, <2>9, <2>10 DEF RegistryExact, Unfinished
<1>3. CASE CloseDone(o)
  <2>1. ~Unfinished(o) /\ op'[o].pc = "over" /\ \A p \in Op \ {o} : op'[p] = op[p]
    BY <1>3 DEF CloseDone, Unfinished, NoOp, TypeOK
  <2>2. \A p \in Op : Unfinished(p)' <=> Unfinished(p)  BY <2>1 DEF Unfinished
  <2>3. Cardinality({p \in Op : Unfinished(p)'}) = slots  BY <2>2, SlotsStay
  <2>4. inFlight' = inFlight /\ slots' = slots  BY <1>3 DEF CloseDone
  <2>5. \A u \in Upload : inFlight[u] # Null => inFlight[u] \in Op  BY DEF TypeOK
  <2> QED  BY <2>1, <2>2, <2>3, <2>4, <2>5 DEF RegistryExact
<1> QED  BY <1>1, <1>2, <1>3 DEF OpStep

LEMMA RegistryNext == Inv /\ [Next]_vars => RegistryExact'
<1> SUFFICES ASSUME Inv, [Next]_vars PROVE RegistryExact'  OBVIOUS
<1>1. CASE UNCHANGED <<op, inFlight, slots>>
  BY <1>1 DEF Inv, RegistryExact, Unfinished
<1> QED  BY <1>1, RegistryBegin, RegistryOp, RegistryMoves DEF vars, registry

-----------------------------------------------------------------------------
(* The order of the shutdown. *)

LEMMA OrderNext == Inv /\ [Next]_vars => InOrder' /\ ClosedQuietly'
<1> SUFFICES ASSUME Inv, [Next]_vars PROVE InOrder' /\ ClosedQuietly'  OBVIOUS
<1> USE DEF Inv
<1>1. CASE UNCHANGED vars
  BY <1>1 DEF vars, queue, registry, processes, InOrder, ClosedQuietly, In, Cancelled, At
<1>2. CASE Start
  BY <1>2 DEF Start, registry, InOrder, ClosedQuietly, In, Cancelled, At, Place
<1>3. CASE ShutdownReturns \/ CancelLifetime \/ Signal \/ ListenFails
  <2>1. /\ UNCHANGED <<worker, op, closing, reconciler, cleanup>>
        /\ main' \in {"shutdown", "stopped loops", "cancelled"}
        /\ main' = "cancelled" => cleanup = "gone"
        /\ main \notin {"closing", "closed"}
    BY <1>3 DEF ShutdownReturns, CancelLifetime, Signal, ListenFails, Becomes, queue, registry,
                processes, In
  <2>2. ~closing  BY <2>1 DEF InOrder
  <2> QED  BY <2>1, <2>2 DEF InOrder, ClosedQuietly, In, Cancelled
<1>4. CASE CloseRegistry
  BY <1>4 DEF CloseRegistry, queue, processes, InOrder, ClosedQuietly, In, Cancelled, At
<1>5. CASE CloseDatabase
  BY <1>5 DEF CloseDatabase, Becomes, queue, registry, processes, InOrder, ClosedQuietly, In,
              Cancelled, At
<1>6. CASE ReconcilerReturns \/ CleanupReturns
  BY <1>6 DEF ReconcilerReturns, CleanupReturns, queue, registry, InOrder, ClosedQuietly, In,
              Cancelled, LoopsStopped, At
<1>7. ASSUME NEW w \in Worker, WorkerStep(w) \/ Woken(w) \/ Tick(w) \/ WorkerReturns(w)
      PROVE  InOrder' /\ ClosedQuietly'
  <2>1. ~At(w, "none") /\ ~At(w, "gone")
    BY <1>7 DEF WorkerStep, Claim, NothingToClaim, ClaimFails, Processed, CleanedUp, AttemptFails,
                Sleep, Woken, Tick, WorkerReturns, At
  <2>2. UNCHANGED <<main, registry, processes>>
    BY <1>7 DEF WorkerStep, Claim, NothingToClaim, ClaimFails, Processed, CleanedUp, AttemptFails,
                Sleep, Woken, Tick, WorkerReturns
  <2>3. ~In("starting") /\ ~closing  BY <2>1 DEF InOrder
  <2> QED
    BY <2>2, <2>3 DEF InOrder, ClosedQuietly, In, Cancelled, registry, processes
<1>8. ASSUME NEW u \in Upload, Due(u)
      PROVE  \A w \in Worker : worker'[w].pc = worker[w].pc
  BY <1>8 DEF Due, TypeOK, WorkerRecord
<1>9. ASSUME NEW u \in Upload, BecomesDue(u) PROVE InOrder' /\ ClosedQuietly'
  BY <1>8, <1>9 DEF BecomesDue, registry, processes, InOrder, ClosedQuietly, In, Cancelled, At
<1>10. ASSUME NEW o \in Op, OpStep(o) PROVE InOrder' /\ ClosedQuietly'
  <2>1. \A w \in Worker : worker'[w].pc = worker[w].pc
    <3>1. CASE MakeDurable(o)
      <4>1. op[o].upload \in Upload
        BY <3>1 DEF MakeDurable, Unfinished, TypeOK, RegistryExact, OpRecord
      <4>2. Due(op[o].upload) \/ worker' = worker  BY <3>1 DEF MakeDurable
      <4> QED  BY <1>8, <4>1, <4>2
    <3> QED  BY <1>10, <3>1 DEF OpStep, OpWake, Release, CloseDone, queue
  <2>2. UNCHANGED <<main, closing, reconciler, cleanup>>
    BY <1>10 DEF OpStep, MakeDurable, OpWake, Release, CloseDone, processes
  <2>3. ~In("closed")
    BY <1>10 DEF OpStep, MakeDurable, OpWake, Release, CloseDone, ClosedQuietly
  <2> QED  BY <2>1, <2>2, <2>3 DEF InOrder, ClosedQuietly, In, Cancelled, At
<1>11. ASSUME NEW c \in Caller,
              (\E u \in Upload : EnsureDurable(c, u)) \/ Answered(c) \/ GiveUp(c)
       PROVE  InOrder' /\ ClosedQuietly'
  <2>1. UNCHANGED <<main, worker, closing, reconciler, cleanup>>
    BY <1>11 DEF EnsureDurable, Join, Refuse, Begin, Answered, GiveUp, queue, registry, processes
  <2>2. In("closed") => op' = op
    BY <1>11 DEF EnsureDurable, Join, Refuse, Begin, Answered, GiveUp, registry, InOrder, In
  <2> QED  BY <2>1, <2>2 DEF InOrder, ClosedQuietly, In, Cancelled, At
<1> QED
  BY <1>1, <1>2, <1>3, <1>4, <1>5, <1>6, <1>7, <1>9, <1>10, <1>11 DEF Next, MainStep

-----------------------------------------------------------------------------
(* No wakeup is lost. *)

\* What makes u looked after, apart from the signal and the phases.
Watched(u) ==
    \/ \E w \in Worker :
        \/ At(w, "run")
        \/ /\ At(w, "scan") /\ u \in worker[w].sight
           /\ status[u] = "cleanup" => worker[w].stage = "cleanup"
    \/ \E o \in Op : op[o].pc = "wake" /\ status[u] = "pending"

LEMMA AttentiveMeans ==
    Attentive <=> \A u \in due \ late : wake \/ Cancelled \/ In("starting") \/ Watched(u)
  BY DEF Attentive, Watched

LEMMA AttentiveMeansNext ==
    Attentive' <=> \A u \in due' \ late' :
        wake' \/ Cancelled' \/ In("starting")' \/ Watched(u)'
  BY DEF Attentive, Watched

\* A worker that begins a scan looks for whatever is due.
LEMMA LookWatches ==
    ASSUME TypeOK, NEW w \in Worker, worker'[w] = Place("scan", due'), NEW u \in due'
    PROVE  Watched(u)'
  BY DEF Watched, At, Place

LEMMA AttentiveStep ==
    ASSUME Inv, NEW w \in Worker, WorkerStep(w) \/ Woken(w) \/ Tick(w) \/ WorkerReturns(w)
    PROVE  Attentive'
<1> USE DEF Inv
<1> SUFFICES ASSUME NEW u \in due' \ late', ~wake', ~Cancelled', ~In("starting")'
             PROVE  Watched(u)'
  BY AttentiveMeansNext
<1>1. UNCHANGED <<main, op>>
  BY DEF WorkerStep, Claim, NothingToClaim, ClaimFails, Processed, CleanedUp, AttemptFails, Sleep,
         Woken, Tick, WorkerReturns, registry
<1>2. ~Cancelled /\ ~In("starting")  BY <1>1 DEF Cancelled, In
<1>3. ASSUME NEW v \in Upload, Claim(w, v) PROVE Watched(u)'
  <2>1. worker'[w].pc = "run"  BY <1>3 DEF Claim, Running, TypeOK
  <2> QED  BY <2>1 DEF Watched, At
<1>4. CASE NothingToClaim(w)
  <2>1. Watched(u) /\ due' = due /\ status' = status /\ u \in due
    BY <1>2, <1>4, AttentiveMeans DEF NothingToClaim
  <2>2. \A v \in Worker \ {w} : worker'[v] = worker[v]
    BY <1>4 DEF NothingToClaim, Go, TypeOK
  <2>3. CASE \E o \in Op : op[o].pc = "wake" /\ status[u] = "pending"
    BY <1>1, <2>1, <2>3 DEF Watched
  <2>4. CASE \E v \in Worker \ {w} :
          \/ At(v, "run")
          \/ /\ At(v, "scan") /\ u \in worker[v].sight
             /\ status[u] = "cleanup" => worker[v].stage = "cleanup"
    BY <2>1, <2>2, <2>4 DEF Watched, At
  <2>5. CASE /\ u \in worker[w].sight
             /\ status[u] = "cleanup" => worker[w].stage = "cleanup"
    <3>1. status[u] \in Stage /\ status[u] # worker[w].stage
      BY <1>4, <2>1, <2>5 DEF NothingToClaim, CanClaim, Held, TypeOK
    <3>2. worker[w].stage = "cleanup" /\ status[u] = "pending"
      BY <2>5, <3>1 DEF Stage, TypeOK, WorkerRecord
    <3>3. worker' = [worker EXCEPT ![w].stage = "pending"]  BY <1>4, <3>2 DEF NothingToClaim
    <3>4. worker'[w].pc = worker[w].pc /\ worker'[w].sight = worker[w].sight
      BY <3>3 DEF TypeOK, WorkerRecord
    <3>5. At(w, "scan")  BY <1>4 DEF NothingToClaim
    <3> QED  BY <2>1, <2>5, <3>2, <3>4, <3>5 DEF Watched, At
  <2>6. ~At(w, "run")  BY <1>4 DEF NothingToClaim, At
  <2> QED  BY <2>1, <2>3, <2>4, <2>5, <2>6 DEF Watched
<1>5. CASE CleanedUp(w) \/ AttemptFails(w) \/ Woken(w) \/ Tick(w)
  <2>1. worker'[w] = Place("scan", due')
    BY <1>5 DEF CleanedUp, AttemptFails, Woken, Tick, Look, TypeOK
  <2> QED  BY <2>1, LookWatches
<1>6. CASE Sleep(w)
  <2>1. Watched(u) /\ status' = status /\ u \in due  BY <1>2, <1>6, AttentiveMeans DEF Sleep
  <2>2. ~At(w, "run") /\ ~At(w, "scan") /\ \A v \in Worker \ {w} : worker'[v] = worker[v]
    BY <1>6 DEF Sleep, Go, At, TypeOK
  <2> QED  BY <1>1, <2>1, <2>2 DEF Watched, At
<1>7. CASE ClaimFails(w)  BY <1>2, <1>7 DEF ClaimFails
<1>8. CASE Processed(w)  BY <1>8 DEF Processed, Wake
<1>9. CASE WorkerReturns(w)  BY <1>2, <1>9 DEF WorkerReturns
<1> QED  BY <1>3, <1>4, <1>5, <1>6, <1>7, <1>8, <1>9 DEF WorkerStep

\* Whoever looked after v still does when another job becomes due.
LEMMA DueWatches ==
    ASSUME TypeOK, NEW u \in Upload, Due(u), NEW v \in Upload \ {u}, Watched(v),
           status'[v] = status[v], \A o \in Op : op[o].pc = "wake" => op'[o].pc = "wake"
    PROVE  Watched(v)'
<1>1. \A w \in Worker :
        /\ worker'[w].pc = worker[w].pc /\ worker'[w].stage = worker[w].stage
        /\ v \in worker[w].sight => v \in worker'[w].sight
  BY DEF Due, TypeOK, WorkerRecord
<1>2. CASE \E o \in Op : op[o].pc = "wake" /\ status[v] = "pending"  BY <1>2 DEF Watched
<1>3. ASSUME NEW w \in Worker,
             \/ At(w, "run")
             \/ /\ At(w, "scan") /\ v \in worker[w].sight
                /\ status[v] = "cleanup" => worker[w].stage = "cleanup"
      PROVE  Watched(v)'
  <2>1. CASE At(w, "run")  BY <1>1, <2>1 DEF Watched, At
  <2>2. CASE /\ At(w, "scan") /\ v \in worker[w].sight
             /\ status[v] = "cleanup" => worker[w].stage = "cleanup"
    <3>1. worker'[w].pc = "scan" /\ v \in worker'[w].sight  BY <1>1, <2>2 DEF At
    <3>2. status'[v] = "cleanup" => worker'[w].stage = "cleanup"
      <4>1. worker'[w].stage = worker[w].stage  BY <1>1
      <4> QED  BY <2>2, <4>1
    <3> QED  BY <3>1, <3>2 DEF Watched, At
  <2> QED  BY <1>3, <2>1, <2>2
<1> QED  BY <1>2, <1>3 DEF Watched

\* Where the queue is left alone, the phases and the operations may go on.
Settled == {"starting", "cancelled", "closing", "closed"}

LEMMA AttentiveStays ==
    ASSUME Attentive, UNCHANGED queue, main \in Settled => main' \in Settled,
           \A p \in Op : op[p].pc = "wake" => op'[p].pc = "wake"
    PROVE  Attentive'
<1>1. (In("starting") \/ Cancelled) <=> main \in Settled  BY DEF In, Cancelled, Settled
<1>2. (In("starting")' \/ Cancelled') <=> main' \in Settled  BY DEF In, Cancelled, Settled
<1> SUFFICES ASSUME NEW u \in due' \ late', ~wake', main' \notin Settled PROVE Watched(u)'
  BY <1>2, AttentiveMeansNext
<1>3. Watched(u) /\ status' = status /\ worker' = worker  BY <1>1, AttentiveMeans DEF queue
<1> QED  BY <1>3 DEF Watched, At

LEMMA AttentiveNext == Inv /\ [Next]_vars => Attentive'
<1> SUFFICES ASSUME Inv, [Next]_vars PROVE Attentive'  OBVIOUS
<1> USE DEF Inv
<1>1. ASSUME NEW o \in Op, OpStep(o) PROVE Attentive'
  <2> SUFFICES ASSUME NEW v \in due' \ late', ~wake', ~Cancelled', ~In("starting")'
               PROVE  Watched(v)'
    BY AttentiveMeansNext
  <2>1. CASE MakeDurable(o)
    <3> DEFINE u == op[o].upload
    <3>1. u \in Upload  BY <2>1 DEF MakeDurable, Unfinished, TypeOK, RegistryExact, OpRecord
    <3>2. \A p \in Op : op[p].pc = "wake" => op'[p].pc = "wake"
      BY <2>1 DEF MakeDurable, Move, TypeOK
    <3>3. wake' = wake /\ late' = late /\ main' = main  BY <2>1 DEF MakeDurable
    <3>4. CASE UNCHANGED <<status, due, worker>>
      <4>1. Watched(v)  BY <3>3, <3>4, AttentiveMeans DEF Cancelled, In
      <4> QED  BY <3>2, <3>4, <4>1 DEF Watched, At
    <3>5. CASE Due(u) /\ status[u] = "uploading" /\ status' = [status EXCEPT ![u] = "pending"]
               /\ op'[o].pc = "wake"
      <4>1. CASE v = u  BY <3>1, <3>5, <4>1 DEF Watched, TypeOK
      <4>2. CASE v # u
        <5>1. v \in due /\ v \in Upload \ {u}  BY <3>5, <4>2 DEF Due, TypeOK
        <5>2. Watched(v)  BY <3>3, <5>1, AttentiveMeans DEF Cancelled, In
        <5>3. status'[v] = status[v]  BY <3>5, <5>1 DEF TypeOK
        <5> QED  BY <3>1, <3>2, <3>5, <5>1, <5>2, <5>3, DueWatches
      <4> QED  BY <4>1, <4>2
    <3>6. \/ UNCHANGED <<status, due, worker>>
          \/ /\ Due(u) /\ status[u] = "uploading" /\ status' = [status EXCEPT ![u] = "pending"]
             /\ op'[o].pc = "wake"
      <4>1. CASE status[u] = "uploading"  BY <2>1, <3>1, <4>1 DEF MakeDurable, Move, TypeOK, OpRecord
      <4>2. CASE status[u] # "uploading"  BY <2>1, <3>1, <4>2 DEF MakeDurable, TypeOK
      <4> QED  BY <4>1, <4>2
    <3> QED  BY <3>4, <3>5, <3>6
  <2>2. CASE OpWake(o)  BY <2>2 DEF OpWake, Wake
  <2>3. CASE Release(o) \/ CloseDone(o)
    <3>1. UNCHANGED <<main, queue>>  BY <2>3 DEF Release, CloseDone
    <3>2. \A p \in Op : op[p].pc = "wake" => op'[p].pc = "wake"
      BY <2>3 DEF Release, CloseDone, TypeOK
    <3>3. Watched(v)  BY <3>1, AttentiveMeans DEF Cancelled, In, queue
    <3> QED  BY <3>1, <3>2, <3>3 DEF Watched, At, queue
  <2> QED  BY <1>1, <2>1, <2>2, <2>3 DEF OpStep
<1>2. ASSUME NEW u \in Upload, BecomesDue(u) PROVE Attentive'
  <2> SUFFICES ASSUME NEW v \in due' \ late', ~wake', ~Cancelled', ~In("starting")'
               PROVE  Watched(v)'
    BY AttentiveMeansNext
  <2>1. v \in Upload \ {u} /\ v \in due \ late /\ UNCHANGED <<main, status, wake, op>>
    BY <1>2 DEF BecomesDue, Due, TypeOK, registry
  <2>2. Watched(v)  BY <2>1, AttentiveMeans DEF Cancelled, In
  <2> QED  BY <1>2, <2>1, <2>2, DueWatches DEF BecomesDue
<1>3. CASE Start
  <2> SUFFICES ASSUME NEW v \in due' \ late' PROVE Watched(v)'  BY AttentiveMeansNext
  <2>1. PICK w \in Worker : TRUE  BY LifecycleAssumption
  <2>2. worker'[w] = Place("scan", due')  BY <1>3, <2>1 DEF Start
  <2> QED  BY <2>1, <2>2, LookWatches
<1>4. CASE (MainStep \/ Signal \/ ListenFails) /\ ~Start
  <2>1. UNCHANGED <<queue, op>>
    BY <1>4 DEF MainStep, ShutdownReturns, CancelLifetime, CloseRegistry, CloseDatabase, Signal,
                ListenFails, Becomes, registry
  <2>2. main \in Settled => main' \in Settled
    BY <1>4 DEF MainStep, ShutdownReturns, CancelLifetime, CloseRegistry, CloseDatabase, Signal,
                ListenFails, Becomes, In, Settled
  <2> QED  BY <2>1, <2>2, AttentiveStays
<1>5. ASSUME NEW c \in Caller,
             (\E u \in Upload : EnsureDurable(c, u)) \/ Answered(c) \/ GiveUp(c)
      PROVE  Attentive'
  <2>1. UNCHANGED <<main, queue>>  BY <1>5 DEF EnsureDurable, Answered, GiveUp
  <2>2. \A p \in Op : op[p].pc = "wake" => op'[p].pc = "wake"
    BY <1>5 DEF EnsureDurable, Join, Refuse, Begin, Free, Answered, GiveUp, registry, TypeOK
  <2> QED  BY <2>1, <2>2, AttentiveStays
<1>6. CASE ReconcilerReturns \/ CleanupReturns
  BY <1>6, AttentiveStays DEF ReconcilerReturns, CleanupReturns, registry
<1>7. CASE UNCHANGED vars  BY <1>7, AttentiveStays DEF vars, registry
<1> QED  BY <1>1, <1>2, <1>3, <1>4, <1>5, <1>6, <1>7, AttentiveStep DEF Next, MainStep

-----------------------------------------------------------------------------
(* The theorems. *)

LEMMA InvInit == Init => Inv
<1> SUFFICES ASSUME Init PROVE Inv  OBVIOUS
<1>1. TypeOK  BY TypeInit
<1>2. main = "starting" /\ closing = FALSE /\ reconciler = "startup"  BY DEF Init
<1>3. \A w \in Worker : worker[w].pc = "none"  BY DEF Init, Place
<1>4. \A o \in Op : op[o].pc = "over"  BY DEF Init, NoOp
<1>5. Held
  <2>1. \A u \in due : status[u] \in Stage
    <3>1. ASSUME NEW u \in Left PROVE status[u] = "pending"
      BY <3>1, LifecycleAssumption DEF Init
    <3> QED  BY <3>1 DEF Init, Stage
  <2> QED  BY <1>3, <2>1 DEF Held, At
<1>6. RegistryExact
  <2>1. {o \in Op : Unfinished(o)} = {}  BY <1>4 DEF Unfinished
  <2>2. Cardinality({o \in Op : Unfinished(o)}) = 0  BY <2>1, FS_EmptySet
  <2> QED  BY <1>4, <2>2 DEF RegistryExact, Unfinished, Init
<1>7. Attentive  BY <1>2 DEF Attentive, In
<1>8. InOrder  BY <1>2, <1>3 DEF InOrder, In, Cancelled, At
<1>9. ClosedQuietly  BY <1>2 DEF ClosedQuietly, In
<1> QED  BY <1>1, <1>5, <1>6, <1>7, <1>8, <1>9 DEF Inv

\* The invariant is inductive: from it follow the theorems below.
LEMMA InvNext == Inv /\ [Next]_vars => Inv'
<1>1. Inv' <=> TypeOK' /\ Held' /\ RegistryExact' /\ Attentive' /\ InOrder' /\ ClosedQuietly'
  BY DEF Inv
<1> QED  BY <1>1, TypeNext, HeldNext, RegistryNext, AttentiveNext, OrderNext

LEMMA SpecInv == Spec => []Inv
BY InvInit, InvNext, PTL DEF Spec

\* The whole invariant, for any pool, registry and set of uploads.
THEOREM LifecycleCorrect == Spec => []LifecycleInv
<1>1. Inv => LifecycleInv  BY DEF Inv, LifecycleInv
<1> QED  BY <1>1, SpecInv, PTL

\* An upload has at most one operation, and slots are never lost: a caller is
\* refused as busy only while the pool really is (durability.go, ensure, run).
THEOREM TheRegistryIsExact == Spec => []RegistryExact
<1>1. Inv => RegistryExact  BY DEF Inv
<1> QED  BY <1>1, SpecInv, PTL

\* No wakeup is lost between a claim that finds nothing and the select
\* (manager.go, Wake, runWorker).
THEOREM NoWakeupIsLost == Spec => []Attentive
<1>1. Inv => Attentive  BY DEF Inv
<1> QED  BY <1>1, SpecInv, PTL

\* No goroutine that is waited for outlives the database (main.go, run).
THEOREM DatabaseClosesQuietly == Spec => []ClosedQuietly
<1>1. Inv => ClosedQuietly  BY DEF Inv
<1> QED  BY <1>1, SpecInv, PTL

=============================================================================
