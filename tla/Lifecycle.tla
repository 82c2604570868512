------------------------------ MODULE Lifecycle ------------------------------
(***************************************************************************)
(* The processes of the backend and how they stop: the registry of         *)
(* detached durability operations (ingest/durability.go), the worker pool, *)
(* its wake channel and the reconciler (ingest/manager.go), the cleanup    *)
(* loop (httpapi/server.go) and the deferred calls of cmd/server/main.go   *)
(* that end them before the database is closed.                            *)
(*                                                                         *)
(* What an operation or a worker does to an upload is IngestBarrier's and  *)
(* IngestQueue's matter; here it succeeds or fails.                        *)
(***************************************************************************)
EXTENDS Naturals, FiniteSets

CONSTANTS
    Upload,
    Left, Done, \* uploads an earlier process left pending, or completed
    Worker,
    Hook,       \* requests that wait for an upload to be durable
    Reconciler, \* the startup inventory, then the reconciler
    Op,         \* identities of operations
    Slots,      \* opts.DurabilityWorkers
    Null

ASSUME LifecycleAssumption ==
    /\ Worker # {} /\ Slots \in Nat \ {0} /\ Left \subseteq Upload /\ Done \subseteq Upload \ Left
    /\ IsFiniteSet(Op)
    /\ Reconciler \notin Hook
    /\ Null \notin Op \cup Upload

VARIABLES
    main,       \* what run() is doing
    status,     \* of each upload's job, "pending" also while it is processed
    due,        \* jobs no lease and no backoff holds
    late,       \* due jobs left to the next tick
    wake,       \* the manager's channel of capacity one holds a signal
    worker,     \* each worker's place, what its scan may claim, the job it runs
    op,         \* the operations: their upload, place and outcome
    inFlight,   \* the registry: the operation to join for each upload
    slots,      \* slots taken
    closing,
    caller,     \* what each caller of EnsureDurable waits for
    reconciler, \* "startup", "loop" or "gone"
    cleanup     \* the cleanup loop: "loop" or "gone"

queue == <<status, due, late, wake, worker>>
registry == <<op, inFlight, slots, closing>>
processes == <<reconciler, cleanup>>
vars == <<main, queue, registry, caller, processes>>

Caller == Hook \cup {Reconciler}

\* run() and its deferred calls, in order.
Phase == {"starting", "serving", "shutdown", "stopped loops", "cancelled", "closing", "closed"}
In(p) == main = p
Cancelled == main \in {"cancelled", "closing", "closed"}

Stage == {"cleanup", "pending"}
NoOp == [upload |-> Null, pc |-> "over"]
OpRecord == [upload : Upload \cup {Null}, pc : {"work", "wake", "release", "close", "over"}]
WorkerRecord == [pc : {"none", "scan", "run", "idle", "select", "gone"}, stage : Stage,
                 sight : SUBSET Upload, job : Upload \cup {Null}]
Place(pc, sight) == [pc |-> pc, stage |-> "cleanup", sight |-> sight, job |-> Null]
Running(u) == [pc |-> "run", stage |-> "cleanup", sight |-> {}, job |-> u]
At(w, pc) == worker[w].pc = pc

TypeOK ==
    /\ main \in Phase
    /\ status \in [Upload -> {"uploading", "pending", "cleanup", "complete"}]
    /\ due \subseteq Upload /\ late \subseteq due /\ wake \in BOOLEAN
    /\ worker \in [Worker -> WorkerRecord]
    /\ op \in [Op -> OpRecord]
    /\ inFlight \in [Upload -> Op \cup {Null}]
    /\ slots \in 0 .. Slots /\ closing \in BOOLEAN
    /\ caller \in [Caller -> Op \cup {"idle"}]
    /\ reconciler \in {"startup", "loop", "gone"}
    /\ cleanup \in {"loop", "gone"}

Init ==
    /\ main = "starting"
    /\ status = [u \in Upload |-> 
           CASE u \in Left -> "pending" [] u \in Done -> "complete" [] OTHER -> "uploading"]
    /\ due = Left  \* RequeueStartup
    /\ late = {} /\ wake = FALSE
    /\ worker = [w \in Worker |-> Place("none", {})]
    /\ op = [o \in Op |-> NoOp]
    /\ inFlight = [u \in Upload |-> Null]
    /\ slots = 0 /\ closing = FALSE
    /\ caller = [c \in Caller |-> "idle"]
    /\ reconciler = "startup" /\ cleanup = "loop"

\* Mutant: a channel without capacity; only a worker asleep is told.
Mutant_WakeSleeper == wake' = (wake \/ \E w \in Worker : At(w, "select"))

\* Wake: a full channel already holds the signal.
Wake == wake' = TRUE

\* u may be claimed from now on, not by a scan whose clock was read before.
Due(u) ==
    /\ due' = due \cup {u}
    /\ worker' = [w \in Worker |-> [worker[w] EXCEPT !.sight = @ \ {u}]]

-----------------------------------------------------------------------------
(* The registry of detached operations. *)

Free(o) == op[o].pc = "over" /\ \A c \in Caller : caller[c] # o

Join(c, u) ==
    /\ inFlight[u] # Null
    /\ caller' = [caller EXCEPT ![c] = inFlight[u]]
    /\ UNCHANGED registry

Refuse(c, u) ==
    /\ inFlight[u] = Null
    /\ closing \/ slots = Slots
    /\ UNCHANGED <<caller, registry>>

\* Mutant: shutdown does not close the registry.
Mutant_BeginClosing(c, u) ==
    /\ inFlight[u] = Null /\ slots < Slots
    /\ \E o \in Op :
        /\ Free(o)
        /\ op' = [op EXCEPT ![o] = [upload |-> u, pc |-> "work"]]
        /\ inFlight' = [inFlight EXCEPT ![u] = o]
        /\ caller' = [caller EXCEPT ![c] = o]
    /\ slots' = slots + 1
    /\ UNCHANGED closing

Begin(c, u) ==
    /\ inFlight[u] = Null /\ ~closing /\ slots < Slots
    /\ \E o \in Op :
        /\ Free(o)
        /\ op' = [op EXCEPT ![o] = [upload |-> u, pc |-> "work"]]
        /\ inFlight' = [inFlight EXCEPT ![u] = o]
        /\ caller' = [caller EXCEPT ![c] = o]
    /\ slots' = slots + 1
    /\ UNCHANGED closing

\* EnsureDurable: under the registry's lock, join the upload's operation,
\* start one, or be refused.
EnsureDurable(c, u) ==
    /\ caller[c] \notin Op /\ (c = Reconciler => reconciler # "gone")
    /\ Join(c, u) \/ Refuse(c, u) \/ Begin(c, u)
    /\ UNCHANGED <<main, queue, processes>>

Move(o, pc) == op' = [op EXCEPT ![o].pc = pc]

\* makeDurable, on the manager's lifetime: the row is committed, was already,
\* or a call fails.
MakeDurable(o) ==
    /\ op[o].pc = "work"
    /\ LET u == op[o].upload IN
        \/ /\ ~Cancelled
           /\ status' = [status EXCEPT ![u] = IF @ = "uploading" THEN "pending" ELSE @]
           /\ IF status[u] = "uploading" THEN Due(u) ELSE UNCHANGED <<due, worker>>
           /\ Move(o, "wake")
        \/ Move(o, "release") /\ UNCHANGED <<status, due, worker>>
    /\ UNCHANGED <<main, late, wake, inFlight, slots, closing, caller, processes>>

OpWake(o) ==
    /\ op[o].pc = "wake"
    /\ Wake /\ Move(o, "release")
    /\ UNCHANGED <<main, status, due, late, worker, inFlight, slots, closing, caller, processes>>

\* Mutant: the entry goes first, the slot is not given back with it.
Mutant_KeepSlot(o) ==
    /\ op[o].pc = "release"
    /\ op' = [op EXCEPT ![o] = [upload |-> Null, pc |-> "close"]]
    /\ inFlight' = [inFlight EXCEPT ![op[o].upload] = Null]
    /\ UNCHANGED <<main, queue, slots, closing, caller, processes>>

\* The entry and the slot go under one lock.
Release(o) ==
    /\ op[o].pc = "release"
    /\ op' = [op EXCEPT ![o] = [upload |-> Null, pc |-> "close"]]
    /\ inFlight' = [inFlight EXCEPT ![op[o].upload] = Null]
    /\ slots' = slots - 1
    /\ UNCHANGED <<main, queue, closing, caller, processes>>

\* Mutant: the operation to close is looked up in the registry.
Mutant_CloseRegistered(o) ==
    /\ op[o].pc = "close" /\ \E u \in Upload : inFlight[u] = o
    /\ op' = [op EXCEPT ![o] = NoOp]
    /\ UNCHANGED <<main, queue, inFlight, slots, closing, caller, processes>>

\* close(op.done) and wg.Done.
CloseDone(o) ==
    /\ op[o].pc = "close"
    /\ op' = [op EXCEPT ![o] = NoOp]
    /\ UNCHANGED <<main, queue, inFlight, slots, closing, caller, processes>>

OpStep(o) == MakeDurable(o) \/ OpWake(o) \/ Release(o) \/ CloseDone(o)

\* The caller is answered, or its own context ends first: the request's
\* budget, or the manager's lifetime.
Answered(c) ==
    /\ caller[c] \in Op /\ op[caller[c]].pc = "over"
    /\ caller' = [caller EXCEPT ![c] = "idle"]
    /\ UNCHANGED <<main, queue, registry, processes>>

GiveUp(c) ==
    /\ caller[c] \in Op
    /\ c = Reconciler => Cancelled
    /\ caller' = [caller EXCEPT ![c] = "idle"]
    /\ UNCHANGED <<main, queue, registry, processes>>

-----------------------------------------------------------------------------
(* The worker pool. *)

Go(w, pc) == worker' = [worker EXCEPT ![w] = Place(pc, {})]
Look(w) == worker' = [worker EXCEPT ![w] = Place("scan", due)]
CanClaim(w, u) == u \in due \cap worker[w].sight /\ status[u] = worker[w].stage

\* claimAndRunOnce reads the clock, then makes one conditional claim for each
\* stage, cleanup first.
Claim(w, u) ==
    /\ At(w, "scan") /\ ~Cancelled /\ CanClaim(w, u)
    /\ due' = due \ {u} /\ late' = late \ {u}
    /\ worker' = [worker EXCEPT ![w] = Running(u)]
    /\ UNCHANGED <<main, status, wake, registry, caller, processes>>

NothingToClaim(w) ==
    /\ At(w, "scan") /\ ~Cancelled
    /\ ~\E u \in Upload : CanClaim(w, u)
    /\ IF worker[w].stage = "cleanup"
       THEN worker' = [worker EXCEPT ![w].stage = "pending"]
       ELSE Go(w, "idle")
    /\ UNCHANGED <<main, status, due, late, wake, registry, caller, processes>>

\* A busy database is the next tick's problem; a cancelled lifetime no work.
ClaimFails(w) ==
    /\ At(w, "scan")
    /\ Go(w, "idle")
    /\ late' = IF Cancelled THEN late ELSE due
    /\ UNCHANGED <<main, status, due, wake, registry, caller, processes>>

\* The attempt ends; the worker looks for more before it sleeps.
Processed(w) ==
    /\ At(w, "run") /\ status[worker[w].job] = "pending" /\ ~Cancelled
    /\ status' = [status EXCEPT ![worker[w].job] = "cleanup"]
    /\ due' = due \cup {worker[w].job}
    /\ worker' = [v \in Worker |->
           IF v = w THEN Place("scan", due')
           ELSE [worker[v] EXCEPT !.sight = @ \ {worker[w].job}]]
    /\ Wake
    /\ UNCHANGED <<main, late, registry, caller, processes>>

CleanedUp(w) ==
    /\ At(w, "run") /\ status[worker[w].job] = "cleanup" /\ ~Cancelled
    /\ status' = [status EXCEPT ![worker[w].job] = "complete"]
    /\ Look(w)
    /\ UNCHANGED <<main, due, late, wake, registry, caller, processes>>

\* A retry is scheduled, or the lease is left to lapse.
AttemptFails(w) ==
    /\ At(w, "run")
    /\ Look(w)
    /\ UNCHANGED <<main, status, due, late, wake, registry, caller, processes>>

\* A backoff or a lapsed lease ends, and nobody says so.
BecomesDue(u) ==
    /\ status[u] \in Stage /\ u \notin due
    /\ \A w \in Worker : worker[w].job # u
    /\ Due(u) /\ late' = late \cup {u}
    /\ UNCHANGED <<main, status, wake, registry, caller, processes>>

\* The claims are answered, the select is not entered yet.
Sleep(w) ==
    /\ At(w, "idle")
    /\ Go(w, "select")
    /\ UNCHANGED <<main, status, due, late, wake, registry, caller, processes>>

Woken(w) ==
    /\ At(w, "select") /\ wake
    /\ wake' = FALSE /\ Look(w)
    /\ UNCHANGED <<main, status, due, late, registry, caller, processes>>

Tick(w) ==
    /\ At(w, "select")
    /\ Look(w)
    /\ UNCHANGED <<main, status, due, late, wake, registry, caller, processes>>

WorkerReturns(w) ==
    /\ At(w, "select") /\ Cancelled
    /\ Go(w, "gone")
    /\ UNCHANGED <<main, status, due, late, wake, registry, caller, processes>>

\* An attempt is bounded by its context, a claim by the database.
WorkerStep(w) ==
    \/ \E u \in Upload : Claim(w, u)
    \/ NothingToClaim(w) \/ ClaimFails(w)
    \/ Processed(w) \/ CleanedUp(w) \/ AttemptFails(w) \/ Sleep(w)

-----------------------------------------------------------------------------
(* The reconciler and the cleanup loop. *)

ReconcilerReturns ==
    /\ reconciler = "loop" /\ Cancelled /\ caller[Reconciler] \notin Op
    /\ reconciler' = "gone"
    /\ UNCHANGED <<main, queue, registry, caller, cleanup>>

LoopsStopped == ~(In("starting") \/ In("serving") \/ In("shutdown"))

\* A pass is cut short, and the loop ends.
CleanupReturns ==
    /\ cleanup = "loop" /\ LoopsStopped
    /\ cleanup' = "gone"
    /\ UNCHANGED <<main, queue, registry, caller, reconciler>>

-----------------------------------------------------------------------------
(* run(). *)

Becomes(p) == main' = p /\ UNCHANGED <<queue, registry, caller, processes>>

\* Start: the inventory is over, the pool and the reconciler are launched.
Start ==
    /\ In("starting") /\ caller[Reconciler] \notin Op
    /\ main' = "serving" /\ reconciler' = "loop"
    /\ worker' = [w \in Worker |-> Place("scan", due)]
    /\ Wake \/ UNCHANGED wake  \* an inventory that failed wakes nobody
    /\ UNCHANGED <<status, due, late, registry, caller, cleanup>>

Signal == In("serving") /\ Becomes("shutdown")
ListenFails == In("serving") /\ Becomes("stopped loops")

\* Shutdown waits for the requests, but not longer than its timeout.
ShutdownReturns == In("shutdown") /\ Becomes("stopped loops")

\* WaitForCleanup returns, and Stop cancels the lifetime.
CancelLifetime == In("stopped loops") /\ cleanup = "gone" /\ Becomes("cancelled")

\* wg.Wait returns, and the registry is closed.
CloseRegistry ==
    /\ In("cancelled")
    /\ \A w \in Worker : At(w, "gone")
    /\ reconciler = "gone"
    /\ main' = "closing" /\ closing' = TRUE
    /\ UNCHANGED <<queue, op, inFlight, slots, caller, processes>>

\* The registry's Wait returns, and the database is closed.
CloseDatabase ==
    /\ In("closing")
    /\ \A o \in Op : op[o].pc = "over"
    /\ Becomes("closed")

MainStep == Start \/ ShutdownReturns \/ CancelLifetime \/ CloseRegistry \/ CloseDatabase

-----------------------------------------------------------------------------
Next ==
    \/ MainStep \/ Signal \/ ListenFails
    \/ \E c \in Caller : (\E u \in Upload : EnsureDurable(c, u)) \/ Answered(c) \/ GiveUp(c)
    \/ \E o \in Op : OpStep(o)
    \/ \E w \in Worker : WorkerStep(w) \/ Woken(w) \/ Tick(w) \/ WorkerReturns(w)
    \/ \E u \in Upload : BecomesDue(u)
    \/ ReconcilerReturns \/ CleanupReturns

Spec == Init /\ [][Next]_vars

\* Goroutines run, attempts and claims end (each has a context of its own), a
\* pass on a cancelled lifetime asks no more, and a ready case of a select is
\* taken in the end: Go chooses at random.
Fairness ==
    /\ WF_vars(MainStep) /\ SF_vars(ReconcilerReturns) /\ WF_vars(CleanupReturns)
    /\ \A o \in Op : WF_vars(OpStep(o))
    /\ \A c \in Caller : WF_vars(Answered(c))
    /\ \A w \in Worker : WF_vars(WorkerStep(w)) /\ SF_vars(WorkerReturns(w))

FairSpec == Spec /\ Fairness

-----------------------------------------------------------------------------
(* Properties. *)

Unfinished(o) == op[o].pc \in {"work", "wake", "release"}

\* The registry is exact: an upload has at most one operation at work, the one
\* it is registered with, and every operation at work holds one slot.  So a
\* caller is refused as busy only while other uploads hold every slot.
RegistryExact ==
    /\ \A o \in Op : Unfinished(o) => op[o].upload # Null /\ inFlight[op[o].upload] = o
    /\ \A u \in Upload : inFlight[u] # Null => Unfinished(inFlight[u]) /\ op[inFlight[u]].upload = u
    /\ slots = Cardinality({o \in Op : Unfinished(o)})

\* No wakeup is lost: a job that became due by a promotion has a worker awake
\* that has not looked for it yet, or a signal in the channel or on its way
\* there; so has the cleanup that follows a publication.  A worker whose scan
\* began too early, or is over, does not count.  Only a job whose backoff
\* ended, or whose claim failed, is left to a tick.
Attentive ==
    \A u \in due \ late :
        \/ wake \/ Cancelled \/ In("starting")
        \/ \E w \in Worker :
            \/ At(w, "run")
            \/ /\ At(w, "scan") /\ u \in worker[w].sight
               /\ status[u] = "cleanup" => worker[w].stage = "cleanup"
        \/ \E o \in Op : op[o].pc = "wake" /\ status[u] = "pending"

\* The database is closed when nobody waits for it any more: no worker, no
\* operation, no inventory and no cleanup pass is left, and none begins.
ClosedQuietly ==
    In("closed") =>
        /\ \A w \in Worker : At(w, "gone")
        /\ \A o \in Op : op[o].pc = "over"
        /\ reconciler = "gone" /\ cleanup = "gone"

\* The deferred calls run in order, each waiting for its own.
InOrder ==
    /\ closing <=> main \in {"closing", "closed"}
    /\ In("starting") => reconciler = "startup" /\ \A w \in Worker : At(w, "none")
    /\ Cancelled => cleanup = "gone"
    /\ closing => reconciler = "gone" /\ \A w \in Worker : At(w, "gone")

\* A due job waits in a stage that is claimed; a job under way is not due, and
\* is one worker's.
Held ==
    /\ \A u \in due : status[u] \in Stage
    /\ \A w \in Worker : At(w, "run") =>
           /\ worker[w].job \in Upload \ due /\ status[worker[w].job] \in Stage
           /\ \A v \in Worker : At(v, "run") /\ worker[v].job = worker[w].job => v = w

\* The inductive invariant.
LifecycleInv == TypeOK /\ Held /\ RegistryExact /\ Attentive /\ InOrder /\ ClosedQuietly

\* Whoever waits is answered, and the server stops, whatever is under way.
CallersAnswered == \A c \in Caller : caller[c] \in Op ~> caller[c] \notin Op
Stops == In("shutdown") ~> In("closed")
=============================================================================
