------------------------------- MODULE Limits -------------------------------
(***************************************************************************)
(* What one address may ask of the server: the token buckets and the       *)
(* upload slots of ratelimit/limiter.go and ratelimit/concurrency.go, and  *)
(* the handlers that charge them (httpapi/middleware.go, admin.go and      *)
(* tus_proxy.go).                                                          *)
(*                                                                         *)
(* Looking up a bucket and charging it is one step: the pass that drops    *)
(* idle buckets would have to find one idle for half an hour in between.   *)
(* A bucket fills at every tick, where the library computes the same at    *)
(* the next request.  The process does not restart; the pacing of bytes    *)
(* inside a transfer is left out.                                          *)
(***************************************************************************)
EXTENDS Naturals, FiniteSets

CONSTANTS
    Key,        \* addresses
    Request,    \* requests the server has in hand at once
    Rate,       \* tokens a bucket gains per tick, by limiter
    Burst,      \* tokens a full bucket holds, by limiter
    Idle,       \* ticks a bucket may lie unused before it is dropped
    Max,        \* uploads one address may have in progress
    Window,     \* ticks an observer counts for
    Null

Limiter == {"public", "login", "status"}
Route == {"gallery", "status", "login", "upload"}

\* 30 minutes refill what the limits of NewServer hold: the default public and
\* status buckets in 15 seconds, the login bucket in a minute.
ASSUME LimitsAssumption ==
    /\ Rate \in [Limiter -> Nat \ {0}] /\ Burst \in [Limiter -> Nat \ {0}]
    /\ Idle \in Nat /\ \A l \in Limiter : Rate[l] * Idle >= Burst[l]
    /\ Max \in Nat \ {0} /\ Window \in Nat
    /\ IsFiniteSet(Request)
    /\ Null \notin [tokens : Nat, idle : Nat]
    /\ Null \notin [key : Key, route : Route, pc : Limiter \cup {"fence", "transfer", "serve"}]

VARIABLES
    entries,    \* KeyedLimiter.entries: each limiter's bucket for each address
    current,    \* ConcurrencyLimiter.current; an address that is not in it has 0
    request,    \* the requests in hand
    watched,    \* the bucket an observer counts at
    granted,    \* how often it has let a request pass since the count began
    clock       \* ticks since then

observer == <<watched, granted, clock>>
vars == <<entries, current, request, observer>>

Lesser(a, b) == IF a <= b THEN a ELSE b

Bucket(l) == [tokens : 0 .. Burst[l], idle : 0 .. Idle + 1]
RequestRecord == [key : Key, route : Route, pc : Limiter \cup {"fence", "transfer", "serve"}]

TypeOK ==
    /\ entries \in [Limiter -> [Key -> [tokens : Nat, idle : Nat] \cup {Null}]]
    /\ \A l \in Limiter, k \in Key : entries[l][k] \in Bucket(l) \cup {Null}
    /\ current \in [Key -> 0 .. Max]
    /\ request \in [Request -> RequestRecord \cup {Null}]
    /\ watched \in [limiter : Limiter, key : Key]
    /\ granted \in Nat /\ clock \in 0 .. Window

Init ==
    /\ entries = [l \in Limiter |-> [k \in Key |-> Null]]
    /\ current = [k \in Key |-> 0]
    /\ request = [r \in Request |-> Null]
    /\ watched \in [limiter : Limiter, key : Key]
    /\ granted = 0 /\ clock = 0

-----------------------------------------------------------------------------
(* The buckets. *)

Fresh(l) == [tokens |-> Burst[l], idle |-> 0]

\* Mutant: only a new bucket is marked as seen.
Mutant_SeenOnce(l, k) ==
    IF entries[l][k] = Null THEN Fresh(l) ELSE entries[l][k]

\* getLimiter: whoever asks has been seen, also when it is then refused.
GetLimiter(l, k) ==
    IF entries[l][k] = Null THEN Fresh(l) ELSE [entries[l][k] EXCEPT !.idle = 0]

\* What an address could spend at once, had it a bucket or not.
Tokens(l, k) == IF entries[l][k] = Null THEN Burst[l] ELSE entries[l][k].tokens

SetBucket(l, k, b) == entries' = [entries EXCEPT ![l][k] = b]

-----------------------------------------------------------------------------
(* The handlers. *)

At(r, pc) == request[r] # Null /\ request[r].pc = pc
Goto(r, pc) == request' = [request EXCEPT ![r].pc = pc]
Drop(r) == request' = [request EXCEPT ![r] = Null]

\* The status poll has a bucket of its own and does not spend the public one.
FirstLimiter(route) == IF route = "status" THEN "status" ELSE "public"

Arrive(r, k, route) ==
    /\ request[r] = Null
    /\ request' = [request EXCEPT ![r] = [key |-> k, route |-> route, pc |-> FirstLimiter(route)]]
    /\ UNCHANGED <<entries, current, observer>>

\* A login is charged twice, by the public limiter and by its own; an upload
\* meets the fence before it asks for a slot.
AfterLimiter(route, l) ==
    CASE route = "login" /\ l = "public" -> "login"
      [] route = "upload" -> "fence"
      [] OTHER -> "serve"

\* Allow granted: the bucket pays.
Allow(r, l) ==
    /\ At(r, l)
    /\ LET k == request[r].key IN
       /\ Tokens(l, k) > 0
       /\ SetBucket(l, k, [GetLimiter(l, k) EXCEPT !.tokens = @ - 1])
       /\ granted' = IF watched = [limiter |-> l, key |-> k] THEN granted + 1 ELSE granted
    /\ Goto(r, AfterLimiter(request[r].route, l))
    /\ UNCHANGED <<current, watched, clock>>

\* 429, which costs nothing.
TooMany(r, l) ==
    /\ At(r, l)
    /\ LET k == request[r].key IN
       Tokens(l, k) = 0 /\ SetBucket(l, k, GetLimiter(l, k))
    /\ Drop(r)
    /\ UNCHANGED <<current, observer>>

\* Mutant: an upload that is refused has been counted already.
Mutant_CountRefused(r) ==
    /\ At(r, "fence")
    /\ LET k == request[r].key IN
       /\ IF current[k] >= Max THEN Drop(r) ELSE Goto(r, "transfer")
       /\ current' = [current EXCEPT ![k] = @ + 1]
    /\ UNCHANGED <<entries, observer>>

\* TryAcquire: a slot, or 429.
TryAcquire(r) ==
    /\ At(r, "fence")
    /\ LET k == request[r].key IN
       IF current[k] >= Max
       THEN Drop(r) /\ UNCHANGED current
       ELSE Goto(r, "transfer") /\ current' = [current EXCEPT ![k] = @ + 1]
    /\ UNCHANGED <<entries, observer>>

\* Mutant: a transfer that panics leaves its slot behind.
Mutant_KeepSlot(r) ==
    /\ At(r, "transfer")
    /\ current' \in {current, [current EXCEPT ![request[r].key] = @ - 1]}
    /\ Drop(r)
    /\ UNCHANGED <<entries, observer>>

\* The transfer ends, is cut off or panics: the deferred release.
Release(r) ==
    /\ At(r, "transfer")
    /\ current' = [current EXCEPT ![request[r].key] = @ - 1]
    /\ Drop(r)
    /\ UNCHANGED <<entries, observer>>

\* The handler answers, or the fence does before any slot is taken.
Answer(r) ==
    /\ At(r, "serve") \/ At(r, "fence")
    /\ Drop(r)
    /\ UNCHANGED <<entries, current, observer>>

-----------------------------------------------------------------------------
(* Time. *)

Refilled(l, b) ==
    [tokens |-> Lesser(Burst[l], b.tokens + Rate[l]), idle |-> Lesser(Idle + 1, b.idle + 1)]

\* The observer begins a new count whenever it likes.
Tick ==
    /\ entries' = [l \in Limiter |-> [k \in Key |->
           IF entries[l][k] = Null THEN Null ELSE Refilled(l, entries[l][k])]]
    /\ \/ clock < Window /\ clock' = clock + 1 /\ granted' = granted
       \/ clock' = 0 /\ granted' = 0
    /\ UNCHANGED <<current, request, watched>>

\* Cleanup drops the buckets nobody has asked for in a while.
Cleanup(l) ==
    /\ entries' = [entries EXCEPT ![l] = [k \in Key |->
           IF @[k] # Null /\ @[k].idle > Idle THEN Null ELSE @[k]]]
    /\ UNCHANGED <<current, request, observer>>

Handle(r) ==
    \/ \E k \in Key, route \in Route : Arrive(r, k, route)
    \/ \E l \in Limiter : Allow(r, l) \/ TooMany(r, l)
    \/ TryAcquire(r) \/ Release(r) \/ Answer(r)

Next ==
    \/ \E r \in Request : Handle(r)
    \/ Tick
    \/ \E l \in Limiter : Cleanup(l)

Spec == Init /\ [][Next]_vars

-----------------------------------------------------------------------------
(* Properties. *)

\* However long an address stays away, however often its bucket is dropped and
\* made anew, no limiter lets it pass more often than its burst and its rate
\* allow, in any stretch of time.
WithinRate ==
    granted <= Burst[watched.limiter] + Rate[watched.limiter] * clock

\* An address's count of slots is the transfers it has in progress, on whatever
\* path the others ended, and never above the cap.
Holders(k) == {r \in Request : At(r, "transfer") /\ request[r].key = k}
SlotsExact == \A k \in Key : current[k] = Cardinality(Holders(k)) /\ current[k] <= Max

\* A bucket holds at least what it gained since its address was last seen, so
\* that dropping a bucket takes nothing from the count.
IdleMeansFull ==
    \A l \in Limiter, k \in Key : entries[l][k] # Null =>
        entries[l][k].tokens >= Lesser(Burst[l], Rate[l] * entries[l][k].idle)
Balance ==
    granted + Tokens(watched.limiter, watched.key)
        <= Burst[watched.limiter] + Rate[watched.limiter] * clock

\* The inductive invariant.
LimitsInv == TypeOK /\ IdleMeansFull /\ Balance /\ SlotsExact
=============================================================================
