---------------------------- MODULE IngestPromise ----------------------------
(***************************************************************************)
(* What the ingest pipeline owes a guest, without queue, leases or files   *)
(* other than the uploaded source itself: the invariants of the durable    *)
(* ingest design that bind a source to its upload.                         *)
(*                                                                         *)
(* An upload is being transferred until the durability commit makes it the *)
(* gallery's responsibility.  From there it can only be published, or      *)
(* condemned for a fault of its own bytes; a transfer that never committed *)
(* may be condemned for any reason.  The source is removed for no other    *)
(* cause, and nothing a guest was promised is ever taken back.             *)
(***************************************************************************)
CONSTANTS
    Upload,     \* upload ids
    Refusable   \* uploads whose own bytes are unacceptable

VARIABLES
    state,      \* how far each upload has come
    source      \* uploads whose complete source is on disk

vars == <<state, source>>

State == {"transferring", "durable", "published", "condemned"}

Init ==
    /\ state = [u \in Upload |-> "transferring"]
    /\ source \in SUBSET Upload

Becomes(u, next) == state' = [state EXCEPT ![u] = next] /\ UNCHANGED source

\* The last byte of a transfer arrives, perhaps after it was abandoned.
Arrive(u) ==
    /\ state[u] \in {"transferring", "condemned"}
    /\ source' = source \cup {u}
    /\ UNCHANGED state

\* The durability commit, only ever over a complete source.
Commit(u) ==
    /\ state[u] = "transferring" /\ u \in source
    /\ Becomes(u, "durable")

\* A transfer is cancelled or abandoned before its commit.
Abandon(u) ==
    /\ state[u] = "transferring"
    /\ Becomes(u, "condemned")

\* A committed upload is condemned for its own bytes only.
Refuse(u) ==
    /\ state[u] = "durable" /\ u \in Refusable
    /\ Becomes(u, "condemned")

Publish(u) ==
    /\ state[u] = "durable" /\ u \notin Refusable
    /\ Becomes(u, "published")

\* The source goes once it is redundant or condemned.
Remove(u) ==
    /\ state[u] \in {"published", "condemned"} /\ u \in source
    /\ source' = source \ {u}
    /\ UNCHANGED state

Next ==
    \E u \in Upload :
        Arrive(u) \/ Commit(u) \/ Abandon(u) \/ Refuse(u) \/ Publish(u) \/ Remove(u)

Spec == Init /\ [][Next]_vars
=============================================================================
