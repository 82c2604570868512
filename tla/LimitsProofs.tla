---------------------------- MODULE LimitsProofs ----------------------------
(***************************************************************************)
(* Proofs about Limits, for any addresses, limits, any finite set of       *)
(* requests and any window.                                                *)
(***************************************************************************)
EXTENDS Limits, FiniteSetTheorems, TLAPS

-----------------------------------------------------------------------------
(* Arithmetic. *)

LEMMA Product ==
    ASSUME NEW a \in Nat, NEW b \in Nat
    PROVE  a * b \in Nat
  OBVIOUS

LEMMA OneMore ==
    ASSUME NEW a \in Nat, NEW b \in Nat
    PROVE  a * (b + 1) = a * b + a
  OBVIOUS

LEMMA Numbers ==
    ASSUME NEW l \in Limiter
    PROVE  /\ Rate[l] \in Nat /\ Burst[l] \in Nat /\ Burst[l] > 0
           /\ Rate[l] * Idle >= Burst[l] /\ Idle \in Nat
  BY LimitsAssumption

-----------------------------------------------------------------------------
(* The bucket of one address. *)

LEMMA NoBucket ==
    ASSUME NEW l \in Limiter
    PROVE  Null \notin Bucket(l)
<1>1. Bucket(l) \subseteq [tokens : Nat, idle : Nat]  BY Numbers DEF Bucket
<1> QED  BY <1>1, LimitsAssumption

LEMMA Buckets ==
    ASSUME TypeOK, NEW l \in Limiter, NEW k \in Key
    PROVE  /\ entries[l][k] # Null =>
                entries[l][k] \in Bucket(l)
           /\ Tokens(l, k) \in 0 .. Burst[l]
           /\ GetLimiter(l, k) \in Bucket(l)
           /\ GetLimiter(l, k).tokens = Tokens(l, k) /\ GetLimiter(l, k).idle = 0
<1>1. entries[l][k] # Null => entries[l][k] \in Bucket(l)  BY DEF TypeOK
<1>2. CASE entries[l][k] = Null
  BY <1>2, Numbers DEF Tokens, GetLimiter, Fresh, Bucket
<1>3. CASE entries[l][k] # Null
  BY <1>1, <1>3, Numbers DEF Tokens, GetLimiter, Bucket
<1> QED  BY <1>1, <1>2, <1>3

\* Setting one bucket leaves the others.
LEMMA BucketSet ==
    ASSUME TypeOK, NEW l \in Limiter, NEW k \in Key, NEW b \in Bucket(l), SetBucket(l, k, b)
    PROVE  /\ entries' \in [Limiter -> [Key -> [tokens : Nat, idle : Nat] \cup {Null}]]
           /\ \A m \in Limiter, j \in Key :
                  entries'[m][j] = IF m = l /\ j = k THEN b ELSE entries[m][j]
           /\ \A m \in Limiter, j \in Key : entries'[m][j] \in Bucket(m) \cup {Null}
<1>1. b \in [tokens : Nat, idle : Nat]  BY Numbers DEF Bucket
<1>2. [entries[l] EXCEPT ![k] = b] \in [Key -> [tokens : Nat, idle : Nat] \cup {Null}]
  BY <1>1 DEF TypeOK
<1>3. entries' = [entries EXCEPT ![l] = [entries[l] EXCEPT ![k] = b]]
  BY DEF SetBucket, TypeOK
<1>4. entries' \in [Limiter -> [Key -> [tokens : Nat, idle : Nat] \cup {Null}]]
  BY <1>2, <1>3 DEF TypeOK
<1>5. \A m \in Limiter, j \in Key :
         entries'[m][j] = IF m = l /\ j = k THEN b ELSE entries[m][j]
  BY <1>3 DEF TypeOK
<1>6. \A m \in Limiter, j \in Key : entries'[m][j] \in Bucket(m) \cup {Null}
  BY <1>5 DEF TypeOK
<1> QED  BY <1>4, <1>5, <1>6

LEMMA RefilledBucket ==
    ASSUME NEW l \in Limiter, NEW b \in Bucket(l)
    PROVE  Refilled(l, b) \in Bucket(l)
  BY Numbers DEF Refilled, Bucket, Lesser

\* A bucket that held what it gained since it was last used still does.
LEMMA RefilledFull ==
    ASSUME NEW l \in Limiter, NEW b \in Bucket(l), b.tokens >= Lesser(Burst[l], Rate[l] * b.idle)
    PROVE  Refilled(l, b).tokens >= Lesser(Burst[l], Rate[l] * Refilled(l, b).idle)
<1> DEFINE R == Rate[l]
           B == Burst[l]
           i == b.idle
           t == b.tokens
<1>1. R \in Nat /\ B \in Nat /\ i \in Nat /\ t \in Nat /\ i <= Idle + 1 /\ Idle \in Nat /\ t <= B
  BY Numbers DEF Bucket
<1>2. R * i \in Nat /\ R * (i + 1) = R * i + R  BY <1>1, Product, OneMore
<1>3. R * Idle \in Nat /\ R * Idle >= B /\ R * (Idle + 1) = R * Idle + R
  BY <1>1, Numbers, Product, OneMore
<1>4. Refilled(l, b).tokens = Lesser(B, t + R)  BY DEF Refilled
<1>5. Refilled(l, b).idle = Lesser(Idle + 1, i + 1)  BY DEF Refilled
<1>6. t >= Lesser(B, R * i)  OBVIOUS
<1> HIDE DEF R, B, i, t
<1>7. CASE i <= Idle
  <2>1. Refilled(l, b).idle = i + 1  BY <1>1, <1>5, <1>7 DEF Lesser
  <2>2. Lesser(B, t + R) >= Lesser(B, R * i + R)  BY <1>1, <1>2, <1>6 DEF Lesser
  <2> QED  BY <1>2, <1>4, <2>1, <2>2 DEF R, B
<1>8. CASE i = Idle + 1
  <2>1. t = B
    <3>1. R * i >= B  BY <1>1, <1>3, <1>8
    <3> QED  BY <3>1, <1>1, <1>2, <1>6 DEF Lesser
  <2>2. Lesser(B, t + R) = B  BY <1>1, <2>1 DEF Lesser
  <2>3. Refilled(l, b).idle = Idle + 1  BY <1>1, <1>5, <1>8 DEF Lesser
  <2>4. Lesser(B, R * (Idle + 1)) <= B
    BY <1>1, <1>3 DEF Lesser
  <2> QED  BY <1>1, <1>4, <2>2, <2>3, <2>4 DEF R, B
<1> QED  BY <1>1, <1>7, <1>8

\* A bucket that may be dropped is full.
LEMMA DroppedFull ==
    ASSUME NEW l \in Limiter, NEW b \in Bucket(l), b.idle > Idle,
           b.tokens >= Lesser(Burst[l], Rate[l] * b.idle)
    PROVE  b.tokens = Burst[l]
<1> DEFINE R == Rate[l]
           B == Burst[l]
           t == b.tokens
<1>1. R \in Nat /\ B \in Nat /\ t \in Nat /\ Idle \in Nat /\ t <= B /\ b.idle = Idle + 1
  BY Numbers DEF Bucket
<1>2. R * Idle \in Nat /\ R * Idle >= B /\ R * (Idle + 1) = R * Idle + R
  BY <1>1, Numbers, Product, OneMore
<1>3. t >= Lesser(B, R * (Idle + 1))  BY <1>1
<1> HIDE DEF R, B, t
<1>4. t = B  BY <1>1, <1>2, <1>3 DEF Lesser
<1> QED  BY <1>4 DEF B, t

-----------------------------------------------------------------------------
(* Slots and their holders. *)

LEMMA HoldersFinite ==
    ASSUME NEW k
    PROVE  IsFiniteSet(Holders(k)) /\ Cardinality(Holders(k)) \in Nat
<1>1. Holders(k) \subseteq Request  BY DEF Holders
<1> QED  BY <1>1, LimitsAssumption, FS_Subset, FS_CardinalityType

\* What a request is when it is taken a step further.
LEMMA NextPlace ==
    ASSUME TypeOK, NEW r \in Request, request[r] # Null,
           NEW pc \in Limiter \cup {"fence", "transfer", "serve"}, Goto(r, pc)
    PROVE  /\ request' \in [Request -> RequestRecord \cup {Null}]
           /\ request'[r] # Null
           /\ request'[r].pc = pc /\ request'[r].key = request[r].key
           /\ \A q \in Request \ {r} : request'[q] = request[q]
<1>1. request[r] \in RequestRecord  BY DEF TypeOK
<1>2. [request[r] EXCEPT !.pc = pc] \in RequestRecord
  BY <1>1 DEF RequestRecord
<1>3. request' = [request EXCEPT ![r] = [request[r] EXCEPT !.pc = pc]]  BY DEF Goto
<1>4. Null \notin RequestRecord  BY LimitsAssumption DEF RequestRecord
<1>5. request' \in [Request -> RequestRecord \cup {Null}]  BY <1>2, <1>3 DEF TypeOK
<1>6. request'[r] = [request[r] EXCEPT !.pc = pc]  BY <1>3 DEF TypeOK
<1>7. \A q \in Request \ {r} : request'[q] = request[q]  BY <1>3 DEF TypeOK
<1>8. request'[r].pc = pc /\ request'[r].key = request[r].key  BY <1>1, <1>6 DEF RequestRecord
<1> QED  BY <1>2, <1>4, <1>5, <1>6, <1>7, <1>8

LEMMA Dropped ==
    ASSUME TypeOK, NEW r \in Request, Drop(r)
    PROVE  /\ request' \in [Request -> RequestRecord \cup {Null}]
           /\ request'[r] = Null
           /\ \A q \in Request \ {r} : request'[q] = request[q]
  BY DEF TypeOK, Drop

\* A step that begins or ends no transfer leaves the holders alone.
LEMMA HoldersStay ==
    ASSUME \A q \in Request : request'[q] = request[q] \/ (~At(q, "transfer") /\ ~At(q, "transfer")'),
           NEW k
    PROVE  Holders(k)' = Holders(k)
  BY DEF Holders, At

LEMMA SlotsStay ==
    ASSUME SlotsExact, UNCHANGED current,
           \A q \in Request : request'[q] = request[q] \/ (~At(q, "transfer") /\ ~At(q, "transfer")')
    PROVE  SlotsExact'
<1> SUFFICES ASSUME NEW k \in Key
             PROVE  (current[k] = Cardinality(Holders(k)) /\ current[k] <= Max)'
  BY DEF SlotsExact
<1>1. Holders(k)' = Holders(k)  BY HoldersStay
<1> QED  BY <1>1 DEF SlotsExact

-----------------------------------------------------------------------------
(* The actions. *)

LEMMA InvInit == Init => LimitsInv
<1> SUFFICES ASSUME Init PROVE LimitsInv  OBVIOUS
<1>1. TypeOK
  <2>1. \A k \in Key : 0 \in 0 .. Max  BY LimitsAssumption
  <2>2. 0 \in 0 .. Window  BY LimitsAssumption
  <2> QED  BY <2>1, <2>2 DEF Init, TypeOK
<1>2. IdleMeansFull  BY DEF Init, IdleMeansFull
<1>3. Balance
  <2> DEFINE l == watched.limiter
  <2>1. l \in Limiter /\ watched.key \in Key  BY DEF Init
  <2>2. Tokens(l, watched.key) = Burst[l]  BY <2>1 DEF Tokens, Init
  <2>3. Rate[l] * 0 = 0 /\ Burst[l] \in Nat  BY <2>1, Numbers
  <2> QED  BY <2>2, <2>3 DEF Balance, Init
<1>4. SlotsExact
  <2> SUFFICES ASSUME NEW k \in Key
               PROVE  current[k] = Cardinality(Holders(k)) /\ current[k] <= Max
    BY DEF SlotsExact
  <2>1. Holders(k) = {}  BY DEF Init, Holders, At
  <2> QED  BY <2>1, FS_EmptySet, LimitsAssumption DEF Init
<1> QED  BY <1>1, <1>2, <1>3, <1>4 DEF LimitsInv

LEMMA ArriveStep ==
    ASSUME LimitsInv, NEW r \in Request, NEW k \in Key, NEW route \in Route, Arrive(r, k, route)
    PROVE  LimitsInv'
<1> USE DEF LimitsInv
<1> DEFINE new == [key |-> k, route |-> route, pc |-> FirstLimiter(route)]
<1>1. new \in RequestRecord  BY DEF RequestRecord, FirstLimiter, Limiter
<1>2. request' = [request EXCEPT ![r] = new]  BY DEF Arrive
<1>3. TypeOK'  BY <1>1, <1>2 DEF TypeOK, Arrive, observer, Bucket
<1>4. IdleMeansFull'  BY DEF IdleMeansFull, Arrive
<1>5. Balance'  BY DEF Balance, Arrive, observer, Tokens
<1>6. ~At(r, "transfer") /\ ~At(r, "transfer")'
  <2>1. request'[r] = new  BY <1>2 DEF TypeOK
  <2>2. new.pc # "transfer"  BY DEF FirstLimiter
  <2> QED  BY <2>1, <2>2 DEF At, Arrive
<1>7. \A q \in Request \ {r} : request'[q] = request[q]  BY <1>2 DEF TypeOK
<1>8. SlotsExact'  BY <1>6, <1>7, SlotsStay DEF Arrive
<1> QED  BY <1>3, <1>4, <1>5, <1>8

\* A bucket that is asked has been used just now.
LEMMA AskedFull ==
    ASSUME LimitsInv, NEW l \in Limiter, NEW k \in Key, NEW b \in Bucket(l), b.idle = 0,
           SetBucket(l, k, b)
    PROVE  IdleMeansFull'
<1> SUFFICES ASSUME NEW m \in Limiter, NEW j \in Key, entries'[m][j] # Null
             PROVE  entries'[m][j].tokens >= Lesser(Burst[m], Rate[m] * entries'[m][j].idle)
  BY DEF IdleMeansFull
<1>1. entries'[m][j] = IF m = l /\ j = k THEN b ELSE entries[m][j]
  BY BucketSet DEF LimitsInv
<1>2. CASE m = l /\ j = k
  <2>1. Rate[l] * 0 = 0 /\ Burst[l] \in Nat  BY Numbers
  <2>2. b.tokens \in Nat  BY Numbers DEF Bucket
  <2> QED  BY <1>1, <1>2, <2>1, <2>2 DEF Lesser
<1>3. CASE ~(m = l /\ j = k)  BY <1>1, <1>3 DEF LimitsInv, IdleMeansFull
<1> QED  BY <1>2, <1>3

LEMMA AllowStep ==
    ASSUME LimitsInv, NEW r \in Request, NEW l \in Limiter, Allow(r, l)
    PROVE  LimitsInv'
<1> USE DEF LimitsInv
<1> DEFINE k == request[r].key
           b == [GetLimiter(l, k) EXCEPT !.tokens = @ - 1]
           w == watched.limiter
           pc == AfterLimiter(request[r].route, l)
<1>1. request[r] \in RequestRecord /\ k \in Key /\ request[r] # Null /\ request[r].pc = l
  BY DEF TypeOK, RequestRecord, Allow, At
<1>2. pc \in Limiter \cup {"fence", "serve"}  BY DEF AfterLimiter, Limiter
<1>3. Tokens(l, k) \in 0 .. Burst[l] /\ Tokens(l, k) > 0  BY <1>1, Buckets DEF Allow
<1>4. b \in Bucket(l) /\ b.idle = 0 /\ b.tokens = Tokens(l, k) - 1
  <2>1. GetLimiter(l, k) \in Bucket(l) /\ GetLimiter(l, k).tokens = Tokens(l, k) /\ GetLimiter(l, k).idle = 0
    BY <1>1, Buckets
  <2> QED  BY <2>1, <1>3, Numbers DEF Bucket
<1>5. SetBucket(l, k, b)  BY DEF Allow
<1>6. Goto(r, pc)  BY DEF Allow
<1> HIDE DEF b
<1>7. /\ request' \in [Request -> RequestRecord \cup {Null}]
      /\ request'[r] # Null /\ request'[r].pc = pc
      /\ \A q \in Request \ {r} : request'[q] = request[q]
  BY <1>1, <1>2, <1>6, NextPlace
<1>8. TypeOK'
  <2>1. granted' \in Nat  BY DEF TypeOK, Allow
  <2>2. /\ entries' \in [Limiter -> [Key -> [tokens : Nat, idle : Nat] \cup {Null}]]
        /\ \A m \in Limiter, j \in Key : entries'[m][j] \in Bucket(m) \cup {Null}
    BY <1>1, <1>4, <1>5, BucketSet
  <2> QED  BY <1>7, <2>1, <2>2 DEF TypeOK, Allow, Bucket
<1>9. IdleMeansFull'  BY <1>1, <1>4, <1>5, AskedFull
<1>10. Balance'
  <2>1. w \in Limiter /\ watched.key \in Key /\ watched' = watched /\ clock' = clock
    BY DEF TypeOK, Allow
  <2>2. Null \notin Bucket(l)  BY NoBucket
  <2>3. entries'[w][watched.key] =
          IF w = l /\ watched.key = k THEN b ELSE entries[w][watched.key]
    BY <1>1, <1>4, <1>5, <2>1, BucketSet
  <2>4. Rate[w] * clock \in Nat /\ Burst[w] \in Nat /\ granted \in Nat
    BY <2>1, Numbers, Product DEF TypeOK
  <2>5. CASE watched = [limiter |-> l, key |-> k]
    <3>1. w = l /\ watched.key = k  BY <2>5
    <3>2. Tokens(w, watched.key)' = Tokens(w, watched.key) - 1
      BY <1>4, <2>1, <2>2, <2>3, <3>1 DEF Tokens
    <3>3. granted' = granted + 1  BY <2>5 DEF Allow
    <3> QED  BY <1>3, <2>1, <2>4, <3>1, <3>2, <3>3 DEF Balance
  <2>6. CASE watched # [limiter |-> l, key |-> k]
    <3>1. ~(w = l /\ watched.key = k)
      <4>1. watched = [limiter |-> w, key |-> watched.key]  BY DEF TypeOK
      <4> QED  BY <2>6, <4>1
    <3>2. Tokens(w, watched.key)' = Tokens(w, watched.key)  BY <2>1, <2>3, <3>1 DEF Tokens
    <3>3. granted' = granted  BY <2>6 DEF Allow
    <3> QED  BY <2>1, <3>2, <3>3 DEF Balance
  <2> QED  BY <2>5, <2>6
<1>11. SlotsExact'
  <2>1. ~At(r, "transfer") /\ ~At(r, "transfer")'
    BY <1>1, <1>2, <1>7 DEF At, Limiter
  <2> QED  BY <1>7, <2>1, SlotsStay DEF Allow
<1> QED  BY <1>8, <1>9, <1>10, <1>11

LEMMA TooManyStep ==
    ASSUME LimitsInv, NEW r \in Request, NEW l \in Limiter, TooMany(r, l)
    PROVE  LimitsInv'
<1> USE DEF LimitsInv
<1> DEFINE k == request[r].key
           b == GetLimiter(l, k)
           w == watched.limiter
<1>1. request[r] \in RequestRecord /\ k \in Key /\ request[r].pc = l
  BY DEF TypeOK, RequestRecord, TooMany, At
<1>2. b \in Bucket(l) /\ b.idle = 0 /\ b.tokens = Tokens(l, k)  BY <1>1, Buckets
<1>3. SetBucket(l, k, b)  BY DEF TooMany
<1>4. /\ request' \in [Request -> RequestRecord \cup {Null}]
      /\ request'[r] = Null /\ \A q \in Request \ {r} : request'[q] = request[q]
  BY Dropped DEF TooMany
<1> HIDE DEF b
<1>5. TypeOK'
  <2>1. /\ entries' \in [Limiter -> [Key -> [tokens : Nat, idle : Nat] \cup {Null}]]
        /\ \A m \in Limiter, j \in Key : entries'[m][j] \in Bucket(m) \cup {Null}
    BY <1>1, <1>2, <1>3, BucketSet
  <2> QED  BY <1>4, <2>1 DEF TypeOK, TooMany, observer, Bucket
<1>6. IdleMeansFull'  BY <1>1, <1>2, <1>3, AskedFull
<1>7. Balance'
  <2>1. w \in Limiter /\ watched.key \in Key /\ UNCHANGED <<watched, granted, clock>>
    BY DEF TypeOK, TooMany, observer
  <2>2. entries'[w][watched.key] =
          IF w = l /\ watched.key = k THEN b ELSE entries[w][watched.key]
    BY <1>1, <1>2, <1>3, <2>1, BucketSet
  <2>3. Tokens(w, watched.key)' = Tokens(w, watched.key)
    BY <1>2, <2>1, <2>2, NoBucket DEF Tokens
  <2> QED  BY <2>1, <2>3 DEF Balance
<1>8. SlotsExact'
  <2>1. ~At(r, "transfer") /\ ~At(r, "transfer")'  BY <1>1, <1>4 DEF At, Limiter
  <2> QED  BY <1>4, <2>1, SlotsStay DEF TooMany
<1> QED  BY <1>5, <1>6, <1>7, <1>8

\* The buckets and the observer have no part in slots and answers.
LEMMA Elsewhere ==
    ASSUME LimitsInv, UNCHANGED <<entries, observer>>
    PROVE  IdleMeansFull' /\ Balance'
  BY DEF LimitsInv, IdleMeansFull, Balance, observer, Tokens

LEMMA TryAcquireStep ==
    ASSUME LimitsInv, NEW r \in Request, TryAcquire(r)
    PROVE  LimitsInv'
<1> USE DEF LimitsInv
<1> DEFINE k == request[r].key
<1>1. request[r] \in RequestRecord /\ k \in Key /\ request[r] # Null /\ request[r].pc = "fence"
  BY DEF TypeOK, RequestRecord, TryAcquire, At
<1>2. IdleMeansFull' /\ Balance'  BY Elsewhere DEF TryAcquire
<1>3. CASE current[k] >= Max
  <2>1. Drop(r) /\ UNCHANGED current  BY <1>3 DEF TryAcquire
  <2>2. /\ request' \in [Request -> RequestRecord \cup {Null}]
        /\ request'[r] = Null /\ \A q \in Request \ {r} : request'[q] = request[q]
    BY <2>1, Dropped
  <2>3. TypeOK'  BY <2>1, <2>2 DEF TypeOK, TryAcquire, observer, Bucket
  <2>4. ~At(r, "transfer") /\ ~At(r, "transfer")'  BY <1>1, <2>2 DEF At
  <2>5. SlotsExact'  BY <2>1, <2>2, <2>4, SlotsStay
  <2> QED  BY <1>2, <2>3, <2>5
<1>4. CASE ~(current[k] >= Max)
  <2>1. Goto(r, "transfer") /\ current' = [current EXCEPT ![k] = @ + 1]  BY <1>4 DEF TryAcquire
  <2>2. /\ request' \in [Request -> RequestRecord \cup {Null}]
        /\ request'[r] # Null /\ request'[r].pc = "transfer" /\ request'[r].key = k
        /\ \A q \in Request \ {r} : request'[q] = request[q]
    BY <1>1, <2>1, NextPlace
  <2>3. current[k] \in Nat /\ Max \in Nat  BY <1>1, LimitsAssumption DEF TypeOK
  <2>4. TypeOK'
    <3>1. current[k] + 1 \in 0 .. Max  BY <1>4, <2>3
    <3>2. current' \in [Key -> 0 .. Max]  BY <2>1, <3>1 DEF TypeOK
    <3> QED  BY <2>2, <3>2 DEF TypeOK, TryAcquire, observer, Bucket
  <2>5. SlotsExact'
    <3> SUFFICES ASSUME NEW j \in Key
                 PROVE  current'[j] = Cardinality(Holders(j)') /\ current'[j] <= Max
      BY DEF SlotsExact
    <3>1. current[j] = Cardinality(Holders(j)) /\ current[j] <= Max  BY DEF SlotsExact
    <3>2. CASE j = k
      <4>1. Holders(j)' = Holders(j) \cup {r} /\ r \notin Holders(j)
        BY <1>1, <2>2, <3>2 DEF Holders, At
      <4>2. Cardinality(Holders(j)') = Cardinality(Holders(j)) + 1
        BY <4>1, HoldersFinite, FS_AddElement
      <4> QED  BY <1>1, <1>4, <2>1, <2>3, <3>1, <3>2, <4>2 DEF TypeOK
    <3>3. CASE j # k
      <4>1. Holders(j)' = Holders(j)  BY <1>1, <2>2, <3>3 DEF Holders, At
      <4> QED  BY <2>1, <3>1, <3>3, <4>1 DEF TypeOK
    <3> QED  BY <3>2, <3>3
  <2> QED  BY <1>2, <2>4, <2>5
<1> QED  BY <1>3, <1>4

LEMMA ReleaseStep ==
    ASSUME LimitsInv, NEW r \in Request, Release(r)
    PROVE  LimitsInv'
<1> USE DEF LimitsInv
<1> DEFINE k == request[r].key
<1>1. request[r] \in RequestRecord /\ k \in Key /\ request[r] # Null /\ request[r].pc = "transfer"
  BY DEF TypeOK, RequestRecord, Release, At
<1>2. IdleMeansFull' /\ Balance'  BY Elsewhere DEF Release
<1>3. current' = [current EXCEPT ![k] = @ - 1]  BY DEF Release
<1>4. /\ request' \in [Request -> RequestRecord \cup {Null}]
      /\ request'[r] = Null /\ \A q \in Request \ {r} : request'[q] = request[q]
  BY Dropped DEF Release
<1>5. \A j \in Key : current[j] = Cardinality(Holders(j)) /\ current[j] \in 0 .. Max /\ Max \in Nat
  BY LimitsAssumption DEF SlotsExact, TypeOK
<1>6. r \in Holders(k)  BY <1>1 DEF Holders, At
<1>7. \A j \in Key : Holders(j)' = IF j = k THEN Holders(j) \ {r} ELSE Holders(j)
  <2> SUFFICES ASSUME NEW j \in Key, NEW q \in Request
               PROVE  q \in Holders(j)' <=> q \in Holders(j) /\ ~(j = k /\ q = r)
    BY DEF Holders
  <2>1. CASE q = r  BY <1>1, <1>4, <2>1 DEF Holders, At
  <2>2. CASE q # r  BY <1>4, <2>2 DEF Holders, At
  <2> QED  BY <2>1, <2>2
<1>8. Cardinality(Holders(k) \ {r}) = Cardinality(Holders(k)) - 1
  BY <1>6, HoldersFinite, FS_RemoveElement
<1>9. current[k] > 0
  <2>1. Holders(k) # {}  BY <1>6
  <2>2. Cardinality(Holders(k)) # 0  BY <2>1, HoldersFinite, FS_EmptySet
  <2> QED  BY <1>1, <1>5, <2>2
<1>10. TypeOK'
  <2>1. current[k] - 1 \in 0 .. Max  BY <1>1, <1>5, <1>9
  <2>2. current' \in [Key -> 0 .. Max]  BY <1>3, <2>1 DEF TypeOK
  <2> QED  BY <1>4, <2>2 DEF TypeOK, Release, observer, Bucket
<1>11. SlotsExact'
  <2> SUFFICES ASSUME NEW j \in Key
               PROVE  current'[j] = Cardinality(Holders(j)') /\ current'[j] <= Max
    BY DEF SlotsExact
  <2>1. CASE j = k
    <3>1. current'[j] = current[k] - 1  BY <1>3, <2>1 DEF TypeOK
    <3>2. Holders(j)' = Holders(k) \ {r}  BY <1>7, <2>1
    <3> QED  BY <1>1, <1>5, <1>8, <1>9, <3>1, <3>2
  <2>2. CASE j # k  BY <1>3, <1>5, <1>7, <2>2 DEF TypeOK
  <2> QED  BY <2>1, <2>2
<1> QED  BY <1>2, <1>10, <1>11

LEMMA AnswerStep ==
    ASSUME LimitsInv, NEW r \in Request, Answer(r)
    PROVE  LimitsInv'
<1> USE DEF LimitsInv
<1>1. IdleMeansFull' /\ Balance'  BY Elsewhere DEF Answer
<1>2. /\ request' \in [Request -> RequestRecord \cup {Null}]
      /\ request'[r] = Null /\ \A q \in Request \ {r} : request'[q] = request[q]
  BY Dropped DEF Answer
<1>3. TypeOK'  BY <1>2 DEF TypeOK, Answer, observer, Bucket
<1>4. ~At(r, "transfer") /\ ~At(r, "transfer")'  BY <1>2 DEF At, Answer
<1>5. SlotsExact'  BY <1>2, <1>4, SlotsStay DEF Answer
<1> QED  BY <1>1, <1>3, <1>5

LEMMA TickStep ==
    ASSUME LimitsInv, Tick
    PROVE  LimitsInv'
<1> USE DEF LimitsInv
<1> DEFINE w == watched.limiter
           j == watched.key
<1>1. \A l \in Limiter, k \in Key :
         entries'[l][k] = IF entries[l][k] = Null THEN Null ELSE Refilled(l, entries[l][k])
  BY DEF Tick
<1>2. \A l \in Limiter, k \in Key : entries'[l][k] \in Bucket(l) \cup {Null}
  BY <1>1, Buckets, RefilledBucket
<1>3. \A l \in Limiter : Bucket(l) \subseteq [tokens : Nat, idle : Nat]  BY Numbers DEF Bucket
<1>4. entries' \in [Limiter -> [Key -> [tokens : Nat, idle : Nat] \cup {Null}]]
  <2>1. entries' = [l \in Limiter |-> [k \in Key |-> entries'[l][k]]]  BY DEF Tick
  <2> QED  BY <1>2, <1>3, <2>1
<1>5. UNCHANGED <<current, request, watched>>  BY DEF Tick
<1>6. clock' \in 0 .. Window /\ granted' \in Nat
  BY LimitsAssumption DEF Tick, TypeOK
<1>7. TypeOK'  BY <1>2, <1>4, <1>5, <1>6 DEF TypeOK, Bucket
<1>8. IdleMeansFull'
  <2> SUFFICES ASSUME NEW l \in Limiter, NEW k \in Key, entries'[l][k] # Null
               PROVE  entries'[l][k].tokens >= Lesser(Burst[l], Rate[l] * entries'[l][k].idle)
    BY DEF IdleMeansFull
  <2>1. entries[l][k] # Null /\ entries'[l][k] = Refilled(l, entries[l][k])  BY <1>1
  <2>2. entries[l][k] \in Bucket(l)  BY <2>1, Buckets
  <2>3. entries[l][k].tokens >= Lesser(Burst[l], Rate[l] * entries[l][k].idle)
    BY <2>1 DEF IdleMeansFull
  <2> QED  BY <2>1, <2>2, <2>3, RefilledFull
<1>9. Balance'
  <2>1. w \in Limiter /\ j \in Key /\ watched' = watched  BY <1>5 DEF TypeOK
  <2>2. Tokens(w, j) \in 0 .. Burst[w] /\ Tokens(w, j)' \in 0 .. Burst[w]
    <3>1. Tokens(w, j) \in 0 .. Burst[w]  BY <2>1, Buckets
    <3>2. entries'[w][j] \in Bucket(w) \cup {Null}  BY <1>2, <2>1
    <3>3. Burst[w] \in 0 .. Burst[w]  BY <2>1, Numbers
    <3> QED  BY <2>1, <3>1, <3>2, <3>3 DEF Tokens, Bucket
  <2>3. Tokens(w, j)' <= Tokens(w, j) + Rate[w]
    <3>1. CASE entries[w][j] = Null
      BY <1>1, <2>1, <3>1, Numbers DEF Tokens
    <3>2. CASE entries[w][j] # Null
      <4>1. entries[w][j] \in Bucket(w)  BY <2>1, <3>2, Buckets
      <4>2. entries'[w][j] = Refilled(w, entries[w][j])  BY <1>1, <2>1, <3>2
      <4>3. Refilled(w, entries[w][j]) # Null
        BY <2>1, <4>1, NoBucket, RefilledBucket
      <4>4. Tokens(w, j)' = Refilled(w, entries[w][j]).tokens
        BY <2>1, <4>2, <4>3 DEF Tokens
      <4>5. Tokens(w, j) = entries[w][j].tokens  BY <3>2 DEF Tokens
      <4>6. Refilled(w, entries[w][j]).tokens <= entries[w][j].tokens + Rate[w]
        BY <2>1, <4>1, Numbers DEF Refilled, Lesser, Bucket
      <4> QED  BY <4>4, <4>5, <4>6
    <3> QED  BY <3>1, <3>2
  <2>4. Burst[w] \in Nat /\ Rate[w] \in Nat /\ granted \in Nat /\ clock \in Nat
    BY <2>1, Numbers DEF TypeOK
  <2>5. granted + Tokens(w, j) <= Burst[w] + Rate[w] * clock  BY DEF Balance
  <2>6. CASE clock' = clock + 1 /\ granted' = granted
    <3>1. Rate[w] * (clock + 1) = Rate[w] * clock + Rate[w] /\ Rate[w] * clock \in Nat
      BY <2>4, OneMore, Product
    <3> QED  BY <2>1, <2>2, <2>3, <2>4, <2>5, <2>6, <3>1 DEF Balance
  <2>7. CASE clock' = 0 /\ granted' = 0
    <3>1. Rate[w] * 0 = 0  BY <2>4
    <3> QED  BY <2>1, <2>2, <2>4, <2>7, <3>1 DEF Balance
  <2> QED  BY <2>6, <2>7 DEF Tick
<1>10. SlotsExact'  BY <1>5, SlotsStay
<1> QED  BY <1>7, <1>8, <1>9, <1>10

LEMMA CleanupStep ==
    ASSUME LimitsInv, NEW l \in Limiter, Cleanup(l)
    PROVE  LimitsInv'
<1> USE DEF LimitsInv
<1> DEFINE w == watched.limiter
           j == watched.key
           left == [k \in Key |-> IF entries[l][k] # Null /\ entries[l][k].idle > Idle
                                  THEN Null ELSE entries[l][k]]
<1>1. entries' = [entries EXCEPT ![l] = left]  BY DEF Cleanup
<1>2. \A m \in Limiter, k \in Key :
         \/ entries'[m][k] = entries[m][k]
         \/ entries'[m][k] = Null /\ entries[m][k] # Null /\ entries[m][k].idle > Idle
  BY <1>1 DEF TypeOK
<1>3. left \in [Key -> [tokens : Nat, idle : Nat] \cup {Null}]  BY DEF TypeOK
<1>4. UNCHANGED <<current, request, watched, granted, clock>>  BY DEF Cleanup, observer
<1>5. TypeOK'
  <2>1. entries' \in [Limiter -> [Key -> [tokens : Nat, idle : Nat] \cup {Null}]]
    BY <1>1, <1>3 DEF TypeOK
  <2>2. \A m \in Limiter, k \in Key : entries'[m][k] \in Bucket(m) \cup {Null}
    BY <1>2 DEF TypeOK
  <2> QED  BY <1>4, <2>1, <2>2 DEF TypeOK, Bucket
<1>6. IdleMeansFull'  BY <1>2 DEF IdleMeansFull
<1>7. Balance'
  <2>1. w \in Limiter /\ j \in Key  BY DEF TypeOK
  <2>2. Tokens(w, j)' = Tokens(w, j)
    <3>1. CASE entries'[w][j] = entries[w][j]  BY <1>4, <3>1 DEF Tokens
    <3>2. CASE entries'[w][j] = Null /\ entries[w][j] # Null /\ entries[w][j].idle > Idle
      <4>1. entries[w][j] \in Bucket(w)  BY <2>1, <3>2, Buckets
      <4>2. entries[w][j].tokens = Burst[w]
        BY <2>1, <3>2, <4>1, DroppedFull DEF IdleMeansFull
      <4> QED  BY <1>4, <3>2, <4>2 DEF Tokens
    <3> QED  BY <1>2, <2>1, <3>1, <3>2
  <2> QED  BY <1>4, <2>2 DEF Balance
<1>8. SlotsExact'  BY <1>4, SlotsStay
<1> QED  BY <1>5, <1>6, <1>7, <1>8

LEMMA InvNext == LimitsInv /\ [Next]_vars => LimitsInv'
<1> SUFFICES ASSUME LimitsInv, [Next]_vars PROVE LimitsInv'  OBVIOUS
<1>1. CASE \E r \in Request : Handle(r)
  <2>1. PICK r \in Request : Handle(r)  BY <1>1
  <2> QED
    BY <2>1, ArriveStep, AllowStep, TooManyStep, TryAcquireStep, ReleaseStep, AnswerStep DEF Handle
<1>2. CASE Tick  BY <1>2, TickStep
<1>3. CASE \E l \in Limiter : Cleanup(l)  BY <1>3, CleanupStep
<1>4. CASE UNCHANGED vars
  <2>1. UNCHANGED <<entries, current, request, watched, granted, clock>>
    BY <1>4 DEF vars, observer
  <2>2. TypeOK'  BY <2>1 DEF LimitsInv, TypeOK, Bucket
  <2>3. IdleMeansFull' /\ Balance'  BY <2>1, Elsewhere DEF observer
  <2>4. SlotsExact'  BY <2>1, SlotsStay DEF LimitsInv
  <2> QED  BY <2>2, <2>3, <2>4 DEF LimitsInv
<1> QED  BY <1>1, <1>2, <1>3, <1>4 DEF Next

-----------------------------------------------------------------------------
(* Theorems. *)

\* Buckets, slots and the observer's count agree at every moment, whatever the
\* handlers, the clock and the pass over idle buckets do.
THEOREM LimitsCorrect == Spec => []LimitsInv
  BY InvInit, InvNext, PTL DEF Spec

\* No address passes a limiter more often than its burst and rate allow in any
\* stretch of time, whichever buckets were dropped meanwhile.
THEOREM RateBounded == Spec => []WithinRate
<1>1. LimitsInv => WithinRate
  <2> SUFFICES ASSUME LimitsInv PROVE WithinRate  OBVIOUS
  <2> DEFINE w == watched.limiter
  <2>1. w \in Limiter /\ watched.key \in Key /\ granted \in Nat /\ clock \in Nat
    BY DEF LimitsInv, TypeOK
  <2>2. Tokens(w, watched.key) \in Nat  BY <2>1, Buckets, Numbers DEF LimitsInv
  <2>3. Burst[w] \in Nat /\ Rate[w] * clock \in Nat  BY <2>1, Numbers, Product
  <2> QED  BY <2>1, <2>2, <2>3 DEF LimitsInv, Balance, WithinRate
<1> QED  BY <1>1, LimitsCorrect, PTL

\* An address's count of slots is its transfers in progress, at most Max.
THEOREM SlotsAreExact == Spec => []SlotsExact
<1>1. LimitsInv => SlotsExact  BY DEF LimitsInv
<1> QED  BY <1>1, LimitsCorrect, PTL
=============================================================================
