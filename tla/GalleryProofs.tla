---------------------------- MODULE GalleryProofs ----------------------------
(***************************************************************************)
(* Proofs about Gallery, for any items, sort keys, page sizes and requests.*)
(***************************************************************************)
EXTENDS Gallery, FiniteSetTheorems, TLAPS

-----------------------------------------------------------------------------
(* Pages. *)

\* The condition on a cursor is the order of the listing.
LEMMA BeyondIsAfter ==
    ASSUME NEW s \in Sort, NEW k \in Media, NEW m \in Media
    PROVE  /\ CursorAt(s, k) \in CursorRecord
           /\ Beyond(s, CursorAt(s, k), m) <=> Before(s, k, m)
<1>1. Key[s][k] \in Nat /\ Key[s][m] \in Nat /\ k \in Nat /\ m \in Nat
  BY KeyAssumption, MediaAssumption
<1>2. CursorAt(s, k) \in CursorRecord  BY <1>1 DEF CursorAt, CursorRecord
<1>3. CursorAt(s, k) # Null  BY <1>2, NullAssumption
<1> QED  BY <1>1, <1>2, <1>3 DEF Beyond, Before, CursorAt

\* A page is a prefix of the listing: what it leaves out comes after all of it.
LEMMA PageIsPrefix ==
    ASSUME NEW s \in Sort, NEW S \in SUBSET Media, NEW n \in Nat,
           NEW k \in FirstOf(s, S, n), NEW m \in S \ FirstOf(s, S, n)
    PROVE  Before(s, k, m)
<1> DEFINE Ahead(x) == {y \in S : Before(s, y, x)}
<1>1. IsFiniteSet(S)  BY MediaAssumption, FS_Subset
<1>2. IsFiniteSet(Ahead(k)) /\ IsFiniteSet(Ahead(m))  BY <1>1, FS_Subset
<1>3. Cardinality(Ahead(k)) \in Nat /\ Cardinality(Ahead(m)) \in Nat
  BY <1>2, FS_CardinalityType
<1>4. Cardinality(Ahead(k)) < n /\ ~(Cardinality(Ahead(m)) < n) /\ k \in S
  BY DEF FirstOf
<1> SUFFICES ASSUME ~Before(s, k, m) PROVE FALSE  OBVIOUS
<1>5. k # m  BY <1>4
<1>6. \A x \in Media : Key[s][x] \in Nat /\ x \in Nat  BY KeyAssumption, MediaAssumption
<1>7. Before(s, m, k)  BY <1>4, <1>5, <1>6 DEF Before
<1>8. Ahead(m) \subseteq Ahead(k)
  <2> SUFFICES ASSUME NEW y \in S, Before(s, y, m) PROVE Before(s, y, k)  OBVIOUS
  <2> QED  BY <1>4, <1>6, <1>7 DEF Before
<1>9. Cardinality(Ahead(m)) <= Cardinality(Ahead(k))  BY <1>2, <1>8, FS_Subset
<1> QED  BY <1>3, <1>4, <1>9

\* An answer gives every item of its listing, or leaves it beyond its cursor.
LEMMA AnswerKeeps ==
    ASSUME NEW s \in Sort, NEW c \in CursorRecord \cup {Null}, NEW n \in Nat,
           NEW next \in CursorRecord \cup {Null},
           IsNextCursor(s, c, Page(s, c, n), next),
           NEW m \in Visible, Beyond(s, c, m)
    PROVE  m \in Page(s, c, n) \/ Left(s, next # Null, next, m)
<1> DEFINE S == {x \in Visible : Beyond(s, c, x)}
<1>1. S \in SUBSET Media /\ m \in S /\ Page(s, c, n) = FirstOf(s, S, n)  BY DEF Visible, Page
<1> SUFFICES ASSUME m \notin FirstOf(s, S, n) PROVE Left(s, next # Null, next, m)  BY <1>1
<1>2. PICK last \in FirstOf(s, S, n) : next = CursorAt(s, last)  BY <1>1 DEF IsNextCursor
<1>3. last \in Media  BY <1>1 DEF FirstOf
<1>4. Before(s, last, m)  BY <1>1, PageIsPrefix
<1>5. next \in CursorRecord /\ Beyond(s, next, m)  BY <1>1, <1>2, <1>3, <1>4, BeyondIsAfter
<1> QED  BY <1>5, NullAssumption DEF Left

-----------------------------------------------------------------------------
(* The inductive invariant. *)

LEMMA InitInv == Init => GalleryInv
<1> SUFFICES ASSUME Init PROVE GalleryInv  OBVIOUS
<1>1. \A r \in Request : request[r] = Null  BY DEF Init
<1>2. \A r \in Request : ~Current(r)  BY <1>1 DEF Current, IsLoad
<1>3. TypeOK  BY MediaAssumption DEF Init, TypeOK
<1>4. PendingOnlyUnderApproval  BY DEF Init, PendingOnlyUnderApproval, HasRow
<1>5. SpinnerTrue  BY <1>2 DEF Init, SpinnerTrue
<1>6. Walked  BY DEF Init, Walked
<1>7. Asking /\ Answering  BY <1>2 DEF Asking, Answering
<1>8. StillVisible  BY <1>1 DEF Init, StillVisible
<1> QED  BY <1>3, <1>4, <1>5, <1>6, <1>7, <1>8 DEF GalleryInv

\* A change of the rows takes items out of sight, and asks nothing.
LEMMA RowsInv ==
    ASSUME GalleryInv, Noticed, PendingOnlyUnderApproval',
           status' \in [Media -> {"none", "active", "trashed", "purged"}],
           approved' \subseteq Media, approvalRequired' \in BOOLEAN
    PROVE  GalleryInv'
<1> USE DEF GalleryInv
<1>0. request \in [Request -> RequestRecord \cup {Null}]
      /\ walk \in [sort : Sort \cup {Null}, since : SUBSET Media]  BY DEF TypeOK
<1>1. \A r \in Request : request'[r] =
        IF request[r] = Null THEN Null ELSE [request[r] EXCEPT !.seen = @ \cap Visible']
  BY DEF Noticed
<1>2. \A r \in Request : request[r] # Null =>
        /\ request[r] \in RequestRecord /\ request'[r] \in RequestRecord /\ request'[r] # Null
        /\ request'[r].kind = request[r].kind /\ request'[r].sort = request[r].sort
        /\ request'[r].cursor = request[r].cursor /\ request'[r].answered = request[r].answered
        /\ request'[r].page = request[r].page /\ request'[r].next = request[r].next
        /\ request'[r].seen = request[r].seen \cap Visible'
  <2> SUFFICES ASSUME NEW r \in Request, request[r] # Null
               PROVE  /\ request[r] \in RequestRecord /\ request'[r] \in RequestRecord
                      /\ request'[r] # Null
                      /\ request'[r].kind = request[r].kind /\ request'[r].sort = request[r].sort
                      /\ request'[r].cursor = request[r].cursor
                      /\ request'[r].answered = request[r].answered
                      /\ request'[r].page = request[r].page /\ request'[r].next = request[r].next
                      /\ request'[r].seen = request[r].seen \cap Visible'
    OBVIOUS
  <2>1. request[r] \in RequestRecord  BY <1>0
  <2>2. request'[r] = [request[r] EXCEPT !.seen = @ \cap Visible']  BY <1>1
  <2>3. request'[r] \in RequestRecord  BY <2>1, <2>2 DEF RequestRecord
  <2>4. request'[r] # Null  BY <2>3, NullAssumption
  <2> QED  BY <2>1, <2>2, <2>3, <2>4 DEF RequestRecord
<1>3. walk' = [walk EXCEPT !.since = @ \cap Visible'] /\ walk'.sort = walk.sort
      /\ walk'.since = walk.since \cap Visible'
  BY <1>0 DEF Noticed
<1>4. \A r \in Request : (request'[r] = Null) = (request[r] = Null)  BY <1>1, <1>2
<1>5. \A r \in Request : Current(r)' <=> Current(r)
  BY <1>2, <1>4 DEF Current, IsLoad, Noticed
<1>6. TypeOK'
  <2>1. request' \in [Request -> RequestRecord \cup {Null}]
    BY <1>1, <1>2 DEF Noticed
  <2>2. walk' \in [sort : Sort \cup {Null}, since : SUBSET Media]  BY <1>0, <1>3
  <2> QED  BY <2>1, <2>2 DEF TypeOK, Noticed, grid
<1>7. SpinnerTrue'  BY <1>5 DEF SpinnerTrue, Noticed, grid
<1>8. Walked'  BY <1>3 DEF Walked, Noticed, grid, Left, Beyond
<1>9. Asking'  BY <1>2, <1>5 DEF Asking, Noticed, grid, First, Current, IsLoad
<1>10. Answering'
  <2> SUFFICES ASSUME NEW r \in Request, Current(r)', request'[r].answered
               PROVE  Owed(request[r])'
    BY DEF Answering
  <2>1. Owed(request[r])  BY <1>2, <1>5 DEF Answering, Current, IsLoad
  <2> QED
    BY <1>2, <1>3, <1>5, <2>1 DEF Owed, Kept, Noticed, grid, First, Current, IsLoad, Left, Beyond
<1>11. StillVisible'  BY <1>2, <1>3, <1>4 DEF StillVisible
<1> QED  BY <1>6, <1>7, <1>8, <1>9, <1>10, <1>11

\* The rows' own steps keep what RowsInv asks for.
LEMMA RowsStep ==
    ASSUME GalleryInv, (\E m \in Media : InsertMedia(m)) \/ Administrator
    PROVE  GalleryInv'
<1> USE DEF GalleryInv
<1>0. /\ status \in [Media -> {"none", "active", "trashed", "purged"}]
      /\ approved \subseteq Media /\ approvalRequired \in BOOLEAN
  BY DEF TypeOK
<1>1. ASSUME NEW m \in Media, InsertMedia(m) PROVE GalleryInv'
  <2>1. PendingOnlyUnderApproval'
    BY <1>0, <1>1 DEF InsertMedia, PendingOnlyUnderApproval, HasRow
  <2> QED  BY <1>0, <1>1, <2>1, RowsInv DEF InsertMedia
<1>2. ASSUME NEW required \in BOOLEAN, SetApprovalRequired(required) PROVE GalleryInv'
  <2>1. PendingOnlyUnderApproval'
    BY <1>0, <1>2 DEF SetApprovalRequired, PendingOnlyUnderApproval, HasRow
  <2> QED  BY <1>0, <1>2, <2>1, RowsInv DEF SetApprovalRequired
<1>3. ASSUME NEW ids \in SUBSET Media, ApproveBulk(ids) PROVE GalleryInv'
  <2>1. PendingOnlyUnderApproval'
    BY <1>0, <1>3 DEF ApproveBulk, PendingOnlyUnderApproval, HasRow
  <2> QED  BY <1>0, <1>3, <2>1, RowsInv DEF ApproveBulk
<1>4. ASSUME NEW ids \in SUBSET Media, NEW target \in {"active", "trashed"},
             SetStatusBulk(ids, target)
      PROVE  GalleryInv'
  <2>1. PendingOnlyUnderApproval'
    BY <1>0, <1>4 DEF SetStatusBulk, PendingOnlyUnderApproval, HasRow
  <2>2. status' \in [Media -> {"none", "active", "trashed", "purged"}]
    BY <1>0, <1>4 DEF SetStatusBulk
  <2> QED  BY <1>0, <1>4, <2>1, <2>2, RowsInv DEF SetStatusBulk
<1>5. ASSUME NEW ids \in SUBSET Media, PurgeTrashed(ids) PROVE GalleryInv'
  <2>1. PendingOnlyUnderApproval'
    BY <1>0, <1>5 DEF PurgeTrashed, PendingOnlyUnderApproval, HasRow
  <2>2. status' \in [Media -> {"none", "active", "trashed", "purged"}]
    BY <1>0, <1>5 DEF PurgeTrashed
  <2> QED  BY <1>0, <1>5, <2>1, <2>2, RowsInv DEF PurgeTrashed
<1> QED  BY <1>1, <1>2, <1>3, <1>4, <1>5, MediaAssumption DEF Administrator

\* A load asks for the sort shown, from the start or at the cursor.
LEMMA LoadInv ==
    ASSUME GalleryInv, NEW r \in Request, NEW kind \in {"reset", "page"},
           NEW c \in CursorRecord \cup {Null}, sort' \in Sort,
           LoadPage(r, kind, sort', c),
           c # Null => kind = "page" /\ hasMore /\ c = cursor
    PROVE  GalleryInv'
<1> USE DEF GalleryInv
<1> DEFINE q == Asked(kind, sort', c, PageSize)
<1>0. request \in [Request -> RequestRecord \cup {Null}]  BY DEF TypeOK
<1>1. q \in RequestRecord /\ q # Null
  <2>1. q \in RequestRecord  BY LimitAssumption DEF Asked, RequestRecord
  <2> QED  BY <2>1, NullAssumption
<1>2. /\ request' = [request EXCEPT ![r] = q] /\ latest' = r /\ loading' = TRUE
      /\ UNCHANGED <<items, cursor, hasMore, walk, rows>>
  BY DEF LoadPage
<1>3. request'[r] = q /\ \A x \in Request : x # r => request'[x] = request[x]  BY <1>0, <1>2
<1>4. \A x \in Request : Current(x)' <=> x = r
  BY <1>1, <1>2, <1>3 DEF Current, IsLoad, Asked
<1>5. ~q.answered /\ q.kind = kind /\ q.sort = sort' /\ q.cursor = c /\ q.seen = {}
  BY DEF Asked
<1>6. TypeOK'  BY <1>1, <1>2 DEF TypeOK, rows
<1>7. PendingOnlyUnderApproval'  BY <1>2 DEF PendingOnlyUnderApproval, HasRow, rows
<1>8. SpinnerTrue'  BY <1>2, <1>4 DEF SpinnerTrue
<1>9. Walked'  BY <1>2 DEF Walked, Left, Beyond
<1>10. Asking'  BY <1>2, <1>3, <1>4, <1>5 DEF Asking, First
<1>11. Answering'  BY <1>3, <1>4, <1>5 DEF Answering
<1>12. StillVisible'  BY <1>2, <1>3, <1>5 DEF StillVisible, Visible, rows
<1> QED  BY <1>6, <1>7, <1>8, <1>9, <1>10, <1>11, <1>12

\* A poll is no load, and takes a slot no load is in.
LEMMA RefreshInv ==
    ASSUME GalleryInv, NEW r \in Request, NEW expected \in Nat, RefreshNewest(r, expected)
    PROVE  GalleryInv'
<1> USE DEF GalleryInv
<1> DEFINE q == Asked("refresh", sort, Null, RefreshLimit(expected))
<1>0. request \in [Request -> RequestRecord \cup {Null}] /\ items \subseteq Media /\ sort \in Sort
  BY DEF TypeOK
<1>1. q \in RequestRecord /\ q # Null
  <2>1. Cardinality(items) \in Nat  BY <1>0, MediaAssumption, FS_Subset, FS_CardinalityType
  <2>2. RefreshLimit(expected) \in Nat  BY <2>1, LimitAssumption DEF RefreshLimit
  <2>3. q \in RequestRecord  BY <1>0, <2>2 DEF Asked, RequestRecord
  <2> QED  BY <2>3, NullAssumption
<1>2. /\ request' = [request EXCEPT ![r] = q] /\ request[r] = Null
      /\ UNCHANGED <<rows, grid, latest, walk>>
  BY DEF RefreshNewest, Free
<1>3. request'[r] = q /\ \A x \in Request : x # r => request'[x] = request[x]  BY <1>0, <1>2
<1>4. q.kind = "refresh" /\ q.seen = {}  BY DEF Asked
<1>5. \A x \in Request : /\ Current(x)' <=> Current(x)
                         /\ Current(x) => request'[x] = request[x]
  BY <1>2, <1>3, <1>4 DEF Current, IsLoad
<1>6. TypeOK'  BY <1>1, <1>2 DEF TypeOK, rows, grid
<1>7. PendingOnlyUnderApproval'  BY <1>2 DEF PendingOnlyUnderApproval, HasRow, rows
<1>8. SpinnerTrue'  BY <1>2, <1>5 DEF SpinnerTrue, grid
<1>9. Walked'  BY <1>2 DEF Walked, Left, Beyond, grid
<1>10. Asking'  BY <1>2, <1>5 DEF Asking, First, grid
<1>11. Answering'
  <2> SUFFICES ASSUME NEW x \in Request, Current(x)', request'[x].answered
               PROVE  Owed(request[x])'
    BY DEF Answering
  <2>1. Owed(request[x]) /\ request'[x] = request[x]  BY <1>5 DEF Answering
  <2> QED  BY <1>2, <2>1 DEF Owed, Kept, First, Left, Beyond, grid
<1>12. StillVisible'  BY <1>2, <1>3, <1>4 DEF StillVisible, Visible, rows
<1> QED  BY <1>6, <1>7, <1>8, <1>9, <1>10, <1>11, <1>12

\* The server's answer keeps what the walk owes.
LEMMA ServeInv ==
    ASSUME GalleryInv, NEW r \in Request, Serve(r)
    PROVE  GalleryInv'
<1> USE DEF GalleryInv
<1> DEFINE q == request[r]
           P == Page(q.sort, q.cursor, q.limit)
           seen == IF IsLoad(r) /\ First(q) THEN Visible ELSE {}
<1>0. /\ request \in [Request -> RequestRecord \cup {Null}]
      /\ q \in RequestRecord /\ Visible \subseteq Media
      /\ q.sort \in Sort /\ q.cursor \in CursorRecord \cup {Null} /\ q.limit \in Nat
  <2>1. request \in [Request -> RequestRecord \cup {Null}] /\ q \in RequestRecord
    BY DEF TypeOK, Serve
  <2> QED  BY <2>1 DEF RequestRecord, Visible
<1>1. PICK next \in {CursorAt(q.sort, m) : m \in Media} \cup {Null} :
        /\ IF IsLoad(r) THEN IsNextCursor(q.sort, q.cursor, P, next) ELSE next = Null
        /\ request' = [request EXCEPT
              ![r] = [q EXCEPT !.answered = TRUE, !.page = P, !.next = next, !.seen = seen]]
  BY DEF Serve
<1>2. next \in CursorRecord \cup {Null}  BY <1>0, <1>1, BeyondIsAfter
<1>3. UNCHANGED <<rows, grid, latest, walk>>  BY DEF Serve
<1>4. P \in SUBSET Media /\ seen \in SUBSET Visible  BY <1>0 DEF Page, FirstOf
<1>5. /\ request'[r] = [q EXCEPT !.answered = TRUE, !.page = P, !.next = next, !.seen = seen]
      /\ \A x \in Request : x # r => request'[x] = request[x]
  BY <1>0, <1>1
<1>6. /\ request'[r] \in RequestRecord /\ request'[r].kind = q.kind /\ request'[r].sort = q.sort
      /\ request'[r].cursor = q.cursor /\ request'[r].page = P /\ request'[r].next = next
      /\ request'[r].seen = seen /\ request'[r] # Null
  <2>1. request'[r] \in RequestRecord  BY <1>0, <1>2, <1>4, <1>5 DEF RequestRecord
  <2> QED  BY <1>0, <1>5, <2>1, NullAssumption DEF RequestRecord
<1>7. \A x \in Request : Current(x)' <=> Current(x)
  BY <1>0, <1>3, <1>5, <1>6, NullAssumption DEF Current, IsLoad
<1>8. TypeOK'
  <2>1. request' \in [Request -> RequestRecord \cup {Null}]  BY <1>0, <1>1, <1>5, <1>6
  <2> QED  BY <1>3, <2>1 DEF TypeOK, rows, grid
<1>9. PendingOnlyUnderApproval'  BY <1>3 DEF PendingOnlyUnderApproval, HasRow, rows
<1>10. SpinnerTrue'  BY <1>3, <1>7 DEF SpinnerTrue, grid
<1>11. Walked'  BY <1>3 DEF Walked, Left, Beyond, grid
<1>12. Asking'  BY <1>3, <1>5, <1>6, <1>7 DEF Asking, First, grid
<1>13. Answering'
  <2> SUFFICES ASSUME NEW x \in Request, Current(x)', request'[x].answered
               PROVE  Owed(request[x])'
    BY DEF Answering
  <2>1. CASE x # r
    <3>1. request'[x] = request[x] /\ Current(x)  BY <1>5, <1>7, <2>1
    <3>2. Owed(request[x])  BY <3>1 DEF Answering
    <3>3. walk' = walk /\ items' = items  BY <1>3 DEF grid
    <3> QED  BY <3>1, <3>2, <3>3 DEF Owed, Kept, First, Left, Beyond
  <2>2. CASE x = r
    <3>1. Current(r) /\ IsLoad(r)  BY <1>7, <2>2 DEF Current
    <3>2. \A m \in Visible : Beyond(q.sort, q.cursor, m) => m \in P \/ Left(q.sort, next # Null, next, m)
      <4>1. IsNextCursor(q.sort, q.cursor, P, next)  BY <1>1, <3>1
      <4>2. /\ q.sort \in Sort /\ q.cursor \in CursorRecord \cup {Null} /\ q.limit \in Nat
            /\ next \in CursorRecord \cup {Null}
        BY <1>0, <1>2
      <4> HIDE DEF q
      <4> QED  BY <4>1, <4>2, AnswerKeeps
    <3>3. CASE First(q)
      <4>1. \A m \in seen : m \in P \/ Left(q.sort, next # Null, next, m)
        BY <1>4, <3>2, <3>3 DEF First, Beyond
      <4> QED  BY <1>6, <2>2, <3>3, <4>1 DEF Owed, Kept, First, Left, Beyond
    <3>4. CASE ~First(q)
      <4>1. hasMore /\ q.cursor = cursor  BY <3>1, <3>4 DEF Asking
      <4>2. ASSUME q.sort = walk.sort, NEW m \in walk.since
            PROVE  m \in items \/ m \in P \/ Left(q.sort, next # Null, next, m)
        <5>1. walk.sort # Null  BY <1>0, <4>2, NullAssumption
        <5>2. m \in items \/ Beyond(q.sort, q.cursor, m)
          BY <4>1, <4>2, <5>1 DEF Walked, Left
        <5> QED  BY <3>2, <4>2, <5>2 DEF StillVisible
      <4> QED  BY <1>3, <1>6, <2>2, <3>4, <4>2 DEF Owed, Kept, First, Left, Beyond, grid
    <3> QED  BY <3>3, <3>4
  <2> QED  BY <2>1, <2>2
<1>14. StillVisible'  BY <1>3, <1>4, <1>5, <1>6 DEF StillVisible, Visible, rows
<1> QED  BY <1>8, <1>9, <1>10, <1>11, <1>12, <1>13, <1>14

\* A request that is over leaves the others alone.
LEMMA DoneFacts ==
    ASSUME TypeOK, NEW r \in Request, request[r] # Null, Done(r)
    PROVE  /\ request[r] \in RequestRecord
           /\ request' \in [Request -> RequestRecord \cup {Null}]
           /\ request'[r] = Null
           /\ \A x \in Request : x # r => request'[x] = request[x]
BY DEF TypeOK, Done

\* An answer to the newest load moves the walk on; any other only adds items.
LEMMA DeliverInv ==
    ASSUME GalleryInv, NEW r \in Request, Deliver(r)
    PROVE  GalleryInv'
<1> USE DEF GalleryInv
<1> DEFINE q == request[r]
<1>0. /\ request[r] # Null /\ q.answered /\ Done(r) /\ UNCHANGED <<rows, latest>>
      /\ \/ Current(r) /\ AcceptLoad(r)
         \/ IsLoad(r) /\ r # latest /\ DropAnswer
         \/ ~IsLoad(r) /\ AcceptRefresh(r)
  BY DEF Deliver
<1>1. /\ q \in RequestRecord /\ request' \in [Request -> RequestRecord \cup {Null}]
      /\ request'[r] = Null /\ \A x \in Request : x # r => request'[x] = request[x]
  BY <1>0, DoneFacts
<1>2. PendingOnlyUnderApproval'  BY <1>0 DEF PendingOnlyUnderApproval, HasRow, rows
<1>3. \A x \in Request : Current(x)' <=> Current(x) /\ x # r
  BY <1>0, <1>1 DEF Current, IsLoad
<1>4. Visible' = Visible  BY <1>0 DEF Visible, rows
<1>5. \A x \in Request : request'[x] # Null => request'[x].seen \subseteq Visible
  BY <1>1 DEF StillVisible
<1>6. CASE Current(r) /\ AcceptLoad(r)
  <2>1. \A x \in Request : ~Current(x)'  BY <1>3, <1>6 DEF Current
  <2>2. TypeOK'
    <3>1. /\ q.page \subseteq Media /\ q.next \in CursorRecord \cup {Null}
          /\ q.sort \in Sort /\ q.seen \subseteq Media
      BY <1>1 DEF RequestRecord
    <3>2. walk \in [sort : Sort \cup {Null}, since : SUBSET Media]  BY DEF TypeOK
    <3>3. walk' \in [sort : Sort \cup {Null}, since : SUBSET Media]
      BY <1>6, <3>1, <3>2 DEF AcceptLoad
    <3>4. items' \subseteq Media /\ cursor' \in CursorRecord \cup {Null}
          /\ hasMore' \in BOOLEAN /\ loading' \in BOOLEAN
      BY <1>6, <3>1 DEF AcceptLoad, TypeOK
    <3> QED  BY <1>0, <1>1, <1>6, <3>3, <3>4 DEF TypeOK, AcceptLoad, rows
  <2>3. SpinnerTrue'  BY <1>6, <2>1 DEF SpinnerTrue, AcceptLoad
  <2>4. Owed(q)  BY <1>0, <1>6 DEF Answering
  <2>5. hasMore' = (q.next # Null) /\ cursor' = q.next /\ q.page \subseteq items'
        /\ (q.kind # "reset" => items \subseteq items')
    BY <1>6 DEF AcceptLoad
  <2>6. Walked'
    <3>1. CASE First(q)
      <4>1. walk' = [sort |-> q.sort, since |-> q.seen]  BY <1>6, <3>1 DEF AcceptLoad
      <4>2. walk'.sort = q.sort /\ walk'.since = q.seen  BY <4>1
      <4>3. \A m \in q.seen : Kept(q, m)  BY <2>4, <3>1 DEF Owed
      <4> HIDE DEF q
      <4> QED  BY <2>5, <4>2, <4>3 DEF Walked, Kept, Left, Beyond
    <3>2. CASE ~First(q)
      <4>0. walk \in [sort : Sort \cup {Null}, since : SUBSET Media]  BY DEF TypeOK
      <4>1. walk'.since = walk.since /\ walk'.sort = IF walk.sort = q.sort THEN walk.sort ELSE Null
        BY <1>6, <3>2, <4>0 DEF AcceptLoad
      <4>2. q.kind = "page"  BY <1>6, <3>2 DEF Asking
      <4>3. q.sort = walk.sort => \A m \in walk.since : m \in items \/ Kept(q, m)
        BY <2>4, <3>2 DEF Owed
      <4>4. items \subseteq items'  BY <2>5, <4>2
      <4> QED  BY <2>5, <4>1, <4>3, <4>4 DEF Walked, Kept, Left, Beyond
    <3> QED  BY <3>1, <3>2
  <2>7. walk'.since \subseteq Visible
    <3>1. walk \in [sort : Sort \cup {Null}, since : SUBSET Media]  BY DEF TypeOK
    <3>2. walk'.since \in {q.seen, walk.since}  BY <1>6, <3>1 DEF AcceptLoad
    <3> QED  BY <1>0, <3>2 DEF StillVisible
  <2> QED
    BY <1>2, <1>4, <1>5, <2>1, <2>2, <2>3, <2>6, <2>7 DEF Asking, Answering, StillVisible
<1>7. CASE ~Current(r) /\ UNCHANGED <<sort, cursor, hasMore, loading, walk>>
           /\ items \subseteq items' /\ items' \subseteq Media
  <2>1. TypeOK'  BY <1>0, <1>1, <1>7 DEF TypeOK, rows
  <2>2. \A x \in Request : /\ Current(x)' <=> Current(x)
                           /\ Current(x) => request'[x] = request[x]
    BY <1>1, <1>3, <1>7
  <2>3. SpinnerTrue'  BY <1>7, <2>2 DEF SpinnerTrue
  <2>4. Walked'  BY <1>7 DEF Walked, Left, Beyond
  <2>5. Asking'  BY <1>7, <2>2 DEF Asking, First
  <2>6. Answering'
    <3> SUFFICES ASSUME NEW x \in Request, Current(x)', request'[x].answered
                 PROVE  Owed(request[x])'
      BY DEF Answering
    <3>1. Owed(request[x]) /\ request'[x] = request[x]  BY <2>2 DEF Answering
    <3> QED  BY <1>7, <3>1 DEF Owed, Kept, First, Left, Beyond
  <2>7. StillVisible'  BY <1>4, <1>5, <1>7 DEF StillVisible
  <2> QED  BY <1>2, <2>1, <2>3, <2>4, <2>5, <2>6, <2>7
<1>8. CASE IsLoad(r) /\ r # latest /\ DropAnswer
  BY <1>7, <1>8 DEF Current, DropAnswer, grid, TypeOK
<1>9. CASE ~IsLoad(r) /\ AcceptRefresh(r)
  <2>1. q.page \subseteq Media /\ items \subseteq Media  BY <1>1 DEF RequestRecord, TypeOK
  <2> QED  BY <1>7, <1>9, <2>1 DEF Current, AcceptRefresh
<1> QED  BY <1>0, <1>6, <1>8, <1>9

LEMMA FailInv ==
    ASSUME GalleryInv, NEW r \in Request, Fail(r)
    PROVE  GalleryInv'
<1> USE DEF GalleryInv
<1>0. /\ request[r] # Null /\ Done(r) /\ loading' = IF Current(r) THEN FALSE ELSE loading
      /\ UNCHANGED <<sort, items, cursor, hasMore, rows, latest, walk>>
  BY DEF Fail
<1>1. /\ request' \in [Request -> RequestRecord \cup {Null}]
      /\ request'[r] = Null /\ \A x \in Request : x # r => request'[x] = request[x]
  BY <1>0, DoneFacts
<1>2. PendingOnlyUnderApproval'  BY <1>0 DEF PendingOnlyUnderApproval, HasRow, rows
<1>3. \A x \in Request : /\ Current(x)' <=> Current(x) /\ x # r
                         /\ x # r => request'[x] = request[x]
  BY <1>0, <1>1 DEF Current, IsLoad
<1>4. TypeOK'  BY <1>0, <1>1 DEF TypeOK, rows
<1>5. SpinnerTrue'  BY <1>0, <1>3 DEF SpinnerTrue, Current
<1>6. Walked'  BY <1>0 DEF Walked, Left, Beyond
<1>7. Asking'  BY <1>0, <1>3 DEF Asking, First
<1>8. Answering'
  <2> SUFFICES ASSUME NEW x \in Request, Current(x)', request'[x].answered
               PROVE  Owed(request[x])'
    BY DEF Answering
  <2>1. Owed(request[x]) /\ request'[x] = request[x]  BY <1>3 DEF Answering
  <2> QED  BY <1>0, <2>1 DEF Owed, Kept, First, Left, Beyond
<1>9. StillVisible'  BY <1>0, <1>1 DEF StillVisible, Visible, rows
<1> QED  BY <1>2, <1>4, <1>5, <1>6, <1>7, <1>8, <1>9

LEMMA NextInv == GalleryInv /\ [Next]_vars => GalleryInv'
<1> SUFFICES ASSUME GalleryInv, [Next]_vars PROVE GalleryInv'  OBVIOUS
<1>1. CASE (\E m \in Media : InsertMedia(m)) \/ Administrator  BY <1>1, RowsStep
<1>2. ASSUME NEW r \in Request, Open(r) PROVE GalleryInv'
  <2>1. sort' = sort /\ sort' \in Sort  BY <1>2 DEF Open, GalleryInv, TypeOK
  <2>2. LoadPage(r, "reset", sort', Null)  BY <1>2, <2>1 DEF Open
  <2> QED  BY <2>1, <2>2, LoadInv
<1>3. ASSUME NEW r \in Request, NEW s \in Sort, ChangeSort(r, s) PROVE GalleryInv'
  <2>1. sort' \in Sort /\ LoadPage(r, "reset", sort', Null)  BY <1>3 DEF ChangeSort
  <2> QED  BY <2>1, LoadInv
<1>4. ASSUME NEW r \in Request, LoadMore(r) PROVE GalleryInv'
  <2>1. sort' = sort /\ sort' \in Sort /\ cursor \in CursorRecord \cup {Null} /\ hasMore
    BY <1>4 DEF LoadMore, GalleryInv, TypeOK
  <2>2. LoadPage(r, "page", sort', cursor)  BY <1>4, <2>1 DEF LoadMore
  <2> QED  BY <2>1, <2>2, LoadInv
<1>5. ASSUME NEW r \in Request, NEW expected \in 1 .. Cardinality(Media),
             RefreshNewest(r, expected)
      PROVE  GalleryInv'
  <2>1. expected \in Nat  BY MediaAssumption, FS_CardinalityType
  <2> QED  BY <1>5, <2>1, RefreshInv
<1>6. ASSUME NEW r \in Request, Deliver(r) PROVE GalleryInv'  BY <1>6, DeliverInv
<1>7. ASSUME NEW r \in Request, Fail(r) PROVE GalleryInv'  BY <1>7, FailInv
<1>8. ASSUME NEW r \in Request, Serve(r) PROVE GalleryInv'  BY <1>8, ServeInv
<1>9. CASE UNCHANGED vars
  <2>1. UNCHANGED <<status, approved, approvalRequired, sort, items, cursor, hasMore, loading,
                    request, latest, walk>>
    BY <1>9 DEF vars, rows, grid
  <2> QED
    BY <2>1 DEF GalleryInv, TypeOK, PendingOnlyUnderApproval, HasRow, SpinnerTrue, Walked, Asking,
                Answering, StillVisible, Current, IsLoad, Visible, Owed, Kept, Left, Beyond, First
<1> QED  BY <1>1, <1>2, <1>3, <1>4, <1>5, <1>6, <1>7, <1>8, <1>9 DEF Next, Guest

\* The grid and the requests in flight never lose sight of an item the walk
\* owes the guest (useGallery.ts loadPage and refreshNewest over ListGallery).
THEOREM GalleryCorrect == Spec => []GalleryInv
<1> QED  BY InitInv, NextInv, PTL DEF Spec

\* Where "the end of the gallery" is shown, every item visible since the
\* listing was opened is: for any items, sort keys, page sizes and requests.
THEOREM NothingIsSkipped == Spec => []NothingSkipped
<1>1. GalleryInv => NothingSkipped
  <2> SUFFICES ASSUME GalleryInv, AtTheEnd, walk.sort = sort PROVE walk.since \subseteq items
    BY DEF NothingSkipped
  <2>1. walk.sort # Null  BY NullAssumption DEF GalleryInv, TypeOK
  <2> QED  BY <2>1 DEF GalleryInv, Walked, AtTheEnd, Left
<1> QED  BY <1>1, GalleryCorrect, PTL

\* Nothing stays pending after moderation is turned off (SetApprovalRequired
\* and InsertMedia, each one statement of the database).
THEOREM NothingStaysPending == Spec => []PendingOnlyUnderApproval
<1>1. GalleryInv => PendingOnlyUnderApproval  BY DEF GalleryInv
<1> QED  BY <1>1, GalleryCorrect, PTL

\* The spinner turns exactly while the newest load is under way.
THEOREM SpinnerIsTrue == Spec => []SpinnerTrue
<1>1. GalleryInv => SpinnerTrue  BY DEF GalleryInv
<1> QED  BY <1>1, GalleryCorrect, PTL
=============================================================================
