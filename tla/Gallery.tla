------------------------------- MODULE Gallery -------------------------------
(***************************************************************************)
(* The public gallery: the rows of store/media.go and store/moderation.go  *)
(* as administrators and the pipeline change them, the pages ListGallery   *)
(* cuts from them, and the grid of hooks/useGallery.ts, whose requests are *)
(* answered late, out of order, or not at all.                             *)
(*                                                                         *)
(* Newest first, the only order the grid asks for.  An item's sort keys    *)
(* never change; their order is that of the stored strings.                *)
(***************************************************************************)
EXTENDS Naturals, FiniteSets

CONSTANTS
    Media,      \* ids of media items, ordered as their strings are
    Settled,    \* items published before, which no administrator touches
    Sort,       \* the keys a gallery can be sorted by
    Key,        \* of each sort, the key of each item
    PageSize,   \* items of a page
    Cap,        \* most items the API returns
    Request,    \* slots for the requests in flight
    Null

ASSUME MediaAssumption == Media \subseteq Nat /\ IsFiniteSet(Media) /\ Settled \subseteq Media
ASSUME KeyAssumption == Key \in [Sort -> [Media -> Nat]]
ASSUME LimitAssumption == PageSize \in Nat \ {0} /\ Cap \in Nat \ {0}

VARIABLES
    status,             \* of each media_items row, "none" before and "purged" after
    approved,           \* rows with an approved_at
    approvalRequired,   \* the setting
    sort, items, cursor, hasMore, loading,  \* the grid
    request,            \* the requests in flight
    latest,             \* requestIdRef: the newest load, whose answer counts
    walk                \* the walk the grid is on: its sort, and the items
                        \* visible without a break since its first page was cut

rows == <<status, approved, approvalRequired>>
grid == <<sort, items, cursor, hasMore, loading>>
vars == <<rows, grid, request, latest, walk>>

HasRow(m) == status[m] \in {"active", "trashed"}
Visible == {m \in Media : status[m] = "active" /\ m \in approved}

-----------------------------------------------------------------------------
(* Pages. *)

CursorRecord == [key : Nat, id : Media]
CursorAt(s, m) == [key |-> Key[s][m], id |-> m]

\* Mutant: items that share the last one's time have no order.
Mutant_KeyAlone(s, c, m) == c = Null \/ Key[s][m] < c.key

\* Item m of the listing by s lies beyond the cursor.
Beyond(s, c, m) ==
    \/ c = Null
    \/ Key[s][m] < c.key
    \/ Key[s][m] = c.key /\ m < c.id

\* In the listing by s item k comes before item m.
Before(s, k, m) == Key[s][k] > Key[s][m] \/ (Key[s][k] = Key[s][m] /\ k > m)

\* The first n items of S in the listing by s.
FirstOf(s, S, n) == {m \in S : Cardinality({k \in S : Before(s, k, m)}) < n}

Page(s, c, n) == FirstOf(s, {m \in Visible : Beyond(s, c, m)}, n)

\* The cursor of the page is its last item's, if the listing goes on.
IsNextCursor(s, c, P, next) ==
    IF {m \in Visible : Beyond(s, c, m)} = P
    THEN next = Null
    ELSE \E last \in P :
            /\ \A m \in P : ~Before(s, last, m)
            /\ next = CursorAt(s, last)

-----------------------------------------------------------------------------
(* Requests: asked, then answered with a page. *)

Asked(kind, s, c, n) ==
    [kind |-> kind, sort |-> s, cursor |-> c, limit |-> n,
     answered |-> FALSE, page |-> {}, next |-> Null, seen |-> {}]

RequestRecord ==
    [kind : {"reset", "page", "refresh"}, sort : Sort, cursor : CursorRecord \cup {Null},
     limit : Nat, answered : BOOLEAN, page : SUBSET Media,
     next : CursorRecord \cup {Null}, seen : SUBSET Media]

ASSUME NullAssumption == Null \notin Request \cup Sort \cup CursorRecord \cup RequestRecord

Free == {r \in Request : request[r] = Null}
IsLoad(r) == request[r] # Null /\ request[r].kind \in {"reset", "page"}
Current(r) == IsLoad(r) /\ r = latest
First(q) == q.cursor = Null

TypeOK ==
    /\ status \in [Media -> {"none", "active", "trashed", "purged"}]
    /\ approved \subseteq Media /\ approvalRequired \in BOOLEAN
    /\ sort \in Sort /\ items \subseteq Media
    /\ cursor \in CursorRecord \cup {Null}
    /\ hasMore \in BOOLEAN /\ loading \in BOOLEAN
    /\ request \in [Request -> RequestRecord \cup {Null}]
    /\ latest \in Request \cup {Null}
    /\ walk \in [sort : Sort \cup {Null}, since : SUBSET Media]

Init ==
    /\ status = [m \in Media |-> IF m \in Settled THEN "active" ELSE "none"]
    /\ approved = Settled /\ approvalRequired \in BOOLEAN
    /\ sort \in Sort /\ items = {} /\ cursor = Null
    /\ hasMore = TRUE /\ loading = FALSE
    /\ request = [r \in Request |-> Null] /\ latest = Null
    /\ walk = [sort |-> Null, since |-> {}]

-----------------------------------------------------------------------------
(* Rows. *)

\* Items that can no longer be seen have not been visible without a break.
Noticed ==
    /\ walk' = [walk EXCEPT !.since = @ \cap Visible']
    /\ request' = [r \in Request |->
            IF request[r] = Null THEN Null
            ELSE [request[r] EXCEPT !.seen = @ \cap Visible']]
    /\ UNCHANGED <<grid, latest>>

\* The pipeline publishes an item; the statement itself reads the setting.
InsertMedia(m) ==
    /\ status[m] = "none"
    /\ status' = [status EXCEPT ![m] = "active"]
    /\ approved' = IF approvalRequired THEN approved ELSE approved \cup {m}
    /\ UNCHANGED approvalRequired
    /\ Noticed

\* Mutant: only what is not in the trash is approved.
Mutant_ApproveShown(required) ==
    /\ approvalRequired' = required
    /\ approved' = IF required THEN approved ELSE approved \cup {m \in Media : status[m] = "active"}
    /\ UNCHANGED status
    /\ Noticed

\* Disabling moderation approves every pending item in the transaction.
SetApprovalRequired(required) ==
    /\ approvalRequired' = required
    /\ approved' = IF required THEN approved ELSE approved \cup {m \in Media : HasRow(m)}
    /\ UNCHANGED status
    /\ Noticed

ApproveBulk(ids) ==
    /\ approved' = approved \cup {m \in ids : status[m] = "active"}
    /\ UNCHANGED <<status, approvalRequired>>
    /\ Noticed

\* Delete and restore.
SetStatusBulk(ids, target) ==
    /\ status' = [m \in Media |-> IF m \in ids /\ HasRow(m) THEN target ELSE status[m]]
    /\ UNCHANGED <<approved, approvalRequired>>
    /\ Noticed

PurgeTrashed(ids) ==
    /\ \A m \in ids : status[m] = "trashed"
    /\ status' = [m \in Media |-> IF m \in ids THEN "purged" ELSE status[m]]
    /\ approved' = approved \ ids
    /\ UNCHANGED approvalRequired
    /\ Noticed

-----------------------------------------------------------------------------
(* The grid. *)

\* loadPage: a load supersedes the one before it.
LoadPage(r, kind, s, c) ==
    /\ r \in Free
    /\ request' = [request EXCEPT ![r] = Asked(kind, s, c, PageSize)]
    /\ latest' = r
    /\ loading' = TRUE
    /\ UNCHANGED <<items, cursor, hasMore, walk, rows>>

\* The grid opens, or the guest picks another sort.
Open(r) ==
    /\ latest = Null
    /\ LoadPage(r, "reset", sort, Null)
    /\ UNCHANGED sort

ChangeSort(r, s) ==
    /\ latest # Null /\ s # sort
    /\ sort' = s
    /\ LoadPage(r, "reset", s, Null)

LoadMore(r) ==
    /\ latest # Null /\ ~loading /\ hasMore
    /\ LoadPage(r, "page", sort, cursor)
    /\ UNCHANGED sort

\* The poll for the items of a batch just uploaded: the newest page, long
\* enough for what the grid shows and the batch.
RefreshLimit(expected) ==
    LET wanted == Cardinality(items) + expected
        atLeast == IF wanted > PageSize THEN wanted ELSE PageSize
    IN  IF atLeast < Cap THEN atLeast ELSE Cap

RefreshNewest(r, expected) ==
    /\ r \in Free
    /\ request' = [request EXCEPT ![r] = Asked("refresh", sort, Null, RefreshLimit(expected))]
    /\ UNCHANGED <<rows, grid, latest, walk>>

\* handleGallery answers; the grid makes no use of a refresh's cursor.
Serve(r) ==
    /\ request[r] # Null /\ ~request[r].answered
    /\ LET q == request[r]
           P == Page(q.sort, q.cursor, q.limit)
       IN  \E next \in {CursorAt(q.sort, m) : m \in Media} \cup {Null} :
            /\ IF IsLoad(r) THEN IsNextCursor(q.sort, q.cursor, P, next) ELSE next = Null
            /\ request' = [request EXCEPT
                    ![r] = [q EXCEPT !.answered = TRUE, !.page = P, !.next = next,
                                     !.seen = IF IsLoad(r) /\ First(q) THEN Visible ELSE {}]]
    /\ UNCHANGED <<rows, grid, latest, walk>>

Done(r) == request' = [request EXCEPT ![r] = Null]

\* The answer to the newest load replaces the grid or extends it, and moves
\* the cursor.
AcceptLoad(r) ==
    LET q == request[r] IN
    /\ items' = IF q.kind = "reset" THEN q.page ELSE items \cup q.page
    /\ cursor' = q.next
    /\ hasMore' = (q.next # Null)
    /\ loading' = FALSE
    /\ walk' = IF First(q) THEN [sort |-> q.sort, since |-> q.seen]
               ELSE [walk EXCEPT !.sort = IF @ = q.sort THEN @ ELSE Null]
    /\ UNCHANGED sort

AcceptRefresh(r) ==
    /\ items' = items \cup request[r].page
    /\ UNCHANGED <<sort, cursor, hasMore, loading, walk>>

\* Mutant: an overtaken load ends the wait for the newest one.
Mutant_StopSpinner == loading' = FALSE /\ UNCHANGED <<sort, items, cursor, hasMore, walk>>

DropAnswer == UNCHANGED <<grid, walk>>

Deliver(r) ==
    /\ request[r] # Null /\ request[r].answered
    /\ Done(r)
    /\ \/ Current(r) /\ AcceptLoad(r)
       \/ IsLoad(r) /\ r # latest /\ DropAnswer
       \/ ~IsLoad(r) /\ AcceptRefresh(r)
    /\ UNCHANGED <<rows, latest>>

\* The request fails, before the server sees it or after.
Fail(r) ==
    /\ request[r] # Null
    /\ Done(r)
    /\ loading' = IF Current(r) THEN FALSE ELSE loading
    /\ UNCHANGED <<sort, items, cursor, hasMore, rows, latest, walk>>

-----------------------------------------------------------------------------
Administrator ==
    \/ \E required \in BOOLEAN : SetApprovalRequired(required)
    \/ \E ids \in SUBSET (Media \ Settled) \ {{}} :
        \/ ApproveBulk(ids)
        \/ \E target \in {"active", "trashed"} : SetStatusBulk(ids, target)
        \/ PurgeTrashed(ids)

Guest ==
    \E r \in Request :
        \/ Open(r)
        \/ \E s \in Sort : ChangeSort(r, s)
        \/ LoadMore(r)
        \/ \E expected \in 1 .. Cardinality(Media) : RefreshNewest(r, expected)
        \/ Deliver(r)
        \/ Fail(r)

Next ==
    \/ \E m \in Media : InsertMedia(m)
    \/ Administrator
    \/ Guest
    \/ \E r \in Request : Serve(r)

Spec == Init /\ [][Next]_vars

-----------------------------------------------------------------------------
(* Properties. *)

\* An item is pending only while approval is required: an upload cannot race
\* the toggle and stay invisible after approval is turned off, nor can one
\* that was in the trash when it was.
PendingOnlyUnderApproval ==
    ~approvalRequired => \A m \in Media : HasRow(m) => m \in approved

\* "The end of the gallery" is true: every item visible since the listing was
\* opened is shown, however many pages it took, whatever was published,
\* approved or trashed between them and whichever requests were overtaken or
\* failed.  A grid whose reset failed pages on under the new sort with the old
\* one's cursor; it is on no walk (walk.sort = Null) and is promised nothing.
AtTheEnd == ~hasMore /\ ~loading
NothingSkipped == AtTheEnd /\ walk.sort = sort => walk.since \subseteq items

\* The spinner turns exactly while the newest load is under way: no overtaken
\* or failed request stops it early or leaves it, and LoadMore, blocked.
SpinnerTrue == loading <=> \E r \in Request : Current(r)

-----------------------------------------------------------------------------
(* Why nothing is skipped. *)

\* Left for the next page.
Left(s, more, c, m) == more /\ Beyond(s, c, m)

\* What the walk owes the guest is in the grid or beyond the cursor.
Walked ==
    walk.sort # Null => \A m \in walk.since : m \in items \/ Left(walk.sort, hasMore, cursor, m)

\* The newest load was asked for this sort, and for the page at the cursor.
Asking ==
    \A r \in Request : Current(r) =>
        /\ request[r].sort = sort
        /\ ~First(request[r]) =>
                request[r].kind = "page" /\ hasMore /\ request[r].cursor = cursor

\* Its answer keeps what the walk owes, or opens a walk.
Kept(q, m) == m \in q.page \/ Left(q.sort, q.next # Null, q.next, m)
Owed(q) ==
    IF First(q) THEN \A m \in q.seen : Kept(q, m)
    ELSE q.sort = walk.sort => \A m \in walk.since : m \in items \/ Kept(q, m)
Answering ==
    \A r \in Request : Current(r) /\ request[r].answered => Owed(request[r])

\* What was seen without a break is visible now.
StillVisible ==
    /\ walk.since \subseteq Visible
    /\ \A r \in Request : request[r] # Null => request[r].seen \subseteq Visible

\* A grid never loses sight of an item it owes: the inductive invariant.
GalleryInv ==
    TypeOK /\ PendingOnlyUnderApproval /\ SpinnerTrue /\ Walked /\ Asking /\ Answering /\ StillVisible
=============================================================================
