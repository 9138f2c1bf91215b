-------------------------------- MODULE Pages --------------------------------
(***************************************************************************)
(* The paged lists of the budget domain: a walk through the grant history  *)
(* or the caller's requests, newest first, or through the review queue,    *)
(* oldest first, while rows are written and requests reviewed.  A row's    *)
(* created_at is the start of the transaction that writes it, so rows may  *)
(* become visible in another order than their timestamps'.                 *)
(***************************************************************************)
EXTENDS Optional, Integers, FiniteSets, FiniteSetsExt

CONSTANTS
    Rows,           \* the rows of one account, numbered as their transactions start
    Lists,          \* the lists walked: "grants", "mine", "pending"
    Limits,         \* the page sizes a caller asks for, none (Nil) among them
    DefaultSize,    \* 20 in the code
    MaxSize,        \* 50
    MaxRepoLimit,   \* 200
    MaxInstant,     \* transactions start at instants up to this one
    Ties            \* whether two rows may share a timestamp

ASSUME PagesAssumption ==
    /\ Rows \subseteq Nat
    /\ MaxRepoLimit \in Nat \ {0} /\ MaxSize \in 1 .. MaxRepoLimit
    /\ DefaultSize \in 1 .. MaxSize /\ Ties \in BOOLEAN

VARIABLES
    created_at,   \* the timestamp of each row, Nil before its transaction starts
    visible,      \* the rows committed
    reviewed,     \* the requests no longer pending review
    instant,      \* the clock
    walk          \* one caller's walk

pageVars == <<created_at, visible, reviewed, instant, walk>>

-----------------------------------------------------------------------------
\* A transaction that writes a row starts, and commits later.
RowBegins(r) ==
    /\ created_at[r] = Nil /\ \A q \in Rows : q < r => created_at[q] # Nil
    /\ instant <= MaxInstant
    /\ created_at' = [created_at EXCEPT ![r] = instant]
    /\ instant' \in {instant + 1} \cup (IF Ties THEN {instant} ELSE {})
    /\ UNCHANGED <<visible, reviewed, walk>>

RowCommits(r) ==
    /\ created_at[r] # Nil /\ r \notin visible
    /\ visible' = visible \cup {r}
    /\ UNCHANGED <<created_at, reviewed, instant, walk>>

\* A request leaves the queue.
RequestReviewed(r) ==
    /\ walk.list = "pending" /\ r \in visible \ reviewed
    /\ reviewed' = reviewed \cup {r}
    /\ UNCHANGED <<created_at, visible, instant, walk>>

Clamp(n, low, high) == IF n < low THEN low ELSE IF n > high THEN high ELSE n

\* Fault: the procedure leaves a large limit to the repository's own clamp.
SizeUnclamped(limit) == IF limit = Nil THEN DefaultSize ELSE Max({limit, 1})

resolve_augmentation_requests_page_size(limit) ==
    IF limit = Nil THEN DefaultSize ELSE Clamp(limit, 1, MaxSize)

resolve_budget_grants_page_size(limit) ==
    IF limit = Nil THEN DefaultSize ELSE Clamp(limit, 1, MaxSize)

Before(at, cursor) == cursor = Nil \/ at < cursor
After(at, cursor) == cursor = Nil \/ at > cursor

\* `ORDER BY created_at LIMIT n` over the rows selected: the first n, any of
\* those that tie for the last place.
FirstRows(selected, Precedes(_, _), n) ==
    {page \in SUBSET selected :
        /\ Cardinality(page) = Min({n, Cardinality(selected)})
        /\ \A r \in page, other \in selected \ page :
               ~Precedes(created_at[other], created_at[r])}

Newer(a, b) == a > b
Older(a, b) == a < b

list_grants(cursor, limit) ==
    FirstRows({r \in visible : Before(created_at[r], cursor)}, Newer, Clamp(limit, 1, MaxRepoLimit))

list_by_budget_account(cursor, limit) ==
    FirstRows({r \in visible : Before(created_at[r], cursor)}, Newer, Clamp(limit, 1, MaxRepoLimit))

list_pending_review(cursor, limit) ==
    FirstRows({r \in visible \ reviewed : After(created_at[r], cursor)}, Older,
              Clamp(limit, 1, MaxRepoLimit))

\* The cursor of the next page: the last row's timestamp if the page is full.
NextCursor(page, page_size, Last(_)) ==
    IF Cardinality(page) = page_size THEN Last({created_at[r] : r \in page}) ELSE Nil

PageReturned(page, cursor) ==
    /\ walk' = [walk EXCEPT !.cursor = cursor, !.seen = @ \cup page,
                            !.returned = @ + Cardinality(page),
                            !.phase = IF cursor = Nil THEN "ended" ELSE "walking"]
    /\ UNCHANGED <<created_at, visible, reviewed, instant>>

WalkStarts ==
    /\ walk.phase = "idle"
    /\ walk' = [walk EXCEPT !.phase = "walking", !.due = visible]
    /\ UNCHANGED <<created_at, visible, reviewed, instant>>

list_budget_grants_page(limit) ==
    LET page_size == resolve_budget_grants_page_size(limit)
    IN  /\ walk.phase = "walking" /\ walk.list = "grants"
        /\ \E page \in list_grants(walk.cursor, page_size) :
               PageReturned(page, NextCursor(page, page_size, Min))

list_my_augmentation_requests(limit) ==
    LET page_size == resolve_augmentation_requests_page_size(limit)
    IN  /\ walk.phase = "walking" /\ walk.list = "mine"
        /\ \E page \in list_by_budget_account(walk.cursor, page_size) :
               PageReturned(page, NextCursor(page, page_size, Min))

list_pending_augmentation_requests(limit) ==
    LET page_size == resolve_augmentation_requests_page_size(limit)
    IN  /\ walk.phase = "walking" /\ walk.list = "pending"
        /\ \E page \in list_pending_review(walk.cursor, page_size) :
               PageReturned(page, NextCursor(page, page_size, Max))

PagesInit ==
    /\ created_at = [r \in Rows |-> Nil] /\ visible = {} /\ reviewed = {} /\ instant = 1
    /\ walk \in [list : Lists, phase : {"idle"}, cursor : {Nil}, seen : {{}}, returned : {0}, due : {{}}]

PagesNext ==
    \/ \E r \in Rows : RowBegins(r) \/ RowCommits(r) \/ RequestReviewed(r)
    \/ WalkStarts
    \/ \E limit \in Limits :
           \/ list_budget_grants_page(limit)
           \/ list_my_augmentation_requests(limit)
           \/ list_pending_augmentation_requests(limit)

PagesSpec == PagesInit /\ [][PagesNext]_pageVars

-----------------------------------------------------------------------------
\* A walk never returns a row twice (exclusive cursors), and one that has ended
\* has returned every row visible when it began, except requests reviewed
\* meanwhile: no page boundary, no mix of page sizes and no row written between
\* its pages makes it repeat or skip one (the `nextCursor` rule: the last
\* entry's `createdAt` of a full page continues the walk).
WalkReturnsEachRowOnce ==
    /\ walk.returned = Cardinality(walk.seen)
    /\ walk.phase = "ended" =>
         walk.due \ (IF walk.list = "pending" THEN reviewed ELSE {}) \subseteq walk.seen
=============================================================================
