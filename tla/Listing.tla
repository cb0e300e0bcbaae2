------------------------------- MODULE Listing -------------------------------
(***************************************************************************)
(* list_jobs under concurrent submissions.  A client, which is no code of  *)
(* the repository, reads the jobs page by page with a limit and an offset. *)
(* Each page is two statements, the count and the select, and under READ   *)
(* COMMITTED submissions commit between them as between two pages.         *)
(*                                                                         *)
(* created_at is now() of the inserting transaction, that is the time it   *)
(* began: rows appear in another order than that of their created_at, and  *)
(* several share one.  Rows are never deleted.  Filters are left out: a    *)
(* filtered job may leave the filter between two pages.                    *)
(***************************************************************************)
EXTENDS Integers, FiniteSets

CONSTANTS
    Ids,        \* ids of jobs, ordered as PostgreSQL orders them
    Limit,      \* the limit of every page
    MaxTime     \* bound on the clock

ASSUME ListingAssumption == Ids \subseteq Nat /\ Limit \in Nat \ {0} /\ MaxTime \in Nat

VARIABLES
    now,        \* now() of PostgreSQL
    created,    \* created_at of the committed rows
    inserting,  \* created_at of the rows not yet committed
    step,       \* what the client's request does next
    initial,    \* the rows there were when the client began
    offset,     \* offset of the page it reads
    total,      \* the total of that page
    seen        \* the jobs it received

table == <<now, created, inserting>>
client == <<step, initial, offset, total, seen>>
vars == <<table, client>>

Init ==
    /\ now = 0
    /\ created = <<>> /\ inserting = <<>>
    /\ step = "idle"
    /\ initial = {} /\ offset = 0 /\ total = 0
    /\ seen = {}

-----------------------------------------------------------------------------
(* Submissions. *)

\* The rows with one more, created at t.
With(rows, i, t) == [k \in DOMAIN rows \union {i} |-> IF k = i THEN t ELSE rows[k]]

Begin(i) ==
    /\ i \notin DOMAIN created \union DOMAIN inserting
    /\ inserting' = With(inserting, i, now)
    /\ UNCHANGED <<now, created, client>>

Commit(i) ==
    /\ i \in DOMAIN inserting
    /\ created' = With(created, i, inserting[i])
    /\ inserting' = [k \in DOMAIN inserting \ {i} |-> inserting[k]]
    /\ UNCHANGED <<now, client>>

Tick ==
    /\ now < MaxTime
    /\ now' = now + 1
    /\ UNCHANGED <<created, inserting, client>>

-----------------------------------------------------------------------------
(* The client and the two statements of a page. *)

Start ==
    /\ step = "idle"
    /\ step' = "count"
    /\ initial' = DOMAIN created
    /\ UNCHANGED <<table, offset, total, seen>>

\* created_at alone decides, and equal ones come as the plan yields them.
PrecedesMut(i, k) == created[i] >= created[k]

\* ORDER BY created_at DESC, id DESC
Precedes(i, k) == created[i] > created[k] \/ (created[i] = created[k] /\ i > k)

\* What PostgreSQL may return: every row once, in an order that is allowed.
Results ==
    {s \in [1..Cardinality(DOMAIN created) -> DOMAIN created] :
        \A m, n \in DOMAIN s : m < n => s[m] # s[n] /\ Precedes(s[m], s[n])}

Count ==
    /\ step = "count"
    /\ step' = "select"
    /\ total' = Cardinality(DOMAIN created)
    /\ UNCHANGED <<table, initial, offset, seen>>

\* LIMIT and OFFSET.
Page(s) == {s[n] : n \in {m \in DOMAIN s : offset < m /\ m <= offset + Limit}}

\* The select.  A page that is not full is the last one; a client may also stop
\* where the total of the page says so.
Select ==
    /\ step = "select"
    /\ offset' = offset + Limit
    /\ \E s \in Results :
         /\ seen' = seen \union Page(s)
         /\ \/ Cardinality(Page(s)) < Limit /\ step' = "end"
            \/ Cardinality(Page(s)) = Limit /\ step' = "count"
            \/ offset' >= total /\ step' = "stopped"
    /\ UNCHANGED <<table, initial, total>>

-----------------------------------------------------------------------------

Next ==
    \/ \E i \in Ids : Begin(i)
    \/ \E i \in Ids : Commit(i)
    \/ Tick
    \/ Start
    \/ Count
    \/ Select

Spec == Init /\ [][Next]_vars

-----------------------------------------------------------------------------
(* Properties. *)

\* "Pagination stays stable when created_at collides", as far as a client needs
\* it: one that pages to the end has seen every job there was when it began,
\* although submissions with any created_at commit between the count and the
\* select of a page and between two pages.  One that stops where `total` says so
\* has too, unless a submission came between the last count and its select.
NoJobSkipped ==
    /\ step = "end" => initial \subseteq seen
    /\ step = "stopped" /\ total = Cardinality(DOMAIN created) => initial \subseteq seen
=============================================================================
