----------------------------- MODULE Idempotency -----------------------------
(***************************************************************************)
(* Submissions that carry one and the same Idempotency-Key, each a         *)
(* transaction of its own at READ COMMITTED.  create_job looks the key up, *)
(* releases it if it has expired, and inserts under the partial unique     *)
(* index uq_jobs_idempotency_key_active; the loser of the index rolls back *)
(* and looks the winner up.                                                *)
(*                                                                         *)
(* An action is the end of one await and the code up to the next one; the  *)
(* code reads utcnow() before a statement is sent, so the time a statement *)
(* compares with (`stamp`) may be long past when it runs.  The job that    *)
(* request r inserts is named r.  Of a row only the key and the time it    *)
(* was built are kept: its idempotency_expires_at is built + TTL.          *)
(***************************************************************************)
EXTENDS Integers, FiniteSets

CONSTANTS
    NULL,
    Requests,    \* requests with this key, and the jobs they insert
    TTL,         \* IDEMPOTENCY_TTL
    MaxTime      \* bound on the clock

ASSUME IdempotencyAssumption ==
    /\ NULL \notin Requests
    /\ TTL \in Nat
    /\ MaxTime \in Nat

VARIABLES
    now,         \* utcnow() of the API
    rows,        \* the committed rows: absent, keyed (has the key) or plain
    pc,          \* the await request r is at
    stamp,       \* what r last read from utcnow()
    target,      \* the row the release of r has found and now wants to lock
    released,    \* uncommitted: the row r took the key from
    inserted,    \* uncommitted: r has inserted its row
    answer,      \* the job r was answered with
    must         \* history: the job that owned the key when r was submitted

vars == <<now, rows, pc, stamp, target, released, inserted, answer, must>>

Ended == {"answered", "raised", "gone"}

InTransaction == {"find", "release", "lock", "insert", "commit", "rollback", "reload"}

NoJob == [state |-> "absent", built |-> 0]

Init ==
    /\ now = 0
    /\ rows = [r \in Requests |-> NoJob]
    /\ pc = [r \in Requests |-> "idle"]
    /\ stamp = [r \in Requests |-> 0]
    /\ target = [r \in Requests |-> NULL]
    /\ released = [r \in Requests |-> NULL]
    /\ inserted = [r \in Requests |-> FALSE]
    /\ answer = [r \in Requests |-> NULL]
    /\ must = [r \in Requests |-> NULL]

-----------------------------------------------------------------------------
(* What a statement sees: committed rows. *)

Keyed == {j \in Requests : rows[j].state = "keyed"}

LiveAtMut(j, t) == rows[j].built > t

\* idempotency_expires_at > t
LiveAt(j, t) == rows[j].built + TTL > t

\* _find_active_by_key
ActiveAt(t) == {j \in Keyed : LiveAt(j, t)}

ReleasableMut(j, t) == rows[j].state = "keyed"

\* The WHERE clause of _release_expired_key.
Releasable(j, t) == rows[j].state = "keyed" /\ ~LiveAt(j, t)

\* No other open transaction has changed the row j.
RowFree(r, j) == \A q \in Requests \ {r} : released[q] # j

IndexFreeMut(r) == TRUE

\* The unique index lets r insert, or fail, at once: no other open
\* transaction has added the key or taken it off the row that has it.
IndexFree(r) ==
    \A q \in Requests \ {r} : ~inserted[q] /\ released[q] = NULL

-----------------------------------------------------------------------------
(* One request. *)

\* POST /jobs arrives, and create_job is about to look the key up.
Submit(r) ==
    /\ pc[r] = "idle"
    /\ pc' = [pc EXCEPT ![r] = "find"]
    /\ stamp' = [stamp EXCEPT ![r] = now]
    /\ must' = [must EXCEPT ![r] = IF ActiveAt(now) = {} THEN NULL
                                   ELSE CHOOSE j \in ActiveAt(now) : TRUE]
    /\ UNCHANGED <<now, rows, target, released, inserted, answer>>

\* The key has a live owner: answer with it, 200.
FindHit(r) ==
    /\ pc[r] = "find"
    /\ \E j \in ActiveAt(stamp[r]) : answer' = [answer EXCEPT ![r] = j]
    /\ pc' = [pc EXCEPT ![r] = "answered"]
    /\ UNCHANGED <<now, rows, stamp, target, released, inserted, must>>

FindMiss(r) ==
    /\ pc[r] = "find"
    /\ ActiveAt(stamp[r]) = {}
    /\ pc' = [pc EXCEPT ![r] = "release"]
    /\ stamp' = [stamp EXCEPT ![r] = now]
    /\ UNCHANGED <<now, rows, target, released, inserted, answer, must>>

\* The UPDATE of _release_expired_key takes its snapshot ...
ReleaseScan(r) ==
    /\ pc[r] = "release"
    /\ \/ \E j \in Requests : Releasable(j, stamp[r]) /\ target' = [target EXCEPT ![r] = j]
       \/ (\A j \in Requests : ~Releasable(j, stamp[r])) /\ UNCHANGED target
    /\ pc' = [pc EXCEPT ![r] = "lock"]
    /\ UNCHANGED <<now, rows, stamp, released, inserted, answer, must>>

\* ... waits for the row, and checks it again if it had to wait.  Then
\* _build_job reads the clock.
ReleaseRow(r) ==
    /\ pc[r] = "lock"
    /\ target[r] # NULL => RowFree(r, target[r])
    /\ released' = [released EXCEPT ![r] =
                      IF target[r] # NULL /\ Releasable(target[r], stamp[r])
                      THEN target[r] ELSE NULL]
    /\ target' = [target EXCEPT ![r] = NULL]
    /\ pc' = [pc EXCEPT ![r] = "insert"]
    /\ stamp' = [stamp EXCEPT ![r] = now]
    /\ UNCHANGED <<now, rows, inserted, answer, must>>

\* The flush, with the row built at stamp[r].
InsertOk(r) ==
    /\ pc[r] = "insert"
    /\ IndexFree(r)
    /\ Keyed \subseteq {released[r]}
    /\ inserted' = [inserted EXCEPT ![r] = TRUE]
    /\ pc' = [pc EXCEPT ![r] = "commit"]
    /\ UNCHANGED <<now, rows, stamp, target, released, answer, must>>

\* IntegrityError: PostgreSQL aborts the transaction, which undoes the release.
InsertConflict(r) ==
    /\ pc[r] = "insert"
    /\ IndexFree(r)
    /\ ~(Keyed \subseteq {released[r]})
    /\ released' = [released EXCEPT ![r] = NULL]
    /\ pc' = [pc EXCEPT ![r] = "rollback"]
    /\ UNCHANGED <<now, rows, stamp, target, inserted, answer, must>>

\* commit() forgotten: the answer goes out, the transaction stays open.
CommitMut(r) ==
    /\ pc[r] = "commit"
    /\ answer' = [answer EXCEPT ![r] = r]
    /\ pc' = [pc EXCEPT ![r] = "answered"]
    /\ UNCHANGED <<now, rows, stamp, target, released, inserted, must>>

\* refresh() and commit(): release and insert become visible together, 201.
Commit(r) ==
    /\ pc[r] = "commit"
    /\ rows' = [j \in Requests |->
                  IF j = r THEN [state |-> "keyed", built |-> stamp[r]]
                  ELSE IF j = released[r] THEN [rows[j] EXCEPT !.state = "plain"]
                  ELSE rows[j]]
    /\ released' = [released EXCEPT ![r] = NULL]
    /\ inserted' = [inserted EXCEPT ![r] = FALSE]
    /\ answer' = [answer EXCEPT ![r] = r]
    /\ pc' = [pc EXCEPT ![r] = "answered"]
    /\ UNCHANGED <<now, stamp, target, must>>

Rollback(r) ==
    /\ pc[r] = "rollback"
    /\ pc' = [pc EXCEPT ![r] = "reload"]
    /\ stamp' = [stamp EXCEPT ![r] = now]
    /\ UNCHANGED <<now, rows, target, released, inserted, answer, must>>

\* The race is lost: the winner is the answer, 200.
ReloadHit(r) ==
    /\ pc[r] = "reload"
    /\ \E j \in ActiveAt(stamp[r]) : answer' = [answer EXCEPT ![r] = j]
    /\ pc' = [pc EXCEPT ![r] = "answered"]
    /\ UNCHANGED <<now, rows, stamp, target, released, inserted, must>>

\* No winner: the IntegrityError goes up, 500.
ReloadMiss(r) ==
    /\ pc[r] = "reload"
    /\ ActiveAt(stamp[r]) = {}
    /\ pc' = [pc EXCEPT ![r] = "raised"]
    /\ UNCHANGED <<now, rows, stamp, target, released, inserted, answer, must>>

\* The API dies, the client disconnects or a statement fails: the session is
\* closed and PostgreSQL rolls back.
Crash(r) ==
    /\ pc[r] \in InTransaction
    /\ pc' = [pc EXCEPT ![r] = "gone"]
    /\ target' = [target EXCEPT ![r] = NULL]
    /\ released' = [released EXCEPT ![r] = NULL]
    /\ inserted' = [inserted EXCEPT ![r] = FALSE]
    /\ UNCHANGED <<now, rows, stamp, answer, must>>

Tick ==
    /\ now < MaxTime
    /\ now' = now + 1
    /\ UNCHANGED <<rows, pc, stamp, target, released, inserted, answer, must>>

\* What the code of a request does once it has been called.
Step(r) ==
    \/ FindHit(r) \/ FindMiss(r)
    \/ ReleaseScan(r) \/ ReleaseRow(r)
    \/ InsertOk(r) \/ InsertConflict(r)
    \/ Commit(r) \/ Rollback(r)
    \/ ReloadHit(r) \/ ReloadMiss(r)

Next ==
    \/ \E r \in Requests : Submit(r) \/ Step(r) \/ Crash(r)
    \/ Tick

Spec == Init /\ [][Next]_vars

\* Statements return unless they wait for another transaction.
FairSpec == Spec /\ \A r \in Requests : WF_vars(Step(r))

-----------------------------------------------------------------------------
(* Properties. *)

\* Every variable has its type, and an open transaction holds what its place in
\* create_job lets it hold.
TypeOK ==
    /\ now \in 0..MaxTime
    /\ rows \in [Requests -> [state : {"absent", "keyed", "plain"}, built : 0..MaxTime]]
    /\ pc \in [Requests -> {"idle"} \union InTransaction \union Ended]
    /\ stamp \in [Requests -> 0..MaxTime]
    /\ target \in [Requests -> Requests \union {NULL}]
    /\ released \in [Requests -> Requests \union {NULL}]
    /\ inserted \in [Requests -> BOOLEAN]
    /\ answer \in [Requests -> Requests \union {NULL}]
    /\ must \in [Requests -> Requests \union {NULL}]
    /\ \A r \in Requests :
         /\ target[r] # NULL => pc[r] = "lock"
         /\ released[r] # NULL => pc[r] \in {"insert", "commit"}
         /\ inserted[r] = (pc[r] = "commit")

Job(j) == rows[j].state # "absent"

\* "Reusing a key within 24 hours returns the original job instead of creating
\* another": however requests interleave, wait and crash, two jobs created under
\* one key were built at least TTL apart.
OneJobPerWindow ==
    \A i, j \in Requests : i # j /\ Job(i) /\ Job(j) =>
        rows[i].built + TTL <= rows[j].built \/ rows[j].built + TTL <= rows[i].built

\* Once a key has been used exactly one committed row has it, the newest one.
\* _release_expired_key alone never frees a key: release and insert commit
\* together or not at all.
KeyStaysOnNewest ==
    (\E j \in Requests : Job(j)) =>
        \E k \in Keyed : \A j \in Requests : Job(j) =>
            rows[j].built <= rows[k].built /\ (j \in Keyed => j = k)

\* create_job lets the IntegrityError escape only if a job of this key has
\* already run out: during the first TTL of a key no race is answered with 500.
RaisesOnlyAfterExpiry ==
    (\E r \in Requests : pc[r] = "raised") =>
        \E j \in Requests : Job(j) /\ rows[j].built + TTL <= now

\* A request submitted while the key had a live owner ends without a job of its
\* own and without an error, however late its statements run; and if it ends
\* before that owner has run out, the owner is its answer.
ReplayGetsOriginal ==
    [][\A r \in Requests :
         must[r] # NULL /\ pc'[r] \in Ended \ {"gone"} /\ pc[r] \notin Ended =>
            /\ pc'[r] = "answered"
            /\ answer'[r] # r
            /\ LiveAt(must[r], now) => answer'[r] = must[r]]_vars

\* No lock order among requests for one key makes them wait for each other:
\* every request ends.
EveryRequestEnds ==
    \A r \in Requests : pc[r] # "idle" ~> pc[r] \in Ended
=============================================================================
