--------------------------- MODULE JobStoreProofs ---------------------------
(* Theorems about JobStore, for all jobs, workers, delays and bounds. *)
EXTENDS JobStore, TLAPS

\* The assumptions on the constants, as the steps below use them.
LEMMA Constants ==
    /\ MaxAttempts \in Nat \ {0}
    /\ NULL \notin Int /\ NULL # SET
    /\ Reports \subseteq Int
    /\ LeaseTime \in Nat
    /\ RetryDelays \in [1..(MaxAttempts - 1) -> Nat]
    /\ ApiSkew \in Int
    /\ MaxTime \in Nat
    /\ MaxClaims \in Nat
    /\ NULL \notin Workers
BY MaxAttemptsAssumption, NullAssumption, StoreAssumption

-----------------------------------------------------------------------------
(* The inductive invariant.  It is stated row by row, for the row r of job j, *)
(* its history n = runs[j] and the set I of attempts issued so far.           *)

Newest(j, t, I) ==
    /\ \E a \in I : a.job_id = j /\ a.execution_token = t
    /\ \A a \in I : a.job_id = j => a.execution_token <= t

\* A running row and no other carries an owner, which is an issued attempt, the
\* newest of its job, and has the counters of the row.
RowOwner(j, r, I) ==
    /\ (r.status = "processing") = (r.worker_id # NULL)
    /\ (r.status = "processing") = (r.execution_token # NULL)
    /\ (r.status = "processing") = (r.lease_expires_at # NULL)
    /\ r.status = "processing" =>
          /\ AttemptOf(j, r) \in I
          /\ Newest(j, r.execution_token, I)

\* attempt_count counts the claims of the cycle and agrees with the status.
RowBudget(r, n) ==
    /\ n = r.attempt_count
    /\ (r.started_at = NULL) = (n = 0)
    /\ r.status = "absent" => n = 0
    /\ r.status \in {"scheduled", "pending"} => r.attempt_count < MaxAttempts
    /\ r.status = "failed" => r.attempt_count = MaxAttempts

\* Result, error and completed_at are those of the newest attempt.
RowOutcome(j, r, I) ==
    /\ r.result # NULL => r.status = "completed" /\ Newest(j, r.result, I)
    /\ r.error # NULL /\ r.status # "processing" => Newest(j, r.error, I)
    /\ r.status = "completed" => r.result # NULL /\ r.error = NULL
    /\ r.status = "failed" => r.error # NULL
    /\ (r.completed_at # NULL) = (r.status \in {"completed", "failed"})

RowInv(j, r, n, I) ==
    /\ r \in Rows
    /\ RowOwner(j, r, I)
    /\ RowBudget(r, n)
    /\ RowOutcome(j, r, I)

\* A token names one attempt, and none is ahead of the counter.
TokenInv ==
    /\ \A a \in issued : a.execution_token <= minted
    /\ \A a, b \in issued : a.execution_token = b.execution_token => a = b

Inv ==
    /\ now \in 0..MaxTime
    /\ jobs \in [Jobs -> Rows]
    /\ minted \in 0..MaxClaims
    /\ issued \subseteq Attempts
    /\ runs \in [Jobs -> 0..MaxAttempts]
    /\ TokenInv
    /\ \A j \in Jobs : RowInv(j, jobs[j], runs[j], issued)

-----------------------------------------------------------------------------
(* What each statement of JobRow does to the columns. *)

LEMMA ReleasedRow ==
    ASSUME NEW r \in Rows
    PROVE  /\ Released(r) \in Rows
           /\ Released(r).worker_id = NULL
           /\ Released(r).execution_token = NULL
           /\ Released(r).lease_expires_at = NULL
           /\ Released(r).status = r.status
           /\ Released(r).attempt_count = r.attempt_count
           /\ Released(r).result = r.result
           /\ Released(r).error = r.error
           /\ Released(r).started_at = r.started_at
           /\ Released(r).completed_at = r.completed_at
           /\ Released(r).scheduled_at = r.scheduled_at
BY DEF Rows, Released

LEMMA NoRowRow == NoRow \in Rows
BY MaxAttemptsAssumption DEF NoRow, Rows, Statuses

LEMMA BuildJobRow ==
    ASSUME NEW t \in Nat \union {NULL}, NEW f \in BOOLEAN
    PROVE  LET x == BuildJob(t, f) IN
           /\ x \in Rows
           /\ x.status = IF f THEN "scheduled" ELSE "pending"
           /\ x.attempt_count = 0
           /\ x.scheduled_at = t
           /\ x.result = NULL /\ x.error = NULL
           /\ x.started_at = NULL /\ x.completed_at = NULL
           /\ x.worker_id = NULL /\ x.execution_token = NULL
           /\ x.lease_expires_at = NULL
<1> DEFINE s == IF f THEN "scheduled" ELSE "pending"
<1>1. s \in Statuses
  BY DEF Statuses
<1>2. BuildJob(t, f) = [NoRow EXCEPT !.status = s, !.scheduled_at = t]
  BY DEF BuildJob
<1> HIDE DEF s
<1>3. BuildJob(t, f) \in Rows
  BY <1>1, <1>2, NoRowRow, ZenonT(60) DEF Rows
<1>4. LET x == BuildJob(t, f) IN
      /\ x.status = s
      /\ x.attempt_count = 0
      /\ x.scheduled_at = t
      /\ x.result = NULL /\ x.error = NULL
      /\ x.started_at = NULL /\ x.completed_at = NULL
      /\ x.worker_id = NULL /\ x.execution_token = NULL
      /\ x.lease_expires_at = NULL
  BY <1>2 DEF NoRow
<1> QED
  BY <1>3, <1>4 DEF s

LEMMA ClaimedRow ==
    ASSUME NEW r \in Rows, NEW w \in Workers, NEW t \in Nat, NEW l \in Nat,
           Claimable(r)
    PROVE  LET x == Claimed(r, w, t, l) IN
           /\ x \in Rows
           /\ x.status = "processing"
           /\ x.attempt_count = r.attempt_count + 1
           /\ x.worker_id = w /\ x.execution_token = t /\ x.lease_expires_at = l
           /\ x.started_at = SET
           /\ x.result = r.result /\ x.error = r.error
           /\ x.completed_at = r.completed_at
           /\ x.scheduled_at = r.scheduled_at
<1> DEFINE n == r.attempt_count + 1
<1>1. n \in 0..MaxAttempts
  BY MaxAttemptsAssumption DEF Claimable, Rows
<1>2. Claimed(r, w, t, l) =
          [r EXCEPT !.status = "processing", !.worker_id = w,
                    !.execution_token = t, !.lease_expires_at = l,
                    !.started_at = SET, !.attempt_count = n]
  BY DEF Claimed
<1> HIDE DEF n
<1>3. Claimed(r, w, t, l) \in Rows
  BY <1>1, <1>2, ZenonT(60) DEF Rows, Statuses
<1>4. LET x == Claimed(r, w, t, l) IN
      /\ x.status = "processing"
      /\ x.attempt_count = n
      /\ x.worker_id = w /\ x.execution_token = t /\ x.lease_expires_at = l
      /\ x.started_at = SET
      /\ x.result = r.result /\ x.error = r.error
      /\ x.completed_at = r.completed_at
      /\ x.scheduled_at = r.scheduled_at
  BY <1>2 DEF Rows
<1> QED
  BY <1>3, <1>4 DEF n

LEMMA LeaseExtendedRow ==
    ASSUME NEW r \in Rows, NEW l \in Nat
    PROVE  LET x == LeaseExtended(r, l) IN
           /\ x \in Rows
           /\ x.status = r.status /\ x.attempt_count = r.attempt_count
           /\ x.worker_id = r.worker_id /\ x.execution_token = r.execution_token
           /\ x.lease_expires_at = l
           /\ x.result = r.result /\ x.error = r.error
           /\ x.started_at = r.started_at /\ x.completed_at = r.completed_at
           /\ x.scheduled_at = r.scheduled_at
BY DEF Rows, LeaseExtended

LEMMA ProgressReportedRow ==
    ASSUME NEW r \in Rows, NEW p \in Int
    PROVE  LET x == ProgressReported(r, p) IN
           /\ x \in Rows
           /\ x.status = r.status /\ x.attempt_count = r.attempt_count
           /\ x.worker_id = r.worker_id /\ x.execution_token = r.execution_token
           /\ x.lease_expires_at = r.lease_expires_at
           /\ x.result = r.result /\ x.error = r.error
           /\ x.started_at = r.started_at /\ x.completed_at = r.completed_at
           /\ x.scheduled_at = r.scheduled_at
<1>1. Clamp(p) \in 0..100
  BY DEF Clamp
<1> QED
  BY <1>1 DEF Rows, ProgressReported

LEMMA CompletedRow ==
    ASSUME NEW r \in Rows, NEW t \in Nat
    PROVE  LET x == Completed(r, t) IN
           /\ x \in Rows
           /\ x.status = "completed"
           /\ x.attempt_count = r.attempt_count
           /\ x.result = t /\ x.error = NULL
           /\ x.started_at = r.started_at /\ x.completed_at = SET
           /\ x.worker_id = NULL /\ x.execution_token = NULL
           /\ x.lease_expires_at = NULL
<1> DEFINE p == 100
<1>1. p \in 0..100
  OBVIOUS
<1> HIDE DEF p
<1> DEFINE y == [r EXCEPT !.status = "completed", !.result = t, !.progress = p,
                          !.completed_at = SET, !.error = NULL]
<1>2. y \in Rows
  BY <1>1 DEF Rows, Statuses
<1>3. /\ y.status = "completed" /\ y.attempt_count = r.attempt_count
      /\ y.result = t /\ y.error = NULL
      /\ y.started_at = r.started_at /\ y.completed_at = SET
  BY DEF Rows
<1>4. Completed(r, t) = Released(y)
  BY DEF Completed, p
<1> HIDE DEF y
<1> QED
  BY <1>2, <1>3, <1>4, ReleasedRow

LEMMA AttemptFailedRow ==
    ASSUME NEW r \in Rows, NEW a, NEW e \in Nat, NEW t \in Nat \union {NULL}
    PROVE  LET x == AttemptFailed(r, a, e, t) IN
           /\ x \in Rows
           /\ HasAttemptsLeft(a) => x.status = "scheduled" /\ x.completed_at = r.completed_at
           /\ ~HasAttemptsLeft(a) => x.status = "failed" /\ x.completed_at = SET
           /\ x.status \in {"scheduled", "failed"}
           /\ x.attempt_count = r.attempt_count
           /\ x.result = r.result /\ x.error = e
           /\ x.started_at = r.started_at
           /\ x.worker_id = NULL /\ x.execution_token = NULL
           /\ x.lease_expires_at = NULL
<1>1. LET y == [r EXCEPT !.status = "scheduled", !.scheduled_at = t, !.error = e]
      IN  /\ y \in Rows
          /\ y.status = "scheduled" /\ y.attempt_count = r.attempt_count
          /\ y.result = r.result /\ y.error = e
          /\ y.started_at = r.started_at /\ y.completed_at = r.completed_at
  BY ZenonT(60) DEF Rows, Statuses
<1>2. LET y == [r EXCEPT !.status = "failed", !.error = e, !.completed_at = SET]
      IN  /\ y \in Rows
          /\ y.status = "failed" /\ y.attempt_count = r.attempt_count
          /\ y.result = r.result /\ y.error = e
          /\ y.started_at = r.started_at /\ y.completed_at = SET
  BY ZenonT(60) DEF Rows, Statuses
<1>3. CASE HasAttemptsLeft(a)
  BY <1>1, <1>3, ReleasedRow DEF AttemptFailed
<1>4. CASE ~HasAttemptsLeft(a)
  BY <1>2, <1>4, ReleasedRow DEF AttemptFailed
<1> QED
  BY <1>3, <1>4

\* The same for an attempt that has the counter of the row.
LEMMA AttemptFailedByCount ==
    ASSUME NEW r \in Rows, NEW a, NEW e \in Nat, NEW t \in Nat \union {NULL},
           a.attempt_count = r.attempt_count
    PROVE  LET x == AttemptFailed(r, a, e, t) IN
           /\ x.status = IF r.attempt_count < MaxAttempts THEN "scheduled" ELSE "failed"
           /\ x.attempt_count = r.attempt_count
           /\ x.execution_token = NULL
<1>1. HasAttemptsLeft(a) <=> r.attempt_count < MaxAttempts
  BY DEF HasAttemptsLeft
<1> QED
  BY <1>1, AttemptFailedRow

LEMMA ActivatedRow ==
    ASSUME NEW r \in Rows
    PROVE  LET x == Activated(r) IN
           /\ x \in Rows
           /\ x.status = "pending" /\ x.attempt_count = r.attempt_count
           /\ x.worker_id = r.worker_id /\ x.execution_token = r.execution_token
           /\ x.lease_expires_at = r.lease_expires_at
           /\ x.result = r.result /\ x.error = r.error
           /\ x.started_at = r.started_at /\ x.completed_at = r.completed_at
           /\ x.scheduled_at = r.scheduled_at
BY DEF Rows, Statuses, Activated

LEMMA CancelledRow ==
    ASSUME NEW r \in Rows
    PROVE  LET x == Cancelled(r) IN
           /\ x \in Rows
           /\ x.status = "cancelled" /\ x.attempt_count = r.attempt_count
           /\ x.worker_id = NULL /\ x.execution_token = NULL
           /\ x.lease_expires_at = NULL
           /\ x.result = r.result /\ x.error = r.error
           /\ x.started_at = r.started_at /\ x.completed_at = r.completed_at
<1>1. LET y == [r EXCEPT !.status = "cancelled"]
      IN  /\ y \in Rows
          /\ y.status = "cancelled" /\ y.attempt_count = r.attempt_count
          /\ y.result = r.result /\ y.error = r.error
          /\ y.started_at = r.started_at /\ y.completed_at = r.completed_at
  BY DEF Rows, Statuses
<1> QED
  BY <1>1, ReleasedRow DEF Cancelled

LEMMA RetriedRow ==
    ASSUME NEW r \in Rows
    PROVE  LET x == Retried(r) IN
           /\ x \in Rows
           /\ x.status = "pending" /\ x.attempt_count = 0
           /\ x.worker_id = NULL /\ x.execution_token = NULL
           /\ x.lease_expires_at = NULL
           /\ x.result = NULL /\ x.error = NULL
           /\ x.started_at = NULL /\ x.completed_at = NULL
           /\ x.scheduled_at = NULL
<1> DEFINE z == 0
<1>1. z \in 0..100 /\ z \in 0..MaxAttempts
  BY MaxAttemptsAssumption
<1> HIDE DEF z
<1> DEFINE y == [r EXCEPT !.status = "pending", !.attempt_count = z,
                          !.progress = z, !.error = NULL, !.result = NULL,
                          !.completed_at = NULL, !.started_at = NULL,
                          !.scheduled_at = NULL]
<1>2. y \in Rows
  BY <1>1 DEF Rows, Statuses
<1>3. /\ y.status = "pending" /\ y.attempt_count = z
      /\ y.result = NULL /\ y.error = NULL
      /\ y.started_at = NULL /\ y.completed_at = NULL
      /\ y.scheduled_at = NULL
  BY DEF Rows
<1>4. Retried(r) = Released(y)
  BY DEF Retried, z
<1> HIDE DEF y
<1> QED
  BY <1>2, <1>3, <1>4, ReleasedRow DEF z

\* The delay lookup succeeds for every attempt number, and the retry time of an
\* attempt that fails is a time or NULL.
LEMMA RetryAtType ==
    ASSUME NEW a, a.attempt_count \in 1..MaxAttempts, now \in Nat
    PROVE  /\ HasAttemptsLeft(a) \in BOOLEAN
           /\ DelayKnown(a)
           /\ RetryAt(a) \in Nat \union {NULL}
BY Constants DEF DelayKnown, HasAttemptsLeft, RetryAt

-----------------------------------------------------------------------------
(* Each statement preserves the invariant of the row it writes. *)

LEMMA BuildJobInv ==
    ASSUME NEW j, NEW I, NEW t \in Nat \union {NULL}, NEW f \in BOOLEAN
    PROVE  RowInv(j, BuildJob(t, f), 0, I)
<1> DEFINE x == BuildJob(t, f)
<1>1. /\ x \in Rows
      /\ x.status \in {"scheduled", "pending"}
      /\ x.attempt_count = 0
      /\ x.result = NULL /\ x.error = NULL
      /\ x.started_at = NULL /\ x.completed_at = NULL
      /\ x.worker_id = NULL /\ x.execution_token = NULL
      /\ x.lease_expires_at = NULL
  BY BuildJobRow
<1> HIDE DEF x
<1>2. RowInv(j, x, 0, I)
  BY <1>1, MaxAttemptsAssumption DEF RowInv, RowOwner, RowBudget, RowOutcome
<1> QED
  BY <1>2 DEF x

LEMMA CancelledInv ==
    ASSUME NEW j, NEW r, NEW n, NEW I, RowInv(j, r, n, I), Cancellable(r)
    PROVE  RowInv(j, Cancelled(r), n, I)
<1> DEFINE x == Cancelled(r)
<1>1. /\ x \in Rows
      /\ x.status = "cancelled" /\ x.attempt_count = r.attempt_count
      /\ x.worker_id = NULL /\ x.execution_token = NULL
      /\ x.lease_expires_at = NULL
      /\ x.result = r.result /\ x.error = r.error
      /\ x.started_at = r.started_at /\ x.completed_at = r.completed_at
  BY CancelledRow DEF RowInv
<1> HIDE DEF x
<1>2. RowInv(j, x, n, I)
  BY <1>1 DEF RowInv, RowOwner, RowBudget, RowOutcome, Cancellable
<1> QED
  BY <1>2 DEF x

LEMMA RetriedInv ==
    ASSUME NEW j, NEW r, NEW n, NEW I, RowInv(j, r, n, I), Retriable(r)
    PROVE  RowInv(j, Retried(r), 0, I)
<1> DEFINE x == Retried(r)
<1>1. /\ x \in Rows
      /\ x.status = "pending" /\ x.attempt_count = 0
      /\ x.worker_id = NULL /\ x.execution_token = NULL
      /\ x.lease_expires_at = NULL
      /\ x.result = NULL /\ x.error = NULL
      /\ x.started_at = NULL /\ x.completed_at = NULL
  BY RetriedRow DEF RowInv
<1> HIDE DEF x
<1>2. RowInv(j, x, 0, I)
  BY <1>1, MaxAttemptsAssumption DEF RowInv, RowOwner, RowBudget, RowOutcome
<1> QED
  BY <1>2 DEF x

LEMMA ActivatedInv ==
    ASSUME NEW j, NEW r, NEW n, NEW I, RowInv(j, r, n, I), r.status = "scheduled"
    PROVE  RowInv(j, Activated(r), n, I)
<1> DEFINE x == Activated(r)
<1>1. /\ x \in Rows
      /\ x.status = "pending" /\ x.attempt_count = r.attempt_count
      /\ x.worker_id = r.worker_id /\ x.execution_token = r.execution_token
      /\ x.lease_expires_at = r.lease_expires_at
      /\ x.result = r.result /\ x.error = r.error
      /\ x.started_at = r.started_at /\ x.completed_at = r.completed_at
  BY ActivatedRow DEF RowInv
<1> HIDE DEF x
<1>2. RowInv(j, x, n, I)
  BY <1>1 DEF RowInv, RowOwner, RowBudget, RowOutcome
<1> QED
  BY <1>2 DEF x

\* A claim with a token above every token issued so far.
LEMMA ClaimedInv ==
    ASSUME NEW j, NEW r, NEW n, NEW I, NEW w \in Workers, NEW t \in Nat,
           NEW l \in Nat, RowInv(j, r, n, I), Claimable(r),
           \A a \in I : a.execution_token \in Nat /\ a.execution_token < t
    PROVE  LET x == Claimed(r, w, t, l) IN
           RowInv(j, x, n + 1, I \union {AttemptOf(j, x)})
<1> DEFINE x == Claimed(r, w, t, l)
           K == I \union {AttemptOf(j, x)}
<1>1. /\ x \in Rows
      /\ x.status = "processing"
      /\ x.attempt_count = r.attempt_count + 1
      /\ x.worker_id = w /\ x.execution_token = t /\ x.lease_expires_at = l
      /\ x.started_at = SET
      /\ x.result = r.result /\ x.error = r.error
      /\ x.completed_at = r.completed_at
  BY ClaimedRow DEF RowInv
<1> HIDE DEF x
<1> DEFINE b == AttemptOf(j, x)
<1>a. b \in K /\ b.job_id = j /\ b.execution_token = t
  BY <1>1 DEF AttemptOf
<1>2. Newest(j, t, K)
  <2> HIDE DEF b
  <2> QED  BY <1>a DEF Newest
<1>3. RowOwner(j, x, K)
  BY <1>1, <1>2, NullAssumption, StoreAssumption DEF RowOwner
<1>4. RowBudget(x, n + 1)
  BY <1>1, NullAssumption, MaxAttemptsAssumption DEF RowInv, RowBudget, Rows, SET, Claimable
<1>5. RowOutcome(j, x, K)
  BY <1>1 DEF RowInv, RowOutcome, Claimable
<1> QED
  BY <1>1, <1>3, <1>4, <1>5 DEF RowInv, x

\* An attempt of one job says nothing about the row of another.
LEMMA OtherClaimInv ==
    ASSUME NEW j, NEW r, NEW n, NEW I, NEW a, RowInv(j, r, n, I), a.job_id # j
    PROVE  RowInv(j, r, n, I \union {a})
<1>1. ASSUME NEW t, Newest(j, t, I)
      PROVE  Newest(j, t, I \union {a})
  BY <1>1 DEF Newest
<1> QED
  BY <1>1 DEF RowInv, RowOwner, RowOutcome

LEMMA LeaseExtendedInv ==
    ASSUME NEW j, NEW r, NEW n, NEW I, NEW l \in Nat, RowInv(j, r, n, I),
           r.status = "processing"
    PROVE  RowInv(j, LeaseExtended(r, l), n, I)
<1> DEFINE x == LeaseExtended(r, l)
<1>1. /\ x \in Rows
      /\ x.status = r.status /\ x.attempt_count = r.attempt_count
      /\ x.worker_id = r.worker_id /\ x.execution_token = r.execution_token
      /\ x.lease_expires_at = l
      /\ x.result = r.result /\ x.error = r.error
      /\ x.started_at = r.started_at /\ x.completed_at = r.completed_at
  BY LeaseExtendedRow DEF RowInv
<1> HIDE DEF x
<1>2. AttemptOf(j, x) = AttemptOf(j, r)
  BY <1>1 DEF AttemptOf
<1>3. RowInv(j, x, n, I)
  BY <1>1, <1>2, NullAssumption DEF RowInv, RowOwner, RowBudget, RowOutcome
<1> QED
  BY <1>3 DEF x

LEMMA ProgressReportedInv ==
    ASSUME NEW j, NEW r, NEW n, NEW I, NEW p \in Int, RowInv(j, r, n, I)
    PROVE  RowInv(j, ProgressReported(r, p), n, I)
<1> DEFINE x == ProgressReported(r, p)
<1>1. /\ x \in Rows
      /\ x.status = r.status /\ x.attempt_count = r.attempt_count
      /\ x.worker_id = r.worker_id /\ x.execution_token = r.execution_token
      /\ x.lease_expires_at = r.lease_expires_at
      /\ x.result = r.result /\ x.error = r.error
      /\ x.started_at = r.started_at /\ x.completed_at = r.completed_at
  BY ProgressReportedRow DEF RowInv
<1> HIDE DEF x
<1>2. AttemptOf(j, x) = AttemptOf(j, r)
  BY <1>1 DEF AttemptOf
<1>3. RowInv(j, x, n, I)
  BY <1>1, <1>2 DEF RowInv, RowOwner, RowBudget, RowOutcome
<1> QED
  BY <1>3 DEF x

LEMMA CompletedInv ==
    ASSUME NEW j, NEW r, NEW n, NEW I, RowInv(j, r, n, I), r.status = "processing"
    PROVE  RowInv(j, Completed(r, r.execution_token), n, I)
<1> DEFINE t == r.execution_token
           x == Completed(r, t)
<1>1. t \in Nat /\ Newest(j, t, I)
  BY DEF RowInv, RowOwner, Rows
<1>2. /\ x \in Rows
      /\ x.status = "completed" /\ x.attempt_count = r.attempt_count
      /\ x.result = t /\ x.error = NULL
      /\ x.started_at = r.started_at /\ x.completed_at = SET
      /\ x.worker_id = NULL /\ x.execution_token = NULL
      /\ x.lease_expires_at = NULL
  BY <1>1, CompletedRow DEF RowInv
<1> HIDE DEF x, t
<1>3. SET # NULL
  BY NullAssumption
<1>4. RowInv(j, x, n, I)
  BY <1>1, <1>2, <1>3, NullAssumption DEF RowInv, RowOwner, RowBudget, RowOutcome
<1> QED
  BY <1>4 DEF x, t

\* A failed attempt, whether its worker reports it or recovery infers it.
LEMMA AttemptFailedInv ==
    ASSUME NEW j, NEW r, NEW n, NEW I, NEW a, NEW t \in Nat \union {NULL},
           RowInv(j, r, n, I), r.status = "processing",
           a.attempt_count = r.attempt_count
    PROVE  RowInv(j, AttemptFailed(r, a, r.execution_token, t), n, I)
<1> DEFINE e == r.execution_token
           x == AttemptFailed(r, a, e, t)
<1>1. e \in Nat /\ Newest(j, e, I)
  BY DEF RowInv, RowOwner, Rows
<1>2. HasAttemptsLeft(a) <=> r.attempt_count < MaxAttempts
  BY DEF HasAttemptsLeft
<1>3. /\ x \in Rows
      /\ x.status = IF r.attempt_count < MaxAttempts THEN "scheduled" ELSE "failed"
      /\ x.attempt_count = r.attempt_count
      /\ x.result = r.result /\ x.error = e
      /\ x.started_at = r.started_at
      /\ x.completed_at = IF r.attempt_count < MaxAttempts THEN r.completed_at ELSE SET
      /\ x.worker_id = NULL /\ x.execution_token = NULL
      /\ x.lease_expires_at = NULL
  <2>1. r \in Rows
    BY DEF RowInv
  <2> HIDE DEF e
  <2> QED
    BY <1>1, <1>2, <2>1, AttemptFailedRow
<1> HIDE DEF x, e
<1>4. SET # NULL
  BY NullAssumption
<1>5. RowOwner(j, x, I)
  BY <1>3 DEF RowOwner
<1>6. RowBudget(x, n)
  BY <1>3, MaxAttemptsAssumption DEF RowInv, RowBudget, Rows
<1>7. RowOutcome(j, x, I)
  BY <1>1, <1>3, <1>4, NullAssumption DEF RowInv, RowOutcome
<1> QED
  BY <1>3, <1>5, <1>6, <1>7 DEF RowInv, x, e

-----------------------------------------------------------------------------
(* Init establishes the invariant and every transaction preserves it. *)

LEMMA InitInv == Init => Inv
<1> SUFFICES ASSUME Init PROVE Inv
  OBVIOUS
<1>1. \A j \in Jobs : RowInv(j, NoRow, 0, {})
  <2>1. /\ NoRow.status = "absent" /\ NoRow.attempt_count = 0
        /\ NoRow.worker_id = NULL /\ NoRow.execution_token = NULL
        /\ NoRow.lease_expires_at = NULL
        /\ NoRow.result = NULL /\ NoRow.error = NULL
        /\ NoRow.started_at = NULL /\ NoRow.completed_at = NULL
    BY DEF NoRow
  <2> QED
    BY <2>1, NoRowRow, MaxAttemptsAssumption DEF RowInv, RowOwner, RowBudget, RowOutcome
<1>2. 0 \in 0..MaxTime /\ 0 \in 0..MaxClaims /\ 0 \in 0..MaxAttempts
  BY Constants
<1> QED
  BY <1>1, <1>2, NoRowRow DEF Init, Inv, TokenInv

\* A step that writes one row, changing neither tokens nor attempts.
LEMMA OneRowStep ==
    ASSUME Inv, NEW j \in Jobs, NEW x, NEW n \in 0..MaxAttempts,
           RowInv(j, x, n, issued),
           jobs' = [jobs EXCEPT ![j] = x], runs' = [runs EXCEPT ![j] = n],
           UNCHANGED <<now, minted, issued>>
    PROVE  Inv'
<1>1. x \in Rows
  BY DEF RowInv
<1>2. jobs' \in [Jobs -> Rows] /\ runs' \in [Jobs -> 0..MaxAttempts]
  BY <1>1 DEF Inv
<1>3. \A k \in Jobs : RowInv(k, jobs'[k], runs'[k], issued)
  BY DEF Inv
<1> QED
  BY <1>2, <1>3 DEF Inv, TokenInv

\* The row of an attempt that passes the fence: by the token it is its own.
LEMMA FencedRow ==
    ASSUME Inv, NEW a \in issued, OwnedBy(jobs[a.job_id], a)
    PROVE  /\ a.job_id \in Jobs
           /\ jobs[a.job_id].status = "processing"
           /\ a = AttemptOf(a.job_id, jobs[a.job_id])
           /\ a.execution_token = jobs[a.job_id].execution_token
           /\ a.attempt_count = jobs[a.job_id].attempt_count
           /\ a.attempt_count \in 1..MaxAttempts
           /\ RowInv(a.job_id, jobs[a.job_id], runs[a.job_id], issued)
           /\ runs[a.job_id] \in 0..MaxAttempts
           /\ runs = [runs EXCEPT ![a.job_id] = runs[a.job_id]]
<1>1. a.job_id \in Jobs /\ a.attempt_count \in 1..MaxAttempts
  BY DEF Inv, Attempts
<1>2. /\ RowInv(a.job_id, jobs[a.job_id], runs[a.job_id], issued)
      /\ runs[a.job_id] \in 0..MaxAttempts
      /\ runs = [runs EXCEPT ![a.job_id] = runs[a.job_id]]
  BY <1>1 DEF Inv
<1>3. /\ jobs[a.job_id].status = "processing"
      /\ jobs[a.job_id].execution_token = a.execution_token
  BY DEF OwnedBy
<1>4. AttemptOf(a.job_id, jobs[a.job_id]) \in issued
  BY <1>2, <1>3 DEF RowInv, RowOwner
<1>5. a = AttemptOf(a.job_id, jobs[a.job_id])
  BY <1>3, <1>4 DEF Inv, TokenInv, AttemptOf
<1>6. a.attempt_count = jobs[a.job_id].attempt_count
  BY <1>5 DEF AttemptOf
<1> QED
  BY <1>1, <1>2, <1>3, <1>5, <1>6

LEMMA NextInv == Inv /\ [Next]_vars => Inv'
<1> SUFFICES ASSUME Inv, [Next]_vars PROVE Inv'
  OBVIOUS
<1> USE Constants
<1>0. now \in Nat
  BY DEF Inv
<1>1. ASSUME NEW j \in Jobs, NEW t \in (0..MaxTime) \union {NULL}, CreateJob(j, t)
      PROVE  Inv'
  <2>1. t \in Nat \union {NULL} /\ IsFuture(t) \in BOOLEAN
    BY DEF IsFuture
  <2>2. RowInv(j, BuildJob(t, IsFuture(t)), 0, issued)
    BY <2>1, BuildJobInv
  <2>3. runs[j] = 0 /\ runs = [runs EXCEPT ![j] = 0]
    BY <1>1 DEF CreateJob, Inv, RowInv, RowBudget
  <2>4. 0 \in 0..MaxAttempts
    OBVIOUS
  <2> QED
    BY <1>1, <2>2, <2>3, <2>4, OneRowStep, Zenon DEF CreateJob
<1>2. ASSUME NEW j \in Jobs, CancelJob(j)
      PROVE  Inv'
  <2>1. RowInv(j, Cancelled(jobs[j]), runs[j], issued)
    BY <1>2, CancelledInv DEF CancelJob, Inv
  <2>2. runs[j] \in 0..MaxAttempts /\ runs = [runs EXCEPT ![j] = runs[j]]
    BY DEF Inv
  <2> QED
    BY <1>2, <2>1, <2>2, OneRowStep DEF CancelJob
<1>3. ASSUME NEW j \in Jobs, RetryJob(j)
      PROVE  Inv'
  <2>1. RowInv(j, Retried(jobs[j]), 0, issued)
    BY <1>3, RetriedInv DEF RetryJob, Inv
  <2>2. 0 \in 0..MaxAttempts
    OBVIOUS
  <2> QED
    BY <1>3, <2>1, <2>2, OneRowStep, Zenon DEF RetryJob
<1>4. ASSUME NEW j \in Jobs, NEW w \in Workers, ClaimJob(j, w)
      PROVE  Inv'
  <2> DEFINE x == Claimed(jobs[j], w, Mint, now + LeaseTime)
             b == AttemptOf(j, x)
  <2>1. /\ Mint = minted + 1 /\ Mint \in 1..MaxClaims /\ Mint \in Nat
        /\ now + LeaseTime \in Nat
    BY <1>0, <1>4 DEF ClaimJob, Inv, Mint
  <2>2. \A a \in issued : a.execution_token \in Nat /\ a.execution_token < Mint
    BY <2>1 DEF Inv, TokenInv, Attempts
  <2>3. RowInv(j, x, runs[j] + 1, issued \union {b})
    BY <1>4, <2>1, <2>2, ClaimedInv DEF ClaimJob, Inv
  <2>4. /\ x.attempt_count = jobs[j].attempt_count + 1
        /\ x.worker_id = w /\ x.execution_token = Mint
        /\ x.attempt_count \in 1..MaxAttempts
        /\ runs[j] + 1 \in 0..MaxAttempts
        /\ x \in Rows
    <3>1. jobs[j] \in Rows /\ Claimable(jobs[j])
      BY <1>4 DEF ClaimJob, Inv
    <3>2. x.attempt_count = jobs[j].attempt_count + 1 /\ x.worker_id = w /\ x.execution_token = Mint
      BY <2>1, <3>1, ClaimedRow
    <3>3. x \in Rows /\ runs[j] + 1 = x.attempt_count
      BY <2>3 DEF RowInv, RowBudget
    <3>4. jobs[j].attempt_count \in 0..MaxAttempts /\ jobs[j].attempt_count < MaxAttempts
      BY <3>1 DEF Rows, Claimable
    <3> HIDE DEF x
    <3> QED
      BY <3>2, <3>3, <3>4
  <2>5. jobs' = [jobs EXCEPT ![j] = x] /\ issued' = issued \union {b}
    BY <1>4 DEF ClaimJob, Inv
  <2> HIDE DEF x
  <2>6. b \in Attempts /\ b.execution_token = Mint /\ b.job_id = j
    BY <2>1, <2>4 DEF Attempts, AttemptOf
  <2> HIDE DEF b
  <2>7. TokenInv'
    BY <1>4, <2>1, <2>2, <2>5, <2>6 DEF TokenInv, ClaimJob, Inv
  <2>8. jobs' \in [Jobs -> Rows] /\ runs' \in [Jobs -> 0..MaxAttempts]
    BY <1>4, <2>4, <2>5 DEF ClaimJob, Inv
  <2>9. \A k \in Jobs : RowInv(k, jobs'[k], runs'[k], issued')
    <3>1. ASSUME NEW k \in Jobs, k # j
          PROVE  RowInv(k, jobs[k], runs[k], issued \union {b})
      BY <2>6, <3>1, OtherClaimInv DEF Inv
    <3> QED
      BY <1>4, <2>3, <2>5, <3>1 DEF ClaimJob, Inv
  <2>10. now' \in 0..MaxTime /\ minted' \in 0..MaxClaims
    BY <1>4 DEF Inv, ClaimJob
  <2>11. issued' \subseteq Attempts
    BY <2>5, <2>6 DEF Inv
  <2> QED
    BY <2>7, <2>8, <2>9, <2>10, <2>11 DEF Inv
<1>5. ASSUME NEW a \in issued, ExtendLease(a)
      PROVE  Inv'
  <2> DEFINE j == a.job_id
             x == LeaseExtended(jobs[j], now + LeaseTime)
  <2>1. RowInv(j, x, runs[j], issued)
    BY <1>0, <1>5, FencedRow, LeaseExtendedInv DEF ExtendLease
  <2> QED
    BY <1>5, <2>1, FencedRow, OneRowStep DEF ExtendLease
<1>6. ASSUME NEW a \in issued, NEW p \in Reports, UpdateProgress(a, p)
      PROVE  Inv'
  <2> DEFINE j == a.job_id
             x == ProgressReported(jobs[j], p)
  <2>1. RowInv(j, x, runs[j], issued)
    BY <1>6, FencedRow, ProgressReportedInv DEF UpdateProgress
  <2> QED
    BY <1>6, <2>1, FencedRow, OneRowStep DEF UpdateProgress
<1>7. ASSUME NEW a \in issued, CompleteJob(a)
      PROVE  Inv'
  <2> DEFINE j == a.job_id
             x == Completed(jobs[j], a.execution_token)
  <2>1. RowInv(j, x, runs[j], issued)
    BY <1>7, FencedRow, CompletedInv DEF CompleteJob
  <2> QED
    BY <1>7, <2>1, FencedRow, OneRowStep DEF CompleteJob
<1>8. ASSUME NEW a \in issued, FailAttempt(a)
      PROVE  Inv'
  <2> DEFINE j == a.job_id
             x == AttemptFailed(jobs[j], a, a.execution_token, RetryAt(a))
  <2>1. OwnedBy(jobs[j], a)
    BY <1>8 DEF FailAttempt, FailureApplies
  <2>2. RetryAt(a) \in Nat \union {NULL}
    BY <1>0, <2>1, FencedRow, RetryAtType
  <2>3. RowInv(j, x, runs[j], issued)
    BY <2>1, <2>2, FencedRow, AttemptFailedInv
  <2> QED
    BY <1>8, <2>1, <2>3, FencedRow, OneRowStep DEF FailAttempt
<1>9. ASSUME NEW S \in SUBSET Jobs, ActivateDueScheduledJobs(S)
      PROVE  Inv'
  <2>1. \A j \in Jobs : RowInv(j, jobs'[j], runs[j], issued)
    BY <1>9, ActivatedInv DEF ActivateDueScheduledJobs, Due, Inv
  <2>2. jobs' \in [Jobs -> Rows]
    BY <1>9, <2>1 DEF ActivateDueScheduledJobs, RowInv
  <2> QED
    BY <1>9, <2>1, <2>2 DEF ActivateDueScheduledJobs, Inv, TokenInv
<1>10. ASSUME NEW S \in SUBSET Jobs, RecoverExpiredLeases(S)
       PROVE  Inv'
  <2>1. ASSUME NEW j \in S
        PROVE  LET a == AttemptOf(j, jobs[j]) IN
               RowInv(j, AttemptFailed(jobs[j], a, a.execution_token, RetryAt(a)),
                      runs[j], issued)
    <3> DEFINE a == AttemptOf(j, jobs[j])
    <3>1. /\ a \in issued /\ jobs[j].status = "processing"
          /\ RowInv(j, jobs[j], runs[j], issued)
      BY <1>10, <2>1 DEF RecoverExpiredLeases, Expired, Inv, RowInv, RowOwner
    <3>2. a.execution_token = jobs[j].execution_token /\ a.attempt_count = jobs[j].attempt_count
      BY DEF AttemptOf
    <3>3. a.attempt_count \in 1..MaxAttempts
      BY <3>1 DEF Inv, Attempts
    <3> HIDE DEF a
    <3>4. RetryAt(a) \in Nat \union {NULL}
      BY <1>0, <3>3, RetryAtType
    <3>5. RowInv(j, AttemptFailed(jobs[j], a, a.execution_token, RetryAt(a)), runs[j], issued)
      BY <3>1, <3>2, <3>4, AttemptFailedInv
    <3> QED
      BY <3>5 DEF a
  <2>2. \A j \in Jobs : RowInv(j, jobs'[j], runs[j], issued)
    BY <1>10, <2>1 DEF RecoverExpiredLeases, Inv
  <2>3. jobs' \in [Jobs -> Rows]
    BY <1>10, <2>2 DEF RecoverExpiredLeases, RowInv
  <2> QED
    BY <1>10, <2>2, <2>3 DEF RecoverExpiredLeases, Inv, TokenInv
<1>11. CASE Tick
  BY <1>11 DEF Tick, Inv, TokenInv
<1>12. CASE UNCHANGED vars
  BY <1>12 DEF vars, Inv, TokenInv
<1> QED
  BY <1>1, <1>2, <1>3, <1>4, <1>5, <1>6, <1>7, <1>8, <1>9, <1>10, <1>11, <1>12
     DEF Next

\* The row invariant and what it says of tokens hold in every reachable state,
\* with writes of past owners arriving at any time.
THEOREM Invariance == Spec => []Inv
BY InitInv, NextInv, PTL DEF Spec

-----------------------------------------------------------------------------
(* The properties that TLC checks on small instances, for every instance. *)

\* Tokens are given out in order, so the row's one is the newest of its job.
LEMMA FenceHolds ==
    ASSUME Inv
    PROVE  OnlyNewestAttemptOwns
<1> SUFFICES ASSUME NEW a \in issued, OwnedBy(jobs[a.job_id], a),
                    NEW b \in issued, b # a, b.job_id = a.job_id
             PROVE  ~OwnedBy(jobs[b.job_id], b) /\ b.execution_token < a.execution_token
  BY DEF OnlyNewestAttemptOwns
<1>1. a = AttemptOf(a.job_id, jobs[a.job_id])
  BY FencedRow
<1>2. ~OwnedBy(jobs[b.job_id], b)
  BY <1>1, FencedRow
<1>3. b.execution_token <= a.execution_token
  BY FencedRow DEF RowInv, RowOwner, Newest
<1>4. b.execution_token # a.execution_token
  BY DEF Inv, TokenInv
<1>5. a.execution_token \in Nat /\ b.execution_token \in Nat
  BY DEF Inv, Attempts
<1> QED
  BY <1>2, <1>3, <1>4, <1>5

\* The attempt that owns the row has its counters, and a delay to wait for.
LEMMA OwnerSettles ==
    ASSUME Inv
    PROVE  OwnerCanAlwaysSettle
<1> SUFFICES ASSUME NEW a \in issued, OwnedBy(jobs[a.job_id], a)
             PROVE  FailureApplies(jobs[a.job_id], a) /\ DelayKnown(a)
  BY DEF OwnerCanAlwaysSettle
<1>1. a.attempt_count = jobs[a.job_id].attempt_count /\ a.attempt_count \in 1..MaxAttempts
  BY FencedRow
<1>2. now \in Nat
  BY Constants DEF Inv
<1> QED
  BY <1>1, <1>2, RetryAtType DEF FailureApplies, HasAttemptsLeft

\* What the invariant says of the table, property by property.
LEMMA TableProperties ==
    Inv => /\ TypeOK /\ OwnershipIffProcessing
           /\ OnlyNewestAttemptOwns /\ OwnerCanAlwaysSettle
           /\ PendingIsClaimable /\ BudgetExact /\ OutcomeIsNewest
<1> SUFFICES ASSUME Inv
             PROVE  /\ TypeOK /\ OwnershipIffProcessing
                    /\ OnlyNewestAttemptOwns /\ OwnerCanAlwaysSettle
                    /\ PendingIsClaimable /\ BudgetExact /\ OutcomeIsNewest
  OBVIOUS
<1>1. TypeOK
  BY DEF Inv, TypeOK
<1>2. OwnershipIffProcessing
  BY DEF Inv, OwnershipIffProcessing, RowInv, RowOwner
<1>3. PendingIsClaimable
  BY DEF Inv, RowInv, RowBudget, PendingIsClaimable, Claimable
<1>4. BudgetExact
  BY MaxAttemptsAssumption DEF Inv, RowInv, RowBudget, Rows, BudgetExact
<1>5. OutcomeIsNewest
  BY DEF Inv, RowInv, RowOutcome, Newest, OutcomeIsNewest, NewestToken
<1> QED
  BY <1>1, <1>2, <1>3, <1>4, <1>5, FenceHolds, OwnerSettles

\* The CHECK constraints of the table are never violated by a transaction.
THEOREM TypeCorrect == Spec => []TypeOK
BY TableProperties, Invariance, PTL

\* Owner, token and lease are set together, exactly while the job is running.
THEOREM OwnershipTheorem == Spec => []OwnershipIffProcessing
BY TableProperties, Invariance, PTL

\* _owned_by lets at most one attempt of a job through, the newest.
THEOREM FenceTheorem == Spec => []OnlyNewestAttemptOwns
BY TableProperties, Invariance, PTL

\* Whoever owns a job can settle it: the counters captured at claim time are
\* those of the row for as long as the fence holds.
THEOREM SettleTheorem == Spec => []OwnerCanAlwaysSettle
BY TableProperties, Invariance, PTL

\* No PENDING row is out of attempts.
THEOREM ClaimableTheorem == Spec => []PendingIsClaimable
BY TableProperties, Invariance, PTL

\* MaxAttempts runs per cycle, all of them before the job fails.
THEOREM BudgetTheorem == Spec => []BudgetExact
BY TableProperties, Invariance, PTL

\* Results and errors are the newest attempt's.
THEOREM OutcomeTheorem == Spec => []OutcomeIsNewest
BY TableProperties, Invariance, PTL

\* What a step leaves alone: a finished row, but for a manual retry of a failed
\* one.
Final ==
    \A j \in Jobs :
       /\ jobs[j].status \in {"completed", "cancelled"} => jobs'[j] = jobs[j]
       /\ jobs[j].status = "failed" /\ jobs'[j] # jobs[j] =>
              jobs'[j].status = "pending" /\ runs'[j] = 0

LEMMA FinalStep ==
    ASSUME Inv, [Next]_vars
    PROVE  Final \/ UNCHANGED vars
<1> SUFFICES ASSUME Next, NEW k \in Jobs,
                    jobs[k].status \in {"completed", "cancelled", "failed"},
                    jobs'[k] # jobs[k]
             PROVE  /\ jobs[k].status = "failed"
                    /\ jobs'[k].status = "pending" /\ runs'[k] = 0
  BY DEF Final
<1>0. jobs \in [Jobs -> Rows] /\ runs \in [Jobs -> 0..MaxAttempts]
  BY DEF Inv
<1>1. ASSUME NEW j \in Jobs, NEW t, CreateJob(j, t) PROVE FALSE
  BY <1>0, <1>1 DEF CreateJob
<1>2. ASSUME NEW j \in Jobs, CancelJob(j) PROVE FALSE
  BY <1>0, <1>2 DEF CancelJob, Cancellable
<1>3. ASSUME NEW j \in Jobs, RetryJob(j)
      PROVE  /\ jobs[k].status = "failed"
             /\ jobs'[k].status = "pending" /\ runs'[k] = 0
  <2>1. k = j
    BY <1>0, <1>3 DEF RetryJob
  <2>2. Retried(jobs[j]).status = "pending"
    BY <1>0, RetriedRow
  <2> QED
    BY <1>0, <1>3, <2>1, <2>2 DEF RetryJob, Retriable
<1>4. ASSUME NEW j \in Jobs, NEW w \in Workers, ClaimJob(j, w) PROVE FALSE
  BY <1>0, <1>4 DEF ClaimJob, Claimable
<1>5. ASSUME NEW a \in issued,
             ExtendLease(a) \/ (\E p \in Reports : UpdateProgress(a, p))
               \/ CompleteJob(a) \/ FailAttempt(a)
      PROVE  FALSE
  BY <1>0, <1>5 DEF ExtendLease, UpdateProgress, CompleteJob, FailAttempt,
                    FailureApplies, OwnedBy
<1>6. ASSUME NEW S \in SUBSET Jobs,
             ActivateDueScheduledJobs(S) \/ RecoverExpiredLeases(S)
      PROVE  FALSE
  BY <1>0, <1>6 DEF ActivateDueScheduledJobs, RecoverExpiredLeases, Due, Expired
<1>7. CASE Tick
  BY <1>7 DEF Tick
<1> QED
  BY <1>1, <1>2, <1>3, <1>4, <1>5, <1>6, <1>7 DEF Next

\* A finished row is final but for a manual retry of a failed one.
THEOREM FinishedTheorem == Spec => FinishedStaysFinished
<1>1. Inv /\ [Next]_vars => [Final]_vars
  BY FinalStep
<1> QED
  BY <1>1, Invariance, PTL DEF Spec, FinishedStaysFinished, Final

-----------------------------------------------------------------------------
(* Delays.  An API clock that runs ahead of the database's breaks this. *)

\* A step releases no row before its time: the scheduler and a claim compare
\* with now(), and a retry drops the time.
LEMMA NeverEarlyStep ==
    ASSUME ApiSkew <= 0, Inv, NeverEarly, [Next]_vars
    PROVE  NeverEarly'
<1>0. /\ jobs \in [Jobs -> Rows] /\ now \in Nat
      /\ \A j \in Jobs : jobs[j].scheduled_at \in Nat \union {NULL}
  BY Constants DEF Inv, Rows
<1> DEFINE Early(r, t) == /\ r.status \in {"pending", "processing"}
                          /\ r.scheduled_at # NULL
                          => r.scheduled_at <= t
<1>a. \A j \in Jobs : Early(jobs[j], now)
  BY DEF NeverEarly
<1>b. SUFFICES \A j \in Jobs : Early(jobs'[j], now')
  BY DEF NeverEarly
<1>1. ASSUME NEW j \in Jobs, NEW t \in (0..MaxTime) \union {NULL}, CreateJob(j, t)
      PROVE  \A k \in Jobs : Early(jobs'[k], now')
  <2>1. t \in Nat \union {NULL} /\ IsFuture(t) \in BOOLEAN
    BY Constants DEF IsFuture
  <2>2. /\ BuildJob(t, IsFuture(t)).scheduled_at = t
        /\ BuildJob(t, IsFuture(t)).status = IF IsFuture(t) THEN "scheduled" ELSE "pending"
    BY <2>1, BuildJobRow
  <2>3. ~IsFuture(t) /\ t # NULL => t <= now
    BY <1>0, <2>1, Constants DEF IsFuture
  <2>4. Early(BuildJob(t, IsFuture(t)), now)
    BY <2>2, <2>3
  <2> QED
    BY <1>0, <1>1, <1>a, <2>4 DEF CreateJob
<1>2. ASSUME NEW j \in Jobs, CancelJob(j)
      PROVE  \A k \in Jobs : Early(jobs'[k], now')
  BY <1>0, <1>2, <1>a, CancelledRow DEF CancelJob
<1>3. ASSUME NEW j \in Jobs, RetryJob(j)
      PROVE  \A k \in Jobs : Early(jobs'[k], now')
  BY <1>0, <1>3, <1>a, RetriedRow DEF RetryJob
<1>4. ASSUME NEW j \in Jobs, NEW w \in Workers, ClaimJob(j, w)
      PROVE  \A k \in Jobs : Early(jobs'[k], now')
  <2> DEFINE x == Claimed(jobs[j], w, Mint, now + LeaseTime)
  <2>1. Mint \in Nat /\ now + LeaseTime \in Nat
    BY <1>0, Constants DEF Inv, Mint
  <2>2. x.scheduled_at = jobs[j].scheduled_at /\ jobs[j].status = "pending"
    BY <1>0, <1>4, <2>1, ClaimedRow DEF ClaimJob, Claimable
  <2>3. Early(x, now)
    BY <1>a, <2>2
  <2> QED
    BY <1>0, <1>4, <1>a, <2>3 DEF ClaimJob
<1>5. ASSUME NEW a \in issued, ExtendLease(a)
      PROVE  \A k \in Jobs : Early(jobs'[k], now')
  <2>1. /\ LeaseExtended(jobs[a.job_id], now + LeaseTime).status = jobs[a.job_id].status
        /\ LeaseExtended(jobs[a.job_id], now + LeaseTime).scheduled_at
              = jobs[a.job_id].scheduled_at
        /\ a.job_id \in Jobs
    <3>1. a.job_id \in Jobs /\ now + LeaseTime \in Nat
      BY <1>0, <1>5, Constants, FencedRow DEF ExtendLease
    <3> QED
      BY <1>0, <3>1, LeaseExtendedRow
  <2> QED
    BY <1>0, <1>5, <1>a, <2>1 DEF ExtendLease
<1>6. ASSUME NEW a \in issued, NEW p \in Reports, UpdateProgress(a, p)
      PROVE  \A k \in Jobs : Early(jobs'[k], now')
  <2>1. /\ ProgressReported(jobs[a.job_id], p).status = jobs[a.job_id].status
        /\ ProgressReported(jobs[a.job_id], p).scheduled_at
              = jobs[a.job_id].scheduled_at
        /\ a.job_id \in Jobs
    BY <1>0, <1>6, Constants, FencedRow, ProgressReportedRow DEF UpdateProgress
  <2> QED
    BY <1>0, <1>6, <1>a, <2>1 DEF UpdateProgress
<1>7. ASSUME NEW a \in issued, CompleteJob(a)
      PROVE  \A k \in Jobs : Early(jobs'[k], now')
  <2>1. a.execution_token \in Nat /\ a.job_id \in Jobs
    BY DEF Inv, Attempts
  <2>2. Completed(jobs[a.job_id], a.execution_token).status = "completed"
    BY <1>0, <2>1, CompletedRow
  <2> QED
    BY <1>0, <1>7, <1>a, <2>1, <2>2 DEF CompleteJob
<1>8. ASSUME NEW j \in Jobs, NEW a, a.attempt_count \in 1..MaxAttempts,
             a.execution_token \in Nat
      PROVE  AttemptFailed(jobs[j], a, a.execution_token, RetryAt(a)).status
               \in {"scheduled", "failed"}
  <2>1. RetryAt(a) \in Nat \union {NULL} /\ jobs[j] \in Rows
    BY <1>0, <1>8, RetryAtType
  <2> QED
    BY <1>8, <2>1, AttemptFailedRow
<1>9. ASSUME NEW a \in issued, FailAttempt(a)
      PROVE  \A k \in Jobs : Early(jobs'[k], now')
  <2>1. a.execution_token \in Nat /\ a.job_id \in Jobs /\ a.attempt_count \in 1..MaxAttempts
    BY DEF Inv, Attempts
  <2> QED
    BY <1>0, <1>8, <1>9, <1>a, <2>1 DEF FailAttempt
<1>10. ASSUME NEW S \in SUBSET Jobs, ActivateDueScheduledJobs(S)
       PROVE  \A k \in Jobs : Early(jobs'[k], now')
  BY <1>0, <1>10, <1>a, ActivatedRow DEF ActivateDueScheduledJobs, Due
<1>11. ASSUME NEW S \in SUBSET Jobs, RecoverExpiredLeases(S)
       PROVE  \A k \in Jobs : Early(jobs'[k], now')
  <2>1. ASSUME NEW j \in S
        PROVE  LET a == AttemptOf(j, jobs[j]) IN
               a.execution_token \in Nat /\ a.attempt_count \in 1..MaxAttempts
    <3> DEFINE a == AttemptOf(j, jobs[j])
    <3>1. a \in issued
      BY <1>11, <2>1 DEF RecoverExpiredLeases, Expired, Inv, RowInv, RowOwner
    <3> HIDE DEF a
    <3>2. a.execution_token \in Nat /\ a.attempt_count \in 1..MaxAttempts
      BY <3>1 DEF Inv, Attempts
    <3> QED
      BY <3>2 DEF a
  <2> QED
    BY <1>0, <1>8, <1>11, <1>a, <2>1 DEF RecoverExpiredLeases
<1>12. CASE Tick
  BY <1>0, <1>12, <1>a DEF Tick
<1>13. CASE UNCHANGED vars
  BY <1>13, <1>a DEF vars
<1> QED
  BY <1>1, <1>2, <1>3, <1>4, <1>5, <1>6, <1>7, <1>9, <1>10, <1>11, <1>12, <1>13
     DEF Next

\* When the clock of the API is not ahead of the database's, no job is released
\* before its scheduled_at.
THEOREM NeverEarlyTheorem ==
    ASSUME ApiSkew <= 0
    PROVE  Spec => []NeverEarly
<1>1. Init => NeverEarly
  BY DEF Init, NeverEarly, NoRow
<1>2. Inv /\ NeverEarly /\ [Next]_vars => NeverEarly'
  BY NeverEarlyStep
<1> QED
  BY <1>1, <1>2, Invariance, PTL DEF Spec

-----------------------------------------------------------------------------
(* The table implements the lifecycle. *)

\* A step that writes no phase, count or owner is a stutter of the lifecycle.
LEMMA StutterStep ==
    ASSUME minted' = minted,
           \A j \in Jobs : /\ PhaseOf(jobs'[j]) = PhaseOf(jobs[j])
                           /\ jobs'[j].attempt_count = jobs[j].attempt_count
                           /\ jobs'[j].execution_token = jobs[j].execution_token
    PROVE  UNCHANGED Lifecycle!vars
BY DEF Lifecycle!vars

\* The row that the attempt owning it leaves behind when it fails.
LEMMA SettledRow ==
    ASSUME Inv, NEW j \in Jobs, NEW a \in issued,
           a.attempt_count = jobs[j].attempt_count
    PROVE  LET x == AttemptFailed(jobs[j], a, a.execution_token, RetryAt(a)) IN
           /\ x.status = IF jobs[j].attempt_count < MaxAttempts
                         THEN "scheduled" ELSE "failed"
           /\ x.attempt_count = jobs[j].attempt_count
           /\ x.execution_token = NULL
<1>1. a.execution_token \in Nat /\ a.attempt_count \in 1..MaxAttempts
  BY DEF Inv, Attempts
<1>2. RetryAt(a) \in Nat \union {NULL} /\ jobs[j] \in Rows
  BY <1>1, RetryAtType, Constants DEF Inv
<1> QED
  BY <1>1, <1>2, AttemptFailedByCount

\* Rows of jobs in S are failed through their own attempts: S is given back.
LEMMA GiveBackStep ==
    ASSUME Inv, NEW S \in SUBSET Jobs, minted' = minted,
           \A j \in S :
              /\ jobs[j].status = "processing"
              /\ jobs'[j].status = IF jobs[j].attempt_count < MaxAttempts
                                   THEN "scheduled" ELSE "failed"
              /\ jobs'[j].attempt_count = jobs[j].attempt_count
              /\ jobs'[j].execution_token = NULL,
           \A j \in Jobs \ S : jobs'[j] = jobs[j]
    PROVE  Lifecycle!GiveBack(S)
BY DEF Lifecycle!GiveBack, PhaseOf

LEMMA StepRefines == Inv /\ [Next]_vars => [Lifecycle!Next]_(Lifecycle!vars)
<1> SUFFICES ASSUME Inv, [Next]_vars PROVE [Lifecycle!Next]_(Lifecycle!vars)
  OBVIOUS
<1> USE Constants
<1>0. /\ jobs \in [Jobs -> Rows] /\ now \in Nat /\ minted \in 0..MaxClaims
      /\ \A j \in Jobs : RowInv(j, jobs[j], runs[j], issued)
  BY DEF Inv
<1>1. ASSUME NEW j \in Jobs, NEW t \in (0..MaxTime) \union {NULL}, CreateJob(j, t)
      PROVE  Lifecycle!Accept(j)
  <2> DEFINE x == BuildJob(t, IsFuture(t))
  <2>1. t \in Nat \union {NULL} /\ IsFuture(t) \in BOOLEAN
    BY DEF IsFuture
  <2>2. /\ x.status \in {"scheduled", "pending"} /\ x.attempt_count = 0
        /\ x.execution_token = NULL
    BY <2>1, BuildJobRow
  <2>3. jobs[j].attempt_count = 0 /\ jobs[j].execution_token = NULL
    BY <1>0, <1>1 DEF CreateJob, RowInv, RowOwner, RowBudget
  <2>4. jobs' = [jobs EXCEPT ![j] = x] /\ jobs[j].status = "absent" /\ minted' = minted
    BY <1>1 DEF CreateJob
  <2> HIDE DEF x
  <2> QED
    BY <1>0, <2>2, <2>3, <2>4 DEF Lifecycle!Accept, PhaseOf
<1>2. ASSUME NEW j \in Jobs, CancelJob(j)
      PROVE  Lifecycle!Drop(j)
  <2> DEFINE x == Cancelled(jobs[j])
  <2>1. /\ x.status = "cancelled" /\ x.attempt_count = jobs[j].attempt_count
        /\ x.execution_token = NULL
    BY <1>0, CancelledRow
  <2>2. /\ jobs' = [jobs EXCEPT ![j] = x] /\ minted' = minted
        /\ jobs[j].status \in {"pending", "scheduled"}
    BY <1>2 DEF CancelJob, Cancellable
  <2>3. jobs[j].execution_token = NULL
    BY <1>0, <2>2 DEF RowInv, RowOwner
  <2> HIDE DEF x
  <2> QED
    BY <1>0, <2>1, <2>2, <2>3 DEF Lifecycle!Drop, PhaseOf
<1>3. ASSUME NEW j \in Jobs, RetryJob(j)
      PROVE  Lifecycle!Restart(j)
  <2> DEFINE x == Retried(jobs[j])
  <2>1. /\ x.status = "pending" /\ x.attempt_count = 0 /\ x.execution_token = NULL
    BY <1>0, RetriedRow
  <2>2. /\ jobs' = [jobs EXCEPT ![j] = x] /\ minted' = minted
        /\ jobs[j].status = "failed"
    BY <1>3 DEF RetryJob, Retriable
  <2>3. jobs[j].execution_token = NULL
    BY <1>0, <2>2 DEF RowInv, RowOwner
  <2> HIDE DEF x
  <2> QED
    BY <1>0, <2>1, <2>2, <2>3 DEF Lifecycle!Restart, PhaseOf
<1>4. ASSUME NEW j \in Jobs, NEW w \in Workers, ClaimJob(j, w)
      PROVE  \E o \in 1..MaxClaims : Lifecycle!Begin(j, o)
  <2> DEFINE x == Claimed(jobs[j], w, Mint, now + LeaseTime)
  <2>1. /\ Mint = minted + 1 /\ Mint \in 1..MaxClaims /\ Mint \in Nat
        /\ now + LeaseTime \in Nat
    BY <1>0, <1>4 DEF ClaimJob, Mint
  <2>2. /\ jobs' = [jobs EXCEPT ![j] = x] /\ minted' = Mint
        /\ Claimable(jobs[j])
    BY <1>4, <2>1 DEF ClaimJob
  <2>3. /\ x.status = "processing" /\ x.attempt_count = jobs[j].attempt_count + 1
        /\ x.execution_token = Mint
    BY <1>0, <2>1, <2>2, ClaimedRow
  <2>4. jobs[j].status = "pending" /\ jobs[j].attempt_count < MaxAttempts
    BY <2>2 DEF Claimable
  <2>5. Mint \notin 1..minted /\ 1..minted' = (1..minted) \union {Mint}
    BY <1>0, <2>1, <2>2
  <2> HIDE DEF x
  <2>6. PICK o \in 1..MaxClaims : o = Mint
    BY <2>1
  <2>7. Lifecycle!Begin(j, o)
    BY <1>0, <2>1, <2>2, <2>3, <2>4, <2>5, <2>6 DEF Lifecycle!Begin, PhaseOf
  <2> QED
    BY <2>7
<1>5. ASSUME NEW a \in issued, ExtendLease(a)
      PROVE  UNCHANGED Lifecycle!vars
  <2>1. a.job_id \in Jobs /\ now + LeaseTime \in Nat
    BY <1>0, <1>5, FencedRow DEF ExtendLease
  <2> DEFINE x == LeaseExtended(jobs[a.job_id], now + LeaseTime)
  <2>2. /\ x.status = jobs[a.job_id].status
        /\ x.attempt_count = jobs[a.job_id].attempt_count
        /\ x.execution_token = jobs[a.job_id].execution_token
    BY <1>0, <2>1, LeaseExtendedRow
  <2>3. jobs' = [jobs EXCEPT ![a.job_id] = x] /\ minted' = minted
    BY <1>5 DEF ExtendLease
  <2> HIDE DEF x
  <2> QED
    BY <1>0, <2>1, <2>2, <2>3, StutterStep DEF PhaseOf
<1>6. ASSUME NEW a \in issued, NEW p \in Reports, UpdateProgress(a, p)
      PROVE  UNCHANGED Lifecycle!vars
  <2>1. a.job_id \in Jobs /\ p \in Int
    BY <1>6, FencedRow DEF UpdateProgress
  <2> DEFINE x == ProgressReported(jobs[a.job_id], p)
  <2>2. /\ x.status = jobs[a.job_id].status
        /\ x.attempt_count = jobs[a.job_id].attempt_count
        /\ x.execution_token = jobs[a.job_id].execution_token
    BY <1>0, <2>1, ProgressReportedRow
  <2>3. jobs' = [jobs EXCEPT ![a.job_id] = x] /\ minted' = minted
    BY <1>6 DEF UpdateProgress
  <2> HIDE DEF x
  <2> QED
    BY <1>0, <2>1, <2>2, <2>3, StutterStep DEF PhaseOf
<1>7. ASSUME NEW a \in issued, CompleteJob(a)
      PROVE  a.job_id \in Jobs /\ Lifecycle!Finish(a.job_id)
  <2>1. /\ a.job_id \in Jobs /\ a.execution_token \in Nat
        /\ jobs[a.job_id].status = "processing"
    BY <1>7, FencedRow DEF CompleteJob, Inv, Attempts
  <2> DEFINE x == Completed(jobs[a.job_id], a.execution_token)
  <2>2. /\ x.status = "completed"
        /\ x.attempt_count = jobs[a.job_id].attempt_count
        /\ x.execution_token = NULL
    BY <1>0, <2>1, CompletedRow
  <2>3. jobs' = [jobs EXCEPT ![a.job_id] = x] /\ minted' = minted
    BY <1>7 DEF CompleteJob
  <2> HIDE DEF x
  <2> QED
    BY <1>0, <2>1, <2>2, <2>3 DEF Lifecycle!Finish, PhaseOf
<1>9. ASSUME NEW a \in issued, FailAttempt(a)
      PROVE  {a.job_id} \in SUBSET Jobs /\ Lifecycle!GiveBack({a.job_id})
  <2> DEFINE j == a.job_id
             x == AttemptFailed(jobs[j], a, a.execution_token, RetryAt(a))
  <2>1. /\ j \in Jobs /\ a.attempt_count = jobs[j].attempt_count
        /\ jobs[j].status = "processing"
    BY <1>9, FencedRow DEF FailAttempt, FailureApplies
  <2>2. /\ x.status = IF jobs[j].attempt_count < MaxAttempts
                      THEN "scheduled" ELSE "failed"
        /\ x.attempt_count = jobs[j].attempt_count
        /\ x.execution_token = NULL
    BY <1>9, <2>1, SettledRow
  <2>3. jobs' = [jobs EXCEPT ![j] = x] /\ minted' = minted
    BY <1>9 DEF FailAttempt
  <2> HIDE DEF x, j
  <2>4. Lifecycle!GiveBack({j})
    BY <1>0, <2>1, <2>2, <2>3, GiveBackStep
  <2> QED
    BY <2>1, <2>4 DEF j
<1>10. ASSUME NEW S \in SUBSET Jobs, ActivateDueScheduledJobs(S)
       PROVE  UNCHANGED Lifecycle!vars
  <2>1. \A j \in S : /\ jobs[j].status = "scheduled"
                     /\ Activated(jobs[j]).status = "pending"
                     /\ Activated(jobs[j]).attempt_count = jobs[j].attempt_count
                     /\ Activated(jobs[j]).execution_token = jobs[j].execution_token
    BY <1>0, <1>10, ActivatedRow DEF ActivateDueScheduledJobs, Due
  <2>2. \A j \in Jobs : jobs'[j] = IF j \in S THEN Activated(jobs[j]) ELSE jobs[j]
    BY <1>10 DEF ActivateDueScheduledJobs
  <2>3. minted' = minted
    BY <1>10 DEF ActivateDueScheduledJobs
  <2> QED
    BY <2>1, <2>2, <2>3, StutterStep DEF PhaseOf
<1>11. ASSUME NEW S \in SUBSET Jobs, RecoverExpiredLeases(S)
       PROVE  Lifecycle!GiveBack(S)
  <2>1. \A j \in S : jobs[j].status = "processing" /\ AttemptOf(j, jobs[j]) \in issued
    BY <1>0, <1>11 DEF RecoverExpiredLeases, Expired, RowInv, RowOwner
  <2>a. \A j \in S : AttemptOf(j, jobs[j]).attempt_count = jobs[j].attempt_count
    BY DEF AttemptOf
  <2>2. \A j \in S :
          /\ jobs'[j].status = IF jobs[j].attempt_count < MaxAttempts
                               THEN "scheduled" ELSE "failed"
          /\ jobs'[j].attempt_count = jobs[j].attempt_count
          /\ jobs'[j].execution_token = NULL
    BY <1>11, <2>1, <2>a, SettledRow DEF RecoverExpiredLeases
  <2>3. (\A j \in Jobs \ S : jobs'[j] = jobs[j]) /\ minted' = minted
    BY <1>11 DEF RecoverExpiredLeases
  <2> QED
    BY <2>1, <2>2, <2>3, GiveBackStep
<1>12. CASE Tick
  BY <1>12, StutterStep DEF Tick
<1>13. CASE UNCHANGED vars
  BY <1>13, StutterStep DEF vars
<1>14. \A j \in Jobs : /\ Lifecycle!Accept(j) => Lifecycle!Next
                       /\ Lifecycle!Drop(j) => Lifecycle!Next
                       /\ Lifecycle!Restart(j) => Lifecycle!Next
                       /\ Lifecycle!Finish(j) => Lifecycle!Next
                       /\ \A o \in 1..MaxClaims : Lifecycle!Begin(j, o) => Lifecycle!Next
  BY DEF Lifecycle!Next
<1>15. \A S \in SUBSET Jobs : Lifecycle!GiveBack(S) => Lifecycle!Next
  BY DEF Lifecycle!Next
<1>16. CASE \/ \E j \in Jobs, t \in (0..MaxTime) \union {NULL} : CreateJob(j, t)
            \/ \E j \in Jobs : CancelJob(j) \/ RetryJob(j)
  BY <1>1, <1>2, <1>3, <1>14, <1>16
<1>20. CASE \E j \in Jobs, w \in Workers : ClaimJob(j, w)
  BY <1>4, <1>14, <1>20
<1>17. CASE \E a \in issued : CompleteJob(a) \/ FailAttempt(a)
  BY <1>7, <1>9, <1>14, <1>15, <1>17
<1>18. CASE \E S \in SUBSET Jobs : RecoverExpiredLeases(S)
  BY <1>11, <1>15, <1>18
<1>19. CASE \/ \E a \in issued : ExtendLease(a)
            \/ \E a \in issued, p \in Reports : UpdateProgress(a, p)
            \/ \E S \in SUBSET Jobs : ActivateDueScheduledJobs(S)
  BY <1>5, <1>6, <1>10, <1>19
<1> QED
  BY <1>12, <1>13, <1>16, <1>17, <1>18, <1>19, <1>20 DEF Next

\* The table, with every late write of every past owner, implements the
\* lifecycle: an exclusive owner, no owner twice, a bounded number of tries.
THEOREM Refinement == Spec => RefinesLifecycle
<1>1. Init => Lifecycle!Init
  <2>1. /\ PhaseOf(NoRow) = "absent" /\ NoRow.attempt_count = 0
        /\ NoRow.execution_token = NULL
    BY DEF PhaseOf, NoRow
  <2>2. 1..0 = {}
    OBVIOUS
  <2> QED
    BY <2>1, <2>2 DEF Init, Lifecycle!Init
<1> QED
  BY <1>1, StepRefines, Invariance, PTL DEF Spec, RefinesLifecycle, Lifecycle!Spec
=============================================================================
