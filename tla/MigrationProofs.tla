--------------------------- MODULE MigrationProofs ---------------------------
(* Theorems about Migration, for all jobs, workers, delays and bounds. *)
EXTENDS Migration, JobStoreProofs

-----------------------------------------------------------------------------
(* The inductive invariant.  What JobStoreProofs knows of a row does not      *)
(* survive a migration: Phase 3 left rows without started_at or result, and a *)
(* downgrade takes the tokens away.  What does is stated for the row r at     *)
(* revision v, with the tokens lo + 1 to hi minted since the last upgrade.    *)

RowAt(r, v, lo, hi) ==
    /\ r \in Rows
    /\ r.status # "processing" =>
          r.worker_id = NULL /\ r.execution_token = NULL /\ r.lease_expires_at = NULL
    /\ r.status = "absent" => r.attempt_count = 0
    /\ v = "0001" => r.execution_token = NULL
    /\ v = "0002" /\ r.status = "processing" =>
          /\ r.worker_id # NULL /\ r.lease_expires_at # NULL
          /\ r.execution_token \in Nat /\ lo < r.execution_token /\ r.execution_token <= hi

MigrationInv ==
    /\ revision \in {"0001", "0002"}
    /\ now \in Nat
    /\ minted \in 0..MaxClaims /\ fenced \in 0..minted
    /\ issued \subseteq Attempts
    /\ jobs \in [Jobs -> Rows]
    /\ runs \in [Jobs -> 0..MaxAttempts]
    /\ \A j \in Jobs : runs[j] = jobs[j].attempt_count
    /\ \A j \in Jobs : RowAt(jobs[j], revision, fenced, minted)

LEMMA MigrationInitInv == MigrationInit => MigrationInv
<1> SUFFICES ASSUME MigrationInit PROVE MigrationInv
  OBVIOUS
<1> USE Constants
<1>1. ASSUME NEW r \in LegacyRows
      PROVE  RowAt(r, "0001", 0, 0) /\ r.attempt_count \in 0..MaxAttempts
  <2> DEFINE one == 1
  <2>1. one \in 0..MaxAttempts /\ 0 \in 0..MaxAttempts /\ NoRow \in Rows
    BY NoRowRow
  <2>2. NoRow.worker_id = NULL /\ NoRow.execution_token = NULL /\ NoRow.lease_expires_at = NULL
        /\ NoRow.status = "absent" /\ NoRow.attempt_count = 0
    BY DEF NoRow
  <2>3. CASE r = NoRow
    BY <2>1, <2>2, <2>3 DEF RowAt
  <2>4. CASE r = [NoRow EXCEPT !.status = "pending"]
    <3>1. /\ r \in Rows /\ r.status = "pending" /\ r.attempt_count = 0
          /\ r.worker_id = NULL /\ r.execution_token = NULL /\ r.lease_expires_at = NULL
      BY <2>1, <2>2, <2>4, ZenonT(60) DEF Rows, Statuses
    <3> QED
      BY <2>1, <3>1 DEF RowAt
  <2> HIDE DEF one
  <2>5. CASE r = [NoRow EXCEPT !.status = "completed", !.attempt_count = one]
    <3>1. /\ r \in Rows /\ r.status = "completed" /\ r.attempt_count = one
          /\ r.worker_id = NULL /\ r.execution_token = NULL /\ r.lease_expires_at = NULL
      BY <2>1, <2>2, <2>5, ZenonT(60) DEF Rows, Statuses
    <3> QED
      BY <2>1, <3>1 DEF RowAt
  <2>6. CASE r = [NoRow EXCEPT !.status = "processing", !.attempt_count = one,
                               !.worker_id = LegacyWorker]
    <3>1. /\ r \in Rows /\ r.status = "processing" /\ r.attempt_count = one
          /\ r.execution_token = NULL
      BY <2>1, <2>2, <2>6, MigrationAssumption, ZenonT(60) DEF Rows, Statuses
    <3> QED
      BY <2>1, <3>1 DEF RowAt
  <2> QED
    BY <2>3, <2>4, <2>5, <2>6 DEF LegacyRows, one
<1>2. \A j \in Jobs : /\ RowAt(jobs[j], "0001", 0, 0)
                      /\ jobs[j].attempt_count \in 0..MaxAttempts
  BY <1>1 DEF MigrationInit
<1>3. jobs \in [Jobs -> Rows]
  <2>1. jobs \in [Jobs -> LegacyRows]
    BY DEF MigrationInit
  <2> QED
    BY <1>2, <2>1 DEF RowAt
<1> QED
  BY <1>2, <1>3 DEF MigrationInit, MigrationInv

-----------------------------------------------------------------------------
(* The migrations. *)

LEMMA UpgradeInv ==
    ASSUME MigrationInv, Upgrade
    PROVE  MigrationInv'
<1>1. /\ revision = "0001" /\ revision' = "0002" /\ fenced' = minted
      /\ jobs' = [j \in Jobs |-> Upgraded(jobs[j])]
      /\ UNCHANGED <<now, minted, issued, runs, downgrades>>
  BY DEF Upgrade
<1>2. ASSUME NEW j \in Jobs
      PROVE  /\ RowAt(jobs'[j], "0002", minted, minted)
             /\ jobs'[j].attempt_count = jobs[j].attempt_count
  <2> DEFINE r == jobs[j]
             y == [r EXCEPT !.status = "scheduled", !.scheduled_at = now]
  <2>1. RowAt(r, "0001", fenced, minted) /\ now \in Nat
    BY <1>1 DEF MigrationInv
  <2>2. jobs'[j] = IF r.status = "processing" THEN Released(y) ELSE r
    BY <1>1, <2>1 DEF Upgraded, RowAt
  <2>3. CASE r.status # "processing"
    BY <2>1, <2>2, <2>3 DEF RowAt
  <2>4. CASE r.status = "processing"
    <3>1. y \in Rows /\ y.status = "scheduled" /\ y.attempt_count = r.attempt_count
      BY <2>1, ZenonT(60) DEF RowAt, Rows, Statuses
    <3> HIDE DEF y
    <3>2. /\ Released(y) \in Rows /\ Released(y).status = "scheduled"
          /\ Released(y).attempt_count = r.attempt_count
          /\ Released(y).worker_id = NULL /\ Released(y).execution_token = NULL
          /\ Released(y).lease_expires_at = NULL
      BY <3>1, ReleasedRow
    <3> QED
      BY <2>2, <2>4, <3>2 DEF RowAt
  <2> QED
    BY <2>3, <2>4
<1>3. jobs' \in [Jobs -> Rows]
  BY <1>1, <1>2 DEF RowAt
<1> QED
  BY <1>1, <1>2, <1>3 DEF MigrationInv

LEMMA DowngradeInv ==
    ASSUME MigrationInv, Downgrade
    PROVE  MigrationInv'
<1>1. /\ revision = "0002" /\ revision' = "0001"
      /\ jobs' = [j \in Jobs |-> Downgraded(jobs[j])]
      /\ UNCHANGED <<now, minted, issued, runs, fenced>>
  BY DEF Downgrade
<1>2. ASSUME NEW j \in Jobs
      PROVE  /\ RowAt(jobs'[j], "0001", fenced, minted)
             /\ jobs'[j].attempt_count = jobs[j].attempt_count
  <2> DEFINE r == jobs[j]
             x == Downgraded(r)
  <2>1. RowAt(r, "0002", fenced, minted) /\ jobs'[j] = x
    BY <1>1 DEF MigrationInv
  <2>2. /\ x \in Rows /\ x.status = r.status /\ x.attempt_count = r.attempt_count
        /\ x.worker_id = r.worker_id /\ x.lease_expires_at = r.lease_expires_at
        /\ x.execution_token = NULL
    BY <2>1 DEF RowAt, Rows, Downgraded
  <2> HIDE DEF x
  <2> QED
    BY <2>1, <2>2 DEF RowAt
<1>3. jobs' \in [Jobs -> Rows]
  BY <1>1, <1>2 DEF RowAt
<1> QED
  BY <1>1, <1>2, <1>3 DEF MigrationInv

-----------------------------------------------------------------------------
(* The service at 0002. *)

\* A step that writes one row and mints nothing.
LEMMA OneRowAt ==
    ASSUME MigrationInv, revision = "0002", UNCHANGED migrationVars,
           NEW j \in Jobs, NEW x, RowAt(x, "0002", fenced, minted),
           jobs' = [jobs EXCEPT ![j] = x],
           runs' = [runs EXCEPT ![j] = x.attempt_count],
           UNCHANGED <<now, minted, issued>>
    PROVE  MigrationInv'
<1>1. x \in Rows /\ x.attempt_count \in 0..MaxAttempts
  BY DEF RowAt, Rows
<1> QED
  BY <1>1 DEF MigrationInv, migrationVars

\* A step that writes the rows of S, with their counters, and mints nothing.
LEMMA SomeRowsAt ==
    ASSUME MigrationInv, revision = "0002", UNCHANGED migrationVars,
           NEW S \in SUBSET Jobs, jobs' = [j \in Jobs |-> jobs'[j]],
           \A j \in S : /\ RowAt(jobs'[j], "0002", fenced, minted)
                        /\ jobs'[j].attempt_count = jobs[j].attempt_count,
           \A j \in Jobs \ S : jobs'[j] = jobs[j],
           UNCHANGED <<now, minted, issued, runs>>
    PROVE  MigrationInv'
<1>1. \A j \in Jobs : /\ RowAt(jobs'[j], "0002", fenced, minted)
                      /\ jobs'[j].attempt_count = jobs[j].attempt_count
  BY DEF MigrationInv
<1>2. jobs' \in [Jobs -> Rows]
  BY <1>1 DEF RowAt
<1> QED
  BY <1>1, <1>2 DEF MigrationInv, migrationVars

\* A failed attempt leaves a released row, whoever finds the failure.
LEMMA FailedAt ==
    ASSUME NEW r, NEW lo, NEW hi, RowAt(r, "0002", lo, hi), NEW a, NEW e \in Nat,
           DelayKnown(a), now \in Nat
    PROVE  LET x == AttemptFailed(r, a, e, RetryAt(a)) IN
           RowAt(x, "0002", lo, hi) /\ x.attempt_count = r.attempt_count
<1> DEFINE x == AttemptFailed(r, a, e, RetryAt(a))
<1>0. RetryAt(a) \in Nat \union {NULL}
  BY Constants DEF RetryAt, DelayKnown
<1>1. PICK t \in Nat \union {NULL} : t = RetryAt(a)
  BY <1>0
<1>2. /\ x \in Rows /\ x.status \in {"scheduled", "failed"}
      /\ x.attempt_count = r.attempt_count
      /\ x.worker_id = NULL /\ x.execution_token = NULL /\ x.lease_expires_at = NULL
  <2>1. r \in Rows /\ HasAttemptsLeft(a) \in BOOLEAN
    BY DEF RowAt, HasAttemptsLeft
  <2>2. LET y == AttemptFailed(r, a, e, t) IN
        /\ y \in Rows /\ y.status \in {"scheduled", "failed"}
        /\ y.attempt_count = r.attempt_count
        /\ y.worker_id = NULL /\ y.execution_token = NULL /\ y.lease_expires_at = NULL
    BY <2>1, AttemptFailedRow
  <2> QED
    BY <1>1, <2>2
<1> HIDE DEF x
<1>3. RowAt(x, "0002", lo, hi) /\ x.attempt_count = r.attempt_count
  BY <1>2 DEF RowAt
<1> QED
  BY <1>3 DEF x

LEMMA ServiceInv ==
    ASSUME MigrationInv, revision = "0002", Next, UNCHANGED migrationVars
    PROVE  MigrationInv'
<1> USE Constants
<1>0. /\ now \in Nat /\ issued \subseteq Attempts /\ minted \in Nat /\ fenced \in Nat
      /\ fenced <= minted
      /\ \A j \in Jobs : /\ RowAt(jobs[j], "0002", fenced, minted) /\ jobs[j] \in Rows
                         /\ runs[j] = jobs[j].attempt_count
      /\ \A j \in Jobs : runs = [runs EXCEPT ![j] = jobs[j].attempt_count]
  BY DEF MigrationInv
<1>1. ASSUME NEW j \in Jobs, NEW t \in (0..MaxTime) \union {NULL}, CreateJob(j, t)
      PROVE  MigrationInv'
  <2> DEFINE x == BuildJob(t, IsFuture(t))
  <2>1. t \in Nat \union {NULL} /\ IsFuture(t) \in BOOLEAN
    BY DEF IsFuture
  <2>2. /\ x \in Rows /\ x.status \in {"scheduled", "pending"} /\ x.attempt_count = 0
        /\ x.worker_id = NULL /\ x.execution_token = NULL /\ x.lease_expires_at = NULL
    BY <2>1, BuildJobRow
  <2>3. jobs' = [jobs EXCEPT ![j] = x] /\ UNCHANGED <<now, minted, issued, runs>>
    BY <1>1 DEF CreateJob
  <2>4. jobs[j].attempt_count = 0
    BY <1>0, <1>1 DEF CreateJob, RowAt
  <2> HIDE DEF x
  <2>5. RowAt(x, "0002", fenced, minted) /\ runs' = [runs EXCEPT ![j] = x.attempt_count]
    BY <1>0, <2>2, <2>3, <2>4 DEF RowAt
  <2> QED
    BY <2>3, <2>5, OneRowAt
<1>2. ASSUME NEW j \in Jobs, CancelJob(j) PROVE MigrationInv'
  <2> DEFINE x == Cancelled(jobs[j])
  <2>1. /\ x \in Rows /\ x.status = "cancelled" /\ x.attempt_count = jobs[j].attempt_count
        /\ x.worker_id = NULL /\ x.execution_token = NULL /\ x.lease_expires_at = NULL
    BY <1>0, CancelledRow
  <2>2. jobs' = [jobs EXCEPT ![j] = x] /\ UNCHANGED <<now, minted, issued, runs>>
    BY <1>2 DEF CancelJob
  <2> HIDE DEF x
  <2>3. RowAt(x, "0002", fenced, minted) /\ runs' = [runs EXCEPT ![j] = x.attempt_count]
    BY <1>0, <2>1, <2>2 DEF RowAt
  <2> QED
    BY <2>2, <2>3, OneRowAt
<1>3. ASSUME NEW j \in Jobs, RetryJob(j) PROVE MigrationInv'
  <2> DEFINE x == Retried(jobs[j])
  <2>1. /\ x \in Rows /\ x.status = "pending" /\ x.attempt_count = 0
        /\ x.worker_id = NULL /\ x.execution_token = NULL /\ x.lease_expires_at = NULL
    BY <1>0, RetriedRow
  <2>2. /\ jobs' = [jobs EXCEPT ![j] = x] /\ runs' = [runs EXCEPT ![j] = 0]
        /\ UNCHANGED <<now, minted, issued>>
    BY <1>3 DEF RetryJob
  <2> HIDE DEF x
  <2>3. RowAt(x, "0002", fenced, minted) /\ runs' = [runs EXCEPT ![j] = x.attempt_count]
    BY <2>1, <2>2 DEF RowAt
  <2> QED
    BY <2>2, <2>3, OneRowAt
<1>4. ASSUME NEW j \in Jobs, NEW w \in Workers, ClaimJob(j, w) PROVE MigrationInv'
  <2> DEFINE x == Claimed(jobs[j], w, Mint, now + LeaseTime)
  <2>1. /\ Mint = minted + 1 /\ Mint \in 1..MaxClaims /\ now + LeaseTime \in Nat
    BY <1>0, <1>4 DEF ClaimJob, Mint
  <2>2. /\ jobs' = [jobs EXCEPT ![j] = x] /\ minted' = Mint /\ Claimable(jobs[j])
        /\ issued' = issued \union {AttemptOf(j, jobs'[j])}
        /\ runs' = [runs EXCEPT ![j] = @ + 1] /\ now' = now
    BY <1>4, <2>1 DEF ClaimJob
  <2>3. /\ x \in Rows /\ x.status = "processing"
        /\ x.attempt_count = jobs[j].attempt_count + 1
        /\ x.worker_id = w /\ x.execution_token = Mint
        /\ x.lease_expires_at = now + LeaseTime
    BY <1>0, <2>1, <2>2, ClaimedRow
  <2> HIDE DEF x
  <2>4. RowAt(x, "0002", fenced, minted')
    BY <1>0, <2>1, <2>2, <2>3 DEF RowAt
  <2>5. x.attempt_count \in 1..MaxAttempts
    BY <1>0, <2>3 DEF Rows
  <2>6. jobs'[j] = x /\ AttemptOf(j, x) \in Attempts
    BY <2>1, <2>2, <2>3, <2>5 DEF MigrationInv, AttemptOf, Attempts
  <2>7. \A k \in Jobs : RowAt(jobs'[k], "0002", fenced, minted')
    BY <1>0, <2>1, <2>2, <2>4 DEF MigrationInv, RowAt
  <2>8. jobs' \in [Jobs -> Rows] /\ runs' \in [Jobs -> 0..MaxAttempts]
        /\ \A k \in Jobs : runs'[k] = jobs'[k].attempt_count
    BY <1>0, <2>2, <2>3, <2>5 DEF MigrationInv
  <2>9. minted' \in 0..MaxClaims /\ fenced \in 0..minted'
    BY <1>0, <2>1, <2>2
  <2> QED
    BY <1>0, <2>2, <2>6, <2>7, <2>8, <2>9 DEF MigrationInv, migrationVars
<1>5. ASSUME NEW a \in issued, ExtendLease(a) PROVE MigrationInv'
  <2> DEFINE j == a.job_id
             l == now + LeaseTime
             x == LeaseExtended(jobs[j], l)
  <2>1. j \in Jobs /\ l \in Nat /\ jobs[j].status = "processing"
    BY <1>0, <1>5 DEF Attempts, ExtendLease, OwnedBy
  <2>2. jobs' = [jobs EXCEPT ![j] = x] /\ UNCHANGED <<now, minted, issued, runs>>
    BY <1>5 DEF ExtendLease
  <2>r. jobs[j] \in Rows
    BY <1>0, <2>1
  <2> HIDE DEF l, j
  <2>3. /\ x \in Rows /\ x.status = jobs[j].status
        /\ x.attempt_count = jobs[j].attempt_count /\ x.worker_id = jobs[j].worker_id
        /\ x.execution_token = jobs[j].execution_token /\ x.lease_expires_at = l
    BY <2>1, <2>r, LeaseExtendedRow
  <2> HIDE DEF x
  <2>4. RowAt(x, "0002", fenced, minted) /\ runs' = [runs EXCEPT ![j] = x.attempt_count]
    BY <1>0, <2>1, <2>2, <2>3 DEF RowAt
  <2> QED
    BY <2>1, <2>2, <2>4, OneRowAt
<1>6. ASSUME NEW a \in issued, NEW p \in Reports, UpdateProgress(a, p) PROVE MigrationInv'
  <2> DEFINE j == a.job_id
             x == ProgressReported(jobs[j], p)
  <2>1. j \in Jobs /\ p \in Int
    BY <1>0 DEF Attempts
  <2>2. jobs' = [jobs EXCEPT ![j] = x] /\ UNCHANGED <<now, minted, issued, runs>>
    BY <1>6 DEF UpdateProgress
  <2>r. jobs[j] \in Rows
    BY <1>0, <2>1
  <2> HIDE DEF j
  <2>3. /\ x \in Rows /\ x.status = jobs[j].status
        /\ x.attempt_count = jobs[j].attempt_count /\ x.worker_id = jobs[j].worker_id
        /\ x.execution_token = jobs[j].execution_token
        /\ x.lease_expires_at = jobs[j].lease_expires_at
    BY <2>1, <2>r, ProgressReportedRow
  <2> HIDE DEF x
  <2>4. RowAt(x, "0002", fenced, minted) /\ runs' = [runs EXCEPT ![j] = x.attempt_count]
    BY <1>0, <2>1, <2>2, <2>3 DEF RowAt
  <2> QED
    BY <2>1, <2>2, <2>4, OneRowAt
<1>7. ASSUME NEW a \in issued, CompleteJob(a) PROVE MigrationInv'
  <2> DEFINE j == a.job_id
             e == a.execution_token
             x == Completed(jobs[j], e)
  <2>1. j \in Jobs /\ e \in Nat
    BY <1>0 DEF Attempts
  <2>2. jobs' = [jobs EXCEPT ![j] = x] /\ UNCHANGED <<now, minted, issued, runs>>
    BY <1>7 DEF CompleteJob
  <2>r. jobs[j] \in Rows
    BY <1>0, <2>1
  <2> HIDE DEF j, e
  <2>3. /\ x \in Rows /\ x.status = "completed" /\ x.attempt_count = jobs[j].attempt_count
        /\ x.worker_id = NULL /\ x.execution_token = NULL /\ x.lease_expires_at = NULL
    BY <2>1, <2>r, CompletedRow, ZenonT(60)
  <2> HIDE DEF x
  <2>4. RowAt(x, "0002", fenced, minted) /\ runs' = [runs EXCEPT ![j] = x.attempt_count]
    BY <1>0, <2>1, <2>2, <2>3 DEF RowAt
  <2> QED
    BY <2>1, <2>2, <2>4, OneRowAt
<1>8. ASSUME NEW a \in issued, FailAttempt(a) PROVE MigrationInv'
  <2> DEFINE j == a.job_id
             x == AttemptFailed(jobs[j], a, a.execution_token, RetryAt(a))
  <2>1. j \in Jobs /\ a.execution_token \in Nat
    BY <1>0 DEF Attempts
  <2>2. /\ jobs' = [jobs EXCEPT ![j] = x] /\ UNCHANGED <<now, minted, issued, runs>>
        /\ DelayKnown(a)
    BY <1>8 DEF FailAttempt
  <2>3. RowAt(x, "0002", fenced, minted) /\ x.attempt_count = jobs[j].attempt_count
    BY <1>0, <2>1, <2>2, FailedAt
  <2> HIDE DEF x, j
  <2>4. runs' = [runs EXCEPT ![j] = x.attempt_count]
    BY <1>0, <2>1, <2>2, <2>3
  <2> QED
    BY <2>1, <2>2, <2>3, <2>4, OneRowAt
<1>9. ASSUME NEW S \in SUBSET Jobs, ActivateDueScheduledJobs(S) PROVE MigrationInv'
  <2>1. /\ jobs' = [j \in Jobs |-> IF j \in S THEN Activated(jobs[j]) ELSE jobs[j]]
        /\ \A j \in S : jobs[j].status = "scheduled"
        /\ UNCHANGED <<now, minted, issued, runs>>
    BY <1>9 DEF ActivateDueScheduledJobs, Due
  <2>2. ASSUME NEW j \in S
        PROVE  /\ RowAt(jobs'[j], "0002", fenced, minted)
               /\ jobs'[j].attempt_count = jobs[j].attempt_count
    <3> DEFINE x == Activated(jobs[j])
    <3>1. /\ x \in Rows /\ x.status = "pending" /\ x.attempt_count = jobs[j].attempt_count
          /\ x.worker_id = jobs[j].worker_id /\ x.execution_token = jobs[j].execution_token
          /\ x.lease_expires_at = jobs[j].lease_expires_at
      BY <1>0, ActivatedRow
    <3>2. jobs'[j] = x /\ jobs[j].status = "scheduled"
      BY <2>1
    <3> HIDE DEF x
    <3> QED
      BY <1>0, <3>1, <3>2 DEF RowAt
  <2>3. (\A j \in Jobs \ S : jobs'[j] = jobs[j]) /\ jobs' = [j \in Jobs |-> jobs'[j]]
    BY <2>1
  <2> QED
    BY <2>1, <2>2, <2>3, SomeRowsAt
<1>10. ASSUME NEW S \in SUBSET Jobs, RecoverExpiredLeases(S) PROVE MigrationInv'
  <2> DEFINE x(j) == LET a == AttemptOf(j, jobs[j])
                     IN  AttemptFailed(jobs[j], a, a.execution_token, RetryAt(a))
  <2>1. /\ jobs' = [j \in Jobs |-> IF j \in S THEN x(j) ELSE jobs[j]]
        /\ \A j \in S : jobs[j].status = "processing" /\ DelayKnown(AttemptOf(j, jobs[j]))
        /\ UNCHANGED <<now, minted, issued, runs>>
    BY <1>10 DEF RecoverExpiredLeases, Expired
  <2>2. ASSUME NEW j \in S
        PROVE  /\ RowAt(x(j), "0002", fenced, minted)
               /\ x(j).attempt_count = jobs[j].attempt_count
    <3> DEFINE a == AttemptOf(j, jobs[j])
    <3>1. a.execution_token \in Nat /\ DelayKnown(a)
      BY <1>0, <2>1 DEF RowAt, AttemptOf
    <3>2. x(j) = AttemptFailed(jobs[j], a, a.execution_token, RetryAt(a))
      OBVIOUS
    <3> HIDE DEF a, x
    <3> QED
      BY <1>0, <3>1, <3>2, FailedAt
  <2> HIDE DEF x
  <2>3. /\ \A j \in S : jobs'[j] = x(j)
        /\ \A j \in Jobs \ S : jobs'[j] = jobs[j]
        /\ jobs' = [j \in Jobs |-> jobs'[j]]
    BY <2>1
  <2> QED
    BY <2>1, <2>2, <2>3, SomeRowsAt
<1>11. CASE Tick
  BY <1>11 DEF Tick, MigrationInv, migrationVars
<1> QED
  BY <1>1, <1>2, <1>3, <1>4, <1>5, <1>6, <1>7, <1>8, <1>9, <1>10, <1>11 DEF Next

-----------------------------------------------------------------------------
(* The theorems. *)

\* The invariant, which migrations and the service between them keep.
THEOREM MigrationInvariance == MigrationSpec => []MigrationInv
<1>1. MigrationInv /\ [MigrationNext]_allVars => MigrationInv'
  <2> SUFFICES ASSUME MigrationInv, [MigrationNext]_allVars PROVE MigrationInv'
    OBVIOUS
  <2>1. CASE revision = "0001" /\ Tick /\ UNCHANGED migrationVars
    BY <2>1 DEF Tick, MigrationInv, migrationVars
  <2>2. CASE UNCHANGED allVars
    BY <2>2 DEF allVars, vars, migrationVars, MigrationInv
  <2> QED
    BY <2>1, <2>2, ServiceInv, UpgradeInv, DowngradeInv DEF MigrationNext
<1> QED
  BY <1>1, MigrationInitInv, PTL DEF MigrationSpec

\* The data step of 0002 strands nobody: at 0002 a row is PROCESSING exactly
\* when it has an owner, a token and a lease, whatever Phase 3 or a downgrade
\* left in the table.
THEOREM RecoverableTheorem == MigrationSpec => []RecoverableAfterUpgrade
<1>1. MigrationInv => RecoverableAfterUpgrade
  BY Constants DEF MigrationInv, RowAt, RecoverableAfterUpgrade, OwnershipIffProcessing
<1> QED
  BY <1>1, MigrationInvariance, PTL

\* A worker that slept through a downgrade and an upgrade passes no fence: its
\* token is below every token on a row.
THEOREM OldAttemptsTheorem == MigrationSpec => []OldAttemptsFenced
<1>1. MigrationInv => OldAttemptsFenced
  <2> SUFFICES ASSUME MigrationInv, revision = "0002", NEW a \in issued,
                      a.execution_token <= fenced, OwnedBy(jobs[a.job_id], a)
               PROVE  FALSE
    BY DEF OldAttemptsFenced
  <2>1. a.job_id \in Jobs /\ fenced \in Nat
    BY Constants DEF MigrationInv, Attempts
  <2> QED
    BY <2>1 DEF MigrationInv, RowAt, OwnedBy
<1> QED
  BY <1>1, MigrationInvariance, PTL

\* No migration hands out an extra run: the one that Phase 3 began counts.
THEOREM BudgetSurvivesTheorem == MigrationSpec => []BudgetSurvives
<1>1. MigrationInv => BudgetSurvives
  BY Constants DEF MigrationInv, BudgetSurvives
<1> QED
  BY <1>1, MigrationInvariance, PTL
=============================================================================
