------------------------------ MODULE JobStore ------------------------------
(***************************************************************************)
(* The table `jobs` and every transaction that writes it, as they are      *)
(* issued by the API, the runners, the heartbeats, the schedulers and the  *)
(* recovery loops of any number of processes.                              *)
(*                                                                         *)
(* Nothing is assumed about who calls what and when.  An Attempt handed    *)
(* out by a claim stays in `issued` for ever, and any issued attempt may   *)
(* at any time extend its lease, report progress, complete or fail: this   *)
(* is a worker that hung, was partitioned, was recovered and came back.    *)
(* What holds here holds for every behaviour of the processes around the   *)
(* database.                                                               *)
(***************************************************************************)
EXTENDS JobRow, FiniteSets

CONSTANTS
    Jobs,             \* the ids jobs are created under
    Workers,          \* worker ids, one per process lifetime
    Reports,          \* progress percentages handlers report
    LeaseTime,        \* job_lease_seconds
    RetryDelays,      \* RETRY_DELAYS_SECONDS, by failed attempt
    SchedulerBatch,   \* scheduler_batch_size
    RecoveryBatch,    \* recovery_batch_size
    ApiSkew,          \* how far utcnow() of the API runs ahead of now()
    MaxTime,          \* bound on the database clock
    MaxClaims         \* bound on the number of claims

ASSUME StoreAssumption ==
    /\ Reports \subseteq Int
    /\ LeaseTime \in Nat
    /\ RetryDelays \in [1..(MaxAttempts - 1) -> Nat]
    /\ ApiSkew \in Int
    /\ MaxTime \in Nat
    /\ MaxClaims \in Nat
    /\ NULL \notin Workers

VARIABLES
    now,      \* now() of PostgreSQL
    jobs,     \* the table
    minted,   \* execution tokens minted so far; the last one is the number
    issued,   \* every Attempt a claim ever returned
    runs      \* history: claims of a job since it was submitted or retried

vars == <<now, jobs, minted, issued, runs>>

Attempts == [job_id : Jobs, worker_id : Workers,
             execution_token : 1..MaxClaims, attempt_count : 1..MaxAttempts]

Init ==
    /\ now = 0
    /\ jobs = [j \in Jobs |-> NoRow]
    /\ minted = 0
    /\ issued = {}
    /\ runs = [j \in Jobs |-> 0]

-----------------------------------------------------------------------------
(* The API: its transactions only.  What it tells Redis is in Dispatch. *)

\* The comparison in _build_job, made on the clock of the API process.
IsFuture(scheduledAt) == scheduledAt # NULL /\ scheduledAt > now + ApiSkew

\* create_job without an idempotency key, for a new id.
CreateJob(j, scheduledAt) ==
    /\ jobs[j].status = "absent"
    /\ jobs' = [jobs EXCEPT ![j] = BuildJob(scheduledAt, IsFuture(scheduledAt))]
    /\ UNCHANGED <<now, minted, issued, runs>>

CancelJob(j) ==
    /\ Cancellable(jobs[j])
    /\ jobs' = [jobs EXCEPT ![j] = Cancelled(@)]
    /\ UNCHANGED <<now, minted, issued, runs>>

RetryJob(j) ==
    /\ Retriable(jobs[j])
    /\ jobs' = [jobs EXCEPT ![j] = Retried(@)]
    /\ runs' = [runs EXCEPT ![j] = 0]
    /\ UNCHANGED <<now, minted, issued>>

-----------------------------------------------------------------------------
(* The runner and its heartbeat. *)

MintMut == 1

\* A fresh execution_token; uuid4 is taken never to repeat.
Mint == minted + 1

ClaimJob(j, w) ==
    /\ minted < MaxClaims
    /\ Claimable(jobs[j])
    /\ jobs' = [jobs EXCEPT ![j] = Claimed(@, w, Mint, now + LeaseTime)]
    /\ minted' = minted + 1
    /\ issued' = issued \union {AttemptOf(j, jobs'[j])}
    /\ runs' = [runs EXCEPT ![j] = @ + 1]
    /\ UNCHANGED now

ExtendLease(a) ==
    /\ OwnedBy(jobs[a.job_id], a)
    /\ jobs' = [jobs EXCEPT ![a.job_id] = LeaseExtended(@, now + LeaseTime)]
    /\ UNCHANGED <<now, minted, issued, runs>>

UpdateProgress(a, p) ==
    /\ OwnedBy(jobs[a.job_id], a)
    /\ jobs' = [jobs EXCEPT ![a.job_id] = ProgressReported(@, p)]
    /\ UNCHANGED <<now, minted, issued, runs>>

CompleteJob(a) ==
    /\ OwnedBy(jobs[a.job_id], a)
    /\ jobs' = [jobs EXCEPT ![a.job_id] = Completed(@, a.execution_token)]
    /\ UNCHANGED <<now, minted, issued, runs>>

\* retry_delay_seconds has an answer; otherwise it raises and nothing is written.
DelayKnown(a) == HasAttemptsLeft(a) => a.attempt_count \in DOMAIN RetryDelays

RetryAt(a) == IF HasAttemptsLeft(a) THEN now + RetryDelays[a.attempt_count] ELSE NULL

FailAttempt(a) ==
    /\ DelayKnown(a)
    /\ FailureApplies(jobs[a.job_id], a)
    /\ jobs' = [jobs EXCEPT ![a.job_id] =
                    AttemptFailed(@, a, a.execution_token, RetryAt(a))]
    /\ UNCHANGED <<now, minted, issued, runs>>

-----------------------------------------------------------------------------
(* The scheduler and the recovery sweep.  SKIP LOCKED leaves out the rows  *)
(* other transactions hold, so a batch is any set of rows that qualify.    *)

DueMut(r) == r.status = "scheduled"

Due(r) == r.status = "scheduled" /\ r.scheduled_at <= now

ActivateDueScheduledJobs(S) ==
    /\ S # {}
    /\ Cardinality(S) <= SchedulerBatch
    /\ \A j \in S : Due(jobs[j])
    /\ jobs' = [j \in Jobs |-> IF j \in S THEN Activated(jobs[j]) ELSE jobs[j]]
    /\ UNCHANGED <<now, minted, issued, runs>>

Expired(r) == r.status = "processing" /\ r.lease_expires_at < now

\* Each row is failed through the attempt read off it under its row lock.
RecoverExpiredLeases(S) ==
    /\ S # {}
    /\ Cardinality(S) <= RecoveryBatch
    /\ \A j \in S : LET a == AttemptOf(j, jobs[j]) IN
                        /\ Expired(jobs[j])
                        /\ DelayKnown(a)
                        /\ FailureApplies(jobs[j], a)
    /\ jobs' = [j \in Jobs |->
                  IF j \in S
                  THEN LET a == AttemptOf(j, jobs[j])
                       IN  AttemptFailed(jobs[j], a, a.execution_token, RetryAt(a))
                  ELSE jobs[j]]
    /\ UNCHANGED <<now, minted, issued, runs>>

-----------------------------------------------------------------------------

Tick ==
    /\ now < MaxTime
    /\ now' = now + 1
    /\ UNCHANGED <<jobs, minted, issued, runs>>

Next ==
    \/ \E j \in Jobs, s \in (0..MaxTime) \union {NULL} : CreateJob(j, s)
    \/ \E j \in Jobs : CancelJob(j)
    \/ \E j \in Jobs : RetryJob(j)
    \/ \E j \in Jobs, w \in Workers : ClaimJob(j, w)
    \/ \E a \in issued : ExtendLease(a)
    \/ \E a \in issued, p \in Reports : UpdateProgress(a, p)
    \/ \E a \in issued : CompleteJob(a)
    \/ \E a \in issued : FailAttempt(a)
    \/ \E S \in SUBSET Jobs : ActivateDueScheduledJobs(S)
    \/ \E S \in SUBSET Jobs : RecoverExpiredLeases(S)
    \/ Tick

Spec == Init /\ [][Next]_vars

-----------------------------------------------------------------------------
(* Properties. *)

Rows == [status : Statuses, attempt_count : 0..MaxAttempts, progress : 0..100,
         result : Nat \union {NULL}, error : Nat \union {NULL},
         scheduled_at : Nat \union {NULL},
         started_at : {NULL, SET}, completed_at : {NULL, SET},
         worker_id : Workers \union {NULL},
         execution_token : Nat \union {NULL},
         lease_expires_at : Nat \union {NULL}]

\* The CHECK constraints of the table (attempt_count within max_attempts,
\* progress within 0..100) never reject a write, and every column, counter
\* and attempt has its type.
TypeOK ==
    /\ now \in 0..MaxTime
    /\ jobs \in [Jobs -> Rows]
    /\ minted \in 0..MaxClaims
    /\ issued \subseteq Attempts
    /\ runs \in [Jobs -> 0..MaxAttempts]

\* A row is PROCESSING exactly when it carries an owner, a token and a lease,
\* all three: no statement leaves a released job looking leased, or a running
\* one that recovery (which selects on the lease) could never find.
OwnershipIffProcessing ==
    \A j \in Jobs :
        LET r == jobs[j] IN
        /\ (r.status = "processing") = (r.worker_id # NULL)
        /\ (r.status = "processing") = (r.execution_token # NULL)
        /\ (r.status = "processing") = (r.lease_expires_at # NULL)

\* The fence separates attempts: of all the attempts ever handed out, also by
\* claims of the same job by the same worker, at most one passes _owned_by at
\* a time for a job, and it is the newest one.
OnlyNewestAttemptOwns ==
    \A a \in issued : OwnedBy(jobs[a.job_id], a) =>
        \A b \in issued \ {a} : b.job_id = a.job_id =>
            /\ ~OwnedBy(jobs[b.job_id], b)
            /\ b.execution_token < a.execution_token

\* The counters an attempt captured at claim time are never stale while it owns
\* the job: fail_attempt of the owner finds its row, and the delay lookup that
\* goes with the branch it takes never raises.  Otherwise a live owner could
\* not settle, and a recovery sweep would fail on the same row for ever.
OwnerCanAlwaysSettle ==
    \A a \in issued : OwnedBy(jobs[a.job_id], a) =>
        FailureApplies(jobs[a.job_id], a) /\ DelayKnown(a)

\* A PENDING row can always be claimed.  One with its attempts used up would be
\* discarded from the ready queue as unclaimable and stay PENDING for ever.
PendingIsClaimable ==
    \A j \in Jobs : jobs[j].status = "pending" => Claimable(jobs[j])

\* A job is begun at most MaxAttempts times between its submission (or a manual
\* retry) and its end; it fails only after the last of these; and a job that
\* waits has a run left.  started_at tells a job begun in this cycle from one
\* that was not.
BudgetExact ==
    \A j \in Jobs :
        /\ runs[j] <= MaxAttempts
        /\ (jobs[j].started_at = NULL) = (runs[j] = 0)
        /\ jobs[j].status = "failed" => runs[j] = MaxAttempts
        /\ jobs[j].status \in {"scheduled", "pending"} => runs[j] < MaxAttempts

\* t is the token of the newest attempt of job j.
NewestToken(j, t) ==
    /\ \E a \in issued : a.job_id = j /\ a.execution_token = t
    /\ \A a \in issued : a.job_id = j => a.execution_token <= t

\* What a job reports was written by its newest attempt and by no earlier one
\* that came back late: a stored result is the newest attempt's and belongs to a
\* COMPLETED row; the error of a row that is not running is the newest
\* attempt's; a FAILED row has an error, a COMPLETED row a result and no error;
\* and these two alone have a completed_at.
OutcomeIsNewest ==
    \A j \in Jobs :
        LET r == jobs[j] IN
        /\ r.result # NULL => r.status = "completed" /\ NewestToken(j, r.result)
        /\ r.error # NULL /\ r.status # "processing" => NewestToken(j, r.error)
        /\ r.status = "completed" => r.result # NULL /\ r.error = NULL
        /\ r.status = "failed" => r.error # NULL
        /\ (r.completed_at # NULL) = (r.status \in {"completed", "failed"})

\* No job is released to the workers, let alone run, before its scheduled_at:
\* neither a delayed submission nor a retry in its backoff.
NeverEarly ==
    \A j \in Jobs :
        /\ jobs[j].status \in {"pending", "processing"}
        /\ jobs[j].scheduled_at # NULL
        => jobs[j].scheduled_at <= now

\* A finished job stays as it is, whatever its past owners still write: a
\* COMPLETED or CANCELLED row never changes, a FAILED one only by a manual
\* retry, which starts a new cycle.
FinishedStaysFinished ==
    [][\A j \in Jobs :
         /\ jobs[j].status \in {"completed", "cancelled"} => jobs'[j] = jobs[j]
         /\ jobs[j].status = "failed" /\ jobs'[j] # jobs[j] =>
                jobs'[j].status = "pending" /\ runs'[j] = 0]_vars

-----------------------------------------------------------------------------
(* The table implements the lifecycle: SCHEDULED and PENDING both wait, and *)
(* activation is invisible.                                                 *)

PhaseOf(r) ==
    IF r.status \in {"scheduled", "pending"} THEN "waiting"
    ELSE IF r.status = "processing" THEN "running"
    ELSE IF r.status = "completed" THEN "done"
    ELSE r.status

Lifecycle == INSTANCE JobLifecycle
    WITH Owners <- 1..MaxClaims,
         NoOwner <- NULL,
         phase <- [j \in Jobs |-> PhaseOf(jobs[j])],
         tries <- [j \in Jobs |-> jobs[j].attempt_count],
         owner <- [j \in Jobs |-> jobs[j].execution_token],
         used <- 1..minted

\* Every behaviour of the table, with late writes of any past owner, is one of
\* the lifecycle: one exclusive owner at a time, at most MaxAttempts tries.
RefinesLifecycle == Lifecycle!Spec
=============================================================================
