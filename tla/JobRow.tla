------------------------------- MODULE JobRow -------------------------------
(***************************************************************************)
(* One row of the PostgreSQL table `jobs` and the conditional UPDATE       *)
(* statements of app/services/job_service.py.  Every statement is a pair:  *)
(* the WHERE clause is a predicate on the row, the SET list a function     *)
(* from the row to the new row.  PostgreSQL runs each of them atomically   *)
(* on a row, so the modules that use this one take them as single steps.   *)
(*                                                                         *)
(* Data is abstracted to what the code or a property tells apart:          *)
(*   - result and error hold the execution token of the attempt that       *)
(*     produced them (the text and the JSON are left out);                 *)
(*   - started_at and completed_at are NULL or SET, the time left out;     *)
(*   - type, payload, priority and created_at never change and are left    *)
(*     out here; max_attempts is always DEFAULT_MAX_ATTEMPTS.              *)
(* Times are given by the module that uses the row.                        *)
(***************************************************************************)
EXTENDS Integers

CONSTANTS
    NULL,          \* SQL NULL
    MaxAttempts    \* DEFAULT_MAX_ATTEMPTS, 3 in the code

ASSUME MaxAttemptsAssumption == MaxAttempts \in Nat \ {0}

\* A timestamp that is not NULL, where only that matters.
SET == "set"

\* NULL is a value of its own: a column that is NULL is no number, no timestamp.
ASSUME NullAssumption == NULL \notin Int /\ NULL # SET

\* JobStatus, plus "absent" for an id that no row has.
Statuses == {"absent", "scheduled", "pending", "processing",
             "completed", "failed", "cancelled"}

NoRow == [status |-> "absent", attempt_count |-> 0, progress |-> 0,
          result |-> NULL, error |-> NULL, scheduled_at |-> NULL,
          started_at |-> NULL, completed_at |-> NULL,
          worker_id |-> NULL, execution_token |-> NULL,
          lease_expires_at |-> NULL]

-----------------------------------------------------------------------------
(* Submission: _build_job decides between SCHEDULED and PENDING. *)

BuildJob(scheduledAt, isFuture) ==
    [NoRow EXCEPT !.status = IF isFuture THEN "scheduled" ELSE "pending",
                  !.scheduled_at = scheduledAt]

-----------------------------------------------------------------------------
(* Ownership: the claim, and the fence on every write of an owner. *)

\* Mutated forms, each a plausible slip in the statement that follows it.
ClaimableAnyMut(r) == r.status \in {"pending", "processing"} /\ r.attempt_count < MaxAttempts

Claimable(r) == r.status = "pending" /\ r.attempt_count < MaxAttempts

ClaimedMut(r, w, token, lease) ==
    [r EXCEPT !.status = "processing", !.worker_id = w,
              !.execution_token = token, !.lease_expires_at = lease,
              !.started_at = SET]

Claimed(r, w, token, lease) ==
    [r EXCEPT !.status = "processing",
              !.worker_id = w,
              !.execution_token = token,
              !.lease_expires_at = lease,
              !.started_at = SET,
              !.attempt_count = @ + 1]

\* Attempt.of: the identity of the attempt that owns the row.
AttemptOf(j, r) ==
    [job_id |-> j, worker_id |-> r.worker_id,
     execution_token |-> r.execution_token, attempt_count |-> r.attempt_count]

HasAttemptsLeftMut(a) == a.attempt_count <= MaxAttempts

HasAttemptsLeft(a) == a.attempt_count < MaxAttempts

OwnedByMut(r, a) == r.status = "processing" /\ r.worker_id = a.worker_id

\* _owned_by, for the row r of the job a.job_id.
OwnedBy(r, a) ==
    /\ r.status = "processing"
    /\ r.worker_id = a.worker_id
    /\ r.execution_token = a.execution_token

ReleasedMut(r) ==
    [r EXCEPT !.worker_id = NULL, !.execution_token = NULL]

\* _RELEASED_OWNERSHIP
Released(r) ==
    [r EXCEPT !.worker_id = NULL, !.execution_token = NULL,
              !.lease_expires_at = NULL]

-----------------------------------------------------------------------------
(* Writes of the owner. *)

LeaseExtended(r, lease) == [r EXCEPT !.lease_expires_at = lease]

ClampMut(p) == p

Clamp(p) == IF p < 0 THEN 0 ELSE IF p > 100 THEN 100 ELSE p

ProgressReported(r, p) == [r EXCEPT !.progress = Clamp(p)]

Completed(r, result) ==
    Released([r EXCEPT !.status = "completed", !.result = result,
                       !.progress = 100, !.completed_at = SET,
                       !.error = NULL])

\* _apply_failed_attempt: the branch comes from the counters the attempt
\* carries, and the WHERE clause repeats the condition on the row.
FailureApplies(r, a) ==
    /\ OwnedBy(r, a)
    /\ HasAttemptsLeft(a) = (r.attempt_count < MaxAttempts)

AttemptFailed(r, a, error, retryAt) ==
    Released(IF HasAttemptsLeft(a)
             THEN [r EXCEPT !.status = "scheduled", !.scheduled_at = retryAt,
                            !.error = error]
             ELSE [r EXCEPT !.status = "failed", !.error = error,
                            !.completed_at = SET])

-----------------------------------------------------------------------------
(* Activation, cancellation and manual retry. *)

Activated(r) == [r EXCEPT !.status = "pending"]

CancellableMut(r) == r.status \in {"pending", "scheduled", "processing"}

CancellableFailedMut(r) == r.status \in {"pending", "scheduled", "failed"}

\* _CANCELLABLE
Cancellable(r) == r.status \in {"pending", "scheduled"}

Cancelled(r) == Released([r EXCEPT !.status = "cancelled"])

RetriableMut(r) == r.status \in {"failed", "pending"}

Retriable(r) == r.status = "failed"

RetriedMut(r) ==
    Released([r EXCEPT !.status = "pending", !.progress = 0, !.error = NULL,
                       !.result = NULL, !.completed_at = NULL,
                       !.started_at = NULL, !.scheduled_at = NULL])

RetriedStartMut(r) ==
    Released([r EXCEPT !.status = "pending", !.attempt_count = 0,
                       !.progress = 0, !.error = NULL, !.result = NULL,
                       !.completed_at = NULL, !.scheduled_at = NULL])

Retried(r) ==
    Released([r EXCEPT !.status = "pending", !.attempt_count = 0,
                       !.progress = 0, !.error = NULL, !.result = NULL,
                       !.completed_at = NULL, !.started_at = NULL,
                       !.scheduled_at = NULL])
=============================================================================
