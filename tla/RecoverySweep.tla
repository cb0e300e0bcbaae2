---------------------------- MODULE RecoverySweep ----------------------------
(***************************************************************************)
(* JobStore with the recovery sweep taken apart.  There a sweep is one     *)
(* step; here recover_expired_leases is the transaction it is in the code: *)
(* a select that locks a batch (FOR UPDATE SKIP LOCKED), one UPDATE per    *)
(* row, and one commit, with every other transaction in between.  Several  *)
(* recovery loops run at once.                                             *)
(*                                                                         *)
(* PostgreSQL freezes now() when a transaction begins, so a sweep compares *)
(* and schedules with its own, older time.  What the UPDATEs write is seen *)
(* by others after the commit, and a transaction that wants a locked row   *)
(* waits for it.  The other transactions have one statement and keep their *)
(* row from it to their commit: they remain single steps.                  *)
(***************************************************************************)
EXTENDS JobStore

CONSTANT Sweepers    \* the recovery loops

\* NULL stands for "no transaction", which is not a transaction without rows.
ASSUME SweepAssumption == \A S \in SUBSET Jobs : S # NULL

VARIABLES
    began,      \* now() in the transaction of a sweep
    selected,   \* rows selected and not yet updated; NULL outside a sweep
    writes      \* the rows a sweep has updated, uncommitted

sweepVars == <<began, selected, writes>>
allVars == <<vars, sweepVars>>

SweepInit ==
    /\ Init
    /\ began = [s \in Sweepers |-> 0]
    /\ selected = [s \in Sweepers |-> NULL]
    /\ writes = [s \in Sweepers |-> <<>>]

-----------------------------------------------------------------------------
(* Row locks. *)

\* The select does not lock, and an UPDATE gives its lock up at once.
FreeMut(j) == TRUE

\* No sweep holds the lock of row j.
Free(j) ==
    \A s \in Sweepers : j \notin DOMAIN writes[s] /\ (selected[s] # NULL => j \notin selected[s])

-----------------------------------------------------------------------------
(* One sweep. *)

ExpiredFor(s, r) == r.status = "processing" /\ r.lease_expires_at < began[s]

\* The transaction begins with its first statement.
Begin(s) ==
    /\ selected[s] = NULL
    /\ began' = [began EXCEPT ![s] = now]
    /\ selected' = [selected EXCEPT ![s] = {}]
    /\ UNCHANGED <<vars, writes>>

\* The select has locked what was expired and free, up to the batch size.
Select(s, S) ==
    /\ selected[s] = {} /\ writes[s] = <<>>
    /\ S # {} /\ Cardinality(S) <= RecoveryBatch
    /\ \A j \in S : Free(j) /\ ExpiredFor(s, jobs[j])
    /\ selected' = [selected EXCEPT ![s] = S]
    /\ UNCHANGED <<vars, began, writes>>

\* The row that a failed attempt leaves behind, by the clock of the transaction.
SweptRow(s, j) ==
    LET a == AttemptOf(j, jobs[j])
    IN  AttemptFailed(jobs[j], a, a.execution_token,
            IF HasAttemptsLeft(a) THEN began[s] + RetryDelays[a.attempt_count] ELSE NULL)

\* The rows of `old` with those of `new` in their place.
Overlay(new, old) ==
    [j \in DOMAIN new \union DOMAIN old |-> IF j \in DOMAIN new THEN new[j] ELSE old[j]]

\* _apply_failed_attempt with require_expired_lease on the next row: fence,
\* counter and expiry are proved again, else the row is skipped.
Update(s, j) ==
    LET a == AttemptOf(j, jobs[j])
    IN  /\ selected[s] # NULL /\ j \in selected[s]
        /\ DelayKnown(a)
        /\ selected' = [selected EXCEPT ![s] = @ \ {j}]
        /\ writes' = [writes EXCEPT ![s] =
                        IF FailureApplies(jobs[j], a) /\ ExpiredFor(s, jobs[j])
                        THEN Overlay([k \in {j} |-> SweptRow(s, j)], @) ELSE @]
        /\ UNCHANGED <<vars, began>>

EndOf(s) ==
    /\ selected' = [selected EXCEPT ![s] = NULL]
    /\ writes' = [writes EXCEPT ![s] = <<>>]

\* One commit for the batch (or for a select that found nothing).
CommitSweep(s) ==
    /\ selected[s] = {}
    /\ jobs' = Overlay(writes[s], jobs)
    /\ EndOf(s)
    /\ UNCHANGED <<now, minted, issued, runs, began>>

\* The process dies or a statement raises: PostgreSQL rolls back.
AbortSweep(s) ==
    /\ selected[s] # NULL
    /\ EndOf(s)
    /\ UNCHANGED <<vars, began>>

-----------------------------------------------------------------------------
(* Everybody else, as in JobStore, waits for a locked row. *)

OtherStep ==
    \/ \E j \in Jobs, t \in (0..MaxTime) \union {NULL} : CreateJob(j, t)
    \/ \E j \in Jobs : Free(j) /\ (CancelJob(j) \/ RetryJob(j))
    \/ \E j \in Jobs, w \in Workers : Free(j) /\ ClaimJob(j, w)
    \/ \E a \in issued : Free(a.job_id) /\ (ExtendLease(a) \/ CompleteJob(a) \/ FailAttempt(a))
    \/ \E a \in issued, p \in Reports : Free(a.job_id) /\ UpdateProgress(a, p)
    \/ \E S \in SUBSET Jobs : (\A j \in S : Free(j)) /\ ActivateDueScheduledJobs(S)
    \/ Tick

SweepNext ==
    \/ OtherStep /\ UNCHANGED sweepVars
    \/ \E s \in Sweepers :
         \/ Begin(s) \/ CommitSweep(s) \/ AbortSweep(s)
         \/ \E S \in SUBSET Jobs : Select(s, S)
         \/ \E j \in Jobs : Update(s, j)

SweepSpec == SweepInit /\ [][SweepNext]_allVars

-----------------------------------------------------------------------------
(* Properties; RefinesLifecycle of JobStore is the other one. *)

\* "A worker that beats its heartbeat in during the sweep keeps its job": what a
\* commit takes away is an attempt that still owns its row, with the lease it had
\* when the sweep selected it, and that lease has run out.
TakesOnlyExpired ==
    [][\A s \in Sweepers : CommitSweep(s) =>
         \A j \in Jobs : jobs'[j] # jobs[j] =>
            /\ jobs[j].status = "processing"
            /\ jobs[j].lease_expires_at < began[s]
            /\ jobs'[j].error = jobs[j].execution_token]_allVars
=============================================================================
