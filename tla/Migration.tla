------------------------------ MODULE Migration ------------------------------
(***************************************************************************)
(* JobStore across the schema revisions of alembic/versions.  Revision     *)
(* 0001 has no execution_token; 0002 adds the column and releases the rows *)
(* that were PROCESSING without one.  The service of this repository runs  *)
(* at 0002 only: at 0001 its statements fail on the missing column, so     *)
(* nothing but the clock moves.  A migration is one transaction that locks *)
(* the table (env.py), hence one step.                                     *)
(*                                                                         *)
(* A migration does not stop the workers.  Attempts handed out before a    *)
(* downgrade stay in `issued` and may write after the next upgrade.        *)
(***************************************************************************)
EXTENDS JobStore

CONSTANTS
    LegacyWorker,    \* the owner Phase 3 left on its PROCESSING rows
    MaxDowngrades    \* bound on the number of downgrades

ASSUME MigrationAssumption == LegacyWorker \in Workers /\ MaxDowngrades \in Nat

VARIABLES
    revision,     \* the revision the database is at
    downgrades,   \* downgrades so far
    fenced        \* tokens minted before the last upgrade

migrationVars == <<revision, downgrades, fenced>>
allVars == <<vars, migrationVars>>

\* What Phase 3 wrote under 0001: a claim counted the attempt and set the
\* worker, and took no lease.
LegacyRows ==
    {NoRow,
     [NoRow EXCEPT !.status = "pending"],
     [NoRow EXCEPT !.status = "completed", !.attempt_count = 1],
     [NoRow EXCEPT !.status = "processing", !.attempt_count = 1, !.worker_id = LegacyWorker]}

MigrationInit ==
    /\ now = 0 /\ minted = 0 /\ issued = {}
    /\ jobs \in [Jobs -> LegacyRows]
    /\ runs = [j \in Jobs |-> jobs[j].attempt_count]
    /\ revision = "0001"
    /\ downgrades = 0
    /\ fenced = 0

-----------------------------------------------------------------------------
(* Revision 0002. *)

\* Only rows without a lease, as the README words it.
UpgradedMut(r) ==
    IF r.status = "processing" /\ r.execution_token = NULL /\ r.lease_expires_at = NULL
    THEN Released([r EXCEPT !.status = "scheduled", !.scheduled_at = now])
    ELSE r

\* The released row gets its attempt back.
UpgradedBudgetMut(r) ==
    IF r.status = "processing" /\ r.execution_token = NULL
    THEN Released([r EXCEPT !.status = "scheduled", !.scheduled_at = now, !.attempt_count = 0])
    ELSE r

\* The data step: the attempt was used, attempt_count stays.
Upgraded(r) ==
    IF r.status = "processing" /\ r.execution_token = NULL
    THEN Released([r EXCEPT !.status = "scheduled", !.scheduled_at = now])
    ELSE r

Upgrade ==
    /\ revision = "0001"
    /\ revision' = "0002"
    /\ jobs' = [j \in Jobs |-> Upgraded(jobs[j])]
    /\ fenced' = minted
    /\ UNCHANGED <<now, minted, issued, runs, downgrades>>

\* The column survives the downgrade.
DowngradedMut(r) == r

\* The column is dropped, and with it every token.
Downgraded(r) == [r EXCEPT !.execution_token = NULL]

Downgrade ==
    /\ revision = "0002"
    /\ downgrades < MaxDowngrades
    /\ revision' = "0001"
    /\ downgrades' = downgrades + 1
    /\ jobs' = [j \in Jobs |-> Downgraded(jobs[j])]
    /\ UNCHANGED <<now, minted, issued, runs, fenced>>

-----------------------------------------------------------------------------

MigrationNext ==
    \/ revision = "0002" /\ Next /\ UNCHANGED migrationVars
    \/ revision = "0001" /\ Tick /\ UNCHANGED migrationVars
    \/ Upgrade
    \/ Downgrade

MigrationSpec == MigrationInit /\ [][MigrationNext]_allVars

-----------------------------------------------------------------------------
(* Properties. *)

\* Once the service runs again no row is stranded: whatever the row was before
\* the upgrade, a PROCESSING row has an owner, a token and a lease, so that its
\* owner can settle it or a recovery sweep, which compares the lease, finds it.
RecoverableAfterUpgrade == revision = "0002" => OwnershipIffProcessing

\* A worker that slept through a downgrade and an upgrade owns nothing any more:
\* no attempt from before the last upgrade passes the fence after it, although
\* its job was released and may be running again.
OldAttemptsFenced ==
    revision = "0002" =>
        \A a \in issued : a.execution_token <= fenced => ~OwnedBy(jobs[a.job_id], a)

\* "The old claim already consumed that attempt": migrations hand out no extra
\* runs, counting the one begun in Phase 3.
BudgetSurvives == \A j \in Jobs : runs[j] <= MaxAttempts
=============================================================================
