# Verification of the job queue service

TLA+ models of the job queue service in this repository: the PostgreSQL table
that decides everything, the Redis ready queue that tells workers where to look,
and the processes around them. TLC checks the models on small instances, TLAPS
proves all their safety properties for every size.

## The system

| Part | State | Operations | Where |
|---|---|---|---|
| jobs table | one row per job: status, attempt count, schedule, owner, token, lease, outcome | conditional UPDATEs, each one transaction | `app/services/job_service.py`, `attempt.py`, `retry_policy.py`, `app/db/models.py` |
| ready queue | sorted set, sequence counter, hash job -> entry | enqueue and remove scripts, peek, look-up | `app/services/queue_service.py` |
| runner | candidate, attempt, place in `run_once` | peek, claim, discard, execute, settle | `worker/runner.py` |
| heartbeat | running beside the handler | extend the lease, report its loss | `worker/heartbeat.py` |
| scheduler | the batch it activated | activate due jobs, publish them one by one | `worker/scheduler.py` |
| recovery | none | fail the attempts whose lease expired | `worker/recovery.py` |
| worker process | stop event | start, SIGTERM, drain, exit, crash | `worker/main.py`, `loops.py` |
| API | requests in flight | submit, cancel, retry: commit, then tell Redis | `app/api/jobs.py`, `job_service.py` |
| idempotency keys | key and expiry on the row | look up, release, insert | `job_service.py` |
| list of jobs | none | count, then a page by offset | `app/api/jobs.py`, `job_service.py` |
| schema | revision 0001 or 0002 | upgrade, downgrade | `alembic/versions` |

The parts share nothing but the two stores. PostgreSQL grants ownership: a claim
moves a PENDING row to PROCESSING and mints an execution token, and every later
write of that attempt names the token. Redis only says which job to look at.

What is hard, and what makes each part correct:

* **Late writers.** A worker whose lease ran out comes back and writes. Only the
  newest attempt may pass the fence, and the stored outcome must be its own
  (`OnlyNewestAttemptOwns`, `OutcomeIsNewest`, `FinishedStaysFinished`).
* **Counters in many places.** The attempt budget is compared at the claim, in
  the captured attempt, in two WHERE clauses and in the delay table
  (`BudgetExact`, `PendingIsClaimable`, `OwnerCanAlwaysSettle`).
* **Two stores, no transaction.** The row is committed before Redis is told, and
  removals come late (`PendingIsVisible`, `SetMatchesHash`,
  `LateRemovalHarmless`, `StaleEntriesDrain`).
* **Crashes, failed calls, missed heartbeats, shutdown.** Work must neither be
  dropped nor be owned by nobody (`ProcessingIsTended`, `EventuallySettled`,
  `StopLeadsToExit`).
* **Two clocks.** The API compares a due time with its own clock (`NeverEarly`).
* **One key, many requests.** Look-up, release and insert are separate statements
  that compare with times read earlier (`OneJobPerWindow`, `ReplayGetsOriginal`,
  `KeyStaysOnNewest`, `EveryRequestEnds`).
* **Real durations.** Whether a live owner keeps its lease is a matter of
  settings and delays (`OwnerKeepsLease`, `RecoveredInTime`, `GhostIsShort`).
* **Transactions of several statements.** A recovery sweep selects, updates and
  commits (`TakesOnlyExpired`); a request that matched nothing reads again
  (`CancelledForGood`, `OneCyclePerRetry`); a page is a count and a select
  (`NoJobSkipped`).
* **The stores themselves change.** Redis restarts from an older snapshot
  (`LateRemovalHarmless`, `NewcomersGoBehind`), the schema goes up and down
  (`RecoverableAfterUpgrade`, `OldAttemptsFenced`, `BudgetSurvives`), counters
  are printed (`PrintedOrderMatches`).

## The modules

| Module | What it is |
|---|---|
| `JobRow` | one row: each WHERE clause a predicate, each SET list a function |
| `JobLifecycle` | abstract specification: wait, run under one exclusive owner, end |
| `JobStore` | the table and every transaction, called by anyone at any time |
| `JobStoreProofs` | theorems about `JobStore` |
| `ReadyQueue` | the two Lua scripts and the reads, as functions of the queue |
| `QueueClients` | the queue under the most general clients, with a Redis that restarts from its last snapshot |
| `QueueProofs` | theorems about `QueueClients` and `MemberOrder` |
| `Dispatch` | API requests and worker processes, one action per await, over `JobRow` and `ReadyQueue`, with faults |
| `DispatchProofs` | theorems about `Dispatch` |
| `RecoverySweep` | `JobStore` with the recovery sweep in statements, row locks explicit |
| `ApiRequests` | `JobStore` with cancel and retry requests in steps, and their answers |
| `TransactionProofs` | theorems about `RecoverySweep` and `ApiRequests` |
| `Migration`, `MigrationProofs` | `JobStore` across the schema revisions; theorems |
| `Idempotency`, `IdempotencyProofs` | requests with one idempotency key, statement by statement; theorems |
| `LeaseTiming`, `LeaseTimingProofs` | one attempt, its heartbeat and recovery in time units; theorems |
| `MemberOrder` | the printed queue members and the order Redis gives them |
| `Listing`, `ListingProofs` | paging through the list under concurrent submissions; theorems |
| `MC...` | instances for TLC; modules without one are run directly |

Names ending in `Mut` are deliberately wrong variants of the definition that
follows them. No specification uses them; putting one in the place of its
original must make a run fail, which shows that the property of that run is
sensitive to such a slip.

### JobStore

The variable `jobs` is the table and `now` the clock of PostgreSQL. `issued`
holds every `Attempt` a claim ever returned, and each of them may write at any
later time. This is deliberately more than the workers do: the properties do not
depend on the runner stopping when it should. Tokens are numbers that grow; the
code uses `uuid4`, taken never to repeat. `result` and `error` hold the token of
the attempt that wrote them. `runs` is a history variable: the claims since the
job was submitted or retried.

`SKIP LOCKED` leaves out rows that other transactions hold, so a batch of the
scheduler or of recovery is any set of rows that qualify, up to its limit. A
recovery sweep is one step, since it keeps its row locks to the commit;
`RecoverySweep` shows that the lifecycle survives without that. A job is created without an
idempotency key (see `Idempotency`). `ApiSkew` is how far the clock of the API is
ahead.

### RecoverySweep

A sweep is `Begin`, `Select`, one `Update` per row, `CommitSweep` or
`AbortSweep`. `began` is `now()` of its transaction, frozen at its start;
`selected` are rows it locked and has not updated, `writes` rows it updated and
nobody else sees (`Overlay` puts them over the table). Everybody else waits for a locked row (`Free`), and a second
sweep skips it. The UPDATE repeats the expiry condition; with the row lock in
place that is redundant, and either of the two alone is enough.

### ApiRequests

A request is asked and has its UPDATE committed. If a row matched, the answer
(`Reply`) is that row; otherwise a second transaction reads the job and the answer
is made from that. Before any of these the API may die (`Dies`): what is committed
stays, and the client is not told. `requests` holds the action, the step and the
code, which is there from the commit on. Ids are made by the server, so a client
asks for an existing job or for an id that never exists.

### Migration

`revision` is that of the database, `fenced` the number of tokens minted before
the last upgrade. The service works at 0002 only: at 0001 its statements fail on
the missing column. A migration locks the table and is one step. Init holds the
rows that `tests/test_migration_0002.py` seeds for Phase 3. Attempts handed out
before a downgrade may write after the next upgrade.

### Idempotency

One key; every request is a session of its own, at READ COMMITTED. `pc[r]` is the
statement request `r` is about to run, `stamp[r]` the `utcnow()` it compares with,
read before it is sent. `released` and `inserted` are uncommitted. An insert waits
until no other open transaction has added the key or taken it off (`IndexFree`),
a release until its row is free (`RowFree`). `must` is a history variable: the
live owner of the key when the request arrived. Publication is not repeated here:
only `created` jobs are published, so a replay after a crash between commit and
publication finds its job and does not publish it; that is the lost publication
of `dispatch_lost`.

The comment at `job_service.py:137` says of the missing winner that "the key was
released between the conflict and this lookup". `KeyStaysOnNewest` says that a
used key is never free; what happens is that its holder expired meanwhile
(`RaisesOnlyAfterExpiry`).

### LeaseTiming

`left` is the time left on the lease, `age` how long the present await has taken,
`loop` where a recovery loop in another process is, and `poll` for how long it has
slept or its sweep has run. The loop stays up, and its sweeps do not fail and have
room for the row. A sweep takes the job in steps, as in the code: it
begins, compares the lease with `now()` of that begin and locks the row
(`SweepSelects`), and frees it at the commit, after which the loop sleeps its
interval. `CallDelay`, `BeatDelay` and `MaxFailed` bound what the code does not:
the duration of calls, sweeps and beats, waits for locks included, and how many
beats fail in a row.

`RecoveredInTime` allows a lease, an interval and two sweeps. It is exact: a lease
that runs out just after a sweep began is seen by the next one only, which begins
an interval after the first has ended and frees the row at its own end.

`Headroom(n)` is the condition on
the settings under which a live owner whose last n beats failed keeps its job:

    Lease >= max(2 Call, Beat) + n * (Heartbeat + Beat) + Heartbeat + max(Call, Beat)

It is exact: with a lease of 11 units in place of 12 a live owner of the run
`lease` loses its job after one failed beat. The defaults (60 s, 20 s) allow
calls of up to 5 s and one failed beat, and not two. A handler
whose job was taken runs on for at most `(Failed + 1) * (Heartbeat + Beat)`; with
the defaults that is longer than the first retry delay of 30 s as soon as one
beat fails, so two executions may then overlap, as the repository's at-least-once
promise allows. This assumes that a handler stops when it is cancelled.

### ReadyQueue and QueueClients

A member is the pair of sequence and job id it is printed from, and sorts by
sequence. In `QueueClients` anyone enqueues anything, and whoever has seen a
member may remove it at any later time, any number of times. Scripts run to their
end.

`Save` and `Restart` are Redis: the three keys come back together as last saved,
possibly empty. Clients keep what they saw before (`late`). `base` and `rewound`
are history variables: the counter right after the last restart, and whether some
restart set it back.

`MemberOrder` justifies sorting by sequence: it prints the number as the script
does, zero-padded and followed by the colon, and compares as Redis does. Base and
width are constants, 10 and 19 in the code; `Place` is what a digit counts. The
script hands the number to `string.format` as a Lua number, a double, which is
exact up to 2^53 only; the model prints every number exactly, so it speaks of
counters below that (about 9 * 10^15 publications), not of all 19 digits.

### Dispatch

`pc[w]` is the await the runner of worker `w` is at, `cand[w]` and `att[w]` the
local variables `candidate` and `attempt`:

    idle -> peeked -> claiming -> claimed -> running -> succeeded | raised -> idle
                         |-> unclaimed -> discarding -> idle

`batch[w]` is what the scheduler of `w` still has to publish, `pubs[j]` and
`clean[j]` what API requests still have to tell Redis. `lost` and `orphaned` are
history variables: jobs whose latest publication failed, and jobs whose present
attempt was given up by its runner, which still owned it, because a call raised
(recovery ends that attempt, and the next one is no longer exempt). Times are abstracted to what a
comparison with `now()` says: LATER or DUE, LIVE or EXPIRED. The lease of a live
owner expires only as a fault (`LeaseMissed`), that of a dead one by itself.

A cycle of the scheduler or of recovery that was under way when SIGTERM arrived
is modelled as having come before it: nothing else in the process depends on the
order of the two. Calls that fail without an effect on any state (a peek, an
empty sweep, a failed beat) are no steps; that a beat fails is `LeaseMissed`. A worker id stands
for one process lifetime, so a restarted worker is another worker. Progress
reports are only in `JobStore`; one that finds its attempt gone is `Abandon`. A
call that is carried out but whose reply is lost leaves the state that a
successful call and a failure right after it leave (a claim then counts as
orphaned, an activation as a failed publication), so it has no action of its own.

### Listing

`created` is the table, `inserting` what open transactions have inserted:
`created_at` is `now()` of the transaction, so rows become visible out of order.
The client is not code of the repository. It stops at a page that is not full, or
where `total` says so. The second is unsafe: `total` is counted one statement
before the page is read, and a submission in between pushes a job to a page the
client does not ask for; `NoJobSkipped` says that nothing else can go wrong.
Filters are left out: a job that changes its status leaves a filtered list, and
what comes behind it moves up.

## The runs

| Run | Instance | What it shows |
|---|---|---|
| `store` | 1 job, 2 workers, 3 attempts, time to 9, 6 claims | all safety properties of the table; it implements `JobLifecycle` |
| `queue` | 2 jobs, 2 priorities, 4 numbers, 1 restart, 3 binary digits | both keys agree, late removals are harmless unless the counter went back, order of service, printed members sort as numbers |
| `dispatch_pair` | 2 jobs, 2 mortal workers, 1 attempt, 1 manual retry, 1 fault | a PENDING job stays visible, a PROCESSING one is tended; the processes implement `JobLifecycle` |
| `dispatch_live` | 1 job, one mortal and one immortal worker, 2 attempts, 2 faults | jobs end, stale entries drain, a stopped worker exits |
| `sweep_steps` | 2 jobs, 1 worker, 2 recovery loops, 3 claims, time to 3 | a sweep in statements takes only expired attempts, and implements `JobLifecycle` |
| `api_answers` | 1 job, 3 requests, 2 attempts, 5 claims | confirmed cancellations are final, one cycle per retry that matched, told or not |
| `migration` | 2 jobs, 2 attempts, 4 claims, 1 downgrade | no stranded row, no old owner, no extra run |
| `idempotency` | 3 requests, TTL 2, time to 4, with fairness | one job per window, replays get it, every request ends |
| `lease` | default settings in units of 5 s, calls of 5 s, up to 2 failed beats | a live owner keeps its job through one failed beat; recovery and late handlers are bounded |
| `listing` | 4 jobs, pages of 1, time to 2 | paging misses no job |
| `store_skew` | `store` with `ApiSkew = 1` | violated: see below |
| `dispatch_lost` | 1 job, 1 worker, 1 fault | violated: see below |

Bounds. Six claims are two full cycles of three attempts, and nine ticks let
leases (2) and delays expire within them, so that an attempt of the first cycle
can write into the second. Two workers are enough for every race over one row,
since the table lets at most one win; two jobs are enough for one entry to be in
the way of another, and for a batch that is half done. Four numbers allow a job to
be replaced and to come back while removals of its earlier entries are still to
come, contain every carry of three binary digits, and are given out a second time
after a restart. Two faults allow a crash after a failed call (or a missed
heartbeat, then a crash of the next owner). With one job `dispatch_live` shows
that a stale entry goes, not that a job behind it is served: that follows from the
order of the queue. One of the two priorities is above
`MAX_PRIORITY`, and one of the progress reports above 100, so that both clamps
matter. In `sweep_steps` three claims let a job be claimed again by the same
worker between two sweeps, and a lease of one tick runs out or is extended while a
sweep is open. Three requests are a winner, a loser and one that finds the key
expired; four ticks are two full windows of two. Two attempts and five claims let
two retries be accepted in `api_answers`. Three creation times and four jobs give
ties, late commits and newcomers at once. Symmetry is used in safety runs only:
workers, requests and recovery loops are alike, and jobs in `queue` and
`dispatch_pair`, where they have one priority. Deadlock is not checked: counters
are bounded, and a service whose workers are all down does stop.

Fairness (`Dispatch!Fairness`): a process that is up goes on, that is, its
awaits return, its handlers end, and its three loops come round
(`worker/loops.py` lets no loop die on an exception); a request that is up
makes its call; due times and the expiry of untended leases arrive. Not assumed:
that clients act, that heartbeats come in time, that anything fails or stops.
`EventuallySettled` needs one worker that stays up. `Idempotency!FairSpec` is weak
fairness of the statements of each request: a statement that is not waiting for
another transaction returns. Nothing makes a request arrive or crash.

### Where documents and code differ

* `store_skew`: `_build_job` compares `scheduled_at` with the clock of the API;
  `DECISIONS.md` calls PostgreSQL the only clock that decides when work is
  runnable. An API clock that is ahead releases a job early. With
  `ApiSkew <= 0` the property is proved.
* `dispatch_lost`: after one failed publication a job is PENDING for ever.
  `DECISIONS.md` admits the window, but also says that the worst case is delay;
  nothing in the system ends that delay. `EventuallySettled` states what does
  hold.

Smaller differences have no run of their own; the property that does hold is:

* An exception between the claim and the handler (`worker/runner.py:133`) makes a
  stopping worker exit with an attempt it owns, while `README.md` says that an
  owned attempt is drained: `ProcessingIsTended`, whose exception is `orphaned`.
* The validator accepts any interval below the lease, and says that it leaves room
  for a single slow beat (`core/config.py:54`): `OwnerKeepsLease`, which needs
  `Headroom`.
* "A delayed cleanup of an old candidate cannot remove or invalidate a newer entry"
  (`queue_service.py:36`) ends with a restart of Redis that sets the counter back:
  `LateRemovalHarmless`, whose exception is `rewound`.
* A downgrade drops the tokens of running jobs, and the next upgrade releases them
  with their attempt count (`0002_execution_token.py:53`). One in its last attempt
  ends PENDING and unclaimable, so `PendingIsClaimable` is claimed of `JobStore`
  and not of `Migration`.
* A 409 is made from a later read and may name a job that is scheduled or pending
  by then, other than `api/jobs.py:118` has it: only a 200 binds
  (`CancelledForGood`).

## What is proved

TLAPS checks these for every set of jobs, workers, requests and recovery loops,
every number of attempts and every bound. The assumptions are those the modules
name, evaluated by TLC in the runs. `MaxAttemptsAssumption`, `StoreAssumption`,
`ClientsAssumption`, `IdempotencyAssumption`, `TimingAssumption`,
`MigrationAssumption` and `ListingAssumption` give the settings their ranges.
`PrintAssumption` says that the width has a digit for every number the counter
reaches (19 decimal digits, of which the double in the script keeps 2^53 exact).
`NullAssumption`,
`DispatchAssumption`, `ApiAssumption` and `SweepAssumption` say that the values
that stand for nothing (NULL, `NoEntry`, an unknown id) are not values of
something: no number, worker, attempt, queue member, job or set of jobs.

`JobStoreProofs`: `TypeCorrect`, `OwnershipTheorem`, `FenceTheorem`,
`SettleTheorem`, `ClaimableTheorem`, `BudgetTheorem`, `OutcomeTheorem`,
`FinishedTheorem`, `NeverEarlyTheorem` (for `ApiSkew <= 0`) and `Refinement`
(the table implements `JobLifecycle`). They all rest on one inductive invariant.
The fence alone is not inductive: that an old attempt fails it needs that tokens
are never handed out twice, that the token on a row is that of an issued attempt
with the same counter, and that this attempt is the newest of its job. Most of
the invariant speaks of one row and the attempts of its job, so the lemmas show
it row by row for each function of `JobRow`, and `NextInv` has one step per
action. `NeverEarly` is an invariant of its own on top of it. In the refinement,
activation, progress and heartbeats are stuttering steps.

`QueueProofs`: `TypeCorrect`, `SetMatchesHashTheorem`, `LateRemovalTheorem`,
`NewcomersTheorem` and `PrintedOrderTheorem`. The inductive invariant adds to
`SetMatchesHash` that an entry of the hash belongs to its job and that no queued
member is ahead of the counter, nor the counter of its bound, for the keys in
memory and for those on disk, and that nobody has seen a number the counter has
still to give out unless a restart set it back; without that a new member could
collide with an old one. `PrintedOrderTheorem` speaks of the first i digits of a
number as a number of their own, its quotient by `Place`. These prefixes grow with
the number, two numbers that agree in all their digits are equal, and at the first
digit in which two numbers differ the smaller number has the smaller digit. The
inductions it needs (over the places, and for the first difference) are arguments
from a least counterexample, which `LeastNat` takes from the well-foundedness of
< on the naturals: the library's induction rules themselves cannot be instantiated.

`IdempotencyProofs`: `TypeCorrect`, `WindowTheorem`, `KeyTheorem`,
`RaiseTheorem` and `ReplayTheorem`, for any number of requests. The invariant
says what an open transaction may rely on: while one holds a release or an
insert no other does, and a stamp is never ahead of the clock.

`LeaseTimingProofs`: `TypeCorrect`, `RecoveryTheorem` and `GhostTheorem` for all
settings, and `HeadroomTheorem`: a live owner loses its job only when there is no
`Headroom` for the beats that failed. The invariant
bounds, phase by phase, the time left on the lease from below and the time a
taken job has gone unnoticed from above by the beats missed so far. For
`RecoveryTheorem` it says how long ago the last sweep that left the row held has
begun at most (`LookedFor`: the present sweep if it has looked already, else the
one before it), and that the owner has died since or the lease was alive then.

`DispatchProofs`: `TypeCorrect`, `VisibleTheorem`, `TendedTheorem`,
`LeftByOwnerTheorem`, `FaultFreeTheorem` and `Refinement`.
Neither `PendingIsVisible` nor `ProcessingIsTended` is inductive. That a PENDING job has an
entry says nothing about the runner that has read this very entry and is about
to remove it, so the invariant (`SafelyVisible`) asks for an entry that is not
`Doomed`: none that a runner past a lost claim, a runner past a won one, or a
pending clean-up is going to take. It holds since an entry is read before the claim, and
a job that becomes PENDING again is published under a new number. That in turn
needs the queue's own invariant, and that the attempts runners hold are those of
the rows they own or older ones (`AttemptsInv`). `MintInv` bounds the tokens by
attempts and manual retries, which the refinement needs for owners never to run
out. A crash, a failed call, a missed beat and every step between process and
Redis are stuttering steps of the lifecycle.

Two theorems say who may touch a running job. `LeftByOwnerTheorem`: a row stops running by the settling of its owner or after its lease expired
(`RunningRow` goes through the writers of rows). `FaultFreeTheorem`: as long as
`faults` is 0, every attempt that is executed owns its job, every PROCESSING row
is held under a live lease and every PENDING job is queued or about to be. So
only a crash, a failed call or a missed heartbeat makes an execution useless or a
publication go missing; no interleaving of claims, clean-ups, retries, schedulers
and drains does. Its invariant `Undisturbed` is kept by every step that is
no fault: with no lease expired, recovery finds nothing to take, and with every
row held, no lease runs out by itself.

`MigrationProofs`: `RecoverableTheorem`, `OldAttemptsTheorem` and
`BudgetSurvivesTheorem`. At revision 0002 the row invariant is that of
`JobStore` without the parts a downgrade breaks (an upgraded row may be PENDING
with its budget used up); at 0001 a row has no token and only its counters and
status are bound. Attempts from before an upgrade stay fenced since every token
on a row is above `fenced`.

`TransactionProofs`, on the requests of the API: `ApiImplementsStore`,
`ApiTableTheorem`, `CancelledForGoodTheorem` and `OneCycleTheorem`. Each step of a
request is a step of `JobStore` or leaves the table alone, so `ApiSpec` implements
`Spec` and every theorem about the table holds of it, the refinement of the
lifecycle included. A CANCELLED row is final, which makes the answer read back
later as good as one given by the UPDATE. `OneCycleTheorem` counts: a claim adds
one attempt that was not there before, since its token is new, and a retry matches
a FAILED row only, whose cycle has used all its runs. A request keeps its code when
it is answered or cut off, so a lost answer changes neither count.

`TransactionProofs`, on the sweep in statements, for any number of recovery
loops: `TakesOnlyExpiredTheorem`, `SweepRefinement`, `SweepTableTheorem` (the
invariants of the table), `SweepFinishedTheorem` and `SweepNeverEarlyTheorem`
(for `ApiSkew <= 0`). The invariant says what the row locks give: no two sweeps
hold one row, a locked row is still running with the lease that had run out when
the sweep began, and what a sweep has written and not committed is what the
failed attempt makes of the row as it is now. A commit is then a `GiveBack` of
its batch. The sweep does not implement the single step of `JobStore` to the
letter, since it schedules the retry by its own, older clock. That is why the
properties of the table are proved anew here and not taken over as for the
requests; `NeverEarly` holds all the same, since the release compares the time on
the row with the clock at the release.

`ListingProofs`: `NoJobSkippedTheorem`, for every page size and number of
submissions. The list is a total order of the rows, and a row stands behind as
many rows as precede it. Committing a row takes none out of the list, so rows
only move back; hence what the client has not seen yet of the rows it began with is
never before its offset (`UnseenAhead`), and a page that is not full is the last
one. A client that stopped at `total` has gone through as many rows as its last
count found; if the table still has that size, nothing is left behind its offset.

Only model-checked: liveness (`EventuallySettled`, `StaleEntriesDrain`,
`StopLeadsToExit`, `EveryRequestEnds`), which is out of the prover's reach, and the
two runs that end with a violation.

## State of the work

All components named above are modelled as far as the next section says, and every
safety property of every run has its theorem. The order of the work was: the
table and its lifecycle, the queue, the processes, then keys, timing and migrations, then the
transactions that the first models took as one step, then the proofs.
What would come next: a mapping from `Dispatch` to `JobStore`, which keeps the
same table with its times and outcomes.

## Not modelled

* `/health` and `get`: single reads, or counts that promise nothing about each
  other. Request schemas, logging and connection set-up keep no state.
* The work inside handlers: a handler returns or raises. Percentages are those of
  `Reports`; a claim does not reset `progress`, so a second attempt starts with
  the value of the first.
* `job_logs`: nothing writes this table, although `job_service.py:633` says that
  previous attempts remain in it.
* `0001_initial_schema` creates the tables of the model classes.
* A Lua script that stops half way. Redis runs a script to its end unless a
  command in it fails, which needs a key of the wrong type or no memory.
