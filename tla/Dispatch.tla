------------------------------ MODULE Dispatch ------------------------------
(***************************************************************************)
(* The processes around the two stores: the API requests that publish or   *)
(* withdraw a job, and the worker processes, each with a runner (and its   *)
(* heartbeat), a scheduler and a recovery loop.  Between two awaits of any *)
(* of them every other may run, any process may crash, and a call to Redis *)
(* or to PostgreSQL may fail.                                              *)
(*                                                                         *)
(* Times are abstracted to what is compared with now(): a scheduled_at is  *)
(* LATER until it is DUE, a lease is LIVE until it is EXPIRED.             *)
(* A worker id is one process lifetime: a restarted worker is another one. *)
(***************************************************************************)
EXTENDS JobRow, ReadyQueue, FiniteSets

CONSTANTS
    Workers,          \* worker processes
    Mortal,           \* those that may crash
    Priority,         \* the priority each job is submitted with
    SchedulerBatch,   \* scheduler_batch_size
    RecoveryBatch,    \* recovery_batch_size
    MaxRetries,       \* bound on manual retries
    MaxFaults         \* bound on crashes, failed calls and missed heartbeats

ASSUME DispatchAssumption ==
    /\ Mortal \subseteq Workers
    /\ Priority \in [Jobs -> Int]
    /\ MaxRetries \in Nat /\ MaxFaults \in Nat
    /\ NULL \notin Workers
    /\ NULL \notin [job_id : Jobs, worker_id : Workers,
                    execution_token : Nat, attempt_count : Nat]
    /\ NoEntry \notin Members

VARIABLES
    jobs,        \* the table
    minted,      \* minted[j]: execution tokens minted for j, the last one its number
    queue,       \* the Redis keys
    pc,          \* pc[w]: the await the runner of w is at
    cand,        \* cand[w]: the queue member it peeked
    att,         \* att[w]: the Attempt it holds
    batch,       \* batch[w]: activated jobs its scheduler has not yet published
    stop,        \* stop[w]: the stop event of the process
    pubs,        \* pubs[j]: publications of j in flight in API requests
    clean,       \* clean[j]: the step of remove_current a cancellation of j is at
    found,       \* found[j]: the member its look-up returned
    retries,     \* manual retries so far
    faults,      \* faults so far
    lost,        \* history: jobs whose latest publication failed
    orphaned     \* history: jobs whose present attempt its runner gave up

rows == <<jobs, minted>>
runner == <<pc, cand, att>>
cleanup == <<clean, found>>
api == <<pubs, cleanup, retries>>
history == <<lost, orphaned>>
vars == <<rows, queue, runner, batch, stop, api, faults, history>>

LATER == "later"
DUE == "due"
LIVE == "live"
EXPIRED == "expired"

Init ==
    /\ jobs = [j \in Jobs |-> NoRow]
    /\ minted = [j \in Jobs |-> 0]
    /\ queue = EmptyQueue
    /\ pc = [w \in Workers |-> "idle"]
    /\ cand = [w \in Workers |-> NoEntry]
    /\ att = [w \in Workers |-> NULL]
    /\ batch = [w \in Workers |-> {}]
    /\ stop = [w \in Workers |-> FALSE]
    /\ pubs = [j \in Jobs |-> 0]
    /\ clean = [j \in Jobs |-> "none"]
    /\ found = [j \in Jobs |-> NoEntry]
    /\ retries = 0
    /\ faults = 0
    /\ lost = {}
    /\ orphaned = {}

Up(w) == pc[w] \notin {"down", "exited"}

\* What the loops of a process do only while its stop event is not set.
Working(w) == Up(w) /\ ~stop[w]

Fault == faults < MaxFaults /\ faults' = faults + 1

\* enqueue, as the API and the scheduler call it.
Publish(j) ==
    /\ queue' = Enqueued(queue, j, entry_score(Priority[j]))
    /\ lost' = lost \ {j}

-----------------------------------------------------------------------------
(* The API: the row is committed first, then Redis is told. *)

SubmitJob(j, when) ==
    /\ jobs[j].status = "absent"
    /\ jobs' = [jobs EXCEPT ![j] = BuildJob(when, when = LATER)]
    /\ pubs' = [pubs EXCEPT ![j] = IF jobs'[j].status = "pending" THEN @ + 1 ELSE @]
    /\ UNCHANGED <<minted, queue, runner, batch, stop, cleanup, retries, faults, history>>

RetryJob(j) ==
    /\ retries < MaxRetries
    /\ Retriable(jobs[j])
    /\ jobs' = [jobs EXCEPT ![j] = Retried(@)]
    /\ pubs' = [pubs EXCEPT ![j] = @ + 1]
    /\ retries' = retries + 1
    /\ UNCHANGED <<minted, queue, runner, batch, stop, cleanup, faults, history>>

ApiPublish(j) ==
    /\ pubs[j] > 0
    /\ pubs' = [pubs EXCEPT ![j] = @ - 1]
    /\ Publish(j)
    /\ UNCHANGED <<rows, runner, batch, stop, cleanup, retries, faults, orphaned>>

\* The call fails, or the API process dies before making it.
ApiPublishFails(j) ==
    /\ pubs[j] > 0
    /\ Fault
    /\ pubs' = [pubs EXCEPT ![j] = @ - 1]
    /\ lost' = lost \union {j}
    /\ UNCHANGED <<rows, queue, runner, batch, stop, cleanup, retries, orphaned>>

CancelJob(j) ==
    /\ Cancellable(jobs[j])
    /\ jobs' = [jobs EXCEPT ![j] = Cancelled(@)]
    /\ clean' = [clean EXCEPT ![j] = "lookup"]
    /\ UNCHANGED <<minted, queue, runner, batch, stop, pubs, found, retries, faults, history>>

\* remove_current: the look-up, and then the removal of what it found.
CancelLookUp(j) ==
    /\ clean[j] = "lookup"
    /\ found' = [found EXCEPT ![j] = CurrentMember(queue, j)]
    /\ clean' = [clean EXCEPT ![j] = IF CurrentMember(queue, j) = NoEntry
                                     THEN "none" ELSE "remove"]
    /\ UNCHANGED <<rows, queue, runner, batch, stop, pubs, retries, faults, history>>

CancelRemove(j) ==
    /\ clean[j] = "remove"
    /\ queue' = Removed(queue, found[j])
    /\ clean' = [clean EXCEPT ![j] = "none"]
    /\ UNCHANGED <<rows, runner, batch, stop, pubs, found, retries, faults, history>>

\* Either call fails; the failure is logged and the entry stays.
CancelCleanupFails(j) ==
    /\ clean[j] # "none"
    /\ Fault
    /\ clean' = [clean EXCEPT ![j] = "none"]
    /\ UNCHANGED <<rows, queue, runner, batch, stop, pubs, found, retries, history>>

-----------------------------------------------------------------------------
(* The runner: run_once, one step per await. *)

At(w, here) == pc[w] = here

Goto(w, there) == pc' = [pc EXCEPT ![w] = there]

\* The attempt of w is over for its runner.
Leave(w) ==
    /\ Goto(w, "idle")
    /\ att' = [att EXCEPT ![w] = NULL]
    /\ cand' = [cand EXCEPT ![w] = NoEntry]

Row(w) == jobs[att[w].job_id]

\* The runner of w gives up; if its attempt still owns the job, nobody tends it.
Orphans(w) ==
    orphaned' = IF OwnedBy(Row(w), att[w]) THEN orphaned \union {att[w].job_id} ELSE orphaned

Peek(w) ==
    /\ At(w, "idle")
    /\ ~stop[w]
    /\ \E e \in queue.ready :
         /\ IsHead(queue, e.member)
         /\ cand' = [cand EXCEPT ![w] = e.member]
    /\ Goto(w, "peeked")
    /\ UNCHANGED <<rows, queue, att, batch, stop, api, faults, history>>

\* The stop event is looked at again after the peek, and then no more.
CheckStop(w) ==
    /\ At(w, "peeked")
    /\ IF stop[w] THEN Leave(w) ELSE Goto(w, "claiming") /\ UNCHANGED <<cand, att>>
    /\ UNCHANGED <<rows, queue, batch, stop, api, faults, history>>

Claim(w) ==
    LET j == cand[w].job_id IN
    /\ At(w, "claiming")
    /\ Claimable(jobs[j])
    /\ minted' = [minted EXCEPT ![j] = @ + 1]
    /\ jobs' = [jobs EXCEPT ![j] = Claimed(@, w, minted'[j], LIVE)]
    /\ att' = [att EXCEPT ![w] = AttemptOf(j, jobs'[j])]
    /\ Goto(w, "claimed")
    /\ UNCHANGED <<queue, cand, batch, stop, api, faults, history>>

ClaimMatchesNothing(w) ==
    /\ At(w, "claiming")
    /\ ~Claimable(jobs[cand[w].job_id])
    /\ Goto(w, "unclaimed")
    /\ UNCHANGED <<rows, queue, cand, att, batch, stop, api, faults, history>>

ReadBackMut(w) ==
    /\ At(w, "unclaimed")
    /\ Leave(w)
    /\ UNCHANGED <<rows, queue, batch, stop, api, faults, history>>

\* _discard_unclaimable reads the row again: an entry whose job became
\* claimable in the meantime stays.
ReadBack(w) ==
    /\ At(w, "unclaimed")
    /\ IF Claimable(jobs[cand[w].job_id])
       THEN Leave(w)
       ELSE Goto(w, "discarding") /\ UNCHANGED <<cand, att>>
    /\ UNCHANGED <<rows, queue, batch, stop, api, faults, history>>

Discard(w) ==
    /\ At(w, "discarding")
    /\ queue' = Removed(queue, cand[w])
    /\ Leave(w)
    /\ UNCHANGED <<rows, batch, stop, api, faults, history>>

DropEntry(w) ==
    /\ At(w, "claimed")
    /\ queue' = Removed(queue, cand[w])
    /\ Goto(w, "running")
    /\ UNCHANGED <<rows, cand, att, batch, stop, api, faults, history>>

\* remove raises (and may have been carried out or not): the exception leaves
\* run_once, run_forever logs it, and nobody executes the attempt.
DropEntryFails(w) ==
    /\ At(w, "claimed")
    /\ Fault
    /\ queue' \in {queue, Removed(queue, cand[w])}
    /\ Leave(w)
    /\ Orphans(w)
    /\ UNCHANGED <<rows, batch, stop, api, lost>>

-----------------------------------------------------------------------------
(* The execution of an attempt, and the heartbeat beside it. *)

\* The handler returns, or raises (an unregistered type counts as a raise).
HandlerEnds(w, how) ==
    /\ At(w, "running")
    /\ Goto(w, how)
    /\ UNCHANGED <<rows, queue, cand, att, batch, stop, api, faults, history>>

\* A beat of an owner; the last one may land while the handler has ended, but
\* never after the attempt is settled.
Beat(w) ==
    /\ pc[w] \in {"running", "succeeded", "raised"}
    /\ OwnedBy(Row(w), att[w])
    /\ jobs' = [jobs EXCEPT ![att[w].job_id] = LeaseExtended(@, LIVE)]
    /\ UNCHANGED <<minted, queue, runner, batch, stop, api, faults, history>>

\* A beat, or a progress report, that matches no row cancels the handler.
Abandon(w) ==
    /\ At(w, "running")
    /\ ~OwnedBy(Row(w), att[w])
    /\ Leave(w)
    /\ UNCHANGED <<rows, queue, batch, stop, api, faults, history>>

SettleSuccess(w) ==
    /\ At(w, "succeeded")
    /\ jobs' = IF OwnedBy(Row(w), att[w])
               THEN [jobs EXCEPT ![att[w].job_id] = Completed(@, att[w].execution_token)]
               ELSE jobs
    /\ Leave(w)
    /\ UNCHANGED <<minted, queue, batch, stop, api, faults, history>>

RetryAt(a) == IF HasAttemptsLeft(a) THEN LATER ELSE NULL

SettleFailure(w) ==
    /\ At(w, "raised")
    /\ jobs' = IF FailureApplies(Row(w), att[w])
               THEN [jobs EXCEPT ![att[w].job_id] =
                       AttemptFailed(@, att[w], att[w].execution_token, RetryAt(att[w]))]
               ELSE jobs
    /\ Leave(w)
    /\ UNCHANGED <<minted, queue, batch, stop, api, faults, history>>

\* The settling transaction raises: the exception leaves run_once.
SettleFails(w) ==
    /\ pc[w] \in {"succeeded", "raised"}
    /\ Fault
    /\ Leave(w)
    /\ Orphans(w)
    /\ UNCHANGED <<rows, queue, batch, stop, api, lost>>

-----------------------------------------------------------------------------
(* The scheduler and the recovery loop of a worker. *)

Due(r) == r.status = "scheduled" /\ r.scheduled_at = DUE

Activate(w, S) ==
    /\ Working(w)
    /\ batch[w] = {}
    /\ S # {} /\ Cardinality(S) <= SchedulerBatch
    /\ \A j \in S : Due(jobs[j])
    /\ jobs' = [j \in Jobs |-> IF j \in S THEN Activated(jobs[j]) ELSE jobs[j]]
    /\ batch' = [batch EXCEPT ![w] = S]
    /\ UNCHANGED <<minted, queue, runner, stop, api, faults, history>>

PublishActivated(w, j) ==
    /\ Up(w)
    /\ j \in batch[w]
    /\ batch' = [batch EXCEPT ![w] = @ \ {j}]
    /\ Publish(j)
    /\ UNCHANGED <<rows, runner, stop, api, faults, orphaned>>

\* The failure is logged and the rest of the batch goes on.
PublishActivatedFails(w, j) ==
    /\ Up(w)
    /\ j \in batch[w]
    /\ Fault
    /\ batch' = [batch EXCEPT ![w] = @ \ {j}]
    /\ lost' = lost \union {j}
    /\ UNCHANGED <<rows, queue, runner, stop, api, orphaned>>

Expired(r) == r.status = "processing" /\ r.lease_expires_at = EXPIRED

Recover(w, S) ==
    /\ Working(w)
    /\ S # {} /\ Cardinality(S) <= RecoveryBatch
    /\ \A j \in S : Expired(jobs[j]) /\ FailureApplies(jobs[j], AttemptOf(j, jobs[j]))
    /\ jobs' = [j \in Jobs |->
                  IF j \in S
                  THEN LET a == AttemptOf(j, jobs[j])
                       IN  AttemptFailed(jobs[j], a, a.execution_token, RetryAt(a))
                  ELSE jobs[j]]
    /\ orphaned' = orphaned \ S
    /\ UNCHANGED <<minted, queue, runner, batch, stop, api, faults, lost>>

-----------------------------------------------------------------------------
(* Processes and time. *)

RequestStop(w) ==
    /\ w \in Mortal
    /\ Working(w)
    /\ stop' = [stop EXCEPT ![w] = TRUE]
    /\ UNCHANGED <<rows, queue, runner, batch, api, faults, history>>

ExitMut(w) ==
    /\ At(w, "idle")
    /\ stop[w]
    /\ batch[w] = {}
    /\ \A j \in Jobs : jobs[j].status # "pending"
    /\ Goto(w, "exited")
    /\ UNCHANGED <<rows, queue, cand, att, batch, stop, api, faults, history>>

\* gather returns once all three loops have seen the stop event.
Exit(w) ==
    /\ At(w, "idle")
    /\ stop[w]
    /\ batch[w] = {}
    /\ Goto(w, "exited")
    /\ UNCHANGED <<rows, queue, cand, att, batch, stop, api, faults, history>>

Crash(w) ==
    /\ w \in Mortal
    /\ Up(w)
    /\ Fault
    /\ Goto(w, "down")
    /\ att' = [att EXCEPT ![w] = NULL]
    /\ cand' = [cand EXCEPT ![w] = NoEntry]
    /\ batch' = [batch EXCEPT ![w] = {}]
    /\ lost' = lost \union batch[w]
    /\ UNCHANGED <<rows, queue, stop, api, orphaned>>

DueArrives(j) ==
    /\ jobs[j].status = "scheduled" /\ jobs[j].scheduled_at = LATER
    /\ jobs' = [jobs EXCEPT ![j].scheduled_at = DUE]
    /\ UNCHANGED <<minted, queue, runner, batch, stop, api, faults, history>>

\* Some live runner holds the attempt that owns j.
Held(j) ==
    \E w \in Workers : att[w] # NULL /\ att[w].job_id = j /\ OwnedBy(jobs[j], att[w])

LeaseExpires(j) ==
    /\ jobs[j].lease_expires_at = LIVE
    /\ jobs' = [jobs EXCEPT ![j].lease_expires_at = EXPIRED]
    /\ UNCHANGED <<minted, queue, runner, batch, stop, api, history>>

LeaseRunsOut(j) == ~Held(j) /\ LeaseExpires(j) /\ UNCHANGED faults

\* The owner lives, but its heartbeats fail or come late.
LeaseMissed(j) == Held(j) /\ Fault /\ LeaseExpires(j)

-----------------------------------------------------------------------------

RunnerStep(w) ==
    \/ Peek(w)
    \/ CheckStop(w)
    \/ Claim(w)
    \/ ClaimMatchesNothing(w)
    \/ ReadBack(w)
    \/ Discard(w)
    \/ DropEntry(w)
    \/ \E how \in {"succeeded", "raised"} : HandlerEnds(w, how)
    \/ Abandon(w)
    \/ SettleSuccess(w)
    \/ SettleFailure(w)
    \/ Exit(w)

SchedulerStep(w) ==
    \/ \E S \in SUBSET Jobs : Activate(w, S)
    \/ \E j \in Jobs : PublishActivated(w, j)

RecoveryStep(w) == \E S \in SUBSET Jobs : Recover(w, S)

CleanupStep(j) == CancelLookUp(j) \/ CancelRemove(j)

Failures ==
    \/ \E j \in Jobs : ApiPublishFails(j) \/ CancelCleanupFails(j) \/ LeaseMissed(j)
    \/ \E w \in Workers : DropEntryFails(w) \/ SettleFails(w) \/ Crash(w)
    \/ \E w \in Workers, j \in Jobs : PublishActivatedFails(w, j)

Next ==
    \/ \E j \in Jobs, when \in {NULL, LATER} : SubmitJob(j, when)
    \/ \E j \in Jobs : RetryJob(j) \/ CancelJob(j)
    \/ \E j \in Jobs : ApiPublish(j) \/ CleanupStep(j)
    \/ \E w \in Workers : RunnerStep(w) \/ SchedulerStep(w) \/ RecoveryStep(w)
    \/ \E w \in Workers : Beat(w) \/ RequestStop(w)
    \/ \E j \in Jobs : DueArrives(j) \/ LeaseRunsOut(j)
    \/ Failures

Spec == Init /\ [][Next]_vars

\* A live process goes on: its awaits return, its handlers end, its loops come
\* round.  Time passes.  Nothing makes a client act, a heartbeat come in time,
\* a process stop or a call fail.
Fairness ==
    /\ \A w \in Workers : /\ WF_vars(RunnerStep(w))
                          /\ WF_vars(SchedulerStep(w))
                          /\ WF_vars(RecoveryStep(w))
    /\ \A j \in Jobs : /\ WF_vars(ApiPublish(j))
                       /\ WF_vars(CleanupStep(j))
                       /\ WF_vars(DueArrives(j))
                       /\ WF_vars(LeaseRunsOut(j))

FairSpec == Spec /\ Fairness
-----------------------------------------------------------------------------
(* Properties. *)

Rows == [status : Statuses, attempt_count : 0..MaxAttempts, progress : {0, 100},
         result : Nat \union {NULL}, error : Nat \union {NULL},
         scheduled_at : {NULL, LATER, DUE},
         started_at : {NULL, SET}, completed_at : {NULL, SET},
         worker_id : Workers \union {NULL}, execution_token : Nat \union {NULL},
         lease_expires_at : {NULL, LIVE, EXPIRED}]

Attempts == [job_id : Jobs, worker_id : Workers,
             execution_token : Nat \ {0}, attempt_count : 1..MaxAttempts]

Stages == {"idle", "peeked", "claiming", "unclaimed", "discarding", "claimed",
           "running", "succeeded", "raised", "exited", "down"}

\* The stages in which a runner has an Attempt, and those with a candidate.
Owning == {"claimed", "running", "succeeded", "raised"}
Looking == {"peeked", "claiming", "unclaimed", "discarding"}

\* Every variable has its type, a runner holds an Attempt exactly while it works
\* on one (the local variables of run_once are never read unset), and a queue
\* member it may still remove is one that was really handed out.
TypeOK ==
    /\ jobs \in [Jobs -> Rows]
    /\ minted \in [Jobs -> Nat]
    /\ queue.sequence \in Nat
    /\ queue.ready \subseteq [member : [sequence : 1..queue.sequence, job_id : Jobs],
                              score : 0..MAX_PRIORITY]
    /\ queue.entries \in [Jobs -> [sequence : 1..queue.sequence, job_id : Jobs]
                                    \union {NoEntry}]
    /\ pc \in [Workers -> Stages]
    /\ \A w \in Workers :
         /\ IF pc[w] \in Owning THEN att[w] \in Attempts ELSE att[w] = NULL
         /\ IF pc[w] \in Owning \union Looking
            THEN cand[w] \in [sequence : 1..queue.sequence, job_id : Jobs]
            ELSE cand[w] = NoEntry
    /\ batch \in [Workers -> SUBSET Jobs]
    /\ stop \in [Workers -> BOOLEAN]
    /\ pubs \in [Jobs -> Nat]
    /\ clean \in [Jobs -> {"none", "lookup", "remove"}]
    /\ \A j \in Jobs :
         IF clean[j] = "remove"
         THEN found[j] \in [sequence : 1..queue.sequence, job_id : {j}] ELSE TRUE
    /\ retries \in 0..MaxRetries
    /\ faults \in 0..MaxFaults
    /\ lost \subseteq Jobs
    /\ orphaned \subseteq Jobs

\* A PENDING job is visible: it has its entry in the ready queue, or a request
\* or a scheduler is about to publish it, unless its latest publication failed.
\* No late removal, by a runner that lost the claim, by a runner that won it on
\* an old entry, or by a cancellation, ever takes the entry of a job that is
\* runnable again.
PendingIsVisible ==
    \A j \in Jobs : jobs[j].status = "pending" =>
        \/ \E e \in queue.ready : e.member.job_id = j
        \/ pubs[j] > 0
        \/ \E w \in Workers : j \in batch[w]
        \/ j \in lost

\* A PROCESSING row is tended: a runner that is up holds the very attempt that
\* owns it, unless that process crashed or its runner gave this attempt up after
\* an error.
\* So a worker that drained and exited leaves no row of its own behind, and no
\* row waits for its lease to expire while all is well.
ProcessingIsTended ==
    \A j \in Jobs : jobs[j].status = "processing" =>
        \/ Held(j)
        \/ pc[jobs[j].worker_id] = "down"
        \/ j \in orphaned

Final == {"completed", "failed", "cancelled"}

\* While one worker stays up, every submitted job comes to an end, whatever
\* crashes, handler failures, missed heartbeats and late writes happen, unless
\* a publication of it failed.
EventuallySettled ==
    \A j \in Jobs : jobs[j].status # "absent" ~> (jobs[j].status \in Final \/ j \in lost)

\* Documented: "If Redis is empty, wrong, or down, the worst case is delay":
\* a job whose publication failed is delayed, but still comes to an end.
LostIsOnlyDelay ==
    \A j \in Jobs : jobs[j].status # "absent" ~> jobs[j].status \in Final

\* An entry of a job that is not runnable does not stay in the queue: some
\* runner takes it away, whatever clean-up of a cancellation or removal after a
\* claim failed.
StaleEntriesDrain ==
    \A j \in Jobs :
        (\E e \in queue.ready : e.member.job_id = j)
            ~> (jobs[j].status = "pending" \/ \A e \in queue.ready : e.member.job_id # j)

\* A worker that is asked to stop ends, with every loop and its attempt drained.
StopLeadsToExit == \A w \in Workers : stop[w] ~> ~Up(w)

-----------------------------------------------------------------------------
(* The processes together implement the lifecycle, job by job. *)

PhaseOf(r) ==
    IF r.status \in {"scheduled", "pending"} THEN "waiting"
    ELSE IF r.status = "processing" THEN "running"
    ELSE IF r.status = "completed" THEN "done"
    ELSE r.status

Lifecycle == INSTANCE JobLifecycle
    WITH Owners <- Jobs \X (1..(MaxAttempts * (MaxRetries + 1))),
         NoOwner <- NULL,
         phase <- [j \in Jobs |-> PhaseOf(jobs[j])],
         tries <- [j \in Jobs |-> jobs[j].attempt_count],
         owner <- [j \in Jobs |-> IF jobs[j].execution_token = NULL THEN NULL
                                  ELSE <<j, jobs[j].execution_token>>],
         used <- {o \in Jobs \X (1..(MaxAttempts * (MaxRetries + 1))) : o[2] <= minted[o[1]]}

\* Every behaviour of clients, workers, crashes and failing calls together is
\* one of the lifecycle: one exclusive owner at a time, at most MaxAttempts
\* tries, no ownership ever granted twice.
RefinesLifecycle == Lifecycle!Spec
=============================================================================
