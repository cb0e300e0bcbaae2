--------------------------- MODULE DispatchProofs ---------------------------
(***************************************************************************)
(* Theorems about Dispatch, for all jobs, workers, priorities, batch sizes *)
(* and bounds, with crashes, failing calls and missed heartbeats.          *)
(***************************************************************************)
EXTENDS Dispatch, TLAPS

\* The assumptions on the constants, as the steps below use them.
LEMMA Constants ==
    /\ MaxAttempts \in Nat \ {0}
    /\ NULL \notin Int /\ NULL # SET
    /\ Priority \in [Jobs -> Int]
    /\ MaxRetries \in Nat /\ MaxFaults \in Nat
    /\ NULL \notin Workers
    /\ NULL \notin Attempts
    /\ NoEntry \notin Members
<1>1. Attempts \subseteq [job_id : Jobs, worker_id : Workers,
                          execution_token : Nat, attempt_count : Nat]
  BY MaxAttemptsAssumption DEF Attempts
<1> QED
  BY <1>1, MaxAttemptsAssumption, NullAssumption, DispatchAssumption

-----------------------------------------------------------------------------
(* The inductive invariant. *)

\* What holds of a row with m tokens minted for its job: it has an owner and a
\* token exactly while it runs, and attempts left while it waits.
RowOK(r, m) ==
    /\ r \in Rows
    /\ r.status = "processing" =>
          r.worker_id \in Workers /\ r.execution_token \in 1..m /\ r.attempt_count >= 1
    /\ r.status # "processing" => r.execution_token = NULL
    /\ r.status \in {"scheduled", "pending"} => r.attempt_count < MaxAttempts
    /\ r.status = "absent" => r.attempt_count = 0

RowsInv ==
    /\ jobs \in [Jobs -> Rows]
    /\ minted \in [Jobs -> Nat]
    /\ \A j \in Jobs : RowOK(jobs[j], minted[j])

\* The members whose sequence the counter has given out.
Given(n) == [sequence : 1..n, job_id : Jobs]

\* Entries are numbered by the counter, and the hash has the job's own.
QueueOK(q) ==
    /\ q.sequence \in Nat
    /\ q.ready \subseteq [member : Given(q.sequence), score : 0..MAX_PRIORITY]
    /\ q.entries \in [Jobs -> Given(q.sequence) \union {NoEntry}]
    /\ \A j \in Jobs : q.entries[j] # NoEntry => q.entries[j].job_id = j

\* Runner w holds what its stage says, and an attempt it holds is its own, has
\* a token that was minted, and is the one on the row if that has its token.
RunnerOK(w) ==
    /\ IF pc[w] \in Owning THEN att[w] \in Attempts ELSE att[w] = NULL
    /\ IF pc[w] \in Owning \union Looking
       THEN cand[w] \in Given(queue.sequence) ELSE cand[w] = NoEntry

AttemptOK(w) ==
    att[w] # NULL =>
        LET a == att[w]  r == jobs[a.job_id] IN
        /\ a.worker_id = w
        /\ a.execution_token <= minted[a.job_id]
        /\ r.status = "processing" /\ r.execution_token = a.execution_token =>
              r.worker_id = w /\ r.attempt_count = a.attempt_count

RunnersInv ==
    /\ pc \in [Workers -> Stages]
    /\ att \in [Workers -> Attempts \union {NULL}]
    /\ cand \in [Workers -> Members \union {NoEntry}]
    /\ \A w \in Workers : RunnerOK(w)

AttemptsInv == \A w \in Workers : AttemptOK(w)

\* A clean-up is under way only for a cancelled job, and removes an entry of it.
CleanupInv ==
    /\ clean \in [Jobs -> {"none", "lookup", "remove"}]
    /\ found \in [Jobs -> Members \union {NoEntry}]
    /\ \A j \in Jobs :
         /\ clean[j] # "none" => jobs[j].status = "cancelled"
         /\ clean[j] = "remove" =>
               found[j] \in Given(queue.sequence) /\ found[j].job_id = j

RestInv ==
    /\ batch \in [Workers -> SUBSET Jobs]
    /\ stop \in [Workers -> BOOLEAN]
    /\ pubs \in [Jobs -> Nat]
    /\ retries \in 0..MaxRetries
    /\ faults \in 0..MaxFaults
    /\ lost \subseteq Jobs
    /\ orphaned \subseteq Jobs

\* Somebody is about to remove the entry m.
Doomed(m) ==
    \/ \E w \in Workers : pc[w] \in {"claimed", "discarding"} /\ cand[w] = m
    \/ \E j \in Jobs : clean[j] = "remove" /\ found[j] = m

\* PendingIsVisible with an entry that nobody is about to remove.
SafelyVisible ==
    \A j \in Jobs : jobs[j].status = "pending" =>
        \/ \E e \in queue.ready : e.member.job_id = j /\ ~Doomed(e.member)
        \/ pubs[j] > 0
        \/ \E w \in Workers : j \in batch[w]
        \/ j \in lost

\* Tokens are minted for claims, at most MaxAttempts of them per manual retry.
MintInv ==
    \A j \in Jobs : minted[j] <= jobs[j].attempt_count + MaxAttempts * retries

Shape == RowsInv /\ QueueOK(queue) /\ RunnersInv /\ CleanupInv /\ RestInv

Inv == Shape /\ AttemptsInv /\ SafelyVisible /\ ProcessingIsTended /\ MintInv

-----------------------------------------------------------------------------
(* What each statement does to a row. *)

LEMMA NoRowOK == RowOK(NoRow, 0) /\ NoRow \in Rows
<1>1. NoRow \in Rows
  BY MaxAttemptsAssumption DEF NoRow, Rows, Statuses
<1>2. NoRow.status = "absent" /\ NoRow.attempt_count = 0 /\ NoRow.execution_token = NULL
  BY DEF NoRow
<1> QED
  BY <1>1, <1>2 DEF RowOK

LEMMA ReleasedRow ==
    ASSUME NEW r \in Rows
    PROVE  /\ Released(r) \in Rows
           /\ Released(r).status = r.status
           /\ Released(r).attempt_count = r.attempt_count
           /\ Released(r).execution_token = NULL
BY DEF Rows, Released

LEMMA BuildJobOK ==
    ASSUME NEW t \in {NULL, LATER}, NEW f \in BOOLEAN, NEW m
    PROVE  LET x == BuildJob(t, f) IN
           /\ RowOK(x, m)
           /\ x.status = IF f THEN "scheduled" ELSE "pending"
           /\ x.attempt_count = 0 /\ x.execution_token = NULL
<1> DEFINE s == IF f THEN "scheduled" ELSE "pending"
           x == BuildJob(t, f)
<1>1. s \in Statuses /\ s \in {"scheduled", "pending"}
  BY DEF Statuses
<1>2. x = [NoRow EXCEPT !.status = s, !.scheduled_at = t]
  BY DEF BuildJob
<1>3. x.status = s /\ x.attempt_count = 0 /\ x.execution_token = NULL
  BY <1>2 DEF NoRow
<1> HIDE DEF s
<1>4. x \in Rows
  BY <1>1, <1>2, NoRowOK, ZenonT(60) DEF Rows
<1> HIDE DEF x
<1>5. RowOK(x, m)
  BY <1>1, <1>3, <1>4, MaxAttemptsAssumption DEF RowOK
<1> QED
  BY <1>3, <1>5 DEF s, x

LEMMA ClaimedOK ==
    ASSUME NEW m \in Nat, NEW r, RowOK(r, m), Claimable(r), NEW w \in Workers
    PROVE  LET x == Claimed(r, w, m + 1, LIVE) IN
           /\ RowOK(x, m + 1)
           /\ x.status = "processing" /\ x.attempt_count = r.attempt_count + 1
           /\ x.attempt_count \in 1..MaxAttempts
           /\ x.worker_id = w /\ x.execution_token = m + 1
<1> DEFINE n == r.attempt_count + 1
           x == Claimed(r, w, m + 1, LIVE)
<1>1. r \in Rows /\ n \in 0..MaxAttempts /\ n >= 1 /\ n \in 1..MaxAttempts
  BY MaxAttemptsAssumption DEF RowOK, Rows, Claimable
<1>2. x = [r EXCEPT !.status = "processing", !.worker_id = w, !.execution_token = m + 1,
                    !.lease_expires_at = LIVE, !.started_at = SET, !.attempt_count = n]
  BY DEF Claimed
<1> DEFINE t == m + 1
<1>a. t \in Nat /\ t \in 1..t
  OBVIOUS
<1> HIDE DEF n, x, t
<1>3. /\ x.status = "processing" /\ x.attempt_count = n
      /\ x.worker_id = w /\ x.execution_token = t
  BY <1>1, <1>2 DEF Rows, t
<1>4. x \in Rows
  BY <1>1, <1>2, <1>a, ZenonT(60) DEF Rows, Statuses, t
<1>5. RowOK(x, t)
  BY <1>1, <1>3, <1>4, <1>a DEF RowOK
<1> QED
  BY <1>1, <1>3, <1>5 DEF n, x, t

LEMMA LeaseExtendedOK ==
    ASSUME NEW m, NEW r, RowOK(r, m), NEW l \in {LIVE, EXPIRED}
    PROVE  LET x == LeaseExtended(r, l) IN
           /\ RowOK(x, m)
           /\ x.status = r.status /\ x.attempt_count = r.attempt_count
           /\ x.worker_id = r.worker_id /\ x.execution_token = r.execution_token
<1> DEFINE x == LeaseExtended(r, l)
<1>1. /\ x \in Rows /\ x.status = r.status /\ x.attempt_count = r.attempt_count
      /\ x.worker_id = r.worker_id /\ x.execution_token = r.execution_token
  BY DEF RowOK, Rows, LeaseExtended
<1> HIDE DEF x
<1> QED
  BY <1>1 DEF RowOK, x

LEMMA DueOK ==
    ASSUME NEW m, NEW r, RowOK(r, m)
    PROVE  LET x == [r EXCEPT !.scheduled_at = DUE] IN
           /\ RowOK(x, m)
           /\ x.status = r.status /\ x.attempt_count = r.attempt_count
           /\ x.worker_id = r.worker_id /\ x.execution_token = r.execution_token
<1> DEFINE x == [r EXCEPT !.scheduled_at = DUE]
<1>1. /\ x \in Rows /\ x.status = r.status /\ x.attempt_count = r.attempt_count
      /\ x.worker_id = r.worker_id /\ x.execution_token = r.execution_token
  BY DEF RowOK, Rows
<1> HIDE DEF x
<1> QED
  BY <1>1 DEF RowOK, x

LEMMA CompletedOK ==
    ASSUME NEW m, NEW r, RowOK(r, m), NEW t \in Nat
    PROVE  LET x == Completed(r, t) IN
           /\ RowOK(x, m)
           /\ x.status = "completed" /\ x.attempt_count = r.attempt_count
           /\ x.execution_token = NULL
<1> DEFINE p == 100
           y == [r EXCEPT !.status = "completed", !.result = t, !.progress = p,
                          !.completed_at = SET, !.error = NULL]
           x == Completed(r, t)
<1>1. p \in {0, 100} /\ r \in Rows
  BY DEF RowOK
<1>2. x = Released(y)
  BY DEF Completed
<1> HIDE DEF p
<1>3. y \in Rows /\ y.status = "completed" /\ y.attempt_count = r.attempt_count
  BY <1>1, ZenonT(60) DEF Rows, Statuses
<1> HIDE DEF y, x
<1>4. /\ x \in Rows /\ x.status = "completed" /\ x.attempt_count = r.attempt_count
      /\ x.execution_token = NULL
  BY <1>2, <1>3, ReleasedRow
<1> QED
  BY <1>4 DEF RowOK, x

LEMMA AttemptFailedOK ==
    ASSUME NEW m, NEW r, RowOK(r, m), NEW a, NEW e \in Nat,
           HasAttemptsLeft(a) = (r.attempt_count < MaxAttempts)
    PROVE  LET x == AttemptFailed(r, a, e, RetryAt(a)) IN
           /\ RowOK(x, m)
           /\ x.status = IF r.attempt_count < MaxAttempts THEN "scheduled" ELSE "failed"
           /\ x.attempt_count = r.attempt_count
           /\ x.execution_token = NULL
<1> DEFINE x == AttemptFailed(r, a, e, RetryAt(a))
           y == [r EXCEPT !.status = "scheduled", !.scheduled_at = LATER, !.error = e]
           z == [r EXCEPT !.status = "failed", !.error = e, !.completed_at = SET]
<1>1. r \in Rows
  BY DEF RowOK
<1>2. y \in Rows /\ y.status = "scheduled" /\ y.attempt_count = r.attempt_count
  BY <1>1, ZenonT(60) DEF Rows, Statuses
<1>3. z \in Rows /\ z.status = "failed" /\ z.attempt_count = r.attempt_count
  BY <1>1, ZenonT(60) DEF Rows, Statuses
<1>4. x = IF r.attempt_count < MaxAttempts THEN Released(y) ELSE Released(z)
  BY DEF AttemptFailed, RetryAt
<1> HIDE DEF x, y, z
<1>5. /\ x \in Rows /\ x.attempt_count = r.attempt_count /\ x.execution_token = NULL
      /\ x.status = IF r.attempt_count < MaxAttempts THEN "scheduled" ELSE "failed"
  BY <1>2, <1>3, <1>4, ReleasedRow
<1>6. RowOK(x, m)
  BY <1>5 DEF RowOK
<1> QED
  BY <1>5, <1>6 DEF x

LEMMA ActivatedOK ==
    ASSUME NEW m, NEW r, RowOK(r, m), r.status = "scheduled"
    PROVE  LET x == Activated(r) IN
           /\ RowOK(x, m)
           /\ x.status = "pending" /\ x.attempt_count = r.attempt_count
           /\ x.execution_token = r.execution_token
<1> DEFINE x == Activated(r)
<1>1. /\ x \in Rows /\ x.status = "pending" /\ x.attempt_count = r.attempt_count
      /\ x.execution_token = r.execution_token
  BY DEF RowOK, Rows, Statuses, Activated
<1> HIDE DEF x
<1> QED
  BY <1>1 DEF RowOK, x

LEMMA CancelledOK ==
    ASSUME NEW m, NEW r, RowOK(r, m)
    PROVE  LET x == Cancelled(r) IN
           /\ RowOK(x, m)
           /\ x.status = "cancelled" /\ x.attempt_count = r.attempt_count
           /\ x.execution_token = NULL
<1> DEFINE y == [r EXCEPT !.status = "cancelled"]
           x == Cancelled(r)
<1>1. y \in Rows /\ y.status = "cancelled" /\ y.attempt_count = r.attempt_count
  BY DEF RowOK, Rows, Statuses
<1>2. x = Released(y)
  BY DEF Cancelled
<1> HIDE DEF x, y
<1>3. /\ x \in Rows /\ x.status = "cancelled" /\ x.attempt_count = r.attempt_count
      /\ x.execution_token = NULL
  BY <1>1, <1>2, ReleasedRow
<1> QED
  BY <1>3 DEF RowOK, x

LEMMA RetriedOK ==
    ASSUME NEW m, NEW r, RowOK(r, m)
    PROVE  LET x == Retried(r) IN
           /\ RowOK(x, m)
           /\ x.status = "pending" /\ x.attempt_count = 0 /\ x.execution_token = NULL
<1> DEFINE z == 0
           y == [r EXCEPT !.status = "pending", !.attempt_count = z,
                          !.progress = z, !.error = NULL, !.result = NULL,
                          !.completed_at = NULL, !.started_at = NULL,
                          !.scheduled_at = NULL]
           x == Retried(r)
<1>1. z \in {0, 100} /\ z \in 0..MaxAttempts /\ r \in Rows
  BY MaxAttemptsAssumption DEF RowOK
<1>2. x = Released(y)
  BY DEF Retried
<1> HIDE DEF z
<1>3. y \in Rows /\ y.status = "pending" /\ y.attempt_count = z
  BY <1>1, ZenonT(60) DEF Rows, Statuses
<1> HIDE DEF x, y
<1>4. /\ x \in Rows /\ x.status = "pending" /\ x.attempt_count = z
      /\ x.execution_token = NULL
  BY <1>2, <1>3, ReleasedRow
<1>5. RowOK(x, m)
  BY <1>4, MaxAttemptsAssumption DEF RowOK, z
<1> QED
  BY <1>4, <1>5 DEF x, z

-----------------------------------------------------------------------------
(* What each action does to the rows. *)

\* A step that writes the row of j, or mints a token for it, and nothing else.
LEMMA OneRow ==
    ASSUME RowsInv, NEW j \in Jobs, NEW x, NEW n \in Nat, RowOK(x, n),
           jobs' = [jobs EXCEPT ![j] = x], minted' = [minted EXCEPT ![j] = n]
    PROVE  /\ RowsInv'
           /\ jobs'[j] = x /\ minted'[j] = n
           /\ \A k \in Jobs \ {j} : jobs'[k] = jobs[k] /\ minted'[k] = minted[k]
<1>1. x \in Rows
  BY DEF RowOK
<1> QED
  BY <1>1 DEF RowsInv

LEMMA OneRowOnly ==
    ASSUME RowsInv, NEW j \in Jobs, NEW x, RowOK(x, minted[j]),
           jobs' = [jobs EXCEPT ![j] = x], minted' = minted
    PROVE  /\ RowsInv'
           /\ jobs'[j] = x
           /\ \A k \in Jobs \ {j} : jobs'[k] = jobs[k]
<1>1. minted[j] \in Nat /\ minted' = [minted EXCEPT ![j] = minted[j]]
  BY DEF RowsInv
<1> QED
  BY <1>1, OneRow

\* The row k keeps everything but its times.
Kept(k) ==
    /\ jobs'[k].status = jobs[k].status /\ jobs'[k].attempt_count = jobs[k].attempt_count
    /\ jobs'[k].worker_id = jobs[k].worker_id
    /\ jobs'[k].execution_token = jobs[k].execution_token

LEMMA SubmitRow ==
    ASSUME RowsInv, NEW j \in Jobs, NEW when \in {NULL, LATER}, SubmitJob(j, when)
    PROVE  /\ RowsInv' /\ minted' = minted
           /\ jobs[j].status = "absent"
           /\ jobs'[j].status \in {"scheduled", "pending"}
           /\ jobs'[j].attempt_count = 0 /\ jobs'[j].execution_token = NULL
           /\ \A k \in Jobs \ {j} : jobs'[k] = jobs[k]
<1> DEFINE x == BuildJob(when, when = LATER)
<1>1. /\ RowOK(x, minted[j]) /\ x.status \in {"scheduled", "pending"}
      /\ x.attempt_count = 0 /\ x.execution_token = NULL
  BY BuildJobOK
<1>2. jobs' = [jobs EXCEPT ![j] = x] /\ minted' = minted /\ jobs[j].status = "absent"
  BY DEF SubmitJob
<1> HIDE DEF x
<1> QED
  BY <1>1, <1>2, OneRowOnly

LEMMA RetryRow ==
    ASSUME RowsInv, NEW j \in Jobs, RetryJob(j)
    PROVE  /\ RowsInv' /\ minted' = minted
           /\ jobs[j].status = "failed"
           /\ jobs'[j].status = "pending"
           /\ jobs'[j].attempt_count = 0 /\ jobs'[j].execution_token = NULL
           /\ \A k \in Jobs \ {j} : jobs'[k] = jobs[k]
<1> DEFINE x == Retried(jobs[j])
<1>1. /\ RowOK(x, minted[j]) /\ x.status = "pending"
      /\ x.attempt_count = 0 /\ x.execution_token = NULL
  BY RetriedOK DEF RowsInv
<1>2. jobs' = [jobs EXCEPT ![j] = x] /\ minted' = minted /\ jobs[j].status = "failed"
  BY DEF RetryJob, Retriable
<1> HIDE DEF x
<1> QED
  BY <1>1, <1>2, OneRowOnly

LEMMA CancelRow ==
    ASSUME RowsInv, NEW j \in Jobs, CancelJob(j)
    PROVE  /\ RowsInv' /\ minted' = minted
           /\ jobs[j].status \in {"scheduled", "pending"}
           /\ jobs'[j].status = "cancelled"
           /\ jobs'[j].attempt_count = jobs[j].attempt_count
           /\ jobs'[j].execution_token = NULL
           /\ \A k \in Jobs \ {j} : jobs'[k] = jobs[k]
<1> DEFINE x == Cancelled(jobs[j])
<1>1. /\ RowOK(x, minted[j]) /\ x.status = "cancelled"
      /\ x.attempt_count = jobs[j].attempt_count /\ x.execution_token = NULL
  BY CancelledOK, ZenonT(60) DEF RowsInv
<1>2. /\ jobs' = [jobs EXCEPT ![j] = x] /\ minted' = minted
      /\ jobs[j].status \in {"scheduled", "pending"}
  BY DEF CancelJob, Cancellable
<1> HIDE DEF x
<1> QED
  BY <1>1, <1>2, OneRowOnly

\* Of the jobs that are not candidates of w nothing is touched.
LEMMA ClaimRow ==
    ASSUME RowsInv, RunnersInv, NEW w \in Workers, Claim(w)
    PROVE  LET j == cand[w].job_id IN
           /\ RowsInv' /\ j \in Jobs
           /\ jobs[j].status = "pending" /\ jobs[j].attempt_count < MaxAttempts
           /\ minted'[j] = minted[j] + 1
           /\ jobs'[j].status = "processing"
           /\ jobs'[j].attempt_count = jobs[j].attempt_count + 1
           /\ jobs'[j].worker_id = w /\ jobs'[j].execution_token = minted[j] + 1
           /\ \A k \in Jobs \ {j} : jobs'[k] = jobs[k] /\ minted'[k] = minted[k]
           /\ att' = [att EXCEPT ![w] = AttemptOf(j, jobs'[j])]
           /\ AttemptOf(j, jobs'[j]) \in Attempts
<1> DEFINE j == cand[w].job_id
           x == Claimed(jobs[j], w, minted[j] + 1, LIVE)
<1>1. j \in Jobs
  BY DEF Claim, At, RunnersInv, RunnerOK, Looking, Given
<1>2. /\ minted' = [minted EXCEPT ![j] = minted[j] + 1]
      /\ jobs' = [jobs EXCEPT ![j] = Claimed(@, w, minted'[j], LIVE)]
      /\ Claimable(jobs[j])
      /\ att' = [att EXCEPT ![w] = AttemptOf(j, jobs'[j])]
  BY DEF Claim
<1>3. minted'[j] = minted[j] + 1 /\ minted[j] \in Nat /\ RowOK(jobs[j], minted[j])
  BY <1>1, <1>2 DEF RowsInv
<1>4. jobs' = [jobs EXCEPT ![j] = x]
  BY <1>2, <1>3
<1>5. /\ RowOK(x, minted[j] + 1)
      /\ x.status = "processing" /\ x.attempt_count = jobs[j].attempt_count + 1
      /\ x.attempt_count \in 1..MaxAttempts
      /\ x.worker_id = w /\ x.execution_token = minted[j] + 1
  BY <1>2, <1>3, ClaimedOK
<1>6. jobs[j].status = "pending" /\ jobs[j].attempt_count < MaxAttempts
  BY <1>2 DEF Claimable
<1> HIDE DEF x
<1>7. /\ RowsInv' /\ jobs'[j] = x
      /\ \A k \in Jobs \ {j} : jobs'[k] = jobs[k] /\ minted'[k] = minted[k]
  <2> DEFINE n == minted[j] + 1
  <2>1. n \in Nat
    BY <1>3
  <2>2. RowOK(x, n) /\ minted' = [minted EXCEPT ![j] = n]
    BY <1>2, <1>5
  <2> HIDE DEF j, n
  <2> QED
    BY <1>1, <1>4, <2>1, <2>2, OneRow
<1>8. AttemptOf(j, x) \in Attempts
  BY <1>1, <1>3, <1>5 DEF AttemptOf, Attempts
<1> HIDE DEF j
<1>9. /\ RowsInv' /\ j \in Jobs
      /\ jobs[j].status = "pending" /\ jobs[j].attempt_count < MaxAttempts
      /\ minted'[j] = minted[j] + 1
      /\ jobs'[j].status = "processing"
      /\ jobs'[j].attempt_count = jobs[j].attempt_count + 1
      /\ jobs'[j].worker_id = w /\ jobs'[j].execution_token = minted[j] + 1
      /\ \A k \in Jobs \ {j} : jobs'[k] = jobs[k] /\ minted'[k] = minted[k]
      /\ att' = [att EXCEPT ![w] = AttemptOf(j, jobs'[j])]
      /\ AttemptOf(j, jobs'[j]) \in Attempts
  BY <1>1, <1>2, <1>3, <1>5, <1>6, <1>7, <1>8
<1> QED
  BY <1>9 DEF j

\* Time and heartbeats touch nothing but times.
LEMMA TimeRow ==
    ASSUME RowsInv, RunnersInv,
           \/ \E w \in Workers : Beat(w)
           \/ \E j \in Jobs : DueArrives(j) \/ LeaseExpires(j)
    PROVE  RowsInv' /\ minted' = minted /\ \A k \in Jobs : Kept(k)
<1> DEFINE Touched(j) ==
      \E x : /\ jobs' = [jobs EXCEPT ![j] = x] /\ minted' = minted
             /\ RowOK(x, minted[j])
             /\ x.status = jobs[j].status
             /\ x.attempt_count = jobs[j].attempt_count
             /\ x.worker_id = jobs[j].worker_id
             /\ x.execution_token = jobs[j].execution_token
<1>1. \E j \in Jobs : Touched(j)
  <2>1. ASSUME NEW w \in Workers, Beat(w) PROVE \E k \in Jobs : Touched(k)
    <3> DEFINE j == att[w].job_id
               x == LeaseExtended(jobs[j], LIVE)
    <3>1. j \in Jobs
      BY <2>1 DEF Beat, RunnersInv, RunnerOK, Owning, Attempts
    <3>2. jobs' = [jobs EXCEPT ![j] = x] /\ minted' = minted
      BY <2>1 DEF Beat
    <3>3. /\ RowOK(x, minted[j]) /\ x.status = jobs[j].status
          /\ x.attempt_count = jobs[j].attempt_count /\ x.worker_id = jobs[j].worker_id
          /\ x.execution_token = jobs[j].execution_token
      BY <3>1, LeaseExtendedOK DEF RowsInv
    <3> HIDE DEF x, j
    <3> QED
      BY <3>1, <3>2, <3>3
  <2>2. ASSUME NEW j \in Jobs, DueArrives(j) PROVE \E k \in Jobs : Touched(k)
    <3> DEFINE x == [jobs[j] EXCEPT !.scheduled_at = DUE]
    <3>1. jobs' = [jobs EXCEPT ![j] = x] /\ minted' = minted
      BY <2>2 DEF DueArrives
    <3>2. /\ RowOK(x, minted[j]) /\ x.status = jobs[j].status
          /\ x.attempt_count = jobs[j].attempt_count /\ x.worker_id = jobs[j].worker_id
          /\ x.execution_token = jobs[j].execution_token
      BY DueOK DEF RowsInv
    <3> HIDE DEF x
    <3> QED
      BY <3>1, <3>2
  <2>3. ASSUME NEW j \in Jobs, LeaseExpires(j) PROVE \E k \in Jobs : Touched(k)
    <3> DEFINE x == LeaseExtended(jobs[j], EXPIRED)
    <3>1. jobs' = [jobs EXCEPT ![j] = x] /\ minted' = minted
      BY <2>3 DEF LeaseExpires, LeaseExtended
    <3>2. /\ RowOK(x, minted[j]) /\ x.status = jobs[j].status
          /\ x.attempt_count = jobs[j].attempt_count /\ x.worker_id = jobs[j].worker_id
          /\ x.execution_token = jobs[j].execution_token
      BY LeaseExtendedOK DEF RowsInv
    <3> HIDE DEF x
    <3> QED
      BY <3>1, <3>2
  <2> QED
    BY <2>1, <2>2, <2>3
<1>2. PICK j \in Jobs : Touched(j)
  BY <1>1
<1>a. PICK x : /\ jobs' = [jobs EXCEPT ![j] = x] /\ minted' = minted
               /\ RowOK(x, minted[j])
               /\ x.status = jobs[j].status
               /\ x.attempt_count = jobs[j].attempt_count
               /\ x.worker_id = jobs[j].worker_id
               /\ x.execution_token = jobs[j].execution_token
  BY <1>2
<1>3. /\ RowsInv' /\ jobs'[j] = x
      /\ \A k \in Jobs \ {j} : jobs'[k] = jobs[k]
  BY <1>a, OneRowOnly
<1> QED
  BY <1>a, <1>3 DEF Kept

\* A runner settles its attempt, if that owns the row.
LEMMA SettleRow ==
    ASSUME RowsInv, RunnersInv, NEW w \in Workers, SettleSuccess(w) \/ SettleFailure(w),
           AttemptOK(w)
    PROVE  LET j == att[w].job_id IN
           /\ RowsInv' /\ minted' = minted /\ j \in Jobs
           /\ \/ UNCHANGED jobs /\ ~OwnedBy(jobs[j], att[w])
              \/ /\ jobs[j].status = "processing"
                 /\ jobs'[j].status =
                       IF SettleSuccess(w) THEN "completed"
                       ELSE IF jobs[j].attempt_count < MaxAttempts THEN "scheduled" ELSE "failed"
                 /\ jobs'[j].attempt_count = jobs[j].attempt_count
                 /\ jobs'[j].execution_token = NULL
           /\ \A k \in Jobs \ {j} : jobs'[k] = jobs[k]
<1> DEFINE j == att[w].job_id
           x == IF SettleSuccess(w) THEN Completed(jobs[j], att[w].execution_token)
                ELSE AttemptFailed(jobs[j], att[w], att[w].execution_token, RetryAt(att[w]))
<1>1. att[w] \in Attempts /\ att[w] # NULL
  BY Constants DEF SettleSuccess, SettleFailure, At, RunnersInv, RunnerOK, Owning
<1>2. j \in Jobs /\ att[w].execution_token \in Nat /\ RowOK(jobs[j], minted[j])
  BY <1>1 DEF Attempts, RowsInv
<1>3. minted' = minted
  BY DEF SettleSuccess, SettleFailure
<1>4. OwnedBy(jobs[j], att[w]) => FailureApplies(jobs[j], att[w])
  BY <1>1 DEF AttemptOK, OwnedBy, FailureApplies, HasAttemptsLeft
<1>5. IF OwnedBy(jobs[j], att[w]) THEN jobs' = [jobs EXCEPT ![j] = x] ELSE jobs' = jobs
  BY <1>4 DEF SettleSuccess, SettleFailure, Row, FailureApplies, At
<1>6. CASE ~OwnedBy(jobs[j], att[w])
  <2>1. jobs' = jobs
    BY <1>5, <1>6
  <2> QED
    BY <1>2, <1>3, <1>6, <2>1 DEF RowsInv
<1>7. CASE OwnedBy(jobs[j], att[w])
  <2>1. /\ RowOK(x, minted[j]) /\ x.attempt_count = jobs[j].attempt_count
        /\ x.execution_token = NULL
        /\ x.status = IF SettleSuccess(w) THEN "completed"
                      ELSE IF jobs[j].attempt_count < MaxAttempts THEN "scheduled" ELSE "failed"
    <3>1. HasAttemptsLeft(att[w]) = (jobs[j].attempt_count < MaxAttempts)
      BY <1>4, <1>7 DEF FailureApplies
    <3>2. CASE SettleSuccess(w)
      BY <1>2, <3>2, CompletedOK
    <3>3. CASE ~SettleSuccess(w)
      BY <1>2, <3>1, <3>3, AttemptFailedOK
    <3> QED
      BY <3>2, <3>3
  <2>2. jobs' = [jobs EXCEPT ![j] = x] /\ jobs[j].status = "processing"
    BY <1>5, <1>7 DEF OwnedBy
  <2> HIDE DEF x, j
  <2>3. RowsInv' /\ jobs'[j] = x /\ \A k \in Jobs \ {j} : jobs'[k] = jobs[k]
    BY <1>2, <1>3, <2>1, <2>2, OneRowOnly
  <2> QED
    BY <1>2, <1>3, <2>1, <2>2, <2>3 DEF j
<1> QED
  BY <1>6, <1>7

\* The rows of a batch of the scheduler, which were all due.
LEMMA ActivateRows ==
    ASSUME RowsInv, NEW w \in Workers, NEW S \in SUBSET Jobs, Activate(w, S)
    PROVE  /\ RowsInv' /\ minted' = minted
           /\ \A j \in S : /\ jobs[j].status = "scheduled"
                           /\ jobs'[j].status = "pending"
                           /\ jobs'[j].attempt_count = jobs[j].attempt_count
                           /\ jobs'[j].execution_token = jobs[j].execution_token
           /\ \A k \in Jobs \ S : jobs'[k] = jobs[k]
<1>1. /\ jobs' = [j \in Jobs |-> IF j \in S THEN Activated(jobs[j]) ELSE jobs[j]]
      /\ minted' = minted /\ \A j \in S : jobs[j].status = "scheduled"
  BY DEF Activate, Due
<1>2. ASSUME NEW j \in S
      PROVE  /\ RowOK(jobs'[j], minted[j]) /\ jobs'[j].status = "pending"
             /\ jobs'[j].attempt_count = jobs[j].attempt_count
             /\ jobs'[j].execution_token = jobs[j].execution_token
  <2>1. RowOK(jobs[j], minted[j]) /\ jobs[j].status = "scheduled"
    BY <1>1 DEF RowsInv
  <2>2. jobs'[j] = Activated(jobs[j])
    BY <1>1
  <2> QED
    BY <2>1, <2>2, ActivatedOK
<1>3. \A k \in Jobs \ S : jobs'[k] = jobs[k]
  BY <1>1
<1>4. RowsInv'
  <2>1. \A j \in Jobs : RowOK(jobs'[j], minted[j])
    BY <1>2, <1>3 DEF RowsInv
  <2>2. jobs' \in [Jobs -> Rows]
    BY <1>1, <2>1 DEF RowOK
  <2> QED
    BY <1>1, <2>1, <2>2 DEF RowsInv
<1> QED
  BY <1>1, <1>2, <1>3, <1>4

\* The rows of a recovery sweep, which were all running.
LEMMA RecoverRows ==
    ASSUME RowsInv, NEW w \in Workers, NEW S \in SUBSET Jobs, Recover(w, S)
    PROVE  /\ RowsInv' /\ minted' = minted
           /\ \A j \in S :
                /\ jobs[j].status = "processing"
                /\ jobs'[j].status = IF jobs[j].attempt_count < MaxAttempts
                                     THEN "scheduled" ELSE "failed"
                /\ jobs'[j].attempt_count = jobs[j].attempt_count
                /\ jobs'[j].execution_token = NULL
           /\ \A k \in Jobs \ S : jobs'[k] = jobs[k]
<1> DEFINE x(j) == LET a == AttemptOf(j, jobs[j])
                   IN  AttemptFailed(jobs[j], a, a.execution_token, RetryAt(a))
<1>1. /\ jobs' = [j \in Jobs |-> IF j \in S THEN x(j) ELSE jobs[j]]
      /\ minted' = minted /\ \A j \in S : jobs[j].status = "processing"
  BY DEF Recover, Expired
<1>2. ASSUME NEW j \in S
      PROVE  /\ RowOK(x(j), minted[j])
             /\ x(j).status = IF jobs[j].attempt_count < MaxAttempts
                              THEN "scheduled" ELSE "failed"
             /\ x(j).attempt_count = jobs[j].attempt_count
             /\ x(j).execution_token = NULL
  <2> DEFINE a == AttemptOf(j, jobs[j])
  <2>1. RowOK(jobs[j], minted[j]) /\ jobs[j].status = "processing"
    BY <1>1 DEF RowsInv
  <2>2. a.execution_token \in Nat /\ a.attempt_count = jobs[j].attempt_count
    <3>1. minted[j] \in Nat
      BY DEF RowsInv
    <3> QED
      BY <2>1, <3>1 DEF RowOK, AttemptOf
  <2> HIDE DEF a
  <2>3. HasAttemptsLeft(a) = (jobs[j].attempt_count < MaxAttempts)
    BY <2>2 DEF HasAttemptsLeft
  <2>4. x(j) = AttemptFailed(jobs[j], a, a.execution_token, RetryAt(a))
    BY DEF a
  <2> HIDE DEF x
  <2> QED
    BY <2>1, <2>2, <2>3, <2>4, AttemptFailedOK
<1> HIDE DEF x
<1>3. (\A j \in S : jobs'[j] = x(j)) /\ \A k \in Jobs \ S : jobs'[k] = jobs[k]
  BY <1>1
<1>4. RowsInv'
  <2>1. \A j \in Jobs : RowOK(jobs'[j], minted[j])
    BY <1>2, <1>3 DEF RowsInv
  <2>2. jobs' \in [Jobs -> Rows]
    BY <1>1, <2>1 DEF RowOK
  <2> QED
    BY <1>1, <2>1, <2>2 DEF RowsInv
<1> QED
  BY <1>1, <1>2, <1>3, <1>4

-----------------------------------------------------------------------------
(* The scripts of the queue. *)

LEMMA GivenMembers ==
    ASSUME NEW n \in Nat, NEW k \in Nat, n <= k
    PROVE  Given(n) \subseteq Given(k) /\ Given(n) \subseteq Members
BY DEF Given, Members

\* Any priority gives a score within the band.
LEMMA ScoreType == \A p \in Int : entry_score(p) \in 0..MAX_PRIORITY
BY DEF entry_score, MAX_PRIORITY

\* An enqueue adds a member that nobody has seen, and takes away entries of its
\* own job only.
LEMMA EnqueuedOK ==
    ASSUME NEW q, QueueOK(q), NEW j \in Jobs, NEW s \in 0..MAX_PRIORITY
    PROVE  LET x == Enqueued(q, j, s) IN
           /\ QueueOK(x) /\ x.sequence = q.sequence + 1
           /\ \A e \in q.ready : e.member.job_id # j => e \in x.ready
           /\ \E e \in x.ready : e.member.job_id = j /\ e.member.sequence = q.sequence + 1
<1> DEFINE x == Enqueued(q, j, s)
           m == NewMember(q, j)
           new == [member |-> m, score |-> s]
           n == q.sequence + 1
<1>1. /\ x.sequence = n
      /\ x.ready = {e \in q.ready : e.member # q.entries[j]} \union {new}
      /\ x.entries = [q.entries EXCEPT ![j] = m]
  BY DEF Enqueued
<1>2. n \in Nat /\ q.sequence \in Nat /\ q.sequence <= n
  BY DEF QueueOK
<1>3. m \in Given(n) /\ m.job_id = j /\ m.sequence = n
  BY <1>2 DEF NewMember, Given
<1>4. new \in [member : Given(n), score : 0..MAX_PRIORITY] /\ new.member = m
  BY <1>3
<1> HIDE DEF x, m, new, n
<1>5. Given(q.sequence) \subseteq Given(n)
  BY <1>2, GivenMembers
<1>6. x.ready \subseteq [member : Given(n), score : 0..MAX_PRIORITY]
  BY <1>1, <1>4, <1>5 DEF QueueOK
<1>7. x.entries \in [Jobs -> Given(n) \union {NoEntry}]
  BY <1>1, <1>3, <1>5 DEF QueueOK
<1>8. \A k \in Jobs : x.entries[k] # NoEntry => x.entries[k].job_id = k
  BY <1>1, <1>3 DEF QueueOK
<1>9. QueueOK(x)
  BY <1>1, <1>2, <1>6, <1>7, <1>8 DEF QueueOK
<1>10. \A e \in q.ready : e.member.job_id # j => e \in x.ready
  <2> SUFFICES ASSUME NEW e \in q.ready, e.member.job_id # j PROVE e.member # q.entries[j]
    BY <1>1
  <2>1. e.member # NoEntry
    <3>1. e.member \in Given(q.sequence)
      BY DEF QueueOK
    <3>2. e.member \in Members
      BY <1>2, <3>1, GivenMembers
    <3> QED
      BY <3>2, Constants
  <2> QED
    BY <2>1 DEF QueueOK
<1>11. \E e \in x.ready : e.member.job_id = j /\ e.member.sequence = n
  BY <1>1, <1>3, <1>4
<1> QED
  BY <1>1, <1>9, <1>10, <1>11 DEF x, n

\* A removal takes away nothing but the member it is given.
LEMMA RemovedOK ==
    ASSUME NEW q, QueueOK(q), NEW m \in Given(q.sequence)
    PROVE  LET x == Removed(q, m) IN
           /\ QueueOK(x) /\ x.sequence = q.sequence
           /\ \A e \in q.ready : e.member # m => e \in x.ready
<1> DEFINE x == Removed(q, m)
<1>1. /\ x.sequence = q.sequence /\ x.ready = {e \in q.ready : e.member # m}
      /\ x.entries = [q.entries EXCEPT ![m.job_id] =
                        IF q.entries[m.job_id] = m THEN NoEntry ELSE q.entries[m.job_id]]
  BY DEF Removed
<1> HIDE DEF x
<1>2. QueueOK(x)
  BY <1>1 DEF QueueOK
<1> QED
  BY <1>1, <1>2 DEF x

-----------------------------------------------------------------------------
(* The steps, by what they write. *)

\* The steps that write rows.
RowStep ==
    \/ \E j \in Jobs, when \in {NULL, LATER} : SubmitJob(j, when)
    \/ \E j \in Jobs : RetryJob(j) \/ CancelJob(j) \/ DueArrives(j) \/ LeaseExpires(j)
    \/ \E w \in Workers : Claim(w) \/ Beat(w) \/ SettleSuccess(w) \/ SettleFailure(w)
    \/ \E w \in Workers, S \in SUBSET Jobs : Activate(w, S) \/ Recover(w, S)

\* Those of a runner, or of its end, that write none.
QuietRunner(w) ==
    \/ Peek(w) \/ CheckStop(w) \/ ClaimMatchesNothing(w) \/ ReadBack(w) \/ Discard(w)
    \/ DropEntry(w) \/ DropEntryFails(w)
    \/ \E how \in {"succeeded", "raised"} : HandlerEnds(w, how)
    \/ Abandon(w) \/ SettleFails(w) \/ Exit(w) \/ Crash(w)

\* Publications and clean-ups.
Telling ==
    \/ \E j \in Jobs : \/ ApiPublish(j) \/ ApiPublishFails(j)
                       \/ CancelLookUp(j) \/ CancelRemove(j) \/ CancelCleanupFails(j)
    \/ \E w \in Workers, j \in Jobs : PublishActivated(w, j) \/ PublishActivatedFails(w, j)

\* Every step is one of these.
LEMMA StepKinds ==
    ASSUME [Next]_vars
    PROVE  \/ RowStep
           \/ \E w \in Workers : QuietRunner(w)
           \/ Telling
           \/ \E w \in Workers : RequestStop(w)
           \/ UNCHANGED vars
<1>1. CASE Failures
  <2>1. \A j \in Jobs : LeaseMissed(j) => LeaseExpires(j)
    BY DEF LeaseMissed
  <2> QED
    BY <1>1, <2>1 DEF Failures, RowStep, QuietRunner, Telling
<1>2. ASSUME NEW w \in Workers, RunnerStep(w) PROVE RowStep \/ QuietRunner(w)
  BY <1>2 DEF RunnerStep, RowStep, QuietRunner
<1>3. ASSUME NEW w \in Workers, SchedulerStep(w) \/ RecoveryStep(w) PROVE RowStep \/ Telling
  BY <1>3 DEF SchedulerStep, RecoveryStep, RowStep, Telling
<1>4. ASSUME NEW j \in Jobs, LeaseRunsOut(j) PROVE RowStep
  BY <1>4 DEF LeaseRunsOut, RowStep
<1>5. ASSUME NEW j \in Jobs, CleanupStep(j) PROVE Telling
  BY <1>5 DEF CleanupStep, Telling
<1> QED
  BY <1>1, <1>2, <1>3, <1>4, <1>5 DEF Next, RowStep, Telling

\* Only a member whose removal is under way leaves the queue, unless its job is
\* published again.
LEMMA QueueStep ==
    ASSUME Shape, [Next]_vars
    PROVE  \/ queue' = queue
           \/ \E j \in Jobs : queue' = Enqueued(queue, j, entry_score(Priority[j]))
           \/ \E m \in Given(queue.sequence) : Doomed(m) /\ queue' = Removed(queue, m)
<1> DEFINE Untouched == queue' = queue
           Added == \E j \in Jobs : queue' = Enqueued(queue, j, entry_score(Priority[j]))
           Taken == \E m \in Given(queue.sequence) : Doomed(m) /\ queue' = Removed(queue, m)
<1>1. ASSUME RowStep PROVE Untouched
  BY <1>1 DEF RowStep, SubmitJob, RetryJob, CancelJob, DueArrives, LeaseExpires, Claim, Beat,
              SettleSuccess, SettleFailure, Activate, Recover
<1>2. ASSUME NEW w \in Workers, QuietRunner(w) PROVE Untouched \/ Taken
  <2>1. CASE Discard(w) \/ DropEntry(w) \/ DropEntryFails(w)
    <3>1. pc[w] \in {"claimed", "discarding"}
      BY <2>1 DEF Discard, DropEntry, DropEntryFails, At
    <3>2. cand[w] \in Given(queue.sequence)
      BY <3>1 DEF Shape, RunnersInv, RunnerOK, Owning, Looking
    <3>3. Doomed(cand[w])
      BY <3>1 DEF Doomed
    <3> QED
      BY <2>1, <3>2, <3>3 DEF Discard, DropEntry, DropEntryFails
  <2>2. CASE ~(Discard(w) \/ DropEntry(w) \/ DropEntryFails(w))
    BY <1>2, <2>2 DEF QuietRunner, Peek, CheckStop, ClaimMatchesNothing, ReadBack, HandlerEnds,
                      Abandon, SettleFails, Exit, Crash
  <2> QED
    BY <2>1, <2>2
<1>3. ASSUME Telling PROVE Untouched \/ Added \/ Taken
  <2>1. ASSUME NEW j \in Jobs, CancelRemove(j) PROVE Taken
    BY <2>1 DEF CancelRemove, Shape, CleanupInv, Doomed
  <2>2. ASSUME NEW j \in Jobs, ApiPublish(j) PROVE Added
    BY <2>2 DEF ApiPublish, Publish
  <2>3. ASSUME NEW w \in Workers, NEW j \in Jobs, PublishActivated(w, j) PROVE Added
    BY <2>3 DEF PublishActivated, Publish
  <2>4. ASSUME NEW j \in Jobs, ApiPublishFails(j) \/ CancelLookUp(j) \/ CancelCleanupFails(j)
        PROVE  Untouched
    BY <2>4 DEF ApiPublishFails, CancelLookUp, CancelCleanupFails
  <2>5. ASSUME NEW w \in Workers, NEW j \in Jobs, PublishActivatedFails(w, j) PROVE Untouched
    BY <2>5 DEF PublishActivatedFails
  <2> HIDE DEF Untouched, Added, Taken
  <2> QED
    BY <1>3, <2>1, <2>2, <2>3, <2>4, <2>5 DEF Telling
<1>4. ASSUME \E w \in Workers : RequestStop(w) PROVE Untouched
  BY <1>4 DEF RequestStop
<1>5. ASSUME UNCHANGED vars PROVE Untouched
  BY <1>5 DEF vars
<1> HIDE DEF Untouched, Added, Taken
<1>6. Untouched \/ Added \/ Taken
  BY <1>1, <1>2, <1>3, <1>4, <1>5, StepKinds
<1> QED
  BY <1>6 DEF Untouched, Added, Taken

LEMMA QueueShape ==
    ASSUME Shape, [Next]_vars
    PROVE  QueueOK(queue') /\ queue'.sequence >= queue.sequence
<1>1. QueueOK(queue) /\ queue.sequence \in Nat
  BY DEF Shape, QueueOK
<1>2. ASSUME NEW j \in Jobs, queue' = Enqueued(queue, j, entry_score(Priority[j]))
      PROVE  QueueOK(queue') /\ queue'.sequence >= queue.sequence
  <2> DEFINE s == entry_score(Priority[j])
  <2>1. s \in 0..MAX_PRIORITY
    BY Constants, ScoreType
  <2> HIDE DEF s
  <2>2. QueueOK(Enqueued(queue, j, s)) /\ Enqueued(queue, j, s).sequence = queue.sequence + 1
    BY <1>1, <2>1, EnqueuedOK
  <2> QED
    BY <1>1, <1>2, <2>2 DEF s
<1>3. ASSUME NEW m \in Given(queue.sequence), queue' = Removed(queue, m)
      PROVE  QueueOK(queue') /\ queue'.sequence >= queue.sequence
  BY <1>1, <1>3, RemovedOK
<1> QED
  BY <1>1, <1>2, <1>3, QueueStep

-----------------------------------------------------------------------------
(* Every step keeps the shape of the state. *)

\* The steps that write no row.
LEMMA RowsUntouched ==
    ASSUME [Next]_vars, ~RowStep
    PROVE  UNCHANGED rows
<1>1. ASSUME NEW w \in Workers, QuietRunner(w) PROVE UNCHANGED rows
  BY <1>1 DEF QuietRunner, Peek, CheckStop, ClaimMatchesNothing, ReadBack, Discard, DropEntry,
              DropEntryFails, HandlerEnds, Abandon, SettleFails, Exit, Crash
<1>2. ASSUME Telling PROVE UNCHANGED rows
  BY <1>2 DEF Telling, ApiPublish, ApiPublishFails, CancelLookUp, CancelRemove,
              CancelCleanupFails, PublishActivated, PublishActivatedFails
<1>3. ASSUME (\E w \in Workers : RequestStop(w)) \/ UNCHANGED vars PROVE UNCHANGED rows
  BY <1>3 DEF RequestStop, vars
<1> QED
  BY <1>1, <1>2, <1>3, StepKinds

LEMMA RowsStep ==
    ASSUME Shape, AttemptsInv, [Next]_vars
    PROVE  RowsInv'
<1>0. RowsInv /\ RunnersInv
  BY DEF Shape
<1>1. CASE RowStep
  <2>1. ASSUME NEW w \in Workers, SettleSuccess(w) \/ SettleFailure(w) PROVE RowsInv'
    BY <1>0, <2>1, SettleRow DEF AttemptsInv
  <2>2. ASSUME NEW w \in Workers, Claim(w) PROVE RowsInv'
    BY <1>0, <2>2, ClaimRow
  <2>3. ASSUME NEW w \in Workers, NEW S \in SUBSET Jobs, Activate(w, S) \/ Recover(w, S)
        PROVE  RowsInv'
    BY <1>0, <2>3, ActivateRows, RecoverRows
  <2>4. ASSUME NEW j \in Jobs, RetryJob(j) \/ CancelJob(j) PROVE RowsInv'
    BY <1>0, <2>4, RetryRow, CancelRow
  <2>5. ASSUME NEW j \in Jobs, NEW when \in {NULL, LATER}, SubmitJob(j, when) PROVE RowsInv'
    BY <1>0, <2>5, SubmitRow
  <2> QED
    BY <1>0, <1>1, <2>1, <2>2, <2>3, <2>4, <2>5, TimeRow DEF RowStep
<1>2. ASSUME UNCHANGED rows PROVE RowsInv'
  BY <1>0, <1>2 DEF rows, RowsInv
<1> QED
  BY <1>1, <1>2, RowsUntouched

\* One runner goes to stage p with the attempt a and the candidate c.
LEMMA RunnerGoes ==
    ASSUME Shape, [Next]_vars, NEW w \in Workers, NEW p \in Stages, NEW a, NEW c,
           IF p \in Owning THEN a \in Attempts ELSE a = NULL,
           IF p \in Owning \union Looking THEN c \in Given(queue.sequence) ELSE c = NoEntry,
           pc' = [pc EXCEPT ![w] = p], att' = [att EXCEPT ![w] = a],
           cand' = [cand EXCEPT ![w] = c]
    PROVE  RunnersInv'
<1>1. /\ queue.sequence \in Nat /\ queue'.sequence \in Nat
      /\ queue.sequence <= queue'.sequence
  BY QueueShape DEF Shape, QueueOK
<1>2. Given(queue.sequence) \subseteq Given(queue'.sequence) /\ Given(queue.sequence) \subseteq Members
  BY <1>1, GivenMembers
<1>3. RunnersInv
  BY DEF Shape
<1>4. /\ pc' \in [Workers -> Stages]
      /\ att' \in [Workers -> Attempts \union {NULL}]
      /\ cand' \in [Workers -> Members \union {NoEntry}]
  BY <1>2, <1>3 DEF RunnersInv
<1>5. \A v \in Workers : RunnerOK(v)'
  BY <1>2, <1>3 DEF RunnersInv, RunnerOK
<1> QED
  BY <1>4, <1>5 DEF RunnersInv

LEMMA RunnersStay ==
    ASSUME Shape, [Next]_vars, UNCHANGED runner
    PROVE  RunnersInv'
<1>1. /\ queue.sequence \in Nat /\ queue'.sequence \in Nat
      /\ queue.sequence <= queue'.sequence
  BY QueueShape DEF Shape, QueueOK
<1>2. Given(queue.sequence) \subseteq Given(queue'.sequence)
  BY <1>1, GivenMembers
<1> QED
  BY <1>2 DEF runner, Shape, RunnersInv, RunnerOK

LEMMA RunnersStep ==
    ASSUME Shape, [Next]_vars
    PROVE  RunnersInv'
<1>0. RunnersInv /\ RowsInv
  BY DEF Shape
<1> USE DEF At, Goto, Stages, Owning, Looking
<1>1. ASSUME NEW w \in Workers, Leave(w) PROVE RunnersInv'
  BY <1>1, RunnerGoes DEF Leave
<1>2. ASSUME NEW w \in Workers, Claim(w) PROVE RunnersInv'
  <2> DEFINE a == AttemptOf(cand[w].job_id, jobs'[cand[w].job_id])
  <2>1. att' = [att EXCEPT ![w] = a] /\ a \in Attempts
    BY <1>0, <1>2, ClaimRow
  <2>2. /\ pc' = [pc EXCEPT ![w] = "claimed"] /\ cand' = [cand EXCEPT ![w] = cand[w]]
        /\ cand[w] \in Given(queue.sequence)
    BY <1>0, <1>2 DEF Claim, RunnersInv, RunnerOK
  <2> HIDE DEF a
  <2> QED
    BY <2>1, <2>2, RunnerGoes
<1>3. ASSUME NEW w \in Workers, Peek(w) PROVE RunnersInv'
  <2>1. PICK e \in queue.ready : cand' = [cand EXCEPT ![w] = e.member]
    BY <1>3 DEF Peek
  <2>2. e.member \in Given(queue.sequence)
    BY DEF Shape, QueueOK
  <2>3. att[w] = NULL /\ att' = [att EXCEPT ![w] = NULL] /\ pc' = [pc EXCEPT ![w] = "peeked"]
    BY <1>0, <1>3 DEF Peek, RunnersInv, RunnerOK
  <2> QED
    BY <2>1, <2>2, <2>3, RunnerGoes
<1>4. ASSUME NEW w \in Workers, NEW p \in Stages \ {"claimed"}, pc' = [pc EXCEPT ![w] = p],
             UNCHANGED <<cand, att>>,
             \/ pc[w] \in Looking /\ p \in Looking
             \/ pc[w] \in Owning /\ p \in Owning
             \/ pc[w] = "idle" /\ p = "exited"
      PROVE  RunnersInv'
  <2>1. cand' = [cand EXCEPT ![w] = cand[w]] /\ att' = [att EXCEPT ![w] = att[w]]
    BY <1>0, <1>4 DEF RunnersInv
  <2>2. /\ IF p \in Owning THEN att[w] \in Attempts ELSE att[w] = NULL
        /\ IF p \in Owning \union Looking
           THEN cand[w] \in Given(queue.sequence) ELSE cand[w] = NoEntry
    BY <1>0, <1>4 DEF RunnersInv, RunnerOK
  <2>3. p \in Stages
    BY <1>4
  <2>4. pc' = [pc EXCEPT ![w] = p]
    BY <1>4
  <2> HIDE DEF Stages, Owning, Looking
  <2> QED
    BY <2>1, <2>2, <2>3, <2>4, RunnerGoes, ZenonT(60)
<1>5. ASSUME NEW w \in Workers, QuietRunner(w) PROVE RunnersInv'
  <2>1. CASE Peek(w)
    BY <1>3, <2>1
  <2>2. CASE Discard(w) \/ DropEntryFails(w) \/ Abandon(w) \/ SettleFails(w)
    BY <1>1, <2>2 DEF Discard, DropEntryFails, Abandon, SettleFails
  <2>3. CASE CheckStop(w) \/ ReadBack(w)
    <3>1. CASE Leave(w)
      BY <1>1, <3>1
    <3>2. CASE ~Leave(w)
      <4>1. PICK p \in {"claiming", "discarding"} :
              pc' = [pc EXCEPT ![w] = p] /\ UNCHANGED <<cand, att>>
        BY <2>3, <3>2 DEF CheckStop, ReadBack
      <4>2. pc[w] \in Looking
        BY <2>3 DEF CheckStop, ReadBack
      <4> QED
        BY <1>4, <4>1, <4>2
    <3> QED
      BY <3>1, <3>2
  <2>4. CASE ClaimMatchesNothing(w) \/ DropEntry(w) \/ Exit(w)
    BY <1>4, <2>4 DEF ClaimMatchesNothing, DropEntry, Exit
  <2>5. CASE \E how \in {"succeeded", "raised"} : HandlerEnds(w, how)
    BY <1>4, <2>5 DEF HandlerEnds
  <2>6. CASE Crash(w)
    BY <2>6, RunnerGoes DEF Crash
  <2> QED
    BY <1>5, <2>1, <2>2, <2>3, <2>4, <2>5, <2>6 DEF QuietRunner
<1>6. CASE RowStep
  <2>1. ASSUME NEW w \in Workers, SettleSuccess(w) \/ SettleFailure(w) PROVE RunnersInv'
    BY <1>1, <2>1 DEF SettleSuccess, SettleFailure
  <2>2. ASSUME ~\E w \in Workers : Claim(w) \/ SettleSuccess(w) \/ SettleFailure(w)
        PROVE  UNCHANGED runner
    BY <1>6, <2>2 DEF RowStep, SubmitJob, RetryJob, CancelJob, DueArrives, LeaseExpires, Beat,
                      Activate, Recover
  <2> QED
    BY <1>2, <2>1, <2>2, RunnersStay
<1>7. ASSUME Telling PROVE UNCHANGED runner
  BY <1>7 DEF Telling, ApiPublish, ApiPublishFails, CancelLookUp, CancelRemove,
              CancelCleanupFails, PublishActivated, PublishActivatedFails
<1>8. ASSUME (\E w \in Workers : RequestStop(w)) \/ UNCHANGED vars PROVE UNCHANGED runner
  BY <1>8 DEF RequestStop, vars
<1> QED
  BY <1>5, <1>6, <1>7, <1>8, StepKinds, RunnersStay

\* What a step may do to the row of j.
RowMoves(j) ==
    LET r == jobs[j]  x == jobs'[j] IN
    \/ Kept(j) /\ minted'[j] = minted[j]
    \/ /\ r.status = "absent" \/ (r.status = "failed" /\ retries' = retries + 1)
       /\ x.status \in {"scheduled", "pending"}
       /\ x.attempt_count = 0 /\ x.execution_token = NULL /\ minted'[j] = minted[j]
    \/ /\ r.status \in {"scheduled", "pending"} /\ x.status = "cancelled"
       /\ x.attempt_count = r.attempt_count /\ x.execution_token = NULL
       /\ minted'[j] = minted[j]
    \/ /\ r.status = "scheduled" /\ x.status = "pending"
       /\ x.attempt_count = r.attempt_count /\ x.execution_token = r.execution_token
       /\ minted'[j] = minted[j]
    \/ /\ r.status = "pending" /\ x.status = "processing"
       /\ x.attempt_count = r.attempt_count + 1 /\ x.execution_token = minted[j] + 1
       /\ minted'[j] = minted[j] + 1
    \/ /\ r.status = "processing" /\ x.status \in {"completed", "scheduled", "failed"}
       /\ x.attempt_count = r.attempt_count /\ x.execution_token = NULL
       /\ minted'[j] = minted[j]

LEMMA RowsMove ==
    ASSUME Shape, AttemptsInv, [Next]_vars, NEW j \in Jobs
    PROVE  RowMoves(j)
<1>0. RowsInv /\ RunnersInv
  BY DEF Shape
<1>1. ASSUME jobs'[j] = jobs[j], minted'[j] = minted[j] PROVE RowMoves(j)
  BY <1>1 DEF RowMoves, Kept
<1>2. ASSUME NEW k \in Jobs, NEW when \in {NULL, LATER}, SubmitJob(k, when) PROVE RowMoves(j)
  <2>1. CASE k = j
    BY <1>0, <1>2, <2>1, SubmitRow DEF RowMoves
  <2>2. CASE k # j
    BY <1>0, <1>1, <1>2, <2>2, SubmitRow
  <2> QED
    BY <2>1, <2>2
<1>3. ASSUME NEW k \in Jobs, RetryJob(k) PROVE RowMoves(j)
  <2>1. CASE k = j
    <3>1. retries' = retries + 1
      BY <1>3 DEF RetryJob
    <3> QED
      BY <1>0, <1>3, <2>1, <3>1, RetryRow DEF RowMoves
  <2>2. CASE k # j
    BY <1>0, <1>1, <1>3, <2>2, RetryRow
  <2> QED
    BY <2>1, <2>2
<1>4. ASSUME NEW k \in Jobs, CancelJob(k) PROVE RowMoves(j)
  <2>1. CASE k = j
    BY <1>0, <1>4, <2>1, CancelRow DEF RowMoves
  <2>2. CASE k # j
    BY <1>0, <1>1, <1>4, <2>2, CancelRow
  <2> QED
    BY <2>1, <2>2
<1>5. ASSUME NEW w \in Workers, Claim(w) PROVE RowMoves(j)
  <2>1. CASE cand[w].job_id = j
    BY <1>0, <1>5, <2>1, ClaimRow DEF RowMoves
  <2>2. CASE cand[w].job_id # j
    BY <1>0, <1>1, <1>5, <2>2, ClaimRow
  <2> QED
    BY <2>1, <2>2
<1>6. ASSUME NEW w \in Workers, SettleSuccess(w) \/ SettleFailure(w) PROVE RowMoves(j)
  <2>0. AttemptOK(w)
    BY DEF AttemptsInv
  <2>1. CASE att[w].job_id = j
    <3>1. minted' = minted
      BY <1>0, <1>6, <2>0, SettleRow
    <3>2. CASE jobs' = jobs
      BY <1>1, <3>1, <3>2
    <3>3. CASE jobs' # jobs
      <4>1. /\ jobs[j].status = "processing"
            /\ jobs'[j].status \in {"completed", "scheduled", "failed"}
            /\ jobs'[j].attempt_count = jobs[j].attempt_count
            /\ jobs'[j].execution_token = NULL
        BY <1>0, <1>6, <2>0, <2>1, <3>3, SettleRow
      <4> QED
        BY <3>1, <4>1 DEF RowMoves
    <3> QED
      BY <3>2, <3>3
  <2>2. CASE att[w].job_id # j
    BY <1>0, <1>1, <1>6, <2>0, <2>2, SettleRow
  <2> QED
    BY <2>1, <2>2
<1>7. ASSUME NEW w \in Workers, NEW S \in SUBSET Jobs, Activate(w, S) PROVE RowMoves(j)
  <2>1. CASE j \in S
    BY <1>0, <1>7, <2>1, ActivateRows DEF RowMoves
  <2>2. CASE j \notin S
    BY <1>0, <1>1, <1>7, <2>2, ActivateRows
  <2> QED
    BY <2>1, <2>2
<1>8. ASSUME NEW w \in Workers, NEW S \in SUBSET Jobs, Recover(w, S) PROVE RowMoves(j)
  <2>1. CASE j \in S
    BY <1>0, <1>8, <2>1, RecoverRows DEF RowMoves
  <2>2. CASE j \notin S
    BY <1>0, <1>1, <1>8, <2>2, RecoverRows
  <2> QED
    BY <2>1, <2>2
<1>9. ASSUME \/ \E w \in Workers : Beat(w)
             \/ \E k \in Jobs : DueArrives(k) \/ LeaseExpires(k)
      PROVE  RowMoves(j)
  BY <1>0, <1>9, TimeRow DEF RowMoves
<1>10. CASE ~RowStep
  BY <1>1, <1>10, RowsUntouched DEF rows
<1>11. CASE RowStep
  BY <1>2, <1>3, <1>4, <1>5, <1>6, <1>7, <1>8, <1>9, <1>11 DEF RowStep
<1> QED
  BY <1>10, <1>11

LEMMA CleanupKept ==
    ASSUME Shape, AttemptsInv, [Next]_vars
    PROVE  CleanupInv'
<1>0. CleanupInv /\ QueueOK(queue) /\ RowsInv
  BY DEF Shape
<1>1. /\ queue.sequence \in Nat /\ queue'.sequence \in Nat
      /\ queue.sequence <= queue'.sequence
  BY QueueShape DEF Shape, QueueOK
<1>2. /\ Given(queue.sequence) \subseteq Given(queue'.sequence)
      /\ Given(queue.sequence) \subseteq Members
  BY <1>1, GivenMembers
<1>3. \A j \in Jobs : jobs[j].status = "cancelled" => jobs'[j].status = "cancelled"
  BY RowsMove DEF RowMoves, Kept
<1>4. CASE UNCHANGED cleanup
  BY <1>0, <1>2, <1>3, <1>4 DEF CleanupInv, cleanup
<1>5. ASSUME NEW j \in Jobs, CancelJob(j) PROVE CleanupInv'
  <2>1. clean' = [clean EXCEPT ![j] = "lookup"] /\ found' = found
    BY <1>5 DEF CancelJob
  <2>2. jobs'[j].status = "cancelled"
    BY <1>0, <1>5, CancelRow
  <2> QED
    BY <1>0, <1>2, <1>3, <2>1, <2>2 DEF CleanupInv
<1>6. ASSUME NEW j \in Jobs, CancelLookUp(j) PROVE CleanupInv'
  <2> DEFINE m == CurrentMember(queue, j)
             s == IF m = NoEntry THEN "none" ELSE "remove"
  <2>1. m \in Given(queue.sequence) \union {NoEntry} /\ (m # NoEntry => m.job_id = j)
    BY <1>0 DEF QueueOK, CurrentMember
  <2>2. /\ clean[j] = "lookup" /\ found' = [found EXCEPT ![j] = m]
        /\ clean' = [clean EXCEPT ![j] = s]
    BY <1>6 DEF CancelLookUp
  <2>3. s \in {"none", "remove"} /\ (s = "remove" => m # NoEntry)
    OBVIOUS
  <2>4. jobs[j].status = "cancelled"
    BY <1>0, <2>2 DEF CleanupInv
  <2> HIDE DEF m, s
  <2>5. /\ clean' \in [Jobs -> {"none", "lookup", "remove"}]
        /\ found' \in [Jobs -> Members \union {NoEntry}]
    BY <1>0, <1>2, <2>1, <2>2, <2>3 DEF CleanupInv
  <2>6. ASSUME NEW k \in Jobs
        PROVE  /\ clean'[k] # "none" => jobs'[k].status = "cancelled"
               /\ clean'[k] = "remove" =>
                     found'[k] \in Given(queue'.sequence) /\ found'[k].job_id = k
    <3>1. CASE k = j
      BY <1>0, <1>2, <1>3, <2>1, <2>2, <2>3, <2>4, <3>1 DEF CleanupInv
    <3>2. CASE k # j
      BY <1>0, <1>2, <1>3, <2>2, <3>2 DEF CleanupInv
    <3> QED
      BY <3>1, <3>2
  <2> QED
    BY <2>5, <2>6 DEF CleanupInv
<1>7. ASSUME NEW j \in Jobs, CancelRemove(j) \/ CancelCleanupFails(j) PROVE CleanupInv'
  <2>1. clean' = [clean EXCEPT ![j] = "none"] /\ found' = found
    BY <1>7 DEF CancelRemove, CancelCleanupFails
  <2> QED
    BY <1>0, <1>2, <1>3, <2>1 DEF CleanupInv
<1>8. CASE RowStep
  <2>1. ASSUME ~\E j \in Jobs : CancelJob(j) PROVE UNCHANGED cleanup
    BY <1>8, <2>1 DEF RowStep, SubmitJob, RetryJob, DueArrives, LeaseExpires, Beat, Claim,
                      SettleSuccess, SettleFailure, Activate, Recover, api
  <2> QED
    BY <1>4, <1>5, <2>1
<1>9. ASSUME NEW w \in Workers, QuietRunner(w) PROVE UNCHANGED cleanup
  BY <1>9 DEF QuietRunner, Peek, CheckStop, ClaimMatchesNothing, ReadBack, Discard, DropEntry,
              DropEntryFails, HandlerEnds, Abandon, SettleFails, Exit, Crash, api
<1>10. CASE Telling
  <2>1. ASSUME ~\E j \in Jobs : CancelLookUp(j) \/ CancelRemove(j) \/ CancelCleanupFails(j)
        PROVE  UNCHANGED cleanup
    BY <1>10, <2>1 DEF Telling, ApiPublish, ApiPublishFails, PublishActivated,
                       PublishActivatedFails, api
  <2> QED
    BY <1>4, <1>6, <1>7, <2>1
<1>11. ASSUME (\E w \in Workers : RequestStop(w)) \/ UNCHANGED vars PROVE UNCHANGED cleanup
  BY <1>11 DEF RequestStop, vars, api
<1> QED
  BY <1>4, <1>8, <1>9, <1>10, <1>11, StepKinds

\* A step is a fault, and counted as one, or leaves the count.
LEMMA FaultsCounted ==
    ASSUME [Next]_vars
    PROVE  Fault \/ faults' = faults
<1>1. CASE Failures
  BY <1>1 DEF Failures, ApiPublishFails, CancelCleanupFails, LeaseMissed, DropEntryFails,
              SettleFails, Crash, PublishActivatedFails
<1>2. ASSUME NEW w \in Workers, RunnerStep(w) PROVE faults' = faults
  BY <1>2 DEF RunnerStep, Peek, CheckStop, Claim, ClaimMatchesNothing, ReadBack, Discard,
              DropEntry, HandlerEnds, Abandon, SettleSuccess, SettleFailure, Exit
<1>3. ASSUME NEW w \in Workers, SchedulerStep(w) \/ RecoveryStep(w) \/ Beat(w) \/ RequestStop(w)
      PROVE  faults' = faults
  BY <1>3 DEF SchedulerStep, RecoveryStep, Activate, PublishActivated, Recover, Beat, RequestStop
<1>4. ASSUME NEW j \in Jobs, \/ \E when \in {NULL, LATER} : SubmitJob(j, when)
                             \/ RetryJob(j) \/ CancelJob(j) \/ ApiPublish(j) \/ CleanupStep(j)
                             \/ DueArrives(j) \/ LeaseRunsOut(j)
      PROVE  faults' = faults
  BY <1>4 DEF SubmitJob, RetryJob, CancelJob, ApiPublish, CleanupStep, CancelLookUp,
              CancelRemove, DueArrives, LeaseRunsOut
<1>5. CASE UNCHANGED vars
  BY <1>5 DEF vars
<1> QED
  BY <1>1, <1>2, <1>3, <1>4, <1>5 DEF Next

LEMMA RestKept ==
    ASSUME Shape, [Next]_vars
    PROVE  RestInv'
<1>0. RestInv /\ RunnersInv
  BY DEF Shape
<1> DEFINE Loops == batch' \in [Workers -> SUBSET Jobs] /\ stop' \in [Workers -> BOOLEAN]
           Sets == lost' \subseteq Jobs /\ orphaned' \subseteq Jobs
           Requests == pubs' \in [Jobs -> Nat] /\ retries' \in 0..MaxRetries
<1>1. faults' \in 0..MaxFaults
  <2>1. faults \in 0..MaxFaults
    BY <1>0 DEF RestInv
  <2> QED
    BY <2>1, FaultsCounted, Constants DEF Fault
<1>2. ASSUME RowStep PROVE Loops /\ Sets /\ Requests
  <2>1. Sets
    BY <1>0, <1>2 DEF RowStep, SubmitJob, RetryJob, CancelJob, DueArrives, LeaseExpires, Beat,
                      Claim, SettleSuccess, SettleFailure, Activate, Recover, history, RestInv
  <2>2. Loops
    <3>1. CASE batch' = batch /\ stop' = stop
      BY <1>0, <3>1 DEF RestInv
    <3>2. ASSUME NEW w \in Workers, NEW S \in SUBSET Jobs, Activate(w, S) PROVE Loops
      BY <1>0, <3>2 DEF Activate, RestInv
    <3>3. ASSUME ~\E w \in Workers, S \in SUBSET Jobs : Activate(w, S)
          PROVE  batch' = batch /\ stop' = stop
      BY <1>2, <3>3 DEF RowStep, SubmitJob, RetryJob, CancelJob, DueArrives, LeaseExpires, Beat,
                        Claim, SettleSuccess, SettleFailure, Recover
    <3> QED
      BY <3>1, <3>2, <3>3
  <2>3. Requests
    <3>1. CASE pubs' = pubs /\ retries' = retries
      BY <1>0, <3>1 DEF RestInv
    <3>2. ASSUME NEW j \in Jobs, RetryJob(j) PROVE Requests
      BY <1>0, <3>2, Constants DEF RetryJob, RestInv
    <3>3. ASSUME NEW j \in Jobs, NEW when \in {NULL, LATER}, SubmitJob(j, when) PROVE Requests
      BY <1>0, <3>3 DEF SubmitJob, RestInv
    <3>4. ASSUME ~\E j \in Jobs : RetryJob(j) \/ \E when \in {NULL, LATER} : SubmitJob(j, when)
          PROVE  pubs' = pubs /\ retries' = retries
      BY <1>2, <3>4 DEF RowStep, CancelJob, DueArrives, LeaseExpires, Beat, Claim,
                        SettleSuccess, SettleFailure, Activate, Recover, api
    <3> QED
      BY <3>1, <3>2, <3>3, <3>4
  <2> QED
    BY <2>1, <2>2, <2>3
<1>3. ASSUME NEW w \in Workers, QuietRunner(w) PROVE Loops /\ Sets /\ Requests
  <2>1. Requests
    BY <1>0, <1>3 DEF QuietRunner, Peek, CheckStop, ClaimMatchesNothing, ReadBack, Discard,
                      DropEntry, DropEntryFails, HandlerEnds, Abandon, SettleFails, Exit, Crash,
                      api, RestInv
  <2>2. CASE Crash(w)
    BY <1>0, <2>1, <2>2 DEF Crash, RestInv
  <2>3. CASE DropEntryFails(w) \/ SettleFails(w)
    <3>1. att[w].job_id \in Jobs
      BY <1>0, <2>3 DEF DropEntryFails, SettleFails, At, RunnersInv, RunnerOK, Owning, Attempts
    <3> QED
      BY <1>0, <2>1, <2>3, <3>1 DEF DropEntryFails, SettleFails, Orphans, RestInv
  <2>4. CASE ~(Crash(w) \/ DropEntryFails(w) \/ SettleFails(w))
    BY <1>0, <1>3, <2>1, <2>4 DEF QuietRunner, Peek, CheckStop, ClaimMatchesNothing, ReadBack,
        Discard, DropEntry, HandlerEnds, Abandon, Exit, history, RestInv
  <2> QED
    BY <2>2, <2>3, <2>4
<1>4. ASSUME Telling PROVE Loops /\ Sets /\ Requests
  <2>1. ASSUME NEW j \in Jobs, ApiPublish(j) \/ ApiPublishFails(j) PROVE Loops /\ Sets /\ Requests
    BY <1>0, <2>1 DEF ApiPublish, ApiPublishFails, Publish, RestInv
  <2>2. ASSUME NEW j \in Jobs, CancelLookUp(j) \/ CancelRemove(j) \/ CancelCleanupFails(j)
        PROVE  Loops /\ Sets /\ Requests
    BY <1>0, <2>2 DEF CancelLookUp, CancelRemove, CancelCleanupFails, history, RestInv
  <2>3. ASSUME NEW w \in Workers, NEW j \in Jobs,
               PublishActivated(w, j) \/ PublishActivatedFails(w, j)
        PROVE  Loops /\ Sets /\ Requests
    BY <1>0, <2>3 DEF PublishActivated, PublishActivatedFails, Publish, api, RestInv
  <2> HIDE DEF Loops, Sets, Requests
  <2> QED
    BY <1>4, <2>1, <2>2, <2>3 DEF Telling
<1>5. ASSUME NEW w \in Workers, RequestStop(w) PROVE Loops /\ Sets /\ Requests
  BY <1>0, <1>5 DEF RequestStop, api, history, RestInv
<1>6. ASSUME UNCHANGED vars PROVE Loops /\ Sets /\ Requests
  BY <1>0, <1>6 DEF vars, api, history, RestInv
<1> HIDE DEF Loops, Sets, Requests
<1>7. Loops /\ Sets /\ Requests
  BY <1>2, <1>3, <1>4, <1>5, <1>6, StepKinds
<1> QED
  BY <1>1, <1>7 DEF Loops, Sets, Requests, RestInv

LEMMA ShapeKept ==
    ASSUME Shape, AttemptsInv, [Next]_vars
    PROVE  Shape'
BY RowsStep, QueueShape, RunnersStep, CleanupKept, RestKept DEF Shape

-----------------------------------------------------------------------------
(* Every step keeps the rest of the invariant. *)

\* A runner keeps its attempt, gives it up, or has just claimed it.
LEMMA AttemptMoves ==
    ASSUME Shape, [Next]_vars, NEW w \in Workers
    PROVE  att'[w] = att[w] \/ att'[w] = NULL \/ Claim(w)
<1>0. att \in [Workers -> Attempts \union {NULL}]
  BY DEF Shape, RunnersInv
<1> DEFINE G == att'[w] = att[w] \/ att'[w] = NULL \/ Claim(w)
<1>1. ASSUME NEW v \in Workers, Leave(v) PROVE G
  BY <1>0, <1>1 DEF Leave
<1>2. ASSUME NEW v \in Workers, QuietRunner(v) PROVE G
  BY <1>0, <1>1, <1>2 DEF QuietRunner, Peek, CheckStop, ClaimMatchesNothing, ReadBack, Discard,
                      DropEntry, DropEntryFails, HandlerEnds, Abandon, SettleFails, Exit, Crash
<1>3. ASSUME RowStep PROVE G
  <2>1. ASSUME NEW v \in Workers, Claim(v) PROVE G
    BY <1>0, <2>1 DEF Claim
  <2>2. ASSUME NEW v \in Workers, SettleSuccess(v) \/ SettleFailure(v) PROVE G
    BY <1>1, <2>2 DEF SettleSuccess, SettleFailure
  <2>3. ASSUME ~\E v \in Workers : Claim(v) \/ SettleSuccess(v) \/ SettleFailure(v)
        PROVE  att' = att
    BY <1>3, <2>3 DEF RowStep, SubmitJob, RetryJob, CancelJob, DueArrives, LeaseExpires, Beat,
                      Activate, Recover, runner
  <2> QED
    BY <2>1, <2>2, <2>3
<1>4. ASSUME Telling PROVE att' = att
  BY <1>4 DEF Telling, ApiPublish, ApiPublishFails, CancelLookUp, CancelRemove,
              CancelCleanupFails, PublishActivated, PublishActivatedFails, runner
<1>5. ASSUME (\E v \in Workers : RequestStop(v)) \/ UNCHANGED vars PROVE att' = att
  BY <1>5 DEF RequestStop, vars, runner
<1> QED
  BY <1>2, <1>3, <1>4, <1>5, StepKinds

LEMMA AttemptsKept ==
    ASSUME Shape, AttemptsInv, [Next]_vars
    PROVE  AttemptsInv'
<1> SUFFICES ASSUME NEW w \in Workers, att'[w] # NULL PROVE AttemptOK(w)'
  BY DEF AttemptsInv, AttemptOK
<1>0. RowsInv /\ RunnersInv
  BY DEF Shape
<1>1. CASE Claim(w)
  <2> DEFINE j == cand[w].job_id
  <2>1. /\ j \in Jobs /\ minted'[j] = minted[j] + 1 /\ minted[j] \in Nat
        /\ jobs'[j].worker_id = w /\ jobs'[j].execution_token = minted[j] + 1
        /\ att' = [att EXCEPT ![w] = AttemptOf(j, jobs'[j])]
    BY <1>0, <1>1, ClaimRow DEF RowsInv
  <2> HIDE DEF j
  <2>2. att'[w] = AttemptOf(j, jobs'[j])
    BY <1>0, <2>1 DEF RunnersInv
  <2> QED
    BY <2>1, <2>2 DEF AttemptOK, AttemptOf
<1>2. CASE att'[w] = att[w]
  <2> DEFINE a == att[w]
             j == a.job_id
  <2>1. a \in Attempts /\ j \in Jobs /\ a.execution_token \in Nat /\ minted[j] \in Nat
    BY <1>0, <1>2 DEF RunnersInv, RowsInv, Attempts
  <2>2. /\ a.worker_id = w /\ a.execution_token <= minted[j]
        /\ jobs[j].status = "processing" /\ jobs[j].execution_token = a.execution_token =>
              jobs[j].worker_id = w /\ jobs[j].attempt_count = a.attempt_count
    BY <1>2 DEF AttemptsInv, AttemptOK
  <2>3. RowMoves(j)
    BY <2>1, RowsMove
  <2> HIDE DEF a, j
  <2>4. a.execution_token <= minted'[j]
    BY <2>1, <2>2, <2>3 DEF RowMoves
  <2>5. ASSUME jobs'[j].status = "processing", jobs'[j].execution_token = a.execution_token
        PROVE  jobs'[j].worker_id = w /\ jobs'[j].attempt_count = a.attempt_count
    <3>1. Kept(j)
      BY <2>1, <2>2, <2>3, <2>5 DEF RowMoves
    <3> QED
      BY <2>2, <2>5, <3>1 DEF Kept
  <2> QED
    BY <1>2, <2>2, <2>4, <2>5 DEF AttemptOK, a, j
<1> QED
  BY <1>1, <1>2, AttemptMoves

LEMMA MintKept ==
    ASSUME Shape, AttemptsInv, MintInv, [Next]_vars
    PROVE  MintInv'
<1>0. /\ RowsInv /\ RestInv /\ MaxAttempts \in Nat \ {0}
      /\ retries \in Nat
  BY Constants DEF Shape, RestInv
<1>1. MaxAttempts * retries \in Nat /\ MaxAttempts * (retries + 1) = MaxAttempts * retries + MaxAttempts
  BY <1>0
<1>2. ASSUME NEW k \in Jobs, RetryJob(k) PROVE MintInv'
  <2>1. retries' = retries + 1 /\ minted' = minted
    BY <1>2 DEF RetryJob
  <2> SUFFICES ASSUME NEW j \in Jobs
               PROVE  minted[j] <= jobs'[j].attempt_count + MaxAttempts * (retries + 1)
    BY <2>1 DEF MintInv
  <2>2. /\ minted[j] <= jobs[j].attempt_count + MaxAttempts * retries
        /\ minted[j] \in Nat /\ jobs[j].attempt_count \in 0..MaxAttempts
        /\ jobs'[j].attempt_count \in Nat
    <3>1. RowsInv'
      BY RowsStep
    <3> QED
      BY <1>0, <3>1 DEF MintInv, RowsInv, Rows
  <2> QED
    BY <1>0, <1>1, <2>2
<1>3. ASSUME ~\E k \in Jobs : RetryJob(k) PROVE MintInv'
  <2>1. retries' = retries
    <3>1. CASE RowStep
      BY <1>3, <3>1 DEF RowStep, SubmitJob, CancelJob, DueArrives, LeaseExpires, Beat,
                        Claim, SettleSuccess, SettleFailure, Activate, Recover, api
    <3>2. ASSUME NEW w \in Workers, QuietRunner(w) PROVE retries' = retries
      BY <3>2 DEF QuietRunner, Peek, CheckStop, ClaimMatchesNothing, ReadBack, Discard,
                  DropEntry, DropEntryFails, HandlerEnds, Abandon, SettleFails, Exit, Crash, api
    <3>3. CASE Telling
      BY <3>3 DEF Telling, ApiPublish, ApiPublishFails, CancelLookUp, CancelRemove,
                  CancelCleanupFails, PublishActivated, PublishActivatedFails, api
    <3>4. CASE (\E w \in Workers : RequestStop(w)) \/ UNCHANGED vars
      BY <3>4 DEF RequestStop, vars, api
    <3> QED
      BY <3>1, <3>2, <3>3, <3>4, StepKinds
  <2> SUFFICES ASSUME NEW j \in Jobs
               PROVE  minted'[j] <= jobs'[j].attempt_count + MaxAttempts * retries
    BY <2>1 DEF MintInv
  <2> DEFINE b == MaxAttempts * retries
  <2>2. /\ minted[j] <= jobs[j].attempt_count + b
        /\ minted[j] \in Nat /\ jobs[j].attempt_count \in Nat /\ b \in Nat
        /\ jobs[j].status = "absent" => jobs[j].attempt_count = 0
    BY <1>0, <1>1 DEF MintInv, RowsInv, Rows, RowOK
  <2>3. RowMoves(j)
    BY RowsMove
  <2> HIDE DEF b
  <2>4. minted'[j] <= jobs'[j].attempt_count + b
    BY <1>0, <2>1, <2>2, <2>3 DEF RowMoves, Kept
  <2> QED
    BY <2>4 DEF b
<1> QED
  BY <1>2, <1>3

\* An attempt ends with the runner's own step, or with its process.
Ends(w) ==
    \/ DropEntryFails(w) \/ Abandon(w) \/ SettleSuccess(w) \/ SettleFailure(w)
    \/ SettleFails(w) \/ Crash(w)

LEMMA AttemptEnds ==
    ASSUME Shape, [Next]_vars, NEW w \in Workers, att[w] # NULL
    PROVE  att'[w] = att[w] \/ Ends(w)
<1>0. /\ att \in [Workers -> Attempts \union {NULL}]
      /\ pc[w] \in Owning
  BY DEF Shape, RunnersInv, RunnerOK
<1> DEFINE G == att'[w] = att[w] \/ Ends(w)
<1>1. ASSUME NEW v \in Workers, v # w, Leave(v) PROVE G
  BY <1>0, <1>1 DEF Leave
<1>2. ASSUME NEW v \in Workers, v # w, QuietRunner(v) PROVE G
  BY <1>0, <1>1, <1>2 DEF QuietRunner, Peek, CheckStop, ClaimMatchesNothing, ReadBack, Discard,
                      DropEntry, DropEntryFails, HandlerEnds, Abandon, SettleFails, Exit, Crash
<1>3. ASSUME QuietRunner(w) PROVE G
  BY <1>0, <1>3 DEF QuietRunner, Peek, CheckStop, ClaimMatchesNothing, ReadBack, Discard,
                    DropEntry, HandlerEnds, Exit, Ends, At, Owning
<1>4. ASSUME RowStep PROVE G
  <2>1. ASSUME NEW v \in Workers, Claim(v) PROVE G
    BY <1>0, <2>1 DEF Claim, At, Owning
  <2>2. ASSUME NEW v \in Workers, SettleSuccess(v) \/ SettleFailure(v) PROVE G
    BY <1>1, <2>2 DEF SettleSuccess, SettleFailure, Ends
  <2>3. ASSUME ~\E v \in Workers : Claim(v) \/ SettleSuccess(v) \/ SettleFailure(v)
        PROVE  att' = att
    BY <1>4, <2>3 DEF RowStep, SubmitJob, RetryJob, CancelJob, DueArrives, LeaseExpires, Beat,
                      Activate, Recover, runner
  <2> QED
    BY <2>1, <2>2, <2>3
<1>5. ASSUME Telling PROVE att' = att
  BY <1>5 DEF Telling, ApiPublish, ApiPublishFails, CancelLookUp, CancelRemove,
              CancelCleanupFails, PublishActivated, PublishActivatedFails, runner
<1>6. ASSUME (\E v \in Workers : RequestStop(v)) \/ UNCHANGED vars PROVE att' = att
  BY <1>6 DEF RequestStop, vars, runner
<1> HIDE DEF G
<1>7. G
  <2>1. ASSUME NEW v \in Workers, QuietRunner(v) PROVE G
    BY <1>2, <1>3, <2>1
  <2> QED
    BY <1>4, <1>5, <1>6, <2>1, StepKinds DEF G
<1> QED
  BY <1>7 DEF G

\* Only the claim of j mints a token for it.
LEMMA MintedBy ==
    ASSUME Shape, [Next]_vars, NEW j \in Jobs, minted'[j] # minted[j]
    PROVE  \E w \in Workers : Claim(w) /\ cand[w].job_id = j
<1>0. RowsInv /\ RunnersInv
  BY DEF Shape
<1>1. ASSUME NEW w \in Workers, Claim(w) PROVE cand[w].job_id = j
  BY <1>0, <1>1, ClaimRow
<1>2. ASSUME ~\E w \in Workers : Claim(w) PROVE minted' = minted
  <2>1. CASE ~RowStep
    BY <2>1, RowsUntouched DEF rows
  <2>2. CASE RowStep
    BY <1>2, <2>2 DEF RowStep, SubmitJob, RetryJob, CancelJob, DueArrives, LeaseExpires, Beat,
                      SettleSuccess, SettleFailure, Activate, Recover
  <2> QED
    BY <2>1, <2>2
<1> QED
  BY <1>1, <1>2

\* A dead process stays dead.
LEMMA DownStays ==
    ASSUME Shape, [Next]_vars, NEW w \in Workers, pc[w] = "down"
    PROVE  pc'[w] = "down"
<1>0. pc \in [Workers -> Stages]
  BY DEF Shape, RunnersInv
<1>1. ASSUME NEW v \in Workers, NEW p, pc' = [pc EXCEPT ![v] = p], pc[v] # "down"
      PROVE  pc'[w] = "down"
  BY <1>0, <1>1
<1>2. ASSUME NEW v \in Workers, QuietRunner(v) PROVE pc'[w] = "down"
  BY <1>0, <1>1, <1>2 DEF QuietRunner, Peek, CheckStop, ClaimMatchesNothing, ReadBack, Discard,
       DropEntry, DropEntryFails, HandlerEnds, Abandon, SettleFails, Exit, Crash, Leave, Goto, At, Up
<1>3. ASSUME RowStep PROVE pc'[w] = "down"
  <2>1. ASSUME NEW v \in Workers, Claim(v) \/ SettleSuccess(v) \/ SettleFailure(v)
        PROVE  pc'[w] = "down"
    BY <1>1, <2>1 DEF Claim, SettleSuccess, SettleFailure, Leave, Goto, At
  <2>2. ASSUME ~\E v \in Workers : Claim(v) \/ SettleSuccess(v) \/ SettleFailure(v)
        PROVE  pc' = pc
    BY <1>3, <2>2 DEF RowStep, SubmitJob, RetryJob, CancelJob, DueArrives, LeaseExpires, Beat,
                      Activate, Recover, runner
  <2> QED
    BY <2>1, <2>2
<1>4. ASSUME Telling PROVE pc' = pc
  BY <1>4 DEF Telling, ApiPublish, ApiPublishFails, CancelLookUp, CancelRemove,
              CancelCleanupFails, PublishActivated, PublishActivatedFails, runner
<1>5. ASSUME (\E v \in Workers : RequestStop(v)) \/ UNCHANGED vars PROVE pc' = pc
  BY <1>5 DEF RequestStop, vars, runner
<1> QED
  BY <1>2, <1>3, <1>4, <1>5, StepKinds

\* A job given up stays so until its row stops running.
LEMMA OrphanedStays ==
    ASSUME Shape, [Next]_vars, NEW j \in Jobs, j \in orphaned, jobs'[j].status = "processing"
    PROVE  j \in orphaned'
<1>0. RowsInv
  BY DEF Shape
<1>1. ASSUME NEW w \in Workers, QuietRunner(w) PROVE orphaned \subseteq orphaned'
  BY <1>1 DEF QuietRunner, Peek, CheckStop, ClaimMatchesNothing, ReadBack, Discard, DropEntry,
              DropEntryFails, HandlerEnds, Abandon, SettleFails, Orphans, Exit, Crash, history
<1>2. ASSUME RowStep PROVE j \in orphaned'
  <2>1. ASSUME NEW w \in Workers, NEW S \in SUBSET Jobs, Recover(w, S) PROVE j \in orphaned'
    <3>1. j \notin S
      BY <1>0, <2>1, RecoverRows
    <3> QED
      BY <2>1, <3>1 DEF Recover
  <2>2. ASSUME ~\E w \in Workers, S \in SUBSET Jobs : Recover(w, S) PROVE orphaned' = orphaned
    BY <1>2, <2>2 DEF RowStep, SubmitJob, RetryJob, CancelJob, DueArrives, LeaseExpires, Beat,
                      Claim, SettleSuccess, SettleFailure, Activate, history
  <2> QED
    BY <2>1, <2>2
<1>3. ASSUME Telling PROVE orphaned' = orphaned
  BY <1>3 DEF Telling, ApiPublish, ApiPublishFails, CancelLookUp, CancelRemove,
              CancelCleanupFails, PublishActivated, PublishActivatedFails, history
<1>4. ASSUME (\E v \in Workers : RequestStop(v)) \/ UNCHANGED vars PROVE orphaned' = orphaned
  BY <1>4 DEF RequestStop, vars, history
<1> QED
  BY <1>1, <1>2, <1>3, <1>4, StepKinds

LEMMA TendedKept ==
    ASSUME Shape, AttemptsInv, ProcessingIsTended, [Next]_vars
    PROVE  ProcessingIsTended'
<1>0. RowsInv /\ RunnersInv /\ Shape'
  BY ShapeKept DEF Shape
<1> SUFFICES ASSUME NEW j \in Jobs, jobs'[j].status = "processing"
             PROVE  Held(j)' \/ pc'[jobs'[j].worker_id] = "down" \/ j \in orphaned'
  BY DEF ProcessingIsTended
<1>1. CASE minted'[j] # minted[j]
  <2>1. PICK w \in Workers : Claim(w) /\ cand[w].job_id = j
    BY <1>1, MintedBy
  <2>2. /\ jobs'[j].worker_id = w
        /\ att' = [att EXCEPT ![w] = AttemptOf(j, jobs'[j])]
        /\ AttemptOf(j, jobs'[j]) \in Attempts
    BY <1>0, <2>1, ClaimRow
  <2>3. att'[w] = AttemptOf(j, jobs'[j]) /\ att'[w] # NULL
    BY <1>0, <2>2, Constants DEF RunnersInv
  <2>4. att'[w].job_id = j /\ OwnedBy(jobs'[j], att'[w])
    BY <2>3 DEF AttemptOf, OwnedBy
  <2> QED
    BY <2>3, <2>4 DEF Held
<1>2. CASE minted'[j] = minted[j]
  <2>1. Kept(j) /\ jobs[j].status = "processing"
    <3>1. minted[j] \in Nat
      BY <1>0 DEF RowsInv
    <3> QED
      BY <1>2, <3>1, RowsMove DEF RowMoves, Kept
  <2>2. jobs[j].worker_id \in Workers
    BY <1>0, <2>1 DEF RowsInv, RowOK
  <2>3. CASE pc[jobs[j].worker_id] = "down"
    BY <2>1, <2>2, <2>3, DownStays DEF Kept
  <2>4. CASE j \in orphaned
    BY <2>4, OrphanedStays
  <2>5. ASSUME NEW w \in Workers, att[w] # NULL, att[w].job_id = j, OwnedBy(jobs[j], att[w])
        PROVE  Held(j)' \/ pc'[jobs'[j].worker_id] = "down" \/ j \in orphaned'
    <3>1. CASE att'[w] = att[w]
      BY <2>1, <2>5, <3>1 DEF Held, OwnedBy, Kept
    <3>2. CASE DropEntryFails(w) \/ SettleFails(w)
      BY <2>5, <3>2 DEF DropEntryFails, SettleFails, Orphans, Row
    <3>3. CASE Abandon(w)
      BY <2>5, <3>3 DEF Abandon, Row
    <3>4. CASE SettleSuccess(w) \/ SettleFailure(w)
      <4>1. AttemptOK(w)
        BY DEF AttemptsInv
      <4>2. jobs'[j].status # "processing"
        BY <1>0, <2>5, <3>4, <4>1, SettleRow
      <4> QED
        BY <4>2
    <3>5. CASE Crash(w)
      <4>1. jobs'[j].worker_id = w
        BY <2>1, <2>5 DEF AttemptsInv, AttemptOK, OwnedBy, Kept
      <4> QED
        BY <1>0, <3>5, <4>1 DEF Crash, Goto, RunnersInv
    <3> QED
      BY <2>5, <3>1, <3>2, <3>3, <3>4, <3>5, AttemptEnds DEF Ends
  <2> QED
    BY <2>1, <2>3, <2>4, <2>5 DEF ProcessingIsTended, Held
<1> QED
  BY <1>1, <1>2

\* A member that somebody is about to remove was handed out before.
LEMMA DoomedGiven ==
    ASSUME Shape, NEW m, Doomed(m)
    PROVE  m \in Given(queue.sequence)
BY DEF Shape, RunnersInv, RunnerOK, CleanupInv, Doomed, Owning, Looking

\* A member becomes doomed only while its job is not PENDING: the claim that won
\* took the job, the claim that lost read it back, the clean-up is of a job that
\* was cancelled.
LEMMA DoomedGrows ==
    ASSUME Shape, AttemptsInv, [Next]_vars, NEW m, Doomed(m)', ~Doomed(m)
    PROVE  m.job_id \in Jobs => jobs'[m.job_id].status # "pending"
<1> DEFINE k == m.job_id
           G == k \in Jobs => jobs'[k].status # "pending"
<1>0. RowsInv /\ RunnersInv /\ CleanupInv /\ QueueOK(queue)
  BY DEF Shape
<1>1. ASSUME NEW w \in Workers, pc'[w] \in {"claimed", "discarding"}, cand'[w] = m PROVE G
  <2>0. ~(pc[w] \in {"claimed", "discarding"} /\ cand[w] = m)
    BY DEF Doomed
  <2>1. ASSUME Claim(w) PROVE G
    <3>1. cand' = cand
      BY <2>1 DEF Claim
    <3>2. cand[w] = m
      BY <1>1, <3>1
    <3> QED
      BY <1>0, <2>1, <3>2, ClaimRow
  <2>2. ASSUME ReadBack(w) PROVE G
    <3>1. pc'[w] # "idle"
      BY <1>1
    <3>2. ~Claimable(jobs[cand[w].job_id]) /\ cand' = cand /\ jobs' = jobs
      BY <1>0, <2>2, <3>1 DEF ReadBack, Leave, Goto, RunnersInv, rows
    <3>3. k \in Jobs => ~Claimable(jobs'[k])
      BY <1>1, <3>2
    <3>4. ASSUME k \in Jobs, jobs'[k].status = "pending" PROVE Claimable(jobs'[k])
      BY <1>0, <3>2, <3>4 DEF Claimable, RowsInv, RowOK
    <3> QED
      BY <3>3, <3>4
  <2>3. ASSUME pc' = pc, cand' = cand PROVE FALSE
    BY <1>1, <2>0, <2>3
  <2>4. ASSUME NEW v \in Workers, NEW p, NEW c, v # w, pc' = [pc EXCEPT ![v] = p],
               cand' = [cand EXCEPT ![v] = c]
        PROVE  FALSE
    BY <1>0, <1>1, <2>0, <2>4 DEF RunnersInv
  <2>5. ASSUME NEW p \in Stages \ {"claimed", "discarding"}, pc' = [pc EXCEPT ![w] = p]
        PROVE  FALSE
    BY <1>0, <1>1, <2>5 DEF RunnersInv
  <2>6. \A v \in Workers : cand' = cand => cand' = [cand EXCEPT ![v] = cand[v]]
    BY <1>0 DEF RunnersInv
  <2>7. ASSUME NEW v \in Workers, v # w, QuietRunner(v) \/ Claim(v) PROVE FALSE
    BY <2>4, <2>6, <2>7 DEF QuietRunner, Peek, CheckStop, Claim, ClaimMatchesNothing, ReadBack,
         Discard, DropEntry, DropEntryFails, HandlerEnds, Abandon, SettleFails, Exit, Crash,
         Leave, Goto
  <2>8. ASSUME QuietRunner(w), ~ReadBack(w) PROVE FALSE
    BY <2>5, <2>8 DEF QuietRunner, Peek, CheckStop, ClaimMatchesNothing,
         Discard, DropEntry, DropEntryFails, HandlerEnds, Abandon, SettleFails, Exit, Crash,
         Leave, Goto, Stages
  <2>9. ASSUME RowStep, ~\E v \in Workers : Claim(v) PROVE FALSE
    <3>1. ASSUME NEW v \in Workers, SettleSuccess(v) \/ SettleFailure(v) PROVE FALSE
      BY <2>4, <2>5, <3>1 DEF SettleSuccess, SettleFailure, Leave, Goto, Stages
    <3>2. ASSUME ~\E v \in Workers : SettleSuccess(v) \/ SettleFailure(v)
          PROVE  pc' = pc /\ cand' = cand
      BY <2>9, <3>2 DEF RowStep, SubmitJob, RetryJob, CancelJob, DueArrives, LeaseExpires, Beat,
                        Activate, Recover, runner
    <3> QED
      BY <2>3, <3>1, <3>2
  <2>10. ASSUME Telling PROVE pc' = pc /\ cand' = cand
    BY <2>10 DEF Telling, ApiPublish, ApiPublishFails, CancelLookUp, CancelRemove,
                 CancelCleanupFails, PublishActivated, PublishActivatedFails, runner
  <2>11. ASSUME (\E v \in Workers : RequestStop(v)) \/ UNCHANGED vars
         PROVE  pc' = pc /\ cand' = cand
    BY <2>11 DEF RequestStop, vars, runner
  <2> HIDE DEF G
  <2>12. ASSUME NEW v \in Workers, QuietRunner(v) \/ Claim(v) PROVE G
    BY <2>1, <2>2, <2>7, <2>8, <2>12
  <2> QED
    BY <2>3, <2>9, <2>10, <2>11, <2>12, StepKinds
<1>2. ASSUME NEW j \in Jobs, clean'[j] = "remove", found'[j] = m PROVE G
  <2>1. CleanupInv'
    BY CleanupKept
  <2>2. jobs'[j].status = "cancelled" /\ k = j
    BY <1>2, <2>1 DEF CleanupInv
  <2> QED
    BY <2>2
<1> QED
  BY <1>1, <1>2 DEF Doomed

\* A publication makes its job visible by an entry that nobody knows yet.
LEMMA PublishShows ==
    ASSUME Shape, AttemptsInv, [Next]_vars, NEW j \in Jobs, jobs'[j].status = "pending",
           queue' = Enqueued(queue, j, entry_score(Priority[j]))
    PROVE  \E e \in queue'.ready : e.member.job_id = j /\ ~Doomed(e.member)'
<1> DEFINE s == entry_score(Priority[j])
<1>1. s \in 0..MAX_PRIORITY
  BY Constants, ScoreType
<1>2. queue' = Enqueued(queue, j, s)
  OBVIOUS
<1>3. QueueOK(queue) /\ queue.sequence \in Nat
  BY DEF Shape, QueueOK
<1> HIDE DEF s
<1>4. PICK e \in queue'.ready : /\ e.member.job_id = j
                                /\ e.member.sequence = queue.sequence + 1
  BY <1>1, <1>2, <1>3, EnqueuedOK
<1>5. e.member \notin Given(queue.sequence)
  BY <1>3, <1>4 DEF Given
<1>6. ~Doomed(e.member)
  BY <1>5, DoomedGiven
<1>7. ~Doomed(e.member)'
  BY <1>4, <1>6, DoomedGrows
<1> QED
  BY <1>4, <1>7

\* An entry that nobody is about to remove stays or is replaced by such a one.
LEMMA SafeEntryStays ==
    ASSUME Shape, AttemptsInv, [Next]_vars, NEW j \in Jobs, jobs'[j].status = "pending",
           NEW e \in queue.ready, e.member.job_id = j, ~Doomed(e.member)
    PROVE  \E f \in queue'.ready : f.member.job_id = j /\ ~Doomed(f.member)'
<1>0. QueueOK(queue)
  BY DEF Shape
<1>1. ~Doomed(e.member)'
  BY DoomedGrows
<1>2. CASE queue' = queue
  BY <1>1, <1>2
<1>3. ASSUME NEW k \in Jobs, queue' = Enqueued(queue, k, entry_score(Priority[k]))
      PROVE  \E f \in queue'.ready : f.member.job_id = j /\ ~Doomed(f.member)'
  <2>1. CASE k = j
    BY <1>3, <2>1, PublishShows
  <2>2. CASE k # j
    <3> DEFINE s == entry_score(Priority[k])
    <3>1. s \in 0..MAX_PRIORITY
      BY Constants, ScoreType
    <3>2. queue' = Enqueued(queue, k, s)
      BY <1>3
    <3> HIDE DEF s
    <3>3. e \in queue'.ready
      BY <1>0, <2>2, <3>1, <3>2, EnqueuedOK
    <3> QED
      BY <1>1, <3>3
  <2> QED
    BY <2>1, <2>2
<1>4. ASSUME NEW m \in Given(queue.sequence), Doomed(m), queue' = Removed(queue, m)
      PROVE  e \in queue'.ready
  <2>1. e.member # m
    BY <1>4
  <2> QED
    BY <1>0, <1>4, <2>1, RemovedOK
<1> QED
  BY <1>1, <1>2, <1>3, <1>4, QueueStep

\* The steps that tell Redis, or fail to.
TellsRedis ==
    \/ \E k \in Jobs : ApiPublish(k) \/ ApiPublishFails(k)
    \/ \E w \in Workers, k \in Jobs : PublishActivated(w, k) \/ PublishActivatedFails(w, k)

\* Any other step only adds to the publications under way and to the lost ones,
\* except that a crash loses the batch of its scheduler.
LEMMA PublicationsStay ==
    ASSUME Shape, [Next]_vars, ~TellsRedis, NEW j \in Jobs
    PROVE  /\ pubs[j] > 0 => pubs'[j] > 0
           /\ \A w \in Workers : j \in batch[w] => j \in batch'[w] \/ j \in lost'
           /\ j \in lost => j \in lost'
<1>0. RestInv
  BY DEF Shape
<1> DEFINE A == pubs[j] > 0 => pubs'[j] > 0
           B == \A w \in Workers : j \in batch[w] => j \in batch'[w] \/ j \in lost'
           C == j \in lost => j \in lost'
<1>1. ASSUME NEW w \in Workers, QuietRunner(w) PROVE A /\ B /\ C
  <2>1. CASE Crash(w)
    BY <1>0, <2>1 DEF Crash, RestInv, api
  <2>2. CASE ~Crash(w)
    BY <1>1, <2>2 DEF QuietRunner, Peek, CheckStop, ClaimMatchesNothing, ReadBack, Discard,
          DropEntry, DropEntryFails, HandlerEnds, Abandon, SettleFails, Exit, history, api
  <2> QED
    BY <2>1, <2>2
<1>2. ASSUME RowStep PROVE A /\ B /\ C
  <2>1. ASSUME NEW k \in Jobs, NEW when \in {NULL, LATER}, SubmitJob(k, when) PROVE A /\ B /\ C
    <3>1. batch' = batch /\ lost' = lost
      BY <2>1 DEF SubmitJob, history
    <3>2. pubs' = [pubs EXCEPT ![k] = pubs[k] + 1] \/ pubs' = [pubs EXCEPT ![k] = pubs[k]]
      BY <2>1 DEF SubmitJob
    <3> QED
      BY <1>0, <3>1, <3>2 DEF RestInv
  <2>2. ASSUME NEW k \in Jobs, RetryJob(k) PROVE A /\ B /\ C
    BY <1>0, <2>2 DEF RetryJob, RestInv, history
  <2>3. ASSUME NEW w \in Workers, NEW S \in SUBSET Jobs, Activate(w, S) PROVE A /\ B /\ C
    BY <1>0, <2>3 DEF Activate, RestInv, history, api
  <2>4. ASSUME \/ \E k \in Jobs : CancelJob(k) \/ DueArrives(k) \/ LeaseExpires(k)
               \/ \E w \in Workers : Claim(w) \/ Beat(w) \/ SettleSuccess(w) \/ SettleFailure(w)
               \/ \E w \in Workers, S \in SUBSET Jobs : Recover(w, S)
        PROVE  A /\ B /\ C
    BY <2>4 DEF CancelJob, DueArrives, LeaseExpires, Claim, Beat, SettleSuccess, SettleFailure,
                Recover, history, api
  <2> HIDE DEF A, B, C
  <2> QED
    BY <1>2, <2>1, <2>2, <2>3, <2>4 DEF RowStep
<1>3. ASSUME NEW k \in Jobs, CancelLookUp(k) \/ CancelRemove(k) \/ CancelCleanupFails(k)
      PROVE  A /\ B /\ C
  BY <1>3 DEF CancelLookUp, CancelRemove, CancelCleanupFails, history
<1>4. ASSUME (\E v \in Workers : RequestStop(v)) \/ UNCHANGED vars PROVE A /\ B /\ C
  BY <1>4 DEF RequestStop, vars, history, api
<1> HIDE DEF A, B, C
<1>5. A /\ B /\ C
  BY <1>1, <1>2, <1>3, <1>4, StepKinds DEF Telling, TellsRedis
<1> QED
  BY <1>5 DEF A, B, C

\* A job becomes PENDING together with the promise to publish it.
LEMMA NewlyPending ==
    ASSUME Shape, AttemptsInv, [Next]_vars, NEW j \in Jobs,
           jobs'[j].status = "pending", jobs[j].status # "pending"
    PROVE  pubs'[j] > 0 \/ \E w \in Workers : j \in batch'[w]
<1>0. RowsInv /\ RunnersInv /\ RestInv
  BY DEF Shape
<1> DEFINE G == pubs'[j] > 0 \/ \E w \in Workers : j \in batch'[w]
<1>1. ASSUME NEW k \in Jobs, NEW when \in {NULL, LATER}, SubmitJob(k, when) PROVE G
  <2>1. k = j
    BY <1>0, <1>1, SubmitRow
  <2>2. pubs' = [pubs EXCEPT ![j] = pubs[j] + 1]
    BY <1>1, <2>1 DEF SubmitJob
  <2> QED
    BY <1>0, <2>2 DEF RestInv
<1>2. ASSUME NEW k \in Jobs, RetryJob(k) PROVE G
  <2>1. k = j
    BY <1>0, <1>2, RetryRow
  <2> QED
    BY <1>0, <1>2, <2>1 DEF RetryJob, RestInv
<1>3. ASSUME NEW w \in Workers, NEW S \in SUBSET Jobs, Activate(w, S) PROVE G
  <2>1. j \in S
    BY <1>0, <1>3, ActivateRows
  <2> QED
    BY <1>0, <1>3, <2>1 DEF Activate, RestInv
<1>4. ASSUME NEW k \in Jobs, CancelJob(k) PROVE FALSE
  BY <1>0, <1>4, CancelRow
<1>5. ASSUME NEW w \in Workers, Claim(w) PROVE FALSE
  BY <1>0, <1>5, ClaimRow
<1>6. ASSUME NEW w \in Workers, SettleSuccess(w) \/ SettleFailure(w) PROVE FALSE
  <2>1. AttemptOK(w)
    BY DEF AttemptsInv
  <2>2. CASE j = att[w].job_id
    BY <1>0, <1>6, <2>1, <2>2, SettleRow
  <2>3. CASE j # att[w].job_id
    BY <1>0, <1>6, <2>1, <2>3, SettleRow
  <2> QED
    BY <2>2, <2>3
<1>7. ASSUME NEW w \in Workers, NEW S \in SUBSET Jobs, Recover(w, S) PROVE FALSE
  BY <1>0, <1>7, RecoverRows
<1>8. ASSUME \/ \E w \in Workers : Beat(w)
             \/ \E k \in Jobs : DueArrives(k) \/ LeaseExpires(k)
      PROVE  FALSE
  BY <1>0, <1>8, TimeRow DEF Kept
<1>9. RowStep
  BY RowsUntouched DEF rows
<1> HIDE DEF G
<1>10. G
  BY <1>1, <1>2, <1>3, <1>4, <1>5, <1>6, <1>7, <1>8, <1>9 DEF RowStep
<1> QED
  BY <1>10 DEF G

LEMMA VisibleKept ==
    ASSUME Shape, AttemptsInv, SafelyVisible, [Next]_vars
    PROVE  SafelyVisible'
<1> SUFFICES ASSUME NEW j \in Jobs, jobs'[j].status = "pending"
             PROVE  \/ \E e \in queue'.ready : e.member.job_id = j /\ ~Doomed(e.member)'
                    \/ pubs'[j] > 0
                    \/ \E w \in Workers : j \in batch'[w]
                    \/ j \in lost'
  BY DEF SafelyVisible
<1> DEFINE Shown == \E e \in queue'.ready : e.member.job_id = j /\ ~Doomed(e.member)'
           Promised == \/ pubs'[j] > 0
                       \/ \E w \in Workers : j \in batch'[w]
                       \/ j \in lost'
<1>0. RestInv
  BY DEF Shape
<1>1. CASE jobs[j].status # "pending"
  BY <1>1, NewlyPending
<1>2. ASSUME NEW e \in queue.ready, e.member.job_id = j, ~Doomed(e.member) PROVE Shown
  BY <1>2, SafeEntryStays
<1>3. ASSUME pubs[j] > 0 \/ (\E w \in Workers : j \in batch[w]) \/ j \in lost
      PROVE  Shown \/ Promised
  <2>1. CASE ~TellsRedis
    BY <1>3, <2>1, PublicationsStay
  <2>2. ASSUME NEW k \in Jobs, ApiPublish(k) PROVE Shown \/ Promised
    <3>1. CASE k = j
      <4>1. queue' = Enqueued(queue, j, entry_score(Priority[j]))
        BY <2>2, <3>1 DEF ApiPublish, Publish
      <4> QED
        BY <4>1, PublishShows
    <3>2. CASE k # j
      BY <1>0, <1>3, <2>2, <3>2 DEF ApiPublish, Publish, RestInv
    <3> QED
      BY <3>1, <3>2
  <2>3. ASSUME NEW k \in Jobs, ApiPublishFails(k) PROVE Promised
    BY <1>0, <1>3, <2>3 DEF ApiPublishFails, RestInv
  <2>4. ASSUME NEW w \in Workers, NEW k \in Jobs, PublishActivated(w, k) PROVE Shown \/ Promised
    <3>1. CASE k = j
      <4>1. queue' = Enqueued(queue, j, entry_score(Priority[j]))
        BY <2>4, <3>1 DEF PublishActivated, Publish
      <4> QED
        BY <4>1, PublishShows
    <3>2. CASE k # j
      BY <1>0, <1>3, <2>4, <3>2 DEF PublishActivated, Publish, RestInv, api
    <3> QED
      BY <3>1, <3>2
  <2>5. ASSUME NEW w \in Workers, NEW k \in Jobs, PublishActivatedFails(w, k) PROVE Promised
    BY <1>0, <1>3, <2>5 DEF PublishActivatedFails, RestInv, api
  <2> HIDE DEF Shown, Promised
  <2> QED
    BY <2>1, <2>2, <2>3, <2>4, <2>5 DEF TellsRedis
<1> QED
  BY <1>1, <1>2, <1>3 DEF SafelyVisible

-----------------------------------------------------------------------------
(* The theorems. *)

LEMMA InitInv ==
    ASSUME Init
    PROVE  Inv
<1>1. RowsInv
  BY NoRowOK DEF Init, RowsInv
<1>2. QueueOK(queue)
  <2>1. queue.sequence = 0 /\ queue.ready = {} /\ queue.entries = [j \in Jobs |-> NoEntry]
    BY DEF Init, EmptyQueue
  <2> QED
    BY <2>1 DEF QueueOK
<1>3. RunnersInv
  BY DEF Init, RunnersInv, RunnerOK, Stages, Owning, Looking
<1>4. CleanupInv
  BY DEF Init, CleanupInv
<1>5. RestInv
  BY Constants DEF Init, RestInv
<1>6. AttemptsInv
  BY DEF Init, AttemptsInv, AttemptOK
<1>7. \A j \in Jobs : jobs[j].status = "absent" /\ jobs[j].attempt_count = 0
  BY DEF Init, NoRow
<1>8. SafelyVisible /\ ProcessingIsTended
  BY <1>7 DEF SafelyVisible, ProcessingIsTended
<1>9. MintInv
  BY <1>7, Constants DEF Init, MintInv
<1> QED
  BY <1>1, <1>2, <1>3, <1>4, <1>5, <1>6, <1>8, <1>9 DEF Inv, Shape

LEMMA NextInv ==
    ASSUME Inv, [Next]_vars
    PROVE  Inv'
BY ShapeKept, AttemptsKept, VisibleKept, TendedKept, MintKept DEF Inv

\* The invariant, which every step of every process keeps.
THEOREM Invariance == Spec => []Inv
<1>1. Init => Inv
  BY InitInv
<1>2. Inv /\ [Next]_vars => Inv'
  BY NextInv
<1> QED
  BY <1>1, <1>2, PTL DEF Spec

\* Every variable keeps its type; run_once never reads its candidate or its
\* attempt unset, and no runner or clean-up removes a member that Redis did not
\* hand out.
THEOREM TypeCorrect == Spec => []TypeOK
<1>1. Inv => TypeOK
  <2> SUFFICES ASSUME Inv PROVE TypeOK
    OBVIOUS
  <2>1. RowsInv /\ QueueOK(queue) /\ RunnersInv /\ CleanupInv /\ RestInv
    BY DEF Inv, Shape
  <2>2. /\ queue.sequence \in Nat
        /\ queue.ready \subseteq [member : [sequence : 1..queue.sequence, job_id : Jobs],
                                  score : 0..MAX_PRIORITY]
        /\ queue.entries \in [Jobs -> [sequence : 1..queue.sequence, job_id : Jobs]
                                        \union {NoEntry}]
    BY <2>1 DEF QueueOK, Given
  <2>3. \A w \in Workers :
         /\ IF pc[w] \in Owning THEN att[w] \in Attempts ELSE att[w] = NULL
         /\ IF pc[w] \in Owning \union Looking
            THEN cand[w] \in [sequence : 1..queue.sequence, job_id : Jobs]
            ELSE cand[w] = NoEntry
    BY <2>1 DEF RunnersInv, RunnerOK, Given
  <2>4. \A j \in Jobs :
         IF clean[j] = "remove"
         THEN found[j] \in [sequence : 1..queue.sequence, job_id : {j}] ELSE TRUE
    BY <2>1 DEF CleanupInv, Given
  <2> QED
    BY <2>1, <2>2, <2>3, <2>4 DEF TypeOK, RowsInv, RunnersInv, CleanupInv, RestInv
<1> QED
  BY <1>1, Invariance, PTL

\* A PENDING job is in the queue, about to be published, or its publication
\* failed: no late ZREM of a runner or of a cancellation takes the entry of a job
\* that is runnable again, however claims, read-backs, cancellations, retries
\* and publications interleave.
THEOREM VisibleTheorem == Spec => []PendingIsVisible
<1>1. Inv => PendingIsVisible
  BY DEF Inv, SafelyVisible, PendingIsVisible
<1> QED
  BY <1>1, Invariance, PTL

\* A PROCESSING row is held by the runner whose token is on it, unless that
\* process crashed or an error of a store made the runner give up.
THEOREM TendedTheorem == Spec => []ProcessingIsTended
<1>1. Inv => ProcessingIsTended
  BY DEF Inv
<1> QED
  BY <1>1, Invariance, PTL

-----------------------------------------------------------------------------
(* Ownership among the processes, and what holds while nothing fails. *)

\* A row names one worker, and a runner has one attempt: no two own the row.
LEMMA OneOwner ==
    ASSUME Inv, NEW w \in Workers, NEW v \in Workers, NEW j \in Jobs,
           att[w] # NULL, OwnedBy(jobs[j], att[w]),
           att[v] # NULL, OwnedBy(jobs[j], att[v])
    PROVE  w = v
<1>1. AttemptOK(w) /\ AttemptOK(v)
  BY DEF Inv, AttemptsInv
<1> QED
  BY <1>1 DEF AttemptOK, OwnedBy

\* The writers of rows, with the two ways a lease runs out told apart.
LEMMA RowWriters ==
    ASSUME [Next]_vars
    PROVE  \/ \E j \in Jobs, when \in {NULL, LATER} : SubmitJob(j, when)
           \/ \E j \in Jobs : RetryJob(j) \/ CancelJob(j) \/ DueArrives(j)
           \/ \E j \in Jobs : LeaseRunsOut(j) \/ LeaseMissed(j)
           \/ \E w \in Workers : Claim(w) \/ Beat(w) \/ SettleSuccess(w) \/ SettleFailure(w)
           \/ \E w \in Workers, S \in SUBSET Jobs : Activate(w, S) \/ Recover(w, S)
           \/ UNCHANGED rows
<1>1. ASSUME NEW w \in Workers, RunnerStep(w)
      PROVE  Claim(w) \/ SettleSuccess(w) \/ SettleFailure(w) \/ UNCHANGED rows
  BY <1>1 DEF RunnerStep, Peek, CheckStop, ClaimMatchesNothing, ReadBack, Discard, DropEntry,
              HandlerEnds, Abandon, Exit
<1>2. ASSUME NEW w \in Workers, SchedulerStep(w) \/ RecoveryStep(w)
      PROVE  (\E S \in SUBSET Jobs : Activate(w, S) \/ Recover(w, S)) \/ UNCHANGED rows
  BY <1>2 DEF SchedulerStep, RecoveryStep, PublishActivated
<1>3. ASSUME NEW j \in Jobs, ApiPublish(j) \/ CleanupStep(j) PROVE UNCHANGED rows
  BY <1>3 DEF ApiPublish, CleanupStep, CancelLookUp, CancelRemove
<1>4. ASSUME (\E w \in Workers : RequestStop(w)) \/ UNCHANGED vars PROVE UNCHANGED rows
  BY <1>4 DEF RequestStop, vars
<1>5. ASSUME Failures PROVE (\E j \in Jobs : LeaseMissed(j)) \/ UNCHANGED rows
  BY <1>5 DEF Failures, ApiPublishFails, CancelCleanupFails, DropEntryFails, SettleFails, Crash,
              PublishActivatedFails
<1> QED
  BY <1>1, <1>2, <1>3, <1>4, <1>5 DEF Next

\* What a step may do to a row that runs.
RunningMoves(j) ==
    \/ jobs'[j] = jobs[j]
    \/ jobs'[j].status = "processing" /\ jobs'[j].lease_expires_at = LIVE
    \/ (LeaseRunsOut(j) \/ LeaseMissed(j)) /\ jobs'[j].status = "processing"
    \/ \E w \in Workers : /\ att[w] # NULL /\ att[w].job_id = j /\ OwnedBy(jobs[j], att[w])
                          /\ SettleSuccess(w) \/ SettleFailure(w)
    \/ Expired(jobs[j])

LEMMA RunningRow ==
    ASSUME Inv, [Next]_vars, NEW j \in Jobs, jobs[j].status = "processing"
    PROVE  RunningMoves(j)
<1>0. RowsInv /\ RunnersInv /\ jobs \in [Jobs -> Rows]
  BY DEF Inv, Shape, RowsInv
<1>1. ASSUME jobs'[j] = jobs[j] PROVE RunningMoves(j)
  BY <1>1 DEF RunningMoves
<1>2. ASSUME NEW k \in Jobs, NEW when \in {NULL, LATER}, SubmitJob(k, when) PROVE jobs'[j] = jobs[j]
  BY <1>0, <1>2, SubmitRow
<1>3. ASSUME NEW k \in Jobs, RetryJob(k) PROVE jobs'[j] = jobs[j]
  BY <1>0, <1>3, RetryRow
<1>4. ASSUME NEW k \in Jobs, CancelJob(k) PROVE jobs'[j] = jobs[j]
  BY <1>0, <1>4, CancelRow
<1>5. ASSUME NEW k \in Jobs, DueArrives(k) PROVE jobs'[j] = jobs[j]
  BY <1>0, <1>5 DEF DueArrives
<1>6. ASSUME NEW k \in Jobs, LeaseRunsOut(k) \/ LeaseMissed(k) PROVE RunningMoves(j)
  <2>1. LeaseExpires(k)
    BY <1>6 DEF LeaseRunsOut, LeaseMissed
  <2>2. CASE k = j
    <3>1. jobs'[j].status = "processing"
      BY <1>0, <2>1, TimeRow DEF Kept
    <3> QED
      BY <1>6, <2>2, <3>1 DEF RunningMoves
  <2>3. CASE k # j
    BY <1>0, <1>1, <2>1, <2>3 DEF LeaseExpires
  <2> QED
    BY <2>2, <2>3
<1>7. ASSUME NEW w \in Workers, Claim(w) PROVE jobs'[j] = jobs[j]
  BY <1>0, <1>7, ClaimRow
<1>8. ASSUME NEW w \in Workers, Beat(w) PROVE RunningMoves(j)
  <2>1. jobs' = [jobs EXCEPT ![att[w].job_id] = LeaseExtended(@, LIVE)]
    BY <1>8 DEF Beat
  <2>2. CASE att[w].job_id = j
    <3>1. jobs'[j] = LeaseExtended(jobs[j], LIVE) /\ jobs[j] \in Rows
      BY <1>0, <2>1, <2>2
    <3>2. jobs'[j].lease_expires_at = LIVE /\ jobs'[j].status = jobs[j].status
      BY <3>1 DEF LeaseExtended, Rows
    <3> QED
      BY <3>2 DEF RunningMoves
  <2>3. CASE att[w].job_id # j
    BY <1>0, <1>1, <2>1, <2>3
  <2> QED
    BY <2>2, <2>3
<1>9. ASSUME NEW w \in Workers, SettleSuccess(w) \/ SettleFailure(w) PROVE RunningMoves(j)
  <2>1. AttemptOK(w)
    BY DEF Inv, AttemptsInv
  <2>2. CASE jobs'[j] = jobs[j]
    BY <1>1, <2>2
  <2>3. CASE jobs'[j] # jobs[j]
    <3>1. att[w].job_id = j
      BY <1>0, <1>9, <2>1, <2>3, SettleRow
    <3>2. att[w] # NULL
      BY <1>0, <1>9, Constants DEF SettleSuccess, SettleFailure, At, RunnersInv, RunnerOK, Owning
    <3>3. OwnedBy(jobs[j], att[w])
      BY <1>9, <2>3, <3>1 DEF SettleSuccess, SettleFailure, Row, FailureApplies
    <3> QED
      BY <1>9, <3>1, <3>2, <3>3 DEF RunningMoves
  <2> QED
    BY <2>2, <2>3
<1>10. ASSUME NEW w \in Workers, NEW S \in SUBSET Jobs, Activate(w, S) PROVE jobs'[j] = jobs[j]
  BY <1>0, <1>10, ActivateRows
<1>11. ASSUME NEW w \in Workers, NEW S \in SUBSET Jobs, Recover(w, S) PROVE RunningMoves(j)
  <2>1. CASE j \in S
    BY <1>11, <2>1 DEF Recover, RunningMoves
  <2>2. CASE j \notin S
    BY <1>0, <1>1, <1>11, <2>2, RecoverRows
  <2> QED
    BY <2>1, <2>2
<1>12. ASSUME UNCHANGED rows PROVE jobs'[j] = jobs[j]
  BY <1>12 DEF rows
<1> QED
  BY <1>1, <1>2, <1>3, <1>4, <1>5, <1>6, <1>7, <1>8, <1>9, <1>10, <1>11, <1>12, RowWriters

\* A row that stops running had an expired lease, or is settled by its owner,
\* whose attempt ends with that.
LeftByOwner ==
    \A j \in Jobs :
        jobs[j].status = "processing" /\ jobs'[j].status # "processing" =>
            \/ Expired(jobs[j])
            \/ \E w \in Workers : /\ att[w] # NULL /\ att[w].job_id = j
                                  /\ OwnedBy(jobs[j], att[w])
                                  /\ att'[w] = NULL

\* No cancellation, retry, claim or late write of another runner takes a job
\* from an owner whose lease is live: only its own settling, or a recovery sweep
\* after the lease expired, ends an attempt in the table.
THEOREM LeftByOwnerTheorem == Spec => [][LeftByOwner]_vars
<1>1. ASSUME Inv, [Next]_vars PROVE LeftByOwner
  <2> SUFFICES ASSUME NEW j \in Jobs, jobs[j].status = "processing",
                      jobs'[j].status # "processing"
               PROVE  \/ Expired(jobs[j])
                      \/ \E w \in Workers : /\ att[w] # NULL /\ att[w].job_id = j
                                            /\ OwnedBy(jobs[j], att[w])
                                            /\ att'[w] = NULL
    BY DEF LeftByOwner
  <2>1. RunningMoves(j)
    BY <1>1, RunningRow
  <2>2. ASSUME NEW w \in Workers, SettleSuccess(w) \/ SettleFailure(w) PROVE att'[w] = NULL
    BY <1>1, <2>2 DEF SettleSuccess, SettleFailure, Leave, Inv, Shape, RunnersInv
  <2> QED
    BY <2>1, <2>2 DEF RunningMoves
<1>2. Inv /\ [Next]_vars => [LeftByOwner]_vars
  BY <1>1
<1> QED
  BY <1>2, Invariance, PTL DEF Spec

\* While no fault has happened: no publication is missing, no process is dead,
\* every runner owns the job it works on, and no lease has run out.
Undisturbed ==
    /\ lost = {} /\ orphaned = {}
    /\ \A w \in Workers : pc[w] # "down"
    /\ \A w \in Workers : att[w] # NULL => OwnedBy(Row(w), att[w])
    /\ \A j \in Jobs : jobs[j].status = "processing" => jobs[j].lease_expires_at = LIVE

\* Only a fault loses a publication, gives a job up or takes a process down.
LEMMA FaultlessStep ==
    ASSUME Shape, [Next]_vars, ~Fault
    PROVE  /\ lost' \subseteq lost /\ orphaned' \subseteq orphaned
           /\ \A w \in Workers : pc[w] # "down" => pc'[w] # "down"
<1>0. pc \in [Workers -> Stages]
  BY DEF Shape, RunnersInv
<1> DEFINE Alive == \A w \in Workers : pc[w] # "down" => pc'[w] # "down"
           G == lost' \subseteq lost /\ orphaned' \subseteq orphaned /\ Alive
<1>1. ASSUME NEW v \in Workers, NEW p, pc' = [pc EXCEPT ![v] = p], p # "down"
      PROVE  Alive
  BY <1>0, <1>1
<1> HIDE DEF Alive
<1>2. ASSUME NEW v \in Workers, RunnerStep(v) PROVE Alive
  BY <1>1, <1>2 DEF RunnerStep, Peek, CheckStop, Claim, ClaimMatchesNothing, ReadBack, Discard,
       DropEntry, HandlerEnds, Abandon, SettleSuccess, SettleFailure, Exit, Leave, Goto
<1>3. ASSUME NEW v \in Workers, RunnerStep(v) PROVE lost' = lost /\ orphaned' = orphaned
  BY <1>3 DEF RunnerStep, Peek, CheckStop, Claim, ClaimMatchesNothing, ReadBack, Discard,
       DropEntry, HandlerEnds, Abandon, SettleSuccess, SettleFailure, Exit, history
<1>a. ASSUME pc' = pc PROVE Alive
  BY <1>a DEF Alive
<1>4. ASSUME NEW v \in Workers, SchedulerStep(v) \/ RecoveryStep(v) \/ Beat(v) \/ RequestStop(v)
      PROVE  G
  BY <1>4, <1>a DEF SchedulerStep, RecoveryStep, Activate, PublishActivated, Publish, Recover, Beat,
              RequestStop, history, runner
<1>5. ASSUME NEW j \in Jobs, \/ \E when \in {NULL, LATER} : SubmitJob(j, when)
                             \/ RetryJob(j) \/ CancelJob(j) \/ ApiPublish(j) \/ CleanupStep(j)
                             \/ DueArrives(j) \/ LeaseRunsOut(j)
      PROVE  G
  BY <1>5, <1>a DEF SubmitJob, RetryJob, CancelJob, ApiPublish, Publish, CleanupStep, CancelLookUp,
              CancelRemove, DueArrives, LeaseRunsOut, LeaseExpires, history, runner
<1>6. ~Failures
  BY DEF Failures, ApiPublishFails, CancelCleanupFails, LeaseMissed, DropEntryFails,
         SettleFails, Crash, PublishActivatedFails
<1>7. CASE UNCHANGED vars
  BY <1>7, <1>a DEF vars, history, runner
<1> QED
  BY <1>2, <1>3, <1>4, <1>5, <1>6, <1>7 DEF Next, Alive

LEMMA UndisturbedKept ==
    ASSUME Inv, Undisturbed, [Next]_vars, ~Fault
    PROVE  Undisturbed'
<1>0. /\ Shape /\ RowsInv /\ RunnersInv /\ AttemptsInv /\ ProcessingIsTended
      /\ att \in [Workers -> Attempts \union {NULL}]
  BY DEF Inv, Shape, RunnersInv
<1>1. \A w \in Workers : pc'[w] # "down"
  BY <1>0, FaultlessStep DEF Undisturbed
<1>2. ASSUME NEW j \in Jobs, jobs[j].status = "processing" PROVE Held(j)
  <2>1. jobs[j].worker_id \in Workers
    BY <1>0, <1>2 DEF RowsInv, RowOK
  <2> QED
    BY <1>0, <1>2, <2>1 DEF Undisturbed, ProcessingIsTended
<1>3. ASSUME NEW j \in Jobs, jobs[j].status = "processing"
      PROVE  ~Expired(jobs[j]) /\ ~LeaseRunsOut(j) /\ ~LeaseMissed(j)
  BY <1>2, <1>3 DEF Undisturbed, Expired, LIVE, EXPIRED, LeaseRunsOut, LeaseMissed
<1>4. ASSUME NEW j \in Jobs, jobs'[j].status = "processing"
      PROVE  jobs'[j].lease_expires_at = LIVE
  <2>1. CASE jobs[j].status = "processing"
    <3>1. RunningMoves(j)
      BY <2>1, RunningRow
    <3>2. ASSUME NEW w \in Workers, att[w] # NULL, att[w].job_id = j, OwnedBy(jobs[j], att[w]),
                 SettleSuccess(w) \/ SettleFailure(w)
          PROVE  FALSE
      <4>1. AttemptOK(w)
        BY <1>0 DEF AttemptsInv
      <4> QED
        BY <1>0, <1>4, <3>2, <4>1, SettleRow
    <3> QED
      BY <1>3, <1>4, <2>1, <3>1, <3>2 DEF RunningMoves, Undisturbed
  <2>2. CASE jobs[j].status # "processing"
    <3>1. minted[j] \in Nat /\ jobs[j] \in Rows
      BY <1>0 DEF RowsInv
    <3>2. minted'[j] # minted[j]
      BY <1>0, <1>4, <2>2, <3>1, RowsMove DEF RowMoves, Kept
    <3>3. PICK w \in Workers : Claim(w) /\ cand[w].job_id = j
      BY <1>0, <3>2, MintedBy
    <3>4. jobs'[j] = Claimed(jobs[j], w, minted'[j], LIVE)
      BY <1>0, <3>3 DEF Claim, RowsInv
    <3> QED
      BY <3>1, <3>4 DEF Claimed, Rows
  <2> QED
    BY <2>1, <2>2
<1>5. ASSUME NEW w \in Workers, att'[w] # NULL PROVE OwnedBy(Row(w), att[w])'
  <2>1. CASE Claim(w)
    <3> DEFINE j == cand[w].job_id
    <3>1. /\ jobs'[j].status = "processing"
          /\ att' = [att EXCEPT ![w] = AttemptOf(j, jobs'[j])]
      BY <1>0, <2>1, ClaimRow
    <3> HIDE DEF j
    <3>2. att'[w] = AttemptOf(j, jobs'[j])
      BY <1>0, <3>1
    <3> QED
      BY <3>1, <3>2 DEF AttemptOf, OwnedBy, Row
  <2>2. CASE att'[w] = att[w]
    <3> DEFINE j == att[w].job_id
    <3>1. att[w] # NULL /\ j \in Jobs /\ OwnedBy(jobs[j], att[w])
      BY <1>0, <1>5, <2>2 DEF Undisturbed, Row, Attempts
    <3>2. jobs[j].status = "processing"
      BY <3>1 DEF OwnedBy
    <3>3. ASSUME NEW v \in Workers, att[v] # NULL, OwnedBy(jobs[j], att[v]),
                 SettleSuccess(v) \/ SettleFailure(v)
          PROVE  FALSE
      <4>1. v = w
        BY <3>1, <3>3, OneOwner
      <4> QED
        BY <1>0, <1>5, <3>3, <4>1 DEF SettleSuccess, SettleFailure, Leave
    <3>4. jobs'[j].status = "processing"
      BY <1>3, <3>1, <3>2, <3>3, RunningRow DEF RunningMoves
    <3>5. minted[j] \in Nat
      BY <1>0, <3>1 DEF RowsInv
    <3> HIDE DEF j
    <3>6. Kept(j)
      BY <1>0, <3>1, <3>2, <3>4, <3>5, RowsMove DEF RowMoves
    <3> QED
      BY <2>2, <3>1, <3>6 DEF OwnedBy, Kept, Row, j
  <2> QED
    BY <1>0, <1>5, <2>1, <2>2, AttemptMoves
<1>6. lost' = {} /\ orphaned' = {}
  BY <1>0, FaultlessStep DEF Undisturbed
<1> QED
  BY <1>1, <1>4, <1>5, <1>6 DEF Undisturbed

\* Every runner owns the job it works on, every running job is held and has a
\* live lease, and every runnable one is in the queue or about to be.
NothingInVain ==
    /\ \A w \in Workers : att[w] # NULL => OwnedBy(Row(w), att[w])
    /\ \A j \in Jobs : jobs[j].status = "processing" =>
          Held(j) /\ jobs[j].lease_expires_at = LIVE
    /\ \A j \in Jobs : jobs[j].status = "pending" =>
          \/ \E e \in queue.ready : e.member.job_id = j
          \/ pubs[j] > 0
          \/ \E w \in Workers : j \in batch[w]

\* While no fault has happened, every attempt a runner executes owns its job, so
\* no execution is in vain and no beat or settling is refused; every PROCESSING
\* row has such a runner and a live lease; and every PENDING job has its entry in
\* the queue or is about to be published.  Races alone, of claims, clean-ups,
\* retries, schedulers and drains, spoil none of this.
THEOREM FaultFreeTheorem == Spec => [](faults = 0 => NothingInVain)
<1>1. Init => (faults = 0 => Undisturbed)
  BY NoRowOK DEF Init, Undisturbed, NoRow
<1>2. Inv /\ (faults = 0 => Undisturbed) /\ [Next]_vars => (faults = 0 => Undisturbed)'
  <2> SUFFICES ASSUME Inv, faults = 0 => Undisturbed, [Next]_vars, faults' = 0
               PROVE  Undisturbed'
    OBVIOUS
  <2>1. faults \in Nat
    BY DEF Inv, Shape, RestInv
  <2>2. faults = 0 /\ ~Fault
    BY <2>1, FaultsCounted DEF Fault
  <2> QED
    BY <2>2, UndisturbedKept
<1>3. Inv /\ (faults = 0 => Undisturbed) => (faults = 0 => NothingInVain)
  <2> SUFFICES ASSUME Inv, Undisturbed PROVE NothingInVain
    OBVIOUS
  <2>1. ASSUME NEW j \in Jobs, jobs[j].status = "processing" PROVE Held(j)
    <3>1. jobs[j].worker_id \in Workers
      BY <2>1 DEF Inv, Shape, RowsInv, RowOK
    <3> QED
      BY <2>1, <3>1 DEF Inv, Undisturbed, ProcessingIsTended
  <2> QED
    BY <2>1 DEF NothingInVain, Inv, Undisturbed, SafelyVisible
<1> QED
  BY <1>1, <1>2, <1>3, Invariance, PTL DEF Spec

-----------------------------------------------------------------------------
(* The lifecycle.  An owner is a job with the number of one of its tokens. *)

Bound == MaxAttempts * (MaxRetries + 1)

\* A claim always has a token left within the bound of the mapping.
LEMMA TokenLeft ==
    ASSUME Inv, NEW j \in Jobs, jobs[j].attempt_count < MaxAttempts
    PROVE  minted[j] + 1 \in 1..Bound
<1> DEFINE b == MaxAttempts * retries
           c == MaxAttempts * MaxRetries
<1>1. /\ MaxAttempts \in Nat /\ MaxRetries \in Nat /\ retries \in 0..MaxRetries
      /\ minted[j] \in Nat /\ jobs[j].attempt_count \in Nat
      /\ minted[j] <= jobs[j].attempt_count + b
  BY Constants DEF Inv, Shape, RowsInv, Rows, RestInv, MintInv
<1>2. b \in Nat /\ c \in Nat /\ Bound = c + MaxAttempts
  BY <1>1 DEF Bound
<1>3. b <= c
  <2>1. PICK d \in Nat : MaxRetries = retries + d
    <3>1. MaxRetries - retries \in Nat /\ MaxRetries = retries + (MaxRetries - retries)
      BY <1>1
    <3> QED
      BY <3>1
  <2>2. MaxAttempts * (retries + d) = b + MaxAttempts * d /\ MaxAttempts * d \in Nat
    BY <1>1, <2>1
  <2> QED
    BY <1>1, <1>2, <2>1, <2>2
<1> HIDE DEF b, c
<1> QED
  BY <1>1, <1>2, <1>3

LEMMA StutterStep ==
    ASSUME minted' = minted,
           \A j \in Jobs : /\ PhaseOf(jobs'[j]) = PhaseOf(jobs[j])
                           /\ jobs'[j].attempt_count = jobs[j].attempt_count
                           /\ jobs'[j].execution_token = jobs[j].execution_token
    PROVE  UNCHANGED Lifecycle!vars
BY DEF Lifecycle!vars

\* The rows of S, all running, are given back.
LEMMA GiveBackStep ==
    ASSUME NEW S \in SUBSET Jobs, minted' = minted,
           \A j \in S : /\ jobs[j].status = "processing"
                        /\ jobs'[j].status = IF jobs[j].attempt_count < MaxAttempts
                                             THEN "scheduled" ELSE "failed"
                        /\ jobs'[j].attempt_count = jobs[j].attempt_count
                        /\ jobs'[j].execution_token = NULL,
           \A j \in Jobs \ S : jobs'[j] = jobs[j]
    PROVE  Lifecycle!GiveBack(S)
BY DEF Lifecycle!GiveBack, PhaseOf

LEMMA BeginStep ==
    ASSUME Inv, NEW w \in Workers, Claim(w)
    PROVE  \E j \in Jobs, o \in Jobs \X (1..Bound) : Lifecycle!Begin(j, o)
<1> DEFINE j == cand[w].job_id
           n == minted[j] + 1
<1>0. RowsInv /\ RunnersInv
  BY DEF Inv, Shape
<1>1. /\ j \in Jobs /\ jobs[j].status = "pending" /\ jobs[j].attempt_count < MaxAttempts
      /\ minted'[j] = n
      /\ jobs'[j].status = "processing"
      /\ jobs'[j].attempt_count = jobs[j].attempt_count + 1
      /\ jobs'[j].execution_token = n
      /\ \A k \in Jobs \ {j} : jobs'[k] = jobs[k] /\ minted'[k] = minted[k]
  BY <1>0, ClaimRow
<1>2. n \in 1..Bound
  BY <1>1, TokenLeft
<1>3. minted[j] \in Nat /\ n = minted[j] + 1 /\ n # NULL /\ minted \in [Jobs -> Nat]
  BY <1>0, <1>1, Constants DEF RowsInv
<1> HIDE DEF j, n
<1>4. PICK o \in Jobs \X (1..Bound) : o = <<j, n>>
  BY <1>1, <1>2
<1> DEFINE U == {p \in Jobs \X (1..Bound) : p[2] <= minted[p[1]]}
           V == {p \in Jobs \X (1..Bound) : p[2] <= minted'[p[1]]}
<1>5. o \notin U
  BY <1>1, <1>3, <1>4
<1>6. V = U \union {o}
  <2>1. ASSUME NEW p \in Jobs \X (1..Bound) PROVE p \in V <=> p \in U \/ p = o
    <3>1. p[1] \in Jobs /\ p[2] \in 1..Bound /\ p = <<p[1], p[2]>>
      OBVIOUS
    <3>0. Bound \in Int
      BY Constants DEF Bound
    <3>2. CASE p[1] = j
      BY <1>1, <1>3, <1>4, <3>0, <3>1, <3>2
    <3>3. CASE p[1] # j
      BY <1>1, <1>4, <3>1, <3>3
    <3> QED
      BY <3>2, <3>3
  <2> QED
    BY <2>1
<1>7. [k \in Jobs |-> PhaseOf(jobs'[k])]
        = [[k \in Jobs |-> PhaseOf(jobs[k])] EXCEPT ![j] = "running"]
  BY <1>1 DEF PhaseOf
<1>8. [k \in Jobs |-> jobs'[k].attempt_count]
        = [[k \in Jobs |-> jobs[k].attempt_count] EXCEPT ![j] = @ + 1]
  BY <1>1
<1>9. [k \in Jobs |-> IF jobs'[k].execution_token = NULL THEN NULL
                      ELSE <<k, jobs'[k].execution_token>>]
        = [[k \in Jobs |-> IF jobs[k].execution_token = NULL THEN NULL
                           ELSE <<k, jobs[k].execution_token>>] EXCEPT ![j] = o]
  BY <1>1, <1>3, <1>4
<1>10. PhaseOf(jobs[j]) = "waiting"
  BY <1>1 DEF PhaseOf
<1>11. Lifecycle!Begin(j, o)
  BY <1>1, <1>5, <1>6, <1>7, <1>8, <1>9, <1>10 DEF Lifecycle!Begin, Bound
<1> QED
  BY <1>1, <1>4, <1>11

LEMMA StepRefines == Inv /\ [Next]_vars => [Lifecycle!Next]_(Lifecycle!vars)
<1> SUFFICES ASSUME Inv, [Next]_vars PROVE [Lifecycle!Next]_(Lifecycle!vars)
  OBVIOUS
<1>0. RowsInv /\ RunnersInv /\ AttemptsInv
  BY DEF Inv, Shape
<1>a. \A k \in Jobs : /\ jobs[k].status # "processing" => jobs[k].execution_token = NULL
                      /\ jobs[k].status = "absent" => jobs[k].attempt_count = 0
  BY <1>0 DEF RowsInv, RowOK
<1>b. \A j \in Jobs : /\ Lifecycle!Accept(j) => Lifecycle!Next
                      /\ Lifecycle!Drop(j) => Lifecycle!Next
                      /\ Lifecycle!Restart(j) => Lifecycle!Next
                      /\ Lifecycle!Finish(j) => Lifecycle!Next
  BY DEF Lifecycle!Next
<1>c. \A S \in SUBSET Jobs : Lifecycle!GiveBack(S) => Lifecycle!Next
  BY DEF Lifecycle!Next
<1>1. ASSUME NEW j \in Jobs, NEW when \in {NULL, LATER}, SubmitJob(j, when)
      PROVE  Lifecycle!Accept(j)
  <2>1. /\ minted' = minted /\ jobs[j].status = "absent"
        /\ jobs'[j].status \in {"scheduled", "pending"}
        /\ jobs'[j].attempt_count = 0 /\ jobs'[j].execution_token = NULL
        /\ \A k \in Jobs \ {j} : jobs'[k] = jobs[k]
    BY <1>0, <1>1, SubmitRow
  <2> QED
    BY <1>a, <2>1 DEF Lifecycle!Accept, PhaseOf
<1>2. ASSUME NEW j \in Jobs, CancelJob(j) PROVE Lifecycle!Drop(j)
  <2>1. /\ minted' = minted /\ jobs[j].status \in {"scheduled", "pending"}
        /\ jobs'[j].status = "cancelled" /\ jobs'[j].attempt_count = jobs[j].attempt_count
        /\ jobs'[j].execution_token = NULL
        /\ \A k \in Jobs \ {j} : jobs'[k] = jobs[k]
    BY <1>0, <1>2, CancelRow
  <2> QED
    BY <1>a, <2>1 DEF Lifecycle!Drop, PhaseOf
<1>3. ASSUME NEW j \in Jobs, RetryJob(j) PROVE Lifecycle!Restart(j)
  <2>1. /\ minted' = minted /\ jobs[j].status = "failed"
        /\ jobs'[j].status = "pending" /\ jobs'[j].attempt_count = 0
        /\ jobs'[j].execution_token = NULL
        /\ \A k \in Jobs \ {j} : jobs'[k] = jobs[k]
    BY <1>0, <1>3, RetryRow
  <2> QED
    BY <1>a, <2>1 DEF Lifecycle!Restart, PhaseOf
<1>4. ASSUME NEW w \in Workers, Claim(w) PROVE Lifecycle!Next
  BY <1>4, BeginStep DEF Lifecycle!Next, Bound
<1>5. ASSUME NEW w \in Workers, SettleSuccess(w) \/ SettleFailure(w)
      PROVE  [Lifecycle!Next]_(Lifecycle!vars)
  <2>0. AttemptOK(w)
    BY <1>0 DEF AttemptsInv
  <2>a. PICK j \in Jobs : j = att[w].job_id
    BY <1>0, <1>5, <2>0, SettleRow
  <2>1. minted' = minted /\ \A k \in Jobs \ {j} : jobs'[k] = jobs[k]
    BY <1>0, <1>5, <2>0, <2>a, SettleRow
  <2>2. CASE UNCHANGED jobs
    BY <2>1, <2>2, StutterStep
  <2>3. CASE ~UNCHANGED jobs
    <3>1. /\ jobs[j].status = "processing"
          /\ jobs'[j].status =
                IF SettleSuccess(w) THEN "completed"
                ELSE IF jobs[j].attempt_count < MaxAttempts THEN "scheduled" ELSE "failed"
          /\ jobs'[j].attempt_count = jobs[j].attempt_count
          /\ jobs'[j].execution_token = NULL
      BY <1>0, <1>5, <2>0, <2>a, <2>3, SettleRow
    <3>2. CASE SettleSuccess(w)
      <4>0. jobs'[j].status = "completed"
        BY <3>1, <3>2
      <4>1. Lifecycle!Finish(j)
        BY <2>1, <3>1, <4>0 DEF Lifecycle!Finish, PhaseOf
      <4> QED
        BY <1>b, <4>1
    <3>3. CASE ~SettleSuccess(w)
      <4>0. jobs'[j].status = IF jobs[j].attempt_count < MaxAttempts
                              THEN "scheduled" ELSE "failed"
        BY <3>1, <3>3
      <4>1. Lifecycle!GiveBack({j})
        BY <2>1, <3>1, <4>0, GiveBackStep
      <4> QED
        BY <1>c, <4>1
    <3> QED
      BY <3>2, <3>3
  <2> QED
    BY <2>2, <2>3
<1>6. ASSUME NEW w \in Workers, NEW S \in SUBSET Jobs, Activate(w, S)
      PROVE  UNCHANGED Lifecycle!vars
  <2>1. \A j \in Jobs : /\ PhaseOf(jobs'[j]) = PhaseOf(jobs[j])
                        /\ jobs'[j].attempt_count = jobs[j].attempt_count
                        /\ jobs'[j].execution_token = jobs[j].execution_token
    BY <1>0, <1>6, ActivateRows DEF PhaseOf
  <2> QED
    BY <1>0, <1>6, <2>1, ActivateRows, StutterStep
<1>7. ASSUME NEW w \in Workers, NEW S \in SUBSET Jobs, Recover(w, S)
      PROVE  Lifecycle!GiveBack(S)
  BY <1>0, <1>7, RecoverRows, GiveBackStep
<1>8. ASSUME \/ \E w \in Workers : Beat(w)
             \/ \E j \in Jobs : DueArrives(j) \/ LeaseExpires(j)
      PROVE  UNCHANGED Lifecycle!vars
  <2>1. minted' = minted /\ \A k \in Jobs : Kept(k)
    BY <1>0, <1>8, TimeRow
  <2> QED
    BY <2>1, StutterStep DEF Kept, PhaseOf
<1>9. ASSUME ~RowStep PROVE UNCHANGED Lifecycle!vars
  BY <1>9, RowsUntouched, StutterStep DEF rows
<1>10. CASE RowStep
  BY <1>1, <1>2, <1>3, <1>4, <1>5, <1>6, <1>7, <1>8, <1>b, <1>c, <1>10 DEF RowStep
<1> QED
  BY <1>9, <1>10

\* Clients, workers, crashes, failing calls and late writes together implement
\* the lifecycle: an exclusive owner, no owner twice, a bounded number of tries.
THEOREM Refinement == Spec => RefinesLifecycle
<1>1. Init => Lifecycle!Init
  <2>1. /\ PhaseOf(NoRow) = "absent" /\ NoRow.attempt_count = 0
        /\ NoRow.execution_token = NULL
    BY DEF PhaseOf, NoRow
  <2> SUFFICES ASSUME Init PROVE Lifecycle!Init
    OBVIOUS
  <2>2. \A j \in Jobs : jobs[j] = NoRow /\ minted[j] = 0
    BY DEF Init
  <2>3. {o \in Jobs \X (1..(MaxAttempts * (MaxRetries + 1))) : o[2] <= minted[o[1]]} = {}
    <3>1. MaxAttempts * (MaxRetries + 1) \in Int
      BY Constants
    <3> QED
      BY <2>2, <3>1
  <2> QED
    BY <2>1, <2>2, <2>3 DEF Lifecycle!Init
<1> QED
  BY <1>1, StepRefines, Invariance, PTL DEF Spec, RefinesLifecycle, Lifecycle!Spec
=============================================================================
