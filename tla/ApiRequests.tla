----------------------------- MODULE ApiRequests -----------------------------
(***************************************************************************)
(* JobStore with the cancel and retry requests of the API in the steps in  *)
(* which they meet the others: the conditional UPDATE with its commit, and *)
(* when that matched no row, a get_job in a transaction of its own from    *)
(* which the answer is made; then the response.  Between any two of them   *)
(* every other transaction may run, and the API may die.  What the         *)
(* requests do to Redis is in Dispatch.                                    *)
(*                                                                         *)
(* Ids are made by the server, so a client asks for a job that exists or   *)
(* for an id that will never be one.                                       *)
(***************************************************************************)
EXTENDS JobStore

CONSTANTS
    Requests,    \* requests, each made once
    UnknownId    \* an id of no job, now or later

ASSUME ApiAssumption == UnknownId \notin Jobs

VARIABLE requests    \* [Requests -> [action, job, step, code]]

apiVars == <<vars, requests>>

Unasked == [action |-> "none", job |-> UnknownId, step |-> "idle", code |-> 0]

ApiInit == Init /\ requests = [q \in Requests |-> Unasked]

-----------------------------------------------------------------------------

\* A SELECT by primary key.
GetJob(id) == IF id \in Jobs THEN jobs[id] ELSE NoRow

Ask(q, action, id) ==
    /\ requests[q].step = "idle"
    /\ id \in Jobs => jobs[id].status # "absent"
    /\ requests' = [requests EXCEPT ![q] =
                      [Unasked EXCEPT !.action = action, !.job = id, !.step = "asked"]]
    /\ UNCHANGED vars

\* POST /jobs/{job_id}/cancel and /jobs/{job_id}/retry.
AskCancel(q, id) == Ask(q, "cancel", id)
AskRetry(q, id) == Ask(q, "retry", id)

\* Request q comes to a step, with the code its answer has or would have; of the
\* body nothing is kept.
Becomes(q, step, code) ==
    requests' = [requests EXCEPT ![q] = [@ EXCEPT !.step = step, !.code = code]]

Asked(q, action) == requests[q].step = "asked" /\ requests[q].action = action

\* The UPDATE ... RETURNING matched and is committed: the row it returned will be
\* the answer, once Redis has been told.
CancelMatches(q) ==
    /\ Asked(q, "cancel") /\ requests[q].job \in Jobs
    /\ CancelJob(requests[q].job)
    /\ Becomes(q, "matched", 200)

RetryMatches(q) ==
    /\ Asked(q, "retry") /\ requests[q].job \in Jobs
    /\ RetryJob(requests[q].job)
    /\ Becomes(q, "matched", 200)

\* It matched nothing, and its transaction is over.
MatchesNothing(q) ==
    /\ \/ Asked(q, "cancel") /\ ~Cancellable(GetJob(requests[q].job))
       \/ Asked(q, "retry") /\ ~Retriable(GetJob(requests[q].job))
    /\ requests' = [requests EXCEPT ![q].step = "missed"]
    /\ UNCHANGED vars

\* "Already cancelled" is mistaken for "already over".
SettledAnswerMut(action, existing) ==
    action = "cancel" /\ existing.status \in {"cancelled", "failed"}

\* Cancelling a cancelled job returns the existing row.
SettledAnswer(action, existing) == action = "cancel" /\ existing.status = "cancelled"

\* get_job, then the row, JobNotFoundError or JobConflictError as
\* _translate_mutation puts it.
ReadBack(q) ==
    LET existing == GetJob(requests[q].job) IN
    /\ requests[q].step = "missed"
    /\ Becomes(q, "answered",
               IF existing.status = "absent" THEN 404
               ELSE IF SettledAnswer(requests[q].action, existing) THEN 200
               ELSE 409)
    /\ UNCHANGED vars

\* The answer to a request whose UPDATE matched.
Reply(q) ==
    /\ requests[q].step = "matched"
    /\ Becomes(q, "answered", requests[q].code)
    /\ UNCHANGED vars

\* The API dies, or the client is cut off: what is committed stays, and nobody is
\* told.  (A client that asks again is another request.)
Dies(q) ==
    /\ requests[q].step \in {"asked", "matched", "missed"}
    /\ Becomes(q, "cut", requests[q].code)
    /\ UNCHANGED vars

-----------------------------------------------------------------------------
(* Everybody else. *)

OtherTransaction ==
    \/ \E j \in Jobs, t \in (0..MaxTime) \union {NULL} : CreateJob(j, t)
    \/ \E j \in Jobs, w \in Workers : ClaimJob(j, w)
    \/ \E a \in issued : ExtendLease(a) \/ CompleteJob(a) \/ FailAttempt(a)
    \/ \E a \in issued, p \in Reports : UpdateProgress(a, p)
    \/ \E S \in SUBSET Jobs : ActivateDueScheduledJobs(S) \/ RecoverExpiredLeases(S)
    \/ Tick

ApiNext ==
    \/ \E q \in Requests, id \in Jobs \union {UnknownId} : AskCancel(q, id) \/ AskRetry(q, id)
    \/ \E q \in Requests :
         \/ CancelMatches(q) \/ RetryMatches(q) \/ MatchesNothing(q) \/ ReadBack(q)
         \/ Reply(q) \/ Dies(q)
    \/ OtherTransaction /\ UNCHANGED requests

ApiSpec == ApiInit /\ [][ApiNext]_apiVars

-----------------------------------------------------------------------------
(* Properties. *)

\* What came of a request, whether or not its client was told.
Outcome(q, action, code) == requests[q].action = action /\ requests[q].code = code

\* A client that was told its job is cancelled can rely on it: from that answer
\* on the row is CANCELLED, whichever claim, failure, activation or retry raced
\* the request, and whether this request or another one did it.
CancelledForGood ==
    \A q \in Requests :
        requests[q].step = "answered" /\ Outcome(q, "cancel", 200) =>
            jobs[requests[q].job].status = "cancelled"

\* Retries pressed twice, or by two clients at once, or again because the answer
\* was lost, start one cycle: every attempt ever handed out for a job belongs to
\* the running cycle or to one of the full cycles that a retry has closed.
OneCyclePerRetry ==
    \A j \in Jobs :
        Cardinality({a \in issued : a.job_id = j}) =
            runs[j] + MaxAttempts * Cardinality({q \in Requests :
                                        Outcome(q, "retry", 200) /\ requests[q].job = j})
=============================================================================
