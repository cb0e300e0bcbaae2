-------------------------- MODULE TransactionProofs --------------------------
(***************************************************************************)
(* Theorems about the two models that take apart what JobStore does in one *)
(* step: ApiRequests, the requests of clients, and RecoverySweep, the      *)
(* transaction of a recovery loop.  For all jobs, workers, requests and    *)
(* recovery loops.                                                         *)
(***************************************************************************)
EXTENDS ApiRequests, RecoverySweep, JobStoreProofs, FiniteSetTheorems

-----------------------------------------------------------------------------
(* Requests.  The inductive invariant: that of the table, and what the    *)
(* answers add.                                                            *)

RequestStates ==
    [action : {"none", "cancel", "retry"}, job : Jobs \union {UnknownId},
     step : {"idle", "asked", "missed", "matched", "answered", "cut"}, code : Nat]

\* A request has a code once it is decided.
RequestsInv ==
    /\ requests \in [Requests -> RequestStates]
    /\ \A q \in Requests : requests[q].step \in {"idle", "asked", "missed"} => requests[q].code = 0

\* A cancellation that succeeded, told or not, is of a job that exists.
AnsweredInv ==
    \A q \in Requests : Outcome(q, "cancel", 200) =>
        requests[q].job \in Jobs /\ jobs[requests[q].job].status = "cancelled"

\* The attempts ever handed out for job j, and the retries of it accepted.
Handed(j) == {a \in issued : a.job_id = j}
Accepted(j) == {q \in Requests : Outcome(q, "retry", 200) /\ requests[q].job = j}

CyclesInv(j) ==
    /\ IsFiniteSet(Handed(j))
    /\ IsFiniteSet(Accepted(j))
    /\ Cardinality(Handed(j)) = runs[j] + MaxAttempts * Cardinality(Accepted(j))

ApiInv ==
    /\ Inv
    /\ RequestsInv
    /\ AnsweredInv
    /\ \A j \in Jobs : CyclesInv(j)

-----------------------------------------------------------------------------
(* What a step does to the table, to the requests and to the two sets. *)

\* The table knows no request: every step of the API is one of JobStore.
LEMMA StoreStep ==
    ASSUME [ApiNext]_apiVars
    PROVE  [Next]_vars
<1>1. CASE UNCHANGED apiVars
  BY <1>1 DEF apiVars
<1>2. ASSUME NEW q \in Requests, CancelMatches(q) PROVE Next
  BY <1>2 DEF CancelMatches, Next
<1>3. ASSUME NEW q \in Requests, RetryMatches(q) PROVE Next
  BY <1>3 DEF RetryMatches, Next
<1>4. CASE OtherTransaction
  BY <1>4, Zenon DEF OtherTransaction, Next
<1>5. ASSUME NEW q \in Requests,
             \/ \E id \in Jobs \union {UnknownId} : AskCancel(q, id) \/ AskRetry(q, id)
             \/ MatchesNothing(q) \/ ReadBack(q) \/ Reply(q) \/ Dies(q)
      PROVE  UNCHANGED vars
  <2>1. ASSUME NEW act, NEW id, Ask(q, act, id) PROVE UNCHANGED vars
    BY <2>1, Zenon DEF Ask
  <2>2. ASSUME MatchesNothing(q) \/ ReadBack(q) \/ Reply(q) \/ Dies(q) PROVE UNCHANGED vars
    BY <2>2, Zenon DEF MatchesNothing, ReadBack, Reply, Dies
  <2> QED
    BY <1>5, <2>1, <2>2 DEF AskCancel, AskRetry
<1> QED
  BY <1>1, <1>2, <1>3, <1>4, <1>5 DEF ApiNext

\* A row that is cancelled stays so.
LEMMA CancelledStays ==
    ASSUME Inv, [ApiNext]_apiVars, NEW j \in Jobs, jobs[j].status = "cancelled"
    PROVE  jobs'[j].status = "cancelled"
<1>1. Final \/ UNCHANGED vars
  BY StoreStep, FinalStep
<1> QED
  BY <1>1 DEF Final, vars

\* The steps a request comes to when it is decided, or cut off.
Later == {"matched", "answered", "cut"}

\* Only the step and the code of the one request change.
LEMMA BecomesStep ==
    ASSUME RequestsInv, NEW q \in Requests, NEW step \in Later, NEW code \in Nat,
           Becomes(q, step, code)
    PROVE  /\ RequestsInv'
           /\ requests'[q].step = step /\ requests'[q].code = code
           /\ requests'[q].action = requests[q].action /\ requests'[q].job = requests[q].job
           /\ \A p \in Requests \ {q} : requests'[p] = requests[p]
<1>0. PICK r \in RequestStates : r = requests[q]
  BY DEF RequestsInv
<1> DEFINE new == [r EXCEPT !.step = step, !.code = code]
<1>1. /\ new \in RequestStates
      /\ new.step = step /\ new.code = code
      /\ new.action = r.action /\ new.job = r.job
  BY DEF RequestStates, Later
<1>2. requests' = [requests EXCEPT ![q] = new]
  BY <1>0 DEF Becomes
<1> HIDE DEF new
<1>3. requests' \in [Requests -> RequestStates]
  BY <1>1, <1>2 DEF RequestsInv
<1>4. requests'[q] = new /\ \A p \in Requests \ {q} : requests'[p] = requests[p]
  BY <1>2 DEF RequestsInv
<1>5. RequestsInv'
  BY <1>1, <1>3, <1>4 DEF RequestsInv, Later
<1> QED
  BY <1>0, <1>1, <1>4, <1>5

\* What a step decides of q, it decides for good.
Keeps(q) ==
    /\ requests'[q].code = requests[q].code
    /\ requests[q].code # 0 =>
          requests'[q].action = requests[q].action /\ requests'[q].job = requests[q].job

\* A request is decided by the UPDATE that matched, or from the row read back;
\* the other steps of the API keep what was decided.
LEMMA RequestStep ==
    ASSUME RequestsInv, [ApiNext]_apiVars
    PROVE  /\ RequestsInv'
           /\ \A q \in Requests :
                 Keeps(q) \/ CancelMatches(q) \/ RetryMatches(q) \/ ReadBack(q)
<1> DEFINE G == /\ RequestsInv'
                /\ \A q \in Requests :
                      Keeps(q) \/ CancelMatches(q) \/ RetryMatches(q) \/ ReadBack(q)
<1>0. requests \in [Requests -> RequestStates]
  BY DEF RequestsInv
<1>1. ASSUME NEW q \in Requests, NEW id \in Jobs \union {UnknownId},
             NEW act \in {"cancel", "retry"}, Ask(q, act, id)
      PROVE  G
  <2> DEFINE new == [Unasked EXCEPT !.action = act, !.job = id, !.step = "asked"]
  <2>1. new \in RequestStates /\ new.code = 0
    BY DEF RequestStates, Unasked
  <2> HIDE DEF new
  <2>2. requests' = [requests EXCEPT ![q] = new] /\ requests[q].step = "idle"
    BY <1>1 DEF Ask, new
  <2>3. requests[q].code = 0
    BY <2>2 DEF RequestsInv
  <2> QED
    BY <1>0, <2>1, <2>2, <2>3 DEF RequestsInv, Keeps
<1>2. ASSUME NEW q \in Requests, MatchesNothing(q) PROVE G
  <2>1. requests' = [requests EXCEPT ![q].step = "missed"] /\ requests[q].step = "asked"
    BY <1>2 DEF MatchesNothing, Asked
  <2>2. requests[q].code = 0 /\ requests[q] \in RequestStates
    BY <1>0, <2>1 DEF RequestsInv
  <2>3. requests' \in [Requests -> RequestStates]
    BY <1>0, <2>1, <2>2 DEF RequestStates
  <2>4. requests'[q].code = 0 /\ \A p \in Requests \ {q} : requests'[p] = requests[p]
    BY <1>0, <2>1, <2>2 DEF RequestStates
  <2> QED
    BY <2>2, <2>3, <2>4 DEF RequestsInv, Keeps
<1>3. ASSUME NEW q \in Requests, NEW step \in Later, NEW code \in Nat, Becomes(q, step, code)
      PROVE  RequestsInv' /\ \A p \in Requests \ {q} : Keeps(p)
  BY <1>3, BecomesStep DEF Keeps
<1>4. ASSUME NEW q \in Requests, CancelMatches(q) \/ RetryMatches(q) PROVE G
  <2>1. Becomes(q, "matched", 200)
    BY <1>4 DEF CancelMatches, RetryMatches
  <2> QED
    BY <1>3, <1>4, <2>1 DEF Later
<1>5. ASSUME NEW q \in Requests, ReadBack(q) PROVE G
  <2>1. \E code \in Nat : Becomes(q, "answered", code)
    BY <1>5 DEF ReadBack
  <2> QED
    BY <1>3, <1>5, <2>1 DEF Later
<1>6. ASSUME NEW q \in Requests, Reply(q) \/ Dies(q) PROVE G
  <2>1. PICK step \in Later : Becomes(q, step, requests[q].code)
    BY <1>6 DEF Reply, Dies, Later
  <2>2. requests[q].code \in Nat
    BY <1>0 DEF RequestStates
  <2>3. Keeps(q)
    BY <2>1, <2>2, BecomesStep DEF Keeps
  <2> QED
    BY <1>3, <2>1, <2>2, <2>3
<1>7. ASSUME UNCHANGED requests PROVE G
  BY <1>7 DEF RequestsInv, Keeps
<1> HIDE DEF G
<1>8. G
  <2>1. ASSUME NEW q \in Requests, NEW id \in Jobs \union {UnknownId},
               AskCancel(q, id) \/ AskRetry(q, id)
        PROVE  G
    BY <1>1, <2>1 DEF AskCancel, AskRetry
  <2>2. CASE UNCHANGED apiVars
    BY <1>7, <2>2 DEF apiVars
  <2> QED
    BY <1>2, <1>4, <1>5, <1>6, <1>7, <2>1, <2>2 DEF ApiNext
<1> QED
  BY <1>8 DEF G

\* What the row read back makes of the answer: 200 to a cancel of a cancelled job
\* alone.
LEMMA ReadBackAnswer ==
    ASSUME RequestsInv, NEW q \in Requests, ReadBack(q),
           requests'[q].code = 200
    PROVE  /\ requests[q].action = "cancel"
           /\ requests[q].job \in Jobs
           /\ jobs[requests[q].job].status = "cancelled"
           /\ requests'[q].job = requests[q].job
<1> DEFINE row == GetJob(requests[q].job)
           code == IF row.status = "absent" THEN 404
                   ELSE IF SettledAnswer(requests[q].action, row) THEN 200 ELSE 409
<1>1. Becomes(q, "answered", code) /\ code \in Nat /\ "answered" \in Later
  BY DEF ReadBack, Later
<1>2. requests'[q].code = code /\ requests'[q].job = requests[q].job
  BY <1>1, BecomesStep
<1>3. SettledAnswer(requests[q].action, row) /\ row.status # "absent"
  BY <1>2
<1>4. requests[q].action = "cancel" /\ row.status = "cancelled"
  BY <1>3 DEF SettledAnswer
<1>5. requests[q].job \in Jobs
  BY <1>3 DEF GetJob, NoRow
<1> QED
  BY <1>2, <1>4, <1>5 DEF GetJob

-----------------------------------------------------------------------------
(* The answers. *)

\* Every step leaves the cancellations that succeeded true.
LEMMA AnsweredStep ==
    ASSUME ApiInv, [ApiNext]_apiVars
    PROVE  AnsweredInv'
<1>0. /\ Inv /\ RequestsInv /\ AnsweredInv
      /\ jobs \in [Jobs -> Rows]
  BY DEF ApiInv, Inv
<1> SUFFICES ASSUME NEW q \in Requests, Outcome(q, "cancel", 200)'
             PROVE  /\ requests'[q].job \in Jobs
                    /\ jobs'[requests'[q].job].status = "cancelled"
  BY DEF AnsweredInv
<1>1. requests'[q].action = "cancel" /\ requests'[q].code = 200
  BY DEF Outcome
<1>2. CASE Keeps(q)
  <2>1. Outcome(q, "cancel", 200) /\ requests'[q].job = requests[q].job
    BY <1>1, <1>2 DEF Keeps, Outcome
  <2>2. requests[q].job \in Jobs /\ jobs[requests[q].job].status = "cancelled"
    BY <1>0, <2>1 DEF AnsweredInv
  <2> QED
    BY <1>0, <2>1, <2>2, CancelledStays
<1>3. CASE CancelMatches(q)
  <2>1. requests[q].job \in Jobs /\ CancelJob(requests[q].job) /\ Becomes(q, "matched", 200)
    BY <1>3 DEF CancelMatches
  <2>2. requests'[q].job = requests[q].job
    BY <1>0, <2>1, BecomesStep DEF Later
  <2>3. jobs'[requests[q].job] = Cancelled(jobs[requests[q].job])
    BY <1>0, <2>1 DEF CancelJob
  <2>4. jobs'[requests[q].job].status = "cancelled"
    BY <1>0, <2>1, <2>3, CancelledRow
  <2> QED
    BY <2>1, <2>2, <2>4
<1>4. CASE RetryMatches(q)
  <2>1. requests[q].action = "retry" /\ Becomes(q, "matched", 200)
    BY <1>4 DEF RetryMatches, Asked
  <2> QED
    BY <1>0, <1>1, <2>1, BecomesStep DEF Later
<1>5. CASE ReadBack(q)
  <2>1. /\ requests[q].job \in Jobs /\ jobs[requests[q].job].status = "cancelled"
        /\ requests'[q].job = requests[q].job
    BY <1>0, <1>1, <1>5, ReadBackAnswer
  <2> QED
    BY <1>0, <2>1, CancelledStays
<1> QED
  BY <1>0, <1>2, <1>3, <1>4, <1>5, RequestStep

-----------------------------------------------------------------------------
(* The cycles. *)

\* A retry is accepted by the UPDATE that matched and in no other way.
LEMMA AcceptedStays ==
    ASSUME RequestsInv, [ApiNext]_apiVars,
           \A q \in Requests : ~RetryMatches(q),
           NEW j
    PROVE  Accepted(j)' = Accepted(j)
<1>1. ASSUME NEW q \in Requests, Keeps(q)
      PROVE  q \in Accepted(j)' <=> q \in Accepted(j)
  BY <1>1 DEF Keeps, Accepted, Outcome
<1>2. ASSUME NEW q \in Requests, CancelMatches(q) \/ ReadBack(q)
      PROVE  q \notin Accepted(j) /\ q \notin Accepted(j)'
  <2>1. /\ requests[q].step \in {"asked", "missed"}
        /\ \E step \in Later, code \in Nat : Becomes(q, step, code)
    BY <1>2 DEF CancelMatches, Asked, ReadBack, Later
  <2>2. requests[q].code = 0
    BY <2>1 DEF RequestsInv
  <2>3. requests'[q].action = requests[q].action
    BY <2>1, BecomesStep
  <2>4. requests'[q].code = 200 => requests[q].action = "cancel"
    BY <1>2, ReadBackAnswer DEF CancelMatches, Asked
  <2> QED
    BY <2>2, <2>3, <2>4 DEF Accepted, Outcome
<1> QED
  BY <1>1, <1>2, RequestStep DEF Accepted

\* Attempts are handed out by claims, and runs start again with a retry.
LEMMA HistoryStep ==
    ASSUME [ApiNext]_apiVars
    PROVE  \/ \E q \in Requests : RetryMatches(q)
           \/ UNCHANGED requests /\ \E j \in Jobs, w \in Workers : ClaimJob(j, w)
           \/ UNCHANGED <<issued, runs>>
<1>1. CASE UNCHANGED apiVars
  BY <1>1 DEF apiVars, vars
<1>2. ASSUME NEW q \in Requests,
             \/ \E id \in Jobs \union {UnknownId} : AskCancel(q, id) \/ AskRetry(q, id)
             \/ CancelMatches(q) \/ MatchesNothing(q) \/ ReadBack(q) \/ Reply(q) \/ Dies(q)
      PROVE  UNCHANGED <<issued, runs>>
  <2>1. ASSUME NEW act, NEW id, Ask(q, act, id) PROVE UNCHANGED vars
    BY <2>1, Zenon DEF Ask
  <2>2. ASSUME MatchesNothing(q) \/ ReadBack(q) \/ Reply(q) \/ Dies(q) PROVE UNCHANGED vars
    BY <2>2, Zenon DEF MatchesNothing, ReadBack, Reply, Dies
  <2>3. ASSUME CancelMatches(q) PROVE UNCHANGED <<issued, runs>>
    BY <2>3 DEF CancelMatches, CancelJob
  <2> QED
    BY <1>2, <2>1, <2>2, <2>3 DEF AskCancel, AskRetry, vars
<1>3. ASSUME OtherTransaction,
             ~ \E j \in Jobs, w \in Workers : ClaimJob(j, w)
      PROVE  UNCHANGED <<issued, runs>>
  BY <1>3 DEF OtherTransaction, CreateJob, ExtendLease, CompleteJob, FailAttempt, UpdateProgress,
              ActivateDueScheduledJobs, RecoverExpiredLeases, Tick
<1> QED
  BY <1>1, <1>2, <1>3 DEF ApiNext

\* The arithmetic of one more cycle and of one more run.
LEMMA CycleArithmetic ==
    ASSUME NEW m \in Nat, NEW c \in Nat, NEW n \in Nat
    PROVE  /\ m + m * c = 0 + m * (c + 1)
           /\ m * c \in Nat
           /\ (n + m * c) + 1 = (n + 1) + m * c
<1>1. m * c \in Nat
  OBVIOUS
<1>2. m * (c + 1) = m * c + m
  OBVIOUS
<1> QED
  BY <1>1, <1>2

\* The accepted retry closes a full cycle: the row had failed, so the cycle had
\* used all its runs.
LEMMA RetryCycles ==
    ASSUME ApiInv, NEW q \in Requests, RetryMatches(q), NEW j \in Jobs
    PROVE  CyclesInv(j)'
<1>0. /\ Inv /\ RequestsInv /\ CyclesInv(j)
      /\ runs \in [Jobs -> 0..MaxAttempts] /\ MaxAttempts \in Nat
  BY MaxAttemptsAssumption DEF ApiInv, Inv
<1> DEFINE k == requests[q].job
<1>1. /\ k \in Jobs /\ RetryJob(k) /\ Becomes(q, "matched", 200)
      /\ requests[q].code = 0 /\ requests[q].action = "retry"
  BY <1>0 DEF RetryMatches, Asked, RequestsInv
<1>2. Handed(j)' = Handed(j)
  BY <1>1 DEF RetryJob, Handed
<1>3. /\ requests'[q].code = 200
      /\ requests'[q].action = "retry" /\ requests'[q].job = k
      /\ \A p \in Requests \ {q} : requests'[p] = requests[p]
  BY <1>0, <1>1, BecomesStep DEF Later
<1>4. CASE j = k
  <2>1. Accepted(j)' = Accepted(j) \union {q} /\ q \notin Accepted(j)
    BY <1>1, <1>3, <1>4 DEF Accepted, Outcome
  <2>2. runs[j] = MaxAttempts /\ runs'[j] = 0
    BY <1>0, <1>1, <1>4 DEF RetryJob, Retriable, Inv, RowInv, RowBudget
  <2>3. /\ IsFiniteSet(Accepted(j))
        /\ IsFiniteSet(Handed(j))
        /\ Cardinality(Handed(j)) = runs[j] + MaxAttempts * Cardinality(Accepted(j))
    BY <1>0 DEF CyclesInv
  <2>4. /\ IsFiniteSet(Accepted(j)')
        /\ Cardinality(Accepted(j)') = Cardinality(Accepted(j)) + 1
    BY <2>1, <2>3, FS_AddElement
  <2>5. Cardinality(Accepted(j)) \in Nat
    BY <2>3, FS_CardinalityType
  <2>6. MaxAttempts + MaxAttempts * Cardinality(Accepted(j))
          = 0 + MaxAttempts * (Cardinality(Accepted(j)) + 1)
    BY <1>0, <2>5, CycleArithmetic
  <2> QED
    BY <1>2, <2>2, <2>3, <2>4, <2>6 DEF CyclesInv
<1>5. CASE j # k
  <2>1. Accepted(j)' = Accepted(j)
    BY <1>1, <1>3, <1>5 DEF Accepted, Outcome
  <2>2. runs'[j] = runs[j]
    BY <1>0, <1>1, <1>5 DEF RetryJob
  <2> QED
    BY <1>0, <1>2, <2>1, <2>2 DEF CyclesInv
<1> QED
  BY <1>4, <1>5

\* A claim hands out one attempt that was not there before, for one more run.
LEMMA ClaimCycles ==
    ASSUME ApiInv, [ApiNext]_apiVars, UNCHANGED requests,
           NEW k \in Jobs, NEW w \in Workers, ClaimJob(k, w), NEW j \in Jobs
    PROVE  CyclesInv(j)'
<1>0. /\ Inv /\ CyclesInv(j)
      /\ jobs \in [Jobs -> Rows] /\ minted \in Nat /\ now \in Nat
      /\ runs \in [Jobs -> 0..MaxAttempts] /\ MaxAttempts \in Nat /\ LeaseTime \in Nat
  BY Constants DEF ApiInv, Inv
<1> DEFINE a == AttemptOf(k, jobs'[k])
<1>1. Accepted(j)' = Accepted(j)
  BY DEF Accepted, Outcome
<1>2. /\ issued' = issued \union {a}
      /\ runs' = [runs EXCEPT ![k] = @ + 1]
      /\ jobs'[k] = Claimed(jobs[k], w, minted + 1, now + LeaseTime)
      /\ Claimable(jobs[k])
  BY <1>0 DEF ClaimJob, Mint
<1>3. jobs'[k].execution_token = minted + 1
  BY <1>0, <1>2, ClaimedRow
<1>4. a.job_id = k /\ a.execution_token = minted + 1
  BY <1>3 DEF AttemptOf
<1> HIDE DEF a
<1>5. a \notin issued
  <2>1. \A b \in issued : b.execution_token <= minted
    BY <1>0 DEF Inv, TokenInv
  <2>2. ~(minted + 1 <= minted)
    BY <1>0
  <2> QED
    BY <1>4, <2>1, <2>2
<1>6. CASE j = k
  <2>1. Handed(j)' = Handed(j) \union {a} /\ a \notin Handed(j)
    BY <1>2, <1>4, <1>5, <1>6 DEF Handed
  <2>2. /\ IsFiniteSet(Handed(j)) /\ IsFiniteSet(Accepted(j))
        /\ Cardinality(Handed(j)) = runs[j] + MaxAttempts * Cardinality(Accepted(j))
    BY <1>0 DEF CyclesInv
  <2>3. IsFiniteSet(Handed(j)') /\ Cardinality(Handed(j)') = Cardinality(Handed(j)) + 1
    BY <2>1, <2>2, FS_AddElement
  <2>4. Cardinality(Accepted(j)) \in Nat
    BY <2>2, FS_CardinalityType
  <2>5. runs[j] \in Nat /\ runs'[j] = runs[j] + 1
    BY <1>0, <1>2, <1>6
  <2>6. (runs[j] + MaxAttempts * Cardinality(Accepted(j))) + 1
          = (runs[j] + 1) + MaxAttempts * Cardinality(Accepted(j))
    BY <1>0, <2>4, <2>5, CycleArithmetic
  <2> QED
    BY <1>1, <2>2, <2>3, <2>5, <2>6 DEF CyclesInv
<1>7. CASE j # k
  <2>1. Handed(j)' = Handed(j)
    BY <1>2, <1>4, <1>7 DEF Handed
  <2>2. runs'[j] = runs[j]
    BY <1>0, <1>2, <1>7
  <2> QED
    BY <1>0, <1>1, <2>1, <2>2 DEF CyclesInv
<1> QED
  BY <1>6, <1>7

-----------------------------------------------------------------------------
(* The invariant and the theorems. *)

LEMMA ApiInitInv == ApiInit => ApiInv
<1> SUFFICES ASSUME ApiInit PROVE ApiInv
  OBVIOUS
<1>1. Inv
  BY InitInv DEF ApiInit
<1>2. /\ requests = [q \in Requests |-> Unasked]
      /\ issued = {} /\ runs = [j \in Jobs |-> 0]
  BY DEF ApiInit, Init
<1>4. \A q \in Requests : requests[q].code = 0
  BY <1>2 DEF Unasked
<1>3. RequestsInv
  BY <1>2, <1>4 DEF Unasked, RequestStates, RequestsInv
<1>5. AnsweredInv
  BY <1>4 DEF AnsweredInv, Outcome
<1>6. ASSUME NEW j \in Jobs PROVE CyclesInv(j)
  <2>1. Handed(j) = {} /\ Accepted(j) = {}
    BY <1>2, <1>4 DEF Handed, Accepted, Outcome
  <2>2. 0 = 0 + MaxAttempts * 0
    BY MaxAttemptsAssumption
  <2> QED
    BY <1>2, <2>1, <2>2, FS_EmptySet DEF CyclesInv
<1> QED
  BY <1>1, <1>3, <1>5, <1>6 DEF ApiInv

LEMMA ApiNextInv == ApiInv /\ [ApiNext]_apiVars => ApiInv'
<1> SUFFICES ASSUME ApiInv, [ApiNext]_apiVars PROVE ApiInv'
  OBVIOUS
<1>0. Inv /\ RequestsInv /\ \A j \in Jobs : CyclesInv(j)
  BY DEF ApiInv
<1>1. Inv'
  BY <1>0, StoreStep, NextInv
<1>2. RequestsInv'
  BY <1>0, RequestStep
<1>3. AnsweredInv'
  BY AnsweredStep
<1>4. ASSUME NEW j \in Jobs PROVE CyclesInv(j)'
  <2>1. CASE \E q \in Requests : RetryMatches(q)
    BY <2>1, RetryCycles
  <2>2. CASE UNCHANGED requests /\ \E k \in Jobs, w \in Workers : ClaimJob(k, w)
    BY <2>2, ClaimCycles
  <2>3. CASE UNCHANGED <<issued, runs>> /\ \A q \in Requests : ~RetryMatches(q)
    <3>1. Accepted(j)' = Accepted(j)
      BY <1>0, <2>3, AcceptedStays
    <3>2. Handed(j)' = Handed(j) /\ runs'[j] = runs[j]
      BY <2>3 DEF Handed
    <3> QED
      BY <1>0, <3>1, <3>2 DEF CyclesInv
  <2> QED
    BY <2>1, <2>2, <2>3, HistoryStep
<1> QED
  BY <1>1, <1>2, <1>3, <1>4 DEF ApiInv

\* The table's invariant holds with the requests taken apart, every "cancelled"
\* told to a client is true, and runs and accepted retries account for every
\* attempt handed out.
THEOREM ApiInvariance == ApiSpec => []ApiInv
  BY ApiInitInv, ApiNextInv, PTL DEF ApiSpec

\* The API in its steps implements JobStore: whatever is proved of the table holds
\* with requests that read back, answer and are repeated.
THEOREM ApiImplementsStore == ApiSpec => Spec
<1>1. ApiInit => Init
  BY DEF ApiInit
<1>2. [ApiNext]_apiVars => [Next]_vars
  BY StoreStep
<1> QED
  BY <1>1, <1>2, PTL DEF ApiSpec, Spec

\* The table keeps its promises towards the API's clients, and implements the
\* lifecycle, while their requests race each other.
THEOREM ApiTableTheorem ==
    ApiSpec => /\ [](/\ TypeOK /\ OwnershipIffProcessing
                    /\ OnlyNewestAttemptOwns /\ OwnerCanAlwaysSettle
                    /\ PendingIsClaimable /\ BudgetExact /\ OutcomeIsNewest)
               /\ FinishedStaysFinished
               /\ RefinesLifecycle
<1>1. Spec => [](/\ TypeOK /\ OwnershipIffProcessing
                 /\ OnlyNewestAttemptOwns /\ OwnerCanAlwaysSettle
                 /\ PendingIsClaimable /\ BudgetExact /\ OutcomeIsNewest)
  BY TableProperties, Invariance, PTL
<1> QED
  BY <1>1, ApiImplementsStore, FinishedTheorem, Refinement, PTL

\* A client that was told its job is cancelled can rely on it for good, whichever
\* transactions run between the UPDATE of cancel_job and the row it reads back.
THEOREM CancelledForGoodTheorem == ApiSpec => []CancelledForGood
<1>1. ApiInv => CancelledForGood
  BY DEF ApiInv, AnsweredInv, CancelledForGood
<1> QED
  BY <1>1, ApiInvariance, PTL

\* Two retries of one failure start one cycle: retry_job accepts as many requests
\* as there are full cycles behind the running one.
THEOREM OneCycleTheorem == ApiSpec => []OneCyclePerRetry
<1>1. ApiInv => OneCyclePerRetry
  BY DEF ApiInv, CyclesInv, Handed, Accepted, OneCyclePerRetry
<1> QED
  BY <1>1, ApiInvariance, PTL

-----------------------------------------------------------------------------
(* Sweeps.  The inductive invariant: that of the table, and what the       *)
(* locks give.                                                             *)

\* The rows whose lock sweep s holds.
Held(s) == DOMAIN writes[s] \union {j \in Jobs : selected[s] # NULL /\ j \in selected[s]}

SweepTypes ==
    /\ began \in [Sweepers -> Nat]
    /\ selected \in [Sweepers -> (SUBSET Jobs) \union {NULL}]
    /\ writes = [s \in Sweepers |-> writes[s]]
    /\ \A s \in Sweepers : DOMAIN writes[s] \subseteq Jobs

\* A row is locked by one sweep at most, and by none outside its transaction.
LocksExclude ==
    /\ \A s \in Sweepers : selected[s] = NULL => DOMAIN writes[s] = {}
    /\ \A s, t \in Sweepers : s # t => Held(s) \cap Held(t) = {}

\* A locked row is as the select saw it, and what is written of it and not yet
\* committed is what its failed attempt makes of it now.
LockedRow(s, j) ==
    /\ ExpiredFor(s, jobs[j])
    /\ j \in DOMAIN writes[s] => writes[s][j] = SweptRow(s, j)

SweepInv ==
    /\ Inv
    /\ SweepTypes
    /\ LocksExclude
    /\ \A s \in Sweepers : \A j \in Held(s) : LockedRow(s, j)

-----------------------------------------------------------------------------
(* What one step does. *)

\* The row an expired attempt leaves behind, whatever the sweep's clock says.
LEMMA SweptRowFacts ==
    ASSUME Inv, NEW s \in Sweepers, began[s] \in Nat,
           NEW j \in Jobs, jobs[j].status = "processing"
    PROVE  LET x == SweptRow(s, j) IN
           /\ RowInv(j, x, runs[j], issued)
           /\ x.status = IF jobs[j].attempt_count < MaxAttempts
                         THEN "scheduled" ELSE "failed"
           /\ x.attempt_count = jobs[j].attempt_count
           /\ x.execution_token = NULL
           /\ x.error = jobs[j].execution_token
<1> DEFINE a == AttemptOf(j, jobs[j])
           t == IF HasAttemptsLeft(a) THEN began[s] + RetryDelays[a.attempt_count] ELSE NULL
<1>1. /\ RowInv(j, jobs[j], runs[j], issued) /\ jobs[j] \in Rows
      /\ a \in issued
  BY DEF Inv, RowInv, RowOwner
<1>2. a.execution_token = jobs[j].execution_token /\ a.attempt_count = jobs[j].attempt_count
  BY DEF AttemptOf
<1>3. a.attempt_count \in 1..MaxAttempts /\ a.execution_token \in Nat
  BY <1>1 DEF Inv, Attempts
<1>4. SweptRow(s, j) = AttemptFailed(jobs[j], a, a.execution_token, t)
  BY DEF SweptRow
<1> HIDE DEF a
<1>5. t \in Nat \union {NULL}
  <2>1. CASE HasAttemptsLeft(a)
    <3>1. a.attempt_count \in 1..(MaxAttempts - 1)
      BY <1>3, <2>1, MaxAttemptsAssumption DEF HasAttemptsLeft
    <3>2. RetryDelays[a.attempt_count] \in Nat
      BY <3>1, Constants
    <3> QED
      BY <2>1, <3>2
  <2>2. CASE ~HasAttemptsLeft(a)
    BY <2>2
  <2> QED
    BY <2>1, <2>2
<1> HIDE DEF t
<1>6. RowInv(j, AttemptFailed(jobs[j], a, jobs[j].execution_token, t), runs[j], issued)
  BY <1>1, <1>2, <1>5, AttemptFailedInv
<1>7. LET x == AttemptFailed(jobs[j], a, a.execution_token, t) IN
      /\ x.status = IF jobs[j].attempt_count < MaxAttempts THEN "scheduled" ELSE "failed"
      /\ x.attempt_count = jobs[j].attempt_count
      /\ x.execution_token = NULL
  BY <1>1, <1>2, <1>3, <1>5, AttemptFailedByCount
<1>8. HasAttemptsLeft(a) \in BOOLEAN
  BY DEF HasAttemptsLeft
<1>9. AttemptFailed(jobs[j], a, a.execution_token, t).error = a.execution_token
  <2> DEFINE e == a.execution_token
  <2>1. e \in Nat
    BY <1>3
  <2> HIDE DEF e
  <2>2. AttemptFailed(jobs[j], a, e, t).error = e
    BY <1>1, <1>5, <1>8, <2>1, AttemptFailedRow
  <2> QED
    BY <2>2 DEF e
<1> QED
  BY <1>2, <1>4, <1>6, <1>7, <1>9

\* What the table is after a commit.
LEMMA CommittedRows ==
    ASSUME jobs \in [Jobs -> Rows], NEW s \in Sweepers, DOMAIN writes[s] \subseteq Jobs,
           CommitSweep(s)
    PROVE  /\ jobs' = [j \in Jobs |-> IF j \in DOMAIN writes[s] THEN writes[s][j] ELSE jobs[j]]
           /\ UNCHANGED <<now, minted, issued, runs, began>>
<1>1. DOMAIN writes[s] \union DOMAIN jobs = Jobs
  OBVIOUS
<1> QED
  BY <1>1 DEF CommitSweep, Overlay

\* The other transactions wait for a locked row.
LEMMA OthersWait ==
    ASSUME Inv, OtherStep, NEW s \in Sweepers, NEW j \in Held(s), j \in Jobs,
           jobs[j].status = "processing"
    PROVE  jobs'[j] = jobs[j]
<1>0. ~Free(j) /\ jobs \in [Jobs -> Rows]
  BY DEF Free, Held, Inv
<1>1. ASSUME NEW k \in Jobs, NEW t, CreateJob(k, t) PROVE jobs'[j] = jobs[j]
  BY <1>0, <1>1 DEF CreateJob
<1>2. ASSUME NEW k \in Jobs, Free(k), CancelJob(k) \/ RetryJob(k) PROVE jobs'[j] = jobs[j]
  BY <1>0, <1>2 DEF CancelJob, RetryJob
<1>3. ASSUME NEW k \in Jobs, NEW w \in Workers, Free(k), ClaimJob(k, w)
      PROVE  jobs'[j] = jobs[j]
  BY <1>0, <1>3 DEF ClaimJob
<1>4. ASSUME NEW a \in issued, Free(a.job_id),
             \/ ExtendLease(a) \/ CompleteJob(a) \/ FailAttempt(a)
             \/ \E p \in Reports : UpdateProgress(a, p)
      PROVE  jobs'[j] = jobs[j]
  BY <1>0, <1>4 DEF ExtendLease, CompleteJob, FailAttempt, UpdateProgress
<1>5. ASSUME NEW S \in SUBSET Jobs, \A k \in S : Free(k), ActivateDueScheduledJobs(S)
      PROVE  jobs'[j] = jobs[j]
  BY <1>0, <1>5 DEF ActivateDueScheduledJobs
<1>6. CASE Tick
  BY <1>6 DEF Tick
<1> QED
  BY <1>1, <1>2, <1>3, <1>4, <1>5, <1>6 DEF OtherStep

\* They are steps of the table as JobStore has them.
LEMMA OthersAreStoreSteps ==
    ASSUME OtherStep
    PROVE  Next
BY DEF OtherStep, Next

-----------------------------------------------------------------------------
(* Every step preserves the invariant. *)

\* What is locked and written stays right while the row and the clock of the
\* sweep stay as they are.
LEMMA LockedRowKept ==
    ASSUME NEW s \in Sweepers, NEW j, LockedRow(s, j),
           jobs'[j] = jobs[j], began'[s] = began[s],
           j \in DOMAIN writes'[s] =>
               j \in DOMAIN writes[s] /\ writes'[s][j] = writes[s][j]
    PROVE  LockedRow(s, j)'
<1>1. ExpiredFor(s, jobs[j])'
  BY DEF LockedRow, ExpiredFor
<1>2. SweptRow(s, j)' = SweptRow(s, j)
  BY DEF SweptRow
<1> QED
  BY <1>1, <1>2 DEF LockedRow

LEMMA OtherInv ==
    ASSUME SweepInv, OtherStep, UNCHANGED sweepVars
    PROVE  SweepInv'
<1>0. /\ Inv /\ SweepTypes /\ LocksExclude
      /\ \A s \in Sweepers : \A j \in Held(s) : LockedRow(s, j)
      /\ began' = began /\ selected' = selected /\ writes' = writes
  BY DEF SweepInv, sweepVars
<1>1. Inv'
  BY <1>0, OthersAreStoreSteps, NextInv
<1>2. SweepTypes' /\ LocksExclude'
  BY <1>0 DEF SweepTypes, LocksExclude, Held
<1>3. ASSUME NEW s \in Sweepers, NEW j \in Held(s)'
      PROVE  LockedRow(s, j)'
  <2>1. j \in Held(s) /\ j \in Jobs
    BY <1>0, <1>3 DEF Held, SweepTypes
  <2>2. LockedRow(s, j) /\ jobs[j].status = "processing"
    BY <1>0, <2>1 DEF LockedRow, ExpiredFor
  <2>3. jobs'[j] = jobs[j]
    BY <1>0, <2>1, <2>2, OthersWait
  <2> QED
    BY <1>0, <2>2, <2>3, LockedRowKept
<1> QED
  BY <1>1, <1>2, <1>3 DEF SweepInv

\* A step of sweep s leaves the table alone unless it commits, and leaves the
\* other sweeps alone.
LEMMA OwnStep ==
    ASSUME SweepInv, NEW s \in Sweepers, Inv', SweepTypes', LocksExclude',
           \A t \in Sweepers \ {s} :
               /\ selected'[t] = selected[t] /\ writes'[t] = writes[t]
               /\ began'[t] = began[t]
               /\ \A j \in Held(t) : jobs'[j] = jobs[j],
           \A j \in Held(s)' : LockedRow(s, j)'
    PROVE  SweepInv'
<1>1. ASSUME NEW t \in Sweepers \ {s}, NEW j \in Held(t)'
      PROVE  LockedRow(t, j)'
  <2>1. j \in Held(t)
    BY <1>1 DEF Held
  <2>2. LockedRow(t, j)
    BY <2>1 DEF SweepInv
  <2>3. /\ jobs'[j] = jobs[j] /\ began'[t] = began[t] /\ writes'[t] = writes[t]
    BY <2>1
  <2> QED
    BY <2>2, <2>3, LockedRowKept
<1> QED
  BY <1>1 DEF SweepInv

LEMMA BeginInv ==
    ASSUME SweepInv, NEW s \in Sweepers, Begin(s)
    PROVE  SweepInv'
<1>0. Inv /\ SweepTypes /\ LocksExclude /\ now \in Nat
  BY DEF SweepInv, Inv
<1>1. /\ began' = [began EXCEPT ![s] = now] /\ selected' = [selected EXCEPT ![s] = {}]
      /\ writes' = writes /\ jobs' = jobs /\ UNCHANGED vars /\ selected[s] = NULL
  BY DEF Begin, vars
<1>2. Inv'
  BY <1>0, <1>1, NextInv
<1>3. SweepTypes'
  BY <1>0, <1>1 DEF SweepTypes
<1>4. DOMAIN writes[s] = {}
  BY <1>0, <1>1 DEF LocksExclude
<1>5. Held(s)' = {}
  BY <1>0, <1>1, <1>4 DEF Held, SweepTypes
<1>6. \A t \in Sweepers \ {s} : Held(t)' = Held(t)
  BY <1>0, <1>1 DEF Held, SweepTypes
<1>7. LocksExclude'
  BY <1>0, <1>1, <1>5, <1>6, SweepAssumption DEF LocksExclude, SweepTypes
<1>8. \A t \in Sweepers \ {s} : selected'[t] = selected[t] /\ began'[t] = began[t]
  BY <1>0, <1>1 DEF SweepTypes
<1> QED
  BY <1>1, <1>2, <1>3, <1>5, <1>7, <1>8, OwnStep

LEMMA SelectInv ==
    ASSUME SweepInv, NEW s \in Sweepers, NEW S \in SUBSET Jobs, Select(s, S)
    PROVE  SweepInv'
<1>0. Inv /\ SweepTypes /\ LocksExclude
  BY DEF SweepInv
<1>1. /\ selected' = [selected EXCEPT ![s] = S] /\ began' = began /\ writes' = writes
      /\ jobs' = jobs /\ UNCHANGED vars
      /\ writes[s] = <<>> /\ \A j \in S : Free(j) /\ ExpiredFor(s, jobs[j])
  BY DEF Select, vars
<1>2. Inv'
  BY <1>0, <1>1, NextInv
<1>3. SweepTypes'
  BY <1>0, <1>1 DEF SweepTypes
<1>4. DOMAIN writes[s] = {}
  BY <1>1
<1>5. Held(s)' = S /\ selected'[s] = S /\ S # NULL
  BY <1>0, <1>1, <1>4, SweepAssumption DEF Held, SweepTypes
<1>6. \A t \in Sweepers \ {s} : /\ Held(t)' = Held(t) /\ S \cap Held(t) = {}
                                /\ selected'[t] = selected[t]
  BY <1>0, <1>1 DEF Held, SweepTypes, Free
<1>7. LocksExclude'
  BY <1>0, <1>1, <1>5, <1>6 DEF LocksExclude
<1>8. \A j \in Held(s)' : LockedRow(s, j)'
  BY <1>1, <1>4, <1>5 DEF LockedRow, ExpiredFor
<1> QED
  BY <1>1, <1>2, <1>3, <1>6, <1>7, <1>8, OwnStep

LEMMA UpdateInv ==
    ASSUME SweepInv, NEW s \in Sweepers, NEW j \in Jobs, Update(s, j)
    PROVE  SweepInv'
<1>0. Inv /\ SweepTypes /\ LocksExclude /\ \A k \in Held(s) : LockedRow(s, k)
  BY DEF SweepInv
<1> DEFINE one == [k \in {j} |-> SweptRow(s, j)]
           more == Overlay(one, writes[s])
<1>1. /\ selected' = [selected EXCEPT ![s] = @ \ {j}] /\ began' = began
      /\ jobs' = jobs /\ UNCHANGED vars
      /\ selected[s] # NULL /\ j \in selected[s]
      /\ \/ writes' = [writes EXCEPT ![s] = more]
         \/ writes' = [writes EXCEPT ![s] = writes[s]]
  BY DEF Update, vars
<1>2. /\ DOMAIN more = {j} \union DOMAIN writes[s]
      /\ more[j] = SweptRow(s, j)
      /\ \A k \in DOMAIN writes[s] : k # j => more[k] = writes[s][k]
  BY DEF Overlay
<1> HIDE DEF more, one
<1>3. /\ writes' = [t \in Sweepers |-> writes'[t]]
      /\ \A t \in Sweepers \ {s} : writes'[t] = writes[t]
      /\ writes'[s] = more \/ writes'[s] = writes[s]
  <2>1. writes = [t \in Sweepers |-> writes[t]]
    BY <1>0 DEF SweepTypes
  <2> QED
    BY <1>1, <2>1
<1>4. /\ selected \in [Sweepers -> (SUBSET Jobs) \union {NULL}]
      /\ selected[s] \in SUBSET Jobs
      /\ DOMAIN writes[s] \subseteq Jobs
  BY <1>0, <1>1 DEF SweepTypes
<1>5. /\ selected'[s] = selected[s] \ {j} /\ selected'[s] \in SUBSET Jobs
      /\ selected'[s] # NULL
      /\ selected' \in [Sweepers -> (SUBSET Jobs) \union {NULL}]
      /\ \A t \in Sweepers \ {s} : selected'[t] = selected[t]
  BY <1>1, <1>4, SweepAssumption
<1>6. Inv'
  BY <1>0, <1>1, NextInv
<1>7. SweepTypes'
  BY <1>0, <1>1, <1>2, <1>3, <1>4, <1>5 DEF SweepTypes
<1>8. DOMAIN writes'[s] \subseteq {j} \union DOMAIN writes[s] /\ j \in Held(s)
  BY <1>1, <1>2, <1>3 DEF Held
<1>9. /\ Held(s)' \subseteq Held(s)
      /\ \A t \in Sweepers \ {s} : Held(t)' = Held(t)
  BY <1>1, <1>3, <1>5, <1>8 DEF Held
<1>10. LocksExclude'
  BY <1>0, <1>3, <1>5, <1>9 DEF LocksExclude
<1>11. ASSUME NEW k \in Held(s)'
       PROVE  LockedRow(s, k)'
  <2>1. LockedRow(s, k)
    BY <1>0, <1>9, <1>11
  <2>2. SweptRow(s, k)' = SweptRow(s, k)
    BY <1>1 DEF SweptRow
  <2>3. k \in DOMAIN writes'[s] => writes'[s][k] = SweptRow(s, k)
    BY <1>2, <1>3, <2>1 DEF LockedRow
  <2>4. ExpiredFor(s, jobs[k])'
    BY <1>1, <2>1 DEF LockedRow, ExpiredFor
  <2> QED
    BY <2>2, <2>3, <2>4 DEF LockedRow
<1> QED
  BY <1>1, <1>3, <1>5, <1>6, <1>7, <1>10, <1>11, OwnStep

\* The end of a transaction, committed or not, gives up all its locks.
LEMMA EndUnlocks ==
    ASSUME SweepTypes, LocksExclude, NEW s \in Sweepers, EndOf(s), began' = began
    PROVE  /\ SweepTypes' /\ LocksExclude' /\ Held(s)' = {}
           /\ \A t \in Sweepers \ {s} : selected'[t] = selected[t] /\ writes'[t] = writes[t]
<1>1. /\ selected' = [selected EXCEPT ![s] = NULL]
      /\ writes' = [writes EXCEPT ![s] = <<>>]
      /\ selected \in [Sweepers -> (SUBSET Jobs) \union {NULL}]
      /\ writes = [t \in Sweepers |-> writes[t]]
  BY DEF EndOf, SweepTypes
<1>2. /\ writes' = [t \in Sweepers |-> writes'[t]]
      /\ \A t \in Sweepers \ {s} : writes'[t] = writes[t]
      /\ writes'[s] = <<>>
  BY <1>1
<1>3. DOMAIN writes'[s] = {}
  BY <1>2
<1>4. /\ selected' \in [Sweepers -> (SUBSET Jobs) \union {NULL}]
      /\ \A t \in Sweepers \ {s} : selected'[t] = selected[t]
      /\ selected'[s] = NULL
  BY <1>1
<1>5. SweepTypes'
  BY <1>2, <1>3, <1>4 DEF SweepTypes
<1>6. Held(s)' = {} /\ \A t \in Sweepers \ {s} : Held(t)' = Held(t)
  BY <1>2, <1>3, <1>4 DEF Held
<1>7. LocksExclude'
  BY <1>2, <1>3, <1>4, <1>6 DEF LocksExclude
<1> QED
  BY <1>2, <1>4, <1>5, <1>6, <1>7

LEMMA AbortInv ==
    ASSUME SweepInv, NEW s \in Sweepers, AbortSweep(s)
    PROVE  SweepInv'
<1>1. Inv /\ SweepTypes /\ LocksExclude
  BY DEF SweepInv
<1>2. EndOf(s) /\ UNCHANGED vars /\ jobs' = jobs /\ began' = began
  BY DEF AbortSweep, vars
<1>3. Inv'
  BY <1>1, <1>2, NextInv
<1> QED
  BY <1>1, <1>2, <1>3, EndUnlocks, OwnStep

\* The rows of a batch at its commit: each is still running under the attempt
\* that the select found expired, and is failed through it.
LEMMA CommitRows ==
    ASSUME SweepInv, NEW s \in Sweepers, CommitSweep(s), NEW j \in DOMAIN writes[s]
    PROVE  /\ j \in Jobs /\ jobs[j].status = "processing"
           /\ ExpiredFor(s, jobs[j])
           /\ jobs'[j] = SweptRow(s, j)
<1>1. /\ Inv /\ jobs \in [Jobs -> Rows] /\ DOMAIN writes[s] \subseteq Jobs /\ j \in Jobs
      /\ LockedRow(s, j)
  BY DEF SweepInv, SweepTypes, Inv, Held
<1>2. jobs'[j] = writes[s][j]
  BY <1>1, CommittedRows
<1> QED
  BY <1>1, <1>2 DEF LockedRow, ExpiredFor

LEMMA CommitInv ==
    ASSUME SweepInv, NEW s \in Sweepers, CommitSweep(s)
    PROVE  SweepInv'
<1>0. /\ Inv /\ SweepTypes /\ LocksExclude /\ jobs \in [Jobs -> Rows]
      /\ began[s] \in Nat /\ DOMAIN writes[s] \subseteq Jobs
  BY DEF SweepInv, Inv, SweepTypes
<1>1. /\ jobs' = [j \in Jobs |-> IF j \in DOMAIN writes[s] THEN writes[s][j] ELSE jobs[j]]
      /\ UNCHANGED <<now, minted, issued, runs, began>>
  BY <1>0, CommittedRows
<1>2. EndOf(s)
  BY DEF CommitSweep
<1>3. ASSUME NEW j \in Jobs PROVE RowInv(j, jobs'[j], runs[j], issued)
  <2>1. CASE j \in DOMAIN writes[s]
    BY <1>0, <2>1, CommitRows, SweptRowFacts
  <2>2. CASE j \notin DOMAIN writes[s]
    BY <1>0, <1>1, <2>2 DEF Inv
  <2> QED
    BY <2>1, <2>2
<1>4. jobs' \in [Jobs -> Rows]
  BY <1>1, <1>3 DEF RowInv
<1>5. Inv'
  BY <1>0, <1>1, <1>3, <1>4 DEF Inv, TokenInv
<1>6. ASSUME NEW t \in Sweepers \ {s}, NEW j \in Held(t) PROVE jobs'[j] = jobs[j]
  <2>1. j \in Jobs
    BY <1>0 DEF Held, SweepTypes
  <2>2. j \notin DOMAIN writes[s]
    BY <1>0 DEF LocksExclude, Held
  <2> QED
    BY <1>1, <2>1, <2>2
<1> QED
  BY <1>0, <1>1, <1>2, <1>5, <1>6, EndUnlocks, OwnStep

LEMMA SweepInitInv == SweepInit => SweepInv
<1> SUFFICES ASSUME SweepInit PROVE SweepInv
  OBVIOUS
<1>1. /\ Inv
      /\ began = [s \in Sweepers |-> 0] /\ selected = [s \in Sweepers |-> NULL]
      /\ writes = [s \in Sweepers |-> <<>>]
  BY InitInv DEF SweepInit
<1>2. \A s \in Sweepers : selected[s] = NULL /\ DOMAIN writes[s] = {}
  BY <1>1
<1>3. SweepTypes
  BY <1>1, <1>2 DEF SweepTypes
<1>4. \A s \in Sweepers : Held(s) = {}
  BY <1>2 DEF Held
<1> QED
  BY <1>1, <1>2, <1>3, <1>4 DEF SweepInv, LocksExclude

LEMMA SweepNextInv == SweepInv /\ [SweepNext]_allVars => SweepInv'
<1> SUFFICES ASSUME SweepInv, [SweepNext]_allVars PROVE SweepInv'
  OBVIOUS
<1>1. CASE UNCHANGED allVars
  <2>1. /\ Inv /\ UNCHANGED vars /\ jobs' = jobs
        /\ began' = began /\ selected' = selected /\ writes' = writes
    BY <1>1 DEF SweepInv, allVars, sweepVars, vars
  <2>2. Inv'
    BY <2>1, NextInv
  <2> QED
    BY <2>1, <2>2 DEF SweepInv, SweepTypes, LocksExclude, Held, LockedRow, ExpiredFor, SweptRow
<1>2. CASE OtherStep /\ UNCHANGED sweepVars
  BY <1>2, OtherInv
<1>3. CASE \E s \in Sweepers : Begin(s) \/ CommitSweep(s) \/ AbortSweep(s)
  BY <1>3, BeginInv, CommitInv, AbortInv
<1>4. CASE \E s \in Sweepers : \/ \E S \in SUBSET Jobs : Select(s, S)
                               \/ \E j \in Jobs : Update(s, j)
  BY <1>4, SelectInv, UpdateInv
<1> QED
  BY <1>1, <1>2, <1>3, <1>4 DEF SweepNext

-----------------------------------------------------------------------------
(* The theorems. *)

\* With sweeps in statements and any number of recovery loops, the invariant of
\* the table is kept, a row is locked by one loop at most, and a locked row is
\* still the expired one the select found.
THEOREM SweepInvariance == SweepSpec => []SweepInv
  BY SweepInitInv, SweepNextInv, PTL DEF SweepSpec

\* With sweeps in statements, by clocks that run behind, the table keeps what the
\* invariant says of it: its columns agree with the status, one attempt of a job
\* owns it, the newest, and can settle it, no row waits that nobody may claim,
\* the budget is exact, and the outcome is the newest attempt's.
THEOREM SweepTableTheorem ==
    SweepSpec => [](/\ TypeOK /\ OwnershipIffProcessing
                    /\ OnlyNewestAttemptOwns /\ OwnerCanAlwaysSettle
                    /\ PendingIsClaimable /\ BudgetExact /\ OutcomeIsNewest)
<1>1. SweepInv => Inv
  BY DEF SweepInv
<1> QED
  BY <1>1, TableProperties, SweepInvariance, PTL

\* What the commit of recover_expired_leases takes away is an attempt that still
\* owns its row, with the lease that had run out when the sweep began.
THEOREM TakesOnlyExpiredTheorem == SweepSpec => TakesOnlyExpired
<1> DEFINE Takes ==
      \A s \in Sweepers : CommitSweep(s) =>
         \A j \in Jobs : jobs'[j] # jobs[j] =>
            /\ jobs[j].status = "processing"
            /\ jobs[j].lease_expires_at < began[s]
            /\ jobs'[j].error = jobs[j].execution_token
<1>1. ASSUME SweepInv PROVE Takes
  <2> SUFFICES ASSUME NEW s \in Sweepers, CommitSweep(s),
                      NEW j \in Jobs, jobs'[j] # jobs[j]
               PROVE  /\ jobs[j].status = "processing"
                      /\ jobs[j].lease_expires_at < began[s]
                      /\ jobs'[j].error = jobs[j].execution_token
    OBVIOUS
  <2>1. /\ Inv /\ jobs \in [Jobs -> Rows] /\ began[s] \in Nat
        /\ DOMAIN writes[s] \subseteq Jobs
    BY <1>1 DEF SweepInv, SweepTypes, Inv
  <2>2. j \in DOMAIN writes[s]
    BY <2>1, CommittedRows
  <2>3. jobs[j].status = "processing" /\ ExpiredFor(s, jobs[j]) /\ jobs'[j] = SweptRow(s, j)
    BY <1>1, <2>2, CommitRows
  <2>4. jobs'[j].error = jobs[j].execution_token
    BY <2>1, <2>3, SweptRowFacts
  <2> QED
    BY <2>3, <2>4 DEF ExpiredFor
<1>2. SweepInv => [Takes]_allVars
  BY <1>1
<1> QED
  BY <1>2, SweepInvariance, PTL DEF TakesOnlyExpired

\* A step of the sweeps is one of the table, leaves the table alone or commits.
LEMMA SweepSteps ==
    ASSUME [SweepNext]_allVars
    PROVE  [Next]_vars \/ \E s \in Sweepers : CommitSweep(s)
<1>1. CASE OtherStep
  BY <1>1, OthersAreStoreSteps
<1>2. ASSUME NEW s \in Sweepers,
             \/ Begin(s) \/ AbortSweep(s)
             \/ \E T \in SUBSET Jobs : Select(s, T)
             \/ \E j \in Jobs : Update(s, j)
      PROVE  UNCHANGED vars
  BY <1>2 DEF Begin, AbortSweep, Select, Update
<1> QED
  BY <1>1, <1>2 DEF SweepNext, allVars

\* A row that a commit changes was running and is then scheduled or failed.
LEMMA CommitChanges ==
    ASSUME SweepInv, NEW s \in Sweepers, CommitSweep(s), NEW j \in Jobs, jobs'[j] # jobs[j]
    PROVE  jobs[j].status = "processing" /\ jobs'[j].status \in {"scheduled", "failed"}
<1>1. /\ Inv /\ jobs \in [Jobs -> Rows] /\ began[s] \in Nat
      /\ DOMAIN writes[s] \subseteq Jobs
  BY DEF SweepInv, SweepTypes, Inv
<1>2. j \in DOMAIN writes[s]
  BY <1>1, CommittedRows
<1>3. jobs[j].status = "processing" /\ jobs'[j] = SweptRow(s, j)
  BY <1>2, CommitRows
<1> QED
  BY <1>1, <1>3, SweptRowFacts

\* No sweep, however long ago it selected a row, takes away what has finished
\* since: it does not commit over a completed or cancelled job.
THEOREM SweepFinishedTheorem == SweepSpec => FinishedStaysFinished
<1>1. ASSUME SweepInv, [SweepNext]_allVars PROVE [Final]_vars
  <2>1. CASE [Next]_vars
    BY <1>1, <2>1, FinalStep DEF SweepInv
  <2>2. ASSUME NEW s \in Sweepers, CommitSweep(s) PROVE Final
    BY <1>1, <2>2, CommitChanges DEF Final
  <2> QED
    BY <1>1, <2>1, <2>2, SweepSteps
<1>2. SweepInv /\ [SweepNext]_allVars => [Final]_vars
  BY <1>1
<1> QED
  BY <1>2, SweepInvariance, PTL DEF SweepSpec, FinishedStaysFinished, Final

\* No sweep releases a job before its time, although it schedules the next
\* attempt by a clock that may be long behind.
THEOREM SweepNeverEarlyTheorem ==
    ASSUME ApiSkew <= 0
    PROVE  SweepSpec => []NeverEarly
<1>1. SweepInit => NeverEarly
  BY DEF SweepInit, Init, NeverEarly, NoRow
<1>2. ASSUME SweepInv, NeverEarly, [SweepNext]_allVars PROVE NeverEarly'
  <2>1. CASE [Next]_vars
    BY <1>2, <2>1, NeverEarlyStep DEF SweepInv
  <2>2. ASSUME NEW s \in Sweepers, CommitSweep(s) PROVE NeverEarly'
    <3>1. now' = now
      BY <2>2 DEF CommitSweep
    <3>2. ASSUME NEW j \in Jobs
          PROVE  jobs'[j] = jobs[j] \/ jobs'[j].status \in {"scheduled", "failed"}
      BY <1>2, <2>2, CommitChanges
    <3> QED
      BY <1>2, <3>1, <3>2 DEF NeverEarly
  <2> QED
    BY <1>2, <2>1, <2>2, SweepSteps
<1>3. SweepInv /\ NeverEarly /\ [SweepNext]_allVars => NeverEarly'
  BY <1>2
<1> QED
  BY <1>1, <1>3, SweepInvariance, PTL DEF SweepSpec

\* A commit gives the jobs of its batch back; the other steps of a sweep are
\* invisible in the lifecycle.
LEMMA SweepStepRefines ==
    ASSUME SweepInv, [SweepNext]_allVars
    PROVE  [Lifecycle!Next]_(Lifecycle!vars)
<1>0. Inv
  BY DEF SweepInv
<1>1. CASE OtherStep \/ UNCHANGED vars
  <2>1. [Next]_vars
    BY <1>1, OthersAreStoreSteps
  <2> QED
    BY <1>0, <2>1, StepRefines
<1>2. ASSUME NEW s \in Sweepers, CommitSweep(s)
      PROVE  Lifecycle!Next
  <2>1. /\ jobs \in [Jobs -> Rows] /\ DOMAIN writes[s] \in SUBSET Jobs /\ began[s] \in Nat
    BY DEF SweepInv, SweepTypes, Inv
  <2>0. PICK S \in SUBSET Jobs : S = DOMAIN writes[s]
    BY <2>1
  <2>2. (\A j \in Jobs \ S : jobs'[j] = jobs[j]) /\ minted' = minted
    BY <1>2, <2>0, <2>1, CommittedRows
  <2>3. ASSUME NEW j \in S
        PROVE  /\ jobs[j].status = "processing"
               /\ jobs'[j].status = IF jobs[j].attempt_count < MaxAttempts
                                    THEN "scheduled" ELSE "failed"
               /\ jobs'[j].attempt_count = jobs[j].attempt_count
               /\ jobs'[j].execution_token = NULL
    <3>1. j \in Jobs /\ jobs[j].status = "processing" /\ jobs'[j] = SweptRow(s, j)
      BY <1>2, <2>0, CommitRows
    <3> QED
      BY <1>0, <2>1, <3>1, SweptRowFacts
  <2>4. Lifecycle!GiveBack(S)
    BY <1>0, <2>1, <2>2, <2>3, GiveBackStep
  <2> QED
    BY <2>4 DEF Lifecycle!Next
<1>3. ASSUME NEW s \in Sweepers,
             \/ Begin(s) \/ AbortSweep(s)
             \/ \E T \in SUBSET Jobs : Select(s, T)
             \/ \E j \in Jobs : Update(s, j)
      PROVE  UNCHANGED vars
  BY <1>3 DEF Begin, AbortSweep, Select, Update
<1> QED
  BY <1>1, <1>2, <1>3 DEF SweepNext, allVars

\* With several recovery loops that sweep in statements, each by its own frozen
\* clock, the table still implements the lifecycle: no attempt is taken twice.
THEOREM SweepRefinement == SweepSpec => RefinesLifecycle
<1>1. SweepInit => Lifecycle!Init
  <2>1. /\ PhaseOf(NoRow) = "absent" /\ NoRow.attempt_count = 0
        /\ NoRow.execution_token = NULL
    BY DEF PhaseOf, NoRow
  <2>2. 1..0 = {}
    OBVIOUS
  <2> QED
    BY <2>1, <2>2 DEF SweepInit, Init, Lifecycle!Init
<1>2. SweepInv /\ [SweepNext]_allVars => [Lifecycle!Next]_(Lifecycle!vars)
  BY SweepStepRefines
<1> QED
  BY <1>1, <1>2, SweepInvariance, PTL DEF SweepSpec, RefinesLifecycle, Lifecycle!Spec
=============================================================================
