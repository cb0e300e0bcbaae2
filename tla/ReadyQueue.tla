----------------------------- MODULE ReadyQueue -----------------------------
(***************************************************************************)
(* The Redis ready queue of app/services/queue_service.py: a sorted set of *)
(* members, a sequence counter and a hash from job id to current member.   *)
(* The two Lua scripts and the two reads run without interleaving, so each *)
(* is a function of the queue.  A member is a record of the sequence and   *)
(* the job id it is printed from; the sorted set orders by score, then by  *)
(* member, which for zero-padded sequences is the order of the sequences.  *)
(***************************************************************************)
EXTENDS Integers

CONSTANTS
    Jobs,        \* ids of jobs
    NoEntry      \* nil: the hash has no field, the sorted set is empty

MAX_PRIORITY == 100

entry_scoreMut(priority) == MAX_PRIORITY - priority

entry_score(priority) ==
    MAX_PRIORITY - (IF priority < 0 THEN 0
                    ELSE IF priority > MAX_PRIORITY THEN MAX_PRIORITY
                    ELSE priority)

Members == [sequence : Nat, job_id : Jobs]

Queues == [sequence : Nat,
           ready : SUBSET [member : Members, score : 0..MAX_PRIORITY],
           entries : [Jobs -> Members \union {NoEntry}]]

EmptyQueue == [sequence |-> 0, ready |-> {}, entries |-> [j \in Jobs |-> NoEntry]]

\* The order of the sorted set.
Before(e, f) ==
    \/ e.score < f.score
    \/ e.score = f.score /\ e.member.sequence < f.member.sequence

-----------------------------------------------------------------------------
(* The scripts. *)

NewMemberMut(q, j) == [sequence |-> 1, job_id |-> j]

\* INCR, then the member printed from the new sequence.
NewMember(q, j) == [sequence |-> q.sequence + 1, job_id |-> j]

EnqueuedMut(q, j, score) ==
    [sequence |-> q.sequence + 1,
     ready    |-> q.ready \union {[member |-> NewMember(q, j), score |-> score]},
     entries  |-> [q.entries EXCEPT ![j] = NewMember(q, j)]]

\* _ENQUEUE_SCRIPT: the previous entry of the job is replaced.
Enqueued(q, j, score) ==
    [sequence |-> q.sequence + 1,
     ready    |-> {e \in q.ready : e.member # q.entries[j]}
                    \union {[member |-> NewMember(q, j), score |-> score]},
     entries  |-> [q.entries EXCEPT ![j] = NewMember(q, j)]]

RemovedMut(q, m) ==
    [sequence |-> q.sequence,
     ready    |-> {e \in q.ready : e.member.job_id # m.job_id},
     entries  |-> [q.entries EXCEPT ![m.job_id] = NoEntry]]

RemovedHeadMut(q, m) ==
    [sequence |-> q.sequence,
     ready    |-> {e \in q.ready : \E f \in q.ready : Before(f, e)},
     entries  |-> [q.entries EXCEPT ![m.job_id] = IF @ = m THEN NoEntry ELSE @]]

\* _REMOVE_SCRIPT: the exact member, and the mapping only if it points there.
Removed(q, m) ==
    [sequence |-> q.sequence,
     ready    |-> {e \in q.ready : e.member # m},
     entries  |-> [q.entries EXCEPT ![m.job_id] = IF @ = m THEN NoEntry ELSE @]]

-----------------------------------------------------------------------------
(* The reads. *)

\* ZRANGE 0 0 returns m; an empty set has no head.
IsHead(q, m) ==
    \E e \in q.ready : e.member = m /\ \A f \in q.ready \ {e} : Before(e, f)

CurrentMember(q, j) == q.entries[j]
=============================================================================
