---------------------------- MODULE QueueProofs ----------------------------
(***************************************************************************)
(* Theorems about QueueClients, for all jobs, priorities and bounds, with  *)
(* removals that come late and a Redis that restarts.                      *)
(***************************************************************************)
EXTENDS MemberOrder, WellFoundedInduction, TLAPS

\* What holds of the three keys at all times, and so of those on disk: set and
\* hash agree, an entry of the hash belongs to its job, and no queued member is
\* ahead of the counter.
QueueInv(q) ==
    /\ q \in Queues
    /\ \A e \in q.ready : q.entries[e.member.job_id] = e.member
    /\ \A j \in Jobs : q.entries[j] # NoEntry =>
           q.entries[j].job_id = j /\ \E e \in q.ready : e.member = q.entries[j]
    /\ \A e \in q.ready : e.member.sequence <= q.sequence

\* The counter stays within its bound.  Nobody has seen a number that it has
\* still to give out, unless a restart set it back.
CounterInv ==
    /\ queue.sequence <= MaxSequence /\ saved.sequence <= MaxSequence
    /\ base <= queue.sequence
    /\ \A m \in seen : m.sequence <= queue.sequence
    /\ ~rewound => \A m \in late : m.sequence <= base

Inv == TypeOK /\ QueueInv(queue) /\ QueueInv(saved) /\ CounterInv

-----------------------------------------------------------------------------
(* The scripts. *)

\* Any priority a caller passes gives a score within the band.
LEMMA ScoreType == \A p \in Int : entry_score(p) \in 0..MAX_PRIORITY
BY DEF entry_score, MAX_PRIORITY

\* The empty queue.
LEMMA EmptyInv == QueueInv(EmptyQueue) /\ EmptyQueue.sequence = 0
<1>1. EmptyQueue \in Queues /\ EmptyQueue.ready = {} /\ EmptyQueue.sequence = 0
      /\ \A j \in Jobs : EmptyQueue.entries[j] = NoEntry
  BY DEF EmptyQueue, Queues
<1> QED
  BY <1>1 DEF QueueInv

\* What the enqueue script leaves behind.
LEMMA EnqueuedQueue ==
    ASSUME NEW q \in Queues, NEW j \in Jobs, NEW s \in 0..MAX_PRIORITY
    PROVE  LET x == Enqueued(q, j, s) IN
           /\ x \in Queues
           /\ x.sequence = q.sequence + 1
           /\ x.ready = {e \in q.ready : e.member # q.entries[j]}
                          \union {[member |-> NewMember(q, j), score |-> s]}
           /\ x.entries = [q.entries EXCEPT ![j] = NewMember(q, j)]
           /\ NewMember(q, j) \in Members
           /\ NewMember(q, j).job_id = j
           /\ NewMember(q, j).sequence = q.sequence + 1
<1>1. /\ NewMember(q, j) \in Members /\ NewMember(q, j).job_id = j
      /\ NewMember(q, j).sequence = q.sequence + 1
  BY DEF NewMember, Members, Queues
<1> QED
  BY <1>1 DEF Enqueued, Queues

\* What the remove script leaves behind.
LEMMA RemovedQueue ==
    ASSUME NEW q \in Queues, NEW m \in Members
    PROVE  LET x == Removed(q, m) IN
           /\ x \in Queues
           /\ x.sequence = q.sequence
           /\ x.ready = {e \in q.ready : e.member # m}
           /\ \A j \in Jobs : x.entries[j] = IF q.entries[j] = m /\ m.job_id = j
                                             THEN NoEntry ELSE q.entries[j]
BY DEF Removed, Queues, Members

\* The enqueue script keeps the keys in order.
LEMMA EnqueuedInv ==
    ASSUME NEW q, QueueInv(q), NEW j \in Jobs, NEW s \in 0..MAX_PRIORITY
    PROVE  QueueInv(Enqueued(q, j, s))
<1> DEFINE m == NewMember(q, j)
           new == [member |-> m, score |-> s]
           x == Enqueued(q, j, s)
<1>1. q \in Queues
  BY DEF QueueInv
<1>2. /\ x \in Queues
      /\ x.sequence = q.sequence + 1
      /\ x.ready = {e \in q.ready : e.member # q.entries[j]} \union {new}
      /\ x.entries = [q.entries EXCEPT ![j] = m]
      /\ m \in Members /\ m.job_id = j /\ m.sequence = q.sequence + 1
  BY <1>1, EnqueuedQueue
<1>3. new.member = m
  OBVIOUS
<1>4. /\ q.sequence \in Nat
      /\ \A e \in q.ready : e.member \in Members /\ e.member.sequence \in Nat
                            /\ e.member.job_id \in Jobs
      /\ \A k \in Jobs \ {j} : x.entries[k] = q.entries[k]
      /\ x.entries[j] = m
      /\ m # NoEntry
  BY <1>1, <1>2, ClientsAssumption DEF Queues, Members
<1> HIDE DEF new, m, x
<1>6. \A e \in x.ready : x.entries[e.member.job_id] = e.member
  BY <1>2, <1>3, <1>4 DEF QueueInv
<1>7. ASSUME NEW k \in Jobs, x.entries[k] # NoEntry
      PROVE  /\ x.entries[k].job_id = k
             /\ \E e \in x.ready : e.member = x.entries[k]
  <2>1. CASE k = j
    BY <1>2, <1>3, <1>4, <2>1
  <2>2. CASE k # j
    <3>1. PICK e \in q.ready : e.member = q.entries[k] /\ q.entries[k].job_id = k
      BY <1>4, <1>7, <2>2 DEF QueueInv
    <3>2. e.member # q.entries[j]
      BY <1>7, <1>4, <2>2, <3>1 DEF QueueInv
    <3> QED
      BY <1>2, <1>4, <2>2, <3>1, <3>2
  <2> QED
    BY <2>1, <2>2
<1>8. \A e \in x.ready : e.member.sequence <= x.sequence
  BY <1>2, <1>3, <1>4 DEF QueueInv
<1> QED
  BY <1>2, <1>6, <1>7, <1>8 DEF QueueInv, x

\* The remove script keeps the keys in order, whatever member it is given.
LEMMA RemovedInv ==
    ASSUME NEW q, QueueInv(q), NEW m \in Members
    PROVE  QueueInv(Removed(q, m))
<1> DEFINE x == Removed(q, m)
<1>1. q \in Queues
  BY DEF QueueInv
<1>2. /\ x \in Queues
      /\ x.sequence = q.sequence
      /\ x.ready = {e \in q.ready : e.member # m}
      /\ \A j \in Jobs : x.entries[j] = IF q.entries[j] = m /\ m.job_id = j
                                        THEN NoEntry ELSE q.entries[j]
  BY <1>1, RemovedQueue
<1> HIDE DEF x
<1>3. \A e \in q.ready : e.member.job_id \in Jobs
  BY <1>1 DEF Queues, Members
<1>4. \A e \in x.ready : x.entries[e.member.job_id] = e.member
  BY <1>2, <1>3 DEF QueueInv
<1>5. ASSUME NEW k \in Jobs, x.entries[k] # NoEntry
      PROVE  /\ x.entries[k].job_id = k
             /\ \E e \in x.ready : e.member = x.entries[k]
  <2>1. x.entries[k] = q.entries[k] /\ q.entries[k].job_id = k
    BY <1>2, <1>5 DEF QueueInv
  <2>2. q.entries[k] # m
    BY <1>2, <1>5, <2>1
  <2>3. PICK e \in q.ready : e.member = q.entries[k]
    BY <1>5, <2>1 DEF QueueInv
  <2> QED
    BY <1>2, <2>1, <2>2, <2>3
<1>6. \A e \in x.ready : e.member.sequence <= x.sequence
  BY <1>2 DEF QueueInv
<1> QED
  BY <1>2, <1>4, <1>5, <1>6 DEF QueueInv, x

-----------------------------------------------------------------------------
(* The steps. *)

\* Nothing is queued, saved or seen at first.
LEMMA InitInv == Init => Inv
<1> SUFFICES ASSUME Init PROVE Inv
  OBVIOUS
<1>1. QueueInv(queue) /\ QueueInv(saved) /\ queue.sequence = 0
  BY EmptyInv DEF Init
<1>2. TypeOK
  BY <1>1 DEF Init, TypeOK, QueueInv
<1>3. CounterInv
  BY <1>1, ClientsAssumption DEF Init, CounterInv
<1> QED
  BY <1>1, <1>2, <1>3 DEF Inv

\* The effect of an enqueue on the sorted set.
LEMMA EnqueueStep ==
    ASSUME queue \in Queues, NEW j \in Jobs, NEW p \in Priorities, Enqueue(j, p)
    PROVE  /\ \A x : x \in queue'.ready <=>
                    \/ x \in queue.ready /\ x.member # queue.entries[j]
                    \/ x = [member |-> NewMember(queue, j), score |-> entry_score(p)]
           /\ NewMember(queue, j).job_id = j
           /\ NewMember(queue, j).sequence = queue.sequence + 1
<1> DEFINE s == entry_score(p)
<1>2. queue' = Enqueued(queue, j, s)
  BY DEF Enqueue
<1> DEFINE m == NewMember(queue, j)
<1>3. m.job_id = j /\ m.sequence = queue.sequence + 1
  BY DEF NewMember
<1> HIDE DEF s, m
<1>4. queue'.ready = {e \in queue.ready : e.member # queue.entries[j]}
                       \union {[member |-> m, score |-> s]}
  BY <1>2 DEF Enqueued, m
<1>5. \A x : x \in queue'.ready <=>
             \/ x \in queue.ready /\ x.member # queue.entries[j]
             \/ x = [member |-> m, score |-> s]
  BY <1>4
<1> QED
  BY <1>3, <1>5 DEF s, m

LEMMA EnqueueInv ==
    ASSUME Inv, NEW j \in Jobs, NEW p \in Priorities, Enqueue(j, p)
    PROVE  Inv'
<1> DEFINE s == entry_score(p)
<1>1. queue' = Enqueued(queue, j, s) /\ s \in 0..MAX_PRIORITY
  BY ScoreType, ClientsAssumption DEF Enqueue
<1> HIDE DEF s
<1>2. QueueInv(queue') /\ queue'.sequence = queue.sequence + 1 /\ queue' \in Queues
  <2>1. QueueInv(queue) /\ queue \in Queues
    BY DEF Inv, QueueInv
  <2>2. QueueInv(Enqueued(queue, j, s))
    BY <1>1, <2>1, EnqueuedInv
  <2>3. Enqueued(queue, j, s).sequence = queue.sequence + 1 /\ Enqueued(queue, j, s) \in Queues
    BY <2>2 DEF Enqueued, QueueInv
  <2> QED
    BY <1>1, <2>2, <2>3
<1>3. UNCHANGED <<saved, seen, late, base, rewound, restarts>>
  BY DEF Enqueue
<1>4. TypeOK'
  BY <1>2, <1>3 DEF Inv, TypeOK
<1>5. CounterInv'
  <2>1. queue.sequence \in Nat /\ base \in Nat /\ \A m \in seen : m.sequence \in Nat
    BY DEF Inv, TypeOK, Queues, Members
  <2>2. queue.sequence < MaxSequence /\ MaxSequence \in Nat
    BY ClientsAssumption DEF Enqueue
  <2> QED
    BY <1>2, <1>3, <2>1, <2>2 DEF Inv, CounterInv
<1> QED
  BY <1>2, <1>3, <1>4, <1>5 DEF Inv

LEMMA RemoveInv ==
    ASSUME Inv, NEW m \in seen \union late, Remove(m)
    PROVE  Inv'
<1>1. m \in Members
  BY DEF Inv, TypeOK
<1>2. QueueInv(queue') /\ queue'.sequence = queue.sequence /\ queue' \in Queues
  <2>1. QueueInv(queue) /\ queue \in Queues /\ queue' = Removed(queue, m)
    BY DEF Inv, QueueInv, Remove
  <2>2. QueueInv(Removed(queue, m))
    BY <1>1, <2>1, RemovedInv
  <2>3. Removed(queue, m).sequence = queue.sequence /\ Removed(queue, m) \in Queues
    BY <1>1, <2>1, RemovedQueue
  <2> QED
    BY <2>1, <2>2, <2>3
<1>3. UNCHANGED <<saved, seen, late, base, rewound, restarts>>
  BY DEF Remove
<1> QED
  BY <1>2, <1>3 DEF Inv, TypeOK, CounterInv

\* Who peeks or looks a job up has seen a number the counter has given out.
LEMMA ObserveInv ==
    ASSUME Inv, PeekHead \/ \E j \in Jobs : LookUp(j)
    PROVE  Inv'
<1>1. PICK e \in queue.ready : seen' = seen \union {e.member}
  <2>1. CASE PeekHead
    BY <2>1 DEF PeekHead
  <2>2. ASSUME NEW j \in Jobs, LookUp(j) PROVE \E e \in queue.ready : seen' = seen \union {e.member}
    BY <2>2 DEF LookUp, CurrentMember, Inv, QueueInv
  <2> QED
    BY <2>1, <2>2
<1>2. UNCHANGED <<queue, saved, late, base, rewound, restarts>>
  BY DEF PeekHead, LookUp
<1>3. e.member \in Members /\ e.member.sequence <= queue.sequence
  BY DEF Inv, QueueInv, Queues
<1> QED
  BY <1>1, <1>2, <1>3 DEF Inv, TypeOK, CounterInv

\* The keys on disk are keys Redis once had; what was seen becomes late, and its
\* numbers are below the counter unless that was set back.
LEMMA RestartInv ==
    ASSUME Inv, Restart
    PROVE  Inv'
<1>1. /\ queue' = saved /\ saved' = saved /\ seen' = {} /\ late' = late \union seen
      /\ base' = saved.sequence /\ restarts' = restarts + 1
      /\ rewound' = (rewound \/ saved.sequence < queue.sequence)
  BY DEF Restart
<1>2. /\ queue.sequence \in Nat /\ saved.sequence \in Nat /\ base \in Nat /\ restarts \in Nat
      /\ \A m \in seen \union late : m.sequence \in Nat
  BY DEF Inv, TypeOK, Queues, Members
<1>3. TypeOK'
  BY <1>1, <1>2 DEF Inv, TypeOK
<1>4. CounterInv'
  <2>1. ASSUME ~rewound', NEW m \in late' PROVE m.sequence <= base'
    <3>1. ~rewound /\ ~(saved.sequence < queue.sequence)
      BY <1>1, <2>1, Zenon
    <3>2. m.sequence <= queue.sequence
      BY <1>1, <1>2, <2>1, <3>1 DEF Inv, CounterInv
    <3> QED
      BY <1>1, <1>2, <2>1, <3>1, <3>2
  <2> QED
    BY <1>1, <1>2, <2>1 DEF Inv, CounterInv
<1> QED
  BY <1>1, <1>3, <1>4 DEF Inv

LEMMA NextInv == Inv /\ [Next]_vars => Inv'
<1> SUFFICES ASSUME Inv, [Next]_vars PROVE Inv'
  OBVIOUS
<1>1. CASE Save
  BY <1>1 DEF Save, Inv, TypeOK, CounterInv
<1>2. CASE UNCHANGED vars
  BY <1>2 DEF vars, Inv, TypeOK, CounterInv
<1> QED
  BY <1>1, <1>2, EnqueueInv, RemoveInv, ObserveInv, RestartInv DEF Next

\* The three keys are in order and the clients know no number of the future, in
\* every reachable state.
THEOREM Invariance == Spec => []Inv
BY InitInv, NextInv, PTL DEF Spec

-----------------------------------------------------------------------------
(* The properties. *)

\* Scores stay within the band of the priorities, and members are a sequence and
\* a job, under any clients.
THEOREM TypeCorrect == Spec => []TypeOK
<1>1. Inv => TypeOK
  BY DEF Inv
<1> QED
  BY <1>1, Invariance, PTL

\* The sorted set and the hash agree whatever clients do, however late, and
\* whenever Redis restarts.
THEOREM SetMatchesHashTheorem == Spec => []SetMatchesHash
<1>1. Inv => SetMatchesHash
  BY DEF Inv, QueueInv, SetMatchesHash
<1> QED
  BY <1>1, Invariance, PTL

\* A late removal never takes away an entry its caller has not seen, and one from
\* before a restart takes a newer one only if the counter was set back.
THEOREM LateRemovalTheorem == Spec => LateRemovalHarmless
<1> DEFINE A == \A j \in Jobs :
         /\ restarts' = restarts
         /\ queue.entries[j] # NoEntry
         /\ \A e \in queue'.ready : e.member.job_id # j
         => /\ queue'.entries[j] = NoEntry
            /\ \/ queue.entries[j] \in seen
               \/ /\ queue.entries[j] \in late
                  /\ queue.entries[j].sequence <= base \/ rewound
<1>1. ASSUME Inv, [Next]_vars PROVE [A]_vars
  <2> SUFFICES ASSUME Next, NEW j \in Jobs, queue.entries[j] # NoEntry, restarts' = restarts,
                      \A e \in queue'.ready : e.member.job_id # j
               PROVE  /\ queue'.entries[j] = NoEntry
                      /\ \/ queue.entries[j] \in seen
                         \/ /\ queue.entries[j] \in late
                            /\ queue.entries[j].sequence <= base \/ rewound
    BY <1>1
  <2>0. queue \in Queues /\ seen \subseteq Members /\ late \subseteq Members /\ restarts \in Nat
    BY <1>1 DEF Inv, TypeOK
  <2>1. PICK e \in queue.ready : e.member = queue.entries[j] /\ e.member.job_id = j
    BY <1>1 DEF Inv, QueueInv
  <2>2. ASSUME NEW k \in Jobs, NEW p \in Priorities, Enqueue(k, p) PROVE FALSE
    <3> DEFINE s == entry_score(p)
    <3>2. /\ \A x : x \in queue'.ready <=>
                  \/ x \in queue.ready /\ x.member # queue.entries[k]
                  \/ x = [member |-> NewMember(queue, k), score |-> s]
          /\ NewMember(queue, k).job_id = k
      BY <2>0, <2>2, EnqueueStep
    <3>3. [member |-> NewMember(queue, k), score |-> s].member = NewMember(queue, k)
      OBVIOUS
    <3>4. k # j
      BY <3>2, <3>3
    <3>5. queue.entries[k] # NoEntry => queue.entries[k].job_id = k
      BY <1>1 DEF Inv, QueueInv
    <3>6. e.member # queue.entries[k]
      BY <2>1, <3>4, <3>5
    <3> QED
      BY <2>1, <3>2, <3>6
  <2>3. ASSUME NEW m \in seen \union late, Remove(m)
        PROVE  /\ queue'.entries[j] = NoEntry
               /\ \/ queue.entries[j] \in seen
                  \/ /\ queue.entries[j] \in late
                     /\ queue.entries[j].sequence <= base \/ rewound
    <3>1. /\ queue'.ready = {x \in queue.ready : x.member # m}
          /\ queue'.entries[j] = IF queue.entries[j] = m /\ m.job_id = j
                                 THEN NoEntry ELSE queue.entries[j]
      BY <2>0, <2>3, RemovedQueue DEF Remove
    <3>2. e.member = m
      BY <2>1, <3>1
    <3>3. m \in late => m.sequence <= base \/ rewound
      BY <1>1 DEF Inv, CounterInv
    <3> QED
      BY <2>1, <3>1, <3>2, <3>3
  <2>4. CASE PeekHead \/ (\E k \in Jobs : LookUp(k)) \/ Save
    BY <2>1, <2>4 DEF PeekHead, LookUp, Save
  <2>5. ~Restart
    BY <2>0 DEF Restart
  <2> QED
    BY <2>2, <2>3, <2>4, <2>5 DEF Next
<1> QED
  BY <1>1, Invariance, PTL DEF Spec, LateRemovalHarmless

\* Newly added entries sort behind the waiting ones of their priority.
THEOREM NewcomersTheorem == Spec => NewcomersGoBehind
<1> DEFINE A == restarts' = restarts =>
         \A e \in queue'.ready \ queue.ready, f \in queue'.ready \intersect queue.ready :
            f.score <= e.score => Before(f, e)
<1>1. ASSUME Inv, [Next]_vars PROVE [A]_vars
  <2> SUFFICES ASSUME Next, restarts' = restarts, NEW e \in queue'.ready, e \notin queue.ready,
                      NEW f \in queue.ready, f.score <= e.score
               PROVE  Before(f, e)
    BY <1>1
  <2>0. queue \in Queues /\ seen \subseteq Members /\ late \subseteq Members /\ restarts \in Nat
    BY <1>1 DEF Inv, TypeOK
  <2>1. PICK k \in Jobs, p \in Priorities : Enqueue(k, p)
    <3>1. ASSUME NEW m \in seen \union late, Remove(m) PROVE FALSE
      BY <2>0, <3>1, RemovedQueue DEF Remove
    <3>2. ~Restart
      BY <2>0 DEF Restart
    <3> QED
      BY <3>1, <3>2 DEF Next, PeekHead, LookUp, Save
  <2> DEFINE s == entry_score(p)
             n == [member |-> NewMember(queue, k), score |-> s]
  <2>2. s \in 0..MAX_PRIORITY
    BY ScoreType, ClientsAssumption
  <2>3. /\ \A x : x \in queue'.ready <=>
                \/ x \in queue.ready /\ x.member # queue.entries[k]
                \/ x = n
        /\ NewMember(queue, k).sequence = queue.sequence + 1
    BY <2>0, <2>1, EnqueueStep
  <2>4. e = n /\ n.score = s /\ n.member.sequence = queue.sequence + 1
    BY <2>3
  <2> HIDE DEF n, s
  <2>5. /\ f.score \in Int /\ s \in Int /\ f.member.sequence \in Nat
        /\ queue.sequence \in Nat /\ f.member.sequence <= queue.sequence
    <3>1. f.score \in 0..MAX_PRIORITY /\ f.member \in Members /\ queue.sequence \in Nat
      BY <2>0 DEF Queues
    <3>2. f.member.sequence <= queue.sequence
      BY <1>1 DEF Inv, QueueInv
    <3> QED
      BY <2>2, <3>1, <3>2 DEF Members, MAX_PRIORITY
  <2> QED
    BY <2>4, <2>5 DEF Before
<1> QED
  BY <1>1, Invariance, PTL DEF Spec, NewcomersGoBehind

-----------------------------------------------------------------------------
(* The printed order.  The library's induction theorems cannot be used, so *)
(* each induction below is about the least counterexample.                 *)

\* A set of numbers has a least one.
LEMMA LeastNat ==
    ASSUME NEW T, T \subseteq Nat, T # {}
    PROVE  \E x \in T : \A y \in T : x <= y
<1> DEFINE R == OpToRel(<, Nat)
<1>1. IsWellFoundedOn(R, Nat)
  BY NatLessThanWellFounded, Zenon
<1>2. \A x, y \in Nat : <<y, x>> \in R <=> y < x
  BY DEF OpToRel
<1> HIDE DEF R
<1>3. PICK x \in T : \A y \in T : ~ (<<y, x>> \in R)
  BY <1>1, WFMin
<1>4. ASSUME NEW y \in T PROVE x <= y
  <2>1. x \in Nat /\ y \in Nat /\ <<y, x>> \notin R
    BY <1>3
  <2>2. ~(y < x)
    BY <1>2, <2>1
  <2> QED
    BY <2>1, <2>2
<1> QED
  BY <1>4

\* The values of the last n + 1 places.
PlacesUpTo(g, n) ==
    /\ g \in [0..n -> Nat \ {0}]
    /\ g[0] = 1
    /\ \A k \in 1..n : g[k] = Base * g[k - 1]

\* They exist, however many there are.
LEMMA PlacesExist == \A n \in Nat : \E g : PlacesUpTo(g, n)
<1> DEFINE T == {n \in Nat : ~\E g : PlacesUpTo(g, n)}
<1> SUFFICES ASSUME T # {} PROVE FALSE
  OBVIOUS
<1>1. PICK n \in T : \A y \in T : n <= y
  <2>1. T \subseteq Nat
    OBVIOUS
  <2> HIDE DEF T
  <2> QED
    BY <2>1, LeastNat
<1>2. n \in Nat /\ ~\E g : PlacesUpTo(g, n)
  OBVIOUS
<1>3. n # 0
  <2>1. PlacesUpTo([k \in 0..0 |-> 1], 0)
    BY DEF PlacesUpTo
  <2> QED
    BY <1>2, <2>1
<1>4. n - 1 \in Nat /\ n - 1 \notin T
  BY <1>1, <1>2, <1>3
<1>5. PICK g : PlacesUpTo(g, n - 1)
  BY <1>4
<1> DEFINE h == [k \in 0..n |-> IF k = n THEN Base * g[n - 1] ELSE g[k]]
<1>6. g[n - 1] \in Nat \ {0} /\ Base * g[n - 1] \in Nat \ {0}
  BY <1>2, <1>3, <1>5, PrintAssumption DEF PlacesUpTo
<1>7. h \in [0..n -> Nat \ {0}]
  BY <1>2, <1>3, <1>5, <1>6 DEF PlacesUpTo
<1>8. h[0] = 1
  BY <1>2, <1>3, <1>5 DEF PlacesUpTo
<1>9. ASSUME NEW k \in 1..n PROVE h[k] = Base * h[k - 1]
  BY <1>2, <1>3, <1>5 DEF PlacesUpTo
<1> QED
  BY <1>2, <1>7, <1>8, <1>9 DEF PlacesUpTo

\* They are the same, however many are computed.
LEMMA PlacesAgree ==
    ASSUME NEW n \in Nat, NEW m \in Nat, NEW g, NEW h,
           PlacesUpTo(g, n), PlacesUpTo(h, m), NEW k \in 0..n, k <= m
    PROVE  g[k] = h[k]
<1> DEFINE T == {i \in Nat : i <= n /\ i <= m /\ g[i] # h[i]}
<1> SUFFICES ASSUME T # {} PROVE FALSE
  OBVIOUS
<1>1. PICK i \in T : \A y \in T : i <= y
  <2>1. T \subseteq Nat
    OBVIOUS
  <2> HIDE DEF T
  <2> QED
    BY <2>1, LeastNat
<1>2. i \in Nat /\ i <= n /\ i <= m /\ g[i] # h[i]
  OBVIOUS
<1>3. i # 0
  BY <1>2 DEF PlacesUpTo
<1>4. i - 1 \in Nat /\ i - 1 \notin T
  BY <1>1, <1>2, <1>3
<1>5. g[i - 1] = h[i - 1]
  BY <1>2, <1>4
<1> QED
  BY <1>2, <1>3, <1>5 DEF PlacesUpTo

\* The recursive definition of the places has a solution, so it can be unfolded.
LEMMA PlaceEquation == Place = [k \in Nat |-> IF k = 0 THEN 1 ELSE Base * Place[k - 1]]
<1> DEFINE first(n) == CHOOSE g : PlacesUpTo(g, n)
           f == [k \in Nat |-> first(k)[k]]
<1>1. \A n \in Nat : PlacesUpTo(first(n), n)
  BY PlacesExist
<1> HIDE DEF first
<1>2. f = [k \in Nat |-> IF k = 0 THEN 1 ELSE Base * f[k - 1]]
  <2>1. ASSUME NEW k \in Nat PROVE f[k] = IF k = 0 THEN 1 ELSE Base * f[k - 1]
    <3>1. CASE k = 0
      BY <1>1, <3>1 DEF PlacesUpTo
    <3>2. CASE k # 0
      <4>1. k - 1 \in Nat /\ k - 1 \in 0..k /\ k - 1 \in 0..(k - 1) /\ k \in 1..k
        BY <3>2
      <4>2. PlacesUpTo(first(k), k) /\ PlacesUpTo(first(k - 1), k - 1)
        BY <1>1, <4>1
      <4>3. first(k)[k] = Base * first(k)[k - 1]
        BY <4>1, <4>2 DEF PlacesUpTo
      <4>4. first(k)[k - 1] = first(k - 1)[k - 1]
        BY <4>1, <4>2, PlacesAgree
      <4> QED
        BY <3>2, <4>1, <4>3, <4>4
    <3> QED
      BY <3>1, <3>2
  <2> QED
    BY <2>1
<1> HIDE DEF f
<1>3. \E g : g = [k \in Nat |-> IF k = 0 THEN 1 ELSE Base * g[k - 1]]
  BY <1>2
<1> QED
  BY <1>3 DEF Place

\* The last place counts one, the one before it Base times as much.
LEMMA PlaceValues ==
    /\ Place[0] = 1
    /\ \A k \in Nat : Place[k + 1] = Base * Place[k]
    /\ \A k \in Nat : Place[k] \in Nat \ {0}
<1>1. \A k \in Nat : Place[k] = IF k = 0 THEN 1 ELSE Base * Place[k - 1]
  BY PlaceEquation
<1>2. ASSUME NEW k \in Nat PROVE Place[k + 1] = Base * Place[k]
  BY <1>1
<1>3. \A k \in Nat : Place[k] \in Nat \ {0}
  <2> DEFINE T == {i \in Nat : Place[i] \notin Nat \ {0}}
  <2> SUFFICES ASSUME T # {} PROVE FALSE
    OBVIOUS
  <2>1. PICK i \in T : \A y \in T : i <= y
    <3>1. T \subseteq Nat
      OBVIOUS
    <3> HIDE DEF T
    <3> QED
      BY <3>1, LeastNat
  <2>2. i # 0
    BY <1>1
  <2>3. i - 1 \in Nat /\ i - 1 \notin T
    BY <2>1, <2>2
  <2>4. Place[i] = Base * Place[i - 1] /\ Place[i - 1] \in Nat \ {0}
    BY <1>1, <2>2, <2>3
  <2> QED
    BY <2>4, PrintAssumption
<1> QED
  BY <1>1, <1>2, <1>3

\* What is left of a number when its last Width - i digits are cut off.
Prefix(n, i) == n \div Place[Width - i]

\* Dividing by a product divides twice.
LEMMA DivideTwice ==
    ASSUME NEW n \in Nat, NEW b \in Nat \ {0}, NEW c \in Nat \ {0}
    PROVE  n \div (b * c) = (n \div c) \div b
OBVIOUS

\* Quotient and remainder.
LEMMA DivideOnce ==
    ASSUME NEW n \in Nat, NEW b \in Nat \ {0}
    PROVE  n = b * (n \div b) + (n % b) /\ n % b \in 0..(b - 1)
OBVIOUS

\* Prefixes of a number that fits grow from nothing to the number, one digit at
\* a time.
LEMMA Prefixes ==
    ASSUME NEW n \in Nat, n < Place[Width]
    PROVE  /\ \A i \in 0..Width : Prefix(n, i) \in Nat
           /\ Prefix(n, 0) = 0
           /\ Prefix(n, Width) = n
           /\ \A i \in 1..Width : /\ Prefix(n, i) = Base * Prefix(n, i - 1) + Digit(n, i)
                                  /\ Digit(n, i) \in 0..(Base - 1)
<1>0. Base \in Nat \ {0, 1} /\ Width \in Nat
  BY PrintAssumption
<1>1. \A i \in 0..Width : Width - i \in Nat /\ Place[Width - i] \in Nat \ {0}
  BY <1>0, PlaceValues
<1>2. \A i \in 0..Width : Prefix(n, i) \in Nat
  BY <1>1 DEF Prefix
<1>3. Prefix(n, 0) = 0
  BY <1>0, <1>1 DEF Prefix
<1>4. Prefix(n, Width) = n
  BY <1>0, PlaceValues DEF Prefix
<1>5. ASSUME NEW i \in 1..Width
      PROVE  /\ Prefix(n, i) = Base * Prefix(n, i - 1) + Digit(n, i)
             /\ Digit(n, i) \in 0..(Base - 1)
  <2> DEFINE c == Place[Width - i]
  <2>1. c \in Nat \ {0} /\ Place[Width - (i - 1)] = Base * c
    <3>1. Width - i \in Nat /\ Width - (i - 1) = (Width - i) + 1
      BY <1>0
    <3> QED
      BY <3>1, PlaceValues
  <2>2. Prefix(n, i) = n \div c /\ Digit(n, i) = (n \div c) % Base
        /\ Prefix(n, i - 1) = n \div (Base * c)
    BY <2>1 DEF Prefix, Digit
  <2> HIDE DEF c
  <2>3. n \div (Base * c) = (n \div c) \div Base
    BY <1>0, <2>1, DivideTwice
  <2>4. n \div c \in Nat
    BY <2>1
  <2>5. /\ n \div c = Base * ((n \div c) \div Base) + ((n \div c) % Base)
        /\ (n \div c) % Base \in 0..(Base - 1)
    BY <1>0, <2>4, DivideOnce
  <2> QED
    BY <2>2, <2>3, <2>5
<1> QED
  BY <1>2, <1>3, <1>4, <1>5

\* Prefixes keep the order of the numbers.
LEMMA PrefixMonotone ==
    ASSUME NEW n \in Nat, NEW m \in Nat, n <= m, NEW i \in 0..Width
    PROVE  Prefix(n, i) <= Prefix(m, i)
<1>1. Place[Width - i] \in Nat \ {0}
  BY PrintAssumption, PlaceValues
<1> QED
  BY <1>1 DEF Prefix

\* Equal digits make equal prefixes.
LEMMA EqualDigits ==
    ASSUME NEW n \in Nat, NEW m \in Nat, n < Place[Width], m < Place[Width],
           NEW i \in 0..Width, \A k \in 1..i : Digit(n, k) = Digit(m, k)
    PROVE  Prefix(n, i) = Prefix(m, i)
<1> DEFINE T == {k \in Nat : k <= i /\ Prefix(n, k) # Prefix(m, k)}
<1> SUFFICES ASSUME T # {} PROVE FALSE
  BY PrintAssumption
<1>1. PICK k \in T : \A y \in T : k <= y
  <2>1. T \subseteq Nat
    OBVIOUS
  <2> HIDE DEF T
  <2> QED
    BY <2>1, LeastNat
<1>2. k \in Nat /\ k <= i /\ Prefix(n, k) # Prefix(m, k) /\ Width \in Nat
  BY PrintAssumption
<1>3. k # 0
  BY <1>2, Prefixes
<1>4. k - 1 \in Nat /\ k - 1 \notin T /\ k - 1 <= i
  BY <1>1, <1>2, <1>3
<1>5. Prefix(n, k - 1) = Prefix(m, k - 1)
  BY <1>4
<1>6. k \in 1..Width /\ k \in 1..i
  BY <1>2, <1>3
<1>7. /\ Prefix(n, k) = Base * Prefix(n, k - 1) + Digit(n, k)
      /\ Prefix(m, k) = Base * Prefix(m, k - 1) + Digit(m, k)
  BY <1>6, Prefixes
<1> QED
  BY <1>2, <1>5, <1>6, <1>7

\* A smaller number has a smaller digit before any other digit is larger.
LEMMA FirstDifference ==
    ASSUME NEW n \in Nat, NEW m \in Nat, n < m, m < Place[Width]
    PROVE  \E i \in 1..Width : /\ Digit(n, i) < Digit(m, i)
                               /\ \A k \in 1..(i - 1) : Digit(n, k) = Digit(m, k)
<1>0. Base \in Nat \ {0, 1} /\ Width \in Nat /\ Place[Width] \in Nat /\ n < Place[Width]
  <2>1. Base \in Nat \ {0, 1} /\ Width \in Nat /\ Place[Width] \in Nat
    BY PrintAssumption, PlaceValues
  <2> QED
    BY <2>1
<1> DEFINE T == {k \in Nat : k <= Width /\ Prefix(n, k) # Prefix(m, k)}
<1>1. Width \in T
  BY <1>0, Prefixes
<1>2. PICK i \in T : \A y \in T : i <= y
  <2>1. T \subseteq Nat /\ T # {}
    BY <1>1
  <2> HIDE DEF T
  <2> QED
    BY <2>1, LeastNat
<1>3. i \in Nat /\ i <= Width /\ Prefix(n, i) # Prefix(m, i)
  OBVIOUS
<1>4. i # 0
  BY <1>0, <1>3, Prefixes
<1>5. i \in 1..Width /\ i \in 0..Width /\ i - 1 \in 0..Width
  BY <1>0, <1>3, <1>4
<1>6. \A k \in 0..(i - 1) : Prefix(n, k) = Prefix(m, k)
  <2>1. ASSUME NEW k \in 0..(i - 1), Prefix(n, k) # Prefix(m, k) PROVE FALSE
    <3>1. k \in Nat /\ k <= Width /\ k < i
      BY <1>0, <1>3
    <3>2. k \in T
      BY <2>1, <3>1
    <3> QED
      BY <1>2, <1>3, <3>1, <3>2
  <2> QED
    BY <2>1
<1> HIDE DEF T
<1>7. /\ Prefix(n, i) = Base * Prefix(n, i - 1) + Digit(n, i)
      /\ Prefix(m, i) = Base * Prefix(m, i - 1) + Digit(m, i)
      /\ Prefix(n, i) \in Nat /\ Prefix(m, i) \in Nat
      /\ Digit(n, i) \in Nat /\ Digit(m, i) \in Nat
      /\ Prefix(n, i - 1) = Prefix(m, i - 1)
      /\ Prefix(n, i - 1) \in Nat
  <2>1. i - 1 \in 0..(i - 1)
    BY <1>3, <1>4
  <2> QED
    BY <1>0, <1>5, <1>6, <2>1, Prefixes
<1>8. Prefix(n, i) <= Prefix(m, i)
  BY <1>5, PrefixMonotone
<1>9. Digit(n, i) < Digit(m, i)
  <2>1. Prefix(n, i) < Prefix(m, i)
    BY <1>3, <1>7, <1>8
  <2>2. Base * Prefix(n, i - 1) \in Nat
    BY <1>0, <1>7
  <2>3. Base * Prefix(n, i - 1) = Base * Prefix(m, i - 1)
    BY <1>7
  <2> QED
    BY <1>7, <2>1, <2>2, <2>3
<1>10. ASSUME NEW k \in 1..(i - 1) PROVE Digit(n, k) = Digit(m, k)
  <2>1. k \in 1..Width /\ k \in 0..(i - 1) /\ k - 1 \in 0..(i - 1) /\ k \in 0..Width /\ k - 1 \in 0..Width
    BY <1>0, <1>3
  <2>2. Prefix(n, k) = Prefix(m, k) /\ Prefix(n, k - 1) = Prefix(m, k - 1)
    BY <1>6, <2>1
  <2>3. /\ Prefix(n, k) = Base * Prefix(n, k - 1) + Digit(n, k)
        /\ Prefix(m, k) = Base * Prefix(m, k - 1) + Digit(m, k)
        /\ Digit(n, k) \in Nat /\ Digit(m, k) \in Nat
        /\ Prefix(n, k - 1) \in Nat
    BY <1>0, <2>1, Prefixes
  <2>4. Base * Prefix(n, k - 1) \in Nat /\ Base * Prefix(n, k - 1) = Base * Prefix(m, k - 1)
    BY <1>0, <2>2, <2>3
  <2>5. Base * Prefix(n, k - 1) + Digit(n, k) = Base * Prefix(n, k - 1) + Digit(m, k)
    BY <2>2, <2>3, <2>4
  <2> HIDE DEF Prefix, Digit
  <2> QED
    BY <2>3, <2>4, <2>5
<1> QED
  BY <1>5, <1>9, <1>10

\* A member is printed with all its digits, then the colon.
LEMMA PrintedDigits ==
    ASSUME NEW m \in Members
    PROVE  /\ DOMAIN Printed(m) = 1..(Width + 1)
           /\ \A i \in 1..Width : Printed(m)[i] = Digit(m.sequence, i)
           /\ Printed(m)[Width + 1] = Colon
<1> DEFINE d == Formatted(m.sequence)
<1>1. Base \in Nat \ {0, 1} /\ Width \in Nat /\ m.sequence \in Nat
  BY PrintAssumption DEF Members
<1>2. \A i \in 1..Width : Digit(m.sequence, i) \in Nat
  <2>1. ASSUME NEW i \in 1..Width PROVE Digit(m.sequence, i) \in Nat
    <3>1. Width - i \in Nat
      BY <1>1
    <3>2. Place[Width - i] \in Nat \ {0}
      BY <3>1, PlaceValues
    <3> QED
      BY <1>1, <3>2 DEF Digit
  <2> QED
    BY <2>1
<1>3. d = [i \in 1..Width |-> Digit(m.sequence, i)]
  BY DEF Formatted
<1> HIDE DEF d
<1>4. d \in Seq(Nat) /\ Len(d) = Width
  BY <1>1, <1>2, <1>3
<1>5. <<Colon>> \in Seq(Nat) /\ Len(<<Colon>>) = 1 /\ <<Colon>>[1] = Colon
  BY <1>1 DEF Colon
<1>6. Printed(m) = d \o <<Colon>>
  BY DEF Printed, d
<1> QED
  BY <1>1, <1>3, <1>4, <1>5, <1>6

\* Of two numbers that fit, the smaller one prints first.
LEMMA PrintedOrder ==
    ASSUME NEW a \in Members, NEW b \in Members,
           a.sequence < Place[Width], b.sequence < Place[Width]
    PROVE  a.sequence < b.sequence <=> SortsBefore(Printed(a), Printed(b))
<1> DEFINE n == a.sequence
           m == b.sequence
<1>0. n \in Nat /\ m \in Nat /\ Width \in Nat /\ Base \in Nat
  BY PrintAssumption DEF Members
<1>1. /\ DOMAIN Printed(a) = 1..(Width + 1) /\ DOMAIN Printed(b) = 1..(Width + 1)
      /\ \A i \in 1..Width : Printed(a)[i] = Digit(n, i) /\ Printed(b)[i] = Digit(m, i)
      /\ Printed(a)[Width + 1] = Colon /\ Printed(b)[Width + 1] = Colon
  BY PrintedDigits
<1>2. n < Place[Width] /\ m < Place[Width]
  OBVIOUS
<1> HIDE DEF n, m
<1>3. ASSUME n < m PROVE SortsBefore(Printed(a), Printed(b))
  <2>1. PICK i \in 1..Width : /\ Digit(n, i) < Digit(m, i)
                              /\ \A k \in 1..(i - 1) : Digit(n, k) = Digit(m, k)
    BY <1>0, <1>2, <1>3, FirstDifference
  <2>2. i \in 1..(Width + 1) /\ \A k \in 1..(i - 1) : k \in 1..Width
    BY <1>0
  <2>3. Printed(a)[i] < Printed(b)[i] /\ \A k \in 1..(i - 1) : Printed(a)[k] = Printed(b)[k]
    BY <1>1, <2>1, <2>2
  <2> QED
    BY <1>1, <2>2, <2>3 DEF SortsBefore
<1>4. ASSUME SortsBefore(Printed(a), Printed(b)) PROVE n < m
  <2>1. PICK i \in 1..(Width + 1) : /\ Printed(a)[i] < Printed(b)[i]
                                    /\ \A k \in 1..(i - 1) : Printed(a)[k] = Printed(b)[k]
    BY <1>1, <1>4 DEF SortsBefore
  <2>2. i # Width + 1
    BY <1>0, <1>1, <2>1 DEF Colon
  <2>3. /\ i \in 1..Width /\ i \in 0..Width /\ i - 1 \in 0..Width
        /\ \A k \in 1..(i - 1) : k \in 1..Width
    BY <1>0, <2>2
  <2>4. Digit(n, i) < Digit(m, i) /\ \A k \in 1..(i - 1) : Digit(n, k) = Digit(m, k)
    BY <1>1, <2>1, <2>3
  <2>5. Prefix(n, i - 1) = Prefix(m, i - 1)
    BY <1>0, <1>2, <2>3, <2>4, EqualDigits
  <2>6. /\ Prefix(n, i) = Base * Prefix(n, i - 1) + Digit(n, i)
        /\ Prefix(m, i) = Base * Prefix(m, i - 1) + Digit(m, i)
        /\ Prefix(n, i) \in Nat /\ Prefix(m, i) \in Nat
        /\ Digit(n, i) \in Nat /\ Digit(m, i) \in Nat
        /\ Prefix(n, i - 1) \in Nat
    BY <1>0, <1>2, <2>3, Prefixes
  <2>7. Base * Prefix(n, i - 1) \in Nat /\ Base * Prefix(n, i - 1) = Base * Prefix(m, i - 1)
    BY <1>0, <2>5, <2>6
  <2>8. Prefix(n, i) < Prefix(m, i)
    BY <2>4, <2>6, <2>7
  <2>9. ~(m <= n)
    BY <1>0, <2>3, <2>6, <2>8, PrefixMonotone
  <2> QED
    BY <1>0, <2>9
<1> QED
  BY <1>3, <1>4 DEF n, m

\* The members Redis compares as strings come in the order of their numbers, for
\* every base, width and bound of the counter that the width can print, and with
\* whatever a restart brings back.
THEOREM PrintedOrderTheorem == Spec => []PrintedOrderMatches
<1>1. Inv => PrintedOrderMatches
  <2> SUFFICES ASSUME Inv, NEW e \in queue.ready, NEW f \in queue.ready, e.score = f.score
               PROVE  Before(e, f) <=> SortsBefore(Printed(e.member), Printed(f.member))
    BY DEF PrintedOrderMatches
  <2>1. /\ e.member \in Members /\ f.member \in Members /\ e.score \in Int
        /\ queue.sequence \in Nat
    <3>1. /\ e.member \in Members /\ f.member \in Members /\ e.score \in 0..MAX_PRIORITY
          /\ queue.sequence \in Nat
      BY DEF Inv, TypeOK, Queues
    <3> QED
      BY <3>1 DEF MAX_PRIORITY
  <2>2. /\ e.member.sequence <= queue.sequence /\ f.member.sequence <= queue.sequence
        /\ queue.sequence <= MaxSequence
        /\ e.member.sequence \in Nat /\ f.member.sequence \in Nat
    BY <2>1 DEF Inv, QueueInv, CounterInv, Members
  <2>3. MaxSequence \in Nat /\ MaxSequence < Place[Width] /\ Place[Width] \in Nat
    BY ClientsAssumption, PrintAssumption, PlaceValues
  <2>4. e.member.sequence < Place[Width] /\ f.member.sequence < Place[Width]
    BY <2>1, <2>2, <2>3
  <2>5. e.member.sequence < f.member.sequence
          <=> SortsBefore(Printed(e.member), Printed(f.member))
    BY <2>1, <2>4, PrintedOrder
  <2> QED
    BY <2>1, <2>5 DEF Before
<1> QED
  BY <1>1, Invariance, PTL
=============================================================================
