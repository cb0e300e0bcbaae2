-------------------------- MODULE IdempotencyProofs --------------------------
(***************************************************************************)
(* Theorems about Idempotency, for any number of requests, any TTL and any *)
(* bound on the clock.                                                     *)
(***************************************************************************)
EXTENDS Idempotency, TLAPS

-----------------------------------------------------------------------------
(* The inductive invariant. *)

\* What was read from the clock is not in the future.
StampPast ==
    /\ \A r \in Requests : stamp[r] <= now
    /\ \A j \in Requests : rows[j].built <= now

\* The jobs of the key: a job's request is over; the key is on exactly one of
\* them, and all the others were built a TTL or more before that one.
KeySound ==
    /\ \A j \in Requests : Job(j) => pc[j] = "answered"
    /\ \A j \in Requests : Job(j) => \E k \in Requests : rows[k].state = "keyed"
    /\ \A j, k \in Requests : Job(j) /\ rows[k].state = "keyed" /\ j # k =>
            rows[j].state = "plain" /\ rows[j].built + TTL <= rows[k].built
    /\ OneJobPerWindow

\* One open transaction at most has taken the key off its row, and that row
\* had run out when it read the clock.
ReleaseSound ==
    /\ \A r \in Requests : released[r] # NULL =>
            /\ rows[released[r]].state = "keyed"
            /\ rows[released[r]].built + TTL <= stamp[r]
    /\ \A q, r \in Requests : released[q] # NULL /\ released[r] # NULL => q = r

\* One open transaction at most has inserted the key; if some committed row has
\* it, it is the one this transaction took it from.
InsertSound ==
    /\ \A q, r \in Requests : inserted[q] /\ inserted[r] => q = r
    /\ \A q, r \in Requests : inserted[r] /\ q # r => released[q] = NULL
    /\ \A k, r \in Requests : inserted[r] /\ rows[k].state = "keyed" => released[r] = k

\* A lost race has a winner, and an error an expired one.
ConflictSound ==
    /\ \A r \in Requests : pc[r] \in {"rollback", "reload"} => \E j \in Requests : Job(j)
    /\ RaisesOnlyAfterExpiry

\* A request that found a live owner when it was submitted has not got past its
\* first look-up.
MustSound ==
    \A r \in Requests : must[r] # NULL =>
        /\ pc[r] \in {"find"} \union Ended
        /\ Job(must[r])
        /\ pc[r] = "find" => LiveAt(must[r], stamp[r])

IInv ==
    /\ TypeOK
    /\ StampPast
    /\ KeySound
    /\ ReleaseSound
    /\ InsertSound
    /\ ConflictSound
    /\ MustSound

\* No row and no open transaction: the invariant holds at the start.
LEMMA InitInv == Init => IInv
<1> SUFFICES ASSUME Init PROVE IInv
    OBVIOUS
<1> USE IdempotencyAssumption
<1>1. TypeOK
  <2>1. rows \in [Requests -> [state : {"absent", "keyed", "plain"}, built : 0..MaxTime]]
      BY DEF Init, NoJob
  <2>2. \A r \in Requests : inserted[r] = (pc[r] = "commit")
      BY DEF Init
  <2>3. inserted \in [Requests -> BOOLEAN]
      BY DEF Init
  <2>4. now \in 0..MaxTime /\ stamp \in [Requests -> 0..MaxTime]
      BY DEF Init
  <2>5. pc \in [Requests -> {"idle"} \union InTransaction \union Ended]
      BY DEF Init
  <2>6. \A r \in Requests : target[r] = NULL /\ released[r] = NULL
      BY DEF Init
  <2>7. /\ target \in [Requests -> Requests \union {NULL}]
        /\ released \in [Requests -> Requests \union {NULL}]
        /\ answer \in [Requests -> Requests \union {NULL}]
        /\ must \in [Requests -> Requests \union {NULL}]
      BY DEF Init
  <2> QED
      BY <2>1, <2>2, <2>3, <2>4, <2>5, <2>6, <2>7 DEF TypeOK
<1>2. StampPast /\ KeySound /\ ReleaseSound /\ InsertSound
    BY DEF Init, NoJob, StampPast, KeySound, ReleaseSound, InsertSound, Job, OneJobPerWindow
<1>3. ConflictSound /\ MustSound
    BY DEF Init, NoJob, ConflictSound, MustSound, Job, RaisesOnlyAfterExpiry
<1> QED
    BY <1>1, <1>2, <1>3 DEF IInv

-----------------------------------------------------------------------------
(* One lemma per group of actions. *)

\* Steps that only look: no row, no lock and no key changes hands.
LEMMA LookInv ==
    ASSUME IInv, NEW r \in Requests,
           \/ Submit(r) \/ FindHit(r) \/ FindMiss(r) \/ ReleaseScan(r)
           \/ Rollback(r) \/ ReloadHit(r) \/ ReloadMiss(r)
    PROVE  IInv'
<1> USE IdempotencyAssumption
<1>0. rows' = rows /\ released' = released /\ inserted' = inserted /\ now' = now
    BY DEF Submit, FindHit, FindMiss, ReleaseScan, Rollback, ReloadHit, ReloadMiss
<1>t. TypeOK /\ TypeOK'
  <2>0. TypeOK /\ InTransaction = InTransaction
      BY DEF IInv
  <2>1. CASE Submit(r)
      BY <2>0, <2>1 DEF TypeOK, Submit, InTransaction, Ended, ActiveAt, Keyed
  <2>2. CASE FindHit(r)
      BY <2>0, <2>2 DEF TypeOK, FindHit, InTransaction, Ended, ActiveAt, Keyed
  <2>3. CASE FindMiss(r)
      BY <2>0, <2>3 DEF TypeOK, FindMiss, InTransaction, Ended
  <2>4. CASE ReleaseScan(r)
      BY <2>0, <2>4 DEF TypeOK, ReleaseScan, InTransaction, Ended
  <2>5. CASE Rollback(r)
      BY <2>0, <2>5 DEF TypeOK, Rollback, InTransaction, Ended
  <2>6. CASE ReloadHit(r)
      BY <2>0, <2>6 DEF TypeOK, ReloadHit, InTransaction, Ended, ActiveAt, Keyed
  <2>7. CASE ReloadMiss(r)
      BY <2>0, <2>7 DEF TypeOK, ReloadMiss, InTransaction, Ended
  <2> QED
      BY <2>0, <2>1, <2>2, <2>3, <2>4, <2>5, <2>6, <2>7
<1>s. /\ \A q \in Requests : stamp'[q] = stamp[q] \/ stamp'[q] = now
      /\ \A q \in Requests : released[q] # NULL => stamp'[q] = stamp[q]
      /\ \A q \in Requests : pc[q] = "answered" => pc'[q] = "answered"
    BY <1>t DEF TypeOK, Submit, FindHit, FindMiss, ReleaseScan, Rollback, ReloadHit, ReloadMiss
<1>1. StampPast'
    BY <1>0, <1>t, <1>s DEF IInv, TypeOK, StampPast
<1>2. KeySound'
    BY <1>0, <1>s DEF IInv, KeySound, Job, OneJobPerWindow
<1>3. ReleaseSound'
    BY <1>0, <1>s DEF IInv, ReleaseSound
<1>4. InsertSound'
    BY <1>0 DEF IInv, InsertSound
<1>5. ConflictSound'
  <2>1. \A q \in Requests : pc'[q] \in {"rollback", "reload"} => pc[q] \in {"rollback", "reload"}
      BY <1>t DEF TypeOK, Submit, FindHit, FindMiss, ReleaseScan, Rollback, ReloadHit, ReloadMiss
  <2>2. \A q \in Requests : pc'[q] = "raised" =>
            pc[q] = "raised" \/ (pc[q] = "reload" /\ ActiveAt(stamp[q]) = {})
      BY <1>t DEF TypeOK, Submit, FindHit, FindMiss, ReleaseScan, Rollback, ReloadHit, ReloadMiss
  <2>3. ASSUME NEW q \in Requests, pc[q] = "reload", ActiveAt(stamp[q]) = {}
        PROVE  \E j \in Requests : Job(j) /\ rows[j].built + TTL <= now
    <3>1. PICK k \in Requests : rows[k].state = "keyed"
        BY <2>3 DEF IInv, ConflictSound, KeySound
    <3>2. ~LiveAt(k, stamp[q])
        BY <2>3, <3>1 DEF ActiveAt, Keyed
    <3> QED
        BY <3>1, <3>2, <1>t DEF IInv, StampPast, TypeOK, LiveAt, Job
  <2>4. RaisesOnlyAfterExpiry'
      BY <1>0, <2>2, <2>3 DEF IInv, ConflictSound, RaisesOnlyAfterExpiry, Job
  <2> QED
      BY <1>0, <2>1, <2>4 DEF IInv, ConflictSound, Job
<1>6. MustSound'
  <2> SUFFICES ASSUME NEW q \in Requests, must'[q] # NULL
               PROVE  /\ pc'[q] \in {"find"} \union Ended
                      /\ Job(must[q])' 
                      /\ pc'[q] = "find" => LiveAt(must[q], stamp[q])'
      BY DEF MustSound
  <2>1. CASE Submit(r) /\ q = r
    <3>1. must'[r] \in ActiveAt(now) /\ pc'[r] = "find" /\ stamp'[r] = now
        BY <2>1, <1>t DEF Submit, TypeOK
    <3> QED
        BY <2>1, <3>1, <1>0 DEF ActiveAt, Keyed, LiveAt, Job
  <2>2. CASE ~(Submit(r) /\ q = r)
    <3>1. must'[q] = must[q]
        BY <2>2, <1>t DEF TypeOK, Submit, FindHit, FindMiss, ReleaseScan, Rollback, ReloadHit, ReloadMiss
    <3>2. /\ Job(must[q]) /\ must[q] \in Requests
          /\ pc[q] \in {"find"} \union Ended
          /\ pc[q] = "find" => LiveAt(must[q], stamp[q])
        BY <3>1, <1>t DEF IInv, MustSound, TypeOK
    <3>3. ~(FindMiss(r) /\ q = r)
      <4> SUFFICES ASSUME pc[q] = "find", ActiveAt(stamp[q]) = {} PROVE FALSE
          BY DEF FindMiss
      <4>1. PICK k \in Requests : rows[k].state = "keyed"
          BY <3>2 DEF IInv, KeySound
      <4>2. ~LiveAt(k, stamp[q])
          BY <4>1 DEF ActiveAt, Keyed
      <4>3. k # must[q] => rows[must[q]].built + TTL <= rows[k].built
          BY <3>2, <4>1 DEF IInv, KeySound
      <4> QED
          BY <3>2, <4>1, <4>2, <4>3, <1>t DEF LiveAt, TypeOK
    <3>4. pc'[q] \in {"find"} \union Ended /\ (pc'[q] = "find" => pc[q] = "find" /\ stamp'[q] = stamp[q])
        BY <2>2, <3>2, <3>3, <1>t DEF TypeOK, Ended, Submit, FindHit, FindMiss, ReleaseScan,
                                  Rollback, ReloadHit, ReloadMiss
    <3> QED
        BY <3>1, <3>2, <3>4, <1>0 DEF Job, LiveAt
  <2> QED
      BY <2>1, <2>2
<1> QED
    BY <1>t, <1>1, <1>2, <1>3, <1>4, <1>5, <1>6 DEF IInv

\* Taking the key off an expired row: the row lock keeps everybody else out.
LEMMA ReleaseInv ==
    ASSUME IInv, NEW r \in Requests, ReleaseRow(r)
    PROVE  IInv'
<1> USE IdempotencyAssumption
<1>0. rows' = rows /\ inserted' = inserted /\ now' = now /\ answer' = answer /\ must' = must
    BY DEF ReleaseRow
<1>t. TypeOK /\ TypeOK'
    BY DEF IInv, TypeOK, ReleaseRow, InTransaction, Ended
<1>p. /\ pc[r] = "lock" /\ pc' = [pc EXCEPT ![r] = "insert"]
      /\ stamp' = [stamp EXCEPT ![r] = now]
      /\ \A q \in Requests : q # r => released'[q] = released[q]
    BY <1>t DEF ReleaseRow, TypeOK
<1>1. StampPast'
    BY <1>0, <1>p, <1>t DEF IInv, TypeOK, StampPast
<1>2. KeySound'
    BY <1>0, <1>p, <1>t DEF IInv, KeySound, Job, TypeOK, OneJobPerWindow
<1>a. ASSUME released'[r] # NULL
      PROVE  /\ released'[r] \in Requests
             /\ rows[released'[r]].state = "keyed"
             /\ rows[released'[r]].built + TTL <= stamp[r]
             /\ \A q \in Requests : q # r => released[q] = NULL /\ ~inserted[q]
  <2>1. /\ target[r] \in Requests /\ released'[r] = target[r]
        /\ Releasable(target[r], stamp[r]) /\ RowFree(r, target[r])
      BY <1>a, <1>t DEF ReleaseRow, TypeOK
  <2>2. rows[target[r]].state = "keyed" /\ rows[target[r]].built + TTL <= stamp[r]
      BY <2>1, <1>t DEF Releasable, LiveAt, TypeOK
  <2>3. ASSUME NEW q \in Requests, q # r PROVE released[q] = NULL
    <3>1. released[q] # target[r]
        BY <2>1, <2>3 DEF RowFree
    <3>2. released[q] # NULL => released[q] \in Requests /\ rows[released[q]].state = "keyed"
        BY <1>t DEF IInv, ReleaseSound, TypeOK
    <3> QED
        BY <2>1, <2>2, <3>1, <3>2 DEF IInv, KeySound, Job
  <2>4. ASSUME NEW q \in Requests, q # r PROVE ~inserted[q]
      BY <2>1, <2>2, <2>3, <2>4 DEF IInv, InsertSound
  <2> QED
      BY <2>1, <2>2, <2>3, <2>4
<1>3. ReleaseSound'
  <2>1. ASSUME NEW q \in Requests, released'[q] # NULL
        PROVE  rows[released'[q]].state = "keyed" /\ rows[released'[q]].built + TTL <= stamp'[q]
    <3>1. CASE q = r
      <4>1. /\ stamp[r] <= now /\ stamp[r] \in Int /\ now \in Int /\ stamp'[r] = now
            /\ rows[released'[r]].built \in Int
          BY <2>1, <3>1, <1>a, <1>p, <1>t DEF IInv, StampPast, TypeOK
      <4> QED
          BY <2>1, <3>1, <4>1, <1>a
    <3>2. CASE q # r
        BY <2>1, <3>2, <1>p, <1>t DEF IInv, ReleaseSound, TypeOK
    <3> QED
        BY <3>1, <3>2
  <2>2. \A q, s \in Requests : released'[q] # NULL /\ released'[s] # NULL => q = s
      BY <1>p, <1>a DEF IInv, ReleaseSound
  <2> QED
      BY <2>1, <2>2, <1>0 DEF ReleaseSound
<1>4. InsertSound'
    BY <1>0, <1>p, <1>a, <1>t DEF IInv, InsertSound, TypeOK
<1>5. ConflictSound'
    BY <1>0, <1>p, <1>t DEF IInv, ConflictSound, RaisesOnlyAfterExpiry, Job, TypeOK
<1>6. MustSound'
    BY <1>0, <1>p, <1>t DEF IInv, MustSound, LiveAt, Job, TypeOK, Ended
<1> QED
    BY <1>t, <1>1, <1>2, <1>3, <1>4, <1>5, <1>6 DEF IInv

\* The index decides: the insert goes ahead only when the key is free or mine.
LEMMA InsertInv ==
    ASSUME IInv, NEW r \in Requests, InsertOk(r) \/ InsertConflict(r)
    PROVE  IInv'
<1> USE IdempotencyAssumption
<1>0. rows' = rows /\ stamp' = stamp /\ now' = now /\ answer' = answer /\ must' = must
    BY DEF InsertOk, InsertConflict
<1>t. TypeOK /\ TypeOK'
  <2>0. TypeOK
      BY DEF IInv
  <2>1. CASE InsertOk(r)
    <3>1. \A q \in Requests : inserted'[q] = (pc'[q] = "commit")
        BY <2>0, <2>1 DEF TypeOK, InsertOk
    <3>2. inserted' \in [Requests -> BOOLEAN]
        BY <2>0, <2>1 DEF TypeOK, InsertOk
    <3>3. \A q \in Requests : released'[q] # NULL => pc'[q] \in {"insert", "commit"}
        BY <2>0, <2>1 DEF TypeOK, InsertOk
    <3> QED
        BY <2>0, <2>1, <3>1, <3>2, <3>3 DEF TypeOK, InsertOk, InTransaction, Ended
  <2>2. CASE InsertConflict(r)
      BY <2>0, <2>2 DEF TypeOK, InsertConflict, InTransaction, Ended
  <2> QED
      BY <2>0, <2>1, <2>2
<1>p. /\ pc[r] = "insert"
      /\ \A q \in Requests : q # r => pc'[q] = pc[q] /\ released'[q] = released[q]
                                      /\ inserted'[q] = inserted[q]
      /\ released'[r] \in {released[r], NULL}
      /\ pc'[r] \in {"commit", "rollback"}
      /\ \A q \in Requests : q # r => ~inserted[q] /\ released[q] = NULL
    BY <1>t DEF InsertOk, InsertConflict, TypeOK, IndexFree
<1>1. StampPast'
    BY <1>0 DEF IInv, StampPast
<1>2. KeySound'
    BY <1>0, <1>p, <1>t DEF IInv, KeySound, Job, OneJobPerWindow
<1>3. ReleaseSound'
    BY <1>0, <1>p, <1>t DEF IInv, ReleaseSound
<1>4. InsertSound'
  <2>1. \A k \in Requests : inserted'[r] /\ rows[k].state = "keyed" => released'[r] = k
    <3>1. CASE InsertOk(r)
        BY <3>1, <1>t DEF InsertOk, Keyed, TypeOK
    <3>2. CASE InsertConflict(r)
        BY <3>2, <1>t DEF InsertConflict, TypeOK
    <3> QED
        BY <3>1, <3>2
  <2>2. \A q \in Requests : inserted'[q] => q = r
      BY <1>p
  <2>3. \A q \in Requests : q # r => released'[q] = NULL
      BY <1>p
  <2> QED
      BY <1>0, <2>1, <2>2, <2>3 DEF InsertSound
<1>5. ConflictSound'
  <2>1. pc'[r] = "rollback" => \E j \in Requests : Job(j)
      BY <1>t DEF InsertOk, InsertConflict, Keyed, Job, TypeOK
  <2> QED
      BY <1>0, <1>p, <2>1 DEF IInv, ConflictSound, RaisesOnlyAfterExpiry, Job
<1>6. MustSound'
    BY <1>0, <1>p, <1>t DEF IInv, MustSound, LiveAt, Job, Ended
<1> QED
    BY <1>t, <1>1, <1>2, <1>3, <1>4, <1>5, <1>6 DEF IInv

\* The commit moves the key from the row that ran out to the new one.
LEMMA CommitInv ==
    ASSUME IInv, NEW r \in Requests, Commit(r)
    PROVE  IInv'
<1> USE IdempotencyAssumption
<1>0. stamp' = stamp /\ now' = now /\ must' = must /\ pc[r] = "commit"
      /\ pc' = [pc EXCEPT ![r] = "answered"]
    BY DEF Commit
<1>t. TypeOK /\ TypeOK'
    BY ZenonT(60) DEF IInv, TypeOK, Commit, InTransaction, Ended
<1>i. /\ inserted[r]
      /\ \A q \in Requests : q # r => released[q] = NULL /\ ~inserted[q]
      /\ \A q \in Requests : released'[q] = NULL /\ inserted'[q] = FALSE
    BY <1>0, <1>t DEF IInv, InsertSound, TypeOK, Commit
<1>r. /\ rows'[r].state = "keyed" /\ rows'[r].built = stamp[r]
      /\ \A j \in Requests : j # r => rows'[j].built = rows[j].built
      /\ \A j \in Requests : j # r /\ j = released[r] => rows'[j].state = "plain"
      /\ \A j \in Requests : j # r /\ j # released[r] => rows'[j] = rows[j]
    BY <1>t DEF Commit, TypeOK
<1>n. ~Job(r)
    BY <1>0 DEF IInv, KeySound
<1>j. \A j \in Requests : j # r => (Job(j)' <=> Job(j))
  <2> SUFFICES ASSUME NEW j \in Requests, j # r PROVE Job(j)' <=> Job(j)
      OBVIOUS
  <2>1. CASE j = released[r]
      BY <2>1, <1>r DEF IInv, ReleaseSound, Job
  <2>2. CASE j # released[r]
      BY <2>2, <1>r DEF Job
  <2> QED
      BY <2>1, <2>2
<1>1. StampPast'
    BY <1>0, <1>r, <1>t DEF IInv, StampPast, TypeOK
<1>k. \A j \in Requests : j # r /\ Job(j) =>
          rows'[j].state = "plain" /\ rows[j].built + TTL <= stamp[r]
  <2> SUFFICES ASSUME NEW j \in Requests, j # r, Job(j)
               PROVE  rows'[j].state = "plain" /\ rows[j].built + TTL <= stamp[r]
      OBVIOUS
  <2>1. PICK k \in Requests : rows[k].state = "keyed"
      BY DEF IInv, KeySound
  <2>2. released[r] = k
      BY <2>1, <1>i DEF IInv, InsertSound
  <2>3. rows[k].built + TTL <= stamp[r]
      BY <2>1, <2>2 DEF IInv, ReleaseSound
  <2>4. CASE j = k
      BY <2>2, <2>3, <2>4, <1>r
  <2>5. CASE j # k
    <3>1. rows[j].state = "plain" /\ rows[j].built + TTL <= rows[k].built
        BY <2>1, <2>5 DEF IInv, KeySound
    <3> QED
        BY <3>1, <2>2, <2>3, <2>5, <1>r, <1>t DEF TypeOK
  <2> QED
      BY <2>4, <2>5
<1>2. KeySound'
  <2>1. \A j \in Requests : Job(j)' => pc'[j] = "answered"
      BY <1>0, <1>j, <1>t DEF IInv, KeySound, TypeOK
  <2>2. \A j, k \in Requests : Job(j)' /\ rows'[k].state = "keyed" /\ j # k =>
            rows'[j].state = "plain" /\ rows'[j].built + TTL <= rows'[k].built
    <3> SUFFICES ASSUME NEW j \in Requests, NEW k \in Requests,
                        Job(j)', rows'[k].state = "keyed", j # k
                 PROVE  rows'[j].state = "plain" /\ rows'[j].built + TTL <= rows'[k].built
        OBVIOUS
    <3>1. Job(k)'
        BY DEF Job
    <3>2. k = r
        BY <3>1, <1>j, <1>k
    <3> QED
        BY <3>2, <1>j, <1>k, <1>r
  <2>3. OneJobPerWindow'
    <3> SUFFICES ASSUME NEW i \in Requests, NEW j \in Requests, i # j, Job(i)', Job(j)'
                 PROVE  \/ rows'[i].built + TTL <= rows'[j].built
                        \/ rows'[j].built + TTL <= rows'[i].built
        BY DEF OneJobPerWindow
    <3>1. CASE i = r
        BY <3>1, <1>j, <1>k, <1>r
    <3>2. CASE j = r
        BY <3>2, <1>j, <1>k, <1>r
    <3>3. CASE i # r /\ j # r
        BY <3>3, <1>j, <1>r DEF IInv, KeySound, OneJobPerWindow
    <3> QED
        BY <3>1, <3>2, <3>3
  <2> QED
      BY <2>1, <2>2, <2>3, <1>r DEF KeySound, Job
<1>3. ReleaseSound' /\ InsertSound'
    BY <1>i DEF ReleaseSound, InsertSound
<1>m. /\ Job(r)'
      /\ \A q \in Requests : pc'[q] # pc[q] => pc'[q] = "answered"
    BY <1>r, <1>0, <1>t DEF Job, TypeOK
<1>5. ConflictSound'
  <2>1. RaisesOnlyAfterExpiry'
    <3> SUFFICES ASSUME NEW q \in Requests, pc'[q] = "raised"
                 PROVE  \E j \in Requests : Job(j)' /\ rows'[j].built + TTL <= now'
        BY DEF RaisesOnlyAfterExpiry
    <3>1. PICK j \in Requests : Job(j) /\ rows[j].built + TTL <= now
        BY <1>m DEF IInv, ConflictSound, RaisesOnlyAfterExpiry
    <3> QED
        BY <3>1, <1>n, <1>j, <1>r, <1>0
  <2> QED
      BY <2>1, <1>m DEF ConflictSound
<1>6. MustSound'
  <2> SUFFICES ASSUME NEW q \in Requests, must[q] # NULL
               PROVE  /\ pc'[q] \in {"find"} \union Ended
                      /\ Job(must[q])'
                      /\ pc'[q] = "find" => LiveAt(must[q], stamp[q])'
      BY <1>0 DEF MustSound
  <2>1. /\ pc[q] \in {"find"} \union Ended /\ Job(must[q])
        /\ pc[q] = "find" => LiveAt(must[q], stamp[q])
        /\ must[q] \in Requests /\ must[q] # r
      BY <1>n, <1>t DEF IInv, MustSound, TypeOK
  <2> QED
      BY <2>1, <1>j, <1>m, <1>r, <1>0 DEF LiveAt, Ended
<1> QED
    BY <1>t, <1>1, <1>2, <1>3, <1>5, <1>6 DEF IInv

\* A rollback forgets what the transaction did and nothing else.
LEMMA CrashInv ==
    ASSUME IInv, NEW r \in Requests, Crash(r)
    PROVE  IInv'
<1> USE IdempotencyAssumption
<1>0. rows' = rows /\ now' = now /\ stamp' = stamp /\ must' = must
    BY DEF Crash
<1>t. TypeOK /\ TypeOK'
    BY DEF IInv, TypeOK, Crash, InTransaction, Ended
<1>p. /\ pc[r] \in InTransaction /\ pc' = [pc EXCEPT ![r] = "gone"]
      /\ \A q \in Requests : released'[q] = IF q = r THEN NULL ELSE released[q]
      /\ \A q \in Requests : inserted'[q] = IF q = r THEN FALSE ELSE inserted[q]
    BY <1>t DEF Crash, TypeOK
<1>1. StampPast'
    BY <1>0 DEF IInv, StampPast
<1>2. KeySound'
    BY <1>0, <1>p, <1>t DEF IInv, KeySound, Job, TypeOK, InTransaction, OneJobPerWindow
<1>3. ReleaseSound' /\ InsertSound'
    BY <1>0, <1>p DEF IInv, ReleaseSound, InsertSound
<1>5. ConflictSound'
    BY <1>0, <1>p, <1>t DEF IInv, ConflictSound, RaisesOnlyAfterExpiry, Job, TypeOK
<1>6. MustSound'
    BY <1>0, <1>p, <1>t DEF IInv, MustSound, LiveAt, Job, TypeOK, Ended
<1> QED
    BY <1>t, <1>1, <1>2, <1>3, <1>5, <1>6 DEF IInv

\* The passage of time.
LEMMA TickInv == IInv /\ Tick => IInv'
<1> SUFFICES ASSUME IInv, Tick PROVE IInv'
    OBVIOUS
<1> USE IdempotencyAssumption
<1>0. now' = now + 1 /\ now' \in 0..MaxTime /\ now \in 0..MaxTime
    BY DEF IInv, TypeOK, Tick
<1>t. TypeOK /\ TypeOK'
    BY <1>0 DEF IInv, TypeOK, Tick
<1>1. StampPast'
    BY <1>0, <1>t DEF IInv, StampPast, TypeOK, Tick
<1>2. KeySound' /\ ReleaseSound' /\ InsertSound' /\ MustSound'
    BY DEF IInv, KeySound, ReleaseSound, InsertSound, MustSound, Tick, Job, LiveAt, OneJobPerWindow
<1>3. ConflictSound'
  <2>1. RaisesOnlyAfterExpiry'
    <3> SUFFICES ASSUME NEW q \in Requests, pc[q] = "raised"
                 PROVE  \E j \in Requests : Job(j)' /\ rows[j].built + TTL <= now'
        BY DEF RaisesOnlyAfterExpiry, Tick
    <3>1. PICK j \in Requests : Job(j) /\ rows[j].built + TTL <= now
        BY DEF IInv, ConflictSound, RaisesOnlyAfterExpiry
    <3>2. Job(j)' /\ rows[j].built + TTL <= now + 1
        BY <3>1, <1>0, <1>t DEF Tick, Job, TypeOK
    <3> QED
        BY <3>2, <1>0
  <2> QED
      BY <2>1 DEF IInv, ConflictSound, Tick, Job
<1> QED
    BY <1>t, <1>1, <1>2, <1>3 DEF IInv

\* Every step keeps the invariant.
LEMMA NextInv == IInv /\ [Next]_vars => IInv'
<1> SUFFICES ASSUME IInv, [Next]_vars PROVE IInv'
    OBVIOUS
<1>1. CASE Tick
    BY <1>1, TickInv
<1>2. ASSUME NEW r \in Requests, Submit(r) \/ Step(r) \/ Crash(r) PROVE IInv'
    BY <1>2, LookInv, ReleaseInv, InsertInv, CommitInv, CrashInv DEF Step
<1>3. CASE UNCHANGED vars
  <2>1. TypeOK' /\ StampPast'
      BY <1>3 DEF IInv, vars, TypeOK, StampPast
  <2>2. KeySound' /\ ReleaseSound' /\ InsertSound'
      BY <1>3 DEF IInv, vars, KeySound, ReleaseSound, InsertSound, Job, OneJobPerWindow
  <2>3. ConflictSound' /\ MustSound'
      BY <1>3 DEF IInv, vars, ConflictSound, RaisesOnlyAfterExpiry, MustSound, LiveAt, Job
  <2> QED
      BY <2>1, <2>2, <2>3 DEF IInv
<1> QED
    BY <1>1, <1>2, <1>3 DEF Next

\* The invariant is one of the specification.
THEOREM Invariance == Spec => []IInv
<1>1. Init => IInv
    BY InitInv
<1>2. IInv /\ [Next]_vars => IInv'
    BY NextInv
<1> QED
    BY <1>1, <1>2, PTL DEF Spec

-----------------------------------------------------------------------------
(* The results. *)

\* Types and the shape of an open transaction, for every number of requests.
THEOREM TypeCorrect == Spec => []TypeOK
<1>1. IInv => TypeOK
    BY DEF IInv
<1> QED
    BY <1>1, Invariance, PTL

\* Two jobs created under one key were built at least TTL apart, whatever the
\* requests do and wherever they crash.
THEOREM WindowTheorem == Spec => []OneJobPerWindow
<1>1. IInv => OneJobPerWindow
    BY DEF IInv, KeySound
<1> QED
    BY <1>1, Invariance, PTL

\* A used key is on exactly one row, the newest, also between a release and the
\* commit that follows it.
THEOREM KeyTheorem == Spec => []KeyStaysOnNewest
<1>1. IInv => KeyStaysOnNewest
  <2> SUFFICES ASSUME IInv, NEW i \in Requests, Job(i)
               PROVE  \E k \in Keyed : \A j \in Requests : Job(j) =>
                          rows[j].built <= rows[k].built /\ (j \in Keyed => j = k)
      BY DEF KeyStaysOnNewest
  <2>1. PICK k \in Requests : rows[k].state = "keyed"
      BY DEF IInv, KeySound
  <2>2. ASSUME NEW j \in Requests, Job(j), j # k
        PROVE  rows[j].built <= rows[k].built /\ j \notin Keyed
    <3>1. rows[j].state = "plain" /\ rows[j].built + TTL <= rows[k].built
        BY <2>1, <2>2 DEF IInv, KeySound
    <3>2. rows[j].built \in Int /\ rows[k].built \in Int
        BY DEF IInv, TypeOK
    <3> QED
        BY <3>1, <3>2, IdempotencyAssumption DEF Keyed
  <2>3. rows[k].built <= rows[k].built
      BY DEF IInv, TypeOK
  <2> QED
      BY <2>1, <2>2, <2>3 DEF Keyed
<1> QED
    BY <1>1, Invariance, PTL

\* create_job raises only when a job of the key has run out.
THEOREM RaiseTheorem == Spec => []RaisesOnlyAfterExpiry
<1>1. IInv => RaisesOnlyAfterExpiry
    BY DEF IInv, ConflictSound
<1> QED
    BY <1>1, Invariance, PTL

\* A replay of a live key gets the original job, and never an error or a job of
\* its own.
THEOREM ReplayTheorem == Spec => ReplayGetsOriginal
<1> DEFINE Step1(r) ==
        must[r] # NULL /\ pc'[r] \in Ended \ {"gone"} /\ pc[r] \notin Ended =>
            /\ pc'[r] = "answered"
            /\ answer'[r] # r
            /\ LiveAt(must[r], now) => answer'[r] = must[r]
<1>1. ASSUME IInv, Next, NEW r \in Requests PROVE Step1(r)
  <2> SUFFICES ASSUME must[r] # NULL, pc'[r] \in Ended \ {"gone"}, pc[r] \notin Ended
               PROVE  /\ pc'[r] = "answered"
                      /\ answer'[r] # r
                      /\ LiveAt(must[r], now) => answer'[r] = must[r]
      OBVIOUS
  <2>t. TypeOK
      BY <1>1 DEF IInv
  <2>1. pc[r] = "find" /\ Job(must[r]) /\ must[r] \in Requests
      BY <1>1, <2>t DEF IInv, MustSound, TypeOK
  <2>2. FindHit(r)
    <3>1. PICK q \in Requests : Submit(q) \/ Step(q) \/ Crash(q)
        BY <1>1, <2>1 DEF Next, Tick
    <3>2. q = r
        BY <3>1, <2>1, <2>t DEF TypeOK, Submit, Step, Crash, FindHit, FindMiss, ReleaseScan,
              ReleaseRow, InsertOk, InsertConflict, Commit, Rollback, ReloadHit, ReloadMiss
    <3> QED
        BY <3>1, <3>2, <2>1, <2>t DEF TypeOK, Ended, Submit, Step, Crash, FindHit, FindMiss,
              ReleaseScan, ReleaseRow, InsertOk, InsertConflict, Commit, Rollback, ReloadHit,
              ReloadMiss
  <2>3. PICK j \in ActiveAt(stamp[r]) : answer' = [answer EXCEPT ![r] = j]
      BY <2>2 DEF FindHit
  <2>4. j \in Requests /\ rows[j].state = "keyed" /\ answer'[r] = j /\ pc'[r] = "answered"
      BY <2>2, <2>3, <2>t DEF ActiveAt, Keyed, FindHit, TypeOK
  <2>5. j # r
      BY <2>1, <2>4, <1>1 DEF IInv, KeySound, Job
  <2>6. j # must[r] => ~LiveAt(must[r], now)
    <3> SUFFICES ASSUME j # must[r] PROVE ~LiveAt(must[r], now)
        OBVIOUS
    <3>1. rows[must[r]].built + TTL <= rows[j].built
        BY <2>1, <2>4, <1>1 DEF IInv, KeySound
    <3>2. rows[j].built <= now
        BY <2>4, <1>1 DEF IInv, StampPast
    <3> QED
        BY <3>1, <3>2, <2>1, <2>4, <2>t, IdempotencyAssumption DEF LiveAt, TypeOK
  <2> QED
      BY <2>4, <2>5, <2>6
<1>2. ASSUME UNCHANGED vars, NEW r \in Requests PROVE Step1(r)
    BY <1>2 DEF vars
<1>3. IInv /\ [Next]_vars => [\A r \in Requests : Step1(r)]_vars
    BY <1>1, <1>2
<1> QED
    BY <1>3, Invariance, PTL DEF Spec, ReplayGetsOriginal
=============================================================================
