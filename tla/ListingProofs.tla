---------------------------- MODULE ListingProofs ----------------------------
(* Theorems about Listing, for all ids, page sizes and clocks. *)
EXTENDS Listing, FiniteSetTheorems, TLAPS

-----------------------------------------------------------------------------
(* The inductive invariant. *)

ListingTypes ==
    /\ now \in Nat
    /\ DOMAIN created \subseteq Ids /\ IsFiniteSet(DOMAIN created)
    /\ \A i \in DOMAIN created : created[i] \in Nat
    /\ DOMAIN inserting \subseteq Ids
    /\ \A i \in DOMAIN inserting : inserting[i] \in Nat
    /\ DOMAIN created \intersect DOMAIN inserting = {}
    /\ initial \subseteq DOMAIN created
    /\ offset \in Nat /\ total \in Nat

\* The rows the list has before row i.
Preceding(i) == {k \in DOMAIN created : Precedes(k, i)}

\* What the client has still to see is behind its offset: rows only move back.
UnseenAhead == \A i \in initial \ seen : offset <= Cardinality(Preceding(i))

\* Where the client is: a total counted earlier is no larger than the table is
\* now, and whoever stopped had reached it.
ClientInv ==
    /\ total <= Cardinality(DOMAIN created)
    /\ step = "idle" => offset = 0
    /\ step = "end" => initial \subseteq seen
    /\ step = "stopped" => total <= offset

Inv == ListingTypes /\ UnseenAhead /\ ClientInv

-----------------------------------------------------------------------------
(* The list. *)

\* ORDER BY created_at DESC, id DESC is a total order of the rows: ties of
\* created_at are decided by the id.
LEMMA PrecedesIsOrder ==
    ASSUME ListingTypes, NEW i \in DOMAIN created, NEW k \in DOMAIN created
    PROVE  /\ ~Precedes(i, i)
           /\ Precedes(i, k) => ~Precedes(k, i)
           /\ i # k => Precedes(i, k) \/ Precedes(k, i)
<1>1. created[i] \in Nat /\ created[k] \in Nat /\ i \in Nat /\ k \in Nat
  BY ListingAssumption DEF ListingTypes
<1> QED
  BY <1>1 DEF Precedes

\* A result holds every row once.
LEMMA ResultIsWhole ==
    ASSUME ListingTypes, NEW s \in Results
    PROVE  LET N == Cardinality(DOMAIN created) IN
           /\ N \in Nat
           /\ s \in [1..N -> DOMAIN created]
           /\ \A m, n \in 1..N : m < n => s[m] # s[n] /\ Precedes(s[m], s[n])
           /\ \A i \in DOMAIN created : \E m \in 1..N : s[m] = i
<1> DEFINE D == DOMAIN created
           N == Cardinality(D)
<1>1. IsFiniteSet(D) /\ N \in Nat
  BY FS_CardinalityType DEF ListingTypes
<1>2. s \in [1..N -> D] /\ \A m, n \in 1..N : m < n => s[m] # s[n] /\ Precedes(s[m], s[n])
  BY DEF Results
<1> HIDE DEF N, D
<1>3. s \in Injection(1..N, D)
  <2>1. ASSUME NEW m \in 1..N, NEW n \in 1..N, s[m] = s[n] PROVE m = n
    BY <1>1, <1>2, <2>1
  <2> QED
    BY <1>2, <2>1 DEF Injection, IsInjective
<1>4. IsFiniteSet(1..N) /\ Cardinality(1..N) = N
  BY <1>1, FS_Interval
<1>5. s \in Surjection(1..N, D)
  BY <1>1, <1>3, <1>4, FS_Injection DEF N
<1>6. \A i \in D : \E m \in 1..N : s[m] = i
  BY <1>5 DEF Surjection
<1> QED
  BY <1>1, <1>2, <1>6 DEF N, D

\* A stretch of a result has as many rows as positions.
LEMMA StretchSize ==
    ASSUME ListingTypes, NEW s \in Results, NEW a \in Nat, NEW b \in Nat,
           a <= b, b <= Cardinality(DOMAIN created)
    PROVE  LET P == {s[n] : n \in (a + 1)..b} IN
           IsFiniteSet(P) /\ Cardinality(P) = b - a
<1> DEFINE N == Cardinality(DOMAIN created)
           I == (a + 1)..b
           P == {s[n] : n \in I}
           g == [n \in I |-> s[n]]
<1>1. /\ N \in Nat /\ s \in [1..N -> DOMAIN created]
      /\ \A m, n \in 1..N : m < n => s[m] # s[n]
  BY ResultIsWhole
<1> HIDE DEF N
<1>2. I \subseteq 1..N
  BY <1>1 DEF N
<1>3. IsFiniteSet(I) /\ Cardinality(I) = b - a
  <2>1. a + 1 \in Int /\ b \in Int
    OBVIOUS
  <2>2. IsFiniteSet(I) /\ Cardinality(I) = IF a + 1 > b THEN 0 ELSE b - (a + 1) + 1
    BY <2>1, FS_Interval
  <2> QED
    BY <2>2
<1>4. g \in [I -> P]
  OBVIOUS
<1>5. \A m, n \in I : g[m] = g[n] => m = n
  BY <1>1, <1>2
<1>6. \A p \in P : \E n \in I : g[n] = p
  OBVIOUS
<1> HIDE DEF I, P, g
<1>7. g \in Bijection(I, P)
  BY <1>4, <1>5, <1>6 DEF Bijection, Injection, IsInjective, Surjection
<1>8. ExistsBijection(I, P)
  BY <1>7 DEF ExistsBijection
<1>9. IsFiniteSet(P) /\ Cardinality(P) = b - a
  BY <1>3, <1>8, FS_Bijection
<1> QED
  BY <1>9 DEF P, I

\* A row stands behind as many rows as precede it.
LEMMA PositionIsRank ==
    ASSUME ListingTypes, NEW s \in Results, NEW m \in 1..Cardinality(DOMAIN created)
    PROVE  Cardinality(Preceding(s[m])) = m - 1
<1> DEFINE N == Cardinality(DOMAIN created)
<1>1. /\ N \in Nat /\ s \in [1..N -> DOMAIN created]
      /\ \A k, n \in 1..N : k < n => s[k] # s[n] /\ Precedes(s[k], s[n])
      /\ \A i \in DOMAIN created : \E n \in 1..N : s[n] = i
  BY ResultIsWhole
<1>2. m \in 1..N
  OBVIOUS
<1> HIDE DEF N
<1>3. Preceding(s[m]) = {s[n] : n \in (0 + 1)..(m - 1)}
  <2>1. ASSUME NEW i \in Preceding(s[m]) PROVE i \in {s[n] : n \in (0 + 1)..(m - 1)}
    <3>1. i \in DOMAIN created /\ Precedes(i, s[m])
      BY DEF Preceding
    <3>2. PICK n \in 1..N : s[n] = i
      BY <1>1, <3>1
    <3>3. ~(m < n) /\ m # n
      BY <1>1, <1>2, <3>1, <3>2, PrecedesIsOrder
    <3>4. n \in (0 + 1)..(m - 1)
      BY <1>1, <1>2, <3>3
    <3> QED
      BY <3>2, <3>4
  <2>2. ASSUME NEW n \in (0 + 1)..(m - 1) PROVE s[n] \in Preceding(s[m])
    <3>1. n \in 1..N /\ n < m
      BY <1>1, <1>2
    <3> QED
      BY <1>1, <1>2, <3>1 DEF Preceding
  <2> QED
    BY <2>1, <2>2
<1>4. 0 \in Nat /\ m - 1 \in Nat /\ 0 <= m - 1 /\ m - 1 <= N
  BY <1>1, <1>2
<1>5. Cardinality({s[n] : n \in (0 + 1)..(m - 1)}) = (m - 1) - 0
  BY <1>4, StretchSize DEF N
<1> QED
  BY <1>1, <1>2, <1>3, <1>5

\* A page that is not full is the end of the list.
LEMMA ShortPage ==
    ASSUME ListingTypes, NEW s \in Results, Cardinality(Page(s)) < Limit
    PROVE  Cardinality(DOMAIN created) < offset + Limit
<1> DEFINE N == Cardinality(DOMAIN created)
<1>1. N \in Nat /\ DOMAIN s = 1..N /\ offset \in Nat /\ Limit \in Nat \ {0}
  BY ResultIsWhole, ListingAssumption DEF ListingTypes
<1> HIDE DEF N
<1> SUFFICES ASSUME offset + Limit <= N PROVE FALSE
  BY <1>1 DEF N
<1>2. {n \in DOMAIN s : offset < n /\ n <= offset + Limit} = (offset + 1)..(offset + Limit)
  BY <1>1
<1>3. Page(s) = {s[n] : n \in (offset + 1)..(offset + Limit)}
  BY <1>2 DEF Page
<1>4. offset + Limit \in Nat /\ offset <= offset + Limit
  BY <1>1
<1>5. Cardinality({s[n] : n \in (offset + 1)..(offset + Limit)}) = (offset + Limit) - offset
  BY <1>1, <1>4, StretchSize DEF N
<1>6. (offset + Limit) - offset = Limit
  BY <1>1
<1>7. Cardinality(Page(s)) = Limit
  BY <1>3, <1>5, <1>6
<1> QED
  BY <1>1, <1>7

-----------------------------------------------------------------------------
(* The steps. *)

LEMMA InitInv == Init => Inv
<1> SUFFICES ASSUME Init PROVE Inv
  OBVIOUS
<1>1. DOMAIN created = {} /\ DOMAIN inserting = {} /\ initial = {}
  BY DEF Init
<1>2. ListingTypes
  BY <1>1, FS_EmptySet DEF Init, ListingTypes
<1>3. ClientInv
  BY <1>1, FS_EmptySet DEF Init, ClientInv
<1> QED
  BY <1>1, <1>2, <1>3 DEF Inv, UnseenAhead

\* A submission that commits moves rows back and never forward.
LEMMA CommitMovesBack ==
    ASSUME ListingTypes, NEW i \in Ids, Commit(i)
    PROVE  /\ ListingTypes'
           /\ Cardinality(DOMAIN created) <= Cardinality(DOMAIN created')
           /\ \A k \in DOMAIN created : Cardinality(Preceding(k)) <= Cardinality(Preceding(k)')
<1>1. /\ i \in DOMAIN inserting
      /\ created' = [k \in DOMAIN created \union {i} |-> IF k = i THEN inserting[i] ELSE created[k]]
      /\ inserting' = [k \in DOMAIN inserting \ {i} |-> inserting[k]]
      /\ UNCHANGED <<now, step, initial, offset, total, seen>>
  BY DEF Commit, With, client
<1>2. i \notin DOMAIN created
  BY <1>1 DEF ListingTypes
<1>3. /\ DOMAIN created' = DOMAIN created \union {i}
      /\ created'[i] = inserting[i]
      /\ \A k \in DOMAIN created : created'[k] = created[k]
      /\ DOMAIN inserting' = DOMAIN inserting \ {i}
      /\ \A k \in DOMAIN inserting' : inserting'[k] = inserting[k]
  BY <1>1, <1>2
<1>4. IsFiniteSet(DOMAIN created')
  BY <1>3, FS_AddElement DEF ListingTypes
<1>5. ListingTypes'
  BY <1>1, <1>3, <1>4 DEF ListingTypes
<1>6. Cardinality(DOMAIN created) <= Cardinality(DOMAIN created')
  BY <1>3, <1>4, FS_Subset
<1>7. ASSUME NEW k \in DOMAIN created
      PROVE  Cardinality(Preceding(k)) <= Cardinality(Preceding(k)')
  <2>1. Preceding(k) \subseteq Preceding(k)' /\ Preceding(k)' \subseteq DOMAIN created'
    BY <1>3 DEF Preceding, Precedes
  <2>2. IsFiniteSet(Preceding(k)')
    BY <1>4, <2>1, FS_Subset
  <2> QED
    BY <2>1, <2>2, FS_Subset
<1> QED
  BY <1>5, <1>6, <1>7

LEMMA CommitInv ==
    ASSUME Inv, NEW i \in Ids, Commit(i)
    PROVE  Inv'
<1>0. ListingTypes /\ UnseenAhead /\ ClientInv
  BY DEF Inv
<1>1. UNCHANGED <<step, initial, offset, total, seen>>
  BY DEF Commit, client
<1>2. /\ ListingTypes'
      /\ Cardinality(DOMAIN created) <= Cardinality(DOMAIN created')
      /\ \A k \in DOMAIN created : Cardinality(Preceding(k)) <= Cardinality(Preceding(k)')
  BY <1>0, CommitMovesBack
<1>3. Cardinality(DOMAIN created) \in Nat /\ Cardinality(DOMAIN created') \in Nat
  BY <1>0, <1>2, FS_CardinalityType DEF ListingTypes
<1>4. ClientInv'
  BY <1>0, <1>1, <1>2, <1>3 DEF ClientInv, ListingTypes
<1>5. ASSUME NEW k \in initial' \ seen'
      PROVE  offset' <= Cardinality(Preceding(k)')
  <2>1. k \in initial \ seen /\ k \in DOMAIN created /\ offset \in Nat
    BY <1>0, <1>1 DEF ListingTypes
  <2>2. offset <= Cardinality(Preceding(k))
    BY <1>0, <2>1 DEF UnseenAhead
  <2>3. Preceding(k) \subseteq DOMAIN created /\ Preceding(k)' \subseteq DOMAIN created'
    BY DEF Preceding
  <2>4. Cardinality(Preceding(k)) \in Nat /\ Cardinality(Preceding(k)') \in Nat
    <3>1. IsFiniteSet(Preceding(k)) /\ IsFiniteSet(Preceding(k)')
      BY <1>0, <1>2, <2>3, FS_Subset DEF ListingTypes
    <3> QED
      BY <3>1, FS_CardinalityType
  <2>5. Cardinality(Preceding(k)) <= Cardinality(Preceding(k)')
    BY <1>2, <2>1
  <2> QED
    BY <1>1, <2>1, <2>2, <2>4, <2>5
<1> QED
  BY <1>2, <1>4, <1>5 DEF Inv, UnseenAhead

\* The steps that leave the committed rows and the client alone.
LEMMA TableStep ==
    ASSUME Inv, Tick \/ \E i \in Ids : Begin(i)
    PROVE  Inv'
<1>1. /\ created' = created /\ UNCHANGED client
      /\ UNCHANGED <<step, initial, offset, total, seen>>
  BY DEF Begin, Tick, client
<1>2. ListingTypes'
  <2>1. CASE Tick
    BY <2>1, <1>1 DEF Tick, Inv, ListingTypes
  <2>2. ASSUME NEW i \in Ids, Begin(i) PROVE ListingTypes'
    <3>1. /\ i \notin DOMAIN created /\ now' = now
          /\ inserting' = [k \in DOMAIN inserting \union {i} |-> IF k = i THEN now ELSE inserting[k]]
      BY <2>2 DEF Begin, With
    <3> QED
      BY <1>1, <3>1 DEF Inv, ListingTypes
  <2> QED
    BY <2>1, <2>2
<1>3. \A k : Preceding(k)' = Preceding(k)
  BY <1>1 DEF Preceding, Precedes
<1> QED
  BY <1>1, <1>2, <1>3 DEF Inv, UnseenAhead, ClientInv

LEMMA StartInv ==
    ASSUME Inv, Start
    PROVE  Inv'
<1>0. ListingTypes /\ ClientInv
  BY DEF Inv
<1>1. /\ now' = now /\ created' = created /\ inserting' = inserting
      /\ step = "idle" /\ step' = "count" /\ initial' = DOMAIN created
      /\ offset' = offset /\ total' = total /\ seen' = seen
  BY DEF Start, table
<1>2. ListingTypes'
  BY <1>0, <1>1 DEF ListingTypes
<1>3. ClientInv'
  BY <1>0, <1>1 DEF ClientInv
<1>4. ASSUME NEW k \in initial' \ seen'
      PROVE  offset' <= Cardinality(Preceding(k)')
  <2>1. Preceding(k)' \in SUBSET DOMAIN created' /\ IsFiniteSet(DOMAIN created')
    BY <1>2 DEF Preceding, ListingTypes
  <2>2. Cardinality(Preceding(k)') \in Nat
    BY <2>1, FS_Subset, FS_CardinalityType
  <2>3. offset' = 0
    BY <1>0, <1>1 DEF ClientInv
  <2> QED
    BY <2>2, <2>3
<1> QED
  BY <1>2, <1>3, <1>4 DEF Inv, UnseenAhead

LEMMA CountInv ==
    ASSUME Inv, Count
    PROVE  Inv'
<1>0. ListingTypes /\ UnseenAhead
  BY DEF Inv
<1>1. /\ now' = now /\ created' = created /\ inserting' = inserting
      /\ step' = "select" /\ total' = Cardinality(DOMAIN created)
      /\ initial' = initial /\ offset' = offset /\ seen' = seen
  BY DEF Count, table
<1>2. Cardinality(DOMAIN created) \in Nat
  BY <1>0, FS_CardinalityType DEF ListingTypes
<1>3. \A k : Preceding(k)' = Preceding(k)
  BY <1>1 DEF Preceding, Precedes
<1> QED
  BY <1>0, <1>1, <1>2, <1>3 DEF Inv, ListingTypes, UnseenAhead, ClientInv

\* A page takes what stands in it; what the client has still to see stands
\* behind it.
LEMMA PageTakes ==
    ASSUME ListingTypes, UnseenAhead, NEW s \in Results,
           NEW i \in initial \ (seen \union Page(s))
    PROVE  /\ offset + Limit <= Cardinality(Preceding(i))
           /\ ~(Cardinality(Page(s)) < Limit)
<1> DEFINE N == Cardinality(DOMAIN created)
<1>1. /\ N \in Nat /\ s \in [1..N -> DOMAIN created] /\ DOMAIN s = 1..N
      /\ \A k \in DOMAIN created : \E m \in 1..N : s[m] = k
      /\ offset \in Nat /\ Limit \in Nat
  BY ResultIsWhole, ListingAssumption DEF ListingTypes
<1>2. PICK m \in 1..N : s[m] = i
  BY <1>1 DEF ListingTypes
<1>3. Cardinality(Preceding(i)) = m - 1
  BY <1>2, PositionIsRank
<1>4. offset <= Cardinality(Preceding(i))
  BY DEF UnseenAhead
<1> HIDE DEF N
<1>5. ~(offset < m /\ m <= offset + Limit)
  BY <1>1, <1>2 DEF Page
<1>6. offset + Limit < m
  BY <1>1, <1>2, <1>3, <1>4, <1>5
<1>7. ~(N < offset + Limit)
  BY <1>1, <1>2, <1>6
<1>8. ~(Cardinality(Page(s)) < Limit)
  BY <1>7, ShortPage DEF N
<1> QED
  BY <1>1, <1>2, <1>3, <1>6, <1>8

LEMMA SelectInv ==
    ASSUME Inv, Select
    PROVE  Inv'
<1>0. ListingTypes /\ UnseenAhead /\ ClientInv /\ offset \in Nat /\ Limit \in Nat
  BY ListingAssumption DEF Inv, ListingTypes
<1>1. PICK s \in Results :
        /\ seen' = seen \union Page(s)
        /\ \/ Cardinality(Page(s)) < Limit /\ step' = "end"
           \/ Cardinality(Page(s)) = Limit /\ step' = "count"
           \/ offset' >= total /\ step' = "stopped"
  BY DEF Select
<1>2. /\ now' = now /\ created' = created /\ inserting' = inserting
      /\ initial' = initial /\ total' = total /\ offset' = offset + Limit
  BY DEF Select, table
<1>3. ListingTypes'
  BY <1>0, <1>2 DEF ListingTypes
<1>4. UnseenAhead'
  <2>1. ASSUME NEW k \in initial' \ seen'
        PROVE  offset' <= Cardinality(Preceding(k)')
    <3>1. Preceding(k)' = Preceding(k)
      BY <1>2 DEF Preceding, Precedes
    <3>2. k \in initial \ (seen \union Page(s))
      BY <1>1, <1>2
    <3> QED
      BY <1>0, <1>2, <3>1, <3>2, PageTakes
  <2> QED
    BY <2>1 DEF UnseenAhead
<1>5. step' = "end" => initial' \subseteq seen'
  BY <1>0, <1>1, <1>2, PageTakes
<1>6. step' = "stopped" => total' <= offset'
  BY <1>0, <1>1, <1>2 DEF ListingTypes
<1>7. ClientInv'
  BY <1>0, <1>1, <1>2, <1>5, <1>6 DEF ClientInv
<1> QED
  BY <1>3, <1>4, <1>7 DEF Inv

LEMMA NextInv == Inv /\ [Next]_vars => Inv'
<1> SUFFICES ASSUME Inv, [Next]_vars PROVE Inv'
  OBVIOUS
<1>1. CASE UNCHANGED vars
  <2>1. /\ now' = now /\ created' = created /\ inserting' = inserting
        /\ UNCHANGED <<step, initial, offset, total, seen>>
    BY <1>1 DEF vars, table, client
  <2>2. \A k : Preceding(k)' = Preceding(k)
    BY <2>1 DEF Preceding, Precedes
  <2> QED
    BY <2>1, <2>2 DEF Inv, ListingTypes, UnseenAhead, ClientInv
<1> QED
  BY <1>1, TableStep, CommitInv, StartInv, CountInv, SelectInv DEF Next

-----------------------------------------------------------------------------
(* The theorems. *)

\* What a client has still to see of the rows it began with is behind its offset,
\* whenever submissions commit.
THEOREM Invariance == Spec => []Inv
BY InitInv, NextInv, PTL DEF Spec

\* Paging through list_jobs to the end misses no job that was there at the
\* beginning, for every page size, and stopping at `total` misses one only when a
\* submission came between the count and the select of the last page.
THEOREM NoJobSkippedTheorem == Spec => []NoJobSkipped
<1>1. ASSUME Inv PROVE NoJobSkipped
  <2>0. ListingTypes /\ UnseenAhead /\ ClientInv
    BY <1>1 DEF Inv
  <2>1. ASSUME step = "stopped", total = Cardinality(DOMAIN created),
               NEW i \in initial, i \notin seen
        PROVE  FALSE
    <3>1. /\ i \in DOMAIN created /\ IsFiniteSet(DOMAIN created)
          /\ Preceding(i) \in SUBSET DOMAIN created
      BY <2>0 DEF ListingTypes, Preceding
    <3>2. i \notin Preceding(i)
      BY <2>0, <3>1, PrecedesIsOrder DEF Preceding
    <3>3. /\ IsFiniteSet(Preceding(i))
          /\ Cardinality(Preceding(i)) <= Cardinality(DOMAIN created)
          /\ Cardinality(Preceding(i)) # Cardinality(DOMAIN created)
      BY <3>1, <3>2, FS_Subset
    <3>4. Cardinality(Preceding(i)) \in Nat /\ Cardinality(DOMAIN created) \in Nat
      BY <3>1, <3>3, FS_CardinalityType
    <3>5. offset <= Cardinality(Preceding(i)) /\ total <= offset /\ offset \in Nat
      BY <2>0, <2>1 DEF UnseenAhead, ClientInv, ListingTypes
    <3> QED
      BY <2>1, <3>3, <3>4, <3>5
  <2> QED
    BY <2>0, <2>1 DEF NoJobSkipped, ClientInv
<1> QED
  BY <1>1, Invariance, PTL
=============================================================================
