-------------------------- MODULE LeaseTimingProofs --------------------------
(***************************************************************************)
(* Theorems about LeaseTiming, for every setting the validator accepts and *)
(* every bound on delays and failures.                                     *)
(***************************************************************************)
EXTENDS LeaseTiming, TLAPS

\* What m failed beats and the intervals before them take at most.
Used(m) == m * (Heartbeat + BeatDelay)

\* The products, once and for all.
LEMMA UsedFacts ==
    /\ Used(0) = 0
    /\ \A m \in 0..MaxFailed : Used(m) \in Nat /\ Used(m) <= Used(MaxFailed)
    /\ \A m \in 0..MaxFailed : Used(m + 1) = Used(m) + Heartbeat + BeatDelay
    /\ Used(MaxFailed) \in Nat
<1> DEFINE K == Heartbeat + BeatDelay
<1>1. K \in Nat /\ MaxFailed \in Nat
    BY TimingAssumption
<1> HIDE DEF K
<1>2. 0 * K = 0
    BY <1>1
<1>3. ASSUME NEW m \in 0..MaxFailed
      PROVE  m * K \in Nat /\ m * K <= MaxFailed * K /\ (m + 1) * K = m * K + K
  <2>1. m \in Nat /\ m <= MaxFailed
      BY <1>1
  <2>2. m * K \in Nat /\ (m + 1) * K = m * K + K
      BY <1>1, <2>1
  <2>3. MaxFailed - m \in Nat /\ (MaxFailed - m) * K \in Nat
      BY <1>1, <2>1
  <2>4. MaxFailed * K = m * K + (MaxFailed - m) * K
      BY <1>1, <2>1
  <2> QED
      BY <1>1, <2>2, <2>3, <2>4
<1>4. MaxFailed * K \in Nat
    BY <1>1
<1> QED
    BY <1>1, <1>2, <1>3, <1>4, TimingAssumption DEF Used, K

-----------------------------------------------------------------------------
(* The invariant that needs no headroom. *)

\* No await outlasts its bound.
AgeInv ==
    /\ phase \in {"claiming", "dropping", "settling"} => age <= CallDelay
    /\ phase = "sleeping" => age <= Heartbeat
    /\ phase \in {"beating", "stopping"} => age <= BeatDelay

\* The last sweep that looked at the row and left it held began at most this
\* long ago: the one before, unless the present one has looked in vain.
LookedFor ==
    CASE loop = "asleep" -> poll + CallDelay
      [] loop = "selected" /\ row = "held" -> poll
      [] OTHER -> poll + Interval + CallDelay

\* Since the owner died either no sweep has looked yet, or the last one found the
\* lease alive when it began.
DeadInv ==
    /\ phase # "dead" => dead = 0
    /\ dead <= Lease + Interval + 2 * CallDelay
    /\ phase = "dead" /\ row \in {"held", "locked"} =>
            dead + left <= Lease /\ (dead <= LookedFor \/ 0 <= left + LookedFor)
    /\ row = "locked" => loop = "selected"

\* A handler that runs on is in the interval or the beat after the last failure.
GhostInv ==
    /\ row # "taken" => ghost = 0
    /\ phase \in {"claiming", "dropping"} => ghost = 0
    /\ phase = "sleeping" => ghost <= Used(missed) + age
    /\ phase \in {"beating", "stopping"} => ghost <= Used(missed) + Heartbeat + age
    /\ ghost <= Used(MaxFailed) + Heartbeat + BeatDelay

BaseInv == TypeOK /\ AgeInv /\ DeadInv /\ GhostInv

\* The claim has just been stamped: nothing has gone wrong yet.
LEMMA InitBase == Init => BaseInv
<1> SUFFICES ASSUME Init PROVE BaseInv
    OBVIOUS
<1> USE TimingAssumption, UsedFacts
<1>1. TypeOK
    BY DEF Init, TypeOK, Phases, LeaseDeadline
<1>2. AgeInv /\ DeadInv /\ GhostInv
    BY DEF Init, AgeInv, DeadInv, GhostInv, LeaseDeadline
<1> QED
    BY <1>1, <1>2 DEF BaseInv

\* The steps of the runner keep it.
LEMMA RunnerBase ==
    ASSUME BaseInv,
           \/ ClaimReturns \/ Starts \/ NoHandler \/ HandlerEnds \/ Settles \/ Dies
    PROVE  BaseInv'
<1> USE TimingAssumption, UsedFacts
<1>0. TypeOK /\ AgeInv /\ DeadInv /\ GhostInv
    BY DEF BaseInv
<1>t. TypeOK'
    BY <1>0 DEF TypeOK, Phases, ClaimReturns, Starts, NoHandler, HandlerEnds, Settles, Dies, Goto
<1>1. AgeInv'
    BY <1>0 DEF TypeOK, AgeInv, ClaimReturns, Starts, NoHandler, HandlerEnds, Settles, Dies, Goto
<1>2. DeadInv'
    BY <1>0 DEF TypeOK, Stages, LoopTime, DeadInv, LookedFor, ClaimReturns, Starts, NoHandler, HandlerEnds, Settles, Dies, Goto
<1>3. GhostInv'
    BY <1>0 DEF TypeOK, AgeInv, GhostInv, ClaimReturns, Starts, NoHandler, HandlerEnds, Settles,
                Dies, Goto
<1> QED
    BY <1>t, <1>1, <1>2, <1>3 DEF BaseInv

\* The steps of the heartbeat keep it.
LEMMA BeatBase ==
    ASSUME BaseInv, Wakes \/ BeatLands \/ BeatFails \/ BeatLost
    PROVE  BaseInv'
<1> USE TimingAssumption, UsedFacts
<1>0. TypeOK /\ AgeInv /\ DeadInv /\ GhostInv
    BY DEF BaseInv
<1>t. TypeOK'
  <2>1. CASE BeatLands
    <3>1. PICK a \in 0..age : left' = Lease - a
        BY <2>1 DEF BeatLands, LeaseDeadline
    <3>2. left' \in Int /\ left' <= Lease
        BY <1>0, <3>1 DEF TypeOK
    <3> QED
        BY <1>0, <2>1, <3>2 DEF TypeOK, Phases, BeatLands, AfterBeat, Goto
  <2>2. CASE Wakes \/ BeatFails \/ BeatLost
      BY <1>0, <2>2 DEF TypeOK, Phases, Wakes, BeatFails, BeatLost, AfterBeat, Goto
  <2> QED
      BY <2>1, <2>2
<1>1. AgeInv'
    BY <1>0 DEF TypeOK, AgeInv, Wakes, BeatLands, BeatFails, BeatLost, AfterBeat, Goto,
                SleepTime
<1>2. DeadInv'
    BY <1>0 DEF TypeOK, Stages, LoopTime, DeadInv, LookedFor, Wakes, BeatLands, BeatFails, BeatLost, AfterBeat, Goto
<1>3. GhostInv'
  <2>1. CASE Wakes
      BY <1>0, <2>1 DEF TypeOK, AgeInv, GhostInv, Wakes, Goto, SleepTime
  <2>2. CASE BeatLands
      BY <1>0, <2>2 DEF TypeOK, AgeInv, GhostInv, BeatLands, AfterBeat, Goto
  <2>3. CASE BeatFails
    <3>1. Used(missed') = Used(missed) + Heartbeat + BeatDelay
        BY <1>0, <2>3 DEF TypeOK, BeatFails
    <3>2. ghost' = ghost /\ ghost <= Used(missed')
        BY <1>0, <2>3, <3>1 DEF TypeOK, AgeInv, GhostInv, BeatFails
    <3> QED
        BY <1>0, <2>3, <3>2 DEF TypeOK, GhostInv, BeatFails, AfterBeat, Goto
  <2>4. CASE BeatLost
      BY <1>0, <2>4 DEF TypeOK, AgeInv, GhostInv, BeatLost, Goto
  <2> QED
      BY <2>1, <2>2, <2>3, <2>4
<1> QED
    BY <1>t, <1>1, <1>2, <1>3 DEF BaseInv

\* A sweep and the passage of time keep it.
LEMMA TimeBase ==
    ASSUME BaseInv, SweepBegins \/ SweepSelects \/ SweepCommits \/ Tick
    PROVE  BaseInv'
<1> USE TimingAssumption, UsedFacts
<1>0. TypeOK /\ AgeInv /\ DeadInv /\ GhostInv
    BY DEF BaseInv
<1>a. CASE SweepBegins
    BY <1>0, <1>a DEF BaseInv, TypeOK, Stages, LoopTime, AgeInv, DeadInv, LookedFor, GhostInv,
                      SweepBegins
<1>b. CASE SweepSelects
  <2>1. PICK a \in 0..poll : row' = IF row = "held" /\ left + a < 0 THEN "locked" ELSE row
      BY <1>b DEF SweepSelects
  <2>2. a \in Nat /\ a <= poll
      BY <1>0, <2>1 DEF TypeOK, LoopTime
  <2>3. TypeOK' /\ AgeInv' /\ GhostInv'
      BY <1>0, <1>b, <2>1 DEF TypeOK, Stages, LoopTime, AgeInv, GhostInv, SweepSelects
  <2>4. DeadInv'
      BY <1>0, <1>b, <2>1, <2>2 DEF TypeOK, Stages, LoopTime, DeadInv, LookedFor, SweepSelects
  <2> QED
      BY <2>3, <2>4 DEF BaseInv
<1>c. CASE SweepCommits
    BY <1>0, <1>c DEF BaseInv, TypeOK, Stages, LoopTime, AgeInv, DeadInv, LookedFor, GhostInv,
                      SweepCommits
<1>2. CASE Tick
  <2>1. TypeOK'
      BY <1>0, <1>2 DEF TypeOK, Stages, LoopTime, Tick
  <2>2. AgeInv'
      BY <1>0, <1>2 DEF TypeOK, AgeInv, Tick, MayWait, SleepTime
  <2>3. DeadInv'
      BY <1>0, <1>2 DEF TypeOK, Stages, LoopTime, DeadInv, LookedFor, Tick
  <2>4. GhostInv'
    <3>1. age' \in Nat /\ (phase # "dead" => age' = age + 1) /\ missed' = missed /\ phase' = phase
          /\ row' = row
        BY <1>0, <1>2 DEF TypeOK, Tick
    <3>2. ghost' = ghost \/ (ghost' = ghost + 1 /\ row = "taken" /\ phase \in {"sleeping", "beating"})
        BY <1>2 DEF Tick
    <3>3. /\ phase = "sleeping" => age + 1 <= Heartbeat
          /\ phase = "beating" => age + 1 <= BeatDelay
        BY <1>0, <1>2 DEF TypeOK, Tick, MayWait, SleepTime
    <3> QED
        BY <1>0, <3>1, <3>2, <3>3 DEF TypeOK, GhostInv
  <2> QED
      BY <2>1, <2>2, <2>3, <2>4 DEF BaseInv
<1> QED
    BY <1>a, <1>b, <1>c, <1>2

\* It is an invariant.
THEOREM BaseInvariance == Spec => []BaseInv
<1>1. Init => BaseInv
    BY InitBase
<1>2. BaseInv /\ [Next]_vars => BaseInv'
  <2> SUFFICES ASSUME BaseInv, [Next]_vars PROVE BaseInv'
      OBVIOUS
  <2>1. CASE UNCHANGED vars
      BY <2>1 DEF vars, BaseInv, TypeOK, AgeInv, DeadInv, LookedFor, GhostInv
  <2> QED
      BY <2>1, RunnerBase, BeatBase, TimeBase DEF Next
<1> QED
    BY <1>1, <1>2, PTL DEF Spec

\* Types, for every setting.
THEOREM TypeCorrect == Spec => []TypeOK
<1>1. BaseInv => TypeOK
    BY DEF BaseInv
<1> QED
    BY <1>1, BaseInvariance, PTL

\* A dead owner loses its job within a lease, an interval and two sweeps.
THEOREM RecoveryTheorem == Spec => []RecoveredInTime
<1>1. BaseInv => RecoveredInTime
    BY DEF BaseInv, DeadInv, RecoveredInTime
<1> QED
    BY <1>1, BaseInvariance, PTL

\* A handler outlives its ownership by the failed beats and one more at most.
THEOREM GhostTheorem == Spec => []GhostIsShort
<1>1. BaseInv => GhostIsShort
  <2> SUFFICES ASSUME BaseInv PROVE ghost <= Used(MaxFailed + 1)
      BY DEF GhostIsShort, Used
  <2>1. MaxFailed \in 0..MaxFailed
      BY TimingAssumption
  <2>2. Used(MaxFailed + 1) = Used(MaxFailed) + Heartbeat + BeatDelay
      BY <2>1, UsedFacts
  <2> QED
      BY <2>2 DEF BaseInv, GhostInv
<1> QED
    BY <1>1, BaseInvariance, PTL

-----------------------------------------------------------------------------
(* The room in the lease. *)

\* What claim and start-up, or the beat that stamped the lease, take at most.
Stamped == Longer(2 * CallDelay, BeatDelay)

\* How much of the lease is left at each place of the runner.
RoomInv ==
    phase # "dead" /\ row = "held" =>
        /\ phase = "claiming" => left >= Lease - age
        /\ phase = "dropping" => left >= Lease - CallDelay - age
        /\ phase = "sleeping" => left >= Lease - Stamped - Used(missed) - age
        /\ phase \in {"beating", "stopping", "settling"} =>
               left >= Lease - Stamped - Used(missed) - Heartbeat - age
        /\ phase # "done"

\* A sweep locks or takes the job of a live owner only if there was no room for
\* its failures.
TakenInv == phase # "dead" /\ row \in {"locked", "taken"} => ~Headroom(missed)

\* Enough room everywhere means that the lease has not run out.
LEMMA RoomIsEnough ==
    ASSUME Headroom(missed), BaseInv, RoomInv, phase # "dead", row = "held"
    PROVE  left >= 0
<1> USE TimingAssumption, UsedFacts
<1>1. Lease >= Stamped + Used(missed) + Heartbeat + Longer(CallDelay, BeatDelay)
    BY DEF Headroom, Stamped, Used
<1>2. /\ Stamped \in Nat /\ Stamped >= 2 * CallDelay /\ Stamped >= BeatDelay
      /\ Longer(CallDelay, BeatDelay) >= CallDelay
      /\ Longer(CallDelay, BeatDelay) >= BeatDelay
      /\ Longer(CallDelay, BeatDelay) \in Nat
    BY DEF Stamped, Longer
<1>3. TypeOK /\ AgeInv /\ Used(missed) \in Nat
    BY DEF BaseInv, TypeOK
<1> QED
    BY <1>1, <1>2, <1>3 DEF RoomInv, TypeOK, AgeInv, Phases

\* A failed beat needs more room, never less.
LEMMA HeadroomShrinks ==
    ASSUME NEW m \in 0..MaxFailed, Headroom(m + 1)
    PROVE  Headroom(m)
<1> USE TimingAssumption, UsedFacts
<1>1. Used(m) \in Nat /\ Used(m + 1) = Used(m) + Heartbeat + BeatDelay
    OBVIOUS
<1>2. Longer(2 * CallDelay, BeatDelay) \in Nat /\ Longer(CallDelay, BeatDelay) \in Nat
    BY DEF Longer
<1>3. Lease >= Longer(2 * CallDelay, BeatDelay) + Used(m + 1) + Heartbeat
                 + Longer(CallDelay, BeatDelay)
    BY DEF Headroom, Used
<1>4. Lease >= Longer(2 * CallDelay, BeatDelay) + Used(m) + Heartbeat
                 + Longer(CallDelay, BeatDelay)
    BY <1>1, <1>2, <1>3
<1> QED
    BY <1>4 DEF Headroom, Used

\* Every step leaves the room.
LEMMA NextRoom ==
    ASSUME BaseInv, RoomInv, Next
    PROVE  RoomInv'
<1> USE TimingAssumption, UsedFacts
<1>2. Stamped \in Nat /\ Stamped >= 2 * CallDelay /\ Stamped >= BeatDelay
    BY DEF Stamped, Longer
<1>3. TypeOK /\ AgeInv /\ Used(missed) \in Nat
    BY DEF BaseInv, TypeOK
<1>a. CASE ClaimReturns
    BY <1>a, <1>2, <1>3 DEF RoomInv, TypeOK, AgeInv, ClaimReturns, Goto
<1>b. CASE Starts
  <2>2. row = "held" => left >= Lease - 2 * CallDelay
      BY <1>b, <1>3 DEF RoomInv, TypeOK, AgeInv, Starts
  <2> QED
      BY <1>b, <1>2, <1>3, <2>2 DEF RoomInv, TypeOK, Starts, Goto
<1>c. CASE NoHandler
  <2>2. row = "held" => left >= Lease - 2 * CallDelay
      BY <1>c, <1>3 DEF RoomInv, TypeOK, AgeInv, NoHandler
  <2> QED
      BY <1>c, <1>2, <1>3, <2>2 DEF RoomInv, TypeOK, NoHandler, Goto
<1>d. CASE HandlerEnds
    BY <1>d, <1>2, <1>3 DEF RoomInv, TypeOK, AgeInv, HandlerEnds, Goto
<1>e. CASE Settles
    BY <1>e, <1>3 DEF RoomInv, TypeOK, Settles, Goto
<1>f. CASE Dies
    BY <1>f DEF RoomInv, Dies, Goto
<1>g. CASE Wakes
    BY <1>g, <1>2, <1>3 DEF RoomInv, TypeOK, AgeInv, Wakes, Goto, SleepTime
<1>h. CASE BeatLands
  <2>1. PICK a \in 0..age : left' = Lease - a
      BY <1>h DEF BeatLands, LeaseDeadline
  <2>2. age <= BeatDelay /\ left' >= Lease - Stamped
      BY <1>h, <2>1, <1>2, <1>3 DEF BeatLands, TypeOK, AgeInv
  <2>3. missed' = 0 /\ Used(missed') = 0 /\ row' = "held" /\ age' = 0
        /\ phase' \in {"sleeping", "settling"}
      BY <1>h DEF BeatLands, AfterBeat, Goto
  <2> QED
      BY <1>2, <1>3, <2>1, <2>2, <2>3 DEF RoomInv, TypeOK
<1>i. CASE BeatFails
  <2>1. Used(missed') = Used(missed) + Heartbeat + BeatDelay
      BY <1>i, <1>3 DEF TypeOK, BeatFails
  <2>2. row = "held" => left >= Lease - Stamped - Used(missed')
      BY <1>i, <2>1, <1>2, <1>3 DEF BeatFails, RoomInv, TypeOK, AgeInv
  <2> QED
      BY <1>i, <1>2, <1>3, <2>1, <2>2 DEF RoomInv, TypeOK, BeatFails, AfterBeat, Goto
<1>j. CASE BeatLost
    BY <1>j DEF RoomInv, BeatLost
<1>k. CASE SweepBegins \/ SweepSelects \/ SweepCommits
  <2>1. UNCHANGED <<phase, age, left, missed>> /\ (row' = "held" => row = "held")
      BY <1>k, <1>3 DEF TypeOK, SweepBegins, SweepSelects, SweepCommits
  <2> QED
      BY <2>1 DEF RoomInv
<1>l. CASE Tick
    BY <1>l, <1>2, <1>3 DEF RoomInv, TypeOK, Tick
<1> QED
    BY <1>a, <1>b, <1>c, <1>d, <1>e, <1>f, <1>g, <1>h, <1>i, <1>j, <1>k, <1>l DEF Next

\* Only a sweep takes the job, and only beats change what has failed.
LEMMA NextTaken ==
    ASSUME BaseInv, RoomInv, TakenInv, Next
    PROVE  TakenInv'
<1>1. CASE SweepBegins \/ SweepSelects \/ SweepCommits
  <2>1. row = "held" /\ row' # "held" /\ phase # "dead" => ~Headroom(missed)
    <3> SUFFICES ASSUME row = "held", row' # "held", phase # "dead", Headroom(missed)
                 PROVE  FALSE
        OBVIOUS
    <3>1. PICK a \in 0..poll : left + a < 0
        BY <1>1 DEF SweepBegins, SweepSelects, SweepCommits
    <3>2. left < 0
        BY <3>1, TimingAssumption DEF BaseInv, TypeOK, LoopTime
    <3> QED
        BY <3>2, RoomIsEnough DEF BaseInv, TypeOK
  <2>2. /\ missed' = missed /\ phase' = phase
        /\ row' \in {"locked", "taken"} => row \in {"held", "locked", "taken"}
      BY <1>1 DEF SweepBegins, SweepSelects, SweepCommits, BaseInv, TypeOK
  <2>3. Headroom(missed)' <=> Headroom(missed)
      BY <2>2 DEF Headroom
  <2> QED
      BY <2>1, <2>2, <2>3 DEF TakenInv
<1>2. CASE BeatFails
  <2>1. missed \in 0..MaxFailed /\ missed' = missed + 1 /\ row' = row /\ phase # "dead"
      BY <1>2 DEF BeatFails, BaseInv, TypeOK
  <2>2. Headroom(missed)' => Headroom(missed + 1)
      BY <2>1 DEF Headroom
  <2> QED
      BY <2>1, <2>2, HeadroomShrinks DEF TakenInv
<1>3. CASE BeatLands
    BY <1>3 DEF BeatLands, TakenInv
<1>4. CASE \/ ClaimReturns \/ Starts \/ NoHandler \/ HandlerEnds \/ Settles \/ Dies
           \/ Wakes \/ BeatLost \/ Tick
  <2>1. missed' = missed /\ (row' = row \/ row' = "settled") /\ (phase = "dead" => phase' = "dead")
      BY <1>4 DEF ClaimReturns, Starts, NoHandler, HandlerEnds, Settles, Dies, Wakes, BeatLost,
                  Tick, Goto
  <2>2. Headroom(missed)' <=> Headroom(missed)
      BY <2>1 DEF Headroom
  <2> QED
      BY <2>1, <2>2 DEF TakenInv
<1> QED
    BY <1>1, <1>2, <1>3, <1>4 DEF Next

\* An owner that is alive keeps its lease as long as the settings leave room for
\* the beats that failed, however its calls and beats fall within their bounds.
THEOREM HeadroomTheorem == Spec => []OwnerKeepsLease
<1>1. Init => RoomInv /\ TakenInv
  <2> SUFFICES ASSUME Init PROVE RoomInv /\ TakenInv
      OBVIOUS
  <2> QED
      BY TimingAssumption DEF Init, RoomInv, TakenInv, LeaseDeadline
<1>2. BaseInv /\ RoomInv /\ TakenInv /\ [Next]_vars => (RoomInv /\ TakenInv)'
  <2>1. CASE UNCHANGED vars
      BY <2>1 DEF vars, RoomInv, TakenInv, Headroom
  <2> QED
      BY <2>1, NextRoom, NextTaken
<1>3. BaseInv /\ RoomInv /\ TakenInv => OwnerKeepsLease
    BY RoomIsEnough DEF OwnerKeepsLease, TakenInv
<1> QED
    BY <1>1, <1>2, <1>3, BaseInvariance, PTL DEF Spec
=============================================================================
