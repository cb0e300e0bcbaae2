----------------------------- MODULE LeaseTiming -----------------------------
(***************************************************************************)
(* One attempt in time: its claim, the heartbeat beside its handler, its   *)
(* settlement, and a recovery loop in another process that stays up.       *)
(*                                                                         *)
(* Time passes in Tick.  `left` is lease_expires_at - now() and `age` the  *)
(* time the present await has taken so far; a Tick is not possible while   *)
(* the await has to return.  How long calls take and how many beats fail   *)
(* in a row is not in the code: these are the constants CallDelay,         *)
(* BeatDelay and MaxFailed.  Waits for the lock of the row are part of the *)
(* call that waits, lags of the event loop of the call that follows.  The  *)
(* sweeps do not fail, and their batch has room for this row.              *)
(***************************************************************************)
EXTENDS Integers

CONSTANTS
    Lease,        \* job_lease_seconds
    Heartbeat,    \* job_heartbeat_seconds
    Interval,     \* recovery_interval_seconds
    CallDelay,    \* longest claim, removal of an entry, settlement or sweep
    BeatDelay,    \* longest beat
    MaxFailed     \* most beats that fail in a row

\* What the validator of Settings enforces.
ValidSettings == Heartbeat < Lease

ASSUME TimingAssumption ==
    /\ Lease \in Nat /\ Heartbeat \in Nat /\ Interval \in Nat \ {0}
    /\ CallDelay \in Nat /\ BeatDelay \in Nat /\ MaxFailed \in Nat
    /\ ValidSettings

VARIABLES
    phase,    \* what the runner of the attempt is doing
    age,      \* for how long
    row,      \* the job: held by the attempt, locked and then taken by a sweep,
              \* or settled
    left,     \* time left on the lease
    missed,   \* beats that failed since the last one that did not
    loop,     \* where the recovery loop is
    poll,     \* for how long it has slept, or its present sweep has run
    dead,     \* history: time since the owner died, until the row is free
    ghost     \* history: time the handler has run after the row was taken

vars == <<phase, age, row, left, missed, loop, poll, dead, ghost>>

Phases == {"claiming", "dropping", "sleeping", "beating", "stopping",
           "settling", "dead", "done"}

\* A sweep that has begun has yet to look at the row, or has looked at it.
Stages == {"asleep", "sweeping", "selected"}

\* How long the loop stays asleep, and in one sweep.
LoopTime(l) == IF l = "asleep" THEN Interval ELSE CallDelay

\* The lease is stamped with now() of a transaction that began a ago.
LeaseDeadline(a) == Lease - a

\* The claim has just been stamped, whatever the recovery loop is doing.
Init ==
    /\ phase = "claiming" /\ age = 0
    /\ row = "held" /\ left = LeaseDeadline(0)
    /\ missed = 0
    /\ loop \in Stages /\ poll \in 0..LoopTime(loop)
    /\ dead = 0 /\ ghost = 0

-----------------------------------------------------------------------------
(* The runner. *)

Goto(p) == phase' = p /\ age' = 0

ClaimReturns ==
    /\ phase = "claiming"
    /\ Goto("dropping")
    /\ UNCHANGED <<row, left, missed, loop, poll, dead, ghost>>

\* The entry is dropped; handler and heartbeat start.
Starts ==
    /\ phase = "dropping"
    /\ Goto("sleeping")
    /\ UNCHANGED <<row, left, missed, loop, poll, dead, ghost>>

\* No handler for this job type: the failure is settled at once.
NoHandler ==
    /\ phase = "dropping"
    /\ Goto("settling")
    /\ UNCHANGED <<row, left, missed, loop, poll, dead, ghost>>

\* The handler returns or raises.  A sleeping heartbeat ends at once, a beat
\* under way is awaited; one that STOP_TIMEOUT_SECONDS cuts off has failed.
HandlerEnds ==
    /\ \/ phase = "sleeping" /\ Goto("settling")
       \/ phase = "beating" /\ phase' = "stopping" /\ UNCHANGED age
    /\ UNCHANGED <<row, left, missed, loop, poll, dead, ghost>>

\* The statement waits for a sweep that has the row locked.
Settles ==
    /\ phase = "settling"
    /\ row # "locked"
    /\ Goto("done")
    /\ row' = IF row = "held" THEN "settled" ELSE row
    /\ UNCHANGED <<left, missed, loop, poll, dead, ghost>>

\* The process dies, or a call raises and the runner gives the attempt up.
Dies ==
    /\ phase \notin {"dead", "done"}
    /\ Goto("dead")
    /\ UNCHANGED <<row, left, missed, loop, poll, dead, ghost>>

-----------------------------------------------------------------------------
(* The heartbeat. *)

\* The lease in the place of the interval.
SleepTimeMut == Lease

\* How long _run sleeps between two beats.
SleepTime == Heartbeat

\* sleep_until_stopped has run its full interval.
Wakes ==
    /\ phase = "sleeping"
    /\ age = SleepTime
    /\ Goto("beating")
    /\ UNCHANGED <<row, left, missed, loop, poll, dead, ghost>>

AfterBeat == IF phase = "beating" THEN "sleeping" ELSE "settling"

\* A beat adds a lease to what is left of the old one.
BeatLandsMut ==
    /\ phase \in {"beating", "stopping"}
    /\ row = "held"
    /\ left' = left + Lease
    /\ missed' = 0
    /\ Goto(AfterBeat)
    /\ UNCHANGED <<row, loop, poll, dead, ghost>>

\* The beat extends the lease; its transaction began some time during the call.
BeatLands ==
    /\ phase \in {"beating", "stopping"}
    /\ row = "held"
    /\ \E a \in 0..age : left' = LeaseDeadline(a)
    /\ missed' = 0
    /\ Goto(AfterBeat)
    /\ UNCHANGED <<row, loop, poll, dead, ghost>>

\* A database error: logged, and the next beat tries again.  (If only the reply
\* was lost, more is left on the lease than here.)
BeatFails ==
    /\ phase \in {"beating", "stopping"}
    /\ missed < MaxFailed
    /\ missed' = missed + 1
    /\ Goto(AfterBeat)
    /\ UNCHANGED <<row, left, loop, poll, dead, ghost>>

\* The error of a fenced beat is taken for a passing one.
BeatLostMut ==
    /\ phase \in {"beating", "stopping"}
    /\ row = "taken"
    /\ Goto(AfterBeat)
    /\ UNCHANGED <<row, left, missed, loop, poll, dead, ghost>>

\* The fence: the attempt is gone, the handler is cancelled and nothing is
\* written; a handler that had ended by then still tries to settle.
BeatLost ==
    /\ phase \in {"beating", "stopping"}
    /\ row = "taken"
    /\ Goto(IF phase = "beating" THEN "done" ELSE "settling")
    /\ UNCHANGED <<row, left, missed, loop, poll, dead, ghost>>

-----------------------------------------------------------------------------
(* The recovery loop, and time. *)

\* The loop has slept its interval: the next cycle begins.
SweepBegins ==
    /\ loop = "asleep" /\ poll = Interval
    /\ loop' = "sweeping" /\ poll' = 0
    /\ UNCHANGED <<phase, age, row, left, missed, dead, ghost>>

\* The transaction of the sweep began a ago, and its now() stands still since:
\* an expired row is locked, and the update after it compares the same two times.
SweepSelects ==
    /\ loop = "sweeping"
    /\ loop' = "selected"
    /\ \E a \in 0..poll :
          row' = IF row = "held" /\ left + a < 0 THEN "locked" ELSE row
    /\ UNCHANGED <<phase, age, left, missed, poll, dead, ghost>>

\* The commit is missing: closing the session rolls the batch back.
SweepCommitsMut ==
    /\ loop = "selected"
    /\ loop' = "asleep" /\ poll' = 0
    /\ row' = IF row = "locked" THEN "held" ELSE row
    /\ UNCHANGED <<phase, age, left, missed, dead, ghost>>

\* One commit for the batch frees the row; the loop goes to sleep.
SweepCommits ==
    /\ loop = "selected"
    /\ loop' = "asleep" /\ poll' = 0
    /\ row' = IF row = "locked" THEN "taken" ELSE row
    /\ UNCHANGED <<phase, age, left, missed, dead, ghost>>

\* How long an await may take; a dead process waits for nothing.
MayWait ==
    \/ phase \in {"claiming", "dropping", "settling"} /\ age < CallDelay
    \/ phase = "sleeping" /\ age < SleepTime
    \/ phase \in {"beating", "stopping"} /\ age < BeatDelay
    \/ phase = "dead"

Tick ==
    /\ MayWait
    /\ poll < LoopTime(loop)
    /\ phase = "dead" => row \in {"held", "locked"}
    /\ age' = IF phase = "dead" THEN 0 ELSE age + 1
    /\ left' = IF row \in {"held", "locked"} THEN left - 1 ELSE left
    /\ poll' = poll + 1
    /\ dead' = IF phase = "dead" THEN dead + 1 ELSE dead
    /\ ghost' = IF row = "taken" /\ phase \in {"sleeping", "beating"} THEN ghost + 1 ELSE ghost
    /\ UNCHANGED <<phase, row, missed, loop>>

Next ==
    \/ ClaimReturns \/ Starts \/ NoHandler \/ HandlerEnds \/ Settles \/ Dies
    \/ Wakes \/ BeatLands \/ BeatFails \/ BeatLost
    \/ SweepBegins \/ SweepSelects \/ SweepCommits
    \/ Tick

Spec == Init /\ [][Next]_vars

-----------------------------------------------------------------------------
(* Properties. *)

\* Every variable has its type, and a lease never has more than Lease to run.
TypeOK ==
    /\ phase \in Phases
    /\ age \in Nat
    /\ row \in {"held", "locked", "taken", "settled"}
    /\ left \in Int /\ left <= Lease
    /\ missed \in 0..MaxFailed
    /\ loop \in Stages /\ poll \in 0..LoopTime(loop)
    /\ dead \in Nat /\ ghost \in Nat

Longer(x, y) == IF x < y THEN y ELSE x

\* The lease outlasts the claim (or the beat that stamped it), n failed beats and
\* their intervals, and the beat or settlement that comes at last.
Headroom(n) ==
    Lease >= Longer(2 * CallDelay, BeatDelay) + n * (Heartbeat + BeatDelay)
               + Heartbeat + Longer(CallDelay, BeatDelay)

\* "A worker that is merely slow is never mistaken for a crashed one": an owner
\* that is alive keeps its lease, and recovery does not take its job, from the
\* claim to the settlement, while there is room for the beats that failed.
OwnerKeepsLease ==
    phase # "dead" /\ Headroom(missed) =>
        row \notin {"locked", "taken"} /\ (row = "held" => left >= 0)

\* A dead owner loses its job in bounded time, whatever it did before: a full
\* lease, the sweep that began just too early to see it expired, one interval
\* and the sweep that takes the job.
RecoveredInTime == dead <= Lease + Interval + 2 * CallDelay

\* A handler whose job was taken runs on for at most this long, so that it has
\* stopped before a retry that waits longer can begin.
GhostIsShort == ghost <= (MaxFailed + 1) * (Heartbeat + BeatDelay)
=============================================================================
