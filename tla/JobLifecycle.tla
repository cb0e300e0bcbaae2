---------------------------- MODULE JobLifecycle ----------------------------
(***************************************************************************)
(* What the service promises about a job, without leases, tokens, clocks   *)
(* or queues: a job waits, runs under one exclusive owner, and ends done,  *)
(* failed or cancelled.  An owner is never used twice.  A job is tried at  *)
(* most MaxAttempts times before it fails, it fails only after the last    *)
(* try, and only a failed job starts over.                                 *)
(*                                                                         *)
(* Losing an owner (its lease ran out) and a failing handler look alike    *)
(* from here: the try is given back.  A recovery sweep gives back several  *)
(* jobs in one transaction, so GiveBack takes a set.                       *)
(***************************************************************************)
EXTENDS Naturals

CONSTANTS Jobs, Owners, NoOwner, MaxAttempts

VARIABLES
    phase,   \* phase[j]: where job j is in its life
    tries,   \* tries[j]: how often it was begun since it was (re)started
    owner,   \* owner[j]: who runs it
    used     \* every owner there ever was

vars == <<phase, tries, owner, used>>

Phases == {"absent", "waiting", "running", "done", "failed", "cancelled"}

Init ==
    /\ phase = [j \in Jobs |-> "absent"]
    /\ tries = [j \in Jobs |-> 0]
    /\ owner = [j \in Jobs |-> NoOwner]
    /\ used = {}

Accept(j) ==
    /\ phase[j] = "absent"
    /\ phase' = [phase EXCEPT ![j] = "waiting"]
    /\ UNCHANGED <<tries, owner, used>>

Begin(j, o) ==
    /\ phase[j] = "waiting"
    /\ tries[j] < MaxAttempts
    /\ o \notin used
    /\ phase' = [phase EXCEPT ![j] = "running"]
    /\ tries' = [tries EXCEPT ![j] = @ + 1]
    /\ owner' = [owner EXCEPT ![j] = o]
    /\ used' = used \union {o}

Finish(j) ==
    /\ phase[j] = "running"
    /\ phase' = [phase EXCEPT ![j] = "done"]
    /\ owner' = [owner EXCEPT ![j] = NoOwner]
    /\ UNCHANGED <<tries, used>>

GiveBack(S) ==
    /\ \A j \in S : phase[j] = "running"
    /\ phase' = [j \in Jobs |-> IF j \notin S THEN phase[j]
                                ELSE IF tries[j] < MaxAttempts THEN "waiting"
                                ELSE "failed"]
    /\ owner' = [j \in Jobs |-> IF j \in S THEN NoOwner ELSE owner[j]]
    /\ UNCHANGED <<tries, used>>

Drop(j) ==
    /\ phase[j] = "waiting"
    /\ phase' = [phase EXCEPT ![j] = "cancelled"]
    /\ UNCHANGED <<tries, owner, used>>

Restart(j) ==
    /\ phase[j] = "failed"
    /\ phase' = [phase EXCEPT ![j] = "waiting"]
    /\ tries' = [tries EXCEPT ![j] = 0]
    /\ UNCHANGED <<owner, used>>

Next ==
    \/ \E j \in Jobs : Accept(j) \/ Finish(j) \/ Drop(j) \/ Restart(j)
    \/ \E j \in Jobs, o \in Owners : Begin(j, o)
    \/ \E S \in SUBSET Jobs : GiveBack(S)

Spec == Init /\ [][Next]_vars
=============================================================================
