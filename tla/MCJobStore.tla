----------------------------- MODULE MCJobStore -----------------------------
(* Small instances of JobStore for TLC. *)
EXTENDS JobStore, TLC

\* 30 s and 120 s, kept in order and scaled to the clock of the instance.
MCDelays3 == 1 :> 1 @@ 2 :> 2

\* Jobs and workers are only compared for equality.
MCSymmetry == Permutations(Jobs) \union Permutations(Workers)
=============================================================================
