--------------------------- MODULE MCRecoverySweep ---------------------------
(* A small instance of RecoverySweep for TLC. *)
EXTENDS RecoverySweep, TLC

Delays == [n \in 1..(MaxAttempts - 1) |-> 1]

\* Workers and recovery loops are interchangeable.
MCSymmetry == Permutations(Workers) \union Permutations(Sweepers)
=============================================================================
