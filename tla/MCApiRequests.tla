---------------------------- MODULE MCApiRequests ----------------------------
(* A small instance of ApiRequests for TLC. *)
EXTENDS ApiRequests, TLC

Delays == [n \in 1..(MaxAttempts - 1) |-> 1]

\* Requests are interchangeable.
MCSymmetry == Permutations(Requests)
=============================================================================
