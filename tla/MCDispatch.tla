----------------------------- MODULE MCDispatch -----------------------------
(* Instances of Dispatch for TLC. *)
EXTENDS Dispatch, TLC

\* Jobs of one priority: the order between them is that of publication.
MCSamePriority == [j \in Jobs |-> 50]

\* Workers are alike, and so are jobs of one priority.
MCSymmetry == Permutations(Workers) \union Permutations(Jobs)
=============================================================================
