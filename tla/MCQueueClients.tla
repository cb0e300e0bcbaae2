--------------------------- MODULE MCQueueClients ---------------------------
(* A small instance of QueueClients and of the printed order for TLC. *)
EXTENDS MemberOrder, TLC

\* Jobs are only compared for equality.
MCSymmetry == Permutations(Jobs)
=============================================================================
