----------------------------- MODULE MCMigration -----------------------------
(* A small instance of Migration for TLC. *)
EXTENDS Migration

Delays == [n \in 1..(MaxAttempts - 1) |-> 1]
=============================================================================
