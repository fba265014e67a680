------------------------------ MODULE MCBench ------------------------------
(* TLC instance of Bench. *)
EXTENDS Bench
=============================================================================
