----------------------------- MODULE MCHandoff -----------------------------
(* TLC instance of Handoff. *)
EXTENDS Handoff
=============================================================================
