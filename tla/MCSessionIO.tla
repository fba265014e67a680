---------------------------- MODULE MCSessionIO -----------------------------
(* TLC instances of SessionIO. *)
EXTENDS SessionIO, TLC

\* A payload of three bytes that looks like nothing, and one in which a header
\* of two bytes is found from its first byte on, for a frame without payload,
\* and another from its second on, whose payload would reach into the next frame.
MCInner ==
  {<< >>,
   3 :> [length |-> 0, kind |-> "inbound"] @@ 4 :> [length |-> 3, kind |-> "system"]}
=============================================================================
