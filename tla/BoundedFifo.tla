---------------------------- MODULE BoundedFifo ----------------------------
(***************************************************************************)
(* What SpscQueue promises to the two threads that share it: a first-in    *)
(* first-out queue of at most Capacity values.  A Push that reports `full' *)
(* and a Pop that reports `empty' change nothing, so they are stuttering   *)
(* steps here.                                                             *)
(***************************************************************************)
EXTENDS Naturals, Sequences

CONSTANTS
  Capacity,   (* the capacity the queue was constructed with *)
  Values      (* the values that may be queued               *)

VARIABLES
  queue,      (* the values pushed and not yet popped, oldest first *)
  popped      (* << >>, or a one-element sequence: the last value a
                 Pop returned                                       *)

vars == <<queue, popped>>

Init ==
  /\ queue = << >>
  /\ popped = << >>

Push(v) ==
  /\ Len(queue) < Capacity
  /\ queue' = Append(queue, v)
  /\ UNCHANGED popped

Pop ==
  /\ queue # << >>
  /\ popped' = <<Head(queue)>>
  /\ queue' = Tail(queue)

Next == (\E v \in Values : Push(v)) \/ Pop

Spec == Init /\ [][Next]_vars

=============================================================================
