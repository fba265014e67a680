------------------------------ MODULE MCPlane ------------------------------
(* TLC instances of Plane. *)
EXTENDS Plane, TLC

\* Node ids and descriptors are interchangeable; session ids are ordered.
Symmetry == Permutations(Nids) \cup Permutations(Fds) \cup Permutations(Reactors)
=============================================================================
