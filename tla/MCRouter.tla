------------------------------ MODULE MCRouter ------------------------------
(* Router on a small instance: fewer ids than ports, so that an id gets a new *)
(* owner, and two binaries.                                                   *)
EXTENDS Router, TLC

CONSTANTS a, b, q1, q2, nA, nB, o1, o2, o3

Symmetry == Permutations(Port) \cup Permutations(Name) \cup Permutations(Output)
=============================================================================
