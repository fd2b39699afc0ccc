------------------------------ MODULE MCFleet ------------------------------
(* Fleet on small instances.  An id is the endpoint it was hashed from and   *)
(* the number of times it was expanded: ids of different endpoints differ.   *)
EXTENDS Fleet

CONSTANTS p1, p2, r1, r2, q1, q2, f1, f2

MCId == Endpoint \X {1, 2}
MCCandidates == [e \in Endpoint |-> [k \in 1..2 |-> <<e, k>>]]
=============================================================================
