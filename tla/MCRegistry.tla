----------------------------- MODULE MCRegistry -----------------------------
(* Registry on a small instance: two short ids and an expanded one, and     *)
(* registrations whose hashes collide.  g1 and g2 are GUI instances (no     *)
(* nonce), w1 and w2 are workers of two managers; g1, w1 and w2 hash to the *)
(* same short id, so ids are expanded and reused.                           *)
EXTENDS Registry, TLC

CONSTANTS a, b, c, g1, w1, w2, n1, n2

MCCandidates == g1 :> <<a, b>> @@ w1 :> <<a, c>> @@ w2 :> <<a, b, c>>
MCNonceOf    == g1 :> None @@ w1 :> n1 @@ w2 :> n2
=============================================================================
