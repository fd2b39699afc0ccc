--------------------------- MODULE MCRegistryFile ---------------------------
(* RegistryFile on a small instance: two registrations that hash to the same *)
(* id, so every lost or repeated update shows in the ids that are handed out. *)
EXTENDS RegistryFile, TLC

CONSTANTS a, b, g1, w1, n1, p, q

MCCandidates == g1 :> <<a, b>> @@ w1 :> <<a, b>>
MCNonceOf    == g1 :> None @@ w1 :> n1

Calls ==
    [op : {"register"}, x : {g1, w1}]
    \cup [op : {"unregister", "heartbeat", "activate", "expire"}, id : {a}]
    \cup [op : {"owner"}, id : {a}, nonce : {n1}]
    \cup [op : {"cleanup", "read"}]
=============================================================================
