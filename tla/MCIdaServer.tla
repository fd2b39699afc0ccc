---------------------------- MODULE MCIdaServer -----------------------------
(* IdaServer on a small instance: a tool in a native loop and one that an    *)
(* SSE client calls; their clients give both requests the same id, as the    *)
(* routers do.                                                               *)
EXTENDS IdaServer, TLC

CONSTANTS a, b, i1, s1

SameIds  == a :> i1 @@ b :> i1
Sessions == a :> None @@ b :> s1
=============================================================================
