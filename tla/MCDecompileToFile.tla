-------------------------- MODULE MCDecompileToFile --------------------------
(* DecompileToFile on a small instance. *)
EXTENDS DecompileToFile, TLC
=============================================================================
