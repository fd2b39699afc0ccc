-------------------------- MODULE MCIdalibManager --------------------------
(* IdalibManager on small instances: every worker hashes to the same ids, so *)
(* an id that one worker leaves is given to the next one.                    *)
EXTENDS IdalibManager, TLC

CONSTANTS m1, m2, a, b, p1, p2, p3, f1, f2

MCInfo       == [gen : Gen, pid : Pid, path : Path]
MCCandidates == [x \in MCInfo |-> <<a, b>>]
MCNonceOf    == [x \in MCInfo |-> x.gen]
=============================================================================
