----------------------------- MODULE MCNodePool -----------------------------
(* NodePool on small instances: requests and channels are model values, and  *)
(* interchangeable in the runs that check safety only.                       *)
EXTENDS NodePool, TLC

Interchangeable == Permutations(Requests) \cup Permutations(Channels)
=============================================================================
