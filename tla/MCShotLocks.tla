----------------------------- MODULE MCShotLocks -----------------------------
(***************************************************************************)
(* Three threads, two of them in one process, and two layers.              *)
(***************************************************************************)
EXTENDS ShotLocks, TLC

CONSTANTS t1, t2, t3, p1, p2

TwoInOne == t1 :> p1 @@ t2 :> p1 @@ t3 :> p2
Siblings == Permutations({t1, t2})
==============================================================================
