---------------------------- MODULE MCRunController ----------------------------
(***************************************************************************)
(* Instances of RunController for TLC: two causes of one layer and one of  *)
(* another, and runs that are interchangeable.                             *)
(***************************************************************************)
EXTENDS RunController, TLC

CONSTANTS r1, r2, c1, c2, c3, one, two

LayerOfCause == [c \in Causes |-> IF c = c3 THEN two ELSE one]
InterchangeableRuns == Permutations(Runs)
=============================================================================
