----------------------------- MODULE MCUnitState -----------------------------
(***************************************************************************)
(* An instance of UnitState for TLC: c depends on b and b on a.  Plan B    *)
(* cuts b loose from a, so c falls with b although its own digest is       *)
(* unchanged; plan C rewrites a and drops c after a change in an upstream  *)
(* layer.  Three selections and a second attempt of the first unit, so A   *)
(* to B to A, the return of a dropped unit and re-acceptance after a       *)
(* revocation happen.                                                      *)
(***************************************************************************)
EXTENDS UnitState, TLC

CONSTANTS ua, ub, uc, A, B, C

ChainUnits == A :> {ua, ub, uc} @@ B :> {ua, ub, uc} @@ C :> {ua, ub}
ChainDeps ==
    [p \in {A, B, C} |-> ua :> {} @@ ub :> (IF p = B THEN {} ELSE {ua}) @@ uc :> {ub}]
ChainDigest ==
    [p \in {A, B, C} |->
        ua :> (IF p = C THEN C ELSE A) @@ ub :> (IF p = B THEN B ELSE A) @@ uc :> A]
ChainUpstream == [p \in {A, B, C} |-> IF p = C THEN C ELSE A]

FirstUnitTwice == ua :> 2 @@ ub :> 1 @@ uc :> 1
RowPermutations == Permutations(PriorRows)
OnceEach == ua :> 1 @@ ub :> 1 @@ uc :> 1
==============================================================================
