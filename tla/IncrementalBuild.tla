--------------------------- MODULE IncrementalBuild ---------------------------
(***************************************************************************)
(* What the work-unit state of a layer promises: an incremental build.     *)
(* Units are built by attempts that last for hours, several processes      *)
(* change the state meanwhile, and yet a unit is accepted in one step, on  *)
(* the results that its dependencies have at that moment; a result goes    *)
(* with every result that was built from it; a new plan keeps exactly      *)
(* results that would be built in the same way from results it keeps; and  *)
(* the layer is closed on the results it has.                              *)
(***************************************************************************)
CONSTANTS Units, Plans, PlanUnits, Deps, Digest, None

VARIABLES
    plan,
    result,   \* result[u]: the accepted attempt of u, or None
    inputs,   \* inputs[u]: the results of its dependencies that it was built from
    spent,    \* spent[u]: the attempts of u that have ended
    closed    \* the results that the layer was closed on, or None

vars == <<plan, result, inputs, spent, closed>>

Init ==
    /\ plan \in Plans
    /\ result = [u \in Units |-> None]
    /\ inputs = [u \in Units |-> None]
    /\ spent = [u \in Units |-> {}]
    /\ closed = None

\* Attempts end, with or without a result.
AttemptsEnd == \A u \in Units : spent[u] \subseteq spent'[u]

\* The results of the units in K stay.
Keep(K) ==
    /\ result' = [u \in Units |-> IF u \in K THEN result[u] ELSE None]
    /\ inputs' = [u \in Units |-> IF u \in K THEN inputs[u] ELSE None]

\* A new attempt is accepted on the results in place.
Accept(u) ==
    /\ u \in PlanUnits[plan]
    /\ result[u] = None
    /\ \A d \in Deps[plan][u] : result[d] # None
    /\ result'[u] \notin spent[u] \cup {None}
    /\ result' = [result EXCEPT ![u] = result'[u]]
    /\ inputs' = [inputs EXCEPT ![u] = [d \in Deps[plan][u] |-> result[d]]]
    /\ spent' = [spent EXCEPT ![u] = @ \cup {result'[u]}]
    /\ UNCHANGED <<plan, closed>>

GiveUp ==
    /\ AttemptsEnd
    /\ UNCHANGED <<plan, result, inputs, closed>>

\* Results are taken back, and those that were built from them.
Revoke ==
    /\ \E K \in SUBSET Units :
          /\ \A u \in K : result[u] # None => Deps[plan][u] \subseteq K
          /\ Keep(K)
    /\ closed' = None
    /\ AttemptsEnd
    /\ UNCHANGED plan

\* Another plan, or the same one again.
Replan ==
    /\ plan' \in Plans
    /\ \E K \in SUBSET (PlanUnits[plan] \cap PlanUnits[plan']) :
          /\ \A u \in K : /\ Digest[plan'][u] = Digest[plan][u]
                          /\ Deps[plan'][u] = Deps[plan][u]
                          /\ Deps[plan'][u] \subseteq K
          /\ Keep(K)
    /\ closed' = None \/ UNCHANGED <<plan, result, closed>>
    /\ AttemptsEnd

Close ==
    /\ closed = None
    /\ \A u \in PlanUnits[plan] : result[u] # None
    /\ closed' = result
    /\ UNCHANGED <<plan, result, inputs, spent>>

Next == (\E u \in Units : Accept(u)) \/ GiveUp \/ Revoke \/ Replan \/ Close

Spec == Init /\ [][Next]_vars
===============================================================================
