--------------------------- MODULE UnitStateProofs ---------------------------
(***************************************************************************)
(* Theorems about UnitState, for every set of plans, units and bounds.     *)
(***************************************************************************)
EXTENDS UnitState, TLAPS

\* What the builder remembers at each point of its run.
BuilderMemory ==
    /\ pc # "off" => bSel \in Selections
    /\ pc \in {"planning", "building", "frozen", "evaluating", "prepared",
               "accepted", "blocking"} => bClaim \in Claims
    /\ pc \in {"prepared", "accepted"} => bEval \in Receipts
    /\ pc = "composing" => bFin \in FinClaims

TypeInv == TypeOK /\ BuilderMemory

\* The twelve states of the lifecycle table.
LEMMA UnitStates ==
    UNIT_STATES = {"pending", "planning", "building", "frozen", "evaluating",
                   "repairing", "retryable", "blocked", "failed",
                   "hypothesis_falsified", "passed", "superseded"}
BY DEF UNIT_STATES, TRANSITIONS

\* The units of the layer are units of the selected plan.
LEMMA LayerType == TypeOK => Plan \in Plans /\ LayerUnits \subseteq Units
BY PlanShape DEF TypeOK, Plan, LayerUnits, Selections

\* The passed rows are a row of receipts.
LEMMA PassedReceiptsType == TypeOK => PassedReceipts \in [Units -> Receipts \cup {None}]
BY DEF TypeOK, PassedReceipts

\* Archiving attempts keeps slots and history well-typed.
LEMMA ArchiveActiveType ==
    ASSUME TypeOK, NEW S, ArchiveActive(S)
    PROVE  /\ active' \in [Units -> Claims \cup {None}]
           /\ archive' \in [Units -> SUBSET Claims]
BY DEF TypeOK, ArchiveActive

\* A fresh state file is well-typed.
LEMMA InitTypeInv == Init => TypeInv
<1> SUFFICES ASSUME Init PROVE TypeInv
  OBVIOUS
<1>1. Plan \in Plans /\ LayerUnits \subseteq Units
  BY PlanShape DEF Init, Plan, LayerUnits
<1>2. status \in [Units -> UNIT_STATES \cup {"absent"}]
  BY UnitStates DEF Init
<1> QED
  BY <1>1, <1>2 DEF Init, TypeInv, TypeOK, BuilderMemory, Selections

\* The earlier layers' receipts change nothing of this layer.
LEMMA EarlierLayersStep ==
    ASSUME EarlierLayers
    PROVE  UNCHANGED <<sel, bound, boundTerminal, unitVars, finVars, builderVars>>
BY DEF EarlierLayers, EarlierLayerInvalidated, EarlierLayersFinalized

\* Every transaction keeps the types of the file, the head and the builder
\* memory; what the builder holds at each point of its loop is what it needs.
LEMMA NextTypeInv == TypeInv /\ [Next]_vars => TypeInv'
<1> SUFFICES ASSUME TypeInv, [Next]_vars PROVE TypeInv'
  OBVIOUS
<1> USE DEF TypeInv, shotVars, finVars, unitVars, builderVars
<1>1. CASE StartBuilder
  BY <1>1 DEF StartBuilder, TypeOK, BuilderMemory
<1>2. CASE StopBuilder
  BY <1>2 DEF StopBuilder, BuilderOff, TypeOK, BuilderMemory
<1>3. CASE AuthorizeLayer
  BY <1>3, PassedReceiptsType, LayerType
  DEF AuthorizeLayer, BuilderOff, TypeOK, BuilderMemory, PassedUnits
<1>4. ASSUME NEW u \in Units, ClaimPlanning(u) PROVE TypeInv'
  BY <1>4, UnitStates DEF ClaimPlanning, NewClaim, TypeOK, BuilderMemory, Claims
<1>5. CASE ClaimBuild
  BY <1>5, UnitStates DEF ClaimBuild, TypeOK, BuilderMemory, Claims
<1>6. CASE FreezeCheckpoint
  BY <1>6, UnitStates DEF FreezeCheckpoint, TypeOK, BuilderMemory, Claims
<1>7. CASE Transition
  BY <1>7, UnitStates DEF Transition, TypeOK, BuilderMemory, Claims
<1>8. CASE PrepareCompletion
  BY <1>8 DEF PrepareCompletion, TypeOK, BuilderMemory, Claims, Receipts
<1>9. CASE CompleteAttempt
  BY <1>9, UnitStates, ArchiveActiveType DEF CompleteAttempt, TypeOK, BuilderMemory, Claims
<1>10. CASE Reauthorize
  BY <1>10, PassedReceiptsType DEF Reauthorize, TypeOK, BuilderMemory
<1>11. CASE FailAttempt
  BY <1>11, UnitStates, ArchiveActiveType DEF FailAttempt, TypeOK, BuilderMemory, Claims
<1>12. ASSUME NEW owners \in SUBSET LayerUnits, RecordFalsification(owners) PROVE TypeInv'
  BY <1>12, UnitStates, ArchiveActiveType
  DEF RecordFalsification, RevokeInto, TypeOK, BuilderMemory
<1>13. CASE BlockDependents
  BY <1>13, UnitStates, ArchiveActiveType
  DEF BlockDependents, RevokeInto, BuilderOff, TypeOK, BuilderMemory
<1>14. CASE ClaimLayerFinalization
  BY <1>14, PassedReceiptsType DEF ClaimLayerFinalization, TypeOK, BuilderMemory, FinClaims
<1>15. CASE CompleteLayerFinalization
  BY <1>15 DEF CompleteLayerFinalization, BuilderOff, TypeOK, BuilderMemory
<1>16. ASSUME NEW u \in Units, InvalidateCheckpoint(u) PROVE TypeInv'
  BY <1>16, UnitStates, ArchiveActiveType
  DEF InvalidateCheckpoint, ArchiveLayerFinalization, TypeOK, BuilderMemory
<1>17. ASSUME NEW u \in Units, Retry(u) PROVE TypeInv'
  BY <1>17, UnitStates, ArchiveActiveType DEF Retry, TypeOK, BuilderMemory
<1>18. CASE ReleaseLayerFinalization
  BY <1>18 DEF ReleaseLayerFinalization, TypeOK, BuilderMemory
<1>19. ASSUME NEW p \in Plans, NEW keepPrefix \in BOOLEAN, PublishAuthority(p, keepPrefix)
       PROVE TypeInv'
  BY <1>19, UnitStates, ArchiveActiveType
  DEF PublishAuthority, ArchiveLayerFinalization, AdoptedReceipt, TypeOK, BuilderMemory,
      Selections
<1>20. CASE UNCHANGED vars
  BY <1>20 DEF vars, TypeOK, BuilderMemory
<1>21. CASE EarlierLayers
  BY <1>21
  DEF EarlierLayers, EarlierLayerInvalidated, EarlierLayersFinalized, FreshRows, TypeOK,
      BuilderMemory
<1> QED
  BY <1>1, <1>2, <1>3, <1>4, <1>5, <1>6, <1>7, <1>8, <1>9, <1>10, <1>11, <1>12, <1>13,
     <1>14, <1>15, <1>16, <1>17, <1>18, <1>19, <1>20, <1>21
  DEF Next, Builder, Operator, Authority

\* The state file, the head and the builder's memory keep their types.
THEOREM TypeCorrect == Spec => []TypeOK
<1>1. TypeInv => TypeOK
  BY DEF TypeInv
<1> QED
  BY InitTypeInv, NextTypeInv, <1>1, PTL DEF Spec

-----------------------------------------------------------------------------
(* The dependent closure computed by downstream().                         *)

\* downstream() stays inside the plan.
LEMMA DownstreamInPlan ==
    ASSUME NEW p \in Plans, NEW seeds
    PROVE  Downstream(p, seeds) \subseteq PlanUnits[p]
<1>1. PlanUnits[p] \subseteq Units
  BY PlanShape
<1> QED
  BY <1>1 DEF Downstream, DependentsOf

\* downstream() contains its seeds.
LEMMA DownstreamHasSeeds ==
    ASSUME NEW p \in Plans, NEW seeds
    PROVE  seeds \cap PlanUnits[p] \subseteq Downstream(p, seeds)
<1>1. PlanUnits[p] \subseteq Units
  BY PlanShape
<1>2. \A s \in PlanUnits[p] : s \in DependentsOf[p][s]
  BY <1>1 DEF DependentsOf
<1> QED
  BY <1>2 DEF Downstream

\* A unit with a dependency in the closure is in the closure.
LEMMA DownstreamClosed ==
    ASSUME NEW p \in Plans, NEW seeds
    PROVE  DependentClosed(p, Downstream(p, seeds))
<1>1. PlanUnits[p] \subseteq Units
  BY PlanShape
<1>2. ASSUME NEW d \in PlanUnits[p], NEW e \in Deps[p][d], e \in Downstream(p, seeds)
      PROVE  d \in Downstream(p, seeds)
  <2>1. PICK s \in seeds \cap PlanUnits[p] : e \in DependentsOf[p][s]
    BY <1>2 DEF Downstream
  <2>2. s \in Units
    BY <1>1
  <2>3. ASSUME NEW T \in SUBSET PlanUnits[p], s \in T, DependentClosed(p, T)
        PROVE  d \in T
    <3>1. e \in T
      BY <2>1, <2>2, <2>3 DEF DependentsOf
    <3> QED
      BY <2>3, <3>1, <1>2 DEF DependentClosed
  <2>4. d \in DependentsOf[p][s]
    BY <2>2, <2>3 DEF DependentsOf
  <2> QED
    BY <2>4 DEF Downstream
<1> QED
  BY <1>2 DEF DependentClosed

-----------------------------------------------------------------------------
(* No unit is ahead of its dependencies.  DependencyClosed is not inductive*)
(* by itself: a plan change demotes exactly the units with an active       *)
(* attempt, so an attempt must coincide with an in-flight status.          *)

\* The layer's file has a slot for exactly the units of the selected plan.
SlotsMatchPlan == \A u \in Units : status[u] = "absent" <=> u \notin LayerUnits

OrderInv == TypeInv /\ SlotsMatchPlan /\ AttemptIsCurrent /\ DependencyClosed

\* A fresh state file satisfies the order invariant.
LEMMA InitOrderInv == Init => OrderInv
<1> SUFFICES ASSUME Init PROVE OrderInv
  OBVIOUS
<1>1. Plan \in Plans /\ LayerUnits \subseteq Units
  BY InitTypeInv, LayerType DEF TypeInv
<1>2. Deps[Plan] \in [Units -> SUBSET Units] /\ \A u \in LayerUnits : Deps[Plan][u] \subseteq LayerUnits
  BY <1>1, PlanShape DEF LayerUnits
<1> QED
  BY <1>1, <1>2, InitTypeInv
  DEF Init, OrderInv, SlotsMatchPlan, AttemptIsCurrent, DependencyClosed, InFlight,
      PLANNING_CLAIMABLE_STATES

\* A builder that still holds its attempt holds the one in the slot.
LEMMA HeldAttempt ==
    ASSUME OrderInv, bClaim \in Claims, HoldsAttempt(bClaim)
    PROVE  /\ bClaim.unit \in LayerUnits
           /\ active[bClaim.unit] = bClaim
           /\ active[bClaim.unit] # None
           /\ status[bClaim.unit] \in InFlight
<1>1. bClaim.unit \in Units
  BY DEF Claims
<1>2. active[bClaim.unit] = bClaim /\ bClaim # None
  BY NoneIsNoRecord DEF HoldsAttempt
<1>3. status[bClaim.unit] \in InFlight
  BY <1>1, <1>2 DEF OrderInv, AttemptIsCurrent
<1> QED
  BY <1>1, <1>2, <1>3 DEF OrderInv, SlotsMatchPlan, InFlight

\* Under one selection the units of the layer and their dependencies stay.
LEMMA SamePlan ==
    ASSUME sel' = sel
    PROVE  Plan' = Plan /\ LayerUnits' = LayerUnits
BY DEF Plan, LayerUnits

\* Dependencies of a unit of the layer are units of the layer.
LEMMA LayerDeps ==
    ASSUME TypeOK
    PROVE  /\ Plan \in Plans
           /\ LayerUnits \subseteq Units
           /\ \A u \in LayerUnits : Deps[Plan][u] \subseteq LayerUnits
BY LayerType, PlanShape DEF LayerUnits

\* The units a finding, a failure or an invalidation reaches.
LEMMA AffectedInLayer ==
    ASSUME TypeOK, NEW seeds
    PROVE  Downstream(Plan, seeds) \subseteq LayerUnits
BY LayerType, DownstreamInPlan DEF LayerUnits

\* A preserved unit is a unit of both plans.
LEMMA PreservedInBoth ==
    ASSUME NEW p
    PROVE  Preserved(p) \subseteq LayerUnits \cap PlanUnits[p]
BY DEF Preserved, LayerUnits

\* Slots and plan keep matching: a unit has a status exactly when it is planned.
LEMMA SlotsStep == OrderInv /\ [Next]_vars => SlotsMatchPlan'
<1> SUFFICES ASSUME OrderInv, [Next]_vars PROVE SlotsMatchPlan'
  OBVIOUS
<1> USE DEF shotVars, finVars, unitVars, builderVars
<1>t. TypeOK /\ BuilderMemory
  BY DEF OrderInv, TypeInv
<1>u. status \in [Units -> UNIT_STATES \cup {"absent"}] /\ LayerUnits \subseteq Units
  BY <1>t, LayerType DEF TypeOK
<1>1. ASSUME sel' = sel, status' = status PROVE SlotsMatchPlan'
  BY <1>1, SamePlan DEF OrderInv, SlotsMatchPlan
<1>2. ASSUME sel' = sel, NEW S \in SUBSET LayerUnits, NEW after,
             \A u \in S : after[u] # "absent",
             status' = [u \in Units |-> IF u \in S THEN after[u] ELSE status[u]]
      PROVE  SlotsMatchPlan'
  BY <1>2, <1>u, SamePlan DEF OrderInv, SlotsMatchPlan
<1>3. ASSUME sel' = sel, NEW u \in LayerUnits, NEW after, after # "absent",
             status' = [status EXCEPT ![u] = after]
      PROVE  SlotsMatchPlan'
  BY <1>3, <1>u, SamePlan DEF OrderInv, SlotsMatchPlan
<1>4. CASE StartBuilder \/ StopBuilder \/ AuthorizeLayer \/ PrepareCompletion \/ Reauthorize
           \/ ClaimLayerFinalization \/ CompleteLayerFinalization
           \/ ReleaseLayerFinalization \/ EarlierLayers \/ UNCHANGED vars
  BY <1>1, <1>4, EarlierLayersStep
  DEF StartBuilder, StopBuilder, AuthorizeLayer, PrepareCompletion, Reauthorize,
      ClaimLayerFinalization, CompleteLayerFinalization, ReleaseLayerFinalization, vars
<1>5. ASSUME NEW u \in Units, ClaimPlanning(u) PROVE SlotsMatchPlan'
  BY <1>3, <1>5 DEF ClaimPlanning, Ready
<1>6. CASE ClaimBuild
  BY <1>3, <1>6, <1>t, HeldAttempt DEF ClaimBuild, BuilderMemory
<1>7. CASE FreezeCheckpoint
  BY <1>3, <1>7, <1>t, HeldAttempt DEF FreezeCheckpoint, BuilderMemory
<1>8. CASE Transition
  BY <1>3, <1>8, <1>t, HeldAttempt DEF Transition, BuilderMemory
<1>9. CASE CompleteAttempt
  BY <1>3, <1>9, <1>t, HeldAttempt DEF CompleteAttempt, EvaluationAccepted, BuilderMemory
<1>10. CASE FailAttempt
  BY <1>3, <1>10, <1>t, HeldAttempt DEF FailAttempt, BuilderMemory
<1>11. ASSUME NEW owners \in SUBSET LayerUnits, RecordFalsification(owners)
       PROVE  SlotsMatchPlan'
  <2> DEFINE u == bClaim.unit
             S == NotYetBlocked(Downstream(Plan, owners \cup {u}) \ {u}) \cup {u}
             after == [d \in Units |-> IF d = u THEN "hypothesis_falsified" ELSE "blocked"]
  <2>1. u \in LayerUnits
    BY <1>11, <1>t, HeldAttempt DEF RecordFalsification, BuilderMemory
  <2>2. S \in SUBSET LayerUnits
    BY <1>t, <2>1, AffectedInLayer DEF NotYetBlocked
  <2>3. sel' = sel /\ status' = [d \in Units |-> IF d \in S THEN after[d] ELSE status[d]]
    BY <1>11 DEF RecordFalsification, RevokeInto
  <2>4. \A d \in S : after[d] # "absent"
    BY <2>2, <1>u
  <2> HIDE DEF S, after
  <2> QED
    BY <1>2, <2>2, <2>3, <2>4
<1>12. CASE BlockDependents
  <2> DEFINE S == NotYetBlocked(Downstream(Plan, {bClaim.unit}) \ {bClaim.unit})
             after == [d \in Units |-> "blocked"]
  <2>1. S \in SUBSET LayerUnits
    BY <1>t, AffectedInLayer DEF NotYetBlocked
  <2>2. sel' = sel /\ status' = [d \in Units |-> IF d \in S THEN after[d] ELSE status[d]]
    BY <1>12 DEF BlockDependents, RevokeInto
  <2>3. \A d \in S : after[d] # "absent"
    BY <2>1, <1>u
  <2> HIDE DEF S, after
  <2> QED
    BY <1>2, <2>1, <2>2, <2>3
<1>13. ASSUME NEW u \in Units, InvalidateCheckpoint(u) PROVE SlotsMatchPlan'
  BY <1>13, <1>t, <1>u, AffectedInLayer, SamePlan
  DEF InvalidateCheckpoint, InvalidationClosure, OrderInv, SlotsMatchPlan
<1>14. ASSUME NEW u \in Units, Retry(u) PROVE SlotsMatchPlan'
  BY <1>3, <1>14 DEF Retry, RetryAllowed
<1>15. ASSUME NEW p \in Plans, NEW keepPrefix \in BOOLEAN, PublishAuthority(p, keepPrefix)
       PROVE  SlotsMatchPlan'
  BY <1>15, <1>u, PreservedInBoth
  DEF PublishAuthority, OrderInv, SlotsMatchPlan, Plan, LayerUnits
<1> QED
  BY <1>4, <1>5, <1>6, <1>7, <1>8, <1>9, <1>10, <1>11, <1>12, <1>13, <1>14, <1>15
  DEF Next, Builder, Operator, Authority

\* Every action but a plan change: attempts end only together with the
\* in-flight status, and begin with it.
LEMMA AttemptStep == OrderInv /\ [Next]_vars => AttemptIsCurrent'
<1> SUFFICES ASSUME OrderInv, [Next]_vars PROVE AttemptIsCurrent'
  OBVIOUS
<1> USE DEF shotVars, finVars, unitVars, builderVars
<1>t. TypeOK /\ BuilderMemory /\ AttemptIsCurrent /\ SlotsMatchPlan
  BY DEF OrderInv, TypeInv
<1>u. /\ status \in [Units -> UNIT_STATES \cup {"absent"}]
      /\ active \in [Units -> Claims \cup {None}]
  BY <1>t DEF TypeOK
<1>1. CASE StartBuilder \/ StopBuilder \/ AuthorizeLayer \/ PrepareCompletion \/ Reauthorize
           \/ ClaimLayerFinalization \/ CompleteLayerFinalization
           \/ ReleaseLayerFinalization \/ EarlierLayers \/ UNCHANGED vars
  <2>1. active' = active /\ status' = status /\ sel' = sel
    BY <1>1, EarlierLayersStep
    DEF StartBuilder, StopBuilder, AuthorizeLayer, PrepareCompletion, Reauthorize,
        ClaimLayerFinalization, CompleteLayerFinalization, ReleaseLayerFinalization, vars
  <2> QED
    BY <2>1, <1>t DEF AttemptIsCurrent
<1>2. ASSUME NEW u \in Units, ClaimPlanning(u) PROVE AttemptIsCurrent'
  <2>1. NewClaim(u) \in Claims /\ NewClaim(u).sel = sel /\ NewClaim(u).phase = "planning"
    BY <1>2, <1>t
    DEF ClaimPlanning, AuthorizationCurrent, SelectionCurrent, NewClaim, TypeOK, Claims
  <2>2. NewClaim(u) # None
    BY <2>1, NoneIsNoRecord
  <2> QED
    BY <1>2, <1>t, <1>u, <2>1, <2>2 DEF ClaimPlanning, AttemptIsCurrent, InFlight
<1>3. CASE ClaimBuild
  <2> DEFINE promoted == [bClaim EXCEPT !.phase = "building"]
  <2>1. bClaim \in Claims /\ HoldsAttempt(bClaim)
    BY <1>3, <1>t DEF ClaimBuild, BuilderMemory
  <2>2. promoted \in Claims /\ promoted.sel = bClaim.sel /\ promoted.phase = "building"
    BY <2>1 DEF Claims
  <2>3. promoted # None /\ bClaim.sel = sel
    BY <2>1, <2>2, NoneIsNoRecord DEF HoldsAttempt
  <2>4. /\ active' = [active EXCEPT ![bClaim.unit] = promoted]
        /\ status' = [status EXCEPT ![bClaim.unit] = "building"]
        /\ sel' = sel
    BY <1>3 DEF ClaimBuild
  <2>5. bClaim.unit \in Units
    BY <2>1 DEF Claims
  <2> HIDE DEF promoted
  <2> QED
    BY <2>2, <2>3, <2>4, <2>5, <1>t, <1>u DEF AttemptIsCurrent, InFlight
<1>4. CASE FreezeCheckpoint
  <2>1. bClaim.unit \in Units /\ status[bClaim.unit] \in InFlight
    BY <1>4, <1>t, HeldAttempt, LayerType DEF FreezeCheckpoint, BuilderMemory
  <2> QED
    BY <1>4, <1>t, <1>u, <2>1 DEF FreezeCheckpoint, AttemptIsCurrent, InFlight
<1>5. CASE Transition
  <2>1. bClaim.unit \in Units /\ status[bClaim.unit] \in InFlight \ {"planning"}
    BY <1>5, <1>t, HeldAttempt, LayerType DEF Transition, BuilderMemory, TRANSITIONS, InFlight
  <2> QED
    BY <1>5, <1>t, <1>u, <2>1 DEF Transition, AttemptIsCurrent, InFlight
<1>6. CASE CompleteAttempt
  BY <1>6, <1>t, <1>u, NoneIsNoRecord
  DEF CompleteAttempt, ArchiveActive, AttemptIsCurrent, InFlight, BuilderMemory
<1>7. CASE FailAttempt
  BY <1>7, <1>t, <1>u DEF FailAttempt, ArchiveActive, AttemptIsCurrent, InFlight
<1>8. ASSUME NEW S, NEW after, \A d \in S : after[d] \notin InFlight,
             RevokeInto(S, after), sel' = sel
      PROVE  AttemptIsCurrent'
  BY <1>8, <1>t, <1>u DEF RevokeInto, ArchiveActive, AttemptIsCurrent
<1>9. ASSUME NEW owners \in SUBSET LayerUnits, RecordFalsification(owners)
      PROVE  AttemptIsCurrent'
  <2> DEFINE u == bClaim.unit
             S == NotYetBlocked(Downstream(Plan, owners \cup {u}) \ {u}) \cup {u}
             after == [d \in Units |-> IF d = u THEN "hypothesis_falsified" ELSE "blocked"]
  <2>1. u \in LayerUnits
    BY <1>9, <1>t, HeldAttempt DEF RecordFalsification, BuilderMemory
  <2>2. S \subseteq Units
    BY <1>t, <2>1, AffectedInLayer, LayerType DEF NotYetBlocked
  <2>3. RevokeInto(S, after) /\ sel' = sel
    BY <1>9 DEF RecordFalsification
  <2>4. \A d \in S : after[d] \notin InFlight
    BY <2>2 DEF InFlight
  <2> HIDE DEF S, after
  <2> QED
    BY <1>8, <2>3, <2>4
<1>10. CASE BlockDependents
  <2> DEFINE S == NotYetBlocked(Downstream(Plan, {bClaim.unit}) \ {bClaim.unit})
             after == [d \in Units |-> "blocked"]
  <2>1. S \subseteq Units
    BY <1>t, AffectedInLayer, LayerType DEF NotYetBlocked
  <2>2. RevokeInto(S, after) /\ sel' = sel
    BY <1>10 DEF BlockDependents
  <2>3. \A d \in S : after[d] \notin InFlight
    BY <2>1 DEF InFlight
  <2> HIDE DEF S, after
  <2> QED
    BY <1>8, <2>2, <2>3
<1>11. ASSUME NEW u \in Units, InvalidateCheckpoint(u) PROVE AttemptIsCurrent'
  <2>1. u \in InvalidationClosure(u)
    BY <1>11, <1>t, LayerType, DownstreamHasSeeds
    DEF InvalidateCheckpoint, InvalidationClosure, LayerUnits
  <2> QED
    BY <1>11, <1>t, <1>u, <2>1 DEF InvalidateCheckpoint, ArchiveActive, AttemptIsCurrent, InFlight
<1>12. ASSUME NEW u \in Units, Retry(u) PROVE AttemptIsCurrent'
  BY <1>12, <1>t, <1>u DEF Retry, ArchiveActive, AttemptIsCurrent, InFlight
<1>13. ASSUME NEW p \in Plans, NEW keepPrefix \in BOOLEAN, PublishAuthority(p, keepPrefix)
       PROVE  AttemptIsCurrent'
  <2>1. \A u \in Units : active'[u] = None
    BY <1>13, <1>t, <1>u
    DEF PublishAuthority, RevokedAttempts, ArchiveActive, AttemptIsCurrent, SlotsMatchPlan, InFlight
  <2>2. \A u \in Units : status'[u] \notin InFlight
    BY <1>13, <1>t, <1>u, PreservedInBoth
    DEF PublishAuthority, RevokedAttempts, AttemptIsCurrent, InFlight
  <2> QED
    BY <2>1, <2>2 DEF AttemptIsCurrent
<1> QED
  BY <1>1, <1>2, <1>3, <1>4, <1>5, <1>6, <1>7, <1>9, <1>10, <1>11, <1>12, <1>13
  DEF Next, Builder, Operator, Authority

\* A unit the new plan preserves has only preserved dependencies, the same
\* ones as before: the seeds are closed under dependents, and the digest of a
\* unit covers depends_on.
LEMMA PreservedDeps ==
    ASSUME TypeOK, NEW p \in Plans, NEW u \in Preserved(p)
    PROVE  /\ Deps[p][u] = Deps[Plan][u]
           /\ Deps[p][u] \subseteq Preserved(p)
<1> DEFINE seeds == InvalidationSeeds(p)
           down == Downstream(p, seeds)
<1>1. u \in LayerUnits /\ u \in PlanUnits[p] /\ u \notin down
  BY DEF Preserved, LayerUnits
<1>2. seeds \cap PlanUnits[p] \subseteq down /\ DependentClosed(p, down)
  BY DownstreamHasSeeds, DownstreamClosed
<1>3. Plan \in Plans
  BY LayerType
<1>4. /\ \A d \in PlanUnits[p] \ down : d \in PlanUnits[Plan]
      /\ \A d \in PlanUnits[p] \ down : Digest[p][d] = Digest[Plan][d]
  BY <1>2 DEF InvalidationSeeds
<1>5. Deps[p][u] = Deps[Plan][u]
  BY <1>1, <1>3, <1>4, DigestCoversDeps DEF LayerUnits
<1>6. Deps[p][u] \subseteq PlanUnits[p]
  BY <1>1, PlanShape
<1>7. Deps[p][u] \cap down = {}
  BY <1>1, <1>2 DEF DependentClosed
<1> QED
  BY <1>4, <1>5, <1>6, <1>7 DEF Preserved

\* No transaction moves a dependent out of waiting while a dependency is not
\* accepted, or revokes a dependency without its dependents.
LEMMA DependencyStep == OrderInv /\ [Next]_vars => DependencyClosed'
<1> SUFFICES ASSUME OrderInv, [Next]_vars PROVE DependencyClosed'
  OBVIOUS
<1> USE DEF shotVars, finVars, unitVars, builderVars, PLANNING_CLAIMABLE_STATES
<1>t. TypeOK /\ BuilderMemory /\ AttemptIsCurrent /\ SlotsMatchPlan /\ DependencyClosed
  BY DEF OrderInv, TypeInv
<1>u. status \in [Units -> UNIT_STATES \cup {"absent"}]
  BY <1>t DEF TypeOK
<1>d. /\ LayerUnits \subseteq Units
      /\ \A u \in LayerUnits : Deps[Plan][u] \subseteq LayerUnits
  BY <1>t, LayerDeps
<1>1. ASSUME sel' = sel, status' = status PROVE DependencyClosed'
  BY <1>1, <1>t, SamePlan DEF DependencyClosed
\* One unit moves; it had its dependencies already and was not accepted.
<1>2. ASSUME sel' = sel, NEW u \in LayerUnits, NEW after,
             status' = [status EXCEPT ![u] = after],
             status[u] # "passed",
             \/ after \in PLANNING_CLAIMABLE_STATES
             \/ \A d \in Deps[Plan][u] : status[d] = "passed"
      PROVE  DependencyClosed'
  BY <1>2, <1>t, <1>u, <1>d, SamePlan DEF DependencyClosed
\* A unit in flight has its dependencies.
<1>3. ASSUME NEW u \in LayerUnits, status[u] \in InFlight
      PROVE  /\ status[u] # "passed"
             /\ \A d \in Deps[Plan][u] : status[d] = "passed"
  BY <1>3, <1>t DEF DependencyClosed, InFlight
\* Units that are not accepted are blocked.
<1>4. ASSUME sel' = sel, NEW S \in SUBSET LayerUnits, NEW u \in LayerUnits,
             status[u] \in InFlight,
             \A d \in S : status[d] # "passed",
             \A d \in Units : status'[d] = IF d = u THEN status'[u]
                                         ELSE IF d \in S THEN "blocked" ELSE status[d]
      PROVE  DependencyClosed'
  BY <1>3, <1>4, <1>t, <1>u, <1>d, SamePlan DEF DependencyClosed
<1>5. CASE StartBuilder \/ StopBuilder \/ AuthorizeLayer \/ PrepareCompletion \/ Reauthorize
           \/ ClaimLayerFinalization \/ CompleteLayerFinalization
           \/ ReleaseLayerFinalization \/ EarlierLayers \/ UNCHANGED vars
  BY <1>1, <1>5, EarlierLayersStep
  DEF StartBuilder, StopBuilder, AuthorizeLayer, PrepareCompletion, Reauthorize,
      ClaimLayerFinalization, CompleteLayerFinalization, ReleaseLayerFinalization, vars
<1>6. ASSUME NEW u \in Units, ClaimPlanning(u) PROVE DependencyClosed'
  BY <1>2, <1>6 DEF ClaimPlanning, Ready, PassedUnits
<1>7. CASE ClaimBuild
  BY <1>2, <1>3, <1>7, <1>t, HeldAttempt DEF ClaimBuild, BuilderMemory
<1>8. CASE FreezeCheckpoint
  BY <1>2, <1>3, <1>8, <1>t, HeldAttempt DEF FreezeCheckpoint, BuilderMemory
<1>9. CASE Transition
  BY <1>2, <1>3, <1>9, <1>t, HeldAttempt DEF Transition, BuilderMemory
<1>10. CASE CompleteAttempt
  BY <1>2, <1>3, <1>10, <1>t, HeldAttempt DEF CompleteAttempt, EvaluationAccepted, BuilderMemory
<1>11. CASE FailAttempt
  BY <1>2, <1>3, <1>11, <1>t, HeldAttempt DEF FailAttempt, BuilderMemory
<1>12. ASSUME NEW owners \in SUBSET LayerUnits, RecordFalsification(owners)
       PROVE  DependencyClosed'
  <2> DEFINE u == bClaim.unit
             S == NotYetBlocked(Downstream(Plan, owners \cup {u}) \ {u})
  <2>1. u \in LayerUnits /\ status[u] \in InFlight
    BY <1>12, <1>t, HeldAttempt DEF RecordFalsification, BuilderMemory
  <2>2. S \in SUBSET LayerUnits /\ \A d \in S : status[d] # "passed"
    BY <1>t, AffectedInLayer DEF NotYetBlocked
  <2>3. /\ sel' = sel
        /\ \A d \in Units : status'[d] = IF d = u THEN status'[u]
                                        ELSE IF d \in S THEN "blocked" ELSE status[d]
    BY <1>12 DEF RecordFalsification, RevokeInto
  <2> HIDE DEF S
  <2> QED
    BY <1>4, <2>1, <2>2, <2>3
<1>13. CASE BlockDependents
  <2> DEFINE S == NotYetBlocked(Downstream(Plan, {bClaim.unit}) \ {bClaim.unit})
  <2>1. S \in SUBSET LayerUnits /\ \A d \in S : status[d] # "passed"
    BY <1>t, AffectedInLayer DEF NotYetBlocked
  <2>2. sel' = sel /\ status' = [d \in Units |-> IF d \in S THEN "blocked" ELSE status[d]]
    BY <1>13 DEF BlockDependents, RevokeInto
  <2> HIDE DEF S
  <2> QED
    BY <2>1, <2>2, <1>t, <1>u, <1>d, SamePlan DEF DependencyClosed
<1>14. ASSUME NEW u \in Units, InvalidateCheckpoint(u) PROVE DependencyClosed'
  <2> DEFINE S == Downstream(Plan, {u})
  <2>1. DependentClosed(Plan, S)
    BY <1>t, LayerType, DownstreamClosed
  <2>2. \A x \in LayerUnits : \A d \in Deps[Plan][x] : d \in S => x \in S
    BY <2>1 DEF DependentClosed, LayerUnits
  <2>3. u \in S
    BY <1>14, <1>t, LayerType, DownstreamHasSeeds DEF InvalidateCheckpoint, LayerUnits
  <2>4. sel' = sel /\ \A d \in Units : status'[d] = IF d = u THEN "retryable"
                                     ELSE IF d \in S THEN "blocked" ELSE status[d]
    BY <1>14 DEF InvalidateCheckpoint, InvalidationClosure
  <2> HIDE DEF S
  <2> QED
    BY <2>2, <2>3, <2>4, <1>t, <1>d, SamePlan DEF DependencyClosed
<1>15. ASSUME NEW u \in Units, Retry(u) PROVE DependencyClosed'
  BY <1>2, <1>15 DEF Retry, RetryAllowed, InFlight
<1>16. ASSUME NEW p \in Plans, NEW keepPrefix \in BOOLEAN, PublishAuthority(p, keepPrefix)
       PROVE  DependencyClosed'
  <2>1. Plan' = p /\ LayerUnits' = PlanUnits[p] /\ PlanUnits[p] \subseteq Units
    BY <1>16, PlanShape DEF PublishAuthority, Plan, LayerUnits
  <2>2. ASSUME NEW u \in PlanUnits[p], NEW d \in Deps[p][u], status'[d] # "passed"
        PROVE  status'[u] \in PLANNING_CLAIMABLE_STATES
    <3>1. CASE u \notin Preserved(p)
      BY <1>16, <2>1, <3>1 DEF PublishAuthority
    <3>2. CASE u \in Preserved(p)
      <4>1. d \in Preserved(p) /\ d \in Deps[Plan][u] /\ u \in LayerUnits /\ d \in Units
        BY <3>2, <2>1, <1>t, PreservedDeps, PreservedInBoth
      <4>2. \A x \in Preserved(p) : x \in LayerUnits /\ x \in PlanUnits[p] /\ x \in Units
        BY <2>1, PreservedInBoth
      <4>3. \A x \in Preserved(p) :
               status'[x] = IF active[x] # None THEN "retryable" ELSE status[x]
        BY <1>16, <4>2 DEF PublishAuthority, RevokedAttempts
      <4>4. status[d] # "passed"
        BY <2>2, <4>1, <4>3, <1>t DEF AttemptIsCurrent, InFlight
      <4>5. status[u] \in PLANNING_CLAIMABLE_STATES
        BY <4>1, <4>4, <1>t DEF DependencyClosed
      <4> QED
        BY <4>3, <4>5, <3>2
    <3> QED
      BY <3>1, <3>2
  <2> QED
    BY <2>1, <2>2 DEF DependencyClosed
<1> QED
  BY <1>5, <1>6, <1>7, <1>8, <1>9, <1>10, <1>11, <1>12, <1>13, <1>14, <1>15, <1>16
  DEF Next, Builder, Operator, Authority

\* The order invariant is inductive.
LEMMA OrderInvariant == Spec => []OrderInv
<1>1. OrderInv /\ [Next]_vars => OrderInv'
  BY NextTypeInv, SlotsStep, AttemptStep, DependencyStep DEF OrderInv
<1> QED
  BY InitOrderInv, <1>1, PTL DEF Spec

\* While a dependency is not accepted, its dependents wait in a state they can
\* be claimed from, whatever plans, attempts, findings and invalidations did.
THEOREM DependencyOrder == Spec => []DependencyClosed
<1>1. OrderInv => DependencyClosed
  BY DEF OrderInv
<1> QED
  BY OrderInvariant, <1>1, PTL

\* A live attempt belongs to the current selection and to an in-flight unit.
THEOREM AttemptsAreCurrent == Spec => []AttemptIsCurrent
<1>1. OrderInv => AttemptIsCurrent
  BY DEF OrderInv
<1> QED
  BY OrderInvariant, <1>1, PTL

-----------------------------------------------------------------------------
(* Accepted work was built on the acceptances its dependencies hold now.   *)

BasisIsFunction == basis = [u \in Units |-> basis[u]]

InputsInv == OrderInv /\ BasisIsFunction /\ AcceptedOnCurrentInputs

\* No transaction changes the receipt of a dependency underneath an accepted
\* unit or a live attempt.
LEMMA InputsStep == InputsInv /\ [Next]_vars => BasisIsFunction' /\ AcceptedOnCurrentInputs'
<1> SUFFICES ASSUME InputsInv, [Next]_vars
             PROVE  BasisIsFunction' /\ AcceptedOnCurrentInputs'
  OBVIOUS
<1> USE DEF shotVars, finVars, unitVars, builderVars
<1>t. /\ TypeOK /\ BuilderMemory /\ AttemptIsCurrent /\ SlotsMatchPlan /\ DependencyClosed
      /\ OrderInv /\ BasisIsFunction /\ AcceptedOnCurrentInputs
  BY DEF InputsInv, OrderInv, TypeInv
<1>u. /\ status \in [Units -> UNIT_STATES \cup {"absent"}]
      /\ active \in [Units -> Claims \cup {None}]
      /\ receipt \in [Units -> Receipts \cup {None}]
  BY <1>t DEF TypeOK
<1>d. /\ LayerUnits \subseteq Units
      /\ \A u \in LayerUnits : Deps[Plan][u] \subseteq LayerUnits
  BY <1>t, LayerDeps
\* A step that keeps receipts and accepts or claims nothing new.
<1>1. ASSUME sel' = sel, basis' = basis, receipt' = receipt,
             \A u \in LayerUnits : (status'[u] = "passed" \/ active'[u] # None) =>
                                  (status[u] = "passed" \/ active[u] # None)
      PROVE  BasisIsFunction' /\ AcceptedOnCurrentInputs'
  BY <1>1, <1>t, SamePlan DEF BasisIsFunction, AcceptedOnCurrentInputs
<1>2. CASE StartBuilder \/ StopBuilder \/ AuthorizeLayer \/ PrepareCompletion \/ Reauthorize
           \/ ClaimLayerFinalization \/ CompleteLayerFinalization
           \/ ReleaseLayerFinalization \/ EarlierLayers \/ UNCHANGED vars
  <2>1. /\ active' = active /\ status' = status /\ sel' = sel
        /\ receipt' = receipt /\ basis' = basis
    BY <1>2, EarlierLayersStep
    DEF StartBuilder, StopBuilder, AuthorizeLayer, PrepareCompletion, Reauthorize,
        ClaimLayerFinalization, CompleteLayerFinalization, ReleaseLayerFinalization, vars
  <2> QED
    BY <1>1, <2>1
<1>3. ASSUME NEW u \in Units, ClaimPlanning(u)
      PROVE  BasisIsFunction' /\ AcceptedOnCurrentInputs'
  <2>1. /\ basis' = [basis EXCEPT ![u] = [d \in Deps[Plan][u] |-> receipt[d]]]
        /\ receipt' = receipt /\ sel' = sel
        /\ \A x \in Units \ {u} : status'[x] = status[x] /\ active'[x] = active[x]
    BY <1>3, <1>u DEF ClaimPlanning
  <2>2. BasisIsFunction'
    BY <2>1, <1>t DEF BasisIsFunction
  <2>3. basis'[u] = [d \in Deps[Plan][u] |-> receipt[d]]
    BY <2>1, <1>t DEF BasisIsFunction
  <2>4. \A x \in Units \ {u} : basis'[x] = basis[x]
    BY <2>1, <1>t DEF BasisIsFunction
  <2> QED
    BY <2>1, <2>2, <2>3, <2>4, <1>t, <1>d, SamePlan DEF AcceptedOnCurrentInputs
<1>4. CASE ClaimBuild \/ FreezeCheckpoint \/ Transition
  <2>1. bClaim.unit \in Units /\ active[bClaim.unit] # None
    BY <1>4, <1>t, <1>d, HeldAttempt
    DEF ClaimBuild, FreezeCheckpoint, Transition, BuilderMemory
  <2>2. /\ basis' = basis /\ receipt' = receipt /\ sel' = sel
        /\ \A x \in Units \ {bClaim.unit} : status'[x] = status[x] /\ active'[x] = active[x]
    BY <1>4, <1>u, <2>1 DEF ClaimBuild, FreezeCheckpoint, Transition
  <2> QED
    BY <1>1, <1>d, <2>1, <2>2
<1>5. CASE CompleteAttempt
  <2> DEFINE u == bClaim.unit
  <2>1. u \in LayerUnits /\ u \in Units /\ active[u] # None /\ status[u] \in InFlight
    BY <1>5, <1>t, <1>d, HeldAttempt DEF CompleteAttempt, EvaluationAccepted, BuilderMemory
  <2>2. /\ basis' = basis /\ sel' = sel
        /\ \A x \in Units \ {u} : /\ status'[x] = status[x] /\ active'[x] = active[x]
                                /\ receipt'[x] = receipt[x]
    BY <1>5, <1>u, <2>1 DEF CompleteAttempt, ArchiveActive
  <2>3. \A x \in LayerUnits : u \in Deps[Plan][x] => status[x] # "passed" /\ active[x] = None
    BY <2>1, <1>t, <1>d DEF DependencyClosed, AttemptIsCurrent, InFlight, PLANNING_CLAIMABLE_STATES
  <2>4. ASSUME NEW x \in LayerUnits, status'[x] = "passed" \/ active'[x] # None
        PROVE  basis[x] = [d \in Deps[Plan][x] |-> receipt'[d]]
    <3>1. status[x] = "passed" \/ active[x] # None
      BY <2>1, <2>2, <2>4, <1>d
    <3>2. \A d \in Deps[Plan][x] : receipt'[d] = receipt[d]
      BY <2>2, <2>3, <3>1, <1>d
    <3> QED
      BY <3>1, <3>2, <1>t DEF AcceptedOnCurrentInputs
  <2> QED
    BY <2>2, <2>4, <1>t, SamePlan DEF BasisIsFunction, AcceptedOnCurrentInputs
<1>6. CASE FailAttempt
  BY <1>1, <1>6, <1>u, <1>d DEF FailAttempt, ArchiveActive
<1>7. ASSUME NEW S, NEW after, \A d \in S : after[d] # "passed",
             RevokeInto(S, after), sel' = sel, basis' = basis, receipt' = receipt
      PROVE  BasisIsFunction' /\ AcceptedOnCurrentInputs'
  BY <1>1, <1>7, <1>u, <1>d DEF RevokeInto, ArchiveActive
<1>8. ASSUME NEW owners \in SUBSET LayerUnits, RecordFalsification(owners)
      PROVE  BasisIsFunction' /\ AcceptedOnCurrentInputs'
  <2> DEFINE u == bClaim.unit
             S == NotYetBlocked(Downstream(Plan, owners \cup {u}) \ {u}) \cup {u}
             after == [d \in Units |-> IF d = u THEN "hypothesis_falsified" ELSE "blocked"]
  <2>1. u \in LayerUnits
    BY <1>8, <1>t, HeldAttempt DEF RecordFalsification, BuilderMemory
  <2>2. S \subseteq Units
    BY <1>t, <1>d, <2>1, AffectedInLayer DEF NotYetBlocked
  <2>3. RevokeInto(S, after) /\ sel' = sel /\ basis' = basis /\ receipt' = receipt
    BY <1>8 DEF RecordFalsification
  <2>4. \A d \in S : after[d] # "passed"
    BY <2>2
  <2> HIDE DEF S, after
  <2> QED
    BY <1>7, <2>3, <2>4
<1>9. CASE BlockDependents
  <2> DEFINE S == NotYetBlocked(Downstream(Plan, {bClaim.unit}) \ {bClaim.unit})
             after == [d \in Units |-> "blocked"]
  <2>1. S \subseteq Units
    BY <1>t, <1>d, AffectedInLayer DEF NotYetBlocked
  <2>2. RevokeInto(S, after) /\ sel' = sel /\ basis' = basis /\ receipt' = receipt
    BY <1>9 DEF BlockDependents
  <2>3. \A d \in S : after[d] # "passed"
    BY <2>1
  <2> HIDE DEF S, after
  <2> QED
    BY <1>7, <2>2, <2>3
<1>10. ASSUME NEW u \in Units, InvalidateCheckpoint(u)
       PROVE  BasisIsFunction' /\ AcceptedOnCurrentInputs'
  <2> DEFINE S == Downstream(Plan, {u})
  <2>1. \A x \in LayerUnits : \A d \in Deps[Plan][x] : d \in S => x \in S
    BY <1>t, LayerType, DownstreamClosed DEF DependentClosed, LayerUnits
  <2>2. u \in S
    BY <1>10, <1>t, LayerType, DownstreamHasSeeds DEF InvalidateCheckpoint, LayerUnits
  <2>3. /\ sel' = sel /\ basis' = basis
        /\ \A d \in Units \ S : /\ status'[d] = status[d] /\ active'[d] = active[d]
                               /\ receipt'[d] = receipt[d]
        /\ \A d \in Units \cap S : status'[d] # "passed" /\ active'[d] = None
    BY <1>10, <2>2 DEF InvalidateCheckpoint, InvalidationClosure, ArchiveActive
  <2> HIDE DEF S
  <2>4. ASSUME NEW x \in LayerUnits, status'[x] = "passed" \/ active'[x] # None
        PROVE  basis[x] = [d \in Deps[Plan][x] |-> receipt'[d]]
    <3>1. x \in Units \ S
      BY <2>3, <2>4, <1>d
    <3>2. \A d \in Deps[Plan][x] : receipt'[d] = receipt[d]
      BY <2>1, <2>3, <3>1, <1>d
    <3> QED
      BY <2>3, <2>4, <3>1, <3>2, <1>t DEF AcceptedOnCurrentInputs
  <2> QED
    BY <2>3, <2>4, <1>t, SamePlan DEF BasisIsFunction, AcceptedOnCurrentInputs
<1>11. ASSUME NEW u \in Units, Retry(u) PROVE BasisIsFunction' /\ AcceptedOnCurrentInputs'
  BY <1>1, <1>11, <1>u, <1>d DEF Retry, ArchiveActive
<1>12. ASSUME NEW p \in Plans, NEW keepPrefix \in BOOLEAN, PublishAuthority(p, keepPrefix)
       PROVE  BasisIsFunction' /\ AcceptedOnCurrentInputs'
  <2>1. Plan' = p /\ LayerUnits' = PlanUnits[p] /\ PlanUnits[p] \subseteq Units
    BY <1>12, PlanShape DEF PublishAuthority, Plan, LayerUnits
  <2>2. \A x \in Preserved(p) : x \in LayerUnits /\ x \in PlanUnits[p] /\ x \in Units
    BY <2>1, PreservedInBoth
  <2>3. /\ basis' = basis
        /\ \A x \in Preserved(p) : receipt'[x] = receipt[x]
    BY <1>12, <2>2 DEF PublishAuthority
  <2>4. \A u \in Units : active'[u] = None
    BY <1>12, <1>t, <1>u
    DEF PublishAuthority, RevokedAttempts, ArchiveActive, AttemptIsCurrent, SlotsMatchPlan, InFlight
  <2>5. \A u \in Units : status'[u] = "passed" => u \in Preserved(p) /\ status[u] = "passed"
    BY <1>12, <1>u, PreservedInBoth DEF PublishAuthority
  <2>6. ASSUME NEW x \in PlanUnits[p], status'[x] = "passed"
        PROVE  basis[x] = [d \in Deps[p][x] |-> receipt'[d]]
    <3>1. x \in Preserved(p) /\ x \in LayerUnits /\ status[x] = "passed"
      BY <2>1, <2>2, <2>5, <2>6
    <3>2. Deps[p][x] = Deps[Plan][x] /\ Deps[p][x] \subseteq Preserved(p)
      BY <3>1, <1>t, PreservedDeps
    <3> QED
      BY <2>3, <3>1, <3>2, <1>t DEF AcceptedOnCurrentInputs
  <2> QED
    BY <2>1, <2>3, <2>4, <2>6, <1>t DEF BasisIsFunction, AcceptedOnCurrentInputs
<1> QED
  BY <1>2, <1>3, <1>4, <1>5, <1>6, <1>8, <1>9, <1>10, <1>11, <1>12
  DEF Next, Builder, Operator, Authority

\* The inputs invariant is inductive.
LEMMA InputsInvariant == Spec => []InputsInv
<1>1. Init => InputsInv
  <2> SUFFICES ASSUME Init PROVE InputsInv
    OBVIOUS
  <2>1. LayerUnits \subseteq Units
    BY InitTypeInv, LayerType DEF TypeInv
  <2> QED
    BY <2>1, InitOrderInv DEF Init, InputsInv, BasisIsFunction, AcceptedOnCurrentInputs
<1>2. InputsInv /\ [Next]_vars => InputsInv'
  BY InputsStep, NextTypeInv, SlotsStep, AttemptStep, DependencyStep DEF InputsInv, OrderInv
<1> QED
  BY <1>1, <1>2, PTL DEF Spec

\* No dependency is ever re-accepted underneath an accepted unit or a live
\* attempt: each was claimed on the receipts its dependencies hold now.
THEOREM AcceptedInputsAreCurrent == Spec => []AcceptedOnCurrentInputs
<1>1. InputsInv => AcceptedOnCurrentInputs
  BY DEF InputsInv
<1> QED
  BY InputsInvariant, <1>1, PTL

-----------------------------------------------------------------------------
\* A receipt that was retired never comes back: one that appears was accepted
\* in that very step, from the unit's own attempt under the current selection.
THEOREM ReceiptsAreNeverRevived == Spec => NoRevival
<1> DEFINE Fresh == \A u \in Units :
                        receipt'[u] \notin {receipt[u], None} =>
                            /\ receipt'[u].claim = active[u]
                            /\ active[u].sel = sel /\ sel' = sel
<1>1. OrderInv /\ [Next]_vars => [Fresh]_vars
  <2> SUFFICES ASSUME OrderInv, Next PROVE Fresh
    OBVIOUS
  <2> USE DEF shotVars, finVars, unitVars, builderVars
  <2>t. TypeOK /\ BuilderMemory
    BY DEF OrderInv, TypeInv
  <2>1. CASE CompleteAttempt
    <3>1. /\ bEval = [claim |-> bClaim, checkpoint |-> checkpoint[bClaim.unit]]
          /\ active[bClaim.unit] = bClaim
          /\ bClaim.sel = sel
          /\ sel' = sel
          /\ receipt' = [receipt EXCEPT ![bClaim.unit] = bEval]
      BY <2>1 DEF CompleteAttempt, EvaluationAccepted, HoldsAttempt
    <3>2. bEval.claim = bClaim
      BY <3>1
    <3> QED
      BY <3>1, <3>2, <2>t DEF TypeOK
  <2>2. CASE ~CompleteAttempt
    <3>1. \A u \in Units : receipt'[u] \in {receipt[u], None}
      BY <2>2
      DEF Next, Builder, Operator, Authority, StartBuilder, StopBuilder, AuthorizeLayer,
          ClaimPlanning, ClaimBuild, FreezeCheckpoint, Transition, PrepareCompletion,
          Reauthorize, FailAttempt, RecordFalsification, BlockDependents,
          ClaimLayerFinalization, CompleteLayerFinalization, InvalidateCheckpoint, Retry,
          ReleaseLayerFinalization, PublishAuthority, EarlierLayers, EarlierLayerInvalidated,
          EarlierLayersFinalized
    <3> QED
      BY <3>1
  <2> QED
    BY <2>1, <2>2
<1>2. Spec => [][Fresh]_vars
  BY OrderInvariant, <1>1, PTL DEF Spec
<1> QED
  BY <1>2 DEF NoRevival
-----------------------------------------------------------------------------
(* The revisions of a unit's attempts are counted without gap or reuse.    *)

\* Revisions in the history are older than the live attempt.
HistoryIsOlder ==
    \A u \in Units : active[u] # None => \A c \in archive[u] : c.rev < lineage[u]

LineageInv == OrderInv /\ LineageExact /\ HistoryIsOlder

\* Revoking attempts only moves claims into the history.
LEMMA ArchiveKeepsLineage ==
    ASSUME LineageInv, NEW S, ArchiveActive(S), lineage' = lineage
    PROVE  LineageExact' /\ HistoryIsOlder'
<1>1. ASSUME NEW u \in Units
      PROVE  /\ active'[u] = IF u \in S THEN None ELSE active[u]
             /\ archive'[u] = IF u \in S /\ active[u] # None
                              THEN archive[u] \cup {active[u]} ELSE archive[u]
  BY DEF ArchiveActive
<1>2. ASSUME NEW u \in Units
      PROVE  archive'[u] \cup (IF active'[u] = None THEN {} ELSE {active'[u]})
             = archive[u] \cup (IF active[u] = None THEN {} ELSE {active[u]})
  BY <1>1
<1>3. ASSUME NEW u \in Units
      PROVE  LET live == IF active'[u] = None THEN {} ELSE {active'[u]}
                 claims == archive'[u] \cup live
             IN /\ {c.rev : c \in claims} = 1 .. lineage'[u]
                /\ \A c, e \in claims : c.rev = e.rev => c = e
                /\ \A c \in live : c.rev = lineage'[u] /\ c.unit = u
  <2> DEFINE live == IF active[u] = None THEN {} ELSE {active[u]}
             after == IF active'[u] = None THEN {} ELSE {active'[u]}
             claims == archive[u] \cup live
  <2>1. /\ {c.rev : c \in claims} = 1 .. lineage[u]
        /\ \A c, e \in claims : c.rev = e.rev => c = e
        /\ \A c \in live : c.rev = lineage[u] /\ c.unit = u
    BY DEF LineageInv, LineageExact
  <2>2. archive'[u] \cup after = claims
    BY <1>2
  <2>3. after \subseteq live
    BY <1>1
  <2> HIDE DEF live, after, claims
  <2>4. /\ {c.rev : c \in archive'[u] \cup after} = 1 .. lineage[u]
        /\ \A c, e \in archive'[u] \cup after : c.rev = e.rev => c = e
        /\ \A c \in after : c.rev = lineage[u] /\ c.unit = u
    BY <2>1, <2>2, <2>3
  <2> QED
    BY <2>4 DEF after
<1>4. LineageExact'
  BY <1>3 DEF LineageExact
<1> QED
  BY <1>1, <1>4 DEF LineageInv, HistoryIsOlder

\* A claim mints the next revision, a promotion keeps the one it promotes, and
\* everything else archives.
LEMMA LineageStep == LineageInv /\ [Next]_vars => LineageExact' /\ HistoryIsOlder'
<1> SUFFICES ASSUME LineageInv, [Next]_vars PROVE LineageExact' /\ HistoryIsOlder'
  OBVIOUS
<1> USE DEF shotVars, finVars, unitVars, builderVars
<1>t. /\ TypeOK /\ BuilderMemory /\ AttemptIsCurrent /\ OrderInv
      /\ LineageExact /\ HistoryIsOlder
  BY DEF LineageInv, OrderInv, TypeInv
<1>u. /\ active \in [Units -> Claims \cup {None}]
      /\ archive \in [Units -> SUBSET Claims]
      /\ lineage \in [Units -> Nat]
  BY <1>t DEF TypeOK
<1>1. CASE UNCHANGED <<active, archive, lineage>>
  BY <1>1, <1>t DEF LineageExact, HistoryIsOlder
<1>2. ASSUME NEW u \in Units, ClaimPlanning(u) PROVE LineageExact' /\ HistoryIsOlder'
  <2> DEFINE c == NewClaim(u)
  <2>1. /\ c \in Claims /\ c # None /\ c.rev = lineage[u] + 1 /\ c.unit = u
        /\ active[u] = None /\ archive' = archive
        /\ active' = [active EXCEPT ![u] = c]
        /\ lineage' = [lineage EXCEPT ![u] = lineage[u] + 1]
    BY <1>2, <1>t, <1>u, NoneIsNoRecord
    DEF ClaimPlanning, AuthorizationCurrent, SelectionCurrent, NewClaim, TypeOK, Claims
  <2>2. /\ {e.rev : e \in archive[u]} = 1 .. lineage[u]
        /\ \A e, f \in archive[u] : e.rev = f.rev => e = f
    BY <2>1, <1>t DEF LineageExact
  <2>3. \A e \in archive[u] : e.rev \in 1 .. lineage[u]
    BY <2>2
  <2>4. {e.rev : e \in archive[u] \cup {c}} = 1 .. lineage[u] + 1
    <3>1. {e.rev : e \in archive[u] \cup {c}} = {e.rev : e \in archive[u]} \cup {c.rev}
      OBVIOUS
    <3>2. 1 .. lineage[u] + 1 = (1 .. lineage[u]) \cup {lineage[u] + 1}
      BY <1>u
    <3> QED
      BY <2>1, <2>2, <3>1, <3>2
  <2> HIDE DEF c
  <2>5. /\ \A x \in Units \ {u} : active'[x] = active[x] /\ lineage'[x] = lineage[x]
        /\ active'[u] = c /\ lineage'[u] = lineage[u] + 1
    BY <2>1, <1>u
  <2>6. \A e, f \in archive[u] \cup {c} : e.rev = f.rev => e = f
    BY <2>1, <2>2, <2>3, <1>u
  <2>7. LineageExact'
    BY <2>1, <2>4, <2>5, <2>6, <1>t DEF LineageExact
  <2>8. \A e \in archive[u] : e.rev < lineage'[u]
    BY <2>3, <2>5, <1>u
  <2>9. HistoryIsOlder'
    BY <2>1, <2>5, <2>8, <1>t DEF HistoryIsOlder
  <2> QED
    BY <2>7, <2>9
<1>3. CASE ClaimBuild
  <2> DEFINE u == bClaim.unit
             c == [bClaim EXCEPT !.phase = "building"]
  <2>1. bClaim \in Claims /\ u \in Units /\ active[u] = bClaim /\ bClaim # None
    BY <1>3, <1>t, HeldAttempt, LayerType DEF ClaimBuild, BuilderMemory
  <2>2. c \in Claims /\ c # None /\ c.rev = bClaim.rev /\ c.unit = u
    BY <2>1, NoneIsNoRecord DEF Claims
  <2>3. archive' = archive /\ lineage' = lineage /\ active' = [active EXCEPT ![u] = c]
    BY <1>3 DEF ClaimBuild
  <2>4. /\ {e.rev : e \in archive[u] \cup {bClaim}} = 1 .. lineage[u]
        /\ \A e, f \in archive[u] \cup {bClaim} : e.rev = f.rev => e = f
        /\ bClaim.rev = lineage[u]
        /\ \A e \in archive[u] : e.rev < lineage[u]
    BY <2>1, <1>t DEF LineageExact, HistoryIsOlder
  <2>5. {e.rev : e \in archive[u] \cup {c}} = 1 .. lineage[u]
    <3>1. /\ {e.rev : e \in archive[u] \cup {c}} = {e.rev : e \in archive[u]} \cup {c.rev}
          /\ {e.rev : e \in archive[u] \cup {bClaim}}
             = {e.rev : e \in archive[u]} \cup {bClaim.rev}
      OBVIOUS
    <3> QED
      BY <2>2, <2>4, <3>1
  <2> HIDE DEF u, c
  <2>6. /\ \A x \in Units \ {u} : active'[x] = active[x]
        /\ active'[u] = c
    BY <2>1, <2>3, <1>u
  <2>7. \A e, f \in archive[u] \cup {c} : e.rev = f.rev => e = f
    BY <2>1, <2>2, <2>4, <1>u
  <2>8. LineageExact'
    BY <2>1, <2>2, <2>3, <2>4, <2>5, <2>6, <2>7, <1>t DEF LineageExact
  <2>9. HistoryIsOlder'
    BY <2>1, <2>3, <2>4, <2>6, <1>t DEF HistoryIsOlder
  <2> QED
    BY <2>8, <2>9
<1>4. CASE \E S : ArchiveActive(S) /\ lineage' = lineage
  BY <1>4, ArchiveKeepsLineage
<1>5. CASE StartBuilder \/ StopBuilder \/ AuthorizeLayer \/ PrepareCompletion \/ Reauthorize
           \/ FreezeCheckpoint \/ Transition \/ ClaimLayerFinalization
           \/ CompleteLayerFinalization \/ ReleaseLayerFinalization
           \/ EarlierLayers \/ UNCHANGED vars
  BY <1>1, <1>5, EarlierLayersStep
  DEF StartBuilder, StopBuilder, AuthorizeLayer, PrepareCompletion, Reauthorize,
      FreezeCheckpoint, Transition, ClaimLayerFinalization, CompleteLayerFinalization,
      ReleaseLayerFinalization, vars
<1>6. CASE CompleteAttempt \/ FailAttempt
  BY <1>4, <1>6 DEF CompleteAttempt, FailAttempt
<1>7. ASSUME NEW owners \in SUBSET LayerUnits, RecordFalsification(owners)
      PROVE  \E S : ArchiveActive(S) /\ lineage' = lineage
  BY <1>7 DEF RecordFalsification, RevokeInto
<1>8. CASE BlockDependents
  BY <1>4, <1>8 DEF BlockDependents, RevokeInto
<1>9. ASSUME NEW u \in Units, InvalidateCheckpoint(u) \/ Retry(u)
      PROVE  \E S : ArchiveActive(S) /\ lineage' = lineage
  BY <1>9 DEF InvalidateCheckpoint, Retry
<1>10. ASSUME NEW p \in Plans, NEW keepPrefix \in BOOLEAN, PublishAuthority(p, keepPrefix)
       PROVE  \E S : ArchiveActive(S) /\ lineage' = lineage
  BY <1>10 DEF PublishAuthority
<1> QED
  BY <1>2, <1>3, <1>4, <1>5, <1>6, <1>7, <1>8, <1>9, <1>10
  DEF Next, Builder, Operator, Authority

\* The lineage invariant is inductive.
LEMMA LineageInvariant == Spec => []LineageInv
<1>1. Init => LineageInv
  BY InitOrderInv DEF Init, LineageInv, LineageExact, HistoryIsOlder
<1>2. LineageInv /\ [Next]_vars => LineageInv'
  BY LineageStep, NextTypeInv, SlotsStep, AttemptStep, DependencyStep DEF LineageInv, OrderInv
<1> QED
  BY <1>1, <1>2, PTL DEF Spec

\* Across revocations, retries and retired plans, the live and archived claims
\* of a unit are the revisions 1 .. lineage, each held once, the live one last.
THEOREM LineageIsExact == Spec => []LineageExact
<1>1. LineageInv => LineageExact
  BY DEF LineageInv
<1> QED
  BY LineageInvariant, <1>1, PTL

-----------------------------------------------------------------------------
(* Checkpoints and receipts belong to the attempt that made them.          *)

\* A receipt is in the slot of an accepted unit only.
ReceiptsAreAccepted == \A u \in Units : status[u] # "passed" => receipt[u] = None

CheckpointInv == OrderInv /\ CheckpointOwned /\ ReceiptsAreAccepted

\* The actions that leave the state file alone.
LEMMA QuietStep ==
    ASSUME \/ StartBuilder \/ StopBuilder \/ AuthorizeLayer \/ PrepareCompletion \/ Reauthorize
           \/ ClaimLayerFinalization \/ CompleteLayerFinalization
           \/ ReleaseLayerFinalization \/ UNCHANGED vars
    PROVE  UNCHANGED <<unitVars, shotVars>>
BY DEF StartBuilder, StopBuilder, AuthorizeLayer, PrepareCompletion, Reauthorize,
       ClaimLayerFinalization, CompleteLayerFinalization, ReleaseLayerFinalization, vars,
       shotVars, unitVars

\* Units that are not accepted are revoked into a waiting or falsified state.
LEMMA RevokeKeepsCheckpoints ==
    ASSUME CheckpointInv, NEW S, NEW after, RevokeInto(S, after), receipt' = receipt,
           \A d \in S : /\ after[d] \in {"blocked", "hypothesis_falsified"}
                        /\ status[d] # "passed"
    PROVE  CheckpointOwned' /\ ReceiptsAreAccepted'
<1>t. /\ AttemptIsCurrent /\ CheckpointOwned /\ ReceiptsAreAccepted
      /\ status \in [Units -> UNIT_STATES \cup {"absent"}]
  BY DEF CheckpointInv, OrderInv, TypeInv, TypeOK
<1>1. ASSUME NEW u \in Units
      PROVE  /\ status'[u] = IF u \in S THEN after[u] ELSE status[u]
             /\ checkpoint'[u] = IF u \in S /\ active[u] # None THEN None ELSE checkpoint[u]
             /\ active'[u] = IF u \in S THEN None ELSE active[u]
  BY DEF RevokeInto, ArchiveActive
<1>2. ASSUME NEW u \in Units, u \in S
      PROVE  checkpoint'[u] = None /\ receipt[u] = None
  BY <1>1, <1>2, <1>t DEF CheckpointOwned, ReceiptsAreAccepted, AttemptIsCurrent, InFlight
<1> QED
  BY <1>1, <1>2, <1>t DEF CheckpointOwned, ReceiptsAreAccepted

\* Every transaction keeps checkpoints and receipts with their owners.
LEMMA CheckpointStep ==
    CheckpointInv /\ [Next]_vars => CheckpointOwned' /\ ReceiptsAreAccepted'
<1> SUFFICES ASSUME CheckpointInv, [Next]_vars
             PROVE  CheckpointOwned' /\ ReceiptsAreAccepted'
  OBVIOUS
<1> USE DEF shotVars, finVars, unitVars, builderVars
<1>t. /\ TypeOK /\ BuilderMemory /\ AttemptIsCurrent /\ SlotsMatchPlan /\ OrderInv
      /\ CheckpointOwned /\ ReceiptsAreAccepted
  BY DEF CheckpointInv, OrderInv, TypeInv
<1>u. /\ status \in [Units -> UNIT_STATES \cup {"absent"}]
      /\ active \in [Units -> Claims \cup {None}]
      /\ checkpoint \in [Units -> Claims \cup {None}]
      /\ receipt \in [Units -> Receipts \cup {None}]
      /\ LayerUnits \subseteq Units
  BY <1>t, LayerType DEF TypeOK
<1>1. CASE UNCHANGED unitVars
  BY <1>1, <1>t DEF CheckpointOwned, ReceiptsAreAccepted
<1>2. ASSUME NEW u \in Units, ClaimPlanning(u) PROVE CheckpointOwned' /\ ReceiptsAreAccepted'
  BY <1>2, <1>t, <1>u
  DEF ClaimPlanning, CheckpointOwned, ReceiptsAreAccepted, PLANNING_CLAIMABLE_STATES
<1>3. CASE ClaimBuild
  <2>1. bClaim.unit \in Units /\ status[bClaim.unit] = "planning"
    BY <1>3, <1>t, <1>u, HeldAttempt DEF ClaimBuild, BuilderMemory
  <2> QED
    BY <1>3, <1>t, <1>u, <2>1 DEF ClaimBuild, CheckpointOwned, ReceiptsAreAccepted
<1>4. CASE FreezeCheckpoint
  <2>1. bClaim.unit \in Units /\ active[bClaim.unit] = bClaim
    BY <1>4, <1>t, <1>u, HeldAttempt DEF FreezeCheckpoint, BuilderMemory
  <2> QED
    BY <1>4, <1>t, <1>u, <2>1 DEF FreezeCheckpoint, CheckpointOwned, ReceiptsAreAccepted
<1>5. CASE Transition
  <2>1. bClaim.unit \in Units /\ status[bClaim.unit] = "frozen"
    BY <1>5, <1>t, <1>u, HeldAttempt DEF Transition, BuilderMemory, TRANSITIONS, InFlight
  <2> QED
    BY <1>5, <1>t, <1>u, <2>1 DEF Transition, CheckpointOwned, ReceiptsAreAccepted
<1>6. CASE CompleteAttempt
  <2> DEFINE u == bClaim.unit
  <2>1. u \in Units /\ active[u] = bClaim /\ status[u] = "evaluating" /\ bEval \in Receipts
    BY <1>6, <1>t, <1>u, HeldAttempt DEF CompleteAttempt, EvaluationAccepted, BuilderMemory
  <2>2. /\ checkpoint[u] = bClaim
        /\ bEval = [claim |-> bClaim, checkpoint |-> checkpoint[u]]
    BY <1>6, <1>t, <2>1 DEF CompleteAttempt, EvaluationAccepted, CheckpointOwned
  <2>3. bEval # None /\ bEval.claim = bClaim /\ bEval.checkpoint = bClaim
    BY <2>1, <2>2, NoneIsNoRecord
  <2>4. /\ checkpoint' = checkpoint
        /\ status'[u] = "passed" /\ receipt'[u] = bEval
        /\ \A x \in Units \ {u} : /\ status'[x] = status[x] /\ receipt'[x] = receipt[x]
                                /\ active'[x] = active[x]
    BY <1>6, <1>u, <2>1 DEF CompleteAttempt, ArchiveActive
  <2> HIDE DEF u
  <2>5. CheckpointOwned'
    BY <2>1, <2>2, <2>3, <2>4, <1>t DEF CheckpointOwned
  <2>6. ReceiptsAreAccepted'
    BY <2>1, <2>4, <1>t DEF ReceiptsAreAccepted
  <2> QED
    BY <2>5, <2>6
<1>7. CASE FailAttempt
  <2>1. bClaim.unit \in Units /\ status[bClaim.unit] \in InFlight
    BY <1>7, <1>t, <1>u, HeldAttempt DEF FailAttempt, BuilderMemory
  <2> QED
    BY <1>7, <1>t, <1>u, <2>1
    DEF FailAttempt, ArchiveActive, CheckpointOwned, ReceiptsAreAccepted, InFlight
<1>8. ASSUME NEW owners \in SUBSET LayerUnits, RecordFalsification(owners)
      PROVE  CheckpointOwned' /\ ReceiptsAreAccepted'
  <2> DEFINE u == bClaim.unit
             S == NotYetBlocked(Downstream(Plan, owners \cup {u}) \ {u}) \cup {u}
             after == [d \in Units |-> IF d = u THEN "hypothesis_falsified" ELSE "blocked"]
  <2>1. u \in LayerUnits /\ status[u] \in InFlight
    BY <1>8, <1>t, HeldAttempt DEF RecordFalsification, BuilderMemory
  <2>2. S \subseteq Units /\ \A d \in S : status[d] # "passed"
    BY <1>t, <1>u, <2>1, AffectedInLayer DEF NotYetBlocked, InFlight
  <2>3. RevokeInto(S, after) /\ receipt' = receipt
    BY <1>8 DEF RecordFalsification
  <2>4. \A d \in S : after[d] \in {"blocked", "hypothesis_falsified"}
    BY <2>2
  <2> HIDE DEF S, after
  <2> QED
    BY <2>2, <2>3, <2>4, RevokeKeepsCheckpoints
<1>9. CASE BlockDependents
  <2> DEFINE S == NotYetBlocked(Downstream(Plan, {bClaim.unit}) \ {bClaim.unit})
             after == [d \in Units |-> "blocked"]
  <2>1. S \subseteq Units /\ \A d \in S : status[d] # "passed"
    BY <1>t, <1>u, AffectedInLayer DEF NotYetBlocked
  <2>2. RevokeInto(S, after) /\ receipt' = receipt
    BY <1>9 DEF BlockDependents
  <2>3. \A d \in S : after[d] \in {"blocked", "hypothesis_falsified"}
    BY <2>1
  <2> HIDE DEF S, after
  <2> QED
    BY <2>1, <2>2, <2>3, RevokeKeepsCheckpoints
<1>10. ASSUME NEW u \in Units, InvalidateCheckpoint(u)
       PROVE  CheckpointOwned' /\ ReceiptsAreAccepted'
  <2> DEFINE S == InvalidationClosure(u)
  <2>1. u \in S
    BY <1>10, <1>t, LayerType, DownstreamHasSeeds
    DEF InvalidateCheckpoint, InvalidationClosure, LayerUnits
  <2>2. /\ \A d \in Units \cap S : /\ status'[d] \in {"retryable", "blocked"}
                                  /\ checkpoint'[d] = None /\ receipt'[d] = None
        /\ \A d \in Units \ S : /\ status'[d] = status[d] /\ active'[d] = active[d]
                               /\ checkpoint'[d] = checkpoint[d] /\ receipt'[d] = receipt[d]
    BY <1>10, <2>1 DEF InvalidateCheckpoint, ArchiveActive
  <2> HIDE DEF S
  <2> QED
    BY <2>2, <1>t DEF CheckpointOwned, ReceiptsAreAccepted
<1>11. ASSUME NEW u \in Units, Retry(u) PROVE CheckpointOwned' /\ ReceiptsAreAccepted'
  BY <1>11, <1>t, <1>u
  DEF Retry, RetryAllowed, ArchiveActive, CheckpointOwned, ReceiptsAreAccepted, InFlight
<1>12. ASSUME NEW p \in Plans, NEW keepPrefix \in BOOLEAN, PublishAuthority(p, keepPrefix)
       PROVE  CheckpointOwned' /\ ReceiptsAreAccepted'
  <2>1. \A u \in Preserved(p) : u \in LayerUnits /\ u \in PlanUnits[p]
    BY PreservedInBoth
  <2>2. ASSUME NEW u \in Units, u \notin Preserved(p)
        PROVE  /\ status'[u] \in {"absent", "pending"}
               /\ checkpoint'[u] = None /\ receipt'[u] = None
    BY <1>12, <2>2 DEF PublishAuthority
  <2>3. ASSUME NEW u \in Units, u \in Preserved(p)
        PROVE  /\ receipt'[u] = receipt[u]
               /\ IF active[u] # None
                  THEN status'[u] = "retryable" /\ checkpoint'[u] = None
                  ELSE status'[u] = status[u] /\ checkpoint'[u] = checkpoint[u]
    BY <1>12, <2>1, <2>3 DEF PublishAuthority, RevokedAttempts
  <2>4. ASSUME NEW u \in Units, u \in Preserved(p), active[u] = None
        PROVE  status[u] \notin {"frozen", "evaluating"}
    BY <2>4, <1>t DEF AttemptIsCurrent, InFlight
  <2>5. ASSUME NEW u \in Units, active[u] # None
        PROVE  receipt[u] = None
    BY <2>5, <1>t DEF AttemptIsCurrent, InFlight, ReceiptsAreAccepted
  <2>6. ReceiptsAreAccepted'
    BY <2>2, <2>3, <2>5, <1>t DEF ReceiptsAreAccepted
  <2>7. CheckpointOwned'
    BY <2>2, <2>3, <2>4, <2>5, <1>t DEF CheckpointOwned
  <2> QED
    BY <2>6, <2>7
<1> QED
  BY <1>1, <1>2, <1>3, <1>4, <1>5, <1>6, <1>7, <1>8, <1>9, <1>10, <1>11, <1>12, QuietStep,
     EarlierLayersStep
  DEF Next, Builder, Operator, Authority

\* The checkpoint invariant is inductive.
LEMMA CheckpointInvariant == Spec => []CheckpointInv
<1>1. Init => CheckpointInv
  <2> SUFFICES ASSUME Init PROVE CheckpointInv
    OBVIOUS
  <2> QED
    BY InitOrderInv DEF Init, CheckpointInv, CheckpointOwned, ReceiptsAreAccepted
<1>2. CheckpointInv /\ [Next]_vars => CheckpointInv'
  BY CheckpointStep, NextTypeInv, SlotsStep, AttemptStep, DependencyStep
  DEF CheckpointInv, OrderInv
<1> QED
  BY <1>1, <1>2, PTL DEF Spec

\* A candidate is completed only by the attempt that froze it: a checkpoint in
\* the file is that of the live attempt, or the one its receipt accepted.
THEOREM CheckpointsAreOwned == Spec => []CheckpointOwned
<1>1. CheckpointInv => CheckpointOwned
  BY DEF CheckpointInv
<1> QED
  BY CheckpointInvariant, <1>1, PTL

-----------------------------------------------------------------------------
(* What is accepted stays authorizable and what is finalized stays covered.*)

\* A receipt is its unit's own, for the digest the plan has now, and was minted
\* under this selection or is adopted by its head.
ReceiptsStand ==
    \A u \in Units : receipt[u] # None =>
        /\ receipt[u].claim.unit = u
        /\ ClaimDigest(receipt[u].claim) = Digest[Plan][u]
        /\ \/ receipt[u].claim.sel = sel
           \/ receipt[u].claim.sel.token < sel.token /\ bound[u] = receipt[u]

\* A claim is of this selection and precedes any terminal receipt; a terminal
\* receipt is of this plan, and of this selection or adopted by its head.
FinalizationStands ==
    /\ finClaim # None => finClaim.sel = sel /\ terminal = None
    /\ terminal # None => /\ terminal.sel.plan = Plan
                          /\ terminal.sel = sel \/ boundTerminal = terminal

\* Superseded units leave the file.
NoneSuperseded == \A u \in Units : status[u] # "superseded"

AcceptInv ==
    /\ CheckpointInv
    /\ ReceiptsStand
    /\ FinalizationCoversAcceptance
    /\ FinalizationStands
    /\ NoneSuperseded

\* A preserved unit has the digest it had.
LEMMA PreservedDigest ==
    ASSUME NEW p \in Plans, NEW u \in Preserved(p)
    PROVE  Digest[p][u] = Digest[Plan][u]
<1>1. u \in PlanUnits[Plan] /\ u \in PlanUnits[p] /\ u \notin Downstream(p, InvalidationSeeds(p))
  BY DEF Preserved
<1>2. u \notin InvalidationSeeds(p)
  BY <1>1, DownstreamHasSeeds
<1> QED
  BY <1>1, <1>2 DEF InvalidationSeeds

\* Selecting the same plan again preserves every unit.
LEMMA SamePlanPreserves == Preserved(Plan) = LayerUnits
<1>1. InvalidationSeeds(Plan) = {}
  BY DEF InvalidationSeeds
<1>2. Downstream(Plan, {}) = {}
  BY DEF Downstream
<1> QED
  BY <1>1, <1>2 DEF Preserved, LayerUnits

\* Receipts only disappear, or appear by the completion of the unit's attempt;
\* a plan change adopts exactly those it preserves.
LEMMA ReceiptsStep == AcceptInv /\ [Next]_vars => ReceiptsStand'
<1> SUFFICES ASSUME AcceptInv, [Next]_vars PROVE ReceiptsStand'
  OBVIOUS
<1> USE DEF shotVars, finVars, unitVars, builderVars
<1>t. /\ TypeOK /\ BuilderMemory /\ OrderInv /\ ReceiptsStand
      /\ receipt \in [Units -> Receipts \cup {None}]
  BY DEF AcceptInv, CheckpointInv, OrderInv, TypeInv, TypeOK
<1>1. CASE /\ UNCHANGED <<sel, bound>>
           /\ \A u \in Units : receipt'[u] \in {receipt[u], None}
  BY <1>1, <1>t DEF ReceiptsStand, Plan
<1>2. CASE CompleteAttempt
  <2> DEFINE u == bClaim.unit
  <2>1. /\ u \in Units /\ bClaim.sel = sel
        /\ bEval.claim = bClaim
        /\ receipt' = [receipt EXCEPT ![u] = bEval]
        /\ sel' = sel /\ bound' = bound
    BY <1>2, <1>t, HeldAttempt, LayerType
    DEF CompleteAttempt, EvaluationAccepted, HoldsAttempt, BuilderMemory
  <2>2. /\ receipt'[u] = bEval
        /\ \A x \in Units \ {u} : receipt'[x] = receipt[x]
    BY <2>1, <1>t
  <2>3. ClaimDigest(bClaim) = Digest[Plan][u]
    BY <2>1 DEF ClaimDigest, Plan
  <2> QED
    BY <2>1, <2>2, <2>3, <1>t DEF ReceiptsStand, Plan, ClaimDigest
<1>3. ASSUME NEW p \in Plans, NEW keepPrefix \in BOOLEAN, PublishAuthority(p, keepPrefix)
      PROVE  ReceiptsStand'
  <2>1. sel' = [plan |-> p, token |-> sel.token + 1] /\ Plan' = p
    BY <1>3 DEF PublishAuthority, Plan
  <2>2. ASSUME NEW u \in Units
        PROVE  /\ receipt'[u] = IF u \in Preserved(p) THEN receipt[u] ELSE None
               /\ bound'[u] = IF u \in Preserved(p) THEN receipt[u] ELSE None
    BY <1>3 DEF PublishAuthority, AdoptedReceipt
  <2>3. ASSUME NEW u \in Units, receipt'[u] # None
        PROVE  /\ receipt'[u].claim.unit = u
               /\ ClaimDigest(receipt'[u].claim) = Digest[p][u]
               /\ receipt'[u].claim.sel.token < sel.token + 1
               /\ bound'[u] = receipt'[u]
    <3>1. /\ u \in Preserved(p) /\ receipt'[u] = receipt[u]
          /\ bound'[u] = receipt[u] /\ receipt[u] # None
      BY <2>2, <2>3
    <3>2. receipt[u].claim.sel.token \in Nat /\ sel.token \in Nat
      BY <3>1, <1>t DEF Receipts, Claims, Selections, TypeOK
    <3>3. receipt[u].claim.sel.token <= sel.token
      BY <3>1, <3>2, <1>t DEF ReceiptsStand
    <3> QED
      BY <3>1, <3>2, <3>3, <1>t, PreservedDigest DEF ReceiptsStand
  <2> QED
    BY <2>1, <2>3 DEF ReceiptsStand, ClaimDigest
<1> QED
  BY <1>1, <1>2, <1>3, QuietStep, EarlierLayersStep, <1>t
  DEF Next, Builder, Operator, Authority, ClaimPlanning, ClaimBuild, FreezeCheckpoint,
      Transition, FailAttempt, RecordFalsification, BlockDependents, InvalidateCheckpoint, Retry

\* A finalization ends before any unit it covers leaves acceptance.
LEMMA FinalizationStep ==
    AcceptInv /\ [Next]_vars => FinalizationCoversAcceptance' /\ FinalizationStands'
<1> SUFFICES ASSUME AcceptInv, [Next]_vars
             PROVE  FinalizationCoversAcceptance' /\ FinalizationStands'
  OBVIOUS
<1> USE DEF shotVars, finVars, unitVars, builderVars
<1>t. /\ TypeOK /\ BuilderMemory /\ OrderInv /\ AttemptIsCurrent
      /\ FinalizationCoversAcceptance /\ FinalizationStands
      /\ status \in [Units -> UNIT_STATES \cup {"absent"}]
      /\ receipt \in [Units -> Receipts \cup {None}]
      /\ LayerUnits \subseteq Units
  BY LayerType DEF AcceptInv, CheckpointInv, OrderInv, TypeInv, TypeOK
\* Accepted units keep their acceptance: a covered layer stays covered.
<1>k. ASSUME sel' = sel,
             \A u \in LayerUnits : status[u] = "passed" =>
                                     status'[u] = "passed" /\ receipt'[u] = receipt[u],
             PassedUnits = LayerUnits
      PROVE  /\ PassedUnits' = LayerUnits' /\ PassedReceipts' = PassedReceipts
             /\ Plan' = Plan
  <2>1. Plan' = Plan /\ LayerUnits' = LayerUnits
    BY <1>k, SamePlan
  <2>2. PassedUnits' = LayerUnits
    BY <1>k, <2>1 DEF PassedUnits
  <2>3. \A u \in LayerUnits : receipt'[u] = receipt[u]
    BY <1>k DEF PassedUnits
  <2> QED
    BY <1>k, <2>1, <2>2, <2>3 DEF PassedReceipts
<1>1. CASE /\ UNCHANGED <<sel, boundTerminal, finClaim, terminal>>
           /\ \A u \in LayerUnits : status[u] = "passed" =>
                                      status'[u] = "passed" /\ receipt'[u] = receipt[u]
  <2>1. FinalizationCoversAcceptance'
    BY <1>1, <1>k, <1>t DEF FinalizationCoversAcceptance
  <2>2. FinalizationStands'
    BY <1>1, <1>t, SamePlan DEF FinalizationStands
  <2> QED
    BY <2>1, <2>2
<1>2. CASE StartBuilder \/ StopBuilder \/ AuthorizeLayer \/ PrepareCompletion \/ Reauthorize
           \/ EarlierLayers \/ UNCHANGED vars
  BY <1>1, <1>2, EarlierLayersStep
  DEF StartBuilder, StopBuilder, AuthorizeLayer, PrepareCompletion, Reauthorize, vars
<1>3. ASSUME NEW u \in Units, ClaimPlanning(u)
      PROVE  FinalizationCoversAcceptance' /\ FinalizationStands'
  BY <1>1, <1>3, <1>t DEF ClaimPlanning, PLANNING_CLAIMABLE_STATES
<1>4. CASE ClaimBuild \/ FreezeCheckpoint \/ Transition \/ CompleteAttempt \/ FailAttempt
  <2>1. /\ bClaim.unit \in Units /\ status[bClaim.unit] # "passed"
    BY <1>4, <1>t, HeldAttempt
    DEF ClaimBuild, FreezeCheckpoint, Transition, CompleteAttempt, EvaluationAccepted,
        FailAttempt, BuilderMemory, InFlight
  <2>2. /\ UNCHANGED <<sel, boundTerminal, finClaim, terminal>>
        /\ \A x \in Units \ {bClaim.unit} : status'[x] = status[x] /\ receipt'[x] = receipt[x]
    BY <1>4, <1>t, <2>1
    DEF ClaimBuild, FreezeCheckpoint, Transition, CompleteAttempt, FailAttempt
  <2> QED
    BY <1>1, <1>t, <2>1, <2>2
<1>5. ASSUME NEW owners \in SUBSET LayerUnits, RecordFalsification(owners)
      PROVE  FinalizationCoversAcceptance' /\ FinalizationStands'
  <2>1. bClaim.unit \in Units /\ status[bClaim.unit] # "passed"
    BY <1>5, <1>t, HeldAttempt DEF RecordFalsification, BuilderMemory, InFlight
  <2>2. \A x \in Units : status[x] = "passed" => status'[x] = "passed"
    BY <1>5, <2>1 DEF RecordFalsification, RevokeInto, NotYetBlocked
  <2> QED
    BY <1>1, <1>5, <1>t, <2>2 DEF RecordFalsification
<1>6. CASE BlockDependents
  <2>1. \A x \in Units : status[x] = "passed" => status'[x] = "passed"
    BY <1>6 DEF BlockDependents, RevokeInto, NotYetBlocked
  <2> QED
    BY <1>1, <1>6, <1>t, <2>1 DEF BlockDependents
<1>7. CASE ClaimLayerFinalization
  <2>1. /\ sel' = sel /\ status' = status /\ receipt' = receipt
        /\ terminal = None /\ terminal' = None
        /\ finClaim' = [rev |-> finRevision + 1, sel |-> sel, rows |-> prior,
                        inputs |-> PassedReceipts]
        /\ PassedUnits = LayerUnits
    BY <1>7 DEF ClaimLayerFinalization
  <2>2. PassedUnits' = LayerUnits' /\ PassedReceipts' = PassedReceipts
    BY <1>k, <2>1
  <2>3. finClaim'.sel = sel /\ finClaim'.inputs = PassedReceipts
    BY <2>1
  <2> QED
    BY <2>1, <2>2, <2>3 DEF FinalizationCoversAcceptance, FinalizationStands
<1>8. CASE CompleteLayerFinalization
  <2>1. /\ sel' = sel /\ status' = status /\ receipt' = receipt /\ boundTerminal' = boundTerminal
        /\ bFin = finClaim /\ terminal' = finClaim /\ finClaim' = None
        /\ finClaim.sel = sel /\ PassedUnits = LayerUnits /\ finClaim.inputs = PassedReceipts
    BY <1>8 DEF CompleteLayerFinalization, FinalizationClaimCurrent
  <2>2. PassedUnits' = LayerUnits' /\ PassedReceipts' = PassedReceipts
    BY <1>k, <2>1
  <2> QED
    BY <2>1, <2>2 DEF FinalizationCoversAcceptance, FinalizationStands, Plan
<1>9. ASSUME NEW u \in Units, InvalidateCheckpoint(u)
      PROVE  FinalizationCoversAcceptance' /\ FinalizationStands'
  BY <1>9
  DEF InvalidateCheckpoint, ArchiveLayerFinalization, FinalizationCoversAcceptance,
      FinalizationStands
<1>10. ASSUME NEW u \in Units, Retry(u)
       PROVE  FinalizationCoversAcceptance' /\ FinalizationStands'
  BY <1>1, <1>10, <1>t DEF Retry, RetryAllowed, InFlight
<1>11. CASE ReleaseLayerFinalization
  <2>1. /\ sel' = sel /\ status' = status /\ receipt' = receipt
        /\ finClaim' = None /\ terminal = None /\ terminal' = None
    BY <1>11 DEF ReleaseLayerFinalization, FinalizationReleasable
  <2> QED
    BY <2>1 DEF FinalizationCoversAcceptance, FinalizationStands
<1>12. ASSUME NEW p \in Plans, NEW keepPrefix \in BOOLEAN, PublishAuthority(p, keepPrefix)
       PROVE  FinalizationCoversAcceptance' /\ FinalizationStands'
  <2>1. CASE finClaim # None \/ ~TerminalPreserved(p, keepPrefix)
    BY <1>12, <2>1
    DEF PublishAuthority, ArchiveLayerFinalization, FinalizationCoversAcceptance,
        FinalizationStands
  <2>2. CASE finClaim = None /\ TerminalPreserved(p, keepPrefix)
    <3>1. /\ p = Plan /\ terminal # None
          /\ finClaim' = None /\ terminal' = terminal /\ boundTerminal' = terminal
          /\ Plan' = Plan /\ LayerUnits' = LayerUnits
      BY <1>12, <2>2 DEF PublishAuthority, TerminalPreserved, Plan, LayerUnits
    <3>2. PassedUnits = LayerUnits /\ terminal.inputs = PassedReceipts
          /\ terminal.sel.plan = Plan
      BY <3>1, <1>t DEF FinalizationCoversAcceptance, FinalizationStands
    <3>3. Preserved(p) = LayerUnits
      BY <3>1, SamePlanPreserves
    <3>4. ASSUME NEW u \in LayerUnits
          PROVE  status[u] = "passed" /\ active[u] = None
      BY <3>2, <1>t DEF PassedUnits, AttemptIsCurrent, InFlight
    <3>5. ASSUME NEW u \in LayerUnits
          PROVE  status'[u] = "passed" /\ receipt'[u] = receipt[u]
      BY <1>12, <3>1, <3>3, <3>4, <1>t DEF PublishAuthority, LayerUnits
    <3>6. PassedUnits' = LayerUnits
      BY <3>1, <3>5 DEF PassedUnits
    <3>7. PassedReceipts' = PassedReceipts
      BY <3>2, <3>5, <3>6 DEF PassedReceipts
    <3> QED
      BY <3>1, <3>2, <3>6, <3>7 DEF FinalizationCoversAcceptance, FinalizationStands
  <2> QED
    BY <2>1, <2>2
<1> QED
  BY <1>2, <1>3, <1>4, <1>5, <1>6, <1>7, <1>8, <1>9, <1>10, <1>11, <1>12
  DEF Next, Builder, Operator, Authority

\* No transaction writes the status `superseded` into a slot it keeps.
LEMMA SupersededStep == AcceptInv /\ [Next]_vars => NoneSuperseded'
<1> SUFFICES ASSUME AcceptInv, [Next]_vars PROVE NoneSuperseded'
  OBVIOUS
<1> USE DEF shotVars, finVars, unitVars, builderVars
<1>t. /\ NoneSuperseded /\ TypeOK
      /\ status \in [Units -> UNIT_STATES \cup {"absent"}]
  BY DEF AcceptInv, CheckpointInv, OrderInv, TypeInv, TypeOK
<1>1. CASE UNCHANGED unitVars
  BY <1>1, <1>t DEF NoneSuperseded
<1>2. CASE \E u \in Units : ClaimPlanning(u) \/ InvalidateCheckpoint(u) \/ Retry(u)
  BY <1>2, <1>t DEF ClaimPlanning, InvalidateCheckpoint, Retry, NoneSuperseded
<1>3. CASE ClaimBuild \/ FreezeCheckpoint \/ Transition \/ CompleteAttempt \/ FailAttempt
  BY <1>3, <1>t
  DEF ClaimBuild, FreezeCheckpoint, Transition, CompleteAttempt, FailAttempt, NoneSuperseded
<1>4. CASE BlockDependents \/ \E owners \in SUBSET LayerUnits : RecordFalsification(owners)
  BY <1>4, <1>t DEF BlockDependents, RecordFalsification, RevokeInto, NoneSuperseded
<1>5. ASSUME NEW p \in Plans, NEW keepPrefix \in BOOLEAN, PublishAuthority(p, keepPrefix)
      PROVE  NoneSuperseded'
  BY <1>5, <1>t, PreservedInBoth DEF PublishAuthority, NoneSuperseded
<1> QED
  BY <1>1, <1>2, <1>3, <1>4, <1>5, QuietStep, EarlierLayersStep
  DEF Next, Builder, Operator, Authority

\* The acceptance invariant is inductive.
LEMMA AcceptInvariant == Spec => []AcceptInv
<1>1. Init => AcceptInv
  <2> SUFFICES ASSUME Init PROVE AcceptInv
    OBVIOUS
  <2>1. CheckpointInv
    BY InitOrderInv DEF Init, CheckpointInv, CheckpointOwned, ReceiptsAreAccepted
  <2> QED
    BY <2>1
    DEF Init, AcceptInv, ReceiptsStand, FinalizationCoversAcceptance, FinalizationStands,
        NoneSuperseded
<1>2. AcceptInv /\ [Next]_vars => AcceptInv'
  BY CheckpointStep, NextTypeInv, SlotsStep, AttemptStep, DependencyStep, ReceiptsStep,
     FinalizationStep, SupersededStep
  DEF AcceptInv, CheckpointInv, OrderInv
<1> QED
  BY <1>1, <1>2, PTL DEF Spec

\* A builder can always re-enter the layer, and a later plan change compiles
\* unless an earlier layer changed under the terminal receipt: every accepted
\* unit has a current or adopted receipt.
LEMMA AcceptedIsAuthorizable == AcceptInv => AcceptanceAuthorizable
<1> SUFFICES ASSUME AcceptInv PROVE AcceptanceAuthorizable
  OBVIOUS
<1>t. /\ TypeOK /\ CheckpointOwned /\ ReceiptsAreAccepted /\ ReceiptsStand
      /\ FinalizationCoversAcceptance /\ FinalizationStands
      /\ LayerUnits \subseteq Units
  BY LayerType DEF AcceptInv, CheckpointInv, OrderInv, TypeInv
<1>1. ASSUME NEW u \in PassedUnits PROVE Authorizable(u)
  <2>1. u \in LayerUnits /\ u \in Units /\ status[u] = "passed"
    BY <1>t DEF PassedUnits
  <2>2. receipt[u] # None /\ checkpoint[u] = receipt[u].checkpoint
    BY <2>1, <1>t DEF CheckpointOwned
  <2>3. /\ receipt[u].claim.sel.token \in Nat /\ sel.token \in Nat
        /\ receipt[u].claim.sel \in Selections /\ sel \in Selections
    BY <2>1, <2>2, <1>t DEF TypeOK, Receipts, Claims, Selections
  <2> QED
    BY <2>1, <2>2, <2>3, <1>t DEF Authorizable, ReceiptsStand, Plan
<1>2. ASSUME NEW u \in LayerUnits, receipt[u] # None
      PROVE  /\ status[u] = "passed"
             /\ ClaimDigest(receipt[u].claim) = Digest[Plan][u]
             /\ receipt[u].claim.sel = sel \/ bound[u] = receipt[u]
  BY <1>2, <1>t DEF ReceiptsAreAccepted, ReceiptsStand
<1>3. terminal # None => TerminalCloses
  BY <1>t
  DEF TerminalCloses, FinalizationCoversAcceptance, FinalizationStands, PassedUnits,
      CheckpointOwned
<1> QED
  BY <1>1, <1>2, <1>3 DEF AcceptanceAuthorizable, ReceiptsCompile, TransitionCompiles

\* Whatever plans come and go, no accepted unit stops a builder, and of this layer's
\* receipts none stops a plan change but a terminal one made on other rows of the
\* earlier layers.
THEOREM AcceptanceStaysAuthorizable == Spec => []AcceptanceAuthorizable
BY AcceptInvariant, AcceptedIsAuthorizable, PTL

\* A finalization, claimed or terminal, covers exactly the present acceptances.
THEOREM FinalizationsCover == Spec => []FinalizationCoversAcceptance
<1>1. AcceptInv => FinalizationCoversAcceptance
  BY DEF AcceptInv
<1> QED
  BY AcceptInvariant, <1>1, PTL

\* Whatever a builder leaves behind has a way on: a claim, `vfx units retry`,
\* a plan change after a finding, or the release of a left finalization while
\* the rows of the earlier layers are the ones it was claimed on.
THEOREM NothingIsWedged == Spec => []NothingWedged
<1>1. AcceptInv => NothingWedged
  <2> SUFFICES ASSUME AcceptInv PROVE NothingWedged
    OBVIOUS
  <2>t. /\ TypeOK /\ SlotsMatchPlan /\ AttemptIsCurrent /\ NoneSuperseded
        /\ FinalizationCoversAcceptance /\ FinalizationStands /\ AcceptanceAuthorizable
        /\ LayerUnits \subseteq Units
        /\ status \in [Units -> UNIT_STATES \cup {"absent"}]
    BY LayerType, AcceptedIsAuthorizable
    DEF AcceptInv, CheckpointInv, OrderInv, TypeInv, TypeOK
  <2>1. ASSUME NEW u \in LayerUnits
        PROVE  \/ status[u] \in PLANNING_CLAIMABLE_STATES \cup {"passed", "hypothesis_falsified"}
               \/ RetryAllowed(u)
    <3>1. status[u] \in {"pending", "planning", "building", "frozen", "evaluating",
                         "repairing", "retryable", "blocked", "failed",
                         "hypothesis_falsified", "passed"}
      BY <2>t, UnitStates DEF SlotsMatchPlan, NoneSuperseded
    <3>2. active[u] # None => active[u].sel = sel
      BY <2>t DEF AttemptIsCurrent
    <3>3. status[u] \in InFlight \cup {"failed"} => "retryable" \in TRANSITIONS[status[u]]
      BY DEF InFlight, TRANSITIONS
    <3> QED
      BY <3>1, <3>2, <3>3 DEF RetryAllowed, PLANNING_CLAIMABLE_STATES, InFlight
  <2>2. finClaim # None /\ RowsCurrent(finClaim) => FinalizationReleasable
    BY <2>t
    DEF FinalizationReleasable, FinalizationClaimCurrent, FinalizationCoversAcceptance,
        FinalizationStands, AcceptanceAuthorizable
  <2> QED
    BY <2>1, <2>2 DEF NothingWedged
<1> QED
  BY AcceptInvariant, <1>1, PTL

-----------------------------------------------------------------------------
(* The second transaction of a failure, which blocks the dependents.       *)

\* A builder's selection is never selected again once it was replaced, and
\* while it stands the failed unit is not accepted.
FailureStands ==
    /\ bSel # None => bSel.token <= sel.token
    /\ pc = "blocking" /\ SelectionCurrent => status[bClaim.unit] # "passed"

BlockingInv == AcceptInv /\ FailureStands

\* Nobody accepts the failed unit before its dependents are blocked.
LEMMA FailureStep == BlockingInv /\ [Next]_vars => FailureStands'
<1> SUFFICES ASSUME BlockingInv, [Next]_vars PROVE FailureStands'
  OBVIOUS
<1> USE DEF shotVars, finVars, unitVars, builderVars
<1>t. /\ TypeOK /\ BuilderMemory /\ OrderInv /\ FailureStands
      /\ status \in [Units -> UNIT_STATES \cup {"absent"}]
      /\ sel \in Selections /\ bSel \in Selections \cup {None}
  BY DEF BlockingInv, AcceptInv, CheckpointInv, OrderInv, TypeInv, TypeOK
<1>1. CASE /\ sel' = sel /\ bSel' \in {bSel, None}
           /\ pc' # "blocking"
  BY <1>1, <1>t DEF FailureStands
<1>2. CASE StartBuilder
  BY <1>2, <1>t DEF StartBuilder, FailureStands, Selections
<1>3. CASE FailAttempt \/ \E owners \in SUBSET LayerUnits : RecordFalsification(owners)
  <2>1. bClaim.unit \in Units
    BY <1>3, <1>t, HeldAttempt, LayerType DEF FailAttempt, RecordFalsification, BuilderMemory
  <2>2. status'[bClaim.unit] # "passed"
    BY <1>3, <1>t, <2>1 DEF FailAttempt, RecordFalsification, RevokeInto
  <2> QED
    BY <1>3, <1>t, <2>2 DEF FailAttempt, RecordFalsification, FailureStands
<1>4. CASE \E u \in Units : InvalidateCheckpoint(u) \/ Retry(u)
  BY <1>4, <1>t
  DEF InvalidateCheckpoint, Retry, FailureStands, SelectionCurrent, BuilderMemory, Claims
<1>5. CASE ReleaseLayerFinalization \/ EarlierLayers \/ UNCHANGED vars
  BY <1>5, <1>t, EarlierLayersStep
  DEF ReleaseLayerFinalization, vars, FailureStands, SelectionCurrent
<1>6. ASSUME NEW p \in Plans, NEW keepPrefix \in BOOLEAN, PublishAuthority(p, keepPrefix)
      PROVE  FailureStands'
  <2>1. sel'.token = sel.token + 1 /\ bSel' = bSel /\ pc' = pc
    BY <1>6 DEF PublishAuthority
  <2>2. sel.token \in Nat /\ (bSel # None => bSel.token \in Nat)
    BY <1>t DEF Selections
  <2>3. pc = "blocking" => bSel # None
    BY <1>t, NoneIsNoRecord DEF BuilderMemory
  <2> QED
    BY <2>1, <2>2, <2>3, <1>t DEF FailureStands, SelectionCurrent
<1>7. CASE StopBuilder \/ BlockDependents \/ AuthorizeLayer \/ PrepareCompletion
           \/ ClaimBuild \/ FreezeCheckpoint \/ Transition \/ CompleteAttempt \/ Reauthorize
           \/ ClaimLayerFinalization \/ CompleteLayerFinalization
           \/ \E u \in Units : ClaimPlanning(u)
  BY <1>1, <1>7
  DEF StopBuilder, BlockDependents, BuilderOff, AuthorizeLayer, PrepareCompletion,
      ClaimPlanning, ClaimBuild, FreezeCheckpoint, Transition, CompleteAttempt, Reauthorize,
      ClaimLayerFinalization, CompleteLayerFinalization
<1> QED
  BY <1>2, <1>3, <1>4, <1>5, <1>6, <1>7 DEF Next, Builder, Operator, Authority

\* block_dependents never meets a dependent it may not block: while a unit is
\* not accepted everything that depends on it, at any distance, is waiting.
THEOREM BlockingIsLegal == Spec => []BlockDependentsLegal
<1>1. Init => BlockingInv
  <2> SUFFICES ASSUME Init PROVE BlockingInv
    OBVIOUS
  <2>1. CheckpointInv
    BY InitOrderInv DEF Init, CheckpointInv, CheckpointOwned, ReceiptsAreAccepted
  <2> QED
    BY <2>1
    DEF Init, BlockingInv, AcceptInv, ReceiptsStand, FinalizationCoversAcceptance,
        FinalizationStands, NoneSuperseded, FailureStands
<1>2. BlockingInv /\ [Next]_vars => BlockingInv'
  BY CheckpointStep, NextTypeInv, SlotsStep, AttemptStep, DependencyStep, ReceiptsStep,
     FinalizationStep, SupersededStep, FailureStep
  DEF BlockingInv, AcceptInv, CheckpointInv, OrderInv
<1>3. BlockingInv => BlockDependentsLegal
  <2> SUFFICES ASSUME BlockingInv, pc = "blocking", SelectionCurrent,
                      NEW d \in Downstream(Plan, {bClaim.unit}) \ {bClaim.unit}
               PROVE  status[d] # "passed" /\ Blockable({d})
    BY DEF BlockDependentsLegal
  <2> DEFINE u == bClaim.unit
             T == {x \in LayerUnits : status[x] \in PLANNING_CLAIMABLE_STATES} \cup {u}
  <2>t. TypeOK /\ DependencyClosed /\ status[u] # "passed" /\ Plan \in Plans
        /\ LayerUnits \subseteq Units
    BY LayerType
    DEF BlockingInv, AcceptInv, CheckpointInv, OrderInv, TypeInv, FailureStands
  <2>1. u \in PlanUnits[Plan] /\ u \in Units /\ d \in DependentsOf[Plan][u]
    BY <2>t DEF Downstream, LayerUnits
  <2>2. T \in SUBSET PlanUnits[Plan]
    BY <2>1 DEF LayerUnits
  <2>3. DependentClosed(Plan, T)
    <3> SUFFICES ASSUME NEW x \in PlanUnits[Plan], NEW e \in Deps[Plan][x], e \in T
                 PROVE  x \in T
      BY DEF DependentClosed
    <3>1. status[e] # "passed"
      BY <2>t DEF PLANNING_CLAIMABLE_STATES
    <3> QED
      BY <3>1, <2>t DEF DependencyClosed, LayerUnits
  <2>4. d \in T
    BY <2>1, <2>2, <2>3, <2>t DEF DependentsOf
  <2>5. status[d] \in {"pending", "blocked", "retryable"}
    BY <2>4 DEF PLANNING_CLAIMABLE_STATES
  <2> QED
    BY <2>5 DEF Blockable, NotYetBlocked, TRANSITIONS
<1> QED
  BY <1>1, <1>2, <1>3, PTL DEF Spec

-----------------------------------------------------------------------------
(* The state file implements an incremental build.                         *)

BuildInv == AcceptInv /\ InputsInv /\ LineageInv

Results == Attempts(receipt)
Inputs == [u \in Units |-> IF receipt[u] = None THEN None ELSE Attempts(basis[u])]
Closed == IF terminal = None THEN None ELSE Attempts(terminal.inputs)

\* A receipt names an attempt.
LEMMA AttemptIsNone ==
    ASSUME NEW r \in Receipts \cup {None} PROVE (AttemptOf(r) = None) <=> (r = None)
BY NoneIsNoRecord DEF AttemptOf, Receipts

\* The attempts behind a row of receipts.
LEMMA AttemptsAre ==
    \A f \in [Units -> Receipts \cup {None}] :
        /\ Attempts(f) = [u \in Units |-> AttemptOf(f[u])]
        /\ \A u \in Units : (Attempts(f)[u] = None) <=> (f[u] = None)
<1> SUFFICES ASSUME NEW f \in [Units -> Receipts \cup {None}]
             PROVE  /\ Attempts(f) = [u \in Units |-> AttemptOf(f[u])]
                    /\ \A u \in Units : (Attempts(f)[u] = None) <=> (f[u] = None)
  OBVIOUS
<1>1. Attempts(f) = [u \in Units |-> AttemptOf(f[u])]
  BY DEF Attempts
<1> QED
  BY <1>1, AttemptIsNone

\* The results, unit by unit.
LEMMA ResultsAre ==
    /\ TypeOK => /\ Results = [u \in Units |-> AttemptOf(receipt[u])]
                 /\ \A u \in Units : (Results[u] = None) <=> (receipt[u] = None)
    /\ TypeOK' => Results' = [u \in Units |-> AttemptOf(receipt'[u])]
BY AttemptsAre DEF TypeOK, Results

\* Attempts that ended stay ended.
LEMMA HistoryGrows ==
    ASSUME TypeOK, NEW S, ArchiveActive(S)
    PROVE  \A u \in Units : archive[u] \subseteq archive'[u]
BY DEF TypeOK, ArchiveActive

\* A step that keeps the receipts, and what accepted units were built from.
LEMMA GivesUp ==
    ASSUME UNCHANGED <<sel, receipt, terminal>>,
           \A u \in Units : receipt[u] # None => basis'[u] = basis[u],
           \A u \in Units : archive[u] \subseteq archive'[u]
    PROVE  Build!GiveUp
<1>1. Inputs' = Inputs
  BY DEF Inputs, Attempts
<1> QED
  BY <1>1 DEF Build!GiveUp, Build!AttemptsEnd, Inputs, Plan

\* Results that are taken away with their inputs.
LEMMA Keeps ==
    ASSUME TypeOK, TypeOK', basis' = basis, NEW K,
           \A u \in Units : receipt'[u] = IF u \in K THEN receipt[u] ELSE None
    PROVE  Build!Keep(K)
<1>1. /\ Results = [u \in Units |-> AttemptOf(receipt[u])]
      /\ Results' = [u \in Units |-> AttemptOf(receipt'[u])]
  BY ResultsAre
<1>2. Results' = [u \in Units |-> IF u \in K THEN Results[u] ELSE None]
  BY <1>1 DEF AttemptOf
<1>3. Inputs' = [u \in Units |-> IF u \in K THEN Inputs[u] ELSE None]
  BY DEF Inputs, Attempts
<1> QED
  BY <1>2, <1>3 DEF Build!Keep, Results, Inputs

\* The acceptance of an attempt that was claimed long ago is the acceptance of
\* one that was built from the results in place.
LEMMA AcceptsOnResults ==
    ASSUME BuildInv, TypeOK', CompleteAttempt, NEW u \in Units, u = bClaim.unit
    PROVE  Build!Accept(u)
<1> USE DEF shotVars, finVars
<1>t. /\ TypeOK /\ OrderInv /\ BuilderMemory /\ CheckpointOwned /\ DependencyClosed
      /\ ReceiptsAreAccepted /\ AcceptedOnCurrentInputs /\ LineageExact /\ HistoryIsOlder
  BY DEF BuildInv, AcceptInv, CheckpointInv, InputsInv, LineageInv, OrderInv, TypeInv
<1>1. /\ u \in LayerUnits /\ u \in Units /\ active[u] = bClaim /\ active[u] # None
      /\ status[u] = "evaluating" /\ bEval.claim = bClaim
      /\ bClaim \in Claims /\ bEval \in Receipts
  BY <1>t, HeldAttempt, LayerType DEF CompleteAttempt, EvaluationAccepted, BuilderMemory
<1>2. /\ receipt \in [Units -> Receipts \cup {None}]
      /\ archive \in [Units -> SUBSET Claims]
      /\ receipt' = [receipt EXCEPT ![u] = bEval]
      /\ sel' = sel /\ basis' = basis /\ terminal' = terminal
  BY <1>t DEF TypeOK, CompleteAttempt
<1>3. archive' = [archive EXCEPT ![u] = @ \cup {bClaim}]
  BY <1>1, <1>2 DEF CompleteAttempt, ArchiveActive
<1>4. receipt[u] = None
  BY <1>1, <1>t DEF ReceiptsAreAccepted
<1>5. \A d \in Deps[Plan][u] : d \in Units /\ receipt[d] # None
  <2>1. \A d \in Deps[Plan][u] : d \in LayerUnits /\ d \in Units
    BY <1>1, <1>t, LayerDeps
  <2>2. \A d \in Deps[Plan][u] : status[d] = "passed"
    BY <1>1, <1>t DEF DependencyClosed, PLANNING_CLAIMABLE_STATES
  <2> QED
    BY <2>1, <2>2, <1>t DEF CheckpointOwned
<1>6. basis[u] = [d \in Deps[Plan][u] |-> receipt[d]]
  BY <1>1, <1>t DEF AcceptedOnCurrentInputs
<1>7. bClaim \notin archive[u] \cup {None}
  <2>1. lineage[u] \in Nat /\ bClaim.rev = lineage[u]
    BY <1>1, <1>t DEF LineageExact, TypeOK
  <2>2. \A c \in archive[u] : c.rev < lineage[u]
    BY <1>1, <1>t DEF HistoryIsOlder
  <2> QED
    BY <1>1, <2>1, <2>2
<1>8. /\ Results = [x \in Units |-> AttemptOf(receipt[x])]
      /\ \A x \in Units : (Results[x] = None) <=> (receipt[x] = None)
      /\ Results' = [x \in Units |-> AttemptOf(receipt'[x])]
  BY <1>t, ResultsAre
<1>9. Results' = [Results EXCEPT ![u] = bClaim] /\ Results'[u] = bClaim
  <2>1. AttemptOf(bEval) = bClaim
    BY <1>1, NoneIsNoRecord DEF AttemptOf
  <2> QED
    BY <1>1, <1>2, <1>8, <2>1
<1>10. Attempts(basis[u]) = [d \in Deps[Plan][u] |-> Results[d]]
  BY <1>5, <1>6, <1>8 DEF Attempts
<1>11. Inputs' = [Inputs EXCEPT ![u] = [d \in Deps[Plan][u] |-> Results[d]]]
  <2>1. receipt'[u] # None /\ \A x \in Units \ {u} : receipt'[x] = receipt[x]
    BY <1>1, <1>2, NoneIsNoRecord
  <2>2. Attempts(basis'[u]) = [d \in Deps[Plan][u] |-> Results[d]]
    BY <1>2, <1>10 DEF Attempts, AttemptOf
  <2>3. Inputs'[u] = [d \in Deps[Plan][u] |-> Results[d]]
    BY <1>1, <2>1, <2>2 DEF Inputs
  <2>4. \A x \in Units \ {u} : Inputs'[x] = Inputs[x]
    BY <1>2, <2>1 DEF Inputs, Attempts, AttemptOf
  <2> QED
    BY <2>3, <2>4 DEF Inputs
<1>12. Plan' = Plan /\ Closed' = Closed
  BY <1>2 DEF Plan, Closed, Attempts, AttemptOf
<1> QED
  BY <1>1, <1>3, <1>4, <1>5, <1>7, <1>8, <1>9, <1>11, <1>12
  DEF Build!Accept, LayerUnits, Results, Inputs, Closed

\* An invalidation keeps results that were built from results it keeps.
LEMMA InvalidationRevokes ==
    ASSUME BuildInv, TypeOK', NEW u \in Units, InvalidateCheckpoint(u) PROVE Build!Revoke
<1> USE DEF shotVars
<1> DEFINE S == Downstream(Plan, {u})
<1>0. PICK K : K = Units \ S
  OBVIOUS
<1>t. TypeOK /\ OrderInv /\ SlotsMatchPlan /\ ReceiptsAreAccepted
  BY DEF BuildInv, AcceptInv, CheckpointInv, OrderInv, TypeInv
<1>1. \A x \in LayerUnits : \A d \in Deps[Plan][x] : d \in S => x \in S
  BY <1>t, LayerType, DownstreamClosed DEF DependentClosed, LayerUnits
<1>2. /\ \A x \in Units : receipt'[x] = IF x \in K THEN receipt[x] ELSE None
      /\ basis' = basis /\ sel' = sel /\ terminal' = None
      /\ ArchiveActive(S)
  BY <1>0 DEF InvalidateCheckpoint, InvalidationClosure, ArchiveLayerFinalization
<1> HIDE DEF S
<1>3. \A x \in K : Results[x] # None => Deps[Plan][x] \subseteq K
  <2> SUFFICES ASSUME NEW x \in K, Results[x] # None PROVE Deps[Plan][x] \subseteq K
    OBVIOUS
  <2>1. x \in Units /\ status[x] = "passed"
    BY <1>0, <1>t, ResultsAre DEF ReceiptsAreAccepted
  <2>2. x \in LayerUnits
    BY <2>1, <1>t DEF SlotsMatchPlan
  <2>3. Deps[Plan][x] \subseteq Units
    BY <2>2, <1>t, LayerDeps
  <2> QED
    BY <1>0, <1>1, <2>2, <2>3
<1>4. Build!Keep(K)
  BY <1>2, <1>t, Keeps
<1>5. \A x \in Units : archive[x] \subseteq archive'[x]
  BY <1>2, <1>t, HistoryGrows
<1>6. Plan' = Plan
  BY <1>2 DEF Plan
<1> QED
  BY <1>0, <1>2, <1>3, <1>4, <1>5, <1>6 DEF Build!Revoke, Build!AttemptsEnd, Results

\* A plan change keeps what it preserves, and a closed layer only as it is.
LEMMA PublicationReplans ==
    ASSUME BuildInv, TypeOK', NEW p \in Plans, NEW keepPrefix \in BOOLEAN,
           PublishAuthority(p, keepPrefix)
    PROVE  Build!Replan
<1>0. PICK K : K = Preserved(p)
  OBVIOUS
<1>t. /\ TypeOK /\ OrderInv /\ SlotsMatchPlan /\ ReceiptsAreAccepted
      /\ receipt \in [Units -> Receipts \cup {None}]
  BY DEF BuildInv, AcceptInv, CheckpointInv, OrderInv, TypeInv, TypeOK
<1>1. /\ \A x \in Units : receipt'[x] = IF x \in K THEN receipt[x] ELSE None
      /\ receipt' \in [Units -> Receipts \cup {None}]
      /\ basis' = basis /\ Plan' = p
      /\ ArchiveActive(LayerUnits)
  BY <1>0 DEF TypeOK, PublishAuthority, RevokedAttempts, Plan
<1>2. K \in SUBSET (PlanUnits[Plan] \cap PlanUnits[p])
  BY <1>0, PreservedInBoth DEF LayerUnits
<1>3. \A x \in K : /\ Digest[p][x] = Digest[Plan][x]
                   /\ Deps[p][x] = Deps[Plan][x]
                   /\ Deps[p][x] \subseteq K
  BY <1>0, <1>t, PreservedDeps, PreservedDigest
<1>4. Build!Keep(K)
  BY <1>1, <1>t, Keeps
<1>5. Closed' = None \/ (Plan' = Plan /\ Results' = Results /\ Closed' = Closed)
  <2>1. CASE finClaim # None \/ ~TerminalPreserved(p, keepPrefix)
    BY <2>1 DEF PublishAuthority, ArchiveLayerFinalization, Closed
  <2>2. CASE ~(finClaim # None \/ ~TerminalPreserved(p, keepPrefix))
    <3>1. p = Plan /\ terminal' = terminal
      BY <2>2 DEF PublishAuthority, TerminalPreserved, finVars
    <3>2. K = LayerUnits
      BY <1>0, <3>1, SamePlanPreserves
    <3>3. \A x \in Units \ LayerUnits : receipt[x] = None
      BY <1>t DEF SlotsMatchPlan, ReceiptsAreAccepted
    <3>4. receipt' = receipt
      BY <1>1, <1>t, <3>2, <3>3
    <3> QED
      BY <1>1, <3>1, <3>4 DEF Closed, Results, Attempts, AttemptOf
  <2> QED
    BY <2>1, <2>2
<1>6. \A x \in Units : archive[x] \subseteq archive'[x]
  BY <1>1, <1>t, HistoryGrows
<1> QED
  BY <1>1, <1>2, <1>3, <1>4, <1>5, <1>6
  DEF Build!Replan, Build!AttemptsEnd, Results, Closed

\* A layer is closed on the results in place.
LEMMA FinalizationCloses == BuildInv /\ TypeOK' /\ CompleteLayerFinalization => Build!Close
<1> SUFFICES ASSUME BuildInv, TypeOK', CompleteLayerFinalization PROVE Build!Close
  OBVIOUS
<1> USE DEF shotVars, unitVars
<1>t. /\ TypeOK /\ BuilderMemory /\ CheckpointOwned /\ ReceiptsAreAccepted /\ FinalizationStands
      /\ SlotsMatchPlan
      /\ receipt \in [Units -> Receipts \cup {None}]
  BY DEF BuildInv, AcceptInv, CheckpointInv, OrderInv, TypeInv, TypeOK
<1>1. /\ bFin \in FinClaims /\ bFin # None /\ finClaim = bFin
      /\ PassedUnits = LayerUnits /\ bFin.inputs = PassedReceipts
      /\ terminal' = bFin
      /\ UNCHANGED <<sel, receipt, basis, archive>>
  BY <1>t, NoneIsNoRecord DEF CompleteLayerFinalization, FinalizationClaimCurrent, BuilderMemory
<1>2. terminal = None
  BY <1>1, <1>t DEF FinalizationStands
<1>3. LayerUnits \subseteq Units
  BY <1>t, LayerType
<1>4. PassedReceipts = receipt
  <2>1. \A u \in Units : u \in PassedUnits <=> status[u] = "passed"
    BY <1>t DEF PassedUnits, SlotsMatchPlan
  <2> QED
    BY <2>1, <1>t DEF PassedReceipts, ReceiptsAreAccepted
<1>5. Closed' = Results
  BY <1>1, <1>4 DEF Closed, Results, Attempts, AttemptOf
<1>6. \A u \in LayerUnits : Results[u] # None
  BY <1>1, <1>3, <1>t, ResultsAre DEF CheckpointOwned, PassedUnits
<1>7. Plan' = Plan /\ Results' = Results /\ Inputs' = Inputs
  BY <1>1 DEF Plan, Results, Inputs, Attempts, AttemptOf
<1> QED
  BY <1>1, <1>2, <1>5, <1>6, <1>7 DEF Build!Close, LayerUnits, Results, Inputs, Closed

\* Every transaction is a step of the incremental build, or gives attempts up.
LEMMA BuildSteps == BuildInv /\ BuildInv' /\ [Next]_vars => [Build!Next]_(Build!vars)
<1> SUFFICES ASSUME BuildInv, BuildInv', [Next]_vars PROVE [Build!Next]_(Build!vars)
  OBVIOUS
<1> USE DEF shotVars, finVars, unitVars, builderVars
<1>t. TypeOK /\ TypeOK' /\ ReceiptsAreAccepted /\ BasisIsFunction /\ BuilderMemory
  BY DEF BuildInv, AcceptInv, CheckpointInv, OrderInv, TypeInv, InputsInv
<1>1. ASSUME Build!GiveUp PROVE [Build!Next]_(Build!vars)
  BY <1>1 DEF Build!Next
<1>2. ASSUME UNCHANGED <<sel, receipt, terminal, basis>>,
             archive' = archive \/ (\E S : ArchiveActive(S))
      PROVE  [Build!Next]_(Build!vars)
  BY <1>1, <1>2, <1>t, HistoryGrows, GivesUp
<1>3. CASE StartBuilder \/ StopBuilder \/ AuthorizeLayer \/ PrepareCompletion \/ Reauthorize
           \/ ClaimLayerFinalization \/ ReleaseLayerFinalization \/ EarlierLayers \/ UNCHANGED vars
           \/ ClaimBuild \/ FreezeCheckpoint \/ Transition
  BY <1>2, <1>3, EarlierLayersStep
  DEF StartBuilder, StopBuilder, AuthorizeLayer, PrepareCompletion, Reauthorize,
      ClaimLayerFinalization, ReleaseLayerFinalization, vars, ClaimBuild, FreezeCheckpoint,
      Transition
<1>4. ASSUME NEW u \in Units, ClaimPlanning(u) PROVE [Build!Next]_(Build!vars)
  <2>1. receipt[u] = None
    BY <1>4, <1>t DEF ClaimPlanning, PLANNING_CLAIMABLE_STATES, ReceiptsAreAccepted
  <2>2. \A x \in Units : receipt[x] # None => basis'[x] = basis[x]
    BY <1>4, <1>t, <2>1 DEF ClaimPlanning, BasisIsFunction
  <2> QED
    BY <1>1, <1>4, <2>2, GivesUp DEF ClaimPlanning
<1>5. CASE FailAttempt \/ BlockDependents
           \/ (\E owners \in SUBSET LayerUnits : RecordFalsification(owners))
           \/ (\E u \in Units : Retry(u))
  BY <1>2, <1>5 DEF FailAttempt, BlockDependents, RecordFalsification, RevokeInto, Retry
<1>6. CASE CompleteAttempt
  <2>1. bClaim.unit \in Units
    BY <1>6, <1>t DEF CompleteAttempt, BuilderMemory, Claims
  <2>2. PICK u \in Units : u = bClaim.unit
    BY <2>1
  <2>3. Build!Accept(u)
    BY <1>6, <1>t, <2>2, AcceptsOnResults
  <2> QED
    BY <2>3 DEF Build!Next
<1>7. CASE CompleteLayerFinalization
  BY <1>7, <1>t, FinalizationCloses DEF Build!Next
<1>8. ASSUME NEW u \in Units, InvalidateCheckpoint(u) PROVE [Build!Next]_(Build!vars)
  BY <1>8, <1>t, InvalidationRevokes DEF Build!Next
<1>9. ASSUME NEW p \in Plans, NEW keepPrefix \in BOOLEAN, PublishAuthority(p, keepPrefix)
      PROVE  [Build!Next]_(Build!vars)
  BY <1>9, <1>t, PublicationReplans DEF Build!Next
<1> QED
  BY <1>3, <1>4, <1>5, <1>6, <1>7, <1>8, <1>9 DEF Next, Builder, Operator, Authority

\* For any plans, units, selections and attempts: the transactions of builder,
\* operator and plan changes on a layer's state file are an incremental build.
THEOREM StateImplementsBuild == Spec => BuildsIncrementally
<1>1. Init => Build!Init
  <2> SUFFICES ASSUME Init PROVE Build!Init
    OBVIOUS
  <2>1. TypeOK
    BY InitTypeInv DEF TypeInv
  <2> QED
    BY <2>1, LayerType DEF Init, Build!Init, Attempts, AttemptOf
<1>2. Spec => []BuildInv
  BY AcceptInvariant, InputsInvariant, LineageInvariant, PTL DEF BuildInv
<1> QED
  BY <1>1, <1>2, BuildSteps, PTL DEF Spec, BuildsIncrementally, Build!Spec

=============================================================================
