------------------------------ MODULE UnitState ------------------------------
(***************************************************************************)
(* The durable work-unit state of one layer (state/work-units/layer_N.json *)
(* in orchestration/unit_state*.py), the builder process that drives it     *)
(* (agents/builder/layer.py), the operator commands that may run beside it *)
(* (application/unit_admin.py, finalization_admin.py) and the authority    *)
(* transition that replaces the plan under it.                             *)
(*                                                                         *)
(* Every mutation of the state file takes the selection lock shared, then  *)
(* the layer's state lock exclusive, and installs the new file with one    *)
(* atomic replace; each is one action here.  An authority transition holds *)
(* the selection lock exclusive; its write-ahead protocol is the subject of*)
(* AuthorityState, here it is one step.  What the builder remembers        *)
(* between two transactions (its claim, its completion authorization, the  *)
(* evaluation it prepared) may be stale by the time it is used.            *)
(*                                                                         *)
(* The layer is finalized on the terminal receipts of all earlier layers.  *)
(* Here those are one value (prior) that changes with every change of one  *)
(* of them; LayerChain has the layers one by one.                          *)
(***************************************************************************)
EXTENDS Naturals, FiniteSets

CONSTANTS
    Units,            \* every work-unit id any plan may use
    Plans,            \* layer capsules: one id per layer capsule digest
    PlanUnits,        \* PlanUnits[p]: the units of the layer under plan p
    Deps,             \* Deps[p][u]: depends_on of u under p
    Digest,           \* Digest[p][u]: the unit's digest under p
    Upstream,         \* Upstream[p]: predecessor_layer_digests of the capsule
    PriorRows,        \* digests of all earlier layers' passed terminal receipts
    None,             \* the absent value (None in Python)
    MaxToken,         \* bound: number of selections ever published
    MaxAttempts,      \* bound: MaxAttempts[u] attempt revisions of unit u
    MaxFinalizations  \* bound: finalization claims of the layer

(***************************************************************************)
(* What validate_unit_dag and the digests guarantee of any published plan: *)
(* dependencies stay inside the layer and are acyclic, and depends_on is   *)
(* part of what a unit digest covers.                                      *)
(***************************************************************************)
ASSUME PlanShape ==
    /\ PlanUnits \in [Plans -> SUBSET Units]
    /\ Deps \in [Plans -> [Units -> SUBSET Units]]
    /\ \A p \in Plans : \A u \in PlanUnits[p] : Deps[p][u] \subseteq PlanUnits[p]

ASSUME DigestCoversDeps ==
    \A p, q \in Plans : \A u \in PlanUnits[p] \cap PlanUnits[q] :
        Digest[p][u] = Digest[q][u] => Deps[p][u] = Deps[q][u]

ASSUME PlanAcyclic ==
    \A p \in Plans : \A S \in SUBSET PlanUnits[p] :
        S # {} => \E u \in S : Deps[p][u] \cap S = {}

ASSUME BoundsAreNaturals ==
    {MaxToken, MaxFinalizations} \subseteq Nat /\ MaxAttempts \in [Units -> Nat]

VARIABLES
    sel,            \* the selected authority: [plan, token]
    status,         \* status[u], "absent" when the layer has no such unit
    active,         \* active[u]: the live attempt claim, or None
    checkpoint,     \* checkpoint[u]: the frozen candidate, or None
    receipt,        \* receipt[u]: the completion receipt, or None
    lineage,        \* lineage[u]: attempt_lineage, the last revision minted
    archive,        \* archive[u]: claims in attempt_history and superseded
    bound,          \* bound[u]: completion receipt the current head adopts
    finClaim,       \* the layer's active finalization claim, or None
    terminal,       \* its terminal finalization receipt, or None
    finRevision,    \* attempt_revision of the finalization slot
    boundTerminal,  \* terminal receipt the current head adopts, or None
    prior,          \* the passed terminal receipts of all earlier layers, or
                    \* None while one of those layers has none
    pc,             \* what the live builder does next; "off": no builder
    bSel,           \* the selection the builder resolved when it started
    bAuth,          \* its AuthorizedUnitCompletionSet: unit -> receipt
    bPassed,        \* its passed_units
    bClaim,         \* the attempt claim it holds
    bEval,          \* the PreparedUnitEvaluationCompletion it holds
    bFin,           \* the finalization claim it holds
    basis           \* history variable: basis[u][d] is the acceptance of the
                    \* dependency d that u's last attempt was claimed on

unitVars == <<status, active, checkpoint, receipt, lineage, archive, basis>>
finVars == <<finClaim, terminal, finRevision>>
shotVars == <<sel, bound, boundTerminal, prior>>
builderVars == <<pc, bSel, bAuth, bPassed, bClaim, bEval, bFin>>
vars == <<unitVars, finVars, shotVars, builderVars>>

-----------------------------------------------------------------------------
(* The lifecycle table and the records the state file holds.               *)

TRANSITIONS ==
    [pending |-> {"planning", "blocked", "superseded"},
     planning |-> {"building", "blocked", "failed", "retryable", "superseded"},
     building |-> {"frozen", "blocked", "failed", "hypothesis_falsified",
                   "retryable", "superseded"},
     frozen |-> {"evaluating", "building", "blocked", "failed", "retryable",
                 "superseded"},
     evaluating |-> {"passed", "repairing", "blocked", "failed",
                     "hypothesis_falsified", "retryable", "superseded"},
     repairing |-> {"building", "frozen", "blocked", "failed",
                    "hypothesis_falsified", "retryable", "superseded"},
     retryable |-> {"planning", "building", "blocked", "failed", "superseded"},
     blocked |-> {"pending", "planning", "superseded"},
     failed |-> {"retryable", "superseded"},
     hypothesis_falsified |-> {"superseded"},
     passed |-> {"superseded"},
     superseded |-> {}]

UNIT_STATES == DOMAIN TRANSITIONS
PLANNING_CLAIMABLE_STATES == {"pending", "blocked", "retryable"}
InFlight == {"planning", "building", "frozen", "evaluating", "repairing"}

Selections == [plan : Plans, token : Nat]
Claims == [unit : Units, rev : Nat, sel : Selections, phase : {"planning", "building"}]
\* A checkpoint is named by the attempt that froze it.
Receipts == [claim : Claims, checkpoint : Claims]

\* rows are its predecessor_inputs.
FinClaims == [rev : Nat, sel : Selections, rows : PriorRows,
              inputs : [Units -> Receipts \cup {None}]]

\* None is none of the records it stands in for.
ASSUME NoneIsNoRecord ==
    /\ None \notin Selections
    /\ None \notin Claims
    /\ None \notin Receipts
    /\ None \notin FinClaims
    /\ None \notin PriorRows

ClaimDigest(c) == Digest[c.sel.plan][c.unit]

Plan == sel.plan
LayerUnits == PlanUnits[Plan]
PassedUnits == {u \in LayerUnits : status[u] = "passed"}
PassedReceipts == [u \in Units |-> IF u \in PassedUnits THEN receipt[u] ELSE None]

\* T contains every dependent of a member of T.
DependentClosed(p, T) ==
    \A d \in PlanUnits[p] : Deps[p][d] \cap T # {} => d \in T

\* The unit and everything that transitively depends on it: the members of
\* every dependent-closed set that holds it.
DependentsOf ==
    [p \in Plans |-> [s \in Units |->
        {u \in PlanUnits[p] : \A T \in SUBSET PlanUnits[p] :
            (s \in T /\ DependentClosed(p, T)) => u \in T}]]

\* Mutant of Downstream: no closure at all.
DownstreamSeedsOnly(p, seeds) == seeds \cap PlanUnits[p]

\* downstream(): the seeds and their transitive dependents.
Downstream(p, seeds) == UNION {DependentsOf[p][s] : s \in seeds \cap PlanUnits[p]}

\* Mutant of ArchiveActive: the slot is cleared, the history row is lost.
ArchiveActiveForgets(S) ==
    /\ UNCHANGED archive
    /\ active' = [u \in Units |-> IF u \in S THEN None ELSE active[u]]

\* archive_active_attempt: the active claims of the units in S join the history.
ArchiveActive(S) ==
    /\ archive' = [u \in Units |->
                     IF u \in S /\ active[u] # None
                     THEN archive[u] \cup {active[u]} ELSE archive[u]]
    /\ active' = [u \in Units |-> IF u \in S THEN None ELSE active[u]]

\* Mutant of ArchiveLayerFinalization: only the claim is revoked.
ArchiveClaimOnly == finClaim' = None /\ UNCHANGED <<terminal, finRevision>>

\* archive_layer_finalization: revoke the claim and retire the terminal receipt.
ArchiveLayerFinalization ==
    /\ finClaim' = None
    /\ terminal' = None
    /\ UNCHANGED finRevision

-----------------------------------------------------------------------------
(* Guards shared by the transactions.                                      *)

\* _selected_state_mutation: the caller's token is still the selected one.
SelectionCurrent == bSel = sel

\* require_current_unit_completion_authorization together with
\* require_completion_authorization_matches_state: same selection, and the
\* passed rows are still exactly the ones that were authorized.
AuthorizationCurrent == SelectionCurrent /\ bAuth = PassedReceipts

\* Mutant of Ready: dependencies are not consulted.
ReadyIgnoringDependencies(u) == u \in LayerUnits /\ u \notin PassedUnits \cap bPassed

\* _require_ready / ready_units: u is not passed and every dependency is
\* passed, authorized and in the caller's passed_units.
Ready(u) ==
    /\ u \in LayerUnits
    /\ u \notin PassedUnits \cap bPassed
    /\ \A d \in Deps[Plan][u] : bAuth[d] # None /\ d \in PassedUnits \cap bPassed

\* require_active_unit_attempt_in_state: the slot holds exactly this claim,
\* and the claim belongs to the current selection, plan and unit digest.
HoldsAttempt(c) ==
    /\ SelectionCurrent
    /\ active[c.unit] = c
    /\ c.sel = sel

\* require_completed_unit_receipt_in_state: a passed row is usable when its
\* receipt names the current unit digest and was minted under the current
\* selection, or is adopted by the current head through unbroken lineage.
Authorizable(u) ==
    LET r == receipt[u] IN
    /\ r # None
    /\ u \in LayerUnits
    /\ ClaimDigest(r.claim) = Digest[Plan][u]
    /\ IF r.claim.sel.token = sel.token
       THEN r.claim.sel.plan = Plan
       ELSE bound[u] = r
    /\ checkpoint[u] = r.checkpoint

\* _require_predecessors_in_state: every earlier layer still has the passed
\* terminal receipt that c was claimed on.
RowsCurrent(c) == c.rows = prior

\* authorized_terminal: the same test for the layer's terminal receipt.
TerminalCloses ==
    /\ terminal.sel.plan = Plan
    /\ terminal.sel = sel \/ boundTerminal = terminal
    /\ \A u \in LayerUnits : receipt[u] # None

-----------------------------------------------------------------------------
(* The builder.  One builder process per shot holds the execution fence;   *)
(* an exception in any transaction, like a crash, ends it (StopBuilder)    *)
(* and leaves the durable state as it is.                                  *)

BuilderOff ==
    /\ pc' = "off"
    /\ bSel' = None
    /\ bAuth' = None
    /\ bPassed' = {}
    /\ bClaim' = None
    /\ bEval' = None
    /\ bFin' = None

\* Take the builder execution fence and resolve the selected authority.
StartBuilder ==
    /\ pc = "off"
    /\ pc' = "start"
    /\ bSel' = sel
    /\ UNCHANGED <<bAuth, bPassed, bClaim, bEval, bFin, unitVars, finVars, shotVars>>

StopBuilder ==
    /\ pc # "off"
    /\ BuilderOff
    /\ UNCHANGED <<unitVars, finVars, shotVars>>

\* authorize_completed_units_for_layer on entry: every passed row must carry
\* an authorizable receipt.  A layer already finalized is only reconciled.
AuthorizeLayer ==
    /\ pc = "start"
    /\ SelectionCurrent
    /\ \A u \in PassedUnits : Authorizable(u)
    /\ IF terminal # None
       THEN BuilderOff
       ELSE /\ pc' = "loop"
            /\ bAuth' = PassedReceipts
            /\ bPassed' = PassedUnits
            /\ UNCHANGED <<bSel, bClaim, bEval, bFin>>
    /\ UNCHANGED <<unitVars, finVars, shotVars>>

\* Mutant of NewClaim: the revision is counted the wrong way.
NewClaimOffByOne(u) ==
    [unit |-> u, rev |-> lineage[u] - 1, sel |-> bSel, phase |-> "planning"]

\* UnitAttemptClaim.mint with _next_attempt_revision.
NewClaim(u) ==
    [unit |-> u, rev |-> lineage[u] + 1, sel |-> bSel, phase |-> "planning"]

\* claim_ready_unit_for_planning for a ready unit that is not in passed_units.
ClaimPlanning(u) ==
    /\ pc = "loop"
    /\ AuthorizationCurrent
    /\ u \notin bPassed
    /\ Ready(u)
    /\ status[u] \in PLANNING_CLAIMABLE_STATES
    /\ active[u] = None
    /\ lineage[u] < MaxAttempts[u]
    /\ active' = [active EXCEPT ![u] = NewClaim(u)]
    /\ lineage' = [lineage EXCEPT ![u] = @ + 1]
    /\ status' = [status EXCEPT ![u] = "planning"]
    /\ basis' = [basis EXCEPT ![u] = [d \in Deps[Plan][u] |-> receipt[d]]]
    /\ bClaim' = NewClaim(u)
    /\ pc' = "planning"
    /\ UNCHANGED <<checkpoint, receipt, archive, bSel, bAuth, bPassed, bEval, bFin,
                   finVars, shotVars>>

\* claim_ready_unit_for_build: promote the exact planning claim.
ClaimBuild ==
    /\ pc = "planning"
    /\ AuthorizationCurrent
    /\ Ready(bClaim.unit)
    /\ status[bClaim.unit] = "planning"
    /\ HoldsAttempt(bClaim)
    /\ bClaim.phase = "planning"
    /\ LET u == bClaim.unit
           promoted == [bClaim EXCEPT !.phase = "building"]
       IN /\ active' = [active EXCEPT ![u] = promoted]
          /\ status' = [status EXCEPT ![u] = "building"]
          /\ bClaim' = promoted
    /\ pc' = "building"
    /\ UNCHANGED <<checkpoint, receipt, lineage, archive, basis, bSel, bAuth,
                   bPassed, bEval, bFin, finVars, shotVars>>

\* freeze_checkpoint after a passing build.
FreezeCheckpoint ==
    /\ pc = "building"
    /\ HoldsAttempt(bClaim)
    /\ status[bClaim.unit] \in {"building", "repairing"}
    /\ status' = [status EXCEPT ![bClaim.unit] = "frozen"]
    /\ checkpoint' = [checkpoint EXCEPT ![bClaim.unit] = bClaim]
    /\ pc' = "frozen"
    /\ UNCHANGED <<active, receipt, lineage, archive, basis, bSel, bAuth, bPassed,
                   bClaim, bEval, bFin, finVars, shotVars>>

\* transition(..., "evaluating"), the only generic transition the builder makes.
Transition ==
    /\ pc = "frozen"
    /\ HoldsAttempt(bClaim)
    /\ "evaluating" \in TRANSITIONS[status[bClaim.unit]]
    /\ status' = [status EXCEPT ![bClaim.unit] = "evaluating"]
    /\ pc' = "evaluating"
    /\ UNCHANGED <<active, checkpoint, receipt, lineage, archive, basis, bSel, bAuth,
                   bPassed, bClaim, bEval, bFin, finVars, shotVars>>

\* First half of complete_unit_attempt: under the shared locks check the
\* attempt and its checkpoint, then read the evaluator's files unlocked.
PrepareCompletion ==
    /\ pc = "evaluating"
    /\ HoldsAttempt(bClaim)
    /\ status[bClaim.unit] = "evaluating"
    /\ checkpoint[bClaim.unit] # None
    /\ bEval' = [claim |-> bClaim, checkpoint |-> checkpoint[bClaim.unit]]
    /\ pc' = "prepared"
    /\ UNCHANGED <<bSel, bAuth, bPassed, bClaim, bFin, unitVars, finVars, shotVars>>

\* Mutant of EvaluationAccepted: what was prepared is not compared again.
EvaluationAcceptedOnce == SelectionCurrent

\* _completion_checkpoint and require_prepared_unit_evaluation_completion: the
\* attempt is still live and evaluating, and the prepared evaluation is of
\* this claim and of the checkpoint that is in the slot now.
EvaluationAccepted ==
    LET u == bClaim.unit IN
    /\ HoldsAttempt(bClaim)
    /\ status[u] = "evaluating"
    /\ checkpoint[u] # None
    /\ ClaimDigest(checkpoint[u]) = Digest[Plan][u]
    /\ bEval = [claim |-> bClaim, checkpoint |-> checkpoint[u]]

\* _complete_unit_attempt: the compare-and-set that accepts the checkpoint.
CompleteAttempt ==
    /\ pc = "prepared"
    /\ EvaluationAccepted
    /\ ArchiveActive({bClaim.unit})
    /\ status' = [status EXCEPT ![bClaim.unit] = "passed"]
    /\ receipt' = [receipt EXCEPT ![bClaim.unit] = bEval]
    /\ bPassed' = bPassed \cup {bClaim.unit}
    /\ pc' = "accepted"
    /\ UNCHANGED <<checkpoint, lineage, basis, bSel, bAuth, bClaim, bEval, bFin,
                   finVars, shotVars>>

\* authorize_completed_units_for_layer after a completion; the builder stops
\* when the unit it just completed is not in the new authorization.
Reauthorize ==
    /\ pc = "accepted"
    /\ SelectionCurrent
    /\ \A u \in PassedUnits : Authorizable(u)
    /\ bClaim.unit \in PassedUnits
    /\ receipt[bClaim.unit] = bEval
    /\ bAuth' = PassedReceipts
    /\ bClaim' = None
    /\ bEval' = None
    /\ pc' = "loop"
    /\ UNCHANGED <<bSel, bPassed, bFin, unitVars, finVars, shotVars>>

\* fail_unit_attempt: the build ended without passing.
FailAttempt ==
    /\ pc = "building"
    /\ HoldsAttempt(bClaim)
    /\ "failed" \in TRANSITIONS[status[bClaim.unit]]
    /\ ArchiveActive({bClaim.unit})
    /\ checkpoint' = [checkpoint EXCEPT ![bClaim.unit] = None]
    /\ status' = [status EXCEPT ![bClaim.unit] = "failed"]
    /\ pc' = "blocking"
    /\ UNCHANGED <<receipt, lineage, basis, bSel, bAuth, bPassed, bClaim, bEval, bFin,
                   finVars, shotVars>>

\* The affected units a finding or a failure moves to blocked.
NotYetBlocked(S) == {d \in S : status[d] \notin {"passed", "blocked"}}
Blockable(S) == \A d \in NotYetBlocked(S) : "blocked" \in TRANSITIONS[status[d]]

\* The attempt and checkpoint of every unit in S revoked, its status replaced.
RevokeInto(S, after) ==
    /\ ArchiveActive(S)
    /\ checkpoint' = [u \in Units |->
                        IF u \in S /\ active[u] # None THEN None ELSE checkpoint[u]]
    /\ status' = [u \in Units |-> IF u \in S THEN after[u] ELSE status[u]]

\* record_hypothesis_falsification: seal the finding, complete the source's
\* attempt and block what depends on the unit or on the fault owners. The
\* finding of a terminal receipt (preserve_accepted_source) is recorded while
\* every unit is passed, moves none, and is left out.
RecordFalsification(owners) ==
    LET u == bClaim.unit
        affected == Downstream(Plan, owners \cup {u}) \ {u}
        moved == NotYetBlocked(affected)
    IN /\ pc = "building"
       /\ HoldsAttempt(bClaim)
       /\ "hypothesis_falsified" \in TRANSITIONS[status[u]]
       /\ Blockable(affected)
       /\ RevokeInto(moved \cup {u},
                     [d \in Units |-> IF d = u THEN "hypothesis_falsified" ELSE "blocked"])
       /\ pc' = "blocking"
       /\ UNCHANGED <<receipt, lineage, basis, bSel, bAuth, bPassed, bClaim, bEval,
                      bFin, finVars, shotVars>>

\* block_dependents: a second transaction, after the failure or the finding.
BlockDependents ==
    LET affected == Downstream(Plan, {bClaim.unit}) \ {bClaim.unit} IN
    /\ pc = "blocking"
    /\ SelectionCurrent
    /\ Blockable(affected)
    /\ RevokeInto(NotYetBlocked(affected), [d \in Units |-> "blocked"])
    /\ BuilderOff
    /\ UNCHANGED <<receipt, lineage, basis, finVars, shotVars>>

\* claim_layer_finalization once every unit is in passed_units.
ClaimLayerFinalization ==
    /\ pc = "loop"
    /\ bPassed = LayerUnits
    /\ SelectionCurrent
    /\ PassedUnits = LayerUnits
    /\ \A u \in LayerUnits : Authorizable(u)
    /\ prior # None
    /\ finClaim = None
    /\ terminal = None
    /\ finRevision < MaxFinalizations
    /\ finRevision' = finRevision + 1
    /\ finClaim' = [rev |-> finRevision + 1, sel |-> sel, rows |-> prior,
                    inputs |-> PassedReceipts]
    /\ bFin' = finClaim'
    /\ pc' = "composing"
    /\ UNCHANGED <<terminal, bSel, bAuth, bPassed, bClaim, bEval, unitVars, shotVars>>

\* require_active_layer_finalization_claim: the exact claim is still active,
\* its plan is current and its unit inputs are exactly the passed receipts.
FinalizationClaimCurrent(c) ==
    /\ finClaim = c
    /\ c.sel = sel
    /\ PassedUnits = LayerUnits
    /\ c.inputs = PassedReceipts

\* complete_layer_finalization after composition and layer evaluation.
CompleteLayerFinalization ==
    /\ pc = "composing"
    /\ SelectionCurrent
    /\ \A u \in LayerUnits : Authorizable(u)
    /\ FinalizationClaimCurrent(bFin)
    /\ RowsCurrent(bFin)
    /\ terminal' = bFin
    /\ finClaim' = None
    /\ BuilderOff
    /\ UNCHANGED <<finRevision, unitVars, shotVars>>

-----------------------------------------------------------------------------
(* The operator.                                                           *)

\* Mutant of InvalidationClosure: dependents already accepted are skipped.
InvalidationSkipsPassed(u) ==
    {u} \cup {d \in Downstream(Plan, {u}) : status[d] # "passed"}

InvalidationClosure(u) == Downstream(Plan, {u})

\* `vfx units invalidate`: allowed beside a live builder, from any status.
InvalidateCheckpoint(u) ==
    LET affected == InvalidationClosure(u) IN
    /\ u \in LayerUnits
    /\ ArchiveActive(affected)
    /\ checkpoint' = [d \in Units |-> IF d \in affected THEN None ELSE checkpoint[d]]
    /\ receipt' = [d \in Units |-> IF d \in affected THEN None ELSE receipt[d]]
    /\ status' = [d \in Units |-> CASE d = u -> "retryable"
                                    [] d \in affected \ {u} -> "blocked"
                                    [] OTHER -> status[d]]
    /\ ArchiveLayerFinalization
    /\ UNCHANGED <<lineage, basis, shotVars, builderVars>>

\* Mutant of RetryAllowed: a failed unit, which has no claim, is refused.
RetryClaimedOnly(u) ==
    u \in LayerUnits /\ status[u] \in InFlight /\ active[u].sel = sel

\* release_unit_attempt / release_unclaimed_unit_for_retry, whichever applies.
RetryAllowed(u) ==
    /\ u \in LayerUnits
    /\ status[u] \in InFlight \cup {"failed"}
    /\ "retryable" \in TRANSITIONS[status[u]]
    /\ active[u] # None => active[u].sel = sel

\* Mutant of Retry: the candidate of the released attempt stays in the slot.
RetryKeepsCheckpoint(u) ==
    /\ pc = "off"
    /\ RetryAllowed(u)
    /\ ArchiveActive({u})
    /\ status' = [status EXCEPT ![u] = "retryable"]
    /\ UNCHANGED <<checkpoint, receipt, lineage, basis, finVars, shotVars, builderVars>>

\* `vfx units retry`: needs the fence, so never beside a live builder.
Retry(u) ==
    /\ pc = "off"
    /\ RetryAllowed(u)
    /\ ArchiveActive({u})
    /\ checkpoint' = [checkpoint EXCEPT ![u] = None]
    /\ status' = [status EXCEPT ![u] = "retryable"]
    /\ UNCHANGED <<receipt, lineage, basis, finVars, shotVars, builderVars>>

\* `vfx finalizations release`: give up the claim a dead builder left behind.
\* It is refused once an earlier layer's receipt is another one.
FinalizationReleasable ==
    /\ finClaim # None
    /\ FinalizationClaimCurrent(finClaim)
    /\ \A u \in LayerUnits : Authorizable(u)
    /\ RowsCurrent(finClaim)
    /\ terminal = None

ReleaseLayerFinalization ==
    /\ pc = "off"
    /\ FinalizationReleasable
    /\ finClaim' = None
    /\ UNCHANGED <<terminal, finRevision, unitVars, shotVars, builderVars>>

-----------------------------------------------------------------------------
(* An authority transition that selects plan p.                            *)

\* _completion_digest: what is compared of the completion receipts.
ReceiptsCompile ==
    \A u \in LayerUnits :
        receipt[u] # None =>
           /\ status[u] = "passed"
           /\ ClaimDigest(receipt[u].claim) = Digest[Plan][u]
           /\ receipt[u].claim.sel = sel \/ bound[u] = receipt[u]

\* The effects compiler does not refuse this layer: its receipts, and its
\* terminal receipt with the rows of the earlier layers, are current.
TransitionCompiles ==
    /\ ReceiptsCompile
    /\ terminal # None => TerminalCloses /\ RowsCurrent(terminal)

\* Mutant of InvalidationSeeds: a unit whose digest changed is not a seed.
SeedsIgnoringDigests(p) ==
    (PlanUnits[Plan] \ PlanUnits[p]) \cup (PlanUnits[p] \ PlanUnits[Plan])

\* compile_authority_state_effects: changed, added or removed units and, when
\* an upstream layer changed, every unit.
InvalidationSeeds(p) ==
    LET before == PlanUnits[Plan]
        after == PlanUnits[p]
    IN IF Upstream[p] # Upstream[Plan]
       THEN before \cup after
       ELSE (before \ after) \cup (after \ before)
            \cup {u \in before \cap after : Digest[p][u] # Digest[Plan][u]}

Preserved(p) ==
    (PlanUnits[Plan] \cap PlanUnits[p]) \ Downstream(p, InvalidationSeeds(p))

\* Mutant of RevokedAttempts: attempts on preserved units are adopted.
RevokedUnlessPreserved(p) == LayerUnits \ Preserved(p)

\* _after_state revokes every active attempt, of preserved units too.
RevokedAttempts(p) == LayerUnits

\* The completion binding of u in the new head: that of the immediate
\* predecessor when u is preserved, none otherwise.
AdoptedReceipt(p, u) == IF u \in Preserved(p) THEN receipt[u] ELSE None

\* preserve_finalization: the layer capsule is unchanged and (keepPrefix) the
\* terminal receipts of the earlier layers it was composed on survive too.
\* Those of an upstream layer that changed do not.
TerminalPreserved(p, keepPrefix) == p = Plan /\ terminal # None /\ keepPrefix

\* The transition as _after_state and the published head leave it.
PublishAuthority(p, keepPrefix) ==
    LET kept == Preserved(p)
        revoked == RevokedAttempts(p)
    IN /\ sel.token < MaxToken
       /\ keepPrefix => Upstream[p] = Upstream[Plan]
       /\ TransitionCompiles
       /\ sel' = [plan |-> p, token |-> sel.token + 1]
       /\ ArchiveActive(revoked)
       /\ checkpoint' = [u \in Units |->
                            IF u \in kept /\ ~(u \in revoked /\ active[u] # None)
                            THEN checkpoint[u] ELSE None]
       /\ receipt' = [u \in Units |-> IF u \in kept THEN receipt[u] ELSE None]
       /\ status' = [u \in Units |->
                        CASE u \notin PlanUnits[p] -> "absent"
                          [] u \in PlanUnits[p] \ kept -> "pending"
                          [] u \in kept -> IF u \in revoked /\ active[u] # None
                                         THEN "retryable" ELSE status[u]]
       /\ bound' = [u \in Units |-> AdoptedReceipt(p, u)]
       /\ IF finClaim # None \/ ~TerminalPreserved(p, keepPrefix)
          THEN ArchiveLayerFinalization /\ boundTerminal' = None
          ELSE UNCHANGED finVars /\ boundTerminal' = terminal
       /\ prior' = IF keepPrefix THEN prior ELSE None
       /\ UNCHANGED <<lineage, basis, builderVars>>

-----------------------------------------------------------------------------
(* The earlier layers.                                                     *)

\* An operator invalidates a unit of an earlier layer, with or without a
\* builder at work, and the terminal receipt of that layer goes.
EarlierLayerInvalidated ==
    /\ prior # None
    /\ prior' = None
    /\ UNCHANGED <<sel, bound, boundTerminal, unitVars, finVars, builderVars>>

\* Digests that none of this layer's records names: no receipt is minted twice.
FreshRows ==
    {rows \in PriorRows :
        \A c \in {finClaim, terminal, boundTerminal, bFin} \ {None} : c.rows # rows}

\* The earlier layers that have no terminal receipt are finalized, by the one
\* builder of the shot.
EarlierLayersFinalized ==
    /\ pc = "off"
    /\ prior = None
    /\ prior' \in FreshRows
    /\ UNCHANGED <<sel, bound, boundTerminal, unitVars, finVars, builderVars>>

-----------------------------------------------------------------------------
Init ==
    /\ \E p \in Plans : sel = [plan |-> p, token |-> 1]
    /\ status = [u \in Units |-> IF u \in LayerUnits THEN "pending" ELSE "absent"]
    /\ active = [u \in Units |-> None]
    /\ checkpoint = [u \in Units |-> None]
    /\ receipt = [u \in Units |-> None]
    /\ lineage = [u \in Units |-> 0]
    /\ archive = [u \in Units |-> {}]
    /\ bound = [u \in Units |-> None]
    /\ finClaim = None
    /\ terminal = None
    /\ finRevision = 0
    /\ boundTerminal = None
    /\ prior \in PriorRows \cup {None}
    /\ pc = "off"
    /\ bSel = None
    /\ bAuth = None
    /\ bPassed = {}
    /\ bClaim = None
    /\ bEval = None
    /\ bFin = None
    /\ basis = [u \in Units |-> None]

Builder ==
    \/ StartBuilder
    \/ StopBuilder
    \/ AuthorizeLayer
    \/ \E u \in Units : ClaimPlanning(u)
    \/ ClaimBuild
    \/ FreezeCheckpoint
    \/ Transition
    \/ PrepareCompletion
    \/ CompleteAttempt
    \/ Reauthorize
    \/ FailAttempt
    \/ \E owners \in SUBSET LayerUnits : RecordFalsification(owners)
    \/ BlockDependents
    \/ ClaimLayerFinalization
    \/ CompleteLayerFinalization

Operator ==
    \/ \E u \in Units : InvalidateCheckpoint(u)
    \/ \E u \in Units : Retry(u)
    \/ ReleaseLayerFinalization

Authority == \E p \in Plans, keepPrefix \in BOOLEAN : PublishAuthority(p, keepPrefix)

EarlierLayers == EarlierLayerInvalidated \/ EarlierLayersFinalized

Next == Builder \/ Operator \/ Authority \/ EarlierLayers

Spec == Init /\ [][Next]_vars

-----------------------------------------------------------------------------
(* Properties.                                                             *)

\* Type invariant of the state file, the head and the builder's memory.
TypeOK ==
    /\ sel \in Selections
    /\ status \in [Units -> UNIT_STATES \cup {"absent"}]
    /\ active \in [Units -> Claims \cup {None}]
    /\ checkpoint \in [Units -> Claims \cup {None}]
    /\ receipt \in [Units -> Receipts \cup {None}]
    /\ lineage \in [Units -> Nat]
    /\ archive \in [Units -> SUBSET Claims]
    /\ bound \in [Units -> Receipts \cup {None}]
    /\ finClaim \in FinClaims \cup {None}
    /\ terminal \in FinClaims \cup {None}
    /\ finRevision \in Nat
    /\ boundTerminal \in FinClaims \cup {None}
    /\ prior \in PriorRows \cup {None}
    /\ pc \in {"off", "start", "loop", "planning", "building", "frozen", "evaluating",
               "prepared", "accepted", "blocking", "composing"}
    /\ bSel \in Selections \cup {None}
    /\ bAuth \in [Units -> Receipts \cup {None}] \cup {None}
    /\ bPassed \subseteq Units
    /\ bClaim \in Claims \cup {None}
    /\ bEval \in Receipts \cup {None}
    /\ bFin \in FinClaims \cup {None}

\* A unit that is being attempted, that failed, was falsified or is accepted
\* has every dependency accepted: while a dependency is not `passed`, the
\* unit waits in a state it can be claimed from later.  Claims, failures, invalidations,
\* findings and plan changes by different actors must all respect this.
DependencyClosed ==
    \A u \in LayerUnits : \A d \in Deps[Plan][u] :
        status[d] # "passed" => status[u] \in PLANNING_CLAIMABLE_STATES

\* An accepted unit, and an attempt in flight, was claimed on exactly the
\* acceptances its dependencies hold now: no dependency was re-accepted
\* underneath it (invalidate_checkpoint, _after_state).
AcceptedOnCurrentInputs ==
    \A u \in LayerUnits :
        (status[u] = "passed" \/ active[u] # None) =>
            basis[u] = [d \in Deps[Plan][u] |-> receipt[d]]

\* validate_state_attempt_contracts: active and archived claims of a unit are
\* exactly the revisions 1..lineage, each held by one claim, and an active
\* claim is the lineage head, across revocations, retries and retired plans.
LineageExact ==
    \A u \in Units :
        LET live == IF active[u] = None THEN {} ELSE {active[u]}
            claims == archive[u] \cup live
        IN /\ {c.rev : c \in claims} = 1 .. lineage[u]
           /\ \A c, e \in claims : c.rev = e.rev => c = e
           /\ \A c \in live : c.rev = lineage[u] /\ c.unit = u

\* A unit is in flight exactly while it has an active attempt, minted under
\* the current selection and in the phase its status says: a change of
\* selection never leaves an attempt behind that could still publish.
AttemptIsCurrent ==
    \A u \in Units :
        /\ active[u] # None <=> status[u] \in InFlight
        /\ active[u] # None =>
              /\ active[u].sel = sel
              /\ active[u].phase = IF status[u] = "planning" THEN "planning" ELSE "building"

\* A checkpoint in the executable state was frozen by the unit's own active
\* attempt, or by the attempt whose receipt accepted it; everything else was
\* archived.  A later attempt can never complete an earlier one's candidate.
CheckpointOwned ==
    \A u \in Units :
        /\ status[u] \in {"frozen", "evaluating"} => checkpoint[u] = active[u]
        /\ status[u] = "passed" => /\ receipt[u] # None
                                   /\ checkpoint[u] = receipt[u].checkpoint
                                   /\ receipt[u].claim = checkpoint[u]
        /\ status[u] \notin {"frozen", "evaluating", "passed"} =>
              checkpoint[u] = None /\ receipt[u] = None

\* Every accepted unit stays authorizable across any sequence of plan changes:
\* a builder can always re-enter the layer (authorize_completed_units_for_layer
\* raises on a single passed row without current or adopted receipt), and the
\* receipts of this layer never refuse a later transition (_completion_digest,
\* _effective_before_bindings). Only a change of an earlier layer's receipt
\* under the terminal receipt does, until this layer is invalidated too.
AcceptanceAuthorizable ==
    /\ \A u \in PassedUnits : Authorizable(u)
    /\ ReceiptsCompile
    /\ terminal = None \/ RowsCurrent(terminal) => TransitionCompiles

\* A finalization, claimed or terminal, covers exactly the acceptances the
\* layer holds now: no unit was revoked or re-accepted underneath it.
FinalizationCoversAcceptance ==
    \A c \in {finClaim, terminal} \ {None} :
        PassedUnits = LayerUnits /\ c.inputs = PassedReceipts

\* Nothing the builder leaves behind is stuck: with no builder, every unit is
\* accepted, claimable, reviewable by `vfx units retry` or waits for a plan
\* change after a finding, and a left finalization claim can be released, unless
\* an earlier layer's receipt changed since it was made: then the release is
\* refused and an invalidation or a plan change takes the claim away.
NothingWedged ==
    pc = "off" =>
        /\ \A u \in LayerUnits :
              \/ status[u] \in PLANNING_CLAIMABLE_STATES \cup {"passed", "hypothesis_falsified"}
              \/ RetryAllowed(u)
        /\ finClaim # None /\ RowsCurrent(finClaim) => FinalizationReleasable

\* block_dependents cannot raise "cannot block dependent": when it runs no
\* dependent of the failed unit is accepted, failed or falsified.
BlockDependentsLegal ==
    pc = "blocking" /\ SelectionCurrent =>
        \A d \in Downstream(Plan, {bClaim.unit}) \ {bClaim.unit} :
            status[d] # "passed" /\ Blockable({d})

\* A completion receipt only ever appears because its own active attempt
\* completed in that step: a proof retired by a plan change or a revocation is
\* never revived, whatever plans come and go (A to B to A).
NoRevival ==
    [][\A u \in Units :
          receipt'[u] \notin {receipt[u], None} =>
              /\ receipt'[u].claim = active[u]
              /\ active[u].sel = sel /\ sel' = sel]_vars

AttemptOf(r) == IF r = None THEN None ELSE r.claim
Attempts(f) == [u \in DOMAIN f |-> AttemptOf(f[u])]

Build == INSTANCE IncrementalBuild
    WITH plan <- Plan,
         result <- Attempts(receipt),
         inputs <- [u \in Units |-> IF receipt[u] = None THEN None ELSE Attempts(basis[u])],
         spent <- archive,
         closed <- IF terminal = None THEN None ELSE Attempts(terminal.inputs)

\* The state file implements an incremental build: although an attempt reads
\* its dependencies when it is claimed and is accepted hours later, after
\* failures, findings, invalidations and plan changes by others, it is as if it
\* had been built and accepted in one step on the results in place then; and
\* whatever is taken back takes with it all that was built on it.
BuildsIncrementally == Build!Spec

\* `hypothesis_falsified` "has exactly one legal successor, `superseded`"
\* (unresolved_falsification): only a new selection moves a falsified unit.
FalsifiedWaitsForAuthority ==
    [][\A u \in Units : status[u] = "hypothesis_falsified" =>
          status'[u] = "hypothesis_falsified" \/ sel' # sel]_vars
=============================================================================
