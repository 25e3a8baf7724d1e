------------------------------ MODULE LayerChain ------------------------------
(***************************************************************************)
(* The chain of layer finalizations of a shot. The selected layers form a  *)
(* sequence; a layer is finalized on top of the terminal receipts of ALL   *)
(* earlier ones, its predecessor rows. UnitState models the work units of  *)
(* one layer; here a layer's units are accepted as a whole and the subject *)
(* is what the layers' receipts say about each other.                      *)
(*                                                                         *)
(* One builder runs at a time (the builder execution fence). Operators     *)
(* invalidate layers without that fence, authority publications move the   *)
(* selection under it, and builders die or lose their claim at any step.   *)
(* A receipt's digest is the attempt_revision that produced it, which no   *)
(* later attempt of the layer reuses.                                      *)
(***************************************************************************)
EXTENDS Integers, Sequences, FiniteSets

CONSTANTS
    N,            \* number of selected layers, in replay order
    Descendants,  \* Descendants[l]: layers whose capsule digest includes l's
    None,
    MaxFaults     \* bound: deaths, failed verdicts, invalidations, publications

Layers == 1 .. N

ASSUME LayerCount == N \in Nat \ {0}
ASSUME DescendantsFollow ==
    /\ Descendants \in [Layers -> SUBSET Layers]
    /\ \A l \in Layers : \A d \in Descendants[l] : d > l /\ Descendants[d] \subseteq Descendants[l]
ASSUME FaultBound == MaxFaults \in Nat

VARIABLES
    token,      \* the selection token
    accepted,   \* accepted[l]: every unit of l has a current completion receipt
    claim,      \* claim[l]: the active finalization claim, or None
    receipt,    \* receipt[l]: the terminal finalization receipt, or None
    attempts,   \* attempts[l]: attempt_revision
    adopted,    \* adopted[l]: the receipt the current head adopts, or 0
    outcome,    \* outcome[l], ledger[l]: the receipt each projection carries, or 0
    ledger,
    builder,    \* the memory of the builder that holds the fence, or None
    faults

vars == <<token, accepted, claim, receipt, attempts, adopted, outcome, ledger, builder, faults>>

-----------------------------------------------------------------------------

Claims == [attempt : Nat, prefix : Seq(Nat), token : Nat]
Receipts == [attempt : Nat, prefix : Seq(Nat), token : Nat, status : {"passed", "failed"}]
Steps == {"replay", "accept", "capture", "recapture", "outcome", "ledger"}
Builders == [at : Steps, layer : Layers, token : Nat, prior : Seq(Nat), rows : Seq(Nat), attempt : Nat]

ASSUME NoneIsNoRecord == None \notin Claims /\ None \notin Receipts /\ None \notin Builders

TypeOK ==
    /\ token \in Nat
    /\ accepted \in [Layers -> BOOLEAN]
    /\ claim \in [Layers -> Claims \cup {None}]
    /\ receipt \in [Layers -> Receipts \cup {None}]
    /\ \A l \in Layers : /\ receipt[l] # None => accepted[l] /\ Len(receipt[l].prefix) = l - 1
                         /\ claim[l] # None => /\ accepted[l] /\ receipt[l] = None
                                               /\ Len(claim[l].prefix) = l - 1
                                               /\ claim[l].token = token
    /\ attempts \in [Layers -> Nat] /\ adopted \in [Layers -> Nat]
    /\ outcome \in [Layers -> Nat] /\ ledger \in [Layers -> Nat]
    /\ builder \in Builders \cup {None}
    /\ faults \in 0 .. MaxFaults

Init ==
    /\ token = 1
    /\ accepted = [l \in Layers |-> FALSE]
    /\ claim = [l \in Layers |-> None] /\ receipt = [l \in Layers |-> None]
    /\ attempts = [l \in Layers |-> 0] /\ adopted = [l \in Layers |-> 0]
    /\ outcome = [l \in Layers |-> 0] /\ ledger = [l \in Layers |-> 0]
    /\ builder = None
    /\ faults = 0

Fault == faults < MaxFaults /\ faults' = faults + 1

-----------------------------------------------------------------------------
(* What the verifiers read.                                                *)

Row(l) == IF receipt[l] = None THEN 0 ELSE receipt[l].attempt
Rows(l) == [j \in 1 .. l - 1 |-> Row(j)]

\* _require_predecessors_in_state: each row is the passed receipt of its layer.
\* It does not ask what those receipts were finalized on.
PredecessorsInState(prefix, l) ==
    /\ prefix = Rows(l)
    /\ \A j \in 1 .. l - 1 : receipt[j] # None /\ receipt[j].status = "passed"

Authorized(l) == receipt[l].token = token \/ adopted[l] = receipt[l].attempt

\* Mutant of Published: a passed receipt with its projections is enough.
PublishedUnchained(l) ==
    \A j \in 1 .. l :
        /\ receipt[j] # None
        /\ receipt[j].status = "passed" /\ Authorized(j) /\ accepted[j]
        /\ outcome[j] = receipt[j].attempt /\ ledger[j] = receipt[j].attempt

\* require_current_layer_publication: the whole prefix up to l is finalized,
\* each receipt on exactly the ones before it, and projected. The prefix is
\* verified again under the locks of all its layers, so in one step.
Published(l) ==
    \A j \in 1 .. l :
        /\ receipt[j] # None
        /\ receipt[j].status = "passed"
        /\ receipt[j].prefix = Rows(j)
        /\ Authorized(j)
        /\ accepted[j]
        /\ outcome[j] = receipt[j].attempt /\ ledger[j] = receipt[j].attempt

\* terminal_layer_finalization_guard for the builder's receipt.
TerminalCurrent(b) ==
    /\ b.token = token
    /\ receipt[b.layer] # None /\ receipt[b.layer].attempt = b.attempt
    /\ Authorized(b.layer) /\ accepted[b.layer]
    /\ PredecessorsInState(receipt[b.layer].prefix, b.layer)

-----------------------------------------------------------------------------
(* The builder.                                                            *)

\* builder_execution_fence, which a return, an exception and a death give back.
FenceFree == builder = None

Stop == builder' = None

\* Mutant of Start: only the ledger is reconciled, as if the outcome of a
\* terminal receipt had always been published.
StartAtLedger(l, kept) ==
    /\ FenceFree
    /\ builder' = [at |-> IF receipt[l] # None THEN "ledger"
                          ELSE IF accepted[l] THEN "capture" ELSE "replay",
                   layer |-> l, token |-> token, prior |-> Rows(kept + 1), rows |-> <<>>,
                   attempt |-> Row(l)]
    /\ UNCHANGED <<token, accepted, claim, receipt, attempts, adopted, outcome, ledger, faults>>

\* The publications among the earlier layers: `kept` of them, all of them
\* unless the builder was started with --force. A layer that has a terminal
\* receipt is only reconciled, one whose units are accepted only finalized.
Start(l, kept) ==
    /\ FenceFree
    /\ builder' = [at |-> IF receipt[l] # None THEN "outcome"
                          ELSE IF accepted[l] THEN "capture" ELSE "replay",
                   layer |-> l, token |-> token, prior |-> Rows(kept + 1), rows |-> <<>>,
                   attempt |-> Row(l)]
    /\ UNCHANGED <<token, accepted, claim, receipt, attempts, adopted, outcome, ledger, faults>>

Enter(l) == Published(l - 1) /\ Start(l, l - 1)

EnterForced(l) ==
    /\ ~Published(l - 1)
    /\ \E kept \in 0 .. l - 2 : Published(kept) /\ ~Published(kept + 1) /\ Start(l, kept)

At(step) == builder # None /\ builder.at = step

Goto(step) == builder' = [builder EXCEPT !.at = step]

\* require_current around the replay of the priors it kept.
Replay ==
    /\ At("replay")
    /\ LET kept == Len(builder.prior)
       IN  IF Published(kept) /\ Rows(kept + 1) = builder.prior /\ builder.token = token
           THEN Goto("accept") ELSE Stop
    /\ UNCHANGED <<token, accepted, claim, receipt, attempts, adopted, outcome, ledger, faults>>

\* The unit loop, as one step: the last unit of the layer is accepted.
AcceptUnits ==
    /\ At("accept")
    /\ IF builder.token = token
       THEN accepted' = [accepted EXCEPT ![builder.layer] = TRUE] /\ Goto("capture")
       ELSE Stop /\ UNCHANGED accepted
    /\ UNCHANGED <<token, claim, receipt, attempts, adopted, outcome, ledger, faults>>

Captured == Len(builder.rows) = builder.layer - 1

\* _finalization_predecessor_inputs, before the claim and again before the
\* commit: one predecessor at a time, each with its own verification.
Capture ==
    /\ At("capture") \/ At("recapture")
    /\ ~Captured
    /\ LET j == Len(builder.rows) + 1
       IN  IF Published(j) /\ builder.token = token
           THEN builder' = [builder EXCEPT !.rows = Append(@, Row(j))] ELSE Stop
    /\ UNCHANGED <<token, accepted, claim, receipt, attempts, adopted, outcome, ledger, faults>>

ClaimLayerFinalization ==
    /\ At("capture") /\ Captured
    /\ LET l == builder.layer
           attempt == attempts[l] + 1
       IN  IF /\ builder.token = token
              /\ accepted[l]
              /\ PredecessorsInState(builder.rows, l)
              /\ claim[l] = None /\ receipt[l] = None
           THEN /\ claim' = [claim EXCEPT ![l] = [attempt |-> attempt, prefix |-> builder.rows,
                                                  token |-> token]]
                /\ attempts' = [attempts EXCEPT ![l] = attempt]
                /\ builder' = [builder EXCEPT !.at = "recapture", !.rows = <<>>, !.attempt = attempt]
           ELSE Stop /\ UNCHANGED <<claim, attempts>>
    /\ UNCHANGED <<token, accepted, receipt, adopted, outcome, ledger, faults>>

\* complete_layer_finalization, with a passed or a failed verdict. A refusal
\* leaves the claim active: only an operator or a publication removes it.
CompleteLayerFinalization ==
    /\ At("recapture") /\ Captured
    /\ LET l == builder.layer
       IN  IF /\ builder.token = token
              /\ accepted[l]
              /\ claim[l] # None /\ claim[l].attempt = builder.attempt
              /\ builder.rows = claim[l].prefix
              /\ PredecessorsInState(builder.rows, l)
           THEN /\ \E status \in {"passed", "failed"} :
                      /\ IF status = "failed" THEN Fault ELSE UNCHANGED faults
                      /\ receipt' = [receipt EXCEPT ![l] =
                            [attempt |-> builder.attempt, prefix |-> builder.rows,
                             token |-> token, status |-> status]]
                /\ claim' = [claim EXCEPT ![l] = None]
                /\ Goto("outcome")
           ELSE Stop /\ UNCHANGED <<claim, receipt, faults>>
    /\ UNCHANGED <<token, accepted, attempts, adopted, outcome, ledger>>

\* reconcile_layer_finalization: the projections are reproduced from the
\* terminal receipt, under its guard, after the commit and on every later entry.
PublishOutcome ==
    /\ At("outcome")
    /\ IF TerminalCurrent(builder)
       THEN outcome' = [outcome EXCEPT ![builder.layer] = builder.attempt] /\ Goto("ledger")
       ELSE Stop /\ UNCHANGED outcome
    /\ UNCHANGED <<token, accepted, claim, receipt, attempts, adopted, ledger, faults>>

PublishLedger ==
    /\ At("ledger")
    /\ IF TerminalCurrent(builder)
       THEN ledger' = [ledger EXCEPT ![builder.layer] = builder.attempt]
       ELSE UNCHANGED ledger
    /\ Stop
    /\ UNCHANGED <<token, accepted, claim, receipt, attempts, adopted, outcome, faults>>

BuilderStep ==
    \/ Replay \/ AcceptUnits \/ Capture \/ ClaimLayerFinalization
    \/ CompleteLayerFinalization \/ PublishOutcome \/ PublishLedger

\* The builder dies; the fence goes with it and its claim stays.
Crash ==
    /\ builder # None
    /\ Fault
    /\ Stop
    /\ UNCHANGED <<token, accepted, claim, receipt, attempts, adopted, outcome, ledger>>

-----------------------------------------------------------------------------
(* Operators and publishers.                                               *)

ArchiveLayerFinalization(l) ==
    /\ claim' = [claim EXCEPT ![l] = None]
    /\ receipt' = [receipt EXCEPT ![l] = None]

\* invalidate_checkpoint of a unit of l, which takes neither the fence nor the
\* later layers' states.
InvalidateLayer(l) ==
    /\ accepted' = [accepted EXCEPT ![l] = FALSE]
    /\ ArchiveLayerFinalization(l)
    /\ UNCHANGED <<token, attempts, adopted, outcome, ledger, builder>>

Invalidate(l) == accepted[l] /\ Fault /\ InvalidateLayer(l)

\* A layer that only an invalidation gets out of: its verdict failed, or it
\* stands on rows that are gone, for which a claim can not be released.
Stuck(l) ==
    \/ receipt[l] # None /\ (receipt[l].status = "failed" \/ receipt[l].prefix # Rows(l))
    \/ claim[l] # None /\ claim[l].prefix # Rows(l)

InvalidateStuck(l) ==
    /\ accepted[l] /\ Stuck(l)
    /\ builder # None => builder.layer # l
    /\ InvalidateLayer(l)
    /\ UNCHANGED faults

\* release_layer_finalization_claim, under the fence.
ReleaseLayerFinalization(l) ==
    /\ FenceFree
    /\ claim[l] # None /\ claim[l].token = token
    /\ accepted[l] /\ receipt[l] = None
    /\ PredecessorsInState(claim[l].prefix, l)
    /\ claim' = [claim EXCEPT ![l] = None]
    /\ UNCHANGED <<token, accepted, receipt, attempts, adopted, outcome, ledger, builder, faults>>

\* _effective_before_bindings: one stale terminal receipt refuses the transition.
Comparable ==
    \A l \in Layers : receipt[l] # None =>
        receipt[l].prefix = Rows(l) /\ Authorized(l) /\ accepted[l]

Affected(changed) == changed \cup UNION {Descendants[l] : l \in changed}

\* Mutant of Projected: an unchanged layer keeps its receipt.
ProjectedUnchained(affected) ==
    [l \in Layers |-> IF l \notin affected THEN Row(l) ELSE 0]

\* The receipts a transition keeps: of an unchanged layer, if every receipt it
\* was finalized on is kept too.
Projected(affected) ==
    LET kept[l \in Layers] ==
          IF /\ l \notin affected /\ receipt[l] # None
             /\ receipt[l].prefix = [j \in 1 .. l - 1 |-> kept[j]]
          THEN receipt[l].attempt ELSE 0
    IN  kept

\* compile_authority_state_effects: claims are revoked, the units of changed
\* layers' descendants lost, and of changed layers' own units as many as changed.
PublishAuthority(changed, rebuilt) ==
    LET affected == Affected(changed)
        kept == Projected(affected)
    IN  /\ Comparable
        /\ Fault
        /\ token' = token + 1
        /\ accepted' = [l \in Layers |-> accepted[l] /\ l \notin (affected \ changed) \cup rebuilt]
        /\ claim' = [l \in Layers |-> None]
        /\ receipt' = [l \in Layers |-> IF kept[l] = 0 THEN None ELSE receipt[l]]
        /\ adopted' = kept
        /\ UNCHANGED <<attempts, outcome, ledger, builder>>

Next ==
    \/ BuilderStep \/ Crash
    \/ \E l \in Layers :
          \/ Enter(l) \/ EnterForced(l)
          \/ Invalidate(l) \/ InvalidateStuck(l) \/ ReleaseLayerFinalization(l)
    \/ \E changed \in SUBSET Layers : \E rebuilt \in SUBSET changed : PublishAuthority(changed, rebuilt)

\* A builder runs on until it returns or dies, the first layer that is not
\* published is built again, and the operator clears what is stuck. The fence
\* passes between them, so what waits for it is strongly fair.
Fairness ==
    /\ WF_vars(BuilderStep)
    /\ SF_vars(\E l \in Layers : Enter(l) /\ ~Published(l))
    /\ SF_vars(\E l \in Layers : InvalidateStuck(l))
    /\ SF_vars(\E l \in Layers : ReleaseLayerFinalization(l))

Spec == Init /\ [][Next]_vars /\ Fairness

-----------------------------------------------------------------------------
(* Properties.                                                             *)

\* What a claim, a commit, a reconciliation and a transition check of a
\* layer's predecessor rows, that they are the current receipts, is as good as
\* verifying the whole chain: those receipts stand on one another.
RowsStandOnEachOther ==
    \A l \in Layers :
        /\ receipt[l] # None /\ receipt[l].prefix = Rows(l)
             => \A j \in 1 .. l - 1 : receipt[j].prefix = SubSeq(receipt[l].prefix, 1, j - 1)
        /\ claim[l] # None /\ claim[l].prefix = Rows(l)
             => \A j \in 1 .. l - 1 : receipt[j].prefix = SubSeq(claim[l].prefix, 1, j - 1)

\* A transition never carries over a receipt that would refuse the next one:
\* each receipt it keeps is authorized, complete and stands on kept receipts.
TransitionLeavesComparable == [][token' # token => Comparable']_vars

\* No sequence of deaths, failed verdicts, invalidations, forced builds and
\* publications wedges the shot: the whole chain is published in the end.
ChainCompletes == <>[]Published(N)

=============================================================================
