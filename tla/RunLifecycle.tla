----------------------------- MODULE RunLifecycle -----------------------------
(***************************************************************************)
(* One run directory of a shot: who owns it, how it gets its one terminal  *)
(* status, and how a run whose owner is gone is closed by another process  *)
(* (observability/run_owner_fence.py and run_owner_fork_guard.py,          *)
(* orchestration/run_owner_boundary.py, run_terminalizer.py and            *)
(* run_owner_loss_reconciler.py, application/run_shot.py).                 *)
(*                                                                         *)
(* Every durable write is one action and the writing process may die or    *)
(* fail before any of them. The fence is an advisory lock on an open file  *)
(* description: a death releases it, unless a forked child still holds the *)
(* description. A record is represented by the process that wrote it: every*)
(* process writes each record at most once, and two processes never write  *)
(* the same bytes (run ids, owner ids and timestamps differ).              *)
(***************************************************************************)
EXTENDS Naturals, FiniteSets

CONSTANTS
    Owners,               \* processes started with this run's id
    Driver,               \* those that are `vfx run`; the rest are direct commands
    Reconcilers,          \* `vfx reconcile` processes, each its own run
    None,                 \* the absent file or holder
    MaxOwnerFaults,       \* bound: deaths and failed writes of owners
    MaxReconcilerFaults   \* bound: deaths and failed writes of reconcilers

ASSUME OwnersAndReconcilers ==
    /\ Driver \subseteq Owners
    /\ Owners \cap Reconcilers = {}
    /\ None \notin Owners \cup Reconcilers

ASSUME FaultBounds == {MaxOwnerFaults, MaxReconcilerFaults} \subseteq Nat

VARIABLES
    manifest,      \* manifest.json of the run: the owner process that wrote it
    claim,         \* owner/claim.json: [by, manifest]
    fence,         \* holder of the lock on the owner fence
    pinned,        \* owners with a forked child that has not closed the fence
    status,        \* status.json: [state, record, evaluation]
    latest,        \* state of this run in runs/latest.json
    envelope,      \* reports/stop-envelope.json
    summary,       \* reports/summary.json: [state, record]
    source,        \* interruption sources: observation, frontiers, archive
    archivedBy,    \* reports/reconciler-manifest.json, create-only
    loss,          \* the owner-loss observation
    receipt,       \* the interruption receipt
    evaluation,    \* the receipt's evaluation: [receipt, by]
    pc,            \* next step of every process
    signalled,     \* owners whose first SIGINT or SIGTERM was recorded
    ownerFaults, reconcilerFaults

recordVars == <<envelope, summary, source, archivedBy, loss, receipt, evaluation>>
ownerVars == <<manifest, claim, fence, pinned>>
faultVars == <<signalled, ownerFaults, reconcilerFaults>>
vars == <<ownerVars, status, latest, recordVars, pc, faultVars>>

-----------------------------------------------------------------------------
(* Values.                                                                 *)

Procs == Owners \cup Reconcilers
Sources == {"observation", "frontiers", "archive"}
Envelopes == {"stage", "own", "fallback"}
Terminal == {"passed", "failed", "interrupted"}

Claims == [by : Owners, manifest : Owners]
Receipts == Procs        \* an interruption receipt, by the process that minted it
Losses == Reconcilers    \* an owner-loss observation, by its reconciler
Evaluations == [receipt : Receipts, by : Procs]
Summaries == [state : Terminal, record : Procs \cup {None}]
Statuses ==
    [state : Terminal \cup {"running"},
     record : Procs \cup Envelopes \cup {None},
     evaluation : Evaluations \cup {None}]

ASSUME NoneIsNoRecord ==
    None \notin Claims /\ None \notin Summaries /\ None \notin Evaluations /\ None \notin Statuses

Running == [state |-> "running", record |-> None, evaluation |-> None]

Bootstrap == {"new", "created", "unclaimed", "fenced", "claimed", "projected"}
Passing == {"pass_summary", "pass_status"}
Stopping == {"stop_envelope", "stop_summary", "stop_status"}
Failing == {"fail_envelope", "fail_summary", "fail_status"}
Selecting == {"observation", "frontiers", "archive", "receipt", "evaluate",
              "evaluation", "summary", "status"}
Reconciling == {"contend", "locked", "archive_manifest", "loss"}
Steps ==
    Bootstrap \cup Passing \cup Stopping \cup Failing \cup Selecting
        \cup Reconciling \cup {"work", "interrupt", "latest", "idle", "end"}

-----------------------------------------------------------------------------
(* What the readers verify.                                                *)

\* The claim is source-verifiable: its manifest digest is the one on disk.
ClaimReadable == claim # None /\ claim.manifest = manifest

\* The lock is free: nobody holds it and no child shares the description.
FenceFree == fence = None /\ pinned = {}

\* The lease is live: the claim reads back unchanged and the fence is held.
LeaseLive(p) == fence = p /\ ClaimReadable

StatusIs(state) == status # None /\ status.state = state

\* Every record the receipt cites is on disk with the bytes it cites.
ClosureOf(r) ==
    /\ \A s \in Sources : source[s] = r
    /\ r \in Reconcilers => loss = r /\ archivedBy = r

\* The independent evaluation of the published receipt is satisfied.
EvaluationSatisfied == ClaimReadable /\ ClosureOf(receipt)

-----------------------------------------------------------------------------
(* Types and initial state.                                                *)

TypeOK ==
    /\ manifest \in Owners \cup {None}
    /\ claim \in Claims \cup {None}
    /\ fence \in Procs \cup {None}
    /\ pinned \subseteq Owners
    /\ status \in Statuses \cup {None}
    /\ latest \in Terminal \cup {"running", None}
    /\ envelope \in Envelopes \cup {None}
    /\ summary \in Summaries \cup {None}
    /\ source \in [Sources -> Procs \cup {None}]
    /\ archivedBy \in Reconcilers \cup {None}
    /\ loss \in Losses \cup {None}
    /\ receipt \in Receipts \cup {None}
    /\ evaluation \in Evaluations \cup {None}
    /\ pc \in [Procs -> Steps]
    /\ signalled \subseteq Owners
    /\ ownerFaults \in 0 .. MaxOwnerFaults
    /\ reconcilerFaults \in 0 .. MaxReconcilerFaults

Init ==
    /\ manifest = None /\ claim = None /\ fence = None /\ pinned = {}
    /\ status = None /\ latest = None /\ envelope = None /\ summary = None
    /\ source = [s \in Sources |-> None]
    /\ archivedBy = None /\ loss = None /\ receipt = None /\ evaluation = None
    /\ pc = [p \in Procs |-> IF p \in Owners THEN "new" ELSE "idle"]
    /\ signalled = {} /\ ownerFaults = 0 /\ reconcilerFaults = 0

-----------------------------------------------------------------------------
(* Acquiring a run.                                                        *)

Goto(p, from, to) == pc[p] = from /\ pc' = [pc EXCEPT ![p] = to]

\* A prepared run: directories and manifest, written over what is there.
Create(o) ==
    /\ Goto(o, "new", "created")
    /\ manifest' = o
    /\ UNCHANGED <<claim, fence, pinned, status, latest, recordVars, faultVars>>

\* The claim must be absent before the fence is opened; a held fence refuses
\* at once.
CheckUnclaimed(o) ==
    /\ Goto(o, "created", IF claim = None THEN "unclaimed" ELSE "end")
    /\ UNCHANGED <<ownerVars, status, latest, recordVars, faultVars>>

AcquireFence(o) ==
    /\ IF FenceFree
       THEN Goto(o, "unclaimed", "fenced") /\ fence' = o
       ELSE Goto(o, "unclaimed", "end") /\ UNCHANGED fence
    /\ UNCHANGED <<manifest, claim, pinned, status, latest, recordVars, faultVars>>

\* Mutant of PublishClaim: the claim was only checked before the lock.
PublishClaimReplaces(o) ==
    /\ Goto(o, "fenced", "claimed")
    /\ claim' = [by |-> o, manifest |-> manifest]
    /\ UNCHANGED <<manifest, fence, pinned, status, latest, recordVars, faultVars>>

\* Under the fence the claim must still be absent; it is linked create-only and
\* binds the manifest, whose command and owner kind must be the caller's.
PublishClaim(o) ==
    /\ IF claim = None /\ (manifest \in Driver <=> o \in Driver)
       THEN /\ Goto(o, "fenced", "claimed")
            /\ claim' = [by |-> o, manifest |-> manifest]
            /\ UNCHANGED fence
       ELSE /\ Goto(o, "fenced", "end")
            /\ fence' = None
            /\ UNCHANGED claim
    /\ UNCHANGED <<manifest, pinned, status, latest, recordVars, faultVars>>

\* The claimed run selects its owner as `running`.
PublishRunning(o) ==
    /\ IF LeaseLive(o)
       THEN /\ Goto(o, "claimed", "projected")
            /\ status' = Running
            /\ UNCHANGED fence
       ELSE /\ Goto(o, "claimed", "end")
            /\ fence' = None
            /\ UNCHANGED status
    /\ UNCHANGED <<manifest, claim, pinned, latest, recordVars, faultVars>>

ProjectRunning(o) ==
    /\ Goto(o, "projected", "work")
    /\ latest' = "running"
    /\ UNCHANGED <<ownerVars, status, recordVars, faultVars>>

\* A forked child inherits the descriptions; its at-fork handler closes them
\* or ends the child. Forks are excluded while an acquisition is pending.
Fork(o) ==
    /\ fence = o /\ pc[o] \notin Bootstrap \ {"projected"}
    /\ pinned' = pinned \cup {o}
    /\ UNCHANGED <<manifest, claim, fence, status, latest, recordVars, pc, faultVars>>

\* Mutant of NeutralizeChild: the child keeps what it inherited.
NeutralizeNothing(o) == o \in pinned /\ UNCHANGED vars

NeutralizeChild(o) ==
    /\ o \in pinned
    /\ pinned' = pinned \ {o}
    /\ UNCHANGED <<manifest, claim, fence, status, latest, recordVars, pc, faultVars>>

-----------------------------------------------------------------------------
(* The body of the run and its own ends.                                   *)

\* A stage prepares its typed stop; a different one already there refuses.
StageStops(o) ==
    /\ pc[o] = "work" /\ envelope = None
    /\ envelope' = "stage"
    /\ UNCHANGED <<ownerVars, status, latest, summary, source, archivedBy, loss,
                   receipt, evaluation, pc, faultVars>>

\* The controller dispatched the stop and archived its envelope.
ConsumeStop(o) ==
    /\ pc[o] = "work" /\ o \in Driver /\ envelope # None
    /\ envelope' = None
    /\ UNCHANGED <<ownerVars, status, latest, summary, source, archivedBy, loss,
                   receipt, evaluation, pc, faultVars>>

\* The body returns, reaches a typed stop or raises.
Finish(o) ==
    /\ \/ Goto(o, "work", "pass_summary")
       \/ Goto(o, "work", "fail_envelope")
       \/ o \in Driver /\ Goto(o, "work", "stop_envelope")
    /\ UNCHANGED <<ownerVars, status, latest, recordVars, faultVars>>

\* Where an exception of a terminal step goes. A driver drives, passes and stops inside
\* one try block, whose handler returns if the run is no longer running; a
\* direct command guards only its body.
ExceptionFrom(o, step) ==
    IF o \in Driver /\ step \in Passing \cup Stopping /\ StatusIs("running")
    THEN "fail_envelope"
    ELSE "end"

\* Where the first signal's cancellation goes.
CancellationFrom(o, step) ==
    IF step = "work" \/ (o \in Driver /\ step \in Passing \cup Stopping)
    THEN "interrupt"
    ELSE "end"

\* A process that leaves its root context releases the fence.
Leave(p, to) ==
    /\ pc' = [pc EXCEPT ![p] = to]
    /\ fence' = IF to = "end" /\ fence = p THEN None ELSE fence

\* The summary of a pass, a typed stop or a failure, then its status: the
\* exact running bytes are replaced, by the holder of a live lease only.
WriteSummary(o) ==
    /\ \/ /\ Goto(o, "pass_summary", "pass_status")
          /\ summary' = [state |-> "passed", record |-> None]
       \/ /\ \/ Goto(o, "stop_summary", "stop_status")
             \/ Goto(o, "fail_summary", "fail_status")
          /\ summary' = [state |-> "failed", record |-> None]
    /\ UNCHANGED <<ownerVars, status, latest, envelope, source, archivedBy, loss,
                   receipt, evaluation, faultVars>>

CommitStatus(o) ==
    /\ pc[o] \in {"pass_status", "stop_status", "fail_status"}
    /\ IF LeaseLive(o) /\ StatusIs("running")
       THEN /\ status' =
                  IF pc[o] = "pass_status"
                  THEN [state |-> "passed", record |-> None, evaluation |-> None]
                  ELSE [state |-> "failed", record |-> envelope, evaluation |-> None]
            /\ Leave(o, "latest")
       ELSE /\ UNCHANGED status
            /\ Leave(o, ExceptionFrom(o, pc[o]))
    /\ UNCHANGED <<manifest, claim, pinned, latest, recordVars, faultVars>>

\* A typed stop selects the prepared envelope, or the driver's own when the
\* prepared one cannot be read; the envelope file is immutable.
StopEnvelope(o) ==
    /\ pc[o] = "stop_envelope"
    /\ \E e \in {"own"} \cup ({envelope} \ {None}) :
          IF envelope \in {None, e}
          THEN envelope' = e /\ Leave(o, "stop_summary")
          ELSE UNCHANGED envelope /\ Leave(o, ExceptionFrom(o, "stop_envelope"))
    /\ UNCHANGED <<manifest, claim, pinned, status, latest, summary, source,
                   archivedBy, loss, receipt, evaluation, faultVars>>

\* An unclassified failure publishes its envelope; if that fails, a fallback.
\* When a different envelope is there already, both are refused.
FailEnvelope(o) ==
    /\ pc[o] = "fail_envelope"
    /\ \E e \in Envelopes :
          IF envelope \in {None, e}
          THEN envelope' = e /\ Leave(o, "fail_summary")
          ELSE UNCHANGED envelope /\ Leave(o, "end")
    /\ UNCHANGED <<manifest, claim, pinned, status, latest, summary, source,
                   archivedBy, loss, receipt, evaluation, faultVars>>

\* latest.json and the inventory follow the status; then the root context ends.
ProjectLatest(p) ==
    /\ pc[p] = "latest"
    /\ latest' = status.state
    /\ Leave(p, "end")
    /\ UNCHANGED <<manifest, claim, pinned, status, recordVars, faultVars>>

\* The first signal raises once, wherever the owner is; later ones are counted.
Signal(o) ==
    /\ pc[o] \in Passing \cup Stopping \cup Failing \cup {"work", "latest"}
    /\ o \notin signalled
    /\ signalled' = signalled \cup {o}
    /\ Leave(o, CancellationFrom(o, pc[o]))
    /\ UNCHANGED <<manifest, claim, pinned, status, latest, recordVars,
                   ownerFaults, reconcilerFaults>>

-----------------------------------------------------------------------------
(* Interruption: the signalled owner and a reconciler publish the same     *)
(* closure, evaluate it and select it.                                     *)

\* The owner starts from a running status and an absent receipt.
BeginInterruption(o) ==
    /\ pc[o] = "interrupt"
    /\ Leave(o, IF LeaseLive(o) /\ StatusIs("running") /\ receipt = None
                THEN "observation" ELSE "end")
    /\ UNCHANGED <<manifest, claim, pinned, status, latest, recordVars, faultVars>>

AfterSource(s) ==
    CASE s = "observation" -> "frontiers"
      [] s = "frontiers" -> "archive"
      [] s = "archive" -> "receipt"

PublishSource(p) ==
    /\ \E s \in Sources :
          /\ Goto(p, s, AfterSource(s))
          /\ source' = [source EXCEPT ![s] = p]
    /\ UNCHANGED <<ownerVars, status, latest, envelope, summary, archivedBy, loss,
                   receipt, evaluation, faultVars>>

PublishReceipt(p) ==
    /\ pc[p] = "receipt"
    /\ IF LeaseLive(p)
       THEN receipt' = p /\ Leave(p, "evaluate")
       ELSE UNCHANGED receipt /\ Leave(p, "end")
    /\ UNCHANGED <<manifest, claim, pinned, status, latest, envelope, summary,
                   source, archivedBy, loss, evaluation, faultVars>>

\* Reopen the receipt and everything it cites; unsatisfied keeps `running`.
Evaluate(p) ==
    /\ pc[p] = "evaluate"
    /\ Leave(p, IF EvaluationSatisfied THEN "evaluation" ELSE "end")
    /\ UNCHANGED <<manifest, claim, pinned, status, latest, recordVars, faultVars>>

PublishEvaluation(p) ==
    /\ Goto(p, "evaluation", "summary")
    /\ evaluation' = [receipt |-> receipt, by |-> p]
    /\ UNCHANGED <<ownerVars, status, latest, envelope, summary, source, archivedBy,
                   loss, receipt, faultVars>>

InterruptedSummary(p) ==
    /\ Goto(p, "summary", "status")
    /\ summary' = [state |-> "interrupted", record |-> receipt]
    /\ UNCHANGED <<ownerVars, status, latest, envelope, source, archivedBy, loss,
                   receipt, evaluation, faultVars>>

SelectInterrupted(p) ==
    /\ pc[p] = "status"
    /\ IF LeaseLive(p) /\ StatusIs("running")
       THEN /\ status' = [state |-> "interrupted", record |-> receipt,
                          evaluation |-> evaluation]
            /\ Leave(p, "latest")
       ELSE UNCHANGED status /\ Leave(p, "end")
    /\ UNCHANGED <<manifest, claim, pinned, latest, recordVars, faultVars>>

-----------------------------------------------------------------------------
(* Reconciliation of a run whose owner may be gone.                        *)

\* The claim must verify and the status be `running`; anything else is a typed
\* answer without a write, after which the operator may ask again.
ReadTarget(r) ==
    /\ ClaimReadable /\ StatusIs("running")
    /\ Goto(r, "idle", "contend")
    /\ UNCHANGED <<ownerVars, status, latest, recordVars, faultVars>>

\* Mutant of AcquireReconcilerFence: the answer of the lock is ignored.
AcquireUnfenced(r) ==
    /\ ClaimReadable
    /\ Goto(r, "contend", "locked")
    /\ fence' = r
    /\ UNCHANGED <<manifest, claim, pinned, status, latest, recordVars, faultVars>>

\* The exact fence, without waiting: a held one means `owner_live`.
AcquireReconcilerFence(r) ==
    /\ IF ClaimReadable /\ FenceFree
       THEN Goto(r, "contend", "locked") /\ fence' = r
       ELSE Goto(r, "contend", "idle") /\ UNCHANGED fence
    /\ UNCHANGED <<manifest, claim, pinned, status, latest, recordVars, faultVars>>

\* Mutant of Inspect: the status read before the fence is trusted.
InspectStale(r) ==
    /\ pc[r] = "locked"
    /\ Leave(r, IF receipt # None THEN "evaluate" ELSE "archive_manifest")
    /\ UNCHANGED <<manifest, claim, pinned, status, latest, recordVars, faultVars>>

\* Mutant of Inspect: a prepared receipt is minted again.
InspectAnew(r) ==
    /\ pc[r] = "locked"
    /\ Leave(r, IF StatusIs("running") THEN "archive_manifest" ELSE "end")
    /\ UNCHANGED <<manifest, claim, pinned, status, latest, recordVars, faultVars>>

\* Under the fence the running bytes are read again; a prepared receipt is
\* completed, never replaced.
Inspect(r) ==
    /\ pc[r] = "locked"
    /\ Leave(r, IF ~StatusIs("running") THEN "end"
                ELSE IF receipt # None THEN "evaluate" ELSE "archive_manifest")
    /\ UNCHANGED <<manifest, claim, pinned, status, latest, recordVars, faultVars>>

\* The reconciler's manifest is copied to one fixed create-only name: other
\* bytes already there refuse the reconciliation.
ArchiveManifest(r) ==
    /\ pc[r] = "archive_manifest"
    /\ IF archivedBy \in {None, r}
       THEN archivedBy' = r /\ Leave(r, "loss")
       ELSE UNCHANGED archivedBy /\ Leave(r, "end")
    /\ UNCHANGED <<manifest, claim, pinned, status, latest, envelope, summary,
                   source, loss, receipt, evaluation, faultVars>>

PublishLoss(r) ==
    /\ Goto(r, "loss", "observation")
    /\ loss' = r
    /\ UNCHANGED <<ownerVars, status, latest, envelope, summary, source, archivedBy,
                   receipt, evaluation, faultVars>>

-----------------------------------------------------------------------------
(* Faults.                                                                 *)

Active(p) == pc[p] \notin {"new", "idle", "end"}

CountFault(p) ==
    \/ /\ p \in Owners /\ ownerFaults < MaxOwnerFaults
       /\ ownerFaults' = ownerFaults + 1
       /\ UNCHANGED reconcilerFaults
    \/ /\ p \in Reconcilers /\ reconcilerFaults < MaxReconcilerFaults
       /\ reconcilerFaults' = reconcilerFaults + 1
       /\ UNCHANGED ownerFaults

\* The process is killed, or fails where nothing selects a status for it.
Crash(p) ==
    /\ Active(p) /\ CountFault(p)
    /\ Leave(p, "end")
    /\ UNCHANGED <<manifest, claim, pinned, status, latest, recordVars, signalled>>

\* A write or a read of a terminal step fails and raises.
Raise(o) ==
    /\ pc[o] \in Passing \cup Stopping
    /\ CountFault(o)
    /\ Leave(o, ExceptionFrom(o, pc[o]))
    /\ UNCHANGED <<manifest, claim, pinned, status, latest, recordVars, signalled>>

-----------------------------------------------------------------------------

AcquisitionStep(o) ==
    CheckUnclaimed(o) \/ AcquireFence(o) \/ PublishClaim(o) \/ PublishRunning(o)

OwnerStep(o) ==
    \/ Create(o) \/ AcquisitionStep(o) \/ ProjectRunning(o) \/ Fork(o) \/ StageStops(o) \/ ConsumeStop(o) \/ Finish(o)
    \/ WriteSummary(o) \/ CommitStatus(o) \/ StopEnvelope(o) \/ FailEnvelope(o)
    \/ Signal(o) \/ BeginInterruption(o) \/ Raise(o)

SelectionStep(p) ==
    \/ PublishSource(p) \/ PublishReceipt(p) \/ Evaluate(p) \/ PublishEvaluation(p)
    \/ InterruptedSummary(p) \/ SelectInterrupted(p) \/ ProjectLatest(p)

ReconcilerStep(r) ==
    \/ ReadTarget(r) \/ AcquireReconcilerFence(r) \/ Inspect(r)
    \/ ArchiveManifest(r) \/ PublishLoss(r) \/ SelectionStep(r)

Next ==
    \/ \E o \in Owners : OwnerStep(o) \/ SelectionStep(o) \/ NeutralizeChild(o)
    \/ \E r \in Reconcilers : ReconcilerStep(r)
    \/ \E p \in Procs : Crash(p)

\* A forked child always runs its at-fork handler, a process that contends for
\* the run gets its answer, and an operator who finds a run without an owner runs
\* the reconciler, again if need be. An owner's work may go on for ever.
Fairness ==
    /\ \A o \in Owners : WF_vars(AcquisitionStep(o))
    /\ \A o \in Owners : WF_vars(NeutralizeChild(o))
    /\ \A r \in Reconcilers : WF_vars(ReconcilerStep(r))

Spec == Init /\ [][Next]_vars /\ Fairness

-----------------------------------------------------------------------------
(* Properties.                                                             *)

\* A run is owned once and ends once: claim and terminal status are never
\* replaced, whoever signals, dies, retries or reconciles
\* (run_terminalizer.py "terminal selection is exactly once").
SelectedOnce ==
    [][/\ claim # None => claim' = claim
       /\ \A t \in Terminal : StatusIs(t) => status' = status]_vars

\* The records a terminal status selects are on disk as it selects them: the
\* summary agrees with it, a failure's envelope is the published one, and an
\* interruption's receipt and evaluation are the ones it binds, satisfied when
\* the status was selected and untouched since.
SelectedRecordsIntact ==
    /\ StatusIs("passed") => summary.state = "passed"
    /\ StatusIs("failed") =>
          /\ envelope = status.record
          /\ summary.state = "failed"
    /\ StatusIs("interrupted") =>
          /\ receipt = status.record
          /\ evaluation = status.evaluation
          /\ evaluation.receipt = receipt
          /\ summary = [state |-> "interrupted", record |-> receipt]
          /\ ClosureOf(receipt)

\* A published receipt can always be completed: nothing it cites is written
\* again by a later owner, reconciler or retry.
ReceiptStaysComplete == receipt # None => ClosureOf(receipt)

\* An owner is declared lost only when it is: whenever a reconciler's loss
\* observation or receipt is on disk, the claimed owner has left its run.
OwnerLossIsReal ==
    (loss # None \/ receipt \in Reconcilers) =>
        claim # None /\ pc[claim.by] = "end"

\* A running status nobody is going to replace.
Abandoned == StatusIs("running") /\ claim # None /\ pc[claim.by] = "end"

\* A reconciler left its manifest in the run and did not reach its receipt.
ManifestOrphaned ==
    archivedBy # None /\ receipt = None /\ pc[archivedBy] = "end"

\* Another invocation with the same run id rewrote the manifest the claim binds.
ManifestReplaced == claim # None /\ claim.manifest # manifest

\* An abandoned run is eventually closed by reconciliation, in all but two
\* cases: a reconciler died between its manifest and its receipt, or another
\* invocation reused the run id.
AbandonedCloses ==
    Abandoned ~> (~StatusIs("running") \/ ManifestOrphaned \/ ManifestReplaced)

\* What the documentation promises: a run whose owner is gone is reconcilable
\* (docs/improvements/HIR-0172: "Root-owner loss after a hard kill is
\* deterministically reconcilable").
LossIsReconcilable == Abandoned ~> ~StatusIs("running")

=============================================================================
