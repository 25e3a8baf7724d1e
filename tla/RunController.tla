----------------------------- MODULE RunController -----------------------------
(***************************************************************************)
(* The controller of `vfx run` (application/run_controller.py over         *)
(* orchestration/controller_state.py): a stop whose one action is a        *)
(* layer-view amendment is dispatched as a transaction that runs the       *)
(* rematerialization stage, proves the published authority and records the *)
(* attempt, and the run goes on.                                           *)
(*                                                                         *)
(* Several runs of one shot share the selected authority, the receipts, the*)
(* commits and the attempts; the ledger rows are each run's own. Every     *)
(* durable write is a step and a run may die before any of them. The       *)
(* authority is represented by the number of publications so far: no two   *)
(* published authorities have the same digest.                             *)
(***************************************************************************)
EXTENDS TransactionReceipts

CONSTANTS
    Runs,              \* driver processes, each with its own run id
    Causes,            \* cause fingerprints of dispatchable stops
    Layers,
    LayerOf,           \* the layer whose view a cause's amendment replaces
    Evidence,          \* digests of the evidence of one attempt
    None,
    MaxDispatches,     \* ControllerCaps.max_dispatches
    MaxReplansPerLayer,
    MaxAuthority,      \* bound: publications of a new authority
    MaxCrashes         \* bound: deaths of drivers

ASSUME LayerOfCauses == LayerOf \in [Causes -> Layers]
ASSUME ControllerBounds ==
    {MaxDispatches, MaxReplansPerLayer, MaxAuthority, MaxCrashes} \subseteq Nat

VARIABLES
    authority,   \* digest of the selected authority
    store,       \* transaction receipts of every key
    commit,      \* commits/<key>.json: [running, after]
    evaluation,  \* evaluations/<key>.json: the after digest it proves
    attempts,    \* attempts/<key>.json: keys whose cause is spent
    lock,        \* controller_lock of every key
    pc,          \* next step of every run
    stop,        \* the stop a run has in hand: its key
    prepared,    \* runs whose reports/stop-envelope.json exists
    after,       \* the authority a run read back from its stage
    rows,        \* ledger rows of a run: the layers it dispatched
    staged,      \* history: the layers of the stages a run has paid for
    crashes

shotVars == <<authority, store, commit, evaluation, attempts>>
runVars == <<stop, prepared, after, rows, staged>>
vars == <<shotVars, lock, pc, runVars, crashes>>

-----------------------------------------------------------------------------

\* The idempotency key binds the action (its layer and finding), the selected
\* authority it starts from and the evidence of the attempt.
Keys == [cause : Causes, before : 0 .. MaxAuthority, evidence : Evidence]

Outcomes == {"committed", "failed"}
Receipt(phase, outcome, digest) ==
    [phase |-> phase, outcome |-> outcome, after |-> digest]
Receipts == [phase : Phases, outcome : Outcomes \cup {None},
             after : 0 .. MaxAuthority \cup {None}]
Prepared == Receipt("prepared", None, None)
Running == Receipt("running", None, None)

Commits == [running : Nat, after : 0 .. MaxAuthority]

ASSUME NoneIsNoRecord ==
    None \notin Runs /\ None \notin Keys /\ None \notin Commits /\ None \notin 0 .. MaxAuthority

Committed(k) == PhaseOf(store[k]) = "terminal" /\ Current(store[k]).outcome = "committed"
Failed(k) == PhaseOf(store[k]) = "terminal" /\ Current(store[k]).outcome = "failed"

Publishing ==
    {"prepare", "prepare_pointer", "start", "start_pointer",
     "finish", "finish_pointer", "fail", "fail_pointer"}
Locked ==
    Publishing \cup {"reconcile", "inspect", "read_commit", "stage", "returned",
                     "commit", "evaluate", "attempt", "row"}
Steps == Locked \cup {"drive", "stopped", "check", "lock", "child", "conflict", "end"}

TypeOK ==
    /\ authority \in 0 .. MaxAuthority
    /\ store \in [Keys -> [chain : Seq(Receipts), orphans : SUBSET Receipts]]
    /\ commit \in [Keys -> Commits \cup {None}]
    /\ evaluation \in [Keys -> 0 .. MaxAuthority \cup {None}]
    /\ attempts \subseteq Keys
    /\ lock \in [Keys -> Runs \cup {None}]
    /\ pc \in [Runs -> Steps]
    /\ stop \in [Runs -> Keys \cup {None}]
    /\ prepared \subseteq Runs
    /\ after \in [Runs -> 0 .. MaxAuthority \cup {None}]
    /\ rows \in [Runs -> Seq(Layers)]
    /\ staged \in [Runs -> Seq(Layers)]
    /\ crashes \in 0 .. MaxCrashes

Init ==
    /\ authority = 0
    /\ store = [k \in Keys |-> NoReceipts]
    /\ commit = [k \in Keys |-> None]
    /\ evaluation = [k \in Keys |-> None]
    /\ attempts = {}
    /\ lock = [k \in Keys |-> None]
    /\ pc = [r \in Runs |-> "drive"]
    /\ stop = [r \in Runs |-> None]
    /\ prepared = {}
    /\ after = [r \in Runs |-> None]
    /\ rows = [r \in Runs |-> <<>>]
    /\ staged = [r \in Runs |-> <<>>]
    /\ crashes = 0

-----------------------------------------------------------------------------
(* Before the lock.                                                        *)

\* The rows of one layer.
SameLayer(ledger, l) == Cardinality({i \in DOMAIN ledger : ledger[i] = l})

Goto(r, from, to) == pc[r] = from /\ pc' = [pc EXCEPT ![r] = to]

\* A stage of the run stops at the selected authority and prepares its envelope.
Stop(r) ==
    /\ Goto(r, "drive", "stopped")
    /\ \E c \in Causes, e \in Evidence :
          stop' = [stop EXCEPT ![r] = [cause |-> c, before |-> authority, evidence |-> e]]
    /\ prepared' = prepared \cup {r}
    /\ UNCHANGED <<shotVars, lock, after, rows, staged, crashes>>

\* The run ends by itself.
Finish(r) ==
    /\ Goto(r, "drive", "end")
    /\ UNCHANGED <<shotVars, lock, runVars, crashes>>

\* Mutant of CapReached: off by one.
CapPassed(r, l) ==
    \/ Len(rows[r]) > MaxDispatches
    \/ SameLayer(rows[r], l) > MaxReplansPerLayer

\* _cap_refusal: this run's rows against the run's and the layer's cap.
CapReached(r, l) ==
    \/ Len(rows[r]) >= MaxDispatches
    \/ SameLayer(rows[r], l) >= MaxReplansPerLayer

\* The cause fingerprint is spent: any attempt of the shot has it.
Repeated(c) == \E k \in attempts : k.cause = c

\* Caps and attempts are read without a lock. A refusal leaves the envelope
\* and ends the run.
Dispatch(r) ==
    /\ pc[r] = "stopped"
    /\ Goto(r, "stopped", IF CapReached(r, LayerOf[stop[r].cause]) \/ Repeated(stop[r].cause)
                          THEN "end" ELSE "check")
    /\ UNCHANGED <<shotVars, lock, runVars, crashes>>

\* The finding behind the stop must be readable and its fault owners must lie
\* in the layer to replace, inside the run's range; or the run ends.
CheckOwnership(r) ==
    /\ Goto(r, "check", "lock") \/ Goto(r, "check", "end")
    /\ UNCHANGED <<shotVars, lock, runVars, crashes>>

\* Mutant of Lock: the cause is spent when the transaction starts.
LockAndSpend(r) ==
    /\ Goto(r, "lock", "reconcile")
    /\ lock[stop[r]] = None
    /\ lock' = [lock EXCEPT ![stop[r]] = r]
    /\ attempts' = attempts \cup {stop[r]}
    /\ UNCHANGED <<authority, store, commit, evaluation, runVars, crashes>>

Lock(r) ==
    /\ Goto(r, "lock", "reconcile")
    /\ lock[stop[r]] = None
    /\ lock' = [lock EXCEPT ![stop[r]] = r]
    /\ UNCHANGED <<shotVars, runVars, crashes>>

-----------------------------------------------------------------------------
(* _dispatch_locked.                                                       *)

\* The step and, when it leaves the transaction, the lock.
Leave(r, to) ==
    /\ pc' = [pc EXCEPT ![r] = to]
    /\ lock' = IF to \in Locked THEN lock
               ELSE [k \in Keys |-> IF lock[k] = r THEN None ELSE lock[k]]

\* Mutant of Reconcile: the chain is read as the pointer selects it.
ReconcileNothing(r) ==
    /\ pc[r] = "reconcile"
    /\ Leave(r, "inspect")
    /\ UNCHANGED <<shotVars, runVars, crashes>>

\* The one receipt a death left unselected is selected first.
Reconcile(r) ==
    /\ pc[r] = "reconcile"
    /\ LET k == stop[r]
       IN  IF Reconcilable(store[k])
           THEN /\ store' = [store EXCEPT ![k] = Reconciled(@)]
                /\ Leave(r, "inspect")
           ELSE UNCHANGED store /\ Leave(r, "conflict")
    /\ UNCHANGED <<authority, commit, evaluation, attempts, runVars, crashes>>

\* A committed chain is only recorded, a failed one refuses, a shorter one is
\* continued where it stands.
Inspect(r) ==
    /\ pc[r] = "inspect"
    /\ LET k == stop[r]
       IN  Leave(r, CASE Committed(k) -> "evaluate"
                      [] Failed(k) -> "end"
                      [] PhaseOf(store[k]) = "absent" -> "prepare"
                      [] PhaseOf(store[k]) = "prepared" -> "start"
                      [] PhaseOf(store[k]) = "running" -> "read_commit")
    /\ UNCHANGED <<shotVars, runVars, crashes>>

\* The receipt a publishing step writes and what follows it.
ReceiptAt(r, step) ==
    CASE step \in {"prepare", "prepare_pointer"} -> Prepared
      [] step \in {"start", "start_pointer"} -> Running
      [] step \in {"finish", "finish_pointer"} ->
            Receipt("terminal", "committed", commit[stop[r]].after)
      [] step \in {"fail", "fail_pointer"} -> Receipt("terminal", "failed", after[r])

PointerOf(step) ==
    CASE step = "prepare" -> "prepare_pointer"
      [] step = "start" -> "start_pointer"
      [] step = "finish" -> "finish_pointer"
      [] step = "fail" -> "fail_pointer"

AfterPointer(step) ==
    CASE step = "prepare_pointer" -> "start"
      [] step = "start_pointer" -> "read_commit"
      [] step = "finish_pointer" -> "evaluate"
      [] step = "fail_pointer" -> "end"

PublishReceipt(r) ==
    /\ pc[r] \in {"prepare", "start", "finish", "fail"}
    /\ LET k == stop[r]
           receipt == ReceiptAt(r, pc[r])
       IN  IF Publishable(store[k], receipt)
           THEN /\ store' = [store EXCEPT ![k] = WriteReceipt(@, receipt)]
                /\ Leave(r, PointerOf(pc[r]))
           ELSE UNCHANGED store /\ Leave(r, "conflict")
    /\ UNCHANGED <<authority, commit, evaluation, attempts, runVars, crashes>>

PublishPointer(r) ==
    /\ pc[r] \in {"prepare_pointer", "start_pointer", "finish_pointer", "fail_pointer"}
    /\ LET k == stop[r]
       IN  store' = [store EXCEPT ![k] = SelectReceipt(@, ReceiptAt(r, pc[r]))]
    /\ Leave(r, AfterPointer(pc[r]))
    /\ UNCHANGED <<authority, commit, evaluation, attempts, runVars, crashes>>

\* The envelope is archived, so that the stage can prepare its own, and the
\* stage is started as a child process.
StartStage(r) ==
    /\ Goto(r, "read_commit", "stage")
    /\ prepared' = prepared \ {r}
    /\ staged' = [staged EXCEPT ![r] = Append(@, LayerOf[stop[r].cause])]

\* Mutant of ReadCommit: the stage runs whatever was committed.
ReadNoCommit(r) ==
    /\ StartStage(r)
    /\ UNCHANGED <<shotVars, lock, stop, after, rows, crashes>>

\* A commit that a dead run left is finished; without one the stage runs.
ReadCommit(r) ==
    /\ pc[r] = "read_commit"
    /\ IF commit[stop[r]] = None
       THEN StartStage(r)
       ELSE Goto(r, "read_commit", "finish") /\ UNCHANGED <<prepared, staged>>
    /\ UNCHANGED <<shotVars, lock, stop, after, rows, crashes>>

\* The stage publishes a new view or not; it may also fail after publishing.
RunStage(r) ==
    /\ pc[r] = "stage"
    /\ \/ /\ authority < MaxAuthority
          /\ authority' = authority + 1
          /\ \/ pc' = [pc EXCEPT ![r] = "returned"] /\ UNCHANGED after
             \/ pc' = [pc EXCEPT ![r] = "fail"] /\ after' = [after EXCEPT ![r] = authority']
       \/ /\ UNCHANGED authority
          /\ pc' = [pc EXCEPT ![r] = "fail"]
          /\ after' = [after EXCEPT ![r] = authority]
    /\ UNCHANGED <<store, commit, evaluation, attempts, lock, stop, prepared, rows, staged, crashes>>

\* What the stage published is read back from the selected authority, which
\* another run may have replaced since.
ReadBack(r) ==
    /\ pc[r] = "returned"
    /\ Goto(r, "returned", IF authority # stop[r].before THEN "commit" ELSE "fail")
    /\ after' = [after EXCEPT ![r] = authority]
    /\ UNCHANGED <<shotVars, lock, stop, prepared, rows, staged, crashes>>

\* The commit binds the running receipt, by its place in the chain.
Commit(r) ==
    /\ Goto(r, "commit", "finish")
    /\ commit' = [commit EXCEPT ![stop[r]] =
                    [running |-> Len(store[stop[r]].chain), after |-> after[r]]]
    /\ UNCHANGED <<authority, store, evaluation, attempts, lock, runVars, crashes>>

\* The committed chain proves itself from its records.
Proven(k) ==
    /\ Committed(k)
    /\ commit[k] # None
    /\ commit[k].running = Len(store[k].chain) - 1
    /\ store[k].chain[commit[k].running].phase = "running"
    /\ Current(store[k]).after = commit[k].after
    /\ commit[k].after # k.before

Evaluate(r) ==
    /\ pc[r] = "evaluate"
    /\ LET k == stop[r]
       IN  IF Proven(k) /\ evaluation[k] \in {None, commit[k].after}
           THEN /\ evaluation' = [evaluation EXCEPT ![k] = commit[k].after]
                /\ Leave(r, "attempt")
           ELSE UNCHANGED evaluation /\ Leave(r, "conflict")
    /\ UNCHANGED <<authority, store, commit, attempts, runVars, crashes>>

\* The one place that spends a cause fingerprint.
PublishAttempt(r) ==
    /\ Goto(r, "attempt", "row")
    /\ attempts' = attempts \cup {stop[r]}
    /\ UNCHANGED <<authority, store, commit, evaluation, lock, runVars, crashes>>

\* Mutant of RecordRow: the envelope is left to the stage's archive step.
RecordRowOnly(r) ==
    /\ pc[r] = "row"
    /\ rows' = [rows EXCEPT ![r] = Append(@, LayerOf[stop[r].cause])]
    /\ stop' = [stop EXCEPT ![r] = None]
    /\ after' = [after EXCEPT ![r] = None]
    /\ Leave(r, "drive")
    /\ UNCHANGED <<shotVars, prepared, staged, crashes>>

\* The ledger row; an envelope that is still there is archived first.
RecordRow(r) ==
    /\ pc[r] = "row"
    /\ rows' = [rows EXCEPT ![r] = Append(@, LayerOf[stop[r].cause])]
    /\ prepared' = prepared \ {r}
    /\ stop' = [stop EXCEPT ![r] = None]
    /\ after' = [after EXCEPT ![r] = None]
    /\ Leave(r, "drive")
    /\ UNCHANGED <<shotVars, staged, crashes>>

\* The driver dies; its locks go with it, a stage it started may live on.
Crash(r) ==
    /\ pc[r] \notin {"child", "end", "conflict"}
    /\ crashes < MaxCrashes
    /\ crashes' = crashes + 1
    /\ \/ Leave(r, "end")
       \/ pc[r] = "stage" /\ Leave(r, "child")
    /\ UNCHANGED <<shotVars, runVars>>

\* A stage without its driver ends, with or without a publication.
OrphanStage(r) ==
    /\ Goto(r, "child", "end")
    /\ authority' \in {authority, authority + 1} \cap (0 .. MaxAuthority)
    /\ UNCHANGED <<store, commit, evaluation, attempts, lock, runVars, crashes>>

Next ==
    \E r \in Runs :
        \/ Stop(r) \/ Finish(r) \/ Dispatch(r) \/ CheckOwnership(r) \/ Lock(r)
        \/ Reconcile(r) \/ Inspect(r)
        \/ PublishReceipt(r) \/ PublishPointer(r) \/ ReadCommit(r) \/ RunStage(r)
        \/ ReadBack(r) \/ Commit(r) \/ Evaluate(r) \/ PublishAttempt(r) \/ RecordRow(r)
        \/ Crash(r) \/ OrphanStage(r)

Spec == Init /\ [][Next]_vars

-----------------------------------------------------------------------------
(* Properties.                                                             *)

\* A spent cause is a proven one: whoever died where, every attempt on record
\* has a committed chain that its commit and its evaluation prove, and a
\* failed chain has no commit (HIR-0186: "a controller may dispatch only a
\* transaction whose commit an independent evaluator proves").
SpentIsProven ==
    /\ \A k \in attempts : Proven(k) /\ evaluation[k] = commit[k].after
    /\ \A k \in Keys : Failed(k) => commit[k] = None

\* A transaction is decided once: chains only grow, commits and evaluations
\* are never replaced, and no stage is paid for under a key that has its
\* commit or its terminal receipt, by this run or another.
DecidedOnce ==
    [][\A k \in Keys :
          /\ SubSeq(store'[k].chain, 1, Len(store[k].chain)) = store[k].chain
          /\ commit[k] # None => commit'[k] = commit[k]
          /\ evaluation[k] # None => evaluation'[k] = evaluation[k]
          /\ commit[k] # None \/ PhaseOf(store[k]) = "terminal" =>
                \A r \in Runs : stop[r] = k => staged'[r] = staged[r]]_vars

\* The receipts a death leaves behind never block their key: no run meets an
\* ambiguous or conflicting receipt, commit or evaluation.
NeverConflicting == \A r \in Runs : pc[r] # "conflict"

\* The caps bound what a run pays for, not only what it records: also the
\* stages that failed or were cut off count.
StagesWithinCaps ==
    \A r \in Runs :
        /\ Len(staged[r]) <= MaxDispatches
        /\ \A l \in Layers : SameLayer(staged[r], l) <= MaxReplansPerLayer

\* The driver goes on only without a stop envelope, which its next stage will
\* prepare create-only.
EnvelopeConsumed == \A r \in Runs : pc[r] = "drive" => r \notin prepared

\* What the comment on the caps says: a cause fingerprint that was dispatched
\* anywhere in the shot's life is refused, so every dispatch is of a different
\* defect (run_controller.py:251). Dispatched means committed here.
CauseDispatchedOnce ==
    \A j, k \in Keys : Committed(j) /\ Committed(k) /\ j.cause = k.cause => j = k

=============================================================================
