-------------------------- MODULE EnvironmentRecovery --------------------------
(***************************************************************************)
(* `vfx recover-environment` (application/environment_recovery.py over     *)
(* orchestration/environment_recovery_state.py): the transaction of one    *)
(* stop that found the environment broken. The operator repairs the        *)
(* environment; an execution probes it again and commits when the probe    *)
(* passes; an independent evaluation proves the committed chain.           *)
(*                                                                         *)
(* Executions with the same idempotency key may run at the same time, die  *)
(* at any step and be started again. A probe result is a value of Results; *)
(* its file is content-addressed, so it is its own name.                   *)
(***************************************************************************)
EXTENDS TransactionReceipts

CONSTANTS
    Executors,   \* processes started with the transaction's key
    Good,        \* results of the declared probe, all checks passing
    Bad,         \* results of the declared probe with a failing check
    Foreign,     \* results of another probe: its identity changed
    None,
    MaxCrashes   \* bound: deaths of executors

ASSUME ResultKinds ==
    /\ Good \cap Bad = {} /\ Good \cap Foreign = {} /\ Bad \cap Foreign = {}
    /\ None \notin Good \cup Bad \cup Foreign
ASSUME CrashBound == MaxCrashes \in Nat

VARIABLES
    environment,   \* what a probe of the machine would observe now
    store,         \* the transaction's receipts
    results,       \* published environment results
    commit,        \* the commit record: [running, result]
    evaluation,    \* the postcondition evaluation: the result it proves
    lock,          \* environment_recovery_lock of the key
    pc,
    observed,      \* the result an execution is working with
    crashes

vars == <<environment, store, results, commit, evaluation, lock, pc, observed, crashes>>

-----------------------------------------------------------------------------

Results == Good \cup Bad \cup Foreign

\* refs are the operation references, halted the disposition
\* halt_on_uncertainty, result what a terminal receipt commits.
Receipts == [phase : Phases, refs : SUBSET Results, halted : BOOLEAN,
             result : Results \cup {None}]
Commits == [running : Nat, result : Good]

ASSUME NoneIsNoRecord == None \notin Executors /\ None \notin Commits

Prepared == [phase |-> "prepared", refs |-> {}, halted |-> FALSE, result |-> None]
Started == [Prepared EXCEPT !.phase = "running"]

Writing == {"prepare", "start", "halt", "record", "finish"}
Pointing == {"prepare_pointer", "start_pointer", "halt_pointer", "record_pointer",
             "finish_pointer"}
Locked == Writing \cup Pointing \cup
    {"reconcile", "inspect", "running", "recorded", "probe", "publish", "validate", "decide", "commit"}
Steps == Locked \cup {"idle", "lock", "conflict"}

TypeOK ==
    /\ environment \in Results
    /\ store \in [chain : Seq(Receipts), orphans : SUBSET Receipts]
    /\ results \subseteq Results
    /\ commit \in Commits \cup {None}
    /\ evaluation \in Good \cup {None}
    /\ lock \in Executors \cup {None}
    /\ pc \in [Executors -> Steps]
    /\ observed \in [Executors -> Results \cup {None}]
    /\ crashes \in 0 .. MaxCrashes

Init ==
    /\ environment \in Bad
    /\ store = NoReceipts
    /\ results = {} /\ commit = None /\ evaluation = None
    /\ lock = None
    /\ pc = [p \in Executors |-> "idle"]
    /\ observed = [p \in Executors |-> None]
    /\ crashes = 0

-----------------------------------------------------------------------------

\* The operator, or anyone, changes the machine.
ChangeEnvironment ==
    /\ environment' \in Results \ {environment}
    /\ UNCHANGED <<store, results, commit, evaluation, lock, pc, observed, crashes>>

Goto(p, from, to) == pc[p] = from /\ pc' = [pc EXCEPT ![p] = to]

Execute(p) ==
    /\ Goto(p, "idle", "lock")
    /\ UNCHANGED <<environment, store, results, commit, evaluation, lock, observed, crashes>>

Lock(p) ==
    /\ Goto(p, "lock", "reconcile")
    /\ lock = None
    /\ lock' = p
    /\ UNCHANGED <<environment, store, results, commit, evaluation, observed, crashes>>

\* The step and, when it leaves the execution, the lock and the memory.
Leave(p, to) ==
    /\ pc' = [pc EXCEPT ![p] = to]
    /\ lock' = IF to \notin Locked /\ lock = p THEN None ELSE lock
    /\ observed' = [observed EXCEPT ![p] = IF to \in Locked THEN @ ELSE None]

\* Mutant of Reconcile: the chain is read as the pointer selects it.
ReconcileNothing(p) ==
    /\ pc[p] = "reconcile"
    /\ Leave(p, "inspect")
    /\ UNCHANGED <<environment, store, results, commit, evaluation, crashes>>

\* The one receipt a death left unselected is selected first.
Reconcile(p) ==
    /\ pc[p] = "reconcile"
    /\ IF Reconcilable(store)
       THEN store' = Reconciled(store) /\ Leave(p, "inspect")
       ELSE UNCHANGED store /\ Leave(p, "conflict")
    /\ UNCHANGED <<environment, results, commit, evaluation, crashes>>

\* _verify_committed_terminal: the chain, the commit and the result agree.
Verified ==
    /\ commit # None
    /\ commit.running = Len(store.chain) - 1
    /\ store.chain[commit.running].phase = "running"
    /\ commit.result \in Good \cap results \cap Current(store).refs
    /\ Current(store).result = commit.result

\* A terminal chain is verified and returned; a shorter one is continued. A
\* commit before a running receipt is refused.
Inspect(p) ==
    /\ pc[p] = "inspect"
    /\ Leave(p, CASE PhaseOf(store) = "terminal" -> IF Verified THEN "idle" ELSE "conflict"
                  [] PhaseOf(store) = "running" -> "running"
                  [] PhaseOf(store) \in {"absent", "prepared"} /\ commit # None -> "conflict"
                  [] PhaseOf(store) = "absent" /\ commit = None -> "prepare"
                  [] PhaseOf(store) = "prepared" /\ commit = None -> "start")
    /\ UNCHANGED <<environment, store, results, commit, evaluation, crashes>>

Halted == Current(store).halted
Passing == Current(store).refs \cap Good

\* Mutant of Running: a halted transaction is probed again.
RunningUnhalted(p) ==
    /\ pc[p] = "running"
    /\ Leave(p, IF commit # None THEN "finish" ELSE "probe")
    /\ UNCHANGED <<environment, store, results, commit, evaluation, crashes>>

\* Mutant of Running: a recorded result is taken for a finished execution.
RunningRecorded(p) ==
    /\ pc[p] = "running"
    /\ Leave(p, IF Halted \/ Passing # {} THEN "idle"
                ELSE IF commit # None THEN "finish" ELSE "probe")
    /\ UNCHANGED <<environment, store, results, commit, evaluation, crashes>>

\* A halted transaction refuses. A commit that a death left is finished, if it
\* binds the selected running receipt. A passing result on record is used and
\* two of them are refused; without one the machine is probed.
Running(p) ==
    /\ pc[p] = "running"
    /\ \/ Halted /\ Leave(p, "idle")
       \/ /\ ~Halted /\ commit # None
          /\ Leave(p, IF commit.running = Len(store.chain) THEN "finish" ELSE "conflict")
       \/ /\ ~Halted /\ commit = None
          /\ Leave(p, CASE Cardinality(Passing) = 0 -> "probe"
                        [] Cardinality(Passing) = 1 -> "recorded"
                        [] Cardinality(Passing) > 1 -> "conflict")
    /\ UNCHANGED <<environment, store, results, commit, evaluation, crashes>>

UseRecorded(p) ==
    /\ Goto(p, "recorded", "commit")
    /\ \E g \in Passing : observed' = [observed EXCEPT ![p] = g]
    /\ UNCHANGED <<environment, store, results, commit, evaluation, lock, crashes>>

Probe(p) ==
    /\ Goto(p, "probe", "publish")
    /\ observed' = [observed EXCEPT ![p] = environment]
    /\ UNCHANGED <<environment, store, results, commit, evaluation, lock, crashes>>

PublishResult(p) ==
    /\ Goto(p, "publish", "validate")
    /\ results' = results \cup {observed[p]}
    /\ UNCHANGED <<environment, store, commit, evaluation, lock, observed, crashes>>

\* Another probe's result halts the transaction; a new one is recorded; one
\* that the receipt already references adds nothing.
Validate(p) ==
    /\ Goto(p, "validate", IF observed[p] \in Foreign THEN "halt"
                           ELSE IF observed[p] \in Current(store).refs THEN "decide"
                           ELSE "record")
    /\ UNCHANGED <<environment, store, results, commit, evaluation, lock, observed, crashes>>

Decide(p) ==
    /\ pc[p] = "decide"
    /\ Leave(p, IF observed[p] \in Good THEN "commit" ELSE "idle")
    /\ UNCHANGED <<environment, store, results, commit, evaluation, crashes>>

\* The receipt a publishing step writes, its pointer step and what follows.
ReceiptAt(p, step) ==
    CASE step \in {"prepare", "prepare_pointer"} -> Prepared
      [] step \in {"start", "start_pointer"} -> Started
      [] step \in {"halt", "halt_pointer"} ->
            [Current(store) EXCEPT !.refs = @ \cup {observed[p]}, !.halted = TRUE]
      [] step \in {"record", "record_pointer"} ->
            [Current(store) EXCEPT !.refs = @ \cup {observed[p]}]
      [] step \in {"finish", "finish_pointer"} ->
            [Current(store) EXCEPT !.phase = "terminal", !.result = commit.result]

PointerOf(step) ==
    CASE step = "prepare" -> "prepare_pointer"
      [] step = "start" -> "start_pointer"
      [] step = "halt" -> "halt_pointer"
      [] step = "record" -> "record_pointer"
      [] step = "finish" -> "finish_pointer"

AfterPointer(step) ==
    CASE step = "prepare_pointer" -> "start"
      [] step = "start_pointer" -> "running"
      [] step = "halt_pointer" -> "idle"
      [] step = "record_pointer" -> "decide"
      [] step = "finish_pointer" -> "idle"

PublishReceipt(p) ==
    /\ pc[p] \in Writing
    /\ LET receipt == ReceiptAt(p, pc[p])
       IN  IF Publishable(store, receipt)
           THEN store' = WriteReceipt(store, receipt) /\ Leave(p, PointerOf(pc[p]))
           ELSE UNCHANGED store /\ Leave(p, "conflict")
    /\ UNCHANGED <<environment, results, commit, evaluation, crashes>>

PublishPointer(p) ==
    /\ pc[p] \in Pointing
    /\ store' = SelectReceipt(store, ReceiptAt(p, pc[p]))
    /\ Leave(p, AfterPointer(pc[p]))
    /\ UNCHANGED <<environment, results, commit, evaluation, crashes>>

\* Mutant of Commit: the result is not the one on record but the machine's.
CommitUnrecorded(p) ==
    /\ Goto(p, "commit", "finish")
    /\ commit' = [running |-> Len(store.chain), result |-> environment]
    /\ UNCHANGED <<environment, store, results, evaluation, lock, observed, crashes>>

\* The commit binds the running receipt, by its place in the chain, and the
\* passing result it references.
Commit(p) ==
    /\ Goto(p, "commit", "finish")
    /\ commit' = [running |-> Len(store.chain), result |-> observed[p]]
    /\ UNCHANGED <<environment, store, results, evaluation, lock, observed, crashes>>

\* The evaluation reads the chain without the lock, proves it and publishes.
Evaluate(p) ==
    /\ pc[p] = "idle"
    /\ PhaseOf(store) = "terminal"
    /\ IF Verified /\ evaluation \in {None, commit.result}
       THEN evaluation' = commit.result /\ UNCHANGED pc
       ELSE UNCHANGED evaluation /\ pc' = [pc EXCEPT ![p] = "conflict"]
    /\ UNCHANGED <<environment, store, results, commit, lock, observed, crashes>>

\* The process dies; the lock goes with it. The operator may start it again.
Crash(p) ==
    /\ pc[p] \notin {"idle", "conflict"}
    /\ crashes < MaxCrashes
    /\ crashes' = crashes + 1
    /\ Leave(p, "idle")
    /\ UNCHANGED <<environment, store, results, commit, evaluation>>

ExecutionStep(p) ==
    \/ Lock(p) \/ Reconcile(p) \/ Inspect(p) \/ Running(p) \/ UseRecorded(p)
    \/ Probe(p) \/ PublishResult(p) \/ Validate(p) \/ Decide(p) \/ PublishReceipt(p)
    \/ PublishPointer(p) \/ Commit(p)

Next ==
    \/ ChangeEnvironment
    \/ \E p \in Executors : Execute(p) \/ ExecutionStep(p) \/ Evaluate(p) \/ Crash(p)

\* A started execution goes on until it returns, raises or dies, and operators
\* try again.
Fairness ==
    \A p \in Executors : WF_vars(Execute(p)) /\ WF_vars(ExecutionStep(p))

Spec == Init /\ [][Next]_vars /\ Fairness

-----------------------------------------------------------------------------
(* Properties.                                                             *)

\* A recovery is committed from evidence: the committed result passed, was
\* recorded by the running receipt the commit binds before it was committed,
\* a halted transaction never commits, and whatever is terminal or evaluated
\* proves that one result.
RecoveryProven ==
    /\ commit # None =>
          /\ commit.result \in Good \cap results
          /\ store.chain[commit.running].phase = "running"
          /\ commit.result \in store.chain[commit.running].refs
          /\ \A i \in 1 .. Len(store.chain) : ~store.chain[i].halted
    /\ PhaseOf(store) = "terminal" => Verified
    /\ evaluation # None => PhaseOf(store) = "terminal" /\ evaluation = commit.result

\* Deaths and concurrent executions never leave the transaction ambiguous: no
\* execution or evaluation meets a conflicting receipt, commit or evaluation.
NeverConflicting == \A p \in Executors : pc[p] # "conflict"

\* A repaired environment is recognised: if the machine stays good the
\* transaction ends committed, unless it was halted before.
RepairRecognised ==
    [](([](environment \in Good)) =>
         <>(PhaseOf(store) = "terminal"
              \/ (PhaseOf(store) = "running" /\ Halted)))

=============================================================================
