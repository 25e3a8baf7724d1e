# TLA+ models of the VFX harness

The harness turns a brief into an accepted Blender shot. Planning, building and
judging are done by long, paid, failing model sessions; what makes the result
trustworthy is the durable state under `shots/<shot>/`, which several processes
read and write: planner, materializer, builder, the operator's commands and the
recovery command. These modules model that durable state and its protocols.
Paths below are relative to `src/vfx_harness/`.

## Inventory

| Part | State | Operations | Interacts with | Hard behaviour | Properties that make it correct |
|---|---|---|---|---|---|
| Work-unit state (`orchestration/unit_state*.py`, `domain/unit_attempts.py`, `unit_completion_*`) | `state/work-units/layer_N.json`: status, active attempt, checkpoint, receipt, lineage and history of every unit; finalization slot | claim for planning, promote, freeze, evaluate, complete, fail, record a finding, block dependents, invalidate, retry | builder, operator commands, authority transitions | three actors, long unlocked work between transactions, stale memory, crashes | dependency order, acceptance on current inputs, exact lineage, no revival, nothing wedged |
| Builder driver (`agents/builder/layer.py`, `unit_failure.py`) | claim, authorization, passed units, prepared evaluation, all in memory | the loop over ready units; layer finalization | unit state, execution fence | dies anywhere; everything it holds may be stale | what it leaves behind can be resumed |
| Layer finalization (`layer_finalization_*.py`, `layer_prior_chain.py`) | claim, terminal receipt, revision, predecessor rows; outcome and ledger projections | claim, complete, publish, release, archive, preserve | unit state, earlier layers | composed for hours outside any lock; an earlier layer changes meanwhile | covers exactly the present acceptances; the published rows form one chain |
| Effects compiler (`authority_state_effects.py`, `authority_state_successor_state.py`) | none | seeds, closure, preserved units, replay prefix, after images | plan capsules, unit state, prior head | A to B to A, dropped edges, removed units, broken prefix | preserves exactly what may be preserved |
| Authority-state transaction (`authority_state_{preparation,transaction,recovery,store,context,live_validation}.py`) | plan pointer, JIT pointer, state files, coordinator head, pending pointer | prepare, commit, recover, validate | both publishers, every reader | death between any two writes, twice | one generation for readers, roll-forward only, no lost mutation |
| Plan and JIT publication (`plan_authority.py`, `jit_materialization/`) | base selection, attested intent | start, stage, publish | the transaction | stale bases, stale attestations, edited inputs | one successor per base |
| Accepted-build index (`shot_ledger_v2_derivation.py`) | the head revision it was derived for | republish | the transaction, readers | death after the WAL is gone | catches up |
| Locks of a shot (`authority_selection_transaction.py`, `unit_state_lock.py`, `shot_ledger_*`) | process mutex, record lock, fork barrier, state and ledger flocks, output, candidate, resolution and payment locks | nested acquisition, release, unwinding | everything | nested orders, shared modes, sibling threads that one record lock does not separate, deaths | the selection is exclusive, no circular wait |
| Builder execution fence (`builder_execution_fence.py`) | semaphore set found by path, root flock, lease | claim, probe, arm, lease an operation, clean up | builder, operator commands | interruption between two system calls, kernel undo, renamed directory | one builder per directory; what the kernel holds belongs to a claimant, or to a live process an exception left with it |
| Run lifecycle (`observability/run_owner_*.py`, `run_owner_boundary.py`, `run_terminalizer.py`, `run_owner_loss_reconciler.py`) | owner claim, fence, status, interruption sources, receipt, evaluation | acquire, run, stop, fail, interrupt, reconcile | signals, forked children, reconcilers | owner dies or is declared dead too early | one terminal status, on complete records |
| Prepared publication (`observability/prepared_publication*.py`) | registry phase, temporary, predecessor, verification | prepare, verify, commit, cancel, discard | every writer of a side file | concurrent replacement, raising rename, owed cleanup | no update lost, no temporary without an owner |
| Run controller (`application/run_controller.py`, `orchestration/controller_state.py`) | dispatch rows, transaction receipts, commit, evaluation, attempts | check caps and causes, dispatch, run the stage, prove, spend | stop envelopes, other runs of the shot | death at any write, caps and attempts read before the lock | decided once, proven, within caps |
| Environment recovery (`application/environment_recovery.py`) | transaction receipts, probe results | execute, evaluate, resume | the machine under it | retry with the same key after a death; the machine changes | committed only from a recorded passing probe |
| Findings projection, judgment debt, consumer views, Blender session | their ledgers and descriptors | see `PROJECT.json` | builder, planner | projections behind the state file | not modelled |
| Plan gate, evidence, evaluation, agents, assets, knowledge, render | documents, images, model sessions | pure analysis and I/O | | | not modelled |

`PROJECT.json` lists every part with its status, the hazards with the line where
each bites, and the source lines of every definition.

## Modules

* `UnitState` is one layer's state file with its builder, the operator and the
  authority transition. Each transaction of the code is one action: it runs
  under the selection lock and the layer's state lock and ends in one atomic
  file replacement. Between transactions the builder only has its memory
  (`bSel`, `bAuth`, `bPassed`, `bClaim`, `bEval`, `bFin`), which may be stale; an
  exception and a crash are both `StopBuilder`. `complete_unit_attempt` is two
  actions, since it reads the evaluation unlocked between them, and so are a
  failure and the blocking of its dependents. `basis` is a history variable: the
  receipts of the dependencies when the unit was claimed. `superseded` units
  leave the file, so their status is `"absent"` and their claims stay in
  `archive`. The terminal receipts of the earlier layers, which a finalization
  of this one names, are one value, `prior`: an invalidation over there takes it
  away at any time, and a builder that finalizes those layers again puts another
  in its place.
* `IncrementalBuild` is what that state file promises: attempts may take hours
  and be overtaken, yet a result is accepted in one step, on the results its
  dependencies have at that moment; whatever takes a result back takes those
  built from it; a new plan keeps only what it would build in the same way; the
  layer is closed on the results it has. `UnitState` implements it: a result is
  the attempt of a receipt, `inputs` are the attempts in `basis`, the attempts
  that ended are `archive`, and the layer is closed by the terminal receipt.
* `LayerChain` is the sequence of layers above it. A layer's units are accepted
  as a whole; the subject is the predecessor rows: a claim and a terminal
  receipt name the receipt of every earlier layer, an invalidation or a plan
  publication may remove one at any time, and the builder, holding rows it
  captured earlier, claims, completes and publishes the outcome and the ledger.
  A receipt is represented by its attempt number.
* `AuthorityState` is the write-ahead transaction of the whole shot. Both modes
  of the selection lock are one exclusive record lock, so a reader, a mutation
  or a preparation is one action, while a commit and a recovery are one action
  per durable write, and `Crash` may come before any of them. A state file is
  abstracted to the transition that created it, its layer digest, its revision
  and whether it holds an attempt or claim to revoke. Content-addressed records
  are values: writing one twice changes nothing.
* `AuthoritySwitch` is what that protocol promises: files and head switch at
  once, nobody reads during the switch, and a switch completes.
  `AuthorityState` implements it: the switch happens when the pending pointer
  is published.
* `ShotLocks` justifies the atomic steps of the modules above. An operation is a
  sequence of acquisitions and releases of the shot's locks, in the nesting of
  the code, with blocking, trying, shared and exclusive modes. The order the
  code follows is candidate, output or fence; then the selection (process mutex,
  then record lock); then states in path order; then ledger, resolutions or
  payments. Readers that take states without the selection take them in the same
  order, and the order of layer numbers is the order of paths.
  `record_payment_attempt_failure` takes the payments lock before the selection,
  but production code reaches it only inside the selection, where it re-enters.
* `BuilderFence` is the fence under which one builder or operator command works.
  Every system call that takes or gives back is a step; the reads and writes of a
  set under its mutex are one. A death or an exception may come between any two
  steps, and the directory under the shot's path may be replaced. `Interrupt` is an
  exception that some clause makes good, `Strand` one in the windows where none
  does: after the semaphore call that takes the initialization mutex and before
  the `try` below it, or in that `try`'s `finally` while no cleanup is armed; in
  `_release_if_unowned` after the lease is marked released; in `_release_owned`
  after its fields are cleared. The process lives on, may claim again, and what
  it was left with goes back when it exits (`stranded`).
* `RunLifecycle` is one run directory: acquisition with its two checks of the
  claim, fork inheritance of the fence, the running status, the ways a run ends
  (passed, stopped, failed, interrupted) and the reconcilers that close a run
  whose owner is gone. Each durable write is an action. A record is represented
  by the process that wrote it.
* `TransactionReceipts` is the receipt store that the next two share: a chain of
  receipts, the file written before its pointer, and the orphan a death leaves
  between the two writes.
* `RunController` is the dispatch of a stop as a transaction, for several runs of
  one shot: caps and spent causes are read before the key's lock, the stage runs
  outside the controller's view, the commit, evaluation, attempt and ledger row
  are separate writes. The ledger rows of a run are the sequence of the layers it
  dispatched, and `staged`, a history variable, that of the stages paid for.
* `EnvironmentRecovery` is one transaction key executed and evaluated by several
  processes while the machine's probe results change.
* `PreparedPublication` is the compare-and-swap of one side file. A file is its
  inode and the updates in it; the read, the staging and the verification take no
  lock, and the two comparisons, the policy and the rename are separate steps
  under it.
* `MergedFile` is what that publication promises: an update joins the file in one
  step, and a writer whose publication returned finds its update there for ever.
  `PreparedPublication` implements it: the merge happens at the rename.
* `MC*` modules give the constants values for TLC; `*Proofs` hold the theorems.

`UnitState!PublishAuthority` and `AuthorityState!Mutate` are the two sides of
one seam: the first treats the transaction of the second as one step, which
`ImplementsAtomicSwitch` justifies, and the second treats any transaction of the
first as the next revision of a file. `LayerChain!AcceptUnits` stands for a whole
behaviour of `UnitState`, and its single builder for `BuilderFence`.

## Runs

| Run | Instance | Distinct states | What it shows |
|---|---|---|---|
| `unit_state` | chain of 3 units, plans A, B, C that rewire a dependency, rewrite a unit or drop one; 3 selections, 2 attempts of the first unit and 1 of the others, 1 finalization; earlier layers that lose and regain their receipts without bound, 2 digests of them | 1,522,595 | every contract of the state file under builder, operator and plan changes; refinement of `IncrementalBuild` |
| `unit_state_falsified` | the same module, 1 selection | | divergence, below |
| `authority_state` | 2 layers (one changes, one comes and goes), 2 publishers, 2 heads, 2 deaths, 1 input edit, fairness | 956,233 | readers see one generation; recovery always knows the sides; one outcome per WAL; no lost mutation; refinement of `AuthoritySwitch` with its liveness; the index catches up |
| `layer_chain` | 3 layers, 2 deaths, failed verdicts, invalidations or publications in any mixture, fairness | 79,622 | local row checks imply the whole chain; a transition keeps only what the next one accepts; the chain is published in the end |
| `shot_locks` | 3 threads, two of them siblings, 2 layers; no bound on operations, exceptions or deaths | 907,981 | the selection is exclusive; no circular wait |
| `builder_fence` | 2 builders, 2 directories, 2 probes, 2 operations; no bound on interruptions, deaths or renames | 1,737,342 | one builder per directory; the fence recovers from all but what it states |
| `run_lifecycle` | a driver and a direct command with one run id, 2 reconcilers, 2 owner faults, 1 reconciler fault, fairness | 139,112 | a run ends once, with intact records; an abandoned one is closed except in two named cases |
| `run_lifecycle_lost` | the same | | divergence, below |
| `run_controller` | 2 runs, 3 causes on 2 layers, caps 2 and 1, 3 authorities, 2 deaths | 496,409 | decided once and proven; a receipt left by a death never blocks its key; stages within caps |
| `run_controller_cause` | 2 runs, 1 cause, 1 death | | divergence, below |
| `environment_recovery` | 2 executors, 2 passing, 1 failing and 1 foreign result, 2 deaths, fairness | 20,976 | committed only from one recorded passing probe; a repaired machine is recognised |
| `prepared_publication` | 3 writers and a foreign program, 4 files created, 1 death | 1,233,265 | refinement of `MergedFile`, so no update is lost or told before it is in; no temporary without an owner |

Bounds. Three selections give A to B to A; the second attempt gives
re-acceptance after a revocation and a stale claim next to a fresh one; a second
death falls inside the recovery from the first. Two layers after a broken one
are the least in which a later receipt stands on a middle one that stands on the
broken one. Three threads, two in one process, are the least in which a sibling
can drop the process's record lock while another process waits. Two builders
that claim again without bound are enough for the fence: the claim of one is
removed by the other, and either may be the next claimant; the theorems are about
any number. Two digests for the earlier layers' receipts tell a present one from
the one a claim, a receipt or the builder remembers. Two causes on one layer and one on another separate the per-layer
cap from the total. Every bound (`Max...`, `Probes`) is a guard of the single
action it counts and nothing else.

Two heads are enough in `authority_state` for its liveness; its safety
properties are proved for any number of them. The instances were chosen so that
each property has a mutation of the model, recorded in `PROJECT.json`, that TLC
refutes with it.

Symmetry is used for writers, sibling threads, interchangeable runs, the digests
of earlier layers' receipts, and builders and directories; no run that checks liveness uses any.

`TypeOK` is checked in the run of `UnitState`. Every module's type invariant is
proved, and the other runs do not repeat theirs.

Deadlock checking is off in `prepared_publication` (every writer may be done) and
in the runs of `RunLifecycle` and `RunController` (every process may have ended),
and on elsewhere: some operator command, plan change, new attempt or recovery is
always possible.

Fairness.

* `AuthorityState`: whoever holds the lock goes on writing unless it dies
  (`WF(RollForward)`; deaths are bounded). The recovery command is run again
  after a death (`WF(RecoverPending)`, `WF(RecoverCurrent)`): readers refuse
  everything and name that command while a WAL is selected, so nothing else can
  go on. Edited inputs are put back (`WF(RestoreInputs)`): while they differ the
  evaluation cannot succeed, and publishing a plan for the edited inputs is
  refused as well because the old head must resolve first.
* `RunLifecycle`: a starting owner goes on acquiring, a forked child closes the
  inherited fence (it does so first thing after the fork), and a reconciler that
  is started goes on. Nothing is assumed of an owner that runs.
* `EnvironmentRecovery`: an executor goes on, and the operator repeats the
  command the stop names.
* `LayerChain`: the builder goes on (`WF`). The first unpublished layer is
  entered, a stuck one is invalidated and a dead builder's claim is released
  with strong fairness, because each needs the fence, which others take and give
  back in between.
* No fairness in the other modules. In `ShotLocks` neither a `flock` nor a
  `threading.Lock` keeps a newcomer from overtaking, so no thread is promised
  its turn; that nobody waits in a circle is a safety statement and is checked
  as one.

### Divergences

* `unit_state_falsified`. `unresolved_falsification` and the builder say that a
  falsified unit has exactly one legal successor, `superseded`, published by a
  reviewed authority transaction. `invalidate_checkpoint` does not look at the
  status: `vfx units invalidate` makes the unit `retryable`, and a falsified
  dependent `blocked`, under the same selection.
* `run_lifecycle_lost`. The loss of an owner is said to be deterministically
  reconcilable. A reconciler archives its own manifest under one fixed
  create-only name before it publishes its receipt; when it dies between the
  two, every later reconciler has another manifest, is refused, and the run stays
  `running`. `AbandonedCloses` is the liveness that does hold: it excepts this
  case and that of a manifest replaced after the claim.
* `run_controller_cause`. A comment says that a fingerprint dispatched anywhere
  in the shot's life is refused. The attempt that spends it is written after the
  commit and read before the lock, and the key binds the authority, so a second
  run between those two writes, or any run after a death between them, dispatches
  the same cause again. `DecidedOnce` and `StagesWithinCaps` hold nevertheless.

`builder_fence` states exclusion per directory on purpose. The live identity
alone does not exclude two owners. A set removed between the lookup and the
mutex gives `EINVAL`, which `builder_execution_fence.py:431` answers with the
next probe, where another set can be claimed. And a claimant interrupted after
arming its cleanup gives the initialization mutex back before it removes the
set, so that another may have claimed the set it removes. In one directory the
root flock stops the second builder; only when the directory has been renamed and
recreated do two builders work at once, each in its own.

`FenceRecovers` leaves out the stranded on purpose. The docstring of
`builder_execution_fence` says that normal close, exception unwinding or process
exit releases the kernel lock. Of exception unwinding that is so except in the
windows of `Strand`: there a process that goes on living can refuse every builder
after it, itself included, until it exits. In all other windows, and after every
exit, nothing is left.

`NothingWedged` and `AcceptanceAuthorizable` depend on the earlier layers where the
code does. Once an earlier layer has another terminal receipt, or none, a
finalization claim cannot be released (`_require_predecessors_in_state`), and a
terminal receipt made on the old one refuses every authority transition (`stale
predecessor inputs` in `_effective_before_bindings`). Invalidating the layer gets
out of both; `LayerChain` has the liveness of that (`ChainCompletes`).

## Proofs

`UnitStateProofs`, for every set of units, plans and dependency graph that meets
the assumptions of `UnitState`: dependencies stay in the layer and are acyclic
(`validate_unit_dag`) and a unit digest covers `depends_on`.

* `TypeCorrect`. `TypeInv` adds what the builder holds at each point of its loop.
* `DependencyOrder`, `AttemptsAreCurrent`. `OrderInv` adds that a unit has a
  status exactly when the plan has it. `DependencyClosed` is not inductive
  alone: that completing or failing an attempt is harmless needs its unit to be
  in flight (`AttemptIsCurrent`); that revoking is harmless needs the closure
  computed by `downstream` to contain its seeds and every dependent of a member
  (`DownstreamHasSeeds`, `DownstreamClosed`); that a plan change is harmless
  needs a preserved unit to have preserved, unchanged dependencies
  (`PreservedDeps`, which uses that the digest covers `depends_on`).
* `AcceptedInputsAreCurrent`. `InputsInv` adds that `basis` of a claimed unit is
  a function on its dependencies; a dependency's receipt can only change
  together with its status, and then `OrderInv` says no dependent is accepted or
  in flight.
* `ReceiptsAreNeverRevived` from the same invariant.
* `LineageIsExact`. `LineageInv` adds that every revision in the history is older
  than the live one, so that archiving never repeats a number.
* `CheckpointsAreOwned`. `CheckpointInv` adds that only accepted units have a
  receipt: a retry or an invalidation that forgot to clear one would let the next
  attempt complete on it.
* `AcceptanceStaysAuthorizable`, `FinalizationsCover`, `NothingIsWedged` from
  `AcceptInv`: a receipt is its unit's own, for the digest the plan has now, and
  was minted under this selection or is adopted by its head (`ReceiptsStand`); the
  same of a terminal finalization, which no claim coexists with
  (`FinalizationStands`). A plan change is the hard case: what it preserves it
  adopts, what it does not it revokes, and it archives every finalization it does
  not adopt. The first and the last speak of this layer's own records: they promise
  nothing of a finalization whose predecessor rows are no longer the earlier
  layers' receipts.
* `StateImplementsBuild`: every transaction is a step of `IncrementalBuild` or
  gives attempts up. An acceptance is one on the results in place although its
  claim and its evaluation are hours old: the dependencies are accepted
  (`OrderInv`), their receipts are those of `basis` (`InputsInv`), and the attempt
  is new because history and live revision never meet (`LineageInv`). An
  invalidation keeps a set closed under dependencies because `downstream` is
  closed under dependents; a plan change because of `PreservedDeps`, and a
  terminal receipt that it preserves covers the same results, since then no unit
  was revoked.
* `BlockingIsLegal`. `BlockingInv` adds that the unit whose failure a builder has
  recorded is not accepted as long as the builder's selection stands
  (`FailureStands`); then no dependent of it, at any distance, is in a state that
  must not be blocked (`DependencyClosed` along the closure).

`AuthorityStateProofs`, for every number of layers, views, publishers, heads and
deaths, from one invariant `WalInv`: every prepared intent is `Sound` (its
successor is a coherent generation and no file goes back), the lock is held
exactly while writes are due, and while a WAL is selected every member is on a
recorded side and the writes done so far are done (`Recoverable`, `Progress`).
`CoherentWhenReadable` needs `Sound` at the moment the WAL is removed;
`RecoveryNeverGuesses` needs it that nobody but the holder writes.

* `ReadersSeeOneGeneration`, `RecoveryAlwaysPossible`, `WalHasOneOutcome`,
  `MutationsAreNeverLost`.
* `ImplementsAtomicSwitch`: every step is a step of `AuthoritySwitch` or
  invisible to it.

`ShotLocksAndFilesProofs` has the two protocols that every writer of a shot goes
through.

* Locks, for every number of layers and all threads and processes, without
  assumptions on either. An operation is a sequence of steps, and what it does to
  the locks a thread holds depends on how deep it is nested, so the proof gives
  every lock a rank (`Rank`) and every operation a course: `Runs(s, p, e)` says
  that the steps `p` take a thread that holds `s` to hold `e`, and that each of
  them acquires a lock of a greater rank, or re-enters one it holds, or gives the
  latest back. `Safe(p, r, sel)` says so from every `s` below rank `r` (that has
  the selection, if `sel`), which composes: a lemma for each way to build a
  program (`SafeThen`, `SafeWithin`, `SafeSelection`, `SafeAllStates`, ...) and
  `OperationsRun` for all operations. The inductive invariant `IInv` is that each
  thread is on a course that ends with nothing held (`OnCourse`), and that mutex,
  states and record lock exclude whom they should.
  `NobodyWaitsInACircle`: a waiting thread wants a lock of greater rank than all
  it holds, or a state or record lock it has, which it does not wait for
  (`WaitsInOrder`); in a circle of waits the thread that wants the greatest rank
  would wait for one that wants a greater.
  `TheSelectionExcludes`: the record lock belongs to the process, and any thread
  of it that closes a descriptor drops it. It is taken under the process's mutex
  only (`Legal`), so that no sibling holds it at that moment.
* Files, for every number of writers, files and deaths, from `FileInv`. Payloads
  are merged without a lock. The heart is `StagedMerges`: as long as the
  destination is still the inode a writer read, the writer's payload is exactly
  the updates in the destination and its own. The rest keeps that true: inodes
  are used once, so a temporary never was the destination and the file cannot
  return to an inode somebody read (`InodesUsed`); a writer past the comparison
  holds the lock, which has one holder (`LockHeld`, `OneOwner`); the step of a
  writer and its phase in the registry agree (`PhasesFollow`).
  `FilesMergeAtomically` is the refinement: the rename adds one update to the
  file, and only a writer whose update is in it returns (`Returned`).
  `NoUpdateLost` and `TemporariesOwned` follow from the same invariant. It
  assumes what the module says of its surroundings: foreign programs keep the
  updates in the file, and lock file and directories stay.

`LayerChainProofs`, for every number of layers and every `Descendants` that
points to later layers and is transitive, as digests that cover digests are.
`RowsStandOnEachOther` compares rows with receipts, and neither a row nor a
receipt stays what it was when it was captured. `Coherent` says of every prefix
in memory, in a claim or in a receipt: each row is the number of an attempt that
has ended, and those rows that are current stand on one another. It is inductive
because attempt numbers are used once (`Numbered`): a row that is current now is
the receipt that was captured, with the same prefix. `RowsStand` follows at
once. `TransitionsCompare` rests on `ProjectedRows`: what a publication keeps of a
layer is decided by what it keeps of the earlier ones, so that one consistent
choice exists, and every receipt kept is current on rows that are adopted.

`BuilderFenceProofs`, for every number of builders, directories and probes. What
the kernel holds for a builder is what that builder still gives back: the mutex
of a set is held by one between taking it and its finally clause
(`MutexAccounted`), a claimed semaphore by one with its cleanup armed for that set
(`ClaimAccounted`), a root by one with a lease for it (`FlockAccounted`), each of
them unless an exception stranded the builder; operations run only under a lease
(`WorkCovered`). A step of one builder leaves
the others undisturbed (`OthersAccounted`), though it may remove the set they
claimed. `OneBuilderInARoot` needs the flock only, as argued above;
`TheFenceRecovers` needs all of it.

`RunLifecycleProofs`, for every number of owners, reconcilers and faults. Whoever
is past the fence holds it, so that what it read of the run is still so (`FenceAccount`, `StatusAccount`), and what it is about to cite or
select it has written (`MintingAccount`, `SummaryAccount`). `OwnerLossIsReal`,
`ReceiptStaysComplete` and `SelectedRecordsIntact` are parts of `IInv`;
`SelectionIsFinal` is proved of each step from it.

`RunControllerProofs`, for every number of runs, causes, publications and deaths
and all caps. `KeySound` says what is on disk under a key whoever left it: the
receipts follow one course, a file without pointer is the next on it, and the
commit, the evaluation and the spent cause each have what they rest on.
`RunSound` says where the run that holds the key stands with it, and `Frame` that
no step of another run can touch that. `LedgerSound` relates the stages paid for
to the ledger: a run has a row for every stage, or will have with the stop in
hand, for which the caps left room. That a key never blocks its next run
(`KeysAreNeverBlocked`) says that no refusal of a conflicting record can be
reached from `KeySound`.

`EnvironmentRecoveryProofs`, for every number of executions, results and deaths.
The chain may be of any length, since every new result adds a running receipt.
`StoreSound` says that its receipts reference published results of which one
passes at most, that only the last may be halted or terminal, that a file without
pointer is a receipt that may follow (`Follows`), and that a commit binds the last
running receipt and a passing result in it. `HolderSound` says where the execution
that holds the lock stands. One passing result at most is what makes resuming
unambiguous: a machine is only probed while none is on record.
`RecoveriesAreFinal` is an action property that is proved and that no run checks:
the chain of selected receipts only grows, and a published result, a commit and an
evaluation, once there, stay whichever executions follow.

Assumptions on constants, besides those named: `None` is not one of the records it
is used next to, bounds are natural numbers, the set of builders is finite (set
ids are counted), and results of a probe either pass, fail or are another probe's.
Each is an `ASSUME` of the module, evaluated in its run.

Inductions over layers (`KeptExists`) are written as arguments about a least
counterexample, since the library's induction schemes take an operator. Counting
in ledgers is by the cardinality of positions (`CountAppend`).

Only model-checked:

* liveness (`IndexCatchesUp`, completion of a switch, `AbandonedCloses`,
  `RepairRecognised`, `ChainCompletes`), since fairness is out of the prover's
  reach. Everything else that a passing run checks is also proved.

## Limits

* What a build, an evaluation, a critic, a probe or a stage decides is
  nondeterministic.
* Content hashes are compared, never computed; two different contents never
  collide.
* The migration of old digest schemas and legacy pointers is left out.
* `PreparedPublication` tracks the updates of the writers. A program outside the
  protocol keeps them; what else it writes between the last comparison and the
  rename is overwritten, by the model as by the code.
* Locks: rebound lock paths, upgrades of a shared lock and the state a forked
  child inherits are left out of `ShotLocks`; the fork of an owner is in
  `RunLifecycle`. In `BuilderFence` an exception in `operation` between its count
  and its `try` is an operation that does not end.
* `UnitState` leaves out a finding about an accepted unit (`preserve_accepted_source`
  of `record_hypothesis_falsification`): it is recorded while every unit is passed
  and moves none. The earlier layers' receipts are one value; which layer lost its
  own is told in `LayerChain`.
* `RunLifecycle` lets a failure stop at an existing different stop envelope, as
  `terminalize_failure` does; such a run stays `running` until it is reconciled.

## Not modelled

* Falsification ledger and stop envelopes: the state-file half of a finding is in
  `UnitState`; the projection is rebuilt from it.
* Consumer views, judgment debt, the Blender session's line protocol: protocols
  of their own beside the authority state, candidates for further modules.
* Scene operations in the worker, prompts, guardrails and model sessions: what
  they decide enters the models as a free choice.
* Plan gate, evidence, graders, evaluation, acceptance, final render, assets,
  knowledge: pure functions over documents and images, or I/O. They are most of
  the repository's lines, and a model checker has no interleaving to explore in
  them.

## Plan

1. `UnitState`, `AuthorityState`, `AuthoritySwitch` and their first proofs: done.
2. Chain of layers, locks, builder fence, run lifecycle, prepared publication
   with its proof, run controller, environment recovery: done.
3. Proofs of every safety and action property of the runs, and of the three
   refinements (`IncrementalBuild`, `MergedFile`, and `AuthoritySwitch` without its
   liveness): done.
4. Models: the Blender session protocol, consumer views, judgment debt.
