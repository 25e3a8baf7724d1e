---------------------------- MODULE AuthorityState ----------------------------
(***************************************************************************)
(* The authority-state transaction of one shot: the plan pointer, the JIT  *)
(* pointer, the work-unit state file of every layer and the coordinator    *)
(* head move together under a write-ahead pending pointer                  *)
(* (orchestration/authority_state_preparation.py, _transaction.py,         *)
(* _recovery.py, plan_authority.py, jit_materialization/publish.py).       *)
(*                                                                         *)
(* The selection lock is one exclusive record lock in both of its modes    *)
(* (authority_selection_transaction.py), so what happens outside a commit  *)
(* or a recovery is atomic: a reader, a unit-state mutation, a preparation.*)
(* A commit and a recovery hold the lock over many durable writes; each    *)
(* write is one action, and the process may die before any of them.        *)
(* Immutable content-addressed records (intent, commit, evaluation) are    *)
(* values here: installing one again changes nothing.                      *)
(***************************************************************************)
EXTENDS Naturals

CONSTANTS
    Layers,           \* layer ids
    Views,            \* plan bundles and JIT views, by content hash
    Digests,          \* layer capsule digests
    Digest,           \* Digest[v][l]: capsule digest, None: l has no units in v
    Publishers,       \* planner and materializer processes
    None,             \* the absent value
    MaxRevision,      \* bound: coordinator head revisions
    MaxStateRevision, \* bound: revisions of one state file
    MaxCrashes,       \* bound: deaths of a process that holds the lock
    MaxInputChanges   \* bound: edits of the authored inputs

ASSUME DigestType ==
    /\ Digest \in [Views -> [Layers -> Digests \cup {None}]]
    /\ None \notin Digests

ASSUME BoundsAreNaturals ==
    {MaxRevision, MaxStateRevision, MaxCrashes, MaxInputChanges} \subseteq Nat

VARIABLES
    planPtr,       \* plans/current.json: [rev, view], or None
    jitPtr,        \* state/jit-layers/current.json: [rev, view], or None
    member,        \* member[l]: bytes of the layer's state file, or None
    current,       \* the selected coordinator head, or None
    pending,       \* the pending pointer (the WAL): an intent, or None
    index,         \* head revision shot.json.accepted_build was derived for
    sourcesOk,     \* authored inputs are the ones the bundle was derived from
    holder,        \* who holds the lock over a multi-write transaction
    step,          \* its next write
    todo,          \* the state members it has still to install
    job,           \* job[k]: what publisher k carried out of an earlier lease
    crashes,       \* deaths so far
    inputChanges   \* authored-input edits so far

liveVars == <<planPtr, jitPtr, member, current, pending, index>>
leaseVars == <<holder, step, todo>>
envVars == <<sourcesOk, crashes, inputChanges>>
vars == <<liveVars, leaseVars, envVars, job>>

-----------------------------------------------------------------------------
(* Values.                                                                 *)

Pointers == [rev : Nat, view : Views]
Tokens == [plan : Pointers \cup {None}, jit : Pointers \cup {None}]
\* A state file: the transition that created it, its layer digest (plan_hash),
\* its revision, and whether it holds an active attempt or finalization claim.
Images == [origin : Nat, digest : Digests, revision : Nat, live : BOOLEAN]
StateSets == [Layers -> Images \cup {None}]
Heads == [rev : Nat, token : Tokens, states : StateSets]
Intents == [pred : Heads \cup {None}, before : Tokens, after : Tokens,
            from : StateSets, to : StateSets]
\* A plan publisher remembers its base selection, a materializer the intent
\* its gate attested (None: the publication is a no-op).
Jobs == [kind : {"plan", "jit"}, view : Views, base : Tokens,
         intent : Intents \cup {None}]

\* None is none of the values it stands in for.
ASSUME NoneIsNoRecord ==
    /\ None \notin Pointers
    /\ None \notin Images
    /\ None \notin Heads
    /\ None \notin Intents
    /\ None \notin Jobs
    /\ None \notin {"commit", "recover"}

LiveToken == [plan |-> planPtr, jit |-> jitPtr]
PointerRevision(p) == IF p = None THEN 0 ELSE p.rev
HeadRevision(h) == IF h = None THEN 0 ELSE h.rev
\* The selected view: the JIT view over the plan bundle.
EffectiveView(token) == IF token.jit # None THEN token.jit.view ELSE token.plan.view

\* read_authority_selection_heads: readers refuse while a WAL is selected.
Readable == holder = None /\ pending = None

-----------------------------------------------------------------------------
(* Preparation.                                                            *)

\* _after_state / _new_state: no file for a layer without units; an unchanged
\* layer with nothing to revoke or to retire keeps its bytes; anything else is
\* the next revision with the attempts and the finalization claim revoked.
\* retired: the terminal receipt of the layer does not survive (the receipt of
\* an earlier layer that it was composed on does not).
AfterImage(v, l, before, r, retired) ==
    IF Digest[v][l] = None THEN None
    ELSE IF before = None
    THEN [origin |-> r, digest |-> Digest[v][l], revision |-> 1, live |-> FALSE]
    ELSE IF before.digest = Digest[v][l] /\ ~before.live /\ ~retired
    THEN before
    ELSE [before EXCEPT !.digest = Digest[v][l], !.revision = @ + 1, !.live = FALSE]

PlanToken(v) ==
    [plan |-> [rev |-> PointerRevision(planPtr) + 1, view |-> v], jit |-> None]
JitToken(v) ==
    [plan |-> planPtr, jit |-> [rev |-> PointerRevision(jitPtr) + 1, view |-> v]]

\* prepare_authority_state_transition_locked: the intent that moves the live
\* shot to the token after; the terminal receipts of the layers in retired are
\* not preserved.
Intent(after, retired) ==
    [pred |-> current,
     before |-> LiveToken,
     after |-> after,
     from |-> member,
     to |-> [l \in Layers |->
               AfterImage(EffectiveView(after), l, member[l],
                          HeadRevision(current) + 1, l \in retired)]]

\* The layers an intent moves (state_members).
StateMembers(i) == {l \in Layers : i.from[l] # None \/ i.to[l] # None}

\* The coordinator head a commit of the intent selects.
SuccessorHead(i) ==
    [rev |-> HeadRevision(i.pred) + 1, token |-> i.after, states |-> i.to]

\* prepare_staging: a planning run records the selection it plans against.
StartPlan(k, v) ==
    /\ job[k] = None
    /\ Readable
    /\ sourcesOk
    /\ job' = [job EXCEPT ![k] = [kind |-> "plan", view |-> v, base |-> LiveToken,
                                  intent |-> None]]
    /\ UNCHANGED <<liveVars, leaseVars, envVars>>

\* stage_candidate_view + finalize_materialization_candidate: the materializer
\* prepares the transition, without touching live state, and its gate attests
\* it.  Materializing the selected view again is a no-op.
StageMaterialization(k, v) ==
    /\ job[k] = None
    /\ Readable
    /\ sourcesOk
    /\ planPtr # None
    /\ \E retired \in SUBSET Layers :
          job' = [job EXCEPT ![k] =
                    [kind |-> "jit", view |-> v, base |-> LiveToken,
                     intent |-> IF jitPtr # None /\ jitPtr.view = v
                                THEN None ELSE Intent(JitToken(v), retired)]]
    /\ UNCHANGED <<liveVars, leaseVars, envVars>>

\* The publication is refused (its base is stale) or the process gives up.
Abandon(k) ==
    /\ job[k] # None
    /\ job' = [job EXCEPT ![k] = None]
    /\ UNCHANGED <<liveVars, leaseVars, envVars>>

-----------------------------------------------------------------------------
(* Commit.                                                                 *)

\* Mutant of PredecessorExact: only the selection token is compared.
PredecessorSelected(i) == i.before = LiveToken

\* The pre-WAL checks of the commit: token, predecessor head, exact members.
PredecessorExact(i) ==
    /\ i.before = LiveToken
    /\ i.pred = current
    /\ i.from = member

\* commit_prepared_authority_state_transition_locked up to the publication of
\* the pending pointer.
SelectPending(i) ==
    /\ HeadRevision(current) < MaxRevision
    /\ PredecessorExact(i)
    /\ pending' = i
    /\ holder' = "commit"
    /\ step' = "members"
    /\ todo' = StateMembers(i)

\* publish_current: same base selection, inputs unchanged; the intent is
\* prepared and committed inside this lease.  Publishing the selected bundle
\* again changes nothing.
PublishPlan(k) ==
    /\ job[k] # None /\ job[k].kind = "plan"
    /\ Readable
    /\ sourcesOk
    /\ job[k].base = LiveToken
    /\ job' = [job EXCEPT ![k] = None]
    /\ IF planPtr # None /\ planPtr.view = job[k].view
       THEN UNCHANGED <<pending, leaseVars>>
       ELSE \E retired \in SUBSET Layers :
               SelectPending(Intent(PlanToken(job[k].view), retired))
    /\ UNCHANGED <<planPtr, jitPtr, member, current, index, envVars>>

\* publish_materialization: the attested intent is prepared again under the
\* lease and must come out the same (require_attested_publication).
PublishMaterialization(k) ==
    /\ job[k] # None /\ job[k].kind = "jit"
    /\ Readable
    /\ sourcesOk
    /\ job[k].base = LiveToken
    /\ job' = [job EXCEPT ![k] = None]
    /\ IF job[k].intent = None
       THEN UNCHANGED <<pending, leaseVars>>
       ELSE SelectPending(job[k].intent)
    /\ UNCHANGED <<planPtr, jitPtr, member, current, index, envVars>>

\* _install_after_members, one durable replacement (or removal) at a time.
InstallMember(l) ==
    /\ step = "members"
    /\ l \in todo
    /\ member' = [member EXCEPT ![l] = pending.to[l]]
    /\ todo' = todo \ {l}
    /\ UNCHANGED <<planPtr, jitPtr, current, pending, index, holder, step, envVars, job>>

ReplacePlanPointer ==
    /\ step = "members"
    /\ todo = {}
    /\ planPtr' = pending.after.plan
    /\ step' = "jit"
    /\ UNCHANGED <<jitPtr, member, current, pending, index, holder, todo, envVars, job>>

ReplaceJitPointer ==
    /\ step = "jit"
    /\ jitPtr' = pending.after.jit
    /\ step' = "evaluate"
    /\ UNCHANGED <<planPtr, member, current, pending, index, holder, todo, envVars, job>>

Release == holder' = None /\ step' = "idle" /\ todo' = {}

\* evaluate_authority_state_transition on the live members and the inputs.
Satisfied ==
    /\ LiveToken = pending.after
    /\ member = pending.to
    /\ sourcesOk

\* Mutant of Evaluate: the WAL is removed before the head is selected.
EvaluateSwapped ==
    /\ step = "evaluate"
    /\ IF Satisfied
       THEN pending' = None /\ Release
       ELSE UNCHANGED pending /\ Release
    /\ UNCHANGED <<planPtr, jitPtr, member, current, index, envVars, job>>

\* The commit record and its independent evaluation; when that fails the
\* process raises and the WAL stays selected.
Evaluate ==
    /\ step = "evaluate"
    /\ IF Satisfied
       THEN step' = "head" /\ UNCHANGED <<holder, todo>>
       ELSE Release
    /\ UNCHANGED <<liveVars, envVars, job>>

\* replace_current_bytes; a recovery that finds the successor already selected
\* only compares it.
ReplaceCurrent ==
    /\ step = "head"
    /\ current' = SuccessorHead(pending)
    /\ step' = "unlink"
    /\ UNCHANGED <<planPtr, jitPtr, member, pending, index, holder, todo, envVars, job>>

RemovePending ==
    /\ step = "unlink"
    /\ pending' = None
    /\ step' = "index"
    /\ UNCHANGED <<planPtr, jitPtr, member, current, index, holder, todo, envVars, job>>

\* republish_accepted_build_index; it raises when the inputs moved meanwhile.
RepublishIndex ==
    /\ step = "index"
    /\ index' = IF sourcesOk THEN HeadRevision(current) ELSE index
    /\ Release
    /\ UNCHANGED <<planPtr, jitPtr, member, current, pending, envVars, job>>

\* The process that holds the lock dies, or raises, between two writes.
Crash ==
    /\ holder # None
    /\ crashes < MaxCrashes
    /\ crashes' = crashes + 1
    /\ Release
    /\ UNCHANGED <<liveVars, sourcesOk, inputChanges, job>>

-----------------------------------------------------------------------------
(* Recovery: `vfx recover-authority-state`.                                *)

\* _current_side.
HeadSideKnown(i) == current \in {i.pred, SuccessorHead(i)}

\* _side over every member and both pointers.
SidesKnown(i) ==
    /\ \A l \in StateMembers(i) : member[l] \in {i.from[l], i.to[l]}
    /\ \A l \in Layers \ StateMembers(i) : member[l] = None
    /\ planPtr \in {i.before.plan, i.after.plan}
    /\ jitPtr \in {i.before.jit, i.after.jit}

AllAfter(i) == member = i.to /\ LiveToken = i.after

\* Mutant of RecoveryMembers: trust the members, redo the pointers only.
RecoveryNothing(i) == {}

\* Recovery writes every after image again, installed or not.
RecoveryMembers(i) == StateMembers(i)

\* _recover_pending_authority_state_locked with a WAL, up to its first write.
RecoverPending ==
    /\ holder = None
    /\ pending # None
    /\ HeadSideKnown(pending)
    /\ SidesKnown(pending)
    /\ current = SuccessorHead(pending) => AllAfter(pending)
    /\ holder' = "recover"
    /\ step' = "members"
    /\ todo' = RecoveryMembers(pending)
    /\ UNCHANGED <<liveVars, envVars, job>>

\* require_live_authority_state_generation: pointers, namespace, layer digests
\* and revisions agree with the head.
GenerationValid(h, token, files) ==
    IF h = None
    THEN token = [plan |-> None, jit |-> None] /\ \A l \in Layers : files[l] = None
    ELSE /\ token = h.token
         /\ \A l \in Layers :
               LET baseline == h.states[l] IN
               IF baseline = None
               THEN files[l] = None
               ELSE /\ files[l] # None
                    /\ files[l].origin = baseline.origin
                    /\ files[l].digest = Digest[EffectiveView(token)][l]
                    /\ files[l].revision >= baseline.revision

LiveGenerationValid == GenerationValid(current, LiveToken, member)

\* Mutant of RecoverCurrent: an already current head is only validated.
RecoverCurrentValidates ==
    /\ Readable
    /\ current # None
    /\ LiveGenerationValid
    /\ UNCHANGED vars

\* The same command without a WAL: validate and republish the index.
RecoverCurrent ==
    /\ Readable
    /\ current # None
    /\ LiveGenerationValid
    /\ sourcesOk
    /\ index' = HeadRevision(current)
    /\ UNCHANGED <<planPtr, jitPtr, member, current, pending, leaseVars, envVars, job>>

-----------------------------------------------------------------------------
(* The rest of the system.                                                 *)

\* Mutant of Mutate: the mutation does not look for a WAL.
MutateUnguarded(l) ==
    /\ holder = None
    /\ member[l] # None
    /\ member[l].revision < MaxStateRevision
    /\ \E live \in BOOLEAN :
          member' = [member EXCEPT ![l].revision = @ + 1, ![l].live = live]
    /\ UNCHANGED <<planPtr, jitPtr, current, pending, index, leaseVars, envVars, job>>

\* Any transaction of UnitState on one layer's file.
Mutate(l) ==
    /\ Readable
    /\ member[l] # None
    /\ member[l].revision < MaxStateRevision
    /\ \E live \in BOOLEAN :
          member' = [member EXCEPT ![l].revision = @ + 1, ![l].live = live]
    /\ UNCHANGED <<planPtr, jitPtr, current, pending, index, leaseVars, envVars, job>>

\* Somebody edits the brief or a reference, or puts it back.
ChangeInputs ==
    /\ sourcesOk
    /\ inputChanges < MaxInputChanges
    /\ sourcesOk' = FALSE
    /\ inputChanges' = inputChanges + 1
    /\ UNCHANGED <<liveVars, leaseVars, crashes, job>>

RestoreInputs ==
    /\ ~sourcesOk
    /\ sourcesOk' = TRUE
    /\ UNCHANGED <<liveVars, leaseVars, crashes, inputChanges, job>>

Init ==
    /\ planPtr = None
    /\ jitPtr = None
    /\ member = [l \in Layers |-> None]
    /\ current = None
    /\ pending = None
    /\ index = 0
    /\ sourcesOk = TRUE
    /\ holder = None
    /\ step = "idle"
    /\ todo = {}
    /\ job = [k \in Publishers |-> None]
    /\ crashes = 0
    /\ inputChanges = 0

\* The writes of whoever holds the lock, in the code's order.
RollForward ==
    \/ \E l \in Layers : InstallMember(l)
    \/ ReplacePlanPointer
    \/ ReplaceJitPointer
    \/ Evaluate
    \/ ReplaceCurrent
    \/ RemovePending
    \/ RepublishIndex

Recover == RecoverPending \/ RecoverCurrent

Publish ==
    \E k \in Publishers :
        \/ \E v \in Views : StartPlan(k, v) \/ StageMaterialization(k, v)
        \/ Abandon(k)
        \/ PublishPlan(k)
        \/ PublishMaterialization(k)

Environment ==
    \/ \E l \in Layers : Mutate(l)
    \/ Crash
    \/ ChangeInputs
    \/ RestoreInputs

Next == RollForward \/ Recover \/ Publish \/ Environment

Spec == Init /\ [][Next]_vars

\* A process that holds the lock goes on, the operator runs the recovery
\* command again after a death, and edited inputs are put back.
FairSpec ==
    /\ Spec
    /\ WF_vars(RollForward)
    /\ WF_vars(RecoverPending)
    /\ WF_vars(RecoverCurrent)
    /\ WF_vars(RestoreInputs)

-----------------------------------------------------------------------------
(* Properties.                                                             *)

\* Type invariant of the live members, the WAL, the lease and the jobs.
TypeOK ==
    /\ planPtr \in Pointers \cup {None}
    /\ jitPtr \in Pointers \cup {None}
    /\ member \in StateSets
    /\ current \in Heads \cup {None}
    /\ pending \in Intents \cup {None}
    /\ index \in Nat
    /\ sourcesOk \in BOOLEAN
    /\ holder \in {None, "commit", "recover"}
    /\ step \in {"idle", "members", "jit", "evaluate", "head", "unlink", "index"}
    /\ todo \subseteq Layers
    /\ job \in [Publishers -> Jobs \cup {None}]
    /\ crashes \in Nat
    /\ inputChanges \in Nat

\* Whenever no WAL is selected, whatever crashed or was refused before, both
\* pointers, the namespace and every state file belong to the generation the
\* coordinator head names: a reader never sees a mixed generation.
CoherentWhenReadable == pending = None => LiveGenerationValid

\* A WAL that nobody is carrying out can be rolled forward: recovery never
\* meets "matches neither recorded before nor after identity" nor "successor
\* coordinator head is selected while a live member is not after".
RecoveryNeverGuesses ==
    pending # None /\ holder = None =>
        /\ HeadSideKnown(pending)
        /\ SidesKnown(pending)
        /\ current = SuccessorHead(pending) => AllAfter(pending)

\* Roll-forward only: a WAL is never replaced, and it is removed only with
\* its exact successor in place, head, pointers and files.
SoleSuccessor ==
    [][pending # None =>
          \/ pending' = pending
          \/ /\ pending' = None
             /\ current' = SuccessorHead(pending)
             /\ member' = pending.to
             /\ [plan |-> planPtr', jit |-> jitPtr'] = pending.after]_vars

\* No unit-state mutation is lost: a transition attested before the mutation
\* never installs its older picture of the file over it, and a file's
\* revision only grows while the file exists.
NoLostMutation ==
    [][\A l \in Layers :
          member[l] # None /\ member'[l] # None =>
              /\ member'[l].origin = member[l].origin
              /\ member'[l].revision >= member[l].revision]_vars

\* The protocol is an atomic switch to its readers: the switch happens when
\* the pending pointer is published, and it always completes.
Atomic == INSTANCE AuthoritySwitch WITH
    head <- IF pending = None THEN current ELSE SuccessorHead(pending),
    files <- IF pending = None THEN member ELSE pending.to,
    open <- pending = None

RefinesAtomicSwitch == Atomic!Spec

\* The accepted-build index catches up with the selected head: a death
\* between the removal of the WAL and the republication is made up for.
IndexCatchesUp == current # None ~> index = HeadRevision(current)
=============================================================================
