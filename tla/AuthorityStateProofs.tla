------------------------- MODULE AuthorityStateProofs -------------------------
(***************************************************************************)
(* Proofs about AuthorityState for any number of layers, views, publishers, *)
(* crashes and revisions.  The argument is one inductive invariant, WalInv: *)
(* what a selected WAL guarantees at each of the writes of its roll-forward *)
(* and after a death between any two of them.                              *)
(***************************************************************************)
EXTENDS AuthorityState, TLAPS

-----------------------------------------------------------------------------
(* Types.                                                                  *)

\* A selected view names capsule digests of every layer.
LEMMA DigestOf ==
    ASSUME NEW v \in Views, NEW l \in Layers
    PROVE  Digest[v][l] \in Digests \cup {None}
BY DigestType

\* The pointers of a well-typed state form a token.
LEMMA LiveTokenType == TypeOK => LiveToken \in Tokens
BY DEF TypeOK, LiveToken, Tokens

\* Head revisions are natural numbers.
LEMMA HeadRevisionType ==
    ASSUME NEW h \in Heads \cup {None}
    PROVE  HeadRevision(h) \in Nat
BY DEF HeadRevision, Heads

\* A rewritten state file is a state file.
LEMMA RewrittenImage ==
    ASSUME NEW f \in Images, NEW d \in Digests, NEW n \in Nat, NEW live \in BOOLEAN
    PROVE  /\ [f EXCEPT !.digest = d, !.revision = n, !.live = live] \in Images
           /\ [f EXCEPT !.revision = n, !.live = live] \in Images
BY Zenon DEF Images

\* An after image is a state file or absent.
LEMMA AfterImageType ==
    ASSUME NEW v \in Views, NEW l \in Layers, NEW before \in Images \cup {None},
           NEW r \in Nat, NEW retired
    PROVE  AfterImage(v, l, before, r, retired) \in Images \cup {None}
<1>1. CASE Digest[v][l] = None
  BY <1>1 DEF AfterImage
<1>2. CASE Digest[v][l] \in Digests /\ before = None
  <2>1. [origin |-> r, digest |-> Digest[v][l], revision |-> 1, live |-> FALSE] \in Images
    BY <1>2 DEF Images
  <2>2. QED
    BY <1>2, <2>1, DigestType DEF AfterImage
<1>3. CASE Digest[v][l] \in Digests /\ before # None
  <2>1. before \in Images
    BY <1>3
  <2>2. [before EXCEPT !.digest = Digest[v][l], !.revision = @ + 1, !.live = FALSE] \in Images
    <3>1. before.revision + 1 \in Nat
      BY <2>1 DEF Images
    <3>2. QED
      BY <1>3, <2>1, <3>1, RewrittenImage
  <2>3. QED
    BY <1>3, <2>1, <2>2, DigestType DEF AfterImage
<1>4. QED
  BY <1>1, <1>2, <1>3, DigestOf

\* Publishing a view selects it.
LEMMA NewTokens ==
    ASSUME TypeOK, NEW v \in Views
    PROVE  /\ PlanToken(v) \in Tokens /\ EffectiveView(PlanToken(v)) = v
           /\ JitToken(v) \in Tokens /\ EffectiveView(JitToken(v)) = v
<1>1. PointerRevision(planPtr) \in Nat /\ PointerRevision(jitPtr) \in Nat
  BY DEF TypeOK, PointerRevision, Pointers
<1>2. /\ [rev |-> PointerRevision(planPtr) + 1, view |-> v] \in Pointers
      /\ [rev |-> PointerRevision(jitPtr) + 1, view |-> v] \in Pointers
  BY <1>1 DEF Pointers
<1>3. QED
  BY <1>2, NoneIsNoRecord DEF TypeOK, PlanToken, JitToken, Tokens, EffectiveView

\* A prepared intent is an intent.
LEMMA IntentType ==
    ASSUME TypeOK, NEW after \in Tokens, EffectiveView(after) \in Views,
           NEW retired \in SUBSET Layers
    PROVE  Intent(after, retired) \in Intents
<1>1. HeadRevision(current) + 1 \in Nat
  BY HeadRevisionType DEF TypeOK
<1>2. ASSUME NEW l \in Layers
      PROVE  AfterImage(EffectiveView(after), l, member[l], HeadRevision(current) + 1,
                        l \in retired) \in Images \cup {None}
  BY <1>1, AfterImageType DEF TypeOK, StateSets
<1>3. QED
  BY <1>2, LiveTokenType DEF TypeOK, Intent, Intents, StateSets

\* The head a commit selects is a head.
LEMMA SuccessorHeadType ==
    ASSUME NEW i \in Intents
    PROVE  /\ SuccessorHead(i) \in Heads
           /\ SuccessorHead(i) # None
           /\ SuccessorHead(i) # i.pred
<1>1. i.pred \in Heads \cup {None} /\ i.after \in Tokens /\ i.to \in StateSets
  BY DEF Intents
<1>2. HeadRevision(i.pred) \in Nat
  BY <1>1, HeadRevisionType
<1>3. SuccessorHead(i) \in Heads
  BY <1>1, <1>2 DEF SuccessorHead, Heads
<1>4. SuccessorHead(i) # None
  BY <1>3, NoneIsNoRecord
<1>5. i.pred # None => i.pred.rev # SuccessorHead(i).rev
  BY <1>1, <1>2 DEF SuccessorHead, HeadRevision, Heads
<1>6. QED
  BY <1>3, <1>4, <1>5

\* The initial state is well-typed.
LEMMA InitType == Init => TypeOK
BY DEF Init, TypeOK, StateSets

\* A selected intent and the lease that carries it out are well-typed.
LEMMA SelectPendingType ==
    ASSUME NEW i \in Intents, SelectPending(i)
    PROVE  /\ pending' \in Intents
           /\ holder' \in {None, "commit", "recover"}
           /\ step' = "members"
           /\ todo' \subseteq Layers
BY DEF SelectPending, StateMembers

\* While the writes up to the removal of the WAL are due, a WAL is selected.
WalSelected == step \notin {"idle", "index"} => pending # None

TypeInv == TypeOK /\ WalSelected

\* The writes of whoever holds the lock keep the types.
LEMMA RollForwardType == TypeInv /\ RollForward => TypeInv'
<1> SUFFICES ASSUME TypeInv, RollForward PROVE TypeInv'
  OBVIOUS
<1> USE DEF TypeInv, WalSelected
<1>1. ASSUME pending # None
      PROVE  /\ pending \in Intents /\ pending.to \in StateSets
             /\ pending.after.plan \in Pointers \cup {None}
             /\ pending.after.jit \in Pointers \cup {None}
  BY <1>1 DEF TypeOK, Intents, Tokens
<1>2. ASSUME NEW l \in Layers, InstallMember(l) PROVE TypeInv'
  <2>1. pending.to[l] \in Images \cup {None}
    BY <1>1, <1>2 DEF InstallMember, StateSets
  <2>2. QED
    BY <1>2, <2>1 DEF InstallMember, TypeOK, StateSets, envVars
<1>3. CASE ReplacePlanPointer
  BY <1>1, <1>3 DEF ReplacePlanPointer, TypeOK, envVars
<1>4. CASE ReplaceJitPointer
  BY <1>1, <1>4 DEF ReplaceJitPointer, TypeOK, envVars
<1>5. CASE Evaluate
  BY <1>5 DEF Evaluate, Release, TypeOK, liveVars, envVars
<1>6. CASE ReplaceCurrent
  BY <1>1, <1>6, SuccessorHeadType DEF ReplaceCurrent, TypeOK, envVars
<1>7. CASE RemovePending
  BY <1>7 DEF RemovePending, TypeOK, envVars
<1>8. CASE RepublishIndex
  BY <1>8, HeadRevisionType DEF RepublishIndex, Release, TypeOK, envVars
<1>9. QED
  BY <1>2, <1>3, <1>4, <1>5, <1>6, <1>7, <1>8 DEF RollForward

\* The publications keep the types.
LEMMA PublishType == TypeInv /\ Publish => TypeInv'
<1> SUFFICES ASSUME TypeInv, NEW k \in Publishers,
                    \/ \E v \in Views : StartPlan(k, v) \/ StageMaterialization(k, v)
                    \/ Abandon(k) \/ PublishPlan(k) \/ PublishMaterialization(k)
             PROVE  TypeInv'
  BY DEF Publish
<1> USE DEF TypeInv, WalSelected
<1>1. job[k] # None => job[k] \in Jobs
  BY DEF TypeOK
<1>2. ASSUME NEW v \in Views, StartPlan(k, v) PROVE TypeInv'
  <2>1. [kind |-> "plan", view |-> v, base |-> LiveToken, intent |-> None] \in Jobs
    BY LiveTokenType DEF Jobs
  <2>2. QED
    BY <1>2, <2>1 DEF StartPlan, TypeOK, liveVars, leaseVars, envVars
<1>3. ASSUME NEW v \in Views, StageMaterialization(k, v) PROVE TypeInv'
  <2>1. PICK retired \in SUBSET Layers :
          job' = [job EXCEPT ![k] =
                    [kind |-> "jit", view |-> v, base |-> LiveToken,
                     intent |-> IF jitPtr # None /\ jitPtr.view = v
                                THEN None ELSE Intent(JitToken(v), retired)]]
    BY <1>3 DEF StageMaterialization
  <2>2. Intent(JitToken(v), retired) \in Intents
    BY NewTokens, IntentType
  <2>3. [kind |-> "jit", view |-> v, base |-> LiveToken,
         intent |-> IF jitPtr # None /\ jitPtr.view = v
                    THEN None ELSE Intent(JitToken(v), retired)] \in Jobs
    BY <2>2, LiveTokenType DEF Jobs
  <2>4. QED
    BY <1>3, <2>1, <2>3 DEF StageMaterialization, TypeOK, liveVars, leaseVars, envVars
<1>4. CASE Abandon(k)
  BY <1>4 DEF Abandon, TypeOK, liveVars, leaseVars, envVars
<1>5. CASE PublishPlan(k)
  <2>1. job[k].view \in Views
    BY <1>1, <1>5 DEF PublishPlan, Jobs
  <2>2. \A retired \in SUBSET Layers : Intent(PlanToken(job[k].view), retired) \in Intents
    BY <2>1, NewTokens, IntentType
  <2>3. /\ pending' \in Intents \cup {None}
        /\ holder' \in {None, "commit", "recover"}
        /\ step' \in {"idle", "members", "jit", "evaluate", "head", "unlink", "index"}
        /\ todo' \subseteq Layers
        /\ WalSelected'
    BY <1>5, <2>2, SelectPendingType, NoneIsNoRecord DEF PublishPlan, TypeOK, leaseVars
  <2>4. QED
    BY <1>5, <2>3 DEF PublishPlan, TypeOK, envVars
<1>6. CASE PublishMaterialization(k)
  <2>1. job[k].intent \in Intents \cup {None}
    BY <1>1, <1>6 DEF PublishMaterialization, Jobs
  <2>2. /\ pending' \in Intents \cup {None}
        /\ holder' \in {None, "commit", "recover"}
        /\ step' \in {"idle", "members", "jit", "evaluate", "head", "unlink", "index"}
        /\ todo' \subseteq Layers
        /\ WalSelected'
    BY <1>6, <2>1, SelectPendingType, NoneIsNoRecord DEF PublishMaterialization, TypeOK, leaseVars
  <2>3. QED
    BY <1>6, <2>2 DEF PublishMaterialization, TypeOK, envVars
<1>7. QED
  BY <1>2, <1>3, <1>4, <1>5, <1>6

\* Recovery, deaths, unit-state mutations and input edits keep the types.
LEMMA RestType == TypeInv /\ (Recover \/ Environment) => TypeInv'
<1> SUFFICES ASSUME TypeInv, Recover \/ Environment PROVE TypeInv'
  OBVIOUS
<1> USE DEF TypeInv, WalSelected
<1>1. CASE RecoverPending
  BY <1>1 DEF RecoverPending, RecoveryMembers, StateMembers, TypeOK, liveVars, envVars
<1>2. CASE RecoverCurrent
  BY <1>2, HeadRevisionType DEF RecoverCurrent, TypeOK, leaseVars, envVars
<1>3. ASSUME NEW l \in Layers, Mutate(l) PROVE TypeInv'
  <2>1. PICK live \in BOOLEAN :
          member' = [member EXCEPT ![l].revision = @ + 1, ![l].live = live]
    BY <1>3 DEF Mutate
  <2>2. member[l] \in Images
    BY <1>3 DEF Mutate, TypeOK, StateSets
  <2>3. [member[l] EXCEPT !.revision = @ + 1, !.live = live] \in Images
    <3>1. member[l].revision + 1 \in Nat
      BY <2>2 DEF Images
    <3>2. QED
      BY <2>2, <3>1, RewrittenImage DEF Images
  <2>4. member' \in StateSets
    BY <2>1, <2>3 DEF TypeOK, StateSets
  <2>5. QED
    BY <1>3, <2>4 DEF Mutate, TypeOK, leaseVars, envVars
<1>4. CASE Crash
  BY <1>4 DEF Crash, Release, TypeOK, liveVars
<1>5. CASE ChangeInputs
  <2>1. inputChanges' \in Nat
    BY <1>5 DEF ChangeInputs, TypeOK
  <2>2. sourcesOk' \in BOOLEAN
    BY <1>5 DEF ChangeInputs
  <2>3. QED
    BY <1>5, <2>1, <2>2 DEF ChangeInputs, TypeOK, liveVars, leaseVars
<1>6. CASE RestoreInputs
  BY <1>6 DEF RestoreInputs, TypeOK, liveVars, leaseVars
<1>7. QED
  BY <1>1, <1>2, <1>3, <1>4, <1>5, <1>6 DEF Recover, Environment

\* The type invariant is inductive.
LEMMA TypeInvariant == Spec => []TypeInv
<1>1. Init => TypeInv
  BY InitType DEF Init, TypeInv, WalSelected
<1>2. TypeInv /\ UNCHANGED vars => TypeInv'
  BY DEF TypeInv, TypeOK, WalSelected, vars, liveVars, leaseVars, envVars
<1>3. TypeInv /\ [Next]_vars => TypeInv'
  BY <1>2, RollForwardType, PublishType, RestType DEF Next
<1>4. QED
  BY <1>1, <1>3, PTL DEF Spec

\* Live members, WAL, lease and jobs keep their types.
THEOREM TypeCorrect == Spec => []TypeOK
<1>1. TypeInv => TypeOK
  BY DEF TypeInv
<1>2. QED
  BY <1>1, TypeInvariant, PTL

-----------------------------------------------------------------------------
(* The write-ahead invariant.                                              *)

\* What a prepared intent guarantees of its own successor: it is a coherent
\* generation, and no state file goes back.
Sound(i) ==
    /\ GenerationValid(SuccessorHead(i), i.after, i.to)
    /\ \A l \in Layers : Atomic!Successor(HeadRevision(i.pred) + 1, i.from[l], i.to[l])

\* Every intent that a publisher carries from its gate to its publication.
JobsSound ==
    \A k \in Publishers : job[k] # None /\ job[k].intent # None => Sound(job[k].intent)

\* The lock is held exactly while writes are due.
LeaseInv ==
    /\ holder = None <=> step = "idle"
    /\ pending = None => step \in {"idle", "index"}
    /\ pending # None => step # "index"

\* What a death at any point leaves behind can be told apart and completed.
Recoverable(i) ==
    /\ HeadSideKnown(i)
    /\ SidesKnown(i)
    /\ current = SuccessorHead(i) => AllAfter(i)

\* How far the roll-forward has come.
Progress(i) ==
    /\ step = "members" => \A l \in Layers \ todo : member[l] = i.to[l]
    /\ step = "jit" => member = i.to /\ planPtr = i.after.plan
    /\ step \in {"evaluate", "head", "unlink"} => AllAfter(i)
    /\ step = "unlink" => current = SuccessorHead(i)

PendingInv == pending # None => Sound(pending) /\ Recoverable(pending) /\ Progress(pending)

WalInv == TypeInv /\ JobsSound /\ LeaseInv /\ CoherentWhenReadable /\ PendingInv

\* What _after_state does to one layer's file.
LEMMA AfterImageFacts ==
    ASSUME NEW v \in Views, NEW l \in Layers, NEW before \in Images \cup {None},
           NEW r \in Nat, NEW retired
    PROVE  LET after == AfterImage(v, l, before, r, retired) IN
           /\ after # None => after.digest = Digest[v][l]
           /\ Atomic!Successor(r, before, after)
<1> DEFINE after == AfterImage(v, l, before, r, retired)
<1>1. CASE Digest[v][l] = None
  <2>1. after = None
    BY <1>1 DEF AfterImage
  <2>2. QED
    BY <2>1 DEF Atomic!Successor
<1>2. CASE Digest[v][l] # None /\ before = None
  <2>1. after = [origin |-> r, digest |-> Digest[v][l], revision |-> 1, live |-> FALSE]
    BY <1>2 DEF AfterImage
  <2>2. QED
    BY <1>2, <2>1 DEF Atomic!Successor
<1>3. CASE Digest[v][l] # None /\ before # None
  <2>1. before \in Images
    BY <1>3
  <2>2. CASE before.digest = Digest[v][l] /\ ~before.live /\ ~retired
    <3>1. after = before
      BY <1>3, <2>2 DEF AfterImage
    <3>2. QED
      BY <2>2, <3>1 DEF Atomic!Successor
  <2>3. CASE ~(before.digest = Digest[v][l] /\ ~before.live /\ ~retired)
    <3>1. after = [before EXCEPT !.digest = Digest[v][l], !.revision = @ + 1, !.live = FALSE]
      BY <1>3, <2>3 DEF AfterImage
    <3>2. /\ after.digest = Digest[v][l]
          /\ after.origin = before.origin
          /\ after.revision = before.revision + 1
      BY <2>1, <3>1 DEF Images
    <3>3. QED
      BY <1>3, <3>2 DEF Atomic!Successor
  <2>4. QED
    BY <2>2, <2>3
<1>4. QED
  BY <1>1, <1>2, <1>3

\* A prepared intent is sound.
LEMMA IntentSound ==
    ASSUME TypeOK, NEW after \in Tokens, EffectiveView(after) \in Views,
           NEW retired \in SUBSET Layers
    PROVE  Sound(Intent(after, retired))
<1> DEFINE i == Intent(after, retired)
           r == HeadRevision(current) + 1
<1>1. i \in Intents /\ i.after = after /\ i.pred = current /\ i.from = member
  BY IntentType DEF Intent
<1>2. r \in Nat
  BY HeadRevisionType DEF TypeOK
<1>3. ASSUME NEW l \in Layers
      PROVE  /\ i.to[l] # None => /\ i.to[l].digest = Digest[EffectiveView(after)][l]
                                  /\ i.to[l] \in Images
             /\ Atomic!Successor(r, member[l], i.to[l])
  <2>1. i.to[l] = AfterImage(EffectiveView(after), l, member[l], r, l \in retired)
    BY DEF Intent
  <2>2. member[l] \in Images \cup {None}
    BY DEF TypeOK, StateSets
  <2>3. QED
    BY <1>2, <2>1, <2>2, AfterImageFacts, AfterImageType
<1>4. SuccessorHead(i) # None /\ SuccessorHead(i).token = after /\ SuccessorHead(i).states = i.to
  BY <1>1, SuccessorHeadType DEF SuccessorHead
<1>5. ASSUME NEW l \in Layers, i.to[l] # None PROVE i.to[l].revision >= i.to[l].revision
  BY <1>3, <1>5 DEF Images
<1> HIDE DEF i, r
<1>6. GenerationValid(SuccessorHead(i), i.after, i.to)
  BY <1>1, <1>3, <1>4, <1>5 DEF GenerationValid
<1>7. \A l \in Layers : Atomic!Successor(HeadRevision(i.pred) + 1, i.from[l], i.to[l])
  BY <1>1, <1>3 DEF r
<1>8. QED
  BY <1>6, <1>7 DEF Sound, i

\* Publishing the pending pointer establishes the invariant of the WAL.
LEMMA SelectPendingStep ==
    ASSUME WalInv, NEW i \in Intents, Sound(i), SelectPending(i), Readable,
           UNCHANGED <<planPtr, jitPtr, member, current>>
    PROVE  LeaseInv' /\ CoherentWhenReadable' /\ PendingInv'
<1>1. /\ pending' = i /\ i # None /\ holder' = "commit" /\ holder' # None
      /\ step' = "members" /\ todo' = StateMembers(i)
      /\ i.before = LiveToken /\ i.pred = current /\ i.from = member
  BY NoneIsNoRecord DEF SelectPending, PredecessorExact
<1>2. LeaseInv' /\ CoherentWhenReadable'
  BY <1>1 DEF LeaseInv, CoherentWhenReadable
<1>3. HeadSideKnown(i)'
  BY <1>1 DEF HeadSideKnown
<1>4. \A l \in Layers \ StateMembers(i) : member[l] = None /\ i.to[l] = None
  BY <1>1 DEF StateMembers
<1>5. planPtr = i.before.plan /\ jitPtr = i.before.jit
  BY <1>1 DEF LiveToken
<1>6. SidesKnown(i)'
  BY <1>1, <1>4, <1>5 DEF SidesKnown
<1>7. current' # SuccessorHead(i)
  BY <1>1, SuccessorHeadType
<1>8. Progress(i)'
  BY <1>1, <1>4 DEF Progress
<1>9. QED
  BY <1>1, <1>2, <1>3, <1>6, <1>7, <1>8 DEF PendingInv, Recoverable

\* Every publication keeps the jobs sound and the invariant of the WAL.
LEMMA PublishStep ==
    WalInv /\ Publish => JobsSound' /\ LeaseInv' /\ CoherentWhenReadable' /\ PendingInv'
<1> SUFFICES ASSUME WalInv, NEW k \in Publishers,
                    \/ \E v \in Views : StartPlan(k, v) \/ StageMaterialization(k, v)
                    \/ Abandon(k) \/ PublishPlan(k) \/ PublishMaterialization(k)
             PROVE  JobsSound' /\ LeaseInv' /\ CoherentWhenReadable' /\ PendingInv'
  BY DEF Publish
<1>1. TypeOK /\ job \in [Publishers -> Jobs \cup {None}]
  BY DEF WalInv, TypeInv, TypeOK
<1>2. ASSUME UNCHANGED <<liveVars, leaseVars>>
      PROVE  LeaseInv' /\ CoherentWhenReadable' /\ PendingInv'
  BY <1>2 DEF WalInv, LeaseInv, CoherentWhenReadable, LiveGenerationValid, LiveToken,
              PendingInv, Recoverable, HeadSideKnown, SidesKnown, AllAfter, Progress,
              liveVars, leaseVars
<1>3. ASSUME NEW j, job' = [job EXCEPT ![k] = j],
             j # None /\ j.intent # None => Sound(j.intent)
      PROVE  JobsSound'
  BY <1>1, <1>3 DEF WalInv, JobsSound
<1>4. ASSUME NEW v \in Views, StartPlan(k, v)
      PROVE  JobsSound' /\ LeaseInv' /\ CoherentWhenReadable' /\ PendingInv'
  BY <1>2, <1>3, <1>4 DEF StartPlan
<1>5. ASSUME NEW v \in Views, StageMaterialization(k, v)
      PROVE  JobsSound' /\ LeaseInv' /\ CoherentWhenReadable' /\ PendingInv'
  <2>1. PICK retired \in SUBSET Layers :
          job' = [job EXCEPT ![k] =
                    [kind |-> "jit", view |-> v, base |-> LiveToken,
                     intent |-> IF jitPtr # None /\ jitPtr.view = v
                                THEN None ELSE Intent(JitToken(v), retired)]]
    BY <1>5 DEF StageMaterialization
  <2>2. Sound(Intent(JitToken(v), retired))
    BY <1>1, NewTokens, IntentSound
  <2>3. QED
    BY <1>2, <1>3, <1>5, <2>1, <2>2 DEF StageMaterialization
<1>6. CASE Abandon(k)
  BY <1>2, <1>3, <1>6 DEF Abandon
<1>7. CASE PublishPlan(k)
  <2>1. JobsSound'
    BY <1>3, <1>7 DEF PublishPlan
  <2>2. job[k].view \in Views
    BY <1>1, <1>7 DEF PublishPlan, Jobs
  <2>3. CASE planPtr # None /\ planPtr.view = job[k].view
    BY <1>2, <1>7, <2>1, <2>3 DEF PublishPlan, liveVars
  <2>4. CASE ~(planPtr # None /\ planPtr.view = job[k].view)
    <3>1. PICK retired \in SUBSET Layers :
            SelectPending(Intent(PlanToken(job[k].view), retired))
      BY <1>7, <2>4 DEF PublishPlan
    <3>2. /\ Intent(PlanToken(job[k].view), retired) \in Intents
          /\ Sound(Intent(PlanToken(job[k].view), retired))
      BY <1>1, <2>2, NewTokens, IntentType, IntentSound
    <3>3. QED
      BY <1>7, <2>1, <3>1, <3>2, SelectPendingStep DEF PublishPlan
  <2>5. QED
    BY <2>3, <2>4
<1>8. CASE PublishMaterialization(k)
  <2>1. JobsSound'
    BY <1>3, <1>8 DEF PublishMaterialization
  <2>2. job[k] # None /\ job[k].intent \in Intents \cup {None}
    BY <1>1, <1>8 DEF PublishMaterialization, Jobs
  <2>3. CASE job[k].intent = None
    BY <1>2, <1>8, <2>1, <2>3 DEF PublishMaterialization, liveVars
  <2>4. CASE job[k].intent # None
    <3>1. Sound(job[k].intent)
      BY <2>2, <2>4 DEF WalInv, JobsSound
    <3>2. QED
      BY <1>8, <2>1, <2>2, <2>4, <3>1, SelectPendingStep DEF PublishMaterialization
  <2>5. QED
    BY <2>3, <2>4
<1>9. QED
  BY <1>4, <1>5, <1>6, <1>7, <1>8

\* While the WAL is carried out nobody but the holder writes: each of its
\* writes keeps the invariant of the WAL.
LEMMA RollForwardStep ==
    WalInv /\ RollForward => JobsSound' /\ LeaseInv' /\ CoherentWhenReadable' /\ PendingInv'
<1> SUFFICES ASSUME WalInv, RollForward
             PROVE  JobsSound' /\ LeaseInv' /\ CoherentWhenReadable' /\ PendingInv'
  OBVIOUS
<1>1. /\ TypeOK /\ WalSelected /\ JobsSound /\ LeaseInv /\ CoherentWhenReadable /\ PendingInv
      /\ member \in [Layers -> Images \cup {None}]
  BY DEF WalInv, TypeInv, TypeOK, StateSets
<1>2. UNCHANGED job
  BY DEF RollForward, InstallMember, ReplacePlanPointer, ReplaceJitPointer, Evaluate,
         ReplaceCurrent, RemovePending, RepublishIndex
<1>3. JobsSound'
  BY <1>1, <1>2 DEF JobsSound
<1>4. ASSUME pending # None
      PROVE  /\ pending \in Intents /\ pending.to \in [Layers -> Images \cup {None}]
             /\ pending.after = [plan |-> pending.after.plan, jit |-> pending.after.jit]
             /\ Sound(pending) /\ Recoverable(pending) /\ Progress(pending)
  BY <1>1, <1>4 DEF TypeOK, Intents, Tokens, StateSets, PendingInv
<1>5. ASSUME NEW l \in Layers, InstallMember(l)
      PROVE  LeaseInv' /\ CoherentWhenReadable' /\ PendingInv'
  <2>1. /\ pending # None /\ pending' = pending /\ step = "members" /\ step' = step
        /\ member' = [member EXCEPT ![l] = pending.to[l]] /\ todo' = todo \ {l}
        /\ UNCHANGED <<planPtr, jitPtr, current, holder>>
    BY <1>1, <1>5 DEF InstallMember, WalSelected
  <2>2. LeaseInv' /\ CoherentWhenReadable'
    BY <1>1, <2>1 DEF LeaseInv, CoherentWhenReadable
  <2>3. \A m \in Layers : member'[m] = IF m = l THEN pending.to[l] ELSE member[m]
    BY <1>1, <2>1
  <2>4. SidesKnown(pending)'
    <3>1. l \notin StateMembers(pending) => pending.to[l] = None
      BY DEF StateMembers
    <3>2. QED
      BY <1>4, <2>1, <2>3, <3>1 DEF Recoverable, SidesKnown
  <2>5. HeadSideKnown(pending)'
    BY <1>4, <2>1 DEF Recoverable, HeadSideKnown
  <2>6. current' = SuccessorHead(pending) => AllAfter(pending)'
    BY <1>1, <1>4, <2>1 DEF Recoverable, AllAfter, LiveToken
  <2>7. Progress(pending)'
    BY <1>4, <2>1, <2>3 DEF Progress
  <2>8. QED
    BY <1>4, <2>1, <2>2, <2>4, <2>5, <2>6, <2>7 DEF PendingInv, Recoverable
<1>6. CASE ReplacePlanPointer
  <2>1. /\ pending # None /\ pending' = pending /\ step = "members" /\ step' = "jit"
        /\ todo = {} /\ planPtr' = pending.after.plan
        /\ UNCHANGED <<jitPtr, member, current, holder>>
    BY <1>1, <1>6 DEF ReplacePlanPointer, WalSelected
  <2>2. LeaseInv' /\ CoherentWhenReadable'
    BY <1>1, <2>1 DEF LeaseInv, CoherentWhenReadable
  <2>3. member = pending.to
    BY <1>1, <1>4, <2>1 DEF Progress
  <2>4. SidesKnown(pending)' /\ HeadSideKnown(pending)'
    BY <1>4, <2>1 DEF Recoverable, SidesKnown, HeadSideKnown
  <2>5. current' = SuccessorHead(pending) => AllAfter(pending)'
    BY <1>4, <2>1 DEF Recoverable, AllAfter, LiveToken
  <2>6. Progress(pending)'
    BY <2>1, <2>3 DEF Progress
  <2>7. QED
    BY <1>3, <1>4, <2>1, <2>2, <2>4, <2>5, <2>6 DEF PendingInv, Recoverable
<1>7. CASE ReplaceJitPointer
  <2>1. /\ pending # None /\ pending' = pending /\ step = "jit" /\ step' = "evaluate"
        /\ jitPtr' = pending.after.jit
        /\ UNCHANGED <<planPtr, member, current, holder>>
    BY <1>1, <1>7 DEF ReplaceJitPointer, WalSelected
  <2>2. LeaseInv' /\ CoherentWhenReadable'
    BY <1>1, <2>1 DEF LeaseInv, CoherentWhenReadable
  <2>3. AllAfter(pending)'
    BY <1>4, <2>1 DEF Progress, AllAfter, LiveToken
  <2>4. SidesKnown(pending)' /\ HeadSideKnown(pending)'
    BY <1>4, <2>1 DEF Recoverable, SidesKnown, HeadSideKnown
  <2>5. QED
    BY <1>3, <1>4, <2>1, <2>2, <2>3, <2>4 DEF PendingInv, Recoverable, Progress
<1>8. CASE Evaluate
  <2>1. /\ pending # None /\ pending' = pending /\ step = "evaluate"
        /\ UNCHANGED <<planPtr, jitPtr, member, current>>
        /\ \/ step' = "head" /\ holder' = holder
           \/ step' = "idle" /\ holder' = None
    BY <1>1, <1>8 DEF Evaluate, Release, WalSelected, liveVars
  <2>2. LeaseInv' /\ CoherentWhenReadable'
    BY <1>1, <2>1 DEF LeaseInv, CoherentWhenReadable
  <2>3. AllAfter(pending) /\ AllAfter(pending)'
    BY <1>4, <2>1 DEF Progress, AllAfter, LiveToken
  <2>4. SidesKnown(pending)' /\ HeadSideKnown(pending)'
    BY <1>4, <2>1 DEF Recoverable, SidesKnown, HeadSideKnown
  <2>5. QED
    BY <1>3, <1>4, <2>1, <2>2, <2>3, <2>4 DEF PendingInv, Recoverable, Progress
<1>9. CASE ReplaceCurrent
  <2>1. /\ pending # None /\ pending' = pending /\ step = "head" /\ step' = "unlink"
        /\ current' = SuccessorHead(pending)
        /\ UNCHANGED <<planPtr, jitPtr, member, holder>>
    BY <1>1, <1>9 DEF ReplaceCurrent, WalSelected
  <2>2. LeaseInv' /\ CoherentWhenReadable'
    BY <1>1, <2>1 DEF LeaseInv, CoherentWhenReadable
  <2>3. AllAfter(pending)'
    BY <1>4, <2>1 DEF Progress, AllAfter, LiveToken
  <2>4. SidesKnown(pending)' /\ HeadSideKnown(pending)'
    BY <1>4, <2>1 DEF Recoverable, SidesKnown, HeadSideKnown
  <2>5. QED
    BY <1>3, <1>4, <2>1, <2>2, <2>3, <2>4 DEF PendingInv, Recoverable, Progress
<1>10. CASE RemovePending
  <2>1. /\ pending # None /\ pending' = None /\ step = "unlink" /\ step' = "index"
        /\ UNCHANGED <<planPtr, jitPtr, member, current, holder>>
    BY <1>1, <1>10 DEF RemovePending, WalSelected
  <2>2. current = SuccessorHead(pending) /\ member = pending.to /\ LiveToken = pending.after
    BY <1>4, <2>1 DEF Progress, AllAfter
  <2>3. LiveGenerationValid
    BY <1>4, <2>1, <2>2 DEF Sound, LiveGenerationValid
  <2>4. LiveGenerationValid'
    BY <2>1, <2>3 DEF LiveGenerationValid, LiveToken
  <2>5. QED
    BY <1>1, <1>3, <2>1, <2>4 DEF LeaseInv, CoherentWhenReadable, PendingInv
<1>11. CASE RepublishIndex
  <2>1. /\ pending = None /\ pending' = None /\ step' = "idle" /\ holder' = None
        /\ UNCHANGED <<planPtr, jitPtr, member, current>>
    BY <1>1, <1>11 DEF RepublishIndex, Release, LeaseInv
  <2>2. QED
    BY <1>1, <1>3, <2>1 DEF LeaseInv, CoherentWhenReadable, LiveGenerationValid, LiveToken, PendingInv
<1>12. QED
  BY <1>3, <1>5, <1>6, <1>7, <1>8, <1>9, <1>10, <1>11 DEF RollForward

\* A unit-state mutation stays inside the selected generation.
LEMMA MutateKeepsGeneration ==
    ASSUME TypeOK, LiveGenerationValid, NEW l \in Layers, Mutate(l)
    PROVE  LiveGenerationValid'
<1>1. PICK live \in BOOLEAN :
        member' = [member EXCEPT ![l].revision = @ + 1, ![l].live = live]
  BY DEF Mutate
<1>2. /\ member \in [Layers -> Images \cup {None}] /\ member[l] \in Images
      /\ UNCHANGED <<planPtr, jitPtr, current>>
  BY DEF Mutate, TypeOK, StateSets
<1>3. \A m \in Layers \ {l} : member'[m] = member[m]
  BY <1>1, <1>2
<1>4. /\ member'[l] # None
      /\ member'[l].origin = member[l].origin
      /\ member'[l].digest = member[l].digest
      /\ member'[l].revision = member[l].revision + 1
  <2>1. member'[l] = [member[l] EXCEPT !.revision = @ + 1, !.live = live]
    BY <1>1, <1>2
  <2>2. member'[l] \in Images
    <3>1. member[l].revision + 1 \in Nat /\ member[l].digest \in Digests
      BY <1>2 DEF Images
    <3>2. [member[l] EXCEPT !.revision = @ + 1, !.live = live] \in Images
      BY <1>2, <3>1, RewrittenImage
    <3>3. QED
      BY <2>1, <3>2
  <2>3. QED
    BY <1>2, <2>1, <2>2, NoneIsNoRecord DEF Images
<1>5. CASE current = None
  BY <1>2, <1>5, NoneIsNoRecord DEF LiveGenerationValid, GenerationValid
<1>6. CASE current # None
  <2>1. current \in Heads /\ current.states \in [Layers -> Images \cup {None}]
    BY <1>6 DEF TypeOK, Heads, StateSets
  <2>2. LiveToken = current.token /\ LiveToken' = LiveToken
    BY <1>2, <1>6 DEF LiveGenerationValid, GenerationValid, LiveToken
  <2>3. ASSUME NEW m \in Layers
        PROVE  IF current.states[m] = None
               THEN member'[m] = None
               ELSE /\ member'[m] # None
                    /\ member'[m].origin = current.states[m].origin
                    /\ member'[m].digest = Digest[EffectiveView(LiveToken)][m]
                    /\ member'[m].revision >= current.states[m].revision
    <3>1. IF current.states[m] = None
          THEN member[m] = None
          ELSE /\ member[m] # None
               /\ member[m].origin = current.states[m].origin
               /\ member[m].digest = Digest[EffectiveView(LiveToken)][m]
               /\ member[m].revision >= current.states[m].revision
      BY <1>6 DEF LiveGenerationValid, GenerationValid
    <3>2. CASE m # l
      BY <1>3, <3>1, <3>2
    <3>3. CASE m = l
      <4>1. member[l] # None /\ current.states[l] # None
        BY <1>2, <3>1, <3>3, NoneIsNoRecord
      <4>2. member[l].revision \in Nat /\ current.states[l].revision \in Nat
        BY <1>2, <2>1, <4>1 DEF Images
      <4>3. QED
        BY <1>4, <3>1, <3>3, <4>1, <4>2
    <3>4. QED
      BY <3>2, <3>3
  <2>4. QED
    BY <1>2, <1>6, <2>2, <2>3 DEF LiveGenerationValid, GenerationValid
<1>7. QED
  BY <1>5, <1>6

\* Recovery, deaths, mutations and input edits keep the invariant of the WAL.
LEMMA RestStep ==
    WalInv /\ (Recover \/ Environment)
        => JobsSound' /\ LeaseInv' /\ CoherentWhenReadable' /\ PendingInv'
<1> SUFFICES ASSUME WalInv, Recover \/ Environment
             PROVE  JobsSound' /\ LeaseInv' /\ CoherentWhenReadable' /\ PendingInv'
  OBVIOUS
<1>1. TypeOK /\ JobsSound /\ LeaseInv /\ CoherentWhenReadable /\ PendingInv
  BY DEF WalInv, TypeInv
<1>2. UNCHANGED job
  BY DEF Recover, Environment, RecoverPending, RecoverCurrent, Mutate, Crash,
         ChangeInputs, RestoreInputs
<1>3. JobsSound'
  BY <1>1, <1>2 DEF JobsSound
<1>4. ASSUME UNCHANGED <<planPtr, jitPtr, member, current, pending>>
      PROVE  /\ CoherentWhenReadable'
             /\ pending # None => Sound(pending) /\ Recoverable(pending)'
  BY <1>1, <1>4 DEF CoherentWhenReadable, LiveGenerationValid, LiveToken, PendingInv,
                    Recoverable, HeadSideKnown, SidesKnown, AllAfter
<1>5. CASE RecoverPending
  <2>1. /\ pending # None /\ holder' = "recover" /\ holder' # None /\ step' = "members"
        /\ todo' = StateMembers(pending)
        /\ UNCHANGED <<planPtr, jitPtr, member, current, pending>>
    BY <1>5, NoneIsNoRecord DEF RecoverPending, RecoveryMembers, liveVars
  <2>2. \A l \in Layers \ StateMembers(pending) : member[l] = pending.to[l]
    BY <1>5 DEF RecoverPending, SidesKnown, StateMembers
  <2>3. Progress(pending)'
    BY <2>1, <2>2 DEF Progress
  <2>4. QED
    BY <1>3, <1>4, <2>1, <2>3 DEF LeaseInv, PendingInv
<1>6. CASE RecoverCurrent
  BY <1>1, <1>3, <1>4, <1>6 DEF RecoverCurrent, Readable, LeaseInv, PendingInv, leaseVars
<1>7. ASSUME NEW l \in Layers, Mutate(l)
      PROVE  LeaseInv' /\ CoherentWhenReadable' /\ PendingInv'
  <2>1. pending = None /\ pending' = None /\ UNCHANGED leaseVars
    BY <1>7 DEF Mutate, Readable
  <2>2. LiveGenerationValid'
    BY <1>1, <1>7, <2>1, MutateKeepsGeneration DEF CoherentWhenReadable
  <2>3. QED
    BY <1>1, <2>1, <2>2 DEF LeaseInv, CoherentWhenReadable, PendingInv, leaseVars
<1>8. CASE Crash
  <2>1. /\ holder' = None /\ step' = "idle"
        /\ UNCHANGED <<planPtr, jitPtr, member, current, pending>>
    BY <1>8 DEF Crash, Release, liveVars
  <2>2. QED
    BY <1>3, <1>4, <2>1 DEF LeaseInv, PendingInv, Progress
<1>9. CASE ChangeInputs \/ RestoreInputs
  <2>1. UNCHANGED <<liveVars, leaseVars>>
    BY <1>9 DEF ChangeInputs, RestoreInputs
  <2>2. QED
    BY <1>1, <1>3, <1>4, <2>1 DEF LeaseInv, PendingInv, Progress, AllAfter, LiveToken,
                                  liveVars, leaseVars
<1>10. QED
  BY <1>3, <1>5, <1>6, <1>7, <1>8, <1>9 DEF Recover, Environment

\* The write-ahead invariant is inductive.
LEMMA WalInvariant == Spec => []WalInv
<1>1. Init => WalInv
  <2>1. Init => TypeInv
    BY InitType DEF Init, TypeInv, WalSelected
  <2>2. Init => JobsSound /\ LeaseInv /\ CoherentWhenReadable /\ PendingInv
    BY DEF Init, JobsSound, LeaseInv, CoherentWhenReadable, LiveGenerationValid,
           GenerationValid, LiveToken, PendingInv
  <2>3. QED
    BY <2>1, <2>2 DEF WalInv
<1>2. WalInv /\ [Next]_vars => WalInv'
  <2> SUFFICES ASSUME WalInv, [Next]_vars PROVE WalInv'
    OBVIOUS
  <2>1. CASE Next
    <3>1. TypeInv'
      BY <2>1, RollForwardType, PublishType, RestType DEF Next, WalInv
    <3>2. JobsSound' /\ LeaseInv' /\ CoherentWhenReadable' /\ PendingInv'
      BY <2>1, RollForwardStep, PublishStep, RestStep DEF Next
    <3>3. QED
      BY <3>1, <3>2 DEF WalInv
  <2>2. CASE UNCHANGED vars
    BY <2>2 DEF WalInv, TypeInv, TypeOK, WalSelected, JobsSound, LeaseInv,
                CoherentWhenReadable, LiveGenerationValid, LiveToken, PendingInv,
                Recoverable, HeadSideKnown, SidesKnown, AllAfter, Progress,
                vars, liveVars, leaseVars, envVars
  <2>3. QED
    BY <2>1, <2>2
<1>3. QED
  BY <1>1, <1>2, PTL DEF Spec

-----------------------------------------------------------------------------
(* What follows.                                                           *)

\* Without a selected WAL the pointers, the namespace and every state file
\* belong to the generation of the coordinator head, after any crashes.
THEOREM ReadersSeeOneGeneration == Spec => []CoherentWhenReadable
<1>1. WalInv => CoherentWhenReadable
  BY DEF WalInv
<1>2. QED
  BY <1>1, WalInvariant, PTL

\* Whatever write a process died before, recovery can tell every member's
\* side and roll the WAL forward.
THEOREM RecoveryAlwaysPossible == Spec => []RecoveryNeverGuesses
<1>1. WalInv => RecoveryNeverGuesses
  BY DEF WalInv, PendingInv, Recoverable, RecoveryNeverGuesses
<1>2. QED
  BY <1>1, WalInvariant, PTL

\* The only steps that change the pending pointer.
LEMMA PendingChanges ==
    ASSUME WalInv, [Next]_vars, pending # None
    PROVE  pending' = pending \/ RemovePending
<1>1. CASE RollForward
  BY <1>1 DEF RollForward, InstallMember, ReplacePlanPointer, ReplaceJitPointer,
              Evaluate, ReplaceCurrent, RepublishIndex, liveVars
<1>2. CASE Recover
  BY <1>2 DEF Recover, RecoverPending, RecoverCurrent, liveVars
<1>3. CASE Publish
  BY <1>3 DEF Publish, StartPlan, StageMaterialization, Abandon, PublishPlan,
              PublishMaterialization, Readable, liveVars
<1>4. CASE Environment
  BY <1>4 DEF Environment, Mutate, Crash, ChangeInputs, RestoreInputs, liveVars
<1>5. CASE UNCHANGED vars
  BY <1>5 DEF vars, liveVars
<1>6. QED
  BY <1>1, <1>2, <1>3, <1>4, <1>5 DEF Next

\* A WAL has exactly one outcome: the successor it names.
THEOREM WalHasOneOutcome == Spec => SoleSuccessor
<1>1. ASSUME WalInv, [Next]_vars, pending # None
      PROVE  \/ pending' = pending
             \/ /\ pending' = None
                /\ current' = SuccessorHead(pending)
                /\ member' = pending.to
                /\ [plan |-> planPtr', jit |-> jitPtr'] = pending.after
  <2>1. CASE pending' = pending
    BY <2>1
  <2>2. CASE RemovePending
    <3>1. AllAfter(pending) /\ current = SuccessorHead(pending)
      BY <1>1, <2>2 DEF RemovePending, WalInv, PendingInv, Progress
    <3>2. QED
      BY <2>2, <3>1 DEF RemovePending, AllAfter, LiveToken
  <2>3. QED
    BY <1>1, <2>1, <2>2, PendingChanges
<1>2. WalInv /\ [Next]_vars =>
        [pending # None =>
          \/ pending' = pending
          \/ /\ pending' = None
             /\ current' = SuccessorHead(pending)
             /\ member' = pending.to
             /\ [plan |-> planPtr', jit |-> jitPtr'] = pending.after]_vars
  BY <1>1
<1>3. QED
  BY <1>2, WalInvariant, PTL DEF Spec, SoleSuccessor

\* The only steps that write a state file.
LEMMA MemberChanges ==
    ASSUME [Next]_vars
    PROVE  \/ member' = member
           \/ \E l \in Layers : InstallMember(l)
           \/ \E l \in Layers : Mutate(l)
<1>1. CASE RollForward
  BY <1>1 DEF RollForward, ReplacePlanPointer, ReplaceJitPointer, Evaluate,
              ReplaceCurrent, RemovePending, RepublishIndex, liveVars
<1>2. CASE Recover
  BY <1>2 DEF Recover, RecoverPending, RecoverCurrent, liveVars
<1>3. CASE Publish
  BY <1>3 DEF Publish, StartPlan, StageMaterialization, Abandon, PublishPlan,
              PublishMaterialization, liveVars
<1>4. CASE Environment
  BY <1>4 DEF Environment, Crash, ChangeInputs, RestoreInputs, liveVars
<1>5. CASE UNCHANGED vars
  BY <1>5 DEF vars, liveVars
<1>6. QED
  BY <1>1, <1>2, <1>3, <1>4, <1>5 DEF Next

\* A mutation is the next revision of one file.
LEMMA MutateFacts ==
    ASSUME TypeOK, NEW l \in Layers, Mutate(l)
    PROVE  /\ member[l] \in Images
           /\ \A m \in Layers \ {l} : member'[m] = member[m]
           /\ member'[l].origin = member[l].origin
           /\ member'[l].revision = member[l].revision + 1
<1>1. PICK live \in BOOLEAN :
        member' = [member EXCEPT ![l].revision = @ + 1, ![l].live = live]
  BY DEF Mutate
<1>2. member \in [Layers -> Images \cup {None}] /\ member[l] \in Images
  BY DEF Mutate, TypeOK, StateSets
<1>3. member'[l] = [member[l] EXCEPT !.revision = @ + 1, !.live = live]
  BY <1>1, <1>2
<1>4. QED
  BY <1>1, <1>2, <1>3 DEF Images

\* No transition, commit or recovery overwrites a mutation it did not see.
THEOREM MutationsAreNeverLost == Spec => NoLostMutation
<1> DEFINE Kept(l) == member[l] # None /\ member'[l] # None =>
                        /\ member'[l].origin = member[l].origin
                        /\ member'[l].revision >= member[l].revision
<1>1. ASSUME WalInv, [Next]_vars, NEW m \in Layers
      PROVE  Kept(m)
  <2>1. TypeOK /\ member \in [Layers -> Images \cup {None}]
    BY <1>1 DEF WalInv, TypeInv, TypeOK, StateSets
  <2>2. member[m] # None => member[m].revision \in Nat
    BY <2>1 DEF Images
  <2>3. CASE member'[m] = member[m]
    BY <2>2, <2>3
  <2>4. ASSUME NEW l \in Layers, InstallMember(l) PROVE Kept(m)
    <3>1. /\ pending # None /\ pending \in Intents
          /\ member' = [member EXCEPT ![l] = pending.to[l]]
      BY <1>1, <2>1, <2>4 DEF InstallMember, WalInv, TypeInv, WalSelected, TypeOK
    <3>2. pending.from[l] \in Images \cup {None} /\ pending.to[l] \in Images \cup {None}
      BY <3>1 DEF Intents, StateSets
    <3>3. member[l] \in {pending.from[l], pending.to[l]} \/ member[l] = None
      BY <1>1, <3>1 DEF WalInv, PendingInv, Recoverable, SidesKnown
    <3>4. Atomic!Successor(HeadRevision(pending.pred) + 1, pending.from[l], pending.to[l])
      BY <1>1, <3>1 DEF WalInv, PendingInv, Sound
    <3>5. CASE m = l
      <4>1. member'[l] = pending.to[l]
        BY <2>1, <3>1
      <4>2. CASE member[l] = pending.from[l] /\ member[l] # None /\ pending.to[l] # None
        <5>1. /\ pending.to[l].origin = member[l].origin
              /\ \/ pending.to[l].revision = member[l].revision
                 \/ pending.to[l].revision = member[l].revision + 1
          BY <3>4, <4>2 DEF Atomic!Successor
        <5>2. QED
          BY <2>2, <3>5, <4>1, <5>1
      <4>3. QED
        BY <2>2, <3>3, <3>5, <4>1, <4>2
    <3>6. CASE m # l
      BY <2>1, <2>3, <3>1, <3>6
    <3>7. QED
      BY <3>5, <3>6
  <2>5. ASSUME NEW l \in Layers, Mutate(l) PROVE Kept(m)
    BY <2>1, <2>2, <2>3, <2>5, MutateFacts
  <2>6. QED
    BY <1>1, <2>3, <2>4, <2>5, MemberChanges
<1>2. WalInv /\ [Next]_vars => [\A l \in Layers : Kept(l)]_vars
  BY <1>1
<1>3. QED
  BY <1>2, WalInvariant, PTL DEF Spec, NoLostMutation

-----------------------------------------------------------------------------
(* The protocol is an atomic switch to its readers.                        *)

\* Publishing a pending pointer is the switch.
LEMMA SelectPendingSwitches ==
    ASSUME WalInv, NEW i \in Intents, Sound(i), SelectPending(i), Readable
    PROVE  Atomic!Switch
<1>1. /\ pending = None /\ pending' = i /\ i # None
      /\ i.pred = current /\ i.from = member
  BY NoneIsNoRecord DEF SelectPending, PredecessorExact, Readable
<1>2. /\ SuccessorHead(i) # None
      /\ SuccessorHead(i).rev = HeadRevision(current) + 1
      /\ SuccessorHead(i).states = i.to
  BY <1>1, SuccessorHeadType DEF SuccessorHead
<1>3. \A l \in Layers : Atomic!Successor(HeadRevision(current) + 1, member[l], i.to[l])
  BY <1>1 DEF Sound
<1>4. QED
  BY <1>1, <1>2, <1>3 DEF Atomic!Switch, Atomic!Revision, HeadRevision

\* Every step is a step of the atomic switch, or invisible to it.
LEMMA StepRefines ==
    ASSUME WalInv, [Next]_vars
    PROVE  [Atomic!Next]_(Atomic!vars)
<1>1. TypeOK /\ LeaseInv /\ WalSelected /\ PendingInv /\ JobsSound
  BY DEF WalInv, TypeInv
<1>2. ASSUME pending' = pending,
             pending = None => current' = current /\ member' = member
      PROVE  UNCHANGED Atomic!vars
  BY <1>2 DEF Atomic!vars
<1>3. CASE RollForward
  <2>1. CASE RemovePending
    <3>1. pending # None /\ pending' = None /\ UNCHANGED <<member, current>>
      BY <1>1, <2>1 DEF RemovePending, WalSelected
    <3>2. current = SuccessorHead(pending) /\ member = pending.to
      BY <1>1, <2>1, <3>1 DEF RemovePending, PendingInv, Progress, AllAfter
    <3>3. Atomic!Reopen
      BY <3>1, <3>2 DEF Atomic!Reopen
    <3>4. QED
      BY <3>3 DEF Atomic!Next
  <2>2. CASE RepublishIndex
    BY <1>2, <2>2 DEF RepublishIndex
  <2>3. CASE ~RemovePending /\ ~RepublishIndex
    <3>1. pending # None
      BY <1>1, <1>3, <2>3 DEF WalSelected, RollForward, InstallMember, ReplacePlanPointer,
                              ReplaceJitPointer, Evaluate, ReplaceCurrent
    <3>2. pending' = pending
      BY <1>3, <2>3 DEF RollForward, InstallMember, ReplacePlanPointer, ReplaceJitPointer,
                        Evaluate, ReplaceCurrent, liveVars
    <3>3. QED
      BY <1>2, <3>1, <3>2
  <2>4. QED
    BY <2>1, <2>2, <2>3
<1>4. CASE Recover
  BY <1>2, <1>4 DEF Recover, RecoverPending, RecoverCurrent, liveVars
<1>5. ASSUME NEW k \in Publishers,
             \/ \E v \in Views : StartPlan(k, v) \/ StageMaterialization(k, v)
             \/ Abandon(k)
      PROVE  [Atomic!Next]_(Atomic!vars)
  BY <1>2, <1>5 DEF StartPlan, StageMaterialization, Abandon, liveVars
<1>6. ASSUME NEW k \in Publishers, PublishPlan(k) PROVE [Atomic!Next]_(Atomic!vars)
  <2>1. job[k].view \in Views
    BY <1>1, <1>6 DEF PublishPlan, TypeOK, Jobs
  <2>2. CASE planPtr # None /\ planPtr.view = job[k].view
    BY <1>2, <1>6, <2>2 DEF PublishPlan
  <2>3. CASE ~(planPtr # None /\ planPtr.view = job[k].view)
    <3>1. PICK retired \in SUBSET Layers :
            SelectPending(Intent(PlanToken(job[k].view), retired))
      BY <1>6, <2>3 DEF PublishPlan
    <3>2. /\ Intent(PlanToken(job[k].view), retired) \in Intents
          /\ Sound(Intent(PlanToken(job[k].view), retired))
      BY <1>1, <2>1, NewTokens, IntentType, IntentSound
    <3>3. QED
      BY <1>6, <3>1, <3>2, SelectPendingSwitches DEF PublishPlan, Atomic!Next
  <2>4. QED
    BY <2>2, <2>3
<1>7. ASSUME NEW k \in Publishers, PublishMaterialization(k)
      PROVE  [Atomic!Next]_(Atomic!vars)
  <2>1. job[k] # None /\ job[k].intent \in Intents \cup {None}
    BY <1>1, <1>7 DEF PublishMaterialization, TypeOK, Jobs
  <2>2. CASE job[k].intent = None
    BY <1>2, <1>7, <2>2 DEF PublishMaterialization
  <2>3. CASE job[k].intent # None
    <3>1. Sound(job[k].intent)
      BY <1>1, <2>1, <2>3 DEF JobsSound
    <3>2. QED
      BY <1>7, <2>1, <2>3, <3>1, SelectPendingSwitches DEF PublishMaterialization, Atomic!Next
  <2>4. QED
    BY <2>2, <2>3
<1>8. ASSUME NEW l \in Layers, Mutate(l) PROVE [Atomic!Next]_(Atomic!vars)
  <2>1. /\ pending = None /\ pending' = None /\ current' = current /\ member[l] # None
        /\ \E live \in BOOLEAN :
              member' = [member EXCEPT ![l].revision = @ + 1, ![l].live = live]
    BY <1>8 DEF Mutate, Readable
  <2>2. Atomic!Edit(l)
    BY <2>1 DEF Atomic!Edit
  <2>3. QED
    BY <2>2 DEF Atomic!Next
<1>9. CASE Crash \/ ChangeInputs \/ RestoreInputs
  BY <1>2, <1>9 DEF Crash, ChangeInputs, RestoreInputs, liveVars
<1>10. CASE UNCHANGED vars
  BY <1>2, <1>10 DEF vars, liveVars
<1>11. QED
  BY <1>3, <1>4, <1>5, <1>6, <1>7, <1>8, <1>9, <1>10 DEF Next, Publish, Environment

\* The write-ahead protocol implements the atomic switch of AuthoritySwitch
\* (its safety part): readers never see part of a transition.
THEOREM ImplementsAtomicSwitch == Spec => Atomic!Safety
<1>1. Init => Atomic!Init
  BY DEF Init, Atomic!Init
<1>2. WalInv /\ [Next]_vars => [Atomic!Next]_(Atomic!vars)
  BY StepRefines
<1>3. QED
  BY <1>1, <1>2, WalInvariant, PTL DEF Spec, Atomic!Safety
=============================================================================
