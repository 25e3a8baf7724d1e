-------------------------- MODULE RunLifecycleProofs --------------------------
(***************************************************************************)
(* For any number of owners, reconcilers and faults: a run is claimed and  *)
(* ends once, what it selects is on disk, a receipt can be completed, and  *)
(* an owner is declared lost only when it is gone.                         *)
(***************************************************************************)
EXTENDS RunLifecycle, TLAPS

-----------------------------------------------------------------------------
(* The inductive invariant. Whoever is past the fence holds it, so what it *)
(* has read and written of the run is as it left it.                       *)

\* Steps at which a process holds nothing.
Free == {"new", "created", "unclaimed", "idle", "contend", "end"}

\* Steps at which a process may still write what a status selects.
Writing ==
    {"projected", "work", "interrupt", "archive_manifest", "loss"}
        \cup Passing \cup Stopping \cup Failing \cup Selecting

Minting == {"archive_manifest", "loss", "observation", "frontiers", "archive", "receipt"}
Completing == {"evaluate", "evaluation", "summary", "status"}

\* The fence is held from its acquisition to the end, by an owner that has the
\* claim from then on, or by a reconciler of a claimed run.
FenceAccount(p) ==
    /\ fence = p
    /\ p \in Owners /\ pc[p] # "fenced" => claim # None /\ claim.by = p
    /\ p \in Reconcilers => claim # None

\* The run has its first status from the claimed owner, and whoever is going to
\* write a record has seen it running.
StatusAccount(p) ==
    /\ pc[p] = "claimed" => status = None
    /\ pc[p] \in Writing => StatusIs("running")
    /\ pc[p] = "latest" => StatusIs("passed") \/ StatusIs("failed") \/ StatusIs("interrupted")

\* Who mints a receipt found none, and has written everything it will cite up to
\* its step.
MintingAccount(p) ==
    /\ pc[p] \in Minting => receipt = None
    /\ pc[p] \in {"frontiers", "archive", "receipt"} => source["observation"] = p
    /\ pc[p] \in {"archive", "receipt"} => source["frontiers"] = p
    /\ pc[p] = "receipt" => source["archive"] = p
    /\ p \in Reconcilers =>
          /\ pc[p] \in Minting \ {"archive_manifest"} => archivedBy = p
          /\ pc[p] \in Minting \ {"archive_manifest", "loss"} => loss = p

\* Who completes a receipt has published the evaluation and the summary that
\* bind it, and who selects another end the summary of that end.
SummaryAccount(p) ==
    /\ pc[p] \in Completing => receipt # None
    /\ pc[p] \in {"summary", "status"} => evaluation # None /\ evaluation.receipt = receipt
    /\ pc[p] = "status" => summary = [state |-> "interrupted", record |-> receipt]
    /\ pc[p] = "pass_status" => summary.state = "passed"
    /\ pc[p] \in {"stop_status", "fail_status"} => summary.state = "failed"

Accounted(p) ==
    pc[p] \notin Free =>
        FenceAccount(p) /\ StatusAccount(p) /\ MintingAccount(p) /\ SummaryAccount(p)

\* The claimed owner is in its run or has left it, and a status comes after the
\* claim.
ClaimStands ==
    /\ claim # None => pc[claim.by] \notin (Free \cup {"fenced"}) \ {"end"}
    /\ claim = None => status = None

\* Whoever contends for the run has written its manifest before.
ManifestWritten == \A o \in Owners : pc[o] # "new" => manifest # None

IInv ==
    /\ TypeOK
    /\ ManifestWritten
    /\ \A p \in Procs : Accounted(p)
    /\ ClaimStands
    /\ OwnerLossIsReal
    /\ ReceiptStaysComplete
    /\ SelectedRecordsIntact

-----------------------------------------------------------------------------
(* What the steps have in common.                                          *)

\* p moves, and no other process does.
Moves(p) == pc[p] # "end" /\ \A q \in Procs \ {p} : pc'[q] = pc[q]

\* While a process is past the fence, every other one holds nothing.
LEMMA OthersFree ==
    ASSUME IInv, NEW p \in Procs, pc[p] \notin Free, NEW q \in Procs \ {p} PROVE pc[q] \in Free
BY DEF IInv, Accounted, FenceAccount

\* A reconciler past the fence finds the claimed owner gone.
LEMMA HolderMeetsNoOwner ==
    ASSUME IInv, NEW r \in Reconcilers, pc[r] \notin Free
    PROVE  claim # None /\ claim.by \in Owners /\ pc[claim.by] = "end" /\ claim.by # r
<1>1. r \in Procs
  BY DEF Procs
<1>2. claim # None
  BY <1>1 DEF IInv, Accounted, FenceAccount
<1>3. claim.by \in Owners
  BY <1>2 DEF IInv, TypeOK, Claims
<1>4. claim.by # r /\ claim.by \in Procs
  BY <1>3, OwnersAndReconcilers DEF Procs
<1>5. pc[claim.by] \in Free
  BY <1>1, <1>4, OthersFree
<1> QED
  BY <1>2, <1>3, <1>4, <1>5 DEF IInv, ClaimStands, Free

\* A step of the process past the fence touches what no other process holds.
LEMMA HolderStep ==
    ASSUME IInv, NEW p \in Procs, pc[p] \notin Free, pc[p] # "fenced", Moves(p),
           TypeOK', UNCHANGED <<manifest, claim>>,
           p \in Owners => pc'[p] \notin (Free \cup {"fenced"}) \ {"end"},
           pc'[p] \notin Free =>
              /\ fence' = p /\ pc'[p] # "fenced"
              /\ StatusAccount(p)' /\ MintingAccount(p)' /\ SummaryAccount(p)',
           loss' = loss \/ p \in Reconcilers,
           receipt' = receipt \/ receipt' = p,
           ReceiptStaysComplete', SelectedRecordsIntact'
    PROVE  IInv'
<1>1. ASSUME NEW q \in Procs \ {p} PROVE Accounted(q)'
  <2>1. pc'[q] \in Free
    BY OthersFree DEF Moves
  <2> QED
    BY <2>1 DEF Accounted
<1>2. Accounted(p)'
  <2>1. FenceAccount(p)
    BY DEF IInv, Accounted
  <2> QED
    BY <2>1 DEF Accounted, FenceAccount
<1>3. claim # None /\ claim.by \in Owners
  <2>1. claim # None
    BY DEF IInv, Accounted, FenceAccount, Procs
  <2> QED
    BY <2>1 DEF IInv, TypeOK, Claims
<1>4. ClaimStands'
  BY <1>3 DEF IInv, ClaimStands, Moves, Procs
<1>5. ASSUME loss' # None \/ receipt' \in Reconcilers PROVE claim' # None /\ pc'[claim'.by] = "end"
  <2>1. CASE p \in Reconcilers
    BY <2>1, HolderMeetsNoOwner DEF Moves, Procs
  <2>2. CASE p \notin Reconcilers
    <3>1. loss # None \/ receipt \in Reconcilers
      BY <1>5, <2>2
    <3>2. pc[claim.by] = "end"
      BY <3>1 DEF IInv, OwnerLossIsReal
    <3> QED
      BY <1>3, <3>2 DEF Moves, Procs
  <2> QED
    BY <2>1, <2>2
<1>6. ManifestWritten'
  BY DEF IInv, ManifestWritten, Moves, Free, Procs
<1> QED
  BY <1>1, <1>2, <1>4, <1>5, <1>6 DEF IInv, OwnerLossIsReal

\* A step of a process that held nothing: only the manifest and the fence may
\* change, and the fence only when no other process holds it.
LEMMA FreeStep ==
    ASSUME IInv, NEW p \in Procs, pc[p] \in Free, Moves(p), TypeOK',
           UNCHANGED <<claim, status, envelope, summary, source, archivedBy, loss, receipt,
                       evaluation>>,
           fence' = fence \/ fence = None \/ fence = p,
           Accounted(p)', ManifestWritten'
    PROVE  IInv'
<1>1. ASSUME NEW q \in Procs \ {p} PROVE Accounted(q)'
  <2>1. CASE pc[q] \in Free
    BY <2>1 DEF Accounted, Moves
  <2>2. CASE pc[q] \notin Free
    <3>1. fence = q /\ q # None /\ q # p
      BY <2>2, OwnersAndReconcilers DEF IInv, Accounted, FenceAccount, Procs
    <3>2. pc'[q] = pc[q] /\ fence' = fence
      BY <3>1 DEF Moves
    <3>3. Accounted(q)
      BY DEF IInv
    <3> QED
      BY <3>2, <3>3 DEF Accounted, FenceAccount, StatusAccount, MintingAccount, SummaryAccount,
         StatusIs
  <2> QED
    BY <2>1, <2>2
<1>2. claim # None => claim.by # p
  BY DEF IInv, ClaimStands, Moves, Free
<1>3. claim # None => claim.by \in Procs
  BY DEF IInv, TypeOK, Claims, Procs
<1>4. claim # None => pc'[claim.by] = pc[claim.by]
  BY <1>2, <1>3 DEF Moves
<1>5. ClaimStands' /\ OwnerLossIsReal'
  BY <1>4 DEF IInv, ClaimStands, OwnerLossIsReal
<1>6. ReceiptStaysComplete' /\ SelectedRecordsIntact'
  BY DEF IInv, ReceiptStaysComplete, SelectedRecordsIntact, ClosureOf, StatusIs
<1> QED
  BY <1>1, <1>5, <1>6 DEF IInv


-----------------------------------------------------------------------------
(* The steps that acquire the run.                                         *)

\* Creating the run, contending for its fence and reading it as a reconciler
\* hold nothing but the fence, which was free.
LEMMA ContendKeeps ==
    ASSUME IInv,
           \/ \E o \in Owners : Create(o) \/ CheckUnclaimed(o) \/ AcquireFence(o)
           \/ \E r \in Reconcilers : ReadTarget(r) \/ AcquireReconcilerFence(r)
    PROVE  IInv'
<1> USE OwnersAndReconcilers DEF Procs, Goto, ownerVars, recordVars, faultVars
<1>1. ASSUME NEW o \in Owners, Create(o) \/ CheckUnclaimed(o) \/ AcquireFence(o) PROVE IInv'
  <2>1. pc[o] \in Free /\ pc[o] # "end"
    BY <1>1 DEF Create, CheckUnclaimed, AcquireFence, Free
  <2>2. pc'[o] \in Free \cup {"fenced"} /\ Moves(o)
    BY <1>1, <2>1 DEF Create, CheckUnclaimed, AcquireFence, Free, Moves, IInv, TypeOK
  <2>3. TypeOK'
    BY <1>1 DEF Create, CheckUnclaimed, AcquireFence, IInv, TypeOK, Steps, Bootstrap
  <2>4. UNCHANGED <<claim, status, envelope, summary, source, archivedBy, loss, receipt,
                    evaluation>>
    BY <1>1 DEF Create, CheckUnclaimed, AcquireFence
  <2>5. fence' = fence \/ fence = None
    BY <1>1 DEF Create, CheckUnclaimed, AcquireFence, FenceFree
  <2>6. pc'[o] \notin Free => pc'[o] = "fenced" /\ fence' = o
    BY <1>1, <2>2 DEF Create, CheckUnclaimed, AcquireFence, IInv, TypeOK, Free
  <2>7. Accounted(o)'
    BY <2>6 DEF Accounted, FenceAccount, StatusAccount, MintingAccount, SummaryAccount,
       Writing, Minting, Completing, Passing, Stopping, Failing, Selecting
  <2>8. ManifestWritten'
    BY <1>1, <2>3 DEF Create, CheckUnclaimed, AcquireFence, ManifestWritten, IInv, TypeOK
  <2> QED
    BY <2>1, <2>2, <2>3, <2>4, <2>5, <2>7, <2>8, FreeStep
<1>2. ASSUME NEW r \in Reconcilers, ReadTarget(r) \/ AcquireReconcilerFence(r) PROVE IInv'
  <2>1. pc[r] \in Free /\ pc[r] # "end"
    BY <1>2 DEF ReadTarget, AcquireReconcilerFence, Free
  <2>2. pc'[r] \in Free \cup {"locked"} /\ Moves(r)
    BY <1>2, <2>1 DEF ReadTarget, AcquireReconcilerFence, Free, Moves, IInv, TypeOK
  <2>3. TypeOK'
    BY <1>2 DEF ReadTarget, AcquireReconcilerFence, IInv, TypeOK, Steps, Reconciling
  <2>4. UNCHANGED <<claim, status, envelope, summary, source, archivedBy, loss, receipt,
                    evaluation>>
    BY <1>2 DEF ReadTarget, AcquireReconcilerFence
  <2>5. fence' = fence \/ fence = None
    BY <1>2 DEF ReadTarget, AcquireReconcilerFence, FenceFree
  <2>6. pc'[r] \notin Free => pc'[r] = "locked" /\ fence' = r /\ claim # None
    BY <1>2, <2>2 DEF ReadTarget, AcquireReconcilerFence, ClaimReadable, IInv, TypeOK, Free
  <2>7. Accounted(r)'
    BY <2>4, <2>6 DEF Accounted, FenceAccount, StatusAccount, MintingAccount, SummaryAccount,
       Writing, Minting, Completing, Passing, Stopping, Failing, Selecting
  <2>8. ManifestWritten'
    BY <1>2, <2>2 DEF ReadTarget, AcquireReconcilerFence, Moves, ManifestWritten, IInv
  <2> QED
    BY <2>1, <2>2, <2>3, <2>4, <2>5, <2>7, <2>8, FreeStep
<1> QED
  BY <1>1, <1>2

\* The claim is linked once, when there is no status yet.
LEMMA PublishClaimKeeps == ASSUME IInv, NEW o \in Owners, PublishClaim(o) PROVE IInv'
<1> USE OwnersAndReconcilers DEF Procs, Goto, recordVars, faultVars
<1>1. pc[o] = "fenced" /\ fence = o
  BY DEF PublishClaim, IInv, Accounted, FenceAccount, Free
<1>2. UNCHANGED <<manifest, pinned, status, latest, envelope, summary, source, archivedBy, loss,
                  receipt, evaluation, signalled, ownerFaults, reconcilerFaults>>
  BY DEF PublishClaim
<1>3. manifest \in Owners /\ ManifestWritten'
  BY <1>1, <1>2 DEF PublishClaim, IInv, ManifestWritten, TypeOK
<1>4. ASSUME NEW q \in Procs \ {o} PROVE pc'[q] = pc[q] /\ pc[q] \in Free
  <2>1. pc[q] \in Free
    BY <1>1, OthersFree DEF Free
  <2> QED
    BY <2>1 DEF PublishClaim, IInv, TypeOK
<1>5. CASE /\ claim = None
           /\ pc' = [pc EXCEPT ![o] = "claimed"]
           /\ claim' = [by |-> o, manifest |-> manifest]
           /\ UNCHANGED fence
  <2>1. claim' \in Claims /\ claim' # None /\ claim'.by = o
    BY <1>5, <1>3, NoneIsNoRecord DEF Claims
  <2>2. TypeOK'
    BY <1>2, <1>5, <2>1 DEF IInv, TypeOK, Steps, Bootstrap
  <2>3. pc'[o] = "claimed" /\ status' = None /\ loss' = None /\ ~(receipt' \in Reconcilers)
    BY <1>2, <1>5 DEF IInv, TypeOK, ClaimStands, OwnerLossIsReal
  <2>4. Accounted(o)'
    BY <1>1, <1>5, <2>1, <2>3 DEF Accounted, FenceAccount, StatusAccount, MintingAccount,
       SummaryAccount, Writing, Minting, Completing, Passing, Stopping, Failing, Selecting
  <2>5. \A q \in Procs : Accounted(q)'
    BY <1>4, <2>4 DEF Accounted
  <2>6. ClaimStands' /\ OwnerLossIsReal'
    BY <2>1, <2>3 DEF ClaimStands, OwnerLossIsReal, Free
  <2>7. ReceiptStaysComplete' /\ SelectedRecordsIntact'
    BY <1>2 DEF IInv, ReceiptStaysComplete, SelectedRecordsIntact, ClosureOf, StatusIs
  <2> QED
    BY <1>3, <2>2, <2>5, <2>6, <2>7 DEF IInv
<1>6. CASE pc' = [pc EXCEPT ![o] = "end"] /\ fence' = None /\ UNCHANGED claim
  <2>1. TypeOK'
    BY <1>2, <1>6 DEF IInv, TypeOK, Steps
  <2>2. pc'[o] = "end"
    BY <1>6 DEF IInv, TypeOK
  <2>3. \A q \in Procs : Accounted(q)'
    BY <1>4, <2>2 DEF Accounted, Free
  <2>4. claim # None => claim.by \in Procs /\ claim.by # o
    BY <1>1 DEF IInv, TypeOK, Claims, ClaimStands
  <2>5. ClaimStands' /\ OwnerLossIsReal'
    BY <1>2, <1>4, <1>6, <2>4 DEF IInv, ClaimStands, OwnerLossIsReal
  <2>6. ReceiptStaysComplete' /\ SelectedRecordsIntact'
    BY <1>2 DEF IInv, ReceiptStaysComplete, SelectedRecordsIntact, ClosureOf, StatusIs
  <2> QED
    BY <1>3, <2>1, <2>3, <2>5, <2>6 DEF IInv
<1> QED
  BY <1>1, <1>5, <1>6 DEF PublishClaim


-----------------------------------------------------------------------------
(* The steps past the fence that write no record.                          *)

\* A step that writes nothing that a status selects, and moves on to a step
\* whose account is in order, or out.
LEMMA SilentStep ==
    ASSUME IInv, NEW p \in Procs, pc[p] \notin Free, pc[p] # "fenced", NEW to \in Steps,
           pc' = [pc EXCEPT ![p] = to], to = "end" \/ fence' = fence,
           TypeOK', UNCHANGED <<manifest, claim, status, recordVars>>,
           p \in Owners => to \notin (Free \cup {"fenced"}) \ {"end"},
           to \notin Free => /\ to # "fenced"
                             /\ StatusAccount(p)' /\ MintingAccount(p)' /\ SummaryAccount(p)'
    PROVE  IInv'
<1>1. pc'[p] = to /\ Moves(p)
  BY DEF IInv, TypeOK, Moves, Free
<1>2. to \notin Free => fence' = p
  BY DEF IInv, Accounted, FenceAccount, Free
<1>3. ReceiptStaysComplete' /\ SelectedRecordsIntact'
  BY DEF IInv, ReceiptStaysComplete, SelectedRecordsIntact, ClosureOf, StatusIs, recordVars
<1> QED
  BY <1>1, <1>2, <1>3, HolderStep DEF recordVars

\* A process that leaves its run, or dies in it, leaves what it has written.
LEMMA LeavingKeeps ==
    ASSUME IInv, NEW p \in Procs, pc[p] \notin Free, pc[p] # "fenced", Leave(p, "end"),
           TypeOK', UNCHANGED <<manifest, claim, status, recordVars>>
    PROVE  IInv'
<1>1. "end" \in Steps /\ "end" \in Free /\ pc' = [pc EXCEPT ![p] = "end"]
  BY DEF Steps, Free, Leave
<1> QED
  BY <1>1, SilentStep

\* What the process past the fence has.
LEMMA HolderHas ==
    ASSUME IInv, NEW p \in Procs, pc[p] \notin Free
    PROVE  /\ FenceAccount(p) /\ StatusAccount(p) /\ MintingAccount(p) /\ SummaryAccount(p)
           /\ fence = p /\ p # None /\ claim \in Claims \cup {None}
BY OwnersAndReconcilers DEF IInv, Accounted, FenceAccount, Procs, TypeOK

\* The owner's body, and the signals and errors that end it, write nothing; a
\* step of the driver's try block that fails goes on only while the run is
\* running.
LEMMA OwnerMovesKeep ==
    ASSUME IInv, NEW o \in Owners,
           ProjectRunning(o) \/ Finish(o) \/ Signal(o) \/ BeginInterruption(o) \/ Raise(o)
    PROVE  IInv'
<1> USE OwnersAndReconcilers DEF Procs, ownerVars, recordVars, faultVars
<1> DEFINE to == pc'[o]
<1>1. /\ pc[o] \in {"projected", "work", "interrupt", "latest"} \cup Passing \cup Stopping \cup Failing
      /\ pc[o] \notin Free /\ pc[o] # "fenced"
  BY DEF ProjectRunning, Finish, Signal, BeginInterruption, Raise, Goto, Passing, Stopping,
     Failing, Free
<1>2. pc[o] # "latest" => StatusIs("running")
  BY <1>1, HolderHas DEF StatusAccount, Writing
<1>3. UNCHANGED <<manifest, claim, status, recordVars, pinned>>
  BY DEF ProjectRunning, Finish, Signal, BeginInterruption, Raise
<1>4. /\ to \in {"work", "pass_summary", "fail_envelope", "stop_envelope", "interrupt",
                 "observation", "end"}
      /\ pc' = [pc EXCEPT ![o] = to]
      /\ fence' \in {fence, None}
      /\ to = "end" \/ fence' = fence
      /\ to # "end" => StatusIs("running")
      /\ to = "observation" => receipt = None
  <2>1. CASE ProjectRunning(o) \/ Finish(o)
    BY <1>1, <1>2, <2>1 DEF ProjectRunning, Finish, Goto, IInv, TypeOK
  <2>2. CASE Signal(o)
    BY <1>1, <1>2, <2>2 DEF Signal, CancellationFrom, Leave, Passing, Stopping, IInv, TypeOK
  <2>3. CASE BeginInterruption(o)
    BY <1>1, <1>2, <2>3 DEF BeginInterruption, Leave, IInv, TypeOK
  <2>4. CASE Raise(o)
    BY <1>1, <1>2, <2>4 DEF Raise, ExceptionFrom, Leave, Passing, Stopping, IInv, TypeOK
  <2> QED
    BY <2>1, <2>2, <2>3, <2>4
<1>5. /\ latest' \in Terminal \cup {"running", None} /\ signalled' \subseteq Owners
      /\ ownerFaults' \in 0 .. MaxOwnerFaults /\ reconcilerFaults' \in 0 .. MaxReconcilerFaults
  <2>1. CASE ProjectRunning(o) \/ Finish(o) \/ BeginInterruption(o) \/ Signal(o)
    BY <2>1 DEF ProjectRunning, Finish, Signal, BeginInterruption, IInv, TypeOK
  <2>2. CASE Raise(o)
    BY <2>2, FaultBounds DEF Raise, CountFault, IInv, TypeOK
  <2> QED
    BY <2>1, <2>2
<1>6. to \in Steps /\ to \notin (Free \cup {"fenced"}) \ {"end"}
  BY <1>4 DEF Steps, Passing, Stopping, Failing, Selecting, Free
<1>7. TypeOK'
  BY <1>3, <1>4, <1>5, <1>6 DEF IInv, TypeOK
<1>8. to \notin Free => StatusAccount(o)' /\ MintingAccount(o)' /\ SummaryAccount(o)'
  BY <1>3, <1>4 DEF StatusAccount, MintingAccount, SummaryAccount, StatusIs, Minting, Completing,
     Free
<1> HIDE DEF to
<1> QED
  BY <1>1, <1>3, <1>4, <1>6, <1>7, <1>8, SilentStep


-----------------------------------------------------------------------------
(* The steps past the fence that write a record.                           *)

\* The first status is selected when there was none.
LEMMA PublishRunningKeeps == ASSUME IInv, NEW o \in Owners, PublishRunning(o) PROVE IInv'
<1> USE OwnersAndReconcilers, NoneIsNoRecord DEF Procs
<1>1. pc[o] = "claimed" /\ pc[o] \notin Free /\ pc[o] # "fenced"
  BY DEF PublishRunning, Goto, Free
<1>2. UNCHANGED <<manifest, claim, pinned, latest, recordVars, faultVars>>
  BY DEF PublishRunning
<1>3. status = None /\ claim # None /\ fence = o
  BY <1>1, HolderHas DEF StatusAccount, FenceAccount
<1>4. CASE pc' = [pc EXCEPT ![o] = "projected"] /\ status' = Running /\ UNCHANGED fence
  <2>1. Running \in Statuses /\ status' # None /\ StatusIs("running")'
    BY <1>4 DEF Running, Statuses, StatusIs
  <2>2. pc'[o] = "projected" /\ Moves(o)
    BY <1>1, <1>4 DEF Moves, IInv, TypeOK
  <2>3. TypeOK'
    BY <1>2, <1>4, <2>1 DEF recordVars, faultVars, IInv, TypeOK, Steps, Bootstrap
  <2>4. ReceiptStaysComplete' /\ SelectedRecordsIntact'
    BY <1>2, <1>4, <2>1 DEF IInv, ReceiptStaysComplete, SelectedRecordsIntact, ClosureOf, StatusIs,
       Running, recordVars
  <2>5. StatusAccount(o)' /\ MintingAccount(o)' /\ SummaryAccount(o)'
    BY <2>1, <2>2 DEF StatusAccount, MintingAccount, SummaryAccount, Minting, Completing
  <2> QED
    BY <1>1, <1>2, <1>3, <1>4, <2>2, <2>3, <2>4, <2>5, HolderStep DEF recordVars, Free
<1>5. CASE pc' = [pc EXCEPT ![o] = "end"] /\ fence' = None /\ UNCHANGED status
  <2>1. TypeOK'
    BY <1>2, <1>5 DEF recordVars, faultVars, IInv, TypeOK, Steps
  <2> QED
    BY <1>1, <1>2, <1>5, <2>1, SilentStep DEF Steps, Free
<1> QED
  BY <1>4, <1>5 DEF PublishRunning, Goto

\* A child that holds or closes the inherited fence touches nothing else.
LEMMA ChildKeeps == ASSUME IInv, NEW o \in Owners, Fork(o) \/ NeutralizeChild(o) PROVE IInv'
<1>1. /\ UNCHANGED <<manifest, claim, fence, status, latest, recordVars, pc, faultVars>>
      /\ pinned' \subseteq Owners
  BY DEF Fork, NeutralizeChild, IInv, TypeOK
<1>2. TypeOK' /\ ManifestWritten' /\ ClaimStands' /\ OwnerLossIsReal'
  BY <1>1 DEF IInv, TypeOK, ManifestWritten, ClaimStands, OwnerLossIsReal, recordVars, faultVars
<1>3. ReceiptStaysComplete' /\ SelectedRecordsIntact'
  BY <1>1 DEF IInv, ReceiptStaysComplete, SelectedRecordsIntact, ClosureOf, StatusIs, recordVars
<1>4. ASSUME NEW p \in Procs PROVE Accounted(p)'
  BY <1>1 DEF IInv, Accounted, FenceAccount, StatusAccount, MintingAccount, SummaryAccount,
     StatusIs, recordVars
<1> QED
  BY <1>2, <1>3, <1>4 DEF IInv

\* An envelope comes and goes only while the run is running.
LEMMA EnvelopeKeeps ==
    ASSUME IInv, NEW o \in Owners,
           StageStops(o) \/ ConsumeStop(o) \/ StopEnvelope(o) \/ FailEnvelope(o)
    PROVE  IInv'
<1> USE OwnersAndReconcilers DEF Procs
<1> DEFINE to == pc'[o]
<1>1. pc[o] \in {"work", "stop_envelope", "fail_envelope"} /\ pc[o] \notin Free /\ pc[o] # "fenced"
  BY DEF StageStops, ConsumeStop, StopEnvelope, FailEnvelope, Free
<1>2. StatusIs("running") /\ fence = o
  BY <1>1, HolderHas DEF StatusAccount, Writing, Stopping, Failing
<1>3. UNCHANGED <<manifest, claim, pinned, status, latest, summary, source, archivedBy, loss,
                  receipt, evaluation, faultVars>>
  BY DEF StageStops, ConsumeStop, StopEnvelope, FailEnvelope, ownerVars
<1>4. /\ envelope' \in Envelopes \cup {None}
      /\ pc' = [pc EXCEPT ![o] = to] /\ to \in {"work", "stop_summary", "fail_summary", "fail_envelope", "end"}
      /\ fence' \in {fence, None} /\ (to = "end" \/ fence' = fence)
  <2>1. CASE StageStops(o) \/ ConsumeStop(o)
    BY <1>1, <2>1 DEF StageStops, ConsumeStop, ownerVars, IInv, TypeOK, Envelopes
  <2>2. CASE StopEnvelope(o)
    <3>1. ExceptionFrom(o, "stop_envelope") \in {"fail_envelope", "end"}
      BY DEF ExceptionFrom
    <3> QED
      BY <2>2, <3>1 DEF StopEnvelope, Leave, IInv, TypeOK, Envelopes
  <2>3. CASE FailEnvelope(o)
    BY <2>3 DEF FailEnvelope, Leave, IInv, TypeOK, Envelopes
  <2> QED
    BY <2>1, <2>2, <2>3
<1>5. to \in Steps /\ to \notin (Free \cup {"fenced"}) \ {"end"} /\ to # "status"
  BY <1>4 DEF Steps, Stopping, Failing, Free
<1>6. TypeOK'
  BY <1>3, <1>4, <1>5 DEF IInv, TypeOK, faultVars
<1>7. ReceiptStaysComplete' /\ SelectedRecordsIntact' /\ StatusIs("running")'
  BY <1>2, <1>3 DEF IInv, ReceiptStaysComplete, SelectedRecordsIntact, ClosureOf, StatusIs
<1>8. to \notin Free => StatusAccount(o)' /\ MintingAccount(o)' /\ SummaryAccount(o)'
  BY <1>4, <1>7 DEF StatusAccount, MintingAccount, SummaryAccount, Minting, Completing, Free
<1>9. Moves(o)
  BY <1>1, <1>4 DEF Moves, Free, IInv, TypeOK
<1> HIDE DEF to
<1> QED
  BY <1>1, <1>2, <1>3, <1>4, <1>5, <1>6, <1>7, <1>8, <1>9, HolderStep DEF to, Free


\* A summary of a pass or a failure is written before its status.
LEMMA WriteSummaryKeeps == ASSUME IInv, NEW o \in Owners, WriteSummary(o) PROVE IInv'
<1> USE OwnersAndReconcilers, NoneIsNoRecord DEF Procs
<1> DEFINE to == pc'[o]
<1>1. pc[o] \in {"pass_summary", "stop_summary", "fail_summary"} /\ pc[o] \notin Free /\ pc[o] # "fenced"
  BY DEF WriteSummary, Goto, Free
<1>2. StatusIs("running") /\ fence = o
  BY <1>1, HolderHas DEF StatusAccount, Writing, Passing, Stopping, Failing
<1>3. UNCHANGED <<ownerVars, status, latest, envelope, source, archivedBy, loss, receipt,
                  evaluation, faultVars>>
  BY DEF WriteSummary
<1>4. /\ pc' = [pc EXCEPT ![o] = to] /\ Moves(o)
      /\ \/ to = "pass_status" /\ summary' = [state |-> "passed", record |-> None]
         \/ to \in {"stop_status", "fail_status"} /\ summary' = [state |-> "failed", record |-> None]
  BY <1>1 DEF WriteSummary, Goto, Moves, IInv, TypeOK
<1>5. summary' \in Summaries
  BY <1>4 DEF Summaries, Terminal
<1>6. to \in Steps /\ to \notin Free /\ to # "fenced" /\ to \notin Minting \cup Completing /\ to # "latest"
  BY <1>4 DEF Steps, Passing, Stopping, Failing, Free, Minting, Completing
<1>7. TypeOK'
  BY <1>3, <1>4, <1>5, <1>6 DEF IInv, TypeOK, ownerVars, faultVars
<1>8. ReceiptStaysComplete' /\ SelectedRecordsIntact' /\ StatusIs("running")'
  BY <1>2, <1>3 DEF IInv, ReceiptStaysComplete, SelectedRecordsIntact, ClosureOf, StatusIs
<1>9. StatusAccount(o)' /\ MintingAccount(o)' /\ SummaryAccount(o)'
  BY <1>4, <1>6, <1>8 DEF StatusAccount, MintingAccount, SummaryAccount, Minting, Completing
<1> HIDE DEF to
<1> QED
  BY <1>1, <1>2, <1>3, <1>4, <1>6, <1>7, <1>8, <1>9, HolderStep DEF to, ownerVars

\* The status of a pass or a failure agrees with the summary, and of a failure
\* with the envelope.
LEMMA CommitStatusKeeps == ASSUME IInv, NEW o \in Owners, CommitStatus(o) PROVE IInv'
<1> USE OwnersAndReconcilers, NoneIsNoRecord DEF Procs
<1>1. /\ pc[o] \in {"pass_status", "stop_status", "fail_status"} /\ pc[o] \notin Free /\ pc[o] # "fenced"
  BY DEF CommitStatus, Free
<1>2. StatusIs("running") /\ fence = o
  BY <1>1, HolderHas DEF StatusAccount, Writing, Passing, Stopping, Failing
<1>3. UNCHANGED <<manifest, claim, pinned, latest, recordVars, faultVars>>
  BY DEF CommitStatus
<1>4. CASE LeaseLive(o) /\ StatusIs("running")
  <2>1. pc' = [pc EXCEPT ![o] = "latest"] /\ UNCHANGED fence
    BY <1>4 DEF CommitStatus, Leave
  <2>2. \/ /\ pc[o] = "pass_status"
           /\ status' = [state |-> "passed", record |-> None, evaluation |-> None]
        \/ /\ pc[o] # "pass_status"
           /\ status' = [state |-> "failed", record |-> envelope, evaluation |-> None]
    BY <1>4 DEF CommitStatus
  <2>3. status' \in Statuses /\ status' # None
    BY <2>2 DEF Statuses, Terminal, IInv, TypeOK
  <2>4. \/ summary.state = "passed" /\ status'.state = "passed"
        \/ /\ summary.state = "failed" /\ status'.state = "failed"
           /\ status'.record = envelope
    BY <1>1, <2>2, HolderHas DEF SummaryAccount
  <2>5. SelectedRecordsIntact' /\ ReceiptStaysComplete'
    BY <1>3, <2>4 DEF SelectedRecordsIntact, ReceiptStaysComplete, ClosureOf, StatusIs, IInv,
       recordVars
  <2>6. TypeOK'
    BY <1>3, <2>1, <2>3 DEF IInv, TypeOK, recordVars, faultVars, Steps
  <2>7. pc'[o] = "latest" /\ Moves(o)
    BY <1>1, <2>1 DEF Moves, IInv, TypeOK
  <2>8. StatusAccount(o)' /\ MintingAccount(o)' /\ SummaryAccount(o)'
    BY <2>3, <2>4, <2>7 DEF StatusAccount, MintingAccount, SummaryAccount, StatusIs, Minting,
       Completing, Writing, Passing, Stopping, Failing, Selecting
  <2> QED
    BY <1>1, <1>2, <1>3, <2>1, <2>5, <2>6, <2>7, <2>8, HolderStep DEF recordVars, Free
<1>5. CASE ~(LeaseLive(o) /\ StatusIs("running"))
  <2> DEFINE to == ExceptionFrom(o, pc[o])
  <2>1. to \in {"fail_envelope", "end"} /\ UNCHANGED status /\ Leave(o, to)
    BY <1>5 DEF CommitStatus, ExceptionFrom
  <2>2. TypeOK'
    BY <1>3, <2>1 DEF IInv, TypeOK, recordVars, faultVars, Steps, Failing, Leave
  <2>3. /\ pc' = [pc EXCEPT ![o] = to] /\ pc'[o] = to
        /\ to = "end" \/ fence' = fence
    BY <2>1 DEF Leave, IInv, TypeOK
  <2>4. to \in Steps /\ to \notin (Free \cup {"fenced"}) \ {"end"}
    BY <2>1 DEF Steps, Failing, Free
  <2>5. to \notin Free => /\ to # "fenced"
                          /\ StatusAccount(o)' /\ MintingAccount(o)' /\ SummaryAccount(o)'
    BY <1>2, <2>1, <2>3 DEF StatusAccount, MintingAccount, SummaryAccount, StatusIs, Minting,
       Completing, Free
  <2> HIDE DEF to
  <2> QED
    BY <1>1, <1>3, <2>1, <2>2, <2>3, <2>4, <2>5, SilentStep
<1> QED
  BY <1>4, <1>5

\* latest.json follows a terminal status.
LEMMA ProjectLatestKeeps == ASSUME IInv, NEW p \in Procs, ProjectLatest(p) PROVE IInv'
<1>1. pc[p] = "latest" /\ pc[p] \notin Free /\ pc[p] # "fenced"
  BY DEF ProjectLatest, Free
<1>2. status.state \in Terminal
  BY <1>1, HolderHas DEF StatusAccount, StatusIs, Terminal
<1>3. TypeOK'
  BY <1>2 DEF ProjectLatest, Leave, IInv, TypeOK, Steps, recordVars, faultVars
<1> QED
  BY <1>1, <1>3, LeavingKeeps DEF ProjectLatest


-----------------------------------------------------------------------------
(* The steps that mint, complete and select an interruption.               *)

\* Each source of a receipt is written while there is no receipt.
LEMMA PublishSourceKeeps == ASSUME IInv, NEW p \in Procs, PublishSource(p) PROVE IInv'
<1> USE OwnersAndReconcilers
<1>1. PICK s \in Sources : Goto(p, s, AfterSource(s)) /\ source' = [source EXCEPT ![s] = p]
  BY DEF PublishSource
<1>2. UNCHANGED <<ownerVars, status, latest, envelope, summary, archivedBy, loss, receipt,
                  evaluation, faultVars>>
  BY DEF PublishSource
<1>3. pc[p] = s /\ pc[p] \in Minting \cap Writing /\ pc[p] \notin Free /\ pc[p] # "fenced"
  BY <1>1 DEF Goto, Sources, Minting, Writing, Selecting, Free
<1>4. StatusIs("running") /\ receipt = None /\ fence = p
  BY <1>3, HolderHas DEF StatusAccount, MintingAccount
<1>5. /\ s = "observation" => pc'[p] = "frontiers"
      /\ s = "frontiers" => pc'[p] = "archive"
      /\ s = "archive" => pc'[p] = "receipt"
      /\ Moves(p) /\ pc' = [pc EXCEPT ![p] = AfterSource(s)] /\ pc'[p] = AfterSource(s)
  BY <1>1, <1>3 DEF Goto, AfterSource, Moves, Free, IInv, TypeOK
<1>6. /\ pc'[p] \in {"frontiers", "archive", "receipt"} /\ pc'[p] \in Steps
      /\ pc'[p] \notin Free /\ pc'[p] # "fenced"
  BY <1>5 DEF Sources, Steps, Selecting, Free
<1>7. TypeOK'
  BY <1>1, <1>2, <1>5, <1>6 DEF IInv, TypeOK, ownerVars, faultVars
<1>8. source'[s] = p /\ \A t \in Sources \ {s} : source'[t] = source[t]
  BY <1>1 DEF IInv, TypeOK
<1>9. MintingAccount(p)'
  <2>1. MintingAccount(p)
    BY <1>3, HolderHas
  <2>2. CASE s = "observation"
    BY <1>2, <1>3, <1>4, <1>5, <1>8, <2>1, <2>2 DEF MintingAccount, Minting, Sources
  <2>3. CASE s = "frontiers"
    BY <1>2, <1>3, <1>4, <1>5, <1>8, <2>1, <2>3 DEF MintingAccount, Minting, Sources
  <2>4. CASE s = "archive"
    BY <1>2, <1>3, <1>4, <1>5, <1>8, <2>1, <2>4 DEF MintingAccount, Minting, Sources
  <2> QED
    BY <2>2, <2>3, <2>4 DEF Sources
<1>10. StatusAccount(p)' /\ SummaryAccount(p)'
  BY <1>2, <1>4, <1>6 DEF StatusAccount, SummaryAccount, StatusIs, Completing
<1>11. ReceiptStaysComplete' /\ SelectedRecordsIntact'
  BY <1>2, <1>4 DEF ReceiptStaysComplete, SelectedRecordsIntact, StatusIs
<1> QED
  BY <1>2, <1>3, <1>4, <1>5, <1>6, <1>7, <1>9, <1>10, <1>11, HolderStep DEF ownerVars

\* The receipt is published once, complete.
LEMMA PublishReceiptKeeps == ASSUME IInv, NEW p \in Procs, PublishReceipt(p) PROVE IInv'
<1> USE OwnersAndReconcilers
<1>1. pc[p] = "receipt" /\ pc[p] \notin Free /\ pc[p] # "fenced"
  BY DEF PublishReceipt, Free
<1>2. UNCHANGED <<manifest, claim, pinned, status, latest, envelope, summary, source, archivedBy,
                  loss, evaluation, faultVars>>
  BY DEF PublishReceipt
<1>3. StatusIs("running") /\ fence = p /\ MintingAccount(p) /\ p # None
  BY <1>1, HolderHas DEF StatusAccount, Writing, Selecting
<1>4. CASE LeaseLive(p)
  <2>1. receipt' = p /\ pc' = [pc EXCEPT ![p] = "evaluate"] /\ fence' = fence
    BY <1>4 DEF PublishReceipt, Leave
  <2>2. pc'[p] = "evaluate" /\ Moves(p)
    BY <1>1, <2>1 DEF Moves, IInv, TypeOK
  <2>3. TypeOK'
    BY <1>2, <2>1 DEF IInv, TypeOK, faultVars, Receipts, Steps, Selecting
  <2>4. ReceiptStaysComplete'
    BY <1>1, <1>2, <1>3, <2>1 DEF ReceiptStaysComplete, ClosureOf, MintingAccount, Minting, Sources
  <2>5. SelectedRecordsIntact' /\ StatusIs("running")'
    BY <1>2, <1>3 DEF SelectedRecordsIntact, StatusIs
  <2>6. StatusAccount(p)' /\ MintingAccount(p)' /\ SummaryAccount(p)'
    BY <1>3, <2>1, <2>2, <2>5 DEF StatusAccount, MintingAccount, SummaryAccount, Minting, Completing
  <2> QED
    BY <1>1, <1>2, <1>3, <2>1, <2>2, <2>3, <2>4, <2>5, <2>6, HolderStep DEF Free
<1>5. CASE ~LeaseLive(p)
  <2>1. UNCHANGED receipt /\ Leave(p, "end")
    BY <1>5 DEF PublishReceipt
  <2>2. TypeOK'
    BY <1>2, <2>1 DEF Leave, IInv, TypeOK, faultVars, Steps
  <2> QED
    BY <1>1, <1>2, <2>1, <2>2, LeavingKeeps DEF recordVars
<1> QED
  BY <1>4, <1>5

\* Evaluating a receipt and inspecting the run under its fence only read.
LEMMA ReadingKeeps ==
    ASSUME IInv, NEW p \in Procs, Evaluate(p) \/ (p \in Reconcilers /\ Inspect(p)) PROVE IInv'
<1> USE OwnersAndReconcilers
<1> DEFINE to == pc'[p]
<1>1. pc[p] \in {"evaluate", "locked"} /\ pc[p] \notin Free /\ pc[p] # "fenced"
  BY DEF Evaluate, Inspect, Free
<1>2. UNCHANGED <<manifest, claim, pinned, status, latest, recordVars, faultVars>>
  BY DEF Evaluate, Inspect
<1>3. /\ to \in {"evaluation", "evaluate", "archive_manifest", "end"}
      /\ to = "archive_manifest" => p \in Reconcilers /\ receipt = None
      /\ to \in {"evaluation", "evaluate"} => receipt # None
      /\ to # "end" => StatusIs("running")
      /\ pc' = [pc EXCEPT ![p] = to]
      /\ to = "end" \/ fence' = fence
      /\ to = "evaluate" => p \in Reconcilers
      /\ fence' \in {fence, None}
  <2>1. CASE Evaluate(p)
    <3>1. receipt # None /\ StatusIs("running")
      BY <2>1, HolderHas DEF Evaluate, Free, SummaryAccount, Completing, StatusAccount, Writing,
         Selecting
    <3> QED
      BY <2>1, <3>1 DEF Evaluate, Leave, IInv, TypeOK
  <2>2. CASE p \in Reconcilers /\ Inspect(p)
    BY <2>2 DEF Inspect, Leave, IInv, TypeOK
  <2> QED
    BY <2>1, <2>2
<1>4. to \in Steps /\ (p \in Owners => to \notin (Free \cup {"fenced"}) \ {"end"}) /\ to # "fenced"
  BY <1>3 DEF Steps, Selecting, Reconciling, Free
<1>5. TypeOK'
  BY <1>2, <1>3, <1>4 DEF IInv, TypeOK, recordVars, faultVars
<1>6. to \notin Free => StatusAccount(p)' /\ MintingAccount(p)' /\ SummaryAccount(p)'
  BY <1>2, <1>3 DEF StatusAccount, MintingAccount, SummaryAccount, StatusIs, Minting, Completing,
     Free, recordVars
<1> HIDE DEF to
<1> QED
  BY <1>1, <1>2, <1>3, <1>4, <1>5, <1>6, SilentStep DEF to

\* The evaluation and the summary bind the receipt before the status does.
LEMMA CompletingKeeps ==
    ASSUME IInv, NEW p \in Procs, PublishEvaluation(p) \/ InterruptedSummary(p) PROVE IInv'
<1> USE OwnersAndReconcilers, NoneIsNoRecord
<1>1. pc[p] \in {"evaluation", "summary"} /\ pc[p] \notin Free /\ pc[p] # "fenced"
  BY DEF PublishEvaluation, InterruptedSummary, Goto, Free
<1>2. UNCHANGED <<ownerVars, status, latest, envelope, source, archivedBy, loss, receipt, faultVars>>
  BY DEF PublishEvaluation, InterruptedSummary
<1>3. StatusIs("running") /\ receipt # None /\ fence = p
  BY <1>1, HolderHas DEF StatusAccount, SummaryAccount, Writing, Selecting, Completing
<1>4. receipt \in Receipts
  BY <1>3 DEF IInv, TypeOK
<1>5. CASE PublishEvaluation(p)
  <2>1. /\ pc' = [pc EXCEPT ![p] = "summary"] /\ pc'[p] = "summary" /\ Moves(p) /\ UNCHANGED summary
        /\ evaluation' = [receipt |-> receipt, by |-> p]
    BY <1>1, <1>5 DEF PublishEvaluation, Goto, Moves, Free, IInv, TypeOK
  <2>2. evaluation' \in Evaluations /\ evaluation' # None
    BY <1>4, <2>1 DEF Evaluations
  <2>3. TypeOK'
    BY <1>2, <2>1, <2>2 DEF IInv, TypeOK, ownerVars, faultVars, Steps, Selecting
  <2>4. SummaryAccount(p)'
    BY <1>2, <1>3, <2>1, <2>2 DEF SummaryAccount
  <2>5. StatusAccount(p)' /\ MintingAccount(p)'
    BY <1>2, <1>3, <2>1 DEF StatusAccount, MintingAccount, StatusIs, Minting
  <2>6. ReceiptStaysComplete' /\ SelectedRecordsIntact'
    BY <1>2, <1>3 DEF IInv, ReceiptStaysComplete, SelectedRecordsIntact, ClosureOf, StatusIs
  <2> QED
    BY <1>1, <1>2, <1>3, <2>1, <2>3, <2>4, <2>5, <2>6, HolderStep DEF ownerVars, Free
<1>6. CASE InterruptedSummary(p)
  <2>1. /\ pc[p] = "summary" /\ pc' = [pc EXCEPT ![p] = "status"] /\ pc'[p] = "status" /\ Moves(p)
        /\ UNCHANGED evaluation
        /\ summary' = [state |-> "interrupted", record |-> receipt]
    BY <1>1, <1>6 DEF InterruptedSummary, Goto, Moves, Free, IInv, TypeOK
  <2>2. summary' \in Summaries
    BY <1>4, <2>1 DEF Summaries, Receipts, Terminal
  <2>3. TypeOK'
    BY <1>2, <2>1, <2>2 DEF IInv, TypeOK, ownerVars, faultVars, Steps, Selecting
  <2>4. SummaryAccount(p)'
    BY <1>1, <1>2, <1>3, <2>1, HolderHas DEF SummaryAccount
  <2>5. StatusAccount(p)' /\ MintingAccount(p)'
    BY <1>2, <1>3, <2>1 DEF StatusAccount, MintingAccount, StatusIs, Minting
  <2>6. ReceiptStaysComplete' /\ SelectedRecordsIntact'
    BY <1>2, <1>3 DEF IInv, ReceiptStaysComplete, SelectedRecordsIntact, ClosureOf, StatusIs
  <2> QED
    BY <1>1, <1>2, <1>3, <2>1, <2>3, <2>4, <2>5, <2>6, HolderStep DEF ownerVars, Free
<1> QED
  BY <1>5, <1>6

\* The interrupted status selects the receipt, its evaluation and its summary.
LEMMA SelectInterruptedKeeps == ASSUME IInv, NEW p \in Procs, SelectInterrupted(p) PROVE IInv'
<1> USE OwnersAndReconcilers, NoneIsNoRecord
<1>1. pc[p] = "status" /\ pc[p] \notin Free /\ pc[p] # "fenced"
  BY DEF SelectInterrupted, Free
<1>2. UNCHANGED <<manifest, claim, pinned, latest, recordVars, faultVars>>
  BY DEF SelectInterrupted
<1>3. /\ receipt # None /\ fence = p /\ evaluation # None /\ evaluation.receipt = receipt
      /\ summary = [state |-> "interrupted", record |-> receipt]
  BY <1>1, HolderHas DEF SummaryAccount, Completing
<1>4. CASE LeaseLive(p) /\ StatusIs("running")
  <2>1. /\ pc' = [pc EXCEPT ![p] = "latest"] /\ fence' = fence
        /\ status' = [state |-> "interrupted", record |-> receipt, evaluation |-> evaluation]
    BY <1>4 DEF SelectInterrupted, Leave
  <2>2. status' \in Statuses /\ status' # None
    BY <1>3, <2>1 DEF Statuses, Terminal, Receipts, IInv, TypeOK
  <2>3. pc'[p] = "latest" /\ Moves(p)
    BY <1>1, <2>1 DEF Moves, IInv, TypeOK
  <2>4. TypeOK'
    BY <1>2, <2>1, <2>2 DEF IInv, TypeOK, recordVars, faultVars, Steps
  <2>5. SelectedRecordsIntact' /\ ReceiptStaysComplete'
    BY <1>2, <1>3, <2>1 DEF IInv, SelectedRecordsIntact, ReceiptStaysComplete, ClosureOf, StatusIs,
       recordVars
  <2>6. StatusAccount(p)' /\ MintingAccount(p)' /\ SummaryAccount(p)'
    BY <2>1, <2>2, <2>3 DEF StatusAccount, MintingAccount, SummaryAccount, StatusIs, Minting,
       Completing, Writing, Passing, Stopping, Failing, Selecting
  <2> QED
    BY <1>1, <1>2, <1>3, <2>1, <2>3, <2>4, <2>5, <2>6, HolderStep DEF recordVars, Free
<1>5. CASE ~(LeaseLive(p) /\ StatusIs("running"))
  <2>1. UNCHANGED status /\ Leave(p, "end")
    BY <1>5 DEF SelectInterrupted
  <2>2. TypeOK'
    BY <1>2, <2>1 DEF Leave, IInv, TypeOK, recordVars, faultVars, Steps
  <2> QED
    BY <1>1, <1>2, <2>1, <2>2, LeavingKeeps
<1> QED
  BY <1>4, <1>5

\* The reconciler's manifest and the loss of the owner are written while there is
\* no receipt.
LEMMA LossKeeps ==
    ASSUME IInv, NEW r \in Reconcilers, ArchiveManifest(r) \/ PublishLoss(r) PROVE IInv'
<1> USE OwnersAndReconcilers DEF Procs
<1>1. pc[r] \in {"archive_manifest", "loss"} /\ pc[r] \notin Free /\ pc[r] # "fenced"
  BY DEF ArchiveManifest, PublishLoss, Goto, Free
<1>2. UNCHANGED <<manifest, claim, pinned, status, latest, envelope, summary, source, receipt,
                  evaluation, faultVars>>
  BY DEF ArchiveManifest, PublishLoss, ownerVars
<1>3. StatusIs("running") /\ receipt = None /\ fence = r /\ MintingAccount(r)
  BY <1>1, HolderHas DEF StatusAccount, MintingAccount, Writing, Minting
<1>4. CASE ArchiveManifest(r) /\ archivedBy \notin {None, r}
  <2>1. UNCHANGED <<archivedBy, loss>> /\ Leave(r, "end")
    BY <1>4 DEF ArchiveManifest
  <2>2. TypeOK'
    BY <1>2, <2>1 DEF Leave, IInv, TypeOK, faultVars, Steps
  <2> QED
    BY <1>1, <1>2, <2>1, <2>2, LeavingKeeps DEF recordVars
<1>5. CASE \/ ArchiveManifest(r) /\ archivedBy \in {None, r}
           \/ PublishLoss(r)
  <2>1. /\ pc' = [pc EXCEPT ![r] = pc'[r]] /\ fence' = fence /\ Moves(r)
        /\ \/ pc'[r] = "loss" /\ archivedBy' = r /\ loss' = loss
           \/ pc[r] = "loss" /\ pc'[r] = "observation" /\ loss' = r /\ archivedBy' = archivedBy
    BY <1>1, <1>5 DEF ArchiveManifest, PublishLoss, ownerVars, Goto, Leave, Moves, Free, IInv, TypeOK
  <2>2. TypeOK'
    BY <1>2, <2>1 DEF IInv, TypeOK, faultVars, Losses, Steps, Selecting, Reconciling
  <2>3. ReceiptStaysComplete' /\ SelectedRecordsIntact'
    BY <1>2, <1>3 DEF ReceiptStaysComplete, SelectedRecordsIntact, StatusIs
  <2>4. MintingAccount(r)'
    BY <1>2, <1>3, <2>1 DEF MintingAccount, Minting
  <2>5. StatusAccount(r)' /\ SummaryAccount(r)'
    BY <1>2, <1>3, <2>1 DEF StatusAccount, SummaryAccount, StatusIs, Completing
  <2> QED
    BY <1>1, <1>2, <1>3, <2>1, <2>2, <2>3, <2>4, <2>5, HolderStep DEF Free
<1> QED
  BY <1>4, <1>5

\* A death leaves what was written, and frees what was held.
LEMMA CrashKeeps == ASSUME IInv, NEW p \in Procs, Crash(p) PROVE IInv'
<1> USE OwnersAndReconcilers DEF Procs
<1>1. /\ Leave(p, "end") /\ pc[p] \notin {"new", "idle", "end"}
      /\ UNCHANGED <<manifest, claim, pinned, status, latest, recordVars, signalled>>
  BY DEF Crash, Active
<1>2. pc' = [pc EXCEPT ![p] = "end"] /\ pc'[p] = "end" /\ Moves(p) /\ fence' \in {fence, None}
  BY <1>1 DEF Leave, Moves, IInv, TypeOK
<1>3. ownerFaults' \in 0 .. MaxOwnerFaults /\ reconcilerFaults' \in 0 .. MaxReconcilerFaults
  BY FaultBounds DEF Crash, CountFault, IInv, TypeOK
<1>4. TypeOK'
  BY <1>1, <1>2, <1>3 DEF IInv, TypeOK, recordVars, Steps
<1>5. ManifestWritten' /\ ReceiptStaysComplete' /\ SelectedRecordsIntact'
  BY <1>1, <1>2 DEF IInv, ManifestWritten, Moves, ReceiptStaysComplete, SelectedRecordsIntact,
     ClosureOf, StatusIs, recordVars
<1>6. Accounted(p)'
  BY <1>2 DEF Accounted, Free
<1>7. CASE pc[p] \in Free
  <2>1. UNCHANGED <<claim, status, envelope, summary, source, archivedBy, loss, receipt, evaluation>>
    BY <1>1 DEF recordVars
  <2>2. fence' = fence \/ fence = None \/ fence = p
    BY <1>1 DEF Leave
  <2> QED
    BY <1>2, <1>4, <1>5, <1>6, <1>7, <2>1, <2>2, FreeStep
<1>8. CASE pc[p] \notin Free /\ pc[p] # "fenced"
  BY <1>1, <1>4, <1>8, LeavingKeeps
<1>9. CASE pc[p] = "fenced"
  <2>1. ASSUME NEW q \in Procs PROVE Accounted(q)'
    <3>1. CASE q = p
      BY <1>6, <3>1
    <3>2. CASE q # p
      BY <1>2, <1>9, <3>2, OthersFree DEF Moves, Accounted, Free
    <3> QED
      BY <3>1, <3>2
  <2>2. claim # None => claim.by \in Procs /\ claim.by # p
    BY <1>9 DEF IInv, TypeOK, Claims, ClaimStands
  <2>3. ClaimStands' /\ OwnerLossIsReal'
    BY <1>1, <1>2, <2>2 DEF IInv, ClaimStands, OwnerLossIsReal, Moves, recordVars
  <2> QED
    BY <1>4, <1>5, <2>1, <2>3 DEF IInv
<1> QED
  BY <1>7, <1>8, <1>9


-----------------------------------------------------------------------------
(* The theorems.                                                           *)

\* A run directory that does not exist yet satisfies the invariant.
LEMMA InitKeeps == ASSUME Init PROVE IInv
<1> USE OwnersAndReconcilers, NoneIsNoRecord, FaultBounds
<1>1. TypeOK
  BY DEF Init, TypeOK, Procs, Steps, Bootstrap
<1>2. ASSUME NEW p \in Procs PROVE pc[p] \in {"new", "idle"}
  BY DEF Init
<1>3. ManifestWritten
  BY DEF Init, ManifestWritten, Procs
<1>4. \A p \in Procs : Accounted(p)
  BY <1>2 DEF Accounted, Free
<1>5. receipt = None /\ receipt \notin Reconcilers /\ loss = None /\ status = None /\ claim = None
  BY DEF Init
<1>6. ClaimStands /\ OwnerLossIsReal /\ ReceiptStaysComplete /\ SelectedRecordsIntact
  BY <1>5 DEF ClaimStands, OwnerLossIsReal, ReceiptStaysComplete, SelectedRecordsIntact, StatusIs
<1> QED
  BY <1>1, <1>3, <1>4, <1>6 DEF IInv

\* Every step keeps the invariant.
LEMMA NextKeeps == ASSUME IInv, [Next]_vars PROVE IInv'
<1>1. ASSUME NEW p \in Procs, SelectionStep(p) PROVE IInv'
  BY <1>1, PublishSourceKeeps, PublishReceiptKeeps, ReadingKeeps, CompletingKeeps,
     SelectInterruptedKeeps, ProjectLatestKeeps DEF SelectionStep
<1>2. ASSUME NEW o \in Owners, AcquisitionStep(o) PROVE IInv'
  BY <1>2, ContendKeeps, PublishClaimKeeps, PublishRunningKeeps DEF AcquisitionStep
<1>3. ASSUME NEW o \in Owners, OwnerStep(o) PROVE IInv'
  BY <1>2, <1>3, ContendKeeps, ChildKeeps, EnvelopeKeeps, OwnerMovesKeep, WriteSummaryKeeps,
     CommitStatusKeeps DEF OwnerStep
<1>4. ASSUME NEW r \in Reconcilers, ReconcilerStep(r) PROVE IInv'
  BY <1>1, <1>4, ContendKeeps, ReadingKeeps, LossKeeps DEF ReconcilerStep, Procs
<1>5. CASE UNCHANGED vars
  <2>1. TypeOK' /\ ManifestWritten' /\ ClaimStands' /\ OwnerLossIsReal'
    BY <1>5 DEF IInv, TypeOK, ManifestWritten, ClaimStands, OwnerLossIsReal, vars, ownerVars,
       recordVars, faultVars
  <2>2. ReceiptStaysComplete' /\ SelectedRecordsIntact'
    BY <1>5 DEF IInv, ReceiptStaysComplete, SelectedRecordsIntact, ClosureOf, StatusIs, vars,
       recordVars
  <2>3. ASSUME NEW p \in Procs PROVE Accounted(p)'
    BY <1>5 DEF IInv, Accounted, FenceAccount, StatusAccount, MintingAccount, SummaryAccount,
       StatusIs, vars, ownerVars, recordVars
  <2> QED
    BY <2>1, <2>2, <2>3 DEF IInv
<1> QED
  BY <1>1, <1>3, <1>4, <1>5, ChildKeeps, CrashKeeps DEF Next, Procs

\* The invariant holds in every state of the run.
LEMMA Invariance == Spec => []IInv
<1>1. Init => IInv
  BY InitKeeps
<1>2. IInv /\ [Next]_vars => IInv'
  BY NextKeeps
<1> QED
  BY <1>1, <1>2, PTL DEF Spec

\* The variables keep their types.
THEOREM TypeCorrect == Spec => []TypeOK
<1>1. IInv => TypeOK
  BY DEF IInv
<1> QED
  BY <1>1, Invariance, PTL

\* What a terminal status selects is on disk, whoever wrote it and whoever died.
THEOREM SelectedIsIntact == Spec => []SelectedRecordsIntact
<1>1. IInv => SelectedRecordsIntact
  BY DEF IInv
<1> QED
  BY <1>1, Invariance, PTL

\* A published interruption receipt keeps everything it cites.
THEOREM ReceiptsCanComplete == Spec => []ReceiptStaysComplete
<1>1. IInv => ReceiptStaysComplete
  BY DEF IInv
<1> QED
  BY <1>1, Invariance, PTL

\* A loss is observed only of an owner that has left its run.
THEOREM LossIsReal == Spec => []OwnerLossIsReal
<1>1. IInv => OwnerLossIsReal
  BY DEF IInv
<1> QED
  BY <1>1, Invariance, PTL

\* A step that replaces the claim or a terminal status is not one of the run:
\* the claim is linked when there is none, and a status replaces none or a
\* running one.
LEMMA NothingReselected ==
    ASSUME IInv, Next
    PROVE  /\ claim # None => claim' = claim
           /\ \A t \in Terminal : StatusIs(t) => status' = status
<1> DEFINE Kept == UNCHANGED <<claim, status>>
<1>1. ASSUME NEW p \in Procs, SelectionStep(p) PROVE Kept \/ (UNCHANGED claim /\ StatusIs("running"))
  BY <1>1 DEF SelectionStep, PublishSource, PublishReceipt, Evaluate, PublishEvaluation,
     InterruptedSummary, SelectInterrupted, ProjectLatest, ownerVars
<1>2. ASSUME NEW o \in Owners, AcquisitionStep(o)
      PROVE  Kept \/ (UNCHANGED status /\ claim = None) \/ (UNCHANGED claim /\ status = None)
  <2>1. CASE PublishRunning(o)
    <3>1. pc[o] = "claimed" /\ pc[o] \notin Free /\ o \in Procs
      BY <2>1 DEF PublishRunning, Goto, Free, Procs
    <3>2. status = None
      BY <3>1, HolderHas DEF StatusAccount
    <3> QED
      BY <2>1, <3>2 DEF PublishRunning
  <2> QED
    BY <1>2, <2>1 DEF AcquisitionStep, CheckUnclaimed, AcquireFence, PublishClaim, ownerVars
<1>3. ASSUME NEW o \in Owners, OwnerStep(o), ~AcquisitionStep(o)
      PROVE  Kept \/ (UNCHANGED claim /\ StatusIs("running"))
  BY <1>3 DEF OwnerStep, Create, ProjectRunning, Fork, StageStops, ConsumeStop, Finish,
     WriteSummary, CommitStatus, StopEnvelope, FailEnvelope, Signal, BeginInterruption, Raise,
     ownerVars
<1>4. ASSUME NEW r \in Reconcilers, ReconcilerStep(r), ~SelectionStep(r) PROVE Kept
  BY <1>4 DEF ReconcilerStep, ReadTarget, AcquireReconcilerFence, Inspect, ArchiveManifest,
     PublishLoss, ownerVars
<1>5. ASSUME NEW p \in Procs, Crash(p) \/ NeutralizeChild(p) PROVE Kept
  BY <1>5 DEF Crash, NeutralizeChild
<1>6. \/ Kept
      \/ UNCHANGED status /\ claim = None
      \/ UNCHANGED claim /\ (status = None \/ StatusIs("running"))
  BY <1>1, <1>2, <1>3, <1>4, <1>5 DEF Next, Procs
<1> QED
  BY <1>6 DEF StatusIs, Terminal

\* A run is claimed once and ends once.
THEOREM SelectionIsFinal == Spec => SelectedOnce
<1>1. IInv /\ [Next]_vars =>
          [/\ claim # None => claim' = claim
           /\ \A t \in Terminal : StatusIs(t) => status' = status]_vars
  BY NothingReselected
<1> QED
  BY <1>1, Invariance, PTL DEF Spec, SelectedOnce

===============================================================================
