----------------------- MODULE EnvironmentRecoveryProofs -----------------------
(***************************************************************************)
(* For any number of executors, results and deaths: a recovery is committed*)
(* from a recorded passing result, and no execution meets a conflict.      *)
(***************************************************************************)
EXTENDS EnvironmentRecovery, FiniteSetTheorems, SequenceTheorems, TLAPS

-----------------------------------------------------------------------------
(* The inductive invariant: the receipts and the records beside them, and  *)
(* where the execution that holds the lock stands with them.               *)

Written == Len(store.chain)

\* A receipt references published results, of which one passes at most.
WellReferenced(x) ==
    /\ x.refs \subseteq results
    /\ \A g, h \in x.refs \cap Good : g = h

\* The n-th receipt of the transaction.
Link(n, x) ==
    /\ WellReferenced(x)
    /\ n = 1 => x = Prepared
    /\ n = 2 => x = Started
    /\ n > 1 => x.phase \in {"running", "terminal"}

\* The last receipt is a running one that can be continued.
Open == Written > 1 /\ Current(store).phase = "running" /\ ~Halted

\* The receipt that follows: another running one until there is a commit, then
\* the terminal one that commits it.
Follows(x) ==
    /\ Link(Written + 1, x)
    /\ Written > 1 => Open /\ x # Current(store)
    /\ Written > 1 /\ commit = None => x.phase = "running"
    /\ commit # None =>
          /\ x.phase = "terminal" /\ commit.running = Written
          /\ x.refs = Current(store).refs /\ x.result = commit.result /\ ~x.halted

\* The commit binds the last running receipt and a passing result it references;
\* a terminal receipt repeats both.
CommitSound ==
    /\ commit.running > 1
    /\ commit.running \in {Written, Written - 1}
    /\ commit.result \in Good \cap results \cap store.chain[commit.running].refs
    /\ store.chain[commit.running].phase = "running"
    /\ \A n \in 1 .. Written : ~store.chain[n].halted
    /\ commit.running # Written =>
          /\ Current(store).phase = "terminal"
          /\ Current(store).refs = store.chain[commit.running].refs
          /\ Current(store).result = commit.result

StoreSound ==
    /\ \A n \in 1 .. Written : Link(n, store.chain[n])
    /\ \A n \in 1 .. Written - 1 : store.chain[n].phase # "terminal" /\ ~store.chain[n].halted
    /\ \/ store.orphans = {}
       \/ \E x \in Receipts : store.orphans = {x} /\ Follows(x)
    /\ Written > 0 /\ Current(store).phase = "terminal" =>
          commit # None /\ commit.running # Written
    /\ commit # None => CommitSound
    /\ evaluation # None =>
          /\ Written > 0 /\ Current(store).phase = "terminal"
          /\ evaluation = commit.result

Probing == {"probe", "publish", "validate", "halt", "halt_pointer", "record", "record_pointer"}

\* Where the holder of the lock stands.
HolderSound(p) ==
    /\ pc[p] \in Pointing => store.orphans = {ReceiptAt(p, pc[p])}
    /\ pc[p] \notin Pointing \cup {"reconcile"} => store.orphans = {}
    /\ pc[p] \in {"prepare", "prepare_pointer"} => Written = 0
    /\ pc[p] \in {"start", "start_pointer"} => Written = 1
    /\ pc[p] = "running" => Written > 1 /\ Current(store).phase = "running"
    /\ pc[p] \in Probing \cup {"recorded", "decide", "commit", "finish", "finish_pointer"} => Open
    /\ pc[p] \in Probing \cup {"recorded", "decide", "commit"} => commit = None
    /\ pc[p] \in Probing => Passing = {}
    /\ pc[p] \in {"validate", "halt", "halt_pointer", "record", "record_pointer"} =>
          observed[p] \in results
    /\ pc[p] \in {"halt", "halt_pointer"} => observed[p] \in Foreign
    /\ pc[p] \in {"record", "record_pointer"} => observed[p] \notin Current(store).refs
    /\ pc[p] = "publish" => observed[p] # None
    /\ pc[p] = "decide" => observed[p] \in Current(store).refs
    /\ pc[p] = "commit" => observed[p] \in Passing
    /\ pc[p] \in {"finish", "finish_pointer"} => commit # None /\ commit.running = Written

IInv ==
    /\ TypeOK
    /\ StoreSound
    /\ \A p \in Executors :
          /\ pc[p] # "conflict"
          /\ pc[p] \in Locked => lock = p /\ HolderSound(p)


-----------------------------------------------------------------------------
(* The receipts of the transaction.                                        *)

\* The receipts are a sequence; the last one is the current one.
LEMMA Chain ==
    ASSUME TypeOK
    PROVE  /\ store.chain \in Seq(Receipts) /\ store.orphans \subseteq Receipts
           /\ store = [chain |-> store.chain, orphans |-> store.orphans]
           /\ Written \in Nat
           /\ store.chain = <<>> <=> Written = 0
           /\ \A n \in 1 .. Written : store.chain[n] \in Receipts
           /\ Written # 0 => Current(store) = store.chain[Written] /\ Current(store) \in Receipts
<1>1. store \in [chain : Seq(Receipts), orphans : SUBSET Receipts]
  BY DEF TypeOK
<1>2. store.chain \in Seq(Receipts)
  BY <1>1
<1>3. Written \in Nat /\ DOMAIN store.chain = 1 .. Written
  BY <1>2, LenProperties DEF Written
<1>4. store.chain = <<>> <=> Written = 0
  BY <1>2, EmptySeq DEF Written
<1>5. \A n \in 1 .. Written : store.chain[n] \in Receipts
  BY <1>2, <1>3, ElementOfSeq DEF Written
<1>6. Current(store) = store.chain[Written]
  BY DEF Current, Written
<1>7. Written # 0 => Written \in 1 .. Written
  BY <1>3
<1> QED
  BY <1>1, <1>2, <1>3, <1>4, <1>5, <1>6, <1>7

\* How many receipts there are tells the phase but for the end.
LEMMA PhaseByCount ==
    ASSUME TypeOK, StoreSound
    PROVE  /\ PhaseOf(store) = "absent" <=> Written = 0
           /\ PhaseOf(store) = "prepared" <=> Written = 1
           /\ PhaseOf(store) \in {"running", "terminal"} <=> Written > 1
           /\ Written # 0 => /\ PhaseOf(store) = Current(store).phase
                             /\ Link(Written, Current(store))
<1>1. Written \in Nat
  BY Chain
<1>2. Written # 0 => Link(Written, Current(store))
  <2>1. Written # 0 => Written \in 1 .. Written
    BY <1>1
  <2> QED
    BY <2>1, Chain DEF StoreSound
<1>3. Written = 0 => PhaseOf(store) = "absent"
  BY Chain DEF PhaseOf
<1>4. Written # 0 => PhaseOf(store) = Current(store).phase
  BY Chain DEF PhaseOf
<1>5. Written = 1 => PhaseOf(store) = "prepared"
  BY <1>2, <1>4 DEF Link, Prepared
<1>6. Written > 1 => PhaseOf(store) \in {"running", "terminal"}
  BY <1>1, <1>2, <1>4 DEF Link
<1> QED
  BY <1>1, <1>2, <1>3, <1>4, <1>5, <1>6

\* The receipt that follows is a successor, and new.
LEMMA NextFollows ==
    ASSUME TypeOK, StoreSound, NEW x \in Receipts, Follows(x)
    PROVE  Succeeds(store, x) /\ ~Selected(store, x)
<1>1. Written \in Nat
  BY Chain
<1>2. CASE Written = 0
  <2>1. PhaseOf(store) = "absent" /\ store.chain = <<>>
    BY <1>2, PhaseByCount, Chain
  <2>2. x.phase = "prepared"
    BY <1>2 DEF Follows, Link, Prepared
  <2> QED
    BY <2>1, <2>2 DEF Succeeds, Selected, Following
<1>3. CASE Written = 1
  <2>1. PhaseOf(store) = "prepared" /\ Current(store).phase = "prepared"
    BY <1>3, PhaseByCount
  <2>2. x.phase = "running"
    BY <1>3 DEF Follows, Link, Started, Prepared
  <2>3. x # Current(store)
    BY <2>1, <2>2
  <2> QED
    BY <2>1, <2>2, <2>3 DEF Succeeds, Selected, Following
<1>4. CASE Written > 1
  <2>1. PhaseOf(store) = "running" /\ x # Current(store)
    BY <1>1, <1>4, PhaseByCount DEF Follows, Open
  <2>2. x.phase \in {"running", "terminal"}
    BY <1>1, <1>4 DEF Follows, Link
  <2> QED
    BY <2>1, <2>2 DEF Succeeds, Selected, Following
<1> QED
  BY <1>1, <1>2, <1>3, <1>4


\* Selecting it adds it to the receipts and leaves no file behind.
LEMMA SelectKeeps ==
    ASSUME TypeOK, StoreSound, NEW x \in Receipts, Follows(x), store.orphans = {x},
           store' = SelectReceipt(store, x), UNCHANGED <<results, commit, evaluation>>
    PROVE  /\ store' \in [chain : Seq(Receipts), orphans : SUBSET Receipts]
           /\ Written' = Written + 1 /\ store'.orphans = {} /\ Current(store') = x
           /\ StoreSound'
<1> DEFINE c == Append(store.chain, x)
<1>1. store' = [chain |-> c, orphans |-> {}]
  BY NextFollows DEF SelectReceipt
<1>2. store.chain \in Seq(Receipts) /\ Written \in Nat
  BY Chain
<1>3. /\ c \in Seq(Receipts) /\ Len(c) = Written + 1
      /\ \A n \in 1 .. Written : c[n] = store.chain[n]
      /\ c[Written + 1] = x
  BY <1>2, AppendProperties DEF Written
<1> HIDE DEF c
<1>4. store'.chain = c /\ store'.orphans = {}
  BY <1>1
<1>5. store' \in [chain : Seq(Receipts), orphans : SUBSET Receipts]
  BY <1>1, <1>3
<1>6. Written' = Written + 1
  BY <1>3, <1>4 DEF Written
<1>7. Current(store') = x /\ Current(store)' = x
  BY <1>3, <1>4 DEF Current
<1>8. /\ \A n \in 1 .. Written : store'.chain[n] = store.chain[n]
      /\ store'.chain[Written + 1] = x
  BY <1>3, <1>4
<1>9. Written # 0 => /\ Current(store) = store.chain[Written]
                     /\ Current(store).phase # "terminal" /\ ~Current(store).halted
  <2>1. Written = 1 => Current(store) = Prepared
    BY PhaseByCount DEF Link
  <2>2. Written > 1 => Current(store).phase = "running" /\ ~Current(store).halted
    BY DEF Follows, Open, Halted
  <2>3. Written = 1 \/ Written > 1 \/ Written = 0
    BY <1>2
  <2> QED
    BY <2>1, <2>2, <2>3, Chain DEF Prepared
<1>10. ASSUME NEW n \in 1 .. Written + 1 PROVE Link(n, store.chain[n])'
  <2>1. CASE n = Written + 1
    BY <1>8, <2>1 DEF Follows, Link, WellReferenced
  <2>2. CASE n \in 1 .. Written
    <3>1. Link(n, store.chain[n])
      BY <2>2 DEF StoreSound
    <3>2. store'.chain[n] = store.chain[n]
      BY <1>8, <2>2
    <3> QED
      BY <3>1, <3>2 DEF Link, WellReferenced
  <2> QED
    BY <1>2, <2>1, <2>2
<1>11. ASSUME NEW n \in 1 .. Written
       PROVE  store'.chain[n].phase # "terminal" /\ ~store'.chain[n].halted
  <2>1. CASE n = Written
    <3>1. Written # 0
      BY <1>2, <2>1
    <3> QED
      BY <1>8, <1>9, <2>1, <3>1
  <2>2. CASE n \in 1 .. Written - 1
    BY <1>8, <2>2 DEF StoreSound
  <2> QED
    BY <1>2, <2>1, <2>2
<1>12. x.phase = "terminal" => commit # None /\ commit.running = Written
  <2>1. Written = 0 => x.phase = "prepared"
    BY DEF Follows, Link, Prepared
  <2>2. Written = 1 => x.phase = "running"
    BY DEF Follows, Link, Started, Prepared
  <2>3. Written > 1 /\ commit = None => x.phase = "running"
    BY DEF Follows
  <2>4. commit # None => commit.running = Written
    BY DEF Follows
  <2> QED
    BY <1>2, <2>1, <2>2, <2>3, <2>4
<1>13. ASSUME commit # None PROVE CommitSound'
  <2>1. CommitSound /\ commit.running = Written /\ Written > 1
    BY <1>13 DEF StoreSound, Follows, CommitSound
  <2>2. /\ x.phase = "terminal" /\ x.refs = Current(store).refs /\ x.result = commit.result
        /\ ~x.halted
    BY <1>13 DEF Follows
  <2>3. store'.chain[commit'.running] = store.chain[commit.running]
    BY <1>2, <1>8, <2>1
  <2>4. \A n \in 1 .. Written + 1 : ~store'.chain[n].halted
    <3> SUFFICES ASSUME NEW n \in 1 .. Written + 1 PROVE ~store'.chain[n].halted
      OBVIOUS
    <3>1. CASE n = Written + 1
      BY <1>8, <2>2, <3>1
    <3>2. CASE n \in 1 .. Written
      BY <1>11, <3>2
    <3> QED
      BY <1>2, <3>1, <3>2
  <2>5. Current(store).refs = store.chain[commit.running].refs
    BY <1>2, <1>9, <2>1
  <2> QED
    BY <1>2, <1>6, <1>7, <2>1, <2>2, <2>3, <2>4, <2>5 DEF CommitSound
<1>14. evaluation = None
  <2>1. evaluation # None => Written > 0 /\ Current(store).phase = "terminal"
    BY DEF StoreSound
  <2> QED
    BY <1>2, <1>9, <2>1
<1>15. StoreSound'
  <2>1. \A n \in 1 .. Written' : Link(n, store.chain[n])'
    BY <1>6, <1>10
  <2>2. Written' - 1 = Written
    BY <1>2, <1>6
  <2>3. Current(store)'.phase = "terminal" => commit' # None /\ commit'.running # Written'
    BY <1>2, <1>6, <1>7, <1>12
  <2> QED
    BY <1>4, <1>11, <1>13, <1>14, <2>1, <2>2, <2>3 DEF StoreSound
<1> QED
  BY <1>4, <1>5, <1>6, <1>7, <1>15

\* Its file is published where there is none, and leaves the receipts alone.
LEMMA WriteKeeps ==
    ASSUME TypeOK, StoreSound, NEW x \in Receipts, Follows(x), store.orphans = {},
           store' = WriteReceipt(store, x), UNCHANGED <<results, commit, evaluation>>
    PROVE  /\ store' \in [chain : Seq(Receipts), orphans : SUBSET Receipts]
           /\ store'.chain = store.chain /\ store'.orphans = {x}
           /\ StoreSound'
<1>1. store' = [store EXCEPT !.orphans = {x}]
  BY NextFollows DEF WriteReceipt
<1>2. store \in [chain : Seq(Receipts), orphans : SUBSET Receipts]
  BY DEF TypeOK
<1>3. /\ store' \in [chain : Seq(Receipts), orphans : SUBSET Receipts]
      /\ store'.chain = store.chain /\ store'.orphans = {x}
  BY <1>1, <1>2
<1>4. Written' = Written /\ Current(store)' = Current(store)
  BY <1>3 DEF Written, Current
<1>5. Follows(x)'
  BY <1>3, <1>4 DEF Follows, Link, WellReferenced, Open, Halted
<1>6. CommitSound => CommitSound'
  BY <1>3, <1>4 DEF CommitSound
<1>7. \A n \in 1 .. Written : Link(n, store.chain[n])'
  BY <1>3 DEF StoreSound, Link, WellReferenced
<1>8. StoreSound'
  BY <1>3, <1>4, <1>5, <1>6, <1>7 DEF StoreSound
<1> QED
  BY <1>3, <1>8

\* A committed transaction's terminal receipt proves the commit.
LEMMA TerminalIsVerified ==
    ASSUME TypeOK, StoreSound, PhaseOf(store) = "terminal"
    PROVE  Verified
<1>1. Written > 1 /\ Current(store).phase = "terminal" /\ Written \in Nat
  BY PhaseByCount, Chain
<1>2. commit # None /\ commit.running # Written /\ CommitSound
  BY <1>1 DEF StoreSound
<1>3. commit.running = Len(store.chain) - 1
  BY <1>2 DEF CommitSound, Written
<1> QED
  BY <1>2, <1>3 DEF CommitSound, Verified

\* A running receipt references one passing result at most.
LEMMA OnePasses ==
    ASSUME TypeOK, StoreSound, Written > 1
    PROVE  /\ Cardinality(Passing) \in {0, 1}
           /\ Cardinality(Passing) = 0 <=> Passing = {}
<1>1. \A g, h \in Passing : g = h
  BY PhaseByCount, Chain DEF Link, WellReferenced, Passing
<1>2. CASE Passing = {}
  BY <1>2, FS_EmptySet
<1>3. CASE Passing # {}
  <2>1. PICK g : g \in Passing
    BY <1>3
  <2>2. Passing = {g}
    BY <1>1, <2>1
  <2>3. Cardinality(Passing) = 1
    BY <2>2, FS_Singleton
  <2> QED
    BY <1>3, <2>3
<1> QED
  BY <1>2, <1>3


-----------------------------------------------------------------------------
(* What the steps of one execution leave to the others.                    *)

\* The records stay sound while none of them changes.
LEMMA StoreStays ==
    ASSUME StoreSound, UNCHANGED <<store, results, commit, evaluation>>
    PROVE  StoreSound'
<1>1. Written' = Written /\ Current(store)' = Current(store)
  BY DEF Written, Current
<1>2. CommitSound' <=> CommitSound
  BY <1>1 DEF CommitSound
<1>3. \A x \in Receipts : Follows(x)' <=> Follows(x)
  BY <1>1 DEF Follows, Link, WellReferenced, Open, Halted
<1> QED
  BY <1>1, <1>2, <1>3 DEF StoreSound, Link, WellReferenced

\* Only the holder of the lock relies on the records: what p does is nothing to
\* another execution unless that one holds it.
LEMMA Frame ==
    ASSUME IInv, NEW p \in Executors, NEW to \in Steps \ {"conflict"},
           pc' = [pc EXCEPT ![p] = to], TypeOK', StoreSound',
           to \in Locked => lock' = p /\ HolderSound(p)',
           lock \in Executors \ {p} =>
               /\ lock' = lock /\ observed'[lock] = observed[lock]
               /\ UNCHANGED <<store, results, commit>>
    PROVE  IInv'
<1>1. pc'[p] = to /\ \A q \in Executors \ {p} : pc'[q] = pc[q]
  BY DEF IInv, TypeOK
<1>2. ASSUME NEW q \in Executors \ {p}, pc[q] \in Locked
      PROVE  lock' = q /\ HolderSound(q)'
  <2>1. lock = q /\ HolderSound(q)
    BY <1>2 DEF IInv
  <2>2. lock' = q /\ observed'[q] = observed[q] /\ UNCHANGED <<store, results, commit>>
    BY <2>1
  <2>3. pc'[q] = pc[q]
    BY <1>1
  <2>4. ReceiptAt(q, pc[q])' = ReceiptAt(q, pc[q])
    BY <2>2, <2>3 DEF ReceiptAt, Current
  <2>5. Written' = Written /\ Current(store)' = Current(store) /\ Passing' = Passing
        /\ (Open <=> Open')
    BY <2>2 DEF Written, Current, Passing, Open, Halted
  <2> QED
    BY <2>1, <2>2, <2>3, <2>4, <2>5 DEF HolderSound
<1>3. \A q \in Executors \ {p} : pc[q] # "conflict"
  BY DEF IInv
<1> QED
  BY <1>1, <1>2, <1>3 DEF IInv

\* A step that writes no record.
LEMMA QuietStep ==
    ASSUME IInv, NEW p \in Executors, NEW to \in Steps \ {"conflict"},
           pc' = [pc EXCEPT ![p] = to],
           UNCHANGED <<store, results, commit, evaluation>>,
           environment' \in Results, crashes' \in 0 .. MaxCrashes,
           lock' \in Executors \cup {None},
           observed' \in [Executors -> Results \cup {None}],
           to \in Locked => lock' = p /\ HolderSound(p)',
           lock \in Executors \ {p} => lock' = lock /\ observed'[lock] = observed[lock]
    PROVE  IInv'
<1>1. TypeOK'
  BY DEF IInv, TypeOK
<1>2. StoreSound'
  BY StoreStays DEF IInv
<1> QED
  BY <1>1, <1>2, Frame

\* What the execution that holds the lock knows.
LEMMA Held ==
    ASSUME IInv, NEW p \in Executors, pc[p] \in Locked
    PROVE  lock = p /\ HolderSound(p) /\ TypeOK /\ StoreSound /\ p # None
BY NoneIsNoRecord DEF IInv

\* Leaving the execution frees its lock and no other, and forgets what it saw.
LEMMA Leaving ==
    ASSUME TypeOK, NEW p \in Executors, NEW to \in Steps, Leave(p, to)
    PROVE  /\ pc' = [pc EXCEPT ![p] = to] /\ pc'[p] = to /\ pc' \in [Executors -> Steps]
           /\ lock' \in Executors \cup {None}
           /\ observed' \in [Executors -> Results \cup {None}]
           /\ lock \in Executors \ {p} => lock' = lock /\ observed'[lock] = observed[lock]
           /\ to \in Locked => lock' = lock /\ observed' = observed
BY DEF TypeOK, Leave

\* With the same records and the same result in hand, these are the same.
LEMMA SameRecords ==
    ASSUME UNCHANGED <<store, results, commit>>
    PROVE  /\ Written' = Written /\ Current(store)' = Current(store) /\ Passing' = Passing
           /\ Open' <=> Open
BY DEF Written, Current, Passing, Open, Halted

-----------------------------------------------------------------------------
(* The steps that write no record.                                         *)

\* The machine changes under everyone.
LEMMA EnvironmentKeeps == ASSUME IInv, ChangeEnvironment PROVE IInv'
<1>1. UNCHANGED <<store, results, commit, evaluation, lock, pc, observed, crashes>>
      /\ environment' \in Results
  BY DEF ChangeEnvironment
<1>2. TypeOK'
  BY <1>1 DEF IInv, TypeOK
<1>3. StoreSound'
  BY <1>1, StoreStays DEF IInv
<1>4. ASSUME NEW p \in Executors PROVE HolderSound(p) <=> HolderSound(p)'
  <2>1. ReceiptAt(p, pc[p])' = ReceiptAt(p, pc[p])
    BY <1>1 DEF ReceiptAt, Current
  <2> QED
    BY <1>1, <2>1, SameRecords DEF HolderSound
<1> QED
  BY <1>1, <1>2, <1>3, <1>4 DEF IInv

\* An execution is started, or dies wherever it is.
LEMMA OutsideKeeps ==
    ASSUME IInv, NEW p \in Executors, Execute(p) \/ Crash(p) PROVE IInv'
<1>1. CASE Execute(p)
  <2>1. "lock" \in Steps \ {"conflict"} /\ "lock" \notin Locked
    BY DEF Steps, Locked, Writing, Pointing
  <2> QED
    BY <1>1, <2>1, QuietStep DEF Execute, Goto, IInv, TypeOK
<1>2. CASE Crash(p)
  <2>1. "idle" \in Steps \ {"conflict"} /\ "idle" \notin Locked
    BY DEF Steps, Locked, Writing, Pointing
  <2>2. Leave(p, "idle") /\ UNCHANGED <<environment, store, results, commit, evaluation>>
        /\ crashes' \in 0 .. MaxCrashes
    BY <1>2, CrashBound DEF Crash, IInv, TypeOK
  <2> QED
    BY <2>1, <2>2, Leaving, QuietStep DEF IInv, TypeOK
<1> QED
  BY <1>1, <1>2

\* The lock is taken when nobody has it.
LEMMA LockKeeps == ASSUME IInv, NEW p \in Executors, Lock(p) PROVE IInv'
<1>1. /\ pc' = [pc EXCEPT ![p] = "reconcile"] /\ pc'[p] = "reconcile"
      /\ lock = None /\ lock' = p
      /\ UNCHANGED <<environment, store, results, commit, evaluation, observed, crashes>>
  BY DEF Lock, Goto, IInv, TypeOK
<1>2. "reconcile" \in Steps \ {"conflict"}
  BY DEF Steps, Locked
<1>3. HolderSound(p)'
  BY <1>1 DEF HolderSound, Pointing, Probing
<1> QED
  BY <1>1, <1>2, <1>3, QuietStep, NoneIsNoRecord DEF IInv, TypeOK

\* The receipts are read as they stand, and continued where they end.
LEMMA InspectKeeps == ASSUME IInv, NEW p \in Executors, Inspect(p) PROVE IInv'
<1>1. pc[p] = "inspect" /\ pc[p] \in Locked
  BY DEF Inspect, Locked
<1>2. lock = p /\ TypeOK /\ StoreSound /\ store.orphans = {} /\ Written \in Nat
  BY <1>1, Held, Chain DEF HolderSound, Pointing
<1>3. UNCHANGED <<environment, store, results, commit, evaluation, crashes>>
  BY DEF Inspect
<1>4. PICK to : /\ Leave(p, to)
                /\ to = CASE PhaseOf(store) = "terminal" -> IF Verified THEN "idle" ELSE "conflict"
                          [] PhaseOf(store) = "running" -> "running"
                          [] PhaseOf(store) \in {"absent", "prepared"} /\ commit # None -> "conflict"
                          [] PhaseOf(store) = "absent" /\ commit = None -> "prepare"
                          [] PhaseOf(store) = "prepared" /\ commit = None -> "start"
  BY DEF Inspect
<1>5. /\ to \in {"idle", "running", "prepare", "start"}
      /\ to = "running" => Written > 1 /\ Current(store).phase = "running"
      /\ to = "prepare" => Written = 0
      /\ to = "start" => Written = 1
  <2>1. commit # None => Written > 1
    BY <1>2 DEF StoreSound, CommitSound
  <2>2. CASE PhaseOf(store) = "terminal"
    BY <1>2, <1>4, <2>2, TerminalIsVerified
  <2>3. CASE PhaseOf(store) = "running"
    BY <1>2, <1>4, <2>3, PhaseByCount
  <2>4. CASE PhaseOf(store) = "absent"
    <3>1. Written = 0
      BY <1>2, <2>4, PhaseByCount
    <3> QED
      BY <1>4, <2>1, <2>4, <3>1
  <2>5. CASE PhaseOf(store) = "prepared"
    <3>1. Written = 1
      BY <1>2, <2>5, PhaseByCount
    <3> QED
      BY <1>4, <2>1, <2>5, <3>1
  <2>6. PhaseOf(store) \in {"absent", "prepared", "running", "terminal"}
    BY <1>2, PhaseByCount
  <2> QED
    BY <2>2, <2>3, <2>4, <2>5, <2>6
<1>6. to \in Steps \ {"conflict"}
  BY <1>5 DEF Steps, Locked, Writing
<1>7. to \in Locked => HolderSound(p)'
  <2>1. pc'[p] = to
    BY <1>2, <1>4, <1>6, Leaving
  <2> QED
    BY <1>2, <1>3, <1>5, <2>1, SameRecords DEF HolderSound, Pointing, Probing, Locked, Writing
<1>8. /\ pc' = [pc EXCEPT ![p] = to] /\ lock' \in Executors \cup {None}
      /\ observed' \in [Executors -> Results \cup {None}]
      /\ to \in Locked => lock' = p
  BY <1>2, <1>4, <1>6, Leaving
<1>9. environment' \in Results /\ crashes' \in 0 .. MaxCrashes
  BY <1>2, <1>3 DEF TypeOK
<1> QED
  BY <1>2, <1>3, <1>6, <1>7, <1>8, <1>9, QuietStep

\* A running transaction is probed, committed from what is on record, or
\* finished; it is never ambiguous.
LEMMA RunningKeeps == ASSUME IInv, NEW p \in Executors, Running(p) PROVE IInv'
<1>1. pc[p] = "running" /\ pc[p] \in Locked
  BY DEF Running, Locked
<1>2. /\ lock = p /\ TypeOK /\ StoreSound /\ store.orphans = {}
      /\ Written > 1 /\ Current(store).phase = "running"
  BY <1>1, Held DEF HolderSound, Pointing
<1>3. UNCHANGED <<environment, store, results, commit, evaluation, crashes>>
  BY DEF Running
<1>4. PICK to : /\ Leave(p, to)
                /\ \/ to = "idle"
                   \/ to = "finish" /\ ~Halted /\ commit # None /\ commit.running = Written
                   \/ to = "probe" /\ ~Halted /\ commit = None /\ Passing = {}
                   \/ to = "recorded" /\ ~Halted /\ commit = None
  <2>1. CASE Halted /\ Leave(p, "idle")
    BY <2>1
  <2>2. CASE ~Halted /\ commit # None /\
             Leave(p, IF commit.running = Len(store.chain) THEN "finish" ELSE "conflict")
    <3>1. commit.running = Written
      BY <1>2, <2>2 DEF StoreSound, CommitSound
    <3> QED
      BY <2>2, <3>1 DEF Written
  <2>3. CASE ~Halted /\ commit = None /\
             Leave(p, CASE Cardinality(Passing) = 0 -> "probe"
                        [] Cardinality(Passing) = 1 -> "recorded"
                        [] Cardinality(Passing) > 1 -> "conflict")
    <3>1. Cardinality(Passing) \in {0, 1} /\ (Cardinality(Passing) = 0 <=> Passing = {})
      BY <1>2, OnePasses
    <3>2. CASE Cardinality(Passing) = 0
      BY <2>3, <3>1, <3>2
    <3>3. CASE Cardinality(Passing) = 1
      BY <2>3, <3>1, <3>3
    <3> QED
      BY <3>1, <3>2, <3>3
  <2> QED
    BY <2>1, <2>2, <2>3 DEF Running
<1>5. to \in Steps \ {"conflict"}
  BY <1>4 DEF Steps, Locked, Writing
<1>6. to \in Locked => HolderSound(p)'
  <2>1. pc'[p] = to
    BY <1>2, <1>4, <1>5, Leaving
  <2>2. to # "idle" => Open
    BY <1>2, <1>4 DEF Open
  <2> QED
    BY <1>2, <1>3, <1>4, <2>1, <2>2, SameRecords DEF HolderSound, Pointing, Probing, Locked, Writing
<1> QED
  BY <1>2, <1>3, <1>4, <1>5, <1>6, Leaving, QuietStep DEF TypeOK


\* Another probe's result is never a passing one, and a probe is not nothing.
LEMMA ResultsDiffer ==
    /\ None \notin Results
    /\ \A o \in Foreign : o \notin Good
BY ResultKinds DEF Results

\* A recorded result is used, the machine is probed, and what it showed is
\* judged.
LEMMA ObservingKeeps ==
    ASSUME IInv, NEW p \in Executors, UseRecorded(p) \/ Probe(p) \/ Validate(p) \/ Decide(p)
    PROVE  IInv'
<1> DEFINE to == pc'[p]
<1>1. /\ pc[p] \in {"recorded", "probe", "validate", "decide"} /\ pc[p] \in Locked
      /\ pc[p] \notin Pointing \cup {"reconcile"}
  BY DEF UseRecorded, Probe, Validate, Decide, Goto, Locked, Pointing
<1>2. /\ lock = p /\ HolderSound(p) /\ TypeOK /\ StoreSound /\ store.orphans = {}
      /\ Open /\ commit = None
  BY <1>1, Held DEF HolderSound, Probing
<1>3. UNCHANGED <<environment, store, results, commit, evaluation, crashes>>
  BY DEF UseRecorded, Probe, Validate, Decide
<1>4. CASE UseRecorded(p)
  <2>1. PICK g \in Passing : observed' = [observed EXCEPT ![p] = g]
    BY <1>4 DEF UseRecorded
  <2>2. g \in Results
    BY DEF Passing, Results
  <2>3. pc' = [pc EXCEPT ![p] = "commit"] /\ pc'[p] = "commit" /\ lock' = lock
    BY <1>2, <1>4 DEF UseRecorded, Goto, TypeOK
  <2>4. observed'[p] = g /\ observed' \in [Executors -> Results \cup {None}]
    BY <1>2, <2>1, <2>2 DEF TypeOK
  <2>5. HolderSound(p)'
    BY <1>2, <1>3, <2>1, <2>3, <2>4, SameRecords DEF HolderSound, Pointing, Probing
  <2> QED
    BY <1>2, <1>3, <2>3, <2>4, <2>5, QuietStep DEF Steps, Locked, TypeOK
<1>5. CASE Probe(p)
  <2>1. Passing = {}
    BY <1>2, <1>5 DEF HolderSound, Probing, Probe, Goto
  <2>2. /\ pc' = [pc EXCEPT ![p] = "publish"] /\ pc'[p] = "publish" /\ lock' = lock
        /\ observed'[p] # None /\ observed' \in [Executors -> Results \cup {None}]
    BY <1>2, <1>5, ResultsDiffer DEF Probe, Goto, TypeOK
  <2>3. HolderSound(p)'
    BY <1>2, <1>3, <2>1, <2>2, SameRecords DEF HolderSound, Pointing, Probing
  <2> QED
    BY <1>2, <1>3, <2>2, <2>3, QuietStep DEF Steps, Locked, TypeOK
<1>6. CASE Validate(p)
  <2>1. Passing = {} /\ observed[p] \in results
    BY <1>2, <1>6 DEF HolderSound, Probing, Validate, Goto
  <2>2. /\ pc' = [pc EXCEPT ![p] = to] /\ lock' = lock /\ observed' = observed
        /\ \/ to = "halt" /\ observed[p] \in Foreign
           \/ to = "decide" /\ observed[p] \in Current(store).refs
           \/ to = "record" /\ observed[p] \notin Current(store).refs
    BY <1>2, <1>6 DEF Validate, Goto, TypeOK
  <2>3. to \in Steps \ {"conflict"}
    BY <2>2 DEF Steps, Locked, Writing
  <2>4. HolderSound(p)'
    BY <1>2, <1>3, <2>1, <2>2, SameRecords DEF HolderSound, Pointing, Probing
  <2> HIDE DEF to
  <2> QED
    BY <1>2, <1>3, <2>2, <2>3, <2>4, QuietStep DEF TypeOK
<1>7. CASE Decide(p)
  <2>1. observed[p] \in Current(store).refs
    BY <1>2, <1>7 DEF HolderSound, Decide
  <2>2. PICK e \in {"commit", "idle"} :
            Leave(p, e) /\ (e = "commit" => observed[p] \in Good)
    BY <1>7 DEF Decide
  <2>3. "commit" \in Steps /\ "idle" \in Steps /\ "commit" \in Locked /\ "idle" \notin Locked
    BY DEF Steps, Locked, Writing, Pointing
  <2>4. /\ pc' = [pc EXCEPT ![p] = e] /\ pc'[p] = e /\ lock' \in Executors \cup {None}
        /\ observed' \in [Executors -> Results \cup {None}]
        /\ e \in Locked => lock' = p /\ observed' = observed
    BY <1>2, <2>2, <2>3, Leaving
  <2>5. e \in Locked => HolderSound(p)'
    <3>1. e \in Locked => observed[p] \in Passing /\ e = "commit"
      BY <2>1, <2>2, <2>3 DEF Passing
    <3> QED
      BY <1>2, <1>3, <2>4, <3>1, SameRecords DEF HolderSound, Pointing, Probing
  <2> QED
    BY <1>2, <1>3, <2>3, <2>4, <2>5, QuietStep DEF TypeOK
<1> QED
  BY <1>4, <1>5, <1>6, <1>7

-----------------------------------------------------------------------------
(* The steps that write records.                                           *)

\* A result is published under the name of its contents: nothing is replaced.
LEMMA PublishResultKeeps == ASSUME IInv, NEW p \in Executors, PublishResult(p) PROVE IInv'
<1>1. /\ pc[p] = "publish" /\ pc[p] \in Locked /\ pc[p] \in Probing
      /\ pc[p] \notin Pointing \cup {"reconcile"}
  BY DEF PublishResult, Goto, Locked, Probing, Pointing
<1>2. /\ lock = p /\ TypeOK /\ StoreSound /\ store.orphans = {}
      /\ Open /\ commit = None /\ Passing = {} /\ observed[p] # None
  BY <1>1, Held DEF HolderSound
<1>3. /\ pc' = [pc EXCEPT ![p] = "validate"] /\ pc'[p] = "validate"
      /\ results' = results \cup {observed[p]}
      /\ UNCHANGED <<environment, store, commit, evaluation, lock, observed, crashes>>
  BY <1>2 DEF PublishResult, Goto, TypeOK
<1>4. "validate" \in Steps \ {"conflict"}
  BY DEF Steps, Locked
<1>5. TypeOK'
  BY <1>2, <1>3, <1>4 DEF TypeOK
<1>6. StoreSound'
  <2>1. Written' = Written /\ Current(store)' = Current(store)
    BY <1>3 DEF Written, Current
  <2>2. \A n \in 1 .. Written : Link(n, store.chain[n])'
    BY <1>2, <1>3 DEF StoreSound, Link, WellReferenced
  <2> QED
    BY <1>2, <1>3, <2>1, <2>2 DEF StoreSound
<1>7. HolderSound(p)'
  <2>1. Written' = Written /\ Current(store)' = Current(store) /\ Passing' = Passing /\ Open'
    BY <1>2, <1>3 DEF Written, Current, Passing, Open, Halted
  <2> QED
    BY <1>2, <1>3, <2>1 DEF HolderSound, Pointing, Probing
<1> QED
  BY <1>2, <1>3, <1>4, <1>5, <1>6, <1>7, Frame

\* The commit binds the running receipt, which is the last one, and the passing
\* result that it references.
LEMMA CommitKeeps == ASSUME IInv, NEW p \in Executors, Commit(p) PROVE IInv'
<1> DEFINE c == [running |-> Len(store.chain), result |-> observed[p]]
<1>1. pc[p] = "commit" /\ pc[p] \in Locked /\ pc[p] \notin Pointing \cup {"reconcile"}
  BY DEF Commit, Goto, Locked, Pointing
<1>2. /\ lock = p /\ TypeOK /\ StoreSound /\ store.orphans = {}
      /\ Open /\ commit = None /\ observed[p] \in Passing
  BY <1>1, Held DEF HolderSound
<1>3. /\ pc' = [pc EXCEPT ![p] = "finish"] /\ pc'[p] = "finish" /\ commit' = c
      /\ UNCHANGED <<environment, store, results, evaluation, lock, observed, crashes>>
  BY <1>2 DEF Commit, Goto, TypeOK
<1>4. Written \in Nat /\ Written > 1 /\ Current(store) = store.chain[Written]
  BY <1>2, Chain DEF Open
<1>5. c \in Commits /\ c # None /\ c.running = Written /\ c.result = observed[p]
  BY <1>2, <1>4, NoneIsNoRecord DEF Commits, Written, Passing
<1> HIDE DEF c
<1>6. "finish" \in Steps \ {"conflict"}
  BY DEF Steps, Locked, Writing
<1>7. TypeOK'
  BY <1>2, <1>3, <1>5, <1>6 DEF TypeOK
<1>8. Written' = Written /\ Current(store)' = Current(store) /\ Passing' = Passing /\ Open'
  BY <1>2, <1>3 DEF Written, Current, Passing, Open, Halted
<1>9. StoreSound'
  <2>1. Link(Written, Current(store)) /\ Current(store).phase = "running" /\ ~Current(store).halted
    BY <1>2, <1>4, PhaseByCount DEF Open, Halted
  <2>2. observed[p] \in Good \cap results \cap store.chain[Written].refs
    BY <1>2, <1>4, <2>1 DEF Passing, Link, WellReferenced
  <2>3. \A n \in 1 .. Written : ~store.chain[n].halted
    <3> SUFFICES ASSUME NEW n \in 1 .. Written PROVE ~store.chain[n].halted
      OBVIOUS
    <3>1. CASE n = Written
      BY <1>4, <2>1, <3>1
    <3>2. CASE n \in 1 .. Written - 1
      BY <1>2, <3>2 DEF StoreSound
    <3> QED
      BY <1>4, <3>1, <3>2
  <2>4. CommitSound'
    BY <1>3, <1>4, <1>5, <1>8, <2>1, <2>2, <2>3 DEF CommitSound
  <2>5. \A n \in 1 .. Written : Link(n, store.chain[n])'
    BY <1>2, <1>3 DEF StoreSound, Link, WellReferenced
  <2>6. evaluation = None
    BY <1>2, <2>1 DEF StoreSound
  <2> QED
    BY <1>2, <1>3, <1>8, <2>1, <2>4, <2>5, <2>6 DEF StoreSound
<1>10. HolderSound(p)'
  BY <1>2, <1>3, <1>5, <1>8 DEF HolderSound, Pointing, Probing
<1> QED
  BY <1>2, <1>3, <1>6, <1>7, <1>9, <1>10, Frame

\* The evaluation of a terminal transaction is always proven, and always the same.
LEMMA EvaluateKeeps == ASSUME IInv, NEW p \in Executors, Evaluate(p) PROVE IInv'
<1>1. TypeOK /\ StoreSound
  BY DEF IInv
<1>2. Verified /\ Written > 0 /\ Current(store).phase = "terminal" /\ commit # None
  <2>1. Verified
    BY <1>1, TerminalIsVerified DEF Evaluate
  <2>2. Written # 0 /\ Written \in Nat
    BY <1>1, PhaseByCount, Chain DEF Evaluate
  <2> QED
    BY <1>1, <2>1, <2>2, PhaseByCount DEF Evaluate, Verified
<1>3. evaluation \in {None, commit.result}
  BY <1>1 DEF StoreSound
<1>4. /\ evaluation' = commit.result /\ pc[p] = "idle"
      /\ UNCHANGED <<environment, store, results, commit, lock, observed, crashes, pc>>
  BY <1>2, <1>3 DEF Evaluate
<1>5. commit.result \in Good
  BY <1>2 DEF Verified
<1>6. TypeOK' /\ pc' = [pc EXCEPT ![p] = "idle"]
  BY <1>1, <1>4, <1>5 DEF TypeOK
<1>7. StoreSound'
  <2>1. Written' = Written /\ Current(store)' = Current(store)
    BY <1>4 DEF Written, Current
  <2>2. CommitSound' <=> CommitSound
    BY <1>4, <2>1 DEF CommitSound
  <2>3. \A x \in Receipts : Follows(x)' <=> Follows(x)
    BY <1>4, <2>1 DEF Follows, Link, WellReferenced, Open, Halted
  <2>4. \A n \in 1 .. Written : Link(n, store.chain[n])'
    BY <1>1, <1>4 DEF StoreSound, Link, WellReferenced
  <2> QED
    BY <1>1, <1>2, <1>4, <2>1, <2>2, <2>3, <2>4 DEF StoreSound
<1>8. "idle" \in Steps \ {"conflict"} /\ "idle" \notin Locked
  BY DEF Steps, Locked, Writing, Pointing
<1> QED
  BY <1>4, <1>6, <1>7, <1>8, Frame


\* A receipt that a death left unselected is selected first; there is never one
\* that cannot be.
LEMMA ReconcileKeeps == ASSUME IInv, NEW p \in Executors, Reconcile(p) PROVE IInv'
<1>1. pc[p] = "reconcile" /\ pc[p] \in Locked
  BY DEF Reconcile, Locked
<1>2. lock = p /\ TypeOK /\ StoreSound
  BY <1>1, Held
<1>3. \/ store.orphans = {}
      \/ \E x \in Receipts : store.orphans = {x} /\ Follows(x)
  BY <1>2 DEF StoreSound
<1>4. Reconcilable(store)
  BY <1>2, <1>3, NextFollows DEF Reconcilable
<1>5. /\ store' = Reconciled(store) /\ Leave(p, "inspect")
      /\ UNCHANGED <<environment, results, commit, evaluation, crashes>>
  BY <1>4 DEF Reconcile
<1>6. "inspect" \in Steps \ {"conflict"} /\ "inspect" \in Locked
  BY DEF Steps, Locked
<1>7. /\ store' \in [chain : Seq(Receipts), orphans : SUBSET Receipts]
      /\ StoreSound' /\ store'.orphans = {}
  <2>1. CASE store.orphans = {}
    <3>1. store' = store
      BY <1>5, <2>1 DEF Reconciled
    <3> QED
      BY <1>2, <1>5, <2>1, <3>1, StoreStays DEF TypeOK
  <2>2. CASE \E x \in Receipts : store.orphans = {x} /\ Follows(x)
    <3>1. PICK x \in Receipts : store.orphans = {x} /\ Follows(x)
      BY <2>2
    <3>2. (CHOOSE y \in store.orphans : TRUE) = x
      BY <3>1
    <3>3. store' = SelectReceipt(store, x)
      BY <1>5, <3>1, <3>2 DEF Reconciled
    <3> QED
      BY <1>2, <1>5, <3>1, <3>3, SelectKeeps
  <2> QED
    BY <1>3, <2>1, <2>2
<1>8. /\ pc' = [pc EXCEPT ![p] = "inspect"] /\ pc'[p] = "inspect" /\ lock' = lock
      /\ observed' = observed
  BY <1>2, <1>5, <1>6, Leaving
<1>9. TypeOK'
  BY <1>2, <1>5, <1>6, <1>7, <1>8 DEF TypeOK
<1>10. HolderSound(p)'
  BY <1>7, <1>8 DEF HolderSound, Pointing, Probing
<1> QED
  BY <1>2, <1>6, <1>7, <1>8, <1>9, <1>10, Frame

\* The receipt at a publishing step is the one that follows.
LEMMA ReceiptFollows ==
    ASSUME IInv, NEW p \in Executors, pc[p] \in Writing \cup Pointing
    PROVE  /\ pc[p] \in Locked
           /\ ReceiptAt(p, pc[p]) \in Receipts
           /\ Follows(ReceiptAt(p, pc[p]))
<1> DEFINE x == ReceiptAt(p, pc[p])
<1> DEFINE last == Current(store)
<1>1. pc[p] \in Locked
  BY DEF Locked
<1>2. TypeOK /\ StoreSound /\ HolderSound(p) /\ Written \in Nat
  BY <1>1, Held, Chain
<1>3. Written # 0 => last \in Receipts /\ Link(Written, last)
  BY <1>2, Chain, PhaseByCount
<1>4. commit # None => Written > 1 /\ CommitSound
  BY <1>2 DEF StoreSound, CommitSound
<1>5. CASE pc[p] \in {"prepare", "prepare_pointer"}
  <2>1. Written = 0 /\ x = Prepared
    BY <1>2, <1>5 DEF HolderSound, ReceiptAt
  <2>2. commit = None
    BY <1>4, <2>1
  <2>3. Prepared \in Receipts
    BY DEF Prepared, Receipts, Phases
  <2>4. Link(1, Prepared)
    BY DEF Link, WellReferenced, Prepared
  <2> QED
    BY <1>1, <2>1, <2>2, <2>3, <2>4 DEF Follows
<1>6. CASE pc[p] \in {"start", "start_pointer"}
  <2>1. Written = 1 /\ x = Started
    BY <1>2, <1>6 DEF HolderSound, ReceiptAt
  <2>2. commit = None
    BY <1>4, <2>1
  <2>3. Prepared \in Receipts /\ Prepared.refs = {}
    BY DEF Prepared, Receipts, Phases
  <2>4. Started \in Receipts /\ Started.phase = "running" /\ Started.refs = {}
    BY <2>3 DEF Started, Receipts, Phases
  <2>5. Link(2, Started)
    BY <2>4 DEF Link, WellReferenced
  <2> QED
    BY <1>1, <2>1, <2>2, <2>4, <2>5 DEF Follows
<1>7. CASE pc[p] \in {"halt", "halt_pointer", "record", "record_pointer"}
  <2>1. /\ Open /\ commit = None /\ Passing = {} /\ observed[p] \in results
        /\ pc[p] \in {"halt", "halt_pointer"} => observed[p] \in Foreign
        /\ pc[p] \in {"record", "record_pointer"} => observed[p] \notin last.refs
    BY <1>2, <1>7 DEF HolderSound, Probing
  <2>2. /\ Written > 1 /\ last.phase = "running" /\ ~last.halted
        /\ last \in Receipts /\ last.refs \subseteq results /\ last.refs \cap Good = {}
    BY <1>2, <1>3, <2>1 DEF Open, Halted, Passing, Link, WellReferenced
  <2>3. observed[p] \in Results
    BY <1>2, <2>1 DEF TypeOK
  <2>4. /\ x \in Receipts /\ x.refs = last.refs \cup {observed[p]} /\ x.phase = "running"
        /\ x # last
    <3>1. CASE pc[p] \in {"halt", "halt_pointer"}
      <4>1. x = [last EXCEPT !.refs = @ \cup {observed[p]}, !.halted = TRUE]
        BY <3>1 DEF ReceiptAt
      <4> HIDE DEF x, last
      <4> QED
        BY <2>2, <2>3, <4>1 DEF Receipts, Phases
    <3>2. CASE pc[p] \in {"record", "record_pointer"}
      <4>1. x = [last EXCEPT !.refs = @ \cup {observed[p]}]
        BY <3>2 DEF ReceiptAt
      <4>2. observed[p] \notin last.refs
        BY <2>1, <3>2
      <4> HIDE DEF x, last
      <4> QED
        BY <2>2, <2>3, <4>1, <4>2 DEF Receipts, Phases
    <3> QED
      BY <1>7, <3>1, <3>2
  <2>5. WellReferenced(x)
    BY <2>1, <2>2, <2>4 DEF WellReferenced
  <2> HIDE DEF x, last
  <2> QED
    BY <1>1, <1>2, <2>1, <2>2, <2>4, <2>5 DEF Follows, Link, x, last
<1>8. CASE pc[p] \in {"finish", "finish_pointer"}
  <2>1. Open /\ commit # None /\ commit.running = Written
    BY <1>2, <1>8 DEF HolderSound
  <2>2. /\ Written > 1 /\ last.phase = "running" /\ ~last.halted
        /\ last \in Receipts /\ WellReferenced(last)
    BY <1>2, <1>3, <2>1 DEF Open, Halted, Link
  <2>3. commit.result \in Results
    BY <1>4, <2>1 DEF CommitSound, Results
  <2>4. x = [last EXCEPT !.phase = "terminal", !.result = commit.result]
    BY <1>8 DEF ReceiptAt
  <2>5. /\ x \in Receipts /\ x.phase = "terminal" /\ x.refs = last.refs
        /\ x.result = commit.result /\ ~x.halted
    <3> HIDE DEF x, last
    <3> QED
      BY <2>2, <2>3, <2>4 DEF Receipts, Phases
  <2>6. WellReferenced(x)
    BY <2>2, <2>5 DEF WellReferenced
  <2> HIDE DEF x
  <2> QED
    BY <1>1, <1>2, <2>1, <2>2, <2>5, <2>6 DEF Follows, Link, x
<1> QED
  BY <1>5, <1>6, <1>7, <1>8 DEF Writing, Pointing

\* A receipt is always publishable where one is due: its file comes first.
LEMMA PublishReceiptKeeps == ASSUME IInv, NEW p \in Executors, PublishReceipt(p) PROVE IInv'
<1> DEFINE x == ReceiptAt(p, pc[p])
<1> DEFINE to == PointerOf(pc[p])
<1>1. pc[p] \in Writing
  BY DEF PublishReceipt
<1>2. pc[p] \in Locked /\ x \in Receipts /\ Follows(x)
  BY <1>1, ReceiptFollows
<1>3. lock = p /\ HolderSound(p) /\ TypeOK /\ StoreSound /\ store.orphans = {}
  BY <1>1, <1>2, Held DEF HolderSound, Writing, Pointing
<1>4. Publishable(store, x)
  BY <1>2, <1>3, NextFollows DEF Publishable
<1>5. /\ store' = WriteReceipt(store, x) /\ Leave(p, to)
      /\ UNCHANGED <<environment, results, commit, evaluation, crashes>>
  BY <1>4 DEF PublishReceipt
<1>6. to \in Pointing /\ to \in Locked /\ to \in Steps \ {"conflict"}
  BY <1>1 DEF PointerOf, Writing, Pointing, Locked, Steps
<1>7. pc' = [pc EXCEPT ![p] = to] /\ pc'[p] = to /\ lock' = lock /\ observed' = observed
  BY <1>3, <1>5, <1>6, Leaving
<1>8. /\ store' \in [chain : Seq(Receipts), orphans : SUBSET Receipts]
      /\ store'.chain = store.chain /\ store'.orphans = {x} /\ StoreSound'
  BY <1>2, <1>3, <1>5, WriteKeeps
<1>9. TypeOK'
  BY <1>3, <1>5, <1>6, <1>7, <1>8 DEF TypeOK
<1>10. /\ Written' = Written /\ Current(store)' = Current(store) /\ Passing' = Passing
       /\ Open' <=> Open
  BY <1>8 DEF Written, Current, Passing, Open, Halted
<1>11. ReceiptAt(p, pc[p])' = x
  <2>1. observed'[p] = observed[p] /\ commit' = commit /\ pc'[p] = PointerOf(pc[p])
    BY <1>5, <1>7
  <2> QED
    BY <1>1, <1>10, <2>1 DEF ReceiptAt, PointerOf, Writing
<1>12. HolderSound(p)'
  <2>1. observed'[p] = observed[p] /\ commit' = commit /\ results' = results
    BY <1>5, <1>7
  <2>2. CASE pc[p] = "prepare"
    BY <1>3, <1>6, <1>7, <1>8, <1>10, <1>11, <2>1, <2>2 DEF HolderSound, PointerOf, Probing
  <2>3. CASE pc[p] = "start"
    BY <1>3, <1>6, <1>7, <1>8, <1>10, <1>11, <2>1, <2>3 DEF HolderSound, PointerOf, Probing
  <2>4. CASE pc[p] = "halt"
    BY <1>3, <1>6, <1>7, <1>8, <1>10, <1>11, <2>1, <2>4 DEF HolderSound, PointerOf, Probing
  <2>5. CASE pc[p] = "record"
    BY <1>3, <1>6, <1>7, <1>8, <1>10, <1>11, <2>1, <2>5 DEF HolderSound, PointerOf, Probing
  <2>6. CASE pc[p] = "finish"
    BY <1>3, <1>6, <1>7, <1>8, <1>10, <1>11, <2>1, <2>6 DEF HolderSound, PointerOf, Probing
  <2> QED
    BY <1>1, <2>2, <2>3, <2>4, <2>5, <2>6 DEF Writing
<1> HIDE DEF x, to
<1> QED
  BY <1>3, <1>6, <1>7, <1>8, <1>9, <1>12, Frame

\* The pointer selects the receipt whose file was published.
LEMMA PublishPointerKeeps == ASSUME IInv, NEW p \in Executors, PublishPointer(p) PROVE IInv'
<1> DEFINE x == ReceiptAt(p, pc[p])
<1> DEFINE to == AfterPointer(pc[p])
<1>1. pc[p] \in Pointing
  BY DEF PublishPointer
<1>2. pc[p] \in Locked /\ x \in Receipts /\ Follows(x)
  BY <1>1, ReceiptFollows
<1>3. lock = p /\ HolderSound(p) /\ TypeOK /\ StoreSound /\ store.orphans = {x} /\ Written \in Nat
  BY <1>1, <1>2, Held, Chain DEF HolderSound
<1>4. /\ store' = SelectReceipt(store, x) /\ Leave(p, to)
      /\ UNCHANGED <<environment, results, commit, evaluation, crashes>>
  BY DEF PublishPointer
<1>5. to \in {"start", "running", "decide", "idle"} /\ to \in Steps \ {"conflict"}
  BY <1>1 DEF AfterPointer, Pointing, Locked, Steps, Writing
<1>6. "idle" \notin Locked /\ {"start", "running", "decide"} \subseteq Locked
  BY DEF Locked, Writing, Pointing
<1>7. /\ pc' = [pc EXCEPT ![p] = to] /\ pc'[p] = to /\ pc' \in [Executors -> Steps]
      /\ lock' \in Executors \cup {None} /\ observed' \in [Executors -> Results \cup {None}]
      /\ to \in Locked => lock' = lock /\ observed' = observed
  BY <1>3, <1>4, <1>5, Leaving
<1>8. /\ store' \in [chain : Seq(Receipts), orphans : SUBSET Receipts]
      /\ Written' = Written + 1 /\ store'.orphans = {} /\ Current(store') = x /\ StoreSound'
  BY <1>2, <1>3, <1>4, SelectKeeps
<1>9. TypeOK'
  BY <1>3, <1>4, <1>7, <1>8 DEF TypeOK
<1>10. to \in Locked => HolderSound(p)'
  <2>1. CASE pc[p] = "prepare_pointer"
    <3>1. to = "start" /\ Written = 0
      BY <1>3, <2>1 DEF AfterPointer, HolderSound
    <3> QED
      BY <1>7, <1>8, <3>1 DEF HolderSound, Pointing, Probing
  <2>2. CASE pc[p] = "start_pointer"
    <3>1. to = "running" /\ Written = 1
      BY <1>3, <2>2 DEF AfterPointer, HolderSound
    <3>2. Written' = 2 /\ Current(store').phase = "running"
      BY <1>2, <1>8, <3>1 DEF Follows, Link, Started, Prepared
    <3> QED
      BY <1>7, <1>8, <3>1, <3>2 DEF HolderSound, Pointing, Probing
  <2>3. CASE pc[p] = "record_pointer"
    <3>1. to = "decide" /\ Open /\ commit = None
      BY <1>3, <2>3 DEF AfterPointer, HolderSound, Probing
    <3>2. x = [Current(store) EXCEPT !.refs = @ \cup {observed[p]}]
      BY <2>3 DEF ReceiptAt
    <3>3. Current(store) \in Receipts /\ Written > 1
      BY <1>3, <3>1, Chain DEF Open
    <3>4. x.phase = "running" /\ ~x.halted /\ observed[p] \in x.refs
      BY <3>1, <3>2, <3>3 DEF Open, Halted, Receipts
    <3>5. Open' /\ commit' = None /\ observed'[p] \in Current(store').refs
      <4>1. observed' = observed
        BY <1>6, <1>7, <3>1
      <4> HIDE DEF x
      <4> QED
        BY <1>3, <1>4, <1>8, <3>1, <3>3, <3>4, <4>1 DEF Open, Halted
    <3> HIDE DEF x, to
    <3> QED
      BY <1>7, <1>8, <3>1, <3>5 DEF HolderSound, Pointing, Probing
  <2>4. CASE pc[p] \in {"halt_pointer", "finish_pointer"}
    BY <1>6, <2>4 DEF AfterPointer
  <2> QED
    BY <1>1, <2>1, <2>2, <2>3, <2>4 DEF Pointing
<1> HIDE DEF x, to
<1> QED
  BY <1>3, <1>5, <1>6, <1>7, <1>8, <1>9, <1>10, Frame


-----------------------------------------------------------------------------
(* The theorems.                                                           *)

\* Nothing is written and nobody holds the lock.
LEMMA InitSound == ASSUME Init PROVE IInv
<1>1. /\ store.chain = <<>> /\ store.orphans = {}
      /\ store \in [chain : Seq(Receipts), orphans : SUBSET Receipts]
  BY DEF Init, NoReceipts
<1>2. Written = 0
  BY <1>1 DEF Written
<1>3. TypeOK
  BY <1>1, CrashBound DEF Init, TypeOK, Steps, Results
<1>4. StoreSound
  BY <1>1, <1>2 DEF Init, StoreSound
<1>5. "idle" \notin Locked
  BY DEF Locked, Writing, Pointing
<1> QED
  BY <1>3, <1>4, <1>5 DEF Init, IInv

\* Every step keeps the invariant.
LEMMA NextSound == ASSUME IInv, [Next]_vars PROVE IInv'
<1>1. CASE UNCHANGED vars
  <2>1. /\ UNCHANGED <<environment, store, results, commit, evaluation, lock, pc, observed, crashes>>
    BY <1>1 DEF vars
  <2>2. TypeOK'
    BY <2>1 DEF IInv, TypeOK
  <2>3. StoreSound'
    BY <2>1, StoreStays DEF IInv
  <2>4. ASSUME NEW p \in Executors PROVE HolderSound(p) <=> HolderSound(p)'
    <3>1. ReceiptAt(p, pc[p])' = ReceiptAt(p, pc[p])
      BY <2>1 DEF ReceiptAt, Current
    <3> QED
      BY <2>1, <3>1, SameRecords DEF HolderSound
  <2> QED
    BY <2>1, <2>2, <2>3, <2>4 DEF IInv
<1>2. CASE ChangeEnvironment
  BY <1>2, EnvironmentKeeps
<1>3. ASSUME NEW p \in Executors, Execute(p) \/ ExecutionStep(p) \/ Evaluate(p) \/ Crash(p)
      PROVE  IInv'
  <2>1. CASE Execute(p) \/ Crash(p)
    BY <2>1, OutsideKeeps
  <2>2. CASE Lock(p)
    BY <2>2, LockKeeps
  <2>3. CASE Reconcile(p)
    BY <2>3, ReconcileKeeps
  <2>4. CASE Inspect(p)
    BY <2>4, InspectKeeps
  <2>5. CASE Running(p)
    BY <2>5, RunningKeeps
  <2>6. CASE UseRecorded(p) \/ Probe(p) \/ Validate(p) \/ Decide(p)
    BY <2>6, ObservingKeeps
  <2>7. CASE PublishResult(p)
    BY <2>7, PublishResultKeeps
  <2>8. CASE PublishReceipt(p)
    BY <2>8, PublishReceiptKeeps
  <2>9. CASE PublishPointer(p)
    BY <2>9, PublishPointerKeeps
  <2>10. CASE Commit(p)
    BY <2>10, CommitKeeps
  <2>11. CASE Evaluate(p)
    BY <2>11, EvaluateKeeps
  <2> QED
    BY <1>3, <2>1, <2>2, <2>3, <2>4, <2>5, <2>6, <2>7, <2>8, <2>9, <2>10, <2>11 DEF ExecutionStep
<1> QED
  BY <1>1, <1>2, <1>3 DEF Next

\* The invariant holds of every state.
LEMMA Invariance == Spec => []IInv
<1>1. Init => IInv
  BY InitSound
<1>2. IInv /\ [Next]_vars => IInv'
  BY NextSound
<1> QED
  BY <1>1, <1>2, PTL DEF Spec

\* Every record and every memory of an execution has its type.
THEOREM TypeCorrect == Spec => []TypeOK
<1>1. IInv => TypeOK
  BY DEF IInv
<1> QED
  BY <1>1, Invariance, PTL

\* What is committed passed, was on record before, and was never halted; what is
\* terminal or evaluated proves it (environment_recovery_state.py,
\* _verify_committed_terminal).
THEOREM RecoveriesAreProven == Spec => []RecoveryProven
<1>1. ASSUME IInv PROVE RecoveryProven
  <2>1. TypeOK /\ StoreSound
    BY <1>1 DEF IInv
  <2>2. commit # None =>
          /\ commit.result \in Good \cap results
          /\ store.chain[commit.running].phase = "running"
          /\ commit.result \in store.chain[commit.running].refs
          /\ \A i \in 1 .. Len(store.chain) : ~store.chain[i].halted
    BY <2>1 DEF StoreSound, CommitSound, Written
  <2>3. PhaseOf(store) = "terminal" => Verified
    BY <2>1, TerminalIsVerified
  <2>4. evaluation # None => PhaseOf(store) = "terminal" /\ evaluation = commit.result
    <3>1. evaluation # None =>
             Written > 0 /\ Current(store).phase = "terminal" /\ evaluation = commit.result
      BY <2>1 DEF StoreSound
    <3>2. Written > 0 => PhaseOf(store) = Current(store).phase
      BY <2>1, PhaseByCount, Chain
    <3> QED
      BY <3>1, <3>2
  <2> QED
    BY <2>2, <2>3, <2>4 DEF RecoveryProven
<1> QED
  BY <1>1, Invariance, PTL

\* However executions overlap, die and start again, none of them and no
\* evaluation meets a conflicting record.
THEOREM ExecutionsNeverConflict == Spec => []NeverConflicting
<1>1. IInv => NeverConflicting
  BY DEF IInv, NeverConflicting
<1> QED
  BY <1>1, Invariance, PTL


-----------------------------------------------------------------------------
(* A recovery is decided once.                                             *)

\* No step takes back a selected receipt, a published result, the commit or the
\* evaluation.
RecordsStand ==
    /\ SubSeq(store'.chain, 1, Len(store.chain)) = store.chain
    /\ results \subseteq results'
    /\ commit # None => commit' = commit
    /\ evaluation # None => evaluation' = evaluation

\* A chain starts with itself, and with every receipt added to it still does.
LEMMA ChainGrows ==
    ASSUME TypeOK, NEW t,
           t = store.chain \/ \E x \in Receipts : t = Append(store.chain, x)
    PROVE  SubSeq(t, 1, Written) = store.chain
<1> DEFINE s == store.chain
<1>1. s \in Seq(Receipts) /\ Written \in Nat /\ Len(s) = Written
  BY Chain DEF Written
<1>2. SubSeq(s, 1, Len(s)) = s
  BY <1>1, SubSeqFull
<1>3. ASSUME NEW x \in Receipts, t = Append(s, x) PROVE SubSeq(t, 1, Written) = s
  <2>1. /\ t \in Seq(Receipts) /\ Len(t) = Written + 1
        /\ \A i \in 1 .. Written : t[i] = s[i]
    BY <1>1, <1>3, AppendProperties
  <2> HIDE DEF s
  <2>2. \A i \in 1 .. Written : t[i] \in Receipts
    BY <1>1, <2>1, ElementOfSeq
  <2>3. Written \in Int /\ 1 \in Int
    BY <1>1
  <2>4. /\ SubSeq(t, 1, Written) \in Seq(Receipts)
        /\ Len(SubSeq(t, 1, Written)) = IF 1 <= Written THEN Written - 1 + 1 ELSE 0
        /\ \A i \in 1 .. Written - 1 + 1 : SubSeq(t, 1, Written)[i] = t[1 + i - 1]
    BY <2>2, <2>3, SubSeqProperties
  <2>5. Len(SubSeq(t, 1, Written)) = Len(s)
    BY <1>1, <2>4
  <2>6. \A i \in 1 .. Written : SubSeq(t, 1, Written)[i] = s[i]
    BY <1>1, <2>1, <2>4
  <2>7. \A i \in 1 .. Len(SubSeq(t, 1, Written)) : SubSeq(t, 1, Written)[i] = s[i]
    BY <1>1, <2>5, <2>6
  <2> QED
    BY <1>1, <2>4, <2>5, <2>7, SeqEqual
<1> QED
  BY <1>1, <1>2, <1>3

\* A receipt is published by two steps that leave the chain alone or add to it.
LEMMA StoreGrows ==
    ASSUME TypeOK, NEW x \in Receipts,
           \/ store' = store \/ store' = WriteReceipt(store, x)
           \/ store' = SelectReceipt(store, x)
    PROVE  SubSeq(store'.chain, 1, Written) = store.chain
<1>1. \/ store'.chain = store.chain
      \/ \E y \in Receipts : store'.chain = Append(store.chain, y)
  <2>1. store \in [chain : Seq(Receipts), orphans : SUBSET Receipts]
    BY DEF TypeOK
  <2>2. WriteReceipt(store, x).chain = store.chain
    BY <2>1 DEF WriteReceipt
  <2>3. \/ SelectReceipt(store, x).chain = store.chain
        \/ SelectReceipt(store, x).chain = Append(store.chain, x)
    BY <2>1 DEF SelectReceipt
  <2> QED
    BY <2>2, <2>3
<1> QED
  BY <1>1, ChainGrows

\* Every step lets them stand: the chain only grows, a commit is written where
\* there is none, and an evaluation proves the commit it always proved.
LEMMA NothingTakenBack == ASSUME IInv, Next PROVE RecordsStand
<1>1. TypeOK /\ StoreSound
  BY DEF IInv
<1>2. SubSeq(store.chain, 1, Len(store.chain)) = store.chain
  BY <1>1, Chain, SubSeqFull
<1>3. CASE ChangeEnvironment
  BY <1>2, <1>3 DEF ChangeEnvironment, RecordsStand
<1>4. ASSUME NEW p \in Executors,
             \/ Execute(p) \/ Crash(p) \/ Lock(p) \/ Inspect(p) \/ Running(p)
             \/ UseRecorded(p) \/ Probe(p) \/ Validate(p) \/ Decide(p)
      PROVE  RecordsStand
  BY <1>2, <1>4
  DEF Execute, Crash, Lock, Inspect, Running, UseRecorded, Probe, Validate, Decide, RecordsStand
<1>5. ASSUME NEW p \in Executors, PublishResult(p) PROVE RecordsStand
  BY <1>2, <1>5 DEF PublishResult, RecordsStand
<1>6. ASSUME NEW p \in Executors, Commit(p) PROVE RecordsStand
  <2>1. commit = None
    <3>1. pc[p] = "commit" /\ pc[p] \in Locked
      BY <1>6 DEF Commit, Goto, Locked
    <3> QED
      BY <3>1, Held DEF HolderSound
  <2> QED
    BY <1>2, <1>6, <2>1 DEF Commit, RecordsStand
<1>7. ASSUME NEW p \in Executors, Evaluate(p) PROVE RecordsStand
  <2>1. evaluation # None => evaluation = commit.result
    BY <1>1 DEF StoreSound
  <2> QED
    BY <1>2, <1>7, <2>1 DEF Evaluate, RecordsStand
<1>8. ASSUME NEW p \in Executors, Reconcile(p) PROVE RecordsStand
  <2>1. \/ store' = store
        \/ \E x \in Receipts : store' = SelectReceipt(store, x)
    <3>1. CASE store' = Reconciled(store) /\ store.orphans # {}
      <4>1. PICK x : store.orphans = {x}
        BY <1>1, <3>1 DEF StoreSound
      <4>2. x \in Receipts /\ (CHOOSE y \in store.orphans : TRUE) = x
        BY <1>1, <4>1, Chain
      <4> QED
        BY <3>1, <4>2 DEF Reconciled
    <3>2. CASE store' = Reconciled(store) /\ store.orphans = {}
      BY <3>2 DEF Reconciled
    <3> QED
      BY <1>8, <3>1, <3>2 DEF Reconcile
  <2>2. SubSeq(store'.chain, 1, Len(store.chain)) = store.chain
    BY <1>1, <1>2, <2>1, StoreGrows DEF Written
  <2> QED
    BY <1>8, <2>2 DEF Reconcile, RecordsStand
<1>9. ASSUME NEW p \in Executors, PublishReceipt(p) \/ PublishPointer(p) PROVE RecordsStand
  <2>1. PICK x \in Receipts : \/ store' = store \/ store' = WriteReceipt(store, x)
                              \/ store' = SelectReceipt(store, x)
    BY <1>9, ReceiptFollows DEF PublishReceipt, PublishPointer
  <2>2. SubSeq(store'.chain, 1, Len(store.chain)) = store.chain
    BY <1>1, <2>1, StoreGrows DEF Written
  <2> QED
    BY <1>9, <2>2 DEF PublishReceipt, PublishPointer, RecordsStand
<1> QED
  BY <1>3, <1>4, <1>5, <1>6, <1>7, <1>8, <1>9 DEF Next, ExecutionStep

\* A recovery is decided once, by whichever execution, and proven once: nothing
\* that was selected, committed or evaluated is replaced.
THEOREM RecoveriesAreFinal == Spec => [][RecordsStand]_vars
<1>1. IInv /\ [Next]_vars => [RecordsStand]_vars
  BY NothingTakenBack
<1> QED
  BY <1>1, Invariance, PTL DEF Spec

===============================================================================
