-------------------------- MODULE RunControllerProofs --------------------------
(***************************************************************************)
(* For any number of runs, causes, layers, publications and deaths, and any*)
(* caps: a spent cause is proven, a transaction is decided once and never  *)
(* blocked, and the caps bound what a run pays for.                        *)
(***************************************************************************)
EXTENDS RunController, FiniteSetTheorems, SequenceTheorems, TLAPS

-----------------------------------------------------------------------------
(* The inductive invariant: what is on disk under a key, whoever left it;  *)
(* what the run that holds the key has done so far; and its own ledger.    *)

Terminals == [phase : {"terminal"}, outcome : Outcomes, after : 0 .. MaxAuthority]

\* A terminal receipt says what the commit says.
Decides(k, receipt) ==
    IF commit[k] = None
    THEN receipt.outcome = "failed"
    ELSE receipt.outcome = "committed" /\ receipt.after = commit[k].after

\* The receipts of a key follow one course.
OnCourse(k, n, receipt) ==
    /\ n < 4
    /\ n = 1 => receipt = Prepared
    /\ n = 2 => receipt = Running
    /\ n = 3 => receipt \in Terminals /\ Decides(k, receipt)

Written(k) == Len(store[k].chain)

\* The selected receipts and the one file a death may have left follow it, and
\* the records that decide the key agree with them.
KeySound(k) ==
    /\ \A n \in 1 .. Written(k) : OnCourse(k, n, store[k].chain[n])
    /\ Written(k) < 4
    /\ \/ store[k].orphans = {}
       \/ \E x \in Receipts : store[k].orphans = {x} /\ OnCourse(k, Written(k) + 1, x)
    /\ commit[k] # None =>
          /\ Written(k) > 1
          /\ commit[k].running = 2
          /\ commit[k].after # k.before
    /\ evaluation[k] # None =>
          /\ Written(k) = 3 /\ commit[k] # None
          /\ evaluation[k] = commit[k].after
    /\ k \in attempts => evaluation[k] # None

Pointing == {"prepare_pointer", "start_pointer", "finish_pointer", "fail_pointer"}

\* The receipts selected when a run is at a step.
WrittenAt(step) ==
    CASE step \in {"prepare", "prepare_pointer"} -> 0
      [] step \in {"start", "start_pointer"} -> 1
      [] step \in {"evaluate", "attempt", "row"} -> 3
      [] OTHER -> 2

\* Where the run that holds a key stands with it.
RunSound(r) ==
    /\ pc[r] # "conflict"
    /\ pc[r] = "drive" => r \notin prepared
    /\ pc[r] \in {"stopped", "check", "lock"} \cup Locked => stop[r] \in Keys
    /\ pc[r] \in Locked => lock[stop[r]] = r
    /\ pc[r] \in Locked \ {"reconcile", "inspect"} => Written(stop[r]) = WrittenAt(pc[r])
    /\ pc[r] \in Locked \ ({"reconcile"} \cup Pointing) => store[stop[r]].orphans = {}
    /\ pc[r] \in Pointing => store[stop[r]].orphans = {ReceiptAt(r, pc[r])}
    /\ pc[r] \in {"stage", "returned", "commit", "fail", "fail_pointer"} => commit[stop[r]] = None
    /\ pc[r] \in {"finish", "finish_pointer", "evaluate", "attempt", "row"} =>
          commit[stop[r]] # None
    /\ pc[r] = "commit" => after[r] # None /\ after[r] # stop[r].before
    /\ pc[r] \in {"fail", "fail_pointer"} => after[r] # None
    /\ pc[r] \in {"attempt", "row"} => evaluation[stop[r]] # None

Unstaged ==
    {"drive", "stopped", "check", "lock", "reconcile", "inspect", "prepare", "prepare_pointer",
     "start", "start_pointer", "read_commit"}

\* ledger counts every layer of paid.
Covers(ledger, paid) ==
    /\ Len(paid) <= Len(ledger)
    /\ \A l \in Layers : SameLayer(paid, l) <= SameLayer(ledger, l)

Capped(ledger) ==
    /\ Len(ledger) <= MaxDispatches
    /\ \A l \in Layers : SameLayer(ledger, l) <= MaxReplansPerLayer

InHand(r) == LayerOf[stop[r].cause]

\* What a run has paid for is in its ledger, or will be with the row of the stop
\* in hand, for which there was room.
LedgerSound(r) ==
    /\ Capped(staged[r]) /\ Capped(rows[r])
    /\ pc[r] \in Unstaged => Covers(rows[r], staged[r])
    /\ pc[r] \in Locked \ Unstaged => Covers(Append(rows[r], InHand(r)), staged[r])
    /\ pc[r] \in {"check", "lock"} \cup Locked => Capped(Append(rows[r], InHand(r)))

IInv ==
    /\ TypeOK
    /\ \A k \in Keys : KeySound(k)
    /\ \A r \in Runs : RunSound(r)
    /\ \A r \in Runs : LedgerSound(r)


-----------------------------------------------------------------------------
(* Ledgers.                                                                *)

\* A row adds one to the rows of its layer.
LEMMA CountAppend ==
    ASSUME NEW s \in Seq(Layers), NEW x \in Layers, NEW l \in Layers
    PROVE  /\ SameLayer(s, l) \in Nat
           /\ SameLayer(Append(s, x), l) = SameLayer(s, l) + (IF x = l THEN 1 ELSE 0)
           /\ Append(s, x) \in Seq(Layers) /\ Len(Append(s, x)) = Len(s) + 1 /\ Len(s) \in Nat
<1> DEFINE At(t) == {i \in DOMAIN t : t[i] = l}
<1> DEFINE t == Append(s, x)
<1>1. Len(s) \in Nat /\ DOMAIN s = 1 .. Len(s)
  BY LenProperties
<1>2. t \in Seq(Layers) /\ Len(t) = Len(s) + 1 /\ DOMAIN t = 1 .. Len(s) + 1
  <2>1. t \in Seq(Layers) /\ Len(t) = Len(s) + 1
    BY AppendProperties
  <2> QED
    BY <2>1, LenProperties
<1>3. \A i \in 1 .. Len(s) : t[i] = s[i]
  BY AppendProperties
<1>4. t[Len(s) + 1] = x
  BY AppendProperties
<1> HIDE DEF t
<1>9. SameLayer(s, l) = Cardinality(At(s)) /\ SameLayer(t, l) = Cardinality(At(t))
  BY DEF SameLayer
<1>5. IsFiniteSet(At(s)) /\ Cardinality(At(s)) \in Nat
  <2>1. IsFiniteSet(1 .. Len(s))
    BY <1>1, FS_Interval
  <2>2. At(s) \in SUBSET (1 .. Len(s))
    BY <1>1
  <2>3. IsFiniteSet(At(s))
    BY <2>1, <2>2, FS_Subset
  <2> QED
    BY <2>3, FS_CardinalityType
<1>6. Len(s) + 1 \notin At(s)
  BY <1>1
<1>7. CASE x = l
  <2>1. At(t) = At(s) \cup {Len(s) + 1}
    BY <1>1, <1>2, <1>3, <1>4, <1>7
  <2>2. Cardinality(At(s) \cup {Len(s) + 1}) = Cardinality(At(s)) + 1
    BY <1>5, <1>6, FS_AddElement
  <2> QED
    BY <1>1, <1>2, <1>5, <1>7, <1>9, <2>1, <2>2 DEF t
<1>8. CASE x # l
  <2>1. At(t) = At(s)
    BY <1>1, <1>2, <1>3, <1>4, <1>8
  <2>2. SameLayer(t, l) = SameLayer(s, l) /\ SameLayer(s, l) \in Nat
    BY <1>5, <1>9, <2>1
  <2> QED
    BY <1>1, <1>2, <1>8, <2>2 DEF t
<1> QED
  BY <1>7, <1>8

\* A ledger with one more row still covers what it covered, and what it covered
\* with the same row; what it covers is as capped as it is.
LEMMA Coverage ==
    ASSUME NEW s \in Seq(Layers), NEW t \in Seq(Layers), NEW x \in Layers
    PROVE  /\ Covers(t, s) => Covers(Append(t, x), s) /\ Covers(Append(t, x), Append(s, x))
           /\ Covers(t, s) /\ Capped(t) => Capped(s)
<1>1. \A l \in Layers : /\ SameLayer(s, l) \in Nat /\ SameLayer(t, l) \in Nat
                        /\ SameLayer(Append(s, x), l) = SameLayer(s, l) + (IF x = l THEN 1 ELSE 0)
                        /\ SameLayer(Append(t, x), l) = SameLayer(t, l) + (IF x = l THEN 1 ELSE 0)
  BY CountAppend
<1>2. /\ Len(s) \in Nat /\ Len(t) \in Nat
      /\ Len(Append(s, x)) = Len(s) + 1 /\ Len(Append(t, x)) = Len(t) + 1
  BY CountAppend
<1>3. ASSUME Covers(t, s) PROVE Covers(Append(t, x), s) /\ Covers(Append(t, x), Append(s, x))
  <2>1. ASSUME NEW l \in Layers
        PROVE  /\ SameLayer(s, l) <= SameLayer(Append(t, x), l)
               /\ SameLayer(Append(s, x), l) <= SameLayer(Append(t, x), l)
    <3>1. SameLayer(s, l) <= SameLayer(t, l)
      BY <1>3 DEF Covers
    <3> QED
      BY <1>1, <3>1
  <2>2. Len(s) <= Len(t)
    BY <1>3 DEF Covers
  <2> QED
    BY <1>2, <2>1, <2>2 DEF Covers
<1>4. Covers(t, s) /\ Capped(t) => Capped(s)
  BY <1>1, <1>2, ControllerBounds DEF Covers, Capped
<1> QED
  BY <1>3, <1>4

\* Where the caps are not reached there is room for a row.
LEMMA Room ==
    ASSUME TypeOK, NEW r \in Runs, stop[r] \in Keys, Capped(rows[r]), ~CapReached(r, InHand(r))
    PROVE  Capped(Append(rows[r], InHand(r))) /\ InHand(r) \in Layers
<1>1. InHand(r) \in Layers /\ rows[r] \in Seq(Layers)
  BY LayerOfCauses DEF InHand, Keys, TypeOK
<1>2. \A l \in Layers : /\ SameLayer(rows[r], l) \in Nat
                        /\ SameLayer(Append(rows[r], InHand(r)), l)
                             = SameLayer(rows[r], l) + (IF InHand(r) = l THEN 1 ELSE 0)
  BY <1>1, CountAppend
<1>3. Len(rows[r]) \in Nat /\ Len(Append(rows[r], InHand(r))) = Len(rows[r]) + 1
  BY <1>1, CountAppend
<1> QED
  BY <1>1, <1>2, <1>3, ControllerBounds DEF Capped, CapReached

-----------------------------------------------------------------------------
(* The receipts of a key.                                                  *)

\* The receipts of a key are a sequence of receipts, and the phase of the last
\* tells how many there are.
LEMMA Chains ==
    ASSUME TypeOK, NEW k \in Keys
    PROVE  /\ store[k].chain \in Seq(Receipts) /\ store[k].orphans \subseteq Receipts
           /\ store[k] = [chain |-> store[k].chain, orphans |-> store[k].orphans]
           /\ Written(k) \in Nat
           /\ store[k].chain = <<>> <=> Written(k) = 0
<1>1. store[k] \in [chain : Seq(Receipts), orphans : SUBSET Receipts]
  BY DEF TypeOK
<1>2. store[k].chain \in Seq(Receipts)
  BY <1>1
<1>3. Written(k) \in Nat
  BY <1>2, LenProperties DEF Written
<1>4. store[k].chain = <<>> <=> Written(k) = 0
  BY <1>2, EmptySeq DEF Written
<1> QED
  BY <1>1, <1>2, <1>3, <1>4

\* The phases of a course.
LEMMA Course ==
    ASSUME NEW k \in Keys, NEW n \in 1 .. 3, NEW x, OnCourse(k, n, x)
    PROVE  /\ n = 1 => x.phase = "prepared"
           /\ n = 2 => x.phase = "running"
           /\ n = 3 => x.phase = "terminal" /\ x.outcome \in Outcomes
BY DEF OnCourse, Prepared, Running, Receipt, Terminals

\* The phase of a key by the number of its receipts.
LEMMA PhaseByCount ==
    ASSUME TypeOK, NEW k \in Keys, KeySound(k)
    PROVE  /\ Written(k) \in 0 .. 3
           /\ PhaseOf(store[k]) = "absent" <=> Written(k) = 0
           /\ PhaseOf(store[k]) = "prepared" <=> Written(k) = 1
           /\ PhaseOf(store[k]) = "running" <=> Written(k) = 2
           /\ PhaseOf(store[k]) = "terminal" <=> Written(k) = 3
           /\ Written(k) # 0 => OnCourse(k, Written(k), Current(store[k]))
<1>1. Written(k) \in 0 .. 3
  <2>1. Written(k) < 4
    BY DEF KeySound
  <2>2. Written(k) \in Nat
    BY Chains
  <2> QED
    BY <2>1, <2>2
<1>2. Written(k) # 0 => OnCourse(k, Written(k), Current(store[k]))
  BY <1>1 DEF KeySound, Current, Written
<1>3. Written(k) = 0 => PhaseOf(store[k]) = "absent"
  BY Chains DEF PhaseOf
<1>4. Written(k) # 0 => PhaseOf(store[k]) = Current(store[k]).phase
  BY Chains DEF PhaseOf
<1> QED
  BY <1>1, <1>2, <1>3, <1>4, Course


\* A key whose records do not change stays sound.
LEMMA SameKey ==
    ASSUME NEW k \in Keys, KeySound(k), store'[k] = store[k], commit'[k] = commit[k],
           evaluation'[k] = evaluation[k], k \in attempts' <=> k \in attempts
    PROVE  KeySound(k)'
BY DEF KeySound, OnCourse, Decides, Written

\* The receipt that is next on the course of a key is a successor, and new.
LEMMA NextOnCourse ==
    ASSUME TypeOK, NEW k \in Keys, KeySound(k), NEW x \in Receipts, OnCourse(k, Written(k) + 1, x)
    PROVE  Succeeds(store[k], x) /\ ~Selected(store[k], x) /\ Written(k) \in 0 .. 2
<1>1. Written(k) \in 0 .. 3
  BY PhaseByCount
<1>2. Written(k) + 1 < 4
  BY DEF OnCourse
<1>3. Written(k) \in 0 .. 2
  BY <1>1, <1>2
<1>4. /\ Written(k) = 0 => x.phase = "prepared"
      /\ Written(k) = 1 => x.phase = "running"
      /\ Written(k) = 2 => x.phase = "terminal"
  BY <1>3, Course
<1>5. /\ Written(k) = 1 => Current(store[k]).phase = "prepared"
      /\ Written(k) = 2 => Current(store[k]).phase = "running"
  BY <1>3, PhaseByCount, Course
<1>6. ~Selected(store[k], x)
  <2>1. CASE Written(k) = 0
    BY <2>1, Chains DEF Selected
  <2>2. CASE Written(k) # 0
    <3>1. Current(store[k]) # x
      BY <1>3, <1>4, <1>5, <2>2
    <3> QED
      BY <3>1 DEF Selected
  <2> QED
    BY <2>1, <2>2
<1>7. Succeeds(store[k], x)
  <2>1. CASE Written(k) = 0
    <3>1. PhaseOf(store[k]) = "absent"
      BY <2>1, PhaseByCount
    <3> QED
      BY <1>4, <2>1, <3>1 DEF Succeeds, Following
  <2>2. CASE Written(k) = 1
    <3>1. PhaseOf(store[k]) = "prepared"
      BY <2>2, PhaseByCount
    <3> QED
      BY <1>4, <2>2, <3>1 DEF Succeeds, Following
  <2>3. CASE Written(k) = 2
    <3>1. PhaseOf(store[k]) = "running"
      BY <2>3, PhaseByCount
    <3> QED
      BY <1>4, <1>5, <2>3, <3>1 DEF Succeeds, Following
  <2> QED
    BY <1>3, <2>1, <2>2, <2>3
<1> QED
  BY <1>3, <1>6, <1>7

\* Selecting it adds it to the chain and leaves no file behind.
LEMMA SelectKeeps ==
    ASSUME TypeOK, NEW k \in Keys, KeySound(k), NEW x \in Receipts, OnCourse(k, Written(k) + 1, x),
           store[k].orphans = {x}, store' = [store EXCEPT ![k] = SelectReceipt(@, x)],
           UNCHANGED <<commit, evaluation, attempts>>
    PROVE  /\ store' \in [Keys -> [chain : Seq(Receipts), orphans : SUBSET Receipts]]
           /\ Written(k)' = Written(k) + 1 /\ store'[k].orphans = {} /\ KeySound(k)'
           /\ store'[k].chain = Append(store[k].chain, x)
<1> DEFINE c == Append(store[k].chain, x)
<1>1. SelectReceipt(store[k], x) = [chain |-> c, orphans |-> {}]
  BY NextOnCourse DEF SelectReceipt
<1>2. store[k].chain \in Seq(Receipts) /\ Written(k) \in 0 .. 2
  BY Chains, NextOnCourse
<1>3. /\ c \in Seq(Receipts) /\ Len(c) = Written(k) + 1
      /\ \A n \in 1 .. Written(k) : c[n] = store[k].chain[n]
      /\ c[Written(k) + 1] = x
  BY <1>2, AppendProperties DEF Written
<1> HIDE DEF c
<1>4. store'[k] = [chain |-> c, orphans |-> {}]
  BY <1>1 DEF TypeOK
<1>5. store'[k].chain = c /\ store'[k].orphans = {}
  BY <1>4
<1>6. store' \in [Keys -> [chain : Seq(Receipts), orphans : SUBSET Receipts]]
  BY <1>1, <1>3 DEF TypeOK
<1>7. Written(k)' = Written(k) + 1
  BY <1>3, <1>5 DEF Written
<1>8. ASSUME NEW n \in 1 .. Written(k) + 1 PROVE OnCourse(k, n, store[k].chain[n])'
  <2>1. CASE n = Written(k) + 1
    BY <1>3, <1>5, <2>1 DEF OnCourse, Decides
  <2>2. CASE n \in 1 .. Written(k)
    <3>1. OnCourse(k, n, store[k].chain[n])
      BY <2>2 DEF KeySound
    <3>2. store'[k].chain[n] = store[k].chain[n]
      BY <1>3, <1>5, <2>2
    <3> QED
      BY <3>1, <3>2 DEF OnCourse, Decides
  <2>3. n = Written(k) + 1 \/ n \in 1 .. Written(k)
    BY <1>2
  <2> QED
    BY <2>1, <2>2, <2>3
<1>9. Written(k)' < 4
  BY <1>2, <1>7
<1>10. commit'[k] # None => /\ Written(k)' > 1
                            /\ commit'[k].running = 2
                            /\ commit'[k].after # k.before
  BY <1>2, <1>7 DEF KeySound
<1>11. evaluation'[k] = None /\ ~(k \in attempts')
  <2>1. evaluation[k] # None => Written(k) = 3
    BY DEF KeySound
  <2>2. k \in attempts => evaluation[k] # None
    BY DEF KeySound
  <2> QED
    BY <1>2, <2>1, <2>2
<1>12. \A n \in 1 .. Written(k)' : OnCourse(k, n, store[k].chain[n])'
  BY <1>7, <1>8
<1>13. KeySound(k)'
  BY <1>5, <1>9, <1>10, <1>11, <1>12 DEF KeySound
<1> QED
  BY <1>5, <1>6, <1>7, <1>13 DEF c

\* Its file is published where there is none, and leaves the chain alone.
LEMMA WriteKeeps ==
    ASSUME TypeOK, NEW k \in Keys, KeySound(k), NEW x \in Receipts, OnCourse(k, Written(k) + 1, x),
           store[k].orphans = {}, store' = [store EXCEPT ![k] = WriteReceipt(@, x)],
           UNCHANGED <<commit, evaluation, attempts>>
    PROVE  /\ store' \in [Keys -> [chain : Seq(Receipts), orphans : SUBSET Receipts]]
           /\ Written(k)' = Written(k) /\ store'[k].orphans = {x} /\ KeySound(k)'
           /\ store'[k].chain = store[k].chain
<1>1. /\ WriteReceipt(store[k], x).chain = store[k].chain
      /\ WriteReceipt(store[k], x).orphans = {x}
      /\ WriteReceipt(store[k], x) \in [chain : Seq(Receipts), orphans : SUBSET Receipts]
  <2>1. WriteReceipt(store[k], x) = [store[k] EXCEPT !.orphans = {x}]
    BY NextOnCourse DEF WriteReceipt
  <2>2. store[k] \in [chain : Seq(Receipts), orphans : SUBSET Receipts]
    BY DEF TypeOK
  <2> QED
    BY <2>1, <2>2
<1>2. store'[k].chain = store[k].chain /\ store'[k].orphans = {x} /\ Written(k)' = Written(k)
  BY <1>1 DEF TypeOK, Written
<1>3. store' \in [Keys -> [chain : Seq(Receipts), orphans : SUBSET Receipts]]
  BY <1>1 DEF TypeOK
<1>4. KeySound(k)'
  BY <1>2 DEF KeySound, OnCourse, Decides
<1> QED
  BY <1>2, <1>3, <1>4


-----------------------------------------------------------------------------
(* What the steps of a run leave to the others.                            *)

\* Only r moves.
Apart(r) ==
    \A q \in Runs \ {r} :
        /\ pc'[q] = pc[q] /\ stop'[q] = stop[q] /\ after'[q] = after[q]
        /\ rows'[q] = rows[q] /\ staged'[q] = staged[q]
        /\ q \in prepared' <=> q \in prepared

\* The records of a key stay as they are.
Kept(k) ==
    /\ store'[k] = store[k] /\ commit'[k] = commit[k] /\ evaluation'[k] = evaluation[k]
    /\ k \in attempts' <=> k \in attempts

\* Another run's keys are locked: what r does with its own key is nothing to it.
LEMMA Frame ==
    ASSUME IInv, NEW r \in Runs, TypeOK', Apart(r),
           \A k \in Keys : lock[k] \in Runs \ {r} => lock'[k] = lock[k] /\ Kept(k),
           \A k \in Keys : KeySound(k)',
           RunSound(r)', LedgerSound(r)'
    PROVE  IInv'
<1>1. ASSUME NEW q \in Runs \ {r} PROVE RunSound(q)' /\ LedgerSound(q)'
  <2>1. RunSound(q) /\ LedgerSound(q)
    BY DEF IInv
  <2>2. /\ pc'[q] = pc[q] /\ stop'[q] = stop[q] /\ after'[q] = after[q]
        /\ rows'[q] = rows[q] /\ staged'[q] = staged[q]
        /\ q \in prepared' <=> q \in prepared
    BY DEF Apart
  <2>3. LedgerSound(q)'
    BY <2>1, <2>2 DEF LedgerSound, Covers, Capped, InHand, SameLayer
  <2>4. pc[q] \in Locked => /\ stop[q] \in Keys /\ lock'[stop[q]] = lock[stop[q]]
                            /\ Kept(stop[q])
    BY <2>1 DEF RunSound
  <2>5. pc[q] \in Pointing => ReceiptAt(q, pc[q])' = ReceiptAt(q, pc[q])
    <3>1. pc[q] \in Pointing => pc[q] \in Locked
      BY DEF Pointing, Locked, Publishing
    <3> QED
      BY <2>2, <2>4, <3>1 DEF ReceiptAt, Kept, Pointing
  <2>6. Pointing \subseteq Locked /\ {"stage", "returned", "commit", "fail", "fail_pointer",
        "finish", "finish_pointer", "evaluate", "attempt", "row"} \subseteq Locked
    BY DEF Pointing, Locked, Publishing
  <2>7. RunSound(q)'
    <3>1. CASE pc[q] \in Locked
      <4>1. Written(stop[q])' = Written(stop[q])
        BY <2>2, <2>4, <3>1 DEF Written, Kept
      <4> QED
        BY <2>1, <2>2, <2>4, <2>5, <3>1, <4>1 DEF RunSound, Kept
    <3>2. CASE pc[q] \notin Locked
      BY <2>1, <2>2, <2>6, <3>2 DEF RunSound
    <3> QED
      BY <3>1, <3>2
  <2> QED
    BY <2>3, <2>7
<1> QED
  BY <1>1 DEF IInv

\* The ledger of a run stays sound while it records no row and starts no stage.
LEMMA LedgerStays ==
    ASSUME IInv, NEW r \in Runs, rows'[r] = rows[r], staged'[r] = staged[r],
           pc'[r] \in {"check", "lock"} \cup Locked => stop'[r] = stop[r],
           pc'[r] \in Unstaged => pc[r] \in Unstaged,
           pc'[r] \in Locked => pc[r] \in {"lock"} \cup Locked,
           pc'[r] \in {"check", "lock"} => pc[r] \in {"check", "lock"} \cup Locked
    PROVE  LedgerSound(r)'
<1>1. LedgerSound(r) /\ RunSound(r)
  BY DEF IInv
<1>2. Capped(staged[r])' /\ Capped(rows[r])'
  BY <1>1 DEF LedgerSound, Capped, SameLayer
<1>3. ASSUME pc'[r] \in Unstaged PROVE Covers(rows[r], staged[r])'
  BY <1>1, <1>3 DEF LedgerSound, Covers, SameLayer
<1>4. ASSUME pc'[r] \in {"check", "lock"} \cup Locked
      PROVE  InHand(r)' = InHand(r) /\ Capped(Append(rows[r], InHand(r)))
  BY <1>1, <1>4 DEF LedgerSound, InHand
<1>5. ASSUME pc'[r] \in {"check", "lock"} \cup Locked PROVE Capped(Append(rows[r], InHand(r)))'
  <2>1. Append(rows[r], InHand(r))' = Append(rows[r], InHand(r))
    BY <1>4, <1>5
  <2> QED
    BY <1>4, <1>5, <2>1 DEF Capped, SameLayer
<1>6. ASSUME pc'[r] \in Locked \ Unstaged PROVE Covers(Append(rows[r], InHand(r)), staged[r])'
  <2>1. stop[r] \in Keys
    BY <1>1, <1>6 DEF RunSound
  <2>2. InHand(r) \in Layers /\ rows[r] \in Seq(Layers) /\ staged[r] \in Seq(Layers)
    BY <2>1, LayerOfCauses DEF InHand, Keys, IInv, TypeOK
  <2>3. Covers(Append(rows[r], InHand(r)), staged[r])
    <3>1. CASE pc[r] \in Unstaged
      BY <1>1, <2>2, <3>1, Coverage DEF LedgerSound
    <3>2. CASE pc[r] \in Locked \ Unstaged
      BY <1>1, <3>2 DEF LedgerSound
    <3> QED
      BY <1>6, <3>1, <3>2 DEF Unstaged
  <2>4. Append(rows[r], InHand(r))' = Append(rows[r], InHand(r))
    BY <1>4, <1>6
  <2> QED
    BY <2>3, <2>4 DEF Covers, SameLayer
<1> QED
  BY <1>2, <1>3, <1>5, <1>6 DEF LedgerSound

\* Leaving a transaction frees the locks of the run and no others.
LEMMA Leaving ==
    ASSUME TypeOK, NEW r \in Runs, NEW to \in Steps, Leave(r, to)
    PROVE  /\ pc' = [pc EXCEPT ![r] = to] /\ pc'[r] = to /\ pc' \in [Runs -> Steps]
           /\ \A q \in Runs \ {r} : pc'[q] = pc[q]
           /\ lock' \in [Keys -> Runs \cup {None}]
           /\ \A k \in Keys : lock[k] # r => lock'[k] = lock[k]
           /\ to \in Locked => lock' = lock
BY DEF TypeOK, Leave

\* Keys that nothing is written under stay sound.
LEMMA KeysStay ==
    ASSUME IInv, UNCHANGED <<store, commit, evaluation, attempts>>
    PROVE  \A k \in Keys : KeySound(k)' /\ Kept(k)
BY SameKey DEF IInv, Kept

\* A step that writes no record, from where it leaves the run's account in order.
LEMMA QuietStep ==
    ASSUME IInv, NEW r \in Runs, NEW to \in Steps, pc' = [pc EXCEPT ![r] = to], TypeOK',
           UNCHANGED <<store, commit, evaluation, attempts, prepared, rows, staged, stop>>,
           \A q \in Runs \ {r} : after'[q] = after[q],
           \A k \in Keys : lock[k] \in Runs \ {r} => lock'[k] = lock[k],
           RunSound(r)',
           to \in Unstaged => pc[r] \in Unstaged,
           to \in Locked => pc[r] \in {"lock"} \cup Locked,
           to \in {"check", "lock"} => pc[r] \in {"check", "lock"} \cup Locked
    PROVE  IInv'
<1>1. pc'[r] = to /\ Apart(r)
  BY DEF IInv, TypeOK, Apart
<1>2. LedgerSound(r)'
  BY <1>1, LedgerStays
<1> QED
  BY <1>1, <1>2, KeysStay, Frame

\* What a run that holds a key knows of it.
LEMMA Held ==
    ASSUME IInv, NEW r \in Runs, pc[r] \in Locked
    PROVE  /\ stop[r] \in Keys /\ lock[stop[r]] = r /\ KeySound(stop[r]) /\ RunSound(r)
           /\ LedgerSound(r) /\ TypeOK
BY DEF IInv, RunSound


-----------------------------------------------------------------------------
(* The steps that write no record.                                         *)

\* Outside a transaction there is nothing to account for but the envelope.
LEMMA OutsideSound ==
    ASSUME NEW r \in Runs, pc'[r] \in {"check", "lock", "child", "end"},
           pc'[r] \in {"check", "lock"} => stop'[r] \in Keys
    PROVE  RunSound(r)'
BY DEF RunSound, Locked, Publishing, Pointing

\* A run ends, is refused, or dies wherever it is.
LEMMA EndingKeeps ==
    ASSUME IInv, NEW r \in Runs, Finish(r) \/ CheckOwnership(r) \/ Crash(r) \/ OrphanStage(r)
    PROVE  IInv'
<1> DEFINE to == pc'[r]
<1>1. /\ pc' = [pc EXCEPT ![r] = to]
      /\ to \in {"end", "child"} \/ (pc[r] = "check" /\ to = "lock")
      /\ lock' \in [Keys -> Runs \cup {None}]
      /\ \A k \in Keys : lock[k] \in Runs \ {r} => lock'[k] = lock[k]
  <2>1. CASE Finish(r) \/ CheckOwnership(r) \/ OrphanStage(r)
    BY <2>1 DEF Finish, CheckOwnership, OrphanStage, Goto, IInv, TypeOK
  <2>2. CASE Crash(r)
    <3>1. PICK e \in {"end", "child"} : Leave(r, e)
      BY <2>2 DEF Crash
    <3> QED
      BY <3>1, Leaving DEF IInv, Steps
  <2> QED
    BY <2>1, <2>2
<1>2. /\ UNCHANGED <<store, commit, evaluation, attempts, prepared, rows, staged, stop, after>>
      /\ authority' \in 0 .. MaxAuthority /\ crashes' \in 0 .. MaxCrashes
  BY ControllerBounds DEF Finish, CheckOwnership, Crash, OrphanStage, shotVars, runVars, IInv, TypeOK
<1>3. to \in Steps
  BY <1>1 DEF Steps
<1>4. TypeOK'
  BY <1>1, <1>2, <1>3 DEF IInv, TypeOK
<1>5. pc[r] = "check" => stop[r] \in Keys
  BY DEF IInv, RunSound
<1>6. RunSound(r)'
  BY <1>1, <1>2, <1>5, OutsideSound
<1>7. to \in Unstaged => pc[r] \in Unstaged
  BY <1>1 DEF Unstaged
<1>8. to \notin Locked
  BY <1>1 DEF Locked, Publishing
<1> HIDE DEF to
<1> QED
  BY <1>1, <1>2, <1>3, <1>4, <1>6, <1>7, <1>8, QuietStep

\* A stop that the caps leave room for is checked.
LEMMA DispatchKeeps == ASSUME IInv, NEW r \in Runs, Dispatch(r) PROVE IInv'
<1>1. /\ pc[r] = "stopped" /\ pc' = [pc EXCEPT ![r] = pc'[r]] /\ pc'[r] \in {"end", "check"}
      /\ pc'[r] = "check" => ~CapReached(r, InHand(r))
      /\ \A q \in Runs \ {r} : pc'[q] = pc[q]
  BY DEF Dispatch, Goto, InHand, IInv, TypeOK
<1>2. UNCHANGED <<authority, store, commit, evaluation, attempts, lock, stop, prepared, after, rows, staged, crashes>>
  BY DEF Dispatch, shotVars, runVars
<1>3. RunSound(r) /\ LedgerSound(r)
  BY DEF IInv
<1>4. stop[r] \in Keys
  BY <1>1, <1>3 DEF RunSound
<1>5. TypeOK'
  BY <1>1, <1>2 DEF IInv, TypeOK, Steps
<1>6. RunSound(r)'
  BY <1>1, <1>2, <1>4, OutsideSound
<1>7. pc'[r] = "check" => Capped(Append(rows[r], InHand(r)))
  BY <1>1, <1>3, <1>4, Room DEF LedgerSound, IInv
<1>8. LedgerSound(r)'
  BY <1>1, <1>2, <1>3, <1>7 DEF LedgerSound, Covers, Capped, SameLayer, InHand, Unstaged, Locked, Publishing
<1>9. Apart(r)
  BY <1>1, <1>2 DEF Apart
<1> QED
  BY <1>2, <1>5, <1>6, <1>8, <1>9, KeysStay, Frame

\* A stop comes with its envelope.
LEMMA StopKeeps == ASSUME IInv, NEW r \in Runs, Stop(r) PROVE IInv'
<1>1. PICK c \in Causes, e \in Evidence :
         stop' = [stop EXCEPT ![r] = [cause |-> c, before |-> authority, evidence |-> e]]
  BY DEF Stop
<1>2. [cause |-> c, before |-> authority, evidence |-> e] \in Keys
  BY DEF Keys, IInv, TypeOK
<1>3. /\ pc[r] = "drive" /\ pc' = [pc EXCEPT ![r] = "stopped"] /\ pc'[r] = "stopped"
      /\ \A q \in Runs \ {r} : pc'[q] = pc[q]
      /\ prepared' = prepared \cup {r}
  BY DEF Stop, Goto, IInv, TypeOK
<1>4. UNCHANGED <<authority, store, commit, evaluation, attempts, lock, after, rows, staged, crashes>>
  BY DEF Stop, shotVars
<1>5. stop' \in [Runs -> Keys \cup {None}] /\ stop'[r] \in Keys /\ \A q \in Runs \ {r} : stop'[q] = stop[q]
  BY <1>1, <1>2 DEF IInv, TypeOK
<1>6. TypeOK'
  BY <1>3, <1>4, <1>5 DEF IInv, TypeOK, Steps
<1>7. RunSound(r)'
  BY <1>3, <1>5 DEF RunSound, Locked, Publishing, Pointing
<1>8. LedgerSound(r)'
  BY <1>3, <1>4, LedgerStays DEF Unstaged, Locked, Publishing
<1>9. Apart(r)
  BY <1>3, <1>4, <1>5 DEF Apart
<1> QED
  BY <1>4, <1>6, <1>7, <1>8, <1>9, KeysStay, Frame

\* The key is taken when nobody has it.
LEMMA LockKeeps == ASSUME IInv, NEW r \in Runs, Lock(r) PROVE IInv'
<1>1. /\ pc[r] = "lock" /\ pc' = [pc EXCEPT ![r] = "reconcile"] /\ pc'[r] = "reconcile"
      /\ lock[stop[r]] = None /\ lock' = [lock EXCEPT ![stop[r]] = r]
  BY DEF Lock, Goto, IInv, TypeOK
<1>2. UNCHANGED <<authority, store, commit, evaluation, attempts, stop, prepared, after, rows, staged, crashes>>
  BY DEF Lock, shotVars, runVars
<1>3. stop[r] \in Keys
  BY <1>1 DEF IInv, RunSound
<1>4. /\ lock' \in [Keys -> Runs \cup {None}] /\ lock'[stop[r]] = r
      /\ \A k \in Keys : lock[k] \in Runs \ {r} => lock'[k] = lock[k]
  BY <1>1, <1>3, NoneIsNoRecord DEF IInv, TypeOK
<1>5. "reconcile" \in Steps /\ "reconcile" \in Locked
  BY DEF Steps, Locked
<1>6. TypeOK'
  BY <1>1, <1>2, <1>4, <1>5 DEF IInv, TypeOK
<1>7. RunSound(r)'
  BY <1>1, <1>2, <1>3, <1>4 DEF RunSound, Pointing
<1> QED
  BY <1>1, <1>2, <1>4, <1>5, <1>6, <1>7, QuietStep DEF Unstaged

\* A chain is read as it stands, and continued where it ends.
LEMMA InspectKeeps == ASSUME IInv, NEW r \in Runs, Inspect(r) PROVE IInv'
<1> DEFINE k == stop[r]
<1> DEFINE to == pc'[r]
<1>1. pc[r] = "inspect" /\ pc[r] \in Locked
  BY DEF Inspect, Locked
<1>2. /\ k \in Keys /\ lock[k] = r /\ KeySound(k) /\ RunSound(r) /\ TypeOK
      /\ store[k].orphans = {}
  BY <1>1, Held DEF RunSound, Pointing
<1>3. UNCHANGED <<authority, store, commit, evaluation, attempts, stop, prepared, after, rows, staged, crashes>>
  BY DEF Inspect, shotVars, runVars
<1>4. /\ Leave(r, to) /\ to \in {"evaluate", "end", "prepare", "start", "read_commit"}
      /\ to = "evaluate" => Written(k) = 3 /\ commit[k] # None
      /\ to = "prepare" => Written(k) = 0
      /\ to = "start" => Written(k) = 1
      /\ to = "read_commit" => Written(k) = 2
  <2>1. /\ Written(k) \in 0 .. 3
        /\ PhaseOf(store[k]) = "absent" <=> Written(k) = 0
        /\ PhaseOf(store[k]) = "prepared" <=> Written(k) = 1
        /\ PhaseOf(store[k]) = "running" <=> Written(k) = 2
        /\ PhaseOf(store[k]) = "terminal" <=> Written(k) = 3
        /\ Written(k) # 0 => OnCourse(k, Written(k), Current(store[k]))
    BY <1>2, PhaseByCount
  <2>2. Written(k) = 3 => Current(store[k]).outcome \in Outcomes
    BY <1>2, <2>1, Course
  <2>3. Written(k) = 3 => Committed(k) \/ Failed(k)
    BY <2>1, <2>2 DEF Committed, Failed, Outcomes
  <2>4. Committed(k) => Written(k) = 3 /\ commit[k] # None
    BY <2>1 DEF Committed, OnCourse, Decides
  <2>5. Failed(k) => Written(k) = 3
    BY <2>1 DEF Failed
  <2>6. PICK s : /\ Leave(r, s)
                 /\ s = CASE Committed(k) -> "evaluate"
                          [] Failed(k) -> "end"
                          [] PhaseOf(store[k]) = "absent" -> "prepare"
                          [] PhaseOf(store[k]) = "prepared" -> "start"
                          [] PhaseOf(store[k]) = "running" -> "read_commit"
    BY DEF Inspect
  <2>7. pc'[r] = s
    BY <2>6 DEF Leave, IInv, TypeOK
  <2>8. CASE Written(k) = 3
    BY <2>1, <2>3, <2>4, <2>6, <2>7, <2>8 DEF Committed, Failed
  <2>9. CASE Written(k) # 3
    BY <2>1, <2>4, <2>5, <2>6, <2>7, <2>9
  <2> QED
    BY <2>8, <2>9
<1>5. to \in Steps /\ (to # "end" => to \in Locked) /\ (to \in Unstaged => pc[r] \in Unstaged)
  BY <1>1, <1>4 DEF Steps, Locked, Publishing, Unstaged
<1>6. /\ pc' = [pc EXCEPT ![r] = to] /\ lock' \in [Keys -> Runs \cup {None}]
      /\ \A j \in Keys : lock[j] # r => lock'[j] = lock[j]
      /\ to \in Locked => lock' = lock
  BY <1>2, <1>4, <1>5, Leaving
<1>7. TypeOK'
  BY <1>3, <1>5, <1>6 DEF IInv, TypeOK
<1>8. RunSound(r)'
  <2>1. CASE to = "end"
    BY <2>1, OutsideSound
  <2>2. CASE to # "end"
    <3>1. stop'[r] = k /\ lock'[k] = r /\ Written(k)' = Written(k) /\ store'[k].orphans = {} /\ commit'[k] = commit[k]
      BY <1>2, <1>3, <1>5, <1>6, <2>2 DEF Written
    <3>2. Written(k) = WrittenAt(to)
      BY <1>4, <2>2 DEF WrittenAt
    <3> QED
      BY <1>2, <1>4, <2>2, <3>1, <3>2 DEF RunSound, Pointing
  <2> QED
    BY <2>1, <2>2
<1> HIDE DEF to, k
<1> QED
  BY <1>1, <1>3, <1>4, <1>5, <1>6, <1>7, <1>8, QuietStep


\* What the stage published, and what is read back of it, is in the run's memory.
LEMMA StageKeeps == ASSUME IInv, NEW r \in Runs, RunStage(r) \/ ReadBack(r) PROVE IInv'
<1> USE NoneIsNoRecord
<1> DEFINE k == stop[r]
<1> DEFINE to == pc'[r]
<1>1. pc[r] \in {"stage", "returned"} /\ pc[r] \in Locked \ Unstaged
  BY DEF RunStage, ReadBack, Goto, Locked, Unstaged, Publishing
<1>2. /\ k \in Keys /\ lock[k] = r /\ RunSound(r)
      /\ store[k].orphans = {} /\ commit[k] = None /\ Written(k) = 2
  BY <1>1, Held DEF RunSound, Pointing, WrittenAt
<1>3. UNCHANGED <<store, commit, evaluation, attempts, lock, stop, prepared, rows, staged, crashes>>
  BY DEF RunStage, ReadBack, shotVars
<1>4. /\ pc' = [pc EXCEPT ![r] = to] /\ to \in {"returned", "fail", "commit"}
      /\ authority' \in 0 .. MaxAuthority
      /\ after' \in [Runs -> 0 .. MaxAuthority \cup {None}]
      /\ \A q \in Runs \ {r} : after'[q] = after[q]
      /\ to \in {"fail", "commit"} => after'[r] # None
      /\ to = "commit" => after'[r] # k.before
  <2>1. CASE RunStage(r)
    <3>1. authority' \in 0 .. MaxAuthority
      BY <2>1, ControllerBounds DEF RunStage, IInv, TypeOK
    <3>2. \/ pc' = [pc EXCEPT ![r] = "returned"] /\ UNCHANGED after
          \/ pc' = [pc EXCEPT ![r] = "fail"] /\ after' = [after EXCEPT ![r] = authority']
      BY <2>1 DEF RunStage
    <3>3. pc \in [Runs -> Steps] /\ after \in [Runs -> 0 .. MaxAuthority \cup {None}]
      BY DEF IInv, TypeOK
    <3> QED
      BY <3>1, <3>2, <3>3
  <2>2. CASE ReadBack(r)
    BY <2>2 DEF ReadBack, Goto, shotVars, IInv, TypeOK
  <2> QED
    BY <2>1, <2>2
<1>5. to \in Steps /\ to \in Locked \ Unstaged
  BY <1>4 DEF Steps, Locked, Publishing, Unstaged
<1>6. TypeOK'
  BY <1>3, <1>4, <1>5 DEF IInv, TypeOK
<1>7. RunSound(r)'
  <2>1. stop'[r] = k /\ lock'[k] = r /\ Written(k)' = 2 /\ store'[k].orphans = {} /\ commit'[k] = None
    BY <1>2, <1>3 DEF Written
  <2> QED
    BY <1>2, <1>4, <1>5, <2>1 DEF RunSound, Pointing, WrittenAt
<1> HIDE DEF to, k
<1> QED
  BY <1>1, <1>3, <1>4, <1>5, <1>6, <1>7, QuietStep DEF Unstaged

\* A stage is started once its place in the ledger is sure; a commit that a dead
\* run left is finished without one.
LEMMA ReadCommitKeeps == ASSUME IInv, NEW r \in Runs, ReadCommit(r) PROVE IInv'
<1> DEFINE k == stop[r]
<1>1. pc[r] = "read_commit" /\ pc[r] \in Locked /\ pc[r] \in Unstaged
  BY DEF ReadCommit, Locked, Unstaged
<1>2. /\ k \in Keys /\ lock[k] = r /\ RunSound(r) /\ LedgerSound(r)
      /\ store[k].orphans = {} /\ Written(k) = 2
  BY <1>1, Held DEF RunSound, Pointing, WrittenAt
<1>3. UNCHANGED <<authority, store, commit, evaluation, attempts, lock, stop, after, rows, crashes>>
  BY DEF ReadCommit, shotVars
<1>4. CASE commit[k] = None
  <2>1. /\ pc' = [pc EXCEPT ![r] = "stage"] /\ pc'[r] = "stage" /\ prepared' = prepared \ {r}
        /\ staged' = [staged EXCEPT ![r] = Append(@, InHand(r))]
    BY <1>4 DEF ReadCommit, StartStage, Goto, InHand, IInv, TypeOK
  <2>2. InHand(r) \in Layers /\ rows[r] \in Seq(Layers) /\ staged[r] \in Seq(Layers)
    BY <1>2, LayerOfCauses DEF InHand, Keys, IInv, TypeOK
  <2>3. Append(staged[r], InHand(r)) \in Seq(Layers) /\ Append(rows[r], InHand(r)) \in Seq(Layers)
    BY <2>2, CountAppend
  <2>4. TypeOK'
    BY <1>3, <2>1, <2>3 DEF IInv, TypeOK, Steps, Locked
  <2>5. Apart(r)
    BY <1>3, <2>1 DEF Apart, IInv, TypeOK
  <2>6. staged'[r] = Append(staged[r], InHand(r)) /\ InHand(r)' = InHand(r)
    BY <1>3, <2>1 DEF IInv, TypeOK, InHand
  <2>7. LedgerSound(r)'
    <3>1. Covers(Append(rows[r], InHand(r)), staged'[r])
      BY <1>1, <1>2, <2>2, <2>6, Coverage DEF LedgerSound
    <3>2. Capped(Append(rows[r], InHand(r))) /\ Capped(rows[r])
      BY <1>1, <1>2 DEF LedgerSound
    <3>3. Capped(staged'[r])
      <4> DEFINE t == Append(rows[r], InHand(r))
      <4>1. t \in Seq(Layers) /\ staged'[r] \in Seq(Layers) /\ Covers(t, staged'[r]) /\ Capped(t)
        BY <2>3, <2>6, <3>1, <3>2
      <4> HIDE DEF t
      <4> QED
        BY <2>2, <4>1, Coverage
    <3> QED
      BY <1>3, <2>1, <2>6, <3>1, <3>2, <3>3 DEF LedgerSound, Covers, Capped, SameLayer, Unstaged,
         Locked
  <2>8. RunSound(r)'
    <3>1. stop'[r] = k /\ lock'[k] = r /\ Written(k)' = 2 /\ store'[k].orphans = {} /\ commit'[k] = None
      BY <1>2, <1>3, <1>4 DEF Written
    <3> QED
      BY <1>2, <2>1, <3>1 DEF RunSound, Pointing, WrittenAt
  <2> QED
    BY <1>3, <2>4, <2>5, <2>7, <2>8, KeysStay, Frame
<1>5. CASE commit[k] # None
  <2>1. /\ pc' = [pc EXCEPT ![r] = "finish"] /\ pc'[r] = "finish" /\ UNCHANGED <<prepared, staged>>
    BY <1>5 DEF ReadCommit, Goto, IInv, TypeOK
  <2>2. "finish" \in Steps /\ "finish" \in Locked \ Unstaged
    BY DEF Steps, Locked, Publishing, Unstaged
  <2>3. TypeOK'
    BY <1>3, <2>1, <2>2 DEF IInv, TypeOK
  <2>4. RunSound(r)'
    <3>1. stop'[r] = k /\ lock'[k] = r /\ Written(k)' = 2 /\ store'[k].orphans = {} /\ commit'[k] # None
      BY <1>2, <1>3, <1>5 DEF Written
    <3> QED
      BY <1>2, <2>1, <3>1 DEF RunSound, Pointing, WrittenAt
  <2> QED
    BY <1>1, <1>3, <2>1, <2>2, <2>3, <2>4, QuietStep
<1> QED
  BY <1>4, <1>5

\* The row of the committed dispatch ends it, without an envelope.
LEMMA RecordRowKeeps == ASSUME IInv, NEW r \in Runs, RecordRow(r) PROVE IInv'
<1>1. pc[r] = "row" /\ pc[r] \in Locked \ Unstaged
  BY DEF RecordRow, Locked, Unstaged
<1>2. stop[r] \in Keys /\ RunSound(r) /\ LedgerSound(r)
  BY <1>1, Held
<1>3. UNCHANGED <<authority, store, commit, evaluation, attempts, staged, crashes>>
  BY DEF RecordRow, shotVars
<1>4. "drive" \in Steps /\ "drive" \notin Locked
  BY DEF Steps, Locked, Publishing
<1>5. /\ pc' = [pc EXCEPT ![r] = "drive"] /\ pc'[r] = "drive"
      /\ lock' \in [Keys -> Runs \cup {None}]
      /\ \A k \in Keys : lock[k] # r => lock'[k] = lock[k]
  BY <1>4, Leaving DEF RecordRow, IInv
<1>6. /\ rows' = [rows EXCEPT ![r] = Append(@, InHand(r))] /\ prepared' = prepared \ {r}
      /\ stop' = [stop EXCEPT ![r] = None] /\ after' = [after EXCEPT ![r] = None]
  BY DEF RecordRow, InHand
<1>7. InHand(r) \in Layers /\ rows[r] \in Seq(Layers) /\ staged[r] \in Seq(Layers)
  BY <1>2, LayerOfCauses DEF InHand, Keys, IInv, TypeOK
<1>8. Append(rows[r], InHand(r)) \in Seq(Layers) /\ rows'[r] = Append(rows[r], InHand(r))
  BY <1>6, <1>7, CountAppend DEF IInv, TypeOK
<1>9. TypeOK'
  BY <1>3, <1>4, <1>5, <1>6, <1>8 DEF IInv, TypeOK
<1>10. Apart(r)
  BY <1>3, <1>5, <1>6 DEF Apart, IInv, TypeOK
<1>11. RunSound(r)'
  BY <1>4, <1>5, <1>6 DEF RunSound, Pointing, Locked, Publishing
<1>12. LedgerSound(r)'
  <2>1. Capped(rows'[r]) /\ Covers(rows'[r], staged[r]) /\ Capped(staged[r])
    BY <1>1, <1>2, <1>8 DEF LedgerSound
  <2> QED
    BY <1>3, <1>4, <1>5, <2>1 DEF LedgerSound, Covers, Capped, SameLayer
<1>13. \A k \in Keys : KeySound(k)' /\ Kept(k)
  BY <1>3, KeysStay
<1> QED
  BY <1>5, <1>9, <1>10, <1>11, <1>12, <1>13, Frame

-----------------------------------------------------------------------------
(* The steps that write under the key of the run.                          *)

\* A step that writes under the key of its run, and goes on in its transaction.
LEMMA KeyStep ==
    ASSUME IInv, NEW r \in Runs, pc[r] \in Locked, NEW to \in Steps,
           pc' = [pc EXCEPT ![r] = to], TypeOK',
           \A k \in Keys : lock[k] # r => lock'[k] = lock[k],
           UNCHANGED <<stop, prepared, after, rows, staged>>,
           \A k \in Keys \ {stop[r]} : Kept(k),
           KeySound(stop[r])', RunSound(r)',
           to \in Unstaged => pc[r] \in Unstaged, to \notin {"check", "lock"}
    PROVE  IInv'
<1>1. pc'[r] = to /\ Apart(r)
  BY DEF IInv, TypeOK, Apart
<1>2. LedgerSound(r)'
  BY <1>1, LedgerStays
<1>3. ASSUME NEW k \in Keys \ {stop[r]} PROVE KeySound(k)'
  BY <1>3, SameKey DEF IInv, Kept
<1>4. ASSUME NEW k \in Keys, lock[k] \in Runs \ {r} PROVE lock'[k] = lock[k] /\ Kept(k)
  <2>1. k # stop[r]
    BY <1>4, Held
  <2> QED
    BY <1>4, <2>1
<1>5. \A k \in Keys : KeySound(k)'
  BY <1>3
<1> QED
  BY <1>1, <1>2, <1>4, <1>5, Frame


\* A receipt that a death left unselected is selected first; there is never one
\* that cannot be.
LEMMA ReconcileKeeps == ASSUME IInv, NEW r \in Runs, Reconcile(r) PROVE IInv'
<1> DEFINE k == stop[r]
<1>1. pc[r] = "reconcile" /\ pc[r] \in Locked /\ pc[r] \in Unstaged
  BY DEF Reconcile, Locked, Unstaged
<1>2. k \in Keys /\ lock[k] = r /\ KeySound(k) /\ TypeOK
  BY <1>1, Held
<1>3. \/ store[k].orphans = {}
      \/ \E x \in Receipts : store[k].orphans = {x} /\ OnCourse(k, Written(k) + 1, x)
  BY <1>2 DEF KeySound
<1>4. Reconcilable(store[k])
  <2>1. CASE store[k].orphans = {}
    BY <2>1 DEF Reconcilable
  <2>2. CASE \E x \in Receipts : store[k].orphans = {x} /\ OnCourse(k, Written(k) + 1, x)
    BY <1>2, <2>2, NextOnCourse DEF Reconcilable
  <2> QED
    BY <1>3, <2>1, <2>2
<1>5. /\ store' = [store EXCEPT ![k] = Reconciled(@)] /\ Leave(r, "inspect")
      /\ UNCHANGED <<authority, commit, evaluation, attempts, stop, prepared, after, rows, staged, crashes>>
  BY <1>4 DEF Reconcile, runVars
<1>6. "inspect" \in Steps /\ "inspect" \in Locked /\ "inspect" \in Unstaged
  BY DEF Steps, Locked, Unstaged
<1>7. pc' = [pc EXCEPT ![r] = "inspect"] /\ pc'[r] = "inspect" /\ lock' = lock
  BY <1>2, <1>5, <1>6, Leaving
<1>8. /\ store' \in [Keys -> [chain : Seq(Receipts), orphans : SUBSET Receipts]]
      /\ KeySound(k)' /\ store'[k].orphans = {}
      /\ \A j \in Keys \ {k} : store'[j] = store[j]
  <2>1. CASE store[k].orphans = {}
    <3>1. store' = store
      BY <1>2, <1>5, <2>1 DEF Reconciled, TypeOK
    <3> QED
      BY <1>2, <1>5, <2>1, <3>1, SameKey DEF TypeOK
  <2>2. CASE \E x \in Receipts : store[k].orphans = {x} /\ OnCourse(k, Written(k) + 1, x)
    <3>1. PICK x \in Receipts : store[k].orphans = {x} /\ OnCourse(k, Written(k) + 1, x)
      BY <2>2
    <3>2. (CHOOSE y \in store[k].orphans : TRUE) = x
      BY <3>1
    <3>3. Reconciled(store[k]) = SelectReceipt(store[k], x)
      BY <3>1, <3>2 DEF Reconciled
    <3>4. store' = [store EXCEPT ![k] = SelectReceipt(@, x)]
      BY <1>5, <3>3
    <3>5. /\ store' \in [Keys -> [chain : Seq(Receipts), orphans : SUBSET Receipts]]
          /\ KeySound(k)' /\ store'[k].orphans = {}
      BY <1>2, <1>5, <3>1, <3>4, SelectKeeps
    <3> QED
      BY <1>2, <3>4, <3>5 DEF TypeOK
  <2> QED
    BY <1>3, <2>1, <2>2
<1>9. TypeOK'
  BY <1>2, <1>5, <1>6, <1>7, <1>8 DEF TypeOK
<1>10. RunSound(r)'
  BY <1>2, <1>5, <1>7, <1>8 DEF RunSound, Pointing
<1>11. \A j \in Keys \ {k} : Kept(j)
  BY <1>5, <1>8 DEF Kept
<1> HIDE DEF k
<1> QED
  BY <1>1, <1>5, <1>6, <1>7, <1>8, <1>9, <1>10, <1>11, KeyStep DEF k

\* The receipt at a publishing step is the next on the course of the key.
LEMMA ReceiptOnCourse ==
    ASSUME IInv, NEW r \in Runs,
           pc[r] \in {"prepare", "start", "finish", "fail"} \cup Pointing
    PROVE  /\ pc[r] \in Locked
           /\ ReceiptAt(r, pc[r]) \in Receipts
           /\ OnCourse(stop[r], Written(stop[r]) + 1, ReceiptAt(r, pc[r]))
<1> USE NoneIsNoRecord
<1> DEFINE k == stop[r]
<1>1. pc[r] \in Locked
  BY DEF Locked, Publishing, Pointing
<1>2. k \in Keys /\ lock[k] = r /\ KeySound(k) /\ RunSound(r) /\ TypeOK
  BY <1>1, Held
<1>3. pc[r] \in {"prepare", "prepare_pointer", "start", "start_pointer", "finish", "finish_pointer",
                 "fail", "fail_pointer"}
  BY DEF Pointing
<1>4. CASE pc[r] \in {"prepare", "prepare_pointer"}
  <2>1. Written(k) = 0 /\ ReceiptAt(r, pc[r]) = Prepared
    BY <1>1, <1>2, <1>4 DEF RunSound, WrittenAt, ReceiptAt
  <2> QED
    BY <1>1, <2>1 DEF OnCourse, Prepared, Receipt, Receipts, Phases
<1>5. CASE pc[r] \in {"start", "start_pointer"}
  <2>1. Written(k) = 1 /\ ReceiptAt(r, pc[r]) = Running
    BY <1>1, <1>2, <1>5 DEF RunSound, WrittenAt, ReceiptAt
  <2> QED
    BY <1>1, <2>1 DEF OnCourse, Running, Receipt, Receipts, Phases
<1>6. CASE pc[r] \in {"finish", "finish_pointer"}
  <2>1. Written(k) = 2 /\ commit[k] # None
    BY <1>1, <1>2, <1>6 DEF RunSound, WrittenAt
  <2>2. ReceiptAt(r, pc[r]) = Receipt("terminal", "committed", commit[k].after)
    BY <1>6 DEF ReceiptAt
  <2>3. commit[k].after \in 0 .. MaxAuthority
    BY <1>2, <2>1 DEF TypeOK, Commits
  <2>4. ReceiptAt(r, pc[r]) \in Terminals /\ ReceiptAt(r, pc[r]) \in Receipts
    BY <2>2, <2>3 DEF Receipt, Receipts, Terminals, Phases, Outcomes
  <2>5. Decides(k, ReceiptAt(r, pc[r]))
    BY <2>1, <2>2 DEF Decides, Receipt
  <2> QED
    BY <1>1, <2>1, <2>4, <2>5 DEF OnCourse
<1>7. CASE pc[r] \in {"fail", "fail_pointer"}
  <2>1. Written(k) = 2 /\ commit[k] = None /\ after[r] # None
    BY <1>1, <1>2, <1>7 DEF RunSound, WrittenAt
  <2>2. ReceiptAt(r, pc[r]) = Receipt("terminal", "failed", after[r])
    BY <1>7 DEF ReceiptAt
  <2>3. after[r] \in 0 .. MaxAuthority
    BY <1>2, <2>1 DEF TypeOK
  <2>4. ReceiptAt(r, pc[r]) \in Terminals /\ ReceiptAt(r, pc[r]) \in Receipts
    BY <2>2, <2>3 DEF Receipt, Receipts, Terminals, Phases, Outcomes
  <2>5. Decides(k, ReceiptAt(r, pc[r]))
    BY <2>1, <2>2 DEF Decides, Receipt
  <2> QED
    BY <1>1, <2>1, <2>4, <2>5 DEF OnCourse
<1> QED
  BY <1>3, <1>4, <1>5, <1>6, <1>7


\* A receipt is always publishable where one is due: its file comes first.
LEMMA PublishReceiptKeeps == ASSUME IInv, NEW r \in Runs, PublishReceipt(r) PROVE IInv'
<1> DEFINE k == stop[r]
<1> DEFINE x == ReceiptAt(r, pc[r])
<1> DEFINE to == PointerOf(pc[r])
<1>1. pc[r] \in {"prepare", "start", "finish", "fail"}
  BY DEF PublishReceipt
<1>2. pc[r] \in Locked /\ x \in Receipts /\ OnCourse(k, Written(k) + 1, x)
  BY <1>1, ReceiptOnCourse
<1>3. k \in Keys /\ lock[k] = r /\ KeySound(k) /\ RunSound(r) /\ TypeOK
  BY <1>2, Held
<1>4. store[k].orphans = {} /\ Written(k) = WrittenAt(pc[r])
  BY <1>1, <1>2, <1>3 DEF RunSound, Pointing
<1>5. Publishable(store[k], x)
  BY <1>2, <1>3, <1>4, NextOnCourse DEF Publishable
<1>6. /\ store' = [store EXCEPT ![k] = WriteReceipt(@, x)] /\ Leave(r, to)
      /\ UNCHANGED <<authority, commit, evaluation, attempts, stop, prepared, after, rows, staged, crashes>>
  BY <1>5 DEF PublishReceipt, runVars
<1>7. /\ to \in Pointing /\ to \in Steps /\ to \in Locked
      /\ to \in Unstaged => pc[r] \in Unstaged
      /\ WrittenAt(to) = WrittenAt(pc[r])
      /\ to \in {"finish_pointer"} <=> pc[r] = "finish"
      /\ to \in {"fail_pointer"} <=> pc[r] = "fail"
      /\ to \notin {"stage", "returned", "commit", "fail", "finish", "evaluate", "attempt", "row"}
  BY <1>1 DEF PointerOf, Pointing, Steps, Locked, Publishing, Unstaged, WrittenAt
<1>8. /\ pc' = [pc EXCEPT ![r] = to] /\ pc'[r] = to /\ lock' = lock
  BY <1>3, <1>6, <1>7, Leaving
<1>9. /\ store' \in [Keys -> [chain : Seq(Receipts), orphans : SUBSET Receipts]]
      /\ Written(k)' = Written(k) /\ store'[k].orphans = {x} /\ KeySound(k)'
  BY <1>2, <1>3, <1>4, <1>6, WriteKeeps
<1>10. \A j \in Keys \ {k} : Kept(j)
  BY <1>3, <1>6 DEF Kept, TypeOK
<1>11. TypeOK'
  BY <1>3, <1>6, <1>7, <1>8, <1>9 DEF TypeOK
<1>12. ReceiptAt(r, pc[r])' = x
  <2>1. commit'[stop'[r]] = commit[k] /\ after'[r] = after[r]
    BY <1>6
  <2>2. pc'[r] = PointerOf(pc[r])
    BY <1>8
  <2> QED
    BY <1>1, <2>1, <2>2 DEF ReceiptAt, PointerOf
<1>13. RunSound(r)'
  <2>1. stop'[r] = k /\ lock'[k] = r /\ commit'[k] = commit[k] /\ after'[r] = after[r]
        /\ store'[k].orphans = {x} /\ Written(k)' = WrittenAt(to)
    BY <1>3, <1>4, <1>6, <1>7, <1>8, <1>9
  <2>2. to \notin {"conflict", "drive", "stopped", "check", "lock", "reconcile", "inspect"}
    BY <1>7 DEF Pointing
  <2>3. /\ to = "fail_pointer" => commit[k] = None /\ after[r] # None
        /\ to = "finish_pointer" => commit[k] # None
    BY <1>3, <1>7 DEF RunSound
  <2> HIDE DEF x, to, k
  <2> QED
    BY <1>3, <1>7, <1>8, <1>12, <2>1, <2>2, <2>3 DEF RunSound, k
<1>14. to \notin {"check", "lock"}
  BY <1>7 DEF Pointing
<1> HIDE DEF x, to
<1> QED
  BY <1>2, <1>6, <1>7, <1>8, <1>9, <1>10, <1>11, <1>13, <1>14, KeyStep

\* The pointer selects the receipt whose file was published.
LEMMA PublishPointerKeeps == ASSUME IInv, NEW r \in Runs, PublishPointer(r) PROVE IInv'
<1> DEFINE k == stop[r]
<1> DEFINE x == ReceiptAt(r, pc[r])
<1> DEFINE to == AfterPointer(pc[r])
<1>1. pc[r] \in Pointing
  BY DEF PublishPointer, Pointing
<1>2. pc[r] \in Locked /\ x \in Receipts /\ OnCourse(k, Written(k) + 1, x)
  BY <1>1, ReceiptOnCourse
<1>3. k \in Keys /\ lock[k] = r /\ KeySound(k) /\ RunSound(r) /\ TypeOK
  BY <1>2, Held
<1>4. store[k].orphans = {x} /\ Written(k) = WrittenAt(pc[r])
  BY <1>1, <1>2, <1>3 DEF RunSound, Pointing
<1>5. /\ store' = [store EXCEPT ![k] = SelectReceipt(@, x)] /\ Leave(r, to)
      /\ UNCHANGED <<authority, commit, evaluation, attempts, stop, prepared, after, rows, staged, crashes>>
  BY DEF PublishPointer, runVars
<1>6. /\ to \in {"start", "read_commit", "evaluate", "end"} /\ to \in Steps
      /\ to # "end" => to \in Locked /\ WrittenAt(to) = WrittenAt(pc[r]) + 1
      /\ to \in Unstaged => pc[r] \in Unstaged
      /\ to = "evaluate" => pc[r] = "finish_pointer"
  BY <1>1 DEF AfterPointer, Pointing, Steps, Locked, Publishing, Unstaged, WrittenAt
<1>7. /\ pc' = [pc EXCEPT ![r] = to] /\ pc'[r] = to /\ (to # "end" => lock' = lock)
      /\ lock' \in [Keys -> Runs \cup {None}]
      /\ \A j \in Keys : lock[j] # r => lock'[j] = lock[j]
  BY <1>3, <1>5, <1>6, Leaving
<1>8. /\ store' \in [Keys -> [chain : Seq(Receipts), orphans : SUBSET Receipts]]
      /\ Written(k)' = Written(k) + 1 /\ store'[k].orphans = {} /\ KeySound(k)'
  BY <1>2, <1>3, <1>4, <1>5, SelectKeeps
<1>9. \A j \in Keys \ {k} : Kept(j)
  BY <1>3, <1>5 DEF Kept, TypeOK
<1>10. TypeOK'
  BY <1>3, <1>5, <1>6, <1>7, <1>8 DEF TypeOK
<1>11. RunSound(r)'
  <2>1. CASE to = "end"
    BY <1>7, <2>1, OutsideSound
  <2>2. CASE to # "end"
    <3>1. stop'[r] = k /\ lock'[k] = r /\ commit'[k] = commit[k]
          /\ store'[k].orphans = {} /\ Written(k)' = WrittenAt(to)
      BY <1>3, <1>4, <1>5, <1>6, <1>7, <1>8, <2>2
    <3>2. to = "evaluate" => commit[k] # None
      BY <1>3, <1>6 DEF RunSound
    <3> HIDE DEF x, to, k
    <3> QED
      BY <1>3, <1>6, <1>7, <2>2, <3>1, <3>2 DEF RunSound, Pointing, k
  <2> QED
    BY <2>1, <2>2
<1>12. to \notin {"check", "lock"}
  BY <1>6
<1> HIDE DEF x, to
<1> QED
  BY <1>2, <1>5, <1>6, <1>7, <1>8, <1>9, <1>10, <1>11, <1>12, KeyStep

\* The commit binds the running receipt, which is the last one.
LEMMA CommitKeeps == ASSUME IInv, NEW r \in Runs, Commit(r) PROVE IInv'
<1> USE NoneIsNoRecord
<1> DEFINE k == stop[r]
<1> DEFINE c == [running |-> Len(store[k].chain), after |-> after[r]]
<1>1. pc[r] = "commit" /\ pc[r] \in Locked
  BY DEF Commit, Goto, Locked
<1>2. k \in Keys /\ lock[k] = r /\ KeySound(k) /\ RunSound(r) /\ TypeOK
  BY <1>1, Held
<1>3. /\ store[k].orphans = {} /\ Written(k) = 2 /\ commit[k] = None
      /\ after[r] # None /\ after[r] # k.before
  BY <1>1, <1>2 DEF RunSound, Pointing, WrittenAt
<1>4. /\ pc' = [pc EXCEPT ![r] = "finish"] /\ pc'[r] = "finish"
      /\ commit' = [commit EXCEPT ![k] = c]
      /\ UNCHANGED <<authority, store, evaluation, attempts, lock, stop, prepared, after, rows, staged, crashes>>
  BY DEF Commit, Goto, runVars, IInv, TypeOK
<1>5. c \in Commits /\ c # None /\ c.running = 2 /\ c.after # k.before
  BY <1>2, <1>3 DEF Commits, Written, TypeOK
<1>6. "finish" \in Steps /\ "finish" \notin Unstaged
  BY DEF Steps, Locked, Publishing, Unstaged
<1> HIDE DEF c
<1>7. commit'[k] = c /\ commit' \in [Keys -> Commits \cup {None}]
  BY <1>2, <1>4, <1>5 DEF TypeOK
<1>8. TypeOK'
  BY <1>2, <1>4, <1>6, <1>7 DEF TypeOK
<1>9. KeySound(k)'
  <2>1. Written(k)' = 2 /\ store'[k] = store[k]
    BY <1>3, <1>4 DEF Written
  <2>2. ASSUME NEW n \in 1 .. 2 PROVE OnCourse(k, n, store[k].chain[n])'
    <3>1. OnCourse(k, n, store[k].chain[n])
      BY <1>2, <1>3 DEF KeySound
    <3> QED
      BY <1>4, <2>1, <3>1 DEF OnCourse
  <2>3. evaluation[k] = None /\ ~(k \in attempts)
    BY <1>2, <1>3 DEF KeySound
  <2> QED
    BY <1>3, <1>4, <1>5, <1>7, <2>1, <2>2, <2>3 DEF KeySound
<1>10. RunSound(r)'
  <2>1. stop'[r] = k /\ lock'[k] = r /\ Written(k)' = 2 /\ store'[k].orphans = {} /\ commit'[k] # None
    BY <1>2, <1>3, <1>4, <1>5, <1>7 DEF Written
  <2> QED
    BY <1>2, <1>4, <2>1 DEF RunSound, Pointing, WrittenAt
<1>11. \A j \in Keys \ {k} : Kept(j)
  BY <1>2, <1>4 DEF Kept, TypeOK
<1> QED
  BY <1>1, <1>4, <1>6, <1>8, <1>9, <1>10, <1>11, KeyStep

\* A committed key is proven by what is on disk.
LEMMA CommittedIsProven ==
    ASSUME TypeOK, NEW k \in Keys, KeySound(k), Written(k) = 3, commit[k] # None
    PROVE  Proven(k)
<1>1. /\ PhaseOf(store[k]) = "terminal" /\ OnCourse(k, 3, Current(store[k]))
  BY PhaseByCount
<1>2. Current(store[k]).outcome = "committed" /\ Current(store[k]).after = commit[k].after
  BY <1>1 DEF OnCourse, Decides
<1>3. OnCourse(k, 2, store[k].chain[2])
  BY DEF KeySound
<1>4. store[k].chain[2].phase = "running"
  BY <1>3, Course
<1>5. commit[k].running = 2 /\ commit[k].after # k.before
  BY DEF KeySound
<1> QED
  BY <1>1, <1>2, <1>4, <1>5 DEF Proven, Committed, Written

\* The evaluation of a committed key is always satisfied, and always the same.
LEMMA EvaluateKeeps == ASSUME IInv, NEW r \in Runs, Evaluate(r) PROVE IInv'
<1> USE NoneIsNoRecord
<1> DEFINE k == stop[r]
<1>1. pc[r] = "evaluate" /\ pc[r] \in Locked
  BY DEF Evaluate, Locked
<1>2. k \in Keys /\ lock[k] = r /\ KeySound(k) /\ RunSound(r) /\ TypeOK
  BY <1>1, Held
<1>3. store[k].orphans = {} /\ Written(k) = 3 /\ commit[k] # None
  BY <1>1, <1>2 DEF RunSound, Pointing, WrittenAt
<1>4. Proven(k) /\ evaluation[k] \in {None, commit[k].after}
  BY <1>2, <1>3, CommittedIsProven DEF KeySound
<1>5. /\ evaluation' = [evaluation EXCEPT ![k] = commit[k].after] /\ Leave(r, "attempt")
      /\ UNCHANGED <<authority, store, commit, attempts, stop, prepared, after, rows, staged, crashes>>
  BY <1>4 DEF Evaluate, runVars
<1>6. "attempt" \in Steps /\ "attempt" \in Locked /\ "attempt" \notin Unstaged
  BY DEF Steps, Locked, Unstaged
<1>7. pc' = [pc EXCEPT ![r] = "attempt"] /\ pc'[r] = "attempt" /\ lock' = lock
  BY <1>2, <1>5, <1>6, Leaving
<1>8. commit[k].after \in 0 .. MaxAuthority
  BY <1>2, <1>3 DEF TypeOK, Commits
<1>9. evaluation'[k] = commit[k].after /\ evaluation' \in [Keys -> 0 .. MaxAuthority \cup {None}]
  BY <1>2, <1>5, <1>8 DEF TypeOK
<1>10. TypeOK'
  BY <1>2, <1>5, <1>6, <1>7, <1>9 DEF TypeOK
<1>11. Written(k)' = 3 /\ store'[k] = store[k]
  BY <1>3, <1>5 DEF Written
<1>12. evaluation'[k] # None
  BY <1>8, <1>9
<1>13. KeySound(k)'
  BY <1>2, <1>3, <1>5, <1>9, <1>11, <1>12 DEF KeySound, OnCourse, Decides
<1>14. RunSound(r)'
  BY <1>2, <1>3, <1>5, <1>7, <1>11, <1>12 DEF RunSound, Pointing, WrittenAt
<1>15. \A j \in Keys \ {k} : Kept(j)
  BY <1>2, <1>5 DEF Kept, TypeOK
<1> QED
  BY <1>1, <1>5, <1>6, <1>7, <1>10, <1>13, <1>14, <1>15, KeyStep

\* A cause is spent after its evaluation.
LEMMA PublishAttemptKeeps == ASSUME IInv, NEW r \in Runs, PublishAttempt(r) PROVE IInv'
<1> DEFINE k == stop[r]
<1>1. pc[r] = "attempt" /\ pc[r] \in Locked
  BY DEF PublishAttempt, Goto, Locked
<1>2. k \in Keys /\ lock[k] = r /\ KeySound(k) /\ RunSound(r) /\ TypeOK
  BY <1>1, Held
<1>3. store[k].orphans = {} /\ Written(k) = 3 /\ commit[k] # None /\ evaluation[k] # None
  BY <1>1, <1>2 DEF RunSound, Pointing, WrittenAt
<1>4. /\ pc' = [pc EXCEPT ![r] = "row"] /\ pc'[r] = "row" /\ attempts' = attempts \cup {k}
      /\ UNCHANGED <<authority, store, commit, evaluation, lock, stop, prepared, after, rows, staged, crashes>>
  BY DEF PublishAttempt, Goto, runVars, IInv, TypeOK
<1>5. "row" \in Steps /\ "row" \notin Unstaged
  BY DEF Steps, Locked, Unstaged
<1>6. TypeOK'
  BY <1>2, <1>4, <1>5 DEF TypeOK
<1>7. Written(k)' = 3 /\ store'[k] = store[k]
  BY <1>3, <1>4 DEF Written
<1>8. KeySound(k)'
  BY <1>2, <1>3, <1>4, <1>7 DEF KeySound, OnCourse, Decides
<1>9. RunSound(r)'
  BY <1>2, <1>3, <1>4, <1>7 DEF RunSound, Pointing, WrittenAt
<1>10. \A j \in Keys \ {k} : Kept(j)
  BY <1>2, <1>4 DEF Kept
<1> QED
  BY <1>1, <1>4, <1>5, <1>6, <1>8, <1>9, <1>10, KeyStep


-----------------------------------------------------------------------------
(* The theorems.                                                           *)

\* A shot without a dispatch satisfies the invariant.
LEMMA InitKeeps == ASSUME Init PROVE IInv
<1> USE NoneIsNoRecord, ControllerBounds
<1>1. NoReceipts \in [chain : Seq(Receipts), orphans : SUBSET Receipts]
  BY EmptySeq DEF NoReceipts
<1>2. <<>> \in Seq(Layers) /\ DOMAIN <<>> = 1 .. 0 /\ Len(<<>>) = 0
  BY EmptySeq
<1>3. TypeOK
  BY <1>1, <1>2 DEF Init, TypeOK, Steps
<1>4. ASSUME NEW k \in Keys PROVE KeySound(k)
  <2>1. store[k].chain = <<>> /\ store[k].orphans = {} /\ Written(k) = 0
    BY DEF Init, NoReceipts, Written
  <2>2. commit[k] = None /\ evaluation[k] = None /\ ~(k \in attempts)
    BY DEF Init
  <2> QED
    BY <2>1, <2>2 DEF KeySound
<1>5. ASSUME NEW r \in Runs PROVE RunSound(r) /\ LedgerSound(r)
  <2>1. pc[r] = "drive" /\ rows[r] = <<>> /\ staged[r] = <<>> /\ prepared = {}
    BY DEF Init
  <2>2. "drive" \notin Locked
    BY DEF Locked, Publishing
  <2>3. RunSound(r)
    BY <2>1, <2>2 DEF RunSound, Pointing
  <2>4. ASSUME NEW l \in Layers PROVE SameLayer(<<>>, l) = 0
    <3>1. {i \in DOMAIN <<>> : <<>>[i] = l} = {}
      BY <1>2
    <3> QED
      BY <3>1, FS_EmptySet DEF SameLayer
  <2>5. Capped(<<>>) /\ Covers(<<>>, <<>>)
    BY <1>2, <2>4 DEF Capped, Covers
  <2>6. LedgerSound(r)
    BY <2>1, <2>2, <2>5 DEF LedgerSound
  <2> QED
    BY <2>3, <2>6
<1> QED
  BY <1>3, <1>4, <1>5 DEF IInv

\* Every step keeps the invariant.
LEMMA NextKeeps == ASSUME IInv, [Next]_vars PROVE IInv'
<1>1. ASSUME NEW r \in Runs,
             \/ Stop(r) \/ Finish(r) \/ Dispatch(r) \/ CheckOwnership(r) \/ Lock(r)
             \/ Inspect(r) \/ ReadCommit(r) \/ RunStage(r) \/ ReadBack(r) \/ RecordRow(r)
             \/ Crash(r) \/ OrphanStage(r)
      PROVE  IInv'
  BY <1>1, StopKeeps, EndingKeeps, DispatchKeeps, LockKeeps, InspectKeeps, ReadCommitKeeps,
     StageKeeps, RecordRowKeeps
<1>2. ASSUME NEW r \in Runs,
             \/ Reconcile(r) \/ PublishReceipt(r) \/ PublishPointer(r)
             \/ Commit(r) \/ Evaluate(r) \/ PublishAttempt(r)
      PROVE  IInv'
  BY <1>2, ReconcileKeeps, PublishReceiptKeeps, PublishPointerKeeps, CommitKeeps, EvaluateKeeps,
     PublishAttemptKeeps
<1>3. CASE UNCHANGED vars
  <2>1. TypeOK' /\ UNCHANGED <<store, commit, evaluation, attempts>>
    BY <1>3 DEF IInv, TypeOK, vars, shotVars, runVars
  <2>2. ASSUME NEW r \in Runs PROVE RunSound(r)' /\ LedgerSound(r)'
    <3>1. RunSound(r) /\ LedgerSound(r)
      BY DEF IInv
    <3>2. UNCHANGED <<store, commit, evaluation, lock, pc, stop, prepared, after, rows, staged>>
      BY <1>3 DEF vars, shotVars, runVars
    <3>3. RunSound(r)'
      BY <3>1, <3>2 DEF RunSound, Written, ReceiptAt
    <3>4. LedgerSound(r)'
      BY <3>1, <3>2 DEF LedgerSound, Covers, Capped, SameLayer, InHand
    <3> QED
      BY <3>3, <3>4
  <2> QED
    BY <2>1, <2>2, KeysStay DEF IInv
<1> QED
  BY <1>1, <1>2, <1>3 DEF Next

\* The invariant holds in every state of the shot.
LEMMA Invariance == Spec => []IInv
<1>1. Init => IInv
  BY InitKeeps
<1>2. IInv /\ [Next]_vars => IInv'
  BY NextKeeps
<1> QED
  BY <1>1, <1>2, PTL DEF Spec

\* The variables keep their types.
THEOREM TypeCorrect == Spec => []TypeOK
<1>1. IInv => TypeOK
  BY DEF IInv
<1> QED
  BY <1>1, Invariance, PTL

\* Whatever dies where, a spent cause has its proof on disk, and a failed
\* transaction has no commit.
THEOREM SpentCausesAreProven == Spec => []SpentIsProven
<1>1. ASSUME IInv PROVE SpentIsProven
  <2>1. ASSUME NEW k \in attempts PROVE Proven(k) /\ evaluation[k] = commit[k].after
    <3>1. k \in Keys /\ KeySound(k) /\ TypeOK
      BY <1>1 DEF IInv, TypeOK
    <3>2. Written(k) = 3 /\ commit[k] # None /\ evaluation[k] = commit[k].after
      BY <3>1 DEF KeySound
    <3> QED
      BY <3>1, <3>2, CommittedIsProven
  <2>2. ASSUME NEW k \in Keys, Failed(k) PROVE commit[k] = None
    <3>1. Written(k) = 3 /\ OnCourse(k, 3, Current(store[k]))
      BY <1>1, <2>2, PhaseByCount DEF IInv, Failed
    <3> QED
      BY <2>2, <3>1 DEF OnCourse, Decides, Failed
  <2> QED
    BY <2>1, <2>2 DEF SpentIsProven
<1> QED
  BY <1>1, Invariance, PTL

\* No death and no other run leaves a key that refuses the next one.
THEOREM KeysAreNeverBlocked == Spec => []NeverConflicting
<1>1. IInv => NeverConflicting
  BY DEF IInv, RunSound, NeverConflicting
<1> QED
  BY <1>1, Invariance, PTL

\* The caps bound the stages a run pays for.
THEOREM StagesAreCapped == Spec => []StagesWithinCaps
<1>1. IInv => StagesWithinCaps
  BY DEF IInv, LedgerSound, Capped, StagesWithinCaps
<1> QED
  BY <1>1, Invariance, PTL

\* The driver never goes on past an envelope.
THEOREM EnvelopesAreConsumed == Spec => []EnvelopeConsumed
<1>1. IInv => EnvelopeConsumed
  BY DEF IInv, RunSound, EnvelopeConsumed
<1> QED
  BY <1>1, Invariance, PTL

\* What a step does to one key: its chain grows, its commit and evaluation stay,
\* and a decided key starts no stage.
KeyDecidedOnce(k) ==
    /\ SubSeq(store'[k].chain, 1, Len(store[k].chain)) = store[k].chain
    /\ commit[k] # None => commit'[k] = commit[k]
    /\ evaluation[k] # None => evaluation'[k] = evaluation[k]
    /\ commit[k] # None \/ PhaseOf(store[k]) = "terminal" =>
          \A r \in Runs : stop[r] = k => staged'[r] = staged[r]

\* A chain that is kept or grows by one receipt keeps what it had.
LEMMA ChainsGrow ==
    ASSUME NEW s \in Seq(Receipts), NEW t, t = s \/ \E x \in Receipts : t = Append(s, x)
    PROVE  SubSeq(t, 1, Len(s)) = s
<1>1. CASE t = s
  BY <1>1, SubSeqFull
<1>2. ASSUME NEW x \in Receipts, t = Append(s, x) PROVE SubSeq(t, 1, Len(s)) = s
  <2>1. Len(s) \in Nat
    BY LenProperties
  <2>2. \A i \in 1 .. Len(s) : t[i] = s[i] /\ s[i] \in Receipts
    BY <1>2, AppendProperties, ElementOfSeq
  <2>3. \A i \in 1 .. Len(s) : t[i] \in Receipts
    BY <2>2
  <2>4. 1 \in Int /\ Len(s) \in Int
    BY <2>1
  <2>5. /\ SubSeq(t, 1, Len(s)) \in Seq(Receipts)
        /\ Len(SubSeq(t, 1, Len(s))) = IF 1 <= Len(s) THEN Len(s) - 1 + 1 ELSE 0
        /\ \A i \in 1 .. Len(s) - 1 + 1 : SubSeq(t, 1, Len(s))[i] = t[1 + i - 1]
    BY <2>3, <2>4, SubSeqProperties
  <2>6. Len(SubSeq(t, 1, Len(s))) = Len(s)
    BY <2>1, <2>5
  <2>7. \A i \in 1 .. Len(s) : SubSeq(t, 1, Len(s))[i] = s[i]
    BY <2>1, <2>2, <2>5
  <2>8. \A i \in 1 .. Len(SubSeq(t, 1, Len(s))) : SubSeq(t, 1, Len(s))[i] = s[i]
    BY <2>6, <2>7
  <2> QED
    BY <2>5, <2>6, <2>8, SeqEqual
<1> QED
  BY <1>1, <1>2


\* Receipts are only added.
LEMMA ReceiptsAreAdded ==
    ASSUME IInv, NEW r \in Runs, Reconcile(r) \/ PublishReceipt(r) \/ PublishPointer(r),
           NEW k \in Keys
    PROVE  SubSeq(store'[k].chain, 1, Len(store[k].chain)) = store[k].chain
<1> DEFINE c == store[k].chain
<1>1. c \in Seq(Receipts) /\ store[k] = [chain |-> c, orphans |-> store[k].orphans]
  BY Chains DEF IInv
<1>2. \A x : /\ SelectReceipt(store[k], x).chain \in {c, Append(c, x)}
             /\ WriteReceipt(store[k], x).chain = c
  BY <1>1 DEF SelectReceipt, WriteReceipt
<1>3. CASE store'[k] = store[k]
  BY <1>1, <1>3, ChainsGrow
<1>4. CASE store'[k] # store[k]
  <2>1. CASE Reconcile(r)
    <3>1. k = stop[r] /\ store'[k] = Reconciled(store[k])
      BY <1>4, <2>1 DEF Reconcile, IInv, TypeOK
    <3>4. store[k].orphans # {}
      BY <1>4, <3>1 DEF Reconciled
    <3>2. PICK x \in Receipts : store[k].orphans = {x}
      BY <3>4 DEF IInv, KeySound
    <3>3. store'[k] = SelectReceipt(store[k], x)
      <4>1. (CHOOSE y \in store[k].orphans : TRUE) = x
        BY <3>2
      <4> QED
        BY <3>1, <3>4, <4>1 DEF Reconciled
    <3> QED
      BY <1>1, <1>2, <3>3, ChainsGrow
  <2>2. CASE PublishReceipt(r)
    <3>1. store'[k] = WriteReceipt(store[k], ReceiptAt(r, pc[r]))
      BY <1>4, <2>2 DEF PublishReceipt, IInv, TypeOK
    <3> QED
      BY <1>1, <1>2, <3>1, ChainsGrow
  <2>3. CASE PublishPointer(r)
    <3>1. store'[k] = SelectReceipt(store[k], ReceiptAt(r, pc[r]))
      BY <1>4, <2>3 DEF PublishPointer, IInv, TypeOK
    <3>2. ReceiptAt(r, pc[r]) \in Receipts
      BY <2>3, ReceiptOnCourse DEF PublishPointer, Pointing
    <3> QED
      BY <1>1, <1>2, <3>1, <3>2, ChainsGrow
  <2> QED
    BY <2>1, <2>2, <2>3
<1> QED
  BY <1>3, <1>4

\* Every step keeps what was decided of a key.
LEMMA NothingRedecided == ASSUME IInv, Next, NEW k \in Keys PROVE KeyDecidedOnce(k)
<1>1. SubSeq(store[k].chain, 1, Len(store[k].chain)) = store[k].chain
  BY Chains, SubSeqFull DEF IInv
<1>2. ASSUME UNCHANGED <<store, commit, evaluation, staged>> PROVE KeyDecidedOnce(k)
  BY <1>1, <1>2 DEF KeyDecidedOnce
<1>3. ASSUME NEW r \in Runs,
             \/ Stop(r) \/ Finish(r) \/ Dispatch(r) \/ CheckOwnership(r) \/ Lock(r)
             \/ Inspect(r) \/ RunStage(r) \/ ReadBack(r) \/ RecordRow(r)
             \/ Crash(r) \/ OrphanStage(r) \/ PublishAttempt(r)
      PROVE  KeyDecidedOnce(k)
  <2>1. UNCHANGED <<store, commit, evaluation, staged>>
    BY <1>3 DEF Stop, Finish, Dispatch, CheckOwnership, Lock, Inspect, RunStage, ReadBack,
       RecordRow, Crash, OrphanStage, PublishAttempt, shotVars, runVars
  <2> QED
    BY <1>2, <2>1
<1>4. ASSUME NEW r \in Runs, Reconcile(r) \/ PublishReceipt(r) \/ PublishPointer(r)
      PROVE  KeyDecidedOnce(k)
  <2>1. UNCHANGED <<commit, evaluation, staged>>
    BY <1>4 DEF Reconcile, PublishReceipt, PublishPointer, runVars
  <2> QED
    BY <1>4, <2>1, ReceiptsAreAdded DEF KeyDecidedOnce
<1>5. ASSUME NEW r \in Runs, ReadCommit(r) PROVE KeyDecidedOnce(k)
  <2>1. UNCHANGED <<store, commit, evaluation>> /\ pc[r] = "read_commit" /\ pc[r] \in Locked
    BY <1>5 DEF ReadCommit, shotVars, Locked
  <2>2. \/ UNCHANGED staged
        \/ commit[stop[r]] = None /\ \A q \in Runs \ {r} : staged'[q] = staged[q]
    BY <1>5 DEF ReadCommit, StartStage, IInv, TypeOK
  <2>3. PhaseOf(store[stop[r]]) # "terminal"
    <3>1. stop[r] \in Keys /\ KeySound(stop[r]) /\ Written(stop[r]) = 2 /\ TypeOK
      BY <2>1, Held DEF RunSound, WrittenAt
    <3> QED
      BY <3>1, PhaseByCount
  <2> QED
    BY <1>1, <2>1, <2>2, <2>3 DEF KeyDecidedOnce
<1>6. ASSUME NEW r \in Runs, Commit(r) PROVE KeyDecidedOnce(k)
  <2>1. UNCHANGED <<store, evaluation, staged>> /\ pc[r] = "commit" /\ pc[r] \in Locked
    BY <1>6 DEF Commit, Goto, runVars, Locked
  <2>2. commit[stop[r]] = None
    BY <2>1, Held DEF RunSound
  <2>3. k # stop[r] => commit'[k] = commit[k]
    BY <1>6 DEF Commit, IInv, TypeOK
  <2>4. commit[k] # None => commit'[k] = commit[k]
    BY <2>2, <2>3
  <2> QED
    BY <1>1, <2>1, <2>4 DEF KeyDecidedOnce
<1>7. ASSUME NEW r \in Runs, Evaluate(r) PROVE KeyDecidedOnce(k)
  <2>1. UNCHANGED <<store, commit, staged>>
    BY <1>7 DEF Evaluate, runVars
  <2>2. evaluation[k] # None => evaluation'[k] = evaluation[k]
    BY <1>7 DEF Evaluate, IInv, TypeOK
  <2> QED
    BY <1>1, <2>1, <2>2 DEF KeyDecidedOnce
<1> QED
  BY <1>3, <1>4, <1>5, <1>6, <1>7 DEF Next

\* A transaction is decided once, by whichever run.
THEOREM DecisionsAreFinal == Spec => DecidedOnce
<1>1. IInv /\ [Next]_vars =>
          [\A k \in Keys :
              /\ SubSeq(store'[k].chain, 1, Len(store[k].chain)) = store[k].chain
              /\ commit[k] # None => commit'[k] = commit[k]
              /\ evaluation[k] # None => evaluation'[k] = evaluation[k]
              /\ commit[k] # None \/ PhaseOf(store[k]) = "terminal" =>
                    \A r \in Runs : stop[r] = k => staged'[r] = staged[r]]_vars
  BY NothingRedecided DEF KeyDecidedOnce
<1> QED
  BY <1>1, Invariance, PTL DEF Spec, DecidedOnce

===============================================================================
