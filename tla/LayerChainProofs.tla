--------------------------- MODULE LayerChainProofs ---------------------------
(***************************************************************************)
(* For any number of layers and any dependencies: rows that are current    *)
(* stand on one another, and a transition leaves only receipts that do.    *)
(***************************************************************************)
EXTENDS LayerChain, SequenceTheorems, WellFoundedInduction, TLAPS

-----------------------------------------------------------------------------
(* The inductive invariant. A row names the attempt that made a receipt,   *)
(* and an attempt number is used once; so a row that is current now was    *)
(* the same receipt when it was captured.                                  *)

RowIn(receipts, l) == IF receipts[l] = None THEN 0 ELSE receipts[l].attempt

\* Every row of a prefix p is an attempt that has ended, and the rows of p that
\* are still current stand on one another.
Coherent(p, numbers, claims, receipts) ==
    /\ \A j \in 1 .. Len(p) :
          /\ 0 < p[j] /\ p[j] <= numbers[j]
          /\ claims[j] # None => p[j] < numbers[j]
    /\ \A j \in 1 .. Len(p) : \A i \in 1 .. j - 1 :
          p[j] = RowIn(receipts, j) /\ p[i] = RowIn(receipts, i) => receipts[j].prefix[i] = p[i]

\* The active claim has the last number given, the receipt an earlier one or
\* that of the claim it ended.
Numbered ==
    \A l \in Layers :
        /\ claim[l] # None => 0 < attempts[l] /\ claim[l].attempt = attempts[l]
        /\ receipt[l] # None => 0 < receipt[l].attempt /\ receipt[l].attempt <= attempts[l]

\* What was captured, claimed and committed is coherent.
PrefixesCoherent ==
    /\ \A l \in Layers :
          /\ claim[l] # None => Coherent(claim[l].prefix, attempts, claim, receipt)
          /\ receipt[l] # None => Coherent(receipt[l].prefix, attempts, claim, receipt)
    /\ builder # None => /\ Len(builder.rows) < builder.layer
                         /\ Coherent(builder.rows, attempts, claim, receipt)

IInv == TypeOK /\ Numbered /\ PrefixesCoherent

-----------------------------------------------------------------------------
(* What a transition keeps.                                                *)

\* A nonempty set of naturals has a least member.
LEMMA LeastNatural ==
    ASSUME NEW S \in SUBSET Nat, S # {} PROVE \E m \in S : \A k \in S : m <= k
<1> DEFINE R == {ss \in Nat \X Nat : ss[1] < ss[2]}
<1>1. IsWellFoundedOn(R, Nat)
  BY NatLessThanWellFounded DEF OpToRel
<1>2. \A x, y \in Nat : <<y, x>> \in R <=> y < x
  OBVIOUS
<1> HIDE DEF R
<1>3. \E x \in S : \A y \in S : <<y, x>> \notin R
  BY <1>1, WFMin
<1>4. PICK m \in S : \A k \in S : <<k, m>> \notin R
  BY <1>3
<1>5. \A k \in S : m \in Nat /\ k \in Nat /\ ~(k < m)
  BY <1>2, <1>4
<1> QED
  BY <1>5

\* The row that f keeps for l, if f says what is kept of the earlier layers.
KeptRow(affected, f, l) ==
    IF /\ l \notin affected /\ receipt[l] # None
       /\ receipt[l].prefix = [j \in 1 .. l - 1 |-> f[j]]
    THEN receipt[l].attempt ELSE 0

\* Only the earlier layers decide what is kept of a layer, so there is one
\* consistent choice, however many layers there are.
LEMMA KeptExists ==
    ASSUME NEW affected, \A l \in Layers : receipt[l] # None => receipt[l].attempt \in Nat
    PROVE  \E f \in [Layers -> Nat] : f = [l \in Layers |-> KeptRow(affected, f, l)]
<1> DEFINE Consistent(f, m) == \A l \in 1 .. m : f[l] = KeptRow(affected, f, l)
           Missing == {m \in 0 .. N : ~ \E f \in [1 .. m -> Nat] : Consistent(f, m)}
<1> USE LayerCount
<1>1. \A f : \A l \in Layers : KeptRow(affected, f, l) \in Nat
  BY DEF KeptRow
<1>2. \A f, g : \A l \in Layers :
         (\A j \in 1 .. l - 1 : f[j] = g[j]) => KeptRow(affected, f, l) = KeptRow(affected, g, l)
  <2> SUFFICES ASSUME NEW f, NEW g, NEW l \in Layers, \A j \in 1 .. l - 1 : f[j] = g[j]
               PROVE  KeptRow(affected, f, l) = KeptRow(affected, g, l)
    OBVIOUS
  <2>1. [j \in 1 .. l - 1 |-> f[j]] = [j \in 1 .. l - 1 |-> g[j]]
    OBVIOUS
  <2> QED
    BY <2>1 DEF KeptRow
<1>3. 0 \notin Missing
  <2>1. [l \in 1 .. 0 |-> 0] \in [1 .. 0 -> Nat] /\ Consistent([l \in 1 .. 0 |-> 0], 0)
    OBVIOUS
  <2> QED
    BY <2>1
<1>4. \A m \in 1 .. N : m - 1 \notin Missing => m \notin Missing
  <2> SUFFICES ASSUME NEW m \in 1 .. N, m - 1 \notin Missing PROVE m \notin Missing
    OBVIOUS
  <2>1. PICK f \in [1 .. m - 1 -> Nat] : Consistent(f, m - 1)
    OBVIOUS
  <2> DEFINE g == [l \in 1 .. m |-> IF l < m THEN f[l] ELSE KeptRow(affected, f, m)]
  <2>2. m \in Layers /\ \A l \in 1 .. m : l \in Layers
    BY DEF Layers
  <2>3. g \in [1 .. m -> Nat]
    BY <1>1, <2>1, <2>2
  <2>4. \A l \in 1 .. m : KeptRow(affected, g, l) = KeptRow(affected, f, l)
    <3>1. \A l \in 1 .. m : \A j \in 1 .. l - 1 : g[j] = f[j]
      OBVIOUS
    <3> HIDE DEF g
    <3> QED
      BY <1>2, <2>2, <3>1
  <2>5. Consistent(g, m)
    BY <2>1, <2>4
  <2> HIDE DEF g
  <2> QED
    BY <2>3, <2>5
<1> HIDE DEF Missing
<1>5. Missing = {}
  <2> SUFFICES ASSUME Missing # {} PROVE FALSE
    OBVIOUS
  <2>1. Missing \subseteq 0 .. N
    BY DEF Missing
  <2>2. PICK m \in Missing : \A k \in Missing : m <= k
    BY <2>1, LeastNatural
  <2> QED
    BY <1>3, <1>4, <2>1, <2>2
<1>6. PICK f \in [1 .. N -> Nat] : Consistent(f, N)
  BY <1>5 DEF Missing
<1>7. f = [l \in Layers |-> KeptRow(affected, f, l)]
  BY <1>6 DEF Layers
<1> QED
  BY <1>6, <1>7 DEF Layers

\* What Projected computes: each layer's row, by what is kept before it.
LEMMA ProjectedRows ==
    ASSUME NEW affected, \A l \in Layers : receipt[l] # None => receipt[l].attempt \in Nat
    PROVE  /\ Projected(affected) \in [Layers -> Nat]
           /\ \A l \in Layers : Projected(affected)[l] = KeptRow(affected, Projected(affected), l)
<1> DEFINE kept[l \in Layers] ==
             IF /\ l \notin affected /\ receipt[l] # None
                /\ receipt[l].prefix = [j \in 1 .. l - 1 |-> kept[j]]
             THEN receipt[l].attempt ELSE 0
<1>1. Projected(affected) = kept
  BY DEF Projected
<1>2. kept = CHOOSE f : f = [l \in Layers |-> KeptRow(affected, f, l)]
  BY DEF KeptRow
<1> HIDE DEF kept
<1>3. kept = [l \in Layers |-> KeptRow(affected, kept, l)]
  BY <1>2, KeptExists
<1>4. \A l \in Layers : KeptRow(affected, kept, l) \in Nat
  BY DEF KeptRow
<1>5. kept \in [Layers -> Nat]
  BY <1>3, <1>4
<1>6. \A l \in Layers : kept[l] = KeptRow(affected, kept, l)
  BY <1>3
<1> QED
  BY <1>1, <1>5, <1>6


-----------------------------------------------------------------------------
(* What every step does to the records of a layer.                         *)

\* The records of l stay; or its claim or its receipt goes; or the builder's
\* captured rows become a claim under the next number; or the claim ends in a
\* receipt on the same rows.
RecordsMove(l) ==
    \/ receipt'[l] = receipt[l] /\ claim'[l] = claim[l] /\ attempts'[l] = attempts[l]
    \/ /\ claim'[l] = None /\ (receipt'[l] = receipt[l] \/ receipt'[l] = None)
       /\ attempts'[l] = attempts[l]
    \/ /\ claim'[l] # None /\ receipt'[l] = receipt[l] /\ builder # None
       /\ attempts'[l] = attempts[l] + 1
       /\ claim'[l].attempt = attempts'[l] /\ claim'[l].prefix = builder.rows
    \/ /\ claim[l] # None /\ claim'[l] = None /\ receipt'[l] # None
       /\ attempts'[l] = attempts[l] /\ builder # None
       /\ receipt'[l].attempt = attempts[l] /\ receipt'[l].prefix = builder.rows

\* The builder's rows stay, or start again, or take in one more layer that is
\* published when no record changes.
RowsMove ==
    \/ builder' = None
    \/ builder'.rows = <<>> /\ builder'.layer \in Layers
    \/ /\ builder # None /\ builder'.layer = builder.layer
       /\ builder'.rows = builder.rows
    \/ /\ builder # None /\ builder'.layer = builder.layer
       /\ UNCHANGED <<claim, receipt, attempts>>
       /\ Len(builder.rows) + 1 < builder.layer
       /\ Published(Len(builder.rows) + 1)
       /\ builder'.rows = Append(builder.rows, Row(Len(builder.rows) + 1))

\* A coherent prefix of earlier layers stays coherent: the number of a receipt
\* that is gone never comes back.
LEMMA CoherentStays ==
    ASSUME IInv, TypeOK', \A l \in Layers : RecordsMove(l),
           NEW p \in Seq(Nat), Len(p) < N, Coherent(p, attempts, claim, receipt)
    PROVE  Coherent(p, attempts', claim', receipt')
<1> USE LayerCount
<1>1. \A j \in 1 .. Len(p) : j \in Layers /\ p[j] \in Nat
  BY DEF Layers
<1>2. \A j \in Layers : attempts[j] \in Nat /\ attempts'[j] \in Nat
  BY DEF IInv, TypeOK
<1>3. ASSUME NEW j \in 1 .. Len(p)
      PROVE  /\ 0 < p[j] /\ p[j] <= attempts'[j]
             /\ claim'[j] # None => p[j] < attempts'[j]
             /\ p[j] = RowIn(receipt', j) =>
                   receipt'[j] = receipt[j] /\ p[j] = RowIn(receipt, j)
  <2>1. j \in Layers /\ p[j] \in Nat /\ attempts[j] \in Nat /\ attempts'[j] \in Nat
    BY <1>1, <1>2
  <2>2. /\ 0 < p[j] /\ p[j] <= attempts[j]
        /\ claim[j] # None => p[j] < attempts[j]
    BY DEF Coherent
  <2>3. RecordsMove(j)
    BY <2>1
  <2> QED
    BY <2>1, <2>2, <2>3 DEF RecordsMove, RowIn
<1>4. ASSUME NEW j \in 1 .. Len(p), NEW i \in 1 .. j - 1,
             p[j] = RowIn(receipt', j), p[i] = RowIn(receipt', i)
      PROVE  receipt'[j].prefix[i] = p[i]
  <2>1. i \in 1 .. Len(p)
    OBVIOUS
  <2>2. /\ receipt'[j] = receipt[j]
        /\ p[j] = RowIn(receipt, j) /\ p[i] = RowIn(receipt, i)
    BY <1>3, <1>4, <2>1
  <2> QED
    BY <2>2 DEF Coherent
<1> QED
  BY <1>3, <1>4 DEF Coherent

\* The rows of a published layer continue any coherent prefix up to it.
LEMMA CaptureCoherent ==
    ASSUME IInv, NEW p \in Seq(Nat), Coherent(p, attempts, claim, receipt),
           Len(p) + 1 \in Layers, Published(Len(p) + 1)
    PROVE  Coherent(Append(p, Row(Len(p) + 1)), attempts, claim, receipt)
<1> DEFINE k == Len(p) + 1
           q == Append(p, Row(k))
<1> USE LayerCount
<1>1. \A j \in 1 .. k : j \in Layers
  BY DEF Layers
<1>2. /\ receipt[k] # None /\ receipt[k].prefix = Rows(k)
      /\ Row(k) \in Nat /\ 0 < Row(k) /\ Row(k) <= attempts[k]
      /\ claim[k] = None
  <2>1. k \in Nat /\ k \in 1 .. k /\ k \in Layers
    BY DEF Layers
  <2>2. receipt[k] # None /\ receipt[k].prefix = Rows(k)
    BY <2>1 DEF Published
  <2>3. receipt[k] \in Receipts /\ claim[k] = None
    BY <2>1, <2>2 DEF IInv, TypeOK
  <2>4. 0 < receipt[k].attempt /\ receipt[k].attempt <= attempts[k]
    BY <2>1, <2>2 DEF IInv, Numbered
  <2> QED
    BY <2>2, <2>3, <2>4 DEF Row, Receipts
<1>3. q \in Seq(Nat) /\ Len(q) = k /\ q[k] = Row(k) /\ \A j \in 1 .. Len(p) : q[j] = p[j]
  BY <1>2, AppendProperties
<1>4. \A j \in 1 .. k : RowIn(receipt, j) = Row(j)
  BY DEF Row, RowIn
<1>5. \A i \in 1 .. k - 1 : receipt[k].prefix[i] = Row(i)
  BY <1>2 DEF Rows
<1> HIDE DEF q, k
<1>6. \A j \in 1 .. k : j = k \/ j \in 1 .. Len(p)
  BY DEF k
<1>7. ASSUME NEW j \in 1 .. k
      PROVE  0 < q[j] /\ q[j] <= attempts[j] /\ (claim[j] # None => q[j] < attempts[j])
  BY <1>2, <1>3, <1>6 DEF Coherent
<1>8. ASSUME NEW j \in 1 .. k, NEW i \in 1 .. j - 1,
             q[j] = RowIn(receipt, j), q[i] = RowIn(receipt, i)
      PROVE  receipt[j].prefix[i] = q[i]
  <2>1. CASE j = k
    <3>1. i \in 1 .. k - 1 /\ i \in 1 .. k
      BY <2>1, <1>1
    <3> QED
      BY <1>4, <1>5, <1>8, <2>1, <3>1
  <2>2. CASE j \in 1 .. Len(p)
    <3>1. i \in 1 .. Len(p)
      BY <2>2
    <3> QED
      BY <1>3, <1>8, <2>2, <3>1 DEF Coherent
  <2> QED
    BY <1>6, <2>1, <2>2
<1> QED
  BY <1>3, <1>7, <1>8 DEF Coherent, q, k


\* The records' moves and the builder's keep the prefixes coherent.
LEMMA MovesKeep ==
    ASSUME IInv, TypeOK', \A l \in Layers : RecordsMove(l), RowsMove PROVE IInv'
<1> USE LayerCount
<1>1. Numbered'
  <2> SUFFICES ASSUME NEW l \in Layers
               PROVE  /\ claim'[l] # None => /\ 0 < attempts'[l]
                                             /\ claim'[l].attempt = attempts'[l]
                      /\ receipt'[l] # None => /\ 0 < receipt'[l].attempt
                                               /\ receipt'[l].attempt <= attempts'[l]
    BY DEF Numbered
  <2>1. RecordsMove(l) /\ attempts[l] \in Nat /\ attempts'[l] \in Nat
    BY DEF IInv, TypeOK
  <2>2. /\ claim[l] # None => /\ 0 < attempts[l] /\ claim[l].attempt = attempts[l]
                              /\ receipt[l] = None
        /\ receipt[l] # None => /\ receipt[l].attempt \in Nat
                                /\ 0 < receipt[l].attempt /\ receipt[l].attempt <= attempts[l]
    BY DEF IInv, TypeOK, Numbered, Receipts
  <2> QED
    BY <2>1, <2>2 DEF RecordsMove
<1>2. \A p \in Seq(Nat) : Len(p) < N /\ Coherent(p, attempts, claim, receipt)
                             => Coherent(p, attempts', claim', receipt')
  BY CoherentStays
<1>3. ASSUME builder # None
      PROVE  /\ builder.rows \in Seq(Nat) /\ Len(builder.rows) < builder.layer
             /\ builder.layer \in Layers
             /\ Len(builder.rows) < N /\ Len(builder.rows) \in Nat
             /\ Coherent(builder.rows, attempts, claim, receipt)
  <2>1. builder \in Builders
    BY <1>3 DEF IInv, TypeOK
  <2>2. builder.rows \in Seq(Nat) /\ Len(builder.rows) \in Nat /\ builder.layer \in Layers
    BY <2>1, LenProperties DEF Builders
  <2>3. Len(builder.rows) < builder.layer /\ Coherent(builder.rows, attempts, claim, receipt)
    BY <1>3 DEF IInv, PrefixesCoherent
  <2> QED
    BY <2>2, <2>3 DEF Layers
<1>4. ASSUME NEW l \in Layers, claim'[l] # None
      PROVE  Coherent(claim'[l].prefix, attempts', claim', receipt')
  <2>1. claim'[l] = claim[l] \/ (builder # None /\ claim'[l].prefix = builder.rows)
    BY <1>4 DEF RecordsMove
  <2>2. claim[l] # None => /\ claim[l].prefix \in Seq(Nat) /\ Len(claim[l].prefix) < N
                           /\ Coherent(claim[l].prefix, attempts, claim, receipt)
    <3>1. claim[l] # None => /\ claim[l] \in Claims /\ Len(claim[l].prefix) = l - 1
      BY DEF IInv, TypeOK
    <3>2. l - 1 < N
      BY DEF Layers
    <3> QED
      BY <3>1, <3>2 DEF IInv, Claims, PrefixesCoherent
  <2> QED
    BY <1>2, <1>3, <1>4, <2>1, <2>2
<1>5. ASSUME NEW l \in Layers, receipt'[l] # None
      PROVE  Coherent(receipt'[l].prefix, attempts', claim', receipt')
  <2>1. receipt'[l] = receipt[l] \/ (builder # None /\ receipt'[l].prefix = builder.rows)
    BY <1>5 DEF RecordsMove
  <2>2. receipt[l] # None => /\ receipt[l].prefix \in Seq(Nat) /\ Len(receipt[l].prefix) < N
                             /\ Coherent(receipt[l].prefix, attempts, claim, receipt)
    <3>1. receipt[l] # None => /\ receipt[l] \in Receipts /\ Len(receipt[l].prefix) = l - 1
      BY DEF IInv, TypeOK
    <3>2. l - 1 < N
      BY DEF Layers
    <3> QED
      BY <3>1, <3>2 DEF IInv, Receipts, PrefixesCoherent
  <2> QED
    BY <1>2, <1>3, <1>5, <2>1, <2>2
<1>6. ASSUME builder' # None
      PROVE  /\ Len(builder'.rows) < builder'.layer
             /\ Coherent(builder'.rows, attempts', claim', receipt')
  <2>1. CASE builder'.rows = <<>> /\ builder'.layer \in Layers
    BY <2>1 DEF Coherent, Layers
  <2>2. CASE builder # None /\ builder'.layer = builder.layer /\ builder'.rows = builder.rows
    BY <1>2, <1>3, <2>2
  <2>3. CASE /\ builder # None /\ builder'.layer = builder.layer
             /\ UNCHANGED <<claim, receipt, attempts>>
             /\ Len(builder.rows) + 1 < builder.layer
             /\ Published(Len(builder.rows) + 1)
             /\ builder'.rows = Append(builder.rows, Row(Len(builder.rows) + 1))
    <3>1. Len(builder.rows) + 1 \in Layers
      BY <1>3, <2>3 DEF Layers
    <3>2. Coherent(builder'.rows, attempts, claim, receipt)
      BY <1>3, <2>3, <3>1, CaptureCoherent
    <3>3. receipt[Len(builder.rows) + 1] # None
      BY <1>3, <2>3, <3>1 DEF Published
    <3>4. Row(Len(builder.rows) + 1) \in Nat
      BY <3>1, <3>3 DEF Row, IInv, TypeOK, Receipts
    <3>5. Len(builder'.rows) = Len(builder.rows) + 1
      BY <1>3, <2>3, <3>4, AppendProperties
    <3> QED
      BY <1>3, <2>3, <3>2, <3>5
  <2> QED
    BY <1>6, <2>1, <2>2, <2>3 DEF RowsMove
<1> QED
  BY <1>1, <1>4, <1>5, <1>6 DEF IInv, PrefixesCoherent


-----------------------------------------------------------------------------
(* The steps of the builder.                                               *)

Moves == TypeOK' /\ (\A l \in Layers : RecordsMove(l)) /\ RowsMove

\* What the builder holds when it is at some step.
LEMMA BuilderHolds ==
    ASSUME IInv, builder # None
    PROVE  /\ builder \in Builders /\ builder.layer \in Layers /\ builder.at \in Steps
           /\ builder.rows \in Seq(Nat) /\ Len(builder.rows) \in Nat
           /\ Len(builder.rows) < builder.layer /\ builder.attempt \in Nat
           /\ builder.token \in Nat /\ builder.prior \in Seq(Nat)
<1>1. builder \in Builders
  BY DEF IInv, TypeOK
<1>2. builder.rows \in Seq(Nat)
  BY <1>1 DEF Builders
<1>3. Len(builder.rows) \in Nat
  BY <1>2, LenProperties
<1> QED
  BY <1>1, <1>2, <1>3 DEF Builders, IInv, PrefixesCoherent

\* The rows before a layer are a sequence of numbers.
LEMMA RowsTyped ==
    ASSUME IInv, NEW l \in Nat, l - 1 <= N, 1 <= l
    PROVE  Rows(l) \in Seq(Nat) /\ Len(Rows(l)) = l - 1
<1>1. \A j \in 1 .. l - 1 : j \in Layers
  BY LayerCount DEF Layers
<1>2. \A j \in 1 .. l - 1 : Row(j) \in Nat
  BY <1>1 DEF Row, IInv, TypeOK, Receipts
<1>3. Rows(l) \in [1 .. l - 1 -> Nat]
  BY <1>2 DEF Rows
<1> QED
  BY <1>3

\* A builder that starts has captured nothing.
LEMMA StartMoves ==
    ASSUME IInv, NEW l \in Layers, NEW kept \in 0 .. l - 1, Start(l, kept) PROVE Moves
<1>1. Rows(kept + 1) \in Seq(Nat)
  BY LayerCount, RowsTyped DEF Layers
<1>2. Row(l) \in Nat /\ token \in Nat
  BY DEF Row, IInv, TypeOK, Receipts
<1>3. <<>> \in Seq(Nat)
  OBVIOUS
<1>4. /\ builder' \in Builders
      /\ builder'.rows = <<>> /\ builder'.layer = l
  BY <1>1, <1>2, <1>3 DEF Start, Builders, Steps
<1>5. UNCHANGED <<token, accepted, claim, receipt, attempts, adopted, outcome, ledger, faults>>
  BY DEF Start
<1>6. TypeOK'
  BY <1>4, <1>5 DEF IInv, TypeOK
<1>7. RowsMove
  BY <1>4 DEF RowsMove
<1> QED
  BY <1>5, <1>6, <1>7 DEF Moves, RecordsMove

\* Replays, the unit loop and the projections touch no claim and no receipt.
LEMMA QuietMoves ==
    ASSUME IInv, Replay \/ AcceptUnits \/ PublishOutcome \/ PublishLedger \/ Crash PROVE Moves
<1>1. builder # None
  BY DEF Replay, AcceptUnits, PublishOutcome, PublishLedger, Crash, At
<1> USE <1>1, BuilderHolds
<1>2. \A step \in Steps : [builder EXCEPT !.at = step] \in Builders
  BY DEF Builders
<1>3. \A step \in Steps : Goto(step) => /\ builder' \in Builders /\ builder'.rows = builder.rows
                                        /\ builder'.layer = builder.layer
  BY <1>2 DEF Goto, Builders
<1>4. UNCHANGED <<token, claim, receipt, attempts, adopted>>
  BY DEF Replay, AcceptUnits, PublishOutcome, PublishLedger, Crash
<1>5. Stop \/ \E step \in Steps : Goto(step)
  BY DEF Replay, AcceptUnits, PublishOutcome, PublishLedger, Crash, Steps
<1>6. builder' \in Builders \cup {None} /\ RowsMove
  BY <1>3, <1>5 DEF Stop, RowsMove
<1>7. accepted' \in [Layers -> BOOLEAN] /\ \A l \in Layers : accepted[l] => accepted'[l]
  BY DEF Replay, AcceptUnits, PublishOutcome, PublishLedger, Crash, IInv, TypeOK
<1>8. outcome' \in [Layers -> Nat] /\ ledger' \in [Layers -> Nat] /\ faults' \in 0 .. MaxFaults
  <2>1. outcome \in [Layers -> Nat] /\ ledger \in [Layers -> Nat] /\ faults \in 0 .. MaxFaults
    BY DEF IInv, TypeOK
  <2>2. CASE Replay \/ AcceptUnits
    BY <2>1, <2>2 DEF Replay, AcceptUnits
  <2>3. CASE PublishOutcome
    BY <2>1, <2>3 DEF PublishOutcome
  <2>4. CASE PublishLedger
    BY <2>1, <2>4 DEF PublishLedger
  <2>5. CASE Crash
    BY <2>1, <2>5, FaultBound DEF Crash, Fault
  <2> QED
    BY <2>2, <2>3, <2>4, <2>5
<1>9. TypeOK'
  BY <1>4, <1>6, <1>7, <1>8 DEF IInv, TypeOK
<1> QED
  BY <1>4, <1>6, <1>9 DEF Moves, RecordsMove

\* A captured row is the row of a layer that is published when it is read.
LEMMA CaptureMoves == ASSUME IInv, Capture PROVE Moves
<1>1. builder # None /\ Len(builder.rows) # builder.layer - 1
  BY DEF Capture, At, Captured
<1> USE <1>1, BuilderHolds
<1> DEFINE j == Len(builder.rows) + 1
<1>2. UNCHANGED <<token, accepted, claim, receipt, attempts, adopted, outcome, ledger, faults>>
  BY DEF Capture
<1>3. j \in Layers /\ j < builder.layer
  <2>1. \A n \in Nat : \A m \in Layers : n < m /\ n # m - 1 => n + 1 \in Layers /\ n + 1 < m
    BY LayerCount DEF Layers
  <2> QED
    BY <2>1
<1>4. CASE Published(j) /\ builder' = [builder EXCEPT !.rows = Append(@, Row(j))]
  <2>1. Row(j) \in Nat
    BY <1>3 DEF Row, IInv, TypeOK, Receipts
  <2>2. Append(builder.rows, Row(j)) \in Seq(Nat)
    BY <2>1, AppendProperties
  <2>3. /\ builder' \in Builders /\ builder'.layer = builder.layer
        /\ builder'.rows = Append(builder.rows, Row(j))
    BY <1>4, <2>2 DEF Builders
  <2>4. TypeOK'
    BY <1>2, <2>3 DEF IInv, TypeOK
  <2>5. RowsMove
    BY <1>2, <1>3, <1>4, <2>3 DEF RowsMove
  <2> QED
    BY <1>2, <2>4, <2>5 DEF Moves, RecordsMove
<1>5. CASE Stop
  BY <1>2, <1>5 DEF Stop, IInv, TypeOK, Moves, RecordsMove, RowsMove
<1> QED
  BY <1>4, <1>5 DEF Capture


\* A claim takes the next number and the rows that were captured.
LEMMA ClaimMoves == ASSUME IInv, ClaimLayerFinalization PROVE Moves
<1>1. builder # None /\ Len(builder.rows) = builder.layer - 1
  BY DEF ClaimLayerFinalization, At, Captured
<1> USE <1>1, BuilderHolds
<1> DEFINE l == builder.layer
           attempt == attempts[l] + 1
           claimed == [attempt |-> attempt, prefix |-> builder.rows, token |-> token]
<1>2. UNCHANGED <<token, accepted, receipt, adopted, outcome, ledger, faults>>
  BY DEF ClaimLayerFinalization
<1>3. CASE /\ accepted[l] /\ receipt[l] = None
           /\ claim' = [claim EXCEPT ![l] = claimed]
           /\ attempts' = [attempts EXCEPT ![l] = attempt]
           /\ builder' = [builder EXCEPT !.at = "recapture", !.rows = <<>>, !.attempt = attempt]
  <2>1. attempt \in Nat /\ token \in Nat
    BY DEF IInv, TypeOK
  <2>2. claimed \in Claims /\ claimed.attempt = attempt /\ claimed.prefix = builder.rows
        /\ claimed.token = token
    BY <2>1 DEF Claims
  <2>3. builder' \in Builders /\ builder'.rows = <<>> /\ builder'.layer = l
    <3> DEFINE moved == [builder EXCEPT !.at = "recapture"]
               emptied == [moved EXCEPT !.rows = <<>>]
    <3>1. builder' = [emptied EXCEPT !.attempt = attempt]
      BY <1>3
    <3>2. moved \in Builders /\ moved.layer = l
      BY DEF Builders, Steps
    <3> HIDE DEF moved
    <3>3. emptied \in Builders /\ emptied.layer = l /\ emptied.rows = <<>>
      <4>1. <<>> \in Seq(Nat)
        OBVIOUS
      <4> QED
        BY <3>2, <4>1 DEF Builders
    <3> HIDE DEF emptied
    <3> QED
      BY <2>1, <3>1, <3>3 DEF Builders
  <2>4. claimed # None
    BY <2>2, NoneIsNoRecord
  <2>5. /\ claim'[l] = claimed /\ attempts'[l] = attempt
        /\ \A m \in Layers \ {l} : claim'[m] = claim[m] /\ attempts'[m] = attempts[m]
    BY <1>3 DEF IInv, TypeOK
  <2> HIDE DEF claimed
  <2>6. claim' \in [Layers -> Claims \cup {None}] /\ attempts' \in [Layers -> Nat]
    BY <1>3, <2>1, <2>2 DEF IInv, TypeOK
  <2>7. TypeOK'
    BY <1>2, <1>3, <2>2, <2>3, <2>5, <2>6 DEF IInv, TypeOK
  <2>8. \A m \in Layers : RecordsMove(m)
    BY <1>2, <2>2, <2>4, <2>5 DEF RecordsMove
  <2>9. RowsMove
    BY <2>3 DEF RowsMove
  <2> QED
    BY <2>7, <2>8, <2>9 DEF Moves
<1>4. CASE Stop /\ UNCHANGED <<claim, attempts>>
  BY <1>2, <1>4 DEF Stop, IInv, TypeOK, Moves, RecordsMove, RowsMove
<1> QED
  BY <1>3, <1>4 DEF ClaimLayerFinalization

\* A commit ends the claim in a receipt with its number and its rows.
LEMMA CompleteMoves == ASSUME IInv, CompleteLayerFinalization PROVE Moves
<1>1. builder # None /\ Len(builder.rows) = builder.layer - 1
  BY DEF CompleteLayerFinalization, At, Captured
<1> USE <1>1, BuilderHolds
<1> DEFINE l == builder.layer
<1>2. UNCHANGED <<token, accepted, attempts, adopted, outcome, ledger>>
  BY DEF CompleteLayerFinalization
<1>3. ASSUME NEW status \in {"passed", "failed"},
             accepted[l], claim[l] # None, claim[l].attempt = builder.attempt,
             faults' \in 0 .. MaxFaults,
             receipt' = [receipt EXCEPT ![l] =
                [attempt |-> builder.attempt, prefix |-> builder.rows,
                 token |-> token, status |-> status]],
             claim' = [claim EXCEPT ![l] = None],
             Goto("outcome")
      PROVE  Moves
  <2> DEFINE committed == [attempt |-> builder.attempt, prefix |-> builder.rows,
                           token |-> token, status |-> status]
  <2>1. token \in Nat /\ builder.attempt = attempts[l]
    BY <1>3 DEF IInv, TypeOK, Numbered
  <2>2. /\ committed \in Receipts
        /\ committed.attempt = attempts[l] /\ committed.prefix = builder.rows
    BY <2>1 DEF Receipts
  <2>3. committed # None
    BY <2>2, NoneIsNoRecord
  <2>4. builder' \in Builders /\ builder'.rows = builder.rows /\ builder'.layer = l
    BY <1>3 DEF Goto, Builders, Steps
  <2>5. /\ receipt'[l] = committed /\ claim'[l] = None
        /\ \A m \in Layers \ {l} : claim'[m] = claim[m] /\ receipt'[m] = receipt[m]
    BY <1>3 DEF IInv, TypeOK
  <2> HIDE DEF committed
  <2>6. /\ claim' \in [Layers -> Claims \cup {None}]
        /\ receipt' \in [Layers -> Receipts \cup {None}]
    BY <1>3, <2>2 DEF IInv, TypeOK, committed
  <2>7. TypeOK'
    BY <1>2, <1>3, <2>2, <2>4, <2>5, <2>6 DEF IInv, TypeOK
  <2>8. \A m \in Layers : RecordsMove(m)
    BY <1>2, <1>3, <2>2, <2>3, <2>5 DEF RecordsMove
  <2>9. RowsMove
    BY <2>4 DEF RowsMove
  <2> QED
    BY <2>7, <2>8, <2>9 DEF Moves
<1>4. CASE Stop /\ UNCHANGED <<claim, receipt, faults>>
  BY <1>2, <1>4 DEF Stop, IInv, TypeOK, Moves, RecordsMove, RowsMove
<1>5. Fault \/ UNCHANGED faults => faults' \in 0 .. MaxFaults
  BY FaultBound DEF Fault, IInv, TypeOK
<1> QED
  BY <1>3, <1>4, <1>5 DEF CompleteLayerFinalization


-----------------------------------------------------------------------------
(* The steps of operators and publishers.                                  *)

\* An invalidation takes the claim and the receipt of one layer.
LEMMA InvalidateMoves ==
    ASSUME IInv, NEW l \in Layers, Invalidate(l) \/ InvalidateStuck(l) PROVE Moves
<1>1. InvalidateLayer(l)
  BY DEF Invalidate, InvalidateStuck
<1>2. faults' \in 0 .. MaxFaults
  BY FaultBound DEF Invalidate, InvalidateStuck, Fault, IInv, TypeOK
<1>3. /\ accepted' \in [Layers -> BOOLEAN]
      /\ \A m \in Layers \ {l} : /\ claim'[m] = claim[m] /\ receipt'[m] = receipt[m]
                                 /\ accepted[m] => accepted'[m]
      /\ claim'[l] = None /\ receipt'[l] = None
  BY <1>1 DEF InvalidateLayer, ArchiveLayerFinalization, IInv, TypeOK
<1>4. /\ claim' \in [Layers -> Claims \cup {None}]
      /\ receipt' \in [Layers -> Receipts \cup {None}]
  BY <1>1 DEF InvalidateLayer, ArchiveLayerFinalization, IInv, TypeOK
<1>5. TypeOK'
  BY <1>1, <1>2, <1>3, <1>4 DEF InvalidateLayer, IInv, TypeOK
<1>6. \A m \in Layers : RecordsMove(m)
  BY <1>1, <1>3 DEF InvalidateLayer, RecordsMove
<1>7. RowsMove
  BY <1>1 DEF InvalidateLayer, RowsMove
<1> QED
  BY <1>5, <1>6, <1>7 DEF Moves

\* A release takes the claim of one layer.
LEMMA ReleaseMoves ==
    ASSUME IInv, NEW l \in Layers, ReleaseLayerFinalization(l) PROVE Moves
<1>1. /\ claim'[l] = None
      /\ \A m \in Layers \ {l} : claim'[m] = claim[m]
      /\ claim' \in [Layers -> Claims \cup {None}]
  BY DEF ReleaseLayerFinalization, IInv, TypeOK
<1>2. UNCHANGED <<token, accepted, receipt, attempts, adopted, outcome, ledger, builder, faults>>
  BY DEF ReleaseLayerFinalization
<1>3. TypeOK'
  BY <1>1, <1>2 DEF IInv, TypeOK
<1>4. \A m \in Layers : RecordsMove(m)
  BY <1>1, <1>2 DEF RecordsMove
<1>5. RowsMove
  BY <1>2 DEF RowsMove
<1> QED
  BY <1>3, <1>4, <1>5 DEF Moves

\* What a publication leaves: the receipts it keeps are as they were, of layers
\* that were not affected and stay accepted, and it adopts exactly those.
LEMMA PublicationKeeps ==
    ASSUME IInv, NEW changed \in SUBSET Layers, NEW rebuilt \in SUBSET changed,
           PublishAuthority(changed, rebuilt)
    PROVE  /\ adopted' \in [Layers -> Nat]
           /\ \A l \in Layers :
                 /\ receipt'[l] = receipt[l] \/ receipt'[l] = None
                 /\ adopted'[l] = RowIn(receipt', l)
                 /\ receipt'[l] # None => /\ accepted'[l]
                                          /\ receipt'[l].prefix = [j \in 1 .. l - 1 |-> adopted'[j]]
<1> DEFINE affected == Affected(changed)
           kept == Projected(affected)
<1>1. \A l \in Layers : receipt[l] # None => /\ receipt[l].attempt \in Nat
                                             /\ 0 < receipt[l].attempt /\ accepted[l]
  BY DEF IInv, TypeOK, Receipts, Numbered
<1>2. /\ kept \in [Layers -> Nat]
      /\ \A l \in Layers : kept[l] = KeptRow(affected, kept, l)
  BY <1>1, ProjectedRows
<1>3. changed \subseteq affected
  BY DEF Affected
<1>4. /\ adopted' = kept
      /\ receipt' = [l \in Layers |-> IF kept[l] = 0 THEN None ELSE receipt[l]]
      /\ accepted' = [l \in Layers |-> accepted[l] /\ l \notin (affected \ changed) \cup rebuilt]
  BY DEF PublishAuthority
<1> HIDE DEF kept, affected
<1>5. ASSUME NEW l \in Layers
      PROVE  /\ receipt'[l] = receipt[l] \/ receipt'[l] = None
             /\ adopted'[l] = RowIn(receipt', l)
             /\ receipt'[l] # None => /\ accepted'[l]
                                      /\ receipt'[l].prefix = [j \in 1 .. l - 1 |-> adopted'[j]]
  <2>1. CASE kept[l] = 0
    BY <1>4, <2>1 DEF RowIn
  <2>2. CASE kept[l] # 0
    <3>1. /\ l \notin affected /\ receipt[l] # None /\ kept[l] = receipt[l].attempt
          /\ receipt[l].prefix = [j \in 1 .. l - 1 |-> kept[j]]
      BY <1>2, <2>2 DEF KeptRow
    <3>2. receipt'[l] = receipt[l]
      BY <1>4, <2>2
    <3>3. accepted'[l]
      BY <1>1, <1>3, <1>4, <3>1
    <3> QED
      BY <1>4, <3>1, <3>2, <3>3 DEF RowIn
  <2> QED
    BY <2>1, <2>2
<1> QED
  BY <1>2, <1>4, <1>5

\* A publication takes claims and receipts, and gives no number.
LEMMA PublishMoves ==
    ASSUME IInv, NEW changed \in SUBSET Layers, NEW rebuilt \in SUBSET changed,
           PublishAuthority(changed, rebuilt)
    PROVE  Moves
<1>1. /\ token' = token + 1 /\ claim' = [l \in Layers |-> None]
      /\ UNCHANGED <<attempts, outcome, ledger, builder>>
  BY DEF PublishAuthority
<1>2. faults' \in 0 .. MaxFaults
  BY FaultBound DEF PublishAuthority, Fault, IInv, TypeOK
<1>3. accepted' \in [Layers -> BOOLEAN] /\ receipt' = [l \in Layers |-> receipt'[l]]
  <2>1. accepted' \in [Layers -> BOOLEAN]
    BY DEF PublishAuthority, IInv, TypeOK
  <2>2. receipt' = [l \in Layers |-> IF Projected(Affected(changed))[l] = 0
                                     THEN None ELSE receipt[l]]
    BY DEF PublishAuthority
  <2>3. receipt' = [l \in Layers |-> receipt'[l]]
    BY <2>2
  <2> QED
    BY <2>1, <2>3
<1>4. receipt' \in [Layers -> Receipts \cup {None}]
  <2>1. \A l \in Layers : receipt'[l] \in Receipts \cup {None}
    BY PublicationKeeps DEF IInv, TypeOK
  <2> QED
    BY <1>3, <2>1
<1>5. TypeOK'
  <2>1. \A l \in Layers : /\ claim'[l] = None
                          /\ receipt'[l] # None => accepted'[l] /\ Len(receipt'[l].prefix) = l - 1
    BY <1>1, PublicationKeeps DEF IInv, TypeOK
  <2>2. claim' \in [Layers -> Claims \cup {None}] /\ token' \in Nat
    BY <1>1 DEF IInv, TypeOK
  <2>3. adopted' \in [Layers -> Nat]
    BY PublicationKeeps
  <2> QED
    BY <1>1, <1>2, <1>3, <1>4, <2>1, <2>2, <2>3 DEF IInv, TypeOK
<1>6. \A l \in Layers : RecordsMove(l)
  BY <1>1, PublicationKeeps DEF RecordsMove
<1>7. RowsMove
  BY <1>1 DEF RowsMove
<1> QED
  BY <1>5, <1>6, <1>7 DEF Moves


-----------------------------------------------------------------------------
(* The theorems.                                                           *)

\* No layer has a record yet.
LEMMA InitIInv == Init => IInv
BY LayerCount, FaultBound
DEF Init, IInv, TypeOK, Numbered, PrefixesCoherent

\* Every step moves the records in one of the ways that keep them coherent.
LEMMA NextIInv == IInv /\ [Next]_vars => IInv'
<1> SUFFICES ASSUME IInv, [Next]_vars PROVE IInv'
  OBVIOUS
<1>1. CASE BuilderStep \/ Crash
  BY <1>1, QuietMoves, CaptureMoves, ClaimMoves, CompleteMoves, MovesKeep DEF BuilderStep, Moves
<1>2. CASE \E l \in Layers : Enter(l) \/ EnterForced(l)
  <2>1. PICK l \in Layers : Enter(l) \/ EnterForced(l)
    BY <1>2
  <2>2. \E kept \in 0 .. l - 1 : Start(l, kept)
    BY <2>1, LayerCount DEF Enter, EnterForced, Layers
  <2> QED
    BY <2>2, StartMoves, MovesKeep DEF Moves
<1>3. CASE \E l \in Layers :
              Invalidate(l) \/ InvalidateStuck(l) \/ ReleaseLayerFinalization(l)
  BY <1>3, InvalidateMoves, ReleaseMoves, MovesKeep DEF Moves
<1>4. CASE \E changed \in SUBSET Layers : \E rebuilt \in SUBSET changed :
              PublishAuthority(changed, rebuilt)
  BY <1>4, PublishMoves, MovesKeep DEF Moves
<1>5. CASE UNCHANGED vars
  BY <1>5 DEF vars, IInv, TypeOK, Numbered, PrefixesCoherent
<1> QED
  BY <1>1, <1>2, <1>3, <1>4, <1>5 DEF Next

\* Whatever is captured, claimed or committed is coherent, in every reachable
\* state.
LEMMA Invariance == Spec => []IInv
BY InitIInv, NextIInv, PTL DEF Spec

\* A claim only ever stands on accepted units and a free receipt, under the
\* token that selected it, and a receipt on one row for each earlier layer.
THEOREM TypeCorrect == Spec => []TypeOK
<1>1. IInv => TypeOK
  BY DEF IInv
<1> QED
  BY <1>1, Invariance, PTL

\* A coherent prefix whose rows are all current is the prefix of each of them.
LEMMA CurrentRowsStand ==
    ASSUME IInv, NEW l \in Layers, NEW p \in Seq(Nat), p = Rows(l),
           Coherent(p, attempts, claim, receipt), NEW j \in 1 .. l - 1
    PROVE  receipt[j].prefix = SubSeq(p, 1, j - 1)
<1> USE LayerCount
<1>1. Len(p) = l - 1 /\ \A i \in 1 .. l - 1 : i \in Layers /\ p[i] = RowIn(receipt, i)
  BY RowsTyped DEF Rows, Row, RowIn, Layers
<1>2. receipt[j] # None
  BY <1>1 DEF Coherent, RowIn
<1>3. receipt[j].prefix \in Seq(Nat) /\ Len(receipt[j].prefix) = j - 1
  BY <1>1, <1>2 DEF IInv, TypeOK, Receipts
<1>4. \A i \in 1 .. j - 1 : receipt[j].prefix[i] = p[i]
  <2>1. \A i \in 1 .. j - 1 : i \in 1 .. l - 1
    BY DEF Layers
  <2> QED
    BY <1>1, <2>1 DEF Coherent
<1>5. /\ SubSeq(p, 1, j - 1) \in Seq(Nat) /\ Len(SubSeq(p, 1, j - 1)) = j - 1
      /\ \A i \in 1 .. j - 1 : SubSeq(p, 1, j - 1)[i] = p[i]
  <2>1. \A i \in 1 .. j - 1 : p[i] \in Nat
    BY <1>1 DEF Layers
  <2>2. j - 1 \in Int /\ 1 \in Int /\ j \in Nat /\ 1 <= j
    BY DEF Layers
  <2>3. /\ SubSeq(p, 1, j - 1) \in Seq(Nat)
        /\ Len(SubSeq(p, 1, j - 1)) = IF 1 <= j - 1 THEN (j - 1) - 1 + 1 ELSE 0
        /\ \A i \in 1 .. (j - 1) - 1 + 1 : SubSeq(p, 1, j - 1)[i] = p[1 + i - 1]
    BY <2>1, <2>2, SubSeqProperties
  <2> QED
    BY <2>2, <2>3
<1>6. \A i \in 1 .. j - 1 : receipt[j].prefix[i] = SubSeq(p, 1, j - 1)[i]
  BY <1>4, <1>5
<1> HIDE DEF RowIn
<1> QED
  BY <1>3, <1>5, <1>6, SeqEqual

\* Comparing a layer's rows with the current receipts is as good as verifying
\* the whole chain, for any number of layers, deaths, invalidations and
\* publications.
THEOREM RowsStand == Spec => []RowsStandOnEachOther
<1>1. ASSUME IInv PROVE RowsStandOnEachOther
  <2>1. \A l \in Layers :
           /\ receipt[l] # None => receipt[l].prefix \in Seq(Nat)
           /\ claim[l] # None => claim[l].prefix \in Seq(Nat)
    BY <1>1 DEF IInv, TypeOK, Receipts, Claims
  <2> QED
    BY <1>1, <2>1, CurrentRowsStand DEF RowsStandOnEachOther, IInv, PrefixesCoherent
<1>2. IInv => RowsStandOnEachOther
  BY <1>1
<1> QED
  BY <1>2, Invariance, PTL

\* Whatever layers a publication changes and whatever depends on them, none of
\* the receipts it carries over would refuse the next publication.
THEOREM TransitionsCompare == Spec => TransitionLeavesComparable
<1>1. ASSUME IInv, NEW changed \in SUBSET Layers, NEW rebuilt \in SUBSET changed,
             PublishAuthority(changed, rebuilt)
      PROVE  Comparable'
  <2>1. \A l \in Layers :
           /\ receipt'[l] = receipt[l] \/ receipt'[l] = None
           /\ adopted'[l] = RowIn(receipt', l)
           /\ receipt'[l] # None => /\ accepted'[l]
                                    /\ receipt'[l].prefix = [j \in 1 .. l - 1 |-> adopted'[j]]
    BY <1>1, PublicationKeeps
  <2>2. \A l \in Layers : Row(l)' = adopted'[l]
    BY <2>1 DEF Row, RowIn
  <2>3. ASSUME NEW l \in Layers, receipt'[l] # None
        PROVE  receipt'[l].prefix = Rows(l)' /\ Authorized(l)' /\ accepted'[l]
    <3>1. \A j \in 1 .. l - 1 : j \in Layers
      BY LayerCount DEF Layers
    <3>2. [j \in 1 .. l - 1 |-> adopted'[j]] = [j \in 1 .. l - 1 |-> Row(j)']
      BY <2>2, <3>1
    <3>3. adopted'[l] = receipt'[l].attempt
      BY <2>1, <2>3 DEF RowIn
    <3> QED
      BY <2>1, <2>3, <3>2, <3>3 DEF Rows, Authorized
  <2> QED
    BY <2>3 DEF Comparable
<1>2. IInv /\ [Next]_vars => [token' # token => Comparable']_vars
  <2> SUFFICES ASSUME IInv, Next, token' # token PROVE Comparable'
    BY DEF vars
  <2>1. ~(BuilderStep \/ Crash)
    BY DEF BuilderStep, Replay, AcceptUnits, Capture, ClaimLayerFinalization,
       CompleteLayerFinalization, PublishOutcome, PublishLedger, Crash
  <2>2. \A l \in Layers : ~(Enter(l) \/ EnterForced(l))
    BY DEF Enter, EnterForced, Start
  <2>3. \A l \in Layers : ~(Invalidate(l) \/ InvalidateStuck(l) \/ ReleaseLayerFinalization(l))
    BY DEF Invalidate, InvalidateStuck, InvalidateLayer, ReleaseLayerFinalization
  <2> QED
    BY <1>1, <2>1, <2>2, <2>3 DEF Next
<1> QED
  BY <1>2, Invariance, PTL DEF Spec, TransitionLeavesComparable

===============================================================================
