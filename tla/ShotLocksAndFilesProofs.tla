-------------------- MODULE ShotLocksAndFilesProofs --------------------
(***************************************************************************)
(* Proofs about the two protocols that every writer of a shot goes         *)
(* through: the locks (ShotLocks) and the compare-and-swap publication of  *)
(* a file (PreparedPublication).                                           *)
(*                                                                         *)
(* Locks.  Every lock has a rank, and an operation is a course: from what  *)
(* the thread holds, each step acquires a lock of a greater rank, or again *)
(* one that it holds, or gives the latest back.  A thread of a reachable   *)
(* state is somewhere on such a course, so every wait goes up in the order *)
(* of ranks and no waits form a circle; a thread takes the record lock     *)
(* under the shot mutex only, so that a sibling's exit drops nobody's.     *)
(*                                                                         *)
(* Files.  A writer past its last comparison has staged all that the file  *)
(* holds, because it holds the publication lock and every generation of    *)
(* the file is a new inode.                                                *)
(***************************************************************************)
EXTENDS ShotLocks, PreparedPublication, WellFoundedInduction, TLAPS

------------------------------------------------------------------------------
(* The order of the locks, and the courses of an operation.                *)

\* The locks taken before the selection.
Before == {Named("fence"), Named("output"), Named("candidate")}
\* The locks under which only descriptors are opened.
Innermost == {Ledger, Named("resolutions"), Named("payments")}
\* The state locks.
States == {State(l) : l \in Layers}
Locks == Before \cup {Mutex, Record} \cup States \cup Innermost \cup {Barrier}

\* The place of a lock in the order in which threads take them.
Rank(k) ==
    CASE k \in Before    -> 0
      [] k = Mutex       -> 1
      [] k = Record      -> 2
      [] k \in States    -> 2 + k[2]
      [] k \in Innermost -> LayerCount + 3
      [] k = Barrier     -> LayerCount + 4

\* The acquisitions, and what a thread can hold.
Enters == [does : {"enter"}, lock : Locks, shared : BOOLEAN, waits : BOOLEAN]
Stacks == Seq(Enters)

\* The lock k is among s; every lock of s comes before rank r.
InStack(s, k) == \E i \in DOMAIN s : s[i].lock = k
Below(s, r) == \A i \in DOMAIN s : Rank(s[i].lock) < r

\* A thread that holds s may go for the lock of step k.
Legal(s, k) ==
    /\ Below(s, Rank(Barrier))
    /\ \/ Below(s, Rank(k.lock))
       \/ k.lock \in States \cup {Record} /\ InStack(s, k.lock)
    /\ k.lock = Record => InStack(s, Mutex)

\* f[i] is what a thread holds after i steps of p.
Course(s, p, e, f) ==
    /\ f[0] = s
    /\ f[Len(p)] = e
    /\ \A i \in 1 .. Len(p) :
          \/ p[i] \in Enters /\ Legal(f[i - 1], p[i]) /\ f[i] = Append(f[i - 1], p[i])
          \/ p[i] = Leave /\ f[i - 1] # <<>> /\ f[i] = Front(f[i - 1])

\* The steps p take a thread that holds s, by legal acquisitions, to hold e.
Runs(s, p, e) ==
    /\ p \in Seq(Enters \cup {Leave})
    /\ \E f \in [0 .. Len(p) -> Stacks] : Course(s, p, e, f)

\* The ranks, lock by lock.
LEMMA RankIs ==
    /\ \A k \in Before : Rank(k) = 0
    /\ Rank(Mutex) = 1
    /\ Rank(Record) = 2
    /\ \A l \in Layers : Rank(State(l)) = 2 + l
    /\ \A k \in Innermost : Rank(k) = LayerCount + 3
    /\ Rank(Barrier) = LayerCount + 4
BY LayerCountIsNatural
DEF Rank, Before, Innermost, States, Mutex, Record, Barrier, Ledger, Named, State, Layers

\* Ranks are bounded, and the barrier is last.
LEMMA RankBounds ==
    \A k \in Locks : /\ Rank(k) \in 0 .. LayerCount + 4
                     /\ k # Barrier => Rank(k) < Rank(Barrier)
BY RankIs, LayerCountIsNatural DEF Locks, Layers, States

\* An operation without steps.
LEMMA RunsNothing == ASSUME NEW s \in Stacks PROVE Runs(s, <<>>, s)
<1>1. [i \in 0 .. 0 |-> s] \in [0 .. Len(<<>>) -> Stacks]
  OBVIOUS
<1>2. Course(s, <<>>, s, [i \in 0 .. 0 |-> s])
  BY DEF Course
<1> QED
  BY <1>1, <1>2 DEF Runs

\* One operation after another.
LEMMA RunsThen ==
    ASSUME NEW s, NEW m, NEW e, NEW p, NEW q, Runs(s, p, m), Runs(m, q, e)
    PROVE  Runs(s, p \o q, e)
<1>1. PICK f \in [0 .. Len(p) -> Stacks] : Course(s, p, m, f)
  BY DEF Runs
<1>2. PICK g \in [0 .. Len(q) -> Stacks] : Course(m, q, e, g)
  BY DEF Runs
<1>3. p \in Seq(Enters \cup {Leave}) /\ q \in Seq(Enters \cup {Leave})
  BY DEF Runs
<1>4. Len(p) \in Nat /\ Len(q) \in Nat /\ Len(p \o q) = Len(p) + Len(q)
      /\ p \o q \in Seq(Enters \cup {Leave})
  BY <1>3
<1> DEFINE h == [i \in 0 .. Len(p \o q) |-> IF i <= Len(p) THEN f[i] ELSE g[i - Len(p)]]
<1>5. h \in [0 .. Len(p \o q) -> Stacks]
  BY <1>4
<1>6. h[0] = s /\ h[Len(p \o q)] = e
  <2>1. f[0] = s /\ f[Len(p)] = m /\ g[0] = m /\ g[Len(q)] = e
    BY <1>1, <1>2 DEF Course
  <2>2. h[0] = f[0]
    BY <1>4
  <2>3. h[Len(p \o q)] = IF Len(q) = 0 THEN f[Len(p)] ELSE g[Len(q)]
    <3>1. CASE Len(q) = 0
      BY <1>4, <3>1
    <3>2. CASE Len(q) # 0
      BY <1>4, <3>2
    <3> QED
      BY <3>1, <3>2
  <2> QED
    BY <2>1, <2>2, <2>3
<1>7. \A i \in 1 .. Len(p) : h[i - 1] = f[i - 1] /\ h[i] = f[i] /\ (p \o q)[i] = p[i]
  BY <1>3, <1>4
<1>8. \A i \in Len(p) + 1 .. Len(p \o q) :
         /\ i - Len(p) \in 1 .. Len(q)
         /\ h[i - 1] = g[(i - Len(p)) - 1]
         /\ h[i] = g[i - Len(p)]
         /\ (p \o q)[i] = q[i - Len(p)]
  <2>1. f[Len(p)] = g[0]
    BY <1>1, <1>2 DEF Course
  <2> SUFFICES ASSUME NEW i \in Len(p) + 1 .. Len(p \o q)
               PROVE  /\ i - Len(p) \in 1 .. Len(q)
                      /\ h[i - 1] = g[(i - Len(p)) - 1]
                      /\ h[i] = g[i - Len(p)]
                      /\ (p \o q)[i] = q[i - Len(p)]
    OBVIOUS
  <2>2. i - Len(p) \in 1 .. Len(q) /\ h[i] = g[i - Len(p)]
    BY <1>4
  <2>3. h[i - 1] = g[(i - Len(p)) - 1]
    <3>1. CASE i = Len(p) + 1
      BY <1>4, <2>1, <3>1
    <3>2. CASE i > Len(p) + 1
      BY <1>4, <3>2
    <3> QED
      BY <1>4, <3>1, <3>2
  <2>4. (p \o q)[i] = q[i - Len(p)]
    BY <1>3, <1>4
  <2> QED
    BY <2>2, <2>3, <2>4
<1>9. \A i \in 1 .. Len(p \o q) : i \in 1 .. Len(p) \/ i \in Len(p) + 1 .. Len(p \o q)
  BY <1>4
<1> HIDE DEF h
<1>10. \A i \in 1 .. Len(p \o q) :
          \/ /\ (p \o q)[i] \in Enters
             /\ Legal(h[i - 1], (p \o q)[i])
             /\ h[i] = Append(h[i - 1], (p \o q)[i])
          \/ (p \o q)[i] = Leave /\ h[i - 1] # <<>> /\ h[i] = Front(h[i - 1])
  <2>1. ASSUME NEW i \in 1 .. Len(p)
        PROVE  \/ /\ (p \o q)[i] \in Enters
                  /\ Legal(h[i - 1], (p \o q)[i])
                  /\ h[i] = Append(h[i - 1], (p \o q)[i])
               \/ (p \o q)[i] = Leave /\ h[i - 1] # <<>> /\ h[i] = Front(h[i - 1])
    BY <1>1, <1>7 DEF Course
  <2>2. ASSUME NEW i \in Len(p) + 1 .. Len(p \o q)
        PROVE  \/ /\ (p \o q)[i] \in Enters
                  /\ Legal(h[i - 1], (p \o q)[i])
                  /\ h[i] = Append(h[i - 1], (p \o q)[i])
               \/ (p \o q)[i] = Leave /\ h[i - 1] # <<>> /\ h[i] = Front(h[i - 1])
    BY <1>2, <1>8 DEF Course
  <2> QED
    BY <1>9, <2>1, <2>2
<1>11. Course(s, p \o q, e, h)
  BY <1>6, <1>10 DEF Course
<1> QED
  BY <1>4, <1>5, <1>11 DEF Runs

\* The steps of an operation that remain after the first one.
LEMMA RunsRest ==
    ASSUME NEW s, NEW e, NEW p, Runs(s, p, e), p # <<>>
    PROVE  /\ p = <<Head(p)>> \o Tail(p)
           /\ Head(p) \in Enters => Legal(s, Head(p)) /\ Runs(Append(s, Head(p)), Tail(p), e)
           /\ Head(p) \notin Enters => Head(p) = Leave /\ s # <<>> /\ Runs(Front(s), Tail(p), e)
<1>1. PICK f \in [0 .. Len(p) -> Stacks] : Course(s, p, e, f)
  BY DEF Runs
<1>2. /\ p \in Seq(Enters \cup {Leave}) /\ Len(p) \in Nat \ {0}
      /\ Tail(p) \in Seq(Enters \cup {Leave}) /\ Len(Tail(p)) = Len(p) - 1
      /\ Head(p) = p[1]
      /\ \A i \in 1 .. Len(Tail(p)) : Tail(p)[i] = p[i + 1]
      /\ p = <<Head(p)>> \o Tail(p)
  BY DEF Runs
<1> DEFINE g == [i \in 0 .. Len(Tail(p)) |-> f[i + 1]]
<1>3. g \in [0 .. Len(Tail(p)) -> Stacks]
  BY <1>2
<1>4. Course(f[1], Tail(p), e, g)
  <2>1. g[0] = f[1] /\ g[Len(Tail(p))] = f[Len(p)]
    BY <1>2
  <2>2. \A i \in 1 .. Len(Tail(p)) :
           i + 1 \in 1 .. Len(p) /\ g[i - 1] = f[(i + 1) - 1] /\ g[i] = f[i + 1]
    BY <1>2
  <2> HIDE DEF g
  <2> QED
    BY <1>1, <1>2, <2>1, <2>2 DEF Course
<1>5. Runs(f[1], Tail(p), e)
  BY <1>2, <1>3, <1>4 DEF Runs
<1>6. 1 \in 1 .. Len(p) /\ f[1 - 1] = s
  BY <1>1, <1>2 DEF Course
<1>7. \/ Head(p) \in Enters /\ Legal(s, Head(p)) /\ f[1] = Append(s, Head(p))
      \/ Head(p) = Leave /\ s # <<>> /\ f[1] = Front(s)
  BY <1>1, <1>2, <1>6 DEF Course
<1>8. Leave \notin Enters
  BY DEF Leave, Enters
<1> QED
  BY <1>2, <1>5, <1>7, <1>8

\* A sequence of acquisitions, each legal after the ones before it.
LEMMA RunsTakes ==
    ASSUME NEW s \in Stacks, NEW locks \in Stacks,
           \A i \in 1 .. Len(locks) : Legal(s \o SubSeq(locks, 1, i - 1), locks[i])
    PROVE  Runs(s, locks, s \o locks)
<1> DEFINE f == [i \in 0 .. Len(locks) |-> s \o SubSeq(locks, 1, i)]
<1> USE DEF Stacks
<1>1. \A i \in 0 .. Len(locks) : SubSeq(locks, 1, i) \in Seq(Enters)
  OBVIOUS
<1>2. f \in [0 .. Len(locks) -> Stacks]
  BY <1>1
<1>3. SubSeq(locks, 1, 0) = <<>> /\ SubSeq(locks, 1, Len(locks)) = locks
      /\ s \o <<>> = s
  OBVIOUS
<1>4. \A i \in 1 .. Len(locks) : SubSeq(locks, 1, i) = Append(SubSeq(locks, 1, i - 1), locks[i])
  OBVIOUS
<1>5. \A i \in 1 .. Len(locks) : f[i] = Append(f[i - 1], locks[i])
  <2> SUFFICES ASSUME NEW i \in 1 .. Len(locks) PROVE f[i] = Append(f[i - 1], locks[i])
    OBVIOUS
  <2>1. i \in 0 .. Len(locks) /\ i - 1 \in 0 .. Len(locks) /\ locks[i] \in Enters
    OBVIOUS
  <2>2. SubSeq(locks, 1, i - 1) \in Seq(Enters)
    BY <1>1, <2>1
  <2>3. s \o Append(SubSeq(locks, 1, i - 1), locks[i]) = Append(s \o SubSeq(locks, 1, i - 1), locks[i])
    BY <2>1, <2>2
  <2> QED
    BY <1>4, <2>1, <2>3
<1>6. Course(s, locks, s \o locks, f)
  <2>1. f[0] = s /\ f[Len(locks)] = s \o locks
    BY <1>3
  <2>2. \A i \in 1 .. Len(locks) : locks[i] \in Enters /\ Legal(f[i - 1], locks[i])
    OBVIOUS
  <2> HIDE DEF f
  <2> QED
    BY <1>5, <2>1, <2>2 DEF Course
<1>7. locks \in Seq(Enters \cup {Leave})
  OBVIOUS
<1> QED
  BY <1>2, <1>6, <1>7 DEF Runs

\* What is below the latest acquisition.
LEMMA FrontOf ==
    ASSUME NEW s \in Stacks, s # <<>>
    PROVE  /\ Front(s) \in Stacks
           /\ Len(Front(s)) = Len(s) - 1
           /\ \A i \in 1 .. Len(s) - 1 : Front(s)[i] = s[i]
<1>1. s \in Seq(Enters) /\ Len(s) \in Nat \ {0}
  BY DEF Stacks
<1>2. Front(s) = SubSeq(s, 1, Len(s) - 1)
  BY DEF Front
<1>3. \A i \in 1 .. Len(s) - 1 : s[i] \in Enters
  BY <1>1
<1>4. SubSeq(s, 1, Len(s) - 1) \in Seq(Enters)
  BY <1>1, <1>3
<1>5. Len(SubSeq(s, 1, Len(s) - 1)) = Len(s) - 1
  <2> DEFINE n == Len(s) - 1
  <2>1. n \in Nat /\ s \in Seq(Enters) /\ n <= Len(s)
    BY <1>1
  <2> HIDE DEF n
  <2>2. Len(SubSeq(s, 1, n)) = n
    BY <2>1
  <2> QED
    BY <2>2 DEF n
<1>6. \A i \in 1 .. Len(s) - 1 : SubSeq(s, 1, Len(s) - 1)[i] = s[i]
  BY <1>1
<1> QED
  BY <1>2, <1>4, <1>5, <1>6 DEF Stacks

\* Leaving gives back the latest acquisitions.
LEMMA RunsLeaves ==
    ASSUME NEW s \in Stacks, NEW locks \in Stacks
    PROVE  Runs(s \o locks, Leaves(Len(locks)), s)
<1> DEFINE w == s \o locks
           f == [i \in 0 .. Len(locks) |-> SubSeq(w, 1, Len(w) - i)]
<1> USE DEF Stacks
<1>1. /\ w \in Seq(Enters) /\ Len(w) = Len(s) + Len(locks)
      /\ Len(s) \in Nat /\ Len(locks) \in Nat
      /\ \A i \in 1 .. Len(s) : w[i] = s[i]
  OBVIOUS
<1> HIDE DEF w
<1>2. f \in [0 .. Len(locks) -> Stacks]
  BY <1>1
<1>3. f[0] = w /\ f[Len(locks)] = s
  <2>1. SubSeq(w, 1, Len(w)) = w
    BY <1>1
  <2>2. SubSeq(w, 1, Len(s)) = s
    BY <1>1
  <2> QED
    BY <1>1, <2>1, <2>2
<1>4. \A i \in 1 .. Len(locks) : f[i - 1] # <<>> /\ f[i] = Front(f[i - 1])
  <2> SUFFICES ASSUME NEW i \in 1 .. Len(locks)
               PROVE  f[i - 1] # <<>> /\ f[i] = Front(f[i - 1])
    OBVIOUS
  <2>1. f[i - 1] = SubSeq(w, 1, Len(w) - (i - 1)) /\ f[i] = SubSeq(w, 1, Len(w) - i)
    BY <1>1
  <2>2. Len(f[i - 1]) = Len(w) - (i - 1) /\ Len(w) - (i - 1) > 0
    BY <1>1, <2>1
  <2> DEFINE t == f[i - 1]
  <2>4. t \in Stacks
    <3>1. i - 1 \in 0 .. Len(locks)
      BY <1>1
    <3> HIDE DEF f
    <3> QED
      BY <1>2, <3>1
  <2>3. t # <<>>
    <3>1. Len(t) > 0
      BY <1>1, <2>2
    <3> HIDE DEF t
    <3> QED
      BY <3>1
  <2>5. Front(f[i - 1]) = f[i]
    BY <1>1, <2>1, <2>2, <2>3, <2>4 DEF Front
  <2> QED
    BY <2>3, <2>5
<1>5. Leaves(Len(locks)) \in Seq(Enters \cup {Leave}) /\ Len(Leaves(Len(locks))) = Len(locks)
      /\ \A i \in 1 .. Len(locks) : Leaves(Len(locks))[i] = Leave
  BY <1>1 DEF Leaves
<1>6. Course(w, Leaves(Len(locks)), s, f)
  <2> HIDE DEF f
  <2> QED
    BY <1>3, <1>4, <1>5 DEF Course
<1> QED
  BY <1>2, <1>5, <1>6 DEF Runs, w

\* A block that gives back what it took.
LEMMA RunsWithin ==
    ASSUME NEW s \in Stacks, NEW locks \in Stacks, NEW body,
           \A i \in 1 .. Len(locks) : Legal(s \o SubSeq(locks, 1, i - 1), locks[i]),
           Runs(s \o locks, body, s \o locks)
    PROVE  Runs(s, Within(locks, body), s)
<1>1. Runs(s, locks, s \o locks)
  BY RunsTakes
<1>2. Runs(s, locks \o body, s \o locks)
  BY <1>1, RunsThen
<1> QED
  BY <1>2, RunsThen, RunsLeaves DEF Within

-----------------------------------------------------------------------------
(* Every operation is legal from the start.                                *)

\* A stack below r, with the selection if sel.
Fits(s, r, sel) == Below(s, r) /\ (sel => InStack(s, Mutex) /\ InStack(s, Record))

\* The steps p may be taken with any locks below r held, and with the selection
\* if sel, and give back what they take.
Safe(p, r, sel) == \A s \in Stacks : Fits(s, r, sel) => Runs(s, p, s)

\* What one more acquisition changes.
LEMMA Pushed ==
    ASSUME NEW s \in Stacks, NEW k \in Enters
    PROVE  /\ Append(s, k) \in Stacks
           /\ Len(Append(s, k)) = Len(s) + 1
           /\ Append(s, k)[Len(s) + 1] = k
           /\ \A i \in 1 .. Len(s) : Append(s, k)[i] = s[i]
           /\ \A x : InStack(Append(s, k), x) <=> InStack(s, x) \/ k.lock = x
           /\ \A r : Below(Append(s, k), r) <=> Below(s, r) /\ Rank(k.lock) < r
<1> USE DEF Stacks
<1>1. Append(s, k) \in Stacks /\ Len(Append(s, k)) = Len(s) + 1
  OBVIOUS
<1>2. Append(s, k)[Len(s) + 1] = k
  OBVIOUS
<1>3. \A i \in 1 .. Len(s) : Append(s, k)[i] = s[i]
  OBVIOUS
<1>4. DOMAIN s = 1 .. Len(s) /\ DOMAIN Append(s, k) = 1 .. Len(s) + 1 /\ Len(s) \in Nat
  OBVIOUS
<1>5. \A i : i \in 1 .. Len(s) + 1 <=> i \in 1 .. Len(s) \/ i = Len(s) + 1
  BY <1>4
<1>6. \A x : InStack(Append(s, k), x) <=> InStack(s, x) \/ k.lock = x
  BY <1>2, <1>3, <1>4, <1>5 DEF InStack
<1>7. \A r : Below(Append(s, k), r) <=> Below(s, r) /\ Rank(k.lock) < r
  BY <1>2, <1>3, <1>4, <1>5 DEF Below
<1> QED
  BY <1>1, <1>2, <1>3, <1>6, <1>7

\* A greater bound.
LEMMA BelowMore ==
    ASSUME NEW s \in Stacks, NEW r \in Nat, NEW q \in Nat, r <= q, Below(s, r)
    PROVE  Below(s, q)
<1>1. \A i \in DOMAIN s : Rank(s[i].lock) \in Nat
  <2> SUFFICES ASSUME NEW i \in DOMAIN s PROVE Rank(s[i].lock) \in Nat
    OBVIOUS
  <2>1. s[i] \in Enters
    BY DEF Stacks
  <2>2. s[i].lock \in Locks
    BY <2>1 DEF Enters
  <2> QED
    BY <2>2, RankBounds, LayerCountIsNatural
<1> QED
  BY <1>1 DEF Below

\* Acquisitions of a lock of the shot.
LEMMA StepsAreEnters ==
    /\ \A k \in Locks : Take(k) \in Enters /\ Take(k).lock = k
    /\ \A k \in Locks : Share(k) \in Enters /\ Share(k).lock = k
    /\ \A k \in Locks : Try(k) \in Enters /\ Try(k).lock = k
    /\ \A k \in Locks : TryShare(k) \in Enters /\ TryShare(k).lock = k
    /\ {Mutex, Record, Barrier, Ledger} \subseteq Locks
    /\ \A l \in Layers : State(l) \in Locks
    /\ \A n \in {"fence", "output", "candidate", "resolutions", "payments"} : Named(n) \in Locks
BY DEF Take, Share, Try, TryShare, Enters, Locks, Before, Innermost, States

\* An empty body.
LEMMA SafeNothing == \A r, sel : Safe(<<>>, r, sel)
BY RunsNothing DEF Safe

\* One body after another.
LEMMA SafeThen ==
    ASSUME NEW p, NEW q, NEW r, NEW sel, Safe(p, r, sel), Safe(q, r, sel)
    PROVE  Safe(p \o q, r, sel)
BY RunsThen DEF Safe

\* A body that may run under more locks may run under fewer.
LEMMA SafeLess ==
    ASSUME NEW p, NEW r \in Nat, NEW q \in Nat, q <= r, NEW sel, Safe(p, r, sel)
    PROVE  Safe(p, q, sel)
BY BelowMore DEF Safe, Fits

\* A body that needs no selection.
LEMMA SafeSelected == \A p, r, sel : Safe(p, r, FALSE) => Safe(p, r, sel)
BY DEF Safe, Fits

\* A block under one lock.
LEMMA RunsWithinOne ==
    ASSUME NEW s \in Stacks, NEW k \in Enters, NEW body, Legal(s, k),
           Runs(Append(s, k), body, Append(s, k))
    PROVE  Runs(s, Within(<<k>>, body), s)
<1>1. <<k>> \in Stacks /\ Len(<<k>>) = 1 /\ <<k>>[1] = k
  BY DEF Stacks
<1>2. s \o <<k>> = Append(s, k)
  BY DEF Stacks
<1>3. SubSeq(<<k>>, 1, 0) = <<>> /\ s \o <<>> = s
  BY DEF Stacks
<1>4. \A i \in 1 .. Len(<<k>>) : Legal(s \o SubSeq(<<k>>, 1, i - 1), <<k>>[i])
  <2> SUFFICES ASSUME NEW i \in 1 .. Len(<<k>>)
               PROVE  Legal(s \o SubSeq(<<k>>, 1, i - 1), <<k>>[i])
    OBVIOUS
  <2>1. i = 1 /\ i - 1 = 0
    BY <1>1
  <2> QED
    BY <1>1, <1>3, <2>1
<1> QED
  BY <1>1, <1>2, <1>4, RunsWithin

\* A lock above everything that is held.
LEMMA SafeWithin ==
    ASSUME NEW k \in Enters, NEW body, NEW r \in Nat, NEW sel,
           k.lock # Record, Rank(k.lock) < r, Safe(body, r, sel)
    PROVE  Safe(Within(<<k>>, body), Rank(k.lock), sel)
<1> SUFFICES ASSUME NEW s \in Stacks, Fits(s, Rank(k.lock), sel)
             PROVE  Runs(s, Within(<<k>>, body), s)
  BY DEF Safe
<1>1. k.lock \in Locks
  BY DEF Enters
<1>2. Rank(k.lock) \in Nat /\ Rank(Barrier) \in Nat /\ Rank(k.lock) <= Rank(Barrier)
  BY <1>1, RankIs, RankBounds, LayerCountIsNatural
<1>3. Below(s, Rank(Barrier)) /\ Below(s, r) /\ Below(s, Rank(k.lock))
  BY <1>2, BelowMore DEF Fits
<1>4. Legal(s, k)
  BY <1>3 DEF Legal
<1>5. Fits(Append(s, k), r, sel) /\ Append(s, k) \in Stacks
  BY <1>3, Pushed DEF Fits
<1>6. Runs(Append(s, k), body, Append(s, k))
  BY <1>5 DEF Safe
<1> QED
  BY <1>4, <1>6, RunsWithinOne

\* Descriptors may be opened under any lock but the barrier.
LEMMA SafeOpenDescriptors == Safe(OpenDescriptors, Rank(Barrier), FALSE)
<1>1. Take(Barrier) \in Enters /\ Take(Barrier).lock = Barrier
  BY StepsAreEnters
<1>2. Rank(Barrier) + 1 \in Nat /\ Rank(Barrier) < Rank(Barrier) + 1 /\ Barrier # Record
  BY RankIs, LayerCountIsNatural DEF Barrier, Record, Named
<1> QED
  BY <1>1, <1>2, SafeNothing, SafeWithin DEF OpenDescriptors

\* The ledger lock is taken under the locks before it.
LEMMA SafeLedgerBy ==
    ASSUME NEW k \in Enters, k.lock = Ledger, NEW sel
    PROVE  Safe(LedgerBy(k), Rank(Ledger), sel)
<1>1. /\ Rank(Ledger) \in Nat /\ Rank(Barrier) \in Nat /\ Rank(Ledger) < Rank(Barrier)
      /\ Rank(Ledger) <= Rank(Barrier) /\ k.lock # Record
  BY RankIs, LayerCountIsNatural DEF Innermost, Ledger, Record, Named
<1>2. Safe(<<>>, Rank(Barrier), FALSE)
  BY SafeNothing
<1>3. Safe(Within(<<k>>, <<>>), Rank(k.lock), FALSE)
  BY <1>1, <1>2, SafeWithin
<1>4. Safe(OpenDescriptors, Rank(Ledger), FALSE)
  BY <1>1, SafeOpenDescriptors, SafeLess
<1>5. Safe(LedgerBy(k), Rank(Ledger), FALSE)
  BY <1>3, <1>4, SafeThen DEF LedgerBy
<1> QED
  BY <1>5, SafeSelected

\* The selection is taken below every lock but the first ones.
LEMMA SafeSelection ==
    ASSUME NEW body, Safe(body, 3, TRUE)
    PROVE  Safe(Selection(body), 1, FALSE)
<1> SUFFICES ASSUME NEW s \in Stacks, Fits(s, 1, FALSE) PROVE Runs(s, Selection(body), s)
  BY DEF Safe
<1>1. /\ Take(Mutex) \in Enters /\ Take(Mutex).lock = Mutex
      /\ Take(Record) \in Enters /\ Take(Record).lock = Record
  BY StepsAreEnters
<1>2. /\ Rank(Mutex) = 1 /\ Rank(Record) = 2 /\ Rank(Barrier) = LayerCount + 4
      /\ LayerCount \in Nat /\ Mutex # Record
  BY RankIs, LayerCountIsNatural DEF Mutex, Record, Named
<1> DEFINE t == Append(s, Take(Mutex))
           u == Append(t, Take(Record))
<1>3. /\ t \in Stacks /\ Below(s, 1) /\ Below(s, 2) /\ Below(s, Rank(Barrier))
      /\ Below(t, 2) /\ InStack(t, Mutex)
  BY <1>1, <1>2, Pushed, BelowMore DEF Fits
<1> HIDE DEF t
<1>4. /\ u \in Stacks /\ Below(t, 3) /\ Below(t, Rank(Barrier))
      /\ Below(u, 3) /\ InStack(u, Mutex) /\ InStack(u, Record)
  BY <1>1, <1>2, <1>3, Pushed, BelowMore
<1> HIDE DEF u
<1>5. Legal(s, Take(Mutex)) /\ Legal(t, Take(Record))
  BY <1>1, <1>2, <1>3, <1>4 DEF Legal
<1>6. Runs(u, body, u)
  BY <1>4 DEF Safe, Fits
<1>7. Runs(t, Within(<<Take(Record)>>, body), t)
  BY <1>1, <1>3, <1>5, <1>6, RunsWithinOne DEF u
<1>8. Runs(t, OpenDescriptors, t)
  BY <1>3, <1>4, SafeOpenDescriptors DEF Safe, Fits
<1>9. Runs(t, OpenDescriptors \o Within(<<Take(Record)>>, body), t)
  BY <1>7, <1>8, RunsThen
<1> QED
  BY <1>1, <1>5, <1>9, RunsWithinOne DEF Selection, t

\* The selection is entered again only by its holder.
LEMMA SafeSelectionAgain ==
    ASSUME NEW body, NEW r \in Nat, 2 < r, r <= Rank(Barrier), Safe(body, r, TRUE)
    PROVE  Safe(SelectionAgain(body), r, TRUE)
<1> SUFFICES ASSUME NEW s \in Stacks, Fits(s, r, TRUE) PROVE Runs(s, SelectionAgain(body), s)
  BY DEF Safe
<1>1. Take(Record) \in Enters /\ Take(Record).lock = Record
  BY StepsAreEnters
<1>2. Rank(Record) = 2 /\ Rank(Barrier) \in Nat
  BY RankIs, LayerCountIsNatural
<1>3. Below(s, Rank(Barrier)) /\ InStack(s, Mutex) /\ InStack(s, Record)
  BY <1>2, BelowMore DEF Fits
<1>4. Legal(s, Take(Record))
  BY <1>1, <1>3 DEF Legal
<1>5. Append(s, Take(Record)) \in Stacks /\ Fits(Append(s, Take(Record)), r, TRUE)
  BY <1>1, <1>2, <1>3, Pushed DEF Fits
<1> QED
  BY <1>1, <1>4, <1>5, RunsWithinOne DEF SelectionAgain, Safe

\* The states in order, below the ledger.
LEMMA SafeAllStates ==
    ASSUME NEW body, NEW sel, Safe(body, Rank(Ledger), sel)
    PROVE  Safe(AllStates(body), 3, sel)
<1> SUFFICES ASSUME NEW s \in Stacks, Fits(s, 3, sel) PROVE Runs(s, AllStates(body), s)
  BY DEF Safe
<1> DEFINE states == [l \in Layers |-> Take(State(l))]
<1> USE LayerCountIsNatural
<1>1. \A l \in Layers : /\ Take(State(l)) \in Enters /\ Take(State(l)).lock = State(l)
                        /\ Rank(State(l)) = 2 + l
                        /\ State(l) # Record
  BY StepsAreEnters, RankIs DEF State, Record, Named
<1>2. states \in Stacks /\ Len(states) = LayerCount /\ Layers = 1 .. LayerCount
  BY <1>1 DEF Layers, Stacks
<1>3. \A l \in Layers : states[l] = Take(State(l))
  OBVIOUS
<1> HIDE DEF states
<1>4. ASSUME NEW i \in 0 .. LayerCount
      PROVE  /\ s \o SubSeq(states, 1, i) \in Stacks
             /\ Len(s \o SubSeq(states, 1, i)) = Len(s) + i
             /\ \A j \in 1 .. Len(s) : (s \o SubSeq(states, 1, i))[j] = s[j]
             /\ \A j \in Len(s) + 1 .. Len(s) + i :
                   /\ j - Len(s) \in Layers /\ j - Len(s) <= i
                   /\ (s \o SubSeq(states, 1, i))[j] = states[j - Len(s)]
             /\ DOMAIN (s \o SubSeq(states, 1, i)) = 1 .. Len(s) + i
             /\ Len(s) \in Nat /\ DOMAIN s = 1 .. Len(s)
  <2> DEFINE q == SubSeq(states, 1, i)
  <2>1. q \in Seq(Enters)
    BY <1>2 DEF Stacks
  <2>2. Len(q) = i
    BY <1>2 DEF Stacks
  <2>3. \A j \in 1 .. i : q[j] = states[j]
    BY <1>2 DEF Stacks
  <2> HIDE DEF q
  <2>4. s \in Seq(Enters) /\ Len(s) \in Nat /\ DOMAIN s = 1 .. Len(s)
    BY DEF Stacks
  <2>5. s \o q \in Seq(Enters) /\ Len(s \o q) = Len(s) + i /\ DOMAIN (s \o q) = 1 .. Len(s) + i
    BY <2>1, <2>2, <2>4
  <2>6. \A j \in 1 .. Len(s) : (s \o q)[j] = s[j]
    BY <2>1, <2>4
  <2>7. \A j \in Len(s) + 1 .. Len(s) + i :
           /\ j - Len(s) \in 1 .. i
           /\ (s \o q)[j] = q[j - Len(s)]
    BY <2>1, <2>2, <2>4
  <2> QED
    BY <1>2, <2>3, <2>4, <2>5, <2>6, <2>7 DEF q, Stacks
<1>5. ASSUME NEW i \in 0 .. LayerCount
      PROVE  Fits(s \o SubSeq(states, 1, i), i + 3, sel)
  <2> DEFINE q == s \o SubSeq(states, 1, i)
  <2>1. \A j \in DOMAIN q : j \in 1 .. Len(s) \/ j \in Len(s) + 1 .. Len(s) + i
    BY <1>4
  <2>2. \A j \in 1 .. Len(s) : Rank(q[j].lock) < i + 3
    <3>1. Below(s, i + 3)
      BY BelowMore DEF Fits
    <3> QED
      BY <1>4, <3>1 DEF Below
  <2>3. \A j \in Len(s) + 1 .. Len(s) + i : Rank(q[j].lock) < i + 3
    BY <1>1, <1>3, <1>4
  <2>4. \A x : InStack(s, x) => InStack(q, x)
    <3> SUFFICES ASSUME NEW x, NEW j \in DOMAIN s, s[j].lock = x PROVE InStack(q, x)
      BY DEF InStack
    <3>1. j \in DOMAIN q /\ q[j] = s[j]
      BY <1>4
    <3> QED
      BY <3>1 DEF InStack
  <2> HIDE DEF q
  <2>5. Below(q, i + 3)
    BY <2>1, <2>2, <2>3 DEF Below
  <2> QED
    BY <2>4, <2>5 DEF Fits, q
<1>6. \A i \in 1 .. Len(states) : Legal(s \o SubSeq(states, 1, i - 1), states[i])
  <2> SUFFICES ASSUME NEW i \in Layers PROVE Legal(s \o SubSeq(states, 1, i - 1), states[i])
    BY <1>2
  <2>1. i - 1 \in 0 .. LayerCount /\ (i - 1) + 3 = i + 2 /\ i + 2 \in Nat
    BY <1>2
  <2>2. Below(s \o SubSeq(states, 1, i - 1), i + 2) /\ s \o SubSeq(states, 1, i - 1) \in Stacks
    BY <1>4, <1>5, <2>1 DEF Fits
  <2>3. Rank(Barrier) \in Nat /\ i + 2 <= Rank(Barrier)
    BY <1>2, RankIs
  <2>4. Below(s \o SubSeq(states, 1, i - 1), Rank(Barrier))
    BY <2>1, <2>2, <2>3, BelowMore
  <2>5. states[i].lock = State(i) /\ Rank(State(i)) = i + 2 /\ State(i) # Record
    BY <1>1, <1>2, <1>3
  <2> QED
    BY <2>2, <2>4, <2>5 DEF Legal
<1>7. SubSeq(states, 1, LayerCount) = states
  BY <1>2 DEF Stacks
<1>8. LayerCount \in 0 .. LayerCount
  OBVIOUS
<1>9. s \o states \in Stacks /\ Fits(s \o states, LayerCount + 3, sel)
  BY <1>4, <1>5, <1>7, <1>8
<1>10. Runs(s \o states, body, s \o states)
  BY <1>9, RankIs DEF Safe, Innermost
<1> QED
  BY <1>2, <1>6, <1>10, RunsWithin DEF AllStates, states

\* The two saves of the ledger.
LEMMA SafeSaves ==
    /\ \A sel : Safe(LedgerBy(Take(Ledger)), Rank(Ledger), sel)
    /\ Safe(SaveLedger, 1, FALSE)
    /\ Safe(SaveLedgerAgain, Rank(Ledger), TRUE)
<1>1. /\ Take(Ledger) \in Enters /\ Take(Ledger).lock = Ledger
      /\ Try(Ledger) \in Enters /\ Try(Ledger).lock = Ledger
  BY StepsAreEnters
<1>2. /\ Rank(Ledger) \in Nat /\ 3 <= Rank(Ledger) /\ Rank(Ledger) <= Rank(Barrier)
      /\ 1 <= Rank(Ledger) /\ 2 < Rank(Ledger)
  BY RankIs, LayerCountIsNatural DEF Innermost
<1>3. \A sel : /\ Safe(LedgerBy(Take(Ledger)), Rank(Ledger), sel)
               /\ Safe(LedgerBy(Try(Ledger)), Rank(Ledger), sel)
  BY <1>1, SafeLedgerBy
<1>4. Safe(LedgerBy(Take(Ledger)), 1, FALSE) /\ Safe(LedgerBy(Try(Ledger)), 3, TRUE)
  BY <1>2, <1>3, SafeLess
<1>5. Safe(Selection(LedgerBy(Try(Ledger))), 1, FALSE)
  BY <1>4, SafeSelection
<1>6. Safe(SelectionAgain(LedgerBy(Try(Ledger))), Rank(Ledger), TRUE)
  BY <1>2, <1>3, SafeSelectionAgain
<1>7. Safe(SaveLedger, 1, FALSE)
  BY <1>4, <1>5, SafeThen DEF SaveLedger
<1>8. Safe(SaveLedgerAgain, Rank(Ledger), TRUE)
  BY <1>3, <1>6, SafeThen DEF SaveLedgerAgain
<1> QED
  BY <1>3, <1>7, <1>8

\* A lock that comes first, and the whole operation under it.
LEMMA SafeUnder ==
    ASSUME NEW k \in Enters, k.lock \in Before, NEW body, Safe(body, 1, FALSE)
    PROVE  Safe(Within(<<k>>, body), 0, FALSE)
<1>1. Rank(k.lock) = 0 /\ k.lock # Record /\ Rank(k.lock) < 1 /\ 1 \in Nat
  BY RankIs DEF Before, Record, Named
<1>2. Safe(Within(<<k>>, body), Rank(k.lock), FALSE)
  BY <1>1, SafeWithin
<1> QED
  BY <1>1, <1>2

\* A lock under which no other is waited for.
LEMMA SafeInnermost ==
    ASSUME NEW k \in Enters, k.lock \in Innermost, NEW body, NEW sel,
           Safe(body, Rank(Barrier), sel)
    PROVE  Safe(Within(<<k>>, body), Rank(Ledger), sel)
<1>1. /\ Rank(k.lock) = Rank(Ledger) /\ Rank(k.lock) < Rank(Barrier) /\ k.lock # Record
      /\ Rank(Barrier) \in Nat
  BY RankIs, LayerCountIsNatural DEF Innermost, Ledger, Record, Named
<1>2. Safe(Within(<<k>>, body), Rank(k.lock), sel)
  BY <1>1, SafeWithin
<1> QED
  BY <1>1, <1>2

\* The operations on one layer.
LEMMA SafeUnits ==
    ASSUME NEW l \in Layers
    PROVE  /\ Safe(MutateUnit(l), 1, FALSE)
           /\ Safe(CommitEvaluation(l), 1, FALSE)
           /\ Safe(ProjectFinding(l), 1, FALSE)
<1> DEFINE k == Take(State(l))
<1>1. /\ k \in Enters /\ k.lock = State(l) /\ k.lock # Record /\ k.lock \in States
      /\ TryShare(Ledger) \in Enters /\ TryShare(Ledger).lock = Ledger
  BY StepsAreEnters DEF State, Record, Named, States
<1>2. /\ Rank(k.lock) \in Nat /\ 3 <= Rank(k.lock) /\ 1 <= Rank(k.lock)
      /\ Rank(k.lock) < Rank(Ledger) /\ Rank(Ledger) \in Nat
      /\ Rank(Ledger) <= Rank(Barrier) /\ Rank(Barrier) \in Nat
  BY <1>1, RankIs, LayerCountIsNatural DEF Innermost, Layers
<1> HIDE DEF k
<1>3. ASSUME NEW body, NEW sel, Safe(body, Rank(Ledger), sel)
      PROVE  Safe(Within(<<k>>, body), Rank(k.lock), sel)
  BY <1>1, <1>2, <1>3, SafeWithin
<1>4. \A sel : Safe(<<>>, Rank(Ledger), sel)
  BY SafeNothing
<1>5. Safe(MutateUnit(l), 1, FALSE)
  <2>1. Safe(Within(<<k>>, <<>>), 3, TRUE)
    BY <1>2, <1>3, <1>4, SafeLess
  <2> QED
    BY <2>1, SafeSelection DEF MutateUnit, k
<1>6. Safe(CommitEvaluation(l), 1, FALSE)
  <2>1. Safe(LedgerBy(TryShare(Ledger)), Rank(Ledger), TRUE)
    BY <1>1, SafeLedgerBy
  <2>2. Safe(Within(<<k>>, LedgerBy(TryShare(Ledger))), 3, TRUE)
    BY <1>2, <1>3, <2>1, SafeLess
  <2> QED
    BY <2>2, SafeSelection DEF CommitEvaluation, k
<1>7. Safe(ProjectFinding(l), 1, FALSE)
  <2> SUFFICES ASSUME NEW s \in Stacks, Below(s, 1) PROVE Runs(s, ProjectFinding(l), s)
    BY DEF Safe, Fits
  <2> DEFINE t == Append(s, k)
             u == Append(t, k)
  <2>1. Below(s, Rank(k.lock)) /\ Below(s, Rank(Barrier))
    BY <1>2, BelowMore
  <2>2. t \in Stacks /\ Below(t, Rank(Barrier)) /\ InStack(t, k.lock)
    BY <1>1, <1>2, <2>1, Pushed
  <2> HIDE DEF t
  <2>3. u \in Stacks
    BY <1>1, <2>2, Pushed
  <2>4. Legal(s, k) /\ Legal(t, k)
    BY <1>1, <2>1, <2>2 DEF Legal
  <2>5. Runs(u, <<>>, u)
    BY <2>3, RunsNothing
  <2>6. Runs(t, Within(<<k>>, <<>>), t)
    BY <1>1, <2>2, <2>4, <2>5, RunsWithinOne
  <2>7. Runs(s, Within(<<k>>, Within(<<k>>, <<>>)), s)
    BY <1>1, <2>4, <2>6, RunsWithinOne DEF t
  <2> QED
    BY <2>7 DEF ProjectFinding, k
<1> QED
  BY <1>5, <1>6, <1>7

\* Every operation, from a thread that holds nothing, is a legal course that
\* ends with nothing.
LEMMA OperationsRun == \A p \in Operations : Runs(<<>>, p, <<>>)
<1>1. /\ Rank(Ledger) \in Nat /\ 2 < Rank(Ledger) /\ 3 <= Rank(Ledger)
      /\ Rank(Ledger) <= Rank(Barrier) /\ Rank(Barrier) \in Nat
  BY RankIs, LayerCountIsNatural DEF Innermost
<1>2. \A r, sel : Safe(<<>>, r, sel)
  BY SafeNothing
<1>3. /\ \A n \in {"fence", "output", "candidate", "resolutions", "payments"} :
            Take(Named(n)) \in Enters /\ Take(Named(n)).lock = Named(n)
      /\ Try(Named("fence")) \in Enters /\ Try(Named("fence")).lock = Named("fence")
      /\ Share(Ledger) \in Enters /\ Share(Ledger).lock = Ledger
  BY StepsAreEnters
<1>4. Safe(HoldLayers, 1, FALSE)
  BY <1>2, SafeAllStates, SafeSelection DEF HoldLayers
<1>5. Safe(Transition, 1, FALSE)
  <2>1. Safe(AllStates(<<>>), 3, TRUE)
    BY <1>2, SafeAllStates
  <2>2. Safe(SaveLedgerAgain, 3, TRUE)
    BY <1>1, SafeSaves, SafeLess
  <2> QED
    BY <2>1, <2>2, SafeThen, SafeSelection DEF Transition
<1>6. Safe(PublishMaterialization, 0, FALSE)
  BY <1>3, <1>5, SafeUnder DEF PublishMaterialization, Before
<1>7. Safe(VerifySources, 3, FALSE)
  <2>1. Safe(AllStates(<<>>), 3, FALSE)
    BY <1>2, SafeAllStates
  <2>2. Safe(AllStates(<<>>) \o AllStates(<<>>), 3, FALSE)
    BY <2>1, SafeThen
  <2> QED
    BY <2>1, <2>2, SafeThen DEF VerifySources
<1>8. Safe(Accept, 1, FALSE)
  <2>1. Safe(Within(<<Take(Named("resolutions"))>>, <<>>), Rank(Ledger), TRUE)
    BY <1>2, <1>3, SafeInnermost DEF Innermost
  <2>2. Safe(Within(<<Take(Named("resolutions"))>>, <<>>), 3, TRUE)
    BY <1>1, <2>1, SafeLess
  <2> QED
    BY <2>2, SafeSelection DEF Accept
<1>9. Safe(PublishRender, 0, FALSE)
  <2>1. Safe(LedgerBy(Share(Ledger)), Rank(Ledger), TRUE)
    BY <1>3, SafeLedgerBy
  <2>2. Safe(Selection(AllStates(LedgerBy(Share(Ledger)))), 1, FALSE)
    BY <2>1, SafeAllStates, SafeSelection
  <2> QED
    BY <1>3, <2>2, SafeUnder DEF PublishRender, Before
<1>10. Safe(ReconcileFinalization, 0, FALSE)
  <2> DEFINE payments == Within(<<Take(Named("payments"))>>, SelectionAgain(<<>>))
  <2>1. Safe(SelectionAgain(<<>>), Rank(Barrier), TRUE)
    <3>1. 2 < Rank(Barrier) /\ Rank(Barrier) <= Rank(Barrier)
      BY <1>1
    <3> QED
      BY <1>1, <1>2, <3>1, SafeSelectionAgain
  <2>2. Safe(payments, Rank(Ledger), TRUE)
    BY <1>3, <2>1, SafeInnermost DEF Innermost
  <2> HIDE DEF payments
  <2>3. Safe(Selection(AllStates(payments)), 1, FALSE)
    BY <2>2, SafeAllStates, SafeSelection
  <2>4. Safe(SaveLedgerAgain, 3, TRUE)
    BY <1>1, SafeSaves, SafeLess
  <2>5. Safe(Selection(SaveLedgerAgain), 1, FALSE)
    BY <2>4, SafeSelection
  <2>6. Safe(Selection(AllStates(payments)) \o Selection(SaveLedgerAgain), 1, FALSE)
    BY <2>3, <2>5, SafeThen
  <2> QED
    BY <1>3, <2>6, SafeUnder DEF ReconcileFinalization, Before, payments
<1>11. \A l \in Layers : Safe(OperatorCommand(l), 0, FALSE)
  BY <1>3, SafeUnits, SafeUnder DEF OperatorCommand, Before
<1>12. \A p \in Operations : \E r : Safe(p, r, FALSE)
  <2>1. Safe(SaveLedger, 1, FALSE)
    BY SafeSaves
  <2>2. ASSUME NEW l \in Layers,
               NEW p \in {MutateUnit(l), CommitEvaluation(l), ProjectFinding(l),
                          OperatorCommand(l)}
        PROVE  \E r : Safe(p, r, FALSE)
    BY <1>11, SafeUnits
  <2>3. ASSUME NEW p \in {SaveLedger, HoldLayers, Transition, PublishMaterialization,
                          VerifySources, Accept, PublishRender, ReconcileFinalization}
        PROVE  \E r : Safe(p, r, FALSE)
    BY <1>4, <1>5, <1>6, <1>7, <1>8, <1>9, <1>10, <2>1
  <2>4. ASSUME NEW p \in Operations
        PROVE  \/ p \in {SaveLedger, HoldLayers, Transition, PublishMaterialization,
                         VerifySources, Accept, PublishRender, ReconcileFinalization}
               \/ \E l \in Layers : p \in {MutateUnit(l), CommitEvaluation(l),
                                          ProjectFinding(l), OperatorCommand(l)}
    BY <2>4 DEF Operations
  <2> QED
    BY <2>2, <2>3, <2>4
<1>13. <<>> \in Stacks /\ \A r : Fits(<<>>, r, FALSE)
  BY DEF Stacks, Fits, Below
<1> QED
  BY <1>12, <1>13 DEF Safe

-----------------------------------------------------------------------------
(* The inductive invariant.                                                *)

\* The types of the variables.
TypeInv ==
    /\ todo \in [Threads -> Seq(Enters \cup {Leave})]
    /\ held \in [Threads -> Stacks]

\* The record lock is taken under the shot mutex, and nothing is acquired under
\* the fork barrier.
Nested(s) ==
    /\ \A i \in DOMAIN s : s[i].lock = Record => \E j \in 1 .. i - 1 : s[j].lock = Mutex
    /\ \A i \in DOMAIN s : s[i].lock = Barrier => i = Len(s)

\* Every thread is on a legal course that ends with nothing held.
OnCourse == \A t \in Threads : Runs(held[t], todo[t], <<>>) /\ Nested(held[t])

\* The shot mutex of a process has one holder, and so has a state lock.
MutexExclusive ==
    \A t, u \in Threads :
        t # u /\ ProcessOf[t] = ProcessOf[u] =>
            ~(InStack(held[t], Mutex) /\ InStack(held[u], Mutex))
StatesExclusive ==
    \A t, u \in Threads : \A k \in States :
        t # u => ~(InStack(held[t], k) /\ InStack(held[u], k))

\* The inductive invariant.
IInv == TypeInv /\ OnCourse /\ MutexExclusive /\ StatesExclusive /\ SelectionExclusive

\* A legal acquisition keeps the nesting.
LEMMA NestedPush ==
    ASSUME NEW s \in Stacks, NEW k \in Enters, Nested(s), Legal(s, k)
    PROVE  Nested(Append(s, k))
<1> DEFINE t == Append(s, k)
<1>1. /\ t \in Stacks /\ Len(t) = Len(s) + 1 /\ t[Len(s) + 1] = k
      /\ \A i \in 1 .. Len(s) : t[i] = s[i]
  BY Pushed
<1>2. DOMAIN s = 1 .. Len(s) /\ DOMAIN t = 1 .. Len(s) + 1 /\ Len(s) \in Nat
  BY <1>1 DEF Stacks
<1> HIDE DEF t
<1>3. \A i \in DOMAIN s : s[i].lock # Barrier
  BY RankIs, LayerCountIsNatural DEF Legal, Below
<1>4. ASSUME NEW i \in DOMAIN t, t[i].lock = Record PROVE \E j \in 1 .. i - 1 : t[j].lock = Mutex
  <2>1. CASE i \in DOMAIN s
    <3>1. PICK j \in 1 .. i - 1 : s[j].lock = Mutex
      BY <1>1, <1>2, <1>4, <2>1 DEF Nested
    <3> QED
      BY <1>1, <1>2, <2>1, <3>1
  <2>2. CASE i = Len(s) + 1
    <3>1. PICK j \in DOMAIN s : s[j].lock = Mutex
      BY <1>1, <1>4, <2>2 DEF Legal, InStack
    <3> QED
      BY <1>1, <1>2, <2>2, <3>1
  <2> QED
    BY <1>2, <2>1, <2>2
<1>5. ASSUME NEW i \in DOMAIN t, t[i].lock = Barrier PROVE i = Len(t)
  BY <1>1, <1>2, <1>3, <1>5
<1> QED
  BY <1>4, <1>5 DEF Nested, t

\* A release keeps the nesting, and holds nothing new.
LEMMA Popped ==
    ASSUME NEW s \in Stacks, s # <<>>
    PROVE  /\ Front(s) \in Stacks
           /\ \A x : InStack(s, x) <=> InStack(Front(s), x) \/ Last(s).lock = x
           /\ Nested(s) => Nested(Front(s))
<1>1. Front(s) \in Stacks
  BY FrontOf
<1>2. Len(Front(s)) = Len(s) - 1
  BY FrontOf
<1>3. \A i \in 1 .. Len(s) - 1 : Front(s)[i] = s[i]
  BY FrontOf
<1>4. /\ DOMAIN s = 1 .. Len(s) /\ DOMAIN Front(s) = 1 .. Len(s) - 1
      /\ Len(s) \in Nat \ {0} /\ Last(s) = s[Len(s)]
  BY <1>1, <1>2 DEF Stacks, Last
<1>5. \A i : i \in 1 .. Len(s) <=> i \in 1 .. Len(s) - 1 \/ i = Len(s)
  BY <1>4
<1>6. \A x : InStack(s, x) <=> InStack(Front(s), x) \/ Last(s).lock = x
  BY <1>3, <1>4, <1>5 DEF InStack
<1>7. ASSUME Nested(s) PROVE Nested(Front(s))
  <2>1. ASSUME NEW i \in 1 .. Len(s) - 1, Front(s)[i].lock = Record
        PROVE  \E j \in 1 .. i - 1 : Front(s)[j].lock = Mutex
    <3>1. PICK j \in 1 .. i - 1 : s[j].lock = Mutex
      BY <1>3, <1>4, <1>5, <1>7, <2>1 DEF Nested
    <3> QED
      BY <1>3, <1>4, <3>1
  <2>2. ASSUME NEW i \in 1 .. Len(s) - 1, Front(s)[i].lock = Barrier PROVE FALSE
    <3>1. i = Len(s)
      BY <1>3, <1>4, <1>5, <1>7, <2>2 DEF Nested
    <3> QED
      BY <1>4, <3>1
  <2> QED
    BY <1>4, <2>1, <2>2 DEF Nested
<1> QED
  BY <1>1, <1>6, <1>7

\* A thread that holds the record lock holds the shot mutex of its process.
LEMMA RecordUnderMutex ==
    ASSUME NEW s \in Stacks, Nested(s), InStack(s, Record) PROVE InStack(s, Mutex)
<1>1. PICK i \in DOMAIN s : s[i].lock = Record
  BY DEF InStack
<1>2. PICK j \in 1 .. i - 1 : s[j].lock = Mutex
  BY <1>1 DEF Nested
<1>3. j \in DOMAIN s
  BY <1>1, <1>2 DEF Stacks
<1> QED
  BY <1>2, <1>3 DEF InStack

\* The two ways to say that a thread holds a lock.
LEMMA HoldsIsInStack == \A t \in Threads : \A k : Holds(t, k) <=> InStack(held[t], k)
BY DEF Holds, InStack

\* No operation, no lock.
LEMMA InitIInv == Init => IInv
<1> SUFFICES ASSUME Init PROVE IInv
  OBVIOUS
<1>1. TypeInv
  BY DEF Init, TypeInv, Stacks
<1>2. \A t \in Threads : held[t] = <<>> /\ todo[t] = <<>>
  BY DEF Init
<1>3. <<>> \in Stacks /\ DOMAIN <<>> = {}
  BY DEF Stacks
<1>4. \A k : ~InStack(<<>>, k)
  BY <1>3 DEF InStack
<1>5. Nested(<<>>)
  BY <1>3 DEF Nested
<1>6. OnCourse
  BY <1>2, <1>3, <1>5, RunsNothing DEF OnCourse
<1>7. MutexExclusive /\ StatesExclusive
  BY <1>2, <1>4 DEF MutexExclusive, StatesExclusive
<1>8. SelectionExclusive
  BY <1>2, <1>4, HoldsIsInStack DEF SelectionExclusive
<1> QED
  BY <1>1, <1>6, <1>7, <1>8 DEF IInv

\* Every operation is a legal course from nothing to nothing.
LEMMA BeginStep ==
    ASSUME IInv, NEW t \in Threads, Begin(t) PROVE IInv'
<1>1. PICK p \in Operations : todo' = [todo EXCEPT ![t] = p]
  BY DEF Begin
<1>2. held' = held /\ record' = record /\ todo[t] = <<>>
  BY DEF Begin
<1>3. Runs(<<>>, p, <<>>)
  BY OperationsRun
<1>4. p \in Seq(Enters \cup {Leave})
  BY <1>3 DEF Runs
<1>5. held[t] = <<>>
  <2>1. Runs(held[t], <<>>, <<>>)
    BY <1>2 DEF IInv, OnCourse
  <2> QED
    BY <2>1 DEF Runs, Course
<1>6. TypeInv'
  BY <1>1, <1>2, <1>4 DEF IInv, TypeInv
<1>7. \A u \in Threads : todo'[u] = IF u = t THEN p ELSE todo[u]
  BY <1>1 DEF IInv, TypeInv
<1>8. OnCourse'
  BY <1>2, <1>3, <1>5, <1>7 DEF IInv, OnCourse
<1>9. (MutexExclusive /\ StatesExclusive /\ SelectionExclusive)'
  BY <1>2 DEF IInv, MutexExclusive, StatesExclusive, SelectionExclusive, Holds
<1> QED
  BY <1>6, <1>8, <1>9 DEF IInv

\* Unwinding is a legal course.
LEMMA RaiseStep ==
    ASSUME IInv, NEW t \in Threads, Raise(t) PROVE IInv'
<1>1. todo' = [todo EXCEPT ![t] = Leaves(Len(held[t]))] /\ held' = held /\ record' = record
  BY DEF Raise
<1>2. held[t] \in Stacks /\ <<>> \in Stacks /\ <<>> \o held[t] = held[t]
  BY DEF IInv, TypeInv, Stacks
<1>3. Runs(held[t], Leaves(Len(held[t])), <<>>)
  BY <1>2, RunsLeaves
<1>4. Leaves(Len(held[t])) \in Seq(Enters \cup {Leave})
  BY <1>3 DEF Runs
<1>5. TypeInv'
  BY <1>1, <1>4 DEF IInv, TypeInv
<1>6. \A u \in Threads : todo'[u] = IF u = t THEN Leaves(Len(held[t])) ELSE todo[u]
  BY <1>1 DEF IInv, TypeInv
<1>7. OnCourse'
  BY <1>1, <1>3, <1>6 DEF IInv, OnCourse
<1>8. (MutexExclusive /\ StatesExclusive /\ SelectionExclusive)'
  BY <1>1 DEF IInv, MutexExclusive, StatesExclusive, SelectionExclusive, Holds
<1> QED
  BY <1>5, <1>7, <1>8 DEF IInv

\* When a thread blocks another, lock by lock.
LEMMA BlocksIs ==
    ASSUME NEW h \in Threads, NEW t \in Threads, NEW k
    PROVE  /\ k.lock \in {Mutex, Barrier} =>
                (Blocks(h, t, k) <=>
                    h # t /\ ProcessOf[h] = ProcessOf[t] /\ InStack(held[h], k.lock))
           /\ k.lock = Record =>
                (Blocks(h, t, k) <=> /\ ProcessOf[h] # ProcessOf[t] /\ record = ProcessOf[h]
                                     /\ InStack(held[h], Record))
           /\ k.lock \in States => (Blocks(h, t, k) <=> h # t /\ InStack(held[h], k.lock))
           /\ k.lock \in Locks /\ Blocks(h, t, k) => InStack(held[h], k.lock)
<1>1. k.lock \in {Mutex, Barrier} =>
                (Blocks(h, t, k) <=>
                    h # t /\ ProcessOf[h] = ProcessOf[t] /\ InStack(held[h], k.lock))
  BY DEF Blocks, Holds, InStack, Mutex, Barrier, Record, Named
<1>2. k.lock = Record =>
                (Blocks(h, t, k) <=> /\ ProcessOf[h] # ProcessOf[t] /\ record = ProcessOf[h]
                                     /\ InStack(held[h], Record))
  BY DEF Blocks, Holds, InStack, Mutex, Barrier, Record, Named
<1>3. k.lock \in States => (Blocks(h, t, k) <=> h # t /\ InStack(held[h], k.lock))
  BY DEF Blocks, Holds, InStack, Mutex, Barrier, Record, Named, States, State
<1>4. k.lock \in Before \cup Innermost /\ Blocks(h, t, k) => InStack(held[h], k.lock)
  BY DEF Blocks, Holds, InStack, Mutex, Barrier, Record, Named, Before, Innermost, Ledger
<1> QED
  BY <1>1, <1>2, <1>3, <1>4 DEF Locks

\* A lock that is acquired was free for the thread.
LEMMA AcquireStep ==
    ASSUME IInv, NEW t \in Threads, Acquire(t) PROVE IInv'
<1> DEFINE k == Head(todo[t])
           s == held[t]
<1>1. /\ todo[t] # <<>> /\ k.does = "enter" /\ Available(t, k)
      /\ held' = [held EXCEPT ![t] = Append(s, k)]
      /\ record' = IF k.lock = Record THEN ProcessOf[t] ELSE record
      /\ todo' = [todo EXCEPT ![t] = Tail(todo[t])]
  BY DEF Acquire
<1>2. Runs(s, todo[t], <<>>) /\ Nested(s) /\ s \in Stacks /\ todo[t] \in Seq(Enters \cup {Leave})
  BY DEF IInv, OnCourse, TypeInv
<1> HIDE DEF k, s
<1>3. k \in Enters /\ k # Leave
  <2>1. k \in Enters \cup {Leave}
    BY <1>1, <1>2 DEF k
  <2> QED
    BY <1>1, <2>1 DEF Leave
<1>4. Legal(s, k) /\ Runs(Append(s, k), Tail(todo[t]), <<>>)
  BY <1>1, <1>2, <1>3, RunsRest DEF k
<1>5. /\ Append(s, k) \in Stacks
      /\ \A x : InStack(Append(s, k), x) <=> InStack(s, x) \/ k.lock = x
  BY <1>2, <1>3, Pushed
<1>6. Nested(Append(s, k))
  BY <1>2, <1>3, <1>4, NestedPush
<1>7. Tail(todo[t]) \in Seq(Enters \cup {Leave})
  BY <1>1, <1>2
<1>8. TypeInv'
  BY <1>1, <1>5, <1>7 DEF IInv, TypeInv
<1>9. \A u \in Threads : /\ held'[u] = IF u = t THEN Append(s, k) ELSE held[u]
                         /\ todo'[u] = IF u = t THEN Tail(todo[t]) ELSE todo[u]
  BY <1>1 DEF IInv, TypeInv
<1>10. OnCourse'
  BY <1>4, <1>6, <1>9 DEF IInv, OnCourse
<1>11. \A u \in Threads : \A x :
          InStack(held'[u], x) <=> InStack(held[u], x) \/ (u = t /\ k.lock = x)
  BY <1>5, <1>9 DEF s
<1>12. \A u \in Threads : ~Blocks(u, t, k)
  BY <1>1 DEF Available
<1>13. MutexExclusive'
  <2>1. \A u \in Threads :
           k.lock = Mutex /\ u # t /\ ProcessOf[u] = ProcessOf[t] => ~InStack(held[u], Mutex)
    BY <1>12, BlocksIs
  <2> QED
    BY <1>11, <2>1 DEF IInv, MutexExclusive
<1>14. StatesExclusive'
  <2>1. \A u \in Threads : k.lock \in States /\ u # t => ~InStack(held[u], k.lock)
    BY <1>12, BlocksIs
  <2> QED
    BY <1>11, <2>1 DEF IInv, StatesExclusive
<1>15. SelectionExclusive'
  <2>1. ASSUME NEW u \in Threads, u # t, k.lock = Record PROVE ~InStack(held[u], Record)
    <3> SUFFICES ASSUME InStack(held[u], Record) PROVE FALSE
      OBVIOUS
    <3>1. record = ProcessOf[u]
      BY HoldsIsInStack DEF IInv, SelectionExclusive
    <3>2. ProcessOf[u] = ProcessOf[t]
      BY <1>12, <2>1, <3>1, BlocksIs
    <3>3. InStack(held[t], Mutex)
      BY <1>4, <2>1 DEF Legal, s
    <3>4. InStack(held[u], Mutex)
      BY RecordUnderMutex DEF IInv, OnCourse, TypeInv
    <3> QED
      BY <2>1, <3>2, <3>3, <3>4 DEF IInv, MutexExclusive
  <2>2. \A u, v \in Threads : InStack(held[u], Record) =>
           record = ProcessOf[u] /\ (v # u => ~InStack(held[v], Record))
    BY HoldsIsInStack DEF IInv, SelectionExclusive
  <2>3. \A u, v \in Threads : InStack(held'[u], Record) =>
           record' = ProcessOf[u] /\ (v # u => ~InStack(held'[v], Record))
    BY <1>1, <1>11, <2>1, <2>2
  <2>4. \A u \in Threads : Holds(u, Record)' <=> InStack(held'[u], Record)
    BY DEF Holds, InStack
  <2> QED
    BY <2>3, <2>4 DEF SelectionExclusive
<1> QED
  BY <1>8, <1>10, <1>13, <1>14, <1>15 DEF IInv

\* A release takes the record lock away only with its holder.
LEMMA ReleaseStep ==
    ASSUME IInv, NEW t \in Threads, Release(t) PROVE IInv'
<1> DEFINE s == held[t]
           final == \A i \in DOMAIN Front(s) : Front(s)[i].lock # Last(s).lock
<1>1. /\ todo[t] # <<>> /\ Head(todo[t]).does = "leave"
      /\ held' = [held EXCEPT ![t] = Front(s)]
      /\ record' = IF final /\ Last(s).lock = Record THEN None ELSE record
      /\ todo' = [todo EXCEPT ![t] = Tail(todo[t])]
  BY DEF Release
<1>2. Runs(s, todo[t], <<>>) /\ Nested(s) /\ s \in Stacks /\ todo[t] \in Seq(Enters \cup {Leave})
  BY DEF IInv, OnCourse, TypeInv
<1>3. final <=> ~InStack(Front(s), Last(s).lock)
  BY DEF InStack
<1> HIDE DEF s, final
<1>4. Head(todo[t]) \notin Enters
  BY <1>1 DEF Enters
<1>5. s # <<>> /\ Runs(Front(s), Tail(todo[t]), <<>>)
  BY <1>1, <1>2, <1>4, RunsRest
<1>6. /\ Front(s) \in Stacks /\ Nested(Front(s))
      /\ \A x : InStack(s, x) <=> InStack(Front(s), x) \/ Last(s).lock = x
  BY <1>2, <1>5, Popped
<1>7. Tail(todo[t]) \in Seq(Enters \cup {Leave})
  BY <1>1, <1>2
<1>8. TypeInv'
  BY <1>1, <1>6, <1>7 DEF IInv, TypeInv
<1>9. \A u \in Threads : /\ held'[u] = IF u = t THEN Front(s) ELSE held[u]
                         /\ todo'[u] = IF u = t THEN Tail(todo[t]) ELSE todo[u]
  BY <1>1 DEF IInv, TypeInv
<1>10. OnCourse'
  BY <1>5, <1>6, <1>9 DEF IInv, OnCourse
<1>11. \A u \in Threads : \A x : InStack(held'[u], x) => InStack(held[u], x)
  BY <1>6, <1>9 DEF s
<1>12. MutexExclusive' /\ StatesExclusive'
  BY <1>11 DEF IInv, MutexExclusive, StatesExclusive
<1>13. SelectionExclusive'
  <2>1. \A u, v \in Threads : InStack(held[u], Record) =>
           record = ProcessOf[u] /\ (v # u => ~InStack(held[v], Record))
    BY HoldsIsInStack DEF IInv, SelectionExclusive
  <2>2. ASSUME NEW u \in Threads, InStack(held'[u], Record), final, Last(s).lock = Record
        PROVE  FALSE
    <3>1. InStack(held[t], Record)
      BY <1>6, <2>2 DEF s
    <3>2. ~InStack(held'[t], Record)
      BY <1>3, <1>9, <2>2
    <3> QED
      BY <1>11, <2>1, <2>2, <3>1, <3>2
  <2>3. \A u, v \in Threads : InStack(held'[u], Record) =>
           record' = ProcessOf[u] /\ (v # u => ~InStack(held'[v], Record))
    BY <1>1, <1>11, <2>1, <2>2
  <2>4. \A u \in Threads : Holds(u, Record)' <=> InStack(held'[u], Record)
    BY DEF Holds, InStack
  <2> QED
    BY <2>3, <2>4 DEF SelectionExclusive
<1> QED
  BY <1>8, <1>10, <1>12, <1>13 DEF IInv

\* A death takes all of a process.
LEMMA DieStep ==
    ASSUME IInv, NEW p \in Processes, Die(p) PROVE IInv'
<1>1. \A u \in Threads :
         /\ held'[u] = IF ProcessOf[u] = p THEN <<>> ELSE held[u]
         /\ todo'[u] = IF ProcessOf[u] = p THEN <<>> ELSE todo[u]
  BY DEF Die
<1>2. TypeInv'
  BY DEF Die, IInv, TypeInv, Stacks
<1>3. <<>> \in Stacks /\ DOMAIN <<>> = {}
  BY DEF Stacks
<1>4. Runs(<<>>, <<>>, <<>>) /\ Nested(<<>>)
  BY <1>3, RunsNothing DEF Nested
<1>5. OnCourse'
  BY <1>1, <1>4 DEF IInv, OnCourse
<1>6. \A u \in Threads : \A x :
         InStack(held'[u], x) => InStack(held[u], x) /\ ProcessOf[u] # p
  BY <1>1, <1>3 DEF InStack
<1>7. MutexExclusive' /\ StatesExclusive'
  BY <1>6 DEF IInv, MutexExclusive, StatesExclusive
<1>8. SelectionExclusive'
  <2>1. \A u, v \in Threads : InStack(held[u], Record) =>
           record = ProcessOf[u] /\ (v # u => ~InStack(held[v], Record))
    BY HoldsIsInStack DEF IInv, SelectionExclusive
  <2>2. \A u, v \in Threads : InStack(held'[u], Record) =>
           record' = ProcessOf[u] /\ (v # u => ~InStack(held'[v], Record))
    BY <1>6, <2>1 DEF Die
  <2>3. \A u \in Threads : Holds(u, Record)' <=> InStack(held'[u], Record)
    BY DEF Holds, InStack
  <2> QED
    BY <2>2, <2>3 DEF SelectionExclusive
<1> QED
  BY <1>2, <1>5, <1>7, <1>8 DEF IInv

\* Every reachable state has the invariant.
LEMMA IInvariant == Spec => []IInv
<1>1. IInv /\ [Next]_vars => IInv'
  <2> SUFFICES ASSUME IInv, [Next]_vars PROVE IInv'
    OBVIOUS
  <2>1. ASSUME NEW t \in Threads, Begin(t) \/ Acquire(t) \/ Raise(t) \/ Release(t) PROVE IInv'
    BY <2>1, BeginStep, AcquireStep, RaiseStep, ReleaseStep
  <2>2. CASE UNCHANGED vars
    BY <2>2 DEF vars, IInv, TypeInv, OnCourse, MutexExclusive, StatesExclusive,
       SelectionExclusive, Holds
  <2> QED
    BY <2>1, <2>2, DieStep DEF Next
<1> QED
  BY <1>1, InitIInv, PTL DEF Spec

\* At most one thread is inside the selection lock, and the kernel still counts
\* its process as the owner of the record lock.
THEOREM TheSelectionExcludes == Spec => []SelectionExclusive
<1>1. IInv => SelectionExclusive
  BY DEF IInv
<1> QED
  BY <1>1, IInvariant, PTL

-----------------------------------------------------------------------------
(* No circular wait.                                                       *)

\* What a thread that waits waits for.
Wanted(t) == IF Head(todo[t]).does = "enter" THEN Head(todo[t]).lock ELSE Barrier

\* A thread waits for a holder of what it wants.
LEMMA WaitsForHolder ==
    ASSUME IInv, NEW h \in Threads, NEW t \in Threads, WaitsFor(h, t)
    PROVE  Wanted(t) \in Locks /\ InStack(held[h], Wanted(t))
<1> DEFINE k == Head(todo[t])
<1>1. todo[t] # <<>> /\ todo[t] \in Seq(Enters \cup {Leave})
  BY DEF WaitsFor, IInv, TypeInv
<1>2. k \in Enters \cup {Leave}
  BY <1>1
<1> HIDE DEF k
<1>3. CASE k.does = "enter"
  <2>1. k.lock \in Locks /\ Wanted(t) = k.lock
    BY <1>2, <1>3 DEF Enters, Leave, Wanted, k
  <2>2. Blocks(h, t, k)
    BY <1>3 DEF WaitsFor, k
  <2> QED
    BY <2>1, <2>2, BlocksIs
<1>4. CASE k.does # "enter"
  <2>1. Blocks(h, t, Take(Barrier)) /\ Wanted(t) = Barrier
    BY <1>4 DEF WaitsFor, Wanted, k
  <2>2. Take(Barrier).lock = Barrier /\ Barrier \in Locks
    BY StepsAreEnters
  <2> QED
    BY <2>1, <2>2, BlocksIs
<1> QED
  BY <1>3, <1>4

\* A thread that waits holds only locks that come before the one it wants, and
\* a lock it would take again is not what it waits for.
LEMMA WaitsInOrder ==
    ASSUME IInv, NEW g \in Threads, NEW h \in Threads, WaitsFor(g, h),
           NEW x \in Locks, InStack(held[h], x)
    PROVE  Rank(x) < Rank(Wanted(h))
<1> DEFINE k == Head(todo[h])
           s == held[h]
<1>1. /\ todo[h] # <<>> /\ todo[h] \in Seq(Enters \cup {Leave}) /\ s \in Stacks
      /\ Runs(s, todo[h], <<>>) /\ Nested(s)
  BY DEF WaitsFor, IInv, TypeInv, OnCourse
<1>2. PICK i \in DOMAIN s : s[i].lock = x
  BY DEF InStack
<1> HIDE DEF k, s
<1>3. CASE k \in Enters
  <2>1. k.does = "enter" /\ k.lock \in Locks /\ Wanted(h) = k.lock /\ k.does # "leave"
    BY <1>3 DEF Enters, Wanted, k
  <2>2. Legal(s, k)
    BY <1>1, <1>3, RunsRest DEF k
  <2>3. Blocks(g, h, k)
    BY <2>1 DEF WaitsFor, k
  <2>4. CASE Below(s, Rank(k.lock))
    BY <1>2, <2>1, <2>4 DEF Below
  <2>5. CASE k.lock \in States /\ InStack(s, k.lock)
    <3>1. g # h /\ InStack(held[g], k.lock)
      BY <2>3, <2>5, BlocksIs
    <3> QED
      BY <2>5, <3>1 DEF IInv, StatesExclusive, s
  <2>6. CASE k.lock = Record /\ InStack(s, k.lock)
    <3>1. ProcessOf[g] # ProcessOf[h] /\ InStack(held[g], Record)
      BY <2>3, <2>6, BlocksIs
    <3>2. g # h /\ InStack(held[h], Record)
      BY <2>6, <3>1 DEF s
    <3> QED
      BY <3>1, <3>2, HoldsIsInStack DEF IInv, SelectionExclusive
  <2> QED
    BY <2>2, <2>4, <2>5, <2>6 DEF Legal
<1>4. CASE k \notin Enters
  <2>1. k = Leave /\ s # <<>>
    BY <1>1, <1>4, RunsRest DEF k
  <2>2. Last(s).lock \in {Record, Ledger} /\ Wanted(h) = Barrier
    BY <2>1 DEF WaitsFor, Wanted, Leave, k, s
  <2>3. x # Barrier
    <3>1. Last(s) = s[Len(s)] /\ Barrier \notin {Record, Ledger}
      BY DEF Last, Barrier, Record, Ledger, Named
    <3> QED
      BY <1>1, <1>2, <2>2, <3>1 DEF Nested
  <2> QED
    BY <2>2, <2>3, RankBounds
<1> QED
  BY <1>3, <1>4

\* A nonempty set of ranks has a greatest.
LEMMA GreatestRank ==
    ASSUME NEW S \in SUBSET (0 .. LayerCount + 4), S # {} PROVE \E m \in S : \A r \in S : r <= m
<1> DEFINE R == {ss \in Nat \X Nat : ss[1] < ss[2]}
           T == {LayerCount + 4 - r : r \in S}
<1> USE LayerCountIsNatural
<1>1. IsWellFoundedOn(R, Nat)
  BY NatLessThanWellFounded DEF OpToRel
<1>2. \A x, y \in Nat : <<y, x>> \in R <=> y < x
  OBVIOUS
<1>3. T \subseteq Nat /\ T # {}
  <2>1. \A r \in S : r \in 0 .. LayerCount + 4 /\ LayerCount + 4 - r \in Nat
    OBVIOUS
  <2>2. T \subseteq Nat
    BY <2>1
  <2>3. PICK r \in S : TRUE
    OBVIOUS
  <2>4. LayerCount + 4 - r \in T
    OBVIOUS
  <2> QED
    BY <2>2, <2>4
<1> HIDE DEF R
<1>4. PICK x \in T : \A y \in T : <<y, x>> \notin R
  BY <1>1, <1>3, WFMin
<1>5. PICK m \in S : x = LayerCount + 4 - m
  OBVIOUS
<1>6. ASSUME NEW r \in S PROVE r <= m
  <2>1. LayerCount + 4 - r \in T /\ x \in Nat /\ LayerCount + 4 - r \in Nat
    BY <1>3
  <2>2. ~(LayerCount + 4 - r < x)
    BY <1>2, <1>4, <2>1
  <2> QED
    BY <1>5, <2>2
<1> QED
  BY <1>6

\* No set of threads waits on itself: every wait goes up in the order of locks.
THEOREM NobodyWaitsInACircle == Spec => []NoCircularWait
<1>1. ASSUME IInv PROVE NoCircularWait
  <2> SUFFICES ASSUME NEW S \in SUBSET Threads, S # {}, \A t \in S : \E h \in S : WaitsFor(h, t)
               PROVE  FALSE
    BY DEF NoCircularWait
  <2> DEFINE ranks == {Rank(Wanted(t)) : t \in S}
  <2>1. \A t \in S : Wanted(t) \in Locks
    BY <1>1, WaitsForHolder
  <2>2. ranks \subseteq 0 .. LayerCount + 4 /\ ranks # {}
    BY <2>1, RankBounds
  <2>3. PICK t \in S : \A u \in S : Rank(Wanted(u)) <= Rank(Wanted(t))
    BY <2>2, GreatestRank
  <2>4. PICK h \in S : WaitsFor(h, t)
    OBVIOUS
  <2>5. PICK g \in S : WaitsFor(g, h)
    OBVIOUS
  <2>6. Rank(Wanted(t)) < Rank(Wanted(h))
    BY <1>1, <2>4, <2>5, WaitsForHolder, WaitsInOrder
  <2>7. Rank(Wanted(h)) <= Rank(Wanted(t)) /\ Rank(Wanted(h)) \in Int /\ Rank(Wanted(t)) \in Int
    BY <2>1, <2>3, RankBounds, LayerCountIsNatural
  <2> QED
    BY <2>6, <2>7
<1> QED
  BY <1>1, IInvariant, PTL

------------------------------------------------------------------------------
(* Prepared files.                                                         *)

\* The steps between the staging and the rename.
Staging == {"prepared", "locked", "checked", "policy", "final"}

\* Inodes in use were given out, and no temporary was ever the destination, so
\* no writer read it as its predecessor.
InodesUsed ==
    /\ dest.id <= inodes
    /\ dest.id \notin temps
    /\ \A t \in temps : t <= inodes
    /\ \A p \in Writers : pred[p] <= inodes /\ staged[p] <= inodes /\ pred[p] \notin temps

\* The registry's phase follows the steps of the writer.
PhasesFollow ==
    \A p \in Writers :
        /\ pc[p] = "read" => phase[p] = "none"
        /\ pc[p] \in Staging => phase[p] \in {"active", "committing"} /\ staged[p] \in temps
        /\ pc[p] = "renamed" => phase[p] \in {"active", "committing"} /\ staged[p] \notin temps

\* A staged inode has one owner, which is alive.
OneOwner ==
    /\ \A p \in Writers : phase[p] # "none" => staged[p] \notin litter
    /\ \A p, q \in Writers : phase[p] # "none" /\ phase[q] # "none" /\ staged[p] = staged[q]
          => p = q
    /\ \A t \in temps \ litter : \E p \in Writers : phase[p] # "none" /\ staged[p] = t

\* A commit in progress holds the lock.
LockHeld == \A p \in Writers : pc[p] \in Critical => lock = {p}

\* A writer whose predecessor is the current file has staged what it holds and
\* the writer's own update, and one past its last comparison too, whatever is
\* edited since.
StagedMerges ==
    \A p \in Writers :
        (pc[p] = "final" \/ (pc[p] \in Staging \cup {"read"} /\ pred[p] = dest.id))
            => payload[p] = dest.has \cup {p} /\ p \notin dest.has

\* A renamed update is in the file, and a writer that is done owes no cleanup.
Returned ==
    \A p \in Writers :
        /\ pc[p] \in {"renamed", "done"} => p \in dest.has
        /\ pc[p] = "done" => phase[p] = "none"

FileInv == TypeOK /\ InodesUsed /\ PhasesFollow /\ OneOwner /\ LockHeld /\ StagedMerges
           /\ Returned

-----------------------------------------------------------------------------
(* Prepared files: the steps.                                              *)

\* The empty directory.
LEMMA InitFileInv == FileInit => FileInv
BY DEF FileInit, FileInv, TypeOK, InodesUsed, PhasesFollow, OneOwner, LockHeld,
   StagedMerges, Returned, Steps, Phases, Critical, Staging

\* An outside edit keeps the updates, in an inode no writer has read.
LEMMA ForeignEditKeeps == FileInv /\ ForeignEdit => FileInv'
<1> SUFFICES ASSUME FileInv, ForeignEdit PROVE FileInv'
  OBVIOUS
<1>1. TypeOK'
  BY DEF FileInv, ForeignEdit, NewInode, TypeOK, Steps, Phases,
     Critical
<1>2. InodesUsed'
  BY DEF FileInv, ForeignEdit, NewInode, TypeOK, InodesUsed, PhasesFollow,
     Staging
<1>3. PhasesFollow'
  BY DEF FileInv, ForeignEdit, NewInode, TypeOK, InodesUsed, PhasesFollow,
     OneOwner, Staging
<1>4. OneOwner'
  BY DEF FileInv, ForeignEdit, NewInode, TypeOK, InodesUsed, PhasesFollow,
     OneOwner, Staging
<1>5. LockHeld'
  BY DEF FileInv, ForeignEdit, NewInode, TypeOK, LockHeld, Critical
<1>6. StagedMerges'
  BY DEF FileInv, ForeignEdit, NewInode, TypeOK, InodesUsed, PhasesFollow,
     LockHeld, StagedMerges, Critical, Staging
<1>7. Returned'
  BY DEF FileInv, ForeignEdit, NewInode, TypeOK, InodesUsed, PhasesFollow,
     LockHeld, StagedMerges, Returned, Critical, Staging
<1> QED
  BY <1>1, <1>2, <1>3, <1>4, <1>5, <1>6, <1>7 DEF FileInv

\* Reading the file takes its inode and its updates together.
LEMMA ReadKeeps == \A p \in Writers : FileInv /\ Read(p) => FileInv'
<1> SUFFICES ASSUME NEW w \in Writers, FileInv, Read(w) PROVE FileInv'
  OBVIOUS
<1>1. TypeOK'
  BY DEF FileInv, Read, Goto, TypeOK, Steps, Phases, Critical
<1>2. InodesUsed'
  BY DEF FileInv, Read, Goto, TypeOK, InodesUsed, PhasesFollow, Staging
<1>3. PhasesFollow'
  BY DEF FileInv, Read, Goto, TypeOK, InodesUsed, PhasesFollow, OneOwner,
     Staging
<1>4. OneOwner'
  BY DEF FileInv, Read, Goto, TypeOK, InodesUsed, PhasesFollow, OneOwner,
     Staging
<1>5. LockHeld'
  BY DEF FileInv, Read, Goto, TypeOK, LockHeld, Critical
<1>6. StagedMerges'
  BY DEF FileInv, Read, Goto, TypeOK, InodesUsed, PhasesFollow, LockHeld,
     StagedMerges, Critical, Staging
<1>7. Returned'
  BY DEF FileInv, Read, Goto, TypeOK, InodesUsed, PhasesFollow, LockHeld,
     StagedMerges, Returned, Critical, Staging
<1> QED
  BY <1>1, <1>2, <1>3, <1>4, <1>5, <1>6, <1>7 DEF FileInv

\* The staged inode is new, so no other writer owns or read it.
LEMMA StageKeeps == \A p \in Writers : FileInv /\ Stage(p) => FileInv'
<1> SUFFICES ASSUME NEW w \in Writers, FileInv, Stage(w) PROVE FileInv'
  OBVIOUS
<1>1. TypeOK'
  BY DEF FileInv, Stage, NewInode, Goto, TypeOK, Steps, Phases,
     Critical
<1>2. InodesUsed'
  BY DEF FileInv, Stage, NewInode, Goto, TypeOK, InodesUsed, PhasesFollow,
     Staging
<1>3. PhasesFollow'
  BY DEF FileInv, Stage, NewInode, Goto, TypeOK, InodesUsed, PhasesFollow,
     OneOwner, Staging
<1>4. OneOwner'
  BY DEF FileInv, Stage, NewInode, Goto, TypeOK, InodesUsed, PhasesFollow,
     OneOwner, Staging
<1>5. LockHeld'
  BY DEF FileInv, Stage, NewInode, Goto, TypeOK, LockHeld, Critical
<1>6. StagedMerges'
  BY DEF FileInv, Stage, NewInode, Goto, TypeOK, InodesUsed, PhasesFollow,
     LockHeld, StagedMerges, Critical, Staging
<1>7. Returned'
  BY DEF FileInv, Stage, NewInode, Goto, TypeOK, InodesUsed, PhasesFollow,
     LockHeld, StagedMerges, Returned, Critical, Staging
<1> QED
  BY <1>1, <1>2, <1>3, <1>4, <1>5, <1>6, <1>7 DEF FileInv

\* A failed preparation owns what it leaves.
LEMMA StageFailsKeeps == \A p \in Writers : FileInv /\ StageFails(p) => FileInv'
<1> SUFFICES ASSUME NEW w \in Writers, FileInv, StageFails(w) PROVE FileInv'
  OBVIOUS
<1>1. CASE UNCHANGED <<inodes, temps, staged, phase>>
  BY <1>1 DEF FileInv, StageFails, Goto, TypeOK, InodesUsed, PhasesFollow,
     OneOwner, LockHeld, StagedMerges, Returned, Steps,
     Phases, Critical, Staging
<1>2. CASE /\ NewInode
           /\ temps' = temps \cup {inodes'}
           /\ staged' = [staged EXCEPT ![w] = inodes']
           /\ phase' = [phase EXCEPT ![w] = "cleanup"]
  <2>1. TypeOK'
    BY <1>2 DEF FileInv, StageFails, NewInode, Goto, TypeOK, Steps,
       Phases, Critical
  <2>2. InodesUsed'
    BY <1>2 DEF FileInv, StageFails, NewInode, Goto, TypeOK, InodesUsed
  <2>3. PhasesFollow'
    BY <1>2 DEF FileInv, StageFails, NewInode, Goto, TypeOK, InodesUsed,
       PhasesFollow, Staging
  <2>4. OneOwner'
    BY <1>2 DEF FileInv, StageFails, NewInode, Goto, TypeOK, InodesUsed,
       PhasesFollow, OneOwner
  <2>5. LockHeld'
    BY <1>2 DEF FileInv, StageFails, NewInode, Goto, TypeOK, LockHeld,
       Critical
  <2>6. StagedMerges'
    BY <1>2 DEF FileInv, StageFails, NewInode, Goto, TypeOK, StagedMerges,
       Staging
  <2>7. Returned'
    BY <1>2 DEF FileInv, StageFails, NewInode, Goto, TypeOK, StagedMerges, Returned,
       Staging
  <2> QED
    BY <2>1, <2>2, <2>3, <2>4, <2>5, <2>6, <2>7 DEF FileInv
<1> QED
  BY <1>1, <1>2 DEF StageFails

\* A verification changes nothing but the proof.
LEMMA VerifyKeeps == \A p \in Writers : FileInv /\ Verify(p) => FileInv'
<1> SUFFICES ASSUME NEW w \in Writers, FileInv, Verify(w) PROVE FileInv'
  OBVIOUS
<1>1. TypeOK'
  BY DEF FileInv, Verify, TypeOK, Steps, Phases, Critical
<1>2. InodesUsed'
  BY DEF FileInv, Verify, TypeOK, InodesUsed, PhasesFollow, Staging
<1>3. PhasesFollow'
  BY DEF FileInv, Verify, TypeOK, InodesUsed, PhasesFollow, OneOwner, Staging
<1>4. OneOwner'
  BY DEF FileInv, Verify, TypeOK, InodesUsed, PhasesFollow, OneOwner, Staging
<1>5. LockHeld'
  BY DEF FileInv, Verify, TypeOK, LockHeld, Critical
<1>6. StagedMerges'
  BY DEF FileInv, Verify, TypeOK, InodesUsed, PhasesFollow, LockHeld, StagedMerges,
     Critical, Staging
<1>7. Returned'
  BY DEF FileInv, Verify, TypeOK, InodesUsed, PhasesFollow, LockHeld, StagedMerges, Returned,
     Critical, Staging
<1> QED
  BY <1>1, <1>2, <1>3, <1>4, <1>5, <1>6, <1>7 DEF FileInv

\* The lock was free, so no other commit is in progress.
LEMMA LockKeeps == \A p \in Writers : FileInv /\ Lock(p) => FileInv'
<1> SUFFICES ASSUME NEW w \in Writers, FileInv, Lock(w) PROVE FileInv'
  OBVIOUS
<1>1. TypeOK'
  BY DEF FileInv, Lock, Goto, TypeOK, Steps, Phases, Critical
<1>2. InodesUsed'
  BY DEF FileInv, Lock, Goto, TypeOK, InodesUsed, PhasesFollow, Staging
<1>3. PhasesFollow'
  BY DEF FileInv, Lock, Goto, TypeOK, InodesUsed, PhasesFollow, OneOwner,
     Staging
<1>4. OneOwner'
  BY DEF FileInv, Lock, Goto, TypeOK, InodesUsed, PhasesFollow, OneOwner,
     Staging
<1>5. LockHeld'
  BY DEF FileInv, Lock, Goto, TypeOK, LockHeld, Critical
<1>6. StagedMerges'
  BY DEF FileInv, Lock, Goto, TypeOK, InodesUsed, PhasesFollow, LockHeld,
     StagedMerges, Critical, Staging
<1>7. Returned'
  BY DEF FileInv, Lock, Goto, TypeOK, InodesUsed, PhasesFollow, LockHeld,
     StagedMerges, Returned, Critical, Staging
<1> QED
  BY <1>1, <1>2, <1>3, <1>4, <1>5, <1>6, <1>7 DEF FileInv

\* The first comparison.
LEMMA CheckKeeps == \A p \in Writers : FileInv /\ Check(p) => FileInv'
<1> SUFFICES ASSUME NEW w \in Writers, FileInv, Check(w) PROVE FileInv'
  OBVIOUS
<1>1. TypeOK'
  BY DEF FileInv, Check, Goto, Cancel, InputsCurrent, TypeOK,
     Steps, Phases, Critical
<1>2. InodesUsed'
  BY DEF FileInv, Check, Goto, Cancel, InputsCurrent, TypeOK,
     InodesUsed, PhasesFollow, Staging
<1>3. PhasesFollow'
  BY DEF FileInv, Check, Goto, Cancel, InputsCurrent, TypeOK,
     InodesUsed, PhasesFollow, OneOwner, Staging
<1>4. OneOwner'
  BY DEF FileInv, Check, Goto, Cancel, InputsCurrent, TypeOK,
     InodesUsed, PhasesFollow, OneOwner, Staging
<1>5. LockHeld'
  BY DEF FileInv, Check, Goto, Cancel, InputsCurrent, TypeOK,
     LockHeld, Critical
<1>6. StagedMerges'
  BY DEF FileInv, Check, Goto, Cancel, InputsCurrent, TypeOK,
     InodesUsed, PhasesFollow, LockHeld, StagedMerges, Critical, Staging
<1>7. Returned'
  BY DEF FileInv, Check, Goto, Cancel, InputsCurrent, TypeOK,
     InodesUsed, PhasesFollow, LockHeld, StagedMerges, Returned, Critical, Staging
<1> QED
  BY <1>1, <1>2, <1>3, <1>4, <1>5, <1>6, <1>7 DEF FileInv

\* The proof is consumed.
LEMMA BeginKeeps == \A p \in Writers : FileInv /\ BeginCommit(p) => FileInv'
<1> SUFFICES ASSUME NEW w \in Writers, FileInv, BeginCommit(w) PROVE FileInv'
  OBVIOUS
<1>1. TypeOK'
  BY DEF FileInv, BeginCommit, Goto, Cancel, TypeOK, Steps, Phases,
     Critical
<1>2. InodesUsed'
  BY DEF FileInv, BeginCommit, Goto, Cancel, TypeOK, InodesUsed, PhasesFollow,
     Staging
<1>3. PhasesFollow'
  BY DEF FileInv, BeginCommit, Goto, Cancel, TypeOK, InodesUsed, PhasesFollow,
     OneOwner, Staging
<1>4. OneOwner'
  BY DEF FileInv, BeginCommit, Goto, Cancel, TypeOK, InodesUsed, PhasesFollow,
     OneOwner, Staging
<1>5. LockHeld'
  BY DEF FileInv, BeginCommit, Goto, Cancel, TypeOK, LockHeld, Critical
<1>6. StagedMerges'
  BY DEF FileInv, BeginCommit, Goto, Cancel, TypeOK, InodesUsed, PhasesFollow,
     LockHeld, StagedMerges, Critical, Staging
<1>7. Returned'
  BY DEF FileInv, BeginCommit, Goto, Cancel, TypeOK, InodesUsed, PhasesFollow,
     LockHeld, StagedMerges, Returned, Critical, Staging
<1> QED
  BY <1>1, <1>2, <1>3, <1>4, <1>5, <1>6, <1>7 DEF FileInv

\* The comparison after the policy makes the staged file cover the current one.
LEMMA DecideKeeps == \A p \in Writers : FileInv /\ Decide(p) => FileInv'
<1> SUFFICES ASSUME NEW w \in Writers, FileInv, Decide(w) PROVE FileInv'
  OBVIOUS
<1>1. TypeOK'
  BY DEF FileInv, Decide, Goto, Cancel, InputsCurrent, TypeOK,
     Steps, Phases, Critical
<1>2. InodesUsed'
  BY DEF FileInv, Decide, Goto, Cancel, InputsCurrent, TypeOK,
     InodesUsed, PhasesFollow, Staging
<1>3. PhasesFollow'
  BY DEF FileInv, Decide, Goto, Cancel, InputsCurrent, TypeOK,
     InodesUsed, PhasesFollow, OneOwner, Staging
<1>4. OneOwner'
  BY DEF FileInv, Decide, Goto, Cancel, InputsCurrent, TypeOK,
     InodesUsed, PhasesFollow, OneOwner, Staging
<1>5. LockHeld'
  BY DEF FileInv, Decide, Goto, Cancel, InputsCurrent, TypeOK,
     LockHeld, Critical
<1>6. StagedMerges'
  BY DEF FileInv, Decide, Goto, Cancel, InputsCurrent, TypeOK,
     InodesUsed, PhasesFollow, LockHeld, StagedMerges, Critical, Staging
<1>7. Returned'
  BY DEF FileInv, Decide, Goto, Cancel, InputsCurrent, TypeOK,
     InodesUsed, PhasesFollow, LockHeld, StagedMerges, Returned, Critical, Staging
<1> QED
  BY <1>1, <1>2, <1>3, <1>4, <1>5, <1>6, <1>7 DEF FileInv

\* The lock excludes every other commit.
LEMMA RenameKeeps == \A p \in Writers : FileInv /\ Rename(p) => FileInv'
<1> SUFFICES ASSUME NEW w \in Writers, FileInv, Rename(w) PROVE FileInv'
  OBVIOUS
<1>1. TypeOK'
  <2>1. litter' \subseteq temps'
    BY DEF FileInv, Rename, TypeOK, PhasesFollow, OneOwner, Staging
  <2>2. temps' \subseteq Nat
    BY DEF FileInv, Rename, TypeOK
  <2> QED
    BY <2>1, <2>2 DEF FileInv, Rename, Goto, TypeOK, Steps, Phases,
       Critical
<1>2. InodesUsed'
  BY DEF FileInv, Rename, Goto, TypeOK, InodesUsed, PhasesFollow, Staging
<1>3. PhasesFollow'
  BY DEF FileInv, Rename, Goto, TypeOK, InodesUsed, PhasesFollow, OneOwner,
     Staging
<1>4. OneOwner'
  BY DEF FileInv, Rename, Goto, TypeOK, InodesUsed, PhasesFollow, OneOwner,
     Staging
<1>5. LockHeld'
  BY DEF FileInv, Rename, Goto, TypeOK, LockHeld, Critical
<1>6. StagedMerges'
  BY DEF FileInv, Rename, Goto, TypeOK, InodesUsed, PhasesFollow, LockHeld,
     StagedMerges, Critical, Staging
<1>7. Returned'
  BY DEF FileInv, Rename, Goto, TypeOK, InodesUsed, PhasesFollow, LockHeld,
     StagedMerges, Returned, Critical, Staging
<1> QED
  BY <1>1, <1>2, <1>3, <1>4, <1>5, <1>6, <1>7 DEF FileInv

\* A rename that raises.
LEMMA RenameFailsKeeps == \A p \in Writers : FileInv /\ RenameFails(p) => FileInv'
<1> SUFFICES ASSUME NEW w \in Writers, FileInv, RenameFails(w) PROVE FileInv'
  OBVIOUS
<1>1. TypeOK'
  <2>1. litter' \subseteq temps'
    BY DEF FileInv, RenameFails, Consume, TypeOK, PhasesFollow, OneOwner,
       Staging
  <2>2. temps' \subseteq Nat
    BY DEF FileInv, RenameFails, Consume, TypeOK
  <2> QED
    BY <2>1, <2>2 DEF FileInv, RenameFails, Goto, Consume, TypeOK,
       Steps, Phases, Critical
<1>2. InodesUsed'
  BY DEF FileInv, RenameFails, Goto, Consume, TypeOK, InodesUsed,
     PhasesFollow, Staging
<1>3. PhasesFollow'
  BY DEF FileInv, RenameFails, Goto, Consume, TypeOK, InodesUsed,
     PhasesFollow, OneOwner, Staging
<1>4. OneOwner'
  <2>1. CASE temps' = temps \ {staged[w]} /\ phase' = [phase EXCEPT ![w] = "none"]
    BY <2>1 DEF FileInv, RenameFails, TypeOK, OneOwner
  <2>2. CASE UNCHANGED temps /\ phase' = [phase EXCEPT ![w] = "cleanup"]
    BY <2>2 DEF FileInv, RenameFails, TypeOK, PhasesFollow, OneOwner, Staging
  <2> QED
    BY <2>1, <2>2 DEF RenameFails, Consume
<1>5. LockHeld'
  BY DEF FileInv, RenameFails, Goto, Consume, TypeOK, LockHeld,
     Critical
<1>6. StagedMerges'
  BY DEF FileInv, RenameFails, Goto, Consume, TypeOK, InodesUsed,
     PhasesFollow, LockHeld, StagedMerges, Critical, Staging
<1>7. Returned'
  BY DEF FileInv, RenameFails, Goto, Consume, TypeOK, InodesUsed,
     PhasesFollow, LockHeld, StagedMerges, Returned, Critical, Staging
<1> QED
  BY <1>1, <1>2, <1>3, <1>4, <1>5, <1>6, <1>7 DEF FileInv

\* The publication is retired, its temporary is gone.
LEMMA FinishKeeps == \A p \in Writers : FileInv /\ Finish(p) => FileInv'
<1> SUFFICES ASSUME NEW w \in Writers, FileInv, Finish(w) PROVE FileInv'
  OBVIOUS
<1>1. TypeOK'
  BY DEF FileInv, Finish, Goto, TypeOK, Steps, Phases, Critical
<1>2. InodesUsed'
  BY DEF FileInv, Finish, Goto, TypeOK, InodesUsed, PhasesFollow, Staging
<1>3. PhasesFollow'
  BY DEF FileInv, Finish, Goto, TypeOK, InodesUsed, PhasesFollow, OneOwner,
     Staging
<1>4. OneOwner'
  BY DEF FileInv, Finish, Goto, TypeOK, InodesUsed, PhasesFollow, OneOwner,
     Staging
<1>5. LockHeld'
  BY DEF FileInv, Finish, Goto, TypeOK, LockHeld, Critical
<1>6. StagedMerges'
  BY DEF FileInv, Finish, Goto, TypeOK, InodesUsed, PhasesFollow, LockHeld,
     StagedMerges, Critical, Staging
<1>7. Returned'
  BY DEF FileInv, Finish, Goto, TypeOK, InodesUsed, PhasesFollow, LockHeld,
     StagedMerges, Returned, Critical, Staging
<1> QED
  BY <1>1, <1>2, <1>3, <1>4, <1>5, <1>6, <1>7 DEF FileInv

\* A publication is given up.
LEMMA DiscardKeeps == \A p \in Writers : FileInv /\ Discard(p) => FileInv'
<1> SUFFICES ASSUME NEW w \in Writers, FileInv, Discard(w) PROVE FileInv'
  OBVIOUS
<1>1. TypeOK'
  <2>1. litter' \subseteq temps'
    BY DEF FileInv, Discard, Consume, TypeOK, PhasesFollow, OneOwner, Staging
  <2>2. temps' \subseteq Nat
    BY DEF FileInv, Discard, Consume, TypeOK
  <2> QED
    BY <2>1, <2>2 DEF FileInv, Discard, Goto, Consume, TypeOK, Steps,
       Phases, Critical
<1>2. InodesUsed'
  BY DEF FileInv, Discard, Goto, Consume, TypeOK, InodesUsed, PhasesFollow,
     Staging
<1>3. PhasesFollow'
  BY DEF FileInv, Discard, Goto, Consume, TypeOK, InodesUsed, PhasesFollow,
     OneOwner, Staging
<1>4. OneOwner'
  <2>1. CASE temps' = temps \ {staged[w]} /\ phase' = [phase EXCEPT ![w] = "none"]
    BY <2>1 DEF FileInv, Discard, TypeOK, OneOwner
  <2>2. CASE UNCHANGED temps /\ phase' = [phase EXCEPT ![w] = "cleanup"]
    BY <2>2 DEF FileInv, Discard, TypeOK, PhasesFollow, OneOwner, Staging
  <2> QED
    BY <2>1, <2>2 DEF Discard, Consume
<1>5. LockHeld'
  BY DEF FileInv, Discard, Goto, Consume, TypeOK, LockHeld, Critical
<1>6. StagedMerges'
  BY DEF FileInv, Discard, Goto, Consume, TypeOK, InodesUsed, PhasesFollow,
     LockHeld, StagedMerges, Critical, Staging
<1>7. Returned'
  BY DEF FileInv, Discard, Goto, Consume, TypeOK, InodesUsed, PhasesFollow,
     LockHeld, StagedMerges, Returned, Critical, Staging
<1> QED
  BY <1>1, <1>2, <1>3, <1>4, <1>5, <1>6, <1>7 DEF FileInv

\* An owed cleanup.
LEMMA RetireKeeps == \A p \in Writers : FileInv /\ Retire(p) => FileInv'
<1> SUFFICES ASSUME NEW w \in Writers, FileInv, Retire(w) PROVE FileInv'
  OBVIOUS
<1>1. TypeOK'
  <2>1. litter' \subseteq temps'
    BY DEF FileInv, Retire, TypeOK, PhasesFollow, OneOwner, Staging
  <2>2. temps' \subseteq Nat
    BY DEF FileInv, Retire, TypeOK
  <2> QED
    BY <2>1, <2>2 DEF FileInv, Retire, TypeOK, Steps, Phases, Critical
<1>2. InodesUsed'
  BY DEF FileInv, Retire, TypeOK, InodesUsed, PhasesFollow, Staging
<1>3. PhasesFollow'
  BY DEF FileInv, Retire, TypeOK, InodesUsed, PhasesFollow, OneOwner, Staging
<1>4. OneOwner'
  BY DEF FileInv, Retire, TypeOK, InodesUsed, PhasesFollow, OneOwner, Staging
<1>5. LockHeld'
  BY DEF FileInv, Retire, TypeOK, LockHeld, Critical
<1>6. StagedMerges'
  BY DEF FileInv, Retire, TypeOK, InodesUsed, PhasesFollow, LockHeld, StagedMerges,
     Critical, Staging
<1>7. Returned'
  BY DEF FileInv, Retire, TypeOK, InodesUsed, PhasesFollow, LockHeld, StagedMerges, Returned,
     Critical, Staging
<1> QED
  BY <1>1, <1>2, <1>3, <1>4, <1>5, <1>6, <1>7 DEF FileInv

\* A death turns the staged file into litter.
LEMMA CrashKeeps == \A p \in Writers : FileInv /\ Crash(p) => FileInv'
<1> SUFFICES ASSUME NEW w \in Writers, FileInv, Crash(w) PROVE FileInv'
  OBVIOUS
<1>1. TypeOK'
  <2>1. litter' \subseteq temps'
    BY DEF FileInv, Crash, TypeOK, PhasesFollow, OneOwner, Staging
  <2>2. temps' \subseteq Nat
    BY DEF FileInv, Crash, TypeOK
  <2> QED
    BY <2>1, <2>2 DEF FileInv, Crash, Goto, TypeOK, Steps, Phases,
       Critical
<1>2. InodesUsed'
  BY DEF FileInv, Crash, Goto, TypeOK, InodesUsed, PhasesFollow, Staging
<1>3. PhasesFollow'
  BY DEF FileInv, Crash, Goto, TypeOK, InodesUsed, PhasesFollow, OneOwner,
     Staging
<1>4. OneOwner'
  BY DEF FileInv, Crash, Goto, TypeOK, InodesUsed, PhasesFollow, OneOwner,
     Staging
<1>5. LockHeld'
  BY DEF FileInv, Crash, Goto, TypeOK, LockHeld, Critical
<1>6. StagedMerges'
  BY DEF FileInv, Crash, Goto, TypeOK, InodesUsed, PhasesFollow, LockHeld,
     StagedMerges, Critical, Staging
<1>7. Returned'
  BY DEF FileInv, Crash, Goto, TypeOK, InodesUsed, PhasesFollow, LockHeld,
     StagedMerges, Returned, Critical, Staging
<1> QED
  BY <1>1, <1>2, <1>3, <1>4, <1>5, <1>6, <1>7 DEF FileInv

\* A step that changes nothing.
LEMMA FileStutterKeeps == FileInv /\ UNCHANGED fileVars => FileInv'
BY DEF FileInv, fileVars, TypeOK, InodesUsed, PhasesFollow, OneOwner, LockHeld,
   StagedMerges, Returned

\* Every step keeps the invariant.
LEMMA FileNextKeeps == FileInv /\ [FileNext]_fileVars => FileInv'
BY ForeignEditKeeps, ReadKeeps, StageKeeps, StageFailsKeeps, VerifyKeeps, LockKeeps,
   CheckKeeps, BeginKeeps, DecideKeeps, RenameKeeps, RenameFailsKeeps, FinishKeeps, DiscardKeeps,
   RetireKeeps, CrashKeeps, FileStutterKeeps DEF FileNext

\* The type invariant and the parts above hold in every reachable state.
THEOREM FileInvariance == FileSpec => []FileInv
<1>1. FileInit => FileInv
  BY InitFileInv
<1>2. FileInv /\ [FileNext]_fileVars => FileInv'
  BY FileNextKeeps
<1> QED
  BY <1>1, <1>2, PTL DEF FileSpec

\* Every temporary that prepare_file_update leaves in a directory has a live
\* publication or an owed cleanup, unless its process died.
THEOREM TemporariesOwned == FileSpec => []StagedOwned
<1>1. FileInv => StagedOwned
  BY DEF FileInv, StagedOwned, PhasesFollow, OneOwner, Staging
<1> QED
  BY <1>1, FileInvariance, PTL

\* commit_prepared_file never replaces an update it has not read: only Rename
\* changes what the file holds, and there the staged file covers it.
THEOREM NoUpdateLost == FileSpec => UpdatesSurvive
<1>1. FileInv /\ [FileNext]_fileVars => [dest.has \subseteq dest'.has]_fileVars
  <2> SUFFICES ASSUME FileInv, FileNext PROVE dest.has \subseteq dest'.has
    BY DEF fileVars
  <2>1. CASE ForeignEdit
    BY <2>1 DEF ForeignEdit, FileInv, TypeOK
  <2>2. ASSUME NEW w \in Writers, Rename(w) PROVE dest.has \subseteq dest'.has
    BY <2>2 DEF Rename, FileInv, StagedMerges, TypeOK
  <2>3. ASSUME NEW w \in Writers,
               \/ Read(w) \/ Stage(w) \/ StageFails(w) \/ Verify(w)
               \/ Lock(w) \/ Check(w) \/ BeginCommit(w) \/ Decide(w)
               \/ RenameFails(w) \/ Finish(w) \/ Discard(w) \/ Retire(w)
               \/ Crash(w)
        PROVE dest.has \subseteq dest'.has
    BY <2>3 DEF Read, Stage, StageFails, Verify, Lock, Check,
       BeginCommit, Decide, RenameFails, Finish, Discard, Retire,
       Crash
  <2> QED
    BY <2>1, <2>2, <2>3 DEF FileNext
<1> QED
  BY <1>1, FileInvariance, PTL DEF FileSpec, UpdatesSurvive

-----------------------------------------------------------------------------
(* Prepared files implement a file into which updates are merged in a step. *)

\* Nothing but a rename, and an edit that keeps the updates, changes the file,
\* and nothing but an answer to a writer changes who was told.
LEMMA QuietFile ==
    ASSUME NEW w \in Writers, dest' = dest, FileInv,
           \E s \in Steps : s # "done" /\ pc[w] # "done" /\ Goto(w, s)
    PROVE  UNCHANGED Merged!vars
BY DEF FileInv, TypeOK, Goto, Merged!vars

\* A rename merges the writer's update, an answer tells the writer of an update
\* that is in the file, and every other step is invisible.
LEMMA FileSteps == FileInv /\ [FileNext]_fileVars => [Merged!Next]_(Merged!vars)
<1> SUFFICES ASSUME FileInv, [FileNext]_fileVars
             PROVE  [Merged!Next]_(Merged!vars)
  OBVIOUS
<1>1. CASE UNCHANGED fileVars
  BY <1>1 DEF fileVars, Merged!vars
<1>2. CASE ForeignEdit
  BY <1>2 DEF ForeignEdit, Merged!vars, FileInv, TypeOK
<1>3. ASSUME NEW w \in Writers, Rename(w) PROVE Merged!Merge(w)
  BY <1>3 DEF Rename, Goto, Merged!Merge, FileInv, StagedMerges, TypeOK
<1>4. ASSUME NEW w \in Writers, Read(w) PROVE [Merged!Next]_(Merged!vars)
  <2>1. CASE w \in dest.has
    <3>1. Merged!Tell(w)
      BY <1>4, <2>1 DEF Read, Goto, Merged!Tell, FileInv, TypeOK
    <3> QED
      BY <3>1 DEF Merged!Next
  <2>2. CASE w \notin dest.has
    BY <1>4, <2>2 DEF Read, Goto, Merged!vars, FileInv, TypeOK
  <2> QED
    BY <2>1, <2>2
<1>5. ASSUME NEW w \in Writers, Finish(w) PROVE [Merged!Next]_(Merged!vars)
  <2>1. CASE dest.id = staged[w]
    <3>1. Merged!Tell(w)
      BY <1>5, <2>1 DEF Finish, Goto, Merged!Tell, FileInv, Returned, TypeOK
    <3> QED
      BY <3>1 DEF Merged!Next
  <2>2. CASE dest.id # staged[w]
    BY <1>5, <2>2 DEF Finish, Goto, Merged!vars, FileInv, TypeOK
  <2> QED
    BY <2>1, <2>2
<1>6. ASSUME NEW w \in Writers,
             \/ Stage(w) \/ StageFails(w) \/ Lock(w) \/ Check(w)
             \/ BeginCommit(w) \/ Decide(w) \/ RenameFails(w) \/ Discard(w)
             \/ Crash(w)
      PROVE  UNCHANGED Merged!vars
  <2>1. dest' = dest
    BY <1>6 DEF Stage, StageFails, Lock, Check, BeginCommit, Decide,
       RenameFails, Discard, Crash
  <2>2. pc[w] # "done"
    BY <1>6 DEF Stage, StageFails, Lock, Check, BeginCommit, Decide,
       RenameFails, Discard, Crash, FileInv, Returned
  <2>3. \E s \in Steps : s # "done" /\ Goto(w, s)
    BY <1>6 DEF Stage, StageFails, Lock, Check, BeginCommit, Decide,
       RenameFails, Discard, Crash, Cancel, Steps, Critical
  <2> QED
    BY <2>1, <2>2, <2>3, QuietFile
<1>7. ASSUME NEW w \in Writers, Verify(w) \/ Retire(w)
      PROVE  UNCHANGED Merged!vars
  BY <1>7 DEF Verify, Retire, Merged!vars
<1> QED
  BY <1>1, <1>2, <1>3, <1>4, <1>5, <1>6, <1>7 DEF FileNext, Merged!Next

\* prepare_file_update and commit_prepared_file, for any number of writers,
\* deaths and outside edits, are an atomic merge: each rename adds exactly one
\* writer's update to what the file holds at that moment, and a writer that was
\* told of its success finds its update in the file for ever.
THEOREM FilesMergeAtomically == FileSpec => MergesAtomically
<1>1. FileInit => Merged!Init
  BY DEF FileInit, Merged!Init
<1> QED
  BY <1>1, FileSteps, FileInvariance, PTL DEF FileSpec, MergesAtomically, Merged!Spec

========================================================================
