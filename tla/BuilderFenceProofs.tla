-------------------------- MODULE BuilderFenceProofs --------------------------
(***************************************************************************)
(* For any number of builders, directories and key probes: no two builders *)
(* work in one directory, and what the kernel still holds belongs to a     *)
(* claimant under way or to a live process that an exception stranded.     *)
(***************************************************************************)
EXTENDS BuilderFence, FiniteSetTheorems, TLAPS

-----------------------------------------------------------------------------
(* The inductive invariant: what the kernel holds for a builder is what    *)
(* the builder still has to give back, unless the builder is stranded.     *)

\* A claimant past the opening of the directory holds it open, one past the
\* opening of the set has an id, and the cleanup is armed before the claim.
Holds(b) ==
    /\ pc[b] \in {"armed", "claimed", "identity", "lease", "closing"} => armed[b]
    /\ pc[b] # "out" => opened[b] \in Roots
    /\ pc[b] \notin {"out", "open"} => semid[b] \in SetIds

\* The mutex of a set is held by a claimant that is between taking it and the
\* finally clause that gives it back, or that removes the set instead, and
\* works on that set.
MutexAccounted(b) ==
    \A i \in SetIds :
        sets[i].init = b =>
            \/ stranded[b]
            \/ /\ sets[i].live
               /\ semid[b] = i
               /\ pc[b] \in {"init", "armed", "claimed", "abort", "cleanup"}

\* The builder semaphore of a set is claimed by a process whose cleanup is armed for that
\* set, wherever its acquisition was interrupted.
ClaimAccounted(b) ==
    \A i \in SetIds :
        sets[i].owner = b =>
            \/ stranded[b]
            \/ /\ sets[i].live
               /\ semid[b] = i
               /\ armed[b]
               /\ pc[b] \in {"claimed", "identity", "lease", "closing", "abort", "cleanup"}

\* A root is locked by the process whose lease is for that root, until the lease
\* is closed.
FlockAccounted(b) ==
    /\ pc[b] \in {"lease", "closing"} => flocked[opened[b]] = b
    /\ \A r \in Roots :
          flocked[r] = b =>
              \/ stranded[b]
              \/ opened[b] = r /\ pc[b] \in {"lease", "closing"}

\* While an operation runs, the lease it began under stands.
WorkCovered(b) == working[b] > 0 => pc[b] = "lease"

Accounted(b) ==
    Holds(b) /\ MutexAccounted(b) /\ ClaimAccounted(b) /\ FlockAccounted(b) /\ WorkCovered(b)

IInv == TypeOK /\ \A b \in Builders : Accounted(b)

-----------------------------------------------------------------------------
(* What the steps have in common.                                          *)

\* The ids and the probes are numbered from zero.
LEMMA IdsStartAtZero == SetIds \subseteq Nat /\ 0 \in SetIds /\ 0 \in Keys
<1>1. Cardinality(Builders) \in Nat
  BY BuildersFinite, FS_CardinalityType
<1> QED
  BY <1>1, ProbesPositive DEF SetIds, Keys

\* The memory of c stays as it is, what the kernel holds for c stays or is
\* returned, and nothing is handed to c.
Undisturbed(c) ==
    /\ pc'[c] = pc[c] /\ opened'[c] = opened[c] /\ semid'[c] = semid[c]
    /\ armed'[c] = armed[c] /\ working'[c] = working[c] /\ stranded'[c] = stranded[c]
    /\ \A i \in SetIds :
          /\ sets'[i].init = c => sets[i].init = c /\ sets'[i].live = sets[i].live
          /\ sets'[i].owner = c => sets[i].owner = c /\ sets'[i].live = sets[i].live
    /\ \A r \in Roots : flocked'[r] = c <=> flocked[r] = c

\* Only b is affected.
OnlyFor(b) == \A c \in Builders \ {b} : Undisturbed(c)

\* A step of b keeps the account of every other builder.
LEMMA OthersAccounted ==
    ASSUME NEW b \in Builders, IInv, OnlyFor(b), TypeOK', Accounted(b)' PROVE IInv'
<1> SUFFICES ASSUME NEW c \in Builders \ {b} PROVE Accounted(c)'
  BY DEF IInv
<1>1. Accounted(c)
  BY DEF IInv
<1>2. Holds(c)'
  BY <1>1 DEF Accounted, Holds, OnlyFor, Undisturbed
<1>3. MutexAccounted(c)' /\ ClaimAccounted(c)'
  BY <1>1 DEF Accounted, MutexAccounted, ClaimAccounted, OnlyFor, Undisturbed
<1>4. FlockAccounted(c)'
  BY <1>1 DEF Accounted, Holds, FlockAccounted, OnlyFor, Undisturbed
<1>5. WorkCovered(c)'
  BY <1>1, ProbesPositive DEF Accounted, Holds, WorkCovered, OnlyFor, Undisturbed, IInv, TypeOK
<1> QED
  BY <1>2, <1>3, <1>4, <1>5 DEF Accounted

\* A claimant that gives up holds nothing, and neither does one that goes on
\* with the next probe.
LEMMA ForgetIsTyped ==
    ASSUME NEW b \in Builders, TypeOK, Forget(b) \/ NextProbe(b)
    PROVE  /\ pc' \in [Builders -> {"out", "open", "got", "init", "armed", "claimed", "identity",
                                    "lease", "closing", "abort", "cleanup"}]
           /\ opened' \in [Builders -> Roots \cup {None}]
           /\ probe' \in [Builders -> Keys]
           /\ semid' \in [Builders -> SetIds \cup {None}]
           /\ armed' \in [Builders -> BOOLEAN]
           /\ pc'[b] \in {"out", "open"}
           /\ pc'[b] = "open" => opened'[b] = opened[b]
           /\ \A c \in Builders \ {b} :
                 /\ pc'[c] = pc[c] /\ opened'[c] = opened[c] /\ semid'[c] = semid[c]
                 /\ armed'[c] = armed[c]
<1> USE DEF TypeOK, Goto
<1>1. CASE Forget(b)
  BY <1>1, IdsStartAtZero DEF Forget
<1>2. CASE NextProbe(b) /\ probe[b] + 1 \in Keys
  BY <1>2 DEF NextProbe
<1> QED
  BY <1>1, <1>2 DEF NextProbe

\* No claimant is under way, and at most one key belongs to another program.
LEMMA InitIInv == Init => IInv
<1> SUFFICES ASSUME Init PROVE IInv
  OBVIOUS
<1>1. Removed \in Sets /\ Existing("foreign") \in Sets
  BY DEF Sets, Removed, Existing, Markers
<1>2. sets \in [SetIds -> Sets] /\ key \in [Keys -> SetIds \cup {None}]
  BY <1>1, IdsStartAtZero DEF Init
<1>3. working \in [Builders -> 0 .. MaxOperations] /\ probe \in [Builders -> Keys]
  BY IdsStartAtZero, ProbesPositive DEF Init
<1>4. TypeOK
  BY <1>2, <1>3 DEF Init, TypeOK
<1>5. \A i \in SetIds : sets[i].init = None /\ sets[i].owner = None
  BY DEF Init, Removed, Existing
<1> QED
  BY <1>4, <1>5, NoneNotBuilder
  DEF Init, IInv, Accounted, Holds, MutexAccounted, ClaimAccounted, FlockAccounted, WorkCovered

-----------------------------------------------------------------------------
(* The steps of the acquisition.                                           *)

\* Opening the directory claims nothing.
LEMMA OpenKeeps == ASSUME NEW b \in Builders, IInv, Open(b) PROVE IInv'
<1> USE IdsStartAtZero, NoneNotBuilder DEF IInv, Open, LeaveAlone, Goto
<1>1. TypeOK'
  BY DEF TypeOK
<1>2. OnlyFor(b)
  BY DEF TypeOK, OnlyFor, Undisturbed
<1>3. Accounted(b)'
  BY DEF TypeOK, Accounted, Holds, MutexAccounted, ClaimAccounted, FlockAccounted, WorkCovered
<1> QED
  BY <1>1, <1>2, <1>3, OthersAccounted

\* Finding or creating the set claims nothing: a new id is one that nobody
\* remembers.
LEMMA OpenSetKeeps == ASSUME NEW b \in Builders, IInv, OpenSet(b) PROVE IInv'
<1> USE NoneNotBuilder DEF IInv, OpenSet, LeaveAlone, Goto
<1>1. UnusedIds \subseteq SetIds
  BY DEF UnusedIds
<1>2. Fresh \in Sets /\ Fresh.init = None /\ Fresh.owner = None
  BY DEF Fresh, Existing, Sets, Markers
<1>3. /\ sets' \in [SetIds -> Sets]
      /\ \A i \in SetIds : sets'[i] = sets[i] \/ sets'[i] = Fresh
      /\ key' \in [Keys -> SetIds \cup {None}]
      /\ semid' \in [Builders -> SetIds \cup {None}] /\ semid'[b] \in SetIds
  <2>1. CASE key[probe[b]] = None
    <3>1. PICK i \in UnusedIds : /\ semid' = [semid EXCEPT ![b] = i]
                                 /\ sets' = [sets EXCEPT ![i] = Fresh]
                                 /\ key' = [key EXCEPT ![probe[b]] = i]
      BY <2>1
    <3> QED
      BY <1>1, <1>2, <3>1 DEF TypeOK
  <2>2. CASE key[probe[b]] # None
    BY <2>2 DEF TypeOK
  <2> QED
    BY <2>1, <2>2
<1>4. \A i \in SetIds : \A c \in Builders :
         /\ sets'[i].init = c => sets[i].init = c /\ sets'[i].live = sets[i].live
         /\ sets'[i].owner = c => sets[i].owner = c /\ sets'[i] = sets[i]
  BY <1>2, <1>3
<1>5. TypeOK'
  BY <1>3 DEF TypeOK
<1>6. OnlyFor(b)
  BY <1>4 DEF TypeOK, OnlyFor, Undisturbed
<1>7. Accounted(b)'
  BY <1>3, <1>4
  DEF TypeOK, Accounted, Holds, MutexAccounted, ClaimAccounted, FlockAccounted, WorkCovered
<1> QED
  BY <1>5, <1>6, <1>7, OthersAccounted

\* The mutex is taken by one claimant at a time, and given up by none here.
LEMMA TakeInitKeeps == ASSUME NEW b \in Builders, IInv, TakeInit(b) PROVE IInv'
<1> USE NoneNotBuilder DEF IInv
<1> DEFINE i == semid[b]
<1>1. /\ pc[b] = "got" /\ i \in SetIds
      /\ ~stranded[b] => /\ \A j \in SetIds : sets[j].init # b /\ sets[j].owner # b
                         /\ \A r \in Roots : flocked[r] # b
      /\ ~(working[b] > 0)
  BY DEF TakeInit, Accounted, Holds, MutexAccounted, ClaimAccounted, FlockAccounted, WorkCovered
<1>2. CASE /\ sets[i].live /\ sets[i].init = None
           /\ sets' = [sets EXCEPT ![i].init = b]
           /\ Goto(b, "init")
           /\ UNCHANGED <<opened, probe, semid, armed>>
  <2>1. TypeOK'
    BY <1>1, <1>2 DEF TakeInit, TypeOK, Sets, Goto, LeaveAlone
  <2>2. OnlyFor(b)
    BY <1>1, <1>2 DEF TakeInit, TypeOK, OnlyFor, Undisturbed, Goto, LeaveAlone
  <2>3. ~stranded[b] => \A j \in SetIds : /\ sets'[j].init = b => j = i /\ sets'[j].live
                                           /\ sets'[j].owner # b
    BY <1>1, <1>2 DEF TypeOK, Sets
  <2>4. Accounted(b)'
    BY <1>1, <1>2, <2>3 DEF TakeInit, TypeOK, Accounted, Holds, MutexAccounted, ClaimAccounted,
       FlockAccounted, WorkCovered, Goto, LeaveAlone
  <2> QED
    BY <2>1, <2>2, <2>4, OthersAccounted
<1>3. CASE (Forget(b) \/ NextProbe(b)) /\ UNCHANGED sets
  <2>1. TypeOK'
    BY <1>3, ForgetIsTyped DEF TakeInit, TypeOK, LeaveAlone
  <2>2. OnlyFor(b)
    BY <1>3, ForgetIsTyped DEF TakeInit, OnlyFor, Undisturbed, LeaveAlone
  <2>3. Holds(b)'
    BY <1>1, <1>3, ForgetIsTyped DEF Accounted, Holds
  <2>4. Accounted(b)'
    BY <1>1, <1>3, <2>3, ForgetIsTyped DEF TakeInit, Accounted, MutexAccounted, ClaimAccounted,
       FlockAccounted, WorkCovered, LeaveAlone
  <2> QED
    BY <2>1, <2>2, <2>4, OthersAccounted
<1> QED
  BY <1>2, <1>3 DEF TakeInit

\* Under the mutex nothing is claimed, and what is passed over is given back.
LEMMA CheckSetKeeps == ASSUME NEW b \in Builders, IInv, CheckSet(b) PROVE IInv'
<1> USE NoneNotBuilder DEF IInv
<1> DEFINE i == semid[b]
<1>1. /\ pc[b] = "init" /\ i \in SetIds /\ opened[b] \in Roots
      /\ ~stranded[b] => /\ \A j \in SetIds : sets[j].init = b => j = i /\ sets[j].live
                         /\ \A j \in SetIds : sets[j].owner # b
                         /\ \A r \in Roots : flocked[r] # b
      /\ ~(working[b] > 0)
  BY DEF CheckSet, Accounted, Holds, MutexAccounted, ClaimAccounted, FlockAccounted, WorkCovered
<1>2. CASE sets' = [sets EXCEPT ![i].init = None] /\ NextProbe(b)
  <2>1. TypeOK'
    BY <1>1, <1>2, ForgetIsTyped DEF CheckSet, TypeOK, Sets, LeaveAlone
  <2>2. OnlyFor(b)
    BY <1>1, <1>2, ForgetIsTyped DEF CheckSet, TypeOK, OnlyFor, Undisturbed, LeaveAlone
  <2>3. Holds(b)'
    BY <1>1, <1>2, ForgetIsTyped DEF Accounted, Holds
  <2>4. ~stranded[b] => \A j \in SetIds : sets'[j].init # b /\ sets'[j].owner # b
    BY <1>1, <1>2 DEF TypeOK, Sets
  <2>5. Accounted(b)'
    BY <1>1, <1>2, <2>3, <2>4, ForgetIsTyped DEF CheckSet, Accounted, MutexAccounted, ClaimAccounted,
       FlockAccounted, WorkCovered, LeaveAlone
  <2> QED
    BY <2>1, <2>2, <2>5, OthersAccounted
<1>3. CASE /\ sets' = [sets EXCEPT ![i].marker = "ours"]
           /\ armed' = [armed EXCEPT ![b] = TRUE]
           /\ Goto(b, "armed")
           /\ probe' = [probe EXCEPT ![b] = 0]
           /\ UNCHANGED <<opened, semid>>
  <2>1. TypeOK'
    BY <1>1, <1>3, IdsStartAtZero DEF CheckSet, TypeOK, Sets, Markers, Goto, LeaveAlone
  <2>2. OnlyFor(b)
    BY <1>1, <1>3 DEF CheckSet, TypeOK, OnlyFor, Undisturbed, Goto, LeaveAlone
  <2>3. Accounted(b)'
    BY <1>1, <1>3 DEF CheckSet, TypeOK, Accounted, Holds, MutexAccounted, ClaimAccounted,
       FlockAccounted, WorkCovered, Goto, LeaveAlone
  <2> QED
    BY <2>1, <2>2, <2>3, OthersAccounted
<1>4. CASE /\ Goto(b, "abort")
           /\ probe' = [probe EXCEPT ![b] = 0]
           /\ UNCHANGED <<sets, opened, semid, armed>>
  <2>1. TypeOK'
    BY <1>4, IdsStartAtZero DEF CheckSet, TypeOK, Goto, LeaveAlone
  <2>2. OnlyFor(b)
    BY <1>4 DEF CheckSet, TypeOK, OnlyFor, Undisturbed, Goto, LeaveAlone
  <2>3. Accounted(b)'
    BY <1>1, <1>4 DEF CheckSet, TypeOK, Accounted, Holds, MutexAccounted, ClaimAccounted,
       FlockAccounted, WorkCovered, Goto, LeaveAlone
  <2> QED
    BY <2>1, <2>2, <2>3, OthersAccounted
<1> QED
  BY <1>2, <1>3, <1>4 DEF CheckSet


\* The builder semaphore is claimed with the cleanup already armed, and a
\* claim that fails disarms it.
LEMMA ClaimBuilderKeeps == ASSUME NEW b \in Builders, IInv, ClaimBuilder(b) PROVE IInv'
<1> USE NoneNotBuilder DEF IInv
<1> DEFINE i == semid[b]
<1>1. /\ pc[b] = "armed" /\ i \in SetIds /\ opened[b] \in Roots
      /\ ~stranded[b] => /\ \A j \in SetIds : sets[j].init = b => j = i /\ sets[j].live
                         /\ \A j \in SetIds : sets[j].owner # b
                         /\ \A r \in Roots : flocked[r] # b
      /\ ~(working[b] > 0)
  BY DEF ClaimBuilder, Accounted, Holds, MutexAccounted, ClaimAccounted, FlockAccounted,
     WorkCovered
<1>2. CASE sets[i].live
  <2>1. TypeOK'
    <3>1. sets' \in [SetIds -> Sets]
      BY <1>1, <1>2 DEF ClaimBuilder, TypeOK, Sets
    <3>2. pc' = [pc EXCEPT ![b] = "claimed"] /\ UNCHANGED armed
      BY <1>2 DEF ClaimBuilder, Goto
    <3> QED
      BY <3>1, <3>2 DEF ClaimBuilder, TypeOK, LeaveAlone
  <2>2. OnlyFor(b)
    <3>1. \A j \in SetIds : /\ sets'[j].init = sets[j].init /\ sets'[j].live = sets[j].live
                            /\ sets'[j].owner = sets[j].owner \/ sets'[j].owner = b
      BY <1>1, <1>2 DEF ClaimBuilder, TypeOK, Sets
    <3>2. /\ pc' = [pc EXCEPT ![b] = "claimed"]
          /\ UNCHANGED <<flocked, opened, semid, armed, working, stranded>>
      BY <1>2 DEF ClaimBuilder, Goto, LeaveAlone
    <3> QED
      BY <3>1, <3>2 DEF TypeOK, OnlyFor, Undisturbed
  <2>3. armed[b]
    BY <1>1 DEF Accounted, Holds
  <2>4. ~stranded[b] => \A j \in SetIds : sets'[j].owner = b => j = i /\ sets'[j].live
    BY <1>1, <1>2 DEF ClaimBuilder, TypeOK, Sets
  <2>5. ~stranded[b] => \A j \in SetIds : sets'[j].init = b => j = i /\ sets'[j].live
    BY <1>1, <1>2 DEF ClaimBuilder, TypeOK, Sets
  <2>6. pc'[b] = "claimed"
    BY <1>2 DEF ClaimBuilder, TypeOK, Goto
  <2>7. Accounted(b)'
    BY <1>1, <1>2, <2>3, <2>4, <2>5, <2>6 DEF ClaimBuilder, Accounted, Holds, MutexAccounted,
       ClaimAccounted, FlockAccounted, WorkCovered, LeaveAlone
  <2> QED
    BY <2>1, <2>2, <2>7, OthersAccounted
<1>3. CASE ~sets[i].live
  <2>1. TypeOK'
    BY <1>1, <1>3 DEF ClaimBuilder, TypeOK, Goto, LeaveAlone
  <2>2. OnlyFor(b)
    BY <1>1, <1>3 DEF ClaimBuilder, TypeOK, OnlyFor, Undisturbed, Goto, LeaveAlone
  <2>3. Accounted(b)'
    BY <1>1, <1>3 DEF ClaimBuilder, TypeOK, Accounted, Holds, MutexAccounted,
       ClaimAccounted, FlockAccounted, WorkCovered, Goto, LeaveAlone
  <2> QED
    BY <2>1, <2>2, <2>3, OthersAccounted
<1> QED
  BY <1>2, <1>3

\* The mutex is given back before anything else, and an attempt that is
\* forgotten here claimed nothing.
LEMMA GiveInitBackKeeps == ASSUME NEW b \in Builders, IInv, GiveInitBack(b) PROVE IInv'
<1> USE NoneNotBuilder DEF IInv
<1> DEFINE i == semid[b]
<1>1. /\ pc[b] \in {"claimed", "abort"} /\ i \in SetIds /\ opened[b] \in Roots
      /\ pc[b] = "claimed" => armed[b]
      /\ ~stranded[b] => /\ \A j \in SetIds : sets[j].init = b => j = i /\ sets[j].live
                         /\ \A j \in SetIds : sets[j].owner = b => j = i /\ armed[b]
                         /\ \A r \in Roots : flocked[r] # b
      /\ ~(working[b] > 0)
  BY DEF GiveInitBack, Accounted, Holds, MutexAccounted, ClaimAccounted, FlockAccounted,
     WorkCovered
<1>2. /\ sets' \in [SetIds -> Sets]
      /\ ~stranded[b] => \A j \in SetIds : sets'[j].init # b
      /\ \A j \in SetIds : sets'[j].owner = sets[j].owner /\ sets'[j].live = sets[j].live
      /\ \A j \in SetIds : \A c \in Builders : sets'[j].init = c => sets[j].init = c
  BY <1>1 DEF GiveInitBack, TypeOK, Sets
<1>3. CASE pc[b] = "abort" /\ ~armed[b]
  <2>1. Forget(b)
    BY <1>3 DEF GiveInitBack
  <2>2. TypeOK'
    BY <1>2, <2>1, ForgetIsTyped DEF GiveInitBack, TypeOK, LeaveAlone
  <2>3. OnlyFor(b)
    BY <1>2, <2>1, ForgetIsTyped DEF GiveInitBack, OnlyFor, Undisturbed, LeaveAlone
  <2>4. Holds(b)'
    BY <2>1 DEF TypeOK, Forget, Goto, Holds
  <2>5. Accounted(b)'
    BY <1>1, <1>2, <1>3, <2>1, <2>4, ForgetIsTyped DEF GiveInitBack, Accounted, MutexAccounted, ClaimAccounted,
       FlockAccounted, WorkCovered, LeaveAlone
  <2> QED
    BY <2>2, <2>3, <2>5, OthersAccounted
<1>4. CASE ~(pc[b] = "abort" /\ ~armed[b])
  <2>1. /\ pc' = [pc EXCEPT ![b] = IF pc[b] = "claimed" THEN "identity" ELSE "cleanup"]
        /\ UNCHANGED <<opened, probe, semid, armed>>
    BY <1>4 DEF GiveInitBack, Goto
  <2>2. TypeOK'
    BY <1>2, <2>1 DEF GiveInitBack, TypeOK, LeaveAlone
  <2>3. OnlyFor(b)
    BY <1>2, <2>1 DEF GiveInitBack, TypeOK, OnlyFor, Undisturbed, LeaveAlone
  <2>4. pc'[b] \in {"identity", "cleanup"} /\ (pc'[b] = "identity" => armed[b])
    BY <1>1, <2>1 DEF TypeOK
  <2>5. Accounted(b)'
    BY <1>1, <1>2, <2>1, <2>4 DEF GiveInitBack, TypeOK, Accounted, Holds, MutexAccounted,
       ClaimAccounted, FlockAccounted, WorkCovered, LeaveAlone
  <2> QED
    BY <2>2, <2>3, <2>5, OthersAccounted
<1> QED
  BY <1>3, <1>4

\* The lease begins with the flock of the directory it is for.
LEMMA LockRootKeeps == ASSUME NEW b \in Builders, IInv, LockRoot(b) PROVE IInv'
<1> USE NoneNotBuilder DEF IInv
<1>1. /\ pc[b] = "identity" /\ opened[b] \in Roots
      /\ ~stranded[b] => \A r \in Roots : flocked[r] # b
  BY DEF LockRoot, Accounted, Holds, FlockAccounted
<1>2. TypeOK'
  <2>1. context' \in [Builders -> BOOLEAN]
    BY DEF LockRoot, TypeOK
  <2>2. flocked' \in [Roots -> Builders \cup {None}]
    BY <1>1 DEF LockRoot, TypeOK
  <2> QED
    BY <2>1, <2>2 DEF LockRoot, TypeOK, Goto
<1>3. OnlyFor(b)
  <2>1. \A c \in Builders \ {b} : \A r \in Roots : flocked'[r] = c <=> flocked[r] = c
    BY <1>1 DEF LockRoot, TypeOK
  <2>2. \A c \in Builders \ {b} : pc'[c] = pc[c]
    BY DEF LockRoot, TypeOK, Goto
  <2> QED
    BY <2>1, <2>2 DEF LockRoot, OnlyFor, Undisturbed
<1>4. ~(working[b] > 0)
  BY <1>1 DEF Accounted, WorkCovered
<1>5. Accounted(b)'
  BY <1>1, <1>4 DEF LockRoot, TypeOK, Accounted, Holds, MutexAccounted, ClaimAccounted,
     FlockAccounted, WorkCovered, Goto
<1> QED
  BY <1>2, <1>3, <1>5, OthersAccounted

-----------------------------------------------------------------------------
(* The steps of the lease.                                                 *)

\* An operation begins under a lease that holds its flock, and one that ends
\* gives the flock up only when it is the last.
LEMMA OperationsKeep ==
    ASSUME NEW b \in Builders, IInv, BeginOperation(b) \/ EndOperation(b) \/ CloseOwner(b)
    PROVE  IInv'
<1> USE NoneNotBuilder, ProbesPositive DEF IInv
<1>1. /\ pc[b] = "lease" /\ opened[b] \in Roots
      /\ working[b] \in 0 .. MaxOperations
      /\ pc' = pc \/ pc' = [pc EXCEPT ![b] = "closing"]
      /\ working' \in [Builders -> 0 .. MaxOperations]
      /\ pc' = pc \/ ~(working'[b] > 0)
      /\ \A c \in Builders \ {b} : working'[c] = working[c]
      /\ context' \in [Builders -> BOOLEAN]
      /\ UNCHANGED <<sets, key, root, flocked, opened, probe, semid, armed, stranded>>
  <2>1. CASE BeginOperation(b)
    BY <2>1 DEF BeginOperation, TypeOK, Accounted, Holds
  <2>2. CASE EndOperation(b)
    BY <2>2 DEF EndOperation, ReleaseIfUnowned, Goto, TypeOK, Accounted, Holds, WorkCovered
  <2>3. CASE CloseOwner(b)
    BY <2>3 DEF CloseOwner, ReleaseIfUnowned, Goto, TypeOK, Accounted, Holds, WorkCovered
  <2> QED
    BY <2>1, <2>2, <2>3
<1>2. flocked[opened[b]] = b
  BY <1>1 DEF Accounted, FlockAccounted
<1>3. TypeOK'
  BY <1>1 DEF TypeOK
<1>4. OnlyFor(b)
  BY <1>1 DEF TypeOK, OnlyFor, Undisturbed
<1>5. Accounted(b)'
  BY <1>1, <1>2 DEF TypeOK, Accounted, Holds, MutexAccounted, ClaimAccounted, FlockAccounted,
     WorkCovered
<1> QED
  BY <1>3, <1>4, <1>5, OthersAccounted


\* The flock of the directory goes with the last operation.
LEMMA UnlockRootKeeps == ASSUME NEW b \in Builders, IInv, UnlockRoot(b) PROVE IInv'
<1> USE NoneNotBuilder DEF IInv
<1>1. /\ pc[b] = "closing" /\ opened[b] \in Roots
      /\ ~stranded[b] => \A r \in Roots : flocked[r] = b => r = opened[b]
  BY DEF UnlockRoot, Accounted, Holds, FlockAccounted
<1>2. flocked[opened[b]] = b
  BY <1>1 DEF Accounted, FlockAccounted
<1>3. TypeOK'
  BY <1>1 DEF UnlockRoot, TypeOK, Goto, LeaveAlone
<1>4. OnlyFor(b)
  <2>1. \A c \in Builders \ {b} : \A r \in Roots : flocked'[r] = c <=> flocked[r] = c
    BY <1>1, <1>2 DEF UnlockRoot, TypeOK
  <2>2. \A c \in Builders \ {b} : pc'[c] = pc[c]
    BY DEF UnlockRoot, TypeOK, Goto
  <2> QED
    BY <2>1, <2>2 DEF UnlockRoot, OnlyFor, Undisturbed, LeaveAlone
<1>5. ~stranded[b] => \A r \in Roots : flocked'[r] # b
  BY <1>1 DEF UnlockRoot, TypeOK
<1>6. pc'[b] = "cleanup"
  BY DEF UnlockRoot, TypeOK, Goto
<1>7. ~(working[b] > 0)
  BY <1>1 DEF Accounted, WorkCovered
<1>8. Accounted(b)'
  BY <1>1, <1>5, <1>6, <1>7 DEF UnlockRoot, Accounted, Holds, MutexAccounted, ClaimAccounted,
     FlockAccounted, WorkCovered, LeaveAlone
<1> QED
  BY <1>3, <1>4, <1>8, OthersAccounted

\* The cleanup removes the set it was armed for, with whatever claim another
\* builder still had on it.
LEMMA CleanupKeeps == ASSUME NEW b \in Builders, IInv, Cleanup(b) PROVE IInv'
<1> USE NoneNotBuilder DEF IInv
<1>1. /\ pc[b] = "cleanup" /\ semid[b] \in SetIds
      /\ ~stranded[b] => /\ \A j \in SetIds : sets[j].init = b => j = semid[b] /\ sets[j].live
                         /\ \A j \in SetIds : sets[j].owner = b => j = semid[b] /\ sets[j].live
                         /\ \A r \in Roots : flocked[r] # b
      /\ ~(working[b] > 0)
  BY DEF Cleanup, Accounted, Holds, MutexAccounted, ClaimAccounted, FlockAccounted, WorkCovered
<1>2. Removed \in Sets /\ Removed.init = None /\ Removed.owner = None
  BY DEF Removed, Sets, Markers
<1>3. /\ sets' \in [SetIds -> Sets]
      /\ key' \in [Keys -> SetIds \cup {None}]
      /\ ~stranded[b] => \A j \in SetIds : sets'[j].init # b /\ sets'[j].owner # b
      /\ \A j \in SetIds : sets'[j] = sets[j] \/ sets'[j] = Removed
  <2>1. CASE sets[semid[b]].live
    <3>1. /\ sets' = [sets EXCEPT ![semid[b]] = Removed]
          /\ key' = [n \in Keys |-> IF key[n] = semid[b] THEN None ELSE key[n]]
      BY <2>1 DEF Cleanup
    <3> QED
      BY <1>1, <1>2, <3>1 DEF TypeOK
  <2>2. CASE ~sets[semid[b]].live
    <3>1. ~stranded[b] => \A j \in SetIds : sets[j].init # b /\ sets[j].owner # b
      BY <1>1, <2>2
    <3> QED
      BY <2>2, <3>1 DEF Cleanup, TypeOK
  <2> QED
    BY <2>1, <2>2
<1>4. Forget(b) /\ UNCHANGED <<root, flocked, context, working, stranded>>
  BY DEF Cleanup, LeaveAlone
<1>5. TypeOK'
  BY <1>3, <1>4, ForgetIsTyped DEF TypeOK
<1>6. OnlyFor(b)
  <2>1. \A c \in Builders : \A j \in SetIds : /\ sets'[j].init = c => sets'[j] = sets[j]
                                              /\ sets'[j].owner = c => sets'[j] = sets[j]
    BY <1>2, <1>3
  <2>2. \A c \in Builders \ {b} :
           /\ pc'[c] = pc[c] /\ opened'[c] = opened[c] /\ semid'[c] = semid[c]
           /\ armed'[c] = armed[c]
    BY <1>4, ForgetIsTyped
  <2>3. ASSUME NEW c \in Builders \ {b} PROVE Undisturbed(c)
    <3>1. \A i \in SetIds :
             /\ sets'[i].init = c => sets[i].init = c /\ sets'[i].live = sets[i].live
             /\ sets'[i].owner = c => sets[i].owner = c /\ sets'[i].live = sets[i].live
      BY <2>1, Zenon
    <3>2. UNCHANGED <<flocked, working, stranded>>
      BY <1>4
    <3> QED
      BY <2>2, <3>1, <3>2, Zenon DEF Undisturbed
  <2> QED
    BY <2>3 DEF OnlyFor
<1>7. pc'[b] = "out"
  BY <1>4 DEF Forget, Goto, TypeOK
<1>8. Accounted(b)'
  BY <1>1, <1>3, <1>4, <1>7 DEF Accounted, Holds, MutexAccounted, ClaimAccounted, FlockAccounted,
     WorkCovered
<1> QED
  BY <1>5, <1>6, <1>8, OthersAccounted

-----------------------------------------------------------------------------
(* Interruptions, deaths, renamed directories.                             *)

\* An interrupted acquisition goes to the clause that gives back what it took.
LEMMA InterruptKeeps == ASSUME NEW b \in Builders, IInv, Interrupt(b) PROVE IInv'
<1> USE NoneNotBuilder DEF IInv
<1>1. UNCHANGED <<sets, key, root, flocked, context, working, stranded>> /\ ~(working[b] > 0)
  BY DEF Interrupt, LeaveAlone, Accounted, WorkCovered
<1>2. CASE pc[b] \in {"open", "got"} /\ Forget(b)
  <2>1. TypeOK'
    BY <1>1, <1>2, ForgetIsTyped DEF TypeOK
  <2>2. OnlyFor(b)
    BY <1>1, <1>2, ForgetIsTyped DEF OnlyFor, Undisturbed
  <2>3. pc'[b] = "out"
    BY <1>2 DEF Forget, Goto, TypeOK
  <2>4. ~stranded[b] => /\ \A i \in SetIds : sets[i].init # b /\ sets[i].owner # b
                        /\ \A r \in Roots : flocked[r] # b
    BY <1>2 DEF Accounted, MutexAccounted, ClaimAccounted, FlockAccounted
  <2>5. Accounted(b)'
    BY <1>1, <2>3, <2>4 DEF Accounted, Holds, MutexAccounted, ClaimAccounted,
       FlockAccounted, WorkCovered
  <2> QED
    BY <2>1, <2>2, <2>5, OthersAccounted
<1>3. CASE /\ pc[b] \in {"init", "armed", "claimed", "identity", "abort"}
           /\ Goto(b, IF pc[b] \in {"identity", "abort"} THEN "cleanup" ELSE "abort")
           /\ UNCHANGED <<opened, probe, semid, armed>>
  <2>1. TypeOK'
    BY <1>1, <1>3 DEF Goto, TypeOK
  <2>2. OnlyFor(b)
    BY <1>1, <1>3 DEF Goto, TypeOK, OnlyFor, Undisturbed
  <2>3. pc'[b] = IF pc[b] \in {"identity", "abort"} THEN "cleanup" ELSE "abort"
    BY <1>3 DEF Goto, TypeOK
  <2>4. Accounted(b)'
    BY <1>1, <1>3, <2>3 DEF Accounted, Holds, MutexAccounted, ClaimAccounted,
       FlockAccounted, WorkCovered
  <2> QED
    BY <2>1, <2>2, <2>4, OthersAccounted
<1> QED
  BY <1>2, <1>3 DEF Interrupt

\* What the kernel holds for a stranded process, its mark accounts for.
LEMMA StrandKeeps == ASSUME NEW b \in Builders, IInv, Strand(b) PROVE IInv'
<1> USE NoneNotBuilder DEF IInv
<1>1. /\ Forget(b) /\ UNCHANGED <<sets, key, root, flocked, context, working>>
      /\ stranded' \in [Builders -> BOOLEAN] /\ stranded'[b]
      /\ \A c \in Builders \ {b} : stranded'[c] = stranded[c]
      /\ ~(working[b] > 0)
  BY DEF Strand, TypeOK, Accounted, WorkCovered
<1>2. TypeOK'
  BY <1>1, ForgetIsTyped DEF TypeOK
<1>3. OnlyFor(b)
  BY <1>1, ForgetIsTyped DEF OnlyFor, Undisturbed
<1>4. pc'[b] = "out"
  BY <1>1 DEF Forget, Goto, TypeOK
<1>5. Accounted(b)'
  BY <1>1, <1>4 DEF Accounted, Holds, MutexAccounted, ClaimAccounted, FlockAccounted, WorkCovered
<1> QED
  BY <1>2, <1>3, <1>5, OthersAccounted

\* The kernel returns what a dead process had claimed.
LEMMA DieKeeps == ASSUME NEW b \in Builders, IInv, Die(b) PROVE IInv'
<1> USE NoneNotBuilder DEF IInv
<1>1. sets' \in [SetIds -> Sets]
  BY DEF Die, SemUndo, TypeOK, Sets
<1>2. \A i \in SetIds : sets'[i].init # b /\ sets'[i].owner # b
  BY DEF Die, SemUndo, TypeOK, Sets
<1>3. \A i \in SetIds : \A c \in Builders : /\ sets'[i].init = c => sets[i].init = c
                                            /\ sets'[i].owner = c => sets[i].owner = c
                                            /\ sets'[i].live = sets[i].live
  BY DEF Die, SemUndo, TypeOK, Sets
<1>4. /\ flocked' \in [Roots -> Builders \cup {None}]
      /\ \A r \in Roots : flocked'[r] # b
      /\ \A r \in Roots : \A c \in Builders \ {b} : flocked'[r] = c <=> flocked[r] = c
  BY DEF Die, TypeOK
<1>5. /\ working' \in [Builders -> 0 .. MaxOperations] /\ ~(working'[b] > 0)
      /\ \A c \in Builders \ {b} : working'[c] = working[c]
  BY ProbesPositive DEF Die, TypeOK
<1>6. /\ context' \in [Builders -> BOOLEAN] /\ stranded' \in [Builders -> BOOLEAN]
      /\ \A c \in Builders \ {b} : stranded'[c] = stranded[c]
  BY DEF Die, TypeOK
<1>7. Forget(b) /\ UNCHANGED <<key, root>>
  BY DEF Die
<1>8. TypeOK'
  BY <1>1, <1>4, <1>5, <1>6, <1>7, ForgetIsTyped DEF TypeOK
<1>9. OnlyFor(b)
  <2>1. \A c \in Builders \ {b} :
           /\ pc'[c] = pc[c] /\ opened'[c] = opened[c] /\ semid'[c] = semid[c]
           /\ armed'[c] = armed[c]
    BY <1>7, ForgetIsTyped
  <2>2. ASSUME NEW c \in Builders \ {b} PROVE Undisturbed(c)
    <3>1. \A i \in SetIds :
             /\ sets'[i].init = c => sets[i].init = c /\ sets'[i].live = sets[i].live
             /\ sets'[i].owner = c => sets[i].owner = c /\ sets'[i].live = sets[i].live
      BY <1>3, Zenon
    <3>2. \A r \in Roots : flocked'[r] = c <=> flocked[r] = c
      BY <1>4
    <3>3. working'[c] = working[c] /\ stranded'[c] = stranded[c]
      BY <1>5, <1>6
    <3> QED
      BY <2>1, <3>1, <3>2, <3>3, Zenon DEF Undisturbed
  <2> QED
    BY <2>2 DEF OnlyFor
<1>10. pc'[b] = "out"
  BY <1>7 DEF Forget, Goto, TypeOK
<1>11. Accounted(b)'
  BY <1>2, <1>4, <1>5, <1>10 DEF Accounted, Holds, MutexAccounted, ClaimAccounted,
     FlockAccounted, WorkCovered
<1> QED
  BY <1>8, <1>9, <1>11, OthersAccounted

\* A renamed directory changes what the path names and nothing that is held.
LEMMA RebindKeeps == IInv /\ (Rebind \/ UNCHANGED vars) => IInv'
BY DEF IInv, Rebind, LeaveAlone, vars, TypeOK, Accounted, Holds, MutexAccounted, ClaimAccounted,
   FlockAccounted, WorkCovered

\* Every step keeps the account.
LEMMA NextIInv == IInv /\ [Next]_vars => IInv'
BY OpenKeeps, OpenSetKeeps, TakeInitKeeps, CheckSetKeeps, ClaimBuilderKeeps, GiveInitBackKeeps,
   LockRootKeeps, OperationsKeep, UnlockRootKeeps, CleanupKeeps, InterruptKeeps, StrandKeeps,
   DieKeeps, RebindKeeps DEF Next

\* The account is exact in every reachable state.
LEMMA Invariance == Spec => []IInv
BY InitIInv, NextIInv, PTL DEF Spec

-----------------------------------------------------------------------------
(* The theorems.                                                           *)

\* The variables of the fence hold what the system calls can put in them.
THEOREM TypeCorrect == Spec => []TypeOK
<1>1. IInv => TypeOK
  BY DEF IInv
<1> QED
  BY <1>1, Invariance, PTL

\* However many builders claim, remove, are interrupted and die, and whatever
\* stands under the path, two of them never work in one directory, not even
\* through operations that outlive their fence contexts.
THEOREM OneBuilderInARoot == Spec => []OneBuilderPerRoot
<1>1. IInv => OneBuilderPerRoot
  BY NoneNotBuilder
  DEF IInv, OneBuilderPerRoot, Accounted, FlockAccounted, WorkCovered
<1> QED
  BY <1>1, Invariance, PTL

\* Whatever the kernel still holds belongs to a claimant under way or to a live
\* process that an exception stranded: deaths and every other interruption give
\* back what they found taken.
THEOREM TheFenceRecovers == Spec => []FenceRecovers
<1>1. IInv => FenceRecovers
  BY DEF IInv, FenceRecovers, TypeOK, Sets, Accounted, MutexAccounted, ClaimAccounted,
     FlockAccounted
<1> QED
  BY <1>1, Invariance, PTL

===============================================================================
