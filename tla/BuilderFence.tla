---------------------------- MODULE BuilderFence -----------------------------
(***************************************************************************)
(* The live builder fence of one shot: a System V semaphore set found by   *)
(* the shot's path (the live identity), then the flocks of the shot root   *)
(* and of the fence file, and the lease whose operations may outlive the   *)
(* context that issued it.                                                 *)
(*                                                                         *)
(* A set holds an initialization mutex, a marker with a fingerprint, and   *)
(* the builder semaphore.  A claimant takes the mutex, checks or writes    *)
(* the marker, arms its cleanup, claims the builder semaphore and gives    *)
(* the mutex back; the owner removes the whole set when it is done.        *)
(* SEM_UNDO returns what a dead process had claimed.  Every system call    *)
(* that takes or gives back is a step; the reads and writes of a set under *)
(* its mutex are one.  The file flock is taken under the root flock and    *)
(* released before it, so the two are one lock here.                       *)
(* An exception may be raised between any two steps.  Most are caught by a *)
(* clause that gives back what was taken; in the windows where none is     *)
(* (Strand), the process lives on with a mutex, a claim or a flock that    *)
(* only its exit gives back.                                               *)
(* External: the kernel's semaphores, a key already used by another        *)
(* program, the deaths of processes and the renaming of directories.       *)
(***************************************************************************)
EXTENDS Naturals, FiniteSets

CONSTANTS
    Builders,       \* processes that run builders or fenced operator commands
    Roots,          \* directories that may stand under the shot's path
    Probes,         \* bound: key probes, 32 in the code
    MaxOperations,  \* bound: concurrent operations of one lease
    None

ASSUME ProbesPositive == Probes \in Nat \ {0} /\ MaxOperations \in Nat
ASSUME BuildersFinite == IsFiniteSet(Builders)
ASSUME NoneNotBuilder == None \notin Builders

\* Ids of semaphore sets: as many as claimants remember and keys name.
SetIds == 0 .. Cardinality(Builders) + Probes - 1

VARIABLES
    sets,     \* sets[i]: the semaphore set with id i
    key,      \* key[n]: the id the kernel finds under the n-th probe's key
    root,     \* the directory under the shot's path
    flocked,  \* flocked[r]: the builder that holds the root flock of r
    pc,       \* where each claimant is
    opened,   \* opened[b]: the root directory b opened
    probe,    \* probe[b]: the probe b is at
    semid,    \* semid[b]: the set b works on
    armed,    \* armed[b]: whether b's cleanup removes semid[b]
    context,  \* context[b]: whether b's fence context is open
    working,  \* working[b]: operations that run under b's lease
    stranded  \* stranded[b]: whether an exception left b's live process with
              \* kernel state that nothing but its exit gives back

vars == <<sets, key, root, flocked, pc, opened, probe, semid, armed, context, working,
          stranded>>

Keys == 0 .. Probes - 1

\* Values of the marker semaphore: never set, the harness's with this path's
\* fingerprint, or another program's.
Markers == {"unset", "ours", "foreign"}

Sets == [live : BOOLEAN, init : Builders \cup {None}, marker : Markers,
         owner : Builders \cup {None}]

Removed == [live |-> FALSE, init |-> None, marker |-> "unset", owner |-> None]
Existing(marker) == [live |-> TRUE, init |-> None, marker |-> marker, owner |-> None]
Fresh == Existing("unset")

\* What the variables hold.
TypeOK ==
    /\ sets \in [SetIds -> Sets]
    /\ key \in [Keys -> SetIds \cup {None}]
    /\ root \in Roots
    /\ flocked \in [Roots -> Builders \cup {None}]
    /\ pc \in [Builders -> {"out", "open", "got", "init", "armed", "claimed", "identity",
                            "lease", "closing", "abort", "cleanup"}]
    /\ opened \in [Builders -> Roots \cup {None}]
    /\ probe \in [Builders -> Keys]
    /\ semid \in [Builders -> SetIds \cup {None}]
    /\ armed \in [Builders -> BOOLEAN]
    /\ context \in [Builders -> BOOLEAN]
    /\ working \in [Builders -> 0 .. MaxOperations]
    /\ stranded \in [Builders -> BOOLEAN]

Goto(b, label) == pc' = [pc EXCEPT ![b] = label]

LeaveAlone == UNCHANGED <<context, working, stranded>>

\* The attempt is over and the process remembers nothing of it.
Forget(b) ==
    /\ Goto(b, "out")
    /\ opened' = [opened EXCEPT ![b] = None]
    /\ probe' = [probe EXCEPT ![b] = 0]
    /\ semid' = [semid EXCEPT ![b] = None]
    /\ armed' = [armed EXCEPT ![b] = FALSE]

------------------------------------------------------------------------------
(* Claiming the identity.                                                  *)

\* builder_execution_fence opens the directory the path names now.
Open(b) ==
    /\ pc[b] = "out"
    /\ working[b] = 0
    /\ Goto(b, "open")
    /\ opened' = [opened EXCEPT ![b] = root]
    /\ probe' = [probe EXCEPT ![b] = 0]
    /\ UNCHANGED <<sets, key, root, flocked, semid, armed>>
    /\ LeaveAlone

\* Ids that name no set and that no claimant remembers.
UnusedIds == {i \in SetIds : ~sets[i].live /\ \A b \in Builders : semid[b] # i}

\* _open_semaphore_set: create the set of this probe's key, or find it.
OpenSet(b) ==
    /\ pc[b] = "open"
    /\ \/ /\ key[probe[b]] = None
          /\ \E i \in UnusedIds :
                /\ \A j \in UnusedIds : i <= j
                /\ semid' = [semid EXCEPT ![b] = i]
                /\ sets' = [sets EXCEPT ![i] = Fresh]
                /\ key' = [key EXCEPT ![probe[b]] = i]
       \/ /\ key[probe[b]] # None
          /\ semid' = [semid EXCEPT ![b] = key[probe[b]]]
          /\ UNCHANGED <<sets, key>>
    /\ Goto(b, "got")
    /\ UNCHANGED <<root, flocked, opened, probe, armed>>
    /\ LeaveAlone

\* The next probe, or the error that all of them collided.
NextProbe(b) ==
    IF probe[b] + 1 \in Keys
    THEN /\ Goto(b, "open")
         /\ probe' = [probe EXCEPT ![b] = @ + 1]
         /\ semid' = [semid EXCEPT ![b] = None]
         /\ UNCHANGED <<opened, armed>>
    ELSE Forget(b)

\* The initialization mutex: taken, busy (another claimant is active), or
\* gone because the owner removed the set meanwhile.  EINVAL goes on with
\* the next probe, EIDRM is an error.
TakeInit(b) ==
    LET i == semid[b]
    IN /\ pc[b] = "got"
       /\ \/ /\ sets[i].live /\ sets[i].init = None
             /\ sets' = [sets EXCEPT ![i].init = b]
             /\ Goto(b, "init")
             /\ UNCHANGED <<opened, probe, semid, armed>>
          \/ /\ sets[i].live => sets[i].init # None
             /\ Forget(b)
             /\ UNCHANGED sets
          \/ /\ ~sets[i].live
             /\ NextProbe(b)
             /\ UNCHANGED sets
       /\ UNCHANGED <<key, root, flocked>>
       /\ LeaveAlone

\* Under the mutex: write the marker of a new set, pass over another
\* program's set, stop at an active builder or at a set that is gone, and
\* otherwise arm the cleanup.
CheckSet(b) ==
    LET i == semid[b]
    IN /\ pc[b] = "init"
       /\ \/ /\ sets[i].live /\ sets[i].marker = "foreign"
             /\ sets' = [sets EXCEPT ![i].init = None]
             /\ NextProbe(b)
          \/ /\ sets[i].live /\ sets[i].marker # "foreign" /\ sets[i].owner = None
             /\ sets' = [sets EXCEPT ![i].marker = "ours"]
             /\ armed' = [armed EXCEPT ![b] = TRUE]
             /\ Goto(b, "armed")
             /\ probe' = [probe EXCEPT ![b] = 0]
             /\ UNCHANGED <<opened, semid>>
          \/ /\ sets[i].live => sets[i].owner # None
             /\ Goto(b, "abort")
             /\ probe' = [probe EXCEPT ![b] = 0]
             /\ UNCHANGED <<sets, opened, semid, armed>>
       /\ UNCHANGED <<key, root, flocked>>
       /\ LeaveAlone

\* The semop that claims the builder semaphore; a failed one disarms.
ClaimBuilder(b) ==
    LET i == semid[b]
    IN /\ pc[b] = "armed"
       /\ IF sets[i].live
          THEN /\ sets' = [sets EXCEPT ![i].owner = b]
               /\ Goto(b, "claimed")
               /\ UNCHANGED armed
          ELSE /\ armed' = [armed EXCEPT ![b] = FALSE]
               /\ Goto(b, "abort")
               /\ UNCHANGED sets
       /\ UNCHANGED <<key, root, flocked, opened, probe, semid>>
       /\ LeaveAlone

\* The mutex given back by the finally clause, after success or failure; a
\* set that is gone changes nothing, whether or not the error is raised.
GiveInitBack(b) ==
    /\ pc[b] \in {"claimed", "abort"}
    /\ sets' = [sets EXCEPT ![semid[b]].init = IF @ = b THEN None ELSE @]
    /\ IF pc[b] = "abort" /\ ~armed[b]
       THEN Forget(b)
       ELSE /\ Goto(b, IF pc[b] = "claimed" THEN "identity" ELSE "cleanup")
            /\ UNCHANGED <<opened, probe, semid, armed>>
    /\ UNCHANGED <<key, root, flocked>>
    /\ LeaveAlone

\* Mutant of LockRoot: the identity alone is trusted.
LeaseWithoutFlock(b) ==
    /\ pc[b] = "identity"
    /\ flocked' = [flocked EXCEPT ![opened[b]] = b]
    /\ context' = [context EXCEPT ![b] = TRUE]
    /\ Goto(b, "lease")
    /\ UNCHANGED <<sets, key, root, opened, probe, semid, armed, working, stranded>>

\* The non-blocking flocks, and the lease.
LockRoot(b) ==
    /\ pc[b] = "identity"
    /\ IF flocked[opened[b]] = None
       THEN /\ flocked' = [flocked EXCEPT ![opened[b]] = b]
            /\ context' = [context EXCEPT ![b] = TRUE]
            /\ Goto(b, "lease")
       ELSE /\ Goto(b, "cleanup")
            /\ UNCHANGED <<flocked, context>>
    /\ UNCHANGED <<sets, key, root, opened, probe, semid, armed, working, stranded>>

------------------------------------------------------------------------------
(* The lease.                                                              *)

\* operation: counted first, then refused when the path names another root.
BeginOperation(b) ==
    /\ pc[b] = "lease"
    /\ context[b]
    /\ working[b] < MaxOperations
    /\ opened[b] = root
    /\ working' = [working EXCEPT ![b] = @ + 1]
    /\ UNCHANGED <<sets, key, root, flocked, pc, opened, probe, semid, armed, context,
                   stranded>>

\* _release_if_unowned: the last of the context and its operations releases.
ReleaseIfUnowned(b, open, running) ==
    IF open \/ running > 0 THEN pc' = pc ELSE Goto(b, "closing")

EndOperation(b) ==
    /\ working[b] > 0
    /\ working' = [working EXCEPT ![b] = @ - 1]
    /\ ReleaseIfUnowned(b, context[b], working[b] - 1)
    /\ UNCHANGED <<sets, key, root, flocked, opened, probe, semid, armed, context, stranded>>

\* _close_owner, when the fence context ends.
CloseOwner(b) ==
    /\ pc[b] = "lease"
    /\ context[b]
    /\ context' = [context EXCEPT ![b] = FALSE]
    /\ ReleaseIfUnowned(b, FALSE, working[b])
    /\ UNCHANGED <<sets, key, root, flocked, opened, probe, semid, armed, working, stranded>>

UnlockRoot(b) ==
    /\ pc[b] = "closing"
    /\ flocked' = [flocked EXCEPT ![opened[b]] = None]
    /\ Goto(b, "cleanup")
    /\ UNCHANGED <<sets, key, root, opened, probe, semid, armed>>
    /\ LeaveAlone

\* LivePathIdentityClaim.release: an armed claim removes its set, whatever
\* became of it; a set that is gone is ignored.
Cleanup(b) ==
    /\ pc[b] = "cleanup"
    /\ IF sets[semid[b]].live
       THEN /\ sets' = [sets EXCEPT ![semid[b]] = Removed]
            /\ key' = [n \in Keys |-> IF key[n] = semid[b] THEN None ELSE key[n]]
       ELSE UNCHANGED <<sets, key>>
    /\ Forget(b)
    /\ UNCHANGED <<root, flocked>>
    /\ LeaveAlone

------------------------------------------------------------------------------
(* Interruptions, deaths and renamed directories.                          *)

\* An exception that a clause catches: before anything is taken it ends the
\* attempt; under the mutex it leads to the finally clause, with the identity
\* to the removal of the set.  In the finally clause, before the mutex is
\* given back, an armed cleanup removes the set with the mutex still taken.
Interrupt(b) ==
    /\ \/ /\ pc[b] \in {"open", "got"}
          /\ Forget(b)
       \/ /\ \/ pc[b] \in {"init", "armed", "claimed", "identity"}
             \/ pc[b] = "abort" /\ armed[b]
          /\ Goto(b, IF pc[b] \in {"identity", "abort"} THEN "cleanup" ELSE "abort")
          /\ UNCHANGED <<opened, probe, semid, armed>>
    /\ UNCHANGED <<sets, key, root, flocked>>
    /\ LeaveAlone

\* An exception that no clause makes good: after the semop that takes the
\* mutex and before the try that gives it back, or in its finally clause with
\* no cleanup armed; after _release_if_unowned marked the lease released and
\* before the flocks are undone; after _release_owned cleared its fields and
\* before the set is removed.  The process may claim again.
Strand(b) ==
    /\ \/ pc[b] \in {"init", "closing", "cleanup"}
       \/ pc[b] = "abort" /\ ~armed[b]
    /\ stranded' = [stranded EXCEPT ![b] = TRUE]
    /\ Forget(b)
    /\ UNCHANGED <<sets, key, root, flocked, context, working>>

\* Mutant of SemUndo: the kernel does not undo the initialization mutex of a dead process.
UndoBuilderOnly(b) ==
    [i \in SetIds |-> [sets[i] EXCEPT !.owner = IF @ = b THEN None ELSE @]]

\* SEM_UNDO: the mutex and the builder semaphore of a dead process.
SemUndo(b) ==
    LET Undone(holder) == IF holder = b THEN None ELSE holder
    IN [i \in SetIds |->
           [live |-> sets[i].live, marker |-> sets[i].marker,
            init |-> Undone(sets[i].init), owner |-> Undone(sets[i].owner)]]

Die(b) ==
    /\ pc[b] # "out" \/ stranded[b]
    /\ sets' = SemUndo(b)
    /\ flocked' = [r \in Roots |-> IF flocked[r] = b THEN None ELSE flocked[r]]
    /\ context' = [context EXCEPT ![b] = FALSE]
    /\ working' = [working EXCEPT ![b] = 0]
    /\ stranded' = [stranded EXCEPT ![b] = FALSE]
    /\ Forget(b)
    /\ UNCHANGED <<key, root>>

\* The shot directory is renamed away and another stands in its place.
Rebind ==
    /\ root' \in Roots \ {root}
    /\ UNCHANGED <<sets, key, flocked, pc, opened, probe, semid, armed>>
    /\ LeaveAlone

------------------------------------------------------------------------------
\* The first key may belong to another program.
Init ==
    /\ \/ /\ sets = [i \in SetIds |-> Removed]
          /\ key = [n \in Keys |-> None]
       \/ /\ sets = [i \in SetIds |->
                        IF i = 0 THEN Existing("foreign") ELSE Removed]
          /\ key = [n \in Keys |-> IF n = 0 THEN 0 ELSE None]
    /\ root \in Roots
    /\ flocked = [r \in Roots |-> None]
    /\ pc = [b \in Builders |-> "out"]
    /\ opened = [b \in Builders |-> None]
    /\ probe = [b \in Builders |-> 0]
    /\ semid = [b \in Builders |-> None]
    /\ armed = [b \in Builders |-> FALSE]
    /\ context = [b \in Builders |-> FALSE]
    /\ working = [b \in Builders |-> 0]
    /\ stranded = [b \in Builders |-> FALSE]

Next ==
    \/ \E b \in Builders :
        \/ Open(b) \/ OpenSet(b) \/ TakeInit(b) \/ CheckSet(b) \/ ClaimBuilder(b)
        \/ GiveInitBack(b) \/ LockRoot(b) \/ BeginOperation(b) \/ EndOperation(b)
        \/ CloseOwner(b) \/ UnlockRoot(b) \/ Cleanup(b) \/ Interrupt(b) \/ Strand(b)
        \/ Die(b)
    \/ Rebind

Spec == Init /\ [][Next]_vars

------------------------------------------------------------------------------
(* Properties.                                                             *)

\* Two builders never work in one shot directory at once, whatever claims,
\* removals, interruptions and deaths the others go through, and an operation
\* that outlives its fence context is still covered (operation, _close_owner).
OneBuilderPerRoot ==
    \A b, c \in Builders :
        b # c /\ working[b] > 0 /\ working[c] > 0 => opened[b] # opened[c]

\* Every mutex, claim and flock in the kernel belongs to a claimant under way
\* or to a live process that an exception stranded (Strand).  What the dead and
\* every other interrupted claimant took is given back, so that only a live
\* process ever makes the fence refuse the next builder, and its exit ends that
\* (SEM_UNDO, the finally clauses, _release_owned, the closed descriptors).
FenceRecovers ==
    \A b \in Builders : pc[b] = "out" /\ ~stranded[b] =>
        /\ \A i \in SetIds : sets[i].init # b /\ sets[i].owner # b
        /\ \A r \in Roots : flocked[r] # b
==============================================================================
