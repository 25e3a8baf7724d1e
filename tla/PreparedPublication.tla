-------------------------- MODULE PreparedPublication --------------------------
(***************************************************************************)
(* Compare-and-swap publication of a mutable side file                     *)
(* (observability/prepared_publication.py and its registry). A writer      *)
(* reads the file, merges its own update into what it read and stages the  *)
(* result, all without a lock; the commit takes the file's permanent lock  *)
(* without waiting, compares the file with the predecessor it read, asks   *)
(* the stored policy, compares again and renames.                          *)
(*                                                                         *)
(* A file is its inode and the updates it holds; a writer's update is the  *)
(* writer. Every generation of a file, and every staged one, is a new      *)
(* inode. Programs outside the protocol may rewrite the file at any time;  *)
(* they keep the updates in it. The lock file and the directories stay.    *)
(***************************************************************************)
EXTENDS Integers, FiniteSets

CONSTANTS
    Writers,     \* threads, of one or several processes
    MaxInodes,   \* bound: files created
    MaxCrashes   \* bound: deaths of writers

VARIABLES
    dest,      \* the destination: [id, has]; id 0 is an absent file
    inodes,    \* the last inode given out
    temps,     \* staged inodes that have a name in the directory
    litter,    \* the ones among them whose process died
    lock,      \* the holder of the publication lock, {} when it is free
    pc,        \* step of the writer
    phase,     \* phase of its publication in the registry
    pred,      \* inode of the predecessor it read
    payload,   \* updates in what it staged
    staged,    \* inode it staged
    proof,     \* its payload verification
    crashes

fileVars == <<dest, inodes, temps, litter, lock, pc, phase, pred, payload, staged, proof, crashes>>

-----------------------------------------------------------------------------

Critical == {"locked", "checked", "policy", "final", "renamed"}
Steps == {"idle", "read", "prepared", "done"} \cup Critical
Phases == {"none", "active", "committing", "cleanup"}

TypeOK ==
    /\ dest \in [id : Nat, has : SUBSET Writers]
    /\ inodes \in Nat
    /\ temps \subseteq Nat
    /\ litter \subseteq temps
    /\ lock \in SUBSET Writers
    /\ pc \in [Writers -> Steps]
    /\ phase \in [Writers -> Phases]
    /\ pred \in [Writers -> Nat]
    /\ payload \in [Writers -> SUBSET Writers]
    /\ staged \in [Writers -> Nat]
    /\ proof \in [Writers -> {"never", "held", "spent"}]
    /\ crashes \in Nat

FileInit ==
    /\ dest = [id |-> 0, has |-> {}]
    /\ inodes = 0 /\ temps = {} /\ litter = {}
    /\ lock = {}
    /\ pc = [p \in Writers |-> "idle"]
    /\ phase = [p \in Writers |-> "none"]
    /\ pred = [p \in Writers |-> 0]
    /\ payload = [p \in Writers |-> {}]
    /\ staged = [p \in Writers |-> 0]
    /\ proof = [p \in Writers |-> "never"]
    /\ crashes = 0

NewInode == inodes < MaxInodes /\ inodes' = inodes + 1

Goto(p, step) == pc' = [pc EXCEPT ![p] = step]

\* A program outside the protocol rewrites the file.
ForeignEdit ==
    /\ NewInode
    /\ dest' = [dest EXCEPT !.id = inodes']
    /\ UNCHANGED <<temps, litter, lock, pc, phase, pred, payload, staged, proof, crashes>>

-----------------------------------------------------------------------------
(* Preparation.                                                            *)

\* The update callback returns nothing to write when its update is there. What
\* an earlier publication could not clean up is retired before.
Read(p) ==
    /\ pc[p] = "idle" /\ phase[p] = "none"
    /\ IF p \in dest.has
       THEN Goto(p, "done") /\ UNCHANGED <<pred, payload>>
       ELSE /\ Goto(p, "read")
            /\ pred' = [pred EXCEPT ![p] = dest.id]
            /\ payload' = [payload EXCEPT ![p] = dest.has \cup {p}]
    /\ UNCHANGED <<dest, inodes, temps, litter, lock, phase, staged, proof, crashes>>

\* The staged inode is written, verified and registered.
Stage(p) ==
    /\ pc[p] = "read"
    /\ NewInode
    /\ temps' = temps \cup {inodes'}
    /\ staged' = [staged EXCEPT ![p] = inodes']
    /\ phase' = [phase EXCEPT ![p] = "active"]
    /\ proof' = [proof EXCEPT ![p] = "never"]
    /\ Goto(p, "prepared")
    /\ UNCHANGED <<dest, litter, lock, pred, payload, crashes>>

\* Preparation fails; the acquisition is aborted, or keeps the staged name for
\* a later attempt to remove it.
StageFails(p) ==
    /\ pc[p] = "read"
    /\ Goto(p, "idle")
    /\ \/ UNCHANGED <<inodes, temps, staged, phase>>
       \/ /\ NewInode
          /\ temps' = temps \cup {inodes'}
          /\ staged' = [staged EXCEPT ![p] = inodes']
          /\ phase' = [phase EXCEPT ![p] = "cleanup"]
    /\ UNCHANGED <<dest, litter, lock, pred, payload, proof, crashes>>

\* A verification is minted for the staged bytes; the one before it is void.
Verify(p) ==
    /\ pc[p] = "prepared"
    /\ proof' = [proof EXCEPT ![p] = "held"]
    /\ UNCHANGED <<dest, inodes, temps, litter, lock, pc, phase, pred, payload, staged, crashes>>

-----------------------------------------------------------------------------
(* Commit.                                                                 *)

\* Mutant of InputsCurrent: only the staged file is looked at.
InputsStaged(p) == staged[p] \in temps

\* _require_commit_inputs_current: the file is still the predecessor.
InputsCurrent(p) == dest.id = pred[p] /\ staged[p] \in temps

\* The lock is taken without waiting; contention is an error of the caller,
\* who has the publication still.
Lock(p) ==
    /\ pc[p] = "prepared"
    /\ lock = {}
    /\ lock' = {p}
    /\ Goto(p, "locked")
    /\ UNCHANGED <<dest, inodes, temps, litter, phase, pred, payload, staged, proof, crashes>>

\* A commit that stops before the rename leaves the publication active.
Cancel(p) ==
    /\ lock' = {}
    /\ phase' = [phase EXCEPT ![p] = "active"]
    /\ Goto(p, "prepared")

Check(p) ==
    /\ pc[p] = "locked"
    /\ IF InputsCurrent(p)
       THEN Goto(p, "checked") /\ UNCHANGED <<lock, phase>>
       ELSE Cancel(p)
    /\ UNCHANGED <<dest, inodes, temps, litter, pred, payload, staged, proof, crashes>>

\* A publication that was ever verified commits only with its latest proof.
BeginCommit(p) ==
    /\ pc[p] = "checked"
    /\ \/ /\ proof[p] # "spent"
          /\ proof' = [proof EXCEPT ![p] = IF @ = "held" THEN "spent" ELSE @]
          /\ phase' = [phase EXCEPT ![p] = "committing"]
          /\ Goto(p, "policy")
          /\ UNCHANGED lock
       \/ proof[p] # "never" /\ Cancel(p) /\ UNCHANGED proof
    /\ UNCHANGED <<dest, inodes, temps, litter, pred, payload, staged, crashes>>

\* The stored policy decides, and the inputs are compared again after it.
Decide(p) ==
    /\ pc[p] = "policy"
    /\ \/ InputsCurrent(p) /\ Goto(p, "final") /\ UNCHANGED <<lock, phase>>
       \/ Cancel(p)
    /\ UNCHANGED <<dest, inodes, temps, litter, pred, payload, staged, proof, crashes>>

Rename(p) ==
    /\ pc[p] = "final"
    /\ dest' = [id |-> staged[p], has |-> payload[p]]
    /\ temps' = temps \ {staged[p]}
    /\ Goto(p, "renamed")
    /\ UNCHANGED <<inodes, litter, lock, phase, pred, payload, staged, proof, crashes>>

\* Mutant of Consume: the publication is retired, its temporary is not.
ConsumeKeepsTemporary(p) ==
    /\ UNCHANGED temps
    /\ phase' = [phase EXCEPT ![p] = "none"]

\* The publication is retired with its temporary, or the registry keeps it
\* with the cleanup it owes.
Consume(p) ==
    \/ /\ temps' = temps \ {staged[p]}
       /\ phase' = [phase EXCEPT ![p] = "none"]
    \/ /\ UNCHANGED temps
       /\ phase' = [phase EXCEPT ![p] = "cleanup"]

\* A rename that raises consumes the publication as well.
RenameFails(p) ==
    /\ pc[p] = "final"
    /\ Consume(p)
    /\ lock' = {}
    /\ Goto(p, "idle")
    /\ UNCHANGED <<dest, inodes, litter, pred, payload, staged, proof, crashes>>

\* The published inode is checked; a file that changed since is a conflict.
Finish(p) ==
    /\ pc[p] = "renamed"
    /\ lock' = {}
    /\ phase' = [phase EXCEPT ![p] = "none"]
    /\ Goto(p, IF dest.id = staged[p] THEN "done" ELSE "idle")
    /\ UNCHANGED <<dest, inodes, temps, litter, pred, payload, staged, proof, crashes>>

Discard(p) ==
    /\ pc[p] = "prepared"
    /\ Consume(p)
    /\ Goto(p, "idle")
    /\ UNCHANGED <<dest, inodes, litter, lock, pred, payload, staged, proof, crashes>>

\* The next acquisition, or a repeated discard, retries an owed cleanup.
Retire(p) ==
    /\ phase[p] = "cleanup"
    /\ temps' = temps \ {staged[p]}
    /\ phase' = [phase EXCEPT ![p] = "none"]
    /\ UNCHANGED <<dest, inodes, litter, lock, pc, pred, payload, staged, proof, crashes>>

\* A death frees the lock and leaves the staged file.
Crash(p) ==
    /\ phase[p] # "none" \/ pc[p] = "read"
    /\ crashes < MaxCrashes
    /\ crashes' = crashes + 1
    /\ litter' = litter \cup (IF phase[p] = "none" THEN {} ELSE {staged[p]} \cap temps)
    /\ lock' = lock \ {p}
    /\ phase' = [phase EXCEPT ![p] = "none"]
    /\ Goto(p, "idle")
    /\ UNCHANGED <<dest, inodes, temps, pred, payload, staged, proof>>

FileNext ==
    \/ ForeignEdit
    \/ \E p \in Writers :
          \/ Read(p) \/ Stage(p) \/ StageFails(p) \/ Verify(p)
          \/ Lock(p) \/ Check(p) \/ BeginCommit(p) \/ Decide(p) \/ Rename(p) \/ RenameFails(p)
          \/ Finish(p) \/ Discard(p) \/ Retire(p) \/ Crash(p)

FileSpec == FileInit /\ [][FileNext]_fileVars

-----------------------------------------------------------------------------
(* Properties.                                                             *)

\* No update is lost: whatever writers and other programs do between a
\* writer's read and its rename, the file it replaces holds nothing that the
\* staged one does not.
UpdatesSurvive == [][dest.has \subseteq dest'.has]_fileVars

Merged == INSTANCE MergedFile WITH has <- dest.has, told <- {p \in Writers : pc[p] = "done"}

\* The publication implements a file into which updates are merged in one step:
\* the rename of a result that was read, merged and staged without a lock, at
\* three different times, adds exactly the writer's update to what the file
\* holds then, and a writer that commit_prepared_file returns to has it there.
MergesAtomically == Merged!Spec

\* Every temporary in the directory has an owner that will remove it, a live
\* publication or a cleanup the registry owes, unless its process died; and a
\* publication that can still be renamed has its temporary.
StagedOwned ==
    /\ \A t \in temps \ litter : \E p \in Writers : phase[p] # "none" /\ staged[p] = t
    /\ \A p \in Writers : pc[p] \in {"prepared", "locked", "checked", "policy", "final"}
          => phase[p] \in {"active", "committing"} /\ staged[p] \in temps \ litter

=============================================================================
