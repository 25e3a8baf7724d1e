--------------------------- MODULE AuthoritySwitch ---------------------------
(***************************************************************************)
(* What the authority-state protocol promises its readers (HIR-0171): plan *)
(* and JIT selection and every layer's state file move together, in one    *)
(* atomic switch.  While a switch is being carried out nobody may read;    *)
(* when reading is possible again the switch is complete.                  *)
(***************************************************************************)
EXTENDS Naturals

CONSTANTS Layers, None

VARIABLES
    head,    \* the coordinator head: [rev, token, states], or None
    files,   \* files[l]: the state file of layer l, or None
    open     \* readers and unit-state mutations are admitted

vars == <<head, files, open>>

Revision(h) == IF h = None THEN 0 ELSE h.rev

Init ==
    /\ head = None
    /\ files = [l \in Layers |-> None]
    /\ open = TRUE

\* One unit-state mutation: the next revision of one layer's file.
Edit(l) ==
    /\ open
    /\ files[l] # None
    /\ \E live \in BOOLEAN :
          files' = [files EXCEPT ![l].revision = @ + 1, ![l].live = live]
    /\ UNCHANGED <<head, open>>

\* What a switch to revision r may do to one layer's file: drop it, keep it,
\* move it to its next revision, or create it at its first.
Successor(r, before, after) ==
    \/ after = None
    \/ after = before
    \/ /\ before # None
       /\ after.origin = before.origin
       /\ after.revision = before.revision + 1
    \/ /\ before = None
       /\ after.origin = r
       /\ after.revision = 1

\* The atomic switch to the next head.
Switch ==
    /\ open
    /\ open' = FALSE
    /\ head' # None
    /\ head'.rev = Revision(head) + 1
    /\ files' = head'.states
    /\ \A l \in Layers : Successor(head'.rev, files[l], files'[l])

Reopen ==
    /\ ~open
    /\ open' = TRUE
    /\ UNCHANGED <<head, files>>

Next == (\E l \in Layers : Edit(l)) \/ Switch \/ Reopen

Safety == Init /\ [][Next]_vars

\* A switch that was begun completes.
Spec == Safety /\ (~open ~> open)
=============================================================================
