------------------------------ MODULE MergedFile ------------------------------
(***************************************************************************)
(* What the publication of a side file promises its writers: an update     *)
(* joins the updates that the file holds in one step, and once, and a      *)
(* writer that is told of its success finds its update there for ever.     *)
(***************************************************************************)
CONSTANT Writers

VARIABLES
    has,    \* the updates in the file
    told    \* the writers whose publication returned

vars == <<has, told>>

Init == has = {} /\ told = {}

Merge(p) ==
    /\ p \notin has
    /\ has' = has \cup {p}
    /\ UNCHANGED told

Tell(p) ==
    /\ p \in has
    /\ told' = told \cup {p}
    /\ UNCHANGED has

Next == \E p \in Writers : Merge(p) \/ Tell(p)

Spec == Init /\ [][Next]_vars
===============================================================================
