----------------------------- MODULE MCLayerChain -----------------------------
(***************************************************************************)
(* An instance of LayerChain for TLC: three layers in replay order, the    *)
(* third of which depends on the first but not on the second.              *)
(***************************************************************************)
EXTENDS LayerChain

MCDescendants == [l \in 1 .. 3 |-> IF l = 1 THEN {3} ELSE {}]
=============================================================================
