------------------------ MODULE MCPreparedPublication ------------------------
(***************************************************************************)
(* An instance of PreparedPublication for TLC.                             *)
(***************************************************************************)
EXTENDS PreparedPublication, TLC

CONSTANTS w1, w2, w3

WriterSymmetry == Permutations(Writers)
=============================================================================
