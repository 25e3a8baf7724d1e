------------------------- MODULE MCEnvironmentRecovery -------------------------
(***************************************************************************)
(* An instance of EnvironmentRecovery for TLC.                             *)
(***************************************************************************)
EXTENDS EnvironmentRecovery

CONSTANTS p1, p2, good1, good2, bad, other
=============================================================================
