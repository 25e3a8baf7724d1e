---------------------------- MODULE MCRunLifecycle ----------------------------
(***************************************************************************)
(* Instances of RunLifecycle for TLC: named processes for the configs.     *)
(***************************************************************************)
EXTENDS RunLifecycle

CONSTANTS drv, cmd, r1, r2
=============================================================================
