--------------------------- MODULE MCBuilderFence ----------------------------
(***************************************************************************)
(* Two builders that claim again and again, also while an exception has    *)
(* left kernel state with them, two directories that stand under the path  *)
(* in turn, two key probes, two operations at a time under a lease.        *)
(***************************************************************************)
EXTENDS BuilderFence, TLC

BuilderPermutations == Permutations(Builders) \cup Permutations(Roots)
==============================================================================
