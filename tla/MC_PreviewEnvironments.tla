----------------------- MODULE MC_PreviewEnvironments -----------------------
(***************************************************************************)
(* One environment and four calls: two of a command or of a resource, and  *)
(* whatever ends the environment beside them.                              *)
(***************************************************************************)
EXTENDS PreviewEnvironments, TLC
MCSymmetry == Permutations(Calls) \cup Permutations(Digests)
=============================================================================
