---------------------------- MODULE MC_StudioRun ----------------------------
(***************************************************************************)
(* A request whose launcher inputs are read from files and a raw one: the  *)
(* first can be past the check for an active run when the second is taken. *)
(***************************************************************************)
EXTENDS StudioRun
=============================================================================
