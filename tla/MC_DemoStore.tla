---------------------------- MODULE MC_DemoStore ----------------------------
(***************************************************************************)
(* Two demos and three calls: two onboardings and whatever runs beside     *)
(* them, or two of one demo and one of the other.                          *)
(***************************************************************************)
EXTENDS DemoStore
=============================================================================
