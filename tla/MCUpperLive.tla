---------------------------- MODULE MCUpperLive ----------------------------
(***************************************************************************)
(* TLC's instance for progress: one writer, one app-facing request, power  *)
(* transitions and removal, no symmetry.                                   *)
(***************************************************************************)
EXTENDS UpperDriver
=============================================================================
