---------------------------- MODULE MCUpperRead ----------------------------
(***************************************************************************)
(* TLC's instance of the read path: one writer, two app-facing requests.   *)
(***************************************************************************)
EXTENDS UpperReadHistory, TLC

Symmetry == Permutations(Requests) \cup Permutations(Reports)
=============================================================================
