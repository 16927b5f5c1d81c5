--------------------------- MODULE MCUpperControl ---------------------------
(***************************************************************************)
(* TLC's instance of the control plane: two handles, every interleaving of *)
(* their requests with D0 entry, D0 exit and surprise removal, and with a  *)
(* native HID read, whose answer an observation query may find recorded.   *)
(***************************************************************************)
EXTENDS UpperDriver, TLC

Symmetry == Permutations(FileObjects)
=============================================================================
