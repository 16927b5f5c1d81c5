--------------------------- MODULE MCLowerDriver ---------------------------
(* TLC's instance of the lower filter: reads that come and go while the     *)
(* power callbacks and the surprise removal cancel them.                    *)
EXTENDS LowerDriver
=============================================================================
