--------------------------- MODULE WriterSession ---------------------------
(***************************************************************************)
(* What the control device promises its clients: one writer at a time, who *)
(* gets the session only while nobody has it, alone switches the override, *)
(* and loses both together; and no override is switched on while the       *)
(* controller is powered down.                                             *)
(***************************************************************************)
CONSTANTS Clients, NoOwner

VARIABLES owner, override, down

Init ==
  /\ owner = NoOwner
  /\ override = FALSE
  /\ down = TRUE

Acquire(c) ==
  /\ owner = NoOwner
  /\ owner' = c
  /\ UNCHANGED <<override, down>>

Enable(c) ==
  /\ owner = c
  /\ ~down
  /\ override' = TRUE
  /\ UNCHANGED <<owner, down>>

Disable(c) ==
  /\ owner = c
  /\ override' = FALSE
  /\ UNCHANGED <<owner, down>>

\* The owner gives the session up, or it is revoked; a revocation may be the
\* end of a power-down.
Revoke ==
  /\ owner' = NoOwner
  /\ override' = FALSE
  /\ down' \in {down, TRUE}

PowerUp ==
  /\ down' = FALSE
  /\ UNCHANGED <<owner, override>>

Next ==
  \/ \E c \in Clients : Acquire(c) \/ Enable(c) \/ Disable(c)
  \/ Revoke \/ PowerUp

Spec == Init /\ [][Next]_<<owner, override, down>>
=============================================================================
