--------------------------- MODULE UpperLifecycle ---------------------------
(***************************************************************************)
(* The PnP and power callbacks of the upper filter.  The framework calls   *)
(* D0Entry and D0Exit in turn on one thread, and does not synchronise      *)
(* EvtDeviceSurpriseRemoval with them, so it is a thread of its own.  The  *)
(* callbacks store the power flags outside StateLock; these stores are one *)
(* step, because no handler's choice depends on seeing a part of them and  *)
(* the locked reset follows in the same callback.                          *)
(***************************************************************************)
EXTENDS UpperContext

-----------------------------------------------------------------------------
(* GaYmXInputFilterEvtD0Entry.                                             *)

\* UpperDeviceRefreshAttachmentState: the hardware IDs name the supported
\* target or they do not (or cannot be read).
RefreshAttachmentState ==
  /\ pc[Power] = "D3"
  /\ pc[Removal] = "present"
  /\ IsAttached' \in BOOLEAN
  /\ Goto(Power, "entering")
  /\ UNCHANGED <<ret, drained, IsInD0, FilterContext, sessionVars,
                 HasObservedReport, queueVars, requestVars>>

EnterD0 ==
  /\ pc[Power] = "entering"
  /\ IsInD0' = TRUE
  /\ Goto(Power, "linking")
  /\ UNCHANGED <<ret, drained, IsAttached, FilterContext, sessionVars,
                 HasObservedReport, queueVars, requestVars>>

\* UpperDeviceCreateControlDevice once the control device exists.
LinkControlDevice ==
  /\ pc[Power] = "linking"
  /\ FilterContext' = TRUE
  /\ Goto(Power, "D0")
  /\ UNCHANGED <<ret, drained, IsAttached, IsInD0, sessionVars,
                 HasObservedReport, queueVars, requestVars>>

-----------------------------------------------------------------------------
(* GaYmXInputFilterEvtD0Exit.                                              *)

\* The flags both callbacks clear before they reset the session.  A snapshot
\* under StateLock may overwrite the unlocked store of XInputPacketNumber;
\* the locked reset of the same callback then clears it again.
ForgetPowered ==
  /\ IsInD0' = FALSE
  /\ HasObservedReport' = FALSE
  /\ HasPresentedXInputReport' = FALSE
  /\ XInputPacketNumber' = 0
  /\ UNCHANGED <<LastPresentedXInputReport, FilterContext, ret, drained,
                 writerVars, injectVars, queueVars, requestVars>>

LeaveD0 ==
  /\ pc[Power] = "D0"
  /\ ForgetPowered
  /\ Goto(Power, "exiting")
  /\ UNCHANGED IsAttached

D0ExitReset ==
  /\ pc[Power] = "exiting"
  /\ ResetWriterState(Power, NoFile, "purgeAgain")

\* The callback purges again after the purge inside the reset.
D0ExitPurge ==
  /\ pc[Power] = "purgeAgain"
  /\ CallPurge(Power, "D3")
  /\ UNCHANGED <<targetVars, sessionVars, HasObservedReport, queueVars,
                 requestVars>>

-----------------------------------------------------------------------------
(* GaYmXInputFilterEvtSurpriseRemoval.                                     *)

SurpriseRemoval ==
  /\ Removable
  /\ pc[Removal] = "present"
  /\ IsAttached' = FALSE
  /\ ForgetPowered
  /\ Goto(Removal, "removing")

RemovalReset ==
  /\ pc[Removal] = "removing"
  /\ ResetWriterState(Removal, NoFile, "purgeAgain")

RemovalPurge ==
  /\ pc[Removal] = "purgeAgain"
  /\ CallPurge(Removal, "unlinking")
  /\ UNCHANGED <<targetVars, sessionVars, HasObservedReport, queueVars,
                 requestVars>>

\* UpperDeviceShutdownControlDevice.
UnlinkControlDevice ==
  /\ pc[Removal] = "unlinking"
  /\ FilterContext' = FALSE
  /\ Goto(Removal, "removed")
  /\ UNCHANGED <<ret, drained, IsAttached, IsInD0, sessionVars,
                 HasObservedReport, queueVars, requestVars>>

-----------------------------------------------------------------------------

\* What the framework starts ...
PnpEvent == RefreshAttachmentState \/ LeaveD0 \/ SurpriseRemoval

\* ... and what a callback then carries to its end.
PowerStep   == EnterD0 \/ LinkControlDevice \/ D0ExitReset \/ D0ExitPurge
RemovalStep == RemovalReset \/ RemovalPurge \/ UnlinkControlDevice

=============================================================================
