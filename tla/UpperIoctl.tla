----------------------------- MODULE UpperIoctl -----------------------------
(***************************************************************************)
(* The control device of the upper filter: opening and closing a handle,   *)
(* and UpperDeviceHandleIoctl.  Handles are synchronous (gaym_client opens *)
(* them without FILE_FLAG_OVERLAPPED), so the I/O manager lets one request *)
(* per file object in at a time and sends the cleanup only between two;    *)
(* different handles run in parallel, the control queue being parallel.    *)
(* Where the code takes StateLock twice, the handler is two steps, and     *)
(* every other thread may run in between.                                  *)
(***************************************************************************)
EXTENDS UpperContext

\* The label at which each control code starts.
EntryLabel ==
  [c \in ControlCodes |->
     CASE c = "ACQUIRE" -> "acquireCheck"
       [] c = "RELEASE" -> "release"
       [] c = "ON"      -> "onCheck"
       [] c = "OFF"     -> "off"
       [] c = "INJECT"  -> "injectCheck"
       [] c = "QUERY_OBSERVATION" -> "ensure"]

\* A step of thread t that changes no more than where t is.
OnlyMoves(t, label) ==
  /\ Goto(t, label)
  /\ UNCHANGED <<ret, drained, targetVars, sessionVars, HasObservedReport,
                 queueVars, requestVars>>

-----------------------------------------------------------------------------
(* Handles.                                                                *)

\* CreateFile on the control device: it has no create callback.
OpenControl(f) ==
  /\ pc[f] = "closed"
  /\ OnlyMoves(f, "idle")

\* UpperEvtCtlIoDeviceControl: refused while no filter is linked.
SendIoctl(f, code) ==
  /\ pc[f] = "idle"
  /\ FilterContext
  /\ code = "INJECT" => XInputPacketNumber < MaxPacket
  /\ OnlyMoves(f, EntryLabel[code])

\* UpperEvtFileCleanup: nothing is reset when no filter is linked.
CloseControl(f) ==
  /\ pc[f] = "idle"
  /\ OnlyMoves(f, IF FilterContext THEN "cleanup" ELSE "closed")

\* Mutants of FileCleanup: the cleanup resets whoever is the writer, or it
\* resets nothing.
FileCleanupOfAnyone(f) ==
  /\ pc[f] = "cleanup"
  /\ ResetWriterState(f, NoFile, "closed")

FileCleanupForgotten(f) ==
  /\ pc[f] = "cleanup"
  /\ OnlyMoves(f, "closed")

\* UpperEvtFileCleanup resets the session only of the handle it closes.
FileCleanup(f) ==
  /\ pc[f] = "cleanup"
  /\ ResetWriterState(f, f, "closed")

-----------------------------------------------------------------------------
(* UpperHasSupportedTarget takes and drops StateLock on its own.           *)

CheckTarget(f, from, to) ==
  /\ pc[f] = from
  /\ OnlyMoves(f, IF HasSupportedTarget THEN to ELSE "idle")

AcquireCheck(f) == CheckTarget(f, "acquireCheck", "acquire")

\* Mutant of OnCheck: ON is let through whatever the target.
OnUnchecked(f) ==
  /\ pc[f] = "onCheck"
  /\ OnlyMoves(f, "on")

OnCheck(f)      == CheckTarget(f, "onCheck", "on")
InjectCheck(f)  == CheckTarget(f, "injectCheck", "injectAuth")

\* Mutant of AcquireWriterSession: a held session is taken over.
StealWriterSession(f) ==
  /\ pc[f] = "acquire"
  /\ WriterFileObject' = f
  /\ WriterSessionHeld' = TRUE
  /\ Goto(f, "idle")
  /\ UNCHANGED <<OverrideEnabled, ret, drained, targetVars, injectVars,
                 presentVars, HasObservedReport, queueVars, requestVars>>

AcquireWriterSession(f) ==
  /\ pc[f] = "acquire"
  /\ IF WriterSessionHeld /\ WriterFileObject # f
       THEN UNCHANGED writerVars
       ELSE /\ WriterFileObject' = f
            /\ WriterSessionHeld' = TRUE
            /\ UNCHANGED OverrideEnabled
  /\ Goto(f, "idle")
  /\ UNCHANGED <<ret, drained, targetVars, injectVars, presentVars,
                 HasObservedReport, queueVars, requestVars>>

ReleaseWriterSession(f) ==
  /\ pc[f] = "release"
  /\ \/ /\ ~HoldsSession(f)
        /\ OnlyMoves(f, "idle")
     \/ /\ HoldsSession(f)
        /\ ClearWriterState
        /\ CallPurge(f, "idle")
        /\ UNCHANGED <<targetVars, HasObservedReport, queueVars, requestVars>>

OverrideOn(f) ==
  /\ pc[f] = "on"
  /\ OverrideEnabled' = (OverrideEnabled \/ HoldsSession(f))
  /\ Goto(f, "idle")
  /\ UNCHANGED <<WriterFileObject, WriterSessionHeld, ret, drained, targetVars,
                 injectVars, presentVars, HasObservedReport, queueVars,
                 requestVars>>

\* Mutant of OverrideOff: parked reads are not purged.
OverrideOffWithoutPurge(f) ==
  /\ pc[f] = "off"
  /\ OverrideEnabled' = (OverrideEnabled /\ ~HoldsSession(f))
  /\ ForgetPresented
  /\ Goto(f, "idle")
  /\ UNCHANGED <<WriterFileObject, WriterSessionHeld, ret, drained, injectVars,
                 targetVars, HasObservedReport, queueVars, requestVars>>

\* OFF succeeds for anyone while no session is held, and keeps the report.
OverrideOff(f) ==
  /\ pc[f] = "off"
  /\ \/ /\ WriterSessionHeld /\ WriterFileObject # f
        /\ OnlyMoves(f, "idle")
     \/ /\ ~WriterSessionHeld \/ WriterFileObject = f
        /\ OverrideEnabled' = FALSE
        /\ ForgetPresented
        /\ CallPurge(f, "idle")
        /\ UNCHANGED <<WriterFileObject, WriterSessionHeld, injectVars,
                       targetVars, HasObservedReport, queueVars, requestVars>>

InjectAuthorize(f) ==
  /\ pc[f] = "injectAuth"
  /\ OnlyMoves(f, IF HoldsSession(f) /\ OverrideEnabled
                    THEN "injectStore" ELSE "idle")

\* UpperStoreInjectedReport: a buffer shorter than a report is refused, else
\* the report is stored, without a second look at the owner.
StoreInjectedReport(f) ==
  /\ pc[f] = "injectStore"
  /\ \/ OnlyMoves(f, "idle")
     \/ /\ LastInjectedReport' \in Reports
        /\ HasInjectedReport' = TRUE
        /\ Goto(f, "drain")
        /\ UNCHANGED <<ret, drained, targetVars, writerVars, presentVars,
                       HasObservedReport, queueVars, requestVars>>

-----------------------------------------------------------------------------
(* QUERY_OBSERVATION: UpperDeviceEnsureObservedReport reads a native       *)
(* report from the lower stack when none was recorded yet.                 *)

EnsureObserved(f) ==
  /\ pc[f] = "ensure"
  /\ OnlyMoves(f, IF HasObservedReport THEN "update" ELSE "refresh")

RefreshCheck(f) == CheckTarget(f, "refresh", "lowerRead")

\* The synchronous read of the lower stack: it may fail, be too short to
\* parse (success, but nothing is recorded) or be recorded.
LowerRead(f) ==
  /\ pc[f] = "lowerRead"
  /\ \/ OnlyMoves(f, "idle")
     \/ OnlyMoves(f, "update")
     \/ /\ HasObservedReport' = TRUE
        /\ Goto(f, "update")
        /\ UNCHANGED <<ret, drained, targetVars, sessionVars, queueVars,
                       requestVars>>

\* UpperDeviceUpdateObservation and the reply.
AnswerObservation(f) ==
  /\ pc[f] = "update"
  /\ OnlyMoves(f, "idle")

\* What a handler does by itself; LowerRead waits for the controller.
IoctlStep(f) ==
  \/ FileCleanup(f)
  \/ AcquireCheck(f) \/ AcquireWriterSession(f) \/ ReleaseWriterSession(f)
  \/ OnCheck(f) \/ OverrideOn(f) \/ OverrideOff(f)
  \/ InjectCheck(f) \/ InjectAuthorize(f) \/ StoreInjectedReport(f)
  \/ EnsureObserved(f) \/ RefreshCheck(f) \/ AnswerObservation(f)

ClientStep(f) ==
  \/ OpenControl(f) \/ CloseControl(f)
  \/ \E code \in IoctlCodes : SendIoctl(f, code)

=============================================================================
