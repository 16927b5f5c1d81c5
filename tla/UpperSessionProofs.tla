------------------------- MODULE UpperSessionProofs -------------------------
(***************************************************************************)
(* The writer session of UpperDriver, for every set of handles: the        *)
(* inductive invariant, the safety properties that follow from it, and the *)
(* refinement of WriterSession.                                            *)
(***************************************************************************)
EXTENDS UpperTypeProofs

\* After a power-down the override is off, and a handle about to switch it
\* on no longer has the session: the reset came between its check and its ON.
DownInv ==
  PoweredDown =>
    /\ ~OverrideEnabled
    /\ \A f \in FileObjects : pc[f] = "on" => WriterFileObject # f

\* A handle whose cleanup has passed the reset does not have the session
\* while it waits for the purge, nor when it is closed.
ClosingInv ==
  pc[Removal] = "present" =>
    /\ FilterContext
    /\ \A f \in FileObjects :
         pc[f] = "closed" \/ (pc[f] \in PurgeLabels /\ ret[f] = "closed")
         => WriterFileObject # f

SessionInv == SessionConsistent /\ DownInv /\ ClosingInv

\* The session invariant holds before the first client.
LEMMA InitSessionInv == Init => SessionInv
  <1> SUFFICES ASSUME Init PROVE SessionInv
    OBVIOUS
  <1> USE ThreadsDistinct, NullsDistinct DEF Init, ContextInit, Threads
  <1>1. SessionConsistent
    BY DEF SessionConsistent
  <1>2. DownInv
    BY DEF DownInv
  <1>3. ClosingInv
    BY DEF ClosingInv, PurgeLabels
  <1> QED
    BY <1>1, <1>2, <1>3 DEF SessionInv

-----------------------------------------------------------------------------
(* Steps that leave the session alone.                                     *)

\* A step of a handle that goes neither to ON nor to its end.
LEMMA QuietFile ==
  ASSUME TypeInv, SessionInv, NEW f \in FileObjects,
         NEW label, label \notin {"on", "closed"} \cup PurgeLabels,
         Goto(f, label), UNCHANGED <<targetVars, writerVars, ret>>
  PROVE  SessionInv' /\ UNCHANGED <<writerVars, PoweredDown>>
  <1> USE ThreadsDistinct DEF Threads, Goto, targetVars, writerVars
  <1>1. \A t \in Threads : t # f => pc'[t] = pc[t]
    BY DEF TypeInv, TypeOK
  <1>2. pc'[f] = label
    BY DEF TypeInv, TypeOK
  <1>3. PoweredDown' = PoweredDown
    BY <1>1 DEF PoweredDown
  <1>4. SessionConsistent'
    BY DEF SessionInv, SessionConsistent
  <1>5. DownInv'
    BY <1>1, <1>2, <1>3 DEF SessionInv, DownInv
  <1>6. ClosingInv'
    BY <1>1, <1>2 DEF SessionInv, ClosingInv, PurgeLabels
  <1> QED
    BY <1>3, <1>4, <1>5, <1>6 DEF SessionInv

\* A step of an app-facing request.
LEMMA QuietRequest ==
  ASSUME SessionInv, UNCHANGED <<targetVars, writerVars, pc, ret>>
  PROVE  SessionInv' /\ UNCHANGED <<writerVars, PoweredDown>>
  <1> USE DEF targetVars, writerVars
  <1>1. PoweredDown' = PoweredDown
    BY DEF PoweredDown
  <1>2. SessionConsistent'
    BY DEF SessionInv, SessionConsistent
  <1>3. DownInv'
    BY <1>1 DEF SessionInv, DownInv
  <1>4. ClosingInv'
    BY DEF SessionInv, ClosingInv
  <1> QED
    BY <1>1, <1>2, <1>3, <1>4 DEF SessionInv

\* A purge, in any thread.
LEMMA QuietPurge ==
  ASSUME TypeInv, SessionInv, NEW t \in Threads, PurgeStep(t)
  PROVE  SessionInv' /\ UNCHANGED <<writerVars, PoweredDown>>
  <1> USE ThreadsDistinct
      DEF Threads, Goto, targetVars, sessionVars, writerVars, queueVars
  <1>1. UNCHANGED <<targetVars, writerVars>>
    BY DEF PurgeStep, PurgeCount, PurgeQueue, PurgeReturn
  <1>2. \A u \in Threads : u # t => pc'[u] = pc[u] /\ ret'[u] = ret[u]
    BY DEF TypeInv, TypeOK, PurgeStep, PurgeCount, PurgeQueue, PurgeReturn
  <1>3. /\ pc[t] \in PurgeLabels
        /\ \/ pc'[t] \in PurgeLabels /\ ret'[t] = ret[t]
           \/ pc'[t] = ret[t] /\ ret'[t] = "none"
    BY DEF TypeInv, TypeOK, PurgeStep, PurgeCount, PurgeQueue, PurgeReturn, PurgeLabels
  <1>4. /\ t = Power => pc[t] # "exiting" /\ pc'[t] # "exiting"
        /\ t = Removal => /\ pc[t] # "removing" /\ pc'[t] # "removing"
                          /\ pc'[t] # "present"
        /\ t \in FileObjects => pc'[t] \in PurgeLabels \cup {"idle", "closed"}
    BY <1>3 DEF TypeInv, ReturnOK, PurgeLabels
  <1>5. PoweredDown' = PoweredDown
    BY <1>1, <1>2, <1>4 DEF PoweredDown
  <1>6. SessionConsistent'
    BY <1>1 DEF SessionInv, SessionConsistent
  <1>7. DownInv'
    BY <1>1, <1>2, <1>4, <1>5 DEF SessionInv, DownInv, PurgeLabels
  <1>8. ClosingInv'
    BY <1>1, <1>2, <1>3, <1>4 DEF SessionInv, ClosingInv, PurgeLabels
  <1> QED
    BY <1>1, <1>5, <1>6, <1>7, <1>8 DEF SessionInv

-----------------------------------------------------------------------------
(* The reset, and the steps that take and switch the session.              *)

\* What a reset leaves behind, whoever runs it.
LEMMA ResetSession ==
  ASSUME TypeInv, SessionInv, NEW t \in Threads, NEW label \in ReturnsOf(t),
         NEW expected, expected = IF t \in FileObjects THEN t ELSE NoFile,
         ResetWriterState(t, expected, label)
  PROVE  /\ SessionInv'
         /\ \/ UNCHANGED writerVars
            \/ WriterFileObject' = NoFile /\ OverrideEnabled' = FALSE
         /\ t \in FileObjects => /\ PoweredDown' = PoweredDown
                                 /\ WriterFileObject' # t
                                 /\ WriterFileObject # t => UNCHANGED writerVars
         /\ t \notin FileObjects =>
              WriterFileObject' = NoFile /\ OverrideEnabled' = FALSE
  <1> USE ThreadsDistinct, NullsDistinct
      DEF Threads, Goto, ResetWriterState, CallPurge, targetVars, sessionVars, writerVars
  <1>1. /\ pc'[t] = "purgeCount" /\ ret'[t] = label
        /\ \A u \in Threads : u # t => pc'[u] = pc[u] /\ ret'[u] = ret[u]
    BY DEF TypeInv, TypeOK
  <1>2. \/ /\ WriterFileObject # expected /\ expected # NoFile
           /\ UNCHANGED writerVars
        \/ /\ WriterFileObject' = NoFile
           /\ WriterSessionHeld' = FALSE /\ OverrideEnabled' = FALSE
           /\ expected = NoFile \/ WriterFileObject = expected
    BY DEF ClearWriterState
  <1>3. t \in FileObjects => WriterFileObject' # t
    BY <1>2
  <1>4. SessionConsistent'
    BY <1>2 DEF SessionInv, SessionConsistent
  <1>5. t \in FileObjects => PoweredDown' = PoweredDown
    BY <1>1 DEF PoweredDown
  <1>6. DownInv'
    BY <1>1, <1>2, <1>5 DEF SessionInv, DownInv, TypeInv, TypeOK
  <1>7. ClosingInv'
    BY <1>1, <1>2, <1>3 DEF SessionInv, ClosingInv, PurgeLabels, TypeInv, TypeOK
  <1> QED
    BY <1>2, <1>3, <1>4, <1>5, <1>6, <1>7 DEF SessionInv

\* A step of the handle f moves no other handle.
LEMMA OnlyItsThread ==
  ASSUME TypeInv, NEW f \in FileObjects,
         ClientStep(f) \/ FileStep(f) \/ LowerRead(f)
  PROVE  \A g \in FileObjects : g # f => pc'[g] = pc[g]
  <1>1. \E label : Goto(f, label)
    BY DEF ClientStep, OpenControl, CloseControl, SendIoctl, FileStep, IoctlStep,
           FileCleanup, AcquireCheck, OnCheck, InjectCheck, RefreshCheck,
           CheckTarget, AcquireWriterSession, ReleaseWriterSession, OverrideOn,
           OverrideOff, InjectAuthorize, StoreInjectedReport, EnsureObserved,
           LowerRead, AnswerObservation, DrainStep, RetrieveParkedRead,
           UncountDrained, AnswerDrained, DrainEnds, PurgeStep, PurgeCount,
           PurgeQueue, PurgeReturn, OnlyMoves, ResetWriterState, CallPurge
  <1> QED
    BY <1>1 DEF Goto, TypeInv, TypeOK

\* What a step of the handle f may do to the session, in terms of
\* WriterSession.
FileMove(f) ==
  /\ SessionInv'
  /\ PoweredDown' = PoweredDown
  /\ WriterFileObject \in FileObjects \ {f} => UNCHANGED writerVars
  /\ [Session!Next]_<<WriterFileObject, OverrideEnabled, PoweredDown>>

\* Every step of a handle, seen from the session.
LEMMA FileSession ==
  ASSUME TypeInv, SessionInv, NEW f \in FileObjects,
         ClientStep(f) \/ FileStep(f) \/ LowerRead(f)
  PROVE  FileMove(f)
  <1> USE ThreadsDistinct, NullsDistinct
      DEF Threads, targetVars, sessionVars, writerVars, queueVars
  <1>quiet. ASSUME SessionInv', UNCHANGED <<writerVars, PoweredDown>>
            PROVE  FileMove(f)
    BY <1>quiet DEF FileMove
  <1>moves. ASSUME NEW label, label \notin {"on", "closed"} \cup PurgeLabels,
                   OnlyMoves(f, label)
            PROVE  FileMove(f)
    BY <1>moves, <1>quiet, QuietFile DEF OnlyMoves
  <1>reset. ASSUME NEW label \in {"idle", "closed"}, ResetWriterState(f, f, label)
            PROVE  FileMove(f)
    <2>1. /\ SessionInv' /\ PoweredDown' = PoweredDown
          /\ \/ UNCHANGED writerVars
             \/ WriterFileObject' = NoFile /\ OverrideEnabled' = FALSE
          /\ WriterFileObject # f => UNCHANGED writerVars
      BY <1>reset, ResetSession DEF ReturnsOf
    <2>2. CASE UNCHANGED writerVars
      BY <2>1, <2>2, <1>quiet
    <2>3. CASE WriterFileObject' = NoFile /\ OverrideEnabled' = FALSE
      <3>1. Session!Revoke
        BY <2>1, <2>3 DEF Session!Revoke
      <3> QED
        BY <2>1, <3>1 DEF FileMove, Session!Next
    <2> QED
      BY <2>1, <2>2, <2>3
  <1>1. CASE OpenControl(f)
    BY <1>1, <1>moves DEF OpenControl, PurgeLabels
  <1>2. CASE CloseControl(f)
    <2>1. CASE FilterContext
      BY <1>2, <2>1, <1>moves DEF CloseControl, PurgeLabels
    <2>2. CASE ~FilterContext
      <3>1. /\ pc[Removal] # "present" /\ pc'[f] = "closed"
            /\ \A t \in Threads : t # f => pc'[t] = pc[t]
        BY <1>2, <2>2 DEF CloseControl, OnlyMoves, Goto, TypeInv, TypeOK,
                          SessionInv, ClosingInv
      <3>2. PoweredDown' = PoweredDown /\ UNCHANGED writerVars
        BY <1>2, <3>1 DEF PoweredDown, CloseControl, OnlyMoves
      <3>3. SessionConsistent'
        BY <3>2 DEF SessionInv, SessionConsistent
      <3>4. DownInv'
        BY <3>1, <3>2 DEF SessionInv, DownInv
      <3>5. ClosingInv'
        BY <3>1 DEF ClosingInv
      <3> QED
        BY <3>2, <3>3, <3>4, <3>5, <1>quiet DEF SessionInv
    <2> QED
      BY <2>1, <2>2
  <1>3. CASE \E code \in IoctlCodes : SendIoctl(f, code)
    BY <1>3, <1>moves, InstanceAssumption
    DEF SendIoctl, EntryLabel, PurgeLabels, ControlCodes
  <1>4. CASE FileCleanup(f)
    BY <1>4, <1>reset DEF FileCleanup
  <1>5. CASE AcquireCheck(f) \/ InjectCheck(f) \/ RefreshCheck(f)
    BY <1>5, <1>moves
    DEF AcquireCheck, InjectCheck, RefreshCheck, CheckTarget, PurgeLabels
  <1>6. CASE OnCheck(f)
    <2>1. CASE HasSupportedTarget
      <3>1. /\ pc'[f] = "on"
            /\ \A t \in Threads : t # f => pc'[t] = pc[t]
            /\ UNCHANGED <<targetVars, writerVars, ret>>
        BY <1>6, <2>1 DEF OnCheck, CheckTarget, OnlyMoves, Goto, TypeInv, TypeOK
      <3>2. PoweredDown = FALSE /\ PoweredDown' = FALSE
        BY <2>1, <3>1 DEF PoweredDown, HasSupportedTarget, TypeInv, TypeOK
      <3>3. SessionConsistent' /\ DownInv' /\ ClosingInv'
        BY <3>1, <3>2
        DEF SessionInv, SessionConsistent, DownInv, ClosingInv, PurgeLabels
      <3> QED
        BY <3>1, <3>2, <3>3, <1>quiet DEF SessionInv
    <2>2. CASE ~HasSupportedTarget
      BY <1>6, <2>2, <1>moves DEF OnCheck, CheckTarget, PurgeLabels
    <2> QED
      BY <2>1, <2>2
  <1>7. CASE InjectAuthorize(f) \/ EnsureObserved(f) \/ AnswerObservation(f)
    BY <1>7, <1>moves DEF InjectAuthorize, EnsureObserved, AnswerObservation, PurgeLabels
  <1>8. CASE AcquireWriterSession(f)
    <2>1. /\ pc[f] = "acquire" /\ pc'[f] = "idle"
          /\ \A t \in Threads : t # f => pc'[t] = pc[t]
          /\ UNCHANGED <<targetVars, OverrideEnabled, ret>>
      BY <1>8 DEF AcquireWriterSession, Goto, TypeInv, TypeOK
    <2>2. \/ UNCHANGED writerVars
          \/ /\ WriterFileObject \in {NoFile, f} /\ WriterFileObject' = f
             /\ WriterSessionHeld'
      BY <1>8 DEF AcquireWriterSession, SessionInv, SessionConsistent, TypeInv, TypeOK
    <2>3. PoweredDown' = PoweredDown
      BY <2>1 DEF PoweredDown
    <2>4. SessionConsistent'
      BY <2>1, <2>2 DEF SessionInv, SessionConsistent
    <2>5. DownInv'
      BY <2>1, <2>2, <2>3 DEF SessionInv, DownInv
    <2>6. ClosingInv'
      BY <2>1, <2>2 DEF SessionInv, ClosingInv, PurgeLabels
    <2> QED
      BY <2>1, <2>2, <2>3, <2>4, <2>5, <2>6
      DEF SessionInv, FileMove, Session!Next, Session!Acquire, SessionConsistent,
          TypeInv, TypeOK
  <1>9. CASE ReleaseWriterSession(f)
    <2>1. CASE HoldsSession(f)
      <3>1. ResetWriterState(f, f, "idle")
        BY <1>9, <2>1 DEF ReleaseWriterSession, ResetWriterState, HoldsSession
      <3> QED
        BY <3>1, <1>reset
    <2>2. CASE ~HoldsSession(f)
      BY <1>9, <2>2, <1>moves DEF ReleaseWriterSession, PurgeLabels
    <2> QED
      BY <2>1, <2>2
  <1>10. CASE OverrideOn(f)
    <2>1. /\ pc[f] = "on" /\ pc'[f] = "idle"
          /\ \A t \in Threads : t # f => pc'[t] = pc[t]
          /\ UNCHANGED <<targetVars, WriterFileObject, WriterSessionHeld, ret>>
          /\ OverrideEnabled' = (OverrideEnabled \/ HoldsSession(f))
      BY <1>10 DEF OverrideOn, Goto, TypeInv, TypeOK
    <2>2. PoweredDown' = PoweredDown
      BY <2>1 DEF PoweredDown
    <2>3. \/ UNCHANGED writerVars
          \/ /\ HoldsSession(f) /\ ~PoweredDown
             /\ OverrideEnabled' = TRUE
      <3>1. CASE HoldsSession(f)
        BY <2>1, <3>1 DEF HoldsSession, SessionInv, DownInv
      <3>2. CASE ~HoldsSession(f)
        BY <2>1, <3>2 DEF TypeInv, TypeOK
      <3> QED
        BY <3>1, <3>2
    <2>4. SessionConsistent'
      BY <2>1, <2>3 DEF SessionInv, SessionConsistent, HoldsSession
    <2>5. DownInv'
      BY <2>1, <2>2, <2>3 DEF SessionInv, DownInv
    <2>6. ClosingInv'
      BY <2>1 DEF SessionInv, ClosingInv, PurgeLabels
    <2> QED
      BY <2>1, <2>2, <2>3, <2>4, <2>5, <2>6
      DEF SessionInv, FileMove, Session!Next, Session!Enable, HoldsSession
  <1>11. CASE OverrideOff(f)
    <2>1. CASE OnlyMoves(f, "idle")
      BY <2>1, <1>moves DEF PurgeLabels
    <2>2. CASE ~OnlyMoves(f, "idle")
      <3>1. /\ pc'[f] = "purgeCount" /\ ret'[f] = "idle"
            /\ \A t \in Threads : t # f => pc'[t] = pc[t] /\ ret'[t] = ret[t]
            /\ UNCHANGED <<targetVars, WriterFileObject, WriterSessionHeld>>
            /\ OverrideEnabled' = FALSE
            /\ ~WriterSessionHeld \/ WriterFileObject = f
        BY <1>11, <2>2 DEF OverrideOff, CallPurge, Goto, TypeInv, TypeOK
      <3>2. PoweredDown' = PoweredDown
        BY <3>1 DEF PoweredDown
      <3>3. UNCHANGED writerVars \/ WriterFileObject = f
        BY <3>1 DEF SessionInv, SessionConsistent, TypeInv, TypeOK
      <3>4. SessionConsistent'
        BY <3>1 DEF SessionInv, SessionConsistent
      <3>5. DownInv'
        BY <3>1, <3>2 DEF SessionInv, DownInv
      <3>6. ClosingInv'
        BY <3>1 DEF SessionInv, ClosingInv, PurgeLabels
      <3> QED
        BY <3>1, <3>2, <3>3, <3>4, <3>5, <3>6
        DEF SessionInv, FileMove, Session!Next, Session!Disable
    <2> QED
      BY <2>1, <2>2
  <1>12. CASE StoreInjectedReport(f)
    BY <1>12, <1>moves, <1>quiet, QuietFile
    DEF StoreInjectedReport, OnlyMoves, PurgeLabels
  <1>13. CASE LowerRead(f)
    BY <1>13, <1>quiet, QuietFile DEF LowerRead, OnlyMoves, PurgeLabels
  <1>14. CASE DrainStep(f)
    BY <1>14, <1>quiet, QuietFile
    DEF DrainStep, RetrieveParkedRead, UncountDrained, AnswerDrained, DrainEnds,
        PurgeLabels
  <1>15. CASE PurgeStep(f)
    BY <1>15, <1>quiet, QuietPurge
  <1> QED
    BY <1>1, <1>2, <1>3, <1>4, <1>5, <1>6, <1>7, <1>8, <1>9, <1>10, <1>11, <1>12,
       <1>13, <1>14, <1>15 DEF ClientStep, FileStep, IoctlStep

-----------------------------------------------------------------------------
(* The power and removal callbacks.                                        *)

\* What a callback may do to the session, in terms of WriterSession.
CallbackMove ==
  /\ SessionInv'
  /\ \A g \in FileObjects : pc'[g] = pc[g]
  /\ [Session!Next]_<<WriterFileObject, OverrideEnabled, PoweredDown>>

\* Every step of a power or removal callback, seen from the session.
LEMMA CallbackSession ==
  ASSUME TypeInv, SessionInv, PnpEvent \/ PowerStep \/ RemovalStep
  PROVE  CallbackMove
  <1> USE ThreadsDistinct
      DEF Threads, targetVars, sessionVars, writerVars, Goto
  \* A step that keeps the session and ends powered up, or keeps that as well.
  <1>quiet. ASSUME NEW t \in {Power, Removal}, NEW label, Goto(t, label),
                   UNCHANGED <<writerVars, ret>>,
                   label \notin {"present"} \cup PurgeLabels,
                   PoweredDown' = PoweredDown \/ ~PoweredDown',
                   UNCHANGED FilterContext \/ FilterContext'
                     \/ (t = Removal /\ pc[Removal] # "present")
            PROVE  CallbackMove
    <2>1. /\ pc'[t] = label
          /\ \A u \in Threads : u # t => pc'[u] = pc[u]
      BY <1>quiet DEF TypeInv, TypeOK
    <2>2. SessionConsistent'
      BY <1>quiet DEF SessionInv, SessionConsistent
    <2>3. DownInv'
      BY <1>quiet, <2>1 DEF SessionInv, DownInv
    <2>4. ClosingInv'
      BY <1>quiet, <2>1 DEF SessionInv, ClosingInv
    <2>5. UNCHANGED <<WriterFileObject, OverrideEnabled, PoweredDown>> \/ Session!PowerUp
      <3>1. CASE PoweredDown' = PoweredDown
        BY <1>quiet, <3>1
      <3>2. CASE ~PoweredDown'
        <4>1. PoweredDown' = FALSE
          BY <3>2 DEF PoweredDown
        <4> QED
          BY <1>quiet, <4>1 DEF Session!PowerUp
      <3> QED
        BY <1>quiet, <3>1, <3>2
    <2> QED
      BY <2>1, <2>2, <2>3, <2>4, <2>5 DEF CallbackMove, SessionInv, Session!Next
  <1>reset. ASSUME NEW t \in {Power, Removal}, NEW label \in ReturnsOf(t),
                   ResetWriterState(t, NoFile, label),
                   pc[t] = "exiting" \/ pc[t] = "removing"
            PROVE  CallbackMove
    <2>1. /\ SessionInv'
          /\ WriterFileObject' = NoFile /\ OverrideEnabled' = FALSE
      BY <1>reset, ResetSession, NullsDistinct
    <2>2. \A g \in FileObjects : pc'[g] = pc[g]
      BY <1>reset DEF ResetWriterState, CallPurge, TypeInv, TypeOK
    <2>3. PoweredDown' \in {PoweredDown, TRUE}
      <3>1. CASE PoweredDown'
        <4>1. PoweredDown' = TRUE
          BY <3>1 DEF PoweredDown
        <4> QED
          BY <4>1
      <3>2. CASE ~PoweredDown'
        <4>1. ~PoweredDown
          BY <1>reset, <3>2
          DEF PoweredDown, ResetWriterState, CallPurge, TypeInv, TypeOK,
              PowerLabels, RemovalLabels, PurgeLabels
        <4>2. PoweredDown = FALSE /\ PoweredDown' = FALSE
          BY <3>2, <4>1 DEF PoweredDown
        <4> QED
          BY <4>2
      <3> QED
        BY <3>1, <3>2
    <2>4. Session!Revoke
      BY <2>1, <2>3 DEF Session!Revoke
    <2> QED
      BY <2>1, <2>2, <2>4 DEF CallbackMove, Session!Next
  <1>again. ASSUME NEW t \in {Power, Removal}, NEW label, CallPurge(t, label),
                   pc[t] = "purgeAgain", UNCHANGED <<targetVars, sessionVars>>
            PROVE  CallbackMove
    <2>1. /\ pc'[t] = "purgeCount"
          /\ \A u \in Threads : u # t => pc'[u] = pc[u] /\ ret'[u] = ret[u]
      BY <1>again DEF CallPurge, TypeInv, TypeOK
    <2>2. PoweredDown' = PoweredDown
      BY <1>again, <2>1 DEF PoweredDown
    <2>3. SessionConsistent'
      BY <1>again DEF SessionInv, SessionConsistent
    <2>4. DownInv'
      BY <1>again, <2>1, <2>2 DEF SessionInv, DownInv
    <2>5. ClosingInv'
      BY <1>again, <2>1 DEF SessionInv, ClosingInv
    <2> QED
      BY <1>again, <2>1, <2>2, <2>3, <2>4, <2>5 DEF CallbackMove, SessionInv
  <1>1. CASE RefreshAttachmentState
    <2>1. PoweredDown' = PoweredDown
      BY <1>1 DEF RefreshAttachmentState, PoweredDown, TypeInv, TypeOK
    <2> QED
      BY <1>1, <2>1, <1>quiet DEF RefreshAttachmentState, PurgeLabels
  <1>2. CASE EnterD0
    <2>1. ~PoweredDown'
      BY <1>2 DEF EnterD0, PoweredDown
    <2> QED
      BY <1>2, <2>1, <1>quiet DEF EnterD0, PurgeLabels
  <1>3. CASE LinkControlDevice
    <2>1. PoweredDown' = PoweredDown
      BY <1>3 DEF LinkControlDevice, PoweredDown, TypeInv, TypeOK
    <2> QED
      BY <1>3, <2>1, <1>quiet DEF LinkControlDevice, PurgeLabels
  <1>4. CASE LeaveD0
    <2>1. pc'[Power] = "exiting"
      BY <1>4 DEF LeaveD0, TypeInv, TypeOK
    <2>2. ~PoweredDown'
      BY <2>1 DEF PoweredDown
    <2> QED
      BY <1>4, <2>2, <1>quiet DEF LeaveD0, ForgetPowered, PurgeLabels
  <1>5. CASE SurpriseRemoval
    <2>1. pc'[Removal] = "removing"
      BY <1>5 DEF SurpriseRemoval, TypeInv, TypeOK
    <2>2. ~PoweredDown'
      BY <2>1 DEF PoweredDown
    <2> QED
      BY <1>5, <2>2, <1>quiet DEF SurpriseRemoval, ForgetPowered, PurgeLabels
  <1>6. CASE D0ExitReset
    BY <1>6, <1>reset DEF D0ExitReset, ReturnsOf
  <1>7. CASE RemovalReset
    BY <1>7, <1>reset DEF RemovalReset, ReturnsOf
  <1>8. CASE D0ExitPurge
    BY <1>8, <1>again DEF D0ExitPurge
  <1>9. CASE RemovalPurge
    BY <1>9, <1>again DEF RemovalPurge
  <1>10. CASE UnlinkControlDevice
    <2>1. PoweredDown' = PoweredDown
      BY <1>10 DEF UnlinkControlDevice, PoweredDown, TypeInv, TypeOK
    <2> QED
      BY <1>10, <2>1, <1>quiet DEF UnlinkControlDevice, PurgeLabels
  <1> QED
    BY <1>1, <1>2, <1>3, <1>4, <1>5, <1>6, <1>7, <1>8, <1>9, <1>10
    DEF PnpEvent, PowerStep, RemovalStep

-----------------------------------------------------------------------------
(* The theorems.                                                           *)

\* Every step of the driver, seen from the session.
LEMMA NextSession ==
  ASSUME TypeInv, SessionInv, [Next]_vars
  PROVE  /\ SessionInv'
         /\ [Session!Next]_<<WriterFileObject, OverrideEnabled, PoweredDown>>
         /\ \A f, g \in FileObjects :
              /\ WriterFileObject = f /\ g # f /\ pc'[g] # pc[g]
              => UNCHANGED writerVars
  <1> USE ThreadsDistinct DEF Threads
  <1>quiet. ASSUME SessionInv', UNCHANGED <<writerVars, PoweredDown>>
            PROVE  /\ [Session!Next]_<<WriterFileObject, OverrideEnabled, PoweredDown>>
                   /\ UNCHANGED writerVars
    BY <1>quiet DEF writerVars
  <1>1. CASE \E f \in FileObjects : ClientStep(f) \/ FileStep(f) \/ LowerRead(f)
    <2>1. PICK f \in FileObjects : ClientStep(f) \/ FileStep(f) \/ LowerRead(f)
      BY <1>1
    <2>2. FileMove(f)
      BY <2>1, FileSession
    <2>3. \A g \in FileObjects : g # f => pc'[g] = pc[g]
      BY <2>1, OnlyItsThread
    <2> QED
      BY <2>2, <2>3 DEF FileMove
  <1>2. CASE \E r \in Requests : AppStep(r) \/ RequestStep(r) \/ LowerStep(r)
    <2>1. UNCHANGED <<targetVars, writerVars, pc, ret>>
      BY <1>2
      DEF AppStep, RequestStep, LowerStep, SendRead, CancelParkedRead,
          HandleReadRequest, AnswerInjected, CountPendingRead,
          ForwardToPendingQueue, UncountPendingRead, RecordObservedReport,
          LowerCompletes, SendToLowerFails, OnlyMovesRequest, sessionVars,
          threadVars
    <2> QED
      BY <2>1, QuietRequest, <1>quiet
  <1>3. CASE PnpEvent \/ PowerStep \/ RemovalStep
    BY <1>3, CallbackSession DEF CallbackMove
  <1>4. CASE \E t \in {Power, Removal} : PurgeStep(t)
    BY <1>4, QuietPurge, <1>quiet
  <1>5. CASE UNCHANGED vars
    BY <1>5, QuietRequest, <1>quiet DEF vars, sessionVars, threadVars
  <1> QED
    BY <1>1, <1>2, <1>3, <1>4, <1>5 DEF Next, CallbackStep

\* The session invariant holds in every reachable state.
LEMMA SessionInvariant == Spec => [](TypeInv /\ SessionInv)
  <1>1. TypeInv /\ SessionInv /\ [Next]_vars => TypeInv' /\ SessionInv'
    BY NextTypeInv, NextSession
  <1> QED
    BY <1>1, InitTypeInv, InitSessionInv, PTL DEF Spec

\* The override is on only for a session and a session has its owner, for
\* any number of handles racing with power-down and removal.
THEOREM SessionIsConsistent == Spec => []SessionConsistent
  <1>1. SessionInv => SessionConsistent
    BY DEF SessionInv
  <1> QED
    BY <1>1, SessionInvariant, PTL

\* Once D0Exit or surprise removal has reset the session, no ON that passed
\* its target check earlier turns the override on again.
THEOREM OverrideOffOutsideD0 == Spec => []NoOverrideOutsideD0
  <1>1. SessionInv => NoOverrideOutsideD0
    BY DEF SessionInv, DownInv, NoOverrideOutsideD0
  <1> QED
    BY <1>1, SessionInvariant, PTL

\* While the controller is plugged in, closing a handle gives its session
\* back.
THEOREM ClosingGivesBack == Spec => []ClosedHandleOwnsNothing
  <1>1. SessionInv => ClosedHandleOwnsNothing
    BY DEF SessionInv, ClosingInv, ClosedHandleOwnsNothing
  <1> QED
    BY <1>1, SessionInvariant, PTL

\* No step of one client changes the session or the override of another.
THEOREM SessionExclusive == Spec => OthersKeepOut
  <1>1. TypeInv /\ SessionInv /\ [Next]_vars =>
          [\A f, g \in FileObjects :
             /\ WriterFileObject = f /\ g # f /\ pc'[g] # pc[g]
             => UNCHANGED writerVars]_vars
    BY NextSession
  <1> QED
    BY <1>1, SessionInvariant, PTL DEF Spec, OthersKeepOut

\* The driver implements WriterSession: one writer, who alone switches the
\* override, and who loses both together.
THEOREM DriverImplementsSession == Spec => SessionPromise
  <1>1. Init => Session!Init
    BY ThreadsDistinct DEF Init, ContextInit, Session!Init, PoweredDown, Threads
  <1>2. TypeInv /\ SessionInv /\ [Next]_vars =>
          [Session!Next]_<<WriterFileObject, OverrideEnabled, PoweredDown>>
    BY NextSession
  <1> QED
    BY <1>1, <1>2, SessionInvariant, PTL DEF Spec, SessionPromise, Session!Spec

=============================================================================
