-------------------------- MODULE UpperTypeProofs --------------------------
(***************************************************************************)
(* Type correctness of UpperDriver, for every set of handles, requests and *)
(* reports.  The proofs about the session and the read path rest on it.    *)
(***************************************************************************)
EXTENDS UpperDriver, SequenceTheorems, TLAPS

-----------------------------------------------------------------------------
(* Types.                                                                  *)

\* Where a thread goes on after a purge is a label it may be at.
ReturnOK ==
  /\ \A f \in FileObjects : pc[f] \in PurgeLabels => ret[f] \in {"idle", "closed"}
  /\ pc[Power] \in PurgeLabels => ret[Power] \in {"purgeAgain", "D3"}
  /\ pc[Removal] \in PurgeLabels => ret[Removal] \in {"purgeAgain", "unlinking"}

TypeInv == TypeOK /\ ReturnOK

\* The initial state is well typed.
LEMMA InitTypeInv == Init => TypeInv
  <1> SUFFICES ASSUME Init PROVE TypeInv
    OBVIOUS
  <1> USE ThreadsDistinct, NullsDistinct DEF Init, ContextInit
  <1>1. ReturnOK
    BY DEF ReturnOK, Threads, PurgeLabels
  <1>2. TypeOK
    <2> USE DEF Threads
    <2>1. PendingReadQueue \in Seq(Requests)
      BY EmptySeq
    <2>2. /\ pc \in [Threads -> FileLabels \cup PowerLabels \cup RemovalLabels]
          /\ \A f \in FileObjects : pc[f] \in FileLabels
          /\ pc[Power] \in PowerLabels
          /\ pc[Removal] \in RemovalLabels
      BY DEF FileLabels, PowerLabels, RemovalLabels
    <2>3. /\ ret \in [Threads -> ReturnLabels]
          /\ drained \in [FileObjects -> Requests \cup {NoRequest}]
          /\ rpc \in [Requests -> RequestLabels]
          /\ kind \in [Requests -> {"xinput", "hid"}]
      BY DEF ReturnLabels, RequestLabels, Settled
    <2>4. XInputPacketNumber \in Nat /\ PendingInputRequests \in Int
      OBVIOUS
    <2> QED
      BY <2>1, <2>2, <2>3, <2>4, Zenon DEF TypeOK
  <1> QED
    BY <1>1, <1>2 DEF TypeInv

\* A step of a control handle that only moves it.
LEMMA FileMovesType ==
  ASSUME TypeInv, NEW f \in FileObjects, NEW label \in FileLabels \ PurgeLabels,
         OnlyMoves(f, label)
  PROVE  TypeInv'
  <1> USE ThreadsDistinct
      DEF Threads, OnlyMoves, Goto, targetVars, sessionVars, writerVars,
          injectVars, presentVars, queueVars, requestVars
  <1>1. TypeOK'
    BY DEF TypeInv, TypeOK
  <1>2. ReturnOK'
    BY DEF TypeInv, TypeOK, ReturnOK
  <1> QED
    BY <1>1, <1>2 DEF TypeInv

\* The labels a thread may go on at after a purge.
ReturnsOf(t) == IF t = Power THEN {"purgeAgain", "D3"}
                ELSE IF t = Removal THEN {"purgeAgain", "unlinking"}
                ELSE {"idle", "closed"}

\* Calling the purge, with the session reset before it or not.
LEMMA ResetType ==
  ASSUME TypeInv, NEW t \in Threads, NEW expected, NEW label \in ReturnsOf(t),
         ResetWriterState(t, expected, label)
  PROVE  TypeInv'
  <1> USE ThreadsDistinct
      DEF Threads, ResetWriterState, CallPurge, Goto, targetVars, queueVars,
          requestVars, ReturnsOf
  <1>1. /\ pc' \in [Threads -> FileLabels \cup PowerLabels \cup RemovalLabels]
        /\ \A f \in FileObjects : pc'[f] \in FileLabels
        /\ pc'[Power] \in PowerLabels
        /\ pc'[Removal] \in RemovalLabels
        /\ ret' \in [Threads -> ReturnLabels]
    BY DEF TypeInv, TypeOK, FileLabels, PowerLabels, RemovalLabels, PurgeLabels,
           ReturnLabels
  <1>2. /\ WriterFileObject' \in FileObjects \cup {NoFile}
        /\ XInputPacketNumber' \in Nat
        /\ LastInjectedReport' \in Reports \cup {NoReport}
        /\ LastPresentedXInputReport' \in Reports \cup {NoReport}
    BY DEF TypeInv, TypeOK, ClearWriterState, ForgetPresented, sessionVars,
           writerVars, injectVars, presentVars
  <1>3. /\ WriterSessionHeld' \in BOOLEAN
        /\ OverrideEnabled' \in BOOLEAN
        /\ HasInjectedReport' \in BOOLEAN
        /\ HasPresentedXInputReport' \in BOOLEAN
    BY DEF TypeInv, TypeOK, ClearWriterState, ForgetPresented, sessionVars,
           writerVars, injectVars, presentVars
  <1>4. TypeOK'
    BY <1>1, <1>2, <1>3 DEF TypeInv, TypeOK
  <1>5. ReturnOK'
    BY DEF TypeInv, TypeOK, ReturnOK
  <1> QED
    BY <1>4, <1>5 DEF TypeInv

\* The steps of a control request.
LEMMA IoctlType ==
  ASSUME TypeInv, NEW f \in FileObjects,
         ClientStep(f) \/ IoctlStep(f) \/ LowerRead(f)
  PROVE  TypeInv'
  <1> USE ThreadsDistinct
      DEF Threads, Goto, targetVars, sessionVars, writerVars, injectVars,
          presentVars, queueVars, requestVars, HasSupportedTarget
  <1> DEFINE Plain == FileLabels \ PurgeLabels
  <1>labels. /\ IoctlLabels \cup DrainLabels \cup {"closed", "idle"} \subseteq Plain
             /\ \A code \in IoctlCodes : EntryLabel[code] \in IoctlLabels
    BY InstanceAssumption
    DEF FileLabels, PurgeLabels, DrainLabels, IoctlLabels, EntryLabel, ControlCodes
  <1>moves. ASSUME NEW label \in Plain, OnlyMoves(f, label) PROVE TypeInv'
    BY <1>moves, FileMovesType
  <1> HIDE DEF Plain
  <1>1. CASE OpenControl(f)
    BY <1>1, <1>labels, <1>moves DEF OpenControl
  <1>2. CASE CloseControl(f)
    BY <1>2, <1>labels, <1>moves DEF CloseControl, IoctlLabels
  <1>3. CASE \E code \in IoctlCodes : SendIoctl(f, code)
    BY <1>3, <1>labels, <1>moves DEF SendIoctl
  <1>4. CASE FileCleanup(f)
    BY <1>4, ResetType DEF FileCleanup, ReturnsOf
  <1>5. CASE AcquireCheck(f) \/ OnCheck(f) \/ InjectCheck(f) \/ RefreshCheck(f)
    BY <1>5, <1>labels, <1>moves
    DEF AcquireCheck, OnCheck, InjectCheck, RefreshCheck, CheckTarget, IoctlLabels
  <1>6. CASE InjectAuthorize(f) \/ EnsureObserved(f) \/ AnswerObservation(f)
    BY <1>6, <1>labels, <1>moves
    DEF InjectAuthorize, EnsureObserved, AnswerObservation, IoctlLabels
  <1>7. CASE AcquireWriterSession(f)
    <2>1. TypeOK'
      BY <1>7, <1>labels DEF TypeInv, TypeOK, AcquireWriterSession, Plain
    <2>2. ReturnOK'
      BY <1>7 DEF TypeInv, TypeOK, ReturnOK, AcquireWriterSession, PurgeLabels
    <2> QED
      BY <2>1, <2>2 DEF TypeInv
  <1>8. CASE ReleaseWriterSession(f)
    <2>1. CASE HoldsSession(f)
      <3>1. ResetWriterState(f, f, "idle")
        BY <1>8, <2>1
        DEF ReleaseWriterSession, ResetWriterState, HoldsSession
      <3> QED
        BY <3>1, ResetType DEF ReturnsOf
    <2>2. CASE ~HoldsSession(f)
      BY <1>8, <2>2, <1>labels, <1>moves DEF ReleaseWriterSession
    <2> QED
      BY <2>1, <2>2
  <1>9. CASE OverrideOn(f)
    <2>1. OverrideEnabled' \in BOOLEAN
      BY <1>9 DEF OverrideOn, HoldsSession, TypeInv, TypeOK
    <2>2. TypeOK'
      BY <1>9, <2>1, <1>labels DEF TypeInv, TypeOK, OverrideOn, Plain
    <2>3. ReturnOK'
      BY <1>9 DEF TypeInv, TypeOK, ReturnOK, OverrideOn, PurgeLabels
    <2> QED
      BY <2>2, <2>3 DEF TypeInv
  <1>10. CASE OverrideOff(f)
    <2>1. CASE OnlyMoves(f, "idle")
      BY <2>1, <1>labels, <1>moves
    <2>2. CASE ~OnlyMoves(f, "idle")
      <3> USE <1>10, <2>2 DEF OverrideOff, ForgetPresented, CallPurge
      <3>1. /\ pc' \in [Threads -> FileLabels \cup PowerLabels \cup RemovalLabels]
            /\ \A g \in FileObjects : pc'[g] \in FileLabels
            /\ pc'[Power] \in PowerLabels
            /\ pc'[Removal] \in RemovalLabels
            /\ ret' \in [Threads -> ReturnLabels]
        BY DEF TypeInv, TypeOK, FileLabels, PurgeLabels, ReturnLabels
      <3>2. /\ OverrideEnabled' \in BOOLEAN
            /\ HasPresentedXInputReport' \in BOOLEAN
        OBVIOUS
      <3>3. TypeOK'
        BY <3>1, <3>2 DEF TypeInv, TypeOK
      <3>4. ReturnOK'
        BY DEF TypeInv, TypeOK, ReturnOK
      <3> QED
        BY <3>3, <3>4 DEF TypeInv
    <2> QED
      BY <2>1, <2>2
  <1>11. CASE StoreInjectedReport(f)
    <2>1. CASE OnlyMoves(f, "idle")
      BY <2>1, <1>labels, <1>moves
    <2>2. CASE ~OnlyMoves(f, "idle")
      <3>1. TypeOK'
        BY <1>11, <2>2, <1>labels
        DEF TypeInv, TypeOK, StoreInjectedReport, Plain, DrainLabels
      <3>2. ReturnOK'
        BY <1>11, <2>2 DEF TypeInv, TypeOK, ReturnOK, StoreInjectedReport, PurgeLabels
      <3> QED
        BY <3>1, <3>2 DEF TypeInv
    <2> QED
      BY <2>1, <2>2
  <1>12. CASE LowerRead(f)
    <2>1. CASE OnlyMoves(f, "idle") \/ OnlyMoves(f, "update")
      BY <2>1, <1>labels, <1>moves DEF IoctlLabels
    <2>2. CASE ~(OnlyMoves(f, "idle") \/ OnlyMoves(f, "update"))
      <3>1. TypeOK'
        BY <1>12, <2>2, <1>labels
        DEF TypeInv, TypeOK, LowerRead, Plain, IoctlLabels
      <3>2. ReturnOK'
        BY <1>12, <2>2 DEF TypeInv, TypeOK, ReturnOK, LowerRead, PurgeLabels
      <3> QED
        BY <3>1, <3>2 DEF TypeInv
    <2> QED
      BY <2>1, <2>2
  <1> QED
    BY <1>1, <1>2, <1>3, <1>4, <1>5, <1>6, <1>7, <1>8, <1>9, <1>10, <1>11, <1>12
    DEF ClientStep, IoctlStep

\* Answering a request with the injected state.
LEMMA AnswerType ==
  ASSUME TypeOK, NEW r, CompleteRequestWithXInputState(r), UNCHANGED injectVars
  PROVE  /\ rpc' \in [Requests -> RequestLabels]
         /\ HasPresentedXInputReport' \in BOOLEAN
         /\ LastPresentedXInputReport' \in Reports \cup {NoReport}
         /\ XInputPacketNumber' \in Nat
  <1> USE DEF CompleteRequestWithXInputState, GotoRequest
  <1>1. rpc' \in [Requests -> RequestLabels]
    BY DEF TypeOK, RequestLabels, Settled
  <1>2. CASE UNCHANGED presentVars
    BY <1>1, <1>2 DEF TypeOK, presentVars
  <1>3. CASE ~UNCHANGED presentVars
    <2>1. /\ XInputPacketNumber' = XInputPacketNumber + 1
          /\ LastPresentedXInputReport' = LastInjectedReport
          /\ HasPresentedXInputReport' = TRUE
      BY <1>3 DEF SnapshotXInputState
    <2> QED
      BY <1>1, <2>1 DEF TypeOK
  <1> QED
    BY <1>2, <1>3

\* Cancelling a parked read takes its place out of the queue.
LEMMA CancelledRead ==
  ASSUME NEW r \in Requests, CancelParkedRead(r)
  PROVE  \E k \in DOMAIN PendingReadQueue :
           /\ PendingReadQueue[k] = r
           /\ PendingReadQueue' = SubSeq(PendingReadQueue, 1, k - 1)
                \o SubSeq(PendingReadQueue, k + 1, Len(PendingReadQueue))
  BY DEF CancelParkedRead, RemoveAt

\* The steps of an app-facing request.
LEMMA RequestType ==
  ASSUME TypeInv, NEW r \in Requests,
         AppStep(r) \/ RequestStep(r) \/ LowerStep(r)
  PROVE  TypeInv'
  <1> USE DEF GotoRequest, targetVars, sessionVars, writerVars, injectVars,
              presentVars, queueVars, threadVars
  <1>labels. RequestLabels = {"idle", "native", "injected", "failed", "decide",
       "count", "forward", "uncount", "queued", "drained", "lower", "record",
       "answer"}
    BY DEF RequestLabels, Settled
  <1>moves. ASSUME NEW label \in RequestLabels, OnlyMovesRequest(r, label)
            PROVE  TypeInv'
    <2>1. TypeOK'
      BY <1>moves DEF OnlyMovesRequest, TypeInv, TypeOK
    <2>2. ReturnOK'
      BY <1>moves DEF OnlyMovesRequest, TypeInv, ReturnOK
    <2> QED
      BY <2>1, <2>2 DEF TypeInv
  <1>1. CASE \E k \in RequestKinds : SendRead(r, k)
    <2>1. TypeOK'
      BY <1>1, <1>labels, InstanceAssumption DEF TypeInv, TypeOK, SendRead
    <2>2. ReturnOK'
      BY <1>1 DEF TypeInv, ReturnOK, SendRead
    <2> QED
      BY <2>1, <2>2 DEF TypeInv
  <1>2. CASE CancelParkedRead(r)
    <2>1. PendingReadQueue' \in Seq(Requests)
      <3> PICK i \in DOMAIN PendingReadQueue :
               PendingReadQueue' = SubSeq(PendingReadQueue, 1, i - 1)
                 \o SubSeq(PendingReadQueue, i + 1, Len(PendingReadQueue))
        BY <1>2, CancelledRead
      <3> DEFINE q == PendingReadQueue
      <3>1. /\ Len(q) \in Nat
            /\ i \in 1 .. Len(q)
            /\ \A j \in 1 .. Len(q) : q[j] \in Requests
        BY LenProperties, ElementOfSeq DEF TypeInv, TypeOK
      <3> HIDE DEF q
      <3>2. /\ \A j \in 1 .. i - 1 : q[j] \in Requests
            /\ \A j \in i + 1 .. Len(q) : q[j] \in Requests
        BY <3>1
      <3>3. SubSeq(q, 1, i - 1) \in Seq(Requests)
        BY <3>1, <3>2, SubSeqProperties
      <3>4. SubSeq(q, i + 1, Len(q)) \in Seq(Requests)
        BY <3>1, <3>2, SubSeqProperties
      <3> QED
        BY <3>3, <3>4, ConcatProperties DEF q
    <2>2. TypeOK'
      BY <1>2, <2>1, <1>labels DEF TypeInv, TypeOK, CancelParkedRead
    <2>3. ReturnOK'
      BY <1>2 DEF TypeInv, ReturnOK, CancelParkedRead
    <2> QED
      BY <2>2, <2>3 DEF TypeInv
  <1>3. CASE HandleReadRequest(r)
    BY <1>3, <1>labels, <1>moves DEF HandleReadRequest
  <1>4. CASE AnswerInjected(r)
    <2>1. CompleteRequestWithXInputState(r)
      BY <1>4 DEF AnswerInjected
    <2>2. TypeOK'
      BY <1>4, <2>1, AnswerType DEF TypeInv, TypeOK, AnswerInjected
    <2>3. ReturnOK'
      BY <1>4 DEF TypeInv, ReturnOK, AnswerInjected
    <2> QED
      BY <2>2, <2>3 DEF TypeInv
  <1>5. CASE CountPendingRead(r) \/ UncountPendingRead(r)
    <2>1. TypeOK'
      BY <1>5, <1>labels DEF TypeInv, TypeOK, CountPendingRead, UncountPendingRead
    <2>2. ReturnOK'
      BY <1>5 DEF TypeInv, ReturnOK, CountPendingRead, UncountPendingRead
    <2> QED
      BY <2>1, <2>2 DEF TypeInv
  <1>6. CASE ForwardToPendingQueue(r)
    <2>1. CASE OnlyMovesRequest(r, "uncount")
      BY <2>1, <1>labels, <1>moves
    <2>2. CASE ~OnlyMovesRequest(r, "uncount")
      <3>1. PendingReadQueue' \in Seq(Requests)
        BY <1>6, <2>2, AppendProperties DEF TypeInv, TypeOK, ForwardToPendingQueue
      <3>2. TypeOK'
        BY <1>6, <2>2, <3>1, <1>labels DEF TypeInv, TypeOK, ForwardToPendingQueue
      <3>3. ReturnOK'
        BY <1>6, <2>2 DEF TypeInv, ReturnOK, ForwardToPendingQueue
      <3> QED
        BY <3>2, <3>3 DEF TypeInv
    <2> QED
      BY <2>1, <2>2
  <1>7. CASE RecordObservedReport(r)
    <2>1. HasObservedReport' \in BOOLEAN
      BY <1>7 DEF TypeInv, TypeOK, RecordObservedReport
    <2>2. TypeOK'
      BY <1>7, <2>1, <1>labels DEF TypeInv, TypeOK, RecordObservedReport
    <2>3. ReturnOK'
      BY <1>7 DEF TypeInv, ReturnOK, RecordObservedReport
    <2> QED
      BY <2>2, <2>3 DEF TypeInv
  <1>8. CASE LowerStep(r)
    BY <1>8, <1>labels, <1>moves DEF LowerStep, LowerCompletes, SendToLowerFails
  <1> QED
    BY <1>1, <1>2, <1>3, <1>4, <1>5, <1>6, <1>7, <1>8 DEF AppStep, RequestStep

\* The drain of an INJECT.
LEMMA DrainType ==
  ASSUME TypeInv, NEW f \in FileObjects, DrainStep(f)
  PROVE  TypeInv'
  <1> USE ThreadsDistinct
      DEF Threads, Goto, GotoRequest, targetVars, sessionVars, writerVars,
          injectVars, presentVars, queueVars, requestVars
  <1>labels. /\ {"idle", "drain", "drainCount", "drainAnswer"} \subseteq FileLabels
             /\ {"drained", "failed", "injected"} \subseteq RequestLabels
             /\ {"idle", "drain", "drainCount", "drainAnswer"} \cap PurgeLabels = {}
    BY DEF FileLabels, DrainLabels, PurgeLabels, RequestLabels, Settled
  <1>1. CASE RetrieveParkedRead(f)
    <2>1. /\ PendingReadQueue' \in Seq(Requests)
          /\ Head(PendingReadQueue) \in Requests
      BY <1>1, HeadTailProperties DEF TypeInv, TypeOK, RetrieveParkedRead
    <2>2. TypeOK'
      BY <1>1, <2>1, <1>labels DEF TypeInv, TypeOK, RetrieveParkedRead
    <2>3. ReturnOK'
      BY <1>1, <1>labels DEF TypeInv, TypeOK, ReturnOK, RetrieveParkedRead
    <2> QED
      BY <2>2, <2>3 DEF TypeInv
  <1>2. CASE UncountDrained(f) \/ DrainEnds(f)
    <2>1. TypeOK'
      BY <1>2, <1>labels DEF TypeInv, TypeOK, UncountDrained, DrainEnds
    <2>2. ReturnOK'
      BY <1>2, <1>labels DEF TypeInv, TypeOK, ReturnOK, UncountDrained, DrainEnds
    <2> QED
      BY <2>1, <2>2 DEF TypeInv
  <1>3. CASE AnswerDrained(f)
    <2>1. CompleteRequestWithXInputState(drained[f])
      BY <1>3 DEF AnswerDrained
    <2>2. TypeOK'
      BY <1>3, <2>1, <1>labels, AnswerType DEF TypeInv, TypeOK, AnswerDrained
    <2>3. ReturnOK'
      BY <1>3, <1>labels DEF TypeInv, TypeOK, ReturnOK, AnswerDrained
    <2> QED
      BY <2>2, <2>3 DEF TypeInv
  <1> QED
    BY <1>1, <1>2, <1>3 DEF DrainStep

\* The purge, by any thread.
LEMMA PurgeType ==
  ASSUME TypeInv, NEW t \in Threads, PurgeStep(t)
  PROVE  TypeInv'
  <1> USE ThreadsDistinct
      DEF Threads, Goto, targetVars, sessionVars, writerVars, injectVars,
          presentVars, queueVars, requestVars, PurgeLabels
  <1>labels. /\ PurgeLabels \cup {"idle", "closed"} \subseteq FileLabels
             /\ PurgeLabels \cup {"purgeAgain", "D3"} \subseteq PowerLabels
             /\ PurgeLabels \cup {"purgeAgain", "unlinking"} \subseteq RemovalLabels
             /\ {"none", "idle", "closed", "purgeAgain", "D3", "unlinking"}
                  = ReturnLabels
             /\ "failed" \in RequestLabels
    BY DEF FileLabels, PowerLabels, RemovalLabels, ReturnLabels, RequestLabels,
           Settled
  <1>1. CASE PurgeCount(t)
    <2>1. TypeOK'
      BY <1>1, <1>labels DEF TypeInv, TypeOK, PurgeCount
    <2>2. ReturnOK'
      BY <1>1 DEF TypeInv, TypeOK, ReturnOK, PurgeCount
    <2> QED
      BY <2>1, <2>2 DEF TypeInv
  <1>2. CASE PurgeQueue(t)
    <2>1. /\ PendingReadQueue' \in Seq(Requests)
          /\ queueAccepting' \in BOOLEAN
      BY <1>2, EmptySeq DEF PurgeQueue
    <2>2. rpc' \in [Requests -> RequestLabels]
      BY <1>2, <1>labels DEF TypeInv, TypeOK, PurgeQueue
    <2>3. TypeOK'
      BY <1>2, <2>1, <2>2, <1>labels DEF TypeInv, TypeOK, PurgeQueue
    <2>4. ReturnOK'
      BY <1>2 DEF TypeInv, TypeOK, ReturnOK, PurgeQueue
    <2> QED
      BY <2>3, <2>4 DEF TypeInv
  <1>3. CASE PurgeReturn(t)
    <2>1. /\ t = Power => ret[t] \in {"purgeAgain", "D3"}
          /\ t = Removal => ret[t] \in {"purgeAgain", "unlinking"}
          /\ t \in FileObjects => ret[t] \in {"idle", "closed"}
      BY <1>3 DEF TypeInv, ReturnOK, PurgeReturn
    <2>2. TypeOK'
      BY <1>3, <2>1, <1>labels DEF TypeInv, TypeOK, PurgeReturn
    <2>3. ReturnOK'
      BY <1>3, <2>1 DEF TypeInv, TypeOK, ReturnOK, PurgeReturn
    <2> QED
      BY <2>2, <2>3 DEF TypeInv
  <1> QED
    BY <1>1, <1>2, <1>3 DEF PurgeStep

\* The power and removal callbacks.
LEMMA CallbackType ==
  ASSUME TypeInv, PnpEvent \/ PowerStep \/ RemovalStep
  PROVE  TypeInv'
  <1> USE ThreadsDistinct
      DEF Threads, Goto, targetVars, sessionVars, writerVars, injectVars,
          presentVars, queueVars, requestVars
  <1>labels. /\ {"entering", "linking", "D0", "exiting"} \subseteq PowerLabels
             /\ {"removing", "removed"} \subseteq RemovalLabels
             /\ {"entering", "linking", "D0", "exiting", "removing", "removed"}
                  \cap PurgeLabels = {}
    BY DEF PowerLabels, RemovalLabels, PurgeLabels
  <1>again. ASSUME NEW t \in Threads, NEW label \in ReturnsOf(t),
                   CallPurge(t, label),
                   UNCHANGED <<targetVars, sessionVars, HasObservedReport,
                               queueVars, requestVars>>
            PROVE  TypeInv'
    <2>1. /\ PurgeLabels \subseteq FileLabels
          /\ PurgeLabels \subseteq PowerLabels
          /\ PurgeLabels \subseteq RemovalLabels
          /\ "purgeCount" \in PurgeLabels
          /\ label \in ReturnLabels
      BY <1>again DEF FileLabels, PowerLabels, RemovalLabels, PurgeLabels,
                      ReturnLabels, ReturnsOf
    <2>2. TypeOK'
      BY <1>again, <2>1 DEF TypeInv, TypeOK, CallPurge
    <2>3. ReturnOK'
      BY <1>again DEF TypeInv, TypeOK, ReturnOK, CallPurge, ReturnsOf
    <2> QED
      BY <2>2, <2>3 DEF TypeInv
  <1>1. CASE RefreshAttachmentState \/ EnterD0 \/ LinkControlDevice
    <2>1. /\ IsAttached' \in BOOLEAN
          /\ IsInD0' \in BOOLEAN
          /\ FilterContext' \in BOOLEAN
      BY <1>1 DEF TypeInv, TypeOK, RefreshAttachmentState, EnterD0, LinkControlDevice
    <2>2. TypeOK'
      BY <1>1, <2>1, <1>labels
      DEF TypeInv, TypeOK, RefreshAttachmentState, EnterD0, LinkControlDevice
    <2>3. ReturnOK'
      BY <1>1, <1>labels
      DEF TypeInv, TypeOK, ReturnOK, RefreshAttachmentState, EnterD0,
          LinkControlDevice
    <2> QED
      BY <2>2, <2>3 DEF TypeInv
  <1>2. CASE LeaveD0 \/ SurpriseRemoval
    <2>1. /\ IsAttached' \in BOOLEAN
          /\ IsInD0' \in BOOLEAN
          /\ HasObservedReport' \in BOOLEAN
          /\ HasPresentedXInputReport' \in BOOLEAN
          /\ XInputPacketNumber' \in Nat
      <3>1. ForgetPowered /\ (UNCHANGED IsAttached \/ IsAttached' = FALSE)
        BY <1>2 DEF LeaveD0, SurpriseRemoval
      <3> QED
        BY <3>1 DEF TypeInv, TypeOK, ForgetPowered
    <2>2. /\ pc' \in [Threads -> FileLabels \cup PowerLabels \cup RemovalLabels]
          /\ \A f \in FileObjects : pc'[f] \in FileLabels
          /\ pc'[Power] \in PowerLabels
          /\ pc'[Removal] \in RemovalLabels
      BY <1>2, <1>labels DEF TypeInv, TypeOK, LeaveD0, SurpriseRemoval
    <2>3. UNCHANGED <<FilterContext, LastPresentedXInputReport, ret, drained,
                      writerVars, injectVars, queueVars, requestVars>>
      BY <1>2 DEF LeaveD0, SurpriseRemoval, ForgetPowered
    <2>4. TypeOK'
      BY <2>1, <2>2, <2>3 DEF TypeInv, TypeOK
    <2>5. ReturnOK'
      BY <1>2, <2>3, <1>labels
      DEF TypeInv, TypeOK, ReturnOK, LeaveD0, SurpriseRemoval
    <2> QED
      BY <2>4, <2>5 DEF TypeInv
  <1>3. CASE D0ExitReset
    BY <1>3, ResetType DEF D0ExitReset, ReturnsOf
  <1>4. CASE RemovalReset
    BY <1>4, ResetType DEF RemovalReset, ReturnsOf
  <1>5. CASE D0ExitPurge
    BY <1>5, <1>again DEF D0ExitPurge, ReturnsOf
  <1>6. CASE RemovalPurge
    BY <1>6, <1>again DEF RemovalPurge, ReturnsOf
  <1>7. CASE UnlinkControlDevice
    <2>1. FilterContext' \in BOOLEAN
      BY <1>7 DEF UnlinkControlDevice
    <2>2. TypeOK'
      BY <1>7, <2>1, <1>labels DEF TypeInv, TypeOK, UnlinkControlDevice
    <2>3. ReturnOK'
      BY <1>7, <1>labels DEF TypeInv, TypeOK, ReturnOK, UnlinkControlDevice
    <2> QED
      BY <2>2, <2>3 DEF TypeInv
  <1> QED
    BY <1>1, <1>2, <1>3, <1>4, <1>5, <1>6, <1>7
    DEF PnpEvent, PowerStep, RemovalStep

\* Every step of the driver keeps the types.
LEMMA NextTypeInv == TypeInv /\ [Next]_vars => TypeInv'
  <1> SUFFICES ASSUME TypeInv, [Next]_vars PROVE TypeInv'
    OBVIOUS
  <1>1. CASE \E f \in FileObjects : ClientStep(f) \/ FileStep(f) \/ LowerRead(f)
    BY <1>1, IoctlType, DrainType, PurgeType DEF FileStep, Threads
  <1>2. CASE \E r \in Requests : AppStep(r) \/ RequestStep(r) \/ LowerStep(r)
    BY <1>2, RequestType
  <1>3. CASE PnpEvent
    BY <1>3, CallbackType
  <1>4. CASE \E t \in {Power, Removal} : CallbackStep(t)
    BY <1>4, PurgeType, CallbackType DEF CallbackStep, Threads
  <1>5. CASE UNCHANGED vars
    <2> USE <1>5 DEF vars, targetVars, sessionVars, writerVars, injectVars,
                     presentVars, queueVars, threadVars, requestVars
    <2>1. TypeOK'
      BY DEF TypeInv, TypeOK
    <2>2. ReturnOK'
      BY DEF TypeInv, ReturnOK
    <2> QED
      BY <2>1, <2>2 DEF TypeInv
  <1> QED
    BY <1>1, <1>2, <1>3, <1>4, <1>5 DEF Next

\* Every reachable state is well typed.
LEMMA TypeInvariant == Spec => []TypeInv
  BY InitTypeInv, NextTypeInv, PTL DEF Spec

\* Type correctness: no label, queue or slot leaves its set, however the
\* handlers, the callbacks and the requests interleave.
THEOREM TypeCorrect == Spec => []TypeOK
  <1>1. TypeInv => TypeOK
    BY DEF TypeInv
  <1> QED
    BY <1>1, TypeInvariant, PTL

=============================================================================
