-------------------------- MODULE UpperReadProofs --------------------------
(***************************************************************************)
(* The parked reads of UpperDriver, for every set of handles and requests: *)
(* none is left behind when the override goes, and none is lost between    *)
(* the queue and the threads that complete it.  Over the history of each   *)
(* request, what it may be shown at its end.                               *)
(***************************************************************************)
EXTENDS UpperReadHistory, UpperTypeProofs, QueueLemmas

-----------------------------------------------------------------------------
(* No read is left behind.                                                 *)

\* A purged queue is empty for good.  As long as the queue is open, a read is
\* parked, or on its way to be, only while the override is on or a purge that
\* will close the queue is under way.
ParkedInv ==
  /\ ~queueAccepting => PendingReadQueue = <<>>
  /\ queueAccepting /\ ~OverrideEnabled /\ ~PurgePending =>
       /\ PendingReadQueue = <<>>
       /\ \A r \in Requests : rpc[r] \notin {"count", "forward"}

\* A thread that is not before its purge does not end the purge of another.
LEMMA PurgeStays ==
  ASSUME TypeInv, PurgePending, NEW t \in Threads, NEW label, Goto(t, label),
         pc[t] \notin {"purgeCount", "purgeQueue"}
  PROVE  PurgePending'
  BY DEF PurgePending, Goto, TypeInv, TypeOK

\* A step that parks nothing and leaves both the override and every purge.
LEMMA ParkedKept ==
  ASSUME ParkedInv, UNCHANGED <<queueAccepting, PendingReadQueue>>,
         OverrideEnabled => OverrideEnabled' \/ PurgePending',
         PurgePending => PurgePending',
         \A r \in Requests : rpc'[r] \in {"count", "forward"} =>
            rpc[r] \in {"count", "forward"} \/ OverrideEnabled'
  PROVE  ParkedInv'
  BY DEF ParkedInv

\* A handle leaves parked reads alone, and what ends the override purges.
LEMMA FileParked ==
  ASSUME TypeInv, ParkedInv, NEW f \in FileObjects,
         ClientStep(f) \/ IoctlStep(f) \/ LowerRead(f)
  PROVE  ParkedInv'
  <1> USE DEF queueVars, sessionVars, writerVars, requestVars
  <1>1. /\ UNCHANGED <<queueAccepting, PendingReadQueue, rpc>>
        /\ pc[f] \notin {"purgeCount", "purgeQueue"}
    BY DEF ClientStep, OpenControl, CloseControl, SendIoctl, IoctlStep,
           FileCleanup, AcquireCheck, OnCheck, InjectCheck, RefreshCheck,
           CheckTarget, AcquireWriterSession, ReleaseWriterSession, OverrideOn,
           OverrideOff, InjectAuthorize, StoreInjectedReport, EnsureObserved,
           LowerRead, AnswerObservation, OnlyMoves, ResetWriterState, CallPurge
  <1>2. \E label : Goto(f, label)
    BY DEF ClientStep, OpenControl, CloseControl, SendIoctl, IoctlStep,
           FileCleanup, AcquireCheck, OnCheck, InjectCheck, RefreshCheck,
           CheckTarget, AcquireWriterSession, ReleaseWriterSession, OverrideOn,
           OverrideOff, InjectAuthorize, StoreInjectedReport, EnsureObserved,
           LowerRead, AnswerObservation, OnlyMoves, ResetWriterState, CallPurge
  <1>3. OverrideEnabled => OverrideEnabled' \/ Goto(f, "purgeCount")
    BY DEF ClientStep, OpenControl, CloseControl, SendIoctl, IoctlStep,
           FileCleanup, AcquireCheck, OnCheck, InjectCheck, RefreshCheck,
           CheckTarget, AcquireWriterSession, ReleaseWriterSession, OverrideOn,
           OverrideOff, InjectAuthorize, StoreInjectedReport, EnsureObserved,
           LowerRead, AnswerObservation, OnlyMoves, ResetWriterState, CallPurge
  <1>4. Goto(f, "purgeCount") => PurgePending'
    BY DEF Goto, PurgePending, TypeInv, TypeOK, Threads
  <1>5. PurgePending => PurgePending'
    BY <1>1, <1>2, PurgeStays DEF Threads
  <1> QED
    BY <1>1, <1>3, <1>4, <1>5, ParkedKept

\* The drain only takes reads out of the queue.
LEMMA DrainParked ==
  ASSUME TypeInv, ParkedInv, NEW f \in FileObjects, DrainStep(f)
  PROVE  ParkedInv'
  <1> USE DEF queueVars, sessionVars, writerVars, requestVars
  <1>1. /\ UNCHANGED <<queueAccepting, OverrideEnabled>>
        /\ pc[f] \notin {"purgeCount", "purgeQueue"}
        /\ \E label : Goto(f, label)
    BY DEF DrainStep, RetrieveParkedRead, UncountDrained, AnswerDrained, DrainEnds
  <1>2. PurgePending => PurgePending'
    BY <1>1, PurgeStays DEF Threads
  <1>3. \A r \in Requests :
          rpc'[r] \in {"count", "forward"} => rpc[r] \in {"count", "forward"}
    BY DEF DrainStep, RetrieveParkedRead, UncountDrained, AnswerDrained, DrainEnds,
           CompleteRequestWithXInputState, GotoRequest, TypeInv, TypeOK
  <1>4. CASE RetrieveParkedRead(f)
    <2>1. PendingReadQueue # <<>>
      BY <1>4 DEF RetrieveParkedRead
    <2>2. queueAccepting /\ (OverrideEnabled \/ PurgePending)
      BY <2>1 DEF ParkedInv
    <2> QED
      BY <1>1, <1>2, <2>2 DEF ParkedInv
  <1>5. CASE ~RetrieveParkedRead(f)
    <2>1. UNCHANGED PendingReadQueue
      BY <1>5 DEF DrainStep, UncountDrained, AnswerDrained, DrainEnds
    <2> QED
      BY <1>1, <1>2, <1>3, <2>1, ParkedKept
  <1> QED
    BY <1>4, <1>5

\* The purge empties and closes the queue, so it may stop being under way.
LEMMA PurgeParked ==
  ASSUME TypeInv, ParkedInv, NEW t \in Threads, PurgeStep(t)
  PROVE  ParkedInv'
  <1> USE DEF queueVars, sessionVars, writerVars, requestVars
  <1>1. CASE PurgeCount(t)
    <2>1. PurgePending'
      BY <1>1 DEF PurgeCount, Goto, PurgePending, TypeInv, TypeOK
    <2> QED
      BY <1>1, <2>1 DEF PurgeCount, ParkedInv
  <1>2. CASE PurgeQueue(t)
    BY <1>2 DEF PurgeQueue, ParkedInv
  <1>3. CASE PurgeReturn(t)
    BY <1>3, PurgeStays, ParkedKept DEF PurgeReturn
  <1> QED
    BY <1>1, <1>2, <1>3 DEF PurgeStep

\* A request is parked only after it saw the override on.
LEMMA RequestParked ==
  ASSUME TypeInv, ParkedInv, NEW r \in Requests,
         AppStep(r) \/ RequestStep(r) \/ LowerStep(r)
  PROVE  ParkedInv'
  <1> USE DEF queueVars, sessionVars, writerVars, threadVars, GotoRequest
  <1>1. UNCHANGED <<queueAccepting, OverrideEnabled, pc>>
    BY DEF AppStep, RequestStep, LowerStep, SendRead, CancelParkedRead,
           HandleReadRequest, AnswerInjected, CountPendingRead,
           ForwardToPendingQueue, UncountPendingRead, RecordObservedReport,
           LowerCompletes, SendToLowerFails, OnlyMovesRequest
  <1>2. PurgePending' = PurgePending
    BY <1>1 DEF PurgePending
  <1>3. \A s \in Requests : rpc'[s] \in {"count", "forward"} =>
          rpc[s] \in {"count", "forward"} \/ OverrideEnabled
    BY DEF AppStep, RequestStep, LowerStep, SendRead, CancelParkedRead,
           HandleReadRequest, AnswerInjected, CountPendingRead,
           ForwardToPendingQueue, UncountPendingRead, RecordObservedReport,
           LowerCompletes, SendToLowerFails, OnlyMovesRequest,
           CompleteRequestWithXInputState, TypeInv, TypeOK, Settled
  <1>4. CASE UNCHANGED PendingReadQueue
    BY <1>1, <1>2, <1>3, <1>4, ParkedKept
  <1>5. CASE CancelParkedRead(r)
    <2>1. PendingReadQueue # <<>>
      BY <1>5, EmptySeq, LenProperties DEF CancelParkedRead, TypeInv, TypeOK
    <2>2. queueAccepting /\ (OverrideEnabled \/ PurgePending)
      BY <2>1 DEF ParkedInv
    <2> QED
      BY <1>1, <1>2, <2>2 DEF ParkedInv
  <1>6. CASE ForwardToPendingQueue(r) /\ queueAccepting
    <2>1. OverrideEnabled \/ PurgePending
      BY <1>6 DEF ForwardToPendingQueue, ParkedInv
    <2> QED
      BY <1>1, <1>2, <1>6, <2>1 DEF ParkedInv
  <1> QED
    BY <1>4, <1>5, <1>6
    DEF AppStep, RequestStep, LowerStep, SendRead, HandleReadRequest,
        AnswerInjected, CountPendingRead, ForwardToPendingQueue,
        UncountPendingRead, RecordObservedReport, LowerCompletes,
        SendToLowerFails, OnlyMovesRequest

\* A power or removal callback that ends the override purges.
LEMMA CallbackParked ==
  ASSUME TypeInv, ParkedInv, PnpEvent \/ PowerStep \/ RemovalStep
  PROVE  ParkedInv'
  <1> USE DEF queueVars, sessionVars, writerVars, requestVars, Threads
  <1>1. UNCHANGED <<queueAccepting, PendingReadQueue, rpc>>
    BY DEF PnpEvent, PowerStep, RemovalStep, RefreshAttachmentState, EnterD0,
           LinkControlDevice, LeaveD0, D0ExitReset, D0ExitPurge, SurpriseRemoval,
           RemovalReset, RemovalPurge, UnlinkControlDevice, ForgetPowered,
           ResetWriterState
  <1>2. PICK t \in {Power, Removal} :
          /\ \E label : Goto(t, label)
          /\ pc[t] \notin {"purgeCount", "purgeQueue"}
          /\ UNCHANGED OverrideEnabled \/ Goto(t, "purgeCount")
    BY DEF PnpEvent, PowerStep, RemovalStep, RefreshAttachmentState, EnterD0,
           LinkControlDevice, LeaveD0, D0ExitReset, D0ExitPurge, SurpriseRemoval,
           RemovalReset, RemovalPurge, UnlinkControlDevice, ForgetPowered,
           ResetWriterState, CallPurge
  <1>3. Goto(t, "purgeCount") => PurgePending'
    BY DEF Goto, PurgePending, TypeInv, TypeOK
  <1>4. PurgePending => PurgePending'
    BY <1>2, PurgeStays
  <1> QED
    BY <1>1, <1>2, <1>3, <1>4, ParkedKept

\* Parked reads are accounted for in every reachable state.
LEMMA ParkedInvariant == Spec => []ParkedInv
  <1>1. Init => ParkedInv
    BY DEF Init, ContextInit, ParkedInv
  <1>2. TypeInv /\ ParkedInv /\ [Next]_vars => ParkedInv'
    <2> SUFFICES ASSUME TypeInv, ParkedInv, [Next]_vars PROVE ParkedInv'
      OBVIOUS
    <2>1. CASE \E f \in FileObjects : ClientStep(f) \/ FileStep(f) \/ LowerRead(f)
      BY <2>1, FileParked, DrainParked, PurgeParked DEF FileStep, Threads
    <2>2. CASE \E r \in Requests : AppStep(r) \/ RequestStep(r) \/ LowerStep(r)
      BY <2>2, RequestParked
    <2>3. CASE PnpEvent \/ \E t \in {Power, Removal} : CallbackStep(t)
      BY <2>3, PurgeParked, CallbackParked DEF CallbackStep, Threads
    <2>4. CASE UNCHANGED vars
      <3>1. UNCHANGED <<queueAccepting, PendingReadQueue, OverrideEnabled, rpc, pc>>
        BY <2>4 DEF vars, queueVars, sessionVars, writerVars, requestVars, threadVars
      <3> QED
        BY <3>1, ParkedKept DEF PurgePending
    <2> QED
      BY <2>1, <2>2, <2>3, <2>4 DEF Next
  <1> QED
    BY <1>1, <1>2, TypeInvariant, PTL DEF Spec

\* No read stays parked once the override is off, not even one that was
\* parked after the override went: a purge is on its way to it.
THEOREM NothingStranded == Spec => []NoStrandedRead
  <1>1. ParkedInv => NoStrandedRead
    BY DEF ParkedInv, NoStrandedRead
  <1> QED
    BY <1>1, ParkedInvariant, PTL

-----------------------------------------------------------------------------
(* No read is lost or answered twice.                                      *)

\* A thread has a retrieved request only between its retrieval and its
\* completion; the queue and the slots agree.
OwnerInv ==
  /\ EachRequestOneOwner
  /\ \A f \in FileObjects :
       drained[f] # NoRequest => pc[f] \in {"drainCount", "drainAnswer"}

\* A step that leaves the queue, the threads' requests and the requests in
\* either place.
LEMMA OwnersKept ==
  ASSUME TypeInv, OwnerInv, UNCHANGED <<PendingReadQueue, drained>>,
         \A r \in Requests :
            \/ rpc'[r] = rpc[r]
            \/ /\ rpc[r] \notin {"queued", "drained"}
               /\ rpc'[r] \notin {"queued", "drained"},
         \A f \in FileObjects : pc[f] \in {"drainCount", "drainAnswer"}
            => pc'[f] \in {"drainCount", "drainAnswer"}
  PROVE  OwnerInv'
  <1>1. ParkedOnce'
    <2>1. \A r \in Requests : rpc'[r] = "queued" <=> rpc[r] = "queued"
      OBVIOUS
    <2> QED
      BY <2>1 DEF OwnerInv, EachRequestOneOwner, ParkedOnce
  <1>3. RetrievedOnce'
    <2>1. \A r \in Requests : rpc'[r] = "drained" <=> rpc[r] = "drained"
      OBVIOUS
    <2> QED
      BY <2>1 DEF OwnerInv, EachRequestOneOwner, RetrievedOnce
  <1>2. \A f \in FileObjects :
          drained'[f] # NoRequest => pc'[f] \in {"drainCount", "drainAnswer"}
    BY DEF OwnerInv
  <1> QED
    BY <1>1, <1>2, <1>3 DEF OwnerInv, EachRequestOneOwner

\* A handle outside its drain owns no retrieved request.
LEMMA FileOwners ==
  ASSUME TypeInv, OwnerInv, NEW f \in FileObjects,
         ClientStep(f) \/ IoctlStep(f) \/ LowerRead(f)
  PROVE  OwnerInv'
  <1> USE DEF queueVars, sessionVars, writerVars, requestVars
  <1>1. /\ UNCHANGED <<PendingReadQueue, drained, rpc>>
        /\ pc[f] \notin {"drainCount", "drainAnswer"}
    BY DEF ClientStep, OpenControl, CloseControl, SendIoctl, IoctlStep,
           FileCleanup, AcquireCheck, OnCheck, InjectCheck, RefreshCheck,
           CheckTarget, AcquireWriterSession, ReleaseWriterSession, OverrideOn,
           OverrideOff, InjectAuthorize, StoreInjectedReport, EnsureObserved,
           LowerRead, AnswerObservation, OnlyMoves, ResetWriterState, CallPurge
  <1>2. \E label : Goto(f, label)
    BY DEF ClientStep, OpenControl, CloseControl, SendIoctl, IoctlStep,
           FileCleanup, AcquireCheck, OnCheck, InjectCheck, RefreshCheck,
           CheckTarget, AcquireWriterSession, ReleaseWriterSession, OverrideOn,
           OverrideOff, InjectAuthorize, StoreInjectedReport, EnsureObserved,
           LowerRead, AnswerObservation, OnlyMoves, ResetWriterState, CallPurge
  <1>3. \A g \in FileObjects : g # f => pc'[g] = pc[g]
    BY <1>2 DEF Goto, TypeInv, TypeOK
  <1> QED
    BY <1>1, <1>3, OwnersKept

\* The power and removal callbacks touch no request.
LEMMA CallbackOwners ==
  ASSUME TypeInv, OwnerInv, PnpEvent \/ PowerStep \/ RemovalStep
  PROVE  OwnerInv'
  <1> USE ThreadsDistinct
      DEF queueVars, sessionVars, writerVars, requestVars, Threads
  <1>1. UNCHANGED <<PendingReadQueue, drained, rpc>>
    BY DEF PnpEvent, PowerStep, RemovalStep, RefreshAttachmentState, EnterD0,
           LinkControlDevice, LeaveD0, D0ExitReset, D0ExitPurge, SurpriseRemoval,
           RemovalReset, RemovalPurge, UnlinkControlDevice, ForgetPowered,
           ResetWriterState, CallPurge
  <1>2. \E t \in {Power, Removal} : \E label : Goto(t, label)
    BY DEF PnpEvent, PowerStep, RemovalStep, RefreshAttachmentState, EnterD0,
           LinkControlDevice, LeaveD0, D0ExitReset, D0ExitPurge, SurpriseRemoval,
           RemovalReset, RemovalPurge, UnlinkControlDevice, ForgetPowered,
           ResetWriterState, CallPurge
  <1>3. \A f \in FileObjects : pc'[f] = pc[f]
    BY <1>2 DEF Goto, TypeInv, TypeOK
  <1> QED
    BY <1>1, <1>3, OwnersKept

\* The purge settles the parked requests and no retrieved one.
LEMMA PurgeOwners ==
  ASSUME TypeInv, OwnerInv, NEW t \in Threads, PurgeStep(t)
  PROVE  OwnerInv'
  <1> USE DEF queueVars, requestVars, Threads
  <1>1. \A f \in FileObjects : pc[f] \in {"drainCount", "drainAnswer"}
          => pc'[f] \in {"drainCount", "drainAnswer"}
    BY DEF PurgeStep, PurgeCount, PurgeQueue, PurgeReturn, Goto, TypeInv, TypeOK
  <1>2. CASE PurgeCount(t) \/ PurgeReturn(t)
    BY <1>1, <1>2, OwnersKept DEF PurgeCount, PurgeReturn
  <1>3. CASE PurgeQueue(t)
    <2>1. PendingReadQueue' = <<>> /\ drained' = drained
      BY <1>3 DEF PurgeQueue
    <2>2. \A r \in Requests : /\ rpc'[r] # "queued"
                              /\ rpc'[r] = "drained" <=> rpc[r] = "drained"
      BY <1>3 DEF PurgeQueue, TypeInv, TypeOK
    <2>3. ParkedOnce'
      BY <2>1, <2>2 DEF ParkedOnce, Range, IsInjective
    <2>4. RetrievedOnce'
      BY <2>1, <2>2 DEF OwnerInv, EachRequestOneOwner, RetrievedOnce
    <2> QED
      BY <1>1, <2>1, <2>3, <2>4 DEF OwnerInv, EachRequestOneOwner
  <1> QED
    BY <1>2, <1>3 DEF PurgeStep

\* The drain moves one request from the queue to its thread, and completes it.
LEMMA DrainOwners ==
  ASSUME TypeInv, OwnerInv, NEW f \in FileObjects, DrainStep(f)
  PROVE  OwnerInv'
  <1> USE NullsDistinct
      DEF queueVars, requestVars, Threads, Goto, GotoRequest, EachRequestOneOwner
  <1>1. CASE UncountDrained(f) \/ DrainEnds(f)
    <2>1. /\ UNCHANGED <<PendingReadQueue, drained, rpc>>
          /\ \A g \in FileObjects : pc[g] \in {"drainCount", "drainAnswer"}
               => pc'[g] \in {"drainCount", "drainAnswer"}
      BY <1>1 DEF UncountDrained, DrainEnds, TypeInv, TypeOK
    <2> QED
      BY <2>1, OwnersKept
  <1>2. CASE RetrieveParkedRead(f)
    <2> DEFINE r0 == Head(PendingReadQueue)
    <2>1. /\ PendingReadQueue \in Seq(Requests) /\ PendingReadQueue # <<>>
          /\ PendingReadQueue' = Tail(PendingReadQueue)
          /\ drained' = [drained EXCEPT ![f] = r0]
          /\ rpc' = [rpc EXCEPT ![r0] = "drained"]
          /\ drained[f] = NoRequest
      BY <1>2 DEF RetrieveParkedRead, TypeInv, TypeOK, OwnerInv
    <2>2. r0 \in Requests /\ r0 \in Range(PendingReadQueue)
      <3>1. /\ Head(PendingReadQueue) \in Requests
            /\ Head(PendingReadQueue) = PendingReadQueue[1]
            /\ 1 \in DOMAIN PendingReadQueue
        BY <2>1, HeadTailProperties, LenProperties, EmptySeq
      <3> QED
        BY <3>1 DEF Range
    <2>3. /\ IsInjective(PendingReadQueue')
          /\ Range(PendingReadQueue') = Range(PendingReadQueue) \ {r0}
      BY <2>1, TailElements DEF OwnerInv, ParkedOnce
    <2> HIDE DEF r0
    <2>4. \A r \in Requests : rpc'[r] = IF r = r0 THEN "drained" ELSE rpc[r]
      BY <2>1 DEF TypeInv, TypeOK
    <2>5. \A g \in FileObjects : drained'[g] = IF g = f THEN r0 ELSE drained[g]
      BY <2>1 DEF TypeInv, TypeOK
    <2>6. rpc[r0] = "queued" /\ \A g \in FileObjects : drained[g] # r0
      BY <2>2 DEF OwnerInv, ParkedOnce, RetrievedOnce
    <2>7. ParkedOnce'
      BY <2>3, <2>4 DEF OwnerInv, ParkedOnce
    <2>8. RetrievedOnce'
      <3>1. ASSUME NEW r \in Requests
            PROVE  rpc'[r] = "drained" <=> \E g \in FileObjects : drained'[g] = r
        <4>1. CASE r = r0
          BY <2>4, <2>5, <4>1
        <4>2. CASE r # r0
          BY <2>1, <2>4, <2>5, <4>2 DEF OwnerInv, RetrievedOnce
        <4> QED
          BY <4>1, <4>2
      <3>2. \A g, h \in FileObjects :
              drained'[g] = drained'[h] => g = h \/ drained'[g] = NoRequest
        BY <2>5, <2>6 DEF OwnerInv, RetrievedOnce
      <3> QED
        BY <3>1, <3>2 DEF RetrievedOnce
    <2>9. \A g \in FileObjects :
            drained'[g] # NoRequest => pc'[g] \in {"drainCount", "drainAnswer"}
      BY <1>2, <2>5 DEF RetrieveParkedRead, OwnerInv, TypeInv, TypeOK
    <2> QED
      BY <2>7, <2>8, <2>9 DEF OwnerInv
  <1>3. CASE AnswerDrained(f)
    <2> DEFINE r0 == drained[f]
    <2>1. /\ UNCHANGED PendingReadQueue
          /\ drained' = [drained EXCEPT ![f] = NoRequest]
          /\ \/ rpc' = [rpc EXCEPT ![r0] = "failed"]
             \/ rpc' = [rpc EXCEPT ![r0] = "injected"]
      BY <1>3 DEF AnswerDrained, CompleteRequestWithXInputState
    <2>2. r0 \in Requests => rpc[r0] = "drained"
      BY DEF OwnerInv, RetrievedOnce
    <2>3. \A r \in Requests :
            IF r = r0 THEN rpc'[r] \in {"failed", "injected"} ELSE rpc'[r] = rpc[r]
      BY <2>1 DEF TypeInv, TypeOK
    <2>4. \A g \in FileObjects : drained'[g] = IF g = f THEN NoRequest ELSE drained[g]
      BY <2>1 DEF TypeInv, TypeOK
    <2>5. ParkedOnce'
      <3>1. \A r \in Requests : rpc'[r] = "queued" <=> rpc[r] = "queued"
        BY <2>2, <2>3
      <3> QED
        BY <2>1, <3>1 DEF OwnerInv, ParkedOnce
    <2>6. RetrievedOnce'
      <3>1. ASSUME NEW r \in Requests
            PROVE  rpc'[r] = "drained" <=> \E g \in FileObjects : drained'[g] = r
        <4>1. CASE r = r0
          <5>1. rpc'[r] # "drained"
            BY <2>3, <4>1
          <5>2. \A g \in FileObjects : drained'[g] # r
            BY <2>4, <4>1 DEF OwnerInv, RetrievedOnce
          <5> QED
            BY <5>1, <5>2
        <4>2. CASE r # r0
          BY <2>3, <2>4, <4>2 DEF OwnerInv, RetrievedOnce
        <4> QED
          BY <4>1, <4>2
      <3>2. \A g, h \in FileObjects :
              drained'[g] = drained'[h] => g = h \/ drained'[g] = NoRequest
        BY <2>4 DEF OwnerInv, RetrievedOnce
      <3> QED
        BY <3>1, <3>2 DEF RetrievedOnce
    <2>7. \A g \in FileObjects :
            drained'[g] # NoRequest => pc'[g] \in {"drainCount", "drainAnswer"}
      BY <1>3, <2>4 DEF AnswerDrained, OwnerInv, TypeInv, TypeOK
    <2> QED
      BY <2>5, <2>6, <2>7 DEF OwnerInv
  <1> QED
    BY <1>1, <1>2, <1>3 DEF DrainStep

\* A request enters the queue at its end and leaves it when cancelled.
LEMMA RequestOwners ==
  ASSUME TypeInv, OwnerInv, NEW r \in Requests,
         AppStep(r) \/ RequestStep(r) \/ LowerStep(r)
  PROVE  OwnerInv'
  <1> USE DEF queueVars, threadVars, GotoRequest
  <1>1. CASE ForwardToPendingQueue(r) /\ ~OnlyMovesRequest(r, "uncount")
    <2>1. /\ PendingReadQueue' = Append(PendingReadQueue, r)
          /\ rpc' = [rpc EXCEPT ![r] = "queued"] /\ rpc[r] = "forward"
          /\ UNCHANGED <<drained, pc>>
      BY <1>1 DEF ForwardToPendingQueue
    <2>2. \A s \in Requests : rpc'[s] = IF s = r THEN "queued" ELSE rpc[s]
      BY <2>1 DEF TypeInv, TypeOK
    <2>3. /\ IsInjective(PendingReadQueue')
          /\ Range(PendingReadQueue') = Range(PendingReadQueue) \cup {r}
      BY <2>1, AppendElements
      DEF OwnerInv, EachRequestOneOwner, ParkedOnce, TypeInv, TypeOK
    <2>4. ParkedOnce'
      BY <2>2, <2>3 DEF OwnerInv, EachRequestOneOwner, ParkedOnce
    <2>5. \A s \in Requests : rpc'[s] = "drained" <=> rpc[s] = "drained"
      BY <2>1, <2>2
    <2>6. RetrievedOnce'
      BY <2>1, <2>5 DEF OwnerInv, EachRequestOneOwner, RetrievedOnce
    <2> QED
      BY <2>1, <2>4, <2>6 DEF OwnerInv, EachRequestOneOwner
  <1>2. CASE CancelParkedRead(r)
    <2>1. PICK k \in DOMAIN PendingReadQueue :
            /\ PendingReadQueue[k] = r
            /\ PendingReadQueue' = SubSeq(PendingReadQueue, 1, k - 1)
                 \o SubSeq(PendingReadQueue, k + 1, Len(PendingReadQueue))
      BY <1>2, CancelledRead
    <2>2. /\ rpc' = [rpc EXCEPT ![r] = "failed"] /\ rpc[r] = "queued"
          /\ UNCHANGED <<drained, pc>>
      BY <1>2 DEF CancelParkedRead
    <2>3. \A s \in Requests : rpc'[s] = IF s = r THEN "failed" ELSE rpc[s]
      BY <2>2 DEF TypeInv, TypeOK
    <2>4. /\ IsInjective(PendingReadQueue')
          /\ Range(PendingReadQueue') = Range(PendingReadQueue) \ {r}
      BY <2>1, RemoveAtElements
      DEF OwnerInv, EachRequestOneOwner, ParkedOnce, TypeInv, TypeOK
    <2>5. ParkedOnce'
      BY <2>3, <2>4 DEF OwnerInv, EachRequestOneOwner, ParkedOnce
    <2>6. \A s \in Requests : rpc'[s] = "drained" <=> rpc[s] = "drained"
      BY <2>2, <2>3
    <2>7. RetrievedOnce'
      BY <2>2, <2>6 DEF OwnerInv, EachRequestOneOwner, RetrievedOnce
    <2> QED
      BY <2>2, <2>5, <2>7 DEF OwnerInv, EachRequestOneOwner
  <1>3. CASE /\ ~CancelParkedRead(r)
             /\ ~(ForwardToPendingQueue(r) /\ ~OnlyMovesRequest(r, "uncount"))
    <2>1. /\ UNCHANGED <<PendingReadQueue, drained, pc>>
          /\ rpc[r] \notin {"queued", "drained"}
      BY <1>3
      DEF AppStep, RequestStep, LowerStep, SendRead, HandleReadRequest,
          AnswerInjected, CountPendingRead, ForwardToPendingQueue,
          UncountPendingRead, RecordObservedReport, LowerCompletes,
          SendToLowerFails, OnlyMovesRequest, Settled
    <2>2. \E label : label \notin {"queued", "drained"} /\ GotoRequest(r, label)
      BY <1>3
      DEF AppStep, RequestStep, LowerStep, SendRead, HandleReadRequest,
          AnswerInjected, CountPendingRead, ForwardToPendingQueue,
          UncountPendingRead, RecordObservedReport, LowerCompletes,
          SendToLowerFails, OnlyMovesRequest, CompleteRequestWithXInputState
    <2>3. \A s \in Requests :
            \/ rpc'[s] = rpc[s]
            \/ /\ rpc[s] \notin {"queued", "drained"}
               /\ rpc'[s] \notin {"queued", "drained"}
      BY <2>1, <2>2 DEF TypeInv, TypeOK
    <2> QED
      BY <2>1, <2>3, OwnersKept
  <1> QED
    BY <1>1, <1>2, <1>3

\* Every parked and every retrieved request has one owner, in every
\* reachable state.
LEMMA OwnerInvariant == Spec => []OwnerInv
  <1>1. Init => OwnerInv
    <2> SUFFICES ASSUME Init PROVE OwnerInv
      OBVIOUS
    <2> USE NullsDistinct DEF Init, ContextInit
    <2>1. ParkedOnce
      BY DEF ParkedOnce, Range, IsInjective
    <2>2. RetrievedOnce
      BY DEF RetrievedOnce
    <2> QED
      BY <2>1, <2>2 DEF OwnerInv, EachRequestOneOwner
  <1>2. TypeInv /\ OwnerInv /\ [Next]_vars => OwnerInv'
    <2> SUFFICES ASSUME TypeInv, OwnerInv, [Next]_vars PROVE OwnerInv'
      OBVIOUS
    <2>1. CASE \E f \in FileObjects : ClientStep(f) \/ FileStep(f) \/ LowerRead(f)
      BY <2>1, FileOwners, DrainOwners, PurgeOwners DEF FileStep, Threads
    <2>2. CASE \E r \in Requests : AppStep(r) \/ RequestStep(r) \/ LowerStep(r)
      BY <2>2, RequestOwners
    <2>3. CASE PnpEvent \/ \E t \in {Power, Removal} : CallbackStep(t)
      BY <2>3, PurgeOwners, CallbackOwners DEF CallbackStep, Threads
    <2>4. CASE UNCHANGED vars
      <3>1. UNCHANGED <<PendingReadQueue, drained, rpc, pc>>
        BY <2>4 DEF vars, queueVars, requestVars, threadVars
      <3> QED
        BY <3>1, OwnersKept
    <2> QED
      BY <2>1, <2>2, <2>3, <2>4 DEF Next
  <1> QED
    BY <1>1, <1>2, TypeInvariant, PTL DEF Spec

\* Every parked request is in the queue once and every retrieved request has
\* one thread that will complete it, whatever races between the drain, the
\* purge, the arrival and the cancellation.
THEOREM OneOwner == Spec => []EachRequestOneOwner
  <1>1. OwnerInv => EachRequestOneOwner
    BY DEF OwnerInv
  <1> QED
    BY <1>1, OwnerInvariant, PTL

-----------------------------------------------------------------------------
(* What a request may be shown.                                            *)

\* The labels a request reaches only after its handler or its completion
\* routine found the override on.
OverrideSeen == {"answer", "count", "forward", "uncount", "queued", "drained"}

\* A request that is under way while the override is on has seen it, and so
\* has one that was sent to be answered or parked; as long as it was shown
\* throughout, it is shown now; and only a HID report is recorded.
HistoryInv ==
  \A r \in Requests :
    /\ UnderWay(r) /\ OverrideEnabled => overriddenOnce[r]
    /\ rpc[r] \in OverrideSeen => overriddenOnce[r]
    /\ UnderWay(r) /\ shownThroughout[r] => ShowsInjected
    /\ rpc[r] = "record" => kind[r] = "hid"

\* How a step may move a request: into the labels above and out of them to the
\* injected state, and to the native state past a look at both flags.
MovesAsShown(r) ==
  /\ rpc'[r] \in OverrideSeen =>
       rpc[r] \in OverrideSeen \/ (UnderWay(r) /\ OverrideEnabled)
  /\ UnderWay(r) /\ rpc'[r] = "injected" => rpc[r] \in OverrideSeen
  /\ UnderWay(r) /\ rpc'[r] = "native" =>
       rpc[r] = "record" \/ (kind[r] = "xinput" /\ ~ShowsInjected)
  /\ rpc'[r] = "record" => rpc[r] = "record" \/ kind[r] = "hid"
  /\ UnderWay(r) => kind'[r] = kind[r]
  /\ rpc'[r] = "record" => UnderWay(r)

\* A request that a step does not touch.
LEMMA StillShown ==
  ASSUME NEW r \in Requests, rpc'[r] = rpc[r], kind'[r] = kind[r]
  PROVE  MovesAsShown(r)
  BY DEF MovesAsShown, UnderWay, Settled

\* The handler, the completion routine and the application.
LEMMA RequestShown ==
  ASSUME TypeInv, NEW r \in Requests,
         AppStep(r) \/ RequestStep(r) \/ LowerStep(r), NEW s \in Requests
  PROVE  MovesAsShown(s)
  <1> USE DEF GotoRequest, OnlyMovesRequest
  <1>1. CASE s # r
    <2>1. rpc'[s] = rpc[s] /\ kind'[s] = kind[s]
      BY <1>1
      DEF AppStep, RequestStep, LowerStep, SendRead, CancelParkedRead,
          HandleReadRequest, AnswerInjected, CountPendingRead,
          ForwardToPendingQueue, UncountPendingRead, RecordObservedReport,
          LowerCompletes, SendToLowerFails, CompleteRequestWithXInputState,
          TypeInv, TypeOK
    <2> QED
      BY <2>1, StillShown
  <1>2. CASE s = r /\ AppStep(r)
    <2>1. \/ rpc[r] \in Settled /\ rpc'[r] = "decide"
          \/ rpc[r] = "queued" /\ rpc'[r] = "failed" /\ kind' = kind
      BY <1>2 DEF AppStep, SendRead, CancelParkedRead, TypeInv, TypeOK
    <2> QED
      BY <1>2, <2>1 DEF MovesAsShown, UnderWay, Settled, OverrideSeen
  <1>3. CASE s = r /\ HandleReadRequest(r)
    <2>1. /\ rpc[r] = "decide" /\ kind' = kind
          /\ \/ rpc'[r] \in {"answer", "count"} /\ OverrideEnabled
             \/ rpc'[r] = "lower"
      BY <1>3 DEF HandleReadRequest, ShowsInjected, TypeInv, TypeOK
    <2> QED
      BY <1>3, <2>1 DEF MovesAsShown, UnderWay, Settled, OverrideSeen
  <1>4. CASE s = r /\ LowerStep(r)
    <2>1. /\ rpc[r] = "lower" /\ kind' = kind
          /\ \/ rpc'[r] = "answer" /\ OverrideEnabled
             \/ rpc'[r] = "failed"
             \/ rpc'[r] = "native" /\ kind[r] = "xinput" /\ ~ShowsInjected
             \/ rpc'[r] = "record" /\ kind[r] = "hid"
      BY <1>4 DEF LowerStep, LowerCompletes, SendToLowerFails, ShowsInjected,
                  TypeInv, TypeOK
    <2> QED
      BY <1>4, <2>1 DEF MovesAsShown, UnderWay, Settled, OverrideSeen
  <1>5. CASE s = r /\ RequestStep(r) /\ ~HandleReadRequest(r)
    <2>1. /\ kind' = kind
          /\ \/ rpc[r] \in OverrideSeen /\ rpc'[r] \notin {"native", "record"}
             \/ rpc[r] = "record" /\ rpc'[r] = "native"
      BY <1>5
      DEF RequestStep, AnswerInjected, CountPendingRead, ForwardToPendingQueue,
          UncountPendingRead, RecordObservedReport,
          CompleteRequestWithXInputState, OverrideSeen, TypeInv, TypeOK
    <2> QED
      BY <1>5, <2>1 DEF MovesAsShown, UnderWay, Settled, OverrideSeen
  <1> QED
    BY <1>1, <1>2, <1>3, <1>4, <1>5

\* The drain touches the read it takes from the queue, which was parked, and
\* the one it completes, which it had taken.
LEMMA DrainShown ==
  ASSUME TypeInv, OwnerInv, NEW f \in FileObjects, DrainStep(f),
         NEW s \in Requests
  PROVE  MovesAsShown(s)
  <1> USE DEF GotoRequest, requestVars
  <1>1. CASE RetrieveParkedRead(f)
    <2>1. /\ Head(PendingReadQueue) \in Requests
          /\ Head(PendingReadQueue) \in Range(PendingReadQueue)
      <3>1. PendingReadQueue \in Seq(Requests) /\ PendingReadQueue # <<>>
        BY <1>1 DEF RetrieveParkedRead, TypeInv, TypeOK
      <3>2. /\ Head(PendingReadQueue) \in Requests
            /\ Head(PendingReadQueue) = PendingReadQueue[1]
            /\ 1 \in DOMAIN PendingReadQueue
        BY <3>1, HeadTailProperties, LenProperties, EmptySeq
      <3> QED
        BY <3>2 DEF Range
    <2>2. rpc[Head(PendingReadQueue)] = "queued"
      BY <2>1 DEF OwnerInv, EachRequestOneOwner, ParkedOnce
    <2>3. /\ kind' = kind
          /\ rpc'[s] = IF s = Head(PendingReadQueue) THEN "drained" ELSE rpc[s]
      BY <1>1 DEF RetrieveParkedRead, TypeInv, TypeOK
    <2>4. CASE s = Head(PendingReadQueue)
      BY <2>2, <2>3, <2>4 DEF MovesAsShown, UnderWay, Settled, OverrideSeen
    <2>5. CASE s # Head(PendingReadQueue)
      BY <2>3, <2>5, StillShown
    <2> QED
      BY <2>4, <2>5
  <1>2. CASE AnswerDrained(f)
    <2>1. /\ kind' = kind
          /\ IF s = drained[f] THEN rpc'[s] \in {"failed", "injected"}
                               ELSE rpc'[s] = rpc[s]
      BY <1>2 DEF AnswerDrained, CompleteRequestWithXInputState, TypeInv, TypeOK
    <2>2. s = drained[f] => rpc[s] = "drained"
      BY DEF OwnerInv, EachRequestOneOwner, RetrievedOnce
    <2>3. CASE s = drained[f]
      BY <2>1, <2>2, <2>3 DEF MovesAsShown, UnderWay, Settled, OverrideSeen
    <2>4. CASE s # drained[f]
      BY <2>1, <2>4, StillShown
    <2> QED
      BY <2>3, <2>4
  <1>3. CASE UncountDrained(f) \/ DrainEnds(f)
    BY <1>3, StillShown DEF UncountDrained, DrainEnds
  <1> QED
    BY <1>1, <1>2, <1>3 DEF DrainStep

\* The purge fails what is parked.
LEMMA PurgeShown ==
  ASSUME TypeInv, NEW t \in Threads, PurgeStep(t), NEW s \in Requests
  PROVE  MovesAsShown(s)
  <1>1. CASE PurgeCount(t) \/ PurgeReturn(t)
    BY <1>1, StillShown DEF PurgeCount, PurgeReturn, requestVars
  <1>2. CASE PurgeQueue(t)
    <2>1. /\ kind' = kind
          /\ \/ rpc'[s] = rpc[s]
             \/ rpc[s] = "queued" /\ rpc'[s] = "failed"
      BY <1>2 DEF PurgeQueue, TypeInv, TypeOK
    <2> QED
      BY <2>1, StillShown DEF MovesAsShown, UnderWay, Settled, OverrideSeen
  <1> QED
    BY <1>1, <1>2 DEF PurgeStep

\* No step of anyone moves a request otherwise.
LEMMA StepShown ==
  ASSUME TypeInv, OwnerInv, [Next]_vars, NEW s \in Requests
  PROVE  MovesAsShown(s)
  <1> USE DEF requestVars, OnlyMoves, ResetWriterState
  <1>1. CASE \E f \in FileObjects : ClientStep(f) \/ FileStep(f) \/ LowerRead(f)
    <2>1. PICK f \in FileObjects : ClientStep(f) \/ FileStep(f) \/ LowerRead(f)
      BY <1>1
    <2>2. CASE DrainStep(f)
      BY <2>2, DrainShown
    <2>3. CASE PurgeStep(f)
      BY <2>3, PurgeShown DEF Threads
    <2>4. CASE ClientStep(f) \/ IoctlStep(f) \/ LowerRead(f)
      <3>1. UNCHANGED <<rpc, kind>>
        BY <2>4
        DEF ClientStep, OpenControl, CloseControl, SendIoctl, IoctlStep,
            FileCleanup, AcquireCheck, OnCheck, InjectCheck, RefreshCheck,
            CheckTarget, AcquireWriterSession, ReleaseWriterSession, OverrideOn,
            OverrideOff, InjectAuthorize, StoreInjectedReport, EnsureObserved,
            LowerRead, AnswerObservation
      <3> QED
        BY <3>1, StillShown
    <2> QED
      BY <2>1, <2>2, <2>3, <2>4 DEF FileStep
  <1>2. CASE \E r \in Requests : AppStep(r) \/ RequestStep(r) \/ LowerStep(r)
    BY <1>2, RequestShown
  <1>3. CASE \E t \in {Power, Removal} : PurgeStep(t)
    BY <1>3, PurgeShown DEF Threads
  <1>4. CASE PnpEvent \/ PowerStep \/ RemovalStep
    <2>1. UNCHANGED <<rpc, kind>>
      BY <1>4
      DEF PnpEvent, PowerStep, RemovalStep, RefreshAttachmentState, EnterD0,
          LinkControlDevice, LeaveD0, D0ExitReset, D0ExitPurge, SurpriseRemoval,
          RemovalReset, RemovalPurge, UnlinkControlDevice, ForgetPowered
    <2> QED
      BY <2>1, StillShown
  <1>5. CASE UNCHANGED vars
    BY <1>5, StillShown DEF vars
  <1> QED
    BY <1>1, <1>2, <1>3, <1>4, <1>5 DEF Next, CallbackStep

-----------------------------------------------------------------------------
(* The histories.                                                          *)

\* The history variables constrain no step: what holds of the driver holds of
\* the driver with its histories.
LEMMA HistoryIsDriver == HSpec => [](TypeInv /\ OwnerInv)
  <1>1. HInit => Init
    BY DEF HInit
  <1>2. [HNext]_historyVars => [Next]_vars
    BY DEF HNext, historyVars
  <1> QED
    BY <1>1, <1>2, TypeInvariant, OwnerInvariant, PTL DEF HSpec, Spec

\* The histories tell what each request saw, in every reachable state.
LEMMA HistoryInvariant == HSpec => []HistoryInv
  <1>1. HInit => HistoryInv
    BY DEF HInit, Init, HistoryInv, UnderWay, Settled, OverrideSeen
  <1>2. TypeInv /\ OwnerInv /\ HistoryInv /\ [HNext]_historyVars => HistoryInv'
    <2> SUFFICES ASSUME TypeInv, OwnerInv, HistoryInv, [HNext]_historyVars
                 PROVE  HistoryInv'
      OBVIOUS
    <2>1. CASE HNext
      <3> SUFFICES ASSUME NEW r \in Requests
                   PROVE
                     /\ UnderWay(r)' /\ OverrideEnabled' => overriddenOnce'[r]
                     /\ rpc'[r] \in OverrideSeen => overriddenOnce'[r]
                     /\ UnderWay(r)' /\ shownThroughout'[r] => ShowsInjected'
                     /\ rpc'[r] = "record" => kind'[r] = "hid"
        BY DEF HistoryInv
      <3>1. MovesAsShown(r)
        BY <2>1, StepShown DEF HNext
      <3>2. /\ overriddenOnce'[r] =
                 (UnderWay(r)' /\ (overriddenOnce[r] \/ OverrideEnabled'))
            /\ shownThroughout'[r] =
                 (UnderWay(r)' => (shownThroughout[r] /\ ShowsInjected'))
        BY <2>1 DEF HNext, Observe
      <3>3. /\ UnderWay(r) /\ OverrideEnabled => overriddenOnce[r]
            /\ rpc[r] \in OverrideSeen => overriddenOnce[r]
            /\ rpc[r] = "record" => kind[r] = "hid"
        BY DEF HistoryInv
      <3>4. rpc'[r] \in OverrideSeen => UnderWay(r)'
        BY DEF UnderWay, Settled, OverrideSeen
      <3>5. rpc'[r] \in OverrideSeen => overriddenOnce[r]
        BY <3>1, <3>3 DEF MovesAsShown
      <3>6. rpc'[r] = "record" => kind'[r] = "hid"
        BY <3>1, <3>3 DEF MovesAsShown
      <3> QED
        BY <3>2, <3>4, <3>5, <3>6
    <2>2. CASE UNCHANGED historyVars
      <3>1. UNCHANGED <<rpc, kind, overriddenOnce, shownThroughout,
                        OverrideEnabled, HasInjectedReport>>
        BY <2>2 DEF historyVars, vars, requestVars, sessionVars, writerVars,
                    injectVars
      <3> QED
        BY <3>1 DEF HistoryInv, UnderWay, ShowsInjected
    <2> QED
      BY <2>1, <2>2
  <1> QED
    BY <1>1, <1>2, HistoryIsDriver, PTL DEF HSpec

\* An application is shown the injected state only by a request during which
\* the override was on, whichever thread completes it and however late.
THEOREM InjectedStateNeedsOverride == HSpec => InjectedOnlyUnderOverride
  <1> DEFINE Shown == \A r \in Requests :
               UnderWay(r) /\ rpc'[r] = "injected" => overriddenOnce[r]
  <1>1. TypeInv /\ OwnerInv /\ HistoryInv /\ [HNext]_historyVars
          => [Shown]_historyVars
    BY StepShown DEF HNext, HistoryInv, MovesAsShown
  <1> QED
    BY <1>1, HistoryIsDriver, HistoryInvariant, PTL
    DEF HSpec, InjectedOnlyUnderOverride

\* An application is never shown the physical controller by a state query
\* during all of which the override was on and a report injected.
THEOREM NativeStateNeedsNoOverride == HSpec => NativeOnlyWithoutOverride
  <1> DEFINE Shown == \A r \in Requests :
               UnderWay(r) /\ rpc'[r] = "native" /\ kind[r] = "xinput"
               => ~shownThroughout[r]
  <1>1. TypeInv /\ OwnerInv /\ HistoryInv /\ [HNext]_historyVars
          => [Shown]_historyVars
    <2> SUFFICES ASSUME TypeInv, OwnerInv, HistoryInv, HNext,
                        NEW r \in Requests, UnderWay(r), rpc'[r] = "native",
                        kind[r] = "xinput"
                 PROVE  ~shownThroughout[r]
      OBVIOUS
    <2>1. MovesAsShown(r)
      BY StepShown DEF HNext
    <2>2. ~ShowsInjected
      BY <2>1 DEF MovesAsShown, HistoryInv
    <2> QED
      BY <2>2 DEF HistoryInv
  <1> QED
    BY <1>1, HistoryIsDriver, HistoryInvariant, PTL
    DEF HSpec, NativeOnlyWithoutOverride

=============================================================================
