----------------------------- MODULE UpperRead -----------------------------
(***************************************************************************)
(* The read path of the upper filter: app-facing requests arrive on a      *)
(* parallel default queue that is not power-managed (a filter's is not by  *)
(* default), are answered from the injected report, parked until one is    *)
(* injected, or sent to the lower stack and examined again when they come  *)
(* back.  PendingReadQueue is a framework queue with manual dispatch; what *)
(* the framework does with it (forward, retrieve, purge, cancel) is        *)
(* external, modelled from how the code uses it: a purge makes the queue   *)
(* refuse requests until WdfIoQueueStart, which no code calls.             *)
(***************************************************************************)
EXTENDS UpperContext, SequencesExt

GotoRequest(r, label) == rpc' = [rpc EXCEPT ![r] = label]

\* A step of request r that changes no more than what is done next for it.
OnlyMovesRequest(r, label) ==
  /\ GotoRequest(r, label)
  /\ UNCHANGED <<kind, threadVars, targetVars, sessionVars,
                 HasObservedReport, queueVars>>

ShowsInjected == OverrideEnabled /\ HasInjectedReport

-----------------------------------------------------------------------------
(* Answering with the injected state.                                      *)

\* Mutant of SnapshotXInputState: the packet number counts down.
SnapshotCountingDown ==
  IF ~HasPresentedXInputReport \/ LastPresentedXInputReport # LastInjectedReport
    THEN /\ XInputPacketNumber' = XInputPacketNumber - 1
         /\ LastPresentedXInputReport' = LastInjectedReport
         /\ HasPresentedXInputReport' = TRUE
    ELSE UNCHANGED presentVars

\* UpperSnapshotXInputState: the packet number moves with the report.
SnapshotXInputState ==
  IF ~HasPresentedXInputReport \/ LastPresentedXInputReport # LastInjectedReport
    THEN /\ XInputPacketNumber' = XInputPacketNumber + 1
         /\ LastPresentedXInputReport' = LastInjectedReport
         /\ HasPresentedXInputReport' = TRUE
    ELSE UNCHANGED presentVars

\* UpperCompleteRequestWithXInputState: it fails on an unusable buffer or
\* when the report is gone; it does not look at OverrideEnabled again.
CompleteRequestWithXInputState(r) ==
  \/ /\ GotoRequest(r, "failed")
     /\ UNCHANGED presentVars
  \/ /\ HasInjectedReport
     /\ SnapshotXInputState
     /\ GotoRequest(r, "injected")

AnswerInjected(r) ==
  /\ rpc[r] = "answer"
  /\ CompleteRequestWithXInputState(r)
  /\ UNCHANGED <<kind, threadVars, targetVars, writerVars, injectVars,
                 HasObservedReport, queueVars>>

-----------------------------------------------------------------------------
(* A request arrives.                                                      *)

\* The application sends a request of kind k in slot r.
SendRead(r, k) ==
  /\ rpc[r] \in Settled
  /\ PendingInputRequests \in -MaxPending .. MaxPending
  /\ GotoRequest(r, "decide")
  /\ kind' = [kind EXCEPT ![r] = k]
  /\ UNCHANGED <<threadVars, targetVars, sessionVars, HasObservedReport,
                 queueVars>>

\* Mutant of HandleReadRequest: a report that is there is shown, override or
\* not.
HandleReadUnchecked(r) ==
  /\ rpc[r] = "decide"
  /\ OnlyMovesRequest(r,
       CASE kind[r] = "xinput" /\ HasInjectedReport -> "answer"
         [] kind[r] = "xinput" /\ OverrideEnabled /\ ~HasInjectedReport -> "count"
         [] OTHER -> "lower")

\* Mutant of HandleReadRequest: the request is sent down and forgotten, as one
\* that is not recognised is: no completion routine looks at it again.
HandleReadForgotten(r) ==
  /\ rpc[r] = "decide"
  /\ \E label \in {"native", "failed"} : OnlyMovesRequest(r, label)

\* UpperHandleReadRequest decides on a snapshot of the two flags.
HandleReadRequest(r) ==
  /\ rpc[r] = "decide"
  /\ OnlyMovesRequest(r,
       CASE kind[r] = "xinput" /\ ShowsInjected -> "answer"
         [] kind[r] = "xinput" /\ OverrideEnabled /\ ~HasInjectedReport -> "count"
         [] OTHER -> "lower")

-----------------------------------------------------------------------------
(* UpperQueuePendingReadRequest.                                           *)

CountPendingRead(r) ==
  /\ rpc[r] = "count"
  /\ PendingInputRequests' = PendingInputRequests + 1
  /\ GotoRequest(r, "forward")
  /\ UNCHANGED <<kind, threadVars, targetVars, sessionVars,
                 HasObservedReport, PendingReadQueue, queueAccepting>>

ForwardToPendingQueue(r) ==
  /\ rpc[r] = "forward"
  /\ \/ /\ queueAccepting
        /\ PendingReadQueue' = Append(PendingReadQueue, r)
        /\ GotoRequest(r, "queued")
        /\ UNCHANGED <<kind, threadVars, targetVars, sessionVars,
                       HasObservedReport, queueAccepting, PendingInputRequests>>
     \/ /\ ~queueAccepting
        /\ OnlyMovesRequest(r, "uncount")

UncountPendingRead(r) ==
  /\ rpc[r] = "uncount"
  /\ PendingInputRequests' = PendingInputRequests - 1
  /\ GotoRequest(r, "failed")
  /\ UNCHANGED <<kind, threadVars, targetVars, sessionVars,
                 HasObservedReport, PendingReadQueue, queueAccepting>>

\* The application cancels a parked read: the framework completes it, as the
\* queue has no EvtIoCanceledOnQueue.
CancelParkedRead(r) ==
  /\ rpc[r] = "queued"
  /\ \E i \in DOMAIN PendingReadQueue :
       /\ PendingReadQueue[i] = r
       /\ PendingReadQueue' = RemoveAt(PendingReadQueue, i)
  /\ GotoRequest(r, "failed")
  /\ UNCHANGED <<kind, threadVars, targetVars, sessionVars,
                 HasObservedReport, queueAccepting, PendingInputRequests>>

-----------------------------------------------------------------------------
(* The lower stack answers, UpperEvtInputRequestCompletion.                *)

\* The completion looks at the flags as they are now.  A native HID answer
\* is recorded in a lock region of its own; a failed one, or a failed send,
\* is passed on.
LowerCompletes(r) ==
  /\ rpc[r] = "lower"
  /\ \/ /\ kind[r] = "xinput" /\ ShowsInjected
        /\ OnlyMovesRequest(r, "answer")
     \/ /\ ~(kind[r] = "xinput" /\ ShowsInjected)
        /\ OnlyMovesRequest(r, "failed")
     \/ /\ kind[r] = "xinput" /\ ~ShowsInjected
        /\ OnlyMovesRequest(r, "native")
     \/ /\ kind[r] = "hid"
        /\ OnlyMovesRequest(r, "record")

\* The request could not be sent down at all.
SendToLowerFails(r) ==
  /\ rpc[r] = "lower"
  /\ OnlyMovesRequest(r, "failed")

\* UpperRecordObservedReport: a report too short to parse is not recorded.
RecordObservedReport(r) ==
  /\ rpc[r] = "record"
  /\ HasObservedReport' \in {HasObservedReport, TRUE}
  /\ GotoRequest(r, "native")
  /\ UNCHANGED <<kind, threadVars, targetVars, sessionVars, queueVars>>

-----------------------------------------------------------------------------
(* UpperDeviceCompletePendingReads, run by the thread f of an INJECT.      *)

\* Mutant of RetrieveParkedRead: the request stays in the queue.
PeekParkedRead(f) ==
  /\ pc[f] = "drain"
  /\ PendingReadQueue # <<>>
  /\ drained' = [drained EXCEPT ![f] = Head(PendingReadQueue)]
  /\ GotoRequest(Head(PendingReadQueue), "drained")
  /\ Goto(f, IF PendingInputRequests > 0 THEN "drainCount" ELSE "drainAnswer")
  /\ UNCHANGED <<ret, kind, targetVars, sessionVars, HasObservedReport,
                 queueVars>>

RetrieveParkedRead(f) ==
  /\ pc[f] = "drain"
  /\ PendingReadQueue # <<>>
  /\ PendingReadQueue' = Tail(PendingReadQueue)
  /\ drained' = [drained EXCEPT ![f] = Head(PendingReadQueue)]
  /\ GotoRequest(Head(PendingReadQueue), "drained")
  /\ Goto(f, IF PendingInputRequests > 0 THEN "drainCount" ELSE "drainAnswer")
  /\ UNCHANGED <<ret, kind, targetVars, sessionVars, HasObservedReport,
                 queueAccepting, PendingInputRequests>>

\* Mutant of DrainEnds: the drain may stop before the queue is empty.
DrainEndsEarly(f) ==
  /\ pc[f] = "drain"
  /\ Goto(f, "idle")
  /\ UNCHANGED <<ret, drained, targetVars, sessionVars, HasObservedReport,
                 queueVars, requestVars>>

DrainEnds(f) ==
  /\ pc[f] = "drain"
  /\ PendingReadQueue = <<>>
  /\ Goto(f, "idle")
  /\ UNCHANGED <<ret, drained, targetVars, sessionVars, HasObservedReport,
                 queueVars, requestVars>>

\* The decrement is a second interlocked operation after the test.
UncountDrained(f) ==
  /\ pc[f] = "drainCount"
  /\ PendingInputRequests' = PendingInputRequests - 1
  /\ Goto(f, "drainAnswer")
  /\ UNCHANGED <<ret, drained, targetVars, sessionVars, HasObservedReport,
                 PendingReadQueue, queueAccepting, requestVars>>

AnswerDrained(f) ==
  /\ pc[f] = "drainAnswer"
  /\ CompleteRequestWithXInputState(drained[f])
  /\ drained' = [drained EXCEPT ![f] = NoRequest]
  /\ Goto(f, "drain")
  /\ UNCHANGED <<ret, kind, targetVars, writerVars, injectVars,
                 HasObservedReport, queueVars>>

-----------------------------------------------------------------------------
(* UpperDevicePurgePendingReads, run by any thread t.                      *)

PurgeCount(t) ==
  /\ pc[t] = "purgeCount"
  /\ PendingInputRequests' = 0
  /\ Goto(t, "purgeQueue")
  /\ UNCHANGED <<ret, drained, targetVars, sessionVars, HasObservedReport,
                 PendingReadQueue, queueAccepting, requestVars>>

\* Mutant of PurgeQueue: the queue is started again at once.
PurgeQueueAndRestart(t) ==
  /\ pc[t] = "purgeQueue"
  /\ PendingReadQueue' = <<>>
  /\ rpc' = [r \in Requests |-> IF rpc[r] = "queued" THEN "failed" ELSE rpc[r]]
  /\ Goto(t, "purgeWait")
  /\ UNCHANGED <<ret, drained, kind, targetVars, sessionVars, queueAccepting,
                 HasObservedReport, PendingInputRequests>>

\* WdfIoQueuePurgeSynchronously: the queue closes and what it holds is
\* cancelled ...
PurgeQueue(t) ==
  /\ pc[t] = "purgeQueue"
  /\ queueAccepting' = FALSE
  /\ PendingReadQueue' = <<>>
  /\ rpc' = [r \in Requests |-> IF rpc[r] = "queued" THEN "failed" ELSE rpc[r]]
  /\ Goto(t, "purgeWait")
  /\ UNCHANGED <<ret, drained, kind, targetVars, sessionVars,
                 HasObservedReport, PendingInputRequests>>

\* Mutant of PurgeReturn: it waits also for what the lower stack holds.
PurgeReturnWhenIdle(t) ==
  /\ pc[t] = "purgeWait"
  /\ \A r \in Requests : rpc[r] \in Settled
  /\ Goto(t, ret[t])
  /\ ret' = [ret EXCEPT ![t] = "none"]
  /\ UNCHANGED <<drained, targetVars, sessionVars, HasObservedReport,
                 queueVars, requestVars>>

\* ... and it returns once no request retrieved from the queue is left.
PurgeReturn(t) ==
  /\ pc[t] = "purgeWait"
  /\ \A r \in Requests : rpc[r] # "drained"
  /\ Goto(t, ret[t])
  /\ ret' = [ret EXCEPT ![t] = "none"]
  /\ UNCHANGED <<drained, targetVars, sessionVars, HasObservedReport,
                 queueVars, requestVars>>

PurgeStep(t) == PurgeCount(t) \/ PurgeQueue(t) \/ PurgeReturn(t)

DrainStep(f) ==
  \/ RetrieveParkedRead(f) \/ UncountDrained(f) \/ AnswerDrained(f)
  \/ DrainEnds(f)

RequestStep(r) ==
  \/ HandleReadRequest(r) \/ AnswerInjected(r)
  \/ CountPendingRead(r) \/ ForwardToPendingQueue(r) \/ UncountPendingRead(r)
  \/ RecordObservedReport(r)

LowerStep(r) == LowerCompletes(r) \/ SendToLowerFails(r)

AppStep(r) ==
  \/ \E k \in RequestKinds : SendRead(r, k)
  \/ CancelParkedRead(r)

=============================================================================
