---------------------------- MODULE LowerDriver ----------------------------
(***************************************************************************)
(* The lower filter, DEVICE_CONTEXT of src/src/lower/device.c, for one     *)
(* controller: the native reads it passes to the stack below, the list of  *)
(* those reads, and the callbacks that cancel them all when the controller *)
(* leaves D0, loses its hardware or is unplugged.  What one lock region    *)
(* does is one step.                                                       *)
(*                                                                         *)
(* Requests are the slots of memory that WDFREQUEST handles point to; a    *)
(* slot is used again for a later request.  IsInD0, the device descriptor  *)
(* and the request counters, which the driver writes and never reads, are  *)
(* left out.                                                               *)
(***************************************************************************)
EXTENDS Integers, Sequences, SequencesExt

CONSTANTS
  Requests,      \* slots of requests
  Pnp,           \* the thread of the power and hardware callbacks
  Removal,       \* the thread of GaYmEvtSurpriseRemoval
  Dangling,      \* a handle whose request was completed
  Supported,     \* QueryDeviceIds found 045E:02FF
  SnapshotSize   \* entries of the array of handles to cancel; 32 in the code

CancelThreads == {Pnp, Removal}

ASSUME LowerAssumption ==
  /\ Pnp # Removal
  /\ Dangling \notin Requests
  /\ Supported \in BOOLEAN
  /\ SnapshotSize \in Nat

VARIABLES
  ActiveInputRequests,   \* the collection of tracked reads
  HasObservedReport,
  rpc,                   \* what is done next for each request
  cancelled,             \* reads below with a cancellation under way
  pc,                    \* what each callback thread does next
  snapshot,              \* the handles a thread still has to cancel
  owed                   \* auxiliary: reads below when a whole snapshot was
                         \* taken that have not come back since

requestVars == <<ActiveInputRequests, rpc, cancelled>>
threadVars  == <<pc, snapshot, owed>>
vars == <<requestVars, threadVars, HasObservedReport>>

InterceptedIoctls == {"HID_READ_REPORT", "HID_GET_INPUT_REPORT"}
IoctlCodes == InterceptedIoctls \cup {"other"}

\* The stages of a read during which the collection holds it.
TrackedLabels == {"send", "below", "untrack", "completed"}
RequestLabels == {"free", "track", "refused", "forward", "capture", "answer"}
                   \cup TrackedLabels
ExitLabels    == {"exitSnapshot", "exitCancel"}
ReleaseLabels == {"releaseSnapshot", "releaseCancel"}
RemovalLabels == {"removeSnapshot", "removeCancel"}
PnpLabels     == {"released", "D3", "D0", "forget"} \cup ExitLabels \cup ReleaseLabels
CancelLabels  == {"exitCancel", "releaseCancel", "removeCancel"}

TypeOK ==
  /\ ActiveInputRequests \in Seq(Requests)
  /\ HasObservedReport \in BOOLEAN
  /\ rpc \in [Requests -> RequestLabels]
  /\ cancelled \in SUBSET Requests
  /\ pc \in [CancelThreads ->
               PnpLabels \cup RemovalLabels \cup {"present", "removed"}]
  /\ pc[Pnp] \in PnpLabels
  /\ pc[Removal] \in RemovalLabels \cup {"present", "removed"}
  /\ snapshot \in [CancelThreads -> Seq(Requests \cup {Dangling})]
  /\ owed \in [CancelThreads -> SUBSET Requests]

\* GaYmEvtDeviceAdd: a zeroed context with an empty collection.
Init ==
  /\ ActiveInputRequests = <<>>
  /\ HasObservedReport = FALSE
  /\ rpc = [r \in Requests |-> "free"]
  /\ cancelled = {}
  /\ pc = [t \in CancelThreads |-> IF t = Pnp THEN "released" ELSE "present"]
  /\ snapshot = [t \in CancelThreads |-> <<>>]
  /\ owed = [t \in CancelThreads |-> {}]

Goto(t, label)        == pc' = [pc EXCEPT ![t] = label]
GotoRequest(r, label) == rpc' = [rpc EXCEPT ![r] = label]

OnlyMoves(t, label) ==
  Goto(t, label) /\ UNCHANGED <<requestVars, snapshot, owed, HasObservedReport>>

OnlyMovesRequest(r, label) ==
  /\ GotoRequest(r, label)
  /\ UNCHANGED <<ActiveInputRequests, cancelled, threadVars, HasObservedReport>>

-----------------------------------------------------------------------------
(* Requests arrive on a parallel queue that is not power-managed.          *)

EvtIoRead(r)  == rpc[r] = "free" /\ OnlyMovesRequest(r, "track")
EvtIoWrite(r) == rpc[r] = "free" /\ OnlyMovesRequest(r, "forward")

ShouldIntercept(code) == code \in InterceptedIoctls

\* GaYmEvtIoDeviceControl; the internal variant decides the same way.
EvtIoDeviceControl(r, code) ==
  /\ rpc[r] = "free"
  /\ OnlyMovesRequest(r, IF ShouldIntercept(code) THEN "track" ELSE "forward")

\* The handle is gone: the snapshots that hold it point to freed memory.
FreeRequest(r) ==
  /\ GotoRequest(r, "free")
  /\ snapshot' = [t \in CancelThreads |->
       [i \in DOMAIN snapshot[t] |->
          IF snapshot[t][i] = r THEN Dangling ELSE snapshot[t][i]]]
  /\ UNCHANGED <<pc, owed>>

\* GaYmForwardRequest sends and forgets, or completes what it cannot send.
ForwardRequest(r) ==
  /\ rpc[r] = "forward"
  /\ FreeRequest(r)
  /\ UNCHANGED <<ActiveInputRequests, cancelled, HasObservedReport>>

-----------------------------------------------------------------------------
(* GaYmSendInputRequestToLower.                                            *)

\* Mutant of TrackActiveInputRequest: the read is sent untracked.
SendUntracked(r) == rpc[r] = "track" /\ OnlyMovesRequest(r, "send")

\* The collection may fail to grow; the read is then refused.
TrackActiveInputRequest(r) ==
  /\ rpc[r] = "track"
  /\ \/ /\ ActiveInputRequests' = Append(ActiveInputRequests, r)
        /\ GotoRequest(r, "send")
        /\ UNCHANGED <<cancelled, threadVars, HasObservedReport>>
     \/ OnlyMovesRequest(r, "refused")

SendToLower(r) ==
  /\ rpc[r] = "send"
  /\ \E label \in {"below", "untrack"} : OnlyMovesRequest(r, label)

\* Mutant of RemoveTracked: the first entry goes, whichever read it is.
RemoveFirstTracked(r) ==
  ActiveInputRequests' = IF ActiveInputRequests = <<>>
                           THEN <<>> ELSE Tail(ActiveInputRequests)

\* GaYmUntrackActiveInputRequest removes the first entry equal to r.
RemoveTracked(r) ==
  IF r \in Range(ActiveInputRequests)
    THEN \E i \in DOMAIN ActiveInputRequests :
           /\ ActiveInputRequests[i] = r
           /\ \A j \in 1 .. i - 1 : ActiveInputRequests[j] # r
           /\ ActiveInputRequests' = RemoveAt(ActiveInputRequests, i)
    ELSE UNCHANGED ActiveInputRequests

UntrackRefused(r) ==
  /\ rpc[r] = "untrack"
  /\ RemoveTracked(r)
  /\ GotoRequest(r, "refused")
  /\ UNCHANGED <<cancelled, threadVars, HasObservedReport>>

CompleteRefused(r) ==
  /\ rpc[r] = "refused"
  /\ FreeRequest(r)
  /\ UNCHANGED <<ActiveInputRequests, cancelled, HasObservedReport>>

-----------------------------------------------------------------------------
(* The stack below answers, GaYmEvtInputRequestCompletion.                 *)

LowerCompletes(r) ==
  /\ rpc[r] = "below"
  /\ GotoRequest(r, "completed")
  /\ cancelled' = cancelled \ {r}
  /\ owed' = [t \in CancelThreads |-> owed[t] \ {r}]
  /\ UNCHANGED <<ActiveInputRequests, pc, snapshot, HasObservedReport>>

UntrackCompleted(r) ==
  /\ rpc[r] = "completed"
  /\ RemoveTracked(r)
  /\ GotoRequest(r, "capture")
  /\ UNCHANGED <<cancelled, threadVars, HasObservedReport>>

\* GaYmCaptureObservedReportFromRequest: a failed, empty or short answer is
\* not recorded, nor one of a controller the driver does not know.
CaptureObservedReport(r) ==
  /\ rpc[r] = "capture"
  /\ HasObservedReport' \in {HasObservedReport} \cup (IF Supported THEN {TRUE} ELSE {})
  /\ GotoRequest(r, "answer")
  /\ UNCHANGED <<ActiveInputRequests, cancelled, threadVars>>

\* Mutant of AnswerRequest: the completion routine forgets to complete it.
NeverAnswer(r) == rpc[r] = "answer" /\ OnlyMovesRequest(r, "answer")

AnswerRequest(r) ==
  /\ rpc[r] = "answer"
  /\ FreeRequest(r)
  /\ UNCHANGED <<ActiveInputRequests, cancelled, HasObservedReport>>

-----------------------------------------------------------------------------
(* GaYmCancelActiveInputRequests, called by three callbacks.               *)

ReadsBelow == {r \in Requests : rpc[r] = "below"}

SnapshotActive(t, label) ==
  LET count == Len(ActiveInputRequests) IN
  /\ snapshot' = [snapshot EXCEPT ![t] =
       SubSeq(ActiveInputRequests, 1, IF count > SnapshotSize THEN SnapshotSize ELSE count)]
  /\ owed' = [owed EXCEPT ![t] = IF count > SnapshotSize THEN {} ELSE ReadsBelow]
  /\ Goto(t, label)
  /\ UNCHANGED <<requestVars, HasObservedReport>>

\* Mutant of CancelSent: whatever the array holds counts as a cancelled read.
CancelUnchecked(h) == cancelled' = cancelled \cup {h}

\* WdfRequestCancelSentRequest: a request that was not sent is left alone.  A
\* dangling handle may hit the request that lives in its memory now, or none.
CancelSent(h) ==
  IF h = Dangling
    THEN \E hit \in SUBSET ReadsBelow :
           /\ \A q, s \in hit : q = s
           /\ cancelled' = cancelled \cup hit
    ELSE cancelled' = IF rpc[h] = "below" THEN cancelled \cup {h} ELSE cancelled

CancelNext(t) ==
  /\ pc[t] \in CancelLabels
  /\ snapshot[t] # <<>>
  /\ CancelSent(Head(snapshot[t]))
  /\ snapshot' = [snapshot EXCEPT ![t] = Tail(snapshot[t])]
  /\ UNCHANGED <<ActiveInputRequests, rpc, pc, owed, HasObservedReport>>

CancelEnds(t, from, label) ==
  pc[t] = from /\ snapshot[t] = <<>> /\ OnlyMoves(t, label)

-----------------------------------------------------------------------------
(* The callbacks.                                                          *)

PrepareHardware == pc[Pnp] = "released" /\ OnlyMoves(Pnp, "D3")
D0Entry         == pc[Pnp] = "D3" /\ OnlyMoves(Pnp, "D0")

D0Exit         == pc[Pnp] = "D0" /\ OnlyMoves(Pnp, "exitSnapshot")
D0ExitSnapshot == pc[Pnp] = "exitSnapshot" /\ SnapshotActive(Pnp, "exitCancel")
D0ExitEnds     == CancelEnds(Pnp, "exitCancel", "D3")

ReleaseHardware == pc[Pnp] = "D3" /\ OnlyMoves(Pnp, "releaseSnapshot")
ReleaseSnapshot == pc[Pnp] = "releaseSnapshot" /\ SnapshotActive(Pnp, "releaseCancel")
ReleaseCancelled == CancelEnds(Pnp, "releaseCancel", "forget")

ForgetObservedReport ==
  /\ pc[Pnp] = "forget"
  /\ HasObservedReport' = FALSE
  /\ Goto(Pnp, "released")
  /\ UNCHANGED <<requestVars, snapshot, owed>>

SurpriseRemoval == pc[Removal] = "present" /\ OnlyMoves(Removal, "removeSnapshot")
RemovalSnapshot == pc[Removal] = "removeSnapshot" /\ SnapshotActive(Removal, "removeCancel")
RemovalEnds     == CancelEnds(Removal, "removeCancel", "removed")

-----------------------------------------------------------------------------

Arrival(r) ==
  \/ EvtIoRead(r) \/ EvtIoWrite(r)
  \/ \E code \in IoctlCodes : EvtIoDeviceControl(r, code)

RequestStep(r) ==
  \/ ForwardRequest(r) \/ TrackActiveInputRequest(r) \/ SendToLower(r)
  \/ UntrackRefused(r) \/ CompleteRefused(r) \/ UntrackCompleted(r)
  \/ CaptureObservedReport(r) \/ AnswerRequest(r)

\* What a callback goes on to do once it was called.
CallbackStep(t) ==
  \/ CancelNext(t)
  \/ t = Pnp /\ (D0ExitSnapshot \/ D0ExitEnds \/ ReleaseSnapshot
                   \/ ReleaseCancelled \/ ForgetObservedReport)
  \/ t = Removal /\ (RemovalSnapshot \/ RemovalEnds)

PnpCall == PrepareHardware \/ D0Entry \/ D0Exit \/ ReleaseHardware \/ SurpriseRemoval

Next ==
  \/ \E r \in Requests : Arrival(r) \/ RequestStep(r) \/ LowerCompletes(r)
  \/ \E t \in CancelThreads : CallbackStep(t)
  \/ PnpCall

Spec == Init /\ [][Next]_vars

\* The drivers' threads run on, and the stack below completes a read that
\* was cancelled; a read that was not may wait for input for ever.
CancelledCompletes(r) == r \in cancelled /\ LowerCompletes(r)

Fairness ==
  /\ \A r \in Requests : WF_vars(RequestStep(r)) /\ WF_vars(CancelledCompletes(r))
  /\ \A t \in CancelThreads : WF_vars(CallbackStep(t))

FairSpec == Spec /\ Fairness

-----------------------------------------------------------------------------
(* Properties.                                                             *)

\* The collection names each read between its tracking and its untracking
\* once, and no other request: the list the callbacks cancel from is exact
\* whatever order reads are sent, refused and completed in.
ActiveReadsTracked ==
  /\ IsInjective(ActiveInputRequests)
  /\ \A r \in Requests :
       rpc[r] \in TrackedLabels <=> r \in Range(ActiveInputRequests)

\* Every read that was with the stack below when a callback took its (whole)
\* snapshot has come back, is cancelled, or is still to be cancelled by that
\* callback: none is passed over while reads come and go during the walk.
CancelReachesReadsBelow ==
  \A t \in CancelThreads : \A r \in owed[t] :
    r \in cancelled \cup Range(snapshot[t])

\* A read that was below when a callback began to cancel is answered: the
\* controller does not keep reads across D3 or removal.
CancelledReadsAnswered ==
  \A t \in CancelThreads, r \in Requests :
    (r \in owed[t]) ~> (rpc[r] = "free")

=============================================================================
