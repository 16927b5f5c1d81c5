---------------------------- MODULE UpperDriver ----------------------------
(***************************************************************************)
(* The upper filter as a whole: the control device, the read path and the  *)
(* power callbacks over one device context, with the properties that make  *)
(* it correct.                                                             *)
(***************************************************************************)
EXTENDS UpperIoctl, UpperRead, UpperLifecycle, Functions

\* The request and thread slots before the first client and the first D0.
Init ==
  /\ ContextInit
  /\ pc = [t \in Threads |-> IF t = Power THEN "D3"
                             ELSE IF t = Removal THEN "present" ELSE "closed"]
  /\ ret = [t \in Threads |-> "none"]
  /\ drained = [f \in FileObjects |-> NoRequest]
  /\ rpc = [r \in Requests |-> "idle"]
  /\ kind = [r \in Requests |-> "xinput"]

FileStep(f)     == IoctlStep(f) \/ DrainStep(f) \/ PurgeStep(f)
CallbackStep(t) == PurgeStep(t) \/ IF t = Power THEN PowerStep ELSE RemovalStep

Next ==
  \/ \E f \in FileObjects : ClientStep(f) \/ FileStep(f) \/ LowerRead(f)
  \/ \E r \in Requests : AppStep(r) \/ RequestStep(r) \/ LowerStep(r)
  \/ PnpEvent
  \/ \E t \in {Power, Removal} : CallbackStep(t)

Spec == Init /\ [][Next]_vars

\* A kernel thread that has something to do does it: handlers and callbacks
\* run to their end.  Clients, the application, the framework's events and
\* the controller below owe nothing.
Fairness ==
  /\ \A f \in FileObjects : WF_vars(FileStep(f))
  /\ \A r \in Requests : WF_vars(RequestStep(r))
  /\ \A t \in {Power, Removal} : WF_vars(CallbackStep(t))

FairSpec == Spec /\ Fairness

-----------------------------------------------------------------------------
(* The writer session.                                                     *)

PurgePending == \E t \in Threads : pc[t] \in {"purgeCount", "purgeQueue"}

\* Out of D0, and no callback is still on its way to the locked reset.
PoweredDown ==
  /\ ~IsInD0
  /\ pc[Power] # "exiting"
  /\ pc[Removal] # "removing"

\* The override is on only for a session, and a session has its owner: no
\* order of acquire, release, cleanup and revocation tears the three fields
\* of the writer session apart.
SessionConsistent ==
  /\ OverrideEnabled => WriterSessionHeld
  /\ WriterSessionHeld <=> WriterFileObject # NoFile

\* Once D0Exit or surprise removal has reset the session, no request that
\* was already past the target check turns the override on again.
NoOverrideOutsideD0 == PoweredDown => ~OverrideEnabled

\* As long as the controller is plugged in, a handle that was closed does
\* not keep the session: whatever was in flight, its cleanup gives it back.
ClosedHandleOwnsNothing ==
  pc[Removal] = "present" =>
    \A f \in FileObjects : pc[f] = "closed" => WriterFileObject # f

\* What one client does never takes the session or the override from the
\* client that holds the session.
OthersKeepOut ==
  [][\A f, g \in FileObjects :
       /\ WriterFileObject = f /\ g # f /\ pc'[g] # pc[g]
       => UNCHANGED writerVars]_vars

\* The driver implements the promise of WriterSession.
Session == INSTANCE WriterSession WITH
  Clients <- FileObjects, NoOwner <- NoFile, owner <- WriterFileObject,
  override <- OverrideEnabled, down <- PoweredDown
SessionPromise == Session!Spec

-----------------------------------------------------------------------------
(* The read path.                                                          *)

ParkedOnce ==
  /\ \A r \in Requests : rpc[r] = "queued" <=> r \in Range(PendingReadQueue)
  /\ IsInjective(PendingReadQueue)

RetrievedOnce ==
  /\ \A r \in Requests :
       rpc[r] = "drained" <=> \E f \in FileObjects : drained[f] = r
  /\ \A f, g \in FileObjects :
       drained[f] = drained[g] => f = g \/ drained[f] = NoRequest

\* Every parked request is in the queue once, and every retrieved request
\* has one thread that will complete it: none is completed twice or lost.
EachRequestOneOwner == ParkedOnce /\ RetrievedOnce

\* No read stays parked once the override is off: a purge takes it, also
\* when the read is parked after the override went.
NoStrandedRead ==
  PendingReadQueue # <<>> => OverrideEnabled \/ PurgePending

-----------------------------------------------------------------------------
(* Progress, under FairSpec.                                               *)

\* Every control request returns to its client and every PnP callback to the
\* framework: no drain runs forever, and no purge waits for a request
\* whose thread waits for the purge.
HandlersReturn ==
  /\ \A f \in FileObjects :
       pc[f] \notin {"closed", "idle"} ~> pc[f] \in {"closed", "idle"}
  /\ pc[Power] \notin {"D0", "D3"} ~> pc[Power] \in {"D0", "D3"}
  /\ pc[Removal] \notin {"present", "removed"} ~> pc[Removal] = "removed"

\* A parked read is answered once the override is off.
ParkedReadReleased ==
  \A r \in Requests :
    rpc[r] = "queued" /\ ~OverrideEnabled ~> rpc[r] # "queued"

\* A read that is parked when an INJECT starts to drain is served by it.
ParkedReadServed ==
  \A r \in Requests, f \in FileObjects :
    rpc[r] = "queued" /\ pc[f] = "drain" ~> rpc[r] # "queued"

-----------------------------------------------------------------------------
(* What the documents and the code's own checks say, and the code does not *)
(* do.                                                                     *)

\* docs/ARCHITECTURE.md: writer ownership is revoked on D0 exit.  It is held
\* by nobody once D0Exit has returned and until the next D0Entry.
RevokedOnD0Exit == pc[Power] = "D3" => ~WriterSessionHeld

\* docs/ARCHITECTURE.md: inject requests without writer ownership fail.
InjectNeedsOwnership ==
  [][\A f \in FileObjects :
       pc[f] = "injectStore" /\ pc'[f] = "drain" => HoldsSession(f)]_vars

\* PROJECT_STATE.md: observation fails rather than synthesize state.
ObservationIsReal ==
  [][\A f \in FileObjects :
       pc[f] = "update" /\ pc'[f] = "idle" => HasObservedReport]_vars

\* The drain tests the count before it decrements it, so that the count, shown
\* to clients as an unsigned number, stays at or above zero.
PendingCountNotNegative == PendingInputRequests >= 0

=============================================================================
