---------------------------- MODULE UpperContext ----------------------------
(***************************************************************************)
(* The device context of the upper filter, UPPER_DEVICE_CONTEXT, for one   *)
(* attached controller, and the threads that work on it: one IOCTL thread  *)
(* per open handle of the control device, the power callbacks and the      *)
(* surprise-removal callback.  Everything one StateLock region does is one *)
(* step; stores made outside the lock are steps of their own unless a      *)
(* comment says why they are joined.                                       *)
(*                                                                         *)
(* VendorId and ProductId are folded into IsAttached: the code keeps       *)
(* IsAttached true only for 045E:02FF and tests all three together.  The   *)
(* statistics counters other than PendingInputRequests, the trace ring and *)
(* the jitter configuration, which nothing reads back, are left out.       *)
(***************************************************************************)
EXTENDS Integers, Sequences

CONSTANTS
  FileObjects,   \* handles of \\.\GaYmXInputFilterCtl that clients may open
  Requests,      \* slots of app-facing read requests
  Reports,       \* the GAYM_REPORT payloads a producer injects
  Power,         \* the thread of EvtDeviceD0Entry and EvtDeviceD0Exit
  Removal,       \* the thread of EvtDeviceSurpriseRemoval
  NoFile,        \* WriterFileObject == NULL
  NoReport,      \* a zeroed GAYM_REPORT
  NoRequest,     \* no request retrieved from the pending queue
  IoctlCodes,    \* the control codes clients send in this instance
  RequestKinds,  \* the kinds of app-facing requests in this instance
  Removable,     \* whether the controller may be unplugged
  MaxPacket,     \* bound: no new INJECT once XInputPacketNumber reaches it
  MaxPending     \* bound: no new read once PendingInputRequests passes it

ControlCodes ==
  {"ACQUIRE", "RELEASE", "ON", "OFF", "INJECT", "QUERY_OBSERVATION"}

Threads == FileObjects \cup {Power, Removal}

ASSUME ThreadsDistinct ==
  /\ Power # Removal
  /\ Power \notin FileObjects
  /\ Removal \notin FileObjects
ASSUME NullsDistinct ==
  /\ NoFile \notin FileObjects
  /\ NoReport \notin Reports
  /\ NoRequest \notin Requests
ASSUME InstanceAssumption ==
  /\ IoctlCodes \subseteq ControlCodes
  /\ RequestKinds \subseteq {"xinput", "hid"}
  /\ Removable \in BOOLEAN
  /\ MaxPacket \in Nat
  /\ MaxPending \in Nat

VARIABLES
  \* what the target of the filter is
  IsAttached, IsInD0,
  FilterContext,             \* the control device points at this context
  \* the writer session
  WriterFileObject, WriterSessionHeld, OverrideEnabled,
  \* the injected report
  HasInjectedReport, LastInjectedReport,
  \* the XInput state last shown to the application
  HasPresentedXInputReport, LastPresentedXInputReport, XInputPacketNumber,
  HasObservedReport,         \* a native report was recorded
  \* reads parked until a report is injected
  PendingReadQueue,
  queueAccepting,            \* the framework's flag: cleared by a purge
  PendingInputRequests,
  \* the threads
  pc,                        \* what each thread does next
  ret,                       \* where a thread goes on after a purge
  drained,                   \* the request an injecting thread completes
  \* the app-facing requests
  rpc,                       \* what is done next for each request
  kind                       \* XInput state query or native HID request

targetVars  == <<IsAttached, IsInD0, FilterContext>>
writerVars  == <<WriterFileObject, WriterSessionHeld, OverrideEnabled>>
injectVars  == <<HasInjectedReport, LastInjectedReport>>
presentVars == <<HasPresentedXInputReport, LastPresentedXInputReport,
                 XInputPacketNumber>>
queueVars   == <<PendingReadQueue, queueAccepting, PendingInputRequests>>
threadVars  == <<pc, ret, drained>>
requestVars == <<rpc, kind>>
sessionVars == <<writerVars, injectVars, presentVars>>
vars == <<targetVars, sessionVars, HasObservedReport, queueVars, threadVars,
          requestVars>>

-----------------------------------------------------------------------------
(* Labels.                                                                 *)

PurgeLabels == {"purgeCount", "purgeQueue", "purgeWait"}
DrainLabels == {"drain", "drainCount", "drainAnswer"}
IoctlLabels ==
  {"acquireCheck", "acquire", "release", "onCheck", "on", "off",
   "injectCheck", "injectAuth", "injectStore",
   "ensure", "refresh", "lowerRead", "update", "cleanup"}
FileLabels    == {"closed", "idle"} \cup IoctlLabels \cup DrainLabels \cup PurgeLabels
PowerLabels   == {"D3", "entering", "linking", "D0", "exiting", "purgeAgain"}
                   \cup PurgeLabels
RemovalLabels == {"present", "removing", "purgeAgain", "unlinking", "removed"}
                   \cup PurgeLabels
ReturnLabels  == {"none", "idle", "closed", "purgeAgain", "D3", "unlinking"}

\* A settled slot shows how its last request ended; a new one may be sent.
Settled       == {"idle", "native", "injected", "failed"}
RequestLabels == Settled \cup {"decide", "count", "forward", "uncount",
                               "queued", "drained", "lower", "record", "answer"}

TypeOK ==
  /\ IsAttached \in BOOLEAN
  /\ IsInD0 \in BOOLEAN
  /\ FilterContext \in BOOLEAN
  /\ WriterFileObject \in FileObjects \cup {NoFile}
  /\ WriterSessionHeld \in BOOLEAN
  /\ OverrideEnabled \in BOOLEAN
  /\ HasInjectedReport \in BOOLEAN
  /\ LastInjectedReport \in Reports \cup {NoReport}
  /\ HasPresentedXInputReport \in BOOLEAN
  /\ LastPresentedXInputReport \in Reports \cup {NoReport}
  /\ XInputPacketNumber \in Nat
  /\ HasObservedReport \in BOOLEAN
  /\ PendingReadQueue \in Seq(Requests)
  /\ queueAccepting \in BOOLEAN
  /\ PendingInputRequests \in Int
  /\ pc \in [Threads -> FileLabels \cup PowerLabels \cup RemovalLabels]
  /\ \A f \in FileObjects : pc[f] \in FileLabels
  /\ pc[Power] \in PowerLabels
  /\ pc[Removal] \in RemovalLabels
  /\ ret \in [Threads -> ReturnLabels]
  /\ drained \in [FileObjects -> Requests \cup {NoRequest}]
  /\ rpc \in [Requests -> RequestLabels]
  /\ kind \in [Requests -> {"xinput", "hid"}]

-----------------------------------------------------------------------------
(* Helpers shared by the handlers.                                         *)

Goto(t, label) == pc' = [pc EXCEPT ![t] = label]

\* The context UpperDeviceInitialize leaves, once DeviceAdd has created the
\* control device and pointed it at this context.
ContextInit ==
  /\ IsAttached = FALSE /\ IsInD0 = FALSE /\ FilterContext = TRUE
  /\ WriterFileObject = NoFile
  /\ WriterSessionHeld = FALSE /\ OverrideEnabled = FALSE
  /\ HasInjectedReport = FALSE /\ LastInjectedReport = NoReport
  /\ HasPresentedXInputReport = FALSE
  /\ LastPresentedXInputReport = NoReport
  /\ XInputPacketNumber = 0
  /\ HasObservedReport = FALSE
  /\ PendingReadQueue = <<>> /\ queueAccepting = TRUE
  /\ PendingInputRequests = 0

HasSupportedTarget == IsAttached /\ IsInD0

HoldsSession(f) == WriterSessionHeld /\ WriterFileObject = f

ForgetPresented ==
  /\ HasPresentedXInputReport' = FALSE
  /\ XInputPacketNumber' = 0
  /\ LastPresentedXInputReport' = NoReport

\* Mutant of ClearWriterState: the override survives its session.
ClearWriterStateButOverride ==
  /\ WriterFileObject' = NoFile
  /\ WriterSessionHeld' = FALSE
  /\ HasInjectedReport' = FALSE
  /\ ForgetPresented
  /\ UNCHANGED <<LastInjectedReport, OverrideEnabled>>

\* The fields RELEASE and UpperDeviceResetWriterState clear together.
ClearWriterState ==
  /\ WriterFileObject' = NoFile
  /\ WriterSessionHeld' = FALSE
  /\ OverrideEnabled' = FALSE
  /\ HasInjectedReport' = FALSE
  /\ ForgetPresented
  /\ UNCHANGED LastInjectedReport

\* Leave the lock region for UpperDevicePurgePendingReads, then for label.
CallPurge(t, label) ==
  /\ Goto(t, "purgeCount")
  /\ ret' = [ret EXCEPT ![t] = label]
  /\ UNCHANGED drained

\* UpperDeviceResetWriterState: the reset is conditional on the file object,
\* the purge that follows it is not.
ResetWriterState(t, expected, label) ==
  /\ IF expected = NoFile \/ WriterFileObject = expected
       THEN ClearWriterState
       ELSE UNCHANGED sessionVars
  /\ CallPurge(t, label)
  /\ UNCHANGED <<targetVars, HasObservedReport, queueVars, requestVars>>

=============================================================================
