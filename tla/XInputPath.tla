----------------------------- MODULE XInputPath -----------------------------
(***************************************************************************)
(* One controller under both filters, as the programs on the machine see   *)
(* it: what UpperDriver does in several steps of several threads is one    *)
(* step per request here.  The physical controller, the stack below the    *)
(* filters and the library behind XInputGetState are outside: XInput is    *)
(* taken to ask with the output-only request of the exact size that the    *)
(* filter looks for.                                                       *)
(*                                                                         *)
(* XInputPacketNumber wraps at PacketMod where the code's wraps at 2^32,   *)
(* and ReportsInjected stops at MaxSent.  The world touches the controller *)
(* MaxTouches times and takes its power away MaxPower times at most.       *)
(***************************************************************************)
EXTENDS Reports

CONSTANTS
  Shapes,       \* reports the physical controller may come to show
  HardwareIds,  \* hardware ids it may be attached with
  NoReport, MaxTouches, MaxPower, MaxSent, PacketMod

XInputStates == [packet : 0..PacketMod - 1, gamepad : XInputGamepads]

ASSUME PathAssumption ==
  /\ Shapes \subseteq Report
  /\ HardwareIds \subseteq Seq([tag : STRING, text : Seq(Nat)])
  /\ NoReport \notin Report \cup XInputStates
  /\ {MaxTouches, MaxPower} \subseteq Nat
  /\ MaxSent \in Nat \ {0} /\ PacketMod \in Nat \ {0, 1}

VARIABLES
  power, id,                               \* "D0", "D3" or "removed"
  WriterSessionHeld, OverrideEnabled,
  LastInjectedReport, LastPresentedXInputReport,  \* or NoReport
  XInputPacketNumber, ReportsInjected,
  QueueStarted,                            \* the pending queue takes requests
  physical, stackNumber,                   \* what XInput's own stack reports
  query,                                   \* the XInputGetState under way
  upperSeen, lowerSeen,                    \* the reports the filters recorded
  touches, powers

writerVars == <<WriterSessionHeld, OverrideEnabled, LastInjectedReport,
                LastPresentedXInputReport, XInputPacketNumber, QueueStarted>>
deviceVars == <<power, id, physical, stackNumber, upperSeen, lowerSeen, touches, powers>>
pathVars == <<writerVars, ReportsInjected, query, deviceVars>>

MaybeReport == Report \cup {NoReport}

\* The state of the query under way: none, parked, failed or answered, by
\* the filter or by the stack below it.
Answers  == query.is \in {"filter", "stack"}
Answered == Answers \/ query.is = "failed"

PathTypeOK ==
  /\ power \in {"D0", "D3", "removed"}
  /\ id \in HardwareIds
  /\ {WriterSessionHeld, OverrideEnabled, QueueStarted} \subseteq BOOLEAN
  /\ {LastInjectedReport, LastPresentedXInputReport} \subseteq MaybeReport
  /\ {upperSeen, lowerSeen} \subseteq MaybeReport
  /\ {XInputPacketNumber, stackNumber} \subseteq 0..PacketMod - 1
  /\ ReportsInjected \in 0..MaxSent
  /\ physical \in Report
  /\ query.is \in {"none", "parked", "failed", "filter", "stack"}
  /\ Answers => query.state \in XInputStates
  /\ touches \in 0..MaxTouches /\ powers \in 0..MaxPower
  /\ WriterSessionHeld => power = "D0"
  /\ OverrideEnabled => WriterSessionHeld
  /\ query.is = "parked" => OverrideEnabled /\ LastInjectedReport = NoReport

PathInit ==
  /\ power = "D0" /\ id \in HardwareIds
  /\ WriterSessionHeld = FALSE /\ OverrideEnabled = FALSE
  /\ LastInjectedReport = NoReport /\ LastPresentedXInputReport = NoReport
  /\ XInputPacketNumber = 0 /\ ReportsInjected = 0
  /\ QueueStarted \in BOOLEAN         \* purged for good by an earlier program
  /\ physical = Neutral /\ stackNumber = 1
  /\ query = [is |-> "none"]
  /\ upperSeen = NoReport /\ lowerSeen = NoReport
  /\ touches = 0 /\ powers = 0

-----------------------------------------------------------------------------
(* The session, and the pending queue.                                     *)

Failed == [is |-> "failed"]

\* Mutant of PurgePendingReads: the queue is stopped but keeps its request.
StopPendingReads == QueueStarted' = FALSE /\ UNCHANGED query

\* Every parked request fails, and the queue takes no other one: nothing in
\* the code starts it again.
PurgePendingReads ==
  /\ QueueStarted' = FALSE
  /\ query' = IF query.is = "parked" THEN Failed ELSE query

ResetWriterState ==
  /\ WriterSessionHeld' = FALSE /\ OverrideEnabled' = FALSE
  /\ LastInjectedReport' = NoReport /\ LastPresentedXInputReport' = NoReport
  /\ XInputPacketNumber' = 0
  /\ PurgePendingReads

\* UpperDeviceRefreshAttachmentState, and the lookup of the lower filter.
UpperSupports == Supported(UpperParseId(id, "VID"), UpperParseId(id, "PID"))
LowerSupports == Supported(LowerParseId(id, "VID"), LowerParseId(id, "PID"))

HasSupportedTarget == power = "D0" /\ UpperSupports

\* What a QUERY_DEVICE that reaches the driver answers.
DeviceInfo == [OverrideActive |-> OverrideEnabled, ReportsSent |-> ReportsInjected]

\* ACQUIRE is one step, since nobody else asks for the session here.
CanAcquire == HasSupportedTarget

AcquireWriterSession ==
  /\ WriterSessionHeld' = TRUE
  /\ UNCHANGED <<OverrideEnabled, LastInjectedReport, LastPresentedXInputReport,
                 XInputPacketNumber, QueueStarted, ReportsInjected, query>>

OverrideOn ==
  /\ OverrideEnabled' = TRUE
  /\ UNCHANGED <<WriterSessionHeld, LastInjectedReport, LastPresentedXInputReport,
                 XInputPacketNumber, QueueStarted, ReportsInjected, query>>

\* OFF succeeds without a session too.
OverrideOff ==
  /\ OverrideEnabled' = FALSE
  /\ LastPresentedXInputReport' = NoReport /\ XInputPacketNumber' = 0
  /\ PurgePendingReads
  /\ UNCHANGED <<WriterSessionHeld, LastInjectedReport, ReportsInjected>>

\* Mutant of ProbeControl: the cleanup of a handle without the session does
\* nothing at all.
ProbeHarmless == UNCHANGED <<writerVars, ReportsInjected, query>>

\* To find the controller, to open it and for every QUERY_DEVICE the library
\* opens a handle that it closes at once.  Such a handle has no session to
\* lose, but its cleanup purges all the same, if a controller is linked.
ProbeControl ==
  /\ IF power = "removed" THEN UNCHANGED <<QueueStarted, query>> ELSE PurgePendingReads
  /\ UNCHANGED <<WriterSessionHeld, OverrideEnabled, LastInjectedReport,
                 LastPresentedXInputReport, XInputPacketNumber, ReportsInjected>>

\* OFF, RELEASE and CloseHandle, whatever they return.
GiveBack ==
  /\ IF power = "removed" THEN UNCHANGED <<writerVars, query>> ELSE ResetWriterState
  /\ UNCHANGED ReportsInjected

-----------------------------------------------------------------------------
(* XInputGetState and INJECT.                                              *)

\* The packet number goes up when the report to show is not the one of before.
NumberOf(r) ==
  IF LastPresentedXInputReport = r THEN XInputPacketNumber
  ELSE (XInputPacketNumber + 1) % PacketMod

\* UpperSnapshotXInputState of the report r: the answer, and what it leaves.
Snapshot(r) == [is |-> "filter", state |-> XInputState(r, NumberOf(r))]

Presents(r) == XInputPacketNumber' = NumberOf(r) /\ LastPresentedXInputReport' = r

ShowsInjected == OverrideEnabled /\ LastInjectedReport # NoReport

\* What becomes of a query.  Under the override it gets the injected report,
\* waits for the first one, or fails when the queue is stopped; otherwise the
\* stack below answers, if there is a controller.
Reply ==
  CASE ShowsInjected                     -> Snapshot(LastInjectedReport)
    [] OverrideEnabled /\ ~ShowsInjected /\ QueueStarted -> [is |-> "parked"]
    [] ~OverrideEnabled /\ power = "D0"  ->
         [is |-> "stack", state |-> XInputState(physical, stackNumber)]
    [] OTHER                             -> Failed

XInputGetState ==
  /\ IF ShowsInjected THEN Presents(LastInjectedReport)
     ELSE UNCHANGED <<XInputPacketNumber, LastPresentedXInputReport>>
  /\ UNCHANGED <<WriterSessionHeld, OverrideEnabled, LastInjectedReport, QueueStarted,
                 ReportsInjected>>

CanOverride == WriterSessionHeld /\ HasSupportedTarget
CanInject == CanOverride /\ OverrideEnabled

\* UpperStoreInjectedReport, and UpperDeviceCompletePendingReads.
InjectReport(r) ==
  /\ LastInjectedReport' = r
  /\ ReportsInjected' = AtMost(ReportsInjected + 1, MaxSent)
  /\ IF query.is = "parked" THEN Presents(r) /\ query' = Snapshot(r)
     ELSE UNCHANGED <<XInputPacketNumber, LastPresentedXInputReport, query>>
  /\ UNCHANGED <<WriterSessionHeld, OverrideEnabled, QueueStarted>>

-----------------------------------------------------------------------------
(* Power and the physical controller.                                      *)

LosesPower(state) ==
  /\ power = "D0" /\ powers < MaxPower /\ powers' = powers + 1
  /\ power' = state
  /\ upperSeen' = NoReport
  /\ ResetWriterState

D0Exit ==
  /\ LosesPower("D3")
  /\ UNCHANGED <<ReportsInjected, id, physical, stackNumber, lowerSeen, touches>>

SurpriseRemoval ==
  /\ LosesPower("removed")
  /\ UNCHANGED <<ReportsInjected, id, physical, stackNumber, lowerSeen, touches>>

D0Entry ==
  /\ power = "D3" /\ power' = "D0"
  /\ UNCHANGED <<writerVars, ReportsInjected, query, id, physical, stackNumber, upperSeen,
                 lowerSeen, touches, powers>>

\* Attached again: a new device context, whose queue runs and to which
\* GaYmXInputFilterEvtDeviceAdd links the control device.
Replug ==
  /\ power = "removed" /\ power' = "D3"
  /\ QueueStarted' = TRUE
  /\ ReportsInjected' = 0
  /\ lowerSeen' = NoReport
  /\ UNCHANGED <<WriterSessionHeld, OverrideEnabled, LastInjectedReport,
                 LastPresentedXInputReport, XInputPacketNumber, query, id, physical,
                 stackNumber, upperSeen, touches, powers>>

\* The user moves the controller.
Touch ==
  /\ power = "D0" /\ touches < MaxTouches /\ touches' = touches + 1
  /\ physical' \in Shapes \ {physical}
  /\ stackNumber' = (stackNumber + 1) % PacketMod
  /\ UNCHANGED <<writerVars, ReportsInjected, query, power, id, upperSeen, lowerSeen, powers>>

\* UpperShouldInterceptReadIoctl, with which its twin in the lower filter agrees.
ShouldInterceptReadIoctl(code) ==
  code \in {"IOCTL_HID_READ_REPORT", "IOCTL_HID_GET_INPUT_REPORT"}

ReadCodes == {"IRP_MJ_READ", "IOCTL_HID_READ_REPORT", "IOCTL_HID_GET_INPUT_REPORT"}

\* Whether a filter records what has come into the buffer of a read, given
\* that there is a buffer and a whole report in it: the upper one only of HID
\* requests, the lower one of plain reads too, but only of a device it knows.
UpperRecords(code, whole) == ShouldInterceptReadIoctl(code) /\ whole
LowerRecords(code, whole) == code \in ReadCodes /\ whole /\ LowerSupports

\* A native read of an application: never answered by the filters, but
\* recorded on its way up.
NativeRead(code, whole) ==
  /\ power = "D0"
  /\ lowerSeen' = IF LowerRecords(code, whole)
                  THEN LowerParseReport(TranslateReport(physical)) ELSE lowerSeen
  /\ upperSeen' = IF UpperRecords(code, whole)
                  THEN ParseNativeReport(TranslateReport(physical)) ELSE upperSeen
  /\ UNCHANGED <<writerVars, ReportsInjected, query, power, id, physical, stackNumber,
                 touches, powers>>

PowerEvents == D0Exit \/ SurpriseRemoval \/ D0Entry \/ Replug

=============================================================================
