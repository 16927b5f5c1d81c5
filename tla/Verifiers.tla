----------------------------- MODULE Verifiers ------------------------------
(***************************************************************************)
(* The programs that watch XInput: XInputCheck, which shows what changes;  *)
(* QuickVerify, which injects and samples itself; and XInputAutoVerify,    *)
(* which samples while its child, `GaYmCLI test`, injects.  A pass of a    *)
(* loop asks XInputGetState in one step and takes the answer in another,   *)
(* so that the query may be parked in between.  XInput may keep the        *)
(* process that injects waiting for news of the pad (AskUnrefreshed).      *)
(***************************************************************************)
EXTENDS XInputPath

VARIABLES
  pc,        \* where the program is, "done" at its end
  child,     \* of XInputAutoVerify: where it is, and whether a call failed
  expired,   \* the loop under way has run for its time
  base,      \* the baseline state, or NoReport
  saw,       \* what was seen to differ
  before,    \* ReportsSent at the start of QuickVerify
  verdict,
  pad        \* padStates of XInputCheck, for the one pad

verifierVars == <<pc, child, expired, base, saw, before, verdict>>

VerifierTypeOK ==
  /\ expired \in BOOLEAN
  /\ child \in [at : {"none", "open", "acquire", "on", "inject", "neutral", "off", "release"},
               failed : BOOLEAN]
  /\ base \in XInputStates \cup {NoReport} /\ before \in 0..MaxSent
  /\ pc \in {"reprobe", "reprobed", "enable", "drive", "sample", "sampled", "count"}
       => base # NoReport
  /\ verdict \in {"none", "ERROR", "PASS", "FAIL", "CHILD_FAILED",
                  "SESSION_UNAVAILABLE", "STATIC"}

\* A child that was not started, or is through.
NoChild == [at |-> "none", failed |-> FALSE]

NoPad == [connected |-> FALSE]

VerifierInit ==
  /\ pc = "start" /\ verdict = "none"
  /\ child = NoChild /\ expired = FALSE
  /\ base = NoReport /\ saw = {} /\ before = 0
  /\ pad = NoPad

-----------------------------------------------------------------------------
(* What differs between a state and the baseline.                          *)

Abs(n) == IF n < 0 THEN -n ELSE n

Named(name, holds) == IF holds THEN {name} ELSE {}

\* QuickVerify: any of these passes.
QuickSigns(b, s) ==
  Named("packet", s.packet # b.packet) \cup
  Named("A", "A" \in s.gamepad.buttons) \cup
  Named("LX", Abs(s.gamepad.lx) >= 20000) \cup
  Named("LT", s.gamepad.lt >= 200) \cup
  Named("any", \E f \in {"lx", "buttons", "lt"} : s.gamepad[f] # b.gamepad[f])

\* Mutant of ObserverSigns: the stick is taken to move to the right only.
ObserverSignsRight(b, s) ==
  Named("A", "A" \in s.gamepad.buttons) \cup
  Named("axis", s.gamepad.lx - b.gamepad.lx >= 12000) \cup
  Named("trigger", s.gamepad.lt >= b.gamepad.lt + 64)

\* XInputAutoVerify, of a state that differs.
ObserverSigns(b, s) ==
  Named("A", "A" \in s.gamepad.buttons) \cup
  Named("axis", Abs(s.gamepad.lx - b.gamepad.lx) >= 12000) \cup
  Named("trigger", s.gamepad.lt >= b.gamepad.lt + 64)

-----------------------------------------------------------------------------
(* Steps of a program.                                                     *)

Goes(label) == pc' = label

\* A pass of a loop asks for the state.
Ask(from, to) ==
  /\ pc = from /\ Goes(to)
  /\ XInputGetState /\ query' = Reply
  /\ UNCHANGED <<deviceVars, child, expired, base, saw, before, verdict>>

\* XInput may show the process that injects a pad that stands still: it gives
\* its baseline back, a state from before the override, and the filter is not
\* asked.  QuickVerify has a verdict for that, "visible but static during
\* inject", and was seen to fail so on a working stack
\* (docs/diagnostics.md:46-48); the repository does not say what in XInput does
\* it.
AskUnrefreshed ==
  /\ pc = "sample" /\ Goes("sampled")
  /\ query' = [is |-> "stack", state |-> base]
  /\ UNCHANGED <<writerVars, ReportsInjected, deviceVars, child, expired, base, saw,
                 before, verdict>>

\* And takes the answer.
Take(from) ==
  /\ pc = from /\ Answered
  /\ query' = [is |-> "none"]
  /\ UNCHANGED <<writerVars, ReportsInjected, deviceVars, child, before>>

\* A loop goes on until its time is over.
Loops(again, after) == Goes(IF expired THEN after ELSE again)

\* The time of a loop runs from before its first pass to its end.
TimedLoop ==
  {"probe", "probed", "reprobe", "reprobed", "drive", "sample", "sampled",
   "baseline", "based", "watch", "watched"}

Expire ==
  /\ pc \in TimedLoop /\ ~expired
  /\ expired' = TRUE
  /\ UNCHANGED <<pathVars, pc, child, base, saw, before, verdict>>

Ends(v) == Goes("leave") /\ verdict' = v

-----------------------------------------------------------------------------
(* QuickVerify.                                                            *)

\* OpenSupportedAdapter and QUERY_DEVICE.
QuickStart ==
  /\ pc = "start"
  /\ before' = DeviceInfo.ReportsSent
  /\ IF power = "removed" THEN Ends("ERROR") ELSE Goes("acquire") /\ UNCHANGED verdict
  /\ ProbeControl
  /\ UNCHANGED <<deviceVars, child, expired, base, saw>>

QuickAcquire ==
  /\ pc = "acquire"
  /\ IF CanAcquire
     THEN Goes("probe") /\ AcquireWriterSession /\ UNCHANGED verdict
     ELSE Ends("ERROR") /\ UNCHANGED <<writerVars, ReportsInjected, query>>
  /\ UNCHANGED <<deviceVars, child, expired, base, saw, before>>

\* WaitForPad: the first state is the baseline.
WaitForPad ==
  /\ Take("probed")
  /\ \/ Answers /\ base' = query.state /\ Goes("reprobe") /\ expired' = FALSE
        /\ UNCHANGED verdict
     \/ ~Answers /\ ~expired /\ Goes("probe") /\ UNCHANGED <<base, expired, verdict>>
     \/ ~Answers /\ expired /\ Ends("ERROR") /\ UNCHANGED <<base, expired>>
  /\ UNCHANGED saw

\* ProbeXInputAvailability waits for another one, which replaces it.
ProbeXInputAvailability ==
  /\ Take("reprobed")
  /\ LET reflected == Answers /\ query.state # base IN
     /\ base' = IF reflected THEN query.state ELSE base
     /\ Goes(IF reflected \/ expired THEN "enable" ELSE "reprobe")
  /\ UNCHANGED <<expired, saw, verdict>>

QuickEnable ==
  /\ pc = "enable"
  /\ IF CanOverride
     THEN Goes("drive") /\ OverrideOn /\ expired' = FALSE /\ UNCHANGED verdict
     ELSE Ends("ERROR") /\ UNCHANGED <<writerVars, ReportsInjected, query, expired>>
  /\ UNCHANGED <<deviceVars, child, base, saw, before>>

QuickInject ==
  /\ pc = "drive"
  /\ IF CanInject
     THEN Goes("sample") /\ InjectReport(PressA) /\ UNCHANGED verdict
     ELSE Ends("ERROR") /\ UNCHANGED <<writerVars, ReportsInjected, query>>
  /\ UNCHANGED <<deviceVars, child, expired, base, saw, before>>

QuickSample ==
  /\ Take("sampled")
  /\ saw' = IF Answers THEN saw \cup QuickSigns(base, query.state) ELSE saw
  /\ Loops("drive", "count")
  /\ UNCHANGED <<expired, base, verdict>>

\* maxLX, minLX and maxLT begin with the baseline.
QuickVerdict ==
  LET signs == saw \cup (QuickSigns(base, base) \cap {"LX", "LT"})
  IN IF signs # {} /\ DeviceInfo.ReportsSent > before THEN "PASS" ELSE "FAIL"

QuickCount ==
  /\ pc = "count"
  /\ Ends(IF power = "removed" THEN "ERROR" ELSE QuickVerdict)
  /\ ProbeControl
  /\ UNCHANGED <<deviceVars, child, expired, base, saw, before>>

\* The cleanup of every program that holds the session.  The neutral report
\* that QuickVerify injects first does not outlast it.
Leave ==
  /\ pc = "leave" /\ Goes("done")
  /\ GiveBack
  /\ UNCHANGED <<deviceVars, child, expired, base, saw, before, verdict>>

QuickVerify ==
  \/ QuickStart \/ QuickAcquire
  \/ Ask("probe", "probed") \/ WaitForPad
  \/ Ask("reprobe", "reprobed") \/ ProbeXInputAvailability
  \/ QuickEnable \/ QuickInject
  \/ Ask("sample", "sampled") \/ AskUnrefreshed \/ QuickSample
  \/ QuickCount \/ Leave

-----------------------------------------------------------------------------
(* XInputAutoVerify and its child.                                         *)

LaunchGaYmCliTest ==
  /\ pc = "start" /\ Goes("baseline")
  /\ child' = [NoChild EXCEPT !.at = "open"]
  /\ UNCHANGED <<pathVars, expired, base, saw, before, verdict>>

\* Mutant of CaptureAnyBaseline: the baseline stays as it was zeroed.
CaptureZeroBaseline ==
  /\ Take("based")
  /\ base' = IF Answers THEN XInputState(Neutral, 0) ELSE NoReport
  /\ Goes(IF Answers /\ ~expired THEN "watch" ELSE "await")
  /\ UNCHANGED <<expired, saw, verdict>>

\* Asked for once: without a baseline nothing is observed.
CaptureAnyBaseline ==
  /\ Take("based")
  /\ base' = IF Answers THEN query.state ELSE NoReport
  /\ Goes(IF Answers /\ ~expired THEN "watch" ELSE "await")
  /\ UNCHANGED <<expired, saw, verdict>>

\* A state that differs adds what it shows, and says anew of the packet.
ObserveAllPads ==
  /\ Take("watched")
  /\ saw' = IF Answers /\ query.state # base
            THEN (saw \ {"packet"}) \cup ObserverSigns(base, query.state)
                 \cup Named("packet", query.state.packet # base.packet)
            ELSE saw
  /\ Loops("watch", "await")
  /\ UNCHANGED <<expired, base, verdict>>

\* The child is through: a failed one is cleaned up after.
AwaitChild ==
  /\ pc = "await" /\ child.at = "none"
  /\ IF child.failed
     THEN Ends("CHILD_FAILED")
     ELSE /\ Goes("done")
          /\ verdict' = CASE base = NoReport -> "SESSION_UNAVAILABLE"
                          [] base # NoReport /\ saw # {} -> "PASS"
                          [] OTHER -> "STATIC"
  /\ UNCHANGED <<pathVars, child, expired, base, saw, before>>

\* Leave stands for `GaYmCLI off` here.
XInputAutoVerify ==
  \/ LaunchGaYmCliTest
  \/ Ask("baseline", "based") \/ CaptureAnyBaseline
  \/ Ask("watch", "watched") \/ ObserveAllPads
  \/ AwaitChild \/ Leave

\* A call of the child: what it does when it succeeds, and where it goes.  The
\* end is a CloseHandle, after a failure too.
ChildCall(at, succeeds, effect, next, otherwise) ==
  /\ child.at = at
  /\ IF succeeds
     THEN effect /\ child' = [child EXCEPT !.at = next]
     ELSE /\ child' = [at |-> otherwise, failed |-> TRUE]
          /\ IF otherwise = "none" THEN GiveBack
             ELSE UNCHANGED <<writerVars, ReportsInjected, query>>
  /\ UNCHANGED <<deviceVars, pc, expired, base, saw, before, verdict>>

CmdTest ==
  \/ ChildCall("open", TRUE, ProbeControl, "acquire", "none")
  \/ ChildCall("acquire", CanAcquire, AcquireWriterSession, "on", "none")
  \/ ChildCall("on", CanOverride, OverrideOn, "inject", "release")
  \/ ChildCall("inject", CanInject, InjectReport(PressA), "neutral", "neutral")
  \/ ChildCall("neutral", CanInject, InjectReport(Neutral), "off", "off")
  \/ ChildCall("off", power # "removed", OverrideOff, "release", "release")
  \/ ChildCall("release", WriterSessionHeld, GiveBack, "none", "none")

-----------------------------------------------------------------------------
(* XInputCheck.                                                            *)

\* The first state of a pad, or one that differs in anything; the semantic
\* state follows only what differs in what is shown.
PadAfter(reply) ==
  CASE reply.is = "failed" -> NoPad
    [] reply.is # "failed" /\ pad.connected /\ reply.state = pad.lastRawState -> pad
    [] OTHER -> [connected |-> TRUE, lastRawState |-> reply.state,
                 lastSemanticState |-> SemanticState(reply.state.gamepad)]

\* A poll, whose answer nobody else waits for: one step unless it is parked.
MonitorPolls ==
  /\ query.is = "none"
  /\ XInputGetState
  /\ IF Reply.is = "parked" THEN query' = Reply /\ UNCHANGED pad
     ELSE query' = query /\ pad' = PadAfter(Reply)
  /\ UNCHANGED deviceVars

MonitorReturns ==
  /\ Answered
  /\ query' = [is |-> "none"] /\ pad' = PadAfter(query)
  /\ UNCHANGED <<writerVars, ReportsInjected, deviceVars>>

\* Once a second, and at the start, it asks the driver about the override.
MonitorHeartbeat ==
  /\ query.is = "none"
  /\ ProbeControl
  /\ UNCHANGED <<deviceVars, pad>>

XInputCheck == MonitorPolls \/ MonitorReturns \/ MonitorHeartbeat

=============================================================================
