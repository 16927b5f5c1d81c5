-------------------------------- MODULE Feed --------------------------------
(***************************************************************************)
(* From a source of input to what an application is shown.  One of three   *)
(* uses of the machine is chosen at the start: a feeder with a source,     *)
(* beside XInputCheck; one of the verifiers; or an application that reads  *)
(* the controller natively.  The controller may be touched, lose its power *)
(* or be pulled out at any moment.                                         *)
(*                                                                         *)
(* Only one program asks for the session here; Clients is about several.   *)
(***************************************************************************)
EXTENDS Providers, Verifiers

CONSTANTS Feeders, Tools   \* the uses the run is about

ASSUME FeedAssumption ==
  /\ Feeders \subseteq Sources
  /\ Tools \subseteq {"QuickVerify", "XInputAutoVerify", "reader"}

VARIABLES
  tool,       \* the use, "feeder" or one of Tools
  sampled,    \* history: what the verifier was shown, and by whom
  early       \* history: it asked for its baseline before the first report

notes == <<sampled, early>>
feedVars == <<sourceVars, pathVars, verifierVars, pad, tool, notes>>

Init ==
  /\ tool \in {"feeder"} \cup Tools
  /\ SourceInit(IF tool = "feeder" THEN Feeders ELSE {"none"})
  /\ PathInit /\ VerifierInit
  /\ tool # "reader" => UpperSupports /\ LowerSupports
  /\ sampled = {} /\ early = FALSE

-----------------------------------------------------------------------------
(* The feeders.                                                            *)

feederRest == <<child, expired, base, saw, before, verdict, pad>>

\* OpenSupportedAdapter, and the queries, which may fail.
FeederOpens ==
  /\ pc = "start" /\ Goes("acquire")
  /\ ProbeControl
  /\ UNCHANGED <<sourceVars, deviceVars, feederRest>>

\* ACQUIRE and ON, after the provider was initialised.
FeederStart ==
  /\ pc = "acquire"
  /\ IF CanAcquire
     THEN /\ WriterSessionHeld' = TRUE /\ OverrideEnabled' = TRUE /\ Goes("feeding")
          /\ UNCHANGED <<LastInjectedReport, LastPresentedXInputReport,
                         XInputPacketNumber, QueueStarted, query, ReportsInjected>>
     ELSE Goes("done") /\ GiveBack
  /\ UNCHANGED <<sourceVars, deviceVars, feederRest>>

\* What a refused report does: it ends GaYmFeeder, ends a step of the script,
\* and is only printed by the keyboard mode.
AfterRefusal ==
  CASE provider = "testkeys" -> Goes("feeding")
    [] provider = "script"   -> step' = step + 1 /\ Goes("feeding")
    [] OTHER                 -> Goes("leave")

FeederTurn ==
  /\ pc = "feeding"
  /\ GetReport
  /\ IF CanInject
     THEN Goes("feeding") /\ InjectReport(report')
     ELSE AfterRefusal /\ UNCHANGED <<writerVars, query, ReportsInjected>>
  /\ UNCHANGED <<deviceVars, feederRest>>

ScriptEnds ==
  /\ pc = "feeding" /\ provider = "script" /\ step > Len(BuildSteps)
  /\ Goes("leave")
  /\ UNCHANGED <<sourceVars, pathVars, feederRest>>

\* Ctrl+C.
FeederStops ==
  /\ pc = "feeding" /\ Goes("leave")
  /\ UNCHANGED <<sourceVars, pathVars, feederRest>>

FeederLeaves ==
  /\ pc = "leave" /\ Goes("done")
  /\ GiveBack
  /\ UNCHANGED <<sourceVars, deviceVars, feederRest>>

Feeder == FeederOpens \/ FeederStart \/ FeederTurn \/ ScriptEnds \/ FeederLeaves

-----------------------------------------------------------------------------

\* The history of a verifier: an answer it takes, with the shape shown, and a
\* baseline that it asks for under an override that has nothing to show.
Notes ==
  /\ early' = (early \/ (pc = "baseline" /\ OverrideEnabled /\ ~ShowsInjected))
  /\ sampled' = IF tool \in {"QuickVerify", "XInputAutoVerify"} /\ Answers /\ query'.is = "none"
                THEN sampled \cup {<<query.is, query.state.gamepad>>}
                ELSE sampled

Verifier ==
  /\ \/ tool = "QuickVerify" /\ QuickVerify
     \/ tool = "XInputAutoVerify" /\ XInputAutoVerify
  /\ Notes /\ UNCHANGED <<sourceVars, pad>>

Child == CmdTest /\ UNCHANGED <<sourceVars, pad, notes>>

Monitor ==
  /\ tool = "feeder" /\ provider # "script"
  /\ XInputCheck
  /\ UNCHANGED <<sourceVars, verifierVars, notes>>

Reads == \E code \in ReadCodes, whole \in BOOLEAN : NativeRead(code, whole)

\* Under a feeder the controller itself rests.
World ==
  \/ /\ PowerEvents \/ (tool # "feeder" /\ Touch) \/ (tool = "reader" /\ Reads)
     /\ UNCHANGED <<sourceVars, verifierVars, pad, notes>>
  \/ pc # "done" /\ WorldActs /\ UNCHANGED <<pathVars, verifierVars, pad, notes>>
  \/ Expire /\ UNCHANGED <<sourceVars, pad, notes>>

Next ==
  /\ \/ tool = "feeder" /\ (Feeder \/ FeederStops) /\ UNCHANGED notes
     \/ Verifier \/ Child \/ Monitor \/ World
  /\ UNCHANGED tool

Stays == UNCHANGED <<tool, notes>>

\* Threads that can run do, and time passes; what users, the power and the
\* network do is left to them.
Fairness ==
  /\ WF_feedVars(tool = "feeder" /\ Feeder /\ Stays)
  /\ WF_feedVars(Monitor /\ Stays)
  /\ WF_feedVars(Verifier /\ UNCHANGED tool)
  /\ WF_feedVars(Child /\ Stays)
  /\ WF_feedVars(Expire /\ UNCHANGED <<sourceVars, pad>> /\ Stays)
  /\ WF_feedVars(pc # "done" /\ Tick /\ UNCHANGED <<pathVars, verifierVars, pad>> /\ Stays)

Spec == Init /\ [][Next]_feedVars /\ Fairness

-----------------------------------------------------------------------------

TypeOK ==
  /\ PathTypeOK /\ SourceTypeOK /\ VerifierTypeOK
  /\ tool \in {"feeder"} \cup Tools
  /\ tool = "feeder" <=> provider # "none"
  /\ early \in BOOLEAN
  /\ verdict = "none" => pc \notin {"leave", "done"} \/ tool = "feeder"

Feeding == tool = "feeder" /\ pc = "feeding"

\* A feeder that is left to feed, with a source that comes to rest, gets the
\* state of the source on to the screen of the monitor, to stay there: no
\* report is stuck in the socket, kept in the queue or taken for the one of
\* before, whatever was parked or refused first.
FeedReachesPad ==
  ( /\ provider \in {"keyboard", "mouse", "network", "config", "macro"}
    /\ ~player.loop
    /\ <>[]Feeding )
  => <>[]( /\ pad.connected
           /\ pad.lastSemanticState = SemanticState(XInputGamepad(AtRest)) )

\* A macro shows the frame due at its age, also when the tick count wraps
\* around, and the neutral report when it is over.
MacroFollowsClock ==
  [][provider = "macro" /\ FeederTurn
     => report' = IF player.finished THEN Neutral ELSE FrameAt(age)]_feedVars

HidRead == \E code \in ReadCodes : ShouldInterceptReadIoctl(code) /\ NativeRead(code, TRUE)

\* What an observation reports after a HID read is what the controller's user
\* did, button for button what XInput would show but for those XInput has no
\* bit for.
ObservationFaithful ==
  [][HidRead /\ Plain(physical)
     => /\ upperSeen' = physical
        /\ XInputButtons(physical) = SemanticButtons(upperSeen') \ {"GUIDE", "MISC"}]_feedVars

WellFormed(hwid) ==
  \A tag \in {"VID", "PID"} :
    \E i \in DOMAIN hwid : /\ hwid[i].tag = tag /\ HexPrefix(hwid[i].text) = 4
                          /\ \A j \in DOMAIN hwid : hwid[j].tag = tag => j = i

\* The two filters take the same devices for theirs, though they read the
\* hardware id differently, and record the same report of a HID read, up to
\* the lowest position of a stick.
FiltersAgree ==
  [][HidRead /\ WellFormed(id)
     => lowerSeen' = IF UpperSupports
                     THEN [f \in DOMAIN Neutral |-> AtLeast(upperSeen'[f], -32767)]
                     ELSE lowerSeen]_feedVars

Undisturbed == pc = "done" /\ powers = 0 /\ touches = 0

\* A working system passes when it was looked at: QuickVerify when XInput showed
\* it one injected state, and XInputAutoVerify when it sampled during and after
\* the injection.  A QuickVerify that was shown none fails, the false negative
\* of docs/diagnostics.md:93-94.  XInputAutoVerify finds no pad only when it
\* asked between the ON and the first report of its child, which never fails.
UndisturbedPasses ==
  Undisturbed =>
    /\ tool = "QuickVerify" =>
         verdict = IF <<"filter", XInputGamepad(PressA)>> \in sampled THEN "PASS" ELSE "FAIL"
    /\ tool = "XInputAutoVerify" =>
         /\ verdict \in {"PASS", "STATIC", "SESSION_UNAVAILABLE"}
         /\ verdict = "SESSION_UNAVAILABLE" => early
         /\ /\ <<"filter", XInputGamepad(PressA)>> \in sampled
            /\ <<"stack", XInputGamepad(Neutral)>> \in sampled
            => verdict = "PASS"

\* A verifier that passes was shown a state by the filter: nothing else moves
\* a pad that nobody touches.
PassSawInjected ==
  verdict = "PASS" /\ powers = 0 /\ touches = 0
  => \E answer \in sampled : answer[1] = "filter"

\* On a controller that was never away no state query waits for a report: the
\* program under whose override it would wait stopped the pending queue by
\* opening the controller, and such a query fails.
NobodyWaits == query.is = "parked" => powers > 0

\* A verifier ends, whatever happens to the controller while its query waits.
VerifierEnds == tool \in {"QuickVerify", "XInputAutoVerify"} => <>(pc = "done")

=============================================================================
