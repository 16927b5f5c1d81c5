--------------------------- MODULE ClientPrograms ---------------------------
(***************************************************************************)
(* The programs that use the control device, as tables: what each calls,   *)
(* in which order, and where it goes when a call succeeds or fails.        *)
(* A program is a set of rows, each the call made at a label; one label    *)
(* may have several, and one that has none ends it.  Waits are left out,   *)
(* what is printed and the verdicts about what was observed too: "counts"  *)
(* says whether the failure of the call makes the program fail.            *)
(***************************************************************************)

Row(at, call, ok, bad, counts) ==
  [at |-> at, call |-> call, ok |-> ok, bad |-> bad, counts |-> counts]

Need(at, call, ok, bad) == Row(at, call, {ok}, {bad}, TRUE)    \* give up when it fails
Must(at, call, next)    == Row(at, call, {next}, {next}, TRUE)  \* go on, but fail
Try(at, call, next)     == Row(at, call, {next}, {next}, FALSE) \* the result is ignored

\* A loop that ends by the clock, whatever its calls return.
Loop(at, call, exits) == Row(at, call, {at} \cup exits, {at} \cup exits, FALSE)

\* QUERY_DEVICE and QUERY_OBSERVATION, whose failures are only printed.
Describe(next) == {Try("query", "query", "observe"), Try("observe", "observe", next)}

\* The end of every program that holds the session.
GiveBack == {Try("off", "off", "release"), Try("release", "release", "close"),
             Try("close", "close", "end")}

-----------------------------------------------------------------------------
(* GaYmCLI.                                                                *)

CmdStatus ==
  {Row("start", "probe", {"open"}, {"end"}, FALSE),
   Need("open", "openPath", "query", "end"),
   Need("query", "query", "observe", "close"),
   Try("observe", "observe", "close"),
   Try("close", "close", "end")}

\* `on` and `off`: both release the session on their way out.
CmdOverride(code) ==
  {Need("start", "open", "acquire", "end"),
   Need("acquire", "acquire", code, "close"),
   Must(code, code, "release"),
   Must("release", "release", "close"),
   Try("close", "close", "end")}

CmdJitter ==
  {Need("start", "open", "jitter", "end"),
   Must("jitter", "jitter", "close"),
   Try("close", "close", "end")}

\* Polls until the override is off, and for two seconds at most.
WaitForOverrideState ==
  {Row("wait", "awaitOff", {"release"}, {"wait", "expired"}, FALSE),
   Must("expired", "expire", "release")}

TestSteps ==
  {Need("start", "open", "acquire", "end"),
   Need("acquire", "acquire", "on", "close"),
   Need("on", "on", "inject", "release"),
   Must("inject", "inject", "neutral"),
   Must("neutral", "inject", "off"),
   Row("off", "off", {"wait"}, {"release"}, TRUE)} \cup WaitForOverrideState

\* Mutant of CmdTest: nothing closes the handle.
CmdTestUnclosed == TestSteps \cup {Must("release", "release", "end")}

CmdTest ==
  TestSteps \cup {Must("release", "release", "close"), Try("close", "close", "end")}

-----------------------------------------------------------------------------
(* GaYmFeeder.                                                             *)

FeederSetup ==
  {Need("start", "probe", "open", "end"),
   Need("open", "open", "query", "end"),
   Need("provider", "choose", "jitter", "close"),      \* known and initialised
   Row("jitter", "jitter", {"acquire"}, {"acquire"}, FALSE),
   Row("jitter", "skip", {"acquire"}, {}, FALSE),
   Need("acquire", "acquire", "on", "close"),
   Row("on", "on", {"inject", "off"}, {"release"}, TRUE)} \cup Describe("provider")

\* Mutant of FeederLoop: a report that is refused does not end the loop.
FeederLoopStubborn == Loop("inject", "inject", {"off"})

\* Ends at a refused report, and when Ctrl+C has cleared g_Running.
FeederLoop == Row("inject", "inject", {"inject", "off"}, {"off"}, FALSE)

Feeder == FeederSetup \cup {FeederLoop} \cup GiveBack

-----------------------------------------------------------------------------
(* The verifiers.                                                          *)

\* The cleanup both quick verifiers share: neutral and OFF when the override
\* was switched on.
QuickCleanup == {Try("neutral", "inject", "off")} \cup GiveBack

QuickSetup ==
  {Need("start", "open", "query", "end"),
   Need("query", "query", "observe", "close"),
   Try("observe", "observe", "acquire"),
   Need("acquire", "acquire", "surface", "close")}

QuickDrive ==
  {Need("on", "on", "drive", "release"),
   Row("drive", "inject", {"drive", "count"}, {"neutral"}, TRUE),
   Must("count", "query", "neutral")}

ProbeXInputAvailability == Need("surface", "choose", "on", "release")

QuickVerify == QuickSetup \cup {ProbeXInputAvailability} \cup QuickDrive \cup QuickCleanup

OpenXboxHidDevice == Need("surface", "choose", "baseline", "release")

\* The baseline is taken before ON, so that its neutral reports are refused.
CaptureBaselineReport == Loop("baseline", "inject", {"on"})

QuickVerifyHid ==
  QuickSetup \cup {OpenXboxHidDevice, CaptureBaselineReport} \cup QuickDrive \cup QuickCleanup

AutoSetup ==
  {Need("start", "open", "query", "end"),
   Need("acquire", "acquire", "on", "close"),
   Need("on", "on", "pad", "release")} \cup Describe("acquire")

WaitForPad == Row("pad", "choose", {"drive"}, {"hid"}, FALSE)

\* The steps against the XInput pad, each followed by neutral reports; a
\* refused report only ends its step.
RunStep == Loop("drive", "inject", {"settle"})

\* After the last step the counters are tried unless every step passed.
SendNeutralBurst == Loop("settle", "inject", {"counters", "off"})

\* No pad: the same steps against the HID device.
HidFallback == Row("hid", "choose", {"raw"}, {"off"}, TRUE)

RunHidStep == Loop("raw", "inject", {"counters", "off"})

\* The steps once more, between snapshots of the driver's counters.
RunCounterStep == {Loop("counters", "inject", {"off"}), Loop("counters", "query", {"off"})}

AutoVerify ==
  AutoSetup \cup {WaitForPad, RunStep, SendNeutralBurst, HidFallback, RunHidStep}
  \cup RunCounterStep \cup GiveBack

\* The observation monitor, which never asks for the session.
XInputCheck ==
  {Try("start", "open", "watch"),
   Row("watch", "query", {"watch", "close"}, {"watch", "close"}, FALSE),
   Try("close", "close", "end")}

-----------------------------------------------------------------------------
(* MinimalTestFeeder.                                                      *)

TestFeederSetup ==
  {Need("start", "open", "query", "end"),
   Need("acquire", "acquire", "on", "close"),
   Row("on", "on", {"script", "keys"}, {"release"}, TRUE)} \cup Describe("acquire")

\* A refused report only ends its step of the script.
RunScripted == Loop("script", "inject", {"off"})

\* Goes on for ever, whatever the driver answers.
RunKeyboard == Loop("keys", "inject", {})

TestFeeder == TestFeederSetup \cup {RunScripted, RunKeyboard} \cup GiveBack

-----------------------------------------------------------------------------
(* A producer that calls the session functions of the library as it likes. *)

\* gaym_client_close_session: releases what its flag says it holds.
CloseSession(first, second, next) ==
  {Try(first, "releaseHeld", second), Try(second, "close", next)}

\* gaym_client_open_supported_adapter_session closes the session it is given.
OpenSession == CloseSession("reopen", "reclose", "open") \cup {Try("open", "open", "start")}

Producer ==
  {Row("start", "skip", {"reopen", "quit"}, {}, FALSE)} \cup
  {Try("start", code, "start") : code \in {"acquire", "release", "on", "off", "inject", "query"}}
  \cup OpenSession \cup CloseSession("quit", "finish", "end")

-----------------------------------------------------------------------------

Program ==
  [status |-> CmdStatus, on |-> CmdOverride("on"), off |-> CmdOverride("off"),
   jitter |-> CmdJitter, test |-> CmdTest, Feeder |-> Feeder,
   QuickVerify |-> QuickVerify, QuickVerifyHid |-> QuickVerifyHid,
   AutoVerify |-> AutoVerify, XInputCheck |-> XInputCheck,
   TestFeeder |-> TestFeeder, Producer |-> Producer]

Programs == DOMAIN Program

LabelsOf(g) == {row.at : row \in Program[g]} \cup {"end", "killed"}
Labels == UNION {LabelsOf(g) : g \in Programs}

\* The loops of these programs end by the clock or after a counted number of
\* steps; a feeder and a producer run as long as their user wants.
Timed == {"status", "on", "off", "jitter", "test", "QuickVerify", "QuickVerifyHid", "AutoVerify"}

=============================================================================
