---------------------------- MODULE ClientProofs ----------------------------
(***************************************************************************)
(* Proofs about the programs that use the control device: their tables     *)
(* first, then the types and the busy retry for any number of processes    *)
(* and controllers, and last what a program may believe about its session, *)
(* for any number of processes and one controller.                         *)
(***************************************************************************)
EXTENDS Clients, TLAPS

-----------------------------------------------------------------------------
(* What the proofs need to know of the tables.                             *)

Opens == {"open", "openPath"}
Quiet == {"probe", "query", "observe", "awaitOff", "jitter", "choose", "skip", "expire"}
Calls == Quiet \cup Opens \cup ByHandle \cup {"close", "releaseHeld"}
CliTools == {"on", "off", "test"}

Exits(row) == row.ok \cup row.bad

RowTyped(g, row) ==
  row.call \in Calls /\ Exits(row) \subseteq LabelsOf(g) \ {"killed"}

\* A handle is opened where none is open.
RowOpens(g, row) ==
  /\ "open" \in Exits(row) =>
       \/ row.call = "close"
       \/ row.call = "probe" /\ row.at = "start" /\ g # "Producer"
  /\ row.call \in Opens =>
       /\ "open" \notin row.ok
       /\ \/ row.at = "open" /\ g # "TestFeeder"
          \/ row.at = "start" /\ g # "Producer"

\* No program ends with its handle open.
RowEnds(g, row) ==
  /\ "start" \in Exits(row) => g = "Producer"
  /\ "end" \in Exits(row) =>
       \/ row.call = "close"
       \/ row.call = "probe" /\ row.at = "start" /\ g # "Producer"
       \/ row.call \in Opens /\ "end" \notin row.ok

\* The library closes right after the release of what was held.
RowReleases(g, row) ==
  /\ row.call = "releaseHeld" => g = "Producer" /\ row.ok \subseteq {"reclose", "finish"}
  /\ row.at \in {"reclose", "finish"} => row.call = "close"

\* Only OFF leads out of the labels where the override is on, and a request
\* that changes the session is made once.
RowDrives(g, row) ==
  g # "Producer" =>
    /\ row.call \in {"release", "on", "off"} => row.at \notin Exits(row)
    /\ row.call = "on" => row.ok \subseteq Driving \/ (g = "on" /\ row.ok = {"release"})
    /\ row.at \in Driving /\ row.call # "off" => Exits(row) \subseteq Driving
    /\ g = "on" /\ row.at = "release" => row.call = "release"

\* GaYmCLI gives up with a failure, or closes after its RELEASE.
RowSucceeds(g, row) ==
  g \in CliTools =>
    /\ "close" \in Exits(row) =>
         /\ row.counts
         /\ \/ row.call = "release"
            \/ row.call = "acquire" /\ "close" \notin row.ok
    /\ "end" \in Exits(row) =>
         \/ row.call = "close" /\ row.at = "close"
         \/ row.call = "open" /\ row.at = "start" /\ "end" \notin row.ok /\ row.counts

RowFacts(g, row) ==
  /\ RowTyped(g, row) /\ RowOpens(g, row) /\ RowEnds(g, row)
  /\ RowReleases(g, row) /\ RowDrives(g, row) /\ RowSucceeds(g, row)

\* The rows of GaYmCLI status.
LEMMA RowsOfStatus == \A row \in Program["status"] : RowFacts("status", row)
  <1> DEFINE rows == CmdStatus
  <1>1. Program["status"] = rows
    BY DEF Program
  <1> SUFFICES ASSUME NEW row \in rows PROVE RowFacts("status", row)
    BY <1>1
  <1> USE DEF CmdStatus, Row, Need, Must, Try, Loop
  <1>2. Exits(row) \subseteq LabelsOf("status")
    BY <1>1, SMTT(60) DEF Exits, LabelsOf
  <1>3. row.call \in Calls /\ "killed" \notin Exits(row)
    BY SMTT(60) DEF Exits, Calls, Quiet, Opens, ByHandle
  <1>4. RowOpens("status", row) /\ RowEnds("status", row) /\ RowReleases("status", row)
    BY SMTT(60) DEF RowOpens, RowEnds, RowReleases, Exits, Opens
  <1>5. RowDrives("status", row) /\ RowSucceeds("status", row)
    BY SMTT(60) DEF RowDrives, RowSucceeds, Exits, Driving, CliTools
  <1> QED
    BY <1>2, <1>3, <1>4, <1>5 DEF RowFacts, RowTyped

\* The rows of GaYmCLI on.
LEMMA RowsOfOn == \A row \in Program["on"] : RowFacts("on", row)
  <1> DEFINE rows == CmdOverride("on")
  <1>1. Program["on"] = rows
    BY DEF Program
  <1> SUFFICES ASSUME NEW row \in rows PROVE RowFacts("on", row)
    BY <1>1
  <1> USE DEF CmdOverride, Row, Need, Must, Try, Loop
  <1>2. Exits(row) \subseteq LabelsOf("on")
    BY <1>1, SMTT(60) DEF Exits, LabelsOf
  <1>3. row.call \in Calls /\ "killed" \notin Exits(row)
    BY SMTT(60) DEF Exits, Calls, Quiet, Opens, ByHandle
  <1>4. RowOpens("on", row) /\ RowEnds("on", row) /\ RowReleases("on", row)
    BY SMTT(60) DEF RowOpens, RowEnds, RowReleases, Exits, Opens
  <1>5. RowDrives("on", row) /\ RowSucceeds("on", row)
    BY SMTT(60) DEF RowDrives, RowSucceeds, Exits, Driving, CliTools
  <1> QED
    BY <1>2, <1>3, <1>4, <1>5 DEF RowFacts, RowTyped

\* The rows of GaYmCLI off.
LEMMA RowsOfOff == \A row \in Program["off"] : RowFacts("off", row)
  <1> DEFINE rows == CmdOverride("off")
  <1>1. Program["off"] = rows
    BY DEF Program
  <1> SUFFICES ASSUME NEW row \in rows PROVE RowFacts("off", row)
    BY <1>1
  <1> USE DEF CmdOverride, Row, Need, Must, Try, Loop
  <1>2. Exits(row) \subseteq LabelsOf("off")
    BY <1>1, SMTT(60) DEF Exits, LabelsOf
  <1>3. row.call \in Calls /\ "killed" \notin Exits(row)
    BY SMTT(60) DEF Exits, Calls, Quiet, Opens, ByHandle
  <1>4. RowOpens("off", row) /\ RowEnds("off", row) /\ RowReleases("off", row)
    BY SMTT(60) DEF RowOpens, RowEnds, RowReleases, Exits, Opens
  <1>5. RowDrives("off", row) /\ RowSucceeds("off", row)
    BY SMTT(60) DEF RowDrives, RowSucceeds, Exits, Driving, CliTools
  <1> QED
    BY <1>2, <1>3, <1>4, <1>5 DEF RowFacts, RowTyped

\* The rows of GaYmCLI jitter.
LEMMA RowsOfJitter == \A row \in Program["jitter"] : RowFacts("jitter", row)
  <1> DEFINE rows == CmdJitter
  <1>1. Program["jitter"] = rows
    BY DEF Program
  <1> SUFFICES ASSUME NEW row \in rows PROVE RowFacts("jitter", row)
    BY <1>1
  <1> USE DEF CmdJitter, Row, Need, Must, Try, Loop
  <1>2. Exits(row) \subseteq LabelsOf("jitter")
    BY <1>1, SMTT(60) DEF Exits, LabelsOf
  <1>3. row.call \in Calls /\ "killed" \notin Exits(row)
    BY SMTT(60) DEF Exits, Calls, Quiet, Opens, ByHandle
  <1>4. RowOpens("jitter", row) /\ RowEnds("jitter", row) /\ RowReleases("jitter", row)
    BY SMTT(60) DEF RowOpens, RowEnds, RowReleases, Exits, Opens
  <1>5. RowDrives("jitter", row) /\ RowSucceeds("jitter", row)
    BY SMTT(60) DEF RowDrives, RowSucceeds, Exits, Driving, CliTools
  <1> QED
    BY <1>2, <1>3, <1>4, <1>5 DEF RowFacts, RowTyped

\* The rows of GaYmCLI test.
LEMMA RowsOfTest == \A row \in Program["test"] : RowFacts("test", row)
  <1> DEFINE rows == CmdTest
  <1>1. Program["test"] = rows
    BY DEF Program
  <1> SUFFICES ASSUME NEW row \in rows PROVE RowFacts("test", row)
    BY <1>1
  <1> USE DEF CmdTest, TestSteps, WaitForOverrideState, Row, Need, Must, Try, Loop
  <1>2. Exits(row) \subseteq LabelsOf("test")
    BY <1>1, SMTT(60) DEF Exits, LabelsOf
  <1>3. row.call \in Calls /\ "killed" \notin Exits(row)
    BY SMTT(60) DEF Exits, Calls, Quiet, Opens, ByHandle
  <1>4. RowOpens("test", row) /\ RowEnds("test", row) /\ RowReleases("test", row)
    BY SMTT(60) DEF RowOpens, RowEnds, RowReleases, Exits, Opens
  <1>5. RowDrives("test", row) /\ RowSucceeds("test", row)
    BY SMTT(60) DEF RowDrives, RowSucceeds, Exits, Driving, CliTools
  <1> QED
    BY <1>2, <1>3, <1>4, <1>5 DEF RowFacts, RowTyped

\* The rows of Feeder.
LEMMA RowsOfFeeder == \A row \in Program["Feeder"] : RowFacts("Feeder", row)
  <1> DEFINE rows == Feeder
  <1>1. Program["Feeder"] = rows
    BY DEF Program
  <1> SUFFICES ASSUME NEW row \in rows PROVE RowFacts("Feeder", row)
    BY <1>1
  <1> USE DEF Feeder, FeederSetup, FeederLoop, Describe, GiveBack, Row, Need, Must, Try, Loop
  <1>2. Exits(row) \subseteq LabelsOf("Feeder")
    BY <1>1, SMTT(60) DEF Exits, LabelsOf
  <1>3. row.call \in Calls /\ "killed" \notin Exits(row)
    BY SMTT(60) DEF Exits, Calls, Quiet, Opens, ByHandle
  <1>4. RowOpens("Feeder", row) /\ RowEnds("Feeder", row) /\ RowReleases("Feeder", row)
    BY SMTT(60) DEF RowOpens, RowEnds, RowReleases, Exits, Opens
  <1>5. RowDrives("Feeder", row) /\ RowSucceeds("Feeder", row)
    BY SMTT(60) DEF RowDrives, RowSucceeds, Exits, Driving, CliTools
  <1> QED
    BY <1>2, <1>3, <1>4, <1>5 DEF RowFacts, RowTyped

\* The rows of QuickVerify.
LEMMA RowsOfQuickVerify == \A row \in Program["QuickVerify"] : RowFacts("QuickVerify", row)
  <1> DEFINE rows == QuickVerify
  <1>1. Program["QuickVerify"] = rows
    BY DEF Program
  <1> SUFFICES ASSUME NEW row \in rows PROVE RowFacts("QuickVerify", row)
    BY <1>1
  <1> USE DEF QuickVerify, QuickSetup, ProbeXInputAvailability, QuickDrive,
             QuickCleanup, GiveBack, Row, Need, Must, Try, Loop
  <1>2. Exits(row) \subseteq LabelsOf("QuickVerify")
    BY <1>1, SMTT(60) DEF Exits, LabelsOf
  <1>3. row.call \in Calls /\ "killed" \notin Exits(row)
    BY SMTT(60) DEF Exits, Calls, Quiet, Opens, ByHandle
  <1>4. RowOpens("QuickVerify", row) /\ RowEnds("QuickVerify", row) /\ RowReleases("QuickVerify", row)
    BY SMTT(60) DEF RowOpens, RowEnds, RowReleases, Exits, Opens
  <1>5. RowDrives("QuickVerify", row) /\ RowSucceeds("QuickVerify", row)
    BY SMTT(60) DEF RowDrives, RowSucceeds, Exits, Driving, CliTools
  <1> QED
    BY <1>2, <1>3, <1>4, <1>5 DEF RowFacts, RowTyped

\* The rows of QuickVerifyHid.
LEMMA RowsOfQuickVerifyHid == \A row \in Program["QuickVerifyHid"] : RowFacts("QuickVerifyHid", row)
  <1> DEFINE rows == QuickVerifyHid
  <1>1. Program["QuickVerifyHid"] = rows
    BY DEF Program
  <1> SUFFICES ASSUME NEW row \in rows PROVE RowFacts("QuickVerifyHid", row)
    BY <1>1
  <1> USE DEF QuickVerifyHid, QuickSetup, OpenXboxHidDevice,
             CaptureBaselineReport, QuickDrive, QuickCleanup, GiveBack, Row, Need, Must, Try, Loop
  <1>2. Exits(row) \subseteq LabelsOf("QuickVerifyHid")
    BY <1>1, SMTT(60) DEF Exits, LabelsOf
  <1>3. row.call \in Calls /\ "killed" \notin Exits(row)
    BY SMTT(60) DEF Exits, Calls, Quiet, Opens, ByHandle
  <1>4. RowOpens("QuickVerifyHid", row) /\ RowEnds("QuickVerifyHid", row) /\ RowReleases("QuickVerifyHid", row)
    BY SMTT(60) DEF RowOpens, RowEnds, RowReleases, Exits, Opens
  <1>5. RowDrives("QuickVerifyHid", row) /\ RowSucceeds("QuickVerifyHid", row)
    BY SMTT(60) DEF RowDrives, RowSucceeds, Exits, Driving, CliTools
  <1> QED
    BY <1>2, <1>3, <1>4, <1>5 DEF RowFacts, RowTyped

\* The rows of AutoVerify.
LEMMA RowsOfAutoVerify == \A row \in Program["AutoVerify"] : RowFacts("AutoVerify", row)
  <1> DEFINE rows == AutoVerify
  <1>1. Program["AutoVerify"] = rows
    BY DEF Program
  <1> SUFFICES ASSUME NEW row \in rows PROVE RowFacts("AutoVerify", row)
    BY <1>1
  <1> USE DEF AutoVerify, AutoSetup, WaitForPad, RunStep, SendNeutralBurst,
             HidFallback, RunHidStep, RunCounterStep, Describe, GiveBack, Row, Need, Must, Try, Loop
  <1>2. Exits(row) \subseteq LabelsOf("AutoVerify")
    BY <1>1, SMTT(60) DEF Exits, LabelsOf
  <1>3. row.call \in Calls /\ "killed" \notin Exits(row)
    BY SMTT(60) DEF Exits, Calls, Quiet, Opens, ByHandle
  <1>4. RowOpens("AutoVerify", row) /\ RowEnds("AutoVerify", row) /\ RowReleases("AutoVerify", row)
    BY SMTT(60) DEF RowOpens, RowEnds, RowReleases, Exits, Opens
  <1>5. RowDrives("AutoVerify", row) /\ RowSucceeds("AutoVerify", row)
    BY SMTT(60) DEF RowDrives, RowSucceeds, Exits, Driving, CliTools
  <1> QED
    BY <1>2, <1>3, <1>4, <1>5 DEF RowFacts, RowTyped

\* The rows of XInputCheck.
LEMMA RowsOfXInputCheck == \A row \in Program["XInputCheck"] : RowFacts("XInputCheck", row)
  <1> DEFINE rows == XInputCheck
  <1>1. Program["XInputCheck"] = rows
    BY DEF Program
  <1> SUFFICES ASSUME NEW row \in rows PROVE RowFacts("XInputCheck", row)
    BY <1>1
  <1> USE DEF XInputCheck, Row, Need, Must, Try, Loop
  <1>2. Exits(row) \subseteq LabelsOf("XInputCheck")
    BY <1>1, SMTT(60) DEF Exits, LabelsOf
  <1>3. row.call \in Calls /\ "killed" \notin Exits(row)
    BY SMTT(60) DEF Exits, Calls, Quiet, Opens, ByHandle
  <1>4. RowOpens("XInputCheck", row) /\ RowEnds("XInputCheck", row) /\ RowReleases("XInputCheck", row)
    BY SMTT(60) DEF RowOpens, RowEnds, RowReleases, Exits, Opens
  <1>5. RowDrives("XInputCheck", row) /\ RowSucceeds("XInputCheck", row)
    BY SMTT(60) DEF RowDrives, RowSucceeds, Exits, Driving, CliTools
  <1> QED
    BY <1>2, <1>3, <1>4, <1>5 DEF RowFacts, RowTyped

\* The rows of TestFeeder.
LEMMA RowsOfTestFeeder == \A row \in Program["TestFeeder"] : RowFacts("TestFeeder", row)
  <1> DEFINE rows == TestFeeder
  <1>1. Program["TestFeeder"] = rows
    BY DEF Program
  <1> SUFFICES ASSUME NEW row \in rows PROVE RowFacts("TestFeeder", row)
    BY <1>1
  <1> USE DEF TestFeeder, TestFeederSetup, RunScripted, RunKeyboard,
             Describe, GiveBack, Row, Need, Must, Try, Loop
  <1>2. Exits(row) \subseteq LabelsOf("TestFeeder")
    BY <1>1, SMTT(60) DEF Exits, LabelsOf
  <1>3. row.call \in Calls /\ "killed" \notin Exits(row)
    BY SMTT(60) DEF Exits, Calls, Quiet, Opens, ByHandle
  <1>4. RowOpens("TestFeeder", row) /\ RowEnds("TestFeeder", row) /\ RowReleases("TestFeeder", row)
    BY SMTT(60) DEF RowOpens, RowEnds, RowReleases, Exits, Opens
  <1>5. RowDrives("TestFeeder", row) /\ RowSucceeds("TestFeeder", row)
    BY SMTT(60) DEF RowDrives, RowSucceeds, Exits, Driving, CliTools
  <1> QED
    BY <1>2, <1>3, <1>4, <1>5 DEF RowFacts, RowTyped

\* The rows of Producer.
LEMMA RowsOfProducer == \A row \in Program["Producer"] : RowFacts("Producer", row)
  <1> DEFINE rows == Producer
  <1>1. Program["Producer"] = rows
    BY DEF Program
  <1> SUFFICES ASSUME NEW row \in rows PROVE RowFacts("Producer", row)
    BY <1>1
  <1> USE DEF Producer, OpenSession, CloseSession, Row, Need, Must, Try, Loop
  <1> DEFINE named == {"start", "reopen", "reclose", "open", "quit", "finish"}
  <1>2. named \subseteq {r.at : r \in rows}
    <2> DEFINE rest == {Row("start", "skip", {"reopen", "quit"}, {}, FALSE)}
                       \cup OpenSession \cup CloseSession("quit", "finish", "end")
    <2>1. \A l \in named : \E r \in rest : r.at = l
      BY SMTT(60)
    <2>2. rest \subseteq rows
      BY Zenon
    <2> HIDE DEF rest, rows
    <2> QED
      BY <2>1, <2>2, Zenon
  <1>3. Exits(row) \subseteq named \cup {"end"}
    BY SMTT(60) DEF Exits
  <1>4. Exits(row) \subseteq LabelsOf("Producer")
    BY <1>1, <1>2, <1>3 DEF LabelsOf
  <1>5. row.call \in Calls /\ "killed" \notin Exits(row)
    BY <1>3, SMTT(60) DEF Calls, Quiet, Opens, ByHandle
  <1>6. RowOpens("Producer", row) /\ RowEnds("Producer", row) /\ RowReleases("Producer", row)
    BY SMTT(60) DEF RowOpens, RowEnds, RowReleases, Exits, Opens
  <1>7. RowDrives("Producer", row) /\ RowSucceeds("Producer", row)
    BY SMTT(60) DEF RowDrives, RowSucceeds, Exits, Driving, CliTools
  <1> QED
    BY <1>4, <1>5, <1>6, <1>7 DEF RowFacts, RowTyped

\* All of them.
LEMMA RowsOfPrograms ==
  ASSUME NEW g \in Programs, NEW row \in Program[g]
  PROVE  RowFacts(g, row)
  <1>1. Programs = {"status", "on", "off", "jitter", "test", "Feeder",
                    "QuickVerify", "QuickVerifyHid", "AutoVerify", "XInputCheck",
                    "TestFeeder", "Producer"}
    BY DEF Programs, Program
  <1> QED
    BY <1>1, RowsOfStatus, RowsOfOn, RowsOfOff, RowsOfJitter, RowsOfTest,
       RowsOfFeeder, RowsOfQuickVerify, RowsOfQuickVerifyHid, RowsOfAutoVerify,
       RowsOfXInputCheck, RowsOfTestFeeder, RowsOfProducer

-----------------------------------------------------------------------------
(* The driver's side of a step.                                            *)

\* The handles of the processes are handles, and all different.
LEMMA HandlesDistinct ==
  /\ \A p \in Processes : Device(p) \in Handles \ {NULL} /\ Probe(p) \in Handles \ {NULL}
  /\ \A p, q : Device(p) = Device(q) => p = q
  /\ \A p, q : Device(p) # Probe(q)
  <1>1. \A p \in Processes : Device(p) \in Handles \ {NULL} /\ Probe(p) \in Handles \ {NULL}
    BY ClientsAssumption, ControlAssumption
  <1>2. \A p, q : Device(p) = Device(q) => p = q
    BY DEF Device
  <1>3. \A p, q : Device(p) # Probe(q)
    <2> SUFFICES ASSUME NEW p, NEW q, Device(p) = Probe(q) PROVE FALSE
      OBVIOUS
    <2> QED
      BY "device" # "probe" DEF Device, Probe
  <1> QED
    BY <1>1, <1>2, <1>3, Zenon

\* A session only changes hands between nobody and the handle h, and an
\* override is switched only where h holds the session or nobody does.
TouchedBy(h) ==
  \A c \in Controllers :
    \/ WriterFileObject'[c] = WriterFileObject[c] /\ OverrideEnabled'[c] = OverrideEnabled[c]
    \/ WriterFileObject[c] \in {NULL, h} /\ WriterFileObject'[c] \in {NULL, h}

\* A request keeps the types and touches only what its handle may.
LEMMA HandleIoctlEffect ==
  ASSUME ControlTypeOK, UNCHANGED linkVars, NEW h \in Handles, NEW code \in ByHandle,
         HandleIoctl(code, h)
  PROVE  ControlTypeOK' /\ TouchedBy(h)
  <1> DEFINE c == FilterContext
  <1> USE DEF linkVars, sessionVars
  <1>1. CASE Status(code, h) # "ok"
    BY <1>1 DEF HandleIoctl, ControlTypeOK, TouchedBy
  <1>2. CASE Status(code, h) = "ok"
    <2>1. c \in Controllers /\ ~HeldByOther(c, h) /\ (code \in NeedSession => Holds(c, h))
      BY <1>2 DEF Status, ControlTypeOK, ByHandle, NeedSession, Holds, HeldByOther
    <2>2. CASE code = "acquire"
      BY <1>2, <2>1, <2>2 DEF HandleIoctl, ControlTypeOK, TouchedBy, HeldByOther
    <2>3. CASE code = "release"
      BY <1>2, <2>1, <2>3 DEF HandleIoctl, ControlTypeOK, TouchedBy, NeedSession, Holds
    <2>4. CASE code = "on"
      BY <1>2, <2>1, <2>4 DEF HandleIoctl, ControlTypeOK, TouchedBy, NeedSession, Holds
    <2>5. CASE code = "off"
      BY <1>2, <2>1, <2>5 DEF HandleIoctl, ControlTypeOK, TouchedBy, HeldByOther
    <2>6. CASE code = "inject"
      BY <1>2, <2>6 DEF HandleIoctl, ControlTypeOK, TouchedBy
    <2> QED
      BY <2>2, <2>3, <2>4, <2>5, <2>6 DEF ByHandle
  <1> QED
    BY <1>1, <1>2

\* So does a cleanup.
LEMMA FileCleanupEffect ==
  ASSUME ControlTypeOK, UNCHANGED linkVars, NEW h \in Handles, FileCleanup(h)
  PROVE  ControlTypeOK' /\ TouchedBy(h)
  BY DEF linkVars, sessionVars, FileCleanup, ResetWriterState, Holds, ControlTypeOK, TouchedBy

\* And a request through the handle of a process.
LEMMA SendIoctlEffect ==
  ASSUME ControlTypeOK, UNCHANGED linkVars, NEW p \in Processes, NEW code \in ByHandle,
         SendIoctl(p, code)
  PROVE  ControlTypeOK' /\ TouchedBy(Device(p))
  <1>1. CASE open[p]
    BY <1>1, HandleIoctlEffect, HandlesDistinct DEF SendIoctl
  <1>2. CASE ~open[p]
    BY <1>2 DEF SendIoctl, sessionVars, linkVars, ControlTypeOK, TouchedBy
  <1> QED
    BY <1>1, <1>2

\* And the close of the handle of a process.
LEMMA CloseEffect ==
  ASSUME ControlTypeOK, UNCHANGED linkVars, NEW p \in Processes,
         IF open[p] THEN FileCleanup(Device(p)) ELSE UNCHANGED sessionVars
  PROVE  ControlTypeOK' /\ TouchedBy(Device(p))
  <1>1. CASE open[p]
    BY <1>1, FileCleanupEffect, HandlesDistinct
  <1>2. CASE ~open[p]
    BY <1>2 DEF sessionVars, linkVars, ControlTypeOK, TouchedBy
  <1> QED
    BY <1>1, <1>2

-----------------------------------------------------------------------------
(* Types.                                                                  *)

\* A handle is opened where none is open, and the console handler belongs to
\* a MinimalTestFeeder that has opened its own.
HandleInv ==
  \A p \in Processes :
    /\ at[p] = "open" => ~open[p]
    /\ at[p] = "start" /\ prog[p] # "Producer" => ~open[p]
    /\ handler[p] = "exit" => ~open[p]
    /\ handler[p] # "none" => prog[p] = "TestFeeder" /\ at[p] # "start"

ClientTypeInv == TypeOK /\ HandleInv

\* Every program has a first call.
HasStart(rows) == \E row \in rows : row.at = "start"

LEMMA StartIsALabel == \A g \in Programs : "start" \in LabelsOf(g)
  <1> USE DEF HasStart, Row, Need, Must, Try, Loop
  <1>1. HasStart(CmdStatus)
    BY DEF CmdStatus
  <1>2. HasStart(CmdOverride("on"))
    BY DEF CmdOverride
  <1>3. HasStart(CmdOverride("off"))
    BY DEF CmdOverride
  <1>4. HasStart(CmdJitter)
    BY DEF CmdJitter
  <1>5. HasStart(CmdTest)
    <2>1. Need("start", "open", "acquire", "end").at = "start"
      OBVIOUS
    <2>2. Need("start", "open", "acquire", "end") \in CmdTest
      BY Zenon DEF CmdTest, TestSteps
    <2> QED
      BY <2>1, <2>2, Zenon
  <1>6. HasStart(Feeder)
    <2>1. Need("start", "probe", "open", "end").at = "start"
      OBVIOUS
    <2>2. Need("start", "probe", "open", "end") \in Feeder
      BY Zenon DEF Feeder, FeederSetup
    <2> QED
      BY <2>1, <2>2, Zenon
  <1>7. HasStart(QuickVerify)
    <2>1. Need("start", "open", "query", "end").at = "start"
      OBVIOUS
    <2>2. Need("start", "open", "query", "end") \in QuickVerify
      BY Zenon DEF QuickVerify, QuickSetup
    <2> QED
      BY <2>1, <2>2, Zenon
  <1>8. HasStart(QuickVerifyHid)
    <2>1. Need("start", "open", "query", "end").at = "start"
      OBVIOUS
    <2>2. Need("start", "open", "query", "end") \in QuickVerifyHid
      BY Zenon DEF QuickVerifyHid, QuickSetup
    <2> QED
      BY <2>1, <2>2, Zenon
  <1>9. HasStart(AutoVerify)
    <2>1. Need("start", "open", "query", "end").at = "start"
      OBVIOUS
    <2>2. Need("start", "open", "query", "end") \in AutoVerify
      BY Zenon DEF AutoVerify, AutoSetup
    <2> QED
      BY <2>1, <2>2, Zenon
  <1>10. HasStart(XInputCheck)
    BY DEF XInputCheck
  <1>11. HasStart(TestFeeder)
    <2>1. Need("start", "open", "query", "end").at = "start"
      OBVIOUS
    <2>2. Need("start", "open", "query", "end") \in TestFeeder
      BY Zenon DEF TestFeeder, TestFeederSetup
    <2> QED
      BY <2>1, <2>2, Zenon
  <1>12. HasStart(Producer)
    <2>1. Row("start", "skip", {"reopen", "quit"}, {}, FALSE).at = "start"
      OBVIOUS
    <2>2. Row("start", "skip", {"reopen", "quit"}, {}, FALSE) \in Producer
      BY Zenon DEF Producer
    <2> QED
      BY <2>1, <2>2, Zenon
  <1> QED
    <2> SUFFICES ASSUME NEW g \in Programs PROVE HasStart(Program[g])
      BY DEF LabelsOf
    <2> QED
      BY <1>1, <1>2, <1>3, <1>4, <1>5, <1>6, 
         <1>7, <1>8, <1>9, <1>10, <1>11, <1>12 DEF Programs, Program

\* What a call may answer, and where its program goes on.
LEMMA OutcomesBoolean ==
  ASSUME TypeOK, NEW p \in Processes, NEW call \in Calls \ (ByHandle \cup {"releaseHeld"})
  PROVE  Outcomes(p, call) \subseteq BOOLEAN
  <1>1. QuerySucceeds(p) \in BOOLEAN /\ JitterSucceeds(p) \in BOOLEAN
    BY Zenon DEF QuerySucceeds, JitterSucceeds
  <1>2. (QuerySucceeds(p) /\ ~OverrideEnabled[FilterContext]) \in BOOLEAN
    BY Zenon
  <1> USE <1>1, <1>2 DEF Outcomes, TypeOK, ControlTypeOK
  <1>3. CASE call \in {"probe", "openPath", "open"}
    BY <1>3
  <1>4. CASE call \in {"query", "observe"}
    BY <1>4 DEF ObservationOutcomes
  <1>5. CASE call = "awaitOff"
    BY <1>5
  <1>6. CASE call = "jitter"
    BY <1>6
  <1>7. CASE call = "close"
    BY <1>7
  <1>8. CASE call \in {"choose", "skip", "expire"}
    BY <1>8
  <1> QED
    BY <1>3, <1>4, <1>5, <1>6, <1>7, <1>8 DEF Calls, Quiet, Opens, ByHandle

LEMMA ReturnEffect ==
  ASSUME ClientTypeInv, NEW p \in Processes, NEW row \in Program[prog[p]], row.at = at[p],
         NEW ok \in BOOLEAN, Return(p, row, ok)
  PROVE  /\ RowFacts(prog[p], row)
         /\ \E l \in LabelsOf(prog[p]) \ {"killed"} :
              /\ at' = [at EXCEPT ![p] = l]
              /\ l \in Exits(row)
              /\ l \in IF ok THEN row.ok ELSE row.bad
         /\ failed' \in [Processes -> BOOLEAN]
         /\ \A q \in Processes \ {p} : failed'[q] = failed[q]
         /\ failed[p] => failed'[p]
         /\ row.counts /\ ~ok => failed'[p]
  <1>1. prog[p] \in Programs /\ RowFacts(prog[p], row)
    BY RowsOfPrograms DEF ClientTypeInv, TypeOK
  <1>2. Exits(row) \subseteq LabelsOf(prog[p]) \ {"killed"}
    BY <1>1 DEF RowFacts, RowTyped
  <1>3. PICK l \in IF ok THEN row.ok ELSE row.bad : at' = [at EXCEPT ![p] = l]
    BY DEF Return
  <1>4. l \in Exits(row)
    BY <1>3 DEF Exits
  <1>5. /\ failed' \in [Processes -> BOOLEAN]
        /\ \A q \in Processes \ {p} : failed'[q] = failed[q]
        /\ failed[p] => failed'[p]
        /\ row.counts /\ ~ok => failed'[p]
    BY DEF Return, ClientTypeInv, TypeOK
  <1> QED
    BY <1>1, <1>2, <1>3, <1>4, <1>5

\* A step that touches only the process p keeps the types when the label and
\* the handle of p agree afterwards.
LEMMA LocalTypes ==
  ASSUME ClientTypeInv, ControlTypeOK', UNCHANGED prog, NEW p \in Processes,
         NEW l \in LabelsOf(prog[p]), at' = [at EXCEPT ![p] = l],
         lib' \in [Processes -> {"idle", "retryOff", "retryRelease", "retryAcquire"}],
         NEW b \in BOOLEAN, open' = [open EXCEPT ![p] = b],
         NEW h \in {"none", "off", "release", "close", "exit"},
         handler' = [handler EXCEPT ![p] = h],
         {held', failed', lost'} \subseteq [Processes -> BOOLEAN],
         l \in {"open", "end"} => ~b,
         l = "start" /\ prog[p] # "Producer" => ~b,
         h = "exit" => ~b,
         h # "none" => prog[p] = "TestFeeder" /\ l # "start"
  PROVE  ClientTypeInv'
  <1> USE DEF ClientTypeInv
  <1>1. at' \in [Processes -> Labels]
    BY DEF TypeOK, Labels
  <1>2. \A q \in Processes : at'[q] \in LabelsOf(prog'[q]) /\ (at'[q] = "end" => ~open'[q])
    BY DEF TypeOK
  <1>3. /\ open' \in [Processes -> BOOLEAN]
        /\ prog' \in [Processes -> Programs]
        /\ handler' \in [Processes -> {"none", "off", "release", "close", "exit"}]
    BY DEF TypeOK
  <1>4. TypeOK'
    BY <1>1, <1>2, <1>3 DEF TypeOK
  <1>5. HandleInv'
    BY DEF TypeOK, HandleInv
  <1> QED
    BY <1>4, <1>5

\* The initial state is well typed.
LEMMA InitClientTypeInv == Init => ClientTypeInv
  <1> SUFFICES ASSUME Init PROVE ClientTypeInv
    OBVIOUS
  <1>1. ControlTypeOK
    BY DEF Init, ControlInit, ControlTypeOK
  <1>2. \A p \in Processes : prog[p] \in Programs /\ "start" \in LabelsOf(prog[p])
    <2> SUFFICES ASSUME NEW p \in Processes
                 PROVE  prog[p] \in Programs /\ "start" \in LabelsOf(prog[p])
      OBVIOUS
    <2>1. prog[p] \in Programs
      BY ClientsAssumption DEF Init
    <2> QED
      BY <2>1, StartIsALabel
  <1>3. TypeOK
    BY <1>1, <1>2 DEF Init, TypeOK, Labels
  <1>4. HandleInv
    BY DEF Init, HandleInv
  <1> QED
    BY <1>3, <1>4 DEF ClientTypeInv

\* A call that is not an ioctl of the session.
LEMMA CallTypes ==
  ASSUME ClientTypeInv, UNCHANGED linkVars, NEW p \in Processes,
         NEW row \in Program[prog[p]], row.at = at[p], Call(p, row)
  PROVE  ClientTypeInv'
  <1>1. RowFacts(prog[p], row)
    BY RowsOfPrograms DEF ClientTypeInv, TypeOK
  <1>2. row.call \in Calls \ (ByHandle \cup {"releaseHeld"})
    BY <1>1 DEF RowFacts, RowTyped, Call
  <1>3. PICK ok \in Outcomes(p, row.call) :
          /\ Return(p, row, ok)
          /\ open' = [open EXCEPT ![p] = CASE row.call \in {"open", "openPath"} -> ok
                                           [] row.call = "close" -> FALSE
                                           [] OTHER -> @]
    BY Zenon DEF Call
  <1>4. ok \in BOOLEAN
    BY <1>2, OutcomesBoolean DEF ClientTypeInv
  <1>5. PICK l \in LabelsOf(prog[p]) \ {"killed"} :
          at' = [at EXCEPT ![p] = l] /\ l \in Exits(row) /\ l \in IF ok THEN row.ok ELSE row.bad
    BY <1>3, <1>4, ReturnEffect
  <1>6. ControlTypeOK'
    BY CloseEffect, FileCleanupEffect, HandlesDistinct DEF Call, ClientTypeInv, TypeOK
  <1>7. {held', failed', lost'} \subseteq [Processes -> BOOLEAN]
    <2>1. failed' \in [Processes -> BOOLEAN]
      BY <1>3, <1>4, ReturnEffect
    <2>2. held' \in [Processes -> BOOLEAN] /\ lost' \in [Processes -> BOOLEAN]
      BY DEF Call, ClientTypeInv, TypeOK
    <2> QED
      BY <2>1, <2>2
  <1>8. PICK b \in BOOLEAN :
          /\ open' = [open EXCEPT ![p] = b]
          /\ l \in {"open", "end"} => ~b
          /\ l = "start" /\ prog[p] # "Producer" => ~b
          /\ handler[p] = "exit" => ~b
    <2> USE DEF ClientTypeInv, TypeOK, HandleInv, RowFacts
    <2>1. CASE row.call \in Opens
      <3>1. open' = [open EXCEPT ![p] = ok]
        BY <1>3, <2>1 DEF Opens
      <3>2. ok \in BOOLEAN
        BY <1>4
      <3>3. /\ l \in {"open", "end"} => ~ok
            /\ l = "start" => prog[p] = "Producer"
        BY <1>1, <1>5, <2>1 DEF RowOpens, RowEnds, Opens
      <3>4. handler[p] # "exit"
        BY <1>1, <2>1 DEF RowOpens
      <3> QED
        BY <3>1, <3>2, <3>3, <3>4
    <2>2. CASE row.call = "close"
      BY <1>3, <2>2
    <2>3. CASE row.call \notin Opens \cup {"close"}
      <3>1. open' = [open EXCEPT ![p] = open[p]]
        BY <1>3, <2>3 DEF Opens
      <3>2. /\ l \in {"open", "end"} => ~open[p]
            /\ l = "start" => prog[p] = "Producer"
        BY <1>1, <1>5, <2>3 DEF RowOpens, RowEnds
      <3> QED
        BY <3>1, <3>2
    <2> QED
      BY <2>1, <2>2, <2>3
  <1>9. /\ handler' = [handler EXCEPT ![p] = handler[p]]
        /\ handler[p] \in {"none", "off", "release", "close", "exit"}
        /\ lib' \in [Processes -> {"idle", "retryOff", "retryRelease", "retryAcquire"}]
        /\ UNCHANGED prog
    BY DEF Call, ClientTypeInv, TypeOK
  <1>10. handler[p] # "none" => prog[p] = "TestFeeder" /\ l # "start"
    BY <1>1, <1>5 DEF RowFacts, RowEnds, ClientTypeInv, HandleInv
  <1> QED
    BY <1>5, <1>6, <1>7, <1>8, <1>9, <1>10, LocalTypes

\* A call through the device handle goes on with the handle as it was.
LEMMA StayOpenTypes ==
  ASSUME ClientTypeInv, ControlTypeOK', UNCHANGED <<prog, open, handler>>, NEW p \in Processes,
         NEW row \in Program[prog[p]], row.at = at[p], row.call \in ByHandle \cup {"releaseHeld"},
         lib' \in [Processes -> {"idle", "retryOff", "retryRelease", "retryAcquire"}],
         {held', lost'} \subseteq [Processes -> BOOLEAN],
         \/ UNCHANGED <<at, failed>>
         \/ \E ok \in BOOLEAN : Return(p, row, ok)
  PROVE  ClientTypeInv'
  <1> USE DEF ClientTypeInv
  <1>1. /\ handler' = [handler EXCEPT ![p] = handler[p]]
        /\ handler[p] \in {"none", "off", "release", "close", "exit"}
        /\ open' = [open EXCEPT ![p] = open[p]] /\ open[p] \in BOOLEAN
    BY DEF TypeOK
  <1>2. CASE UNCHANGED <<at, failed>>
    BY <1>2 DEF TypeOK, HandleInv
  <1>3. ASSUME NEW ok \in BOOLEAN, Return(p, row, ok) PROVE ClientTypeInv'
    <2>1. PICK l \in LabelsOf(prog[p]) \ {"killed"} :
            at' = [at EXCEPT ![p] = l] /\ l \in Exits(row)
      BY <1>3, ReturnEffect
    <2>2. RowFacts(prog[p], row) /\ {held', failed', lost'} \subseteq [Processes -> BOOLEAN]
      BY <1>3, ReturnEffect
    <2>3. l \notin {"open", "end"} /\ (l = "start" => prog[p] = "Producer")
      BY <2>1, <2>2 DEF RowFacts, RowOpens, RowEnds, Opens, ByHandle
    <2>4. /\ handler[p] = "exit" => ~open[p]
          /\ handler[p] # "none" => prog[p] = "TestFeeder" /\ l # "start"
      BY <2>3 DEF HandleInv
    <2> QED
      BY <1>1, <2>1, <2>2, <2>3, <2>4, LocalTypes
  <1> QED
    BY <1>2, <1>3

LEMMA CallIoctlTypes ==
  ASSUME ClientTypeInv, UNCHANGED linkVars, NEW p \in Processes,
         NEW row \in Program[prog[p]], row.at = at[p], CallIoctl(p, row)
  PROVE  ClientTypeInv'
  <1>1. row.call \in ByHandle /\ ControlTypeOK'
    BY SendIoctlEffect DEF CallIoctl, ClientTypeInv, TypeOK
  <1>2. \E ok \in BOOLEAN : Return(p, row, ok)
    BY DEF CallIoctl
  <1>3. {held', lost'} \subseteq [Processes -> BOOLEAN]
    BY DEF CallIoctl, ClientTypeInv, TypeOK
  <1> QED
    BY <1>1, <1>2, <1>3, StayOpenTypes DEF CallIoctl, ClientTypeInv, TypeOK

LEMMA CallReleaseHeldTypes ==
  ASSUME ClientTypeInv, UNCHANGED linkVars, NEW p \in Processes,
         NEW row \in Program[prog[p]], row.at = at[p], CallReleaseHeld(p, row)
  PROVE  ClientTypeInv'
  <1>1. CASE held[p]
    <2>1. ControlTypeOK'
      BY <1>1, SendIoctlEffect DEF CallReleaseHeld, ClientTypeInv, TypeOK, ByHandle
    <2> QED
      BY <2>1, StayOpenTypes DEF CallReleaseHeld, ClientTypeInv, TypeOK
  <1>2. CASE ~held[p]
    <2>1. ControlTypeOK'
      BY <1>2 DEF CallReleaseHeld, ClientTypeInv, TypeOK, ControlTypeOK, sessionVars, linkVars
    <2> QED
      BY <2>1, StayOpenTypes DEF CallReleaseHeld, ClientTypeInv, TypeOK
  <1> QED
    BY <1>1, <1>2

\* Both outcomes of an ACQUIRE.
LEMMA AcquireTypes ==
  ASSUME ClientTypeInv, UNCHANGED linkVars, NEW p \in Processes,
         NEW row \in Program[prog[p]], row.at = at[p],
         CallAcquire(p, row) \/ RetryAcquire(p, row)
  PROVE  ClientTypeInv'
  <1>1. row.call = "acquire" /\ SendIoctl(p, "acquire") /\ UNCHANGED <<prog, open, handler>>
    BY DEF CallAcquire, RetryAcquire
  <1>2. ControlTypeOK'
    BY <1>1, SendIoctlEffect DEF ClientTypeInv, TypeOK, ByHandle
  <1>3. \/ Acquired(p, row) \/ NotAcquired(p, row)
        \/ lib' = [lib EXCEPT ![p] = "retryOff"] /\ UNCHANGED <<at, failed, held, lost>>
    BY Zenon DEF CallAcquire, RetryAcquire
  <1>4. /\ lib' \in [Processes -> {"idle", "retryOff", "retryRelease", "retryAcquire"}]
        /\ {held', lost'} \subseteq [Processes -> BOOLEAN]
    BY <1>3 DEF Acquired, NotAcquired, ClientTypeInv, TypeOK
  <1>5. UNCHANGED <<at, failed>> \/ \E ok \in BOOLEAN : Return(p, row, ok)
    BY <1>3 DEF Acquired, NotAcquired
  <1> QED
    BY <1>1, <1>2, <1>4, <1>5, StayOpenTypes DEF ByHandle

\* OFF and RELEASE of the busy retry.
LEMMA RetryGiveUpTypes ==
  ASSUME ClientTypeInv, UNCHANGED linkVars, NEW p \in Processes, LibraryStep(p)
  PROVE  ClientTypeInv'
  <1>1. ControlTypeOK'
    BY SendIoctlEffect DEF LibraryStep, RetryGiveUp, ClientTypeInv, TypeOK, ByHandle
  <1> QED
    BY <1>1 DEF LibraryStep, RetryGiveUp, ClientTypeInv, TypeOK, HandleInv

LEMMA ProgramStepTypes ==
  ASSUME ClientTypeInv, NEW p \in Processes, ProgramStep(p)
  PROVE  ClientTypeInv'
  <1>1. CASE LibraryStep(p)
    BY <1>1, RetryGiveUpTypes DEF ProgramStep
  <1>2. ASSUME NEW row \in Program[prog[p]], row.at = at[p],
               \/ Call(p, row) \/ CallIoctl(p, row) \/ CallReleaseHeld(p, row)
               \/ CallAcquire(p, row) \/ RetryAcquire(p, row)
        PROVE  ClientTypeInv'
    BY <1>2, CallTypes, CallIoctlTypes, CallReleaseHeldTypes, AcquireTypes DEF ProgramStep
  <1> QED
    BY <1>1, <1>2 DEF ProgramStep

\* The console handler, which may close the handle under the main thread.
LEMMA CtrlHandlerTypes ==
  ASSUME ClientTypeInv, NEW p \in Processes, CtrlEvent(p) \/ CtrlHandler(p)
  PROVE  ClientTypeInv'
  <1> USE DEF ClientTypeInv
  <1>1. /\ prog[p] = "TestFeeder" /\ at[p] # "start" /\ UNCHANGED <<linkVars, prog>>
        /\ at[p] \in LabelsOf(prog[p]) /\ open[p] \in BOOLEAN
    BY DEF CtrlEvent, CtrlHandler, HandlerIoctl, HandlerClose, HandlerExit, TypeOK
  <1>2. ASSUME NEW here, NEW code \in {"off", "release", "none"},
               NEW next \in {"off", "release", "close"}, HandlerIoctl(p, here, code, next)
        PROVE  ClientTypeInv'
    <2>1. ControlTypeOK'
      BY <1>1, <1>2, SendIoctlEffect
         DEF HandlerIoctl, TypeOK, ControlTypeOK, ByHandle, sessionVars, linkVars
    <2> QED
      BY <1>1, <1>2, <2>1 DEF HandlerIoctl, TypeOK, HandleInv
  <1>3. CASE HandlerClose(p)
    <2>1. ControlTypeOK'
      BY <1>1, <1>3, CloseEffect DEF HandlerClose, TypeOK
    <2> QED
      BY <1>1, <1>3, <2>1 DEF HandlerClose, TypeOK, HandleInv
  <1>4. CASE HandlerExit(p)
    <2>1. ControlTypeOK'
      BY <1>1, <1>4 DEF HandlerExit, TypeOK, ControlTypeOK, sessionVars, linkVars
    <2>2. "end" \in LabelsOf(prog[p]) /\ ~open[p]
      BY <1>4 DEF HandlerExit, HandleInv, LabelsOf
    <2>3. at' \in [Processes -> Labels]
      BY <1>4, <2>2 DEF HandlerExit, TypeOK, Labels
    <2> QED
      BY <1>1, <1>4, <2>1, <2>2, <2>3 DEF HandlerExit, TypeOK, HandleInv
  <1> QED
    BY <1>2, <1>3, <1>4 DEF CtrlEvent, CtrlHandler

LEMMA KillTypes ==
  ASSUME ClientTypeInv, NEW p \in Processes, Kill(p)
  PROVE  ClientTypeInv'
  <1>1. "killed" \in LabelsOf(prog[p]) /\ prog[p] \in Programs
    BY DEF LabelsOf, ClientTypeInv, TypeOK
  <1>2. at' \in [Processes -> Labels]
    BY <1>1 DEF Kill, ClientTypeInv, TypeOK, Labels
  <1> QED
    BY <1>1, <1>2
       DEF Kill, ClientTypeInv, TypeOK, ControlTypeOK, HandleInv, controlVars, sessionVars, linkVars

LEMMA CloseKilledTypes ==
  ASSUME ClientTypeInv, NEW p \in Processes, CloseKilled(p)
  PROVE  ClientTypeInv'
  <1>1. "end" \in LabelsOf(prog[p]) /\ prog[p] \in Programs
    BY DEF LabelsOf, ClientTypeInv, TypeOK
  <1>2. at' \in [Processes -> Labels]
    BY <1>1 DEF CloseKilled, ClientTypeInv, TypeOK, Labels
  <1>3. ControlTypeOK'
    BY CloseEffect DEF CloseKilled, ClientTypeInv, TypeOK
  <1> QED
    BY <1>1, <1>2, <1>3 DEF CloseKilled, ClientTypeInv, TypeOK, HandleInv

LEMMA RestartTypes ==
  ASSUME ClientTypeInv, NEW p \in Processes, Restart(p)
  PROVE  ClientTypeInv'
  <1>1. PICK g \in Repertoire[p] : prog' = [prog EXCEPT ![p] = g]
    BY DEF Restart
  <1>2. g \in Programs /\ "start" \in LabelsOf(g)
    BY StartIsALabel, ClientsAssumption
  <1>3. at' \in [Processes -> Labels] /\ prog' \in [Processes -> Programs]
    BY <1>1, <1>2 DEF Restart, ClientTypeInv, TypeOK, Labels
  <1>4. \A q \in Processes : at'[q] \in LabelsOf(prog'[q])
    BY <1>1, <1>2 DEF Restart, ClientTypeInv, TypeOK
  <1> QED
    BY <1>1, <1>3, <1>4
       DEF Restart, ClientTypeInv, TypeOK, ControlTypeOK, HandleInv,
           controlVars, sessionVars, linkVars

LEMMA PowerTypes ==
  ASSUME ClientTypeInv, Power
  PROVE  ClientTypeInv'
  <1>1. PICK c \in Controllers : PowerEvent(c)
    BY DEF Power
  <1>2. ControlTypeOK'
    BY <1>1 DEF PowerEvent, DeviceAdd, CreateControlDevice, D0Entry, D0Exit, SurpriseRemoval, ResetWriterState,
                ClientTypeInv, TypeOK, ControlTypeOK, sessionVars
  <1>3. lost' \in [Processes -> BOOLEAN]
    BY DEF Power
  <1> QED
    BY <1>2, <1>3 DEF Power, ClientTypeInv, TypeOK, HandleInv

LEMMA NextClientTypeInv == ClientTypeInv /\ [Next]_vars => ClientTypeInv'
  <1> SUFFICES ASSUME ClientTypeInv, [Next]_vars PROVE ClientTypeInv'
    OBVIOUS
  <1>1. CASE UNCHANGED vars
    BY <1>1 DEF vars, controlVars, sessionVars, linkVars, processVars,
                ClientTypeInv, TypeOK, ControlTypeOK, HandleInv
  <1>2. CASE Next
    BY <1>2, ProgramStepTypes, CtrlHandlerTypes, KillTypes, CloseKilledTypes, RestartTypes,
       PowerTypes DEF Next
  <1> QED
    BY <1>1, <1>2

LEMMA ClientTypeInvariant == Spec => []ClientTypeInv
  BY InitClientTypeInv, NextClientTypeInv, PTL DEF Spec

\* Every program, run in any number of processes against any number of
\* controllers, keeps the types, stays among the labels of its own table and
\* never ends with its handle open.
THEOREM ClientsTypeCorrect == Spec => []TypeOK
  BY ClientTypeInvariant, PTL DEF ClientTypeInv

-----------------------------------------------------------------------------
(* Nobody takes what another process holds.                                *)

ProcessStep(p) ==
  \/ ProgramStep(p) \/ CtrlEvent(p) \/ CtrlHandler(p)
  \/ Kill(p) \/ CloseKilled(p) \/ Restart(p)

\* The other processes stay where they are.
OthersStay(p) ==
  \A q \in Processes \ {p} :
    UNCHANGED <<prog[q], at[q], lib[q], open[q], held[q], failed[q], handler[q], lost[q]>>

\* A call only moves the process that makes it.
LEMMA ReturnStays ==
  ASSUME ClientTypeInv, NEW p \in Processes, NEW row \in Program[prog[p]], row.at = at[p],
         NEW ok \in BOOLEAN, Return(p, row, ok)
  PROVE  \A q \in Processes \ {p} : UNCHANGED <<at[q], failed[q]>>
  BY ReturnEffect DEF ClientTypeInv, TypeOK

\* What any call of a program does to the other processes and to the driver.
LEMMA CallEffect ==
  ASSUME ClientTypeInv, UNCHANGED linkVars, NEW p \in Processes,
         NEW row \in Program[prog[p]], row.at = at[p],
         \/ Call(p, row) \/ CallIoctl(p, row) \/ CallReleaseHeld(p, row)
         \/ CallAcquire(p, row) \/ RetryAcquire(p, row)
  PROVE  OthersStay(p) /\ (TouchedBy(Device(p)) \/ TouchedBy(Probe(p)))
  <1> USE DEF ClientTypeInv
  <1>1. CASE Call(p, row)
    <2>1. row.call \in Calls \ (ByHandle \cup {"releaseHeld"})
      BY <1>1, RowsOfPrograms DEF RowFacts, RowTyped, Call, TypeOK
    <2>2. PICK ok \in Outcomes(p, row.call) :
            Return(p, row, ok) /\ \E b : open' = [open EXCEPT ![p] = b]
      BY <1>1 DEF Call
    <2>3. OthersStay(p)
      BY <1>1, <2>1, <2>2, OutcomesBoolean, ReturnStays DEF Call, OthersStay, TypeOK
    <2>4. TouchedBy(Device(p)) \/ TouchedBy(Probe(p))
      BY <1>1, CloseEffect, FileCleanupEffect, HandlesDistinct DEF Call, TypeOK
    <2> QED
      BY <2>3, <2>4
  <1>2. CASE CallIoctl(p, row)
    <2>1. OthersStay(p)
      BY <1>2, ReturnStays DEF CallIoctl, OthersStay, TypeOK
    <2> QED
      BY <1>2, <2>1, SendIoctlEffect DEF CallIoctl, TypeOK
  <1>3. CASE CallReleaseHeld(p, row)
    <2>1. OthersStay(p)
      BY <1>3, ReturnStays DEF CallReleaseHeld, OthersStay, TypeOK
    <2>2. TouchedBy(Device(p))
      <3>1. CASE held[p]
        BY <1>3, <3>1, SendIoctlEffect DEF CallReleaseHeld, ByHandle, TypeOK
      <3>2. CASE ~held[p]
        BY <1>3, <3>2 DEF CallReleaseHeld, TouchedBy, sessionVars
      <3> QED
        BY <3>1, <3>2
    <2> QED
      BY <2>1, <2>2
  <1>4. CASE CallAcquire(p, row) \/ RetryAcquire(p, row)
    <2>1. /\ UNCHANGED <<prog, open, handler>> /\ SendIoctl(p, "acquire")
          /\ \/ Acquired(p, row) \/ NotAcquired(p, row)
             \/ lib' = [lib EXCEPT ![p] = "retryOff"] /\ UNCHANGED <<at, failed, held, lost>>
      BY <1>4, Zenon DEF CallAcquire, RetryAcquire
    <2>2. OthersStay(p)
      BY <2>1, ReturnStays DEF Acquired, NotAcquired, OthersStay, TypeOK
    <2> QED
      BY <2>1, <2>2, SendIoctlEffect DEF ByHandle, TypeOK
  <1> QED
    BY <1>1, <1>2, <1>3, <1>4

\* What any step of a process does to them.
LEMMA ProcessStepEffect ==
  ASSUME ClientTypeInv, NEW p \in Processes, ProcessStep(p)
  PROVE  /\ UNCHANGED linkVars
         /\ OthersStay(p)
         /\ TouchedBy(Device(p)) \/ TouchedBy(Probe(p))
  <1> USE DEF ClientTypeInv
  <1>1. CASE ProgramStep(p)
    <2>1. CASE LibraryStep(p)
      BY <1>1, <2>1, SendIoctlEffect
         DEF ProgramStep, LibraryStep, RetryGiveUp, ByHandle, TypeOK, OthersStay
    <2>2. CASE ~LibraryStep(p)
      BY <1>1, <2>2, CallEffect DEF ProgramStep
    <2> QED
      BY <2>1, <2>2
  <1>2. CASE CtrlEvent(p)
    BY <1>2 DEF CtrlEvent, HandlerIoctl, TouchedBy, sessionVars, OthersStay, TypeOK
  <1>3. CASE CtrlHandler(p)
    <2>1. ASSUME NEW here, NEW code \in {"off", "release"}, NEW next,
                 HandlerIoctl(p, here, code, next)
          PROVE  OthersStay(p) /\ TouchedBy(Device(p))
      BY <1>3, <2>1, SendIoctlEffect
         DEF CtrlHandler, HandlerIoctl, ByHandle, TypeOK, OthersStay
    <2>2. CASE HandlerClose(p)
      BY <1>3, <2>2, CloseEffect DEF CtrlHandler, HandlerClose, TypeOK, OthersStay
    <2>3. CASE HandlerExit(p)
      BY <1>3, <2>3 DEF CtrlHandler, HandlerExit, TypeOK, OthersStay, TouchedBy, sessionVars
    <2> QED
      BY <1>3, <2>1, <2>2, <2>3 DEF CtrlHandler
  <1>4. CASE Kill(p)
    BY <1>4 DEF Kill, TypeOK, OthersStay, TouchedBy, controlVars, sessionVars
  <1>5. CASE CloseKilled(p)
    BY <1>5, CloseEffect DEF CloseKilled, TypeOK, OthersStay
  <1>6. CASE Restart(p)
    BY <1>6 DEF Restart, TypeOK, OthersStay, TouchedBy, controlVars, sessionVars
  <1> QED
    BY <1>1, <1>2, <1>3, <1>4, <1>5, <1>6 DEF ProcessStep

\* A request that changes nothing: a report is no business of the session,
\* and an ACQUIRE of the holder leaves it what it has.
LEMMA HarmlessIoctl ==
  ASSUME ControlTypeOK, NEW p \in Processes, NEW c \in Controllers,
         WriterFileObject[c] = Device(p), NEW code \in {"acquire", "inject"}, SendIoctl(p, code)
  PROVE  UNCHANGED <<WriterFileObject[c], OverrideEnabled[c]>>
  BY HandlesDistinct DEF SendIoctl, HandleIoctl, sessionVars, ControlTypeOK

\* A process whose session changes by its own step has moved, unless it is a
\* producer, which repeats its requests at one label.
LEMMA OwnChangeMoves ==
  ASSUME ClientTypeInv, NEW p \in Processes, ProcessStep(p), NEW c \in Controllers,
         WriterFileObject[c] = Device(p),
         ~UNCHANGED <<WriterFileObject[c], OverrideEnabled[c]>>
  PROVE  prog[p] = "Producer" \/ Moves(p)
  <1> USE DEF ClientTypeInv
  <1>1. CASE ProgramStep(p)
    <2>1. CASE LibraryStep(p)
      BY <2>1 DEF LibraryStep, RetryGiveUp, Moves, TypeOK
    <2>2. ASSUME NEW row \in Program[prog[p]], row.at = at[p],
                 \/ Call(p, row) \/ CallIoctl(p, row) \/ CallReleaseHeld(p, row)
                 \/ CallAcquire(p, row) \/ RetryAcquire(p, row)
          PROVE  prog[p] = "Producer" \/ Moves(p)
      <3>1. RowFacts(prog[p], row)
        BY RowsOfPrograms DEF TypeOK
      <3>2. CASE Call(p, row)
        <4>1. CASE row.call = "close" /\ open[p]
          <5>1. open' = [open EXCEPT ![p] = FALSE]
            BY <3>2, <4>1 DEF Call
          <5> QED
            BY <4>1, <5>1 DEF Moves, TypeOK
        <4>2. CASE row.call = "close" /\ ~open[p]
          BY <3>2, <4>2 DEF Call, sessionVars
        <4>3. CASE row.call # "close"
          BY <3>2, <4>3, HandlesDistinct
             DEF Call, FileCleanup, Holds, ResetWriterState, sessionVars, TypeOK, ControlTypeOK
        <4> QED
          BY <4>1, <4>2, <4>3
      <3>3. CASE CallIoctl(p, row)
        <4>1. row.call # "inject"
          BY <3>3, HarmlessIoctl DEF CallIoctl, TypeOK
        <4>2. row.call \in {"release", "on", "off"}
          BY <3>3, <4>1 DEF CallIoctl, ByHandle
        <4>3. PICK ok \in BOOLEAN : Return(p, row, ok)
          BY <3>3 DEF CallIoctl
        <4>4. PICK l \in Exits(row) : at' = [at EXCEPT ![p] = l]
          BY <2>2, <4>3, ReturnEffect
        <4> QED
          BY <2>2, <3>1, <4>2, <4>4 DEF RowFacts, RowDrives, Moves, TypeOK
      <3>4. CASE CallReleaseHeld(p, row)
        BY <3>1, <3>4 DEF CallReleaseHeld, RowFacts, RowReleases
      <3>5. CASE CallAcquire(p, row) \/ RetryAcquire(p, row)
        BY <3>5, HarmlessIoctl DEF CallAcquire, RetryAcquire, TypeOK
      <3> QED
        BY <2>2, <3>2, <3>3, <3>4, <3>5
    <2> QED
      BY <1>1, <2>1, <2>2 DEF ProgramStep
  <1>2. CASE CtrlEvent(p)
    BY <1>2 DEF CtrlEvent, HandlerIoctl, sessionVars
  <1>3. CASE CtrlHandler(p)
    BY <1>3 DEF CtrlHandler, HandlerIoctl, HandlerClose, HandlerExit, sessionVars, Moves, TypeOK
  <1>4. CASE Kill(p) \/ Restart(p)
    BY <1>4 DEF Kill, Restart, controlVars, sessionVars
  <1>5. CASE CloseKilled(p)
    BY <1>5 DEF CloseKilled, Moves, TypeOK
  <1> QED
    BY <1>1, <1>2, <1>3, <1>4, <1>5 DEF ProcessStep

NothingTaken ==
  \A p \in Processes, c \in Controllers :
    (WriterFileObject[c] = Device(p) /\ ~UNCHANGED <<WriterFileObject[c], OverrideEnabled[c]>>)
    => /\ prog[p] = "Producer" \/ pnp' # pnp \/ Moves(p)
       /\ \A q \in Processes \ {p} : ~Moves(q)

LEMMA NextNothingTaken == ClientTypeInv /\ [Next]_vars => [NothingTaken]_vars
  <1> SUFFICES ASSUME ClientTypeInv, Next, NEW p \in Processes, NEW c \in Controllers,
                      WriterFileObject[c] = Device(p),
                      ~UNCHANGED <<WriterFileObject[c], OverrideEnabled[c]>>
               PROVE  /\ prog[p] = "Producer" \/ pnp' # pnp \/ Moves(p)
                      /\ \A q \in Processes \ {p} : ~Moves(q)
    BY DEF NothingTaken
  <1>1. ASSUME NEW r \in Processes, ProcessStep(r)
        PROVE  /\ prog[p] = "Producer" \/ Moves(p)
               /\ \A q \in Processes \ {p} : ~Moves(q)
    <2>1. r = p
      BY <1>1, ProcessStepEffect, HandlesDistinct DEF TouchedBy
    <2> QED
      BY <1>1, <2>1, ProcessStepEffect, OwnChangeMoves DEF OthersStay, Moves
  <1>2. CASE Power
    <2>1. pnp' # pnp
      BY <1>2 DEF Power, PowerEvent, DeviceAdd, CreateControlDevice, D0Entry, D0Exit, SurpriseRemoval,
                  ClientTypeInv, TypeOK, ControlTypeOK
    <2> QED
      BY <1>2, <2>1 DEF Power, Moves
  <1> QED
    BY <1>1, <1>2 DEF Next, ProcessStep

\* With any number of processes and controllers: a session or an override
\* that changes under its holder does so through a power event or a step of
\* the holder itself, never through the OFF and RELEASE that the busy retry
\* of gaym_client_acquire_writer_handle sends, nor through the cleanup of
\* another handle.
THEOREM BusyRetryHarmless == Spec => BusyRetryTakesNothing
  <1>1. BusyRetryTakesNothing <=> [][NothingTaken]_vars
    BY DEF BusyRetryTakesNothing, NothingTaken
  <1> QED
    BY <1>1, ClientTypeInvariant, NextNothingTaken, PTL DEF Spec

-----------------------------------------------------------------------------
(* What every controller promises.                                         *)

\* What the driver may be asked for on behalf of a handle.
Asked(h) == FileCleanup(h) \/ \E code \in ByHandle : HandleIoctl(code, h)

\* No call touches the sessions but by asking the driver.
LEMMA CallAsks ==
  ASSUME ClientTypeInv, NEW p \in Processes,
         NEW row \in Program[prog[p]],
         \/ Call(p, row) \/ CallIoctl(p, row) \/ CallReleaseHeld(p, row)
         \/ CallAcquire(p, row) \/ RetryAcquire(p, row)
  PROVE  UNCHANGED sessionVars \/ \E h \in Handles : Asked(h)
  <1>1. CASE Call(p, row)
    BY <1>1, HandlesDistinct DEF Call, Asked
  <1>2. CASE CallIoctl(p, row)
    BY <1>2, HandlesDistinct DEF CallIoctl, SendIoctl, Asked
  <1>3. CASE CallReleaseHeld(p, row)
    BY <1>3, HandlesDistinct DEF CallReleaseHeld, SendIoctl, Asked, ByHandle
  <1>4. CASE CallAcquire(p, row) \/ RetryAcquire(p, row)
    <2>1. SendIoctl(p, "acquire")
      BY <1>4 DEF CallAcquire, RetryAcquire
    <2> QED
      BY <2>1, HandlesDistinct DEF SendIoctl, Asked, ByHandle
  <1> QED
    BY <1>1, <1>2, <1>3, <1>4

\* Nor does any other step of a process.
LEMMA ProcessAsks ==
  ASSUME ClientTypeInv, NEW p \in Processes, ProcessStep(p)
  PROVE  UNCHANGED sessionVars \/ \E h \in Handles : Asked(h)
  <1>1. CASE ProgramStep(p)
    <2>1. CASE LibraryStep(p)
      BY <2>1, HandlesDistinct DEF LibraryStep, RetryGiveUp, SendIoctl, Asked, ByHandle
    <2> QED
      BY <1>1, <2>1, CallAsks DEF ProgramStep
  <1>2. CASE CtrlEvent(p)
    BY <1>2 DEF CtrlEvent, HandlerIoctl
  <1>3. CASE CtrlHandler(p)
    BY <1>3, HandlesDistinct
       DEF CtrlHandler, HandlerIoctl, HandlerClose, HandlerExit, SendIoctl, Asked, ByHandle
  <1>4. CASE CloseKilled(p)
    BY <1>4, HandlesDistinct DEF CloseKilled, Asked
  <1>5. CASE Kill(p) \/ Restart(p)
    BY <1>5 DEF Kill, Restart, controlVars
  <1> QED
    BY <1>1, <1>2, <1>3, <1>4, <1>5 DEF ProcessStep

\* The override of a controller is on only for a session with it.
OverrideOwned == \A c \in Controllers : OverrideEnabled[c] => WriterFileObject[c] # NULL

PromiseKept(c) ==
  \/ Session(c)!Next
  \/ UNCHANGED <<WriterFileObject[c], OverrideEnabled[c], HasSupportedTarget(c)>>

SessionSteps == \A c \in Controllers : PromiseKept(c)

\* A request is a step of the promise for the controller the control device is
\* linked to, and none for the others.
LEMMA IoctlKeepsPromise ==
  ASSUME ControlTypeOK, OverrideOwned, UNCHANGED linkVars,
         NEW h \in Handles, NEW code \in ByHandle, HandleIoctl(code, h)
  PROVE  OverrideOwned' /\ SessionSteps
  <1> USE ControlAssumption DEF linkVars, sessionVars, ControlTypeOK
  <1>1. UNCHANGED pnp /\ \A d \in Controllers : UNCHANGED HasSupportedTarget(d)
    BY DEF HasSupportedTarget
  <1>2. CASE Status(code, h) # "ok"
    <2>1. UNCHANGED <<WriterFileObject, OverrideEnabled>>
      BY <1>2 DEF HandleIoctl
    <2> QED
      BY <1>1, <2>1 DEF OverrideOwned, SessionSteps, PromiseKept
  <1>3. CASE Status(code, h) = "ok"
    <2>0. PICK c \in Controllers : c = FilterContext
      BY <1>3 DEF Status
    <2>1. /\ code \in NeedTarget => HasSupportedTarget(c)
          /\ code \in NeedSession => WriterFileObject[c] = h
          /\ code \in {"acquire", "off"} => WriterFileObject[c] \in {NULL, h}
      BY <1>3, <2>0 DEF Status, ByHandle, NeedSession, Holds, HeldByOther
    <2>2. \A d \in Controllers \ {c} :
             UNCHANGED <<WriterFileObject[d], OverrideEnabled[d]>>
      BY <1>3, <2>0 DEF HandleIoctl, ByHandle
    <2>3. \A d \in Controllers \ {c} : PromiseKept(d)
      BY <1>1, <2>2 DEF PromiseKept
    <2>4. /\ code = "acquire" => WriterFileObject'[c] = h /\ OverrideEnabled'[c] = OverrideEnabled[c]
          /\ code = "release" => WriterFileObject'[c] = NULL /\ OverrideEnabled'[c] = FALSE
          /\ code = "on" => WriterFileObject'[c] = WriterFileObject[c] /\ OverrideEnabled'[c] = TRUE
          /\ code = "off" => WriterFileObject'[c] = WriterFileObject[c] /\ OverrideEnabled'[c] = FALSE
          /\ code = "inject" => /\ WriterFileObject'[c] = WriterFileObject[c]
                                /\ OverrideEnabled'[c] = OverrideEnabled[c]
      BY <1>3, <2>0 DEF HandleIoctl
    <2>5. HasSupportedTarget(c)' = HasSupportedTarget(c)
      BY <1>1
    <2>6. OverrideOwned'
      <3>1. OverrideEnabled'[c] => WriterFileObject'[c] # NULL
        BY <2>1, <2>4 DEF OverrideOwned, ByHandle, NeedSession
      <3> QED
        BY <2>1, <2>2, <3>1 DEF OverrideOwned
    <2>7. PromiseKept(c)
      <3>1. CASE code = "acquire"
        BY <2>1, <2>4, <2>5, <3>1 DEF PromiseKept, Session!Next, Session!Acquire
      <3>2. CASE code = "on"
        BY <2>1, <2>4, <2>5, <3>2
           DEF PromiseKept, Session!Next, Session!Enable, NeedTarget, NeedSession
      <3>3. CASE code = "off"
        BY <2>1, <2>4, <2>5, <3>3 DEF PromiseKept, Session!Next, Session!Disable, OverrideOwned
      <3>4. CASE code = "release"
        BY <2>4, <2>5, <3>4 DEF PromiseKept, Session!Next, Session!Revoke
      <3>5. CASE code = "inject"
        BY <2>4, <2>5, <3>5 DEF PromiseKept
      <3> QED
        BY <3>1, <3>2, <3>3, <3>4, <3>5 DEF ByHandle
    <2> QED
      BY <2>3, <2>6, <2>7 DEF SessionSteps
  <1> QED
    BY <1>2, <1>3

\* So are a cleanup ...
LEMMA CleanupKeepsPromise ==
  ASSUME ControlTypeOK, OverrideOwned, UNCHANGED linkVars, NEW h \in Handles, FileCleanup(h)
  PROVE  OverrideOwned' /\ SessionSteps
  <1> USE DEF linkVars, sessionVars, ControlTypeOK, HasSupportedTarget
  <1>1. CASE UNCHANGED sessionVars
    BY <1>1 DEF OverrideOwned, SessionSteps, PromiseKept
  <1>2. CASE FilterContext # NULL /\ ResetWriterState(FilterContext)
    <2>1. \A d \in Controllers :
             \/ WriterFileObject'[d] = NULL /\ OverrideEnabled'[d] = FALSE
             \/ UNCHANGED <<WriterFileObject[d], OverrideEnabled[d]>>
      BY <1>2 DEF ResetWriterState
    <2>2. OverrideOwned'
      BY <2>1 DEF OverrideOwned
    <2> QED
      BY <2>1, <2>2 DEF SessionSteps, PromiseKept, Session!Next, Session!Revoke
  <1> QED
    BY <1>1, <1>2 DEF FileCleanup

\* ... and whatever happens to a controller.
LEMMA PowerKeepsPromise ==
  ASSUME ControlTypeOK, OverrideOwned, NEW d \in Controllers, PowerEvent(d)
  PROVE  OverrideOwned' /\ SessionSteps
  <1> USE DEF sessionVars, ControlTypeOK
  <1>1. \A c \in Controllers \ {d} :
          UNCHANGED <<WriterFileObject[c], OverrideEnabled[c], HasSupportedTarget(c)>>
    BY DEF PowerEvent, DeviceAdd, CreateControlDevice, D0Entry, D0Exit, SurpriseRemoval, ResetWriterState,
           HasSupportedTarget
  <1>2. \/ /\ UNCHANGED <<WriterFileObject[d], OverrideEnabled[d]>>
           /\ HasSupportedTarget(d)' = HasSupportedTarget(d) \/ HasSupportedTarget(d)' = TRUE
        \/ /\ WriterFileObject'[d] = NULL /\ OverrideEnabled'[d] = FALSE
           /\ HasSupportedTarget(d)' = FALSE
    BY DEF PowerEvent, DeviceAdd, CreateControlDevice, D0Entry, D0Exit, SurpriseRemoval, ResetWriterState,
           HasSupportedTarget
  <1>3. OverrideOwned'
    BY <1>1, <1>2 DEF OverrideOwned
  <1>4. PromiseKept(d)
    BY <1>2 DEF PromiseKept, Session!Next, Session!PowerUp, Session!Revoke
  <1> QED
    BY <1>1, <1>3, <1>4 DEF SessionSteps, PromiseKept

LEMMA NextKeepsPromise ==
  ASSUME ClientTypeInv, OverrideOwned, [Next]_vars
  PROVE  OverrideOwned' /\ [SessionSteps]_vars
  <1> USE DEF ClientTypeInv, TypeOK
  <1>1. ASSUME NEW p \in Processes, ProcessStep(p)
        PROVE  OverrideOwned' /\ SessionSteps
    <2>1. UNCHANGED linkVars
      BY <1>1, ProcessStepEffect
    <2>2. CASE UNCHANGED sessionVars
      BY <2>1, <2>2
         DEF linkVars, sessionVars, OverrideOwned, SessionSteps, PromiseKept, HasSupportedTarget
    <2>3. CASE \E h \in Handles : Asked(h)
      BY <2>1, <2>3, IoctlKeepsPromise, CleanupKeepsPromise DEF Asked
    <2> QED
      BY <1>1, <2>2, <2>3, ProcessAsks
  <1>2. CASE Power
    BY <1>2, PowerKeepsPromise DEF Power
  <1>3. CASE UNCHANGED vars
    BY <1>3 DEF vars, controlVars, sessionVars, OverrideOwned
  <1> QED
    BY <1>1, <1>2, <1>3 DEF Next, ProcessStep

\* With any number of processes and controllers, and whatever the programs do,
\* each controller implements WriterSession towards the handles: UpperDriver,
\* which has the lock regions, and the coarse driver under the programs keep the
\* same promise.
THEOREM ControllersImplementSession == Spec => SessionPromise
  <1>1. Init => OverrideOwned /\ \A c \in Controllers : Session(c)!Init
    BY DEF Init, ControlInit, OverrideOwned, Session!Init, HasSupportedTarget
  <1>2. SessionPromise <=> /\ \A c \in Controllers : Session(c)!Init
                           /\ [][SessionSteps]_vars
    BY DEF SessionPromise, SessionSteps, PromiseKept
  <1> QED
    BY <1>1, <1>2, ClientTypeInvariant, NextKeepsPromise, PTL DEF Spec

-----------------------------------------------------------------------------
(* What a program may believe about its session.                           *)

\* With two controllers a handle may lose sight of its session, and these
\* properties with it (ClosedHandleRevoked, which TLC refutes).
OneController == \A c, d \in Controllers : c = d

\* The control device is linked to the controller in D0, and only a process
\* has a session with it.
LinkInv ==
  \A c \in Controllers :
    /\ pnp[c] = "D0" => FilterContext = c
    /\ WriterFileObject[c] \in {Device(p) : p \in Processes} \cup {NULL}
    /\ WriterFileObject[c] # NULL => pnp[c] = "D0"
    /\ OverrideEnabled[c] => WriterFileObject[c] # NULL

Overrides(p) == \E c \in Controllers : WriterFileObject[c] = Device(p) /\ OverrideEnabled[c]

\* p is where its program may have the override on.
Drives(p) ==
  \/ prog[p] = "Producer" \/ at[p] \in Driving \cup {"killed"}
  \/ prog[p] = "on" /\ at[p] = "release"

\* A session that was lost is a failure by the time GaYmCLI closes.
LossIsSeen(p) ==
  prog[p] \in CliTools =>
    /\ at[p] = "close" => ~Owns(p)
    /\ at[p] \in {"close", "end"} /\ lost[p] => failed[p]
    /\ at[p] = "killed" => failed[p]

ProcessInv(p) ==
  /\ Owns(p) => open[p]
  /\ Overrides(p) => Drives(p)
  /\ lib[p] # "idle" => ~Owns(p)
  /\ (Running(p) /\ handler[p] = "none" /\ at[p] \notin {"reclose", "finish"})
     => (Owns(p) <=> held[p] /\ ~lost[p])
  /\ LossIsSeen(p)

SessionInv == LinkInv /\ \A p \in Processes : ProcessInv(p)

\* No controller has a session and no override at first.
LEMMA InitSessionInv == Init => SessionInv
  <1> SUFFICES ASSUME Init PROVE SessionInv
    OBVIOUS
  <1>1. LinkInv
    BY ControlAssumption DEF Init, ControlInit, LinkInv
  <1>2. ASSUME NEW p \in Processes PROVE ProcessInv(p)
    <2>1. ~Owns(p) /\ ~Overrides(p)
      BY HandlesDistinct DEF Init, ControlInit, Owns, Overrides
    <2> QED
      BY <2>1 DEF Init, ProcessInv, LossIsSeen, Running
  <1> QED
    BY <1>1, <1>2 DEF SessionInv

\* What p does with the controller leaves the others their sessions.
OthersKeep(p) ==
  /\ LinkInv'
  /\ \A q \in Processes \ {p} : (Owns(q)' <=> Owns(q)) /\ (Overrides(q)' <=> Overrides(q))

\* When nothing changes nobody's session does.
LEMMA SessionUntouched ==
  ASSUME LinkInv, UNCHANGED controlVars
  PROVE  LinkInv' /\ \A q \in Processes : (Owns(q)' <=> Owns(q)) /\ (Overrides(q)' <=> Overrides(q))
  BY DEF controlVars, sessionVars, linkVars, LinkInv, Owns, Overrides

\* What a request through its handle does to the session of a process, and
\* what its answer says: the holder is refused nothing but a report.
LEMMA SessionIoctl ==
  ASSUME OneController, ClientTypeInv, SessionInv, UNCHANGED linkVars, NEW p \in Processes,
         NEW code \in ByHandle, SendIoctl(p, code)
  PROVE  /\ OthersKeep(p)
         /\ Owns(p)' <=> \/ code = "acquire" /\ Answer(p, code) = "ok"
                         \/ code # "release" /\ Owns(p)
         /\ Overrides(p)' <=> Owns(p) /\ \/ code = "on"
                                         \/ code \notin {"off", "release"} /\ Overrides(p)
         /\ Owns(p) /\ code # "inject" => Answer(p, code) = "ok"
         /\ code = "release" /\ Answer(p, code) = "ok" => Owns(p)
  <1> USE DEF ClientTypeInv, TypeOK, ControlTypeOK
  <1>1. CASE ~open[p]
    <2>1. UNCHANGED controlVars /\ ~Owns(p) /\ Answer(p, code) # "ok"
      BY <1>1 DEF SendIoctl, Answer, controlVars, SessionInv, ProcessInv
    <2>2. ~Overrides(p)
      BY <2>1 DEF Owns, Overrides
    <2> QED
      BY <2>1, <2>2, SessionUntouched DEF SessionInv, OthersKeep
  <1>2. CASE open[p] /\ FilterContext = NULL
    <2>1. UNCHANGED controlVars /\ Answer(p, code) # "ok"
      BY <1>2 DEF SendIoctl, HandleIoctl, Status, Answer, controlVars
    <2>2. ~Owns(p) /\ ~Overrides(p)
      BY <1>2, HandlesDistinct, ControlAssumption DEF SessionInv, LinkInv, Owns, Overrides
    <2> QED
      BY <2>1, <2>2, SessionUntouched DEF SessionInv, OthersKeep
  <1>3. CASE open[p] /\ FilterContext # NULL
    <2> DEFINE c == FilterContext
               W == WriterFileObject[c]
               O == OverrideEnabled[c]
    <2>1. c \in Controllers /\ \A d \in Controllers : d = c
      BY <1>3 DEF OneController
    <2>2. \A q \in Processes : /\ Owns(q) <=> W = Device(q)
                               /\ Overrides(q) <=> W = Device(q) /\ O
                               /\ Owns(q)' <=> WriterFileObject'[c] = Device(q)
                               /\ Overrides(q)' <=> /\ WriterFileObject'[c] = Device(q)
                                                   /\ OverrideEnabled'[c]
      BY <2>1 DEF Owns, Overrides
    <2>3. /\ pnp'[c] = pnp[c] /\ FilterContext' = c
          /\ W \in {Device(q) : q \in Processes} \cup {NULL}
          /\ W # NULL => pnp[c] = "D0"
          /\ O => W # NULL
      BY <2>1 DEF SessionInv, LinkInv, linkVars
    <2>4. Answer(p, code) = "ok" <=>
            /\ code \in NeedTarget => pnp[c] = "D0"
            /\ code \in {"acquire", "off"} => W \in {NULL, Device(p)}
            /\ code \in NeedSession => W = Device(p)
            /\ code = "inject" => O
      BY <1>3 DEF Answer, Status, HasSupportedTarget, HeldByOther, Holds, ByHandle,
                  NeedTarget, NeedSession
    <2>5. Answer(p, code) # "ok" => WriterFileObject'[c] = W /\ OverrideEnabled'[c] = O
      BY <1>3 DEF Answer, SendIoctl, HandleIoctl, sessionVars
    <2>6. Answer(p, code) = "ok" =>
            /\ code = "acquire" => WriterFileObject'[c] = Device(p) /\ OverrideEnabled'[c] = O
            /\ code = "release" => WriterFileObject'[c] = NULL /\ OverrideEnabled'[c] = FALSE
            /\ code = "on" => WriterFileObject'[c] = W /\ OverrideEnabled'[c] = TRUE
            /\ code = "off" => WriterFileObject'[c] = W /\ OverrideEnabled'[c] = FALSE
            /\ code = "inject" => WriterFileObject'[c] = W /\ OverrideEnabled'[c] = O
      BY <1>3, <2>1 DEF Answer, SendIoctl, HandleIoctl
    <2>7. LinkInv'
      <3>1. /\ WriterFileObject'[c] \in {Device(q) : q \in Processes} \cup {NULL}
            /\ WriterFileObject'[c] # NULL => pnp[c] = "D0"
            /\ OverrideEnabled'[c] => WriterFileObject'[c] # NULL
        BY <2>3, <2>4, <2>5, <2>6, HandlesDistinct DEF ByHandle, NeedTarget, NeedSession
      <3> QED
        BY <2>1, <2>3, <3>1 DEF LinkInv
    <2> HIDE DEF c
    <2>8. OthersKeep(p)
      BY <2>2, <2>3, <2>4, <2>5, <2>6, <2>7, HandlesDistinct DEF OthersKeep, ByHandle, NeedSession
    <2>9. /\ Owns(p)' <=> \/ code = "acquire" /\ Answer(p, code) = "ok"
                          \/ code # "release" /\ Owns(p)
          /\ Owns(p) /\ code # "inject" => Answer(p, code) = "ok"
          /\ code = "release" /\ Answer(p, code) = "ok" => Owns(p)
      BY <2>2, <2>3, <2>4, <2>5, <2>6, HandlesDistinct DEF ByHandle, NeedSession
    <2>10. Overrides(p)' <=> Owns(p) /\ \/ code = "on"
                                        \/ code \notin {"off", "release"} /\ Overrides(p)
      BY <2>2, <2>3, <2>4, <2>5, <2>6, HandlesDistinct DEF ByHandle, NeedSession
    <2> QED
      BY <2>8, <2>9, <2>10
  <1> QED
    BY <1>1, <1>2, <1>3

\* A process that closes its handle has no session any more.
LEMMA SessionClose ==
  ASSUME OneController, ClientTypeInv, SessionInv, UNCHANGED linkVars, NEW p \in Processes,
         IF open[p] THEN FileCleanup(Device(p)) ELSE UNCHANGED sessionVars
  PROVE  OthersKeep(p) /\ ~Owns(p)' /\ ~Overrides(p)'
  <1> USE DEF ClientTypeInv, TypeOK, ControlTypeOK
  <1>1. CASE UNCHANGED sessionVars /\ ~Owns(p)
    <2>1. UNCHANGED controlVars /\ ~Overrides(p)
      BY <1>1 DEF controlVars, Owns, Overrides
    <2> QED
      BY <1>1, <2>1, SessionUntouched DEF SessionInv, OthersKeep
  <1>2. CASE Owns(p)
    <2> DEFINE c == FilterContext
    <2>1. c \in Controllers /\ WriterFileObject[c] = Device(p) /\ \A d \in Controllers : d = c
      BY <1>2, HandlesDistinct DEF SessionInv, LinkInv, Owns, OneController
    <2>2. open[p] /\ ResetWriterState(c)
      BY <1>2, <2>1, ControlAssumption DEF SessionInv, ProcessInv, FileCleanup, Holds
    <2>3. WriterFileObject'[c] = NULL /\ OverrideEnabled'[c] = FALSE
      BY <2>1, <2>2 DEF ResetWriterState
    <2>4. LinkInv'
      BY <2>1, <2>3 DEF SessionInv, LinkInv, linkVars
    <2> QED
      BY <2>1, <2>3, <2>4, HandlesDistinct DEF OthersKeep, Owns, Overrides
  <1>3. UNCHANGED sessionVars \/ Owns(p)
    BY ControlAssumption DEF FileCleanup, Holds, Owns
  <1> QED
    BY <1>1, <1>2, <1>3

\* The handle of a single call has no session.
LEMMA SessionProbe ==
  ASSUME ClientTypeInv, SessionInv, NEW p \in Processes, FileCleanup(Probe(p))
  PROVE  UNCHANGED sessionVars
  BY HandlesDistinct
     DEF FileCleanup, Holds, SessionInv, LinkInv, ClientTypeInv, TypeOK, ControlTypeOK

\* Those who neither move nor lose their session keep what they believe.
LEMMA OthersKeepInv ==
  ASSUME SessionInv, NEW p \in Processes, OthersStay(p), OthersKeep(p), ProcessInv(p)'
  PROVE  SessionInv'
  <1> SUFFICES ASSUME NEW q \in Processes \ {p} PROVE ProcessInv(q)'
    BY DEF OthersKeep, SessionInv
  <1> QED
    BY DEF SessionInv, ProcessInv, OthersStay, OthersKeep, Running, Drives, LossIsSeen

\* A call that asks nothing of the session.
LEMMA CallKeepsSession ==
  ASSUME OneController, ClientTypeInv, SessionInv, UNCHANGED linkVars, NEW p \in Processes,
         Running(p), lib[p] = "idle",
         NEW row \in Program[prog[p]], row.at = at[p], Call(p, row)
  PROVE  SessionInv'
  <1>1. RowFacts(prog[p], row)
    BY RowsOfPrograms DEF ClientTypeInv, TypeOK
  <1>2. row.call \in Calls \ (ByHandle \cup {"releaseHeld"})
    BY <1>1 DEF RowFacts, RowTyped, Call
  <1>3. PICK ok \in Outcomes(p, row.call) :
          /\ Return(p, row, ok)
          /\ open' = [open EXCEPT ![p] = CASE row.call \in {"open", "openPath"} -> ok
                                           [] row.call = "close" -> FALSE
                                           [] OTHER -> @]
    BY Zenon DEF Call
  <1>4. ok \in BOOLEAN
    BY <1>2, OutcomesBoolean DEF ClientTypeInv
  <1>5. PICK l \in LabelsOf(prog[p]) \ {"killed"} :
          at' = [at EXCEPT ![p] = l] /\ l \in Exits(row) /\ l \in IF ok THEN row.ok ELSE row.bad
    BY <1>3, <1>4, ReturnEffect
  <1>6. /\ failed[p] => failed'[p]
        /\ row.counts /\ ~ok => failed'[p]
    BY <1>3, <1>4, ReturnEffect
  <1>7. /\ OthersStay(p) /\ UNCHANGED <<prog, lib, handler, lost>>
        /\ at'[p] = l /\ lib'[p] = "idle"
    BY <1>5, CallEffect DEF Call, ClientTypeInv, TypeOK
  <1>8. CASE row.call = "close"
    <2>1. OthersKeep(p) /\ ~Owns(p)' /\ ~Overrides(p)'
      BY <1>8, SessionClose DEF Call
    <2>2. ~held'[p]
      BY <1>8 DEF Call, ClientTypeInv, TypeOK
    <2>3. LossIsSeen(p)'
      <3> SUFFICES ASSUME prog[p] \in CliTools, l \in {"close", "end"}, lost[p] PROVE failed'[p]
        BY <1>5, <1>7, <2>1 DEF LossIsSeen
      <3>1. l = "end" /\ at[p] = "close"
        BY <1>1, <1>5, <1>8 DEF RowFacts, RowSucceeds
      <3> QED
        BY <1>6, <3>1 DEF SessionInv, ProcessInv, LossIsSeen
    <2>4. ProcessInv(p)'
      BY <1>7, <2>1, <2>2, <2>3 DEF ProcessInv
    <2> QED
      BY <1>7, <2>1, <2>4, OthersKeepInv
  <1>9. CASE row.call # "close"
    <2>1. UNCHANGED controlVars /\ UNCHANGED held
      BY <1>9, SessionProbe DEF Call, controlVars
    <2>2. /\ Owns(p)' <=> Owns(p)
          /\ Overrides(p)' <=> Overrides(p)
          /\ OthersKeep(p)
      BY <2>1, SessionUntouched DEF SessionInv, OthersKeep
    <2>3. Owns(p) => open'[p]
      <3>1. CASE row.call \in Opens
        <4>1. ~open[p]
          BY <1>1, <3>1 DEF RowFacts, RowOpens, ClientTypeInv, HandleInv
        <4> QED
          BY <4>1 DEF SessionInv, ProcessInv
      <3>2. CASE row.call \notin Opens
        BY <1>3, <1>9, <3>2 DEF Opens, SessionInv, ProcessInv, ClientTypeInv, TypeOK
      <3> QED
        BY <3>1, <3>2
    <2>4. Overrides(p) => Drives(p)'
      <3> SUFFICES ASSUME Overrides(p), prog[p] # "Producer" PROVE Drives(p)'
        BY <1>7 DEF Drives
      <3>1. at[p] \in Driving \/ (prog[p] = "on" /\ at[p] = "release")
        BY DEF SessionInv, ProcessInv, Drives, Running
      <3>2. row.call \notin {"off", "release"}
        BY <1>2 DEF ByHandle
      <3>3. l \in Driving
        BY <1>1, <1>5, <3>1, <3>2 DEF RowFacts, RowDrives
      <3> QED
        BY <1>7, <3>3 DEF Drives
    <2>5. at[p] \notin {"reclose", "finish"}
      BY <1>1, <1>9 DEF RowFacts, RowReleases
    <2>6. LossIsSeen(p)'
      <3> SUFFICES ASSUME prog[p] \in CliTools, l \in {"close", "end"}
                   PROVE  ~(l = "close" /\ Owns(p)) /\ (lost[p] => failed'[p])
        BY <1>5, <1>7, <2>2 DEF LossIsSeen
      <3>1. l # "close"
        BY <1>1, <1>2, <1>5 DEF RowFacts, RowSucceeds, ByHandle
      <3>2. row.call = "open" /\ "end" \notin row.ok /\ row.counts /\ l = "end"
        BY <1>1, <1>5, <1>9, <3>1 DEF RowFacts, RowSucceeds
      <3>3. ~ok
        BY <1>4, <1>5, <3>2
      <3> QED
        BY <1>6, <3>1, <3>2, <3>3
    <2>7. ProcessInv(p)'
      BY <1>7, <2>1, <2>2, <2>3, <2>4, <2>5, <2>6 DEF ProcessInv, SessionInv, Running
    <2> QED
      BY <1>7, <2>2, <2>7, OthersKeepInv
  <1> QED
    BY <1>8, <1>9

\* A request for the override, for a report, or to end the session.
LEMMA CallIoctlKeepsSession ==
  ASSUME OneController, ClientTypeInv, SessionInv, UNCHANGED linkVars, NEW p \in Processes,
         Running(p), lib[p] = "idle",
         NEW row \in Program[prog[p]], row.at = at[p], CallIoctl(p, row)
  PROVE  SessionInv'
  <1> DEFINE ok == Answer(p, row.call) = "ok"
  <1>1. RowFacts(prog[p], row) /\ row.call \in ByHandle \ {"acquire"}
    BY RowsOfPrograms DEF ClientTypeInv, TypeOK, CallIoctl
  <1>2. Return(p, row, ok) /\ ok \in BOOLEAN
    BY DEF CallIoctl
  <1>3. PICK l \in LabelsOf(prog[p]) \ {"killed"} :
          at' = [at EXCEPT ![p] = l] /\ l \in Exits(row) /\ l \in IF ok THEN row.ok ELSE row.bad
    BY <1>2, ReturnEffect
  <1>4. /\ failed[p] => failed'[p]
        /\ row.counts /\ ~ok => failed'[p]
    BY <1>2, ReturnEffect
  <1>5. /\ OthersStay(p) /\ UNCHANGED <<prog, lib, open, handler, lost>>
        /\ at'[p] = l /\ lib'[p] = "idle"
        /\ held'[p] <=> held[p] /\ ~(row.call = "release" /\ ok)
    BY <1>3, CallEffect DEF CallIoctl, ClientTypeInv, TypeOK
  <1>6. /\ OthersKeep(p)
        /\ Owns(p)' <=> row.call # "release" /\ Owns(p)
        /\ Overrides(p)' <=> Owns(p) /\ \/ row.call = "on"
                                        \/ row.call \notin {"off", "release"} /\ Overrides(p)
        /\ Owns(p) /\ row.call # "inject" => ok
        /\ row.call = "release" /\ ok => Owns(p)
    BY <1>1, SessionIoctl DEF CallIoctl
  <1> HIDE DEF ok
  <1>7. at[p] \notin {"reclose", "finish"}
    BY <1>1 DEF RowFacts, RowReleases, ByHandle
  <1>8. Overrides(p)' => Drives(p)'
    <2> SUFFICES ASSUME Overrides(p)', prog[p] # "Producer" PROVE Drives(p)'
      BY <1>5 DEF Drives
    <2>1. CASE row.call = "on"
      <3>1. l \in Driving \/ (prog[p] = "on" /\ l = "release")
        BY <1>1, <1>3, <1>6, <2>1 DEF RowFacts, RowDrives
      <3> QED
        BY <1>5, <3>1 DEF Drives
    <2>2. CASE row.call # "on"
      <3>1. Overrides(p) /\ row.call \notin {"off", "release"}
        BY <1>6, <2>2
      <3>2. at[p] \in Driving \/ (prog[p] = "on" /\ at[p] = "release")
        BY <3>1 DEF SessionInv, ProcessInv, Drives, Running
      <3>3. l \in Driving
        BY <1>1, <1>3, <3>1, <3>2 DEF RowFacts, RowDrives
      <3> QED
        BY <1>5, <3>3 DEF Drives
    <2> QED
      BY <2>1, <2>2
  <1>9. LossIsSeen(p)'
    <2> SUFFICES ASSUME prog[p] \in CliTools, l \in {"close", "end"}
                 PROVE  ~(l = "close" /\ Owns(p)') /\ (lost[p] => failed'[p])
      BY <1>3, <1>5 DEF LossIsSeen
    <2>1. l = "close" /\ row.counts /\ row.call = "release"
      BY <1>1, <1>3 DEF RowFacts, RowSucceeds, ByHandle
    <2>2. ~Owns(p)'
      BY <1>6, <2>1
    <2>3. CASE ok
      <3>1. Owns(p) /\ handler[p] = "none"
        BY <1>6, <2>1, <2>3 DEF CliTools, ClientTypeInv, HandleInv
      <3> QED
        BY <1>7, <2>2, <3>1 DEF SessionInv, ProcessInv
    <2>4. CASE ~ok
      BY <1>4, <2>1, <2>2, <2>4
    <2> QED
      BY <2>3, <2>4
  <1>10. ProcessInv(p)'
    BY <1>5, <1>6, <1>7, <1>8, <1>9 DEF ProcessInv, SessionInv, Running
  <1> QED
    BY <1>5, <1>6, <1>10, OthersKeepInv

\* The release of what the flag says is held, just before the close.
LEMMA CallReleaseHeldKeepsSession ==
  ASSUME OneController, ClientTypeInv, SessionInv, UNCHANGED linkVars, NEW p \in Processes,
         Running(p), lib[p] = "idle",
         NEW row \in Program[prog[p]], row.at = at[p], CallReleaseHeld(p, row)
  PROVE  SessionInv'
  <1>1. RowFacts(prog[p], row) /\ row.call = "releaseHeld"
    BY RowsOfPrograms DEF ClientTypeInv, TypeOK, CallReleaseHeld
  <1>2. prog[p] = "Producer" /\ row.ok \subseteq {"reclose", "finish"}
    BY <1>1 DEF RowFacts, RowReleases
  <1>3. PICK l \in row.ok : at' = [at EXCEPT ![p] = l]
    BY ReturnEffect DEF CallReleaseHeld
  <1>4. /\ OthersStay(p) /\ UNCHANGED <<prog, lib, open, held, handler, lost>>
        /\ at'[p] = l /\ lib'[p] = "idle"
    BY <1>3, CallEffect DEF CallReleaseHeld, ClientTypeInv, TypeOK
  <1>5. OthersKeep(p) /\ (Owns(p)' => Owns(p))
    <2>1. CASE held[p]
      BY <2>1, SessionIoctl DEF CallReleaseHeld, ByHandle
    <2>2. CASE ~held[p]
      BY <2>2, SessionUntouched DEF CallReleaseHeld, controlVars, SessionInv, OthersKeep
    <2> QED
      BY <2>1, <2>2
  <1>6. ProcessInv(p)'
    BY <1>2, <1>3, <1>4, <1>5 DEF ProcessInv, SessionInv, Drives, LossIsSeen, CliTools
  <1> QED
    BY <1>4, <1>5, <1>6, OthersKeepInv

\* An ACQUIRE, the first or the last.
LEMMA AcquireKeepsSession ==
  ASSUME OneController, ClientTypeInv, SessionInv, UNCHANGED linkVars, NEW p \in Processes,
         Running(p), NEW row \in Program[prog[p]], row.at = at[p],
         \/ lib[p] = "idle" /\ CallAcquire(p, row)
         \/ RetryAcquire(p, row)
  PROVE  SessionInv'
  <1> DEFINE ok == Answer(p, "acquire") = "ok"
  <1>1. RowFacts(prog[p], row) /\ row.call = "acquire"
    BY RowsOfPrograms DEF ClientTypeInv, TypeOK, CallAcquire, RetryAcquire
  <1>2. at[p] \notin {"reclose", "finish"}
    BY <1>1 DEF RowFacts, RowReleases
  <1>3. OthersStay(p) /\ UNCHANGED <<prog, open, handler>>
    BY CallEffect DEF CallAcquire, RetryAcquire
  <1>4. /\ OthersKeep(p)
        /\ Owns(p)' <=> ok \/ Owns(p)
        /\ Overrides(p)' <=> Owns(p) /\ Overrides(p)
        /\ Owns(p) => ok
    BY SessionIoctl DEF CallAcquire, RetryAcquire, ByHandle
  <1>5. ok => open[p]
    BY DEF Answer
  <1>6. \/ ok /\ Acquired(p, row)
        \/ ~ok /\ NotAcquired(p, row)
        \/ ~ok /\ lib' = [lib EXCEPT ![p] = "retryOff"] /\ UNCHANGED <<at, failed, held, lost>>
    BY DEF CallAcquire, RetryAcquire
  <1> HIDE DEF ok
  <1>7. CASE ~ok /\ lib' = [lib EXCEPT ![p] = "retryOff"] /\ UNCHANGED <<at, failed, held, lost>>
    <2>1. ProcessInv(p)'
      BY <1>3, <1>4, <1>7 DEF ProcessInv, SessionInv, Running, Drives, LossIsSeen
    <2> QED
      BY <1>3, <1>4, <2>1, OthersKeepInv
  <1>8. ASSUME NEW b \in BOOLEAN, b <=> ok, Return(p, row, b), lib' = [lib EXCEPT ![p] = "idle"],
               b => held' = [held EXCEPT ![p] = TRUE] /\ lost' = [lost EXCEPT ![p] = FALSE],
               ~b => UNCHANGED <<held, lost>>
        PROVE  SessionInv'
    <2>1. PICK l \in LabelsOf(prog[p]) \ {"killed"} :
            at' = [at EXCEPT ![p] = l] /\ l \in Exits(row) /\ l \in IF b THEN row.ok ELSE row.bad
      BY <1>8, ReturnEffect
    <2>2. /\ failed[p] => failed'[p]
          /\ row.counts /\ ~b => failed'[p]
      BY <1>8, ReturnEffect
    <2>3. /\ at'[p] = l /\ lib'[p] = "idle"
          /\ b => held'[p] /\ ~lost'[p]
          /\ ~b => UNCHANGED <<held[p], lost[p]>>
      BY <1>8, <2>1 DEF ClientTypeInv, TypeOK
    <2>4. Overrides(p)' => Drives(p)'
      <3> SUFFICES ASSUME Overrides(p), prog[p] # "Producer" PROVE Drives(p)'
        BY <1>3, <1>4 DEF Drives
      <3>1. at[p] \in Driving \/ (prog[p] = "on" /\ at[p] = "release")
        BY DEF SessionInv, ProcessInv, Drives, Running
      <3>2. l \in Driving
        BY <1>1, <2>1, <3>1 DEF RowFacts, RowDrives
      <3> QED
        BY <2>3, <3>2 DEF Drives
    <2>5. LossIsSeen(p)'
      <3> SUFFICES ASSUME prog[p] \in CliTools, l \in {"close", "end"}
                   PROVE  ~(l = "close" /\ Owns(p)') /\ (lost'[p] => failed'[p])
        BY <1>3, <2>1, <2>3 DEF LossIsSeen
      <3>1. l = "close" /\ row.counts /\ "close" \notin row.ok
        BY <1>1, <2>1 DEF RowFacts, RowSucceeds
      <3>2. ~b
        BY <2>1, <3>1
      <3> QED
        BY <1>4, <1>8, <2>2, <3>1, <3>2
    <2>6. Owns(p)' => open'[p]
      BY <1>3, <1>4, <1>5 DEF SessionInv, ProcessInv
    <2>7. ProcessInv(p)'
      BY <1>2, <1>3, <1>4, <1>8, <2>3, <2>4, <2>5, <2>6 DEF ProcessInv, SessionInv, Running
    <2> QED
      BY <1>3, <1>4, <2>7, OthersKeepInv
  <1> QED
    BY <1>6, <1>7, <1>8 DEF Acquired, NotAcquired

\* OFF and RELEASE of the busy retry, on a session that p does not have.
LEMMA RetryKeepsSession ==
  ASSUME OneController, ClientTypeInv, SessionInv, UNCHANGED linkVars, NEW p \in Processes,
         Running(p), LibraryStep(p)
  PROVE  SessionInv'
  <1>1. PICK code \in {"off", "release"}, next \in {"retryRelease", "retryAcquire"} :
          /\ lib[p] # "idle" /\ SendIoctl(p, code) /\ lib' = [lib EXCEPT ![p] = next]
          /\ UNCHANGED <<prog, at, open, held, failed, handler, lost>>
    BY DEF LibraryStep, RetryGiveUp
  <1>2. OthersKeep(p) /\ ~Owns(p)' /\ ~Overrides(p)' /\ ~Owns(p)
    BY <1>1, SessionIoctl DEF SessionInv, ProcessInv, ByHandle
  <1>3. OthersStay(p)
    BY <1>1 DEF OthersStay, ClientTypeInv, TypeOK
  <1>4. ProcessInv(p)'
    BY <1>1, <1>2 DEF ProcessInv, SessionInv, Running, LossIsSeen
  <1> QED
    BY <1>2, <1>3, <1>4, OthersKeepInv

\* The console handler of MinimalTestFeeder, after which the main thread
\* knows nothing of its session any more.
LEMMA HandlerKeepsSession ==
  ASSUME OneController, ClientTypeInv, SessionInv, NEW p \in Processes,
         CtrlEvent(p) \/ CtrlHandler(p)
  PROVE  SessionInv'
  <1>1. OthersStay(p) /\ UNCHANGED linkVars
    BY ProcessStepEffect DEF ProcessStep
  <1>2. prog[p] = "TestFeeder" /\ UNCHANGED <<prog, held, lost>>
    BY DEF CtrlEvent, CtrlHandler, HandlerIoctl, HandlerClose, HandlerExit
  <1>3. CASE CtrlEvent(p)
    <2>1. UNCHANGED controlVars /\ UNCHANGED <<at, lib, open>> /\ handler'[p] = "off"
      BY <1>1, <1>3 DEF CtrlEvent, HandlerIoctl, controlVars, ClientTypeInv, TypeOK
    <2>2. OthersKeep(p) /\ (Owns(p)' <=> Owns(p)) /\ (Overrides(p)' <=> Overrides(p))
      BY <2>1, SessionUntouched DEF SessionInv, OthersKeep
    <2>3. ProcessInv(p)'
      BY <1>2, <2>1, <2>2 DEF ProcessInv, SessionInv, Drives, LossIsSeen, CliTools
    <2> QED
      BY <1>1, <2>2, <2>3, OthersKeepInv
  <1>4. ASSUME NEW code \in {"off", "release"}, NEW here, NEW next \in {"release", "close"},
               HandlerIoctl(p, here, code, next)
        PROVE  SessionInv'
    <2>1. UNCHANGED <<at, lib, open>> /\ handler'[p] = next
      BY <1>4 DEF HandlerIoctl, ClientTypeInv, TypeOK
    <2>2. OthersKeep(p) /\ (Owns(p)' => Owns(p)) /\ ~Overrides(p)'
      BY <1>1, <1>4, SessionIoctl DEF HandlerIoctl, ByHandle
    <2>3. ProcessInv(p)'
      BY <1>2, <2>1, <2>2 DEF ProcessInv, SessionInv, LossIsSeen, CliTools
    <2> QED
      BY <1>1, <2>2, <2>3, OthersKeepInv
  <1>5. CASE HandlerClose(p)
    <2>1. UNCHANGED <<at, lib>> /\ handler'[p] = "exit"
      BY <1>5 DEF HandlerClose, ClientTypeInv, TypeOK
    <2>2. OthersKeep(p) /\ ~Owns(p)' /\ ~Overrides(p)'
      BY <1>1, <1>5, SessionClose DEF HandlerClose
    <2>3. ProcessInv(p)'
      BY <1>2, <2>1, <2>2 DEF ProcessInv, LossIsSeen, CliTools
    <2> QED
      BY <1>1, <2>2, <2>3, OthersKeepInv
  <1>6. CASE HandlerExit(p)
    <2>1. UNCHANGED controlVars /\ ~open[p] /\ at'[p] = "end" /\ lib'[p] = "idle"
      BY <1>1, <1>6 DEF HandlerExit, controlVars, ClientTypeInv, TypeOK, HandleInv
    <2>2. ~Owns(p) /\ ~Overrides(p)
      BY <2>1 DEF SessionInv, ProcessInv, Owns, Overrides
    <2>3. OthersKeep(p) /\ ~Owns(p)' /\ ~Overrides(p)'
      BY <2>1, <2>2, SessionUntouched DEF SessionInv, OthersKeep
    <2>4. ProcessInv(p)'
      BY <1>2, <2>1, <2>3 DEF ProcessInv, Running, LossIsSeen, CliTools
    <2> QED
      BY <1>1, <2>3, <2>4, OthersKeepInv
  <1> QED
    BY <1>3, <1>4, <1>5, <1>6 DEF CtrlHandler

\* A process that is killed, cleaned up after and started again.
LEMMA KillKeepsSession ==
  ASSUME OneController, ClientTypeInv, SessionInv, NEW p \in Processes,
         Kill(p) \/ CloseKilled(p) \/ Restart(p)
  PROVE  SessionInv'
  <1>1. OthersStay(p) /\ UNCHANGED linkVars
    BY ProcessStepEffect DEF ProcessStep
  <1>2. CASE Kill(p)
    <2>1. OthersKeep(p) /\ (Owns(p)' <=> Owns(p)) /\ (Overrides(p)' <=> Overrides(p))
      BY <1>2, SessionUntouched DEF Kill, SessionInv, OthersKeep
    <2>2. /\ at'[p] = "killed" /\ lib'[p] = "idle" /\ failed'[p]
          /\ UNCHANGED <<prog, open, held, handler, lost>>
      BY <1>2 DEF Kill, ClientTypeInv, TypeOK
    <2>3. ProcessInv(p)'
      BY <2>1, <2>2 DEF ProcessInv, SessionInv, Running, Drives, LossIsSeen
    <2> QED
      BY <1>1, <2>1, <2>3, OthersKeepInv
  <1>3. CASE CloseKilled(p)
    <2>1. OthersKeep(p) /\ ~Owns(p)' /\ ~Overrides(p)'
      BY <1>1, <1>3, SessionClose DEF CloseKilled
    <2>2. at[p] = "killed" /\ at'[p] = "end" /\ UNCHANGED <<prog, failed, lost>>
      BY <1>3 DEF CloseKilled, ClientTypeInv, TypeOK
    <2>3. ProcessInv(p)'
      BY <2>1, <2>2 DEF ProcessInv, SessionInv, Running, LossIsSeen
    <2> QED
      BY <1>1, <2>1, <2>3, OthersKeepInv
  <1>4. CASE Restart(p)
    <2>1. ~Owns(p) /\ ~Overrides(p)
      BY <1>4 DEF Restart, SessionInv, ProcessInv, ClientTypeInv, TypeOK, Owns, Overrides
    <2>2. OthersKeep(p) /\ ~Owns(p)' /\ ~Overrides(p)'
      BY <1>4, <2>1, SessionUntouched DEF Restart, SessionInv, OthersKeep
    <2>3. at'[p] = "start" /\ ~held'[p]
      BY <1>4 DEF Restart, ClientTypeInv, TypeOK
    <2>4. ProcessInv(p)'
      BY <2>2, <2>3 DEF ProcessInv, LossIsSeen
    <2> QED
      BY <1>1, <2>2, <2>4, OthersKeepInv
  <1> QED
    BY <1>2, <1>3, <1>4

\* A power event takes a session, and its history says so.
LEMMA PowerKeepsSession ==
  ASSUME OneController, ClientTypeInv, SessionInv, Power
  PROVE  SessionInv'
  <1> USE DEF ClientTypeInv, TypeOK, ControlTypeOK
  <1>1. PICK c \in Controllers : PowerEvent(c)
    BY DEF Power
  <1>2. \A d \in Controllers : d = c
    BY DEF OneController
  <1>3. \/ UNCHANGED sessionVars /\ (pnp'[c] = "D0" => FilterContext' = c)
                                 /\ (pnp[c] = "D0" => pnp'[c] = "D0")
        \/ WriterFileObject'[c] = NULL /\ OverrideEnabled'[c] = FALSE /\ pnp'[c] # "D0"
    BY <1>1 DEF PowerEvent, DeviceAdd, CreateControlDevice, D0Entry, D0Exit, SurpriseRemoval, ResetWriterState
  <1>4. LinkInv'
    BY <1>2, <1>3 DEF SessionInv, LinkInv, sessionVars
  <1>5. ASSUME NEW p \in Processes PROVE ProcessInv(p)'
    <2>1. /\ Owns(p) <=> WriterFileObject[c] = Device(p)
          /\ Owns(p)' <=> WriterFileObject'[c] = Device(p)
          /\ Overrides(p) <=> WriterFileObject[c] = Device(p) /\ OverrideEnabled[c]
          /\ Overrides(p)' <=> WriterFileObject'[c] = Device(p) /\ OverrideEnabled'[c]
      BY <1>2 DEF Owns, Overrides
    <2>2. /\ Owns(p)' => Owns(p)
          /\ Overrides(p)' => Overrides(p)
      BY <1>3, <2>1, HandlesDistinct DEF sessionVars
    <2>3. lost'[p] <=> lost[p] \/ (Owns(p) /\ ~Owns(p)')
      BY <1>2, <2>1 DEF Power
    <2>4. UNCHANGED <<prog, at, lib, open, held, failed, handler>>
      BY DEF Power
    <2>5. LossIsSeen(p)'
      <3> SUFFICES ASSUME prog[p] \in CliTools, at[p] \in {"close", "end"}, lost'[p]
                   PROVE  ~Owns(p)' /\ failed[p]
        BY <2>2, <2>4 DEF SessionInv, ProcessInv, LossIsSeen
      <3>1. ~Owns(p)
        BY DEF SessionInv, ProcessInv, LossIsSeen
      <3> QED
        BY <2>2, <2>3, <3>1 DEF SessionInv, ProcessInv, LossIsSeen
    <2> QED
      BY <2>2, <2>3, <2>4, <2>5 DEF ProcessInv, SessionInv, Running, Drives
  <1> QED
    BY <1>4, <1>5 DEF SessionInv

LEMMA NextSessionInv == OneController /\ ClientTypeInv /\ SessionInv /\ [Next]_vars => SessionInv'
  <1> SUFFICES ASSUME OneController, ClientTypeInv, SessionInv, [Next]_vars PROVE SessionInv'
    OBVIOUS
  <1>1. CASE UNCHANGED vars
    <2>1. UNCHANGED controlVars /\ UNCHANGED processVars
      BY <1>1 DEF vars
    <2> QED
      BY <2>1, SessionUntouched
         DEF processVars, SessionInv, ProcessInv, Running, Drives, LossIsSeen
  <1>2. ASSUME NEW p \in Processes, ProgramStep(p) PROVE SessionInv'
    <2>1. CASE LibraryStep(p)
      BY <1>2, <2>1, RetryKeepsSession DEF ProgramStep
    <2>2. ASSUME NEW row \in Program[prog[p]], row.at = at[p],
                 \/ /\ lib[p] = "idle"
                    /\ \/ Call(p, row) \/ CallIoctl(p, row) \/ CallReleaseHeld(p, row)
                       \/ CallAcquire(p, row)
                 \/ RetryAcquire(p, row)
          PROVE  SessionInv'
      BY <1>2, <2>2, CallKeepsSession, CallIoctlKeepsSession, CallReleaseHeldKeepsSession,
         AcquireKeepsSession DEF ProgramStep
    <2> QED
      BY <1>2, <2>1, <2>2 DEF ProgramStep
  <1>3. CASE Next
    BY <1>2, <1>3, HandlerKeepsSession, KillKeepsSession, PowerKeepsSession DEF Next
  <1> QED
    BY <1>1, <1>3

LEMMA SessionInvariant == ASSUME OneController PROVE Spec => []SessionInv
  <1>1. Init => SessionInv
    BY InitSessionInv
  <1>2. ClientTypeInv /\ SessionInv /\ [Next]_vars => SessionInv'
    BY NextSessionInv
  <1> QED
    BY <1>1, <1>2, ClientTypeInvariant, PTL DEF Spec

\* With any number of processes that come and go at one controller, the
\* WRITER_HELD flag of the library, or the tool's own, says exactly who has
\* the session, but for what a power event took.
THEOREM HeldFlagTellsTheTruth == ASSUME OneController PROVE Spec => []HeldFlagExact
  <1>1. SessionInv => HeldFlagExact
    BY DEF SessionInv, ProcessInv, HeldFlagExact
  <1> QED
    BY <1>1, SessionInvariant, PTL

\* There an override is on only while its session's process has the handle
\* open and is between its ON and its OFF, or is being cleaned up after.
THEOREM OverrideIsDriven == ASSUME OneController PROVE Spec => []DrivenByItsProgram
  <1>1. SessionInv => DrivenByItsProgram
    <2> SUFFICES ASSUME SessionInv, NEW c \in Controllers, OverrideEnabled[c]
                 PROVE  \E p \in Processes :
                          /\ WriterFileObject[c] = Device(p) /\ open[p]
                          /\ \/ prog[p] = "Producer" \/ at[p] \in Driving \cup {"killed"}
                             \/ prog[p] = "on" /\ at[p] = "release"
      BY DEF DrivenByItsProgram
    <2>1. PICK p \in Processes : WriterFileObject[c] = Device(p)
      BY DEF SessionInv, LinkInv
    <2>2. Owns(p) /\ Overrides(p)
      BY <2>1 DEF Owns, Overrides
    <2> QED
      BY <2>1, <2>2 DEF SessionInv, ProcessInv, Drives
  <1> QED
    BY <1>1, SessionInvariant, PTL

\* There a GaYmCLI on, off or test that exits with 0 held the session from
\* its ACQUIRE to its RELEASE, whatever the power and the other processes did.
THEOREM ExitCodeTellsTheTruth == ASSUME OneController PROVE Spec => []SuccessMeansHeld
  <1>1. SessionInv => SuccessMeansHeld
    BY DEF SessionInv, ProcessInv, LossIsSeen, SuccessMeansHeld, CliTools
  <1> QED
    BY <1>1, SessionInvariant, PTL

=============================================================================
