------------------------------ MODULE Clients -------------------------------
(***************************************************************************)
(* The programs of ClientPrograms and the gaym_client library, running     *)
(* against the control device while controllers come and go.  A call of    *)
(* the library is one step, except ACQUIRE, which asks up to four times.   *)
(* A process may be killed at any moment; the system then closes its       *)
(* handles.                                                                *)
(***************************************************************************)
EXTENDS ControlDevice, ClientPrograms

CONSTANTS
  Processes,    \* processes that may run at the same time
  Repertoire    \* process -> the programs it may run

Device(p) == <<p, "device">>   \* the handle a program works with
Probe(p)  == <<p, "probe">>    \* the one the library opens for a single call

ASSUME ClientsAssumption ==
  /\ Handles = {Device(p) : p \in Processes} \cup {Probe(p) : p \in Processes}
  /\ Repertoire \in [Processes -> SUBSET Programs]

VARIABLES
  prog, at,   \* the program a process runs and where in it
  lib,        \* where in gaym_client_acquire_writer_handle
  open,       \* the device handle is open
  held,       \* the WRITER_HELD flag, or the tool's own writerHeld
  failed,     \* the exit code will not be 0
  handler,    \* the console handler thread of MinimalTestFeeder
  lost        \* history: a power event took the session since ACQUIRE

processVars == <<prog, at, lib, open, held, failed, handler, lost>>
vars == <<controlVars, processVars>>

Running(p) == at[p] \notin {"end", "killed"}

Owns(p) == \E c \in Controllers : WriterFileObject[c] = Device(p)

TypeOK ==
  /\ ControlTypeOK
  /\ prog \in [Processes -> Programs]
  /\ at \in [Processes -> Labels]
  /\ lib \in [Processes -> {"idle", "retryOff", "retryRelease", "retryAcquire"}]
  /\ handler \in [Processes -> {"none", "off", "release", "close", "exit"}]
  /\ {open, held, failed, lost} \subseteq [Processes -> BOOLEAN]
  /\ \A p \in Processes : at[p] \in LabelsOf(prog[p]) /\ (at[p] = "end" => ~open[p])

Init ==
  /\ ControlInit
  /\ prog \in {g \in [Processes -> Programs] : \A p \in Processes : g[p] \in Repertoire[p]}
  /\ at = [p \in Processes |-> "start"]
  /\ lib = [p \in Processes |-> "idle"]
  /\ handler = [p \in Processes |-> "none"]
  /\ open = [p \in Processes |-> FALSE]
  /\ held = [p \in Processes |-> FALSE]
  /\ failed = [p \in Processes |-> FALSE]
  /\ lost = [p \in Processes |-> FALSE]

-----------------------------------------------------------------------------
(* The library.                                                            *)

ByHandle == {"acquire", "release", "on", "off", "inject"}

\* gaym_client_send_ioctl: a closed handle never reaches the driver.
Answer(p, code) == IF open[p] THEN Status(code, Device(p)) ELSE "bad_handle"

SendIoctl(p, code) ==
  IF open[p] THEN HandleIoctl(code, Device(p)) ELSE UNCHANGED sessionVars

\* A query goes through a handle of its own, then through the program's.
QuerySucceeds(p) ==
  \/ controlDevice /\ Status("query", Probe(p)) = "ok"
  \/ Answer(p, "query") = "ok"

\* The same with the program's handle first.
JitterSucceeds(p) ==
  \/ Answer(p, "jitter") = "ok"
  \/ controlDevice /\ Status("jitter", Probe(p)) = "ok"

\* An observation goes the same way, and may fail for want of a native report.
ObservationOutcomes(p) == {FALSE, QuerySucceeds(p)}

\* What a call other than an ioctl of the session may return.
Outcomes(p, call) ==
  CASE call \in {"probe", "openPath"} -> {controlDevice}
    [] call = "open"     -> {controlDevice}       \* two probes first
    [] call = "query"    -> {QuerySucceeds(p)}
    [] call = "observe"  -> ObservationOutcomes(p)
    [] call = "awaitOff" -> {QuerySucceeds(p) /\ ~OverrideEnabled[FilterContext]}
    [] call = "jitter"   -> {JitterSucceeds(p)}
    [] call = "close"    -> {open[p]}
    [] call = "choose"   -> BOOLEAN
    [] call = "skip"     -> {TRUE}
    [] call = "expire"   -> {FALSE}

\* The program goes on after a call.
Return(p, row, ok) ==
  /\ at' \in {[at EXCEPT ![p] = l] : l \in IF ok THEN row.ok ELSE row.bad}
  /\ failed' = [failed EXCEPT ![p] = @ \/ (row.counts /\ ~ok)]

Call(p, row) ==
  /\ row.call \notin ByHandle \cup {"releaseHeld"}
  /\ \E ok \in Outcomes(p, row.call) :
       /\ Return(p, row, ok)
       /\ open' = [open EXCEPT ![p] = CASE row.call \in {"open", "openPath"} -> ok
                                        [] row.call = "close" -> FALSE
                                        [] OTHER -> @]
  /\ IF row.call = "close"
     THEN /\ IF open[p] THEN FileCleanup(Device(p)) ELSE UNCHANGED sessionVars
          /\ held' = [held EXCEPT ![p] = FALSE]
     ELSE FileCleanup(Probe(p)) /\ UNCHANGED held
  /\ UNCHANGED <<prog, lib, handler, lost>>

\* One ioctl through the device handle.
CallIoctl(p, row) ==
  /\ row.call \in ByHandle \ {"acquire"}
  /\ SendIoctl(p, row.call)
  /\ LET ok == Answer(p, row.call) = "ok" IN
     /\ Return(p, row, ok)
     /\ held' = [held EXCEPT ![p] = @ /\ ~(row.call = "release" /\ ok)]
  /\ UNCHANGED <<prog, lib, open, handler, lost>>

\* gaym_client_close_session releases what the flag says is held.
CallReleaseHeld(p, row) ==
  /\ row.call = "releaseHeld"
  /\ IF held[p] THEN SendIoctl(p, "release") ELSE UNCHANGED sessionVars
  /\ Return(p, row, TRUE)
  /\ UNCHANGED <<prog, lib, open, held, handler, lost>>

Acquired(p, row) ==
  /\ Return(p, row, TRUE)
  /\ held' = [held EXCEPT ![p] = TRUE]
  /\ lost' = [lost EXCEPT ![p] = FALSE]
  /\ lib' = [lib EXCEPT ![p] = "idle"]

NotAcquired(p, row) ==
  /\ Return(p, row, FALSE)
  /\ lib' = [lib EXCEPT ![p] = "idle"]
  /\ UNCHANGED <<held, lost>>

\* The first ACQUIRE: a busy answer is retried.
CallAcquire(p, row) ==
  /\ row.call = "acquire"
  /\ SendIoctl(p, "acquire")
  /\ CASE Answer(p, "acquire") = "ok"   -> Acquired(p, row)
       [] Answer(p, "acquire") = "busy" -> /\ lib' = [lib EXCEPT ![p] = "retryOff"]
                                           /\ UNCHANGED <<at, failed, held, lost>>
       [] OTHER -> NotAcquired(p, row)
  /\ UNCHANGED <<prog, open, handler>>

\* OFF and RELEASE, whose answers are dropped.
RetryGiveUp(p, here, code, next) ==
  /\ lib[p] = here
  /\ SendIoctl(p, code)
  /\ lib' = [lib EXCEPT ![p] = next]
  /\ UNCHANGED <<prog, at, open, held, failed, handler, lost>>

\* The second and last ACQUIRE.
RetryAcquire(p, row) ==
  /\ row.call = "acquire" /\ lib[p] = "retryAcquire"
  /\ SendIoctl(p, "acquire")
  /\ IF Answer(p, "acquire") = "ok" THEN Acquired(p, row) ELSE NotAcquired(p, row)
  /\ UNCHANGED <<prog, open, handler>>

LibraryStep(p) ==
  \/ RetryGiveUp(p, "retryOff", "off", "retryRelease")
  \/ RetryGiveUp(p, "retryRelease", "release", "retryAcquire")

-----------------------------------------------------------------------------
(* Processes.                                                              *)

ProgramStep(p) ==
  /\ Running(p)
  /\ UNCHANGED linkVars
  /\ \/ LibraryStep(p)
     \/ \E row \in Program[prog[p]] :
          /\ row.at = at[p]
          /\ \/ /\ lib[p] = "idle"
                /\ \/ Call(p, row) \/ CallIoctl(p, row) \/ CallReleaseHeld(p, row)
                   \/ CallAcquire(p, row)
             \/ RetryAcquire(p, row)

\* CtrlHandler of MinimalTestFeeder runs on a thread of its own, while the
\* main thread goes on, from the registration after the open.
HandlerIoctl(p, here, code, next) ==
  /\ handler[p] = here
  /\ IF code = "none" THEN UNCHANGED sessionVars ELSE SendIoctl(p, code)
  /\ handler' = [handler EXCEPT ![p] = next]
  /\ UNCHANGED <<prog, at, lib, open, held, failed, lost>>

HandlerClose(p) ==
  /\ handler[p] = "close"
  /\ IF open[p] THEN FileCleanup(Device(p)) ELSE UNCHANGED sessionVars
  /\ open' = [open EXCEPT ![p] = FALSE]
  /\ handler' = [handler EXCEPT ![p] = "exit"]
  /\ UNCHANGED <<prog, at, lib, held, failed, lost>>

\* ExitProcess(0), wherever the main thread is.
HandlerExit(p) ==
  /\ handler[p] = "exit"
  /\ at' = [at EXCEPT ![p] = "end"]
  /\ lib' = [lib EXCEPT ![p] = "idle"]
  /\ failed' = [failed EXCEPT ![p] = FALSE]
  /\ UNCHANGED <<prog, open, held, handler, lost, sessionVars>>

CtrlHandler(p) ==
  /\ prog[p] = "TestFeeder" /\ Running(p) /\ at[p] # "start"
  /\ UNCHANGED linkVars
  /\ \/ HandlerIoctl(p, "off", "off", "release")
     \/ HandlerIoctl(p, "release", "release", "close")
     \/ HandlerClose(p)
     \/ HandlerExit(p)

CtrlEvent(p) ==
  /\ prog[p] = "TestFeeder" /\ Running(p) /\ at[p] # "start"
  /\ HandlerIoctl(p, "none", "none", "off")
  /\ UNCHANGED linkVars

Kill(p) ==
  /\ Running(p)
  /\ at' = [at EXCEPT ![p] = "killed"]
  /\ lib' = [lib EXCEPT ![p] = "idle"]
  /\ failed' = [failed EXCEPT ![p] = TRUE]
  /\ UNCHANGED <<prog, open, held, handler, lost, controlVars>>

\* The system closes the handles of a killed process.
CloseKilled(p) ==
  /\ at[p] = "killed"
  /\ at' = [at EXCEPT ![p] = "end"]
  /\ IF open[p] THEN FileCleanup(Device(p)) ELSE UNCHANGED sessionVars
  /\ open' = [open EXCEPT ![p] = FALSE]
  /\ UNCHANGED <<prog, lib, held, failed, handler, lost, linkVars>>

\* The process slot is used again.
Restart(p) ==
  /\ at[p] = "end"
  /\ \E g \in Repertoire[p] : prog' = [prog EXCEPT ![p] = g]
  /\ at' = [at EXCEPT ![p] = "start"]
  /\ held' = [held EXCEPT ![p] = FALSE]
  /\ failed' = [failed EXCEPT ![p] = FALSE]
  /\ handler' = [handler EXCEPT ![p] = "none"]
  /\ lost' = [lost EXCEPT ![p] = FALSE]
  /\ UNCHANGED <<lib, open, controlVars>>

\* A controller comes, goes, wakes up or falls asleep.
Power ==
  /\ \E c \in Controllers : PowerEvent(c)
  /\ lost' = [p \in Processes |->
                lost[p] \/ \E c \in Controllers :
                  WriterFileObject[c] = Device(p) /\ WriterFileObject'[c] # Device(p)]
  /\ UNCHANGED <<prog, at, lib, open, held, failed, handler>>

Next ==
  \/ \E p \in Processes :
       \/ ProgramStep(p) \/ CtrlEvent(p) \/ CtrlHandler(p)
       \/ Kill(p) \/ CloseKilled(p) \/ Restart(p)
  \/ Power

\* The loop a process is in may take one more turn.
MayStay(p) ==
  /\ lib[p] = "idle"
  /\ \E row \in Program[prog[p]] : row.at = at[p] /\
       at[p] \in IF row.call \notin ByHandle THEN row.ok \cup row.bad
                ELSE IF Answer(p, row.call) = "ok" THEN row.ok ELSE row.bad

\* A step of a program, owed (below) until it leaves its label; out of a loop
\* it is only owed when the loop ends by the clock.
Advance(p) ==
  /\ Running(p)
  /\ prog[p] \in Timed \/ ~MayStay(p)
  /\ ProgramStep(p)

\* Every process is scheduled and the waits of the timed programs end; the
\* system closes what a killed process leaves open.  Nobody has to restart a
\* program, press Ctrl+C or move a controller.
Fairness ==
  \A p \in Processes :
    /\ WF_<<at, lib>>(Advance(p))
    /\ WF_vars(CtrlHandler(p))
    /\ WF_vars(CloseKilled(p))

Spec == Init /\ [][Next]_vars /\ Fairness

-----------------------------------------------------------------------------
(* Properties.                                                             *)

Moves(p) == ~UNCHANGED <<at[p], lib[p], open[p], handler[p]>>

\* Where a program means the override to be on.
Driving == {"inject", "neutral", "drive", "count", "pad", "settle", "hid", "raw",
            "counters", "script", "keys", "off"}

\* The override of a controller is on only while the process that owns the
\* session has its handle open and is between the ON and the OFF of its own
\* program (a producer anywhere; GaYmCLI on has no OFF but its release), or
\* has been killed and is being cleaned up after: no path out of a program
\* and no busy retry leaves an override that nobody is driving.
DrivenByItsProgram ==
  \A c \in Controllers : OverrideEnabled[c] =>
    \E p \in Processes :
      /\ WriterFileObject[c] = Device(p) /\ open[p]
      /\ \/ prog[p] = "Producer" \/ at[p] \in Driving \cup {"killed"}
         \/ prog[p] = "on" /\ at[p] = "release"

\* A GaYmCLI on, off or test that exits with 0 held the session from its
\* ACQUIRE to its RELEASE: a power event in between that took it is always
\* seen by one of the calls that follow.
SuccessMeansHeld ==
  \A p \in Processes :
    (prog[p] \in {"on", "off", "test"} /\ at[p] = "end" /\ ~failed[p]) => ~lost[p]

\* What a client believes about its session is what the driver says, but for
\* the sessions a power event has taken: the busy retry and the two ways of
\* closing keep WRITER_HELD and WriterFileObject in step.
HeldFlagExact ==
  \A p \in Processes :
    (Running(p) /\ handler[p] = "none" /\ at[p] \notin {"reclose", "finish"})
    => (Owns(p) <=> held[p] /\ ~lost[p])

\* Nobody loses the session, or has the override switched off, through what
\* another process does: not through its busy retry, which sends OFF and
\* RELEASE on a session it does not hold, and not through its cleanup.
BusyRetryTakesNothing ==
  [][\A p \in Processes, c \in Controllers :
       (WriterFileObject[c] = Device(p) /\ ~UNCHANGED <<WriterFileObject[c], OverrideEnabled[c]>>)
       => /\ prog[p] = "Producer" \/ pnp' # pnp \/ Moves(p)
          /\ \A q \in Processes \ {p} : ~Moves(q)]_vars

\* Every controller, however many there are, keeps the promise of
\* WriterSession to whatever programs use it: the session changes hands only
\* through nobody, its owner alone switches the override and only in D0, and
\* what takes the session takes the override.
Session(controller) == INSTANCE WriterSession WITH
  Clients <- Handles, NoOwner <- NULL, owner <- WriterFileObject[controller],
  override <- OverrideEnabled[controller], down <- ~HasSupportedTarget(controller)

SessionPromise ==
  /\ \A c \in Controllers : Session(c)!Init
  /\ [][\A c \in Controllers :
          \/ Session(c)!Next
          \/ UNCHANGED <<WriterFileObject[c], OverrideEnabled[c], HasSupportedTarget(c)>>]_vars

\* A controller that a bounded tool has the session of becomes free again,
\* whatever fails on the way and even if the tool is killed.
SessionGivenBack ==
  \A c \in Controllers :
    (\E p \in Processes : WriterFileObject[c] = Device(p) /\ prog[p] \in Timed)
    ~> WriterFileObject[c] = NULL

\* The feeder notices that its session was taken and ends.
FeederStopsWhenRevoked ==
  \A p \in {q \in Processes : "Feeder" \in Repertoire[q]} :
    (prog[p] = "Feeder" /\ Running(p) /\ lost[p]) ~> ~Running(p)

\* When `off` has made its last request the override of a present controller
\* is off: "clear it with GaYmCLI.exe off 0" (docs/diagnostics.md:96).
OffClearsOverride ==
  [][\A p \in Processes :
       (prog[p] = "off" /\ at[p] # "close" /\ at'[p] = "close" /\ FilterContext # NULL)
       => ~OverrideEnabled'[FilterContext]]_vars

\* No controller stays in the hands of a closed handle: "writer ownership is
\* revoked on file cleanup" (docs/ARCHITECTURE.md:250-251).
ClosedHandleRevoked ==
  \A p \in Processes : at[p] = "end" => ~Owns(p)

=============================================================================
