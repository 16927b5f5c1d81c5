# A verification development for GaYmXboxFilter

The repository is a pair of Windows kernel filter drivers for one Xbox
controller (USB 045E:02FF), a client library and tools. The upper filter sits
above the controller's XInput stack. A client opens its control device
`\\.\GaYmXInputFilterCtl`, acquires the single *writer session*, turns the
*override* on and injects reports; while the override is on, applications that
query the controller's state are answered from the last injected report.

This directory holds TLA+ modules translated from the C sources, TLC
configurations that check them on small instances, and proofs that TLAPS
checks for every instance. `PROJECT.json` maps every definition to its lines.

    tlc -workers 2 -config MCUpperControl.cfg MCUpperControl
    tlc -workers 2 -config MCUpperRead.cfg MCUpperRead
    tlc -workers 2 -config MCUpperLive.cfg MCUpperLive
    tlc -workers 2 -config MCLowerDriver.cfg MCLowerDriver
    tlc -workers 2 -config MCClients.cfg MCClients
    tlc -workers 2 -config MCFeed.cfg MCFeed
    tlapm ClientProofs.tla

## 1. Inventory

| Component (source) | State | Operations | Talks to |
|---|---|---|---|
| Upper device context (`src/upper/device/device_core.c`, `src/upper/include/upper_device.h`) | attachment and power flags, writer session, injected / presented / observed report, pending-read queue and counters, one spin lock `StateLock` | initialise, reset the writer state | everything in the upper filter |
| Control device and writer session (`ioctl_dispatch.c`, `device_core.c`) | link from the control device to the device context, set when a controller is added and each time one enters D0 | open, IOCTL, cleanup | clients (IOCTLs on a parallel queue), read path (drain, purge), lower stack (observation) |
| Read path (`read_intercept.c`) | requests in flight, the pending-read queue | arrive, answer, park, drain, purge, completion | applications, framework queue, lower stack |
| Power and removal callbacks (`lifecycle.c`) | power flags | D0Entry, D0Exit, SurpriseRemoval | framework; session reset, purge, control-device link |
| Report translation (`report_translate.c`) | none | parse and build native reports | read path |
| Trace ring (`trace.c`) | a ring of entries, next index | reset, record | everything |
| Lower filter (`src/lower/device.c`) | collection of active reads and its lock | track, send, complete, cancel | HID stack; power callbacks |
| Lower identification (`src/lower/devices.c`) | none | read the hardware id, look the device up | lower filter |
| Client library (`src/client`) | session flags, handle | enumerate (probe), open, acquire with retry, override, inject, query | control device |
| Command line (`GaYmCLI.cpp`) | exit code | status, on, off, jitter, test | client library |
| Feeder and providers (`main.cpp`, `*Provider.cpp`, `MinimalTestFeeder.cpp`) | macro position, last datagram, last cursor position, step of the script | poll the source, inject | client library, Windows' input state, a socket, a file |
| Verifiers and monitor (`QuickVerify*.cpp`, `AutoVerify.cpp`, `XInputAutoVerify.cpp`, `XInputCheck.cpp`) | baseline, what was seen | inject, sample, judge | client library, XInput, a child process |

What is hard here is concurrency. The control queue and the default queue are
parallel, so handlers of different handles and requests run at the same time,
and against the power callbacks and surprise removal. `StateLock` protects
fields, not operations: several handlers take it twice (check, then act), and
the framework queue, the interlocked counters and the power flags are outside
it. The lower filter cancels from a snapshot while reads complete. Outside the
kernel several programs compete for one session that a power event may take
away under them, any of them may be killed, and one control device stands for
every controller that is attached. Section 3 lists per module which of this is
an interleaving of the model.
What makes each part correct:

- *Session*: one owner at a time; nobody but the owner changes it; the override
  never outlives it; a closed handle or a power-down gives it back.
- *Read path*: each request is completed once; none stays parked when nobody
  will come for it; the application sees injected or native state only in
  situations in which the override allows it.
- *Callbacks*: they return, although they purge synchronously.
- *Observation*: what is reported was observed.
- *Translation*: what the native format can express is read back as it was, by
  both filters alike.
- *Lower filter*: the list of active reads is exact, and cancelling passes over
  none of them.
- *Clients*: an override is always somebody's; what a client believes about its
  session is what the driver says, but for power events; a tool gives the
  session back on every path; a retry takes nothing from others.
- *Feeding*: what the source of input shows arrives on the application's side.
- *Verification*: a working system passes if it was looked at, and a pass comes
  from the injection.

`PROJECT.json` lists every component, modelled or not, and under `hazards`
every place where this goes wrong easily, with the properties that cover it.

## 2. Plan

1. **Upper filter core** (done): `UpperContext`, `UpperIoctl`, `UpperRead`,
   `UpperLifecycle`, composed by `UpperDriver`; the abstract specification
   `WriterSession`; history variables in `UpperReadHistory`; type, session and
   read-path proofs.
2. **Lower filter** (done): `LowerDriver`, with proofs for every number of
   requests and every snapshot size.
3. **Programs against the driver** (done): `ControlDevice`, a coarse driver with
   one step per request and several controllers behind one control device;
   `ClientPrograms`, every program as a table of calls; `Clients`, which runs
   them.
4. **From the source of input to the application** (done): `Reports`,
   `Providers`, `XInputPath`, `Verifiers`, composed by `Feed`, with proofs about
   the native report and about what the filters record.
5. **Proofs** (done): every safety property that a run checks, and both drivers
   against `WriterSession`; section 5.
6. Next: that the macro, once its last frame is due, goes on to repeat what a
   file says (`GetReport` over several rounds); that `XInputPath` keeps the
   promise of `WriterSession` too.
7. Not planned: section 6.

## 3. Modules

| Module | Models | Role |
|---|---|---|
| `UpperContext` | `UPPER_DEVICE_CONTEXT`, `UpperDeviceInitialize`, `UpperDeviceResetWriterState` | constants, variables, labels, type invariant, helpers |
| `UpperIoctl` | `UpperDeviceHandleIoctl`, `UpperStoreInjectedReport`, the observation query, open and cleanup of a handle | one action per lock region |
| `UpperRead` | `read_intercept.c`: arrival, answer, park, drain, purge, completion | one action per lock region, queue call or interlocked operation |
| `UpperLifecycle` | `lifecycle.c` | one action per store group, reset and purge |
| `UpperDriver` | their composition | `Init`, `Next`, `Spec`, `FairSpec`, properties |
| `UpperReadHistory` | `UpperDriver` with two history variables per request | what an application may be shown |
| `WriterSession` | the session as clients may rely on it | abstract specification |
| `LowerDriver` | `src/lower/device.c`: reads on their way, the list of active reads, the callbacks that cancel | one action per lock region or framework call |
| `ControlDevice` | the control device, the controllers behind it, and the driver's answer to a request | one step per request, cleanup or power callback |
| `ClientPrograms` | the programs of `src/tools/GaYmTestFeeder` as tables: call, next label when it succeeds, next label when it fails, whether the failure counts | no variables |
| `Clients` | the library's calls, the acquire retry, the console handler, kill and restart | runs the tables against `ControlDevice` |
| `Reports` | `GAYM_REPORT`, native report, XInput state, semantic buttons, percentages, hardware ids | operators |
| `Providers` | `KeyboardProvider`, `MouseProvider`, `NetworkProvider`, `MacroProvider`, `ConfigProvider`, the script and the keyboard mode of `MinimalTestFeeder` | how a source becomes the next report |
| `XInputPath` | one controller under both filters as programs see it: session, injected report, XInput's query, packet number, power, native reads | one step per request |
| `Verifiers` | `QuickVerify`, `XInputAutoVerify` with its child, `XInputCheck` | steps of the programs that watch XInput |
| `Feed` | their composition | `Init`, `Next`, fairness, properties |
| `MCUpperControl`, `MCUpperRead`, `MCUpperLive`, `MCLowerDriver`, `MCClients`, `MCFeed` | | TLC instances |
| `UpperTypeProofs`, `UpperSessionProofs`, `UpperReadProofs`, `LowerProofs`, `ReportProofs`, `FeedProofs`, `ClientProofs`, `QueueLemmas` | | proofs |

**Three grains.** `UpperDriver` is the driver step by step, for what happens
between the lock regions of a handler. `ControlDevice` and `XInputPath` are
the same driver with one step per request, for what happens between requests:
the first keeps who holds which session and drops the reports, the second
keeps the reports of one controller and one client and drops the handles.

**State of the upper filter.** Variables keep the names of the struct's fields. `pc[t]` is what
thread `t` does next: a handle's IOCTL thread, the power callbacks' thread
(`Power`) or the surprise-removal callback's (`Removal`). `rpc[r]` is the same
for an app-facing request. `ret[t]` is where a thread continues after the purge
routine, and `drained[f]` is the local `request` of
`UpperDeviceCompletePendingReads`. A step is what one holder of `StateLock`
does, one call into the framework's queue, or one interlocked operation. Where
the code drops the lock between a check and an act the model has two steps.

**State of the lower filter.** A request is the slot of memory its handle
points to, and a slot is used again after its completion. A snapshot holds
handles; when the request of one is completed the handle becomes `Dangling`,
and cancelling through it does nothing. `rpc[r]` is the next step of a
request, `pc[t]` of the two callback threads. `owed[t]` remembers the reads
below at the time of a whole snapshot.

**State of the clients.** `at[p]` is the label process `p` is at in the table
of `prog[p]`. A call is one step, except ACQUIRE, whose busy answer is followed
by OFF, RELEASE and a second ACQUIRE in steps of their own (`lib`). The probe
handles that the library opens and closes for enumeration and as a second path
are opened and closed within the call, and their cleanup runs (`FileCleanup`
of `Probe(p)`). `held` is the WRITER_HELD flag or the tool's own `writerHeld`,
`lost` a history variable: a power event took the session since ACQUIRE. What
a table abstracts is the verdict on what was observed: where a program decides
on what it sees of XInput or of a HID device the table allows both.

**State of the feed.** `provider` is the source in use, the world around it
the variables `keys`, `cursor`, `socket` and `clock`; `report` is what the
provider returned last. `query` is the one XInputGetState under way: parked in
the filter's queue, failed, or answered by the filter or by the stack below.
Opening a controller is a step of its own, `ProbeControl`: the handle the
library opens to look for it is closed at once, and its cleanup purges the
queue. `pc` is where the program is and `child` where `GaYmCLI test` is, which
XInputAutoVerify starts. `upperSeen` and `lowerSeen` are the reports that the
filters recorded of native reads. No code calls `UpperDeviceTranslateReport`
or the lower table's translators; they document the layout of the controller's
own reports, and the model uses `TranslateReport` for just that.

**Facts about Windows the model rests on.**

- `gaym_client` opens handles without `FILE_FLAG_OVERLAPPED`
  (`src/client/gaym_client_session.c`), so the I/O manager serialises requests
  of one file object, and cleanup comes when none is in flight. A handle that
  was opened overlapped would interleave with itself; such a client is not
  modelled.
- A filter's default queue is not power-managed, so app-facing requests arrive
  in any power state.
- The framework calls D0Entry and D0Exit alternately, and does not synchronise
  `EvtDeviceSurpriseRemoval` with them.
- `WdfIoQueuePurgeSynchronously` makes the queue refuse requests, cancels what
  it holds and waits for requests retrieved and not yet completed. The queue
  accepts again only after `WdfIoQueueStart`, which no code here calls. These
  steps (`PurgeQueue`, `PurgeReturn`) and the cancellation by the application
  (`CancelParkedRead`) are marked external.
- The system closes the handles of a process that ends or is killed, which
  runs the driver's cleanup (`CloseKilled`).
- A handle outlives its controller: the file object belongs to the control
  device, which is never deleted.
- XInput asks a controller with the output-only request of the exact size that
  the upper filter looks for. The source relies on it (`read_intercept.c`,
  the comment in `UpperRequestIsExactXInputStateRequest`) and does not show it.
- `WdfRequestCancelSentRequest` asks for a cancellation; the stack below then
  completes the request (`CancelSent`, external).
- XInput may keep the process that injects waiting for news of the pad. The
  documents report that `QuickVerify` failed on a stack that works, which they
  lay to injecting and polling in one process (`docs/diagnostics.md:42-55` and
  `93-94`, `README.md:87-90`). What does it is not in the repository. The model
  has the one effect that QuickVerify's own verdict names, a pad that is there
  and stands still: XInput may answer any sample with the baseline, and the
  filter is not asked (`AskUnrefreshed`, external). So a FAIL of QuickVerify
  says nothing of the stack, and `UndisturbedPasses` demands a pass of it only
  when it was shown what it injects; its PASS still needs the injection
  (`PassSawInjected`). A sample that fails, and an XInput that shows yet
  another state, are not modelled as causes.

**Abstractions.** A report is a model value. A buffer is usable or not, which
is a choice. `VendorId` and `ProductId` are folded into `IsAttached`.
`XInputPacketNumber` is a natural number: the 32-bit wrap would need 2^32
changes of the report within one session. The flags that D0Exit and removal
store without the lock are stored in one step; comments in `UpperLifecycle` say
why no handler can tell. A native answer is recorded or too short to parse, by
choice. `UpperDriver` leaves out the statistics counters, the trace ring, the
jitter configuration (which nothing reads), QUERY_DEVICE (which only fills a
reply) and requests that are forwarded and forgotten. `LowerDriver` leaves out
`IsInD0`, the device descriptor and the request counters, which the driver
writes and never reads. `ControlDevice` takes every controller to be the
supported one, as the INF file matches no other hardware. In `XInputPath` a
controller that is unplugged and attached again is in D3 until it enters D0,
and what it links again is its own context. XInputAutoVerify waits for its
child until that ends; the ten seconds after which the program gives up are
left out. In `Reports` a set of
XInput or semantic buttons is a set, not the number it is written as. Waits and
printing are left out of every program; a loop that ends by the clock may end
after any number of turns.

**The abstract specification.** `WriterSession` has an owner, an override and
the fact that the controller is powered down. A client may acquire only a free
session, only the owner switches the override on and not while powered down,
and a revocation takes both. `UpperDriver` implements it with
`owner <- WriterFileObject`, `override <- OverrideEnabled` and
`down <- PoweredDown`, where `PoweredDown` is out-of-D0 with no callback still
on its way to its reset. So does every controller of `ControlDevice`
(`Session(controller)` in `Clients`), with its own entries of
`WriterFileObject` and `OverrideEnabled` and with `down` as out-of-D0: the two
grains of the driver keep one promise. The promise says nothing of a closed
handle, which is where they differ when there are several controllers
(`two_controllers`).

## 4. Runs

| Run | Instance | States | Shows |
|---|---|---|---|
| `upper_control` | 2 handles, all codes, 1 native HID read, removal | 3,650,737 (up to symmetry) | `SessionConsistent`, `NoOverrideOutsideD0`, `ClosedHandleOwnsNothing`, `OthersKeepOut`, and that the driver implements `WriterSession` (`SessionPromise`) |
| `upper_read` | 1 handle, 2 requests of either kind, 2 reports | 2,854,000 (up to symmetry) | `TypeOK`, `EachRequestOneOwner`, `NoStrandedRead`, `InjectedOnlyUnderOverride`, `NativeOnlyWithoutOverride` |
| `upper_live` | 1 handle, 1 request, removal, `FairSpec`, no symmetry | 259,999 | `HandlersReturn`, `ParkedReadReleased`, `ParkedReadServed` |
| `lower_reads` | 2 request slots, both callback threads, snapshots of 2, `FairSpec` | 102,800 | `TypeOK`, `ActiveReadsTracked`, `CancelReachesReadsBelow`, `CancelledReadsAnswered` |
| `clients` | 2 processes, 12 programs, 1 controller, with fairness | 81,179 | `TypeOK`, `DrivenByItsProgram`, `SuccessMeansHeld`, `HeldFlagExact`, `BusyRetryTakesNothing`, that the controller implements `WriterSession` (`SessionPromise`), `SessionGivenBack`, `FeederStopsWhenRevoked` |
| `feed` | 1 controller, 7 sources, 2 verifiers, native reads, with fairness | 261,616 | `TypeOK`, `UndisturbedPasses`, `PassSawInjected`, `NobodyWaits`, `FeedReachesPad`, `MacroFollowsClock`, `ObservationFaithful`, `FiltersAgree`, `VerifierEnds` |
| `two_controllers` | 2 controllers, `test` and `status` | violation | `ClosedHandleRevoked` |
| `off_recovery` | a feeder and `off` | violation | `OffClearsOverride` |
| `upper_revoke` | 1 handle | violation | `RevokedOnD0Exit` |
| `upper_inject` | 1 handle | violation | `InjectNeedsOwnership` |
| `upper_observation` | 1 handle | violation | `ObservationIsReal` |
| `upper_pending` | 1 handle, 1 request | violation | `PendingCountNotNegative` |

**Bounds.** Two handles are enough for the session: all fields that tell
handles apart are equal-or-not to one owner, so a third handle would play the
role of one of the two; the proofs remove the bound. Two requests let one be
parked while another is retrieved, arrives or is completed below. Two reports
tell a repeated report from a changed one. `MaxPacket` stops new INJECTs once
the packet number reaches it: two is one change of the report shown. An
instance may pass it by the snapshots already under way. `MaxPending` stops new
reads while the counter of parked reads is outside `-MaxPending .. MaxPending`;
cancellation never decrements it, so it would drift without limit. The control
run has no state query because the session never looks at one; the read run
has no removal because what removal does to a read is what D0Exit does to it,
and the live run has both. TLC does not split the steps of the read run, whose
specification adds the history variables, so the native HID read is in the
control run as well, where its coverage shows.

*Lower filter*: two slots let one read come, go and come again in the slot of a
handle that a walk still holds, while another is below. The snapshot has room
for both, so that no run sees a list longer than the array of 32: what is left
out of a snapshot is nobody's promise, and `CancelReachesReadsBelow` speaks of
whole snapshots. The proof has neither bound.

*Clients*: two processes, since a session has an owner and the others; one of
them runs every program that comes to an end by itself, the monitor and
`MinimalTestFeeder`, the other one the feeder and a producer that calls the
library as it likes, so that every other program meets both. A third process
would be another loser of an ACQUIRE, or of what two bounded tools do to each
other; the proofs have any number, each with any program. A process that has ended may start
another program, as often as it likes; nothing is counted, so the run has no
bound on steps, kills or power events. The controllers are one, because two
break `ClosedHandleRevoked`, which the run about two shows.

*Feed*: `MaxInputs` = 2 acts of the world on a source: a key goes down and
another one or itself up, a stray datagram before or after a good one, a jerk
of the cursor and another. `MaxQueue` = 2 datagrams wait in the socket.
`ClockMod` = 5 stands for the wrap of the tick count at 2^32, and `MaxAge` = 4
ticks are followed of a macro whose last frame is due at 3 or 4, so that
every start of the clock meets a wrap somewhere. `MaxTouches` = 1 changes the
controller once. `MaxPower` = 2 takes its power twice: a query is parked only
after one replug, and is then stranded only by another loss. `MaxSent` = 1 counts
ReportsSent to "some", since only more-than-before is asked; `PacketMod` = 3
makes packet numbers wrap. `Shapes` has the extremes of every field, both
triggers, and bits the native form drops. `HardwareIds` has the controller's,
another vendor's and a malformed one; only in the native reads' use of the
machine is the controller not the supported one, as no program acquires a
session then. The script's feeder runs without the monitor, and the controller
is not touched beside a feeder: neither changes what the other is shown, and
the products are large.

**Fairness.** `FairSpec` of the upper filter is weak fairness of each handle's own steps
(`FileStep`), each app request's own steps (`RequestStep`) and each callback
(`CallbackStep`): threads of the kernel that are ready run. A client owes no
IOCTL, an application no request, the framework no power transition, and the
controller below no answer, neither to a forwarded request (`LowerStep`) nor to
the synchronous read of an observation query (`LowerRead`); the live run
therefore sends no observation query, whose return depends on the controller.

`FairSpec` of the lower filter is weak fairness of the kernel's threads, as
above, and of the completion of a read that was cancelled: the stack below
must honour a cancellation; it owes no other answer.

In `Clients` every process is scheduled (`Advance`), a console handler that
has begun goes on, and the system closes what a killed process leaves open.
`Advance` is only owed where the step leaves a label: the loops of the tools
in `Timed` end by the clock or after a counted number of turns, so they are
left some time, but a feeder's or a producer's loop is left only when the
driver refuses it. Nobody has to restart a program, press Ctrl+C, kill or move
a controller. In `Feed` the program, the child, the monitor and time (`Expire`
ends the wait under way, `Tick` advances the clock) go on; users, the network,
power and Ctrl+C do as they like.

Deadlock is checked except in the client and feed runs: programs end.

**Disagreements found** (the six violation runs; `findings` has the quotes):

- The documents say ownership is revoked on D0 exit; an ACQUIRE between its
  target check and its lock region takes the session after the revocation.
- They say an INJECT without ownership fails; an INJECT already authorised
  stores its report after a revocation. The next session finds the report.
- They say observation fails rather than synthesize; a short native report or
  a D0 exit in between makes it succeed without one.
- The drain's guard keeps the count of parked reads from going below zero; the
  refusal of a read by a purged queue does not, and clients read the count as
  unsigned.

- The documents say ownership is revoked on file cleanup; with two controllers
  the cleanup goes to the one the control device is linked to, which is the one
  that was added or entered D0 last, and the session of the other stays with a
  closed handle.
- They say a stale override is cleared with `GaYmCLI off`; the override is on
  only while some process holds the session, and then `off` is refused. What
  helps is the second half of the advice, ending that process.

`ParkedReadServed`, which holds, is about the reads that are parked when a drain
starts, and its instance has one request: a read that saw no report and is
parked after the drain of the first one waits for the next report, which no
document forbids (`hazards`, `read_intercept.c:687`).

More facts show in the models and contradict no document. The pending queue
stays closed after the first reset, also of a handle that owned nothing, and
every program that opens a controller opens and closes such a handle first. So
on a controller that was never away nothing is ever parked: a state query under
an override without a report is refused (`NobodyWaits`). And OFF keeps the injected
report, so the next ON of the session shows it at once. `GaYmCLI on` releases
its session on the way out and so ends the override it has reported.
`XInputAutoVerify` reports a missing pad when it asks for its baseline between
the ON of its child and the first report. A plain read (`IRP_MJ_READ`) is recorded by the lower filter and not
by the upper one.

## 5. Proofs

Each theorem is about the specification of its component, for every value of
the constants that the named assumptions allow:

- Upper filter (`Spec` of `UpperDriver`, and `HSpec` of `UpperReadHistory`): any
  handles, requests and reports, under `ThreadsDistinct` (a callback's thread is
  no handle's), `NullsDistinct` (NULL is no handle, request or report) and
  `InstanceAssumption` (codes and kinds are those of the code; bounds are
  natural numbers).
- Lower filter: any number of requests and any size of a snapshot, under
  `LowerAssumption`.
- Programs: any number of processes, each with any repertoire of programs,
  under `ClientsAssumption` and `ControlAssumption` (each process has two
  handles, and NULL is none). Where a theorem says `OneController`, with one
  controller, else with any number.
- Feed: any controller, hardware ids, keys, datagrams and uses, under
  `FeedAssumption` (the sources and tools are among those the code has),
  `ProvidersAssumption` (mouse moves are pairs of integers, datagrams are reports
  or stray, bounds are natural numbers, and a macro is followed for less than one
  turn of the clock), `MacroAssumption` (a macro file's rows hold numbers) and
  `PathAssumption` (the controller shows reports, packet numbers have at least
  two values, and at least one sent report is counted).

| Theorem | States | Inductive invariant |
|---|---|---|
| `TypeCorrect` | `TypeOK` | `TypeInv` = `TypeOK` and `ReturnOK` |
| `SessionIsConsistent`, `OverrideOffOutsideD0`, `ClosingGivesBack` | the three session invariants | `SessionInv` |
| `SessionExclusive` | `OthersKeepOut` | from `SessionInv`, step by step |
| `DriverImplementsSession` | `SessionPromise` | from `SessionInv`: each step is a `WriterSession` step or a stutter |
| `NothingStranded` | `NoStrandedRead` | `ParkedInv` |
| `OneOwner` | `EachRequestOneOwner` | `OwnerInv` |
| `InjectedStateNeedsOverride`, `NativeStateNeedsNoOverride` | `InjectedOnlyUnderOverride`, `NativeOnlyWithoutOverride` | `HistoryInv`, given `OwnerInv` |
| `LowerTypeCorrect`, `ActiveListExact` | `TypeOK`, `ActiveReadsTracked` of the lower filter | `TrackedInv`, the two together |
| `CancelPassesNoneOver` | `CancelReachesReadsBelow` | `OwedInv`, given `TrackedInv` |
| `NativeRoundTrip` | parsing undoes building, for every `Plain` report | none: arithmetic of each field |
| `ClientsTypeCorrect` | `TypeOK` of the programs | `ClientTypeInv` = `TypeOK` and `HandleInv` |
| `BusyRetryHarmless` | `BusyRetryTakesNothing` | from `ClientTypeInv`, step by step |
| `ControllersImplementSession` | `SessionPromise` of the programs | `OverrideOwned`, given `ClientTypeInv` |
| `HeldFlagTellsTheTruth`, `OverrideIsDriven`, `ExitCodeTellsTheTruth` (with `OneController`) | `HeldFlagExact`, `DrivenByItsProgram`, `SuccessMeansHeld` | `SessionInv` = `LinkInv` and `ProcessInv` of each process |
| `FeedTypeCorrect` | `TypeOK` of the feed | itself |
| `NobodyEverWaits` | `NobodyWaits` | `QueueInv` |
| `VerdictsAreGrounded` | `VerdictInv`, for the next two | `QueueInv`, `UseInv`, `QuickInv`, `QuickSeenInv`, `ObserverInv`, `SawInv`, `RestInv` |
| `PassMeansInjected`, `UndisturbedVerifiersPass` | `PassSawInjected`, `UndisturbedPasses` | `VerdictInv` |
| `MacroDoesFollowClock` | `MacroFollowsClock` | `MacroInv` |
| `ObservationIsFaithful`, `FiltersDoAgree` | `ObservationFaithful`, `FiltersAgree` | `TypeOK`: the controller shows a report |

- `ReturnOK` says a thread in the purge routine returns to a label of its own.
  Without it a return could move a handle to a callback's label.
- `SessionInv` adds `DownInv` and `ClosingInv`. The override being off after a
  power-down is not inductive: a handle past its ON check could switch it on.
  `DownInv` says such a handle does not own the session any more. That is the
  argument for the code's check-then-act in ON: the reset comes after the
  power flag is cleared, and to own the session again the handle has to finish
  its ON and acquire. Likewise a closed handle owns nothing only because a
  handle whose cleanup is waiting in the purge no longer does (`ClosingInv`),
  and because the link is there as long as the controller is.
- `ParkedInv` covers the request that saw the override on and is not parked
  yet: when the override has gone and no purge is under way, the queue is
  closed already or there is no such request. This is why closing the queue,
  and not only emptying it, is what keeps a late read from being stranded.
- `OwnerInv` ties `drained[f]` to the steps between retrieval and completion.
  Three lemmas say what taking the head, removing an element and appending do
  to the elements of a sequence without repetition.
- `HistoryInv` says that a request at a label which only the override leads to
  had the override on at some time since it arrived. A request reaches the
  injected state from two places: its own handler, and the thread that drains
  the queue. For the second the history of the request has to follow it through
  the queue into `drained[f]`, which is what `OwnerInv` is for. It also says
  that only a HID report is recorded, so that a state query shown natively was
  looked at (`LowerCompletes`) in the same step.
- `TrackedInv` needs both halves: that the list has no read twice is kept by
  appending only because an untracked read is not on it. Removing one read by
  position keeps the others, each once (`RemoveTrackedElements`, from the
  general facts in `QueueLemmas`).
- `OwedInv` adds that a read a callback owes is still below. A slot is freed
  only when its read is not, so the handle that turns into `Dangling` then is
  never the one of an owed read, and a reused slot is never taken for the read
  that had it before.
- `NativeRoundTrip` goes field by field. The sticks are a shift that never
  clamps; the triggers share an axis whose lower half is the left one, which
  needs that one of them is zero; the hat is a shift around the neutral value.
  `FiltersRecordTheSame` adds that the filters differ at -32768 alone.
- `FiltersDoAgree` needs that the first and the last occurrence of a tag are
  the same, which is what `WellFormed` says of an id.

- The programs are tables, and what a proof needs of them are a few facts that
  hold of every row (`RowFacts`): where a call may open a handle, that no exit
  leads to the end with it open, that only OFF leads out of the labels of
  `Driving`, and that GaYmCLI closes after a failure that counts or after its
  RELEASE. One lemma per program checks its rows; no later step looks into a
  table again.
- `HandleInv` says where a handle cannot be open yet; without it a second open
  could hide the first one. `BusyRetryHarmless` needs no session invariant: a
  request touches a session only of its own handle or of nobody's
  (`TouchedBy`), and the OFF and RELEASE of the retry come through a handle
  that is not the owner's.
- `SessionInv` relates each process's flag, label and handle to the driver. It
  is inductive because with one controller the link is to the controller in
  D0, so that a request and a cleanup reach the session they mean. With two,
  the DeviceAdd of the second moves the link, and so does each D0Entry of
  either: the theorems that name `OneController` are
  then false, as the run `two_controllers` shows of what they rest on.
  `ExitCodeTellsTheTruth` needs that a lost session is a counted failure by the
  time GaYmCLI closes (`LossIsSeen`): its own RELEASE is refused.
- `ControllersImplementSession` holds with any number of controllers: a request
  is a step for the linked one and a stutter for the others. `OverrideOwned` is
  needed for OFF, which anyone may send while nobody has the session.
- `FeedTypeCorrect` carries more than types: the session is only held of a
  controller that is there, the override only under a session, and a query is
  parked only under an override without a report. That every source yields
  reports rests on arithmetic: clamped sticks, bytes from sums of bits, signed
  16-bit values. Reading a macro file uses the recursive operators of
  `SequencesExt`, of which nothing can be proved; `MacroAssumption` says what
  comes out of them, sequences of numbers, and TLC evaluates it.
- `NobodyEverWaits` rests on `QueueInv`: while the controller has not been away
  since, whoever holds the session has probed it first, and the cleanup of the
  probing handle purged the queue for good; only another power cycle starts it
  again.
- `VerdictInv` follows each verifier. `QuickInv` and `ObserverInv` say at each
  label who holds the session, what the query under way is and what was sent by
  then; `QuickSeenInv` that QuickVerify's answer from the filter is the report
  it injects, and that it passes if it took one; `SawInv` that a sample that
  differs from the baseline came from the filter as long as nobody touched the
  controller; `RestInv` that everything the stack below shows then, QuickVerify's
  baseline and an answer that was not refreshed included, is one state without
  a sign of injection. `UseInv` says that what a run is used for does not
  change.
- `MacroInv` relates the clock to the macro's age: the clock is the start plus
  the age, or that less the modulus, so the unsigned difference the code takes
  is the age either way (`ElapsedIsAge`). All frames up to the current one are
  due, and the next one is not when the provider has had its turn (`MacroTurn`).

**Only model-checked.** The liveness properties: `HandlersReturn`,
`ParkedReadReleased` and `ParkedReadServed` of the upper filter,
`CancelledReadsAnswered` of the lower one, `SessionGivenBack` and
`FeederStopsWhenRevoked` of the programs, `FeedReachesPad` and `VerifierEnds` of
the feed. They rest on fairness and `ENABLED`, which are out of the prover's
reach. Every other property of a passing run is a theorem. The properties of
the six violation runs are false.

## 6. Not modelled

- *AutoVerify's and QuickVerifyHid's verdicts*: as clients both are modelled.
  What AutoVerify concludes rests on five steps of sampling like QuickVerify's
  and on which of four pads XInput lists first, what QuickVerifyHid concludes
  on the HID stack's own path to user mode; neither is in the repository. By
  reading only: AutoVerify records the mode it fell back to with the verdict of
  the XInput stage, so that two of the pass labels of
  `docs/diagnostics.md:31-34` and `84-90` cannot occur (`hazards`,
  `AutoVerify.cpp:719`).
- *Orderly removal*, which has no callback in the upper filter, and the life of
  the device context after it: a question about the framework's objects. The
  second read of the control device's link
  (`device_core.c:172`) for the same reason.
- *Reply buffers* of the queries, which are shared and written outside the lock,
  and the stored jitter configuration, which nothing reads.
- *The trace ring*, which nothing in the driver reads.
- *The translators of the lower filter's table*, which no code calls.
- *Config.cpp*, option parsing, `HidDump` and `HidLayout`, the diagnostic
  snapshot of the client library: they read and print.
- *Driver entry, INF files, install and signing scripts*: no protocol.
- *`archive/`*: superseded copies that no build uses.
