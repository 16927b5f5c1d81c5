--------------------------- MODULE ControlDevice ---------------------------
(***************************************************************************)
(* The one control device of the upper filter and the controllers behind   *)
(* it.  Every request of every client goes to the controller that          *)
(* FilterContext names when it is dispatched: the one that was added or    *)
(* entered D0 last, until any controller is unplugged.                     *)
(*                                                                         *)
(* One request, one cleanup and one power callback are one step each; what *)
(* happens between the lock regions of one is the subject of UpperDriver.  *)
(* Every controller is the supported one, as the INF file matches no other *)
(* hardware, so that it has a supported target exactly when it is in D0.   *)
(* WriterSessionHeld is WriterFileObject # NULL (SessionConsistent of      *)
(* UpperDriver).                                                           *)
(***************************************************************************)

CONSTANTS
  Controllers,   \* devices the filter attaches to
  Handles,       \* file objects of the control device
  NULL

ASSUME ControlAssumption == NULL \notin Controllers \cup Handles

VARIABLES
  pnp,                \* what the framework did last with a controller
  controlDevice,      \* g_UpperControlDevice exists
  FilterContext,      \* the controller the control device is linked to
  WriterFileObject,   \* per controller
  OverrideEnabled     \* per controller

sessionVars == <<WriterFileObject, OverrideEnabled>>
linkVars    == <<pnp, controlDevice, FilterContext>>
controlVars == <<sessionVars, linkVars>>

ControlTypeOK ==
  /\ pnp \in [Controllers -> {"absent", "D3", "D0"}]
  /\ controlDevice \in BOOLEAN
  /\ FilterContext \in Controllers \cup {NULL}
  /\ WriterFileObject \in [Controllers -> Handles \cup {NULL}]
  /\ OverrideEnabled \in [Controllers -> BOOLEAN]

ControlInit ==
  /\ pnp = [c \in Controllers |-> "absent"]
  /\ controlDevice = FALSE
  /\ FilterContext = NULL
  /\ WriterFileObject = [c \in Controllers |-> NULL]
  /\ OverrideEnabled = [c \in Controllers |-> FALSE]

-----------------------------------------------------------------------------
(* The controllers.                                                        *)

\* UpperDeviceResetWriterState(context, NULL).
ResetWriterState(c) ==
  /\ WriterFileObject' = [WriterFileObject EXCEPT ![c] = NULL]
  /\ OverrideEnabled' = [OverrideEnabled EXCEPT ![c] = FALSE]

\* UpperDeviceCreateControlDevice: the first call creates the control device,
\* each later one links it anew.
CreateControlDevice(c) == controlDevice' = TRUE /\ FilterContext' = c

\* A controller links the control device to itself before it is powered up ...
DeviceAdd(c) ==
  /\ pnp[c] = "absent"
  /\ pnp' = [pnp EXCEPT ![c] = "D3"]
  /\ CreateControlDevice(c)
  /\ UNCHANGED sessionVars

\* ... and again whenever it is.
D0Entry(c) ==
  /\ pnp[c] = "D3"
  /\ pnp' = [pnp EXCEPT ![c] = "D0"]
  /\ CreateControlDevice(c)
  /\ UNCHANGED sessionVars

\* Mutant of D0Exit: it powers down and leaves the session to its owner.
D0ExitWithoutReset(c) ==
  /\ pnp[c] = "D0"
  /\ pnp' = [pnp EXCEPT ![c] = "D3"]
  /\ UNCHANGED <<controlDevice, FilterContext, sessionVars>>

D0Exit(c) ==
  /\ pnp[c] = "D0"
  /\ pnp' = [pnp EXCEPT ![c] = "D3"]
  /\ ResetWriterState(c)
  /\ UNCHANGED <<controlDevice, FilterContext>>

\* Removal unlinks the control device, whichever controller it is linked to.
SurpriseRemoval(c) ==
  /\ pnp[c] # "absent"
  /\ pnp' = [pnp EXCEPT ![c] = "absent"]
  /\ ResetWriterState(c)
  /\ FilterContext' = NULL
  /\ UNCHANGED controlDevice

PowerEvent(c) == DeviceAdd(c) \/ D0Entry(c) \/ D0Exit(c) \/ SurpriseRemoval(c)

-----------------------------------------------------------------------------
(* Requests.                                                               *)

HasSupportedTarget(c) == pnp[c] = "D0"

Holds(c, h)       == WriterFileObject[c] = h
HeldByOther(c, h) == WriterFileObject[c] \notin {NULL, h}

NeedTarget  == {"acquire", "on", "inject"}
NeedSession == {"release", "on", "inject"}

\* Mutant of Status: ACQUIRE takes the session from whoever holds it.
StatusStealing(code, h) ==
  LET c == FilterContext IN
  IF c = NULL \/ (code \in NeedTarget /\ ~HasSupportedTarget(c)) THEN "not_ready"
  ELSE IF \/ code \in NeedSession /\ ~Holds(c, h)
          \/ code = "off" /\ HeldByOther(c, h)
          \/ code = "inject" /\ ~OverrideEnabled[c] THEN "denied"
  ELSE "ok"

\* Mutant of Status: RELEASE succeeds whether or not the handle holds the
\* session.
StatusLenientRelease(code, h) ==
  LET c == FilterContext IN
  IF c = NULL \/ (code \in NeedTarget /\ ~HasSupportedTarget(c)) THEN "not_ready"
  ELSE IF code = "acquire" /\ HeldByOther(c, h) THEN "busy"
  ELSE IF \/ code \in NeedSession \ {"release"} /\ ~Holds(c, h)
          \/ code = "off" /\ HeldByOther(c, h)
          \/ code = "inject" /\ ~OverrideEnabled[c] THEN "denied"
  ELSE "ok"

\* How UpperEvtCtlIoDeviceControl and UpperDeviceHandleIoctl answer: the
\* client library only tells busy from the other failures.
Status(code, h) ==
  LET c == FilterContext IN
  IF c = NULL \/ (code \in NeedTarget /\ ~HasSupportedTarget(c)) THEN "not_ready"
  ELSE IF code = "acquire" /\ HeldByOther(c, h) THEN "busy"
  ELSE IF \/ code \in NeedSession /\ ~Holds(c, h)
          \/ code = "off" /\ HeldByOther(c, h)
          \/ code = "inject" /\ ~OverrideEnabled[c] THEN "denied"
  ELSE "ok"

HandleIoctl(code, h) ==
  LET c == FilterContext IN
  IF Status(code, h) # "ok" THEN UNCHANGED sessionVars
  ELSE
    /\ WriterFileObject' =
         CASE code = "acquire" -> [WriterFileObject EXCEPT ![c] = h]
           [] code = "release" -> [WriterFileObject EXCEPT ![c] = NULL]
           [] OTHER -> WriterFileObject
    /\ OverrideEnabled' =
         CASE code = "on" -> [OverrideEnabled EXCEPT ![c] = TRUE]
           [] code \in {"off", "release"} -> [OverrideEnabled EXCEPT ![c] = FALSE]
           [] OTHER -> OverrideEnabled

\* Mutant of FileCleanup: a closed handle keeps its session.
FileCleanupForgotten(h) == UNCHANGED sessionVars

FileCleanup(h) ==
  LET c == FilterContext IN
  IF c # NULL /\ Holds(c, h) THEN ResetWriterState(c) ELSE UNCHANGED sessionVars

=============================================================================
