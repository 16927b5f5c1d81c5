----------------------------- MODULE Providers ------------------------------
(***************************************************************************)
(* The input providers of GaYmFeeder and the two modes of                  *)
(* MinimalTestFeeder: how a source of input becomes the next report.  A    *)
(* provider is asked once per turn of its program's loop.                  *)
(*                                                                         *)
(* Key state, the cursor, the datagram socket, the clock and the macro     *)
(* file are the world outside; it acts at most MaxInputs times, and its    *)
(* clock counts modulo ClockMod where GetTickCount counts modulo 2^32.     *)
(***************************************************************************)
EXTENDS Reports, FiniteSetsExt, SequencesExt

CONSTANTS
  Keys,         \* the keys and mouse buttons that may be down
  Moves,        \* cursor movements, <<dx, dy>> in pixels
  Datagrams,    \* well-formed datagrams: reports
  MacroFiles,   \* CSV files, with the loop flag of the configuration
  Stray,        \* a datagram of any other size
  MaxInputs, MaxQueue, ClockMod, MaxAge

ASSUME ProvidersAssumption ==
  /\ Moves \subseteq Int \X Int
  /\ Datagrams \subseteq Report
  /\ Stray \notin Datagrams
  /\ {MaxInputs, MaxQueue, MaxAge} \subseteq Nat
  /\ ClockMod \in Nat /\ ClockMod > MaxAge

VARIABLES
  provider,   \* the source in use, or "none"
  report,     \* the report the provider was asked for last
  keys,       \* keys that are down
  cursor, lastPos,
  socket,     \* datagrams the system has queued
  lastReport, \* of NetworkProvider
  clock,
  player,     \* of MacroProvider
  step,       \* of RunScripted
  inputs,     \* how often the world has acted
  newest,     \* history: the last well-formed datagram that was queued
  age         \* history: ticks since the macro began, or began again

inputVars == <<keys, cursor, socket, clock, inputs, newest>>
sourceVars == <<provider, report, lastPos, lastReport, player, step, age, inputVars>>

Frames == Seq([timestampMs : 0..ClockMod - 1, report : Report])

Players == [frames : Frames, loop : BOOLEAN, startTick : 0..ClockMod - 1,
            currentIdx : Nat, finished : BOOLEAN]

Sources == {"keyboard", "testkeys", "mouse", "network", "macro", "config", "script"}

SourceTypeOK ==
  /\ provider \in Sources \cup {"none"}
  /\ {report, lastReport, newest} \subseteq Report
  /\ {cursor, lastPos} \subseteq Int \X Int
  /\ socket \in Seq(Report \cup {Stray}) /\ Len(socket) <= MaxQueue
  /\ player \in Players /\ player.currentIdx <= Len(player.frames)
  /\ provider = "macro" => player.frames # <<>>
  /\ clock \in 0..ClockMod - 1 /\ age \in 0..MaxAge
  /\ step \in Nat \ {0} /\ inputs \in 0..MaxInputs

-----------------------------------------------------------------------------
(* Keys.                                                                   *)

\* Of two opposite keys the one read last wins.
Axis(minus, plus) ==
  IF plus \in keys THEN AxisMax ELSE IF minus \in keys THEN -AxisMax ELSE 0

SevenTenths(v) == IF v < 0 THEN -((-v * 7) \div 10) ELSE (v * 7) \div 10

\* Both axes of a stick pushed: seven tenths of each.
Diagonal(x, y) == IF x # 0 /\ y # 0 THEN SevenTenths(x) ELSE x

LeftStick(r) ==
  LET x == Axis("A", "D")
      y == Axis("W", "S")
  IN [r EXCEPT !.lx = Diagonal(x, y), !.ly = Diagonal(y, x)]

Full(k) == IF k \in keys THEN 255 ELSE 0

\* The bit of a button whose keys are down; the byte is their sum.
Bit(mask, binding, b) ==
  IF b \in DOMAIN binding /\ binding[b] \cap keys # {} THEN mask[b] ELSE 0

Bits0(binding) ==
  LET bit(b) == Bit(Mask0, binding, b)
  IN bit("A") + bit("B") + bit("X") + bit("Y") +
     bit("LB") + bit("RB") + bit("BACK") + bit("START")

Bits1(binding) ==
  LET bit(b) == Bit(Mask1, binding, b) IN bit("LSTICK") + bit("RSTICK") + bit("GUIDE")

\* The first pair of directions found down, else the first direction.
DPadKeys ==
  CASE {"1", "4"} \subseteq keys -> 1
    [] {"1", "3"} \subseteq keys -> 7
    [] {"2", "4"} \subseteq keys -> 3
    [] {"2", "3"} \subseteq keys -> 5
    [] "1" \in keys -> 0
    [] "2" \in keys -> 4
    [] "3" \in keys -> 6
    [] "4" \in keys -> 2
    [] OTHER -> DPadNeutral

KeyboardReport ==
  LET x == Axis("LEFT", "RIGHT")
      y == Axis("UP", "DOWN")
  IN [LeftStick(Neutral) EXCEPT
        !.rx = Diagonal(x, y), !.ry = Diagonal(y, x),
        !.b0 = Bits0([A |-> {"SPACE"}, B |-> {"RETURN"}, X |-> {"E"}, Y |-> {"Q"},
                      LB |-> {"LSHIFT", "RSHIFT"}, RB |-> {"LCONTROL", "RCONTROL"},
                      BACK |-> {"TAB"}, START |-> {"ESCAPE"}]),
        !.b1 = Bits1([LSTICK |-> {"F"}, RSTICK |-> {"G"}, GUIDE |-> {"HOME"}]),
        !.lt = Full("Z"), !.rt = Full("C"),
        !.dpad = DPadKeys]

\* Mutant of ClampAxis: nothing is clamped.
AnyAxis(v) == v

ClampAxis(v) == AtMost(AtLeast(v, -AxisMax), AxisMax)

\* Moving the cursor (by what, since the last poll) deflects the right stick.
MouseReport(delta) ==
  [LeftStick(Neutral) EXCEPT
     !.rx = ClampAxis(delta[1] * 150), !.ry = ClampAxis(delta[2] * 150),
     !.rt = Full("LBUTTON"), !.lt = Full("RBUTTON"),
     !.b0 = Bits0([A |-> {"MBUTTON"}, B |-> {"XBUTTON1"}, Y |-> {"XBUTTON2"},
                   LB |-> {"LSHIFT"}, RB |-> {"LCONTROL"},
                   BACK |-> {"TAB"}, START |-> {"ESCAPE"}])]

\* RunKeyboard of MinimalTestFeeder: no diagonals, and Tab turns the d-pad
\* with the clock, one direction a tick.
TestKeyboardReport ==
  [Neutral EXCEPT
     !.lx = Axis("A", "D"), !.ly = Axis("W", "S"),
     !.rx = Axis("LEFT", "RIGHT"), !.ry = Axis("UP", "DOWN"),
     !.b0 = Bits0([A |-> {"SPACE"}, B |-> {"E"}, X |-> {"Q"}, Y |-> {"R"},
                   LB |-> {"1"}, RB |-> {"2"}, BACK |-> {"F"}, START |-> {"G"}]),
     !.b1 = Bits1([LSTICK |-> {"3"}, RSTICK |-> {"4"}]),
     !.lt = Full("Z"), !.rt = Full("C"),
     !.dpad = IF "TAB" \in keys THEN clock % 8 ELSE DPadNeutral]

-----------------------------------------------------------------------------
(* NetworkProvider.                                                        *)

\* Where the drain of the socket ends: at the first stray datagram, which it
\* takes out as well, or behind the last one.
DrainEnd ==
  Min({i \in 1..Len(socket) + 1 : i = Len(socket) + 1 \/ socket[i] = Stray})

\* Mutant of NetworkGetReport: a stray datagram stays in the socket.
NetworkGetReportStuck ==
  LET latest == IF DrainEnd = 1 THEN lastReport ELSE socket[DrainEnd - 1]
  IN /\ lastReport' = latest
     /\ report' = latest
     /\ socket' = SubSeq(socket, DrainEnd, Len(socket))

NetworkGetReport ==
  LET latest == IF DrainEnd = 1 THEN lastReport ELSE socket[DrainEnd - 1]
  IN /\ lastReport' = latest
     /\ report' = latest
     /\ socket' = SubSeq(socket, DrainEnd + 1, Len(socket))

-----------------------------------------------------------------------------
(* MacroProvider.                                                          *)

Signed16(v) == ((v + 32768) % 65536) - 32768

\* A line is a sequence of tokens, <<v>> for a number and <<>> for anything
\* else: what is not a number is skipped, so that the numbers close up.
\* Lines without a number are dropped: comments, blank lines, a header.
Rows(lines) ==
  SelectSeq([i \in DOMAIN lines |-> FlattenSeq(lines[i])], LAMBDA f : f # <<>>)

ASSUME MacroAssumption ==
  \A file \in MacroFiles :
    Rows(file.lines) \in Seq(Seq(Int) \ {<<>>}) /\ file.loop \in BOOLEAN

MacroFrame(f) ==
  LET field(i, default) == IF i <= Len(f) THEN f[i] ELSE default
  IN [timestampMs |-> f[1] % ClockMod,
      report |-> [b0   |-> field(2, 0) % 256, b1 |-> field(3, 0) % 256,
                  dpad |-> field(4, DPadNeutral) % 256,
                  lt   |-> field(5, 0) % 256, rt |-> field(6, 0) % 256,
                  lx   |-> Signed16(field(7, 0)), ly |-> Signed16(field(8, 0)),
                  rx   |-> Signed16(field(9, 0)), ry |-> Signed16(field(10, 0))]]

LoadMacro(lines) == [i \in DOMAIN Rows(lines) |-> MacroFrame(Rows(lines)[i])]

NoMacro == [frames |-> <<>>, loop |-> FALSE, startTick |-> 0, currentIdx |-> 0, finished |-> FALSE]

\* Init of the provider, which fails on a file without frames.
MacroInit ==
  \E file \in MacroFiles :
    /\ LoadMacro(file.lines) # <<>>
    /\ player = [NoMacro EXCEPT !.frames = LoadMacro(file.lines), !.loop = file.loop,
                                !.startTick = clock]

\* Mutant of Elapsed: the start and the clock are compared as they are.
ElapsedUnwrapped == IF clock < player.startTick THEN 0 ELSE clock - player.startTick

Elapsed == (clock - player.startTick) % ClockMod

MacroAdvance ==
  Max({n \in player.currentIdx..Len(player.frames) :
         \A k \in player.currentIdx + 1..n : player.frames[k].timestampMs <= Elapsed})

MacroGetReport ==
  LET index   == MacroAdvance
      ended   == index = Len(player.frames)
      restart == ended /\ player.loop
      current == IF restart THEN 0 ELSE index
  IN IF player.finished
     THEN report' = Neutral /\ UNCHANGED <<player, age>>
     ELSE /\ player' = [player EXCEPT
               !.currentIdx = current,
               !.startTick = IF restart THEN clock ELSE @,
               !.finished = ended /\ ~player.loop]
          /\ age' = IF restart THEN 0 ELSE age
          /\ report' = player.frames[IF current > 0 THEN current ELSE 1].report

-----------------------------------------------------------------------------
(* The script of MinimalTestFeeder.                                        *)

Push(field, v) == [Neutral EXCEPT ![field] = v]

StickSteps ==
  <<Push("lx", AxisMax), Push("lx", -AxisMax), Push("ly", -AxisMax), Push("ly", AxisMax),
    [Push("lx", AxisMax) EXCEPT !.ly = -AxisMax],
    Push("rx", AxisMax), Push("ry", -AxisMax), [Push("rx", -AxisMax) EXCEPT !.ry = AxisMax]>>

ButtonOrder == <<"A", "B", "X", "Y", "LB", "RB", "BACK", "START">>

ButtonSteps ==
  <<Push("lt", 255), Push("rt", 255), [Push("lt", 255) EXCEPT !.rt = 255]>> \o
  [i \in 1..8 |-> Push("b0", Mask0[ButtonOrder[i]])] \o <<Push("b1", 1), Push("b1", 2)>> \o
  [i \in 1..4 |-> Push("dpad", 2 * (i - 1))] \o
  <<[PressA EXCEPT !.lt = 255]>>

\* An eighth of a turn a step, the sines and cosines cut to whole numbers.
CircleSteps ==
  LET cosine == <<AxisMax, 23169, 0, -23169, -AxisMax, -23169, 0, 23169>>
  IN [i \in 1..8 |-> [Push("lx", cosine[i]) EXCEPT !.ly = cosine[((i + 5) % 8) + 1]]]

BuildSteps == <<Neutral>> \o StickSteps \o ButtonSteps \o CircleSteps \o <<Neutral>>

\* One inject of a step, which is its last one or not.
ScriptGetReport ==
  /\ step <= Len(BuildSteps)
  /\ report' = BuildSteps[step]
  /\ step' \in {step, step + 1}

-----------------------------------------------------------------------------
(* GetReport of the provider in use.                                       *)

GetReport ==
  /\ UNCHANGED <<provider, keys, cursor, clock, inputs, newest>>
  /\ CASE provider \in {"keyboard", "testkeys", "config"} ->
            /\ report' = CASE provider = "keyboard" -> KeyboardReport
                           [] provider = "testkeys" -> TestKeyboardReport
                           [] provider = "config"   -> PressA
            /\ UNCHANGED <<lastPos, lastReport, socket, player, age, step>>
       [] provider = "mouse" ->
            /\ report' = MouseReport(<<cursor[1] - lastPos[1], cursor[2] - lastPos[2]>>)
            /\ lastPos' = cursor
            /\ UNCHANGED <<lastReport, socket, player, age, step>>
       [] provider = "network" ->
            NetworkGetReport /\ UNCHANGED <<lastPos, player, age, step>>
       [] provider = "macro" ->
            MacroGetReport /\ UNCHANGED <<lastPos, lastReport, socket, step>>
       [] provider = "script" ->
            ScriptGetReport /\ UNCHANGED <<lastPos, lastReport, socket, player, age>>

-----------------------------------------------------------------------------
(* The world outside.                                                      *)

Acts == inputs < MaxInputs /\ inputs' = inputs + 1

NotAsked == UNCHANGED <<provider, report, lastPos, lastReport, player, step>>

KeyChanges ==
  /\ provider \in {"keyboard", "testkeys", "mouse"} /\ Acts
  /\ \E k \in Keys : keys' = IF k \in keys THEN keys \ {k} ELSE keys \cup {k}
  /\ NotAsked /\ UNCHANGED <<cursor, socket, clock, newest, age>>

CursorMoves ==
  /\ provider = "mouse" /\ Acts
  /\ \E m \in Moves : cursor' = <<cursor[1] + m[1], cursor[2] + m[2]>>
  /\ NotAsked /\ UNCHANGED <<keys, socket, clock, newest, age>>

\* A datagram arrives; a full socket drops it.
DatagramArrives ==
  /\ provider = "network" /\ Acts
  /\ \E d \in Datagrams \cup {Stray} :
       IF Len(socket) < MaxQueue
         THEN /\ socket' = Append(socket, d)
              /\ newest' = IF d = Stray THEN newest ELSE d
         ELSE UNCHANGED <<socket, newest>>
  /\ NotAsked /\ UNCHANGED <<keys, cursor, clock, age>>

\* Time passes for a macro that runs, which is polled before it is MaxAge
\* old, and for the keyboard mode of MinimalTestFeeder.
Tick ==
  /\ \/ /\ provider = "macro" /\ ~player.finished /\ age < MaxAge
        /\ age' = age + 1 /\ UNCHANGED inputs
     \/ provider = "testkeys" /\ Acts /\ UNCHANGED age
  /\ clock' = (clock + 1) % ClockMod
  /\ NotAsked /\ UNCHANGED <<keys, cursor, socket, newest>>

WorldActs == KeyChanges \/ CursorMoves \/ DatagramArrives \/ Tick

SourceInit(sources) ==
  /\ provider \in sources
  /\ report = Neutral
  /\ keys = {} /\ cursor = <<0, 0>> /\ lastPos = <<0, 0>>
  /\ socket = <<>> /\ lastReport = Neutral /\ newest = Neutral
  /\ clock \in IF provider = "macro" THEN 0..ClockMod - 1 ELSE {0}
  /\ IF provider = "macro" THEN MacroInit ELSE player = NoMacro
  /\ step = 1 /\ inputs = 0 /\ age = 0

-----------------------------------------------------------------------------
(* What a source asks for.                                                 *)

\* The frame of a macro the given time after its start: the last one up to
\* which all are due, the first when none is; a loop that is through shows
\* its first frame again.
FrameAt(time) ==
  LET frames == player.frames
      due == Max({n \in 0..Len(frames) : \A k \in 1..n : frames[k].timestampMs <= time})
  IN IF due = 0 \/ (due = Len(frames) /\ player.loop) THEN frames[1].report
     ELSE frames[due].report

\* What the source comes to rest at when the world outside does.
AtRest ==
  CASE provider = "keyboard" -> KeyboardReport
    [] provider = "mouse"    -> MouseReport(<<0, 0>>)
    [] provider = "network"  -> newest
    [] provider = "config"   -> PressA
    [] OTHER                 -> Neutral

=============================================================================
