------------------------------ MODULE Reports -------------------------------
(***************************************************************************)
(* The forms a controller's state takes on its way through the system: the *)
(* GAYM_REPORT a producer injects, the 16-byte native report of the        *)
(* controller, the XInput state an application gets and the semantic       *)
(* buttons of an observation; and the hardware id that names the device.   *)
(* A byte or a 16-bit field is a number.  ReportId and Reserved, which     *)
(* nothing reads, are left out, and so is the number a set of XInput or    *)
(* semantic buttons is written as.                                         *)
(***************************************************************************)
EXTENDS Integers, Sequences

Byte   == 0..255
UShort == 0..65535
Short  == -32768..32767

Report == [b0 : Byte, b1 : Byte, dpad : Byte, lt : Byte, rt : Byte,
           lx : Short, ly : Short, rx : Short, ry : Short]

DPadNeutral == 15

\* A zeroed report with the d-pad released.
Neutral == [b0 |-> 0, b1 |-> 0, dpad |-> DPadNeutral, lt |-> 0, rt |-> 0,
            lx |-> 0, ly |-> 0, rx |-> 0, ry |-> 0]

\* The bits of Buttons[0] and of Buttons[1].
Mask0 == [A |-> 1, B |-> 2, X |-> 4, Y |-> 8,
          LB |-> 16, RB |-> 32, BACK |-> 64, START |-> 128]
Mask1 == [LSTICK |-> 1, RSTICK |-> 2, GUIDE |-> 4, MISC |-> 8]

AxisMax == 32767

\* What ConfigProvider, `GaYmCLI test` and QuickVerify inject: the left stick
\* full right and A.
PressA == [Neutral EXCEPT !.lx = AxisMax, !.b0 = Mask0.A]

Pressed(byte, mask) == {b \in DOMAIN mask : (byte \div mask[b]) % 2 = 1}

-----------------------------------------------------------------------------
(* The native report: axes around 32768, one axis for both triggers.       *)

Native == [lx : UShort, ly : UShort, rx : UShort, ry : UShort, z : UShort,
           b0 : Byte, b1 : Byte, hat : Byte]

AtMost(n, limit)  == IF n > limit THEN limit ELSE n
AtLeast(n, limit) == IF n < limit THEN limit ELSE n

AxisI16ToU16(v) == v + 32768
AxisU16ToI16(v) == AtMost(AtLeast(v - 32768, -32768), 32767)

TriggerAxis(r) == AtMost(AtLeast(32768 + (r.rt - r.lt) * 128, 0), 65535)

\* UpperDeviceTranslateReport and TranslateXboxUsbHidReport, which agree on
\* the layout of the controller's reports.
TranslateReport(r) ==
  [lx |-> AxisI16ToU16(r.lx), ly |-> AxisI16ToU16(r.ly),
   rx |-> AxisI16ToU16(r.rx), ry |-> AxisI16ToU16(r.ry),
   z  |-> TriggerAxis(r),
   b0 |-> r.b0, b1 |-> r.b1 % 16,
   hat |-> IF r.dpad = DPadNeutral THEN 0 ELSE (r.dpad + 1) % 256]

\* A report the native form has room for: at most one trigger pulled.
Plain(r) ==
  /\ r.b1 < 16 /\ r.dpad \in 0..7 \cup {DPadNeutral}
  /\ r.lt = 0 \/ r.rt = 0

LeftTrigger(z)  == IF z < 32768 THEN AtMost((32768 - z) \div 128, 255) ELSE 0
RightTrigger(z) == IF z > 32768 THEN AtMost((z - 32768) \div 128, 255) ELSE 0

\* Mutant of DPadOf: the hat is taken for the d-pad it was made of.
DPadOfHat(hat) == IF hat = 0 \/ hat > 8 THEN DPadNeutral ELSE hat

DPadOf(hat) == IF hat = 0 \/ hat > 8 THEN DPadNeutral ELSE hat - 1

ParseNativeReport(n) ==
  [lx |-> AxisU16ToI16(n.lx), ly |-> AxisU16ToI16(n.ly),
   rx |-> AxisU16ToI16(n.rx), ry |-> AxisU16ToI16(n.ry),
   lt |-> LeftTrigger(n.z), rt |-> RightTrigger(n.z),
   b0 |-> n.b0, b1 |-> n.b1 % 16, dpad |-> DPadOf(n.hat)]

\* Mutant of LowerAxisU16ToI16: the lowest value is let through.
LowerAxisWhole(v) == AtMost(AtLeast(v - 32768, -32768), 32767)

\* The lower filter's parser keeps the sticks symmetric.
LowerAxisU16ToI16(v) == AtMost(AtLeast(v - 32768, -32767), 32767)

LowerParseReport(n) ==
  [ParseNativeReport(n) EXCEPT
     !.lx = LowerAxisU16ToI16(n.lx), !.ly = LowerAxisU16ToI16(n.ly),
     !.rx = LowerAxisU16ToI16(n.rx), !.ry = LowerAxisU16ToI16(n.ry)]

-----------------------------------------------------------------------------
(* What applications are shown.                                            *)

\* The directions of GAYM_DPAD_UP .. GAYM_DPAD_UPLEFT.
Directions ==
  <<{"UP"}, {"UP", "RIGHT"}, {"RIGHT"}, {"DOWN", "RIGHT"},
    {"DOWN"}, {"DOWN", "LEFT"}, {"LEFT"}, {"UP", "LEFT"}>>

Hat(dpad) == IF dpad \in 0..7 THEN Directions[dpad + 1] ELSE {}

\* XINPUT_GAMEPAD has no bit for GUIDE and MISC.
XInputButtons(r) ==
  Pressed(r.b0, Mask0) \cup (Pressed(r.b1, Mask1) \cap {"LSTICK", "RSTICK"}) \cup Hat(r.dpad)

SemanticButtons(r) ==
  Pressed(r.b0, Mask0) \cup Pressed(r.b1, Mask1) \cup Hat(r.dpad)

XInputGamepad(r) ==
  [buttons |-> XInputButtons(r), lt |-> r.lt, rt |-> r.rt,
   lx |-> r.lx, ly |-> r.ly, rx |-> r.rx, ry |-> r.ry]

\* All gamepads there are.
XInputNames == DOMAIN Mask0 \cup {"LSTICK", "RSTICK", "UP", "DOWN", "LEFT", "RIGHT"}

XInputGamepads ==
  [buttons : SUBSET XInputNames, lt : Byte, rt : Byte,
   lx : Short, ly : Short, rx : Short, ry : Short]

XInputState(r, number) == [packet |-> number, gamepad |-> XInputGamepad(r)]

\* Percent of the way from the dead zone to the end, rounded to the nearest.
Percent(value, deadzone, end) ==
  IF value <= deadzone THEN 0
  ELSE AtMost(((value - deadzone) * 100 + (end - deadzone) \div 2) \div (end - deadzone), 100)

NormalizeStickPercent(v, deadzone) ==
  IF v < 0 THEN -Percent(-v, deadzone, 32767) ELSE Percent(v, deadzone, 32767)

NormalizeTriggerPercent(v) == Percent(v, 30, 255)

\* What XInputCheck compares and prints.
SemanticState(g) ==
  [buttons |-> g.buttons,
   lt |-> NormalizeTriggerPercent(g.lt), rt |-> NormalizeTriggerPercent(g.rt),
   lx |-> NormalizeStickPercent(g.lx, 7849), ly |-> NormalizeStickPercent(g.ly, 7849),
   rx |-> NormalizeStickPercent(g.rx, 8689), ry |-> NormalizeStickPercent(g.ry, 8689)]

-----------------------------------------------------------------------------
(* The hardware id: a sequence of tags, each followed by characters, a     *)
(* hexadecimal digit or anything else.                                     *)

HexDigits == 0..15

\* The number that up to four digits spell.
HexValue(digits) ==
  LET value[n \in 0..Len(digits)] ==
        IF n = 0 THEN 0 ELSE 16 * value[n - 1] + digits[n]
  IN value[Len(digits)]

\* How many of the first four characters are digits before one is not.
HexPrefix(text) ==
  CHOOSE n \in 0..4 :
    /\ n <= Len(text) /\ \A i \in 1..n : text[i] \in HexDigits
    /\ n = 4 \/ n = Len(text) \/ text[n + 1] \notin HexDigits

\* The upper filter takes the first tag that four digits follow.
UpperParseId(id, tag) ==
  LET hits == {i \in DOMAIN id : id[i].tag = tag /\ HexPrefix(id[i].text) = 4}
  IN IF hits = {} THEN 0
     ELSE LET i == CHOOSE i \in hits : \A j \in hits : i <= j
          IN HexValue(SubSeq(id[i].text, 1, 4))

\* The lower filter takes the last tag, and as many digits as there are.
LowerParseId(id, tag) ==
  LET hits == {i \in DOMAIN id : id[i].tag = tag}
  IN IF hits = {} THEN 0
     ELSE LET i == CHOOSE i \in hits : \A j \in hits : i >= j
          IN HexValue(SubSeq(id[i].text, 1, HexPrefix(id[i].text)))

\* 045E and 02FF, the one entry of the device table.
Supported(vendor, product) == vendor = 1118 /\ product = 767

=============================================================================
