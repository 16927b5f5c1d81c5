---------------------------- MODULE ReportProofs ----------------------------
(***************************************************************************)
(* What survives the way through the native report, for every report: what *)
(* the upper filter records is what the controller's user did, and the     *)
(* lower filter records the same up to the lowest position of a stick.     *)
(***************************************************************************)
EXTENDS Reports, TLAPS

\* An axis comes back from the 16-bit form as it went in.
LEMMA AxisRoundTrip ==
  ASSUME NEW v \in Short
  PROVE  /\ AxisI16ToU16(v) \in UShort
         /\ AxisU16ToI16(AxisI16ToU16(v)) = v
         /\ LowerAxisU16ToI16(AxisI16ToU16(v)) = AtLeast(v, -32767)
  BY DEF Short, UShort, AxisI16ToU16, AxisU16ToI16, LowerAxisU16ToI16, AtMost, AtLeast

\* One pulled trigger comes back whole from the axis both share.
LEMMA TriggerRoundTrip ==
  ASSUME NEW r \in Report, r.lt = 0 \/ r.rt = 0
  PROVE  /\ LeftTrigger(TriggerAxis(r)) = r.lt
         /\ RightTrigger(TriggerAxis(r)) = r.rt
<1>1. r.lt \in 0..255 /\ r.rt \in 0..255
  BY DEF Report, Byte
<1>2. CASE r.lt = 0 /\ r.rt = 0
  BY <1>2, SMT DEF TriggerAxis, LeftTrigger, RightTrigger, AtMost, AtLeast
<1>3. CASE r.lt = 0 /\ r.rt > 0
  <2>1. TriggerAxis(r) = AtMost(32768 + r.rt * 128, 65535)
    BY <1>1, <1>3, SMT DEF TriggerAxis, AtMost, AtLeast
  <2>2. TriggerAxis(r) = 32768 + r.rt * 128
    BY <1>1, <2>1, SMT DEF AtMost
  <2>3. (32768 + r.rt * 128 - 32768) \div 128 = r.rt
    BY <1>1, SMT
  <2> QED BY <1>1, <1>3, <2>2, <2>3, SMT DEF LeftTrigger, RightTrigger, AtMost
<1>4. CASE r.rt = 0 /\ r.lt > 0
  <2>1. TriggerAxis(r) = 32768 - r.lt * 128
    BY <1>1, <1>4, SMT DEF TriggerAxis, AtMost, AtLeast
  <2>2. (32768 - (32768 - r.lt * 128)) \div 128 = r.lt
    BY <1>1, SMT
  <2> QED BY <1>1, <1>4, <2>1, <2>2, SMT DEF LeftTrigger, RightTrigger, AtMost
<1> QED BY <1>1, <1>2, <1>3, <1>4, SMT

\* Whatever the shared axis says, a trigger is a number.
LEMMA TriggersAreNumbers ==
  ASSUME NEW r \in Report
  PROVE  LeftTrigger(TriggerAxis(r)) \in Nat /\ RightTrigger(TriggerAxis(r)) \in Nat
<1>1. r.lt \in Int /\ r.rt \in Int
  BY DEF Report, Byte
<1>2. TriggerAxis(r) \in Int
  BY <1>1, SMT DEF TriggerAxis, AtMost, AtLeast
<1>3. ASSUME NEW z \in Int PROVE LeftTrigger(z) \in Nat /\ RightTrigger(z) \in Nat
  <2>1. z < 32768 => (32768 - z) \div 128 \in Nat
    BY SMT
  <2>2. z > 32768 => (z - 32768) \div 128 \in Nat
    BY SMT
  <2> QED BY <2>1, <2>2, SMT DEF LeftTrigger, RightTrigger, AtMost
<1> QED BY <1>2, <1>3

\* A direction, or none, comes back from the hat it is written as.
LEMMA HatRoundTrip ==
  ASSUME NEW d \in 0..7 \cup {DPadNeutral}
  PROVE  DPadOf(IF d = DPadNeutral THEN 0 ELSE (d + 1) % 256) = d
  BY SMT DEF DPadOf, DPadNeutral

\* ParseNativeReport gives back every report the native form has room for:
\* the observation of the controller is faithful.
THEOREM NativeRoundTrip ==
  ASSUME NEW r \in Report, Plain(r)
  PROVE  ParseNativeReport(TranslateReport(r)) = r
<1> DEFINE n == TranslateReport(r)
           p == ParseNativeReport(n)
<1>1. r.b1 % 16 = r.b1 /\ (r.b1 % 16) % 16 = r.b1
  BY SMT DEF Report, Byte, Plain
<1>2. p.lx = r.lx /\ p.ly = r.ly /\ p.rx = r.rx /\ p.ry = r.ry
  BY AxisRoundTrip DEF Report, ParseNativeReport, TranslateReport
<1>3. p.lt = r.lt /\ p.rt = r.rt
  BY TriggerRoundTrip DEF Plain, ParseNativeReport, TranslateReport
<1>4. p.dpad = r.dpad
  BY HatRoundTrip DEF Plain, ParseNativeReport, TranslateReport
<1>5. p.b0 = r.b0 /\ p.b1 = r.b1
  BY <1>1 DEF ParseNativeReport, TranslateReport
<1>6. p = [b0 |-> r.b0, b1 |-> r.b1, dpad |-> r.dpad, lt |-> r.lt, rt |-> r.rt,
           lx |-> r.lx, ly |-> r.ly, rx |-> r.rx, ry |-> r.ry]
  BY <1>2, <1>3, <1>4, <1>5 DEF ParseNativeReport
<1> QED BY <1>6 DEF Report

\* Field by field, the lower filter records what the upper one does, but for
\* the lowest position of a stick, which it moves up by one.
THEOREM FiltersRecordTheSame ==
  ASSUME NEW r \in Report
  PROVE  LET upper == ParseNativeReport(TranslateReport(r))
             lower == LowerParseReport(TranslateReport(r))
         IN /\ \A f \in {"b0", "b1", "dpad", "lt", "rt"} : lower[f] = upper[f]
            /\ \A f \in {"lx", "ly", "rx", "ry"} : lower[f] = AtLeast(upper[f], -32767)
  BY AxisRoundTrip DEF Report, LowerParseReport, ParseNativeReport, TranslateReport

\* What an observation says is held is what XInput says, up to the buttons
\* XInput has no bit for.
THEOREM ObservationAgreesWithXInput ==
  ASSUME NEW r \in Report
  PROVE  XInputButtons(r) = SemanticButtons(r) \ {"GUIDE", "MISC"}
<1>1. Pressed(r.b0, Mask0) \cap {"GUIDE", "MISC"} = {}
  BY DEF Pressed, Mask0
<1>2. Pressed(r.b1, Mask1) \subseteq {"LSTICK", "RSTICK", "GUIDE", "MISC"}
  BY DEF Pressed, Mask1
<1>3. Hat(r.dpad) \subseteq {"UP", "DOWN", "LEFT", "RIGHT"}
  BY SMT DEF Hat, Directions
<1> QED BY <1>1, <1>2, <1>3 DEF XInputButtons, SemanticButtons

=============================================================================
