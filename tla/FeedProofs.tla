----------------------------- MODULE FeedProofs -----------------------------
(***************************************************************************)
(* From a source of input to what an application is shown, for all keys,   *)
(* datagrams, macro files, shapes and hardware ids: the types of what is   *)
(* passed on; that no state query of a controller that was never away      *)
(* waits; what a verdict of the verifiers rests on; that a macro follows   *)
(* its clock; and what the filters record of a native read.                *)
(*                                                                         *)
(* A program is a sequence of Calls: what the library lets it do to the    *)
(* path.  The invariants of the session, the queue and the verdicts speak  *)
(* of a controller that was never away, powers = 0.                        *)
(***************************************************************************)
EXTENDS Feed, ReportProofs, SequenceTheorems, WellFoundedInduction

-----------------------------------------------------------------------------
(* Every source of input yields reports.                                   *)

\* A set of naturals has a least number.
LEMMA MinExists ==
  ASSUME NEW S \in SUBSET Nat, S # {}
  PROVE  Min(S) \in S /\ \A n \in S : Min(S) <= n
<1>1. \E n \in S : \A m \in S : ~(<<m, n>> \in OpToRel(<, Nat))
  BY NatLessThanWellFounded, WFMin, Zenon
<1>2. \E n \in S : \A m \in S : ~(m < n)
  BY <1>1, Zenon DEF OpToRel
<1>3. \E n \in S : \A m \in S : n <= m
  BY <1>2, SMT
<1> QED BY <1>3 DEF Min

\* Below a bound there is a greatest one: the least, turned around.
LEMMA MaxExists ==
  ASSUME NEW S \in SUBSET Nat, S # {}, NEW top \in Nat, \A n \in S : n <= top
  PROVE  Max(S) \in S /\ \A n \in S : n <= Max(S)
<1> DEFINE T == {top - n : n \in S}
<1>0. \A n \in S : n \in Nat /\ top - n \in Nat
  BY SMT
<1>1. T \in SUBSET Nat /\ T # {}
  BY <1>0
<1>2. Min(T) \in T /\ \A n \in T : Min(T) <= n
  BY <1>1, MinExists
<1> HIDE DEF T
<1>3. PICK n \in S : Min(T) = top - n
  BY <1>2 DEF T
<1>4. \A m \in S : top - n <= top - m
  BY <1>2, <1>3 DEF T
<1>5. \A m \in S : n >= m
  BY <1>3, <1>4, SMT
<1>6. Max(S) \in S /\ \A m \in S : Max(S) >= m
  BY <1>5 DEF Max
<1> QED BY <1>6, SMT

\* The keys.
LEMMA BitsAreBytes ==
  ASSUME NEW binding PROVE Bits0(binding) \in Byte /\ Bits1(binding) \in Byte
<1>1. \A b \in {"A", "B", "X", "Y", "LB", "RB", "BACK", "START"} :
         Bit(Mask0, binding, b) \in {0, Mask0[b]}
  BY DEF Bit
<1>2. \A b \in {"LSTICK", "RSTICK", "GUIDE"} : Bit(Mask1, binding, b) \in {0, Mask1[b]}
  BY DEF Bit
<1> QED BY <1>1, <1>2, SMT DEF Bits0, Bits1, Byte, Mask0, Mask1

\* The sticks, in diagonal or not.
LEMMA SticksAreShort ==
  ASSUME NEW a, NEW b, NEW c, NEW d
  PROVE  Axis(a, b) \in Short /\ Diagonal(Axis(a, b), Axis(c, d)) \in Short
<1>1. \A v \in {-32767, 0, 32767} : v \in Short /\ SevenTenths(v) \in Short
  <2>1. SevenTenths(-32767) = -22936 /\ SevenTenths(0) = 0 /\ SevenTenths(32767) = 22936
    BY SMT DEF SevenTenths
  <2>2. {-32767, 0, 32767, -22936, 22936} \subseteq Short
    BY SMT DEF Short
  <2> QED BY <2>1, <2>2
<1>2. Axis(a, b) \in {-32767, 0, 32767}
  BY SMT DEF Axis, AxisMax
<1> QED BY <1>1, <1>2 DEF Diagonal

\* The keys of the left stick make a report,
LEMMA LeftStickReport == LeftStick(Neutral) \in Report
<1>1. Neutral \in Report
  BY SMT DEF Neutral, Report, Byte, Short, DPadNeutral
<1> DEFINE x == Axis("A", "D")
           y == Axis("W", "S")
<1>2. Diagonal(x, y) \in Short /\ Diagonal(y, x) \in Short
  BY SticksAreShort
<1>3. LeftStick(Neutral) = [Neutral EXCEPT !.lx = Diagonal(x, y), !.ly = Diagonal(y, x)]
  BY DEF LeftStick
<1> HIDE DEF x, y
<1> QED BY <1>1, <1>2, <1>3 DEF Report

\* the others too, in either program,
LEMMA KeysAreReports ==
  ASSUME clock \in Nat
  PROVE  KeyboardReport \in Report /\ TestKeyboardReport \in Report
<1>1. Neutral \in Report
  BY SMT DEF Neutral, Report, Byte, Short, DPadNeutral
<1>2. \A k : Full(k) \in Byte
  BY SMT DEF Full, Byte
<1>3. DPadKeys \in Byte
  BY SMT DEF DPadKeys, Byte, DPadNeutral
<1>4. (IF "TAB" \in keys THEN clock % 8 ELSE DPadNeutral) \in Byte
  BY SMT DEF Byte, DPadNeutral
<1>5. KeyboardReport \in Report
  BY <1>2, <1>3, LeftStickReport, SticksAreShort, BitsAreBytes DEF KeyboardReport, Report
<1>6. TestKeyboardReport \in Report
  BY <1>1, <1>2, <1>4, SticksAreShort, BitsAreBytes DEF TestKeyboardReport, Report
<1> QED BY <1>5, <1>6

\* and so does the mouse, however far it was moved.
LEMMA MouseReports ==
  ASSUME NEW delta, delta[1] \in Int, delta[2] \in Int
  PROVE  MouseReport(delta) \in Report
<1>1. \A k : Full(k) \in Byte
  BY SMT DEF Full, Byte
<1>2. ASSUME NEW v \in Int PROVE ClampAxis(v) \in Short
  <2>1. ClampAxis(v) = AtMost(AtLeast(v, -32767), 32767)
    BY DEF ClampAxis, AxisMax
  <2>2. AtLeast(v, -32767) \in Int /\ AtLeast(v, -32767) >= -32767
    BY SMT DEF AtLeast
  <2>3. ASSUME NEW z \in Int, z >= -32767 PROVE AtMost(z, 32767) \in Short
    BY <2>3, SMT DEF AtMost, Short
  <2> QED BY <2>1, <2>2, <2>3
<1>3. delta[1] * 150 \in Int /\ delta[2] * 150 \in Int
  BY SMT
<1>4. ClampAxis(delta[1] * 150) \in Short /\ ClampAxis(delta[2] * 150) \in Short
  BY <1>2, <1>3, Zenon
<1> QED BY <1>1, <1>4, LeftStickReport, BitsAreBytes DEF MouseReport, Report

\* What ConfigProvider and the verifiers inject are reports.
LEMMA FixedReports == Neutral \in Report /\ PressA \in Report
<1>1. Neutral \in Report
  BY SMT DEF Neutral, Report, Byte, Short, DPadNeutral
<1>2. AxisMax \in Short /\ Mask0.A \in Byte
  BY SMT DEF AxisMax, Short, Byte, Mask0
<1> QED BY <1>1, <1>2 DEF PressA, Report

\* NetworkProvider: what it keeps are the datagrams before the first stray one.
LEMMA NetworkReports ==
  ASSUME SourceTypeOK, NetworkGetReport
  PROVE  /\ report' \in Report /\ lastReport' \in Report
         /\ socket' \in Seq(Report \cup {Stray}) /\ Len(socket') <= MaxQueue
<1> DEFINE n == Len(socket)
           E == {i \in 1..Len(socket) + 1 : i = Len(socket) + 1 \/ socket[i] = Stray}
<1>1. n \in Nat /\ socket \in Seq(Report \cup {Stray}) /\ n <= MaxQueue /\ MaxQueue \in Nat
  BY LenProperties, ProvidersAssumption DEF SourceTypeOK
<1>2. n + 1 \in E /\ E \in SUBSET Nat
  BY <1>1, SMT
<1>3. DrainEnd \in E /\ \A i \in E : DrainEnd <= i
  BY <1>2, MinExists DEF DrainEnd
<1> DEFINE d == DrainEnd
<1>4. d \in 1..n + 1
  BY <1>3
<1> HIDE DEF d
<1>5. ASSUME d # 1 PROVE socket[d - 1] \in Report
  <2>1. d - 1 \in 1..n /\ d - 1 \in 1..n + 1 /\ d - 1 # n + 1 /\ ~(d <= d - 1)
    BY <1>1, <1>4, <1>5, SMT
  <2>2. d - 1 \notin E
    BY <1>3, <2>1 DEF d
  <2>3. socket[d - 1] # Stray
    BY <2>1, <2>2
  <2>4. socket[d - 1] \in Report \cup {Stray}
    BY <1>1, <2>1, ElementOfSeq
  <2> QED BY <2>3, <2>4
<1>6. lastReport \in Report
  BY DEF SourceTypeOK
<1>7. report' \in Report /\ lastReport' \in Report
  BY <1>5, <1>6 DEF NetworkGetReport, d
<1>8. socket' = SubSeq(socket, d + 1, n)
  BY DEF NetworkGetReport, d
<1>9. /\ SubSeq(socket, d + 1, n) \in Seq(Report \cup {Stray})
      /\ Len(SubSeq(socket, d + 1, n)) <= n
  <2>1. d + 1 \in Int /\ n \in Int
    BY <1>1, <1>4, SMT
  <2>2. \A i \in d + 1..n : socket[i] \in Report \cup {Stray}
    <3>1. \A i \in d + 1..n : i \in 1..n
      BY <1>1, <1>4, SMT
    <3> QED BY <1>1, <3>1, ElementOfSeq
  <2>3. /\ SubSeq(socket, d + 1, n) \in Seq(Report \cup {Stray})
        /\ Len(SubSeq(socket, d + 1, n)) = IF d + 1 <= n THEN n - (d + 1) + 1 ELSE 0
    BY <2>1, <2>2, SubSeqProperties
  <2> QED BY <1>1, <1>4, <2>3, SMT
<1> QED BY <1>1, <1>7, <1>8, <1>9, SMT

\* The script.
LEMMA ScriptReports == BuildSteps \in Seq(Report)
<1>1. ASSUME NEW f \in {"b0", "b1", "dpad", "lt", "rt"}, NEW v \in Byte
      PROVE  Push(f, v) \in Report
  BY <1>1, FixedReports DEF Push, Report
<1>2. ASSUME NEW f \in {"lx", "ly", "rx", "ry"}, NEW v \in Short
      PROVE  Push(f, v) \in Report
  BY <1>2, FixedReports DEF Push, Report
<1>3. AxisMax \in Short /\ -AxisMax \in Short
  BY SMT DEF AxisMax, Short
<1>4. StickSteps \in Seq(Report)
  <2>1. /\ [Push("lx", AxisMax) EXCEPT !.ly = -AxisMax] \in Report
        /\ [Push("rx", -AxisMax) EXCEPT !.ry = AxisMax] \in Report
    BY <1>2, <1>3 DEF Report
  <2> QED BY <1>2, <1>3, <2>1 DEF StickSteps
<1>5. ButtonSteps \in Seq(Report)
  <2>0. {0, 1, 2, 4, 8, 16, 32, 64, 128, 255} \subseteq Byte
    BY SMT DEF Byte
  <2>1. <<Push("lt", 255), Push("rt", 255), [Push("lt", 255) EXCEPT !.rt = 255]>> \in Seq(Report)
    <3>1. [Push("lt", 255) EXCEPT !.rt = 255] \in Report
      BY <1>1, <2>0 DEF Report
    <3> QED BY <1>1, <2>0, <3>1
  <2>2. [i \in 1..8 |-> Push("b0", Mask0[ButtonOrder[i]])] \in Seq(Report)
    <3>1. \A i \in 1..8 : Mask0[ButtonOrder[i]] \in Byte
      BY <2>0, SMT DEF Mask0, ButtonOrder
    <3> QED BY <1>1, <3>1
  <2>3. <<Push("b1", 1), Push("b1", 2)>> \in Seq(Report)
    BY <1>1, <2>0
  <2>4. [i \in 1..4 |-> Push("dpad", 2 * (i - 1))] \in Seq(Report)
    <3>1. \A i \in 1..4 : 2 * (i - 1) \in Byte
      BY SMT DEF Byte
    <3> QED BY <1>1, <3>1
  <2>5. <<[PressA EXCEPT !.lt = 255]>> \in Seq(Report)
    <3>1. [PressA EXCEPT !.lt = 255] \in Report
      BY <2>0, FixedReports DEF Report
    <3> QED BY <3>1
  <2> QED BY <2>1, <2>2, <2>3, <2>4, <2>5, ConcatProperties DEF ButtonSteps
<1>6. CircleSteps \in Seq(Report)
  <2> DEFINE cosine == <<AxisMax, 23169, 0, -23169, -AxisMax, -23169, 0, 23169>>
  <2>0. {AxisMax, 23169, 0, -23169, -AxisMax} \subseteq Short
    BY SMT DEF AxisMax, Short
  <2>1. \A i \in 1..8 : cosine[i] \in Short
    BY <2>0, SMT
  <2>2. \A i \in 1..8 : ((i + 5) % 8) + 1 \in 1..8
    BY SMT
  <2> HIDE DEF cosine
  <2>3. \A i \in 1..8 : [Push("lx", cosine[i]) EXCEPT !.ly = cosine[((i + 5) % 8) + 1]] \in Report
    BY <1>2, <2>1, <2>2 DEF Report
  <2>4. [i \in 1..8 |-> [Push("lx", cosine[i]) EXCEPT !.ly = cosine[((i + 5) % 8) + 1]]]
        \in Seq(Report)
    BY <2>3
  <2> QED BY <2>4 DEF CircleSteps, cosine
<1>7. <<Neutral>> \in Seq(Report)
  BY FixedReports
<1> QED BY <1>4, <1>5, <1>6, <1>7, ConcatProperties DEF BuildSteps

\* The clock turns later than a macro gets.
LEMMA ClockIsPositive == ClockMod \in Nat /\ MaxAge \in Nat /\ MaxAge < ClockMod /\ ClockMod > 0
  BY ProvidersAssumption, SMT

\* The place in the macro moves on to the last frame up to which all are due.
LEMMA MacroPlace ==
  ASSUME player \in Players, player.currentIdx <= Len(player.frames)
  PROVE  LET S == {n \in player.currentIdx..Len(player.frames) :
                     \A k \in player.currentIdx + 1..n : player.frames[k].timestampMs <= Elapsed}
         IN MacroAdvance \in S /\ \A n \in S : n <= MacroAdvance
<1> DEFINE i == player.currentIdx
           m == Len(player.frames)
           S == {n \in i..m : \A k \in i + 1..n : player.frames[k].timestampMs <= Elapsed}
<1>1. i \in Nat /\ m \in Nat /\ i <= m
  BY LenProperties DEF Players, Frames
<1>2. S \in SUBSET Nat /\ \A n \in S : n <= m
  BY <1>1, SMT
<1>3. i \in S
  BY <1>1, SMT
<1>4. Max(S) \in S /\ \A n \in S : n <= Max(S)
  BY <1>1, <1>2, <1>3, MaxExists
<1> QED BY <1>4 DEF MacroAdvance

\* MacroProvider: a frame of the file, or the neutral report.
LEMMA MacroReports ==
  ASSUME SourceTypeOK, provider = "macro", MacroGetReport
  PROVE  /\ report' \in Report /\ age' \in 0..MaxAge
         /\ player' \in Players /\ player'.currentIdx <= Len(player'.frames)
         /\ player'.frames # <<>>
<1> DEFINE i == player.currentIdx
           m == Len(player.frames)
           ended == MacroAdvance = m
           restart == ended /\ player.loop
           current == IF restart THEN 0 ELSE MacroAdvance
<1>1. /\ player \in Players /\ i \in Nat /\ m \in Nat /\ i <= m /\ m > 0 /\ clock \in 0..ClockMod - 1
      /\ player.frames \in Frames
  BY LenProperties, EmptySeq DEF SourceTypeOK, Players, Frames
<1>2. MacroAdvance \in i..m
  BY <1>1, MacroPlace
<1>3. current \in 0..m /\ (IF current > 0 THEN current ELSE 1) \in 1..m
  BY <1>1, <1>2, SMT
<1> DEFINE j == IF current > 0 THEN current ELSE 1
<1>4. player.frames[j].report \in Report
  <2>1. j \in 1..Len(player.frames)
    BY <1>3
  <2> HIDE DEF j
  <2>2. player.frames[j] \in [timestampMs : 0..ClockMod - 1, report : Report]
    BY <1>1, <2>1, ElementOfSeq DEF Frames
  <2> QED BY <2>2
<1>5. CASE player.finished
  BY <1>1, <1>5, FixedReports DEF MacroGetReport, SourceTypeOK
<1>6. CASE ~player.finished
  <2>1. /\ player' = [player EXCEPT !.currentIdx = current,
                        !.startTick = IF restart THEN clock ELSE player.startTick,
                        !.finished = ended /\ ~player.loop]
        /\ age' = IF restart THEN 0 ELSE age
        /\ report' = player.frames[j].report
    BY <1>6 DEF MacroGetReport
  <2>2. current \in Nat /\ current <= m
    BY <1>1, <1>3, SMT
  <2> HIDE DEF current, j
  <2>3. (ended /\ ~player.loop) \in BOOLEAN
    OBVIOUS
  <2> HIDE DEF ended
  <2>4. player' \in Players /\ player'.currentIdx = current /\ player'.frames = player.frames
    BY <1>1, <2>1, <2>2, <2>3 DEF Players
  <2>5. age' \in 0..MaxAge
    BY <2>1, ClockIsPositive, SMT DEF SourceTypeOK
  <2> QED BY <1>1, <1>4, <2>1, <2>2, <2>4, <2>5 DEF SourceTypeOK
<1> QED BY <1>5, <1>6

\* A remainder is below its modulus.
LEMMA RemainderFits ==
  ASSUME NEW m \in Nat, m > 0, NEW a \in Int PROVE a % m \in 0..m - 1
  BY SMT

\* The narrowing to 16 bits.
LEMMA SignedIsShort == ASSUME NEW v \in Int PROVE Signed16(v) \in Short
<1>1. PICK m \in Nat : m = 65536
  OBVIOUS
<1>2. PICK w \in Int : w = v + 32768
  OBVIOUS
<1>3. m > 0
  BY <1>1
<1> DEFINE u == w % m
<1>4. u \in 0..m - 1
  BY <1>3, RemainderFits
<1>5. Signed16(v) = u - 32768
  BY <1>1, <1>2 DEF Signed16
<1> HIDE DEF u
<1>6. u - 32768 \in Short
  BY <1>1, <1>4, SMT DEF Short
<1> QED BY <1>5, <1>6

\* And to 8.
LEMMA LowByteIsByte == ASSUME NEW v \in Int PROVE v % 256 \in Byte
<1>1. PICK m \in Nat : m = 256
  OBVIOUS
<1>2. m > 0
  BY <1>1
<1>3. v % m \in 0..m - 1
  BY <1>2, RemainderFits
<1> QED BY <1>1, <1>3 DEF Byte

\* A line of numbers is a frame.
LEMMA FrameOfNumbers ==
  ASSUME NEW f \in Seq(Int) \ {<<>>}
  PROVE  MacroFrame(f) \in [timestampMs : 0..ClockMod - 1, report : Report]
<1>1. Len(f) \in Nat /\ Len(f) > 0 /\ \A i \in 1..Len(f) : f[i] \in Int
  BY LenProperties, EmptySeq, ElementOfSeq
<1> DEFINE field(i, default) == IF i <= Len(f) THEN f[i] ELSE default
<1>2. ASSUME NEW i \in 1..10, NEW default \in Int PROVE field(i, default) \in Int
  <2>1. i <= Len(f) => i \in 1..Len(f)
    BY <1>1, SMT
  <2> QED BY <1>1, <2>1
<1>3. \A v \in Int : v % 256 \in Byte /\ Signed16(v) \in Short
  BY SignedIsShort, LowByteIsByte
<1>4. DPadNeutral \in Int
  BY DEF DPadNeutral
<1>5. f[1] % ClockMod \in 0..ClockMod - 1
  <2>1. f[1] \in Int
    BY <1>1, SMT
  <2> QED BY <2>1, ClockIsPositive, SMT
<1> HIDE DEF field
<1>6. /\ \A i \in {2, 3, 5, 6} : field(i, 0) % 256 \in Byte
      /\ field(4, DPadNeutral) % 256 \in Byte
      /\ \A i \in {7, 8, 9, 10} : Signed16(field(i, 0)) \in Short
  <2>1. {2, 3, 4, 5, 6, 7, 8, 9, 10} \subseteq 1..10 /\ 0 \in Int
    BY SMT
  <2>2. /\ \A i \in {2, 3, 5, 6, 7, 8, 9, 10} : field(i, 0) \in Int
        /\ field(4, DPadNeutral) \in Int
    BY <1>2, <1>4, <2>1
  <2> QED BY <1>3, <2>2, Zenon
<1>7. MacroFrame(f) =
        [timestampMs |-> f[1] % ClockMod,
         report |-> [b0   |-> field(2, 0) % 256, b1 |-> field(3, 0) % 256,
                     dpad |-> field(4, DPadNeutral) % 256,
                     lt   |-> field(5, 0) % 256, rt |-> field(6, 0) % 256,
                     lx   |-> Signed16(field(7, 0)), ly |-> Signed16(field(8, 0)),
                     rx   |-> Signed16(field(9, 0)), ry |-> Signed16(field(10, 0))]]
  BY DEF MacroFrame, field
<1> QED BY <1>5, <1>6, <1>7 DEF Report

\* A file of numbers is loaded as frames.
LEMMA LoadedFrames ==
  ASSUME NEW file \in MacroFiles
  PROVE  LoadMacro(file.lines) \in Frames /\ file.loop \in BOOLEAN
<1> DEFINE rows == Rows(file.lines)
<1>1. rows \in Seq(Seq(Int) \ {<<>>}) /\ file.loop \in BOOLEAN
  BY MacroAssumption
<1> HIDE DEF rows
<1>2. DOMAIN rows = 1..Len(rows) /\ Len(rows) \in Nat
  BY <1>1, LenProperties
<1>3. \A i \in 1..Len(rows) : rows[i] \in Seq(Int) \ {<<>>}
  BY <1>1, ElementOfSeq
<1>4. \A i \in 1..Len(rows) :
         MacroFrame(rows[i]) \in [timestampMs : 0..ClockMod - 1, report : Report]
  BY <1>3, FrameOfNumbers
<1>5. [i \in 1..Len(rows) |-> MacroFrame(rows[i])]
        \in Seq([timestampMs : 0..ClockMod - 1, report : Report])
  BY <1>2, <1>4
<1>6. LoadMacro(file.lines) = [i \in 1..Len(rows) |-> MacroFrame(rows[i])]
  BY <1>2 DEF LoadMacro, rows
<1> QED BY <1>1, <1>5, <1>6 DEF Frames

-----------------------------------------------------------------------------
\* Whatever the provider, it is a report that it returns.
LEMMA GetReportKeepsType ==
  ASSUME SourceTypeOK, provider \in Sources, GetReport
  PROVE  SourceTypeOK' /\ report' \in Report
<1>0. UNCHANGED <<provider, keys, cursor, clock, inputs, newest>>
  BY DEF GetReport
<1>1. CASE provider \in {"keyboard", "testkeys", "config"}
  <2>1. /\ report' \in {KeyboardReport, TestKeyboardReport, PressA}
        /\ UNCHANGED <<lastPos, lastReport, socket, player, age, step>>
    BY <1>1 DEF GetReport
  <2>2. clock \in Nat
    BY ClockIsPositive, SMT DEF SourceTypeOK
  <2>3. report' \in Report
    BY <2>1, <2>2, KeysAreReports, FixedReports
  <2> QED BY <1>0, <2>1, <2>3 DEF SourceTypeOK
<1>2. CASE provider = "mouse"
  <2>1. /\ report' = MouseReport(<<cursor[1] - lastPos[1], cursor[2] - lastPos[2]>>)
        /\ lastPos' = cursor
        /\ UNCHANGED <<lastReport, socket, player, age, step>>
    BY <1>2 DEF GetReport
  <2> DEFINE delta == <<cursor[1] - lastPos[1], cursor[2] - lastPos[2]>>
  <2>2. delta[1] \in Int /\ delta[2] \in Int
    BY SMT DEF SourceTypeOK
  <2> HIDE DEF delta
  <2>3. report' \in Report
    BY <2>1, <2>2, MouseReports DEF delta
  <2> QED BY <1>0, <2>1, <2>3 DEF SourceTypeOK
<1>3. CASE provider = "network"
  <2>1. NetworkGetReport /\ UNCHANGED <<lastPos, player, age, step>>
    BY <1>3 DEF GetReport
  <2> QED BY <1>0, <2>1, NetworkReports DEF SourceTypeOK
<1>4. CASE provider = "macro"
  <2>1. MacroGetReport /\ UNCHANGED <<lastPos, lastReport, socket, step>>
    BY <1>4 DEF GetReport
  <2> QED BY <1>0, <1>4, <2>1, MacroReports DEF SourceTypeOK
<1>5. CASE provider = "script"
  <2>1. ScriptGetReport /\ UNCHANGED <<lastPos, lastReport, socket, player, age>>
    BY <1>5 DEF GetReport
  <2>2. step \in Nat \ {0} /\ step <= Len(BuildSteps) /\ Len(BuildSteps) \in Nat
    BY <2>1, ScriptReports, LenProperties DEF ScriptGetReport, SourceTypeOK
  <2>3. step \in 1..Len(BuildSteps) /\ step + 1 \in Nat \ {0}
    BY <2>2, SMT
  <2>4. BuildSteps[step] \in Report
    BY <2>3, ScriptReports, ElementOfSeq
  <2>5. report' \in Report /\ step' \in Nat \ {0}
    BY <2>1, <2>2, <2>3, <2>4 DEF ScriptGetReport
  <2> QED BY <1>0, <2>1, <2>5 DEF SourceTypeOK
<1> QED BY <1>1, <1>2, <1>3, <1>4, <1>5 DEF Sources

\* The keys, the cursor, the datagrams and the clock keep to their types.
LEMMA WorldActsKeepType == SourceTypeOK /\ WorldActs => SourceTypeOK'
<1>0. MaxInputs \in Nat /\ (SourceTypeOK /\ Acts => inputs' \in 0..MaxInputs)
  BY ProvidersAssumption, SMT DEF Acts, SourceTypeOK
<1>1. SourceTypeOK /\ KeyChanges => SourceTypeOK'
  BY <1>0 DEF KeyChanges, NotAsked, SourceTypeOK
<1>2. ASSUME SourceTypeOK, CursorMoves PROVE SourceTypeOK'
  <2>1. PICK m \in Moves : cursor' = <<cursor[1] + m[1], cursor[2] + m[2]>>
    BY <1>2 DEF CursorMoves
  <2>2. m[1] \in Int /\ m[2] \in Int /\ cursor[1] \in Int /\ cursor[2] \in Int
    BY <1>2, ProvidersAssumption DEF SourceTypeOK
  <2>3. cursor' \in Int \X Int
    BY <2>1, <2>2, SMT
  <2> QED BY <1>0, <1>2, <2>3 DEF CursorMoves, NotAsked, SourceTypeOK
<1>3. ASSUME SourceTypeOK, DatagramArrives PROVE SourceTypeOK'
  <2>1. PICK d \in Datagrams \cup {Stray} :
          IF Len(socket) < MaxQueue
            THEN /\ socket' = Append(socket, d)
                 /\ newest' = IF d = Stray THEN newest ELSE d
            ELSE UNCHANGED <<socket, newest>>
    BY <1>3 DEF DatagramArrives
  <2>2. d \in Report \cup {Stray} /\ socket \in Seq(Report \cup {Stray}) /\ MaxQueue \in Nat
        /\ Len(socket) <= MaxQueue /\ newest \in Report
    BY <1>3, ProvidersAssumption DEF SourceTypeOK
  <2>3. /\ Append(socket, d) \in Seq(Report \cup {Stray})
        /\ Len(Append(socket, d)) = Len(socket) + 1
        /\ Len(socket) \in Nat
    BY <2>2, AppendProperties, LenProperties
  <2>4. socket' \in Seq(Report \cup {Stray}) /\ Len(socket') <= MaxQueue
    BY <2>1, <2>2, <2>3, SMT
  <2>5. newest' \in Report
    BY <2>1, <2>2
  <2> QED BY <1>0, <1>3, <2>4, <2>5 DEF DatagramArrives, NotAsked, SourceTypeOK
<1>4. ASSUME SourceTypeOK, Tick PROVE SourceTypeOK'
  <2>1. clock' \in 0..ClockMod - 1
    <3>1. clock + 1 \in Int /\ clock' = (clock + 1) % ClockMod
      BY <1>4, ClockIsPositive, SMT DEF Tick, SourceTypeOK
    <3> QED BY <3>1, ClockIsPositive, SMT
  <2>2. age' \in 0..MaxAge
    BY <1>4, ClockIsPositive, SMT DEF Tick, SourceTypeOK
  <2>3. inputs' \in 0..MaxInputs
    BY <1>0, <1>4 DEF Tick, SourceTypeOK
  <2> QED BY <1>4, <2>1, <2>2, <2>3 DEF Tick, NotAsked, SourceTypeOK
<1> QED BY <1>1, <1>2, <1>3, <1>4 DEF WorldActs

\* A provider begins within its types, a macro with the frames of its file.
LEMMA SourceInitType ==
  ASSUME NEW sources \in SUBSET (Sources \cup {"none"}), SourceInit(sources)
  PROVE  SourceTypeOK
<1>1. clock \in 0..ClockMod - 1
  BY ClockIsPositive, SMT DEF SourceInit
<1>2. /\ {cursor, lastPos} \subseteq Int \X Int
      /\ socket \in Seq(Report \cup {Stray}) /\ Len(socket) <= MaxQueue
      /\ inputs \in 0..MaxInputs /\ age \in 0..MaxAge /\ step \in Nat \ {0}
  BY ProvidersAssumption, EmptySeq, SMT DEF SourceInit
<1>3. /\ player \in Players /\ player.currentIdx <= Len(player.frames)
      /\ provider = "macro" => player.frames # <<>>
  <2>1. CASE provider = "macro"
    <3>1. PICK file \in MacroFiles :
            /\ LoadMacro(file.lines) # <<>>
            /\ player = [NoMacro EXCEPT !.frames = LoadMacro(file.lines), !.loop = file.loop,
                                        !.startTick = clock]
      BY <2>1 DEF SourceInit, MacroInit
    <3>2. player = [frames |-> LoadMacro(file.lines), loop |-> file.loop, startTick |-> clock,
                    currentIdx |-> 0, finished |-> FALSE]
      BY <3>1 DEF NoMacro
    <3>3. LoadMacro(file.lines) \in Frames /\ file.loop \in BOOLEAN
      BY LoadedFrames
    <3>4. 0 <= Len(player.frames)
      BY <3>2, <3>3, LenProperties DEF Frames
    <3>5. player \in Players
      BY <1>1, <3>2, <3>3 DEF Players
    <3>6. player.currentIdx = 0 /\ player.frames = LoadMacro(file.lines)
      BY <3>2
    <3>7. player.frames # <<>>
      BY <3>1, <3>6, Zenon
    <3> QED BY <3>4, <3>5, <3>6, <3>7
  <2>2. CASE provider # "macro"
    <3>1. player = [frames |-> <<>>, loop |-> FALSE, startTick |-> 0, currentIdx |-> 0,
                    finished |-> FALSE]
      BY <2>2 DEF SourceInit, NoMacro
    <3>2. 0 \in 0..ClockMod - 1
      BY ClockIsPositive, SMT
    <3>3. <<>> \in Frames /\ 0 <= Len(<<>>)
      BY EmptySeq DEF Frames
    <3>4. player \in Players
      BY <3>1, <3>2, <3>3 DEF Players
    <3>5. player.currentIdx <= Len(player.frames)
      BY <3>1, <3>3
    <3> QED BY <2>2, <3>4, <3>5
  <2> QED BY <2>1, <2>2
<1> QED BY <1>1, <1>2, <1>3, FixedReports DEF SourceInit, SourceTypeOK

-----------------------------------------------------------------------------
(* What a program may do to the path, and the world.                       *)

\* What XInput is shown of a report is one of its states,
LEMMA GamepadsAreStates ==
  ASSUME NEW r \in Report, NEW n \in 0..PacketMod - 1
  PROVE  XInputState(r, n) \in XInputStates
<1>1. \A byte : Pressed(byte, Mask0) \subseteq DOMAIN Mask0
  BY DEF Pressed
<1>2. \A dpad : Hat(dpad) \subseteq {"UP", "DOWN", "LEFT", "RIGHT"}
  BY SMT DEF Hat, Directions
<1>3. XInputButtons(r) \subseteq XInputNames
  BY <1>1, <1>2 DEF XInputButtons, XInputNames
<1>4. XInputGamepad(r) \in XInputGamepads
  BY <1>3 DEF XInputGamepad, XInputGamepads, Report
<1> QED BY <1>4 DEF XInputState, XInputStates

\* and never the baseline that was not taken.
LEMMA StateIsNoNull ==
  ASSUME NEW r \in Report, NEW n \in 0..PacketMod - 1
  PROVE  XInputState(r, n) # NoReport
  BY GamepadsAreStates, PathAssumption

\* A clamped number fits a stick, however the lower end is cut.
LEMMA Clamped ==
  ASSUME NEW v \in Int
  PROVE  /\ AtMost(AtLeast(v, -32768), 32767) \in Short
         /\ AtMost(AtLeast(v, -32767), 32767) \in Short
<1>1. ASSUME NEW w \in Int, w >= -32768 PROVE AtMost(w, 32767) \in Short
  BY <1>1, SMT DEF AtMost, Short
<1>2. /\ AtLeast(v, -32768) \in Int /\ AtLeast(v, -32768) >= -32768
      /\ AtLeast(v, -32767) \in Int /\ AtLeast(v, -32767) >= -32768
  BY SMT DEF AtLeast
<1> QED BY <1>1, <1>2

\* What the filters record of a native read is a report, whoever parses it.
LEMMA RecordedReports ==
  ASSUME NEW r \in Report
  PROVE  /\ ParseNativeReport(TranslateReport(r)) \in Report
         /\ LowerParseReport(TranslateReport(r)) \in Report
<1> DEFINE n == TranslateReport(r)
<1>1. /\ n.lx \in UShort /\ n.ly \in UShort /\ n.rx \in UShort /\ n.ry \in UShort
      /\ n.z = TriggerAxis(r) /\ n.b0 \in Byte /\ n.b1 = r.b1 % 16 /\ r.b1 \in Byte
  BY AxisRoundTrip DEF TranslateReport, Report
<1>2. n.b1 % 16 \in Byte
  BY <1>1, SMT DEF Byte
<1>3. ASSUME NEW v \in UShort
      PROVE  AxisU16ToI16(v) \in Short /\ LowerAxisU16ToI16(v) \in Short
  <2>1. v - 32768 \in Int
    BY SMT DEF UShort
  <2> QED BY <2>1, Clamped DEF AxisU16ToI16, LowerAxisU16ToI16
<1>4. DPadOf(n.hat) \in Byte
  <2>1. n.hat \in Int
    BY SMT DEF TranslateReport, Report, Byte
  <2>2. \A h \in Int : h # 0 /\ ~(h > 8) /\ h \in 0..255 => h - 1 \in Byte
    BY SMT DEF Byte
  <2>3. n.hat \in 0..255
    BY SMT DEF TranslateReport, Report, Byte, DPadNeutral
  <2> HIDE DEF n
  <2> QED BY <2>1, <2>2, <2>3, SMT DEF DPadOf, DPadNeutral, Byte
<1>5. LeftTrigger(n.z) \in Byte /\ RightTrigger(n.z) \in Byte
  <2>1. LeftTrigger(n.z) \in Nat /\ RightTrigger(n.z) \in Nat
    BY <1>1, TriggersAreNumbers
  <2>2. LeftTrigger(n.z) <= 255 /\ RightTrigger(n.z) <= 255
    <3>1. n.z \in Int
      <4>1. r.lt \in Int /\ r.rt \in Int
        BY DEF Report, Byte
      <4> QED BY <1>1, <4>1, SMT DEF TriggerAxis, AtMost, AtLeast
    <3>2. \A z \in Int : z < 32768 => (32768 - z) \div 128 \in Int
      BY SMT
    <3>3. \A z \in Int : z > 32768 => (z - 32768) \div 128 \in Int
      BY SMT
    <3>4. \A v \in Int : AtMost(v, 255) <= 255
      BY SMT DEF AtMost
    <3> HIDE DEF n
    <3> QED BY <3>1, <3>2, <3>3, <3>4, SMT DEF LeftTrigger, RightTrigger
  <2> QED BY <2>1, <2>2, SMT DEF Byte
<1> HIDE DEF n
<1>6. ParseNativeReport(n) \in Report
  BY <1>1, <1>2, <1>3, <1>4, <1>5 DEF ParseNativeReport, Report
<1>7. LowerParseReport(n) \in Report
  BY <1>1, <1>3, <1>6 DEF LowerParseReport, Report
<1> QED BY <1>6, <1>7 DEF n

\* The packet number stays below its modulus.
LEMMA PacketNumbers ==
  /\ PacketMod \in Nat /\ 0 \in 0..PacketMod - 1 /\ 1 \in 0..PacketMod - 1
  /\ \A n \in 0..PacketMod - 1 : (n + 1) % PacketMod \in 0..PacketMod - 1
<1>1. PacketMod \in Nat \ {0, 1}
  BY PathAssumption
<1> QED BY <1>1, SMT

-----------------------------------------------------------------------------
(* The steps of a program, as the path sees them.                          *)

\* ACQUIRE and ON of a feeder.
FeederTakes ==
  /\ WriterSessionHeld' = TRUE /\ OverrideEnabled' = TRUE
  /\ UNCHANGED <<LastInjectedReport, LastPresentedXInputReport, XInputPacketNumber,
                 QueueStarted, query, ReportsInjected>>

\* What a call of the library, a query or its answer does to the path.
Call ==
  \/ UNCHANGED <<writerVars, ReportsInjected, query>>
  \/ CanAcquire /\ AcquireWriterSession
  \/ CanAcquire /\ FeederTakes
  \/ CanOverride /\ OverrideOn
  \/ OverrideOff
  \/ ProbeControl
  \/ GiveBack
  \/ CanInject /\ \E r \in Report : InjectReport(r)
  \/ XInputGetState /\ (query' = Reply \/ UNCHANGED query)
  \/ query' = [is |-> "none"] /\ UNCHANGED <<writerVars, ReportsInjected>>

\* What XInput may do to a query of QuickVerify, whatever the path is at.
Unrefreshed ==
  \E s \in XInputStates :
    query' = [is |-> "stack", state |-> s] /\ UNCHANGED <<writerVars, ReportsInjected>>

ProgramStep == (Call \/ Unrefreshed) /\ UNCHANGED deviceVars

\* Whatever a session, an override, the queue and the reports of the clients do.
LEMMA NumbersFit ==
  ASSUME PathTypeOK, NEW r \in Report
  PROVE  NumberOf(r) \in 0..PacketMod - 1 /\ Snapshot(r).is = "filter"
         /\ Snapshot(r).state = XInputState(r, NumberOf(r)) /\ Snapshot(r).state \in XInputStates
<1>1. NumberOf(r) \in 0..PacketMod - 1
  BY PacketNumbers DEF NumberOf, PathTypeOK
<1> QED BY <1>1, GamepadsAreStates DEF Snapshot

\* The five cases of a reply.
LEMMA ReplyForms ==
  /\ ShowsInjected => Reply = Snapshot(LastInjectedReport)
  /\ OverrideEnabled /\ ~ShowsInjected /\ QueueStarted => Reply = [is |-> "parked"]
  /\ OverrideEnabled /\ ~ShowsInjected /\ ~QueueStarted => Reply = Failed
  /\ ~OverrideEnabled /\ power = "D0" =>
       Reply = [is |-> "stack", state |-> XInputState(physical, stackNumber)]
  /\ ~OverrideEnabled /\ power # "D0" => Reply = Failed
<1> USE DEF ShowsInjected
<1>1. ShowsInjected => Reply = Snapshot(LastInjectedReport)
  BY Zenon DEF Reply
<1>2. OverrideEnabled /\ ~ShowsInjected /\ QueueStarted => Reply = [is |-> "parked"]
  BY Zenon DEF Reply
<1>3. OverrideEnabled /\ ~ShowsInjected /\ ~QueueStarted => Reply = Failed
  BY Zenon DEF Reply
<1>4. ~OverrideEnabled /\ power = "D0" =>
        Reply = [is |-> "stack", state |-> XInputState(physical, stackNumber)]
  BY Zenon DEF Reply
<1>5. ~OverrideEnabled /\ power # "D0" => Reply = Failed
  BY Zenon DEF Reply
<1> QED BY <1>1, <1>2, <1>3, <1>4, <1>5, Zenon

\* A purge leaves no query parked.
LEMMA PurgeTypes ==
  ASSUME PathTypeOK, PurgePendingReads
  PROVE  /\ QueueStarted' = FALSE
         /\ query'.is \in {"none", "failed", "filter", "stack"}
         /\ query'.is \in {"filter", "stack"} => query'.state \in XInputStates
  BY DEF PurgePendingReads, Failed, PathTypeOK, Answers

\* The consistency of the flags, apart from the types.
LEMMA ProgramStepKeepsPath == PathTypeOK /\ ProgramStep => PathTypeOK'
<1> SUFFICES ASSUME PathTypeOK, ProgramStep PROVE PathTypeOK'
  OBVIOUS
<1>0. UNCHANGED <<power, id, physical, stackNumber, upperSeen, lowerSeen, touches, powers>>
  BY DEF ProgramStep, deviceVars
<1>1. CASE UNCHANGED <<writerVars, ReportsInjected, query>>
  BY <1>0, <1>1 DEF PathTypeOK, writerVars, Answers
<1>2. CASE CanAcquire /\ (AcquireWriterSession \/ FeederTakes)
  <2>1. power = "D0"
    BY <1>2 DEF CanAcquire, HasSupportedTarget
  <2>2. CASE AcquireWriterSession
    BY <1>0, <2>1, <2>2 DEF PathTypeOK, AcquireWriterSession, Answers
  <2>3. CASE FeederTakes
    BY <1>0, <2>1, <2>3 DEF PathTypeOK, FeederTakes, Answers
  <2> QED BY <1>2, <2>2, <2>3
<1>3. CASE CanOverride /\ OverrideOn
  BY <1>0, <1>3 DEF PathTypeOK, OverrideOn, CanOverride, Answers
<1>4. CASE OverrideOff
  BY <1>0, <1>4, PurgeTypes, PacketNumbers DEF PathTypeOK, OverrideOff, Answers, MaybeReport
<1>5. CASE ProbeControl
  <2>1. CASE power = "removed"
    BY <1>0, <1>5, <2>1 DEF PathTypeOK, ProbeControl, Answers
  <2>2. CASE power # "removed"
    BY <1>0, <1>5, <2>2, PurgeTypes DEF PathTypeOK, ProbeControl, Answers
  <2> QED BY <2>1, <2>2
<1>6. CASE GiveBack
  <2>1. CASE power = "removed"
    BY <1>0, <1>6, <2>1 DEF PathTypeOK, GiveBack, writerVars, Answers
  <2>2. CASE power # "removed"
    BY <1>0, <1>6, <2>2, PurgeTypes, PacketNumbers
       DEF PathTypeOK, GiveBack, ResetWriterState, Answers, MaybeReport
  <2> QED BY <2>1, <2>2
<1>7. CASE CanInject /\ \E r \in Report : InjectReport(r)
  <2>1. PICK r \in Report : InjectReport(r)
    BY <1>7
  <2>2. ReportsInjected' \in 0..MaxSent
    BY <2>1, PathAssumption, SMT DEF InjectReport, AtMost, PathTypeOK
  <2>3. CASE query.is = "parked"
    BY <1>0, <2>1, <2>2, <2>3, NumbersFit
       DEF PathTypeOK, InjectReport, Presents, Answers, MaybeReport
  <2>4. CASE query.is # "parked"
    BY <1>0, <2>1, <2>2, <2>4 DEF PathTypeOK, InjectReport, Answers, MaybeReport
  <2> QED BY <2>3, <2>4
<1>8. CASE XInputGetState /\ (query' = Reply \/ UNCHANGED query)
  <2>1. ShowsInjected => LastInjectedReport \in Report
    BY DEF ShowsInjected, PathTypeOK, MaybeReport
  <2>2. /\ XInputPacketNumber' \in 0..PacketMod - 1
        /\ LastPresentedXInputReport' \in MaybeReport
    BY <1>8, <2>1, NumbersFit DEF XInputGetState, Presents, PathTypeOK, MaybeReport
  <2>3. /\ Reply.is \in {"parked", "failed", "filter", "stack"}
        /\ Reply.is \in {"filter", "stack"} => Reply.state \in XInputStates
        /\ Reply.is = "parked" => OverrideEnabled /\ LastInjectedReport = NoReport
    <3>1. CASE ShowsInjected
      BY <2>1, <3>1, NumbersFit, ReplyForms
    <3>2. CASE ~ShowsInjected
      <4>1. XInputState(physical, stackNumber) \in XInputStates
        BY GamepadsAreStates DEF PathTypeOK
      <4> QED BY <3>2, <4>1, ReplyForms DEF ShowsInjected, Failed
    <3> QED BY <3>1, <3>2
  <2> QED BY <1>0, <1>8, <2>2, <2>3 DEF XInputGetState, PathTypeOK, Answers
<1>9. CASE query' = [is |-> "none"] /\ UNCHANGED <<writerVars, ReportsInjected>>
  BY <1>0, <1>9 DEF PathTypeOK, writerVars, Answers
<1>10. CASE Unrefreshed
  BY <1>0, <1>10 DEF Unrefreshed, PathTypeOK, writerVars, Answers
<1> QED BY <1>1, <1>2, <1>3, <1>4, <1>5, <1>6, <1>7, <1>8, <1>9, <1>10 DEF ProgramStep, Call

\* The power, a touch and a native read.
LEMMA WorldKeepsPath ==
  PathTypeOK /\ (PowerEvents \/ Touch \/ Reads) => PathTypeOK'
<1>1. ASSUME PathTypeOK, NEW state \in {"D3", "removed"}, LosesPower(state),
             UNCHANGED <<ReportsInjected, id, physical, stackNumber, lowerSeen, touches>>
      PROVE  PathTypeOK'
  <2>1. powers' \in 0..MaxPower
    BY <1>1, PathAssumption, SMT DEF LosesPower, PathTypeOK
  <2> QED BY <1>1, <2>1, PurgeTypes, PacketNumbers
          DEF PathTypeOK, LosesPower, ResetWriterState, Answers, MaybeReport
<1>2. PathTypeOK /\ (D0Exit \/ SurpriseRemoval) => PathTypeOK'
  BY <1>1 DEF D0Exit, SurpriseRemoval
<1>3. PathTypeOK /\ D0Entry => PathTypeOK'
  BY DEF PathTypeOK, D0Entry, writerVars, Answers
<1>4. PathTypeOK /\ Replug => PathTypeOK'
  BY PathAssumption, SMT DEF PathTypeOK, Replug, Answers, MaybeReport
<1>5. ASSUME PathTypeOK, Touch PROVE PathTypeOK'
  <2>1. touches' \in 0..MaxTouches
    BY <1>5, PathAssumption, SMT DEF Touch, PathTypeOK
  <2>2. stackNumber' \in 0..PacketMod - 1 /\ physical' \in Report
    BY <1>5, PathAssumption, PacketNumbers DEF Touch, PathTypeOK
  <2> QED BY <1>5, <2>1, <2>2 DEF PathTypeOK, Touch, writerVars, Answers
<1>6. ASSUME PathTypeOK, NEW code, NEW whole, NativeRead(code, whole) PROVE PathTypeOK'
  <2>1. {upperSeen', lowerSeen'} \subseteq MaybeReport
    BY <1>6, RecordedReports DEF NativeRead, PathTypeOK, MaybeReport
  <2> QED BY <1>6, <2>1 DEF PathTypeOK, NativeRead, writerVars, Answers
<1> QED BY <1>2, <1>3, <1>4, <1>5, <1>6 DEF PowerEvents, Reads

\* The path begins within its types.
LEMMA PathInitType == PathInit => PathTypeOK
<1> SUFFICES ASSUME PathInit PROVE PathTypeOK
  OBVIOUS
<1>1. 0 \in 0..MaxSent /\ 0 \in 0..MaxTouches /\ 0 \in 0..MaxPower
  BY PathAssumption, SMT
<1>2. /\ {XInputPacketNumber, stackNumber} \subseteq 0..PacketMod - 1
      /\ ReportsInjected \in 0..MaxSent
      /\ touches \in 0..MaxTouches /\ powers \in 0..MaxPower
  BY <1>1, PacketNumbers DEF PathInit
<1>3. /\ power = "D0" /\ id \in HardwareIds
      /\ {WriterSessionHeld, OverrideEnabled, QueueStarted} \subseteq BOOLEAN
      /\ ~OverrideEnabled
      /\ {LastInjectedReport, LastPresentedXInputReport, upperSeen, lowerSeen} = {NoReport}
      /\ physical \in Report
      /\ query.is = "none"
  BY FixedReports DEF PathInit
<1> QED BY <1>2, <1>3 DEF PathTypeOK, Answers, MaybeReport

\* A feeder only makes calls of the library, and injects reports.
LEMMA FeederIsProgram ==
  ASSUME TypeOK, tool = "feeder", Feeder \/ FeederStops
  PROVE  ProgramStep /\ SourceTypeOK' /\ UNCHANGED <<child, expired, base, saw, before, verdict, pad>>
<1>0. SourceTypeOK /\ provider \in Sources
  BY DEF TypeOK, SourceTypeOK
<1>1. CASE FeederOpens
  BY <1>0, <1>1 DEF FeederOpens, feederRest, ProgramStep, Call, SourceTypeOK, sourceVars, inputVars
<1>2. CASE FeederStart
  BY <1>0, <1>2 DEF FeederStart, feederRest, ProgramStep, Call, FeederTakes, SourceTypeOK,
                    sourceVars, inputVars
<1>3. CASE FeederTurn
  <2>1. CASE CanInject
    <3>1. GetReport /\ InjectReport(report') /\ UNCHANGED <<deviceVars, feederRest>>
      BY <1>3, <2>1 DEF FeederTurn
    <3>2. SourceTypeOK' /\ report' \in Report
      BY <1>0, <3>1, GetReportKeepsType
    <3>3. ProgramStep
      BY <2>1, <3>1, <3>2 DEF ProgramStep, Call
    <3> QED BY <3>1, <3>2, <3>3 DEF feederRest
  <2>2. CASE ~CanInject
    <3>1. /\ GetReport /\ AfterRefusal /\ UNCHANGED <<writerVars, query, ReportsInjected>>
          /\ UNCHANGED <<deviceVars, feederRest>>
      BY <1>3, <2>2 DEF FeederTurn
    <3>2. SourceTypeOK'
      BY <1>0, <3>1, GetReportKeepsType
    <3>3. ProgramStep
      BY <3>1 DEF ProgramStep, Call
    <3> QED BY <3>1, <3>2, <3>3 DEF feederRest
  <2> QED BY <2>1, <2>2
<1>4. CASE ScriptEnds \/ FeederStops
  BY <1>0, <1>4 DEF ScriptEnds, FeederStops, feederRest, ProgramStep, Call, SourceTypeOK, sourceVars,
                    inputVars, pathVars
<1>5. CASE FeederLeaves
  BY <1>0, <1>5 DEF FeederLeaves, feederRest, ProgramStep, Call, SourceTypeOK, sourceVars, inputVars
<1> QED BY <1>1, <1>2, <1>3, <1>4, <1>5 DEF Feeder

\* So do the verifiers, the child and the monitor, but for what XInput makes of
\* a query of QuickVerify.
LEMMA VerifierIsProgram ==
  /\ XInputAutoVerify \/ CmdTest \/ XInputCheck => Call /\ ProgramStep
  /\ QuickVerify => Call \/ AskUnrefreshed
  /\ VerifierTypeOK /\ QuickVerify => ProgramStep
<1> DEFINE Calls == Call /\ UNCHANGED deviceVars
<1>0. PressA \in Report /\ Neutral \in Report
  BY FixedReports
<1>1. \A from, to : Ask(from, to) => Calls
  BY DEF Ask, Call
<1>2. \A from : Take(from) => Calls
  BY DEF Take, Call
<1>3. QuickStart \/ QuickCount => Calls
  BY DEF QuickStart, QuickCount, Call
<1>4. QuickAcquire => Calls
  BY DEF QuickAcquire, Call
<1>5. QuickEnable => Calls
  BY DEF QuickEnable, Call
<1>6. QuickInject => Calls
  BY <1>0 DEF QuickInject, Call
<1>7. Leave => Calls
  BY DEF Leave, Call
<1>8. LaunchGaYmCliTest \/ AwaitChild => Calls
  BY DEF LaunchGaYmCliTest, AwaitChild, pathVars, Call
<1>9. CmdTest => Calls
  BY <1>0 DEF CmdTest, ChildCall, Call
<1>10. XInputCheck => Calls
  BY DEF XInputCheck, MonitorPolls, MonitorReturns, MonitorHeartbeat, Call
<1> HIDE DEF Calls
<1>11. QuickVerify => Calls \/ AskUnrefreshed
  BY <1>1, <1>2, <1>3, <1>4, <1>5, <1>6, <1>7
     DEF QuickVerify, WaitForPad, ProbeXInputAvailability, QuickSample
<1>12. XInputAutoVerify => Calls
  BY <1>1, <1>2, <1>7, <1>8 DEF XInputAutoVerify, CaptureAnyBaseline, ObserveAllPads
<1>13. VerifierTypeOK /\ AskUnrefreshed => Unrefreshed /\ UNCHANGED deviceVars
  BY DEF AskUnrefreshed, VerifierTypeOK, Unrefreshed
<1> QED BY <1>9, <1>10, <1>11, <1>12, <1>13 DEF ProgramStep, Calls

\* The types of the verifiers.
LEMMA VerifierKeepsType ==
  ASSUME PathTypeOK, VerifierTypeOK, QuickVerify \/ XInputAutoVerify
  PROVE  VerifierTypeOK'
<1> USE DEF Goes
<1>0. Answers => query.state \in XInputStates /\ query.state # NoReport
  BY PathAssumption DEF PathTypeOK
<1>1. Ask("probe", "probed") \/ Ask("reprobe", "reprobed") \/ Ask("sample", "sampled")
      \/ Ask("baseline", "based") \/ Ask("watch", "watched") => VerifierTypeOK'
  BY DEF Ask, VerifierTypeOK
<1>2. QuickStart => VerifierTypeOK'
  <2>1. ReportsInjected \in 0..MaxSent
    BY DEF PathTypeOK
  <2> QED BY <2>1 DEF QuickStart, DeviceInfo, Ends, VerifierTypeOK
<1>3. QuickAcquire => VerifierTypeOK'
  BY DEF QuickAcquire, Ends, VerifierTypeOK
<1>4. WaitForPad => VerifierTypeOK'
  BY <1>0 DEF WaitForPad, Take, Ends, VerifierTypeOK
<1>5. ProbeXInputAvailability => VerifierTypeOK'
  BY <1>0 DEF ProbeXInputAvailability, Take, VerifierTypeOK
<1>6. QuickEnable => VerifierTypeOK'
  BY DEF QuickEnable, Ends, VerifierTypeOK
<1>7. QuickInject => VerifierTypeOK'
  BY DEF QuickInject, Ends, VerifierTypeOK
<1>8. AskUnrefreshed \/ QuickSample => VerifierTypeOK'
  BY DEF AskUnrefreshed, QuickSample, Take, Loops, VerifierTypeOK
<1>9. QuickCount => VerifierTypeOK'
  BY DEF QuickCount, QuickVerdict, Ends, VerifierTypeOK
<1>10. Leave => VerifierTypeOK'
  BY DEF Leave, VerifierTypeOK
<1>11. LaunchGaYmCliTest => VerifierTypeOK'
  BY DEF LaunchGaYmCliTest, NoChild, VerifierTypeOK
<1>12. CaptureAnyBaseline => VerifierTypeOK'
  BY <1>0 DEF CaptureAnyBaseline, Take, VerifierTypeOK
<1>13. ObserveAllPads => VerifierTypeOK'
  BY DEF ObserveAllPads, Take, Loops, VerifierTypeOK
<1>14. AwaitChild => VerifierTypeOK'
  BY DEF AwaitChild, Ends, VerifierTypeOK
<1> QED BY <1>1, <1>2, <1>3, <1>4, <1>5, <1>6, <1>7, <1>8, <1>9, <1>10, <1>11, <1>12, <1>13, <1>14
        DEF QuickVerify, XInputAutoVerify

\* The child is at one of its calls, whichever fails.
LEMMA ChildKeepsType ==
  ASSUME VerifierTypeOK, CmdTest
  PROVE  VerifierTypeOK'
<1> DEFINE Places == {"none", "open", "acquire", "on", "inject", "neutral", "off", "release"}
<1>1. child \in [at : Places, failed : BOOLEAN]
  BY DEF VerifierTypeOK
<1>2. ASSUME NEW next \in Places, child' = [child EXCEPT !.at = next],
             UNCHANGED <<pc, expired, base, saw, before, verdict>>
      PROVE  VerifierTypeOK'
  <2>1. child' \in [at : Places, failed : BOOLEAN]
    BY <1>1, <1>2
  <2> QED BY <1>2, <2>1 DEF VerifierTypeOK
<1>3. ASSUME NEW next \in Places, child' = [at |-> next, failed |-> TRUE],
             UNCHANGED <<pc, expired, base, saw, before, verdict>>
      PROVE  VerifierTypeOK'
  <2>1. child' \in [at : Places, failed : BOOLEAN]
    BY <1>3
  <2> QED BY <1>3, <2>1 DEF VerifierTypeOK
<1>4. \E next \in Places :
        child' = [child EXCEPT !.at = next] \/ child' = [at |-> next, failed |-> TRUE]
  BY DEF CmdTest, ChildCall
<1>5. UNCHANGED <<pc, expired, base, saw, before, verdict>>
  BY DEF CmdTest, ChildCall
<1> QED BY <1>2, <1>3, <1>4, <1>5

-----------------------------------------------------------------------------
\* A verifier that leaves has a verdict.
VerdictGiven == verdict = "none" => pc \notin {"leave", "done"}

\* None of its steps takes it to its end without one.
LEMMA VerdictIsGiven ==
  ASSUME VerdictGiven, QuickVerify \/ XInputAutoVerify
  PROVE  VerdictGiven'
<1>1. \/ Ask("probe", "probed") \/ Ask("reprobe", "reprobed") \/ Ask("sample", "sampled")
      \/ Ask("baseline", "based") \/ Ask("watch", "watched") \/ AskUnrefreshed
      => VerdictGiven'
  BY DEF Ask, AskUnrefreshed, Goes, VerdictGiven
<1>2. QuickStart \/ QuickAcquire => VerdictGiven'
  BY DEF QuickStart, QuickAcquire, Ends, Goes, VerdictGiven
<1>3. WaitForPad \/ ProbeXInputAvailability => VerdictGiven'
  BY DEF WaitForPad, ProbeXInputAvailability, Ends, Goes, VerdictGiven
<1>4. QuickEnable \/ QuickInject \/ QuickSample => VerdictGiven'
  BY DEF QuickEnable, QuickInject, QuickSample, Loops, Ends, Goes, VerdictGiven
<1>5. QuickCount \/ Leave => VerdictGiven'
  BY DEF QuickCount, QuickVerdict, Leave, Ends, Goes, VerdictGiven
<1>6. LaunchGaYmCliTest \/ CaptureAnyBaseline \/ ObserveAllPads => VerdictGiven'
  BY DEF LaunchGaYmCliTest, CaptureAnyBaseline, ObserveAllPads, Loops, Goes, VerdictGiven
<1>7. AwaitChild => VerdictGiven'
  BY DEF AwaitChild, Ends, Goes, VerdictGiven
<1> QED BY <1>1, <1>2, <1>3, <1>4, <1>5, <1>6, <1>7 DEF QuickVerify, XInputAutoVerify

\* The source of a step of the world.
LEMMA ProviderStays ==
  /\ Feeder \/ FeederStops => UNCHANGED provider
  /\ WorldActs => UNCHANGED provider
<1>1. FeederOpens \/ FeederStart \/ ScriptEnds \/ FeederStops \/ FeederLeaves => UNCHANGED provider
  BY DEF FeederOpens, FeederStart, ScriptEnds, FeederStops, FeederLeaves, sourceVars
<1>2. FeederTurn => UNCHANGED provider
  BY DEF FeederTurn, GetReport
<1>3. WorldActs => UNCHANGED provider
  BY DEF WorldActs, KeyChanges, CursorMoves, DatagramArrives, Tick, NotAsked
<1> QED BY <1>1, <1>2, <1>3 DEF Feeder

\* Every variable of the path, the sources and the verifiers keeps its type,
\* the session is only held of a controller that is there, the override only
\* under a session, and a query is only parked under an override that has
\* nothing to show: for all keys, datagrams, macro files and shapes.
THEOREM FeedTypeCorrect == Spec => []TypeOK
<1>1. Init => TypeOK
  <2> SUFFICES ASSUME Init PROVE TypeOK
    OBVIOUS
  <2>1. SourceTypeOK
    <3>1. SourceInit(IF tool = "feeder" THEN Feeders ELSE {"none"})
      BY DEF Init
    <3>2. (IF tool = "feeder" THEN Feeders ELSE {"none"}) \in SUBSET (Sources \cup {"none"})
      BY FeedAssumption
    <3> QED BY <3>1, <3>2, SourceInitType
  <2>2. PathTypeOK
    BY PathInitType DEF Init
  <2>3. VerifierTypeOK
    <3>1. 0 \in 0..MaxSent
      BY PathAssumption, SMT
    <3> QED BY <3>1 DEF Init, VerifierInit, VerifierTypeOK, NoChild
  <2>4. tool = "feeder" <=> provider # "none"
    BY FeedAssumption DEF Init, SourceInit, Sources
  <2> QED BY <2>1, <2>2, <2>3, <2>4 DEF Init, VerifierInit, TypeOK
<1>2. TypeOK /\ [Next]_feedVars => TypeOK'
  <2> SUFFICES ASSUME TypeOK, [Next]_feedVars PROVE TypeOK'
    OBVIOUS
  <2>0. /\ PathTypeOK /\ SourceTypeOK /\ VerifierTypeOK
        /\ tool \in {"feeder"} \cup Tools
        /\ tool = "feeder" <=> provider # "none"
        /\ early \in BOOLEAN
        /\ tool # "feeder" => VerdictGiven
    BY DEF TypeOK, VerdictGiven
  <2>1. CASE tool = "feeder" /\ (Feeder \/ FeederStops) /\ UNCHANGED notes /\ UNCHANGED tool
    <3>1. ProgramStep /\ SourceTypeOK' /\ UNCHANGED <<child, expired, base, saw, before, verdict>>
      BY <2>1, FeederIsProgram
    <3>2. PathTypeOK'
      BY <2>0, <3>1, ProgramStepKeepsPath
    <3>3. VerifierTypeOK'
      <4>1. pc' \in {"acquire", "feeding", "leave", "done"}
        BY <2>1 DEF Feeder, FeederOpens, FeederStart, FeederTurn, AfterRefusal, ScriptEnds,
                    FeederStops, FeederLeaves, Goes
      <4> QED BY <2>0, <3>1, <4>1 DEF VerifierTypeOK
    <3> QED BY <2>0, <2>1, <3>1, <3>2, <3>3, ProviderStays DEF TypeOK, notes
  <2>2. CASE Verifier /\ UNCHANGED tool
    <3>1. QuickVerify \/ XInputAutoVerify
      BY <2>2 DEF Verifier
    <3>2. VerifierTypeOK'
      BY <2>0, <3>1, VerifierKeepsType
    <3>3. PathTypeOK'
      BY <2>0, <3>1, VerifierIsProgram, ProgramStepKeepsPath
    <3>4. SourceTypeOK' /\ UNCHANGED provider
      BY <2>0, <2>2 DEF Verifier, sourceVars, inputVars, SourceTypeOK
    <3>5. early' \in BOOLEAN
      BY <2>2 DEF Verifier, Notes
    <3>6. tool # "feeder" /\ VerdictGiven'
      BY <2>0, <2>2, <3>1, VerdictIsGiven DEF Verifier
    <3> QED BY <2>0, <2>2, <3>2, <3>3, <3>4, <3>5, <3>6 DEF TypeOK, VerdictGiven
  <2>3. CASE Child /\ UNCHANGED tool
    <3>1. CmdTest /\ UNCHANGED <<pc, verdict>> /\ UNCHANGED <<sourceVars, pad, notes>>
      BY <2>3 DEF Child, CmdTest, ChildCall
    <3>2. VerifierTypeOK' /\ PathTypeOK'
      BY <2>0, <3>1, ChildKeepsType, VerifierIsProgram, ProgramStepKeepsPath
    <3>3. SourceTypeOK' /\ UNCHANGED provider
      BY <2>0, <3>1 DEF sourceVars, inputVars, SourceTypeOK
    <3> QED BY <2>0, <2>3, <3>1, <3>2, <3>3 DEF TypeOK, notes, VerdictGiven
  <2>4. CASE Monitor /\ UNCHANGED tool
    <3>1. XInputCheck /\ UNCHANGED <<sourceVars, verifierVars, notes>>
      BY <2>4 DEF Monitor
    <3>2. PathTypeOK'
      BY <2>0, <3>1, VerifierIsProgram, ProgramStepKeepsPath
    <3>3. SourceTypeOK' /\ UNCHANGED provider
      BY <2>0, <3>1 DEF sourceVars, inputVars, SourceTypeOK
    <3>4. VerifierTypeOK' /\ UNCHANGED <<pc, verdict>>
      BY <2>0, <3>1 DEF verifierVars, VerifierTypeOK
    <3> QED BY <2>0, <2>4, <3>1, <3>2, <3>3, <3>4 DEF TypeOK, notes, VerdictGiven
  <2>5. CASE /\ PowerEvents \/ (tool # "feeder" /\ Touch) \/ (tool = "reader" /\ Reads)
             /\ UNCHANGED <<sourceVars, verifierVars, pad, notes>> /\ UNCHANGED tool
    <3>1. PathTypeOK'
      BY <2>0, <2>5, WorldKeepsPath
    <3>2. SourceTypeOK' /\ UNCHANGED provider
      BY <2>0, <2>5 DEF sourceVars, inputVars, SourceTypeOK
    <3>3. VerifierTypeOK' /\ UNCHANGED <<pc, verdict>>
      BY <2>0, <2>5 DEF verifierVars, VerifierTypeOK
    <3> QED BY <2>0, <2>5, <3>1, <3>2, <3>3 DEF TypeOK, notes, VerdictGiven
  <2>6. CASE WorldActs /\ UNCHANGED <<pathVars, verifierVars, pad, notes>> /\ UNCHANGED tool
    <3>1. SourceTypeOK' /\ UNCHANGED provider
      BY <2>0, <2>6, WorldActsKeepType, ProviderStays
    <3>2. PathTypeOK'
      BY <2>0, <2>6 DEF pathVars, writerVars, deviceVars, PathTypeOK, Answers
    <3>3. VerifierTypeOK' /\ UNCHANGED <<pc, verdict>>
      BY <2>0, <2>6 DEF verifierVars, VerifierTypeOK
    <3> QED BY <2>0, <2>6, <3>1, <3>2, <3>3 DEF TypeOK, notes, VerdictGiven
  <2>7. CASE Expire /\ UNCHANGED <<sourceVars, pad, notes>> /\ UNCHANGED tool
    <3>1. SourceTypeOK' /\ UNCHANGED provider
      BY <2>0, <2>7 DEF sourceVars, inputVars, SourceTypeOK
    <3>2. PathTypeOK'
      BY <2>0, <2>7 DEF Expire, pathVars, writerVars, deviceVars, PathTypeOK, Answers
    <3>3. VerifierTypeOK' /\ UNCHANGED <<pc, verdict>>
      BY <2>0, <2>7 DEF Expire, VerifierTypeOK
    <3> QED BY <2>0, <2>7, <3>1, <3>2, <3>3 DEF TypeOK, notes, VerdictGiven
  <2>8. CASE UNCHANGED feedVars
    <3>1. SourceTypeOK' /\ UNCHANGED provider
      BY <2>0, <2>8 DEF feedVars, sourceVars, inputVars, SourceTypeOK
    <3>2. PathTypeOK'
      BY <2>0, <2>8 DEF feedVars, pathVars, writerVars, deviceVars, PathTypeOK, Answers
    <3>3. VerifierTypeOK' /\ UNCHANGED <<pc, verdict>>
      BY <2>0, <2>8 DEF feedVars, verifierVars, VerifierTypeOK
    <3> QED BY <2>0, <2>8, <3>1, <3>2, <3>3 DEF TypeOK, feedVars, notes, VerdictGiven
  <2>9. Next \/ UNCHANGED feedVars
    OBVIOUS
  <2> QED BY <2>1, <2>2, <2>3, <2>4, <2>5, <2>6, <2>7, <2>8, <2>9 DEF Next, World
<1> QED BY <1>1, <1>2, PTL DEF Spec

-----------------------------------------------------------------------------
(* The kinds of steps, for the invariants about programs.                  *)

\* A feeder, with its source.
FeederStep == tool = "feeder" /\ (Feeder \/ FeederStops) /\ ProgramStep /\ UNCHANGED notes

\* The power.
PowerStep == PowerEvents /\ UNCHANGED <<verifierVars, notes>>

\* The user at the controller.
TouchStep == tool # "feeder" /\ Touch /\ UNCHANGED <<verifierVars, notes>>

\* Native reads, the world of the sources, the time of a loop, and nothing.
QuietStep ==
  UNCHANGED <<writerVars, ReportsInjected, query, power, id, physical, stackNumber, touches, powers,
              pc, child, base, saw, before, verdict, notes>>

\* Every step is of one of the kinds.
LEMMA StepKinds ==
  ASSUME TypeOK, [Next]_feedVars
  PROVE  /\ UNCHANGED tool
         /\ \/ FeederStep
            \/ Verifier /\ ProgramStep
            \/ Child /\ ProgramStep /\ UNCHANGED notes
            \/ Monitor /\ ProgramStep /\ UNCHANGED <<verifierVars, notes>>
            \/ PowerStep \/ TouchStep \/ QuietStep
<1>1. (Feeder \/ FeederStops) /\ tool = "feeder" /\ UNCHANGED notes => FeederStep
  BY FeederIsProgram DEF FeederStep
<1>2. /\ Verifier => ProgramStep
      /\ Child => ProgramStep /\ UNCHANGED notes
      /\ Monitor => ProgramStep /\ UNCHANGED <<verifierVars, notes>>
  BY VerifierIsProgram DEF Verifier, Child, Monitor, TypeOK
<1>3. ASSUME World PROVE PowerStep \/ TouchStep \/ QuietStep
  <2>1. CASE PowerEvents /\ UNCHANGED <<sourceVars, verifierVars, pad, notes>>
    BY <2>1 DEF PowerStep
  <2>2. CASE tool # "feeder" /\ Touch /\ UNCHANGED <<sourceVars, verifierVars, pad, notes>>
    BY <2>2 DEF TouchStep
  <2>3. CASE Reads /\ UNCHANGED <<sourceVars, verifierVars, pad, notes>>
    BY <2>3 DEF Reads, NativeRead, QuietStep, verifierVars
  <2>4. CASE WorldActs /\ UNCHANGED <<pathVars, verifierVars, pad, notes>>
    BY <2>4 DEF QuietStep, pathVars, deviceVars, verifierVars
  <2>5. CASE Expire /\ UNCHANGED <<sourceVars, pad, notes>>
    BY <2>5 DEF Expire, QuietStep, pathVars, deviceVars
  <2> QED BY <1>3, <2>1, <2>2, <2>3, <2>4, <2>5 DEF World
<1>4. UNCHANGED feedVars => QuietStep /\ UNCHANGED tool
  BY DEF feedVars, QuietStep, pathVars, deviceVars, verifierVars
<1> QED BY <1>1, <1>2, <1>3, <1>4 DEF Next

-----------------------------------------------------------------------------
\* A program has opened the controller, and so has stopped the queue.
Opened ==
  \/ tool \in {"feeder", "QuickVerify"} /\ pc # "start"
  \/ child.at \notin {"none", "open"}

\* On a controller that was never away, before any program can hold the
\* session the queue is stopped.
QueueInv ==
  powers = 0 =>
    /\ power = "D0"
    /\ query.is # "parked"
    /\ WriterSessionHeld \/ Opened => ~QueueStarted

\* No step of a program starts the queue again, and none is parked.
LEMMA ProgramsDoNotWait ==
  ASSUME TypeOK, QueueInv, powers = 0, ProgramStep
  PROVE  /\ powers' = 0 /\ power' = "D0"
         /\ query'.is # "parked"
         /\ QueueStarted' => QueueStarted
<1>0. /\ powers' = powers /\ power' = power /\ power = "D0" /\ query.is # "parked"
      /\ WriterSessionHeld => ~QueueStarted
      /\ OverrideEnabled => WriterSessionHeld
  BY DEF QueueInv, ProgramStep, deviceVars, TypeOK, PathTypeOK
<1>1. CASE UNCHANGED <<writerVars, ReportsInjected, query>>
  BY <1>0, <1>1 DEF writerVars
<1>2. CASE AcquireWriterSession \/ FeederTakes \/ OverrideOn
  BY <1>0, <1>2 DEF AcquireWriterSession, FeederTakes, OverrideOn
<1>3. CASE OverrideOff \/ ProbeControl \/ GiveBack
  BY <1>0, <1>3 DEF OverrideOff, ProbeControl, GiveBack, ResetWriterState, PurgePendingReads
<1>4. CASE \E r \in Report : InjectReport(r)
  BY <1>0, <1>4 DEF InjectReport
<1>5. CASE XInputGetState /\ (query' = Reply \/ UNCHANGED query)
  <2>1. Reply.is # "parked"
    BY <1>0, ReplyForms DEF Snapshot, Failed
  <2> QED BY <1>0, <1>5, <2>1 DEF XInputGetState
<1>6. CASE query' = [is |-> "none"] /\ UNCHANGED <<writerVars, ReportsInjected>>
  BY <1>0, <1>6 DEF writerVars
<1>7. CASE Unrefreshed
  BY <1>0, <1>7 DEF Unrefreshed, writerVars
<1> QED BY <1>1, <1>2, <1>3, <1>4, <1>5, <1>6, <1>7 DEF ProgramStep, Call

\* The step with which a program comes to have opened the controller stops the
\* queue, and a session is only got after it.
LEMMA OpeningStopsTheQueue ==
  ASSUME power = "D0", UNCHANGED tool,
         \/ FeederStep \/ Verifier \/ Child
         \/ Monitor /\ UNCHANGED verifierVars,
         WriterSessionHeld' \/ Opened'
  PROVE  WriterSessionHeld \/ Opened \/ ~QueueStarted'
<1>1. CASE FeederStep
  <2>1. pc = "start" => ~QueueStarted'
    BY <1>1 DEF FeederStep, Feeder, FeederOpens, FeederStart, FeederTurn, ScriptEnds, FeederStops,
                FeederLeaves, ProbeControl, PurgePendingReads
  <2> QED BY <1>1, <2>1 DEF FeederStep, Opened
<1>2. CASE Verifier /\ tool = "QuickVerify"
  <2>1. QuickVerify
    BY <1>2 DEF Verifier
  <2>2. pc = "start" => ~QueueStarted'
    BY <1>2, <2>1
       DEF QuickVerify, QuickStart, QuickAcquire, Ask, WaitForPad, ProbeXInputAvailability,
           QuickEnable, QuickInject, AskUnrefreshed, QuickSample, QuickCount, Leave, Take, ProbeControl,
           PurgePendingReads
  <2> QED BY <1>2, <2>2 DEF Opened
<1>3. CASE Verifier /\ tool = "XInputAutoVerify"
  <2>1. (WriterSessionHeld' => WriterSessionHeld) /\ (child' = child \/ child'.at = "open")
    <3>1. XInputAutoVerify
      BY <1>3 DEF Verifier
    <3>2. \A from, to : Ask(from, to) => WriterSessionHeld' = WriterSessionHeld /\ child' = child
      BY DEF Ask, XInputGetState
    <3>3. LaunchGaYmCliTest => WriterSessionHeld' = WriterSessionHeld /\ child'.at = "open"
      BY DEF LaunchGaYmCliTest, NoChild, pathVars, writerVars
    <3>4. CaptureAnyBaseline \/ ObserveAllPads \/ AwaitChild
          => WriterSessionHeld' = WriterSessionHeld /\ child' = child
      BY DEF CaptureAnyBaseline, ObserveAllPads, AwaitChild, Take, pathVars, writerVars
    <3>5. Leave => (WriterSessionHeld' => WriterSessionHeld) /\ child' = child
      BY DEF Leave, GiveBack, ResetWriterState, writerVars
    <3> QED BY <3>1, <3>2, <3>3, <3>4, <3>5 DEF XInputAutoVerify
  <2> QED BY <1>3, <2>1 DEF Opened
<1>4. CASE Child
  <2>1. child.at \in {"none", "open"} => ~QueueStarted'
    BY <1>4 DEF Child, CmdTest, ChildCall, ProbeControl, PurgePendingReads
  <2> QED BY <2>1 DEF Opened
<1>5. CASE Monitor /\ UNCHANGED verifierVars
  <2>1. WriterSessionHeld' = WriterSessionHeld
    BY <1>5 DEF Monitor, XInputCheck, MonitorPolls, MonitorReturns, MonitorHeartbeat, ProbeControl,
                XInputGetState, writerVars
  <2> QED BY <1>5, <2>1 DEF Opened, verifierVars
<1> QED BY <1>1, <1>2, <1>3, <1>4, <1>5 DEF Verifier

\* The queue stays stopped as long as the controller is there.
LEMMA QueueStaysStopped == TypeOK /\ QueueInv /\ [Next]_feedVars => QueueInv'
<1> SUFFICES ASSUME TypeOK, QueueInv, [Next]_feedVars, powers' = 0
             PROVE  /\ power' = "D0" /\ query'.is # "parked"
                    /\ WriterSessionHeld' \/ Opened' => ~QueueStarted'
  BY DEF QueueInv
<1>1. CASE ProgramStep
  <2>1. powers = 0 /\ power = "D0"
    BY <1>1 DEF ProgramStep, deviceVars, QueueInv
  <2>2. UNCHANGED tool /\ (FeederStep \/ Verifier \/ Child \/ (Monitor /\ UNCHANGED verifierVars)
                           \/ PowerStep \/ TouchStep \/ QuietStep)
    BY StepKinds
  <2>3. power' = "D0" /\ query'.is # "parked" /\ (QueueStarted' => QueueStarted)
    BY <1>1, <2>1, ProgramsDoNotWait
  <2>4. CASE FeederStep \/ Verifier \/ Child \/ (Monitor /\ UNCHANGED verifierVars)
    BY <2>1, <2>2, <2>3, <2>4, OpeningStopsTheQueue DEF QueueInv
  <2>5. CASE PowerStep \/ TouchStep
    BY <1>1, <2>1, <2>5, SMT
       DEF PowerStep, PowerEvents, D0Exit, SurpriseRemoval, LosesPower, D0Entry, Replug, TouchStep,
           Touch, ProgramStep, deviceVars, TypeOK, PathTypeOK
  <2>6. CASE QuietStep
    BY <2>1, <2>2, <2>6 DEF QuietStep, writerVars, QueueInv, Opened
  <2> QED BY <2>2, <2>4, <2>5, <2>6
<1>2. CASE PowerStep
  <2>1. powers \in 0..MaxPower
    BY DEF TypeOK, PathTypeOK
  <2>2. powers # 0 \/ power = "D0"
    BY DEF QueueInv
  <2> QED BY <1>2, <2>1, <2>2, SMT
          DEF PowerStep, PowerEvents, D0Exit, SurpriseRemoval, LosesPower, D0Entry, Replug
<1>3. CASE TouchStep
  BY <1>3, StepKinds DEF TouchStep, Touch, verifierVars, writerVars, QueueInv, Opened
<1>4. CASE QuietStep
  BY <1>4, StepKinds DEF QuietStep, writerVars, QueueInv, Opened
<1> QED BY <1>1, <1>2, <1>3, <1>4, StepKinds DEF FeederStep

\* No state query of a controller that was never away waits for a report.
THEOREM NobodyEverWaits == Spec => []NobodyWaits
<1>1. Init => QueueInv
  BY DEF Init, PathInit, VerifierInit, NoChild, QueueInv, Opened
<1>2. TypeOK /\ QueueInv => NobodyWaits
  BY PathAssumption, SMT DEF TypeOK, PathTypeOK, QueueInv, NobodyWaits
<1> QED BY <1>1, <1>2, FeedTypeCorrect, QueueStaysStopped, PTL DEF Spec

-----------------------------------------------------------------------------
\* Each use of the machine has its programs.
UseInv ==
  /\ tool # "XInputAutoVerify" => child = NoChild
  /\ tool # "reader" => UpperSupports
  /\ tool \notin {"QuickVerify", "XInputAutoVerify"} => verdict = "none"

\* No step changes what the use of the machine is.
LEMMA UsesStay == TypeOK /\ UseInv /\ [Next]_feedVars => UseInv'
<1> SUFFICES ASSUME TypeOK, UseInv, [Next]_feedVars PROVE UseInv'
  OBVIOUS
<1>1. UNCHANGED tool
  BY StepKinds
<1>2. id' = id => UpperSupports' = UpperSupports
  BY DEF UpperSupports
<1>3. CASE FeederStep
  <2>1. UNCHANGED <<child, verdict, id>>
    BY <1>3, FeederIsProgram DEF FeederStep, ProgramStep, deviceVars
  <2> QED BY <1>1, <1>2, <2>1 DEF UseInv
<1>4. CASE Verifier /\ ProgramStep
  <2>1. UNCHANGED id
    BY <1>4 DEF ProgramStep, deviceVars
  <2>2. tool = "QuickVerify" => UNCHANGED child
    <3>1. QuickVerify => UNCHANGED child
      BY DEF QuickVerify, QuickStart, QuickAcquire, Ask, WaitForPad, ProbeXInputAvailability,
             QuickEnable, QuickInject, AskUnrefreshed, QuickSample, QuickCount, Leave, Take
    <3> QED BY <1>4, <3>1 DEF Verifier
  <2> QED BY <1>1, <1>2, <1>4, <2>1, <2>2 DEF UseInv, Verifier
<1>5. CASE Child /\ ProgramStep
  <2>1. UNCHANGED <<verdict, id>> /\ child.at # "none"
    BY <1>5 DEF Child, CmdTest, ChildCall, ProgramStep, deviceVars
  <2> QED BY <1>1, <1>2, <2>1 DEF UseInv, NoChild
<1>6. CASE Monitor /\ ProgramStep /\ UNCHANGED <<verifierVars, notes>>
  BY <1>1, <1>2, <1>6 DEF UseInv, verifierVars, ProgramStep, deviceVars
<1>7. CASE PowerStep
  BY <1>1, <1>2, <1>7
     DEF UseInv, verifierVars, PowerStep, PowerEvents, D0Exit, SurpriseRemoval, D0Entry, Replug
<1>8. CASE TouchStep
  BY <1>1, <1>2, <1>8 DEF UseInv, verifierVars, TouchStep, Touch
<1>9. CASE QuietStep
  BY <1>1, <1>2, <1>9 DEF UseInv, QuietStep
<1> QED BY <1>3, <1>4, <1>5, <1>6, <1>7, <1>8, <1>9, StepKinds

\* While the controller was never away the power is not what changes.
LEMMA AwayNever ==
  ASSUME TypeOK, QueueInv, [Next]_feedVars, powers' = 0
  PROVE  powers = 0 /\ power = "D0" /\ ~PowerStep
<1>1. ASSUME NEW state, powers \in Nat, LosesPower(state) PROVE powers' # 0
  BY <1>1, SMT DEF LosesPower
<1>2. powers \in Nat
  BY SMT, PathAssumption DEF TypeOK, PathTypeOK
<1>3. PowerStep => powers' # 0 \/ (power # "D0" /\ powers' = powers)
  BY <1>1, <1>2 DEF PowerStep, PowerEvents, D0Exit, SurpriseRemoval, D0Entry, Replug
<1>4. ~PowerStep
  BY <1>3 DEF QueueInv
<1>5. powers' = powers
  BY <1>4, StepKinds DEF FeederStep, ProgramStep, deviceVars, TouchStep, Touch, QuietStep
<1> QED BY <1>4, <1>5 DEF QueueInv

\* What the verifiers inject shows: the button, and the stick far from rest.
LEMMA PressIsSeen ==
  /\ "A" \in XInputGamepad(PressA).buttons
  /\ XInputGamepad(PressA).lx = 32767 /\ XInputGamepad(Neutral).lx = 0
<1>2. "A" \in DOMAIN Mask0 /\ Mask0["A"] = 1 /\ Mask0.A = 1
  BY DEF Mask0
<1>1. PressA.b0 = 1 /\ PressA.lx = 32767
  BY <1>2 DEF PressA, Neutral, AxisMax
<1>3. (1 \div 1) % 2 = 1
  BY SMT
<1>4. "A" \in Pressed(1, Mask0)
  BY <1>2, <1>3 DEF Pressed
<1> QED BY <1>1, <1>4 DEF XInputGamepad, XInputButtons, Neutral

-----------------------------------------------------------------------------
\* The verifier was shown a state by the filter.
FilterSeen == \E answer \in sampled : answer[1] = "filter"

\* And what it injects itself.
PressSeen == <<"filter", XInputGamepad(PressA)>> \in sampled

\* An answer is seen when it is taken.
LEMMA SeenGrows ==
  ASSUME Notes
  PROVE  /\ FilterSeen => FilterSeen'
         /\ PressSeen => PressSeen'
         /\ FilterSeen' => FilterSeen \/ (query.is = "filter" /\ query'.is = "none")
         /\ tool \in {"QuickVerify", "XInputAutoVerify"} /\ query.is = "filter"
            /\ query'.is = "none"
            => FilterSeen' /\ <<"filter", query.state.gamepad>> \in sampled'
<1>1. sampled \subseteq sampled'
  BY DEF Notes
<1>2. ASSUME NEW answer \in sampled', answer \notin sampled
      PROVE  answer[1] = query.is /\ query'.is = "none"
  BY <1>2 DEF Notes
<1>3. tool \in {"QuickVerify", "XInputAutoVerify"} /\ query.is = "filter" /\ query'.is = "none"
      => <<"filter", query.state.gamepad>> \in sampled'
  BY DEF Notes, Answers
<1>4. <<"filter", query.state.gamepad>>[1] = "filter"
  OBVIOUS
<1>5. FilterSeen => FilterSeen'
  BY <1>1 DEF FilterSeen
<1>6. FilterSeen' => FilterSeen \/ (query.is = "filter" /\ query'.is = "none")
  BY <1>2 DEF FilterSeen
<1>7. <<"filter", query.state.gamepad>> \in sampled' => FilterSeen'
  BY <1>4 DEF FilterSeen
<1> QED BY <1>1, <1>3, <1>5, <1>6, <1>7 DEF PressSeen

\* QuickVerify on a controller that is never away.
QuickInv ==
  tool = "QuickVerify" /\ powers = 0 =>
    /\ WriterSessionHeld <=> pc \notin {"start", "acquire", "done"}
    /\ OverrideEnabled <=> pc \in {"drive", "sample", "sampled", "count", "leave"}
    /\ IF pc = "start" THEN ReportsInjected = 0 ELSE before = 0
    /\ pc \in {"probed", "reprobed"} => query.is = "stack"
    /\ pc \in {"sample", "sampled", "count"} =>
         LastInjectedReport = PressA /\ ReportsInjected > 0
    /\ pc = "sampled" =>
         query.is = "stack" \/ (query.is = "filter" /\ query.state.gamepad = XInputGamepad(PressA))
    /\ IF pc \in {"leave", "done"} THEN verdict \in {"PASS", "FAIL"} ELSE verdict = "none"

\* Its steps.
LEMMA QuickStepKeeps ==
  ASSUME TypeOK, QueueInv, UseInv, QuickInv, tool = "QuickVerify", UNCHANGED tool, powers = 0,
         QuickVerify
  PROVE  QuickInv'
<1>0. /\ power = "D0" /\ query.is # "parked" /\ UpperSupports
      /\ ReportsInjected \in Nat /\ MaxSent \in Nat \ {0} /\ ReportsInjected <= MaxSent
  BY PathAssumption, SMT DEF QueueInv, UseInv, TypeOK, PathTypeOK
<1>1. CASE QuickStart
  BY <1>0, <1>1 DEF QuickInv, QuickStart, DeviceInfo, Goes, Ends, ProbeControl
<1>2. CASE QuickAcquire
  BY <1>0, <1>2 DEF QuickInv, QuickAcquire, CanAcquire, HasSupportedTarget, AcquireWriterSession, Goes
<1>3. CASE Ask("probe", "probed") \/ Ask("reprobe", "reprobed")
  <2>1. Reply.is = "stack"
    BY <1>0, <1>3, ReplyForms DEF Ask, QuickInv
  <2> QED BY <1>3, <2>1 DEF Ask, QuickInv, XInputGetState, Goes
<1>4. CASE WaitForPad
  BY <1>4 DEF WaitForPad, Take, QuickInv, Answers, Goes, writerVars
<1>5. CASE ProbeXInputAvailability
  BY <1>5 DEF ProbeXInputAvailability, Take, QuickInv, Answers, Goes, writerVars
<1>6. CASE QuickEnable
  BY <1>0, <1>6 DEF QuickEnable, CanOverride, HasSupportedTarget, OverrideOn, QuickInv, Goes
<1>7. CASE QuickInject
  <2>1. InjectReport(PressA) /\ Goes("sample") /\ UNCHANGED <<verdict, before>>
    BY <1>0, <1>7 DEF QuickInject, CanInject, CanOverride, HasSupportedTarget, QuickInv
  <2>2. ReportsInjected' > 0
    BY <1>0, <2>1, SMT DEF InjectReport, AtMost
  <2> QED BY <1>7, <2>1, <2>2 DEF QuickInject, InjectReport, QuickInv, Goes
<1>8. CASE Ask("sample", "sampled")
  <2>1. ShowsInjected /\ LastInjectedReport = PressA
    BY <1>8, FixedReports, PathAssumption DEF Ask, QuickInv, ShowsInjected
  <2>2. Reply.is = "filter" /\ Reply.state.gamepad = XInputGamepad(PressA)
    BY <2>1, ReplyForms DEF Snapshot, XInputState
  <2> QED BY <1>8, <2>2 DEF Ask, QuickInv, XInputGetState, Goes
<1>9. CASE AskUnrefreshed
  BY <1>9 DEF AskUnrefreshed, QuickInv, Goes, writerVars
<1>10. CASE QuickSample
  BY <1>10 DEF QuickSample, Take, QuickInv, Loops, Goes, writerVars
<1>11. CASE QuickCount
  <2>1. verdict' \in {"PASS", "FAIL"}
    BY <1>0, <1>11 DEF QuickCount, QuickVerdict, Ends
  <2> QED BY <1>11, <2>1 DEF QuickCount, Ends, Goes, ProbeControl, QuickInv
<1>12. CASE Leave
  BY <1>0, <1>12 DEF Leave, GiveBack, ResetWriterState, Goes, QuickInv
<1> QED BY <1>1, <1>2, <1>3, <1>4, <1>5, <1>6, <1>7, <1>8, <1>9, <1>10, <1>11, <1>12
        DEF QuickVerify

\* And what happens beside it leaves the session of QuickVerify alone.
LEMMA BesideQuickVerify ==
  ASSUME TypeOK, QueueInv, UseInv, [Next]_feedVars, tool' = "QuickVerify", powers' = 0
  PROVE  /\ tool = "QuickVerify" /\ UNCHANGED tool /\ powers = 0 /\ power = "D0"
         /\ \/ QuickVerify /\ Notes
            \/ UNCHANGED <<WriterSessionHeld, OverrideEnabled, LastInjectedReport,
                           ReportsInjected, query, pc, base, before, saw, verdict, sampled>>
<1>1. tool = "QuickVerify" /\ UNCHANGED tool /\ powers = 0 /\ power = "D0" /\ ~PowerStep
  BY StepKinds, AwayNever
<1>2. Verifier => QuickVerify /\ Notes
  BY <1>1 DEF Verifier
<1>3. ~Child /\ ~Monitor /\ ~FeederStep
  BY <1>1 DEF Child, CmdTest, ChildCall, UseInv, NoChild, Monitor, FeederStep
<1>4. TouchStep \/ QuietStep
      => UNCHANGED <<WriterSessionHeld, OverrideEnabled, LastInjectedReport,
                     ReportsInjected, query, pc, base, before, saw, verdict, sampled>>
  BY DEF TouchStep, Touch, QuietStep, writerVars, verifierVars, notes
<1> QED BY <1>1, <1>2, <1>3, <1>4, StepKinds

\* On a controller that is never away QuickVerify has what it asked for.
LEMMA QuickVerifyKeeps ==
  ASSUME TypeOK, QueueInv, UseInv, QuickInv, [Next]_feedVars
  PROVE  QuickInv'
<1> SUFFICES ASSUME tool' = "QuickVerify", powers' = 0 PROVE QuickInv'
  BY DEF QuickInv
<1>1. /\ tool = "QuickVerify" /\ UNCHANGED tool /\ powers = 0 /\ power = "D0"
      /\ \/ QuickVerify /\ Notes
         \/ UNCHANGED <<WriterSessionHeld, OverrideEnabled, LastInjectedReport,
                        ReportsInjected, query, pc, base, before, saw, verdict, sampled>>
  BY BesideQuickVerify
<1>2. CASE QuickVerify
  BY <1>1, <1>2, QuickStepKeeps
<1>3. CASE UNCHANGED <<WriterSessionHeld, OverrideEnabled, LastInjectedReport,
                       ReportsInjected, query, pc, base, before, saw, verdict, sampled>>
  BY <1>1, <1>3 DEF QuickInv
<1> QED BY <1>1, <1>2, <1>3

\* What QuickVerify was shown by the filter is what it injects, and it passes
\* for that.
QuickSeenInv ==
  tool = "QuickVerify" /\ powers = 0 /\ FilterSeen =>
    /\ PressSeen /\ "A" \in saw
    /\ pc \in {"leave", "done"} => verdict = "PASS"

\* Its steps: a sample that the filter answers has the button in it.
LEMMA QuickSeenKeeps ==
  ASSUME TypeOK, QueueInv, UseInv, QuickInv, QuickSeenInv, [Next]_feedVars
  PROVE  QuickSeenInv'
<1> SUFFICES ASSUME tool' = "QuickVerify", powers' = 0, FilterSeen'
             PROVE  /\ PressSeen' /\ "A" \in saw'
                    /\ pc' \in {"leave", "done"} => verdict' = "PASS"
  BY DEF QuickSeenInv
<1>1. /\ tool = "QuickVerify" /\ UNCHANGED tool /\ powers = 0 /\ power = "D0"
      /\ \/ QuickVerify /\ Notes
         \/ UNCHANGED <<WriterSessionHeld, OverrideEnabled, LastInjectedReport,
                        ReportsInjected, query, pc, base, before, saw, verdict, sampled>>
  BY BesideQuickVerify
<1>2. QuickInv'
  BY QuickVerifyKeeps
<1>3. pc' \in {"leave", "done"} => verdict' \in {"PASS", "FAIL"}
  BY <1>1, <1>2 DEF QuickInv
<1>4. ASSUME Notes, UNCHANGED saw, query.is = "filter" => query'.is # "none"
      PROVE  FilterSeen /\ PressSeen' /\ "A" \in saw'
  BY <1>1, <1>4, SeenGrows DEF QuickSeenInv
<1>5. CASE UNCHANGED <<pc, saw, verdict, sampled>>
  BY <1>1, <1>5 DEF QuickSeenInv, FilterSeen, PressSeen
<1>6. ASSUME NEW from, NEW to, Ask(from, to), Notes, pc' \notin {"leave", "done"}
      PROVE  PressSeen' /\ "A" \in saw'
  <2>1. Reply.is # "none"
    BY ReplyForms DEF ShowsInjected, Snapshot, Failed
  <2> QED BY <1>4, <1>6, <2>1 DEF Ask
<1>7. CASE (QuickStart \/ QuickAcquire \/ QuickEnable \/ QuickInject) /\ Notes
  <2>1. UNCHANGED saw /\ (query.is = "filter" => query'.is # "none")
    BY <1>7 DEF QuickStart, QuickAcquire, QuickEnable, QuickInject, ProbeControl, PurgePendingReads,
                AcquireWriterSession, OverrideOn, InjectReport
  <2>2. pc' \in {"leave", "done"} => verdict' = "ERROR"
    BY <1>7 DEF QuickStart, QuickAcquire, QuickEnable, QuickInject, Ends, Goes
  <2> QED BY <1>3, <1>4, <1>7, <2>1, <2>2
<1>8. CASE (WaitForPad \/ ProbeXInputAvailability) /\ Notes
  <2>1. UNCHANGED saw /\ query.is = "stack"
    BY <1>1, <1>8 DEF WaitForPad, ProbeXInputAvailability, Take, QuickInv
  <2>2. pc' \in {"leave", "done"} => verdict' = "ERROR"
    BY <1>8 DEF WaitForPad, ProbeXInputAvailability, Ends, Goes
  <2> QED BY <1>3, <1>4, <1>8, <2>1, <2>2
<1>9. CASE AskUnrefreshed /\ Notes
  BY <1>4, <1>9 DEF AskUnrefreshed, Goes
<1>10. CASE QuickSample /\ Notes
  <2>1. /\ pc = "sampled" /\ pc' \in {"drive", "count"} /\ query'.is = "none"
        /\ saw' = IF Answers THEN saw \cup QuickSigns(base, query.state) ELSE saw
    BY <1>10 DEF QuickSample, Take, Loops, Goes
  <2>2. CASE query.is = "stack"
    BY <1>1, <1>10, <2>1, <2>2, SeenGrows DEF QuickSeenInv
  <2>3. CASE query.is = "filter" /\ query.state.gamepad = XInputGamepad(PressA)
    <3>1. PressSeen'
      BY <1>1, <1>10, <2>1, <2>3, SeenGrows DEF PressSeen
    <3>2. "A" \in saw'
      BY <2>1, <2>3, PressIsSeen DEF Answers, QuickSigns, Named
    <3> QED BY <2>1, <3>1, <3>2
  <2> QED BY <1>1, <2>1, <2>2, <2>3 DEF QuickInv
<1>11. CASE QuickCount /\ Notes
  <2>1. /\ pc = "count" /\ verdict' = QuickVerdict /\ UNCHANGED saw
        /\ query.is = "filter" => query'.is # "none"
    BY <1>1, <1>11 DEF QuickCount, Ends, ProbeControl, PurgePendingReads
  <2>2. FilterSeen /\ PressSeen' /\ "A" \in saw'
    BY <1>4, <1>11, <2>1
  <2>3. ReportsInjected > 0 /\ before = 0 /\ "A" \in saw
    BY <1>1, <2>1, <2>2 DEF QuickInv
  <2>4. QuickVerdict = "PASS"
    BY <2>3 DEF QuickVerdict, DeviceInfo
  <2> QED BY <2>1, <2>2, <2>4
<1>12. CASE Leave /\ Notes
  <2>1. /\ pc = "leave" /\ UNCHANGED <<saw, verdict>>
        /\ query.is = "filter" => query'.is # "none"
    BY <1>12 DEF Leave, GiveBack, ResetWriterState, PurgePendingReads
  <2>2. FilterSeen /\ PressSeen' /\ "A" \in saw'
    BY <1>4, <1>12, <2>1
  <2> QED BY <1>1, <2>1, <2>2 DEF QuickSeenInv
<1>13. CASE (Ask("probe", "probed") \/ Ask("reprobe", "reprobed") \/ Ask("sample", "sampled")) /\ Notes
  BY <1>6, <1>13 DEF Ask, Goes
<1> QED BY <1>1, <1>5, <1>7, <1>8, <1>9, <1>10, <1>11, <1>12, <1>13 DEF QuickVerify

-----------------------------------------------------------------------------
\* XInputAutoVerify and its child on a controller that is never away.
ObserverInv ==
  tool = "XInputAutoVerify" /\ powers = 0 =>
    /\ ~child.failed /\ (pc = "start" => child.at = "none")
    /\ WriterSessionHeld <=> child.at \in {"on", "inject", "neutral", "off", "release"}
    /\ OverrideEnabled <=> child.at \in {"inject", "neutral", "off"}
    /\ pc # "leave"
    /\ pc = "based" => Answers \/ early
    /\ pc \notin {"start", "baseline", "based"} => base # NoReport \/ early
    /\ pc = "done" =>
         \/ verdict = "SESSION_UNAVAILABLE" /\ base = NoReport
         \/ verdict = "PASS" /\ saw # {}
         \/ verdict = "STATIC" /\ saw = {} /\ base # NoReport

\* Its own steps: a baseline that fails was asked for too early.
LEMMA ObserverStepKeeps ==
  ASSUME TypeOK, QueueInv, ObserverInv, tool = "XInputAutoVerify", UNCHANGED tool, powers = 0,
         XInputAutoVerify, Notes
  PROVE  ObserverInv'
<1>0. /\ power = "D0" /\ query.is # "parked" /\ early \in BOOLEAN
      /\ child \in [at : {"none", "open", "acquire", "on", "inject", "neutral", "off", "release"},
                    failed : BOOLEAN]
      /\ early => early'
  BY DEF QueueInv, TypeOK, VerifierTypeOK, Notes
<1>1. CASE LaunchGaYmCliTest
  <2>1. child' = [at |-> "open", failed |-> FALSE]
    BY <1>1 DEF LaunchGaYmCliTest, NoChild
  <2>2. pc = "start" /\ pc' = "baseline" /\ UNCHANGED <<WriterSessionHeld, OverrideEnabled>>
    BY <1>1 DEF LaunchGaYmCliTest, Goes, pathVars, writerVars
  <2>3. ~WriterSessionHeld /\ ~OverrideEnabled
    BY <2>2 DEF ObserverInv
  <2> QED BY <2>1, <2>2, <2>3 DEF ObserverInv
<1>2. CASE Ask("baseline", "based")
  <2>1. (Reply.is \in {"filter", "stack"}) \/ early'
    <3>1. CASE OverrideEnabled /\ ~ShowsInjected
      BY <1>2, <3>1 DEF Ask, Notes
    <3>2. CASE ~(OverrideEnabled /\ ~ShowsInjected)
      BY <1>0, <3>2, ReplyForms DEF ShowsInjected, Snapshot
    <3> QED BY <3>1, <3>2
  <2> QED BY <1>0, <1>2, <2>1 DEF Ask, ObserverInv, Answers, XInputGetState, Goes
<1>3. CASE Ask("watch", "watched")
  BY <1>0, <1>3 DEF Ask, ObserverInv, XInputGetState, Goes
<1>4. CASE CaptureAnyBaseline
  <2>1. Answers => query.state # NoReport
    BY PathAssumption DEF TypeOK, PathTypeOK
  <2> QED BY <1>0, <1>4, <2>1 DEF CaptureAnyBaseline, Take, ObserverInv, Goes, writerVars
<1>5. CASE ObserveAllPads
  BY <1>0, <1>5 DEF ObserveAllPads, Take, ObserverInv, Goes, Loops, writerVars
<1>6. CASE AwaitChild
  <2>1. pc = "await" /\ child.failed = FALSE /\ UNCHANGED <<child, base, saw>>
        /\ UNCHANGED <<WriterSessionHeld, OverrideEnabled>>
    BY <1>0, <1>6 DEF AwaitChild, ObserverInv, pathVars, writerVars
  <2>2. /\ pc' = "done"
        /\ verdict' = CASE base = NoReport -> "SESSION_UNAVAILABLE"
                        [] base # NoReport /\ saw # {} -> "PASS"
                        [] OTHER -> "STATIC"
    BY <1>6, <2>1, Zenon DEF AwaitChild, Goes
  <2>3. base = NoReport => verdict' = "SESSION_UNAVAILABLE"
    BY <2>2, Zenon
  <2>4. base # NoReport /\ saw # {} => verdict' = "PASS"
    BY <2>2, Zenon
  <2>5. base # NoReport /\ saw = {} => verdict' = "STATIC"
    BY <2>2, Zenon
  <2>6. base # NoReport \/ early
    BY <2>1 DEF ObserverInv
  <2>7. UNCHANGED powers
    BY <1>6 DEF AwaitChild, pathVars, deviceVars
  <2> QED BY <1>0, <2>1, <2>2, <2>3, <2>4, <2>5, <2>6 DEF ObserverInv
<1>7. ~Leave
  BY DEF Leave, ObserverInv
<1> QED BY <1>1, <1>2, <1>3, <1>4, <1>5, <1>6, <1>7 DEF XInputAutoVerify

\* The steps of the child, none of which fails.
LEMMA ChildStepKeeps ==
  ASSUME TypeOK, QueueInv, UseInv, ObserverInv, tool = "XInputAutoVerify", UNCHANGED tool,
         powers = 0, CmdTest, UNCHANGED notes
  PROVE  ObserverInv'
<1>0. /\ power = "D0" /\ query.is # "parked" /\ UpperSupports
      /\ child \in [at : {"none", "open", "acquire", "on", "inject", "neutral", "off", "release"},
                    failed : BOOLEAN]
      /\ child.failed = FALSE
  BY DEF QueueInv, UseInv, TypeOK, VerifierTypeOK, ObserverInv
<1>1. UNCHANGED <<pc, base, saw, verdict, early>> /\ child.at # "none"
  BY DEF CmdTest, ChildCall, notes
<1>2. ASSUME NEW next \in {"none", "acquire", "on", "inject", "neutral", "off", "release"},
             child' = [child EXCEPT !.at = next],
             WriterSessionHeld' <=> next \in {"on", "inject", "neutral", "off", "release"},
             OverrideEnabled' <=> next \in {"inject", "neutral", "off"},
             UNCHANGED query
      PROVE  ObserverInv'
  <2>1. child'.at = next /\ child'.failed = FALSE
    BY <1>0, <1>2
  <2> QED BY <1>1, <1>2, <2>1 DEF ObserverInv, Answers
<1>3. CASE ChildCall("open", TRUE, ProbeControl, "acquire", "none")
  BY <1>0, <1>2, <1>3 DEF ChildCall, ProbeControl, PurgePendingReads, ObserverInv
<1>4. CASE ChildCall("acquire", CanAcquire, AcquireWriterSession, "on", "none")
  BY <1>0, <1>2, <1>4 DEF ChildCall, CanAcquire, HasSupportedTarget, AcquireWriterSession, ObserverInv
<1>5. CASE ChildCall("on", CanOverride, OverrideOn, "inject", "release")
  BY <1>0, <1>2, <1>5 DEF ChildCall, CanOverride, HasSupportedTarget, OverrideOn, ObserverInv
<1>6. CASE ChildCall("inject", CanInject, InjectReport(PressA), "neutral", "neutral")
  BY <1>0, <1>2, <1>6
     DEF ChildCall, CanInject, CanOverride, HasSupportedTarget, InjectReport, ObserverInv
<1>7. CASE ChildCall("neutral", CanInject, InjectReport(Neutral), "off", "off")
  BY <1>0, <1>2, <1>7
     DEF ChildCall, CanInject, CanOverride, HasSupportedTarget, InjectReport, ObserverInv
<1>8. CASE ChildCall("off", power # "removed", OverrideOff, "release", "release")
  BY <1>0, <1>2, <1>8 DEF ChildCall, OverrideOff, PurgePendingReads, ObserverInv
<1>9. CASE ChildCall("release", WriterSessionHeld, GiveBack, "none", "none")
  BY <1>0, <1>2, <1>9 DEF ChildCall, GiveBack, ResetWriterState, PurgePendingReads, ObserverInv
<1> QED BY <1>3, <1>4, <1>5, <1>6, <1>7, <1>8, <1>9 DEF CmdTest

\* And what happens beside them.
LEMMA ObserverKeeps ==
  ASSUME TypeOK, QueueInv, UseInv, ObserverInv, [Next]_feedVars
  PROVE  ObserverInv'
<1> SUFFICES ASSUME tool' = "XInputAutoVerify", powers' = 0 PROVE ObserverInv'
  BY DEF ObserverInv
<1>1. tool = "XInputAutoVerify" /\ UNCHANGED tool /\ powers = 0 /\ power = "D0" /\ ~PowerStep
  BY StepKinds, AwayNever
<1>2. CASE Verifier
  BY <1>1, <1>2, ObserverStepKeeps DEF Verifier
<1>3. CASE Child /\ UNCHANGED notes
  BY <1>1, <1>3, ChildStepKeeps DEF Child
<1>4. ~Monitor /\ ~FeederStep
  BY <1>1 DEF Monitor, FeederStep
<1>5. CASE TouchStep \/ QuietStep
  <2>1. UNCHANGED <<WriterSessionHeld, OverrideEnabled, query, pc, child, base, saw, verdict, early>>
    BY <1>5 DEF TouchStep, Touch, QuietStep, writerVars, verifierVars, notes
  <2> QED BY <1>1, <2>1 DEF ObserverInv, Answers
<1> QED BY <1>1, <1>2, <1>3, <1>4, <1>5, StepKinds

-----------------------------------------------------------------------------
\* What XInputAutoVerify was shown and what it made of it.
SawInv ==
  tool = "XInputAutoVerify" =>
    /\ base = NoReport => sampled = {} /\ saw = {}
    /\ pc \in {"start", "baseline", "based"} => base = NoReport
    /\ pc \in {"watch", "watched"} => base # NoReport
    /\ \A answer \in sampled :
         /\ answer[2] = XInputGamepad(PressA) /\ base.gamepad # answer[2] => "A" \in saw
         /\ answer[2] = XInputGamepad(Neutral) /\ base.gamepad = XInputGamepad(PressA)
            => "axis" \in saw
    /\ verdict = "PASS" => pc = "done" /\ saw # {}

\* What one more sample adds.
LEMMA SampleAdds ==
  ASSUME SawInv, tool = "XInputAutoVerify", UNCHANGED tool, ObserveAllPads, Notes
  PROVE  SawInv'
<1>0. /\ base # NoReport /\ UNCHANGED <<base, verdict>> /\ verdict # "PASS"
      /\ pc = "watched" /\ pc' \in {"watch", "await"}
  BY DEF ObserveAllPads, Take, Loops, Goes, SawInv
<1>1. CASE ~Answers
  BY <1>0, <1>1 DEF ObserveAllPads, Notes, SawInv
<1>2. CASE Answers
  <2>1. sampled' = sampled \cup {<<query.is, query.state.gamepad>>}
    BY <1>2 DEF ObserveAllPads, Take, Notes
  <2>2. saw' = IF query.state # base
               THEN (saw \ {"packet"}) \cup ObserverSigns(base, query.state)
                    \cup Named("packet", query.state.packet # base.packet)
               ELSE saw
    BY <1>2 DEF ObserveAllPads
  <2>3. ("A" \in saw => "A" \in saw') /\ ("axis" \in saw => "axis" \in saw')
    BY <2>2
  <2>4. query.state.gamepad = XInputGamepad(PressA) /\ base.gamepad # query.state.gamepad
        => "A" \in saw'
    BY <2>2, PressIsSeen DEF ObserverSigns, Named
  <2>5. ASSUME query.state.gamepad = XInputGamepad(Neutral), base.gamepad = XInputGamepad(PressA)
        PROVE  "axis" \in saw'
    <3>1. query.state.gamepad.lx = 0 /\ base.gamepad.lx = 32767
      BY <2>5, PressIsSeen
    <3>2. query.state # base /\ Abs(query.state.gamepad.lx - base.gamepad.lx) >= 12000
      BY <3>1 DEF Abs
    <3> QED BY <2>2, <3>2 DEF ObserverSigns, Named
  <2>6. \A answer \in sampled' :
          /\ answer[2] = XInputGamepad(PressA) /\ base.gamepad # answer[2] => "A" \in saw'
          /\ answer[2] = XInputGamepad(Neutral) /\ base.gamepad = XInputGamepad(PressA)
             => "axis" \in saw'
    <3>1. ASSUME NEW answer \in sampled
          PROVE  /\ answer[2] = XInputGamepad(PressA) /\ base.gamepad # answer[2] => "A" \in saw'
                 /\ answer[2] = XInputGamepad(Neutral) /\ base.gamepad = XInputGamepad(PressA)
                    => "axis" \in saw'
      BY <2>3 DEF SawInv
    <3>2. <<query.is, query.state.gamepad>>[2] = query.state.gamepad
      OBVIOUS
    <3> QED BY <2>1, <2>4, <2>5, <3>1, <3>2
  <2> QED BY <1>0, <2>6 DEF SawInv
<1> QED BY <1>1, <1>2

\* A step of XInputAutoVerify, with the history of its answers.
LEMMA SawStepKeeps ==
  ASSUME TypeOK, SawInv, tool = "XInputAutoVerify", UNCHANGED tool, XInputAutoVerify, Notes
  PROVE  SawInv'
<1>1. CASE LaunchGaYmCliTest
  <2>1. pc = "start" /\ pc' = "baseline" /\ UNCHANGED <<base, saw, query, verdict>>
    BY <1>1 DEF LaunchGaYmCliTest, Goes, pathVars
  <2>2. sampled' = sampled
    BY <2>1 DEF Notes, Answers
  <2> QED BY <2>1, <2>2 DEF SawInv
<1>2. CASE Ask("baseline", "based") \/ Ask("watch", "watched")
  <2>1. /\ UNCHANGED <<base, saw, verdict>> /\ query' = Reply /\ verdict # "PASS"
        /\ (pc = "baseline" /\ pc' = "based") \/ (pc = "watch" /\ pc' = "watched")
    BY <1>2 DEF Ask, Goes, SawInv
  <2>2. Reply.is # "none"
    BY ReplyForms DEF ShowsInjected, Snapshot, Failed
  <2>3. sampled' = sampled
    BY <2>1, <2>2 DEF Notes
  <2> QED BY <2>1, <2>3 DEF SawInv
<1>3. CASE CaptureAnyBaseline
  <2>1. /\ sampled = {} /\ saw = {} /\ UNCHANGED <<saw, verdict>> /\ verdict # "PASS"
        /\ base' = IF Answers THEN query.state ELSE NoReport
        /\ pc' \in {"watch", "await"} /\ (pc' = "watch" => Answers)
        /\ query'.is = "none"
    BY <1>3 DEF CaptureAnyBaseline, Take, SawInv, Goes
  <2>2. CASE Answers
    <3>1. sampled' = {<<query.is, query.state.gamepad>>}
      BY <2>1, <2>2 DEF Notes
    <3>2. base' = query.state /\ base' # NoReport
      BY <2>1, <2>2, PathAssumption DEF TypeOK, PathTypeOK
    <3>3. \A answer \in sampled' : answer[2] = base'.gamepad
      BY <3>1, <3>2
    <3>4. XInputGamepad(PressA) # XInputGamepad(Neutral)
      BY PressIsSeen
    <3> QED BY <2>1, <3>2, <3>3, <3>4 DEF SawInv
  <2>3. CASE ~Answers
    BY <2>1, <2>3 DEF Notes, SawInv
  <2> QED BY <2>2, <2>3
<1>4. CASE ObserveAllPads
  BY <1>4, SampleAdds
<1>5. CASE AwaitChild
  <2>1. /\ pc = "await" /\ UNCHANGED <<base, saw, query>>
        /\ \/ pc' = "leave" /\ verdict' = "CHILD_FAILED"
           \/ /\ pc' = "done"
              /\ verdict' = CASE base = NoReport -> "SESSION_UNAVAILABLE"
                              [] base # NoReport /\ saw # {} -> "PASS"
                              [] OTHER -> "STATIC"
    BY <1>5, Zenon DEF AwaitChild, Ends, Goes, pathVars
  <2>2. /\ base = NoReport /\ pc' = "done" => verdict' = "SESSION_UNAVAILABLE"
        /\ base # NoReport /\ saw = {} /\ pc' = "done" => verdict' = "STATIC"
    BY <2>1, Zenon
  <2>3. verdict' = "PASS" => pc' = "done" /\ saw # {}
    BY <2>1, <2>2 DEF SawInv
  <2>4. sampled' = sampled
    <3>1. query' = query
      BY <2>1
    <3> QED BY <3>1 DEF Notes, Answers
  <2> QED BY <2>1, <2>3, <2>4 DEF SawInv
<1>6. CASE Leave
  <2>1. /\ pc = "leave" /\ pc' = "done" /\ UNCHANGED <<base, saw, verdict>>
        /\ Answers => query'.is # "none"
    BY <1>6 DEF Leave, Goes, GiveBack, ResetWriterState, PurgePendingReads, Failed, Answers
  <2>2. sampled' = sampled
    BY <2>1 DEF Notes
  <2> QED BY <2>1, <2>2 DEF SawInv
<1> QED BY <1>1, <1>2, <1>3, <1>4, <1>5, <1>6 DEF XInputAutoVerify

\* Nobody else touches what it saw.
LEMMA SawKeeps == TypeOK /\ SawInv /\ [Next]_feedVars => SawInv'
<1> SUFFICES ASSUME TypeOK, SawInv, [Next]_feedVars, tool' = "XInputAutoVerify" PROVE SawInv'
  BY DEF SawInv
<1>1. tool = "XInputAutoVerify" /\ UNCHANGED tool
  BY StepKinds
<1>2. CASE Verifier
  BY <1>1, <1>2, SawStepKeeps DEF Verifier
<1>3. ASSUME UNCHANGED <<pc, base, saw, verdict, sampled>> PROVE SawInv'
  BY <1>1, <1>3 DEF SawInv
<1>4. CASE Child /\ UNCHANGED notes
  BY <1>3, <1>4 DEF Child, CmdTest, ChildCall, notes
<1>5. ~Monitor /\ ~FeederStep
  BY <1>1 DEF Monitor, FeederStep
<1>6. CASE PowerStep \/ TouchStep \/ QuietStep
  BY <1>3, <1>6 DEF PowerStep, TouchStep, QuietStep, verifierVars, notes
<1> QED BY <1>2, <1>4, <1>5, <1>6, StepKinds

-----------------------------------------------------------------------------
\* A controller that nobody touched shows one state, and what differs from it
\* was shown by the filter.
RestInv ==
  touches = 0 =>
    /\ physical = Neutral /\ stackNumber = 1
    /\ tool = "XInputAutoVerify" \/ (tool = "QuickVerify" /\ powers = 0) =>
         /\ query.is = "stack" => query.state = XInputState(Neutral, 1)
         /\ \/ base \in {NoReport, XInputState(Neutral, 1)}
            \/ tool = "XInputAutoVerify" /\ FilterSeen
         /\ saw # {} \/ (tool = "QuickVerify" /\ verdict = "PASS") => FilterSeen

\* Whatever a program asks, the stack below answers with that state.
LEMMA StackAtRest ==
  ASSUME Call, physical = Neutral, stackNumber = 1,
         query.is = "stack" => query.state = XInputState(Neutral, 1)
  PROVE  query'.is = "stack" => query'.state = XInputState(Neutral, 1)
<1>1. query' = query \/ query'.is # "stack" \/ query' = Reply
  BY DEF Call, AcquireWriterSession, FeederTakes, OverrideOn, OverrideOff, ProbeControl,
         GiveBack, ResetWriterState, PurgePendingReads, Failed, InjectReport, Snapshot
<1>2. Reply.is = "stack" => Reply.state = XInputState(Neutral, 1)
  BY ReplyForms DEF ShowsInjected, Snapshot, Failed
<1> QED BY <1>1, <1>2

\* What differs from the baseline of XInputAutoVerify was shown by the filter.
LEMMA RestStepKeeps ==
  ASSUME RestInv, SawInv, touches = 0, tool = "XInputAutoVerify", UNCHANGED tool,
         XInputAutoVerify, ProgramStep, Notes
  PROVE  RestInv'
<1>1. /\ touches' = 0 /\ physical' = Neutral /\ stackNumber' = 1
      /\ query'.is = "stack" => query'.state = XInputState(Neutral, 1)
  BY StackAtRest, VerifierIsProgram DEF RestInv, ProgramStep, deviceVars
<1>2. FilterSeen => FilterSeen'
  BY SeenGrows
<1>3. query.is = "filter" /\ query'.is = "none" => FilterSeen'
  BY SeenGrows
<1>4. CASE UNCHANGED <<base, saw>>
  BY <1>1, <1>2, <1>4 DEF RestInv
<1>5. CASE CaptureAnyBaseline
  <2>1. Answers /\ query.is # "filter" => query.state = XInputState(Neutral, 1)
    BY DEF Answers, RestInv
  <2> QED BY <1>1, <1>2, <1>3, <1>5, <2>1 DEF CaptureAnyBaseline, Take, RestInv, Answers
<1>6. CASE ObserveAllPads
  <2>1. query'.is = "none" /\ base' = base
    BY <1>6 DEF ObserveAllPads, Take
  <2>2. saw' = saw \/ (Answers /\ query.state # base /\ pc = "watched")
    BY <1>6 DEF ObserveAllPads, Take
  <2>3. Answers /\ query.is # "filter" => query.state = XInputState(Neutral, 1)
    BY DEF Answers, RestInv
  <2>4. base # NoReport
    BY <1>6 DEF ObserveAllPads, Take, SawInv
  <2> QED BY <1>1, <1>2, <1>3, <2>1, <2>2, <2>3, <2>4 DEF RestInv
<1>7. CaptureAnyBaseline \/ ObserveAllPads \/ UNCHANGED <<base, saw>>
  BY DEF XInputAutoVerify, LaunchGaYmCliTest, Ask, AwaitChild, Leave
<1> QED BY <1>4, <1>5, <1>6, <1>7

\* A controller at rest has none of the signs QuickVerify looks for.
LEMMA RestHasNoSigns ==
  QuickSigns(XInputState(Neutral, 1), XInputState(Neutral, 1)) = {}
<1> DEFINE s == XInputState(Neutral, 1)
<1>1. s.packet = 1 /\ s.gamepad = XInputGamepad(Neutral)
  BY DEF XInputState
<1>2. /\ s.gamepad.lx = 0 /\ s.gamepad.lt = 0
      /\ s.gamepad.buttons = XInputButtons(Neutral)
  BY <1>1 DEF XInputGamepad, Neutral
<1>3. Neutral.b0 = 0 /\ Neutral.dpad = 15
  BY DEF Neutral, DPadNeutral
<1>4. "A" \notin Pressed(0, Mask0)
  <2>1. Mask0["A"] = 1
    BY DEF Mask0
  <2>2. (0 \div 1) % 2 = 0
    BY SMT
  <2> QED BY <2>1, <2>2 DEF Pressed
<1>5. "A" \notin Hat(15)
  BY SMT DEF Hat
<1>6. "A" \notin s.gamepad.buttons
  BY <1>2, <1>3, <1>4, <1>5 DEF XInputButtons
<1>7. ~(Abs(s.gamepad.lx) >= 20000) /\ ~(s.gamepad.lt >= 200)
  BY <1>2, SMT DEF Abs
<1> HIDE DEF s
<1>8. QuickSigns(s, s) = {}
  BY <1>6, <1>7 DEF QuickSigns, Named
<1> QED BY <1>8 DEF s

\* Nor has its baseline.
LEMMA QuickRestKeeps ==
  ASSUME TypeOK, QueueInv, UseInv, QuickInv, QuickSeenInv, RestInv, touches = 0,
         tool = "QuickVerify", UNCHANGED tool, powers = 0, QuickVerify, ProgramStep, Notes
  PROVE  RestInv'
<1> DEFINE Rest == XInputState(Neutral, 1)
<1>0. /\ touches' = 0 /\ powers' = 0 /\ physical' = Neutral /\ stackNumber' = 1
      /\ physical = Neutral /\ stackNumber = 1
      /\ query.is = "stack" => query.state = Rest
      /\ base \in {NoReport, Rest}
      /\ saw # {} \/ verdict = "PASS" => FilterSeen
  BY DEF RestInv, ProgramStep, deviceVars
<1> HIDE DEF Rest
<1>1. query'.is = "stack" => query'.state = Rest
  <2>1. CASE Call
    BY <1>0, <2>1, StackAtRest DEF Rest
  <2>2. CASE AskUnrefreshed
    BY <1>0, <2>2 DEF AskUnrefreshed, TypeOK, VerifierTypeOK
  <2> QED BY <2>1, <2>2, VerifierIsProgram
<1>2. FilterSeen => FilterSeen'
  BY SeenGrows
<1>3. ASSUME base' \in {NoReport, Rest}, saw' # {} \/ verdict' = "PASS" => FilterSeen'
      PROVE  RestInv'
  BY <1>0, <1>1, <1>3 DEF RestInv, Rest
<1>4. CASE UNCHANGED <<base, saw>> /\ (verdict' = verdict \/ verdict' # "PASS")
  BY <1>0, <1>2, <1>3, <1>4
<1>5. CASE WaitForPad \/ ProbeXInputAvailability
  <2>1. query.is = "stack" /\ UNCHANGED saw /\ base' \in {base, query.state}
        /\ (verdict' = verdict \/ verdict' # "PASS")
    BY <1>5 DEF WaitForPad, ProbeXInputAvailability, Take, Ends, QuickInv
  <2> QED BY <1>0, <1>2, <1>3, <2>1
<1>6. CASE QuickSample
  <2>1. /\ pc = "sampled" /\ query'.is = "none" /\ UNCHANGED <<base, verdict>>
        /\ saw' = IF Answers THEN saw \cup QuickSigns(base, query.state) ELSE saw
        /\ base = Rest
    BY <1>0, <1>6 DEF QuickSample, Take, TypeOK, VerifierTypeOK
  <2>2. CASE query.is = "stack"
    BY <1>0, <1>2, <1>3, <2>1, <2>2, RestHasNoSigns DEF Rest
  <2>3. CASE query.is = "filter"
    BY <1>0, <1>3, <2>1, <2>3, SeenGrows
  <2> QED BY <2>1, <2>2, <2>3 DEF QuickInv
<1>7. CASE QuickCount
  <2>1. pc = "count" /\ UNCHANGED <<base, saw>> /\ base = Rest
        /\ (verdict' = QuickVerdict \/ verdict' # "PASS")
    BY <1>0, <1>7 DEF QuickCount, Ends, TypeOK, VerifierTypeOK
  <2>2. QuickVerdict = "PASS" => saw # {}
    BY <2>1, RestHasNoSigns DEF QuickVerdict, Rest
  <2> QED BY <1>0, <1>2, <1>3, <2>1, <2>2
<1>8. \/ WaitForPad \/ ProbeXInputAvailability \/ QuickSample \/ QuickCount
      \/ UNCHANGED <<base, saw>> /\ (verdict' = verdict \/ verdict' # "PASS")
  BY DEF QuickVerify, QuickStart, QuickAcquire, QuickEnable, QuickInject, Ask, AskUnrefreshed, Leave,
         Ends
<1> QED BY <1>4, <1>5, <1>6, <1>7, <1>8

\* Nobody but the user moves the controller.
LEMMA RestKeeps ==
  ASSUME TypeOK, QueueInv, UseInv, QuickInv, QuickSeenInv, SawInv, RestInv, [Next]_feedVars
  PROVE  RestInv'
<1> SUFFICES ASSUME touches' = 0 PROVE RestInv'
  BY DEF RestInv
<1>1. UNCHANGED tool /\ touches \in Nat
  BY StepKinds, PathAssumption, SMT DEF TypeOK, PathTypeOK
<1>2. ~TouchStep
  BY <1>1, SMT DEF TouchStep, Touch
<1>3. touches = 0
  BY <1>2, StepKinds DEF FeederStep, ProgramStep, deviceVars, PowerStep, PowerEvents, D0Exit,
                         SurpriseRemoval, D0Entry, Replug, QuietStep
<1>4. ASSUME UNCHANGED <<base, saw, verdict, sampled, physical, stackNumber>>,
             powers' = 0 => powers = 0,
             \/ query' = query \/ query'.is # "stack"
             \/ tool \notin {"QuickVerify", "XInputAutoVerify"}
             \/ query'.is = "stack" /\ query'.state = XInputState(Neutral, 1)
      PROVE  RestInv'
  BY <1>1, <1>3, <1>4 DEF RestInv, FilterSeen
<1>5. powers' = 0 => powers = 0
  BY AwayNever
<1>6. CASE Verifier /\ ProgramStep
  <2>1. CASE tool = "XInputAutoVerify"
    BY <1>1, <1>3, <1>6, <2>1, RestStepKeeps DEF Verifier
  <2>2. CASE tool # "XInputAutoVerify"
    <3>1. tool = "QuickVerify" /\ QuickVerify /\ Notes /\ UNCHANGED <<touches, powers, physical, stackNumber>>
      BY <1>6, <2>2 DEF Verifier, ProgramStep, deviceVars
    <3>2. CASE powers = 0
      BY <1>1, <1>3, <1>6, <3>1, <3>2, QuickRestKeeps
    <3>3. CASE powers # 0
      BY <1>1, <1>3, <3>1, <3>3 DEF RestInv
    <3> QED BY <3>2, <3>3
  <2> QED BY <2>1, <2>2
<1>7. CASE FeederStep
  <2>1. UNCHANGED <<base, saw, verdict, sampled, physical, stackNumber>> /\ tool = "feeder"
    BY <1>7, FeederIsProgram DEF FeederStep, notes, ProgramStep, deviceVars
  <2> QED BY <1>4, <1>5, <2>1
<1>8. CASE Child /\ ProgramStep /\ UNCHANGED notes
  <2>1. /\ UNCHANGED <<base, saw, verdict, sampled, physical, stackNumber>>
        /\ CmdTest
    BY <1>8 DEF Child, CmdTest, ChildCall, notes, ProgramStep, deviceVars
  <2>2. tool = "XInputAutoVerify"
    BY <2>1 DEF UseInv, CmdTest, ChildCall, NoChild
  <2>3. query'.is = "stack" => query'.state = XInputState(Neutral, 1)
    BY <1>3, <2>1, <2>2, StackAtRest, VerifierIsProgram DEF RestInv
  <2> QED BY <1>4, <1>5, <2>1, <2>3
<1>9. CASE Monitor /\ ProgramStep /\ UNCHANGED <<verifierVars, notes>>
  <2>1. UNCHANGED <<base, saw, verdict, sampled, physical, stackNumber>> /\ tool = "feeder"
    BY <1>9 DEF Monitor, verifierVars, notes, ProgramStep, deviceVars
  <2> QED BY <1>4, <1>5, <2>1
<1>10. CASE PowerStep
  <2>1. UNCHANGED <<base, saw, verdict, sampled, physical, stackNumber>>
        /\ (query' = query \/ query'.is # "stack")
    BY <1>10 DEF PowerStep, PowerEvents, D0Exit, SurpriseRemoval, D0Entry, Replug, LosesPower,
                 ResetWriterState, PurgePendingReads, Failed, verifierVars, notes
  <2> QED BY <1>4, <1>5, <2>1
<1>11. CASE QuietStep
  BY <1>4, <1>5, <1>11 DEF QuietStep, notes
<1> QED BY <1>2, <1>6, <1>7, <1>8, <1>9, <1>10, <1>11, StepKinds

-----------------------------------------------------------------------------
\* The invariant of the verdicts.
VerdictInv ==
  QueueInv /\ UseInv /\ QuickInv /\ QuickSeenInv /\ ObserverInv /\ SawInv /\ RestInv

\* The invariant holds from the start, for all sources, shapes and bounds.
THEOREM VerdictsAreGrounded == Spec => []VerdictInv
<1>1. Init => VerdictInv
  <2> SUFFICES ASSUME Init PROVE VerdictInv
    OBVIOUS
  <2>1. UseInv
    BY DEF Init, VerifierInit, UseInv
  <2>2. QueueInv
    BY DEF Init, PathInit, VerifierInit, NoChild, QueueInv, Opened
  <2>3. QuickInv
    BY DEF Init, PathInit, VerifierInit, QuickInv
  <2>4. ObserverInv
    BY DEF Init, PathInit, VerifierInit, NoChild, ObserverInv
  <2>5. SawInv /\ RestInv /\ QuickSeenInv
    BY DEF Init, PathInit, VerifierInit, SawInv, RestInv, QuickSeenInv, FilterSeen
  <2> QED BY <2>1, <2>2, <2>3, <2>4, <2>5 DEF VerdictInv
<1>2. TypeOK /\ VerdictInv /\ [Next]_feedVars => VerdictInv'
  BY QueueStaysStopped, UsesStay, QuickVerifyKeeps, QuickSeenKeeps, ObserverKeeps, SawKeeps,
     RestKeeps
     DEF VerdictInv
<1> QED BY <1>1, <1>2, FeedTypeCorrect, PTL DEF Spec

\* A verifier that passes was shown a state by the filter.
THEOREM PassMeansInjected == Spec => []PassSawInjected
<1>1. TypeOK /\ VerdictInv => PassSawInjected
  <2> SUFFICES ASSUME TypeOK, VerdictInv, verdict = "PASS", powers = 0, touches = 0
               PROVE  FilterSeen
    BY DEF PassSawInjected, FilterSeen
  <2>1. CASE tool = "QuickVerify"
    BY <2>1 DEF VerdictInv, RestInv
  <2>2. CASE tool = "XInputAutoVerify"
    BY <2>2 DEF VerdictInv, SawInv, RestInv
  <2> QED BY <2>1, <2>2 DEF VerdictInv, UseInv
<1> QED BY <1>1, FeedTypeCorrect, VerdictsAreGrounded, PTL

\* A working system passes when it was looked at, whatever the loops of the
\* verifiers and the calls of the child do in between; and a QuickVerify that
\* was shown nothing injected fails.
THEOREM UndisturbedVerifiersPass == Spec => []UndisturbedPasses
<1>1. TypeOK /\ VerdictInv => UndisturbedPasses
  <2> SUFFICES ASSUME TypeOK, VerdictInv, pc = "done", powers = 0, touches = 0
               PROVE  /\ tool = "QuickVerify" => verdict = IF PressSeen THEN "PASS" ELSE "FAIL"
                      /\ tool = "XInputAutoVerify" =>
                           /\ verdict \in {"PASS", "STATIC", "SESSION_UNAVAILABLE"}
                           /\ verdict = "SESSION_UNAVAILABLE" => early
                           /\ /\ <<"filter", XInputGamepad(PressA)>> \in sampled
                              /\ <<"stack", XInputGamepad(Neutral)>> \in sampled
                              => verdict = "PASS"
    BY DEF Undisturbed, UndisturbedPasses, PressSeen
  <2>1. tool = "QuickVerify" => verdict = IF PressSeen THEN "PASS" ELSE "FAIL"
    <3>1. <<"filter", XInputGamepad(PressA)>>[1] = "filter"
      OBVIOUS
    <3>2. PressSeen => FilterSeen
      BY <3>1 DEF PressSeen, FilterSeen
    <3> QED BY <3>2 DEF VerdictInv, QuickInv, QuickSeenInv, RestInv
  <2>2. ASSUME tool = "XInputAutoVerify"
        PROVE  /\ \/ verdict = "SESSION_UNAVAILABLE" /\ base = NoReport
                  \/ verdict = "PASS" /\ saw # {}
                  \/ verdict = "STATIC" /\ saw = {} /\ base # NoReport
               /\ base = NoReport => early
    BY <2>2 DEF VerdictInv, ObserverInv
  <2>3. ASSUME tool = "XInputAutoVerify", <<"filter", XInputGamepad(PressA)>> \in sampled,
               <<"stack", XInputGamepad(Neutral)>> \in sampled
        PROVE  saw # {} /\ base # NoReport
    <3>1. /\ <<"filter", XInputGamepad(PressA)>>[2] = XInputGamepad(PressA)
          /\ <<"stack", XInputGamepad(Neutral)>>[2] = XInputGamepad(Neutral)
      OBVIOUS
    <3>2. base.gamepad = XInputGamepad(PressA) => "axis" \in saw
      BY <2>3, <3>1 DEF VerdictInv, SawInv
    <3>3. base.gamepad # XInputGamepad(PressA) => "A" \in saw
      BY <2>3, <3>1 DEF VerdictInv, SawInv
    <3> QED BY <2>3, <3>2, <3>3 DEF VerdictInv, SawInv
  <2> QED BY <2>1, <2>2, <2>3
<1> QED BY <1>1, FeedTypeCorrect, VerdictsAreGrounded, PTL

-----------------------------------------------------------------------------
(* The clock of a macro.                                                   *)

\* The remainder of a number below the modulus, and one turn before it.
LEMMA Remainders ==
  ASSUME NEW m \in Nat, m > 0, NEW a \in 0..m - 1
  PROVE  a % m = a /\ (a - m) % m = a
<1>1. a % m = a
  BY SMT
<1>2. (a - m) % m = a
  BY SMTT(30)
<1> QED BY <1>1, <1>2

\* The next tick.
LEMMA Wraps ==
  ASSUME NEW m \in Nat, m > 0, NEW c \in 0..m - 1
  PROVE  (c + 1) % m = IF c + 1 = m THEN 0 ELSE c + 1
<1>1. CASE c + 1 = m
  BY <1>1, SMT
<1>2. CASE c + 1 < m
  BY <1>2, Remainders, SMT
<1> QED BY <1>1, <1>2, SMT

\* The age of a macro is what the clock says, and the frames passed are due.
MacroInv ==
  provider = "macro" /\ ~player.finished =>
    /\ clock \in {player.startTick + age, player.startTick + age - ClockMod}
    /\ \A k \in 1..player.currentIdx : player.frames[k].timestampMs <= age

\* Whether the clock has wrapped around or not, Elapsed is the age.
LEMMA ElapsedIsAge ==
  ASSUME SourceTypeOK, MacroInv, provider = "macro", ~player.finished
  PROVE  Elapsed = age
<1>1. age \in 0..ClockMod - 1 /\ player.startTick \in 0..ClockMod - 1
  BY ClockIsPositive, SMT DEF SourceTypeOK, Players
<1>2. clock - player.startTick \in {age, age - ClockMod}
  BY <1>1, ClockIsPositive, SMT DEF MacroInv
<1>3. age % ClockMod = age /\ (age - ClockMod) % ClockMod = age
  BY <1>1, ClockIsPositive, Remainders
<1> QED BY <1>2, <1>3 DEF Elapsed

\* The place the macro moves on to is that of the frame due at its age.
LEMMA PlaceIsDue ==
  ASSUME SourceTypeOK, MacroInv, provider = "macro", ~player.finished
  PROVE  /\ MacroAdvance \in 0..Len(player.frames)
         /\ \A k \in 1..MacroAdvance : player.frames[k].timestampMs <= age
         /\ MacroAdvance = Max({n \in 0..Len(player.frames) :
                                  \A k \in 1..n : player.frames[k].timestampMs <= age})
<1> DEFINE i == player.currentIdx
           m == Len(player.frames)
           Due(k) == player.frames[k].timestampMs <= age
           T == {n \in 0..m : \A k \in 1..n : Due(k)}
<1>1. i \in Nat /\ m \in Nat /\ i <= m
  BY LenProperties DEF SourceTypeOK, Players, Frames
<1>2. /\ MacroAdvance \in i..m
      /\ \A k \in i + 1..MacroAdvance : Due(k)
      /\ \A n \in i..m : (\A k \in i + 1..n : Due(k)) => n <= MacroAdvance
  BY MacroPlace, ElapsedIsAge DEF SourceTypeOK
<1>3. \A k \in 1..i : Due(k)
  BY DEF MacroInv
<1> HIDE DEF Due, i, m
<1>4. \A k \in 1..MacroAdvance : Due(k)
  <2> TAKE k \in 1..MacroAdvance
  <2>1. k \in 1..i \/ k \in i + 1..MacroAdvance
    BY <1>1, <1>2, SMT
  <2> QED BY <1>2, <1>3, <2>1
<1>5. MacroAdvance \in T
  BY <1>1, <1>2, <1>4, SMT
<1>6. ASSUME NEW n \in T PROVE n <= MacroAdvance
  <2>1. n \in 0..m /\ \A k \in 1..n : Due(k)
    OBVIOUS
  <2>2. CASE n <= i
    BY <1>1, <1>2, <2>1, <2>2, SMT
  <2>3. CASE n > i
    <3>1. n \in i..m /\ \A k \in i + 1..n : k \in 1..n
      BY <1>1, <2>1, <2>3, SMT
    <3> QED BY <1>2, <2>1, <3>1
  <2> QED BY <1>1, <2>1, <2>2, <2>3, SMT
<1>7. T \in SUBSET Nat /\ T # {} /\ \A n \in T : n <= m
  BY <1>1, <1>5, SMT
<1>8. Max(T) \in T /\ \A n \in T : n <= Max(T)
  BY <1>1, <1>7, MaxExists
<1>9. MacroAdvance <= Max(T) /\ Max(T) <= MacroAdvance /\ MacroAdvance \in Nat /\ Max(T) \in Nat
  BY <1>5, <1>6, <1>7, <1>8
<1>10. MacroAdvance = Max(T)
  BY <1>9, SMT
<1> QED BY <1>4, <1>5, <1>10 DEF Due, m

\* What a macro is asked for, and what that makes of it.
LEMMA MacroTurn ==
  ASSUME SourceTypeOK, MacroInv, provider = "macro", MacroGetReport,
         UNCHANGED <<provider, clock>>
  PROVE  /\ report' = IF player.finished THEN Neutral ELSE FrameAt(age)
         /\ MacroInv'
<1>1. CASE player.finished
  BY <1>1 DEF MacroGetReport, MacroInv
<1>2. CASE ~player.finished
  <2> DEFINE index == MacroAdvance
             ended == index = Len(player.frames)
             restart == ended /\ player.loop
             current == IF restart THEN 0 ELSE index
             start == IF restart THEN clock ELSE player.startTick
             over == ended /\ ~player.loop
  <2>0. /\ player \in Players /\ clock \in 0..ClockMod - 1 /\ age \in Nat
        /\ Len(player.frames) \in Nat
    BY ClockIsPositive, LenProperties, SMT DEF SourceTypeOK, Players, Frames
  <2>1. /\ player' = [player EXCEPT !.currentIdx = current, !.startTick = start, !.finished = over]
        /\ age' = IF restart THEN 0 ELSE age
        /\ report' = player.frames[IF current > 0 THEN current ELSE 1].report
    BY <1>2 DEF MacroGetReport
  <2>2. /\ index \in 0..Len(player.frames)
        /\ \A k \in 1..index : player.frames[k].timestampMs <= age
        /\ index = Max({n \in 0..Len(player.frames) :
                          \A k \in 1..n : player.frames[k].timestampMs <= age})
    BY <1>2, PlaceIsDue
  <2>3. FrameAt(age) = IF index = 0 \/ (index = Len(player.frames) /\ player.loop)
                       THEN player.frames[1].report ELSE player.frames[index].report
    BY <2>2 DEF FrameAt
  <2> HIDE DEF index
  <2>4. report' = FrameAt(age)
    <3>1. CASE index = 0 \/ restart
      <4>1. current = 0
        BY <3>1
      <4>2. (IF current > 0 THEN current ELSE 1) = 1
        BY <4>1, SMT
      <4> HIDE DEF current
      <4> QED BY <2>1, <2>3, <3>1, <4>2
    <3>2. CASE ~(index = 0 \/ restart)
      <4>1. current = index /\ index > 0
        BY <2>0, <2>2, <3>2, SMT
      <4>2. (IF current > 0 THEN current ELSE 1) = index
        BY <4>1
      <4> HIDE DEF current
      <4> QED BY <2>1, <2>3, <3>2, <4>2
    <3> QED BY <3>1, <3>2
  <2>5. /\ player'.currentIdx = current /\ player'.startTick = start
        /\ player'.frames = player.frames
    <3> HIDE DEF current, start, over
    <3> QED BY <2>0, <2>1 DEF Players
  <2>6. CASE restart
    <3>1. current = 0 /\ start = clock /\ age' = 0
      BY <2>1, <2>6
    <3>2. clock' = player'.startTick + age'
      BY <2>0, <2>5, <3>1, SMT
    <3>3. \A k \in 1..0 : FALSE
      BY SMT
    <3> QED BY <1>2, <2>4, <2>5, <3>1, <3>2, <3>3 DEF MacroInv
  <2>7. CASE ~restart
    <3>1. current = index /\ start = player.startTick /\ age' = age
      BY <2>1, <2>7
    <3> QED BY <1>2, <2>2, <2>4, <2>5, <3>1 DEF MacroInv
  <2> QED BY <2>6, <2>7
<1> QED BY <1>1, <1>2

\* A tick makes the macro older, and the clock go on or begin again.
LEMMA MacroTick ==
  ASSUME SourceTypeOK, MacroInv, Tick
  PROVE  MacroInv'
<1> SUFFICES ASSUME provider = "macro", ~player.finished PROVE MacroInv'
  BY DEF MacroInv, Tick, NotAsked
<1>0. /\ player \in Players /\ player.startTick \in 0..ClockMod - 1 /\ clock \in 0..ClockMod - 1
      /\ age \in 0..MaxAge /\ player.currentIdx \in Nat /\ Len(player.frames) \in Nat
      /\ player.currentIdx <= Len(player.frames)
  BY LenProperties DEF SourceTypeOK, Players, Frames
<1>1. age' = age + 1 /\ age < MaxAge /\ UNCHANGED player
  BY DEF Tick, NotAsked
<1>2. clock' = IF clock + 1 = ClockMod THEN 0 ELSE clock + 1
  BY <1>0, ClockIsPositive, Wraps DEF Tick
<1>3. clock \in {player.startTick + age, player.startTick + age - ClockMod}
  BY DEF MacroInv
<1>4. clock' \in {player.startTick + age', player.startTick + age' - ClockMod}
  BY <1>0, <1>1, <1>2, <1>3, ClockIsPositive, SMT
<1>5. \A k \in 1..player.currentIdx : player.frames[k].timestampMs <= age'
  <2> TAKE k \in 1..player.currentIdx
  <2>1. k \in 1..Len(player.frames)
    BY <1>0, SMT
  <2>2. player.frames[k].timestampMs \in Nat
    <3>1. player.frames[k] \in [timestampMs : 0..ClockMod - 1, report : Report]
      BY <1>0, <2>1, ElementOfSeq DEF Players, Frames
    <3> QED BY <3>1, ClockIsPositive, SMT
  <2>3. player.frames[k].timestampMs <= age
    BY DEF MacroInv
  <2> QED BY <1>0, <1>1, <2>2, <2>3, SMT
<1> QED BY <1>1, <1>4, <1>5 DEF MacroInv

\* Only its provider and its clock move a macro.
LEMMA MacroKeeps == TypeOK /\ MacroInv /\ [Next]_feedVars => MacroInv'
<1> SUFFICES ASSUME TypeOK, SourceTypeOK, MacroInv, [Next]_feedVars PROVE MacroInv'
  BY DEF TypeOK
<1>1. ASSUME UNCHANGED <<provider, player, clock, age>> PROVE MacroInv'
  BY <1>1 DEF MacroInv
<1>2. UNCHANGED sourceVars => MacroInv'
  BY <1>1 DEF sourceVars, inputVars
<1>3. ASSUME Feeder \/ FeederStops PROVE MacroInv'
  <2>1. CASE FeederTurn
    <3>1. CASE provider = "macro"
      BY <2>1, <3>1, MacroTurn DEF FeederTurn, GetReport
    <3>2. CASE provider # "macro"
      BY <2>1, <3>2 DEF FeederTurn, GetReport, MacroInv
    <3> QED BY <3>1, <3>2
  <2>2. CASE ~FeederTurn
    BY <1>2, <1>3, <2>2 DEF Feeder, FeederOpens, FeederStart, ScriptEnds, FeederStops, FeederLeaves
  <2> QED BY <2>1, <2>2
<1>4. ASSUME WorldActs PROVE MacroInv'
  <2>1. KeyChanges \/ CursorMoves \/ DatagramArrives => MacroInv'
    BY <1>1 DEF KeyChanges, CursorMoves, DatagramArrives, NotAsked
  <2> QED BY <1>4, <2>1, MacroTick DEF WorldActs
<1>5. Verifier \/ Child \/ Monitor \/ UNCHANGED feedVars => UNCHANGED sourceVars
  BY DEF Verifier, Child, Monitor, feedVars
<1> QED BY <1>2, <1>3, <1>4, <1>5 DEF Next, World

\* A macro shows the frame that is due, for every file of numbers, every start
\* of the clock and every modulus above the age it is polled to.
THEOREM MacroDoesFollowClock == Spec => MacroFollowsClock
<1>1. Init => MacroInv
  <2> SUFFICES ASSUME Init, provider = "macro"
               PROVE  /\ clock = player.startTick + age
                      /\ player.currentIdx = 0
    BY SMT DEF MacroInv
  <2>1. PICK file \in MacroFiles :
          player = [NoMacro EXCEPT !.frames = LoadMacro(file.lines), !.loop = file.loop,
                                   !.startTick = clock]
    BY DEF Init, SourceInit, MacroInit
  <2>2. player.startTick = clock /\ player.currentIdx = 0
    BY <2>1 DEF NoMacro
  <2>3. age = 0 /\ clock \in Int
    BY ClockIsPositive, SMT DEF Init, SourceInit
  <2> QED BY <2>2, <2>3, SMT
<1>2. Spec => []MacroInv
  BY <1>1, MacroKeeps, FeedTypeCorrect, PTL DEF Spec
<1>3. TypeOK /\ MacroInv /\ [Next]_feedVars
      => [provider = "macro" /\ FeederTurn
          => report' = IF player.finished THEN Neutral ELSE FrameAt(age)]_feedVars
  <2> SUFFICES ASSUME TypeOK, MacroInv, provider = "macro", FeederTurn
               PROVE  report' = IF player.finished THEN Neutral ELSE FrameAt(age)
    OBVIOUS
  <2>1. MacroGetReport /\ UNCHANGED <<provider, clock>>
    BY DEF FeederTurn, GetReport
  <2> QED BY <2>1, MacroTurn DEF TypeOK
<1> QED BY <1>2, <1>3, FeedTypeCorrect, PTL DEF Spec, MacroFollowsClock

-----------------------------------------------------------------------------
(* Native reads.                                                           *)

\* An observation of the upper filter is what the controller's user did.
THEOREM ObservationIsFaithful == Spec => ObservationFaithful
<1>1. TypeOK /\ [Next]_feedVars
      => [HidRead /\ Plain(physical)
          => /\ upperSeen' = physical
             /\ XInputButtons(physical) = SemanticButtons(upperSeen') \ {"GUIDE", "MISC"}]_feedVars
  BY NativeRoundTrip, ObservationAgreesWithXInput
     DEF HidRead, NativeRead, UpperRecords, TypeOK, PathTypeOK
<1> QED BY <1>1, FeedTypeCorrect, PTL DEF Spec, ObservationFaithful

\* A well-formed id has one place of either tag, so that the first and the
\* last are the same.
LEMMA IdsReadTheSame ==
  ASSUME NEW hwid \in Seq([tag : STRING, text : Seq(Nat)]), WellFormed(hwid),
         NEW tag \in {"VID", "PID"}
  PROVE  UpperParseId(hwid, tag) = LowerParseId(hwid, tag)
<1>1. PICK i \in DOMAIN hwid : /\ hwid[i].tag = tag /\ HexPrefix(hwid[i].text) = 4
                               /\ \A j \in DOMAIN hwid : hwid[j].tag = tag => j = i
  BY DEF WellFormed
<1>2. i \in Nat
  BY <1>1, SMT
<1> DEFINE upper == {j \in DOMAIN hwid : hwid[j].tag = tag /\ HexPrefix(hwid[j].text) = 4}
           lower == {j \in DOMAIN hwid : hwid[j].tag = tag}
<1>3. upper = {i} /\ lower = {i}
  BY <1>1
<1>4. /\ (CHOOSE j \in upper : \A k \in upper : j <= k) = i
      /\ (CHOOSE j \in lower : \A k \in lower : j >= k) = i
  BY <1>2, <1>3, SMT
<1>5. UpperParseId(hwid, tag) = HexValue(SubSeq(hwid[i].text, 1, 4))
  BY <1>3, <1>4 DEF UpperParseId
<1>6. LowerParseId(hwid, tag) = HexValue(SubSeq(hwid[i].text, 1, HexPrefix(hwid[i].text)))
  BY <1>3, <1>4 DEF LowerParseId
<1> QED BY <1>1, <1>5, <1>6

\* Both filters know the same well-formed ids for a controller, and record
\* the same of it, up to the lowest position of a stick.
THEOREM FiltersDoAgree == Spec => FiltersAgree
<1>1. ASSUME physical \in Report, id \in HardwareIds, HidRead, WellFormed(id)
      PROVE  lowerSeen' = IF UpperSupports
                          THEN [f \in DOMAIN Neutral |-> AtLeast(upperSeen'[f], -32767)]
                          ELSE lowerSeen
  <2> DEFINE n == TranslateReport(physical)
             u == ParseNativeReport(n)
             l == LowerParseReport(n)
  <2>1. UpperSupports = LowerSupports
    BY <1>1, IdsReadTheSame, PathAssumption DEF UpperSupports, LowerSupports
  <2>2. \A f \in {"b0", "b1", "dpad", "lt", "rt"} : l[f] = u[f] /\ AtLeast(u[f], -32767) = u[f]
    <3>1. u.b0 \in Nat /\ u.b1 \in Nat /\ u.dpad \in Int /\ u.dpad >= -32767
      BY <1>1, SMT DEF Report, Byte, ParseNativeReport, TranslateReport, DPadOf, DPadNeutral
    <3>2. u.lt \in Nat /\ u.rt \in Nat
      BY <1>1, TriggersAreNumbers DEF ParseNativeReport, TranslateReport
    <3>3. \A f \in {"b0", "b1", "dpad", "lt", "rt"} : l[f] = u[f]
      BY <1>1, FiltersRecordTheSame
    <3> QED BY <3>1, <3>2, <3>3, SMT DEF AtLeast
  <2>3. \A f \in {"lx", "ly", "rx", "ry"} : l[f] = AtLeast(u[f], -32767)
    BY <1>1, FiltersRecordTheSame
  <2>4. /\ DOMAIN Neutral = {"b0", "b1", "dpad", "lt", "rt", "lx", "ly", "rx", "ry"}
        /\ l = [f \in DOMAIN Neutral |-> l[f]]
    BY DEF Neutral, LowerParseReport, ParseNativeReport
  <2>5. l = [f \in DOMAIN Neutral |-> AtLeast(u[f], -32767)]
    BY <2>2, <2>3, <2>4
  <2> QED BY <1>1, <2>1, <2>5 DEF HidRead, NativeRead, UpperRecords, LowerRecords
<1>2. TypeOK /\ [Next]_feedVars
      => [HidRead /\ WellFormed(id)
          => lowerSeen' = IF UpperSupports
                          THEN [f \in DOMAIN Neutral |-> AtLeast(upperSeen'[f], -32767)]
                          ELSE lowerSeen]_feedVars
  BY <1>1 DEF TypeOK, PathTypeOK
<1> QED BY <1>2, FeedTypeCorrect, PTL DEF Spec, FiltersAgree

=============================================================================
