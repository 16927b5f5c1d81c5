------------------------------- MODULE MCFeed -------------------------------
(***************************************************************************)
(* One controller, every source and both verifiers.                        *)
(***************************************************************************)
EXTENDS Feed

\* Two directions of a diagonal, a button, the key that turns the d-pad.
MCKeys == {"D", "W", "SPACE", "TAB"}

\* A jerk that goes past the end of an axis.
MCMoves == {<<-300, 5>>}

MCDatagrams == {PressA, [Neutral EXCEPT !.rt = 255]}

\* A frame a line: the time, Buttons[0], Buttons[1], the d-pad.
Line(numbers) == [i \in DOMAIN numbers |-> <<numbers[i]>>]

MCMacroFiles ==
  LET lines == << <<<<>>>>, Line(<<1, 1>>), Line(<<3, 0, 0, 15, 0, 0, 40000>>) >>
  IN {[lines |-> lines, loop |-> FALSE], [lines |-> lines, loop |-> TRUE],
      [lines |-> <<Line(<<2, 2>>), <<<<1>>, <<>>, <<4>>>>, Line(<<4, 8>>)>>, loop |-> FALSE]}

\* At rest, and the corners of every field.
MCShapes ==
  {Neutral, PressA,
   [Neutral EXCEPT !.lx = -32768, !.ry = 32767, !.b1 = 5, !.dpad = 7],
   [Neutral EXCEPT !.lt = 255, !.b0 = 255, !.dpad = 0],
   [Neutral EXCEPT !.rt = 255, !.lt = 254, !.b1 = 15, !.dpad = 1]}

Tag(tag, text) == [tag |-> tag, text |-> text]
Vendor == <<0, 4, 5, 14>>
Product == <<0, 2, 15, 15>>
End == 16   \* a character that is no digit

\* The controller's id; another vendor's; and two a parser may stumble on,
\* with a tag twice and with a number that is cut short.
MCHardwareIds ==
  {<<Tag("VID", Vendor \o <<End>>), Tag("PID", Product \o <<End>>)>>,
   <<Tag("VID", <<0, 4, 5, 13>>), Tag("PID", Product)>>,
   <<Tag("VID", Vendor), Tag("PID", Product \o <<1>>), Tag("PID", <<1, End>>)>>}

=============================================================================
