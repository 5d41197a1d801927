------------------------------ MODULE MCBoard ------------------------------
(***************************************************************************)
(* Four scenarios: two pages that come and go while LEDs change and a line *)
(* is printed; two pages that toggle switches; one page that connects      *)
(* twice; one page and a display of two digits, eight bits.  Of its words  *)
(* 0x11 is 17 and 0x32 is 50, 0x70 is 112, one numeral too many, and 0x82  *)
(* is negative and has the digit the reader starts from, as the display of *)
(* the other scenarios has: nothing is sent of it.                         *)
(***************************************************************************)
EXTENDS BoardProperties

CONSTANTS p1, p2

MCPage == {p1, p2}

NoDisplay == [d \in 0..0 |-> 8]
TwoDigits(high, low) == [d \in 0..1 |-> IF d = 1 THEN high ELSE low]
TwoDigitWords == {TwoDigits(1, 1), TwoDigits(3, 2), TwoDigits(7, 0), TwoDigits(8, 2)}

Scenario == [pages |-> {p1}, connects |-> 1, toggles |-> 0, leds |-> 0, lines |-> 0,
             digits |-> 1, words |-> {NoDisplay}, changes |-> 0]

MCBounds == {
  [Scenario EXCEPT !.pages = {p1, p2}, !.leds = 2, !.lines = 1],
  [Scenario EXCEPT !.pages = {p1, p2}, !.toggles = 1],
  [Scenario EXCEPT !.connects = 2, !.toggles = 1, !.leds = 1, !.lines = 1],
  [Scenario EXCEPT !.leds = 1, !.digits = 2, !.words = TwoDigitWords, !.changes = 1]}
=============================================================================
