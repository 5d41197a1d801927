----------------------------- MODULE ButtonApps -----------------------------
(***************************************************************************)
(* The example programs that poll the gpio: led_btns, seven_segment and    *)
(* led_example (src/sw/examples).  Each turn of their loops reads          *)
(* RGPIO_IN once and writes the LEDs or the digits once; buttons and       *)
(* switches change at any time between.                                    *)
(***************************************************************************)
EXTENDS Integers, FiniteSets

CONSTANTS
  Bits,       \* of g_led_value and g_value
  MaxHeld     \* buttons held at the same time

\* A rotation by a power of two of bits is the same modulo 2^Bits.
ASSUME ButtonAppsAssumption == Bits \in {2, 4, 8, 16} /\ MaxHeld \in Nat

Buttons == {"UP", "RIGHT", "DOWN", "LEFT"}

VARIABLES
  prog, pc,      \* the program, its next access
  in,            \* RGPIO_IN: the buttons held, the switches that are on
  seen,          \* gpio_in_val
  clicked,       \* the static flags btn_..._clicked that are set
  value,         \* g_led_value or g_value
  last_mode,     \* of led_btns
  out,           \* RGPIO_OUT or the digits
  acted, net     \* history: acts since a button was pressed, net acts in the mode

vars == <<prog, pc, in, seen, clicked, value, last_mode, out, acted, net>>

Nothing == [btns |-> {}, sw |-> {}]

Modes == {"SHIFT_MODE", "COUNT_MODE"}

\* last_mode is not initialised: it may have any value.
Init ==
  /\ prog \in {"led_btns", "seven_segment", "led_example"}
  /\ pc = "read" /\ in = Nothing /\ seen = Nothing /\ clicked = {}
  /\ value = IF prog = "led_btns" THEN 1 ELSE 0
  /\ last_mode \in IF prog = "led_btns" THEN Modes \cup {"neither"} ELSE {"neither"}
  /\ out = 0
  /\ acted = [b \in Buttons |-> 0] /\ net = 0
-----------------------------------------------------------------------------
(* The user, who leaves alone what the program does not look at.           *)

Heeded == IF prog = "led_example" THEN {} ELSE Buttons
Switches == CASE prog = "led_btns" -> {"SW0"}
              [] prog = "led_example" -> {"SW0", "SW1"}
              [] OTHER -> {}

Press(b) ==
  /\ b \notin in.btns /\ Cardinality(in.btns) < MaxHeld
  /\ in' = [in EXCEPT !.btns = @ \cup {b}]
  /\ acted' = [acted EXCEPT ![b] = 0]
  /\ UNCHANGED <<prog, pc, seen, clicked, value, last_mode, out, net>>

Release(b) ==
  /\ b \in in.btns
  /\ in' = [in EXCEPT !.btns = @ \ {b}]
  /\ UNCHANGED <<prog, pc, seen, clicked, value, last_mode, out, acted, net>>

Toggle(s) ==
  /\ in' = [in EXCEPT !.sw = IF s \in @ THEN @ \ {s} ELSE @ \cup {s}]
  /\ UNCHANGED <<prog, pc, seen, clicked, value, last_mode, out, acted, net>>
-----------------------------------------------------------------------------
(* One function acts on two buttons, the first of them first.              *)

\* Mutation: a button acts as long as it is held.
ActsHeld(b) == b \in seen.btns

\* A button acts when it is seen held and was not before.
Acts(b) == b \in seen.btns /\ b \notin clicked

\* The flags of the buttons bs, which their function has looked at.
Clicked(bs) == (clicked \ bs) \cup (bs \cap seen.btns)

M == 2^Bits

rotate_right(v) == (v \div 2) + ((v % 2) * (M \div 2))

rotate_left(v) == ((v * 2) % M) + (v \div (M \div 2))

\* The value after button b has had its turn.
After(b, stepped, v) == IF Acts(b) THEN stepped ELSE v

Increment(v) == (v + 1) % M
Decrement(v) == (v + M - 1) % M
Times10(v) == (v * 10) % M
Over10(v) == v \div 10

shift_mode == LET v == After("RIGHT", rotate_right(value), value)
              IN  After("LEFT", rotate_left(v), v)
count_mode == LET v == After("UP", Increment(value), value)
              IN  After("DOWN", Decrement(v), v)
mul_div(v) == LET w == After("RIGHT", Times10(v), v)
              IN  After("LEFT", Over10(w), w)

\* An act is remembered while the button is held.
Acted(bs) ==
  acted' = [b \in Buttons |-> CASE b \in bs /\ Acts(b) -> acted[b] + 1
                               [] ~(b \in bs /\ Acts(b)) /\ b \in in.btns -> acted[b]
                               [] OTHER -> 0]

Sign(b) == IF b \in {"UP", "LEFT"} THEN 1 ELSE -1

Net(b) == IF Acts(b) THEN Sign(b) ELSE 0
-----------------------------------------------------------------------------
(* The loops of main.                                                      *)

\* Mutation: the inputs are read before the loop only.
ReadBefore ==
  /\ pc = "read"
  /\ seen' = Nothing /\ pc' = "write"
  /\ UNCHANGED <<prog, in, clicked, value, last_mode, out, acted, net>>

Read ==
  /\ pc = "read"
  /\ seen' = in /\ pc' = "write"
  /\ UNCHANGED <<prog, in, clicked, value, last_mode, out, acted, net>>

\* What was read is dead after the write.
NextTurn == pc' = "read" /\ seen' = Nothing

Mode == IF "SW0" \in seen.sw THEN "COUNT_MODE" ELSE "SHIFT_MODE"

\* Mutation: the value is kept when the mode changes.
NewModeKept(v) == v

\* A new mode starts from 1; what a button did in this turn is dropped.
NewMode(v) == IF last_mode # Mode THEN 1 ELSE v

led_btns ==
  /\ prog = "led_btns" /\ pc = "write"
  /\ LET bs == IF Mode = "SHIFT_MODE" THEN {"RIGHT", "LEFT"} ELSE {"UP", "DOWN"}
         v  == NewMode(IF Mode = "SHIFT_MODE" THEN shift_mode ELSE count_mode)
     IN  /\ value' = v /\ out' = v
         /\ clicked' = Clicked(bs) /\ Acted(bs)
         /\ net' = IF last_mode # Mode THEN 0
                   ELSE (net + (IF Mode = "SHIFT_MODE" THEN Net("LEFT") + Net("RIGHT")
                                ELSE Net("UP") + Net("DOWN"))) % M
  /\ last_mode' = Mode /\ NextTurn
  /\ UNCHANGED <<prog, in>>

seven_segment ==
  /\ prog = "seven_segment" /\ pc = "write"
  /\ value' = mul_div(count_mode) /\ out' = value'
  /\ clicked' = Clicked(Buttons) /\ Acted(Buttons)
  /\ NextTurn
  /\ UNCHANGED <<prog, in, last_mode, net>>

\* The LEDs over the switches that are on.
Leds(sw) == (IF "SW0" \in sw THEN 1 ELSE 0) + (IF "SW1" \in sw THEN 2 ELSE 0)

led_example ==
  /\ prog = "led_example" /\ pc = "write"
  /\ out' = Leds(seen.sw) /\ NextTurn
  /\ UNCHANGED <<prog, in, clicked, value, last_mode, acted, net>>

Loop == Read \/ led_btns \/ seven_segment \/ led_example

Next == \/ Loop
        \/ \E b \in Heeded : Press(b) \/ Release(b)
        \/ \E s \in Switches : Toggle(s)

\* The loops run on: a turn is always possible, so this is weak fairness.
Fairness == []<><<Loop>>_vars

Spec == Init /\ [][Next]_vars /\ Fairness
-----------------------------------------------------------------------------
\* Type invariant.
TypeOK ==
  /\ prog \in {"led_btns", "seven_segment", "led_example"} /\ pc \in {"read", "write"}
  /\ {in, seen} \subseteq [btns : SUBSET Buttons, sw : SUBSET {"SW0", "SW1"}]
  /\ clicked \subseteq Buttons /\ value \in 0..(M - 1)
  /\ last_mode \in Modes \cup {"neither"}
  /\ out \in 0..(M - 1)
  /\ net \in 0..(M - 1)

\* A press acts once at most, however long it is held, whatever is released
\* and pressed between two reads and whichever mode it falls into.
ActsOncePerPress == \A b \in Buttons : acted[b] <= 1

\* In shift mode one LED is on, turned by the net presses since the mode
\* began; in count mode the LEDs show 1 plus the net presses.  Garbage in
\* last_mode at the start makes no other value (led_btns.c).
ValueIsNetPresses ==
  prog = "led_btns" =>
    CASE last_mode = "SHIFT_MODE" -> value = 2^(net % Bits)
      [] last_mode = "COUNT_MODE" -> value = (1 + net) % M
      [] OTHER -> value = 1

\* The type invariant and the value shown.
Inv == TypeOK /\ ValueIsNetPresses

\* A button of each function of seven_segment acts while it is held, if its
\* release was seen before, unless it is let go; a LED of led_example follows
\* its switch.
InputsAreHeeded ==
  /\ \A b \in {"UP", "LEFT"} :
       (prog = "seven_segment" /\ b \in in.btns /\ b \notin clicked)
         ~> (b \in clicked \/ b \notin in.btns)
  /\ \A s \in {"SW0", "SW1"} :
       (prog = "led_example" /\ s \in in.sw)
         ~> ((out \div Leds({s})) % 2 = 1 \/ s \notin in.sw)
=============================================================================
