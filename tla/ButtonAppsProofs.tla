-------------------------- MODULE ButtonAppsProofs --------------------------
(***************************************************************************)
(* The polling examples act once per press and show what was pressed, for  *)
(* every width of the value and any number of buttons held.                *)
(***************************************************************************)
EXTENDS ButtonApps, TLAPS

\* 2^k, whose values the provers know for numbers only.
Power(k) == 2^k

LEMMA Powers ==
  /\ Power(0) = 1 /\ Power(1) = 2 /\ Power(2) = 4 /\ Power(3) = 8 /\ Power(4) = 16
  /\ Power(5) = 32 /\ Power(6) = 64 /\ Power(7) = 128 /\ Power(8) = 256
  /\ Power(9) = 512 /\ Power(10) = 1024 /\ Power(11) = 2048 /\ Power(12) = 4096
  /\ Power(13) = 8192 /\ Power(14) = 16384 /\ Power(15) = 32768 /\ Power(16) = 65536
BY DEF Power

\* The widths that the variables of the examples can have.
LEMMA Widths ==
  \/ Bits = 2 /\ M = 4
  \/ Bits = 4 /\ M = 16
  \/ Bits = 8 /\ M = 256
  \/ Bits = 16 /\ M = 65536
<1>1. M = Power(Bits)
  BY DEF M, Power
<1> QED
  BY <1>1, Powers, ButtonAppsAssumption

LEMMA Doubles == \A k \in 0..14 : Power(k + 1) = Power(k) * 2
BY Powers

\* The bits of a value: all fit, the highest is half of M, the next one is the double.
LEMMA PowersFit ==
  /\ Power(0) = 1 /\ Power(Bits - 1) = M \div 2
  /\ \A k \in 0..(Bits - 2) : Power(k) \in 1..((M \div 2) - 1)
  /\ \A k \in 0..(Bits - 2) : Power(k + 1) = Power(k) * 2
BY Powers, Doubles, Widths

\* rotate_left and rotate_right of the helper functions turn the bit that is set.
LEMMA Rotates ==
  ASSUME NEW k \in 0..(Bits - 1)
  PROVE  /\ rotate_left(Power(k)) = Power((k + 1) % Bits)
         /\ rotate_right(Power(k)) = Power((k + Bits - 1) % Bits)
<1>1. rotate_left(Power(k)) = Power((k + 1) % Bits)
  <2>1. CASE k = Bits - 1
    <3>1. (k + 1) % Bits = 0 /\ Power(k) = M \div 2
      BY <2>1, Widths, PowersFit
    <3> QED
      BY <3>1, Widths, PowersFit DEF rotate_left
  <2>2. CASE k \in 0..(Bits - 2)
    <3>1. (k + 1) % Bits = k + 1
      BY <2>2, Widths
    <3>2. Power(k) \in 1..((M \div 2) - 1) /\ Power(k + 1) = Power(k) * 2
      BY <2>2, PowersFit
    <3>3. rotate_left(Power(k)) = Power(k) * 2
      BY <3>2, Widths DEF rotate_left
    <3> QED
      BY <3>1, <3>2, <3>3
  <2> QED
    BY <2>1, <2>2, Widths
<1>2. rotate_right(Power(k)) = Power((k + Bits - 1) % Bits)
  <2>1. CASE k = 0
    <3>1. (k + Bits - 1) % Bits = Bits - 1
      BY <2>1, Widths
    <3>2. rotate_right(1) = M \div 2
      BY Widths DEF rotate_right
    <3> QED
      BY <2>1, <3>1, <3>2, PowersFit
  <2>2. CASE k \in 1..(Bits - 1)
    <3>1. (k + Bits - 1) % Bits = k - 1
      BY <2>2, Widths
    <3>2. /\ k - 1 \in 0..(Bits - 2) /\ (k - 1) + 1 = k
      BY <2>2, Widths
    <3>3. Power(k - 1) \in 1..((M \div 2) - 1) /\ Power(k) = Power(k - 1) * 2
      BY <3>2, PowersFit
    <3>4. rotate_right(Power(k)) = Power(k - 1)
      BY <3>3, Widths DEF rotate_right
    <3> QED
      BY <3>1, <3>4
  <2> QED
    BY <2>1, <2>2, Widths
<1> QED
  BY <1>1, <1>2

LEMMA ValuesStay ==
  ASSUME NEW v \in 0..(M - 1)
  PROVE  /\ rotate_left(v) \in 0..(M - 1) /\ rotate_right(v) \in 0..(M - 1)
         /\ Increment(v) \in 0..(M - 1) /\ Decrement(v) \in 0..(M - 1)
         /\ Times10(v) \in 0..(M - 1) /\ Over10(v) \in 0..(M - 1)
BY Widths DEF rotate_left, rotate_right, Increment, Decrement, Times10, Over10

\* Counting net presses modulo M keeps them modulo Bits, which divides M.
LEMMA NetOfTurn ==
  ASSUME NEW n \in 0..(M - 1), NEW s \in -1..1
  PROVE  /\ (n + s) % M \in 0..(M - 1)
         /\ ((n + s) % M) % Bits = ((n % Bits) + Bits + s) % Bits
         /\ n % Bits \in 0..(Bits - 1)
         /\ (1 + ((n + s) % M)) % M = (((1 + n) % M) + M + s) % M
BY Widths
-----------------------------------------------------------------------------
\* Any last_mode agrees with the value 1 and no presses.
LEMMA InitValue == Init => Inv
<1>1. 0 \in 0..(M - 1) /\ 1 \in 0..(M - 1) /\ (1 + 0) % M = 1 /\ 0 % Bits = 0
  BY Widths
<1>2. 2^(0 % Bits) = 1
  BY <1>1, PowersFit DEF Power
<1>3. Nothing \in [btns : SUBSET Buttons, sw : SUBSET {"SW0", "SW1"}]
  BY DEF Nothing
<1>4. Init => TypeOK
  BY <1>1, <1>3 DEF Init, TypeOK, Modes
<1>5. Init => ValueIsNetPresses
  BY <1>1, <1>2 DEF Init, ValueIsNetPresses, Modes
<1> QED
  BY <1>4, <1>5 DEF Inv

LEMMA ShiftType == TypeOK => shift_mode \in 0..(M - 1)
BY ValuesStay DEF TypeOK, shift_mode, After

LEMMA CountType == TypeOK => count_mode \in 0..(M - 1)
BY ValuesStay DEF TypeOK, count_mode, After

LEMMA MulDivType == \A v \in 0..(M - 1) : mul_div(v) \in 0..(M - 1)
BY ValuesStay DEF mul_div, After

\* A turn in shift mode turns the LED by the presses it acts on.
LEMMA ShiftTurn ==
  ASSUME TypeOK, value = Power(net % Bits)
  PROVE  /\ Net("LEFT") + Net("RIGHT") \in -1..1
         /\ shift_mode = Power(((net + (Net("LEFT") + Net("RIGHT"))) % M) % Bits)
<1> DEFINE j == net % Bits
           s == Net("LEFT") + Net("RIGHT")
<1>1. j \in 0..(Bits - 1) /\ net \in 0..(M - 1)
  BY Widths DEF TypeOK
<1>2. (j + Bits - 1) % Bits \in 0..(Bits - 1) /\ (j + 1) % Bits \in 0..(Bits - 1)
  BY <1>1, Widths
<1>3. s \in -1..1
  BY DEF Net, Sign
<1>4. ((net + s) % M) % Bits = (j + Bits + s) % Bits
  BY <1>1, <1>3, NetOfTurn
<1>5. /\ (j + Bits + 0) % Bits = j /\ (j + Bits + 1) % Bits = (j + 1) % Bits
      /\ (j + Bits + -1) % Bits = (j + Bits - 1) % Bits
      /\ (((j + Bits - 1) % Bits) + 1) % Bits = j
  BY <1>1, Widths
<1>6. shift_mode = Power((j + Bits + s) % Bits)
  <2>1. CASE Acts("LEFT") /\ Acts("RIGHT")
    <3>1. s = 0
      BY <2>1 DEF Net, Sign
    <3>2. shift_mode = rotate_left(rotate_right(Power(j)))
      BY <2>1 DEF shift_mode, After
    <3> QED
      BY <1>1, <1>2, <1>5, <3>1, <3>2, Rotates
  <2>2. CASE Acts("LEFT") /\ ~Acts("RIGHT")
    <3>1. s = 1
      BY <2>2 DEF Net, Sign
    <3>2. shift_mode = rotate_left(Power(j))
      BY <2>2 DEF shift_mode, After
    <3> QED
      BY <1>1, <1>5, <3>1, <3>2, Rotates
  <2>3. CASE ~Acts("LEFT") /\ Acts("RIGHT")
    <3>1. s = -1
      BY <2>3 DEF Net, Sign
    <3>2. shift_mode = rotate_right(Power(j))
      BY <2>3 DEF shift_mode, After
    <3> QED
      BY <1>1, <1>5, <3>1, <3>2, Rotates
  <2>4. CASE ~Acts("LEFT") /\ ~Acts("RIGHT")
    <3>1. s = 0
      BY <2>4 DEF Net, Sign
    <3>2. shift_mode = Power(j)
      BY <2>4 DEF shift_mode, After
    <3> QED
      BY <1>5, <3>1, <3>2
  <2> QED
    BY <2>1, <2>2, <2>3, <2>4
<1> QED
  BY <1>3, <1>4, <1>6

\* A turn in count mode adds the presses it acts on.
LEMMA CountTurn ==
  ASSUME TypeOK, value = (1 + net) % M
  PROVE  /\ Net("UP") + Net("DOWN") \in -1..1
         /\ count_mode = (1 + ((net + (Net("UP") + Net("DOWN"))) % M)) % M
<1> DEFINE s == Net("UP") + Net("DOWN")
<1>1. net \in 0..(M - 1) /\ value \in 0..(M - 1)
  BY DEF TypeOK
<1>2. s \in -1..1
  BY DEF Net, Sign
<1>3. count_mode = (value + M + s) % M
  <2>1. /\ (value + M + 0) % M = value /\ (value + M + 1) % M = (value + 1) % M
        /\ (value + M + -1) % M = (value + M - 1) % M
        /\ (((value + 1) % M) + M - 1) % M = value
    BY <1>1, Widths
  <2> QED
    BY <2>1 DEF count_mode, After, Net, Sign, Increment, Decrement
<1>4. (1 + ((net + s) % M)) % M = (((1 + net) % M) + M + s) % M
  BY <1>1, <1>2, NetOfTurn
<1> QED
  BY <1>2, <1>3, <1>4

\* A turn of led_btns: in a new mode the value starts from 1, in the old one it moves
\* by the net presses of the turn.
LEMMA LedBtnsValue ==
  ASSUME Inv, led_btns
  PROVE  Inv'
<1> DEFINE s == IF Mode = "SHIFT_MODE" THEN Net("LEFT") + Net("RIGHT")
                ELSE Net("UP") + Net("DOWN")
           v == NewMode(IF Mode = "SHIFT_MODE" THEN shift_mode ELSE count_mode)
<1>1. prog = "led_btns" /\ value' = v /\ out' = v /\ last_mode' = Mode /\ Mode \in Modes
  BY DEF led_btns, Mode, Modes
<1>2. net' = IF last_mode # Mode THEN 0 ELSE (net + s) % M
  BY DEF led_btns
<1>3. TypeOK
  BY DEF Inv
<1>4. v \in 0..(M - 1)
  BY <1>3, ShiftType, CountType, Widths DEF NewMode
<1>5. s \in -1..1
  BY DEF Net, Sign
<1>6. net' \in 0..(M - 1)
  <2>1. 0 \in 0..(M - 1)
    BY Widths
  <2>2. (net + s) % M \in 0..(M - 1)
    BY <1>3, <1>5, NetOfTurn DEF TypeOK
  <2> QED
    BY <1>2, <2>1, <2>2
<1>7. TypeOK'
  BY <1>1, <1>3, <1>4, <1>6 DEF TypeOK, led_btns, NextTurn, Nothing, Clicked
<1>8. ValueIsNetPresses'
  <2>1. CASE last_mode # Mode
    <3>1. value' = 1 /\ net' = 0
      BY <1>1, <1>2, <2>1 DEF NewMode
    <3>2. (1 + 0) % M = 1 /\ 0 % Bits = 0
      BY Widths
    <3>3. 2^(net' % Bits) = 1
      BY <3>1, <3>2, PowersFit DEF Power
    <3> QED
      BY <1>1, <3>1, <3>2, <3>3 DEF ValueIsNetPresses, Modes
  <2>2. CASE last_mode = Mode /\ Mode = "SHIFT_MODE"
    <3>1. value = Power(net % Bits)
      BY <1>1, <2>2 DEF Inv, ValueIsNetPresses, Power
    <3>2. shift_mode = Power(net' % Bits)
      BY <1>2, <1>3, <2>2, <3>1, ShiftTurn
    <3>3. value' = 2^(net' % Bits)
      BY <1>1, <2>2, <3>2 DEF NewMode, Power
    <3> QED
      BY <1>1, <2>2, <3>3 DEF ValueIsNetPresses
  <2>3. CASE last_mode = Mode /\ Mode = "COUNT_MODE"
    <3>1. value = (1 + net) % M
      BY <1>1, <2>3 DEF Inv, ValueIsNetPresses
    <3>2. count_mode = (1 + net') % M
      BY <1>2, <1>3, <2>3, <3>1, CountTurn
    <3>3. value' = (1 + net') % M
      BY <1>1, <2>3, <3>2 DEF NewMode
    <3> QED
      BY <1>1, <2>3, <3>3 DEF ValueIsNetPresses
  <2> QED
    BY <1>1, <2>1, <2>2, <2>3 DEF Modes
<1> QED
  BY <1>7, <1>8 DEF Inv

LEMMA StepValue == Inv /\ [Next]_vars => Inv'
<1> SUFFICES ASSUME Inv, [Next]_vars PROVE Inv'
  OBVIOUS
<1> DEFINE Kept == UNCHANGED <<prog, value, last_mode, out, net>>
<1>1. ASSUME Kept, pc' \in {"read", "write"}, clicked' \subseteq Buttons,
             {in', seen'} \subseteq [btns : SUBSET Buttons, sw : SUBSET {"SW0", "SW1"}]
      PROVE  Inv'
  BY <1>1 DEF Inv, TypeOK, ValueIsNetPresses
<1>2. CASE Read
  BY <1>1, <1>2 DEF Read, Inv, TypeOK
<1>3. CASE led_btns
  BY <1>3, LedBtnsValue
<1>4. CASE seven_segment
  <2>1. value' \in 0..(M - 1) /\ out' = value' /\ prog' = "seven_segment"
    BY <1>4, CountType, MulDivType DEF seven_segment, Inv
  <2> QED
    BY <1>4, <2>1 DEF seven_segment, Inv, TypeOK, ValueIsNetPresses, NextTurn, Nothing, Clicked
<1>5. CASE led_example
  <2>1. Leds(seen.sw) \in 0..(M - 1)
    BY Widths DEF Leds
  <2> QED
    BY <1>5, <2>1 DEF led_example, Inv, TypeOK, ValueIsNetPresses, NextTurn, Nothing
<1>6. ASSUME NEW b \in Heeded, Press(b) PROVE Inv'
  <2>1. in' \in [btns : SUBSET Buttons, sw : SUBSET {"SW0", "SW1"}]
    BY <1>6 DEF Press, Heeded, Inv, TypeOK
  <2> QED
    BY <1>1, <1>6, <2>1 DEF Press, Inv, TypeOK
<1>7. ASSUME NEW b \in Heeded, Release(b) PROVE Inv'
  <2>1. in' \in [btns : SUBSET Buttons, sw : SUBSET {"SW0", "SW1"}]
    BY <1>7 DEF Release, Inv, TypeOK
  <2> QED
    BY <1>1, <1>7, <2>1 DEF Release, Inv, TypeOK
<1>8. ASSUME NEW s \in Switches, Toggle(s) PROVE Inv'
  <2>1. s \in {"SW0", "SW1"}
    BY DEF Switches
  <2>2. in' \in [btns : SUBSET Buttons, sw : SUBSET {"SW0", "SW1"}]
    BY <1>8, <2>1 DEF Toggle, Inv, TypeOK
  <2> QED
    BY <1>1, <1>8, <2>2 DEF Toggle, Inv, TypeOK
<1>9. CASE UNCHANGED vars
  BY <1>9 DEF vars, Inv, TypeOK, ValueIsNetPresses
<1> QED
  BY <1>2, <1>3, <1>4, <1>5, <1>6, <1>7, <1>8, <1>9 DEF Next, Loop

\* The value of led_btns and seven_segment stays within its bits, and what led_btns
\* shows is its starting value moved by the net presses since the mode began,
\* whatever last_mode was at the start (led_btns.c).
THEOREM ValuesAreNetPresses == Spec => []Inv
BY InitValue, StepValue, PTL DEF Spec
-----------------------------------------------------------------------------
\* A button that has acted for its press is remembered as clicked, and a turn
\* that is about to forget it saw it released: it is up, or pressed anew.
Remembered ==
  /\ acted \in [Buttons -> {0, 1}]
  /\ \A b \in Buttons : acted[b] = 1 =>
       /\ b \in clicked
       /\ pc = "write" /\ b \notin seen.btns => b \notin in.btns

ActsInv == TypeOK /\ Remembered
-----------------------------------------------------------------------------
LEMMA InitActs == Init => Remembered
BY DEF Init, Remembered, Nothing

\* A turn that looks at the buttons bs.
LEMMA TurnActs ==
  ASSUME ActsInv, pc = "write", NEW bs \in SUBSET Buttons,
         clicked' = Clicked(bs), Acted(bs), NextTurn
  PROVE  Remembered'
<1>1. pc' = "read"
  BY DEF NextTurn
<1>2. acted' \in [Buttons -> {0, 1}]
  <2> SUFFICES ASSUME NEW b \in Buttons PROVE acted'[b] \in {0, 1}
    BY DEF Acted
  <2>1. CASE b \in bs /\ Acts(b)
    BY <2>1 DEF Acted, Acts, ActsInv, Remembered
  <2>2. CASE ~(b \in bs /\ Acts(b)) /\ b \in in.btns
    BY <2>2 DEF Acted, ActsInv, Remembered
  <2>3. CASE ~(b \in bs /\ Acts(b)) /\ b \notin in.btns
    BY <2>3 DEF Acted
  <2> QED
    BY <2>1, <2>2, <2>3
<1>3. ASSUME NEW b \in Buttons, acted'[b] = 1
      PROVE  b \in clicked'
  <2>1. CASE b \in bs /\ Acts(b)
    BY <2>1 DEF Acts, Clicked
  <2>2. CASE ~(b \in bs /\ Acts(b)) /\ b \in in.btns
    <3>1. acted[b] = 1
      BY <1>3, <2>2 DEF Acted
    <3>2. b \in clicked /\ b \in seen.btns
      BY <2>2, <3>1 DEF ActsInv, Remembered
    <3> QED
      BY <3>2 DEF Clicked
  <2>3. CASE ~(b \in bs /\ Acts(b)) /\ b \notin in.btns
    BY <1>3, <2>3 DEF Acted
  <2> QED
    BY <2>1, <2>2, <2>3
<1> QED
  BY <1>1, <1>2, <1>3 DEF ActsInv, TypeOK, Remembered

LEMMA ReadActs == ActsInv /\ Read => Remembered'
BY DEF ActsInv, TypeOK, Remembered, Read

LEMMA ExampleActs == ActsInv /\ led_example => Remembered'
BY DEF ActsInv, TypeOK, Remembered, led_example, NextTurn

LEMMA PressActs ==
  ASSUME ActsInv, NEW b \in Buttons, Press(b)
  PROVE  Remembered'
<1>1. acted' = [acted EXCEPT ![b] = 0] /\ in'.btns \subseteq in.btns \cup {b}
  BY DEF Press, ActsInv, TypeOK
<1> QED
  BY <1>1 DEF ActsInv, TypeOK, Remembered, Press

LEMMA StepActs == ActsInv /\ [Next]_vars => Remembered'
<1> SUFFICES ASSUME ActsInv, [Next]_vars PROVE Remembered'
  OBVIOUS
<1>1. CASE Read
  BY <1>1, ReadActs
<1>2. CASE led_btns
  <2> DEFINE bs == IF Mode = "SHIFT_MODE" THEN {"RIGHT", "LEFT"} ELSE {"UP", "DOWN"}
  <2>1. bs \in SUBSET Buttons
    BY DEF Buttons
  <2>2. pc = "write" /\ clicked' = Clicked(bs) /\ Acted(bs) /\ NextTurn
    BY <1>2 DEF led_btns
  <2> QED
    BY <2>1, <2>2, TurnActs
<1>3. CASE seven_segment
  BY <1>3, TurnActs DEF seven_segment
<1>4. CASE led_example
  BY <1>4, ExampleActs
<1>5. ASSUME NEW b \in Heeded, Press(b) PROVE Remembered'
  BY <1>5, PressActs DEF Heeded
<1>6. ASSUME NEW b \in Heeded, Release(b) PROVE Remembered'
  BY <1>6 DEF Release, ActsInv, TypeOK, Remembered
<1>7. ASSUME NEW s \in Switches, Toggle(s) PROVE Remembered'
  BY <1>7 DEF Toggle, ActsInv, TypeOK, Remembered
<1>8. CASE UNCHANGED vars
  BY <1>8 DEF vars, ActsInv, TypeOK, Remembered
<1> QED
  BY <1>1, <1>2, <1>3, <1>4, <1>5, <1>6, <1>7, <1>8 DEF Next, Loop

\* However long a button is held, whatever is released and pressed between two
\* reads and whichever mode a press falls into, it acts once at most (the static
\* flags btn_..._clicked of led_btns.c and seven_segment.c).
THEOREM PressesActOnce == Spec => []ActsOncePerPress
<1>1. ActsInv => ActsOncePerPress
  BY DEF ActsInv, Remembered, ActsOncePerPress
<1>2. Inv => TypeOK
  BY DEF Inv
<1> QED
  BY <1>1, <1>2, InitActs, StepActs, ValuesAreNetPresses, PTL DEF Spec, ActsInv
=============================================================================
