---------------------------- MODULE BtnIntProofs ----------------------------
(***************************************************************************)
(* Every press the gpio saw is counted once or merged into the press       *)
(* before it, and every period of the timer is counted once, for every     *)
(* period and any number of presses; no interrupt is taken before its      *)
(* handler is set.                                                         *)
(***************************************************************************)
EXTENDS BtnInt, TLAPS

CsrRecord == [mtvec : {0, 1}, mstatus : {0, 1}, mie : {0, 1}]

\* How far main has come decides what the devices can do.
Progress ==
  /\ pc[1] \in Labels /\ pc[2] \in 1..(Writes + 1) /\ pc = <<pc[1], pc[2]>>
  /\ csr \in CsrRecord
  /\ pc[2] <= Writes => pc[1] = "main" /\ csr.mie = 0
  /\ pc[2] > 12 => csr.mtvec = 1
  /\ pc[2] <= 6 => gpio.ctrl = 0 /\ gpio.ints = 0

\* The press that is being counted stays recorded until it is cleared.
Counting ==
  /\ gpio.ints \in {0, 1}
  /\ pc[1] \in {"out", "ints"} => gpio.ints = 1

Tallies == count_btn_press \in Nat /\ presses \in Nat /\ lost \in Nat

LedgerInv == Progress /\ Counting /\ Tallies /\ PressLedger
-----------------------------------------------------------------------------
LEMMA InitLedger == Init => LedgerInv
BY DEF Init, LedgerInv, Progress, CsrRecord, Counting, Tallies, PressLedger, Labels, Writes

\* What the writes of main are, as far as the ledger cares.
LEMMA InitWriteFacts ==
  ASSUME NEW k \in 1..Writes
  PROVE  /\ InitWrites[k].reg = "RGPIO_INTS" => k = 5 /\ InitWrites[k].value = 0
         /\ InitWrites[k].reg = "RGPIO_CTRL" => k = 6
         /\ InitWrites[k].reg = "CSR_MIE" => k = 14 /\ InitWrites[k].value = 1
         /\ InitWrites[k].reg = "CSR_MTVEC" => InitWrites[k].value = 1
         /\ InitWrites[k].reg = "CSR_MSTATUS" => InitWrites[k].value = 1
         /\ k = 12 => InitWrites[k].reg = "CSR_MTVEC"
<1>1. CASE k \in 1..6
  <2>1. InitWrites[k] = gpio_int_init[k]
    BY <1>1 DEF InitWrites, Writes
  <2>2. k = 1 \/ k = 2 \/ k = 3 \/ k = 4 \/ k = 5 \/ k = 6
    BY <1>1
  <2> QED
    BY <2>1, <2>2 DEF gpio_int_init, Write
<1>2. CASE k \in 7..11
  <2>1. InitWrites[k] = timer_int_init[k - 6]
    BY <1>2 DEF InitWrites, Writes
  <2>2. k = 7 \/ k = 8 \/ k = 9 \/ k = 10 \/ k = 11
    BY <1>2
  <2> QED
    BY <2>1, <2>2 DEF timer_int_init, Write
<1>3. CASE k \in 12..14
  <2>1. InitWrites[k] = cpu_int_init[k - 11]
    BY <1>3 DEF InitWrites, Writes
  <2>2. k = 12 \/ k = 13 \/ k = 14
    BY <1>3
  <2> QED
    BY <2>1, <2>2 DEF cpu_int_init, Write
<1> QED
  BY <1>1, <1>2, <1>3 DEF Writes

\* What a clock can do to the recorded press and its history.
Quiet == presses' = presses /\ lost' = lost /\ gpio'.ints = gpio.ints
Recorded == presses' = presses + 1 /\ lost' = lost /\ gpio.ints = 0 /\ gpio'.ints = 1
Merged == presses' = presses + 1 /\ lost' = lost + 1 /\ gpio.ints = 1 /\ gpio'.ints = 1
Cleared == /\ gpio'.ints = 0
           /\ \/ presses' = presses /\ lost' = lost
              \/ presses' = presses + 1 /\ lost' = lost + 1

\* One clock: an edge is recorded, merged into a recorded one, or lost to the
\* write that clears the register.
LEMMA ClockEffect ==
  ASSUME NEW w, Clock(w), gpio.ints \in {0, 1}, Tallies,
         w.reg = "RGPIO_INTS" => w.value = 0
  PROVE  /\ gpio'.ints \in {0, 1} /\ presses' \in Nat /\ lost' \in Nat
         /\ w.reg # "RGPIO_INTS" => Quiet \/ Recorded \/ Merged
         /\ w.reg = "RGPIO_INTS" => Cleared
         /\ gpio.ctrl = 0 => presses' = presses /\ lost' = lost
         /\ gpio.ctrl = 0 /\ w.reg # "RGPIO_INTS" => gpio'.ints = gpio.ints
         /\ w.reg # "RGPIO_CTRL" => gpio'.ctrl = gpio.ctrl
<1>1. gpio'.ints = Ints(w) /\ gpio'.ctrl = (IF w.reg = "RGPIO_CTRL" THEN w.value ELSE gpio.ctrl)
  BY DEF Clock, Gpio
<1>2. /\ presses' = (IF Edge /\ Armed THEN presses + 1 ELSE presses)
      /\ lost' = (IF Edge /\ Armed /\ (gpio.ints = 1 \/ w.reg = "RGPIO_INTS")
                  THEN lost + 1 ELSE lost)
  BY DEF Clock
<1>3. gpio.ctrl = 0 => ~Armed
  BY DEF Armed
<1>4. CASE Edge /\ Armed
  BY <1>1, <1>2, <1>3, <1>4 DEF Ints, Tallies, Quiet, Recorded, Merged, Cleared
<1>5. CASE ~(Edge /\ Armed)
  BY <1>1, <1>2, <1>3, <1>5 DEF Ints, Tallies, Quiet, Recorded, Merged, Cleared
<1> QED
  BY <1>4, <1>5
-----------------------------------------------------------------------------
\* The ledger as an equation, with the recorded press not yet counted.
LEMMA LedgerEquation ==
  ASSUME Counting, Tallies
  PROVE  PressLedger <=> presses = count_btn_press + lost
                           + (IF pc[1] \in {"out", "ints"} THEN 0 ELSE gpio.ints)
BY DEF Counting, Tallies, PressLedger

\* What a clock does to presses that are counted but for the recorded one.
LEMMA OwedMoves ==
  ASSUME Tallies, gpio.ints \in {0, 1}, Quiet \/ Recorded \/ Merged,
         presses = count_btn_press + lost + gpio.ints
  PROVE  presses' = count_btn_press + lost' + gpio'.ints
<1>1. count_btn_press \in Nat /\ presses \in Nat /\ lost \in Nat
  BY DEF Tallies
<1>2. CASE Quiet
  BY <1>2 DEF Quiet
<1>3. CASE Recorded
  BY <1>1, <1>3 DEF Recorded
<1>4. CASE Merged
  BY <1>1, <1>4 DEF Merged
<1> QED
  BY <1>2, <1>3, <1>4

\* What it does to presses of which c are counted, the recorded one included.
LEMMA SettledMoves ==
  ASSUME Tallies, NEW c \in Nat, presses = c + lost,
         Quiet \/ Merged \/ Cleared
  PROVE  presses' = c + lost'
<1>1. count_btn_press \in Nat /\ presses \in Nat /\ lost \in Nat
  BY DEF Tallies
<1>2. CASE Quiet
  BY <1>2 DEF Quiet
<1>3. CASE Merged
  BY <1>1, <1>3 DEF Merged
<1>4. CASE Cleared
  BY <1>1, <1>4 DEF Cleared
<1> QED
  BY <1>2, <1>3, <1>4

LEMMA NothingOwed ==
  ASSUME NEW c \in Nat, NEW l \in Nat
  PROVE  c + l + 0 = c + l
OBVIOUS

LEMMA InitWriteKeeps == LedgerInv /\ InitWrite => LedgerInv'
<1> SUFFICES ASSUME LedgerInv, InitWrite PROVE LedgerInv'
  OBVIOUS
<1> DEFINE k == pc[2]
           w == InitWrites[k]
<1>1. k \in 1..Writes /\ pc[1] = "main" /\ csr.mie = 0
  BY DEF LedgerInv, Progress, InitWrite
<1>2. /\ Clock(w) /\ pc' = <<"main", k + 1>> /\ count_btn_press' = count_btn_press
      /\ csr' = [mtvec   |-> IF w.reg = "CSR_MTVEC"   THEN w.value ELSE csr.mtvec,
                 mstatus |-> IF w.reg = "CSR_MSTATUS" THEN w.value ELSE csr.mstatus,
                 mie     |-> IF w.reg = "CSR_MIE"     THEN w.value ELSE csr.mie]
  BY DEF InitWrite
<1>3. /\ w.reg = "RGPIO_INTS" => k = 5 /\ w.value = 0
      /\ w.reg = "RGPIO_CTRL" => k = 6
      /\ w.reg = "CSR_MIE" => k = 14 /\ w.value = 1
      /\ w.reg = "CSR_MTVEC" => w.value = 1
      /\ w.reg = "CSR_MSTATUS" => w.value = 1
      /\ k = 12 => w.reg = "CSR_MTVEC"
  BY <1>1, InitWriteFacts
<1> HIDE DEF w
<1>4. /\ gpio'.ints \in {0, 1} /\ presses' \in Nat /\ lost' \in Nat
      /\ w.reg # "RGPIO_INTS" => Quiet \/ Recorded \/ Merged
      /\ w.reg = "RGPIO_INTS" => Cleared
      /\ gpio.ctrl = 0 /\ w.reg # "RGPIO_INTS" => gpio'.ints = gpio.ints
      /\ w.reg # "RGPIO_CTRL" => gpio'.ctrl = gpio.ctrl
  BY <1>2, <1>3, ClockEffect DEF LedgerInv, Counting
<1>5. Progress'
  <2>1. k <= 6 => gpio.ctrl = 0 /\ gpio.ints = 0
    BY DEF LedgerInv, Progress
  <2>2. k > 12 => csr.mtvec = 1
    BY DEF LedgerInv, Progress
  <2>3. csr \in CsrRecord
    BY DEF LedgerInv, Progress
  <2>4. csr' \in CsrRecord
    BY <1>2, <1>3, <2>3 DEF CsrRecord
  <2>5. /\ csr'.mie = (IF w.reg = "CSR_MIE" THEN w.value ELSE csr.mie)
        /\ csr'.mtvec = (IF w.reg = "CSR_MTVEC" THEN w.value ELSE csr.mtvec)
    BY <1>2
  <2>6. /\ pc'[1] = "main" /\ pc'[2] = k + 1 /\ pc' = <<pc'[1], pc'[2]>>
        /\ "main" \in Labels
    BY <1>2 DEF Labels
  <2>7. k + 1 \in 1..(Writes + 1)
    BY <1>1 DEF Writes
  <2>8. k + 1 <= Writes => csr'.mie = 0
    BY <1>1, <1>3, <2>5 DEF Writes
  <2>9. k + 1 > 12 => csr'.mtvec = 1
    <3>1. CASE k = 12
      BY <3>1, <1>3, <2>5
    <3>2. CASE k # 12
      BY <3>2, <1>1, <1>3, <2>2, <2>5 DEF Writes
    <3> QED
      BY <3>1, <3>2
  <2>10. k + 1 <= 6 => gpio'.ctrl = 0 /\ gpio'.ints = 0
    BY <1>1, <1>3, <1>4, <2>1 DEF Writes, Cleared
  <2> HIDE DEF k
  <2> QED
    BY <2>4, <2>6, <2>7, <2>8, <2>9, <2>10 DEF Progress
<1>6. Counting' /\ Tallies'
  BY <1>2, <1>4 DEF LedgerInv, Counting, Tallies
<1>7. PressLedger'
  <2>1. presses = count_btn_press + lost + gpio.ints
    BY <1>1, LedgerEquation DEF LedgerInv
  <2>2. w.reg = "RGPIO_INTS" => gpio.ints = 0
    BY <1>3 DEF LedgerInv, Progress
  <2>3. pc'[1] = "main" /\ count_btn_press' = count_btn_press
    BY <1>2
  <2>4. w.reg # "RGPIO_INTS" => presses' = count_btn_press + lost' + gpio'.ints
    BY <1>4, <2>1, OwedMoves DEF LedgerInv, Counting
  <2>5. w.reg = "RGPIO_INTS" => gpio'.ints = 0 /\ presses' = count_btn_press + lost'
    <3> SUFFICES ASSUME w.reg = "RGPIO_INTS"
                 PROVE  gpio'.ints = 0 /\ presses' = count_btn_press + lost'
      OBVIOUS
    <3>1. Cleared
      BY <1>4
    <3>2. count_btn_press \in Nat /\ lost \in Nat /\ gpio.ints = 0
      BY <2>2 DEF LedgerInv, Tallies
    <3>3. presses = count_btn_press + lost
      BY <2>1, <3>2
    <3>4. presses' = count_btn_press + lost'
      BY <3>1, <3>2, <3>3, SettledMoves DEF LedgerInv
    <3> QED
      BY <3>1, <3>4 DEF Cleared
  <2>6. presses' = count_btn_press + lost' + gpio'.ints
    <3>1. CASE w.reg # "RGPIO_INTS"
      BY <2>4, <3>1
    <3>2. CASE w.reg = "RGPIO_INTS"
      <4>1. gpio'.ints = 0 /\ presses' = count_btn_press + lost'
        BY <2>5, <3>2
      <4>2. lost' \in Nat /\ count_btn_press \in Nat
        BY <1>4 DEF LedgerInv, Tallies
      <4>3. count_btn_press + lost' + 0 = count_btn_press + lost'
        BY <4>2, NothingOwed, Zenon
      <4> QED
        BY <4>1, <4>3
    <3> QED
      BY <3>1, <3>2
  <2> QED
    BY <1>4, <2>3, <2>6 DEF LedgerInv, PressLedger, Tallies
<1> QED
  BY <1>5, <1>6, <1>7 DEF LedgerInv

\* A step of the program past its initialisation, at one of the labels, which
\* writes no register of the gpio but perhaps the LEDs or the recorded press.
LEMMA RunStep ==
  ASSUME LedgerInv, NEW w, Clock(w), NEW label \in Labels, pc' = <<label, pc[2]>>,
         w.reg # "RGPIO_CTRL", w.reg = "RGPIO_INTS" => w.value = 0,
         csr' \in CsrRecord, csr'.mtvec = csr.mtvec, csr'.mie = csr.mie,
         pc[2] <= Writes => label = "main" /\ w.reg # "RGPIO_INTS"
  PROVE  /\ Progress' /\ gpio'.ints \in {0, 1} /\ presses' \in Nat /\ lost' \in Nat
         /\ pc'[1] = label
         /\ w.reg # "RGPIO_INTS" => Quiet \/ Recorded \/ Merged
         /\ w.reg = "RGPIO_INTS" => Cleared
<1>1. /\ gpio'.ints \in {0, 1} /\ presses' \in Nat /\ lost' \in Nat
      /\ w.reg # "RGPIO_INTS" => Quiet \/ Recorded \/ Merged
      /\ w.reg = "RGPIO_INTS" => Cleared
      /\ gpio.ctrl = 0 /\ w.reg # "RGPIO_INTS" => gpio'.ints = gpio.ints
      /\ gpio'.ctrl = gpio.ctrl
  BY ClockEffect DEF LedgerInv, Counting
<1>2. Progress'
  <2>1. pc'[1] = label /\ pc'[2] = pc[2] /\ pc' = <<pc'[1], pc'[2]>>
    OBVIOUS
  <2> QED
    BY <1>1, <2>1 DEF LedgerInv, Progress, Writes
<1> QED
  BY <1>1, <1>2

\* A step that reads or writes something else than the recorded press.
LEMMA OtherStep ==
  ASSUME LedgerInv, NEW w, Clock(w), NEW label \in Labels, pc' = <<label, pc[2]>>,
         w.reg # "RGPIO_CTRL", w.reg # "RGPIO_INTS",
         csr' \in CsrRecord, csr'.mtvec = csr.mtvec, csr'.mie = csr.mie,
         pc[2] <= Writes => label = "main", count_btn_press' = count_btn_press,
         label \in {"out", "ints"} <=> pc[1] \in {"out", "ints"}
  PROVE  LedgerInv'
<1>1. /\ Progress' /\ gpio'.ints \in {0, 1} /\ presses' \in Nat /\ lost' \in Nat
      /\ pc'[1] = label
      /\ Quiet \/ Recorded \/ Merged
  BY RunStep
<1>2. Counting' /\ Tallies'
  <2>1. Counting'
    <3>1. pc'[1] \in {"out", "ints"} => gpio.ints = 1
      BY <1>1 DEF LedgerInv, Counting
    <3>2. gpio.ints = 1 => gpio'.ints = 1
      BY <1>1 DEF Quiet, Recorded, Merged
    <3> QED
      BY <1>1, <3>1, <3>2 DEF Counting
  <2>2. count_btn_press' \in Nat
    BY DEF LedgerInv, Tallies
  <2> QED
    BY <1>1, <2>1, <2>2 DEF Tallies
<1>3. PressLedger'
  <2>1. CASE label \in {"out", "ints"}
    <3>1. gpio.ints = 1 /\ gpio'.ints = 1 /\ pc[1] \in {"out", "ints"}
      BY <1>1, <2>1 DEF LedgerInv, Counting, Quiet, Recorded, Merged
    <3>2. count_btn_press \in Nat /\ presses \in Nat /\ lost \in Nat
      BY DEF LedgerInv, Tallies
    <3>3. presses = count_btn_press + lost
      BY <3>1, <3>2, LedgerEquation DEF LedgerInv
    <3>4. presses' = count_btn_press + lost'
      <4>1. Quiet \/ Merged
        BY <1>1, <3>1 DEF Recorded
      <4> QED
        BY <3>2, <3>3, <4>1, SettledMoves DEF LedgerInv
    <3> QED
      BY <1>1, <2>1, <3>4 DEF PressLedger
  <2>2. CASE label \notin {"out", "ints"}
    <3>1. presses = count_btn_press + lost + gpio.ints
      BY <2>2, LedgerEquation DEF LedgerInv
    <3>2. presses' = count_btn_press + lost' + gpio'.ints
      BY <1>1, <3>1, OwedMoves DEF LedgerInv, Counting
    <3> QED
      BY <1>1, <2>2, <3>2 DEF PressLedger, LedgerInv, Tallies
  <2> QED
    BY <2>1, <2>2
<1> QED
  BY <1>1, <1>2, <1>3 DEF LedgerInv

LEMMA TrapKeeps == LedgerInv /\ Trap => LedgerInv'
<1> SUFFICES ASSUME LedgerInv, Trap PROVE LedgerInv'
  OBVIOUS
<1>1. pc[2] = Writes + 1
  BY DEF LedgerInv, Progress, Trap, Interrupted, Writes
<1>2. csr' \in CsrRecord /\ csr'.mtvec = csr.mtvec /\ csr'.mie = csr.mie
  BY DEF Trap, LedgerInv, Progress, CsrRecord
<1> QED
  BY <1>1, <1>2, OtherStep DEF Trap, NoWrite, Labels, Writes

LEMMA ReadIntsKeeps == LedgerInv /\ ReadInts => LedgerInv'
<1> SUFFICES ASSUME LedgerInv, ReadInts PROVE LedgerInv'
  OBVIOUS
<1> DEFINE label == IF gpio.ints = 1 THEN "out" ELSE "read_ctrl"
<1>1. /\ pc[1] = "read_ints" /\ Clock(NoWrite) /\ pc' = <<label, pc[2]>> /\ csr' = csr
      /\ count_btn_press' = count_btn_press + gpio.ints /\ NoWrite.reg = "none"
  BY DEF ReadInts, GoTo, NoWrite
<1>2. label \in Labels /\ ~(pc[2] <= Writes) /\ csr' \in CsrRecord
  BY <1>1 DEF Labels, LedgerInv, Progress
<1>3. /\ Progress' /\ gpio'.ints \in {0, 1} /\ presses' \in Nat /\ lost' \in Nat
      /\ pc'[1] = label
      /\ Quiet \/ Recorded \/ Merged
  BY <1>1, <1>2, RunStep
<1>4. gpio.ints \in {0, 1} /\ presses = count_btn_press + lost + gpio.ints
  BY <1>1, LedgerEquation DEF LedgerInv, Counting
<1>5. Counting' /\ Tallies'
  <2>1. Counting'
    <3>1. pc'[1] \in {"out", "ints"} => gpio.ints = 1
      BY <1>3
    <3>2. gpio.ints = 1 => gpio'.ints = 1
      BY <1>3 DEF Quiet, Recorded, Merged
    <3> QED
      BY <1>3, <3>1, <3>2 DEF Counting
  <2>2. count_btn_press' \in Nat
    BY <1>1, <1>4 DEF LedgerInv, Tallies
  <2> QED
    BY <1>3, <2>1, <2>2 DEF Tallies
<1>6. PressLedger'
  <2>0. count_btn_press \in Nat /\ presses \in Nat /\ lost \in Nat
    BY DEF LedgerInv, Tallies
  <2>1. CASE gpio.ints = 1
    <3>1. gpio'.ints = 1 /\ pc'[1] = "out"
      BY <1>3, <2>1 DEF Quiet, Recorded, Merged
    <3>2. presses' = (count_btn_press + 1) + lost'
      <4>1. Quiet \/ Merged
        BY <1>3, <2>1 DEF Recorded
      <4>2. presses = (count_btn_press + 1) + lost /\ count_btn_press + 1 \in Nat
        BY <1>4, <2>0, <2>1
      <4> QED
        BY <4>1, <4>2, SettledMoves DEF LedgerInv
    <3>3. count_btn_press' = count_btn_press + 1
      BY <1>1, <2>1
    <3> QED
      BY <1>3, <2>0, <3>1, <3>2, <3>3 DEF PressLedger
  <2>2. CASE gpio.ints = 0
    <3>1. pc'[1] = "read_ctrl" /\ count_btn_press' = count_btn_press
      BY <1>1, <1>3, <2>0, <2>2
    <3>2. presses' = count_btn_press + lost' + gpio'.ints
      BY <1>3, <1>4, OwedMoves DEF LedgerInv
    <3> QED
      BY <1>3, <2>0, <3>1, <3>2 DEF PressLedger
  <2> QED
    BY <1>4, <2>1, <2>2
<1> QED
  BY <1>3, <1>5, <1>6 DEF LedgerInv

LEMMA ReadCtrlKeeps == LedgerInv /\ ReadCtrl => LedgerInv'
<1> SUFFICES ASSUME LedgerInv, ReadCtrl PROVE LedgerInv'
  OBVIOUS
<1> DEFINE label == IF "INT" \in ptc.ctrl THEN "digits" ELSE "mret"
<1>1. /\ pc[1] = "read_ctrl" /\ Clock(NoWrite) /\ pc' = <<label, pc[2]>> /\ csr' = csr
      /\ count_btn_press' = count_btn_press /\ NoWrite.reg = "none"
  BY DEF ReadCtrl, GoTo, NoWrite
<1>2. /\ label \in Labels /\ label \notin {"out", "ints"} /\ ~(pc[2] <= Writes)
      /\ csr' \in CsrRecord
  BY <1>1 DEF Labels, LedgerInv, Progress
<1> QED
  BY <1>1, <1>2, OtherStep

\* The writes of the handler, as far as the ledger cares.
LEMMA HandlerWriteFacts ==
  ASSUME NEW label \in {"out", "ints", "digits", "cntr", "irq", "on"}
  PROVE  LET w == HandlerWrite(label).w
             next == HandlerWrite(label).next
         IN  /\ w.reg # "RGPIO_CTRL" /\ next \in Labels
             /\ w.reg = "RGPIO_INTS" <=> label = "ints"
             /\ label = "ints" => w.value = 0 /\ next = "mret"
             /\ label = "out" => next = "ints"
             /\ label \notin {"out", "ints"} => next \notin {"out", "ints"}
BY DEF HandlerWrite, Write, Labels

LEMMA HandlerStepKeeps == LedgerInv /\ HandlerStep => LedgerInv'
<1> SUFFICES ASSUME LedgerInv, HandlerStep PROVE LedgerInv'
  OBVIOUS
<1> DEFINE w == HandlerWrite(pc[1]).w
           next == HandlerWrite(pc[1]).next
<1>1. /\ pc[1] \in {"out", "ints", "digits", "cntr", "irq", "on"} /\ Clock(w)
      /\ pc' = <<next, pc[2]>> /\ csr' = csr /\ count_btn_press' = count_btn_press
  BY DEF HandlerStep, GoTo
<1>2. /\ w.reg # "RGPIO_CTRL" /\ next \in Labels
      /\ w.reg = "RGPIO_INTS" <=> pc[1] = "ints"
      /\ pc[1] = "ints" => w.value = 0 /\ next = "mret"
      /\ pc[1] = "out" => next = "ints"
      /\ pc[1] \notin {"out", "ints"} => next \notin {"out", "ints"}
  BY <1>1, HandlerWriteFacts
<1> HIDE DEF w, next
<1>3. ~(pc[2] <= Writes) /\ csr' \in CsrRecord
  BY <1>1 DEF LedgerInv, Progress
<1>4. CASE pc[1] = "ints"
  <2>1. /\ Progress' /\ presses' \in Nat /\ lost' \in Nat /\ pc'[1] = "mret" /\ Cleared
    BY <1>1, <1>2, <1>3, <1>4, RunStep
  <2>2. presses = count_btn_press + lost
    BY <1>4, LedgerEquation DEF LedgerInv, Tallies
  <2>3. Counting' /\ Tallies'
    BY <1>1, <2>1 DEF LedgerInv, Counting, Tallies, Cleared
  <2>4. PressLedger'
    <3>1. presses' = count_btn_press + lost' /\ gpio'.ints = 0
      <4>1. count_btn_press \in Nat
        BY DEF LedgerInv, Tallies
      <4>2. presses' = count_btn_press + lost'
        BY <2>1, <2>2, <4>1, SettledMoves DEF LedgerInv
      <4> QED
        BY <2>1, <4>2 DEF Cleared
    <3> QED
      BY <1>1, <2>1, <3>1 DEF PressLedger, LedgerInv, Tallies
  <2> QED
    BY <2>1, <2>3, <2>4 DEF LedgerInv
<1>5. CASE pc[1] # "ints"
  BY <1>1, <1>2, <1>3, <1>5, OtherStep
<1> QED
  BY <1>4, <1>5

LEMMA MretKeeps == LedgerInv /\ Mret => LedgerInv'
<1> SUFFICES ASSUME LedgerInv, Mret PROVE LedgerInv'
  OBVIOUS
<1>1. csr' \in CsrRecord /\ csr'.mtvec = csr.mtvec /\ csr'.mie = csr.mie
  BY DEF Mret, LedgerInv, Progress, CsrRecord
<1> QED
  BY <1>1, OtherStep DEF Mret, NoWrite, Labels

LEMMA IdleKeeps == LedgerInv /\ Idle => LedgerInv'
<1> SUFFICES ASSUME LedgerInv, Idle PROVE LedgerInv'
  OBVIOUS
<1>1. /\ Clock(NoWrite) /\ NoWrite.reg = "none" /\ pc' = <<pc[1], pc[2]>> /\ csr' = csr
      /\ count_btn_press' = count_btn_press /\ pc[1] \in Labels /\ csr' \in CsrRecord
      /\ pc[2] <= Writes => pc[1] = "main"
  BY DEF Idle, NoWrite, program, LedgerInv, Progress
<1> QED
  BY <1>1, OtherStep

LEMMA LedgerStep == LedgerInv /\ [Next]_vars => LedgerInv'
<1> SUFFICES ASSUME LedgerInv, [Next]_vars PROVE LedgerInv'
  OBVIOUS
<1>1. CASE Next
  BY <1>1, InitWriteKeeps, TrapKeeps, ReadIntsKeeps, ReadCtrlKeeps, HandlerStepKeeps,
     MretKeeps, IdleKeeps DEF Next, Software
<1>2. CASE UNCHANGED vars
  BY <1>2 DEF vars, program, LedgerInv, Progress, Counting, Tallies, PressLedger
<1> QED
  BY <1>1, <1>2
-----------------------------------------------------------------------------
LEMMA LedgerAlways == Spec => []LedgerInv
BY InitLedger, LedgerStep, PTL DEF Spec

\* Every press the gpio saw is counted once, is about to be, or came before
\* the handler had cleared the one before (btn_int.c, interrupt_handler).
THEOREM PressesAreCounted == Spec => []PressLedger
<1>1. LedgerInv => PressLedger
  BY DEF LedgerInv
<1> QED
  BY <1>1, LedgerAlways, PTL

\* No interrupt is taken before cpu_int_init has set the handler (btn_int.c).
THEOREM HandlerIsSet == Spec => TrapsHaveHandler
<1>1. LedgerInv /\ [Next]_vars =>
        [csr.mstatus = 1 /\ csr'.mstatus = 0 => csr.mtvec = 1]_vars
  <2> SUFFICES ASSUME LedgerInv, Next, csr.mstatus = 1, csr'.mstatus = 0
               PROVE  csr.mtvec = 1
    BY DEF vars, program
  <2>1. CASE InitWrite
    <3>1. pc[2] \in 1..Writes
      BY <2>1 DEF LedgerInv, Progress, InitWrite
    <3>2. csr'.mstatus # 0
      BY <2>1, <3>1, InitWriteFacts DEF InitWrite
    <3> QED
      BY <3>2
  <2>2. CASE Trap
    <3>1. csr.mie = 1
      BY <2>2 DEF Trap, Interrupted
    <3>2. pc[2] \in 1..15 /\ ~(pc[2] <= 14) /\ (pc[2] > 12 => csr.mtvec = 1)
      BY <3>1 DEF LedgerInv, Progress, Writes
    <3> QED
      BY <3>2
  <2>3. CASE ReadInts \/ ReadCtrl \/ HandlerStep \/ Mret \/ Idle
    <3>1. csr' = csr \/ csr' = [csr EXCEPT !.mstatus = 1]
      BY <2>3 DEF ReadInts, ReadCtrl, HandlerStep, Mret, Idle, GoTo, program
    <3>2. csr'.mstatus = 1
      BY <3>1 DEF LedgerInv, Progress, CsrRecord
    <3> QED
      BY <3>2
  <2> QED
    BY <2>1, <2>2, <2>3 DEF Next, Software
<1> QED
  BY <1>1, LedgerAlways, PTL DEF Spec, TrapsHaveHandler
-----------------------------------------------------------------------------
(* The timer: what its registers hold at each stage of the initialisation  *)
(* and of the handler.                                                     *)

\* There is room for the edge that is about to be recorded, and edges are rising ones
\* from the moment they are recorded.
Room ==
  /\ pc[2] > 4 => gpio.ptrig = 1
  /\ btn = 1 /\ gpio.in = 0 => presses < MaxPresses

\* Before the timer is started nothing counts; after that only the write that
\* restarts it finds it stopped, an interrupt is pending at the match only, and the
\* handler leaves the match where it is until it resets the counter.
TimerStage ==
  /\ pc[2] <= 7 => ptc.lrc = 0
  /\ pc[2] > 7 => ptc.lrc = Count
  /\ pc[2] > 8 => ptc.hrc = Max32
  /\ pc[2] <= 11 => /\ ptc.cntr = 0 /\ ptc.int_r = 0 /\ ptc.ctrl \subseteq {"INT"}
                    /\ matches = 0 /\ count_timer = 0
  /\ pc[2] > 11 /\ pc[1] # "on" => {"EN", "SINGLE", "INTE"} \subseteq ptc.ctrl
  /\ pc[1] = "on" => ptc.ctrl = {"INT"}
  /\ pc[1] \in {"digits", "cntr"} => ptc.cntr = Count
  /\ pc[2] > 11 /\ pc[1] \notin {"irq", "on"} /\ (ptc.int_r = 1 \/ "INT" \in ptc.ctrl)
       => ptc.cntr = Count

DevicesOK == LedgerInv /\ TypeOK /\ Room /\ TimerStage /\ TimerLedger
-----------------------------------------------------------------------------
LEMMA InitDevices == Init => DevicesOK
<1> SUFFICES ASSUME Init PROVE DevicesOK
  OBVIOUS
<1>1. 0 \in 0..(W - 1) /\ (0 + 0) % W = 0 /\ Count # 0 /\ 0 \in 0..MaxPresses
  BY BtnIntAssumption
<1>2. TypeOK
  BY <1>1, BtnIntAssumption DEF Init, TypeOK, Labels, Writes
<1>3. Room /\ TimerStage /\ TimerLedger
  BY <1>1, BtnIntAssumption DEF Init, Room, TimerStage, TimerLedger
<1> QED
  BY <1>2, <1>3, InitLedger DEF DevicesOK

\* Adding one modulo W.
LEMMA OneMore ==
  ASSUME NEW n \in 0..(W - 1)
  PROVE  /\ (n + 0) % W = n
         /\ (n + 1) % W = IF n = W - 1 THEN 0 ELSE n + 1
         /\ (n + 1) % W \in 0..(W - 1)
<1>1. CASE n = W - 1
  BY <1>1, BtnIntAssumption
<1>2. CASE n # W - 1
  BY <1>2, BtnIntAssumption
<1> QED
  BY <1>1, <1>2

\* A clock of the ptc, register by register.
LEMMA PtcClock ==
  ASSUME NEW w, Clock(w)
  PROVE  /\ ptc'.cntr = Counter(w) /\ ptc'.ctrl = Ctrl(w)
         /\ ptc'.hrc = IF w.reg = "RPTC_HRC" THEN w.value ELSE ptc.hrc
         /\ ptc'.lrc = IF w.reg = "RPTC_LRC" THEN w.value ELSE ptc.lrc
         /\ ptc'.int_r = IF (Match \/ HrcMatch) /\ "INTE" \in ptc.ctrl THEN 1 ELSE 0
         /\ ptc' = [cntr |-> ptc'.cntr, hrc |-> ptc'.hrc, lrc |-> ptc'.lrc,
                    ctrl |-> ptc'.ctrl, int_r |-> ptc'.int_r]
         /\ matches' = IF ptc'.cntr = ptc.lrc /\ ptc.cntr # ptc.lrc /\ w.reg # "RPTC_CNTR"
                       THEN (matches + 1) % W ELSE matches
BY DEF Clock, Ptc

\* What a started timer does in a clock, when its counter is not written: it counts
\* up to the match, stays there, and requests the interrupt.
Running(w) ==
  /\ ptc'.cntr = IF ptc.cntr = Count THEN Count ELSE ptc.cntr + 1
  /\ ptc'.lrc = Count /\ ptc'.hrc = Max32
  /\ ptc'.int_r = IF ptc.cntr = Count THEN 1 ELSE 0
  /\ w.reg # "RPTC_CTRL" =>
       ptc'.ctrl = IF ptc.int_r = 1 THEN ptc.ctrl \cup {"INT"} ELSE ptc.ctrl
  /\ matches' = IF ptc.cntr + 1 = Count THEN (matches + 1) % W ELSE matches

LEMMA RunningClock ==
  ASSUME DevicesOK, NEW w, Clock(w), pc[2] > 11, pc[1] # "on",
         w.reg \notin {"RPTC_CNTR", "RPTC_HRC", "RPTC_LRC"}
  PROVE  Running(w)
<1>1. /\ ptc.lrc = Count /\ ptc.hrc = Count + 1 /\ {"EN", "SINGLE", "INTE"} \subseteq ptc.ctrl
      /\ ptc.cntr \in 0..Count /\ Count \in Nat
  <2>1. pc[2] > 7 /\ pc[2] > 8
    BY DEF DevicesOK, TypeOK, Writes
  <2> QED
    BY <2>1, BtnIntAssumption DEF DevicesOK, TimerStage, TypeOK, Max32
<1>2. (Match <=> ptc.cntr = Count) /\ ~HrcMatch
  BY <1>1 DEF Match, HrcMatch
<1>3. ptc'.cntr = IF ptc.cntr = Count THEN Count ELSE ptc.cntr + 1
  BY <1>1, <1>2, PtcClock DEF Counter
<1>4. w.reg # "RPTC_CTRL" =>
        ptc'.ctrl = IF ptc.int_r = 1 THEN ptc.ctrl \cup {"INT"} ELSE ptc.ctrl
  BY <1>1, PtcClock DEF Ctrl
<1>5. ptc'.lrc = Count /\ ptc'.hrc = Max32 /\ ptc'.int_r = IF ptc.cntr = Count THEN 1 ELSE 0
  BY <1>1, <1>2, PtcClock DEF Max32
<1>6. matches' = IF ptc.cntr + 1 = Count THEN (matches + 1) % W ELSE matches
  BY <1>1, <1>3, PtcClock
<1> QED
  BY <1>3, <1>4, <1>5, <1>6 DEF Running

\* A clock of the timer with its enable bit off, when its counter is not written.
LEMMA StoppedClock ==
  ASSUME DevicesOK, NEW w, Clock(w), ptc.ctrl \subseteq {"INT"}, w.reg # "RPTC_CNTR"
  PROVE  /\ ptc'.cntr = ptc.cntr /\ ptc'.int_r = 0 /\ matches' = matches
         /\ w.reg # "RPTC_CTRL" => ptc'.ctrl = ptc.ctrl
<1>1. "EN" \notin ptc.ctrl /\ "INTE" \notin ptc.ctrl /\ ~Match /\ ~HrcMatch
  BY DEF Match, HrcMatch
<1>2. ptc'.cntr = ptc.cntr
  BY <1>1, PtcClock DEF Counter
<1>3. w.reg # "RPTC_CTRL" => ptc'.ctrl = ptc.ctrl
  BY <1>1, PtcClock DEF Ctrl
<1> QED
  BY <1>1, <1>2, <1>3, PtcClock
-----------------------------------------------------------------------------
\* The registers that are written with what they can hold.
WriteOK(w) ==
  /\ w.reg \in {"RGPIO_OE", "RGPIO_INTE", "RGPIO_PTRIG", "RGPIO_CTRL", "RGPIO_INTS"}
       => w.value \in {0, 1}
  /\ w.reg = "RGPIO_OUT" => w.value \in 0..MaxPresses
  /\ w.reg = "WRITE_DIGITS_REG" => w.value \in 0..(W - 1)

\* The button is pressed while there is room, so no edge exceeds MaxPresses.
LEMMA DevicesClock ==
  ASSUME DevicesOK, NEW w, Clock(w), WriteOK(w)
  PROVE  /\ btn' \in {0, 1} /\ digits' \in 0..(W - 1) /\ presses' \in 0..MaxPresses
         /\ gpio' \in [oe : {0, 1}, out : 0..MaxPresses, inte : {0, 1}, ptrig : {0, 1},
                       ctrl : {0, 1}, ints : {0, 1}, in : {0, 1}, inta : {0, 1}]
         /\ btn' = 1 /\ gpio'.in = 0 => presses' < MaxPresses
         /\ gpio'.ptrig = IF w.reg = "RGPIO_PTRIG" THEN w.value ELSE gpio.ptrig
<1>1. btn \in {0, 1} /\ gpio.in \in {0, 1} /\ presses \in 0..MaxPresses /\ MaxPresses \in Nat
  BY BtnIntAssumption DEF DevicesOK, TypeOK
<1>2. Edge /\ Armed => presses < MaxPresses
  <2> SUFFICES ASSUME Edge, Armed PROVE presses < MaxPresses
    OBVIOUS
  <2>1. pc[2] > 4
    <3>1. ~(pc[2] <= 6) /\ pc[2] \in 1..15
      BY DEF Armed, DevicesOK, LedgerInv, Progress, Writes
    <3> QED
      BY <3>1
  <2>2. btn = 1 /\ gpio.in = 0
    BY <1>1, <2>1 DEF Edge, DevicesOK, Room
  <2> QED
    BY <2>2 DEF DevicesOK, Room
<1>3. presses' = (IF Edge /\ Armed THEN presses + 1 ELSE presses) /\ presses' \in 0..MaxPresses
  BY <1>1, <1>2 DEF Clock
<1>4. btn' \in {0, 1} /\ digits' \in 0..(W - 1)
  BY DEF Clock, WriteOK, DevicesOK, TypeOK
<1>5. gpio' \in [oe : {0, 1}, out : 0..MaxPresses, inte : {0, 1}, ptrig : {0, 1},
                 ctrl : {0, 1}, ints : {0, 1}, in : {0, 1}, inta : {0, 1}]
  <2>1. Ints(w) \in {0, 1}
    BY DEF Ints, WriteOK, DevicesOK, TypeOK
  <2> QED
    BY <1>1, <2>1 DEF Clock, Gpio, WriteOK, DevicesOK, TypeOK
<1>6. gpio'.in = btn /\ gpio'.ptrig = IF w.reg = "RGPIO_PTRIG" THEN w.value ELSE gpio.ptrig
  BY DEF Clock, Gpio
<1>7. btn' = 1 /\ gpio'.in = 0 => presses' < MaxPresses
  BY <1>1, <1>6 DEF Clock
<1> QED
  BY <1>3, <1>4, <1>5, <1>6, <1>7

PtcRecord == [cntr : 0..Count, hrc : {0, Max32}, lrc : {0, Count},
              ctrl : SUBSET {"EN", "SINGLE", "INTE", "INT"}, int_r : {0, 1}]

\* The terms of the ledger are no greater than their sum.
LEMMA PartsFit ==
  ASSUME NEW c \in Nat, NEW l \in Nat, NEW p \in {0, 1}, c + l + p \in 0..MaxPresses
  PROVE  c \in 0..MaxPresses /\ l \in 0..MaxPresses
BY BtnIntAssumption

\* The types of a step come from its clock and from the ledger of the presses.
LEMMA TypesStay ==
  ASSUME DevicesOK, LedgerInv', NEW w, Clock(w), WriteOK(w), ptc' \in PtcRecord,
         count_timer' \in 0..(W - 1), matches' \in 0..(W - 1),
         pc'[2] > 4 => gpio'.ptrig = 1
  PROVE  TypeOK' /\ Room'
<1>1. /\ btn' \in {0, 1} /\ digits' \in 0..(W - 1) /\ presses' \in 0..MaxPresses
      /\ gpio' \in [oe : {0, 1}, out : 0..MaxPresses, inte : {0, 1}, ptrig : {0, 1},
                    ctrl : {0, 1}, ints : {0, 1}, in : {0, 1}, inta : {0, 1}]
      /\ btn' = 1 /\ gpio'.in = 0 => presses' < MaxPresses
  BY DevicesClock
<1>2. csr' \in CsrRecord /\ pc' \in Labels \X (1..Writes + 1)
  BY DEF LedgerInv, Progress
<1>3. count_btn_press' \in 0..MaxPresses /\ lost' \in 0..MaxPresses
  <2>1. count_btn_press' \in Nat /\ lost' \in Nat
    BY DEF LedgerInv, Tallies
  <2>2. PICK p \in {0, 1} : presses' = count_btn_press' + lost' + p
    BY DEF LedgerInv, PressLedger
  <2>3. count_btn_press' + lost' + p \in 0..MaxPresses
    BY <1>1, <2>2
  <2> QED
    BY <2>1, <2>3, PartsFit
<1> QED
  BY <1>1, <1>2, <1>3 DEF TypeOK, Room, PtcRecord, CsrRecord

\* The registers of a running and of a stopped timer keep their types.
LEMMA RunningTypes ==
  ASSUME DevicesOK, NEW w, Clock(w), Running(w), w.reg # "RPTC_CTRL"
  PROVE  ptc' \in PtcRecord /\ matches' \in 0..(W - 1)
<1>1. ptc.cntr \in 0..Count /\ Count \in Nat /\ ptc.ctrl \subseteq {"EN", "SINGLE", "INTE", "INT"}
      /\ matches \in 0..(W - 1)
  BY BtnIntAssumption DEF DevicesOK, TypeOK
<1>2. ptc'.cntr \in 0..Count /\ ptc'.ctrl \subseteq {"EN", "SINGLE", "INTE", "INT"}
  BY <1>1 DEF Running
<1>3. matches' \in 0..(W - 1)
  BY <1>1, OneMore DEF Running
<1>4. ptc' = [cntr |-> ptc'.cntr, hrc |-> ptc'.hrc, lrc |-> ptc'.lrc,
              ctrl |-> ptc'.ctrl, int_r |-> ptc'.int_r]
  BY PtcClock
<1>5. ptc'.hrc = Max32 /\ ptc'.lrc = Count /\ ptc'.int_r \in {0, 1}
  BY DEF Running
<1> HIDE DEF Running
<1> QED
  BY <1>2, <1>3, <1>4, <1>5 DEF PtcRecord

\* A period that ends is owed until the handler counts it.
LEMMA RunLedger ==
  ASSUME DevicesOK, NEW w, Running(w), count_timer' = count_timer,
         pc'[1] \in {"digits", "cntr"} <=> pc[1] \in {"digits", "cntr"}
  PROVE  TimerLedger'
<1>1. ptc.cntr \in 0..Count /\ Count \in Nat \ {0} /\ matches \in 0..(W - 1)
      /\ count_timer \in 0..(W - 1)
  BY BtnIntAssumption DEF DevicesOK, TypeOK
<1>2. CASE pc[1] \in {"digits", "cntr"}
  <2>1. ptc.cntr = Count
    BY <1>2 DEF DevicesOK, TimerStage
  <2>2. matches' = matches
    BY <1>1, <2>1 DEF Running
  <2> QED
    BY <1>2, <2>2 DEF DevicesOK, TimerLedger
<1>3. CASE pc[1] \notin {"digits", "cntr"}
  <2>1. CASE ptc.cntr = Count
    <3>1. matches' = matches /\ ptc'.cntr = Count
      BY <1>1, <2>1 DEF Running
    <3> QED
      BY <1>3, <2>1, <3>1 DEF DevicesOK, TimerLedger
  <2>2. CASE ptc.cntr # Count
    <3>1. matches = count_timer
      BY <1>1, <1>3, <2>2, OneMore DEF DevicesOK, TimerLedger
    <3>2. CASE ptc.cntr + 1 = Count
      <4>1. matches' = (count_timer + 1) % W /\ ptc'.cntr = Count
        BY <2>2, <3>1, <3>2 DEF Running
      <4> QED
        BY <1>3, <4>1 DEF TimerLedger
    <3>3. CASE ptc.cntr + 1 # Count
      <4>1. matches' = count_timer /\ ptc'.cntr # Count
        BY <1>1, <2>2, <3>1, <3>3 DEF Running
      <4>2. (count_timer + 0) % W = count_timer
        BY <1>1, OneMore
      <4> QED
        BY <1>3, <4>1, <4>2 DEF TimerLedger
    <3> QED
      BY <3>2, <3>3
  <2> QED
    BY <2>1, <2>2
<1> QED
  BY <1>2, <1>3

\* The stage that a running timer is in, at the label that the program goes to.
LEMMA RunStage ==
  ASSUME DevicesOK, NEW w, Running(w), w.reg # "RPTC_CTRL", NEW label,
         pc' = <<label, pc[2]>>, pc[2] > 11, pc[1] # "on", label # "on",
         label \in {"digits", "cntr"} => ptc.cntr = Count,
         label = "irq" \/ pc[1] # "irq"
  PROVE  TimerStage'
<1>1. pc'[1] = label /\ pc'[2] = pc[2] /\ pc[2] \in 1..15
  BY DEF DevicesOK, TypeOK, Writes
<1>2. ~(pc[2] <= 7) /\ ~(pc[2] <= 11)
  BY <1>1
<1>3. {"EN", "SINGLE", "INTE"} \subseteq ptc'.ctrl /\ ptc'.lrc = Count /\ ptc'.hrc = Max32
  BY DEF DevicesOK, TimerStage, Running
<1>4. ptc.cntr = Count => ptc'.cntr = Count
  BY DEF Running
<1>5. label \notin {"irq", "on"} /\ (ptc'.int_r = 1 \/ "INT" \in ptc'.ctrl) => ptc.cntr = Count
  <2> SUFFICES ASSUME label \notin {"irq", "on"}, ptc.cntr # Count
               PROVE  ptc'.int_r = 0 /\ "INT" \notin ptc'.ctrl
    OBVIOUS
  <2>1. ptc.int_r # 1 /\ "INT" \notin ptc.ctrl
    BY DEF DevicesOK, TimerStage
  <2> QED
    BY <2>1 DEF Running
<1> QED
  BY <1>1, <1>2, <1>3, <1>4, <1>5 DEF TimerStage
-----------------------------------------------------------------------------
(* The operations, one by one.                                             *)

\* What the writes of main are, as far as the timer and the types care.
LEMMA InitWriteDevices ==
  ASSUME NEW k \in 1..Writes
  PROVE  /\ WriteOK(InitWrites[k])
         /\ InitWrites[k].reg = "RGPIO_PTRIG" <=> k = 4
         /\ k = 4 => InitWrites[k].value = 1
         /\ InitWrites[k].reg = "RPTC_LRC" <=> k = 7
         /\ k = 7 => InitWrites[k].value = Count
         /\ InitWrites[k].reg = "RPTC_HRC" <=> k = 8
         /\ k = 8 => InitWrites[k].value = Max32
         /\ InitWrites[k].reg = "RPTC_CNTR" <=> k = 9
         /\ k = 9 => InitWrites[k].value = 0
         /\ InitWrites[k].reg = "RPTC_CTRL" <=> k \in {10, 11}
         /\ k = 10 => InitWrites[k].value = {"INT"}
         /\ k = 11 => InitWrites[k].value = {"EN", "SINGLE", "INTE"}
<1>0. 0 \in 0..MaxPresses
  BY BtnIntAssumption
<1>1. CASE k \in 1..6
  <2>1. InitWrites[k] = gpio_int_init[k]
    BY <1>1 DEF InitWrites, Writes
  <2>2. k = 1 \/ k = 2 \/ k = 3 \/ k = 4 \/ k = 5 \/ k = 6
    BY <1>1
  <2> QED
    BY <1>0, <2>1, <2>2 DEF gpio_int_init, Write, WriteOK
<1>2. CASE k \in 7..11
  <2>1. InitWrites[k] = timer_int_init[k - 6]
    BY <1>2 DEF InitWrites, Writes
  <2>2. k = 7 \/ k = 8 \/ k = 9 \/ k = 10 \/ k = 11
    BY <1>2
  <2> QED
    BY <2>1, <2>2 DEF timer_int_init, Write, WriteOK
<1>3. CASE k \in 12..14
  <2>1. InitWrites[k] = cpu_int_init[k - 11]
    BY <1>3 DEF InitWrites, Writes
  <2>2. k = 12 \/ k = 13 \/ k = 14
    BY <1>3
  <2> QED
    BY <2>1, <2>2 DEF cpu_int_init, Write, WriteOK
<1> QED
  BY <1>1, <1>2, <1>3 DEF Writes

\* The types and the room of a step of the started program.
LEMMA RunTypes ==
  ASSUME DevicesOK, LedgerInv', NEW w, Clock(w), WriteOK(w), ptc' \in PtcRecord,
         count_timer' \in 0..(W - 1), matches' \in 0..(W - 1),
         pc'[2] = pc[2], w.reg # "RGPIO_PTRIG"
  PROVE  TypeOK' /\ Room'
<1>1. pc'[2] > 4 => gpio'.ptrig = 1
  BY DevicesClock DEF DevicesOK, Room
<1> QED
  BY <1>1, TypesStay

\* A step of the started program that leaves the timer alone.
LEMMA QuietStep ==
  ASSUME DevicesOK, LedgerInv', NEW w, Clock(w), WriteOK(w), NEW label,
         w.reg \notin {"RPTC_CNTR", "RPTC_HRC", "RPTC_LRC", "RPTC_CTRL", "RGPIO_PTRIG"},
         pc' = <<label, pc[2]>>, pc[2] > 11, pc[1] # "on", label # "on",
         label \in {"digits", "cntr"} <=> pc[1] \in {"digits", "cntr"},
         label = "irq" \/ pc[1] # "irq", count_timer' = count_timer
  PROVE  DevicesOK'
<1>1. Running(w)
  BY RunningClock
<1>2. ptc' \in PtcRecord /\ matches' \in 0..(W - 1)
  BY <1>1, RunningTypes
<1>3. TypeOK' /\ Room'
  BY <1>2, RunTypes DEF DevicesOK, TypeOK
<1>4. pc'[1] = label
  OBVIOUS
<1>5. TimerLedger'
  BY <1>1, <1>4, RunLedger
<1>6. label \in {"digits", "cntr"} => ptc.cntr = Count
  BY DEF DevicesOK, TimerStage
<1>7. TimerStage'
  BY <1>1, <1>6, RunStage
<1> QED
  BY <1>3, <1>5, <1>7 DEF DevicesOK

\* The writes that set the timer up.
LEMMA SetUpDevices ==
  ASSUME DevicesOK, LedgerInv', InitWrite, pc[2] <= 11
  PROVE  DevicesOK'
<1> DEFINE k == pc[2]
           w == InitWrites[k]
<1>1. /\ k \in 1..11 /\ k \in 1..Writes /\ Clock(w) /\ pc' = <<"main", k + 1>>
      /\ count_timer' = count_timer
  BY DEF InitWrite, DevicesOK, TypeOK, Writes
<1>2. /\ WriteOK(w)
      /\ w.reg = "RGPIO_PTRIG" <=> k = 4
      /\ k = 4 => w.value = 1
      /\ w.reg = "RPTC_LRC" <=> k = 7
      /\ k = 7 => w.value = Count
      /\ w.reg = "RPTC_HRC" <=> k = 8
      /\ k = 8 => w.value = Max32
      /\ w.reg = "RPTC_CNTR" <=> k = 9
      /\ k = 9 => w.value = 0
      /\ w.reg = "RPTC_CTRL" <=> k \in {10, 11}
      /\ k = 10 => w.value = {"INT"}
      /\ k = 11 => w.value = {"EN", "SINGLE", "INTE"}
  BY <1>1, InitWriteDevices
<1> HIDE DEF w, k
<1>3. /\ ptc.cntr = 0 /\ ptc.int_r = 0 /\ ptc.ctrl \subseteq {"INT"}
      /\ matches = 0 /\ count_timer = 0
      /\ k <= 7 => ptc.lrc = 0
      /\ k > 7 => ptc.lrc = Count
      /\ k > 8 => ptc.hrc = Max32
      /\ ptc.hrc \in {0, Max32} /\ ptc.lrc \in {0, Count}
  BY <1>1 DEF DevicesOK, TypeOK, TimerStage, k
<1>4. /\ "EN" \notin ptc.ctrl /\ "INTE" \notin ptc.ctrl
  BY <1>3
<1>5. ptc'.cntr = 0
  BY <1>1, <1>2, <1>3, <1>4, PtcClock DEF Counter
<1>6. /\ ptc'.int_r = 0
      /\ ptc'.lrc = IF k = 7 THEN Count ELSE ptc.lrc
      /\ ptc'.hrc = IF k = 8 THEN Max32 ELSE ptc.hrc
      /\ ptc' = [cntr |-> ptc'.cntr, hrc |-> ptc'.hrc, lrc |-> ptc'.lrc,
                 ctrl |-> ptc'.ctrl, int_r |-> ptc'.int_r]
  BY <1>1, <1>2, <1>4, PtcClock
<1>7. matches' = 0
  BY <1>1, <1>3, <1>5, PtcClock
<1>8. ptc'.ctrl = CASE k = 10 -> {"INT"} [] k = 11 -> {"EN", "SINGLE", "INTE"}
                    [] OTHER -> ptc.ctrl
  <2>1. ptc'.ctrl = Ctrl(w)
    BY <1>1, PtcClock
  <2>2. CASE k = 10
    BY <1>2, <2>1, <2>2 DEF Ctrl
  <2>3. CASE k = 11
    BY <1>2, <2>1, <2>3 DEF Ctrl
  <2>4. CASE k # 10 /\ k # 11
    <3>1. ptc'.ctrl = ptc.ctrl
      BY <1>2, <1>4, <2>1, <2>4 DEF Ctrl
    <3> QED
      BY <2>4, <3>1
  <2> QED
    BY <2>2, <2>3, <2>4
<1>9. ptc'.ctrl \subseteq {"EN", "SINGLE", "INTE", "INT"} /\ (k < 11 => ptc'.ctrl \subseteq {"INT"})
  BY <1>1, <1>3, <1>8
<1>10. pc'[1] = "main" /\ pc'[2] = k + 1
  BY <1>1
<1>11. ptc' \in PtcRecord
  <2>1. ptc'.cntr \in 0..Count
    BY <1>5, BtnIntAssumption
  <2> QED
    BY <1>3, <1>6, <1>9, <2>1 DEF PtcRecord
<1>12. 0 \in 0..(W - 1) /\ (0 + 0) % W = 0 /\ Count # 0
  BY BtnIntAssumption, OneMore
<1>13. TypeOK' /\ Room'
  <2>1. k + 1 > 4 => gpio'.ptrig = 1
    <3>1. gpio'.ptrig = IF w.reg = "RGPIO_PTRIG" THEN w.value ELSE gpio.ptrig
      BY <1>1, <1>2, DevicesClock
    <3>2. k > 4 => gpio.ptrig = 1
      BY DEF DevicesOK, Room, k
    <3> QED
      BY <1>1, <1>2, <3>1, <3>2
  <2> QED
    BY <1>1, <1>2, <1>3, <1>7, <1>10, <1>11, <1>12, <2>1, TypesStay
<1>14. TimerStage'
  <2>1. k + 1 <= 7 => ptc'.lrc = 0
    BY <1>1, <1>3, <1>6
  <2>2. k + 1 > 7 => ptc'.lrc = Count
    BY <1>1, <1>3, <1>6
  <2>3. k + 1 > 8 => ptc'.hrc = Max32
    BY <1>1, <1>3, <1>6
  <2>4. k + 1 <= 11 => k < 11
    BY <1>1
  <2>5. k + 1 > 11 => k = 11
    BY <1>1
  <2>6. count_timer' = 0
    BY <1>1, <1>3
  <2>7. k = 11 => {"EN", "SINGLE", "INTE"} \subseteq ptc'.ctrl /\ "INT" \notin ptc'.ctrl
    BY <1>8
  <2> QED
    BY <1>5, <1>6, <1>7, <1>9, <1>10, <2>1, <2>2, <2>3, <2>4, <2>5, <2>6, <2>7
    DEF TimerStage
<1>15. TimerLedger'
  <2>1. matches' = 0 /\ count_timer' = 0 /\ ptc'.cntr # Count
    BY <1>1, <1>3, <1>5, <1>7, <1>12
  <2> QED
    BY <1>12, <2>1 DEF TimerLedger
<1> QED
  BY <1>13, <1>14, <1>15 DEF DevicesOK

\* The writes of cpu_int_init, which come after the timer has started.
LEMMA InitWriteDevicesOK == DevicesOK /\ LedgerInv' /\ InitWrite => DevicesOK'
<1> SUFFICES ASSUME DevicesOK, LedgerInv', InitWrite PROVE DevicesOK'
  OBVIOUS
<1>1. CASE pc[2] <= 11
  BY <1>1, SetUpDevices
<1>2. CASE ~(pc[2] <= 11)
  <2> DEFINE k == pc[2]
             w == InitWrites[k]
  <2>1. /\ k \in 12..14 /\ k \in 1..Writes /\ Clock(w) /\ pc' = <<"main", k + 1>>
        /\ count_timer' = count_timer /\ pc[1] = "main"
    BY <1>2 DEF InitWrite, DevicesOK, TypeOK, Writes
  <2>2. /\ WriteOK(w) /\ w.reg # "RGPIO_PTRIG"
        /\ w.reg \notin {"RPTC_CNTR", "RPTC_HRC", "RPTC_LRC", "RPTC_CTRL"}
    BY <2>1, InitWriteDevices
  <2> HIDE DEF w
  <2>3. Running(w)
    BY <2>1, <2>2, RunningClock
  <2>4. ptc' \in PtcRecord /\ matches' \in 0..(W - 1)
    BY <2>1, <2>2, <2>3, RunningTypes
  <2>5. pc'[1] = "main" /\ pc'[2] = k + 1
    BY <2>1
  <2>6. gpio'.ptrig = 1
    <3>1. k > 4
      BY <2>1
    <3> QED
      BY <2>1, <2>2, <3>1, DevicesClock DEF DevicesOK, Room
  <2>7. TypeOK' /\ Room'
    BY <2>1, <2>2, <2>4, <2>6, TypesStay DEF DevicesOK, TypeOK
  <2>8. TimerLedger'
    BY <2>1, <2>3, <2>5, RunLedger
  <2>9. TimerStage'
    <3>1. ~(k + 1 <= 7) /\ ~(k + 1 <= 11) /\ k > 11
      BY <2>1
    <3>2. {"EN", "SINGLE", "INTE"} \subseteq ptc'.ctrl /\ ptc'.lrc = Count /\ ptc'.hrc = Max32
      BY <2>1, <2>2, <2>3, <3>1 DEF DevicesOK, TimerStage, Running
    <3>3. ptc'.int_r = 1 \/ "INT" \in ptc'.ctrl => ptc'.cntr = Count
      <4>1. ptc.int_r = 1 \/ "INT" \in ptc.ctrl => ptc.cntr = Count
        BY <2>1, <3>1 DEF DevicesOK, TimerStage
      <4> QED
        BY <2>2, <2>3, <4>1 DEF Running
    <3> QED
      BY <2>5, <3>1, <3>2, <3>3 DEF TimerStage
  <2> QED
    BY <2>7, <2>8, <2>9 DEF DevicesOK
<1> QED
  BY <1>1, <1>2

\* The handler runs with the initialisation done.
LEMMA HandlerRuns ==
  ASSUME DevicesOK, pc[1] # "main" \/ Interrupted
  PROVE  pc[2] = 15 /\ pc[2] > 11
BY DEF DevicesOK, LedgerInv, Progress, Interrupted, Writes

LEMMA NoWriteFacts == NoWrite.reg = "none" /\ WriteOK(NoWrite)
BY DEF NoWrite, WriteOK

LEMMA TrapDevices == DevicesOK /\ LedgerInv' /\ Trap => DevicesOK'
<1> SUFFICES ASSUME DevicesOK, LedgerInv', Trap PROVE DevicesOK'
  OBVIOUS
<1>1. /\ pc[1] = "main" /\ pc[2] > 11 /\ Clock(NoWrite) /\ pc' = <<"read_ints", pc[2]>>
      /\ count_timer' = count_timer
  BY HandlerRuns DEF Trap
<1> QED
  BY <1>1, NoWriteFacts, QuietStep

LEMMA ReadIntsDevices == DevicesOK /\ LedgerInv' /\ ReadInts => DevicesOK'
<1> SUFFICES ASSUME DevicesOK, LedgerInv', ReadInts PROVE DevicesOK'
  OBVIOUS
<1> DEFINE label == IF gpio.ints = 1 THEN "out" ELSE "read_ctrl"
<1>1. /\ pc[1] = "read_ints" /\ pc[2] > 11 /\ Clock(NoWrite) /\ pc' = <<label, pc[2]>>
      /\ count_timer' = count_timer
  BY HandlerRuns DEF ReadInts, GoTo
<1>2. label \in {"out", "read_ctrl"}
  OBVIOUS
<1> HIDE DEF label
<1> QED
  BY <1>1, <1>2, NoWriteFacts, QuietStep

\* The handler counts the period when it reads its request.
LEMMA ReadCtrlDevices == DevicesOK /\ LedgerInv' /\ ReadCtrl => DevicesOK'
<1> SUFFICES ASSUME DevicesOK, LedgerInv', ReadCtrl PROVE DevicesOK'
  OBVIOUS
<1> DEFINE label == IF "INT" \in ptc.ctrl THEN "digits" ELSE "mret"
<1>1. /\ pc[1] = "read_ctrl" /\ pc[2] > 11 /\ Clock(NoWrite) /\ pc' = <<label, pc[2]>>
      /\ count_timer' = IF "INT" \in ptc.ctrl THEN (count_timer + 1) % W ELSE count_timer
  BY HandlerRuns DEF ReadCtrl, GoTo
<1>2. CASE "INT" \notin ptc.ctrl
  BY <1>1, <1>2, NoWriteFacts, QuietStep
<1>3. CASE "INT" \in ptc.ctrl
  <2>1. /\ pc' = <<"digits", pc[2]>> /\ pc'[1] = "digits"
        /\ count_timer' = (count_timer + 1) % W
    BY <1>1, <1>3
  <2>2. ptc.cntr = Count
    BY <1>1, <1>3 DEF DevicesOK, TimerStage
  <2>3. Running(NoWrite)
    BY <1>1, NoWriteFacts, RunningClock
  <2>4. ptc' \in PtcRecord /\ matches' \in 0..(W - 1)
    BY <1>1, <2>3, NoWriteFacts, RunningTypes
  <2>5. count_timer' \in 0..(W - 1) /\ count_timer \in 0..(W - 1)
    BY <2>1, OneMore DEF DevicesOK, TypeOK
  <2>6. TypeOK' /\ Room'
    BY <1>1, <2>4, <2>5, NoWriteFacts, RunTypes
  <2>7. TimerStage'
    BY <1>1, <2>1, <2>2, <2>3, NoWriteFacts, RunStage
  <2>8. TimerLedger'
    <3>1. matches = (count_timer + 1) % W
      BY <1>1, <2>2 DEF DevicesOK, TimerLedger
    <3>2. matches' = matches
      BY <2>2, <2>3, BtnIntAssumption DEF Running
    <3>3. (count_timer' + 0) % W = count_timer'
      BY <2>5, OneMore
    <3> QED
      BY <2>1, <3>1, <3>2, <3>3 DEF TimerLedger
  <2> QED
    BY <2>6, <2>7, <2>8 DEF DevicesOK
<1> QED
  BY <1>2, <1>3

LEMMA MretDevices == DevicesOK /\ LedgerInv' /\ Mret => DevicesOK'
<1> SUFFICES ASSUME DevicesOK, LedgerInv', Mret PROVE DevicesOK'
  OBVIOUS
<1>1. /\ pc[1] = "mret" /\ pc[2] > 11 /\ Clock(NoWrite) /\ pc' = <<"main", pc[2]>>
      /\ count_timer' = count_timer
  BY HandlerRuns DEF Mret
<1> QED
  BY <1>1, NoWriteFacts, QuietStep

\* The handler resets the counter; the timer runs on from there, still enabled.
LEMMA CntrDevices ==
  ASSUME DevicesOK, LedgerInv', HandlerStep, pc[1] = "cntr"
  PROVE  DevicesOK'
<1> DEFINE w == Write("RPTC_CNTR", 0)
<1>1. /\ Clock(w) /\ pc' = <<"irq", pc[2]>> /\ count_timer' = count_timer /\ pc[2] = 15
      /\ w.reg = "RPTC_CNTR" /\ w.value = 0 /\ WriteOK(w)
  BY HandlerRuns DEF HandlerStep, HandlerWrite, GoTo, Write, WriteOK
<1> HIDE DEF w
<1>2. /\ ptc.lrc = Count /\ ptc.hrc = Max32 /\ {"EN", "SINGLE", "INTE"} \subseteq ptc.ctrl
      /\ ptc.ctrl \subseteq {"EN", "SINGLE", "INTE", "INT"}
      /\ matches \in 0..(W - 1) /\ count_timer \in 0..(W - 1) /\ Count \in Nat \ {0}
  BY <1>1, BtnIntAssumption DEF DevicesOK, TypeOK, TimerStage
<1>3. ptc'.cntr = 0 /\ matches' = matches
  BY <1>1, PtcClock DEF Counter
<1>4. /\ ptc'.lrc = Count /\ ptc'.hrc = Max32 /\ ptc'.int_r \in {0, 1}
      /\ ptc' = [cntr |-> ptc'.cntr, hrc |-> ptc'.hrc, lrc |-> ptc'.lrc,
                 ctrl |-> ptc'.ctrl, int_r |-> ptc'.int_r]
  BY <1>1, <1>2, PtcClock
<1>5. /\ {"EN", "SINGLE", "INTE"} \subseteq ptc'.ctrl
      /\ ptc'.ctrl \subseteq {"EN", "SINGLE", "INTE", "INT"}
  BY <1>1, <1>2, PtcClock DEF Ctrl
<1>6. ptc' \in PtcRecord
  BY <1>2, <1>3, <1>4, <1>5 DEF PtcRecord
<1>7. pc'[1] = "irq" /\ pc'[2] = pc[2] /\ ~(15 <= 7) /\ ~(15 <= 11)
  BY <1>1
<1>8. TypeOK' /\ Room'
  BY <1>1, <1>2, <1>3, <1>6, <1>7, RunTypes
<1>9. TimerStage'
  BY <1>1, <1>4, <1>5, <1>7 DEF TimerStage
<1>10. TimerLedger'
  BY <1>1, <1>2, <1>3, <1>7 DEF DevicesOK, TimerLedger
<1> QED
  BY <1>8, <1>9, <1>10 DEF DevicesOK

\* It stops the timer; a period that ends until then is owed.
LEMMA IrqDevices ==
  ASSUME DevicesOK, LedgerInv', HandlerStep, pc[1] = "irq"
  PROVE  DevicesOK'
<1> DEFINE w == Write("RPTC_CTRL", {"INT"})
<1>1. /\ Clock(w) /\ pc' = <<"on", pc[2]>> /\ count_timer' = count_timer /\ pc[2] = 15
      /\ w.reg = "RPTC_CTRL" /\ w.value = {"INT"} /\ WriteOK(w)
  BY HandlerRuns DEF HandlerStep, HandlerWrite, GoTo, Write, WriteOK
<1> HIDE DEF w
<1>2. Running(w)
  BY <1>1, RunningClock
<1>3. ptc'.ctrl = {"INT"}
  BY <1>1, PtcClock DEF Ctrl
<1>4. /\ matches \in 0..(W - 1) /\ count_timer \in 0..(W - 1)
      /\ ptc.cntr \in 0..Count /\ Count \in Nat \ {0}
  BY BtnIntAssumption DEF DevicesOK, TypeOK
<1>5. matches' \in 0..(W - 1)
  BY <1>2, <1>4, OneMore DEF Running
<1>6. ptc' \in PtcRecord
  <2>1. /\ ptc'.cntr \in 0..Count /\ ptc'.lrc = Count /\ ptc'.hrc = Max32
        /\ ptc'.int_r \in {0, 1}
    BY <1>2, <1>4 DEF Running
  <2>2. ptc' = [cntr |-> ptc'.cntr, hrc |-> ptc'.hrc, lrc |-> ptc'.lrc,
                ctrl |-> ptc'.ctrl, int_r |-> ptc'.int_r]
    BY <1>1, PtcClock
  <2> QED
    BY <1>3, <2>1, <2>2 DEF PtcRecord
<1>7. pc'[1] = "on" /\ pc'[2] = pc[2] /\ ~(15 <= 7) /\ ~(15 <= 11)
  BY <1>1
<1>8. TypeOK' /\ Room'
  BY <1>1, <1>4, <1>5, <1>6, <1>7, RunTypes
<1>9. TimerStage'
  BY <1>1, <1>2, <1>3, <1>7 DEF TimerStage, Running
<1>10. TimerLedger'
  BY <1>1, <1>2, <1>7, RunLedger
<1> QED
  BY <1>8, <1>9, <1>10 DEF DevicesOK

\* It starts the timer again, which drops a request raised meanwhile; the counter at
\* the match raises it again.
LEMMA OnDevices ==
  ASSUME DevicesOK, LedgerInv', HandlerStep, pc[1] = "on"
  PROVE  DevicesOK'
<1> DEFINE w == Write("RPTC_CTRL", {"EN", "SINGLE", "INTE"})
<1>1. /\ Clock(w) /\ pc' = <<"mret", pc[2]>> /\ count_timer' = count_timer /\ pc[2] = 15
      /\ w.reg = "RPTC_CTRL" /\ w.value = {"EN", "SINGLE", "INTE"} /\ WriteOK(w)
  BY HandlerRuns DEF HandlerStep, HandlerWrite, GoTo, Write, WriteOK
<1> HIDE DEF w
<1>2. ptc'.cntr = ptc.cntr /\ ptc'.int_r = 0 /\ matches' = matches
  BY <1>1, StoppedClock DEF DevicesOK, TimerStage
<1>3. ptc'.ctrl = {"EN", "SINGLE", "INTE"} /\ "INT" \notin ptc'.ctrl
  BY <1>1, PtcClock DEF Ctrl
<1>4. /\ matches \in 0..(W - 1) /\ count_timer \in 0..(W - 1) /\ ptc.cntr \in 0..Count
      /\ ptc.lrc = Count /\ ptc.hrc = Max32
  BY <1>1 DEF DevicesOK, TypeOK, TimerStage
<1>5. /\ ptc'.lrc = Count /\ ptc'.hrc = Max32
      /\ ptc' = [cntr |-> ptc'.cntr, hrc |-> ptc'.hrc, lrc |-> ptc'.lrc,
                 ctrl |-> ptc'.ctrl, int_r |-> ptc'.int_r]
  BY <1>1, <1>4, PtcClock
<1>6. ptc' \in PtcRecord
  BY <1>2, <1>3, <1>4, <1>5 DEF PtcRecord
<1>7. pc'[1] = "mret" /\ pc'[2] = pc[2] /\ ~(15 <= 7) /\ ~(15 <= 11)
  BY <1>1
<1>8. TypeOK' /\ Room'
  BY <1>1, <1>2, <1>4, <1>6, <1>7, RunTypes
<1>9. TimerStage'
  BY <1>1, <1>2, <1>3, <1>5, <1>7 DEF TimerStage
<1>10. TimerLedger'
  BY <1>1, <1>2, <1>7 DEF DevicesOK, TimerLedger
<1> QED
  BY <1>8, <1>9, <1>10 DEF DevicesOK

LEMMA HandlerStepDevices == DevicesOK /\ LedgerInv' /\ HandlerStep => DevicesOK'
<1> SUFFICES ASSUME DevicesOK, LedgerInv', HandlerStep PROVE DevicesOK'
  OBVIOUS
<1>0. pc[2] > 11 /\ count_timer' = count_timer
  BY HandlerRuns DEF HandlerStep
<1>1. CASE pc[1] = "cntr"
  BY <1>1, CntrDevices
<1>2. CASE pc[1] = "irq"
  BY <1>2, IrqDevices
<1>3. CASE pc[1] = "on"
  BY <1>3, OnDevices
<1>4. CASE pc[1] = "out"
  <2> DEFINE w == Write("RGPIO_OUT", count_btn_press)
  <2>1. /\ Clock(w) /\ pc' = <<"ints", pc[2]>> /\ w.reg = "RGPIO_OUT" /\ WriteOK(w)
    BY <1>4 DEF HandlerStep, HandlerWrite, GoTo, Write, WriteOK, DevicesOK, TypeOK
  <2> HIDE DEF w
  <2> QED
    BY <1>0, <1>4, <2>1, QuietStep
<1>5. CASE pc[1] = "ints"
  <2> DEFINE w == Write("RGPIO_INTS", 0)
  <2>1. /\ Clock(w) /\ pc' = <<"mret", pc[2]>> /\ w.reg = "RGPIO_INTS" /\ WriteOK(w)
    BY <1>5 DEF HandlerStep, HandlerWrite, GoTo, Write, WriteOK
  <2> HIDE DEF w
  <2> QED
    BY <1>0, <1>5, <2>1, QuietStep
<1>6. CASE pc[1] = "digits"
  <2> DEFINE w == Write("WRITE_DIGITS_REG", count_timer)
  <2>1. /\ Clock(w) /\ pc' = <<"cntr", pc[2]>> /\ w.reg = "WRITE_DIGITS_REG" /\ WriteOK(w)
    BY <1>6 DEF HandlerStep, HandlerWrite, GoTo, Write, WriteOK, DevicesOK, TypeOK
  <2> HIDE DEF w
  <2> QED
    BY <1>0, <1>6, <2>1, QuietStep
<1> QED
  BY <1>1, <1>2, <1>3, <1>4, <1>5, <1>6 DEF HandlerStep

\* A clock without an access, at any place of the program.
LEMMA IdleDevices == DevicesOK /\ LedgerInv' /\ Idle => DevicesOK'
<1> SUFFICES ASSUME DevicesOK, LedgerInv', Idle PROVE DevicesOK'
  OBVIOUS
<1>1. /\ Clock(NoWrite) /\ pc' = pc /\ pc = <<pc[1], pc[2]>> /\ count_timer' = count_timer
  BY DEF Idle, program, DevicesOK, LedgerInv, Progress
<1>2. CASE pc[2] > 11 /\ pc[1] # "on"
  BY <1>1, <1>2, NoWriteFacts, QuietStep
<1>3. CASE ptc.ctrl \subseteq {"INT"}
  <2>1. /\ ptc'.cntr = ptc.cntr /\ ptc'.int_r = 0 /\ matches' = matches
        /\ ptc'.ctrl = ptc.ctrl
    BY <1>1, <1>3, NoWriteFacts, StoppedClock
  <2>2. /\ ptc'.lrc = ptc.lrc /\ ptc'.hrc = ptc.hrc
        /\ ptc' = [cntr |-> ptc'.cntr, hrc |-> ptc'.hrc, lrc |-> ptc'.lrc,
                   ctrl |-> ptc'.ctrl, int_r |-> ptc'.int_r]
    BY <1>1, NoWriteFacts, PtcClock
  <2>3. ptc' \in PtcRecord /\ matches' \in 0..(W - 1) /\ count_timer' \in 0..(W - 1)
    BY <1>1, <2>1, <2>2 DEF DevicesOK, TypeOK, PtcRecord
  <2>4. TypeOK' /\ Room'
    BY <1>1, <2>3, NoWriteFacts, RunTypes
  <2>5. TimerStage' /\ TimerLedger'
    BY <1>1, <2>1, <2>2 DEF DevicesOK, TimerStage, TimerLedger
  <2> QED
    BY <2>4, <2>5 DEF DevicesOK
<1>4. pc[2] <= 11 \/ pc[1] = "on" => ptc.ctrl \subseteq {"INT"}
  BY DEF DevicesOK, TimerStage
<1>5. pc[2] \in Int
  BY DEF DevicesOK, TypeOK
<1> QED
  BY <1>2, <1>3, <1>4, <1>5

LEMMA DevicesStep == DevicesOK /\ [Next]_vars => DevicesOK'
<1> SUFFICES ASSUME DevicesOK, [Next]_vars PROVE DevicesOK'
  OBVIOUS
<1>1. LedgerInv'
  BY LedgerStep DEF DevicesOK
<1>2. CASE Next
  BY <1>1, <1>2, InitWriteDevicesOK, TrapDevices, ReadIntsDevices, ReadCtrlDevices,
     HandlerStepDevices, MretDevices, IdleDevices DEF Next, Software
<1>3. CASE UNCHANGED vars
  BY <1>1, <1>3 DEF vars, program, DevicesOK, TypeOK, Room, TimerStage, TimerLedger
<1> QED
  BY <1>2, <1>3

\* Every period of the timer is counted once, wherever the clocks of the timer fall
\* among the writes with which the handler restarts it, and the counter never passes
\* its match (ptc_top.v, btn_int.c).
THEOREM PeriodsAreCounted == Spec => []TimerInv
<1>1. DevicesOK => TimerInv
  BY DEF DevicesOK, TimerInv
<1> QED
  BY <1>1, InitDevices, DevicesStep, PTL DEF Spec
=============================================================================
