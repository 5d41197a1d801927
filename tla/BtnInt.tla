------------------------------- MODULE BtnInt -------------------------------
(***************************************************************************)
(* The interrupt example (src/sw/examples/btn_interrupt): a program that   *)
(* counts presses of the middle button and periods of the timer in one     *)
(* handler, with the registers of the gpio and the ptc it uses.            *)
(*                                                                         *)
(* A step is a clock.  The program performs one access in it or, as it may *)
(* take any number of clocks between two accesses, none.                   *)
(***************************************************************************)
EXTENDS Integers

CONSTANTS
  Count,        \* MS_100_COUNT / 2, the timer's period
  W,            \* count_timer is kept modulo W
  MaxPresses    \* presses of the button after the gpio is enabled

ASSUME BtnIntAssumption ==
  Count \in Nat \ {0} /\ W \in Nat \ {0, 1} /\ MaxPresses \in Nat

VARIABLES
  btn,                          \* the level of the button, synchronised
  gpio, ptc, digits,            \* the registers of the devices
  csr,                          \* mtvec is set, mstatus.MIE, mie
  pc,                           \* the program's next access
  count_btn_press, count_timer,
  presses, lost, matches        \* history: edges, edges merged, periods

program == <<csr, pc, count_btn_press, count_timer>>
vars == <<btn, gpio, ptc, digits, program, presses, lost, matches>>

Init ==
  /\ btn = 0
  /\ gpio = [oe |-> 0, out |-> 0, inte |-> 0, ptrig |-> 0, ctrl |-> 0,
             ints |-> 0, in |-> 0, inta |-> 0]
  /\ ptc = [cntr |-> 0, hrc |-> 0, lrc |-> 0, ctrl |-> {}, int_r |-> 0]
  /\ digits = 0
  /\ csr = [mtvec |-> 0, mstatus |-> 0, mie |-> 0]
  /\ pc = <<"main", 1>>
  /\ count_btn_press = 0 /\ count_timer = 0
  /\ presses = 0 /\ lost = 0 /\ matches = 0
-----------------------------------------------------------------------------
(* The gpio: w is the access of this clock.                                *)

NoWrite == [reg |-> "none", value |-> 0]

\* An edge of the button that the gpio records.
Edge == btn # gpio.in /\ btn = gpio.ptrig
Armed == gpio.ctrl = 1 /\ gpio.inte = 1

\* Mutation: an edge is recorded although the register is written.
IntsKept(w) ==
  CASE w.reg = "RGPIO_INTS" -> IF Edge /\ Armed THEN 1 ELSE w.value
    [] w.reg # "RGPIO_INTS" /\ Edge /\ Armed -> 1
    [] OTHER -> gpio.ints

\* A write of RGPIO_INTS wins over an edge in the same clock.
Ints(w) ==
  CASE w.reg = "RGPIO_INTS" -> w.value
    [] w.reg # "RGPIO_INTS" /\ Edge /\ Armed -> 1
    [] OTHER -> gpio.ints

Gpio(w) ==
  gpio' = [oe    |-> IF w.reg = "RGPIO_OE"    THEN w.value ELSE gpio.oe,
           out   |-> IF w.reg = "RGPIO_OUT"   THEN w.value ELSE gpio.out,
           inte  |-> IF w.reg = "RGPIO_INTE"  THEN w.value ELSE gpio.inte,
           ptrig |-> IF w.reg = "RGPIO_PTRIG" THEN w.value ELSE gpio.ptrig,
           ctrl  |-> IF w.reg = "RGPIO_CTRL"  THEN w.value ELSE gpio.ctrl,
           ints  |-> Ints(w),
           in    |-> btn,
           inta  |-> IF gpio.ctrl = 1 THEN gpio.ints ELSE 0]
-----------------------------------------------------------------------------
(* The ptc in its single mode: it stops at the match until it is reset.    *)

Max32 == Count + 1    \* a value the counter never reaches

Match == "EN" \in ptc.ctrl /\ ptc.cntr = ptc.lrc
HrcMatch == "EN" \in ptc.ctrl /\ ptc.cntr = ptc.hrc

Counter(w) ==
  CASE w.reg = "RPTC_CNTR" -> w.value
    [] w.reg # "RPTC_CNTR" /\ "EN" \in ptc.ctrl /\ Match /\ "SINGLE" \notin ptc.ctrl -> 0
    [] w.reg # "RPTC_CNTR" /\ "EN" \in ptc.ctrl /\ ~Match -> ptc.cntr + 1
    [] OTHER -> ptc.cntr

Ctrl(w) ==
  CASE w.reg = "RPTC_CTRL" -> w.value
    [] w.reg # "RPTC_CTRL" /\ "INTE" \in ptc.ctrl /\ ptc.int_r = 1 -> ptc.ctrl \cup {"INT"}
    [] OTHER -> ptc.ctrl

Ptc(w) ==
  ptc' = [cntr  |-> Counter(w),
          hrc   |-> IF w.reg = "RPTC_HRC" THEN w.value ELSE ptc.hrc,
          lrc   |-> IF w.reg = "RPTC_LRC" THEN w.value ELSE ptc.lrc,
          ctrl  |-> Ctrl(w),
          int_r |-> IF (Match \/ HrcMatch) /\ "INTE" \in ptc.ctrl THEN 1 ELSE 0]
-----------------------------------------------------------------------------
\* A clock of the devices and of the button.
Clock(w) ==
  /\ Gpio(w) /\ Ptc(w)
  /\ digits' = IF w.reg = "WRITE_DIGITS_REG" THEN w.value ELSE digits
  /\ presses' = IF Edge /\ Armed THEN presses + 1 ELSE presses
  /\ lost' = IF Edge /\ Armed /\ (gpio.ints = 1 \/ w.reg = "RGPIO_INTS") THEN lost + 1 ELSE lost
  /\ matches' = IF ptc'.cntr = ptc.lrc /\ ptc.cntr # ptc.lrc /\ w.reg # "RPTC_CNTR"
                THEN (matches + 1) % W ELSE matches
  /\ btn' \in {0, 1}
  /\ btn' = 0 \/ btn = 1 \/ presses' < MaxPresses
-----------------------------------------------------------------------------
(* main: the writes before the interrupts are enabled.                     *)

Write(reg, value) == [reg |-> reg, value |-> value]

gpio_int_init ==
  << Write("RGPIO_OE", 1), Write("RGPIO_OUT", 0), Write("RGPIO_INTE", 1),
     Write("RGPIO_PTRIG", 1), Write("RGPIO_INTS", 0), Write("RGPIO_CTRL", 1) >>

timer_int_init ==
  << Write("RPTC_LRC", Count), Write("RPTC_HRC", Max32), Write("RPTC_CNTR", 0),
     Write("RPTC_CTRL", {"INT"}), Write("RPTC_CTRL", {"EN", "SINGLE", "INTE"}) >>

cpu_int_init ==
  << Write("CSR_MTVEC", 1), Write("CSR_MSTATUS", 1), Write("CSR_MIE", 1) >>

\* main calls the three one after the other.
Writes == 14

InitWrites ==
  [k \in 1..Writes |-> CASE k \in 1..6   -> gpio_int_init[k]
                        [] k \in 7..11  -> timer_int_init[k - 6]
                        [] k \in 12..14 -> cpu_int_init[k - 11]]

\* The core takes an interrupt of an enabled source as a level.
Interrupted ==
  /\ csr.mstatus = 1 /\ csr.mie = 1
  /\ gpio.inta = 1 \/ "INT" \in ptc.ctrl

InitWrite ==
  /\ pc[1] = "main" /\ pc[2] <= Writes /\ ~Interrupted
  /\ LET w == InitWrites[pc[2]]
     IN  /\ Clock(w)
         /\ csr' = [mtvec   |-> IF w.reg = "CSR_MTVEC"   THEN w.value ELSE csr.mtvec,
                    mstatus |-> IF w.reg = "CSR_MSTATUS" THEN w.value ELSE csr.mstatus,
                    mie     |-> IF w.reg = "CSR_MIE"     THEN w.value ELSE csr.mie]
  /\ pc' = <<"main", pc[2] + 1>>
  /\ UNCHANGED <<count_btn_press, count_timer>>

\* The trap keeps the place in main and disables interrupts.
Trap ==
  /\ pc[1] = "main" /\ Interrupted
  /\ Clock(NoWrite)
  /\ csr' = [csr EXCEPT !.mstatus = 0]
  /\ pc' = <<"read_ints", pc[2]>>
  /\ UNCHANGED <<count_btn_press, count_timer>>
-----------------------------------------------------------------------------
(* interrupt_handler: the button first, the timer otherwise.               *)

\* pc[1] names the access, pc[2] keeps the place in main.
GoTo(label) == pc' = <<label, pc[2]>> /\ UNCHANGED csr

ReadInts ==
  /\ pc[1] = "read_ints"
  /\ Clock(NoWrite)
  /\ count_btn_press' = count_btn_press + gpio.ints
  /\ GoTo(IF gpio.ints = 1 THEN "out" ELSE "read_ctrl")
  /\ UNCHANGED count_timer

ReadCtrl ==
  /\ pc[1] = "read_ctrl"
  /\ Clock(NoWrite)
  /\ count_timer' = IF "INT" \in ptc.ctrl THEN (count_timer + 1) % W ELSE count_timer
  /\ GoTo(IF "INT" \in ptc.ctrl THEN "digits" ELSE "mret")
  /\ UNCHANGED count_btn_press

\* Mutation: the counter is left at the match.
HandlerWriteNoReset(label) ==
  CASE label = "out"    -> [w |-> Write("RGPIO_OUT", count_btn_press), next |-> "ints"]
    [] label = "ints"   -> [w |-> Write("RGPIO_INTS", 0), next |-> "mret"]
    [] label = "digits" -> [w |-> Write("WRITE_DIGITS_REG", count_timer), next |-> "irq"]
    [] label = "cntr"   -> [w |-> Write("RPTC_CNTR", 0), next |-> "irq"]
    [] label = "irq"    -> [w |-> Write("RPTC_CTRL", {"INT"}), next |-> "on"]
    [] label = "on"     -> [w |-> Write("RPTC_CTRL", {"EN", "SINGLE", "INTE"}), next |-> "mret"]

\* Mutation: the timer is enabled again without its interrupt.
HandlerWriteOneShot(label) ==
  CASE label = "out"    -> [w |-> Write("RGPIO_OUT", count_btn_press), next |-> "ints"]
    [] label = "ints"   -> [w |-> Write("RGPIO_INTS", 0), next |-> "mret"]
    [] label = "digits" -> [w |-> Write("WRITE_DIGITS_REG", count_timer), next |-> "cntr"]
    [] label = "cntr"   -> [w |-> Write("RPTC_CNTR", 0), next |-> "irq"]
    [] label = "irq"    -> [w |-> Write("RPTC_CTRL", {"INT"}), next |-> "on"]
    [] label = "on"     -> [w |-> Write("RPTC_CTRL", {"EN", "SINGLE"}), next |-> "mret"]

\* The writes of the handler and where each goes on.
HandlerWrite(label) ==
  CASE label = "out"    -> [w |-> Write("RGPIO_OUT", count_btn_press), next |-> "ints"]
    [] label = "ints"   -> [w |-> Write("RGPIO_INTS", 0), next |-> "mret"]
    [] label = "digits" -> [w |-> Write("WRITE_DIGITS_REG", count_timer), next |-> "cntr"]
    [] label = "cntr"   -> [w |-> Write("RPTC_CNTR", 0), next |-> "irq"]
    [] label = "irq"    -> [w |-> Write("RPTC_CTRL", {"INT"}), next |-> "on"]
    [] label = "on"     -> [w |-> Write("RPTC_CTRL", {"EN", "SINGLE", "INTE"}), next |-> "mret"]

HandlerStep ==
  /\ pc[1] \in {"out", "ints", "digits", "cntr", "irq", "on"}
  /\ Clock(HandlerWrite(pc[1]).w)
  /\ GoTo(HandlerWrite(pc[1]).next)
  /\ UNCHANGED <<count_btn_press, count_timer>>

Mret ==
  /\ pc[1] = "mret"
  /\ Clock(NoWrite)
  /\ csr' = [csr EXCEPT !.mstatus = 1]
  /\ pc' = <<"main", pc[2]>>
  /\ UNCHANGED <<count_btn_press, count_timer>>

\* A clock without an access.
Idle == Clock(NoWrite) /\ UNCHANGED program

Software == InitWrite \/ Trap \/ ReadInts \/ ReadCtrl \/ HandlerStep \/ Mret

Next == Software \/ Idle

\* The clock runs and so does the program.
Fairness == WF_vars(Next) /\ WF_vars(Software)

Spec == Init /\ [][Next]_vars /\ Fairness
-----------------------------------------------------------------------------
Labels == {"main", "read_ints", "read_ctrl", "out", "ints", "digits", "cntr",
           "irq", "on", "mret"}

\* Type invariant; the counter of the ptc stays within its period.
TypeOK ==
  /\ btn \in {0, 1} /\ digits \in 0..(W - 1)
  /\ gpio \in [oe : {0, 1}, out : 0..MaxPresses, inte : {0, 1}, ptrig : {0, 1},
               ctrl : {0, 1}, ints : {0, 1}, in : {0, 1}, inta : {0, 1}]
  /\ ptc \in [cntr : 0..Count, hrc : {0, Max32}, lrc : {0, Count},
              ctrl : SUBSET {"EN", "SINGLE", "INTE", "INT"}, int_r : {0, 1}]
  /\ csr \in [mtvec : {0, 1}, mstatus : {0, 1}, mie : {0, 1}]
  /\ pc \in Labels \X (1..Writes + 1)
  /\ count_btn_press \in 0..MaxPresses /\ count_timer \in 0..(W - 1)
  /\ presses \in 0..MaxPresses /\ lost \in 0..MaxPresses /\ matches \in 0..(W - 1)

\* Every press the gpio saw is counted once, or will be, except those that
\* came before the handler had cleared the press before, one in the clock of
\* the clearing write included (gpio_top.v, btn_int.c).
PressLedger ==
  LET pending == IF gpio.ints = 1 /\ pc[1] \notin {"out", "ints"} THEN 1 ELSE 0
  IN  presses = count_btn_press + lost + pending

\* Every period of the timer is counted once, however the handler's writes of
\* its control register fall among the clocks of the timer (ptc_top.v).
TimerLedger ==
  LET pending == IF ptc.cntr = Count /\ pc[1] \notin {"digits", "cntr"} THEN 1 ELSE 0
  IN  matches = (count_timer + pending) % W

\* The type invariant and the ledger of the timer.
TimerInv == TypeOK /\ TimerLedger

\* No interrupt is taken before its handler is set.
TrapsHaveHandler == [][csr.mstatus = 1 /\ csr'.mstatus = 0 => csr.mtvec = 1]_vars

\* The LEDs show the presses in the end, each counted or merged into another,
\* and the timer goes on: no period is the last one that is shown.
EventsAreShown == /\ <>[](gpio.out + lost = presses)
                  /\ \A n \in 0..(W - 1) : []<>(digits = n)
=============================================================================
