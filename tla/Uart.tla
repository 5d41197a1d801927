-------------------------------- MODULE Uart --------------------------------
(***************************************************************************)
(* Text from a program to the simulator: the driver of uart_lib, the       *)
(* transmitter of the UART 16550, the software receiver UartSim, which     *)
(* samples the line with a clock of its own, and the lines that main takes *)
(* from it in riscof mode (printed until RVMODEL_HALT) or in board mode.   *)
(*                                                                         *)
(* Time is counted in turns of the loop of main, 10 ns each, and advances  *)
(* to the next instant at which something can happen.  Characters are      *)
(* their codes.                                                            *)
(***************************************************************************)
EXTENDS Integers, Sequences, SequencesExt

CONSTANTS
  Texts,   \* what programs write: sequences of strings
  HALT,    \* the line RVMODEL_HALT
  Depth    \* of the transmit FIFO

\* Strings end with the character 0; RVMODEL_HALT is a string too.
ASSUME UartAssumption ==
  /\ Texts \subseteq Seq(Seq(1..255)) /\ HALT \in Seq(1..255)
  /\ Depth \in Nat \ {0}

VARIABLES
  pc, text, rest,         \* the program: the write it is at, what is left to write
  lcr, dl, fifo,          \* the UART: line control, divisor latch, transmit FIFO
  frame, hold,            \* the transmitter: the frame sent, THRE held back
  rx, str, q,             \* UartSim: its machine, m_uart_str, m_q
  riscof, shown, done     \* main: the mode, the lines handed on, the end

uart == <<lcr, dl, fifo, frame, hold>>
program == <<pc, text, rest>>
vars == <<program, uart, rx, str, q, riscof, shown, done>>

Newline == 10

NoFrame == [state |-> "idle", char |-> 0, t |-> 0]

\* Before the first clock edge of the reset the line may be low.
Init ==
  /\ text \in Texts /\ rest = FlattenSeq(text) /\ pc = 1
  /\ lcr = 3 /\ dl = 0 /\ fifo = <<>> /\ hold = 0
  /\ frame \in {NoFrame, [NoFrame EXCEPT !.state = "undriven"]}
  /\ rx = [sm |-> "IDLE", left |-> 0, char |-> 0, pos |-> 0]
  /\ str = <<>> /\ q = <<>> /\ shown = <<>> /\ done = FALSE
  /\ riscof \in BOOLEAN
-----------------------------------------------------------------------------
(* The registers of the UART (uart_common.h).                              *)

UART_TX_HOLD_REG == 0
UART_DLAB_LSB == 0
UART_INTERRUPT_EN == 1
UART_FIFO_CTRL == 2
UART_LINE_CTRL == 3

Dlab == lcr >= 128
DataBits == 5 + (lcr % 4)

\* A bit is 16 enables of dl clocks, a clock is two turns of main.
Enable == 2 * dl
BitTime == 16 * Enable

\* The divisor latch shares its address with the holding register, and an
\* empty FIFO shows only 143 enables after a write to it.
UART_FIFO_TX_EMPTY == fifo = <<>> /\ hold = 0

WRITE_UART_REG(reg, value) ==
  /\ lcr' = IF reg = UART_LINE_CTRL THEN value ELSE lcr
  /\ dl' = IF reg = UART_DLAB_LSB /\ Dlab THEN value ELSE dl
  /\ hold' = IF reg = UART_TX_HOLD_REG /\ ~Dlab /\ UART_FIFO_TX_EMPTY
             THEN 143 * Enable ELSE hold
  /\ fifo' = CASE reg = UART_TX_HOLD_REG /\ ~Dlab /\ Len(fifo) < Depth -> Append(fifo, value)
               [] reg = UART_FIFO_CTRL /\ (value \div 4) % 2 = 1 -> <<>>
               [] OTHER -> fifo
-----------------------------------------------------------------------------
(* The driver.  Each write is an access of its own.                        *)

\* Mutation: the divisor is written before the latch is opened.
uart_init_swapped ==
  << <<UART_DLAB_LSB, 27>>, <<UART_LINE_CTRL, 128>>, <<UART_LINE_CTRL, 3>>,
     <<UART_FIFO_CTRL, 134>>, <<UART_INTERRUPT_EN, 0>> >>

uart_init ==
  << <<UART_LINE_CTRL, 128>>, <<UART_DLAB_LSB, 27>>, <<UART_LINE_CTRL, 3>>,
     <<UART_FIFO_CTRL, 134>>, <<UART_INTERRUPT_EN, 0>> >>

Running == ~done /\ frame.state # "undriven"

InitWrite ==
  /\ Running /\ pc <= Len(uart_init)
  /\ WRITE_UART_REG(uart_init[pc][1], uart_init[pc][2])
  /\ pc' = pc + 1
  /\ UNCHANGED <<text, rest, frame, rx, str, q, riscof, shown, done>>

\* A poll that finds the FIFO busy changes nothing.
uart_write_char(c) ==
  /\ UART_FIFO_TX_EMPTY
  /\ WRITE_UART_REG(UART_TX_HOLD_REG, c)

uart_write_str ==
  /\ Running /\ pc > Len(uart_init) /\ rest # <<>>
  /\ uart_write_char(Head(rest))
  /\ rest' = Tail(rest)
  /\ UNCHANGED <<pc, text, frame, rx, str, q, riscof, shown, done>>
-----------------------------------------------------------------------------
(* The transmitter: two enables to take a character from the FIFO, a start *)
(* bit, the data bits from the lowest, and a stop bit, of which 14 enables *)
(* pass before it looks into the FIFO again.                               *)

Lead == 2 * Enable
FrameTime == Lead + BitTime * (1 + DataBits) + 14 * Enable

BitOf(c, k) == (c \div 2^k) % 2 = 1

Line(f) ==
  CASE f.state = "undriven" -> FALSE
    [] f.state = "idle" -> TRUE
    [] f.state = "sending" ->
         LET bit == (f.t - Lead) \div BitTime
         IN  CASE f.t < Lead -> TRUE
               [] f.t >= Lead /\ bit = 0 -> FALSE
               [] f.t >= Lead /\ bit \in 1..DataBits -> BitOf(f.char, bit - 1)
               [] OTHER -> TRUE

\* The instants at which the line can change or the frame ends.
Edges == {Lead + BitTime * k : k \in 0..(DataBits + 1)} \cup {FrameTime}

Ends(d) == frame.state = "sending" /\ frame.t + d = FrameTime

\* The transmitter looks into the FIFO at an enable when it is not sending.
Takes(d) == fifo # <<>> /\ dl > 0 /\ (Ends(d) \/ frame.state = "idle")

\* The first rising edge of the clock drives the line.
ClockEdge == frame.state = "undriven" /\ frame.t = 1

Transmit(d) ==
  /\ frame' = CASE Takes(d) -> [state |-> "sending", char |-> Head(fifo), t |-> 0]
                [] ~Takes(d) /\ (Ends(d) \/ ClockEdge \/ frame.state = "idle") -> NoFrame
                [] OTHER -> [frame EXCEPT !.t = @ + d]
  /\ fifo' = IF Takes(d) THEN Tail(fifo) ELSE fifo
  /\ hold' = IF hold > d THEN hold - d ELSE 0
  /\ UNCHANGED <<lcr, dl>>
-----------------------------------------------------------------------------
(* UartSim.  left is the time until main_time > m_baud_wait.               *)

m_baud_time == 868

\* Mutation: the first sample is one whole bit after the falling edge.
DetectStartLate(r, high) ==
  IF high THEN r ELSE [r EXCEPT !.sm = "DETECT_MID_START_BIT", !.left = m_baud_time + 1]

DetectStart(r, high) ==
  IF high THEN r ELSE [r EXCEPT !.sm = "DETECT_MID_START_BIT",
                               !.left = (m_baud_time \div 2) + 1]

\* Mutation: the receiver expects a start bit at once.
uart_tick_eager(r, high) ==
  CASE r.sm \in {"IDLE", "DETECT_START_BIT"} -> DetectStart(r, high)
    [] r.sm = "DETECT_MID_START_BIT" /\ r.left = 0 ->
         [sm |-> "DETECT_MID_DATA_BIT", left |-> m_baud_time, char |-> 0, pos |-> 0]
    [] r.sm = "DETECT_MID_DATA_BIT" /\ r.left = 0 ->
         [sm   |-> IF r.pos = 7 THEN "STOP_BIT" ELSE r.sm, left |-> m_baud_time,
          char |-> r.char + (IF high THEN 2^r.pos ELSE 0), pos |-> r.pos + 1]
    [] r.sm = "STOP_BIT" /\ r.left = 0 -> [r EXCEPT !.sm = "DETECT_START_BIT"]
    [] OTHER -> r

uart_tick(r, high) ==
  CASE r.sm = "IDLE" -> [r EXCEPT !.sm = IF high THEN "DETECT_START_BIT" ELSE @]
    [] r.sm = "DETECT_START_BIT" -> DetectStart(r, high)
    [] r.sm = "DETECT_MID_START_BIT" /\ r.left = 0 ->
         [sm |-> "DETECT_MID_DATA_BIT", left |-> m_baud_time, char |-> 0, pos |-> 0]
    [] r.sm = "DETECT_MID_DATA_BIT" /\ r.left = 0 ->
         [sm   |-> IF r.pos = 7 THEN "STOP_BIT" ELSE r.sm, left |-> m_baud_time,
          char |-> r.char + (IF high THEN 2^r.pos ELSE 0), pos |-> r.pos + 1]
    [] r.sm = "STOP_BIT" /\ r.left = 0 -> [r EXCEPT !.sm = "DETECT_START_BIT"]
    [] OTHER -> r

Aged(r, d) == [r EXCEPT !.left = IF @ > d THEN @ - d ELSE 0]

Adds(r) == r.sm = "STOP_BIT" /\ r.left = 0

\* Newline ends the string; m_q takes it.
add_char(r, s, lines) ==
  CASE Adds(r) /\ r.char = Newline -> [str |-> <<>>, q |-> Append(lines, Append(s, r.char))]
    [] Adds(r) /\ r.char # Newline -> [str |-> Append(s, r.char), q |-> lines]
    [] OTHER -> [str |-> s, q |-> lines]
-----------------------------------------------------------------------------
(* The loop of main: the design, UartSim, and perhaps get_string.          *)

\* The times until the next things happen.
Waits ==
  (IF frame.state = "sending" THEN {e - frame.t : e \in {e \in Edges : e > frame.t}} ELSE {})
  \cup (IF frame.state = "idle" /\ fifo # <<>> /\ dl > 0 THEN {Enable} ELSE {})
  \cup (IF hold > 0 THEN {hold} ELSE {})
  \cup (IF rx.left > 0 THEN {rx.left} ELSE {})
  \cup (IF \/ frame.state = "undriven" \/ rx.sm = "IDLE"
           \/ (rx.sm = "DETECT_START_BIT" /\ ~Line(frame)) THEN {1} ELSE {})

\* The time that passes, one turn when nothing will happen.
Elapse == IF Waits = {} THEN {1} ELSE {Min(Waits)}

\* Mutation: the halt line is printed as well.
HandOnAll(line) == shown' = Append(shown, line) /\ done' = (riscof /\ line = HALT)

\* riscof mode ends at the halt line, board mode sends every line to the page.
HandOn(line) ==
  /\ done' = (riscof /\ line = HALT)
  /\ shown' = IF done' THEN shown ELSE Append(shown, line)

get_string(lines) ==
  IF lines = <<>> THEN UNCHANGED <<shown, done>> /\ q' = lines
                  ELSE HandOn(Head(lines)) /\ q' = Tail(lines)

Turn(reads) ==
  /\ ~done
  /\ \E d \in Elapse :
       /\ Transmit(d)
       /\ rx' = uart_tick(Aged(rx, d), Line(frame'))
       /\ \E added \in {add_char(Aged(rx, d), str, q)} :
            /\ str' = added.str
            /\ IF reads THEN get_string(added.q)
                        ELSE q' = added.q /\ UNCHANGED <<shown, done>>
  /\ UNCHANGED <<program, riscof>>

\* In riscof mode every turn reads a line, in board mode one in a million,
\* and only while a page is connected.
MainLoop == Turn(TRUE) \/ (~riscof /\ Turn(FALSE))

\* The process has ended.
Exit == done /\ UNCHANGED vars

Next == InitWrite \/ uart_write_str \/ MainLoop \/ Exit

\* The program and the simulation go on; a page stays connected.
Fairness == /\ WF_vars(InitWrite) /\ WF_vars(uart_write_str)
            /\ WF_vars(Turn(TRUE))

Spec == Init /\ [][Next]_vars /\ Fairness
=============================================================================
