--------------------------- MODULE UartProperties ---------------------------
(***************************************************************************)
(* What the serial line promises: every character the program writes comes *)
(* out once, in order and unchanged, in lines, until the halt line.        *)
(***************************************************************************)
EXTENDS Uart

Written == FlattenSeq(text)

\* Type invariant; the FIFO holds one character at most.
TypeOK ==
  /\ pc \in 1..Len(uart_init) + 1 /\ rest \in Seq(1..255)
  /\ lcr \in 0..255 /\ dl \in 0..27 /\ hold \in 0..143 * 54
  /\ fifo \in BoundedSeq(1..255, 1)
  /\ frame \in [state : {"undriven", "idle", "sending"}, char : 0..255, t : Nat]
  /\ frame.t <= 8640
  /\ rx \in [sm : {"IDLE", "DETECT_START_BIT", "DETECT_MID_START_BIT",
                   "DETECT_MID_DATA_BIT", "STOP_BIT"},
             left : 0..m_baud_time, char : 0..255, pos : 0..8]
  /\ str \in Seq(1..255) /\ q \in Seq(Seq(1..255)) /\ shown \in Seq(Seq(1..255))
  /\ riscof \in BOOLEAN /\ done \in BOOLEAN
-----------------------------------------------------------------------------
\* The frame still counts as under way until the receiver has added it.
UnderWay ==
  IF frame.state = "sending" /\ ~(rx.sm = "DETECT_START_BIT" /\ frame.t >= Lead + BitTime)
  THEN <<frame.char>> ELSE <<>>

Arrived == FlattenSeq(shown) \o (IF done THEN HALT ELSE <<>>) \o FlattenSeq(q) \o str

\* What has arrived, what is on the line, what the FIFO holds and what is left
\* to write make up the text: no character is lost, doubled, altered or sent
\* by the initialisation (uart_lib.c, uart.cpp).
CharsConserved == Arrived \o UnderWay \o fifo \o rest = Written

\* The type invariant, and every character accounted for.
Inv == TypeOK /\ CharsConserved

\* UartSim takes bit k of a character in the middle half of bit k of the
\* frame, although its bit time is not the transmitter's (8680 and 8640 ns).
SamplesMidBit ==
  [][rx'.pos > rx.pos =>
       LET into == frame'.t - Lead - BitTime * rx'.pos
       IN  /\ frame'.state = "sending"
           /\ 4 * into >= BitTime /\ 4 * into <= 3 * BitTime]_vars
-----------------------------------------------------------------------------
\* A character ends a line or lengthens it.
Joined(text_so_far, char) ==
  LET line == Append(text_so_far.line, char)
  IN  IF char = Newline THEN [lines |-> Append(text_so_far.lines, line), line |-> <<>>]
                        ELSE [text_so_far EXCEPT !.line = line]

\* The lines that the first n characters end, and the one that they begin.
Cut(s) ==
  LET cut[n \in 0..Len(s)] == IF n = 0 THEN [lines |-> <<>>, line |-> <<>>]
                                       ELSE Joined(cut[n - 1], s[n])
  IN  cut

Lines == Cut(Written)[Len(Written)].lines

\* The lines main should hand on: in riscof mode those before the halt line.
Expected == IF riscof /\ Contains(Lines, HALT)
            THEN SubSeq(Lines, 1, SelectInSeq(Lines, LAMBDA l : l = HALT) - 1)
            ELSE Lines

\* Lines are handed on whole, once and in order, the halt line and what comes
\* after it never in riscof mode (tb.cpp, the loop of main).
LinesInOrder == IsPrefix(shown, Expected) /\ (done => shown = Expected)

\* Every line is handed on in the end, and the halt line ends the simulation.
TextArrives ==
  /\ <>(shown = Expected)
  /\ (riscof /\ Contains(Lines, HALT)) ~> done
=============================================================================
