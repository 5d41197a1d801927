---- MODULE Divider ----
(***************************************************************************)
(* div.vhd step by step: the shift-and-subtract division of DIV, DIVU, REM *)
(* and REMU, with the edge detector that starts it, next to the execute    *)
(* stage that holds the operands until the result is there.  One step is   *)
(* one rising edge; flush is flush_e, which resets the unit at any time.   *)
(***************************************************************************)
EXTENDS Integers

CONSTANTS
    Width,          \* width of an operand, 32 in the RTL
    Operands        \* values that the operands take

\* 2^n, the weight of bit n.
Pow2[n \in Nat] == IF n = 0 THEN 1 ELSE 2 * Pow2[n - 1]

ASSUME DividerAssumption ==
    /\ Width \in Nat \ {0}
    /\ Operands \subseteq 0 .. Pow2[Width] - 1

VARIABLES
    e,              \* what the execute stage holds; done while it reads the result
    first_reg, second_reg,                          \* the edge detector
    div_busy, dividend, divisor, quotient, mask, invert_result, div_result,
    expected        \* history: the result of the operands last latched

unit == <<div_busy, dividend, divisor, quotient, mask, invert_result, div_result, expected>>
vars == <<e, first_reg, second_reg, unit>>

Functs == {"div", "divu", "rem", "remu"}
Base == Pow2[Width]
Half == Pow2[Width - 1]
Operand == 0 .. Base - 1

\* Two's complement, as the unit uses it.
Sign(v) == v >= Half

Negated(v) == (Base - v) % Base

SignedOp(funct3) == funct3 \in {"div", "rem"}
Magnitude(funct3, v) == IF Sign(v) /\ SignedOp(funct3) THEN Negated(v) ELSE v

\* Mutation: the sign of a division by zero follows the operands.
InvertOnSigns(funct3, a, b) ==
    \/ funct3 = "div" /\ Sign(a) # Sign(b)
    \/ funct3 = "rem" /\ Sign(a)

InvertResult(funct3, a, b) ==
    \/ funct3 = "div" /\ Sign(a) # Sign(b) /\ b # 0
    \/ funct3 = "rem" /\ Sign(a)

----
\* The M extension: the quotient is rounded towards zero and the remainder has the
\* sign of the dividend; by zero they are all ones and the dividend.
Signed(v) == IF Sign(v) THEN v - Base ELSE v
Size(n) == IF n < 0 THEN -n ELSE n
Rounded(x, y) == CHOOSE q \in -Base .. Base :
    /\ Size(x - q * y) < Size(y)
    /\ x - q * y # 0 => (x - q * y < 0) = (x < 0)
Reference(funct3, a, b) ==
    LET x == IF SignedOp(funct3) THEN Signed(a) ELSE a
        y == IF SignedOp(funct3) THEN Signed(b) ELSE b
        q == IF b = 0 THEN -1 ELSE Rounded(x, y)
    IN (IF funct3 \in {"div", "divu"} THEN q ELSE x - q * y) % Base

----
NoDivision == [div_instr |-> FALSE, a |-> 0, b |-> 0, funct3 |-> "div", done |-> FALSE]

Init ==
    /\ e = NoDivision
    /\ first_reg = FALSE /\ second_reg = FALSE
    /\ div_busy = FALSE /\ invert_result = FALSE
    /\ dividend = 0 /\ divisor = 0 /\ quotient = 0 /\ mask = 0
    /\ div_result = 0 /\ expected = 0


\* Mutation: the level of div_start instead of its edge.
StartOnLevel == first_reg

start == first_reg /\ ~second_reg

\* Mutation: completion while the last bit is still to be found.
CompletedEarly == div_busy /\ mask = 1

div_completed == div_busy /\ mask = 0

Detect(flush) ==
    /\ first_reg' = (~flush /\ e.div_instr)
    /\ second_reg' = (~flush /\ first_reg)

Flush ==
    /\ div_busy' = FALSE
    /\ UNCHANGED <<dividend, divisor, quotient, mask, invert_result, div_result, expected>>

Start ==
    /\ start
    /\ div_busy' = TRUE
    /\ invert_result' = InvertResult(e.funct3, e.a, e.b)
    /\ dividend' = Magnitude(e.funct3, e.a)
    /\ divisor' = Magnitude(e.funct3, e.b) * Half
    /\ quotient' = 0
    /\ mask' = Half
    /\ expected' = Reference(e.funct3, e.a, e.b)
    /\ UNCHANGED div_result

Complete ==
    /\ ~start /\ div_completed
    /\ div_busy' = FALSE
    /\ LET magnitude == IF e.funct3 \in {"div", "divu"} THEN quotient ELSE dividend
       IN div_result' = IF invert_result THEN Negated(magnitude) ELSE magnitude
    /\ UNCHANGED <<dividend, divisor, quotient, mask, invert_result, expected>>

\* quotient or mask.
WithBit(q, m) == IF (q \div m) % 2 = 1 THEN q ELSE q + m

Fits == divisor <= dividend

Shift ==
    /\ ~start /\ div_busy /\ mask # 0
    /\ dividend' = IF Fits THEN dividend - (divisor % Base) ELSE dividend
    /\ quotient' = IF Fits THEN WithBit(quotient, mask) ELSE quotient
    /\ divisor' = divisor \div 2
    /\ mask' = mask \div 2
    /\ UNCHANGED <<div_busy, invert_result, div_result, expected>>

Rest == ~start /\ ~div_busy /\ UNCHANGED unit

\* div_pending holds the stage up to and including the cycle of div_completed.
Release == div_completed

\* The execute stage: empty, or a division with its operands, which leaves after
\* the cycle that reads the result.  No instruction follows it at once.
Execute(flush) ==
    \/ flush /\ e' = NoDivision
    \/ /\ ~flush /\ ~e.div_instr
       /\ \/ e' = NoDivision
          \/ \E a, b \in Operands, funct3 \in Functs :
                e' = [div_instr |-> TRUE, a |-> a, b |-> b, funct3 |-> funct3, done |-> FALSE]
    \/ ~flush /\ e.div_instr /\ ~e.done /\ e' = [e EXCEPT !.done = Release]
    \/ ~flush /\ e.div_instr /\ e.done /\ e' = NoDivision

Cycle(flush) ==
    /\ Detect(flush)
    /\ Execute(flush)
    /\ \/ flush /\ Flush
       \/ ~flush /\ (Start \/ Complete \/ Shift \/ Rest)

Tick == \E flush \in BOOLEAN : Cycle(flush)

\* The clock does not stop; a flush may come at any edge and need not come at all.
Spec == Init /\ [][Tick]_vars /\ WF_vars(Cycle(FALSE))

----
TypeOK ==
    /\ e \in [div_instr : BOOLEAN, a : Operand, b : Operand, funct3 : Functs, done : BOOLEAN]
    /\ first_reg \in BOOLEAN /\ second_reg \in BOOLEAN
    /\ div_busy \in BOOLEAN /\ invert_result \in BOOLEAN
    /\ dividend \in Operand /\ quotient \in Operand
    /\ div_result \in Operand /\ expected \in Operand
    /\ divisor \in 0 .. Base * Half
    /\ mask \in 0 .. Half

\* After each shift the dividend is what the quotient so far leaves of it, the
\* remaining bits can still express the rest, and no bit is set twice (div.vhd).
Restoring ==
    div_busy =>
        LET a == Magnitude(e.funct3, e.a)
            b == Magnitude(e.funct3, e.b)
            unit_of_next == IF mask = 0 THEN 1 ELSE 2 * mask
        IN /\ a = quotient * b + dividend
           /\ quotient % unit_of_next = 0
           /\ b # 0 => dividend < b * unit_of_next

\* What leaves the execute stage is the result that the M extension prescribes for
\* the operands it holds, whatever was flushed or computed before (div.vhd).
ResultIsReference == e.done => div_result = Reference(e.funct3, e.a, e.b)

\* What holds at every edge: the registers have their ranges, a division under way
\* is half done, and one that is over has the right result.
Inv == TypeOK /\ Restoring /\ ResultIsReference

\* The unit promises the pipeline what module DivUnit says: completion after one
\* cycle for each bit, and then the result that the M extension prescribes.
BitsLeft == CHOOSE n \in 0 .. Width : mask = Pow2[n] \div 2
Abstract == INSTANCE DivUnit WITH
    XLEN <- Width, WordSize <- Base, RegIds <- {0}, RomWords <- 1, MemWords <- 1,
    DivSteps <- Width,
    div <- [first |-> first_reg, second |-> second_reg, busy |-> div_busy,
            left |-> BitsLeft, quotient |-> expected, result |-> div_result]
ImplementsDivUnit ==
    /\ Abstract!DivInit
    /\ [][\E flush \in BOOLEAN :
            Abstract!DivNext(flush, e.div_instr, Reference(e.funct3, e.a, e.b))]_vars

\* A division leaves the execute stage, with its result or flushed: the start pulse
\* is not missed when another division was in the stage before (edge_detector.vhd).
Answered == e.div_instr ~> ~e.div_instr
====
