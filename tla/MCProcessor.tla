---- MODULE MCProcessor ----
(***************************************************************************)
(* Values of the constants for TLC.  Programs are families: every sequence *)
(* of a given length over an alphabet of instructions, between a prologue  *)
(* that sets up the CSRs and a halting loop, with a trap handler at 40.    *)
(***************************************************************************)
EXTENDS ProcessorProperties, Asm, SequencesExt

MCRegIds == 0 .. 3
\* x2 holds the address of the handler.
MCRegs(x1, x2, x3) == [r \in MCRegIds |-> <<0, x1, x2, x3>>[r + 1]]
MCInitRegs == {MCRegs(4, 40, 20)}
\* x3 holds the enable bits of the external and the timer interrupt.
IntRegs == {MCRegs(4, 40, 2176)}
MCInitMems == {[w \in 0 .. MemWords - 1 |-> 12]}
Low == {FALSE}
Free == BOOLEAN

\* Handler: skip the instruction that trapped, then return.
SkipHandler == <<Csr("csrrs", 3, "mepc", 0), I("addi", 3, 3, 4),
                 Csr("csrrw", 0, "mepc", 3), Sys("mret")>>
\* Handler: return to the instruction that was interrupted.
RetryHandler == <<Csr("csrrs", 3, "mcause", 0), Sys("mret")>>

Image(main, handler) ==
    [w \in 0 .. RomWords - 1 |->
        IF w < Len(main) THEN main[w + 1]
        ELSE IF w \in 10 .. 9 + Len(handler) THEN handler[w - 9]
        ELSE Halt]

Family(prologue, alphabet, n, handler) ==
    {Image(prologue \o body, handler) : body \in [1 .. n -> alphabet]}

SetMtvec == Csr("csrrw", 0, "mtvec", 2)

\* Computation, memory, control flow and CSR accesses without traps.  The loop
\* that addi and bne can form is taken three times and then left.
MixAlphabet ==
    {R("add", 2, 1, 3), I("addi", 1, 1, 4), R("mul", 1, 2, 2), R("divu", 1, 2, 1),
     I("lw", 1, 0, 4), I("lw", 2, 3, 0), Sw(1, 0, 4), Sw(2, 3, 0),
     B("beq", 1, 2, 8), B("bne", 1, 3, -4), Jal(1, 8), I("jalr", 2, 1, 4),
     I("auipc", 1, 0, 4), Csr("csrrw", 2, "mscratch", 1), Csr("csrrs", 1, "mscratch", 2)}
MixPrograms == Family(<<>>, MixAlphabet, 3, SkipHandler)

\* Exceptions of every kind that leaves M at once, among other instructions.
ExceptionAlphabet ==
    {Sys("ecall"), Sys("ebreak"), Sys("illegal"), Sys("zero"), Jal(1, 6),
     I("jalr", 1, 0, 6), B("beq", 0, 0, 10), B("beq", 0, 0, 8), B("bne", 1, 0, 8),
     R("divu", 2, 2, 1), I("lw", 1, 0, 4), Sw(2, 0, 4), Csr("csrrs", 1, "mepc", 0),
     Csr("csrrsi", 0, "mstatus", 0)}
TrapPrologue == <<SetMtvec, CsrI("csrrwi", 0, "mstatus", 8)>>
ExceptionPrograms == Family(TrapPrologue, ExceptionAlphabet, 3, SkipHandler)
\* With and without traps.
AllPrograms == MixPrograms \cup ExceptionPrograms

\* Everything that can stall or hold the pipeline, for slaves that take varying times:
\* no division right before an instruction that reads its operands in another cycle
\* than its first in E, none behind an exception.
UsesUnforwarded(i) == i.op \in {"jalr", "divu"} \cup CsrRegOps
WaitBodies ==
    {b \in [1 .. 2 -> MixAlphabet] : ~(b[1].op = "divu" /\ UsesUnforwarded(b[2]))}
WaitPrograms ==
    {Image(b, SkipHandler) : b \in WaitBodies}
    \cup Family(TrapPrologue, {j \in ExceptionAlphabet : j.op # "divu"}, 2, SkipHandler)

\* Interrupts into computation and control flow.
EnableInterrupts ==
    <<SetMtvec, Csr("csrrw", 0, "mie", 3), CsrI("csrrwi", 0, "mstatus", 8), Nop>>
InterruptAlphabet ==
    {R("add", 1, 2, 3), I("auipc", 2, 0, 4), B("beq", 1, 1, 8), B("bne", 1, 2, -4),
     Jal(1, 8), I("jalr", 2, 0, 20), R("mul", 1, 2, 2)}
InterruptPrograms == Family(EnableInterrupts, InterruptAlphabet, 2, RetryHandler)

\* Single programs in which the pipeline departs from the hart.
Scenario(main, handler) == {Image(main, handler)}
MisalignedLoad == Scenario(<<SetMtvec, CsrI("csrrwi", 0, "mstatus", 8), I("lw", 1, 0, 2)>>, SkipHandler)
InterruptedStore == Scenario(EnableInterrupts \o <<Sw(1, 0, 4)>>, RetryHandler)
InterruptedDivision == Scenario(EnableInterrupts \o <<R("divu", 1, 3, 1)>>, RetryHandler)
TrapBeforeDivision == Scenario(<<SetMtvec, Sys("ecall"), R("divu", 1, 2, 1)>>, SkipHandler)
InterruptedCsr == Scenario(EnableInterrupts \o <<Csr("csrrw", 1, "mscratch", 1)>>, RetryHandler)
CountedLoad == Scenario(<<I("lw", 1, 0, 4)>>, RetryHandler)
MisalignedBranch == Scenario(<<SetMtvec, B("beq", 0, 0, 6), Nop>>, <<Nop, Sys("mret")>>)
====
