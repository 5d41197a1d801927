---- MODULE Hart ----
(***************************************************************************)
(* What the pipeline promises: a hart that executes one instruction at a   *)
(* time, in program order, each one completely or not at all.  Exceptions  *)
(* leave mepc at the instruction that raised them; an interrupt is taken   *)
(* between two instructions, with mepc at the one not yet executed.        *)
(***************************************************************************)
EXTENDS CsrFile

VARIABLES
    rom,    \* the program
    pc,     \* address of the next instruction
    x,      \* the registers
    dmem,   \* data memory
    s       \* the CSRs

hartVars == <<rom, pc, x, dmem, s>>

i == rom[RomIndex(pc)]
a == x[i.rs1]
b == x[i.rs2]

Put(rd, v) == IF rd = 0 THEN x ELSE [x EXCEPT ![rd] = v]

\* Control flow: the successor, a taken branch or a jump.
Target == IF i.op = "mret" THEN s.mepc ELSE PcTarget(i.op, a, pc, i.imm)
Redirects == i.op \in {"jal", "jalr", "mret"} \/ TakeBranch(i.op, a, b)
NextPc == IF Redirects THEN Target ELSE Wrap(pc + 4)

\* What stops an instruction from completing, and with which cause and mtval.
Address == AluResult(i.op, a, b, i.imm)
Faults ==
    \/ i.op \in IllegalOps \cup EnvOps
    \/ Redirects /\ MisalignedTarget(Target)
    \/ i.op \in LoadOps \cup StoreOps /\ MisalignedWord(Address)
FaultCause ==
    CASE i.op \in IllegalOps -> 2
      [] i.op = "ecall"      -> 11
      [] i.op = "ebreak"     -> 3
      [] i.op \in LoadOps    -> 4
      [] i.op \in StoreOps   -> 6
      [] OTHER               -> 0
FaultValue ==
    CASE i.op \in IllegalOps           -> 0
      [] i.op \in EnvOps               -> pc
      [] i.op \in LoadOps \cup StoreOps -> Address
      [] OTHER -> PcTarget(i.op, a, pc, i.imm)

EnterTrap(pending, intr, code, val) ==
    /\ pc' = s.mtvec - (s.mtvec % 4)
    /\ s' = [pending EXCEPT !.mie = FALSE, !.mpie = s.mie, !.mepc = pc,
                            !.interrupt = intr, !.code = code, !.mtval = val]
    /\ UNCHANGED <<rom, x, dmem>>

Exception == Faults /\ EnterTrap(s, FALSE, FaultCause, FaultValue)

\* An external interrupt goes first; mtval is left unspecified.
Interrupt(ext, timer) ==
    /\ s.mie
    /\ ext \/ timer
    /\ ext => s.meie
    /\ timer => s.mtie
    /\ s'.mtval \in Word
    /\ EnterTrap([s EXCEPT !.meip = @ \/ ext, !.mtip = @ \/ timer],
                 TRUE, IF ext THEN 11 ELSE 7, s'.mtval)

----
\* The instructions that complete.
Compute ==
    /\ i.op \in AluOps \cup {"mul", "divu", "jal", "jalr", "auipc"}
    /\ x' = Put(i.rd, CASE i.op \in {"jal", "jalr"} -> Wrap(pc + 4)
                        [] i.op = "auipc" -> Target
                        [] i.op = "divu"  -> Quotient(a, b)
                        [] OTHER          -> Address)
    /\ UNCHANGED <<dmem, s>>

Load ==
    /\ i.op \in LoadOps
    /\ x' = Put(i.rd, dmem[MemIndex(Address)])
    /\ UNCHANGED <<dmem, s>>

Store ==
    /\ i.op \in StoreOps
    /\ dmem' = [dmem EXCEPT ![MemIndex(Address)] = b]
    /\ UNCHANGED <<x, s>>

NoEffect ==
    /\ i.op \in BranchOps \cup {"fence"}
    /\ UNCHANGED <<x, dmem, s>>

Return ==
    /\ i.op = "mret"
    /\ s' = [s EXCEPT !.mie = s.mpie, !.mpie = TRUE]
    /\ UNCHANGED <<x, dmem>>

SetCsr(name, v) ==
    CASE name = "mstatus"  -> [s EXCEPT !.mie = Bit(v, 8)]
      [] name = "mie"      -> [s EXCEPT !.meie = Bit(v, 2048), !.mtie = Bit(v, 128),
                                        !.msie = Bit(v, 8)]
      [] name = "mip"      -> [s EXCEPT !.meip = Bit(v, 2048), !.mtip = Bit(v, 128),
                                        !.msip = Bit(v, 8)]
      [] name = "mtvec"    -> [s EXCEPT !.mtvec = v]
      [] name = "mepc"     -> [s EXCEPT !.mepc = v - (v % 2)]
      [] name = "mtval"    -> [s EXCEPT !.mtval = v]
      [] name = "mscratch" -> [s EXCEPT !.mscratch = v]
      [] OTHER             -> s

AccessCsr ==
    /\ i.op \in CsrOps
    /\ LET old == ReadCsr(s, 0, i.csr)
       IN /\ x' = Put(i.rd, old)
          /\ s' = SetCsr(i.csr, WriteCsr(i.op, old, a, i.imm))
    /\ UNCHANGED dmem

Complete ==
    /\ ~Faults
    /\ Compute \/ Load \/ Store \/ NoEffect \/ Return \/ AccessCsr
    /\ pc' = NextPc
    /\ UNCHANGED rom

HartNext == Complete \/ Exception \/ \E ext, timer \in BOOLEAN : Interrupt(ext, timer)

HartSafety == [][HartNext]_hartVars
====
