---- MODULE Isa ----
(***************************************************************************)
(* Words, instructions and the pure functions of the decode and execute    *)
(* stages: the main decoder with the mul/div decoder, the ALU, the branch  *)
(* check, the target adder and the alignment checks.                       *)
(*                                                                         *)
(* An instruction is a record.  Its rs1, rs2 and rd are the bit fields of  *)
(* the word whatever the format is, as the datapath slices them; imm is    *)
(* the extended immediate (zimm for the csr..i forms).                     *)
(***************************************************************************)
EXTENDS Integers, FiniteSetsExt

CONSTANTS
    XLEN,           \* width of a word, 32 in the RTL
    WordSize,       \* 2^XLEN
    RegIds,         \* register numbers, 0..31 in the RTL
    RomWords,       \* words of instruction memory
    MemWords        \* words of data memory

ASSUME IsaAssumption ==
    /\ XLEN \in Nat
    /\ WordSize \in Nat /\ WordSize >= 8192    \* room for bit 12, the highest of mstatus
    /\ WordSize = 2^XLEN /\ WordSize % 4 = 0
    /\ RegIds \subseteq Nat /\ 0 \in RegIds
    /\ RomWords \in Nat \ {0}
    /\ MemWords \in Nat \ {0}

Word == 0 .. WordSize - 1
Wrap(n) == n % WordSize

\* Bit k of a word, named by its weight 2^k.
Bit(v, weight) == (v \div weight) % 2 = 1
TopBit == WordSize \div 2

AluOps    == {"add", "sub", "addi", "lui"}
LoadOps   == {"lw"}
StoreOps  == {"sw"}
BranchOps == {"beq", "bne"}
CsrRegOps == {"csrrw", "csrrs", "csrrc"}
CsrImmOps == {"csrrwi", "csrrsi", "csrrci"}
CsrOps    == CsrRegOps \cup CsrImmOps
EnvOps    == {"ecall", "ebreak"}
\* "zero" is the all-zero opcode, "illegal" any opcode no case of the decoder
\* names: only the first one clears the decoder's outputs.
IllegalOps == {"zero", "illegal"}
Ops == AluOps \cup LoadOps \cup StoreOps \cup BranchOps \cup CsrOps \cup EnvOps
       \cup IllegalOps \cup {"mul", "divu", "jal", "jalr", "auipc", "mret", "fence"}

CsrNames == {"mstatus", "mie", "mip", "mtvec", "mepc", "mcause", "mtval",
             "mscratch", "minstret", "none"}

Instruction ==
    [op : Ops, rd : RegIds, rs1 : RegIds, rs2 : RegIds, imm : Int, csr : CsrNames]

\* What a cleared pipeline register holds: the zero word.
ZeroInstr == [op |-> "zero", rd |-> 0, rs1 |-> 0, rs2 |-> 0, imm |-> 0, csr |-> "none"]

----
\* Control signals out of the main decoder (out_control).
ResultSources == {"alu", "mem", "pc4", "target"}
Control ==
    [reg_write : BOOLEAN, mem_write : BOOLEAN, result_src : ResultSources,
     branch : BOOLEAN, jump : BOOLEAN, load_instr : BOOLEAN, load_store : BOOLEAN,
     csr_write : BOOLEAN, mret_instr : BOOLEAN, env_call : BOOLEAN]

ZeroControl ==
    [reg_write |-> FALSE, mem_write |-> FALSE, result_src |-> "alu",
     branch |-> FALSE, jump |-> FALSE, load_instr |-> FALSE, load_store |-> FALSE,
     csr_write |-> FALSE, mret_instr |-> FALSE, env_call |-> FALSE]

ResultSource(op) ==
    CASE op \in LoadOps         -> "mem"
      [] op \in {"jal", "jalr"} -> "pc4"
      [] op = "auipc"           -> "target"
      [] OTHER                  -> "alu"

MainDecoder(op) ==
    [reg_write  |-> op \in AluOps \cup LoadOps \cup CsrOps
                           \cup {"mul", "divu", "jal", "jalr", "auipc"},
     mem_write  |-> op \in StoreOps,
     result_src |-> ResultSource(op),
     branch     |-> op \in BranchOps,
     jump       |-> op \in {"jal", "jalr", "mret"},
     load_instr |-> op \in LoadOps,
     load_store |-> op \in LoadOps \cup StoreOps,
     csr_write  |-> op \in CsrOps,
     mret_instr |-> op = "mret",
     env_call   |-> op \in EnvOps]

----
\* The operation the ALU and the multiplier perform on the selected operands.
\* Encodings that leave alu_src as a don't-care add the two registers.
AluResult(op, a, b, imm) ==
    CASE op = "sub"                -> Wrap(a - b)
      [] op \in {"addi", "lw", "sw"} -> Wrap(a + imm)
      [] op = "lui"                -> Wrap(imm)
      [] op = "mul"                -> Wrap(a * b)
      [] OTHER                     -> Wrap(a + b)

\* DIVU, division by zero included: the restoring divider leaves all ones.
Quotient(a, b) == IF b = 0 THEN WordSize - 1 ELSE a \div b

TakeBranch(op, a, b) ==
    \/ op = "beq" /\ a = b
    \/ op = "bne" /\ a # b

\* JALR starts from a register and clears the lowest bit of the sum.
PcTarget(op, base, pc, imm) ==
    IF op = "jalr" THEN LET t == Wrap(base + imm) IN t - (t % 2)
                   ELSE Wrap(pc + imm)

\* Word accesses must be word aligned; jump targets too (there is no C extension).
MisalignedWord(adr)   == Bit(adr, 1) \/ Bit(adr, 2)
MisalignedTarget(adr) == Bit(adr, 2)

\* Word address decoding of the memories: the address wraps at their size.
RomIndex(adr) == (adr \div 4) % RomWords
MemIndex(adr) == (adr \div 4) % MemWords

\* Bitwise operations of the csrrs and csrrc forms, on the bits of a word.
Weights == {2^k : k \in 0 .. XLEN - 1}
BitsOf(v) == {w \in Weights : Bit(v, w)}
WordOf(bits) == MapThenSumSet(LAMBDA w : w, bits)
OrWord(a, b)     == WordOf(BitsOf(a) \cup BitsOf(b))
AndNotWord(a, b) == WordOf(BitsOf(a) \ BitsOf(b))

\* Different bits of a word add up to a word.
ASSUME BitsAssumption == \A bits \in SUBSET Weights : WordOf(bits) \in Word
====
