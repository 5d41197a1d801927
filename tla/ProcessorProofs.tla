---- MODULE ProcessorProofs ----
(***************************************************************************)
(* The processor, for every word size, program, memory and timing of the   *)
(* slaves: its registers keep their types, the stages hold what the        *)
(* program has at their pc, neighbouring stages never hold two             *)
(* instructions, a trap empties the pipeline, and under the conditions     *)
(* each theorem names, operands are current, interrupts have victims, the  *)
(* data port works for the instruction in M, and the whole implements the  *)
(* hart (last section).                                                    *)
(***************************************************************************)
EXTENDS ProcessorProperties, Arithmetic

-----------------------------------------------------------------------------
(***************************************************************************)
(* The types of the pure functions of Isa and CsrFile.                     *)
(***************************************************************************)

LEMMA WordFacts ==
    /\ WordSize \in Nat /\ WordSize >= 8192
    /\ Word = 0 .. WordSize - 1
    /\ Word \subseteq Nat
    /\ 0 \in Word
BY IsaAssumption DEF Word

LEMMA WrapType == \A n \in Int : Wrap(n) \in Word
BY IsaAssumption DEF Wrap, Word

LEMMA NextPcType == \A pc \in Word : Wrap(pc + 4) \in Word
<1> SUFFICES ASSUME NEW pc \in Word PROVE Wrap(pc + 4) \in Word
  OBVIOUS
<1>1. pc + 4 \in Int
  BY WordFacts
<1> QED
  BY <1>1, WrapType

LEMMA RomIndexType == \A adr \in Word : RomIndex(adr) \in 0 .. RomWords - 1
BY IsaAssumption DEF RomIndex, Word

LEMMA MemIndexType == \A adr \in Word : MemIndex(adr) \in 0 .. MemWords - 1
BY IsaAssumption DEF MemIndex, Word

\* Clearing the low bits of an address.
LEMMA AlignType == \A v \in Word : v - (v % 2) \in Word /\ v - (v % 4) \in Word
<1> SUFFICES ASSUME NEW v \in Word PROVE v - (v % 2) \in Word /\ v - (v % 4) \in Word
  OBVIOUS
<1>1. v \in Nat /\ v < WordSize
  BY WordFacts
<1>2. v % 2 \in 0 .. 1 /\ v % 2 <= v /\ v % 4 \in 0 .. 3 /\ v % 4 <= v
  BY <1>1
<1> QED
  BY <1>1, <1>2, WordFacts

LEMMA QuotientType == \A a, b \in Word : Quotient(a, b) \in Word
<1> SUFFICES ASSUME NEW a \in Word, NEW b \in Word PROVE Quotient(a, b) \in Word
  OBVIOUS
<1>1. CASE b = 0
  BY <1>1, WordFacts DEF Quotient
<1>2. CASE b # 0
  <2>1. a \in Nat /\ a < WordSize /\ b \in Nat /\ b > 0
    BY <1>2, WordFacts
  <2>2. a \div b \in Nat /\ a \div b <= a
    BY <2>1
  <2> QED
    BY <1>2, <2>1, <2>2, WordFacts DEF Quotient
<1> QED
  BY <1>1, <1>2

LEMMA AluResultType ==
    ASSUME NEW op, NEW a \in Word, NEW b \in Word, NEW imm \in Int
    PROVE  AluResult(op, a, b, imm) \in Word
<1>1. a \in Int /\ b \in Int
  BY WordFacts
<1>2. a - b \in Int /\ a + imm \in Int /\ a * b \in Int /\ a + b \in Int
  BY <1>1
<1>3. /\ Wrap(a - b) \in Word /\ Wrap(a + imm) \in Word /\ Wrap(imm) \in Word
      /\ Wrap(a * b) \in Word /\ Wrap(a + b) \in Word
  BY <1>2, WrapType
<1> QED
  BY <1>3, Zenon DEF AluResult

LEMMA PcTargetType ==
    ASSUME NEW op, NEW base \in Word, NEW pc \in Word, NEW imm \in Int
    PROVE  PcTarget(op, base, pc, imm) \in Word
<1>1. Wrap(base + imm) \in Word /\ Wrap(pc + imm) \in Word
  BY WordFacts, WrapType
<1> QED
  BY <1>1, AlignType DEF PcTarget

LEMMA ResultSourceType == \A op : ResultSource(op) \in ResultSources
BY Zenon DEF ResultSource, ResultSources

LEMMA MainDecoderType == \A op : MainDecoder(op) \in Control
BY ResultSourceType DEF MainDecoder, Control

LEMMA ZeroTypes == ZeroControl \in Control /\ ZeroInstr \in Instruction
<1>1. ZeroControl \in Control
  BY DEF ZeroControl, Control, ResultSources
<1>2. ZeroInstr \in Instruction
  BY IsaAssumption DEF ZeroInstr, Instruction, Ops, IllegalOps, CsrNames
<1> QED
  BY <1>1, <1>2

LEMMA BitwiseTypes == \A a, b : OrWord(a, b) \in Word /\ AndNotWord(a, b) \in Word
BY BitsAssumption DEF OrWord, AndNotWord, BitsOf

LEMMA WriteCsrType ==
    ASSUME NEW op, NEW old \in Word, NEW reg \in Word, NEW imm \in Int
    PROVE  WriteCsr(op, old, reg, imm) \in Word
<1>1. Wrap(imm) \in Word /\ 0 \in Word
  BY WrapType, WordFacts
<1> QED
  BY <1>1, BitwiseTypes, Zenon DEF WriteCsr

LEMMA ReadCsrType ==
    ASSUME NEW c \in CsrFile, NEW n \in Nat, NEW name \in CsrNames
    PROVE  ReadCsr(c, n, name) \in Word
<1>1. 6144 + Weighted(c.mpie, 128) + Weighted(c.mie, 8) \in Word
  BY WordFacts DEF Weighted
<1>2. Weighted(c.meie, 2048) + Weighted(c.mtie, 128) + Weighted(c.msie, 8) \in Word
  BY WordFacts DEF Weighted
<1>3. Weighted(c.meip, 2048) + Weighted(c.mtip, 128) + Weighted(c.msip, 8) \in Word
  BY WordFacts DEF Weighted
<1>4. Weighted(c.interrupt, TopBit) + c.code \in Word
  <2>1. TopBit \in Nat /\ TopBit + 15 < WordSize
    BY WordFacts DEF TopBit
  <2>2. c.code \in 0 .. 15
    BY DEF CsrFile
  <2>3. Weighted(c.interrupt, TopBit) \in {TopBit, 0}
    BY DEF Weighted
  <2>4. Weighted(c.interrupt, TopBit) \in Nat
        /\ Weighted(c.interrupt, TopBit) <= TopBit
    BY <2>1, <2>3
  <2> DEFINE t == TopBit
             w == Weighted(c.interrupt, TopBit)
  <2> HIDE DEF t, w
  <2>5. t \in Nat /\ t + 15 < WordSize /\ w \in Nat /\ w <= t
    BY <2>1, <2>4 DEF t, w
  <2>6. w + c.code \in 0 .. WordSize - 1
    BY <2>2, <2>5, WordFacts
  <2> QED
    BY <2>6, WordFacts DEF w
<1>5. c.mtvec \in Word /\ c.mepc \in Word /\ c.mtval \in Word /\ c.mscratch \in Word
  BY DEF CsrFile
<1>6. Wrap(n) \in Word /\ 0 \in Word
  BY WrapType, WordFacts
<1> QED
  BY <1>1, <1>2, <1>3, <1>4, <1>5, <1>6 DEF ReadCsr, CsrValues, CsrNames

-----------------------------------------------------------------------------
(***************************************************************************)
(* The type invariant of the processor: one lemma for each group of        *)
(* registers that changes together.                                        *)
(***************************************************************************)

\* The pieces of TypeOK.
MemoryTypes ==
    /\ rom \in [0 .. RomWords - 1 -> Instruction]
    /\ mem \in [0 .. MemWords - 1 -> Word]
    /\ regs \in [RegIds -> Word]
FetchWaitType == {0} \cup UNION {0 .. n : n \in FetchWaits}
DataWaitType == {0} \cup UNION {0 .. n : n \in DataWaits}
IPortType == [state : PortStates, adr : Word, wait : FetchWaitType]
DPortType == [state : PortStates, adr : Word, we : BOOLEAN, data : Word, wait : DataWaitType]

\* Signals.
LEMMA ResultType == TypeOK => result_w \in Word
<1> SUFFICES ASSUME TypeOK PROVE result_w \in Word
  OBVIOUS
<1>1. W.alu_result \in Word /\ W.read_data \in Word /\ W.pc_target \in Word /\ W.pc \in Word
  BY DEF TypeOK, StageW
<1>2. Wrap(W.pc + 4) \in Word
  BY <1>1, NextPcType
<1>3. W.control.result_src \in {"alu", "mem", "pc4", "target"}
  BY DEF TypeOK, StageW, Control, ResultSources
<1> QED
  BY <1>1, <1>2, <1>3, Zenon DEF result_w

LEMMA RegFileType == TypeOK => RegFile \in [RegIds -> Word]
BY ResultType DEF TypeOK, RegFile

LEMMA OperandTypes == TypeOK => src_a_e \in Word /\ src_b_e \in Word
<1> SUFFICES ASSUME TypeOK PROVE src_a_e \in Word /\ src_b_e \in Word
  OBVIOUS
<1>1. M.alu_result \in Word /\ result_w \in Word /\ E.rd1 \in Word /\ E.rd2 \in Word
  BY ResultType DEF TypeOK, StageM, StageE
<1>2. \A rs, rd : rd \in Word => Operand(rs, rd) \in Word
  BY <1>1, Zenon DEF Operand
<1> QED
  BY <1>1, <1>2 DEF src_a_e, src_b_e

LEMMA TargetTypes ==
    TypeOK => pc_target_e \in Word /\ jump_pc_target_e \in Word /\ pc_plus4_e \in Word
<1> SUFFICES ASSUME TypeOK
             PROVE  pc_target_e \in Word /\ jump_pc_target_e \in Word /\ pc_plus4_e \in Word
  OBVIOUS
<1>1. E.rd1 \in Word /\ E.pc \in Word /\ E.instr.imm \in Int
  BY DEF TypeOK, StageE, Instruction
<1>2. csr.mepc \in Word
  BY DEF TypeOK, CsrTypeOK, CsrFile
<1>3. Wrap(E.pc + 4) \in Word
  BY <1>1, NextPcType
<1> QED
  BY <1>1, <1>2, <1>3, PcTargetType DEF pc_target_e, jump_pc_target_e, pc_plus4_e

LEMMA ReadCsrEType == TypeOK => read_csr_e \in Word
<1> SUFFICES ASSUME TypeOK PROVE read_csr_e \in Word
  OBVIOUS
<1>1. csr \in CsrFile /\ minstret \in Nat /\ E.instr.csr \in CsrNames
  BY CsrAssumption DEF TypeOK, CsrTypeOK, StageE, Instruction
<1> QED
  BY <1>1, ReadCsrType DEF read_csr_e

LEMMA ExecuteOutputType == TypeOK => data_output_from_execute \in Word
<1> SUFFICES ASSUME TypeOK PROVE data_output_from_execute \in Word
  OBVIOUS
<1>1. AluResult(E.instr.op, src_a_e, src_b_e, E.instr.imm) \in Word
  <2>1. E.instr.imm \in Int
    BY DEF TypeOK, StageE, Instruction
  <2> QED
    BY <2>1, OperandTypes, AluResultType
<1>2. div.result \in Word
  BY DEF TypeOK, DivTypeOK
<1> QED
  BY <1>1, <1>2, ReadCsrEType DEF data_output_from_execute

LEMMA ReadDataType == TypeOK => read_data_m \in Word
<1> SUFFICES ASSUME TypeOK PROVE read_data_m \in Word
  OBVIOUS
<1>1. mem[MemIndex(dport.adr)] \in Word
  BY MemIndexType DEF TypeOK
<1> QED
  BY <1>1, ProcessorAssumption DEF read_data_m

LEMMA InstrFType == TypeOK => instr_f \in Instruction
BY RomIndexType DEF TypeOK, instr_f

LEMMA ControlDType == TypeOK => control_d \in Control
BY MainDecoderType DEF TypeOK, control_d

\* The stages.
LEMMA PcStep == TypeOK /\ Tick => pc_f' \in Word
<1> SUFFICES ASSUME TypeOK, Tick PROVE pc_f' \in Word
  OBVIOUS
<1>1. TrapJumpAddr(csr) \in Word
  BY AlignType DEF TypeOK, CsrTypeOK, CsrFile, TrapJumpAddr
<1>2. pc_f \in Word /\ Wrap(pc_f + 4) \in Word
  BY NextPcType DEF TypeOK
<1>3. PredictedPc(pc_f) \in Word
  <2>1. BpIndex(pc_f) \in 0 .. BpEntries - 1
    BY <1>2, WordFacts, BpAssumption DEF BpIndex
  <2> QED
    BY <2>1 DEF TypeOK, BpTypeOK, PredictedPc
<1>4. pc_next_f \in Word
  BY <1>1, <1>2, <1>3, TargetTypes DEF pc_next_f
<1> QED
  BY <1>2, <1>4 DEF Tick, PcRegister

LEMMA DecodeStep == TypeOK /\ Tick => D' \in StageD
BY InstrFType, ZeroTypes, WordFacts DEF TypeOK, Tick, DecodeRegister, BubbleD, StageD

LEMMA ExecuteStep == TypeOK /\ Tick => E' \in StageE
<1> SUFFICES ASSUME TypeOK, Tick PROVE E' \in StageE
  OBVIOUS
<1>1. D.valid \in BOOLEAN /\ D.instr \in Instruction /\ D.pc \in Word
  BY DEF TypeOK, StageD
<1>2. rs1_d \in RegIds /\ rs2_d \in RegIds
  BY <1>1 DEF rs1_d, rs2_d, Instruction
<1>3. RegFile[rs1_d] \in Word /\ RegFile[rs2_d] \in Word /\ 0 \in Word
  BY <1>2, RegFileType, WordFacts
<1>4. illegal_instruction_d \in BOOLEAN
  BY <1>1 DEF illegal_instruction_d
<1>5. BubbleE \in StageE
  BY ZeroTypes, WordFacts DEF BubbleE, StageE
<1> QED
  BY <1>1, <1>3, <1>4, <1>5, ControlDType DEF TypeOK, Tick, ExecuteRegister, StageE

LEMMA MemoryStep == TypeOK /\ Tick => M' \in StageM
<1> SUFFICES ASSUME TypeOK, Tick PROVE M' \in StageM
  OBVIOUS
<1>1. /\ E.valid \in BOOLEAN /\ E.instr \in Instruction /\ E.pc \in Word
      /\ E.control \in Control /\ E.illegal_instruction \in BOOLEAN /\ E.rd1 \in Word
  BY DEF TypeOK, StageE
<1>2. misaligned_pc_e \in BOOLEAN
  BY DEF misaligned_pc_e
<1>3. WriteCsr(E.instr.op, read_csr_e, E.rd1, E.instr.imm) \in Word
  <2>1. E.instr.imm \in Int
    BY <1>1 DEF Instruction
  <2> QED
    BY <1>1, <2>1, ReadCsrEType, WriteCsrType
<1>4. BubbleM \in StageM
  BY ZeroTypes, WordFacts DEF BubbleM, StageM
<1> QED
  BY <1>1, <1>2, <1>3, <1>4, ExecuteOutputType, OperandTypes, TargetTypes
     DEF TypeOK, Tick, MemoryRegister, StageM

LEMMA WritebackStep == TypeOK /\ Tick => W' \in StageW
<1> SUFFICES ASSUME TypeOK, Tick PROVE W' \in StageW
  OBVIOUS
<1>1. /\ load_misaligned_m \in BOOLEAN /\ store_misaligned_m \in BOOLEAN
      /\ interrupt_external_m \in BOOLEAN /\ interrupt_timer_m \in BOOLEAN
  BY DEF load_misaligned_m, store_misaligned_m, interrupt_external_m, interrupt_timer_m,
         EdgeDetected, MisalignedWord, TypeOK, StageM, Control
<1> QED
  BY <1>1, ReadDataType DEF TypeOK, Tick, WritebackRegister, ToWriteback, StageM, StageW

\* Memories and ports.
LEMMA MemoriesStep == TypeOK /\ Tick => MemoryTypes'
<1> SUFFICES ASSUME TypeOK, Tick PROVE MemoryTypes'
  OBVIOUS
<1>1. rom' \in [0 .. RomWords - 1 -> Instruction]
  BY DEF TypeOK, Tick
<1>2. mem' \in [0 .. MemWords - 1 -> Word]
  BY DEF TypeOK, Tick, DataMemory
<1>3. regs' \in [RegIds -> Word]
  BY RegFileType DEF Tick, RegisterFile
<1> QED
  BY <1>1, <1>2, <1>3 DEF MemoryTypes

LEMMA InstructionPortStep == TypeOK /\ Tick => iport' \in IPortType
<1> SUFFICES ASSUME TypeOK, Tick PROVE iport' \in IPortType
  OBVIOUS
<1>0. iport \in IPortType /\ pc_f \in Word
  BY DEF TypeOK, IPortType, FetchWaitType
<1>1. CASE iport.state = "IDLE"
  <2>1. PICK n \in FetchWaits : iport' = [state |-> "ACTIVE", adr |-> pc_f, wait |-> n]
    BY <1>1 DEF Tick, InstructionPort
  <2>2. n \in FetchWaitType
    BY ProcessorAssumption DEF FetchWaitType
  <2> QED
    BY <1>0, <2>1, <2>2 DEF IPortType, PortStates
<1>2. CASE iport.state # "IDLE"
  <2>1. ~instruction_ack => iport.wait - 1 \in FetchWaitType
    BY <1>0, <1>2, ProcessorAssumption DEF IPortType, PortStates, instruction_ack, FetchWaitType
  <2>2. 0 \in FetchWaitType
    BY DEF FetchWaitType
  <2>3. iport' = [state |-> IF instruction_ack THEN "IDLE" ELSE "ACTIVE",
                  adr |-> iport.adr,
                  wait |-> IF instruction_ack THEN 0 ELSE iport.wait - 1]
    BY <1>2 DEF Tick, InstructionPort
  <2> QED
    BY <1>0, <2>1, <2>2, <2>3 DEF IPortType, PortStates
<1> QED
  BY <1>1, <1>2

LEMMA DataPortStep == TypeOK /\ Tick => dport' \in DPortType
<1> SUFFICES ASSUME TypeOK, Tick PROVE dport' \in DPortType
  OBVIOUS
<1>0. dport \in DPortType
  BY DEF TypeOK, DPortType, DataWaitType
<1>1. CASE dport.state = "IDLE" /\ d_valid
  <2>1. PICK n \in DataWaits :
          dport' = [state |-> "ACTIVE", adr |-> M.alu_result, we |-> d_we,
                    data |-> M.write_data, wait |-> n]
    BY <1>1 DEF Tick, DataPort
  <2>2. n \in DataWaitType
    BY ProcessorAssumption DEF DataWaitType
  <2>3. d_we \in BOOLEAN
    BY DEF d_we, TypeOK, StageM, Control
  <2> QED
    BY <2>1, <2>2, <2>3 DEF TypeOK, StageM, DPortType, PortStates
<1>2. CASE dport.state = "IDLE" /\ ~d_valid
  BY <1>0, <1>2 DEF Tick, DataPort, DPortType
<1>3. CASE dport.state # "IDLE" /\ data_ack
  BY <1>0, <1>3 DEF Tick, DataPort, DPortType, PortStates
<1>4. CASE dport.state # "IDLE" /\ ~data_ack
  <2>1. dport.wait - 1 \in DataWaitType
    BY <1>0, <1>4, ProcessorAssumption DEF DPortType, PortStates, data_ack, DataWaitType
  <2> QED
    BY <1>0, <1>4, <2>1 DEF Tick, DataPort, DPortType
<1> QED
  BY <1>1, <1>2, <1>3, <1>4

\* CSR unit, predictor, divider and hazard unit.
LEMMA CsrStep == TypeOK /\ Tick => CsrTypeOK'
<1> SUFFICES ASSUME TypeOK, Tick PROVE CsrTypeOK'
  OBVIOUS
<1>1. /\ W.pc \in Word /\ W.write_csr \in Word /\ W.pc_target \in Word /\ W.alu_result \in Word
      /\ W.control \in Control
      /\ W.interrupt_external \in BOOLEAN /\ W.interrupt_timer \in BOOLEAN
  BY DEF TypeOK, StageW
<1>2. csr \in CsrFile /\ minstret \in 0 .. CounterSize - 1
  BY DEF TypeOK, CsrTypeOK
<1>3. CsrAfter(csr, W) \in CsrFile
  <2>1. NextMstatus(csr, W).mie \in BOOLEAN /\ NextMstatus(csr, W).mpie \in BOOLEAN
    BY <1>2 DEF NextMstatus, CsrFile, Bit
  <2>2. TrapCause(W) \in 0 .. 15
    BY DEF TrapCause
  <2>3. AddrExcept(W) \in Word
    BY <1>1 DEF AddrExcept
  <2>4. W.pc - (W.pc % 2) \in Word /\ W.write_csr - (W.write_csr % 2) \in Word /\ 0 \in Word
    BY <1>1, AlignType, WordFacts
  <2>5. IsException(W) \in BOOLEAN /\ \A weight : Bit(W.write_csr, weight) \in BOOLEAN
    BY DEF IsException, Bit
  <2> DEFINE next == CsrAfter(csr, W)
  <2>6. next.mie \in BOOLEAN /\ next.mpie \in BOOLEAN
    BY <2>1 DEF CsrAfter
  <2>7. next.meip \in BOOLEAN /\ next.mtip \in BOOLEAN /\ next.msip \in BOOLEAN
    BY DEF CsrAfter, NextPending, Bit
  <2>8. next.meie \in BOOLEAN /\ next.mtie \in BOOLEAN /\ next.msie \in BOOLEAN
    BY <1>2, <2>5 DEF CsrAfter, CsrFile
  <2>9. next.mtvec \in Word /\ next.mepc \in Word /\ next.mtval \in Word /\ next.mscratch \in Word
    BY <1>1, <1>2, <2>3, <2>4 DEF CsrAfter, CsrFile
  <2>10. next.interrupt \in BOOLEAN /\ next.code \in 0 .. 15
    BY <1>2, <2>2, <2>5 DEF CsrAfter, CsrFile
  <2>11. next = [mie |-> next.mie, mpie |-> next.mpie,
                 meie |-> next.meie, mtie |-> next.mtie, msie |-> next.msie,
                 meip |-> next.meip, mtip |-> next.mtip, msip |-> next.msip,
                 mtvec |-> next.mtvec, mepc |-> next.mepc, mtval |-> next.mtval,
                 mscratch |-> next.mscratch, interrupt |-> next.interrupt, code |-> next.code]
    BY DEF CsrAfter
  <2> HIDE DEF next
  <2> QED
    BY <2>6, <2>7, <2>8, <2>9, <2>10, <2>11 DEF CsrFile, next
<1>4. MinstretAfter(minstret, W) \in 0 .. CounterSize - 1
  BY <1>1, <1>2, WordFacts, CsrAssumption DEF MinstretAfter
<1>5. edge_external' \in EdgeRegs /\ edge_timer' \in EdgeRegs
  BY DEF TypeOK, CsrTypeOK, EdgeRegs, Tick, CsrNext, Sample, IntrExternalAsync, IntrTimerAsync
<1> QED
  BY <1>3, <1>4, <1>5 DEF Tick, CsrNext, CsrTypeOK

LEMMA BpStep == TypeOK /\ Tick => BpTypeOK(Word)'
<1> SUFFICES ASSUME TypeOK, Tick PROVE BpTypeOK(Word)'
  OBVIOUS
<1>1. E.pc \in Nat
  BY WordFacts DEF TypeOK, StageE
<1>2. BpIndex(E.pc) \in 0 .. BpEntries - 1
  BY <1>1, BpAssumption DEF BpIndex
<1>3. BpTag(E.pc) \in 0 .. BpTags - 1
  BY <1>1, BpAssumption DEF BpTag
<1>4. bp[BpIndex(E.pc)].counter \in 0 .. 3
  BY <1>2 DEF TypeOK, BpTypeOK
<1>5. NextCounter(E.pc, take_branch_e) \in 0 .. 3
  BY <1>4 DEF NextCounter
<1> QED
  BY <1>2, <1>3, <1>5, TargetTypes DEF TypeOK, Tick, BpNext, BpTypeOK

LEMMA DivStep == TypeOK /\ Tick => DivTypeOK'
<1> SUFFICES ASSUME TypeOK, Tick PROVE DivTypeOK'
  OBVIOUS
<1>1. Quotient(src_a_e, src_b_e) \in Word
  BY OperandTypes, QuotientType
<1>2. div \in [first : BOOLEAN, second : BOOLEAN, busy : BOOLEAN,
               left : 0 .. DivSteps, quotient : Word, result : Word]
  BY DEF TypeOK, DivTypeOK
<1>3. div.left # 0 => div.left - 1 \in 0 .. DivSteps
  BY <1>2, DivAssumption
<1>4. DivSteps \in 0 .. DivSteps
  BY DivAssumption
<1> QED
  BY <1>1, <1>2, <1>3, <1>4 DEF Tick, DivNext, DivTypeOK, DivStart

LEMMA HazardStep == TypeOK /\ Tick => HazardTypeOK'
BY DEF TypeOK, HazardTypeOK, Tick, HazardUnitNext, IgnoreHandshakeNext, CsrPendingNext,
       DivPendingNext, PendingExceptionFNext, PendingExceptionMNext

LEMMA TypeStutter == TypeOK /\ UNCHANGED vars => TypeOK'
BY DEF vars, csrRegs, hazardRegs, TypeOK, CsrTypeOK, BpTypeOK, DivTypeOK, HazardTypeOK

LEMMA TypeInit == Init => TypeOK
<1> SUFFICES ASSUME Init PROVE TypeOK
  OBVIOUS
<1>1. MemoryTypes
  BY ProcessorAssumption DEF Init, MemoryTypes
<1>2. pc_f \in Word /\ D \in StageD /\ E \in StageE /\ M \in StageM /\ decoder_latch \in Control
  BY ZeroTypes, WordFacts
     DEF Init, BubbleD, BubbleE, BubbleM, StageD, StageE, StageM
<1>3. W \in StageW
  BY ZeroTypes, WordFacts DEF Init, ToWriteback, BubbleM, StageW
<1>4. iport \in IPortType /\ dport \in DPortType
  BY WordFacts DEF Init, IPortType, DPortType, PortStates, FetchWaitType, DataWaitType
<1>5. CsrTypeOK
  BY WordFacts, CsrAssumption DEF Init, CsrInit, CsrTypeOK, ResetCsr, CsrFile, EdgeRegs
<1>6. BpTypeOK(Word)
  <2>1. 0 \in 0 .. BpTags - 1 /\ 0 \in 0 .. 3 /\ 0 \in Word
    BY WordFacts, BpAssumption
  <2> QED
    BY <2>1 DEF Init, BpInit, BpTypeOK
<1>7. DivTypeOK
  BY WordFacts, DivAssumption DEF Init, DivInit, DivTypeOK
<1>8. HazardTypeOK
  BY DEF Init, HazardInit, HazardTypeOK
<1> QED
  BY <1>1, <1>2, <1>3, <1>4, <1>5, <1>6, <1>7, <1>8
     DEF TypeOK, MemoryTypes, IPortType, DPortType, FetchWaitType, DataWaitType

\* Every register of the design holds a value of its type in every cycle, for all
\* programs, memories, bus timings and uses of the interrupt lines.
THEOREM TypeCorrect == Spec => []TypeOK
<1>1. TypeOK /\ [Tick]_vars => TypeOK'
  BY PcStep, DecodeStep, ExecuteStep, MemoryStep, WritebackStep, MemoriesStep,
     InstructionPortStep, DataPortStep, CsrStep, BpStep, DivStep, HazardStep, TypeStutter,
     ControlDType
     DEF TypeOK, MemoryTypes, IPortType, DPortType, FetchWaitType, DataWaitType,
         Tick, DecoderLatch
<1> QED
  BY TypeInit, <1>1, PTL DEF Spec

-----------------------------------------------------------------------------
(***************************************************************************)
(* What the stages hold is what the program has at their pc, for every     *)
(* program, every timing of the slaves and every use of the interrupt      *)
(* lines; and a trap empties the pipeline.                                 *)
(***************************************************************************)

\* The instruction port.  FetchConsistent is inductive once the port is known to
\* be in one of its two states.
PortState == iport.state \in PortStates

FetchInv == PortState /\ FetchConsistent

\* An answer is accepted only if it is the one to the request for pc_f.
LEMMA AckOfPc ==
    ASSUME FetchConsistent, ~waiting_on_instruction, ~pending_exception_m
    PROVE  iport.adr = pc_f
BY DEF FetchConsistent, waiting_on_instruction, InstrMemHandshake, instruction_ack

\* While nothing is accepted, the pc moves only with a jump or a trap, and the
\* registers of the hazard unit remember that the fetch in flight is stale.
LEMMA PcHeld ==
    ASSUME Tick, waiting_on_instruction, ~instruction_ack,
           ~ignore_instr_mem_handshake', ~pending_exception_m'
    PROVE  /\ pc_f' = pc_f
           /\ ~ignore_instr_mem_handshake
           /\ ~pending_exception_m
<1>1. /\ ~ignore_instr_mem_handshake /\ ~jump_instr /\ ~TrapW
      /\ ~is_instr_exception_m /\ ~pending_exception_m
  BY DEF Tick, HazardUnitNext, IgnoreHandshakeNext, PendingExceptionMNext, is_instr_exception_w
<1>2. stall_f
  BY DEF stall_f, StallF
<1>3. ~(pc_src_e /\ ~is_instr_exception_e /\ ~load_misaligned_m /\ ~store_misaligned_m)
  BY <1>1 DEF jump_instr, JumpInstr, is_instr_exception_w
<1> QED
  BY <1>1, <1>2, <1>3 DEF Tick, PcRegister

LEMMA FetchStep == FetchInv /\ [Tick]_vars => FetchInv'
<1> SUFFICES ASSUME FetchInv, [Tick]_vars PROVE FetchInv'
  OBVIOUS
<1>1. CASE Tick
  <2>1. PortState'
    BY <1>1 DEF Tick, InstructionPort, PortState, PortStates
  <2>2. FetchConsistent'
    <3> SUFFICES ASSUME iport'.state = "ACTIVE", ~ignore_instr_mem_handshake', ~pending_exception_m'
                 PROVE  iport'.adr = pc_f'
      BY DEF FetchConsistent
    <3>1. CASE iport.state = "IDLE"
      <4>1. ~instruction_ack /\ waiting_on_instruction
        BY <3>1 DEF instruction_ack, waiting_on_instruction, InstrMemHandshake
      <4>2. pc_f' = pc_f
        BY <1>1, <4>1, PcHeld
      <4> QED
        BY <1>1, <3>1, <4>2 DEF Tick, InstructionPort
    <3>2. CASE iport.state = "ACTIVE"
      <4>1. iport'.adr = iport.adr /\ ~instruction_ack
        BY <1>1, <3>2 DEF Tick, InstructionPort
      <4>2. waiting_on_instruction
        BY <4>1 DEF waiting_on_instruction, InstrMemHandshake
      <4>3. pc_f' = pc_f /\ ~ignore_instr_mem_handshake /\ ~pending_exception_m
        BY <1>1, <4>1, <4>2, PcHeld
      <4> QED
        BY <3>2, <4>1, <4>3 DEF FetchInv, FetchConsistent
    <3> QED
      BY <3>1, <3>2 DEF FetchInv, PortState, PortStates
  <2> QED
    BY <2>1, <2>2 DEF FetchInv
<1>2. CASE UNCHANGED vars
  BY <1>2 DEF vars, hazardRegs, FetchInv, PortState, FetchConsistent
<1> QED
  BY <1>1, <1>2

LEMMA FetchInvariant == Spec => []FetchInv
<1>1. Init => FetchInv
  BY DEF Init, FetchInv, PortState, PortStates, FetchConsistent
<1> QED
  BY <1>1, FetchStep, PTL DEF Spec

\* The fetch in flight is for the current pc, or its answer will be dropped
\* (hazard_unit.vhd, ignore_instr_mem_handshake).
THEOREM FetchIsConsistent == Spec => []FetchConsistent
<1>1. FetchInv => FetchConsistent
  BY DEF FetchInv
<1> QED
  BY <1>1, FetchInvariant, PTL

\* The stages.
LEMMA StagesStep == FetchInv /\ StagesHoldProgram /\ [Tick]_vars => StagesHoldProgram'
<1> SUFFICES ASSUME FetchInv, StagesHoldProgram, [Tick]_vars PROVE StagesHoldProgram'
  OBVIOUS
<1>1. CASE Tick
  <2>0. rom' = rom
    BY <1>1 DEF Tick
  <2>1. D'.valid => D'.instr = rom[RomIndex(D'.pc)]
    <3>1. CASE flush_d
      BY <1>1, <3>1 DEF Tick, DecodeRegister, BubbleD
    <3>2. CASE ~flush_d /\ ~stall_d
      <4>1. iport.adr = pc_f
        BY <3>2, AckOfPc DEF flush_d, FlushD, FetchInv
      <4> QED
        BY <1>1, <3>2, <4>1 DEF Tick, DecodeRegister, instr_f
    <3>3. CASE ~flush_d /\ stall_d
      BY <1>1, <3>3 DEF Tick, DecodeRegister, StagesHoldProgram
    <3> QED
      BY <3>1, <3>2, <3>3
  <2>2. E'.valid => E'.instr = rom[RomIndex(E'.pc)]
    BY <1>1 DEF Tick, ExecuteRegister, BubbleE, StagesHoldProgram
  <2>3. M'.valid_pc => M'.instr = rom[RomIndex(M'.pc)]
    BY <1>1 DEF Tick, MemoryRegister, BubbleM, StagesHoldProgram
  <2>4. W'.valid_pc => W'.instr = rom[RomIndex(W'.pc)]
    BY <1>1 DEF Tick, WritebackRegister, ToWriteback, StagesHoldProgram
  <2> QED
    BY <2>0, <2>1, <2>2, <2>3, <2>4 DEF StagesHoldProgram, RomIndex
<1>2. CASE UNCHANGED vars
  BY <1>2 DEF vars, StagesHoldProgram, RomIndex
<1> QED
  BY <1>1, <1>2

\* No instruction is ever paired with a pc it was not fetched from
\* (datapath.vhd, register_decode and the registers after it).
THEOREM InstructionsComeFromProgram == Spec => []StagesHoldProgram
<1>1. Init => StagesHoldProgram
  BY DEF Init, StagesHoldProgram, BubbleD, BubbleE, BubbleM, ToWriteback
<1> QED
  BY <1>1, FetchInvariant, StagesStep, PTL DEF Spec

\* Traps.

\* pending_exception_m is up in the cycle in which the trap is taken.
TrapFlagged == TrapW => pending_exception_m

LEMMA TrapFlaggedStep == TrapFlagged /\ [Tick]_vars => TrapFlagged'
<1> SUFFICES ASSUME TrapFlagged, [Tick]_vars PROVE TrapFlagged'
  OBVIOUS
<1>1. CASE Tick
  <2>1. TrapW' <=> is_instr_exception_m
    BY <1>1 DEF Tick, WritebackRegister, ToWriteback, TrapW, TrapCaught, IsException,
                is_instr_exception_m
  <2>2. is_instr_exception_m => pending_exception_m'
    BY <1>1 DEF Tick, HazardUnitNext, PendingExceptionMNext
  <2> QED
    BY <2>1, <2>2 DEF TrapFlagged
<1>2. CASE UNCHANGED vars
  BY <1>2 DEF vars, hazardRegs, TrapFlagged, TrapW, TrapCaught, IsException
<1> QED
  BY <1>1, <1>2

LEMMA TrapStep == TrapFlagged /\ [Tick]_vars =>
    [TrapW => ~D'.valid /\ ~E'.valid /\ ~M'.valid_pc]_vars
<1> SUFFICES ASSUME TrapFlagged, Tick, TrapW
             PROVE  ~D'.valid /\ ~E'.valid /\ ~M'.valid_pc
  OBVIOUS
<1>1. flush_d /\ flush_e /\ flush_m
  BY DEF TrapFlagged, flush_d, flush_e, flush_m, FlushD, FlushE, FlushM
<1> QED
  BY <1>1 DEF Tick, DecodeRegister, ExecuteRegister, MemoryRegister, BubbleD, BubbleE, BubbleM

\* Nothing younger than a trapping instruction survives its trap
\* (hazard_unit.vhd, flush_d, flush_e and flush_m).
THEOREM TrapsEmptyThePipeline == Spec => TrapEmptiesPipeline
<1>1. Init => TrapFlagged
  BY DEF Init, TrapFlagged, TrapW, TrapCaught, IsException, ToWriteback, BubbleM, ZeroControl
<1> QED
  BY <1>1, TrapFlaggedStep, TrapStep, PTL DEF Spec, TrapEmptiesPipeline

-----------------------------------------------------------------------------
(***************************************************************************)
(* Neighbouring stages never hold two instructions, whatever the program   *)
(* and the timing of the slaves, as long as a fetch takes at least one     *)
(* wait cycle; so without divisions the operands that are not forwarded    *)
(* are the right ones.                                                     *)
(***************************************************************************)

\* The inductive invariant.

\* Controls that access no memory, write no CSR, jump nowhere and call nobody.
Quiet(control) ==
    /\ ~control.load_store /\ ~control.load_instr /\ ~control.mem_write
    /\ ~control.csr_write /\ ~control.env_call /\ ~control.jump /\ ~control.branch

\* Empty stages ask for nothing, raise no exception and have no pc.
Bubbles ==
    /\ ~D.valid => D.instr = ZeroInstr /\ D.pc = 0
    /\ ~E.valid => Quiet(E.control) /\ ~E.illegal_instruction /\ E.pc = 0
    /\ ~M.valid_pc => Quiet(M.control) /\ ~M.illegal_instruction /\ ~M.instr_addr_misaligned

\* A division reaches E with the controls of a division.
DivisionsInE ==
    E.instr.op = "divu" => ~E.control.load_store /\ ~E.control.csr_write

\* The port has just answered when D fills, so D is alone and moves on.
DecodeAlone ==
    D.valid => /\ iport.state = "IDLE"
               /\ ~E.valid /\ ~M.control.load_store
               /\ ~csr_pending /\ ~div_pending

\* When D's instruction is in E the next request is out and not yet answered;
\* only a division stays in E longer than that.
ExecuteAlone ==
    E.valid => /\ ~M.valid_pc
               /\ E.instr.op # "divu" =>
                    ~div_pending /\ iport.state = "ACTIVE" /\ iport.wait # 0

\* The divider does not work while an access waits in M.
NoAccessUnderDivision == div_pending => ~M.control.load_store

\* What D reads from the register file lacks the result of a division at most.
OnlyDivisionsAhead ==
    /\ D.valid /\ M.valid_pc => M.instr.op = "divu"
    /\ E.valid /\ W.valid_pc => W.instr.op = "divu"

SpacingInv ==
    /\ Bubbles
    /\ DivisionsInE
    /\ DecodeAlone
    /\ ExecuteAlone
    /\ NoAccessUnderDivision
    /\ OnlyDivisionsAhead

\* What the decoder gives.
LEMMA DecoderOfBubble == Quiet(MainDecoder("zero"))
BY DEF Quiet, MainDecoder, LoadOps, StoreOps, BranchOps, CsrOps, CsrRegOps, CsrImmOps, EnvOps

LEMMA ZeroControlQuiet == Quiet(ZeroControl)
BY DEF Quiet, ZeroControl

LEMMA DecoderOfDivision ==
    ~MainDecoder("divu").load_store /\ ~MainDecoder("divu").csr_write
BY DEF MainDecoder, LoadOps, StoreOps, CsrOps, CsrRegOps, CsrImmOps

\* The stages under the invariant.

\* An instruction in D is not held there.
LEMMA DecodeMovesOn ==
    ASSUME SpacingInv, D.valid
    PROVE  ~lw_stall_d /\ ~stall_m /\ ~stall_e /\ ~stall_d
           /\ waiting_on_instruction
<1>1. ~E.control.load_instr
  BY DEF SpacingInv, DecodeAlone, Bubbles, Quiet
<1>2. ~instruction_ack
  BY DEF SpacingInv, DecodeAlone, instruction_ack
<1> QED
  BY <1>1, <1>2 DEF SpacingInv, DecodeAlone, lw_stall_d, LwStall, load_instr_e, stall_m, StallM,
     load_store_m, stall_e, StallE, stall_d, StallD, waiting_on_instruction, InstrMemHandshake

\* D fills only when no instruction but a division is in E and none waits.
LEMMA DecodeFills ==
    ASSUME SpacingInv, Tick, D'.valid
    PROVE  /\ instruction_ack /\ ~D.valid
           /\ ~stall_m /\ ~div_pending /\ ~csr_pending
           /\ ~E.control.load_store /\ ~E.control.csr_write
           /\ E.valid => E.instr.op = "divu"
<1>1. ~flush_d
  BY DEF Tick, DecodeRegister, BubbleD
<1>2. ~stall_d
  <2> SUFFICES ASSUME stall_d PROVE FALSE
    OBVIOUS
  <2>1. D.valid
    BY <1>1 DEF Tick, DecodeRegister
  <2> QED
    BY <2>1, DecodeMovesOn
<1>3. ~waiting_on_instruction
  BY <1>1, <1>2 DEF flush_d, FlushD
<1>4. instruction_ack
  BY <1>3 DEF waiting_on_instruction, InstrMemHandshake
<1>5. ~D.valid
  BY <1>3, DecodeMovesOn
<1>6. ~stall_m /\ ~div_pending /\ ~csr_pending
  BY <1>2 DEF stall_d, StallD, stall_e, StallE
<1>7. ~E.control.load_store /\ ~E.control.csr_write
  <2>1. CASE E.valid
    BY <1>4, <2>1 DEF SpacingInv, ExecuteAlone, DivisionsInE, instruction_ack
  <2>2. CASE ~E.valid
    BY <2>2 DEF SpacingInv, Bubbles, Quiet
  <2> QED
    BY <2>1, <2>2
<1>8. E.valid => E.instr.op = "divu"
  BY <1>4 DEF SpacingInv, ExecuteAlone, instruction_ack
<1> QED
  BY <1>4, <1>5, <1>6, <1>7, <1>8

\* E takes D's instruction, keeps a division, or empties.
LEMMA ExecuteCases ==
    ASSUME SpacingInv, Tick, E'.valid
    PROVE  \/ D.valid /\ E'.instr = D.instr /\ E'.control = control_d
           \/ E.valid /\ E.instr.op = "divu" /\ E' = E /\ div_pending /\ ~D.valid
<1>1. ~flush_e
  BY DEF Tick, ExecuteRegister, BubbleE
<1>2. CASE ~stall_e
  BY <1>1, <1>2 DEF Tick, ExecuteRegister
<1>3. CASE stall_e
  <2>1. E' = E
    BY <1>1, <1>3 DEF Tick, ExecuteRegister
  <2>2. E.valid /\ ~D.valid
    BY <2>1 DEF SpacingInv, DecodeAlone
  <2>3. ~stall_m
    BY <2>2 DEF SpacingInv, ExecuteAlone, Bubbles, Quiet, stall_m, StallM, load_store_m
  <2> QED
    BY <1>3, <2>1, <2>2, <2>3 DEF stall_e, StallE, SpacingInv, ExecuteAlone
<1> QED
  BY <1>2, <1>3

LEMMA ControlOfBubble == ASSUME SpacingInv, ~D.valid PROVE Quiet(control_d)
BY DecoderOfBubble DEF SpacingInv, Bubbles, ZeroInstr, control_d

\* Every clock edge preserves the invariant.
LEMMA BubblesStep == SpacingInv /\ Tick => Bubbles'
<1> SUFFICES ASSUME SpacingInv, Tick PROVE Bubbles'
  OBVIOUS
<1>1. ~D'.valid => D'.instr = ZeroInstr /\ D'.pc = 0
  BY DEF Tick, DecodeRegister, BubbleD, SpacingInv, Bubbles
<1>2. ~E'.valid => Quiet(E'.control) /\ ~E'.illegal_instruction /\ E'.pc = 0
  <2>1. ~D.valid => ~illegal_instruction_d
    BY DEF SpacingInv, Bubbles, ZeroInstr, illegal_instruction_d
  <2> QED
    BY <2>1, ControlOfBubble, ZeroControlQuiet DEF Tick, ExecuteRegister, BubbleE, SpacingInv, Bubbles
<1>3. ~M'.valid_pc => Quiet(M'.control) /\ ~M'.illegal_instruction /\ ~M'.instr_addr_misaligned
  <2>1. ~E.valid => ~misaligned_pc_e
    BY DEF SpacingInv, Bubbles, Quiet, misaligned_pc_e, pc_src_e, take_branch_e,
       is_mispredict_ntbranch_e, MispredictNotTaken
  <2> QED
    BY <2>1, ZeroControlQuiet DEF Tick, MemoryRegister, BubbleM, SpacingInv, Bubbles
<1> QED
  BY <1>1, <1>2, <1>3 DEF Bubbles

LEMMA DivisionsInEStep == SpacingInv /\ Tick => DivisionsInE'
<1> SUFFICES ASSUME SpacingInv, Tick, E'.instr.op = "divu"
             PROVE  ~E'.control.load_store /\ ~E'.control.csr_write
  BY DEF DivisionsInE
<1>1. CASE flush_e
  BY <1>1 DEF Tick, ExecuteRegister, BubbleE, ZeroInstr
<1>2. CASE ~flush_e /\ ~stall_e
  <2>1. E'.instr = D.instr /\ E'.control = control_d
    BY <1>2 DEF Tick, ExecuteRegister
  <2> QED
    BY <2>1, DecoderOfDivision DEF control_d
<1>3. CASE ~flush_e /\ stall_e
  BY <1>3 DEF Tick, ExecuteRegister, SpacingInv, DivisionsInE
<1> QED
  BY <1>1, <1>2, <1>3

LEMMA DecodeAloneStep == SpacingInv /\ Tick => DecodeAlone'
<1> SUFFICES ASSUME SpacingInv, Tick, D'.valid
             PROVE  /\ iport'.state = "IDLE"
                    /\ ~E'.valid /\ ~M'.control.load_store
                    /\ ~csr_pending' /\ ~div_pending'
  BY DEF DecodeAlone
<1>1. iport'.state = "IDLE"
  BY DecodeFills DEF Tick, InstructionPort, instruction_ack
<1>2. ~E'.valid
  BY DecodeFills, ExecuteCases
<1>3. ~M'.control.load_store
  BY DecodeFills DEF Tick, MemoryRegister, BubbleM, ZeroControl
<1>4. ~csr_pending'
  BY DecodeFills DEF Tick, HazardUnitNext, CsrPendingNext, csr_instr_e
<1>5. ~div_pending'
  <2>1. ~div_instr_d
    BY DecodeFills DEF SpacingInv, Bubbles, ZeroInstr, div_instr_d
  <2> QED
    BY <2>1, DecodeFills DEF Tick, HazardUnitNext, DivPendingNext
<1> QED
  BY <1>1, <1>2, <1>3, <1>4, <1>5

LEMMA ExecuteAloneStep == SpacingInv /\ Tick => ExecuteAlone'
<1> SUFFICES ASSUME SpacingInv, Tick, E'.valid
             PROVE  /\ ~M'.valid_pc
                    /\ E'.instr.op # "divu" =>
                         ~div_pending' /\ iport'.state = "ACTIVE" /\ iport'.wait # 0
  BY DEF ExecuteAlone
<1>1. CASE D.valid /\ E'.instr = D.instr /\ E'.control = control_d
  <2>1. ~stall_m /\ ~E.valid
    BY <1>1, DecodeMovesOn DEF SpacingInv, DecodeAlone
  <2>2. ~M'.valid_pc
    BY <2>1 DEF Tick, MemoryRegister, BubbleM
  <2>3. iport'.state = "ACTIVE" /\ iport'.wait # 0
    BY <1>1, ProcessorAssumption DEF Tick, InstructionPort, SpacingInv, DecodeAlone
  <2>4. E'.instr.op # "divu" => ~div_pending'
    BY <1>1 DEF Tick, HazardUnitNext, DivPendingNext, div_instr_d, SpacingInv, DecodeAlone
  <2> QED
    BY <2>2, <2>3, <2>4
<1>2. CASE E.valid /\ E.instr.op = "divu" /\ E' = E /\ div_pending
  BY <1>2 DEF Tick, MemoryRegister, flush_m, FlushM, BubbleM
<1> QED
  BY <1>1, <1>2, ExecuteCases

LEMMA NoAccessUnderDivisionStep == SpacingInv /\ Tick => NoAccessUnderDivision'
<1> SUFFICES ASSUME SpacingInv, Tick, div_pending'
             PROVE  ~M'.control.load_store
  BY DEF NoAccessUnderDivision
<1>1. CASE div_pending
  BY <1>1 DEF Tick, MemoryRegister, flush_m, FlushM, BubbleM, ZeroControl
<1>2. CASE div_instr_d
  <2>1. D.valid
    BY <1>2 DEF div_instr_d, SpacingInv, Bubbles, ZeroInstr
  <2>2. ~stall_m /\ ~E.control.load_store
    BY <2>1, DecodeMovesOn DEF SpacingInv, DecodeAlone, Bubbles, Quiet
  <2> QED
    BY <2>2 DEF Tick, MemoryRegister, BubbleM, ZeroControl
<1> QED
  BY <1>1, <1>2 DEF Tick, HazardUnitNext, DivPendingNext

LEMMA OnlyDivisionsAheadStep == SpacingInv /\ Tick => OnlyDivisionsAhead'
<1> SUFFICES ASSUME SpacingInv, Tick PROVE OnlyDivisionsAhead'
  OBVIOUS
<1>1. D'.valid /\ M'.valid_pc => M'.instr.op = "divu"
  BY DecodeFills DEF Tick, MemoryRegister, BubbleM
<1>2. W'.valid_pc = M.valid_pc /\ W'.instr = M.instr
  BY DEF Tick, WritebackRegister, ToWriteback
<1>3. E'.valid /\ W'.valid_pc => W'.instr.op = "divu"
  BY <1>2, ExecuteCases DEF SpacingInv, ExecuteAlone, OnlyDivisionsAhead
<1> QED
  BY <1>1, <1>3 DEF OnlyDivisionsAhead

LEMMA SpacingStutter == SpacingInv /\ UNCHANGED vars => SpacingInv'
BY DEF vars, hazardRegs, SpacingInv, Bubbles, DivisionsInE, DecodeAlone, ExecuteAlone,
       NoAccessUnderDivision, OnlyDivisionsAhead

LEMMA SpacingInvariant == Spec => []SpacingInv
<1>1. Init => SpacingInv
  BY ZeroControlQuiet DEF Init, HazardInit, SpacingInv, Bubbles, DivisionsInE, DecodeAlone, ExecuteAlone,
         NoAccessUnderDivision, OnlyDivisionsAhead, BubbleD, BubbleE, BubbleM, ZeroInstr
<1>2. SpacingInv /\ [Tick]_vars => SpacingInv'
  BY BubblesStep, DivisionsInEStep, DecodeAloneStep, ExecuteAloneStep,
     NoAccessUnderDivisionStep, OnlyDivisionsAheadStep, SpacingStutter DEF SpacingInv
<1> QED
  BY <1>1, <1>2, PTL DEF Spec

\* D and E, or E and M, are never both occupied, and only a division can be in W
\* under an instruction in E: the forwarding path of M, which would be wrong for
\* loads, AUIPC and links, is never taken, whatever the program and the slaves do
\* (hazard_unit.vhd, all of it; processor.vhd, instruction port).
THEOREM PipelineIsSpaced == Spec => []SpacedPipeline
<1>1. SpacingInv => SpacedPipeline
  BY DEF SpacingInv, DecodeAlone, ExecuteAlone, OnlyDivisionsAhead, SpacedPipeline
<1> QED
  BY <1>1, SpacingInvariant, PTL
\* Programs without divisions.
RomChosen == rom \in Programs

LEMMA RomInvariant == Spec => []RomChosen
<1>1. Init => RomChosen
  BY DEF Init, RomChosen
<1>2. RomChosen /\ [Tick]_vars => RomChosen'
  BY DEF Tick, vars, RomChosen
<1> QED
  BY <1>1, <1>2, PTL DEF Spec

LEMMA NoDivisionInStages ==
    ASSUME \A p \in Programs : \A n \in 0 .. RomWords - 1 : p[n].op # "divu",
           TypeOK, StagesHoldProgram, RomChosen
    PROVE  /\ D.valid => D.instr.op # "divu"
           /\ E.valid => E.instr.op # "divu"
           /\ M.valid_pc => M.instr.op # "divu"
           /\ W.valid_pc => W.instr.op # "divu"
<1>1. /\ RomIndex(D.pc) \in 0 .. RomWords - 1 /\ RomIndex(E.pc) \in 0 .. RomWords - 1
      /\ RomIndex(M.pc) \in 0 .. RomWords - 1 /\ RomIndex(W.pc) \in 0 .. RomWords - 1
  BY RomIndexType DEF TypeOK, StageD, StageE, StageM, StageW
<1> QED
  BY <1>1 DEF RomChosen, StagesHoldProgram

\* What JALR and the CSR unit read in D is what the program order says, at any
\* speed of the slaves, if nothing is divided (datapath.vhd, pc_target_src_select
\* and csr_unit).
THEOREM UnforwardedOperandsAreCurrent ==
    ASSUME \A p \in Programs : \A n \in 0 .. RomWords - 1 : p[n].op # "divu"
    PROVE  Spec => []UnforwardedOperandIsCurrent
<1>1. /\ TypeOK /\ StagesHoldProgram /\ SpacedPipeline /\ RomChosen
      => UnforwardedOperandIsCurrent
  BY NoDivisionInStages DEF SpacedPipeline, UnforwardedOperandIsCurrent
<1> QED
  BY <1>1, TypeCorrect, InstructionsComeFromProgram, PipelineIsSpaced, RomInvariant, PTL

-----------------------------------------------------------------------------
(***************************************************************************)
(* In a program without divisions an interrupt always finds an instruction *)
(* to interrupt, at any speed of the slaves and for any use of the lines.  *)
(***************************************************************************)

\* While an exception is being taken E stays empty.
ExceptionEmptiesE == pending_exception_m => ~E.valid

\* A sampled request comes one cycle behind its instruction.
SampledHasVictim == edge_external.first \/ edge_timer.first => M.valid_pc

InterruptInv == ExceptionEmptiesE /\ SampledHasVictim

\* What the stages hold in a program without divisions.
Undivided ==
    /\ SpacingInv
    /\ E.valid => E.instr.op # "divu"
    /\ M.valid_pc => M.instr.op # "divu"

LEMMA ExceptionsAreOfM ==
    ASSUME SpacingInv, InterruptInv, is_instr_exception_m
    PROVE  M.valid_pc
BY DEF is_instr_exception_m, interrupt_external_m, interrupt_timer_m, EdgeDetected,
   InterruptInv, SampledHasVictim, load_misaligned_m, store_misaligned_m,
   SpacingInv, Bubbles, Quiet

LEMMA ExceptionEmptiesEStep == Undivided /\ InterruptInv /\ Tick => ExceptionEmptiesE'
<1> SUFFICES ASSUME Undivided, InterruptInv, Tick, pending_exception_m' PROVE ~E'.valid
  BY DEF ExceptionEmptiesE
<1>1. CASE pending_exception_m
  BY <1>1 DEF Tick, ExecuteRegister, flush_e, FlushE, BubbleE
<1>2. CASE is_instr_exception_m
  <2>1. M.valid_pc
    BY <1>2, ExceptionsAreOfM DEF Undivided
  <2>2. ~D.valid /\ ~E.valid
    BY <2>1 DEF Undivided, SpacingInv, OnlyDivisionsAhead, ExecuteAlone
  <2> QED
    BY <2>2, ExecuteCases DEF Undivided
<1> QED
  BY <1>1, <1>2 DEF Tick, HazardUnitNext, PendingExceptionMNext

LEMMA SampledHasVictimStep == Undivided /\ InterruptInv /\ Tick => SampledHasVictim'
<1> SUFFICES ASSUME Undivided, InterruptInv, Tick, edge_external'.first \/ edge_timer'.first
             PROVE  M'.valid_pc
  BY DEF SampledHasVictim
<1>1. E.valid
  <2>1. E.pc # 0
    <3>1. PICK ext \in ExternalLine, timer \in TimerLine : CsrNext(W, E.pc, ext, timer)
      BY DEF Tick
    <3> QED
      BY <3>1 DEF CsrNext, Sample, IntrExternalAsync, IntrTimerAsync
  <2> QED
    BY <2>1 DEF Undivided, SpacingInv, Bubbles
<1>2. ~flush_m
  BY <1>1 DEF flush_m, FlushM, InterruptInv, ExceptionEmptiesE, Undivided, SpacingInv, ExecuteAlone
<1>3. ~stall_m
  BY <1>1 DEF stall_m, StallM, load_store_m, Undivided, SpacingInv, ExecuteAlone, Bubbles, Quiet
<1> QED
  BY <1>1, <1>2, <1>3 DEF Tick, MemoryRegister

LEMMA InterruptStutter == InterruptInv /\ UNCHANGED vars => InterruptInv'
BY DEF vars, hazardRegs, csrRegs, InterruptInv, ExceptionEmptiesE, SampledHasVictim

\* An interrupt pulse finds in M the instruction whose pc will be mepc
\* (csr_exec.vhd, valid_pc; datapath.vhd, interrupt_external_m); only the
\* divider, which holds its instruction in E, can take it away.
THEOREM InterruptsHaveVictims ==
    ASSUME \A p \in Programs : \A n \in 0 .. RomWords - 1 : p[n].op # "divu"
    PROVE  Spec => []InterruptHasVictim
<1>1. Init => InterruptInv
  BY DEF Init, CsrInit, HazardInit, InterruptInv, ExceptionEmptiesE, SampledHasVictim
<1>2. TypeOK /\ StagesHoldProgram /\ RomChosen /\ SpacingInv => Undivided
  BY NoDivisionInStages DEF Undivided
<1>3. Undivided /\ InterruptInv /\ [Tick]_vars => InterruptInv'
  BY ExceptionEmptiesEStep, SampledHasVictimStep,
     InterruptStutter DEF InterruptInv, Undivided
<1>4. InterruptInv => InterruptHasVictim
  BY DEF InterruptInv, SampledHasVictim, InterruptHasVictim, interrupt_external_m,
         interrupt_timer_m, EdgeDetected
<1> QED
  BY <1>1, <1>2, <1>3, <1>4, TypeCorrect, InstructionsComeFromProgram, RomInvariant,
     SpacingInvariant, PTL DEF Spec

-----------------------------------------------------------------------------
(***************************************************************************)
(* Without interrupts the data port works for the load or store in M and   *)
(* for no other instruction, whatever the program and the slaves do.       *)
(***************************************************************************)

NoInterrupts == ~edge_external.first /\ ~edge_timer.first

\* The flag of an exception does not outlive its instruction in M.
OnlyExceptingStays ==
    pending_exception_m /\ M.control.load_store => is_instr_exception_m

Served ==
    dport.state = "ACTIVE" =>
        /\ ~pending_exception_m /\ ~is_instr_exception_m
        /\ M.control.load_store
        /\ dport.adr = M.alu_result
        /\ dport.we = M.control.mem_write
        /\ dport.we => dport.data = M.write_data

AccessInv ==
    /\ NoInterrupts
    /\ OnlyExceptingStays
    /\ Served

Quieted == ExternalLine = {FALSE} /\ TimerLine = {FALSE}

\* No interrupt is ever sampled.
LEMMA NoInterruptsStep == Quieted /\ Tick => NoInterrupts'
<1> SUFFICES ASSUME Quieted, Tick PROVE NoInterrupts'
  OBVIOUS
<1>1. CsrNext(W, E.pc, FALSE, FALSE)
  <2>1. PICK ext \in ExternalLine, timer \in TimerLine : CsrNext(W, E.pc, ext, timer)
    BY DEF Tick
  <2>2. ext = FALSE /\ timer = FALSE
    BY DEF Quieted
  <2> QED
    BY <2>1, <2>2
<1> QED
  BY <1>1 DEF CsrNext, Sample, IntrExternalAsync, IntrTimerAsync, NoInterrupts

\* Without interrupts, only an instruction raises an exception, and goes on raising
\* it for as long as it stays in M.
LEMMA AccessExceptionsAreOfM ==
    ASSUME SpacingInv, NoInterrupts, is_instr_exception_m
    PROVE  M.valid_pc
BY DEF is_instr_exception_m, interrupt_external_m, interrupt_timer_m, EdgeDetected, NoInterrupts,
   load_misaligned_m, store_misaligned_m, SpacingInv, Bubbles, Quiet

LEMMA HeldExceptions ==
    ASSUME NoInterrupts, NoInterrupts', M' = M
    PROVE  is_instr_exception_m' <=> is_instr_exception_m
BY DEF is_instr_exception_m, interrupt_external_m, interrupt_timer_m, EdgeDetected, NoInterrupts,
   load_misaligned_m, store_misaligned_m

LEMMA OnlyExceptingStaysStep ==
    Quieted /\ SpacingInv /\ AccessInv /\ Tick => OnlyExceptingStays'
<1> SUFFICES ASSUME Quieted, SpacingInv, AccessInv, Tick, pending_exception_m', M'.control.load_store
             PROVE  is_instr_exception_m'
  BY DEF OnlyExceptingStays
<1>1. ~flush_m
  BY ZeroControlQuiet DEF Tick, MemoryRegister, BubbleM, Quiet
<1>2. is_instr_exception_m
  BY <1>1 DEF flush_m, FlushM, Tick, HazardUnitNext, PendingExceptionMNext
<1>3. M.valid_pc
  BY <1>2, AccessExceptionsAreOfM DEF AccessInv
<1>4. ~E.control.load_store
  BY <1>3 DEF SpacingInv, ExecuteAlone, Bubbles, Quiet
<1>5. M' = M
  BY <1>1, <1>4 DEF Tick, MemoryRegister
<1> QED
  BY <1>2, <1>5, HeldExceptions, NoInterruptsStep DEF AccessInv

\* While the access in M is not answered, M keeps it.
LEMMA AccessHeld ==
    ASSUME Quieted, SpacingInv, AccessInv, Tick,
           M.control.load_store, ~is_instr_exception_m, ~data_ack
    PROVE  M' = M /\ ~pending_exception_m' /\ ~is_instr_exception_m'
<1>1. ~pending_exception_m /\ ~div_pending
  BY DEF AccessInv, OnlyExceptingStays, SpacingInv, NoAccessUnderDivision
<1>2. M' = M
  BY <1>1 DEF Tick, MemoryRegister, flush_m, FlushM, stall_m, StallM, load_store_m
<1>3. ~pending_exception_m'
  BY <1>1 DEF Tick, HazardUnitNext, PendingExceptionMNext
<1> QED
  BY <1>2, <1>3, HeldExceptions, NoInterruptsStep DEF AccessInv

LEMMA ServedStep == Quieted /\ TypeOK /\ SpacingInv /\ AccessInv /\ Tick => Served'
<1> SUFFICES ASSUME Quieted, TypeOK, SpacingInv, AccessInv, Tick PROVE Served'
  OBVIOUS
<1>0. dport \in DPortType
  BY DEF TypeOK, DPortType, DataWaitType
<1>1. CASE dport.state = "IDLE" /\ d_valid
  <2>1. M' = M /\ ~pending_exception_m' /\ ~is_instr_exception_m' /\ M.control.load_store
    BY <1>1, AccessHeld DEF d_valid, load_store_m, data_ack
  <2>2. PICK n \in DataWaits :
          dport' = [state |-> "ACTIVE", adr |-> M.alu_result, we |-> d_we,
                    data |-> M.write_data, wait |-> n]
    BY <1>1 DEF Tick, DataPort
  <2>3. d_we <=> M.control.mem_write
    BY <1>1 DEF d_valid, d_we
  <2> QED
    BY <2>1, <2>2, <2>3 DEF Served
<1>2. CASE dport.state = "IDLE" /\ ~d_valid
  BY <1>0, <1>2 DEF Tick, DataPort, Served, DPortType
<1>3. CASE dport.state = "ACTIVE" /\ data_ack
  BY <1>0, <1>3 DEF Tick, DataPort, Served, DPortType
<1>4. CASE dport.state = "ACTIVE" /\ ~data_ack
  <2>1. M' = M /\ ~pending_exception_m' /\ ~is_instr_exception_m'
    BY <1>4, AccessHeld DEF AccessInv, Served
  <2>2. dport' = [dport EXCEPT !.wait = @ - 1]
    BY <1>4 DEF Tick, DataPort
  <2> QED
    BY <1>0, <1>4, <2>1, <2>2 DEF AccessInv, Served, DPortType
<1> QED
  BY <1>0, <1>1, <1>2, <1>3, <1>4 DEF DPortType, PortStates

LEMMA AccessStutter == AccessInv /\ UNCHANGED vars => AccessInv'
BY DEF vars, hazardRegs, csrRegs, AccessInv, NoInterrupts,
       OnlyExceptingStays, Served, is_instr_exception_m, load_misaligned_m, store_misaligned_m,
       interrupt_external_m, interrupt_timer_m, EdgeDetected

\* The ack that M waits for answers the access of the instruction in M: no access
\* outlives its instruction or is taken for another's (core_riscv.vhd, d_valid;
\* processor.vhd, data port).
THEOREM AccessesBelongToM ==
    ASSUME ExternalLine = {FALSE}, TimerLine = {FALSE}
    PROVE  Spec => []AccessBelongsToM
<1>1. Init => AccessInv
  BY ZeroControlQuiet DEF Init, CsrInit, HazardInit, AccessInv, NoInterrupts,
     OnlyExceptingStays, Served, BubbleE, BubbleM
<1>2. TypeOK /\ SpacingInv /\ AccessInv /\ [Tick]_vars => AccessInv'
  BY NoInterruptsStep, OnlyExceptingStaysStep, ServedStep, AccessStutter
     DEF AccessInv, Quieted
<1>3. SpacingInv /\ AccessInv => AccessBelongsToM
  BY DEF AccessInv, Served, AccessBelongsToM, SpacingInv, Bubbles, Quiet
<1> QED
  BY <1>1, <1>2, <1>3, TypeCorrect, SpacingInvariant, PTL DEF Spec

-----------------------------------------------------------------------------
(***************************************************************************)
(* The refinement of Hart.                                                 *)
(*                                                                         *)
(* It is proved for programs without divisions and without accesses of     *)
(* minstret, which Hart does not count, along the executions in which the  *)
(* core meets none of the cases where it is not the hart (Supported).      *)
(*                                                                         *)
(* HartInv says what each stage holds; then every edge is classified by    *)
(* where the oldest instruction is: in W with a trap, in M, in E, or still *)
(* before E.  The hart makes its step at the edge that takes an            *)
(* instruction into M, or that takes an excepting one out of it.           *)
(***************************************************************************)

\* Programs without divisions and minstret.  The offset of JAL is even, as it is encoded;
\* branches lead to words, because the misalignment of a branch target is looked at on a
\* redirection only (datapath.vhd, misaligned_pc_e).
Encodable(i) ==
    /\ i.op # "divu" /\ i.csr # "minstret"
    /\ i.op = "jal" => i.imm % 2 = 0
    /\ i.op \in BranchOps => i.imm % 4 = 0

EncodablePrograms ==
    \A p \in Programs : \A n \in 0 .. RomWords - 1 : Encodable(p[n])

\* What the core must be spared to be the hart.  The pc stays where an entry of the
\* predictor stands for one address (branch_predictor.vhd, the tag).  No load or store
\* excepts in M: held by stall_m, it would reach W again (hazard_unit.vhd).  No
\* interrupt hits a CSR instruction, which is not kept from writing its register, nor
\* an instruction with an exception, whose cause goes before (csr_exec.vhd).
Supported ==
    /\ pc_f < BpEntries * BpTags
    /\ is_instr_exception_m => ~M.control.load_store
    /\ interrupt_external_m \/ interrupt_timer_m =>
         /\ ~M.control.csr_write /\ ~M.control.env_call
         /\ ~M.illegal_instruction /\ ~M.instr_addr_misaligned

\* Empty stages have the controls of no operation.
Emptied ==
    /\ ~E.valid => E.control = ZeroControl
    /\ ~M.valid_pc => M.control = ZeroControl
    /\ ~W.valid_pc => W.control = ZeroControl /\ ~TrapW

\* The controls in E and M are those of the instruction there; the decoder's outputs that
\* an illegal opcode would keep are cleared.
Decoded ==
    /\ ~div_pending
    /\ D.valid => decoder_latch = ZeroControl
    /\ E.valid => /\ E.control = MainDecoder(E.instr.op)
                  /\ E.illegal_instruction <=> E.instr.op \in IllegalOps
    /\ M.valid_pc => /\ M.control = MainDecoder(M.instr.op)
                     /\ M.illegal_instruction <=> M.instr.op \in IllegalOps

\* Exceptions and interrupts on their way from M to W.
Trapping ==
    /\ pending_exception_m => TrapW /\ ~E.valid /\ ~M.valid_pc
    /\ edge_external.first => M.valid_pc /\ csr.mie /\ csr.meie
    /\ edge_timer.first => M.valid_pc /\ csr.mie /\ csr.mtie

\* E has read what the registers hold.
Operands ==
    /\ regs[0] = 0
    /\ E.valid => E.rd1 = regs[E.instr.rs1] /\ E.rd2 = regs[E.instr.rs2]

\* Nothing but words is fetched.
Aligned ==
    /\ pc_f % 4 = 0 /\ D.pc % 4 = 0 /\ E.pc % 4 = 0 /\ M.pc % 4 = 0
    /\ csr.mepc % 2 = 0

\* Behind an instruction that is no branch the next one is fetched.
Following ==
    /\ D.valid => /\ D.pc < BpEntries * BpTags
                  /\ D.instr.op \notin BranchOps => pc_f = Wrap(D.pc + 4)
    /\ E.valid => /\ E.pc < BpEntries * BpTags
                  /\ E.instr.op \notin BranchOps => pc_f = Wrap(E.pc + 4)

\* A trained entry belongs to a branch, and has its target.
Trained ==
    \A pc \in Word :
        pc < BpEntries * BpTags /\ Cached(pc) /\ bp[BpIndex(pc)].counter > 0 =>
            /\ rom[RomIndex(pc)].op \in BranchOps
            /\ bp[BpIndex(pc)].target = Wrap(pc + rom[RomIndex(pc)].imm)

\* M is alone, but for the copies that W makes of a waiting access, and the target it
\* carries is that of its instruction.
AloneInM ==
    M.valid_pc =>
        /\ W.valid_pc => /\ M.control.load_store /\ ~TrapW
                         /\ W.control = M.control /\ W.instr = M.instr
        /\ ~M.control.load_store =>
             /\ M.pc_target = PcTarget(M.instr.op, regs[M.instr.rs1], M.pc, M.instr.imm)
             /\ M.instr_addr_misaligned =>
                 /\ M.control.jump
                 /\ MisalignedTarget(IF M.instr.op = "mret" THEN csr.mepc ELSE M.pc_target)

HartInv ==
    /\ Emptied /\ Decoded /\ Trapping /\ Operands /\ Aligned /\ Following /\ Trained
    /\ AloneInM /\ AccessBelongsToM

\* What the invariants proved so far say, with the new one.
Settled ==
    /\ TypeOK /\ StagesHoldProgram /\ RomChosen /\ FetchInv /\ TrapFlagged
    /\ SpacingInv /\ HartInv

-----------------------------------------------------------------------------
LEMMA DecoderOfNothing ==
    MainDecoder("zero") = ZeroControl /\ MainDecoder("illegal") = ZeroControl
<1>1. ResultSource("zero") = "alu" /\ ResultSource("illegal") = "alu"
  BY DEF ResultSource, LoadOps
<1>2. ASSUME NEW op \in IllegalOps
      PROVE  /\ (op \in AluOps \cup LoadOps \cup CsrOps
                         \cup {"mul", "divu", "jal", "jalr", "auipc"}) = FALSE
             /\ (op \in StoreOps) = FALSE /\ (op \in BranchOps) = FALSE
             /\ (op \in {"jal", "jalr", "mret"}) = FALSE /\ (op \in LoadOps) = FALSE
             /\ (op \in LoadOps \cup StoreOps) = FALSE /\ (op \in CsrOps) = FALSE
             /\ (op = "mret") = FALSE /\ (op \in EnvOps) = FALSE
  BY DEF IllegalOps, AluOps, LoadOps, StoreOps, BranchOps, CsrOps, CsrRegOps, CsrImmOps, EnvOps
<1>3. ASSUME NEW op \in IllegalOps PROVE MainDecoder(op) = ZeroControl
  <2>1. ResultSource(op) = "alu"
    BY <1>1 DEF IllegalOps
  <2> QED
    BY <1>2, <2>1, Zenon DEF MainDecoder, ZeroControl
<1> QED
  BY <1>3 DEF IllegalOps

LEMMA InstructionsEncodable ==
    ASSUME EncodablePrograms, TypeOK, RomChosen
    PROVE  \A pc \in Word : Encodable(rom[RomIndex(pc)]) /\ rom[RomIndex(pc)] \in Instruction
BY RomIndexType DEF RomChosen, TypeOK, EncodablePrograms

LEMMA StagesEncodable ==
    ASSUME EncodablePrograms, Settled
    PROVE  /\ D.valid => Encodable(D.instr)
           /\ E.valid => Encodable(E.instr)
           /\ M.valid_pc => Encodable(M.instr)
<1>1. D.pc \in Word /\ E.pc \in Word /\ M.pc \in Word
  BY DEF Settled, TypeOK, StageD, StageE, StageM
<1> QED
  BY <1>1, InstructionsEncodable DEF Settled, StagesHoldProgram

\* Who is in the pipeline with whom.
LEMMA Spaced ==
    ASSUME EncodablePrograms, Settled
    PROVE  /\ D.valid => ~E.valid /\ ~M.valid_pc
           /\ E.valid => ~D.valid /\ ~M.valid_pc /\ ~W.valid_pc
           /\ M.valid_pc => ~D.valid /\ ~E.valid
<1>1. /\ D.valid => ~E.valid
      /\ E.valid => ~M.valid_pc
      /\ D.valid /\ M.valid_pc => M.instr.op = "divu"
      /\ E.valid /\ W.valid_pc => W.instr.op = "divu"
  BY DEF Settled, SpacingInv, DecodeAlone, ExecuteAlone, OnlyDivisionsAhead
<1>2. W.valid_pc => W.instr.op # "divu"
  <2>1. W.pc \in Word
    BY DEF Settled, TypeOK, StageW
  <2> QED
    BY <2>1, InstructionsEncodable DEF Settled, StagesHoldProgram, Encodable
<1> QED
  BY <1>1, <1>2, StagesEncodable DEF Encodable

LEMMA EmptyM ==
    ASSUME Settled, ~M.valid_pc
    PROVE  /\ ~is_instr_exception_m /\ ~interrupt_external_m /\ ~interrupt_timer_m
           /\ ~load_misaligned_m /\ ~store_misaligned_m
           /\ ~load_store_m /\ ~reg_write_m /\ ~stall_m /\ ~M.control.mem_write
<1>1. M.control = ZeroControl /\ ~M.illegal_instruction /\ ~M.instr_addr_misaligned
  BY DEF Settled, HartInv, Emptied, SpacingInv, Bubbles
<1>2. ~interrupt_external_m /\ ~interrupt_timer_m
  BY DEF Settled, HartInv, Trapping, interrupt_external_m, interrupt_timer_m, EdgeDetected
<1> QED
  BY <1>1, <1>2 DEF ZeroControl, is_instr_exception_m, load_misaligned_m, store_misaligned_m,
     load_store_m, reg_write_m, stall_m, StallM

LEMMA EmptyE ==
    ASSUME Settled, ~E.valid
    PROVE  /\ ~pc_src_e /\ ~jump_instr /\ ~take_branch_e /\ ~misaligned_pc_e
           /\ ~is_instr_exception_e /\ ~lw_stall_d /\ ~csr_instr_e
<1>1. E.control = ZeroControl /\ ~E.illegal_instruction
  BY DEF Settled, HartInv, Emptied, SpacingInv, Bubbles
<1>2. ~take_branch_e /\ ~csr_instr_e /\ ~lw_stall_d
  BY <1>1 DEF ZeroControl, take_branch_e, csr_instr_e, lw_stall_d, LwStall, load_instr_e
<1>3. ~pc_src_e
  BY <1>1, <1>2 DEF ZeroControl, pc_src_e, is_mispredict_ntbranch_e, MispredictNotTaken
<1> QED
  BY <1>1, <1>2, <1>3 DEF ZeroControl, jump_instr, JumpInstr, misaligned_pc_e, is_instr_exception_e

LEMMA CsrUntouched ==
    ASSUME NEW c \in CsrFile, NEW w, w.control = ZeroControl, ~TrapCaught(w)
    PROVE  CsrAfter(c, w) = c
<1>1. ~w.interrupt_external /\ ~w.interrupt_timer
  BY DEF TrapCaught
<1>2. \A name : ~Writes(w, name)
  BY DEF Writes, ZeroControl
<1> QED
  BY <1>1, <1>2 DEF CsrAfter, NextMstatus, NextPending, ZeroControl, CsrFile

LEMMA EmptyW ==
    ASSUME Settled, ~W.valid_pc
    PROVE  /\ ~TrapW /\ RegFile = regs /\ CsrAfter(csr, W) = csr
           /\ ~reg_write_w /\ ~csr_instr_w
<1>1. W.control = ZeroControl /\ ~TrapW
  BY DEF Settled, HartInv, Emptied
<1>2. csr \in CsrFile
  BY DEF Settled, TypeOK, CsrTypeOK
<1>3. ~reg_write_w /\ ~csr_instr_w
  BY <1>1 DEF ZeroControl, reg_write_w, csr_instr_w
<1> QED
  BY <1>1, <1>2, <1>3, CsrUntouched DEF TrapW, RegFile

-----------------------------------------------------------------------------
\* The stages, edge by edge.
LEMMA TrapAlone ==
    ASSUME EncodablePrograms, Settled, TrapW
    PROVE  pending_exception_m /\ ~E.valid /\ ~M.valid_pc
BY DEF Settled, TrapFlagged, HartInv, Trapping

\* An instruction in E is alone, has its operands and goes to M.
LEMMA InE ==
    ASSUME EncodablePrograms, Settled, E.valid
    PROVE  /\ ~TrapW /\ ~pending_exception_m /\ ~instruction_ack
           /\ RegFile = regs /\ CsrAfter(csr, W) = csr
           /\ E.control = MainDecoder(E.instr.op)
           /\ E.rd1 = regs[E.instr.rs1] /\ src_a_e = regs[E.instr.rs1]
           /\ E.rd2 = regs[E.instr.rs2] /\ src_b_e = regs[E.instr.rs2]
<1>1. ~M.valid_pc /\ ~W.valid_pc
  BY Spaced
<1>2. ~TrapW /\ ~pending_exception_m
  BY <1>1, EmptyW DEF Settled, HartInv, Trapping
<1>3. ~instruction_ack
  BY StagesEncodable DEF Settled, SpacingInv, ExecuteAlone, instruction_ack, Encodable
<1>4. ~reg_write_m /\ ~reg_write_w
  BY <1>1, EmptyM, EmptyW
<1>5. src_a_e = E.rd1 /\ src_b_e = E.rd2
  BY <1>4 DEF src_a_e, src_b_e, Operand, Forward
<1> QED
  BY <1>1, <1>2, <1>3, <1>5, EmptyW DEF Settled, HartInv, Decoded, Operands

LEMMA MemoryTakes ==
    ASSUME EncodablePrograms, Settled, Tick, E.valid
    PROVE  M' = [valid_pc |-> TRUE, instr |-> E.instr, pc |-> E.pc, control |-> E.control,
                 illegal_instruction |-> E.illegal_instruction,
                 instr_addr_misaligned |-> misaligned_pc_e,
                 alu_result |-> data_output_from_execute, write_data |-> src_b_e,
                 pc_target |-> pc_target_e,
                 write_csr |-> WriteCsr(E.instr.op, read_csr_e, E.rd1, E.instr.imm)]
<1>1. ~flush_m
  BY InE DEF flush_m, FlushM, Settled, HartInv, Decoded
<1>2. ~stall_m
  BY Spaced, EmptyM
<1>3. E.valid = TRUE
  BY DEF Settled, TypeOK, StageE
<1> QED
  BY <1>1, <1>2, <1>3 DEF Tick, MemoryRegister

LEMMA InM ==
    ASSUME EncodablePrograms, Settled, M.valid_pc
    PROVE  /\ ~TrapW /\ ~pending_exception_m /\ ~flush_m
           /\ M.control = MainDecoder(M.instr.op)
           /\ ~M.control.load_store => ~W.valid_pc
<1>1. ~TrapW
  BY TrapAlone
<1> QED
  BY <1>1 DEF Settled, HartInv, Trapping, Decoded, AloneInM, flush_m, FlushM

\* A load or store stays in M until it is acknowledged; everything else leaves.
LEMMA MemoryCases ==
    ASSUME EncodablePrograms, Settled, Tick, M'.valid_pc
    PROVE  \/ E.valid /\ ~M.valid_pc
           \/ M.valid_pc /\ M' = M /\ M.control.load_store /\ ~data_ack
<1>1. ~flush_m
  BY DEF Tick, MemoryRegister, BubbleM
<1>2. CASE stall_m
  <2>1. M' = M
    BY <1>1, <1>2 DEF Tick, MemoryRegister
  <2> QED
    BY <1>2, <2>1 DEF stall_m, StallM, load_store_m
<1>3. CASE ~stall_m
  <2>1. E.valid
    BY <1>1, <1>3 DEF Tick, MemoryRegister
  <2> QED
    BY <2>1, Spaced
<1> QED
  BY <1>2, <1>3

LEMMA MemoryHolds ==
    ASSUME EncodablePrograms, Settled, Tick, M.valid_pc, M.control.load_store, ~data_ack
    PROVE  M' = M
<1>1. stall_m
  BY DEF stall_m, StallM, load_store_m
<1> QED
  BY <1>1, InM DEF Tick, MemoryRegister

\* E takes D's instruction and nothing else.
LEMMA ExecuteTakes ==
    ASSUME EncodablePrograms, Settled, Tick, E'.valid
    PROVE  /\ D.valid /\ ~TrapW /\ ~pending_exception_m
           /\ E' = [valid |-> D.valid, instr |-> D.instr, pc |-> D.pc,
                    rd1 |-> IF rs1_d = 0 THEN 0 ELSE RegFile[rs1_d],
                    rd2 |-> IF rs2_d = 0 THEN 0 ELSE RegFile[rs2_d],
                    control |-> control_d, illegal_instruction |-> illegal_instruction_d]
<1>1. ~flush_e
  BY DEF Tick, ExecuteRegister, BubbleE
<1>2. D.valid
  BY ExecuteCases, StagesEncodable DEF Settled, Encodable
<1>3. ~stall_e
  BY <1>2, DecodeMovesOn DEF Settled
<1>4. ~pending_exception_m
  BY <1>1 DEF flush_e, FlushE
<1> QED
  BY <1>1, <1>2, <1>3, <1>4, TrapAlone DEF Tick, ExecuteRegister

LEMMA ExecuteFills ==
    ASSUME EncodablePrograms, Settled, Tick, D.valid, ~TrapW
    PROVE  E'.valid
<1>1. ~E.valid /\ ~M.valid_pc /\ ~csr_pending
  BY Spaced DEF Settled, SpacingInv, DecodeAlone
<1>2. ~flush_e
  BY <1>1, EmptyE DEF flush_e, FlushE, Settled, HartInv, Trapping
<1>3. ~stall_e
  BY DecodeMovesOn DEF Settled
<1> QED
  BY <1>2, <1>3 DEF Tick, ExecuteRegister

\* D takes the instruction at the pc, which goes on where the predictor says.
LEMMA DecodeTakes ==
    ASSUME EncodablePrograms, Settled, Tick, D'.valid
    PROVE  /\ ~D.valid /\ ~E.valid /\ ~TrapW
           /\ D' = [valid |-> TRUE, instr |-> rom[RomIndex(pc_f)], pc |-> pc_f]
           /\ pc_f' = IF BranchPredicted(pc_f) THEN PredictedPc(pc_f) ELSE Wrap(pc_f + 4)
<1>1. ~flush_d
  BY DEF Tick, DecodeRegister, BubbleD
<1>2. ~D.valid /\ ~E.valid
  BY DecodeFills, StagesEncodable DEF Settled, Encodable
<1>3. ~stall_d
  BY <1>1, <1>2 DEF Tick, DecodeRegister
<1>4. ~waiting_on_instruction /\ ~pending_exception_f /\ ~pending_exception_m
  BY <1>1, <1>3 DEF flush_d, FlushD
<1>5. ~TrapW
  BY <1>4, TrapAlone
<1>6. iport.adr = pc_f
  BY <1>4, AckOfPc DEF Settled, FetchInv
<1>7. ~stall_f /\ ~pc_src_e
  BY <1>2, <1>3, <1>4, EmptyE DEF stall_f, StallF
<1> QED
  BY <1>1, <1>2, <1>3, <1>5, <1>6, <1>7 DEF Tick, DecodeRegister, PcRegister, pc_next_f, instr_f

LEMMA DecodeWaits ==
    ASSUME EncodablePrograms, Settled, Tick, E.valid
    PROVE  ~D'.valid
BY DecodeTakes

\* The pc otherwise.
LEMMA PcTraps ==
    ASSUME Tick, TrapW
    PROVE  pc_f' = TrapJumpAddr(csr)
BY DEF Tick, PcRegister, pc_next_f

LEMMA PcStays ==
    ASSUME EncodablePrograms, Settled, Tick, ~TrapW, ~D'.valid,
           ~E.valid \/ is_instr_exception_e
    PROVE  pc_f' = pc_f
<1>1. ~jump_instr /\ ~(pc_src_e /\ ~is_instr_exception_e)
  BY EmptyE DEF jump_instr, JumpInstr
<1>2. stall_f
  <2> SUFFICES ASSUME ~stall_f PROVE FALSE
    OBVIOUS
  <2>1. ~flush_d /\ ~stall_d
    BY <1>1 DEF stall_f, StallF, flush_d, FlushD
  <2> QED
    BY <2>1 DEF Tick, DecodeRegister
<1> QED
  BY <1>1, <1>2 DEF Tick, PcRegister

LEMMA PcRedirected ==
    ASSUME EncodablePrograms, Settled, Tick, E.valid, ~is_instr_exception_e
    PROVE  pc_f' = IF pc_src_e
                   THEN (IF is_mispredict_ntbranch_e THEN pc_plus4_e ELSE jump_pc_target_e)
                   ELSE pc_f
<1>1. ~TrapW /\ waiting_on_instruction
  BY InE DEF waiting_on_instruction, InstrMemHandshake
<1>2. stall_f
  BY <1>1 DEF stall_f, StallF
<1>3. ~load_misaligned_m /\ ~store_misaligned_m
  BY Spaced, EmptyM
<1> QED
  BY <1>1, <1>2, <1>3 DEF Tick, PcRegister, pc_next_f

-----------------------------------------------------------------------------
\* Every clock edge preserves the invariant.
LEMMA ControlOfEmptyD ==
    ASSUME EncodablePrograms, Settled, ~D.valid
    PROVE  control_d = ZeroControl
BY DecoderOfNothing DEF Settled, SpacingInv, Bubbles, ZeroInstr, control_d

LEMMA ControlOfD ==
    ASSUME EncodablePrograms, Settled, D.valid
    PROVE  /\ control_d = MainDecoder(D.instr.op)
           /\ illegal_instruction_d <=> D.instr.op \in IllegalOps
BY DecoderOfNothing DEF Settled, HartInv, Decoded, control_d, illegal_instruction_d, IllegalOps

LEMMA WritebackTakes ==
    ASSUME Tick
    PROVE  /\ W'.valid_pc = M.valid_pc /\ W'.control = M.control /\ W'.instr = M.instr
           /\ W'.pc = M.pc
           /\ TrapW' <=> is_instr_exception_m
BY DEF Tick, WritebackRegister, ToWriteback, TrapW, TrapCaught, IsException, is_instr_exception_m

LEMMA EmptiedStep == ASSUME EncodablePrograms, Settled, Tick PROVE Emptied'
<1>1. ASSUME ~E'.valid PROVE E'.control = ZeroControl
  <2>1. CASE E' = BubbleE
    BY <2>1 DEF BubbleE
  <2>2. CASE E' = E
    BY <1>1, <2>2 DEF Settled, HartInv, Emptied
  <2>3. CASE E'.valid = D.valid /\ E'.control = control_d
    BY <1>1, <2>3, ControlOfEmptyD
  <2> QED
    BY <2>1, <2>2, <2>3 DEF Tick, ExecuteRegister
<1>2. ASSUME ~M'.valid_pc PROVE M'.control = ZeroControl
  <2>1. CASE M' = BubbleM
    BY <2>1 DEF BubbleM
  <2>2. CASE M' = M
    BY <1>2, <2>2 DEF Settled, HartInv, Emptied
  <2>3. CASE M'.valid_pc = E.valid /\ M'.control = E.control
    BY <1>2, <2>3 DEF Settled, HartInv, Emptied
  <2> QED
    BY <2>1, <2>2, <2>3 DEF Tick, MemoryRegister
<1>3. ASSUME ~W'.valid_pc PROVE W'.control = ZeroControl /\ ~TrapW'
  BY <1>3, WritebackTakes, EmptyM DEF Settled, HartInv, Emptied
<1> QED
  BY <1>1, <1>2, <1>3 DEF Emptied

LEMMA DecodedStep == ASSUME EncodablePrograms, Settled, Tick PROVE Decoded'
<1>1. ~div_pending'
  <2>1. ~div_instr_d
    BY StagesEncodable DEF Encodable, Settled, SpacingInv, Bubbles, ZeroInstr, div_instr_d
  <2> QED
    BY <2>1 DEF Tick, HazardUnitNext, DivPendingNext, Settled, HartInv, Decoded
<1>2. D'.valid => decoder_latch' = ZeroControl
  BY DecodeTakes, ControlOfEmptyD DEF Tick, DecoderLatch
<1>3. E'.valid => /\ E'.control = MainDecoder(E'.instr.op)
                  /\ E'.illegal_instruction <=> E'.instr.op \in IllegalOps
  BY ExecuteTakes, ControlOfD
<1>4. ASSUME M'.valid_pc
      PROVE  /\ M'.control = MainDecoder(M'.instr.op)
             /\ M'.illegal_instruction <=> M'.instr.op \in IllegalOps
  <2>1. CASE E.valid
    BY <2>1, MemoryTakes DEF Settled, HartInv, Decoded
  <2>2. CASE M.valid_pc /\ M' = M
    BY <2>2 DEF Settled, HartInv, Decoded
  <2> QED
    BY <1>4, <2>1, <2>2, MemoryCases
<1> QED
  BY <1>1, <1>2, <1>3, <1>4 DEF Decoded

\* What leaves an exception behind is no load or store.
LEMMA ExceptionLeaves ==
    ASSUME EncodablePrograms, Settled, Supported, Tick, is_instr_exception_m
    PROVE  M.valid_pc /\ ~M'.valid_pc /\ ~E'.valid /\ ~TrapW /\ ~W.valid_pc
<1>1. M.valid_pc
  BY EmptyM
<1>2. ~D.valid /\ ~E.valid
  BY <1>1, Spaced
<1>3. ~M.control.load_store
  BY DEF Supported
<1> QED
  BY <1>1, <1>2, <1>3, MemoryCases, ExecuteTakes, InM

LEMMA CsrTaken == ASSUME Tick PROVE csr' = CsrAfter(csr, W)
<1>1. PICK ext \in ExternalLine, timer \in TimerLine : CsrNext(W, E.pc, ext, timer)
  BY DEF Tick
<1> QED
  BY <1>1 DEF CsrNext

LEMMA TrappingStep ==
    ASSUME EncodablePrograms, Settled, Supported, Tick
    PROVE  Trapping'
<1>1. ASSUME pending_exception_m' PROVE TrapW' /\ ~E'.valid /\ ~M'.valid_pc
  <2>1. is_instr_exception_m
    BY <1>1 DEF Tick, HazardUnitNext, PendingExceptionMNext, Settled, HartInv, Trapping,
                is_instr_exception_w
  <2> QED
    BY <2>1, ExceptionLeaves, WritebackTakes
<1>2. PICK ext \in ExternalLine, timer \in TimerLine : CsrNext(W, E.pc, ext, timer)
  BY DEF Tick
<1>3. ASSUME E.pc # 0 PROVE M'.valid_pc /\ csr' = csr
  <2>1. E.valid
    BY <1>3 DEF Settled, SpacingInv, Bubbles
  <2> QED
    BY <2>1, MemoryTakes, InE, CsrTaken
<1>4. edge_external'.first => E.pc # 0 /\ csr.mie /\ csr.meie
  BY <1>2 DEF CsrNext, Sample, IntrExternalAsync
<1>5. edge_timer'.first => E.pc # 0 /\ csr.mie /\ csr.mtie
  BY <1>2 DEF CsrNext, Sample, IntrTimerAsync
<1> QED
  BY <1>1, <1>3, <1>4, <1>5 DEF Trapping

LEMMA OperandsStep == ASSUME EncodablePrograms, Settled, Tick PROVE Operands'
<1>1. regs' = RegFile
  BY DEF Tick, RegisterFile
<1>2. RegFile[0] = 0
  <2>1. regs \in [RegIds -> Word] /\ regs[0] = 0
    BY DEF Settled, TypeOK, HartInv, Operands
  <2> QED
    BY <2>1 DEF RegFile
<1>3. ASSUME E'.valid PROVE E'.rd1 = regs'[E'.instr.rs1] /\ E'.rd2 = regs'[E'.instr.rs2]
  BY <1>1, <1>2, <1>3, ExecuteTakes DEF rs1_d, rs2_d
<1> QED
  BY <1>1, <1>2, <1>3 DEF Operands

\* Words are a multiple of four, so wrapping keeps the alignment of an address.
LEMMA WrapAligned ==
    ASSUME NEW n \in Int
    PROVE  /\ n % 4 = 0 => Wrap(n) % 4 = 0
           /\ n % 2 = 0 => Wrap(n) % 2 = 0
<1>1. PICK k \in Int : WordSize = 4 * k
  BY IsaAssumption
<1>2. WordSize \in Nat \ {0}
  BY IsaAssumption
<1> DEFINE q == n \div WordSize
           r == n % WordSize
<1>3. q \in Int /\ r \in Int /\ n = q * WordSize + r
  BY <1>2, QuotientAndRemainder
<1> HIDE DEF q, r
<1>4. PICK p \in Int : p = q * k
  BY <1>1, <1>3
<1>5. q * WordSize = 4 * p
  BY <1>1, <1>3, <1>4
<1>6. n = 4 * p + r
  BY <1>3, <1>5
<1>7. (n % 4 = 0 => r % 4 = 0) /\ (n % 2 = 0 => r % 2 = 0)
  BY <1>3, <1>4, <1>6
<1> QED
  BY <1>7 DEF r, Wrap

\* An even target that is not misaligned is the address of a word.
LEMMA AlignedTarget ==
    ASSUME NEW t \in Nat, t % 2 = 0, ~MisalignedTarget(t)
    PROVE  t % 4 = 0
BY DEF MisalignedTarget, Bit

LEMMA ClearedBits ==
    ASSUME NEW v \in Nat
    PROVE  (v - (v % 2)) % 2 = 0 /\ (v - (v % 4)) % 4 = 0
OBVIOUS

LEMMA PlusFour ==
    ASSUME NEW pc \in Word, pc % 4 = 0
    PROVE  Wrap(pc + 4) % 4 = 0
<1>1. pc + 4 \in Int /\ (pc + 4) % 4 = 0
  BY WordFacts
<1> QED
  BY <1>1, WrapAligned

\* A branch leads to a word, a jump to a halfword.
LEMMA BranchTarget ==
    ASSUME NEW pc \in Word, pc % 4 = 0, NEW imm \in Int, imm % 4 = 0
    PROVE  Wrap(pc + imm) % 4 = 0
<1>1. pc + imm \in Int /\ (pc + imm) % 4 = 0
  BY WordFacts
<1> QED
  BY <1>1, WrapAligned

LEMMA EvenTarget ==
    ASSUME NEW pc \in Word, pc % 4 = 0, NEW imm \in Int, imm % 2 = 0
    PROVE  Wrap(pc + imm) % 2 = 0
<1>1. pc + imm \in Int /\ (pc + imm) % 2 = 0
  BY WordFacts
<1> QED
  BY <1>1, WrapAligned

\* What the decoder says of the operation.
LEMMA DecoderFields ==
    ASSUME NEW op
    PROVE  /\ MainDecoder(op).branch <=> op \in BranchOps
           /\ MainDecoder(op).jump <=> op \in {"jal", "jalr", "mret"}
           /\ MainDecoder(op).mret_instr <=> op = "mret"
           /\ MainDecoder(op).load_store <=> op \in LoadOps \cup StoreOps
           /\ MainDecoder(op).mem_write <=> op \in StoreOps
           /\ MainDecoder(op).csr_write <=> op \in CsrOps
           /\ MainDecoder(op).env_call <=> op \in EnvOps
           /\ MainDecoder(op).reg_write <=> op \in AluOps \cup LoadOps \cup CsrOps
                           \cup {"mul", "divu", "jal", "jalr", "auipc"}
           /\ MainDecoder(op).result_src = ResultSource(op)
BY DEF MainDecoder

\* The instruction in E, its redirection and where it goes.
LEMMA RedirectionOfE ==
    ASSUME EncodablePrograms, Settled, E.valid
    PROVE  /\ E.instr.op \in BranchOps => pc_target_e % 4 = 0 /\ jump_pc_target_e = pc_target_e
           /\ E.instr.op \in {"jal", "jalr", "mret"} => pc_src_e /\ jump_pc_target_e % 2 = 0
           /\ jump_pc_target_e = IF E.instr.op = "mret" THEN csr.mepc ELSE pc_target_e
<1>1. E.control = MainDecoder(E.instr.op)
  BY InE
<1>2. E.pc \in Word /\ E.pc % 4 = 0 /\ E.instr.imm \in Int /\ E.rd1 \in Word
  BY DEF Settled, HartInv, Aligned, TypeOK, StageE, Instruction
<1>3. jump_pc_target_e = IF E.instr.op = "mret" THEN csr.mepc ELSE pc_target_e
  BY <1>1, DecoderFields DEF jump_pc_target_e
<1>4. ASSUME E.instr.op \in BranchOps
      PROVE  pc_target_e % 4 = 0 /\ jump_pc_target_e = pc_target_e
  <2>1. E.instr.imm % 4 = 0
    BY <1>4, StagesEncodable DEF Encodable
  <2>2. E.instr.op # "jalr" /\ E.instr.op # "mret"
    BY <1>4 DEF BranchOps
  <2> QED
    BY <1>2, <1>3, <2>1, <2>2, BranchTarget DEF pc_target_e, PcTarget
<1>5. ASSUME E.instr.op \in {"jal", "jalr", "mret"}
      PROVE  pc_src_e /\ jump_pc_target_e % 2 = 0
  <2>1. pc_src_e
    BY <1>1, <1>5, DecoderFields DEF pc_src_e
  <2>2. CASE E.instr.op = "jal"
    <3>1. E.instr.imm % 2 = 0
      BY <2>2, StagesEncodable DEF Encodable
    <3> QED
      BY <1>2, <1>3, <2>1, <2>2, <3>1, EvenTarget DEF pc_target_e, PcTarget
  <2>3. CASE E.instr.op = "jalr"
    <3>1. Wrap(E.rd1 + E.instr.imm) \in Nat
      <4>1. E.rd1 + E.instr.imm \in Int
        BY <1>2, WordFacts
      <4> QED
        BY <4>1, WrapType, WordFacts
    <3>2. pc_target_e = Wrap(E.rd1 + E.instr.imm) - (Wrap(E.rd1 + E.instr.imm) % 2)
      BY <2>3 DEF pc_target_e, PcTarget
    <3> QED
      BY <1>3, <2>1, <2>3, <3>1, <3>2, ClearedBits
  <2>4. CASE E.instr.op = "mret"
    BY <1>3, <2>1, <2>4 DEF Settled, HartInv, Aligned
  <2> QED
    BY <1>5, <2>1, <2>2, <2>3, <2>4
<1> QED
  BY <1>3, <1>4, <1>5

\* A branch is never misaligned; a jump that is not misaligned leads to a word.
LEMMA MisalignmentOfE ==
    ASSUME EncodablePrograms, Settled, E.valid
    PROVE  /\ misaligned_pc_e => E.instr.op \in {"jal", "jalr", "mret"}
           /\ misaligned_pc_e => MisalignedTarget(jump_pc_target_e)
           /\ pc_src_e /\ ~misaligned_pc_e => jump_pc_target_e % 4 = 0
<1>1. E.control = MainDecoder(E.instr.op)
  BY InE
<1>2. pc_src_e => E.instr.op \in BranchOps \/ E.instr.op \in {"jal", "jalr", "mret"}
  BY <1>1, DecoderFields DEF pc_src_e, take_branch_e, is_mispredict_ntbranch_e, MispredictNotTaken
<1>3. jump_pc_target_e \in Nat
  BY TargetTypes, WordFacts DEF Settled
<1>4. E.instr.op \in BranchOps => jump_pc_target_e % 4 = 0 /\ ~MisalignedTarget(jump_pc_target_e)
  <2> SUFFICES ASSUME E.instr.op \in BranchOps
               PROVE  jump_pc_target_e % 4 = 0 /\ ~MisalignedTarget(jump_pc_target_e)
    OBVIOUS
  <2>1. jump_pc_target_e % 4 = 0
    BY RedirectionOfE
  <2> QED
    BY <1>3, <2>1 DEF MisalignedTarget, Bit
<1> QED
  BY <1>2, <1>3, <1>4, RedirectionOfE, AlignedTarget DEF misaligned_pc_e

\* What the predictor gives for the pc.
LEMMA Prediction ==
    ASSUME EncodablePrograms, Settled, Supported, BranchPredicted(pc_f)
    PROVE  /\ rom[RomIndex(pc_f)].op \in BranchOps
           /\ PredictedPc(pc_f) = Wrap(pc_f + rom[RomIndex(pc_f)].imm)
<1>1. pc_f \in Word /\ pc_f < BpEntries * BpTags
  BY DEF Settled, TypeOK, Supported
<1>2. bp[BpIndex(pc_f)].counter > 0
  <2>1. BpIndex(pc_f) \in 0 .. BpEntries - 1
    BY <1>1, BpAssumption, WordFacts DEF BpIndex
  <2>2. bp[BpIndex(pc_f)].counter \in 0 .. 3
    BY <2>1 DEF Settled, TypeOK, BpTypeOK
  <2> QED
    BY <2>2 DEF BranchPredicted
<1> QED
  BY <1>1, <1>2 DEF Settled, HartInv, Trained, BranchPredicted, PredictedPc

LEMMA PcAligned ==
    ASSUME EncodablePrograms, Settled, Supported, Tick
    PROVE  pc_f' % 4 = 0
<1>1. pc_f \in Word /\ pc_f % 4 = 0 /\ E.pc \in Word /\ E.pc % 4 = 0 /\ csr.mtvec \in Nat
  BY WordFacts DEF Settled, HartInv, Aligned, TypeOK, StageE, CsrTypeOK, CsrFile
<1>2. CASE TrapW
  BY <1>1, <1>2, PcTraps, ClearedBits DEF TrapJumpAddr
<1>3. CASE D'.valid
  <2>1. CASE BranchPredicted(pc_f)
    <3>1. rom[RomIndex(pc_f)].imm \in Int /\ rom[RomIndex(pc_f)].imm % 4 = 0
      BY <1>1, <2>1, Prediction, InstructionsEncodable DEF Encodable, Settled, Instruction
    <3> QED
      BY <1>1, <1>3, <2>1, <3>1, Prediction, DecodeTakes, BranchTarget
  <2>2. CASE ~BranchPredicted(pc_f)
    BY <1>1, <1>3, <2>2, DecodeTakes, PlusFour
  <2> QED
    BY <2>1, <2>2
<1>4. CASE E.valid /\ ~is_instr_exception_e
  <2>1. ~misaligned_pc_e
    BY <1>4 DEF is_instr_exception_e
  <2> QED
    BY <1>1, <1>4, <2>1, PcRedirected, MisalignmentOfE, PlusFour DEF pc_plus4_e
<1>5. CASE ~TrapW /\ ~D'.valid /\ (~E.valid \/ is_instr_exception_e)
  BY <1>1, <1>5, PcStays
<1> QED
  BY <1>2, <1>3, <1>4, <1>5

LEMMA AlignedStep ==
    ASSUME EncodablePrograms, Settled, Supported, Tick
    PROVE  Aligned'
<1>1. pc_f % 4 = 0 /\ D.pc % 4 = 0 /\ E.pc % 4 = 0 /\ M.pc % 4 = 0 /\ csr.mepc % 2 = 0
  BY DEF Settled, HartInv, Aligned
<1>2. D'.pc % 4 = 0
  <2>1. D'.pc = 0 \/ D'.pc = pc_f \/ D' = D
    BY DEF Tick, DecodeRegister, BubbleD
  <2> QED
    BY <1>1, <2>1
<1>3. E'.pc % 4 = 0
  <2>1. E'.pc = 0 \/ E'.pc = D.pc \/ E' = E
    BY DEF Tick, ExecuteRegister, BubbleE
  <2> QED
    BY <1>1, <2>1
<1>4. M'.pc % 4 = 0
  <2>1. M'.pc = 0 \/ M'.pc = E.pc \/ M' = M
    BY DEF Tick, MemoryRegister, BubbleM
  <2> QED
    BY <1>1, <2>1
<1>5. csr'.mepc % 2 = 0
  <2>1. W.pc \in Nat /\ W.write_csr \in Nat
    BY WordFacts DEF Settled, TypeOK, StageW
  <2>2. csr'.mepc \in {W.pc - (W.pc % 2), W.write_csr - (W.write_csr % 2), csr.mepc}
    BY CsrTaken DEF CsrAfter
  <2> QED
    BY <1>1, <2>1, <2>2, ClearedBits
<1> QED
  BY <1>2, <1>3, <1>4, <1>5, PcAligned DEF Aligned

LEMMA FollowingStep ==
    ASSUME EncodablePrograms, Settled, Supported, Tick
    PROVE  Following'
<1>1. ASSUME D'.valid
      PROVE  /\ D'.pc < BpEntries * BpTags
             /\ D'.instr.op \notin BranchOps => pc_f' = Wrap(D'.pc + 4)
  <2>1. D'.pc = pc_f /\ D'.instr = rom[RomIndex(pc_f)]
    BY <1>1, DecodeTakes
  <2> QED
    BY <1>1, <2>1, DecodeTakes, Prediction DEF Supported
<1>2. ASSUME E'.valid
      PROVE  /\ E'.pc < BpEntries * BpTags
             /\ E'.instr.op \notin BranchOps => pc_f' = Wrap(E'.pc + 4)
  <2>1. D.valid /\ ~TrapW /\ E'.pc = D.pc /\ E'.instr = D.instr
    BY <1>2, ExecuteTakes
  <2>2. ~D'.valid /\ ~E.valid
    BY <2>1, DecodeTakes, Spaced
  <2>3. pc_f' = pc_f
    BY <2>1, <2>2, PcStays
  <2> QED
    BY <2>1, <2>3 DEF Settled, HartInv, Following
<1> QED
  BY <1>1, <1>2 DEF Following

\* Below the reach of the predictor an entry belongs to one address.
LEMMA OneAddressPerEntry ==
    ASSUME NEW v \in Nat, NEW u \in Nat, v < BpEntries * BpTags, u < BpEntries * BpTags,
           BpIndex(v) = BpIndex(u), BpTag(v) = BpTag(u)
    PROVE  v = u
<1>1. BpEntries \in Nat \ {0} /\ BpTags \in Nat \ {0}
  BY BpAssumption
<1>2. ASSUME NEW n \in Nat, n < BpEntries * BpTags
      PROVE  n \div BpEntries \in Nat /\ n = BpTag(n) * BpEntries + BpIndex(n)
  <2> DEFINE q == n \div BpEntries
             r == n % BpEntries
  <2>1. q \in Int /\ r \in 0 .. BpEntries - 1 /\ n = q * BpEntries + r
    BY <1>1, QuotientAndRemainder
  <2> HIDE DEF q, r
  <2>2. q >= 0
    <3> SUFFICES ASSUME q <= -1 PROVE FALSE
      BY <2>1
    <3>1. q * BpEntries <= -BpEntries
      BY <1>1, <2>1
    <3> QED
      BY <1>1, <2>1, <3>1
  <2>3. q < BpTags
    <3> SUFFICES ASSUME q >= BpTags PROVE FALSE
      BY <1>1, <2>1
    <3>1. q * BpEntries >= BpTags * BpEntries
      BY <1>1, <2>1
    <3>2. BpTags * BpEntries = BpEntries * BpTags
      BY <1>1
    <3> QED
      BY <1>1, <1>2, <2>1, <3>1, <3>2
  <2>4. q % BpTags = q
    BY <1>1, <2>1, <2>2, <2>3
  <2> QED
    BY <2>1, <2>2, <2>4 DEF q, r, BpTag, BpIndex
<1> QED
  BY <1>2

LEMMA TrainedStep ==
    ASSUME EncodablePrograms, Settled, Supported, Tick
    PROVE  Trained'
<1> SUFFICES ASSUME NEW pc \in Word, pc < BpEntries * BpTags,
                    bp'[BpIndex(pc)].tag = BpTag(pc), bp'[BpIndex(pc)].counter > 0
             PROVE  /\ rom[RomIndex(pc)].op \in BranchOps
                    /\ bp'[BpIndex(pc)].target = Wrap(pc + rom[RomIndex(pc)].imm)
  BY DEF Trained, Cached, Tick
<1>0. bp' = IF E.control.branch
            THEN [bp EXCEPT ![BpIndex(E.pc)] =
                     [target |-> jump_pc_target_e, tag |-> BpTag(E.pc),
                      counter |-> NextCounter(E.pc, take_branch_e)]]
            ELSE bp
  BY DEF Tick, BpNext
<1>1. pc \in Nat /\ E.pc \in Nat /\ BpIndex(pc) \in 0 .. BpEntries - 1
      /\ BpIndex(E.pc) \in 0 .. BpEntries - 1
  <2>1. \A n \in Nat : BpIndex(n) \in 0 .. BpEntries - 1
    BY BpAssumption DEF BpIndex
  <2>2. pc \in Nat /\ E.pc \in Nat
    BY WordFacts DEF Settled, TypeOK, StageE
  <2> QED
    BY <2>1, <2>2
<1>2. CASE bp'[BpIndex(pc)] = bp[BpIndex(pc)]
  BY <1>2 DEF Settled, HartInv, Trained, Cached
<1>3. CASE bp'[BpIndex(pc)] # bp[BpIndex(pc)]
  <2>1. E.control.branch
    BY <1>0, <1>3
  <2>2. E.valid
    BY <2>1 DEF Settled, SpacingInv, Bubbles, Quiet
  <2>3. bp \in [0 .. BpEntries - 1 ->
                  [target : Word, tag : 0 .. BpTags - 1, counter : 0 .. 3]]
    BY DEF Settled, TypeOK, BpTypeOK
  <2>4. BpIndex(E.pc) = BpIndex(pc)
        /\ bp'[BpIndex(pc)].tag = BpTag(E.pc) /\ bp'[BpIndex(pc)].target = jump_pc_target_e
    BY <1>0, <1>1, <1>3, <2>1, <2>3
  <2>5. E.pc < BpEntries * BpTags
    BY <2>2 DEF Settled, HartInv, Following
  <2>6. E.pc = pc
    BY <1>1, <2>4, <2>5, OneAddressPerEntry
  <2>7. E.instr = rom[RomIndex(pc)] /\ E.instr.op \in BranchOps
    BY <2>1, <2>2, <2>6, InE, DecoderFields DEF Settled, StagesHoldProgram
  <2>8. jump_pc_target_e = Wrap(pc + E.instr.imm)
    BY <2>2, <2>6, <2>7, RedirectionOfE DEF pc_target_e, PcTarget, BranchOps
  <2> QED
    BY <2>4, <2>7, <2>8
<1> QED
  BY <1>2, <1>3

LEMMA AloneInMStep ==
    ASSUME EncodablePrograms, Settled, Supported, Tick
    PROVE  AloneInM'
<1> SUFFICES ASSUME M'.valid_pc
             PROVE  /\ W'.valid_pc => /\ M'.control.load_store /\ ~TrapW'
                                      /\ W'.control = M'.control /\ W'.instr = M'.instr
                    /\ ~M'.control.load_store =>
                         /\ M'.pc_target = PcTarget(M'.instr.op, regs'[M'.instr.rs1], M'.pc, M'.instr.imm)
                         /\ M'.instr_addr_misaligned =>
                             /\ M'.control.jump
                             /\ MisalignedTarget(IF M'.instr.op = "mret" THEN csr'.mepc
                                                                         ELSE M'.pc_target)
  BY DEF AloneInM
<1>1. CASE E.valid
  <2>1. ~W'.valid_pc
    BY <1>1, WritebackTakes, Spaced
  <2>2. regs' = regs /\ csr' = csr
    BY <1>1, InE, CsrTaken DEF Tick, RegisterFile
  <2>3. /\ M'.instr = E.instr /\ M'.pc = E.pc /\ M'.pc_target = pc_target_e
        /\ M'.instr_addr_misaligned = misaligned_pc_e /\ M'.control = E.control
    BY <1>1, MemoryTakes
  <2>4. M'.pc_target = PcTarget(M'.instr.op, regs'[M'.instr.rs1], M'.pc, M'.instr.imm)
    BY <1>1, <2>2, <2>3, InE DEF pc_target_e
  <2>5. M'.instr_addr_misaligned =>
           /\ M'.control.jump
           /\ MisalignedTarget(IF M'.instr.op = "mret" THEN csr'.mepc ELSE M'.pc_target)
    BY <1>1, <2>2, <2>3, InE, DecoderFields, MisalignmentOfE, RedirectionOfE
  <2> QED
    BY <2>1, <2>4, <2>5
<1>2. CASE M.valid_pc /\ M' = M /\ M.control.load_store
  <2>1. ~TrapW'
    BY <1>2, WritebackTakes DEF Supported
  <2> QED
    BY <1>2, <2>1, WritebackTakes
<1> QED
  BY <1>1, <1>2, MemoryCases

LEMMA AccessStep ==
    ASSUME EncodablePrograms, Settled, Supported, Tick
    PROVE  AccessBelongsToM'
<1>0. dport \in DPortType
  BY DEF Settled, TypeOK, DPortType, DataWaitType
<1>1. CASE dport.state = "IDLE" /\ d_valid
  <2>1. M.valid_pc /\ M.control.load_store
    BY <1>1, EmptyM DEF d_valid, load_store_m
  <2>2. M' = M
    BY <1>1, <2>1, MemoryHolds DEF data_ack
  <2>3. PICK n \in DataWaits :
          dport' = [state |-> "ACTIVE", adr |-> M.alu_result, we |-> d_we,
                    data |-> M.write_data, wait |-> n]
    BY <1>1 DEF Tick, DataPort
  <2>4. d_we = M.control.mem_write
    BY <1>1, MainDecoderType DEF d_valid, d_we, Settled, TypeOK, StageM, Control
  <2> QED
    BY <2>1, <2>2, <2>3, <2>4 DEF AccessBelongsToM
<1>2. CASE dport.state = "IDLE" /\ ~d_valid
  BY <1>0, <1>2 DEF Tick, DataPort, AccessBelongsToM, DPortType
<1>3. CASE dport.state = "ACTIVE" /\ data_ack
  BY <1>0, <1>3 DEF Tick, DataPort, AccessBelongsToM, DPortType
<1>4. CASE dport.state = "ACTIVE" /\ ~data_ack
  <2>1. M.valid_pc /\ M.control.load_store
    BY <1>4 DEF Settled, HartInv, AccessBelongsToM
  <2>2. M' = M
    BY <1>4, <2>1, MemoryHolds
  <2>3. dport' = [dport EXCEPT !.wait = @ - 1]
    BY <1>4 DEF Tick, DataPort
  <2> QED
    BY <1>0, <1>4, <2>1, <2>2, <2>3 DEF Settled, HartInv, AccessBelongsToM, DPortType
<1> QED
  BY <1>0, <1>1, <1>2, <1>3, <1>4 DEF DPortType, PortStates

LEMMA HartInvStutter == HartInv /\ UNCHANGED vars => HartInv'
<1> SUFFICES ASSUME HartInv, UNCHANGED vars PROVE HartInv'
  OBVIOUS
<1>1. Emptied' /\ Decoded' /\ Aligned' /\ Following' /\ Trapping' /\ Operands'
  BY DEF vars, hazardRegs, csrRegs, HartInv, Emptied, Decoded, Aligned, Following, Trapping,
         Operands, TrapW
<1>2. Trained'
  BY DEF vars, HartInv, Trained, Cached
<1>3. AloneInM' /\ AccessBelongsToM'
  BY DEF vars, csrRegs, HartInv, AloneInM, AccessBelongsToM, TrapW
<1> QED
  BY <1>1, <1>2, <1>3 DEF HartInv

LEMMA HartInvInit == Init => HartInv
<1> SUFFICES ASSUME Init PROVE HartInv
  OBVIOUS
<1>1. Emptied /\ Decoded /\ Following
  BY DEF Init, HazardInit, ToWriteback, BubbleD, BubbleE, BubbleM, Emptied, Decoded, Following,
         TrapW, TrapCaught, IsException, ZeroControl
<1>2. Aligned
  BY DEF Init, CsrInit, ResetCsr, BubbleD, BubbleE, BubbleM, Aligned
<1>3. Trapping
  BY DEF Init, CsrInit, HazardInit, Trapping
<1>4. Operands
  BY ProcessorAssumption DEF Init, BubbleE, Operands
<1>5. Trained
  <2> SUFFICES ASSUME NEW pc \in Word PROVE ~(bp[BpIndex(pc)].counter > 0)
    BY DEF Trained
  <2>1. BpIndex(pc) \in 0 .. BpEntries - 1
    BY BpAssumption, WordFacts DEF BpIndex
  <2> QED
    BY <2>1 DEF Init, BpInit
<1>6. AloneInM /\ AccessBelongsToM
  BY DEF Init, BubbleM, AloneInM, AccessBelongsToM
<1> QED
  BY <1>1, <1>2, <1>3, <1>4, <1>5, <1>6 DEF HartInv

\* The invariant, as far as the execution is supported.
LEMMA SettledInvariant ==
    ASSUME EncodablePrograms
    PROVE  Spec /\ []Supported => []Settled
<1>1. Init => HartInv
  BY HartInvInit
<1>2. TypeOK /\ StagesHoldProgram /\ RomChosen /\ FetchInv /\ TrapFlagged /\ SpacingInv
      /\ HartInv /\ Supported /\ [Tick]_vars => HartInv'
  <2> SUFFICES ASSUME Settled, Supported, [Tick]_vars PROVE HartInv'
    BY DEF Settled
  <2>1. CASE Tick
    BY <2>1, EmptiedStep, DecodedStep, TrappingStep, OperandsStep, AlignedStep, FollowingStep,
       TrainedStep, AloneInMStep, AccessStep DEF HartInv
  <2>2. CASE UNCHANGED vars
    BY <2>2, HartInvStutter DEF Settled
  <2> QED
    BY <2>1, <2>2
<1>3. TypeOK /\ StagesHoldProgram /\ RomChosen /\ FetchInv /\ TrapFlagged /\ SpacingInv
      /\ HartInv => Settled
  BY DEF Settled
<1>4. Spec => []TrapFlagged
  <2>1. Init => TrapFlagged
    BY DEF Init, TrapFlagged, TrapW, TrapCaught, IsException, ToWriteback, BubbleM, ZeroControl
  <2> QED
    BY <2>1, TrapFlaggedStep, PTL DEF Spec
<1> QED
  BY <1>1, <1>2, <1>3, <1>4, TypeCorrect, InstructionsComeFromProgram, RomInvariant,
     FetchInvariant, SpacingInvariant, PTL DEF Spec

\* The hart does nothing.
HartRests ==
    /\ rom' = rom /\ pcBar' = pcBar /\ xBar' = xBar /\ memBar' = memBar /\ csrBar' = csrBar

\* The state of the hart while M is empty.
LEMMA NothingToDrain ==
    ASSUME ~M.valid_pc
    PROVE  xBar = RegFile /\ memBar = mem /\ csrBar = CsrAfter(csr, W)
BY DEF ExecutedM, xBar, memBar, csrBar

\* An edge that finds M empty leaves W empty, and the memory as it was.
LEMMA WritebackEmpties ==
    ASSUME Settled, Settled', Tick, ~M.valid_pc
    PROVE  /\ ~W'.valid_pc /\ ~TrapW' /\ regs' = RegFile /\ RegFile' = RegFile /\ mem' = mem
           /\ csr' = CsrAfter(csr, W) /\ CsrAfter(csr', W') = CsrAfter(csr, W)
<1>1. ~W'.valid_pc
  BY WritebackTakes
<1>2. W'.control = ZeroControl /\ ~TrapW' /\ ~TrapCaught(W')
  BY <1>1 DEF Settled, HartInv, Emptied, TrapW
<1>3. csr' \in CsrFile
  BY DEF Settled, TypeOK, CsrTypeOK
<1>4. CsrAfter(csr', W') = csr'
  BY <1>2, <1>3, CsrUntouched
<1>5. regs' = RegFile
  BY DEF Tick, RegisterFile
<1>6. RegFile' = regs'
  BY <1>2 DEF RegFile, reg_write_w, ZeroControl
<1>7. mem' = mem
  BY DEF Tick, DataMemory, data_ack, Settled, HartInv, AccessBelongsToM
<1> QED
  BY <1>1, <1>2, <1>4, <1>5, <1>6, <1>7, CsrTaken

\* The cycle of a trap: the hart has entered it already.
LEMMA TrapRests ==
    ASSUME EncodablePrograms, Settled, Settled', Tick, TrapW
    PROVE  HartRests
<1>1. ~E.valid /\ ~M.valid_pc
  BY TrapAlone
<1>2. pcBar = TrapJumpAddr(csr)
  BY DEF pcBar
<1>3. ~D'.valid
  BY DecodeTakes
<1>4. ~E'.valid
  BY ExecuteTakes
<1>5. ~M'.valid_pc
  BY <1>1, MemoryCases
<1>6. pcBar' = pc_f' /\ pc_f' = TrapJumpAddr(csr)
  BY <1>1, <1>3, <1>4, <1>5, WritebackEmpties, PcTraps DEF pcBar
<1>7. xBar = RegFile /\ memBar = mem /\ csrBar = CsrAfter(csr, W)
  BY <1>1, NothingToDrain
<1>8. xBar' = RegFile' /\ memBar' = mem' /\ csrBar' = CsrAfter(csr', W')
  BY <1>5 DEF ExecutedM, xBar, memBar, csrBar
<1>9. rom' = rom
  BY DEF Tick
<1> QED
  BY <1>1, <1>2, <1>6, <1>7, <1>8, <1>9, WritebackEmpties DEF HartRests

\* An instruction on its way from the fetch to E.
LEMMA FrontRests ==
    ASSUME EncodablePrograms, Settled, Settled', Tick, ~TrapW, ~E.valid, ~M.valid_pc
    PROVE  HartRests
<1>1. ~M'.valid_pc
  BY MemoryCases
<1>2. pcBar = IF D.valid THEN D.pc ELSE pc_f
  BY DEF pcBar
<1>3. pcBar' = IF E'.valid THEN E'.pc ELSE IF D'.valid THEN D'.pc ELSE pc_f'
  BY <1>1, WritebackEmpties DEF pcBar
<1>4. CASE D.valid
  <2>1. E'.valid /\ E'.pc = D.pc
    BY <1>4, ExecuteFills, ExecuteTakes
  <2> QED
    BY <1>2, <1>3, <1>4, <2>1, <1>1, NothingToDrain, WritebackEmpties
       DEF HartRests, ExecutedM, xBar, memBar, csrBar, Tick
<1>5. CASE ~D.valid
  <2>1. ~E'.valid
    BY <1>5, ExecuteTakes
  <2>2. D'.valid => D'.pc = pc_f
    BY DecodeTakes
  <2>3. ~D'.valid => pc_f' = pc_f
    BY PcStays
  <2> QED
    BY <1>2, <1>3, <1>5, <2>1, <2>2, <2>3, <1>1, NothingToDrain, WritebackEmpties
       DEF HartRests, ExecutedM, xBar, memBar, csrBar, Tick
<1> QED
  BY <1>4, <1>5

\* The edge that takes an instruction into M.
LEMMA IntoM ==
    ASSUME EncodablePrograms, Settled, Settled', Tick, E.valid
    PROVE  /\ rom' = rom /\ pcBar = E.pc /\ xBar = regs /\ memBar = mem /\ csrBar = csr
           /\ M'.valid_pc /\ ~TrapW' /\ mem' = mem
           /\ pcBar' = IF is_instr_exception_m' THEN E.pc ELSE pc_f'
           /\ RegFile' = regs /\ csr' = csr /\ CsrAfter(csr', W') = csr
<1>1. ~D.valid /\ ~M.valid_pc /\ ~W.valid_pc /\ ~TrapW /\ RegFile = regs /\ CsrAfter(csr, W) = csr
  BY Spaced, InE
<1>2. pcBar = E.pc
  BY <1>1 DEF pcBar
<1>3. ~E'.valid /\ ~D'.valid
  BY <1>1, ExecuteTakes, DecodeWaits
<1>4. M'.valid_pc /\ M'.pc = E.pc
  BY MemoryTakes
<1>5. ~TrapW' /\ mem' = mem /\ RegFile' = regs /\ csr' = csr /\ CsrAfter(csr', W') = csr
  BY <1>1, WritebackEmpties
<1>6. pcBar' = IF is_instr_exception_m' THEN E.pc ELSE pc_f'
  BY <1>3, <1>4, <1>5 DEF pcBar, ExecutedM
<1> QED
  BY <1>1, <1>2, <1>4, <1>5, <1>6, NothingToDrain DEF Tick

\* It excepts there: nothing has happened yet.
LEMMA ExceptingRests ==
    ASSUME EncodablePrograms, Settled, Settled', Tick, E.valid, is_instr_exception_m'
    PROVE  HartRests
<1>1. xBar' = RegFile' /\ memBar' = mem' /\ csrBar' = CsrAfter(csr', W')
  BY DEF ExecutedM, xBar, memBar, csrBar
<1> QED
  BY <1>1, IntoM DEF HartRests

\* What is in write-back with no trap, no CSR instruction and no return changes no CSR.
LEMMA CsrKept ==
    ASSUME NEW c \in CsrFile, NEW w,
           ~w.control.csr_write, ~w.control.mret_instr, ~TrapCaught(w)
    PROVE  CsrAfter(c, w) = c
<1>1. ~w.interrupt_external /\ ~w.interrupt_timer
  BY DEF TrapCaught
<1>2. \A name : ~Writes(w, name)
  BY DEF Writes
<1> QED
  BY <1>1, <1>2 DEF CsrAfter, NextMstatus, NextPending, CsrFile

\* The instruction in M does not except.
LEMMA ExecutedInM ==
    ASSUME EncodablePrograms, Settled, M.valid_pc, ~is_instr_exception_m
    PROVE  /\ ExecutedM /\ pcBar = pc_f /\ ~TrapCaught(DrainedM)
           /\ ~interrupt_external_m /\ ~interrupt_timer_m
           /\ ~load_misaligned_m /\ ~store_misaligned_m
<1>1. ~TrapW /\ ~E.valid /\ ~D.valid
  BY InM, Spaced
<1>2. ExecutedM
  BY <1>1 DEF ExecutedM
<1>3. pcBar = pc_f
  BY <1>1, <1>2 DEF pcBar
<1>4. ~TrapCaught(DrainedM)
  BY DEF DrainedM, ToWriteback, TrapCaught, IsException, is_instr_exception_m
<1> QED
  BY <1>2, <1>3, <1>4 DEF is_instr_exception_m

\* A load or store has the controls of one.
LEMMA AccessControls ==
    ASSUME EncodablePrograms, Settled, M.valid_pc
    PROVE  /\ M.control.mem_write => M.control.load_store /\ ~M.control.reg_write
           /\ M.control.result_src = "mem" => M.control.load_store /\ ~M.control.mem_write
           /\ M.control.load_store /\ ~M.control.mem_write => M.control.result_src = "mem"
           /\ M.control.load_store => ~M.control.csr_write /\ ~M.control.mret_instr
<1>1. M.control = MainDecoder(M.instr.op)
  BY InM
<1>2. ResultSource(M.instr.op) = "mem" <=> M.instr.op \in LoadOps
  BY DEF ResultSource, LoadOps
<1> QED
  BY <1>1, <1>2, DecoderFields DEF LoadOps, StoreOps, CsrOps, CsrRegOps, CsrImmOps, AluOps

\* A load or store waits for its access.
LEMMA WaitingRests ==
    ASSUME EncodablePrograms, Settled, Settled', Supported, Supported', Tick,
           M.valid_pc, ~is_instr_exception_m, M.control.load_store, ~data_ack
    PROVE  HartRests
<1>1. M' = M
  BY MemoryHolds
<1>2. ~is_instr_exception_m' /\ M'.valid_pc
  BY <1>1 DEF Supported
<1>3. ~D'.valid /\ ~E'.valid /\ ~E.valid /\ ~TrapW
  BY <1>1, ExecuteTakes, Spaced, InM DEF Settled, SpacingInv, DecodeAlone
<1>4. ~TrapW'
  BY WritebackTakes
<1>5. pcBar' = pc_f' /\ pc_f' = pc_f /\ ExecutedM'
  BY <1>2, <1>3, <1>4, PcStays DEF pcBar, ExecutedM
<1>6. ExecutedM /\ pcBar = pc_f
  BY ExecutedInM
<1>7. mem' = mem /\ regs' = RegFile /\ csr' = CsrAfter(csr, W)
  BY CsrTaken DEF Tick, DataMemory, RegisterFile
<1>8. memBar' = memBar
  BY <1>1, <1>5, <1>6, <1>7 DEF memBar
<1>9. xBar' = xBar
  <2>1. reg_write_w' = M.control.reg_write /\ rd_w' = M.instr.rd
    BY WritebackTakes DEF reg_write_w, rd_w
  <2>2. ResultOfM' = ResultOfM
    BY <1>1, <1>7 DEF ResultOfM
  <2>3. RegFile' = IF M.control.reg_write /\ M.instr.rd # 0
                   THEN [RegFile EXCEPT ![M.instr.rd] = result_w'] ELSE RegFile
    BY <1>4, <1>7, <2>1 DEF RegFile, is_instr_exception_w
  <2>4. M.instr.rd \in RegIds /\ RegFile \in [RegIds -> Word]
    BY RegFileType DEF Settled, TypeOK, StageM, Instruction
  <2>5. CASE M.control.reg_write /\ M.instr.rd # 0
    BY <1>1, <1>5, <1>6, <2>2, <2>3, <2>4, <2>5 DEF xBar
  <2>6. CASE ~(M.control.reg_write /\ M.instr.rd # 0)
    <3>1. RegFile' = RegFile
      BY <2>3, <2>6
    <3>2. xBar = RegFile
      BY <2>6 DEF xBar
    <3>3. xBar' = RegFile'
      BY <1>1, <2>6 DEF xBar
    <3> QED
      BY <3>1, <3>2, <3>3
  <2> QED
    BY <2>5, <2>6
<1>10. csrBar' = csrBar
  <2>1. csr' \in CsrFile
    BY DEF Settled, TypeOK, CsrTypeOK
  <2>2. CsrAfter(csr', W') = csr'
    BY <1>4, <2>1, WritebackTakes, AccessControls, CsrKept DEF TrapW
  <2>3. CsrAfter(csr', DrainedM') = csr'
    <3>1. DrainedM'.control = M.control
      BY <1>1 DEF DrainedM, ToWriteback
    <3>2. ~TrapCaught(DrainedM')
      BY <1>2 DEF DrainedM, ToWriteback, TrapCaught, IsException, is_instr_exception_m
    <3> QED
      BY <2>1, <3>1, <3>2, AccessControls, CsrKept
  <2>4. CsrAfter(csr', DrainedM) = csr'
    <3>1. DrainedM.control = M.control
      BY DEF DrainedM, ToWriteback
    <3> QED
      BY <2>1, <3>1, ExecutedInM, AccessControls, CsrKept
  <2>5. csrBar' = CsrAfter(CsrAfter(csr', W'), DrainedM')
    BY <1>5 DEF csrBar
  <2>6. csrBar = CsrAfter(CsrAfter(csr, W), DrainedM)
    BY <1>6 DEF csrBar
  <2> QED
    BY <1>7, <2>2, <2>3, <2>4, <2>5, <2>6
<1>11. rom' = rom
  BY DEF Tick
<1> QED
  BY <1>5, <1>6, <1>8, <1>9, <1>10, <1>11 DEF HartRests

\* A record with the fields of the CSRs.
Csrs(r) ==
    r = [mie |-> r.mie, mpie |-> r.mpie, meie |-> r.meie, mtie |-> r.mtie, msie |-> r.msie,
         meip |-> r.meip, mtip |-> r.mtip, msip |-> r.msip, mtvec |-> r.mtvec, mepc |-> r.mepc,
         mtval |-> r.mtval, mscratch |-> r.mscratch, interrupt |-> r.interrupt, code |-> r.code]

LEMMA SameCsrs ==
    ASSUME NEW r, NEW t, Csrs(r), Csrs(t),
           r.mie = t.mie, r.mpie = t.mpie, r.meie = t.meie, r.mtie = t.mtie, r.msie = t.msie,
           r.meip = t.meip, r.mtip = t.mtip, r.msip = t.msip, r.mtvec = t.mtvec,
           r.mepc = t.mepc, r.mtval = t.mtval, r.mscratch = t.mscratch,
           r.interrupt = t.interrupt, r.code = t.code
    PROVE  r = t
BY DEF Csrs

LEMMA CsrFileIsCsrs == \A r \in CsrFile : Csrs(r)
BY DEF Csrs, CsrFile

LEMMA CsrAfterIsCsrs == ASSUME NEW c, NEW w PROVE Csrs(CsrAfter(c, w))
BY DEF Csrs, CsrAfter

\* The CSRs do not depend on the data that a load gets.
LEMMA CsrOfDrained ==
    ASSUME NEW c \in CsrFile, NEW w, NEW u,
           w.control = u.control, w.instr = u.instr, w.pc = u.pc,
           w.write_csr = u.write_csr, ~TrapCaught(w), ~TrapCaught(u)
    PROVE  CsrAfter(c, w) = CsrAfter(c, u)
<1>1. NextMstatus(c, w) = NextMstatus(c, u)
  BY DEF NextMstatus, Writes
<1>2. ~w.interrupt_external /\ ~w.interrupt_timer /\ ~u.interrupt_external /\ ~u.interrupt_timer
  BY DEF TrapCaught
<1>3. CsrAfter(c, w).mie = CsrAfter(c, u).mie /\ CsrAfter(c, w).mpie = CsrAfter(c, u).mpie
  BY <1>1 DEF CsrAfter
<1>4. CsrAfter(c, w).meie = CsrAfter(c, u).meie /\ CsrAfter(c, w).mtie = CsrAfter(c, u).mtie
      /\ CsrAfter(c, w).msie = CsrAfter(c, u).msie
  BY DEF CsrAfter, Writes
<1>5. CsrAfter(c, w).meip = CsrAfter(c, u).meip /\ CsrAfter(c, w).mtip = CsrAfter(c, u).mtip
      /\ CsrAfter(c, w).msip = CsrAfter(c, u).msip
  BY <1>2 DEF CsrAfter, NextPending, Writes
<1>6. CsrAfter(c, w).mtvec = CsrAfter(c, u).mtvec /\ CsrAfter(c, w).mepc = CsrAfter(c, u).mepc
      /\ CsrAfter(c, w).mtval = CsrAfter(c, u).mtval /\ CsrAfter(c, w).mscratch = CsrAfter(c, u).mscratch
      /\ CsrAfter(c, w).interrupt = CsrAfter(c, u).interrupt
      /\ CsrAfter(c, w).code = CsrAfter(c, u).code
  BY DEF CsrAfter, Writes
<1> QED
  BY <1>3, <1>4, <1>5, <1>6, CsrAfterIsCsrs, SameCsrs

\* An executed instruction leaves M and is drained from W.
LEMMA LeavingRests ==
    ASSUME EncodablePrograms, Settled, Settled', Tick,
           M.valid_pc, ~is_instr_exception_m, ~M.control.load_store \/ data_ack
    PROVE  HartRests
<1>1. ~E.valid /\ ~D.valid /\ ~TrapW
  BY Spaced, InM
<1>2. ~M'.valid_pc /\ ~E'.valid
  BY <1>1, MemoryCases, ExecuteTakes
<1>3. ~TrapW' /\ W'.control = M.control /\ W'.instr = M.instr /\ W'.pc = M.pc
  BY WritebackTakes
<1>4. pcBar' = pc_f
  <2>1. pcBar' = IF D'.valid THEN D'.pc ELSE pc_f'
    BY <1>2, <1>3 DEF pcBar
  <2>2. D'.valid => D'.pc = pc_f
    BY DecodeTakes
  <2>3. ~D'.valid => pc_f' = pc_f
    BY <1>1, PcStays
  <2> QED
    BY <2>1, <2>2, <2>3
<1>5. ExecutedM /\ pcBar = pc_f
  BY ExecutedInM
<1>6. dport.state = "ACTIVE" => M.control.load_store /\ data_ack
      /\ dport.adr = M.alu_result /\ dport.we = M.control.mem_write
      /\ (dport.we => dport.data = M.write_data)
  BY DEF Settled, HartInv, AccessBelongsToM, data_ack
<1>7. M.control.load_store => dport.state = "ACTIVE"
  BY DEF data_ack
<1>8. memBar' = memBar
  <2>1. memBar' = mem'
    BY <1>2 DEF memBar, ExecutedM
  <2>2. CASE M.control.mem_write
    <3>1. data_ack /\ dport.we /\ dport.adr = M.alu_result /\ dport.data = M.write_data
      BY <1>6, <1>7, <2>2, AccessControls
    <3> QED
      BY <1>5, <2>1, <2>2, <3>1 DEF memBar, Tick, DataMemory
  <2>3. CASE ~M.control.mem_write
    <3>1. ~(data_ack /\ dport.we)
      BY <1>6, <2>3 DEF data_ack
    <3> QED
      BY <2>1, <2>3, <3>1 DEF memBar, Tick, DataMemory
  <2> QED
    BY <2>2, <2>3
<1>9. xBar' = xBar
  <2>1. xBar' = RegFile'
    BY <1>2 DEF xBar, ExecutedM
  <2>2. RegFile' = IF M.control.reg_write /\ M.instr.rd # 0
                   THEN [RegFile EXCEPT ![M.instr.rd] = result_w'] ELSE RegFile
    BY <1>3 DEF RegFile, is_instr_exception_w, reg_write_w, rd_w, Tick, RegisterFile
  <2>3. M.control.result_src = "mem" => W'.read_data = mem[MemIndex(M.alu_result)]
    <3>1. ASSUME M.control.result_src = "mem" PROVE data_ack /\ ~dport.we /\ dport.adr = M.alu_result
      BY <1>6, <1>7, <3>1, AccessControls
    <3> QED
      BY <3>1 DEF Tick, WritebackRegister, ToWriteback, read_data_m
  <2>4. result_w' = ResultOfM
    <3>1. W'.alu_result = M.alu_result /\ W'.pc_target = M.pc_target
      BY DEF Tick, WritebackRegister, ToWriteback
    <3>2. M.control.result_src \in ResultSources
      BY DEF Settled, TypeOK, StageM, Control
    <3> QED
      BY <1>3, <2>3, <3>1, <3>2 DEF result_w, ResultOfM, ResultSources
  <2> QED
    BY <1>5, <2>1, <2>2, <2>4 DEF xBar
<1>10. csrBar' = csrBar
  <2>1. csrBar' = CsrAfter(csr', W')
    BY <1>2 DEF csrBar, ExecutedM
  <2>2. csrBar = CsrAfter(csr', DrainedM)
    BY <1>5, CsrTaken DEF csrBar
  <2>3. W'.write_csr = DrainedM.write_csr /\ DrainedM.control = M.control
        /\ DrainedM.instr = M.instr /\ DrainedM.pc = M.pc
    BY DEF Tick, WritebackRegister, ToWriteback, DrainedM
  <2>4. ~TrapCaught(W') /\ ~TrapCaught(DrainedM)
    BY <1>3, ExecutedInM DEF TrapW
  <2>5. csr' \in CsrFile
    BY DEF Settled, TypeOK, CsrTypeOK
  <2> QED
    BY <1>3, <2>1, <2>2, <2>3, <2>4, <2>5, CsrOfDrained
<1> QED
  BY <1>4, <1>5, <1>8, <1>9, <1>10 DEF HartRests, Tick

\* The hart computes with the operators of the pipeline.
LEMMA HartOperators ==
    /\ \A v : /\ Arch!RomIndex(v) = RomIndex(v) /\ Arch!MemIndex(v) = MemIndex(v)
              /\ Arch!Wrap(v) = Wrap(v)
              /\ Arch!MisalignedWord(v) = MisalignedWord(v)
              /\ Arch!MisalignedTarget(v) = MisalignedTarget(v)
    /\ \A op, r, t, n : Arch!AluResult(op, r, t, n) = AluResult(op, r, t, n)
    /\ \A op, r, t : Arch!TakeBranch(op, r, t) = TakeBranch(op, r, t)
    /\ \A op, r, t, n : Arch!PcTarget(op, r, t, n) = PcTarget(op, r, t, n)
    /\ \A v, w : Arch!Bit(v, w) = Bit(v, w)
    /\ \A c, n, name : Arch!ReadCsr(c, n, name) = ReadCsr(c, n, name)
<1>1. \A v : Arch!RomIndex(v) = RomIndex(v) /\ Arch!MemIndex(v) = MemIndex(v)
             /\ Arch!Wrap(v) = Wrap(v)
  BY DEF Arch!RomIndex, RomIndex, Arch!MemIndex, MemIndex, Arch!Wrap, Wrap
<1>2. \A v, w : Arch!Bit(v, w) = Bit(v, w)
  BY DEF Arch!Bit, Bit
<1>3. \A v : Arch!MisalignedWord(v) = MisalignedWord(v)
             /\ Arch!MisalignedTarget(v) = MisalignedTarget(v)
  BY <1>2 DEF Arch!MisalignedWord, MisalignedWord, Arch!MisalignedTarget, MisalignedTarget
<1>4. \A op, r, t, n : Arch!AluResult(op, r, t, n) = AluResult(op, r, t, n)
  BY <1>1 DEF Arch!AluResult, AluResult
<1>5. \A op, r, t : Arch!TakeBranch(op, r, t) = TakeBranch(op, r, t)
  BY DEF Arch!TakeBranch, TakeBranch
<1>6. \A op, r, t, n : Arch!PcTarget(op, r, t, n) = PcTarget(op, r, t, n)
  BY <1>1 DEF Arch!PcTarget, PcTarget
<1>7. \A c, n, name : Arch!ReadCsr(c, n, name) = ReadCsr(c, n, name)
  BY <1>1 DEF Arch!ReadCsr, ReadCsr, Arch!CsrValues, CsrValues, Arch!Weighted, Weighted,
              Arch!TopBit, TopBit
<1> QED
  BY <1>1, <1>2, <1>3, <1>4, <1>5, <1>6, <1>7

LEMMA HartWrites ==
    ASSUME NEW op, NEW old, NEW reg, NEW imm
    PROVE  Arch!WriteCsr(op, old, reg, imm) = WriteCsr(op, old, reg, imm)
<1>1. ASSUME NEW bits PROVE Arch!WordOf(bits) = WordOf(bits)
  BY DEF Arch!WordOf, WordOf, Arch!MapThenSumSet, MapThenSumSet, Arch!MapThenFoldSet, MapThenFoldSet
<1>2. ASSUME NEW v PROVE Arch!BitsOf(v) = BitsOf(v)
  BY DEF Arch!BitsOf, BitsOf, Arch!Weights, Weights, Arch!Bit, Bit
<1>3. ASSUME NEW v, NEW w
      PROVE  Arch!OrWord(v, w) = OrWord(v, w) /\ Arch!AndNotWord(v, w) = AndNotWord(v, w)
  BY <1>1, <1>2 DEF Arch!OrWord, OrWord, Arch!AndNotWord, AndNotWord
<1> QED
  BY <1>3, HartOperators DEF Arch!WriteCsr, WriteCsr

LEMMA HartOps ==
    /\ Arch!AluOps = AluOps /\ Arch!LoadOps = LoadOps /\ Arch!StoreOps = StoreOps
    /\ Arch!BranchOps = BranchOps /\ Arch!CsrOps = CsrOps /\ Arch!EnvOps = EnvOps
    /\ Arch!IllegalOps = IllegalOps /\ Arch!Word = Word
BY DEF Arch!AluOps, AluOps, Arch!LoadOps, LoadOps, Arch!StoreOps, StoreOps, Arch!BranchOps,
   BranchOps, Arch!CsrOps, CsrOps, Arch!CsrRegOps, CsrRegOps, Arch!CsrImmOps, CsrImmOps,
   Arch!EnvOps, EnvOps, Arch!IllegalOps, IllegalOps, Arch!Word, Word

\* The edge at which the instruction in M excepts.
LEMMA OutOfM ==
    ASSUME EncodablePrograms, Settled, Settled', Supported, Tick, M.valid_pc, is_instr_exception_m
    PROVE  /\ rom' = rom /\ pcBar = M.pc /\ xBar = regs /\ memBar = mem /\ csrBar = csr
           /\ pcBar' = TrapJumpAddr(csr) /\ xBar' = regs /\ memBar' = mem
           /\ csrBar' = CsrAfter(csr, W') /\ TrapCaught(W')
<1>1. ~M'.valid_pc /\ ~TrapW /\ ~W.valid_pc /\ ~M.control.load_store
  BY ExceptionLeaves DEF Supported
<1>2. TrapW'
  BY WritebackTakes
<1>3. RegFile = regs /\ CsrAfter(csr, W) = csr /\ csr' = csr /\ regs' = regs
  BY <1>1, EmptyW, CsrTaken DEF Tick, RegisterFile
<1>4. mem' = mem
  BY <1>1 DEF Tick, DataMemory, data_ack, Settled, HartInv, AccessBelongsToM
<1>5. pcBar = M.pc /\ xBar = regs /\ memBar = mem /\ csrBar = csr
  BY <1>1, <1>3 DEF pcBar, ExecutedM, xBar, memBar, csrBar
<1>6. RegFile' = regs'
  BY <1>2 DEF RegFile, is_instr_exception_w
<1>7. pcBar' = TrapJumpAddr(csr') /\ xBar' = RegFile' /\ memBar' = mem'
      /\ csrBar' = CsrAfter(csr', W')
  BY <1>1, <1>2 DEF pcBar, ExecutedM, xBar, memBar, csrBar
<1> QED
  BY <1>2, <1>3, <1>4, <1>5, <1>6, <1>7 DEF Tick, TrapW

\* What write-back gets then.
LEMMA TrapInW ==
    ASSUME Tick
    PROVE  /\ W'.control = M.control /\ W'.instr = M.instr /\ W'.pc = M.pc
           /\ W'.illegal_instruction = M.illegal_instruction
           /\ W'.instr_addr_misaligned = M.instr_addr_misaligned
           /\ W'.alu_result = M.alu_result /\ W'.pc_target = M.pc_target
           /\ W'.load_misaligned = load_misaligned_m /\ W'.store_misaligned = store_misaligned_m
           /\ W'.interrupt_external = interrupt_external_m
           /\ W'.interrupt_timer = interrupt_timer_m
BY DEF Tick, WritebackRegister, ToWriteback

\* The CSRs after a trap, from c with the interrupts that arrived pending.
Trapped(c, epc, intr, cause, val) ==
    [mie |-> FALSE, mpie |-> c.mie, meie |-> c.meie, mtie |-> c.mtie, msie |-> c.msie,
     meip |-> c.meip, mtip |-> c.mtip, msip |-> c.msip,
     mtvec |-> c.mtvec, mepc |-> epc, mtval |-> val, mscratch |-> c.mscratch,
     interrupt |-> intr, code |-> cause]

LEMMA PendingKept ==
    ASSUME NEW w, \A name : ~Writes(w, name),
           NEW p, NEW arrived, NEW q \in BOOLEAN, q <=> (p \/ arrived), NEW weight
    PROVE  NextPending(w, p, arrived, weight) = q
BY DEF NextPending

\* A trap that finds no CSR instruction in write-back.
LEMMA CsrTrapped ==
    ASSUME NEW c \in CsrFile, NEW w, TrapCaught(w), ~w.control.csr_write,
           NEW d \in CsrFile,
           d.mie = c.mie, d.meie = c.meie, d.mtie = c.mtie, d.msie = c.msie, d.msip = c.msip,
           d.mtvec = c.mtvec, d.mscratch = c.mscratch,
           d.meip <=> (c.meip \/ w.interrupt_external),
           d.mtip <=> (c.mtip \/ w.interrupt_timer)
    PROVE  CsrAfter(c, w) =
             Trapped(d, w.pc - (w.pc % 2), ~IsException(w), TrapCause(w),
                     IF w.illegal_instruction THEN 0 ELSE AddrExcept(w))
<1> DEFINE r == CsrAfter(c, w)
           t == Trapped(d, w.pc - (w.pc % 2), ~IsException(w), TrapCause(w),
                        IF w.illegal_instruction THEN 0 ELSE AddrExcept(w))
<1>1. \A name : ~Writes(w, name)
  BY DEF Writes
<1>2. NextMstatus(c, w) = [mie |-> FALSE, mpie |-> c.mie]
  BY DEF NextMstatus
<1>3. d.meip \in BOOLEAN /\ d.mtip \in BOOLEAN /\ d.msip \in BOOLEAN
  BY DEF CsrFile
<1>4. r.mie = t.mie /\ r.mpie = t.mpie
  BY <1>2, <1>3 DEF CsrAfter, Trapped
<1>5. r.meie = t.meie /\ r.mtie = t.mtie /\ r.msie = t.msie
  BY <1>1, <1>3 DEF CsrAfter, Trapped
<1>6. r.meip = t.meip /\ r.mtip = t.mtip /\ r.msip = t.msip
  <2>1. NextPending(w, c.meip, w.interrupt_external, 2048) = d.meip
    BY <1>1, <1>3, PendingKept
  <2>2. NextPending(w, c.mtip, w.interrupt_timer, 128) = d.mtip
    BY <1>1, <1>3, PendingKept
  <2>3. NextPending(w, c.msip, FALSE, 8) = c.msip
    BY <1>1 DEF NextPending, CsrFile
  <2>4. r.meip = t.meip
    <3>1. r.meip = NextPending(w, c.meip, w.interrupt_external, 2048)
      BY DEF CsrAfter
    <3>2. t.meip = d.meip
      BY DEF Trapped
    <3> QED
      BY <2>1, <3>1, <3>2
  <2>5. r.mtip = t.mtip
    <3>1. r.mtip = NextPending(w, c.mtip, w.interrupt_timer, 128)
      BY DEF CsrAfter
    <3>2. t.mtip = d.mtip
      BY DEF Trapped
    <3> QED
      BY <2>2, <3>1, <3>2
  <2>6. r.msip = t.msip
    <3>1. r.msip = NextPending(w, c.msip, FALSE, 8)
      BY DEF CsrAfter
    <3>2. t.msip = c.msip
      BY DEF Trapped
    <3> QED
      BY <2>3, <3>1, <3>2
  <2> QED
    BY <2>4, <2>5, <2>6
<1>7. r.mtvec = t.mtvec /\ r.mepc = t.mepc /\ r.mtval = t.mtval /\ r.mscratch = t.mscratch
      /\ r.interrupt = t.interrupt /\ r.code = t.code
  BY <1>1, <1>3 DEF CsrAfter, Trapped
<1>8. Csrs(t)
  BY DEF Csrs, Trapped
<1> QED
  BY <1>4, <1>5, <1>6, <1>7, <1>8, CsrAfterIsCsrs, SameCsrs

\* The hart does the same.
ByHart(c, epc, intr, cause, val) ==
    [c EXCEPT !.mie = FALSE, !.mpie = c.mie, !.mepc = epc,
              !.interrupt = intr, !.code = cause, !.mtval = val]

LEMMA TrappedByHart ==
    ASSUME NEW c \in CsrFile, NEW epc \in Word,
           NEW intr \in BOOLEAN, NEW cause \in 0 .. 15, NEW val \in Word
    PROVE  Trapped(c, epc, intr, cause, val) = ByHart(c, epc, intr, cause, val)
<1> DEFINE t == Trapped(c, epc, intr, cause, val)
           r == ByHart(c, epc, intr, cause, val)
<1>1. r \in CsrFile
  BY DEF CsrFile, ByHart
<1>2. r.mie = FALSE /\ r.mpie = c.mie /\ r.mepc = epc /\ r.interrupt = intr
      /\ r.code = cause /\ r.mtval = val
  BY DEF CsrFile, ByHart
<1>3. r.meip = c.meip /\ r.mtip = c.mtip /\ r.meie = c.meie /\ r.mtie = c.mtie
      /\ r.msie = c.msie /\ r.msip = c.msip /\ r.mtvec = c.mtvec /\ r.mscratch = c.mscratch
  BY DEF CsrFile, ByHart
<1>4. Csrs(t)
  BY DEF Csrs, Trapped
<1>5. /\ t.mie = FALSE /\ t.mpie = c.mie /\ t.meie = c.meie /\ t.mtie = c.mtie
      /\ t.msie = c.msie /\ t.meip = c.meip /\ t.mtip = c.mtip /\ t.msip = c.msip
      /\ t.mtvec = c.mtvec /\ t.mepc = epc /\ t.mtval = val /\ t.mscratch = c.mscratch
      /\ t.interrupt = intr /\ t.code = cause
  BY DEF Trapped
<1> HIDE DEF r, t
<1>6. r = t
  BY <1>1, <1>2, <1>3, <1>4, <1>5, CsrFileIsCsrs, SameCsrs
<1> QED
  BY <1>6 DEF r, t

\* The edge at which an instruction hit by an interrupt leaves M is an interrupt of the hart.
LEMMA InterruptTaken ==
    ASSUME EncodablePrograms, Settled, Settled', Supported, Tick, M.valid_pc,
           interrupt_external_m \/ interrupt_timer_m
    PROVE  Arch!Interrupt(interrupt_external_m, interrupt_timer_m)
<1>0. is_instr_exception_m
  BY DEF is_instr_exception_m
<1>1. /\ ~M.control.csr_write /\ ~M.control.env_call /\ ~M.control.load_store
      /\ ~M.illegal_instruction /\ ~M.instr_addr_misaligned
  BY <1>0 DEF Supported
<1>2. ~load_misaligned_m /\ ~store_misaligned_m
  BY <1>1, AccessControls DEF load_misaligned_m, store_misaligned_m
<1>3. csr.mie /\ (interrupt_external_m => csr.meie) /\ (interrupt_timer_m => csr.mtie)
  BY DEF Settled, HartInv, Trapping, interrupt_external_m, interrupt_timer_m, EdgeDetected
<1>4. csr \in CsrFile /\ M.pc \in Nat /\ M.alu_result \in Word
  BY WordFacts DEF Settled, TypeOK, CsrTypeOK, StageM
<1>5. M.pc - (M.pc % 2) = M.pc
  BY <1>4 DEF Settled, HartInv, Aligned
<1>6. ~IsException(W') /\ TrapCause(W') = (IF interrupt_external_m THEN 11 ELSE 7)
      /\ AddrExcept(W') = M.alu_result /\ ~W'.illegal_instruction
  BY <1>1, <1>2, TrapInW DEF IsException, TrapCause, AddrExcept
<1> DEFINE d == [csr EXCEPT !.meip = @ \/ interrupt_external_m, !.mtip = @ \/ interrupt_timer_m]
           cause == IF interrupt_external_m THEN 11 ELSE 7
<1>7. interrupt_external_m \in BOOLEAN /\ interrupt_timer_m \in BOOLEAN
  BY DEF interrupt_external_m, interrupt_timer_m, EdgeDetected, Settled, TypeOK, CsrTypeOK, EdgeRegs
<1>8. /\ d \in CsrFile /\ d.mie = csr.mie /\ d.meie = csr.meie /\ d.mtie = csr.mtie
      /\ d.msie = csr.msie /\ d.msip = csr.msip /\ d.mtvec = csr.mtvec
      /\ d.mscratch = csr.mscratch
      /\ d.meip <=> (csr.meip \/ interrupt_external_m)
      /\ d.mtip <=> (csr.mtip \/ interrupt_timer_m)
  BY <1>4, <1>7 DEF CsrFile
<1>9. csrBar' = ByHart(d, M.pc, TRUE, cause, M.alu_result) /\ csrBar'.mtval = M.alu_result
  <2> HIDE DEF d
  <2>1. csrBar' = Trapped(d, M.pc, TRUE, cause, M.alu_result)
    <3>1. TrapCaught(W') /\ ~W'.control.csr_write /\ W'.pc - (W'.pc % 2) = M.pc
          /\ csrBar' = CsrAfter(csr, W')
          /\ (~IsException(W')) = TRUE
      BY <1>0, <1>1, <1>5, <1>6, TrapInW, OutOfM
    <3>2. CsrAfter(csr, W') = Trapped(d, W'.pc - (W'.pc % 2), ~IsException(W'), TrapCause(W'),
                                      IF W'.illegal_instruction THEN 0 ELSE AddrExcept(W'))
      BY <1>4, <1>8, <3>1, TrapInW, CsrTrapped
    <3> QED
      BY <1>6, <3>1, <3>2
  <2>2. csrBar'.mtval = M.alu_result
    BY <2>1 DEF Trapped
  <2>3. d \in CsrFile /\ M.pc \in Word /\ M.alu_result \in Word /\ cause \in 0 .. 15
    BY <1>4, <1>8 DEF Settled, TypeOK, StageM
  <2> HIDE DEF cause
  <2>4. Trapped(d, M.pc, TRUE, cause, M.alu_result) = ByHart(d, M.pc, TRUE, cause, M.alu_result)
    BY <2>3, TrappedByHart
  <2> QED
    BY <2>1, <2>2, <2>4
<1>10. Arch!EnterTrap([csrBar EXCEPT !.meip = @ \/ interrupt_external_m,
                                     !.mtip = @ \/ interrupt_timer_m],
                      TRUE, cause, csrBar'.mtval)
  <2>1. csrBar = csr /\ d.mie = csr.mie
    BY <1>0, <1>8, OutOfM
  <2> HIDE DEF cause
  <2> QED
    BY <1>0, <1>9, <2>1, OutOfM DEF Arch!EnterTrap, TrapJumpAddr, ByHart
<1>11. csrBar = csr
  BY <1>0, OutOfM
<1> QED
  BY <1>3, <1>4, <1>9, <1>10, <1>11, HartOps DEF Arch!Interrupt

\* The edge at which an excepting instruction leaves M is an exception of the hart.
LEMMA ExceptionTaken ==
    ASSUME EncodablePrograms, Settled, Settled', Supported, Tick, M.valid_pc,
           is_instr_exception_m, ~interrupt_external_m, ~interrupt_timer_m
    PROVE  Arch!Exception
<1>1. ~M.control.load_store /\ M.control = MainDecoder(M.instr.op)
      /\ (M.illegal_instruction <=> M.instr.op \in IllegalOps)
  BY InM DEF Supported, Settled, HartInv, Decoded
<1>2. ~load_misaligned_m /\ ~store_misaligned_m
  BY <1>1, AccessControls DEF load_misaligned_m, store_misaligned_m
<1>3. M.instr_addr_misaligned \/ M.illegal_instruction \/ M.control.env_call
  BY <1>2 DEF is_instr_exception_m
<1> DEFINE op == M.instr.op
<1>4. M.control.env_call <=> op \in EnvOps
  BY <1>1, DecoderFields
<1>5. /\ M.pc_target = PcTarget(op, regs[M.instr.rs1], M.pc, M.instr.imm)
      /\ M.instr_addr_misaligned =>
           /\ op \in {"jal", "jalr", "mret"}
           /\ MisalignedTarget(IF op = "mret" THEN csr.mepc ELSE M.pc_target)
  BY <1>1, DecoderFields DEF Settled, HartInv, AloneInM
<1>6. ~M.control.csr_write
  <2>1. op \in IllegalOps \cup EnvOps \cup {"jal", "jalr", "mret"}
    BY <1>1, <1>3, <1>4, <1>5
  <2> QED
    BY <1>1, <2>1, DecoderFields DEF IllegalOps, EnvOps, CsrOps, CsrRegOps, CsrImmOps
<1>7. csr \in CsrFile /\ M.pc \in Nat
  BY WordFacts DEF Settled, TypeOK, CsrTypeOK, StageM
<1>8. M.pc - (M.pc % 2) = M.pc
  BY <1>7 DEF Settled, HartInv, Aligned
<1>9. IsException(W') /\ ~W'.interrupt_external /\ ~W'.interrupt_timer
  BY <1>3, TrapInW DEF IsException
<1>10. Arch!i = M.instr /\ Arch!a = regs[M.instr.rs1]
  <2>1. rom[RomIndex(M.pc)] = M.instr
    BY DEF Settled, StagesHoldProgram
  <2> QED
    BY <2>1, OutOfM, HartOperators DEF Arch!i, Arch!a
<1>11. TrapCause(W') = Arch!FaultCause
  <2>1. W'.illegal_instruction => op \in IllegalOps
    BY <1>1, TrapInW
  <2> QED
    BY <1>1, <1>2, <1>3, <1>4, <1>5, <1>10, TrapInW, HartOps
       DEF TrapCause, Arch!FaultCause, IllegalOps, EnvOps, LoadOps, StoreOps
<1>12. (IF W'.illegal_instruction THEN 0 ELSE AddrExcept(W')) = Arch!FaultValue
  BY <1>1, <1>2, <1>3, <1>4, <1>5, <1>10, TrapInW, HartOps, HartOperators, OutOfM
     DEF AddrExcept, Arch!FaultValue, IllegalOps, EnvOps, LoadOps, StoreOps
<1>13. csrBar' = ByHart(csr, M.pc, FALSE, Arch!FaultCause, Arch!FaultValue)
  <2>1. TrapCaught(W') /\ ~W'.control.csr_write /\ W'.pc - (W'.pc % 2) = M.pc
        /\ csrBar' = CsrAfter(csr, W') /\ (~IsException(W')) = FALSE
    BY <1>6, <1>8, <1>9, TrapInW, OutOfM
  <2>2. csr.meip <=> (csr.meip \/ W'.interrupt_external)
    BY <1>9
  <2>3. csr.mtip <=> (csr.mtip \/ W'.interrupt_timer)
    BY <1>9
  <2>4. CsrAfter(csr, W') = Trapped(csr, W'.pc - (W'.pc % 2), ~IsException(W'), TrapCause(W'),
                                    IF W'.illegal_instruction THEN 0 ELSE AddrExcept(W'))
    BY <1>7, <2>1, <2>2, <2>3, CsrTrapped
  <2>5. csrBar' = Trapped(csr, M.pc, FALSE, Arch!FaultCause, Arch!FaultValue)
    BY <1>11, <1>12, <2>1, <2>4
  <2>6. Arch!FaultCause \in 0 .. 15 /\ Arch!FaultValue \in Word /\ M.pc \in Word
    <3>1. TrapCause(W') \in 0 .. 15
      BY DEF TrapCause
    <3>2. M.pc \in Word /\ M.pc_target \in Word /\ M.alu_result \in Word
      BY DEF Settled, TypeOK, StageM
    <3> QED
      BY <1>11, <1>12, <3>1, <3>2, TrapInW, WordFacts DEF AddrExcept
  <2> QED
    BY <1>7, <2>5, <2>6, TrappedByHart
<1>14. Arch!EnterTrap(csrBar, FALSE, Arch!FaultCause, Arch!FaultValue)
  BY <1>13, OutOfM DEF Arch!EnterTrap, TrapJumpAddr, ByHart
<1>15. Arch!Faults
  <2>1. M.instr_addr_misaligned => Arch!Redirects /\ Arch!MisalignedTarget(Arch!Target)
    BY <1>5, <1>10, OutOfM, HartOperators DEF Arch!Redirects, Arch!Target
  <2> QED
    BY <1>1, <1>3, <1>4, <1>10, <2>1, HartOps DEF Arch!Faults
<1> QED
  BY <1>14, <1>15 DEF Arch!Exception

\* The pending bits when no interrupt arrives.
LEMMA PendingAfter ==
    ASSUME NEW c \in CsrFile, NEW w, ~w.interrupt_external, ~w.interrupt_timer
    PROVE  /\ CsrAfter(c, w).meip = IF Writes(w, "mip") THEN Bit(w.write_csr, 2048) ELSE c.meip
           /\ CsrAfter(c, w).mtip = IF Writes(w, "mip") THEN Bit(w.write_csr, 128) ELSE c.mtip
           /\ CsrAfter(c, w).msip = IF Writes(w, "mip") THEN Bit(w.write_csr, 8) ELSE c.msip
<1>1. ASSUME NEW p \in BOOLEAN, NEW arrived, ~arrived, NEW weight
      PROVE  NextPending(w, p, arrived, weight) =
               IF Writes(w, "mip") THEN Bit(w.write_csr, weight) ELSE p
  BY <1>1 DEF NextPending, Bit
<1>2. c.meip \in BOOLEAN /\ c.mtip \in BOOLEAN /\ c.msip \in BOOLEAN
  BY DEF CsrFile
<1>3. NextPending(w, c.meip, w.interrupt_external, 2048) =
        IF Writes(w, "mip") THEN Bit(w.write_csr, 2048) ELSE c.meip
  BY <1>1, <1>2
<1>4. NextPending(w, c.mtip, w.interrupt_timer, 128) =
        IF Writes(w, "mip") THEN Bit(w.write_csr, 128) ELSE c.mtip
  BY <1>1, <1>2
<1>6. /\ CsrAfter(c, w).meip = NextPending(w, c.meip, w.interrupt_external, 2048)
      /\ CsrAfter(c, w).mtip = NextPending(w, c.mtip, w.interrupt_timer, 128)
  BY DEF CsrAfter
<1>7. CsrAfter(c, w).meip = IF Writes(w, "mip") THEN Bit(w.write_csr, 2048) ELSE c.meip
  BY <1>3, <1>6
<1>8. CsrAfter(c, w).mtip = IF Writes(w, "mip") THEN Bit(w.write_csr, 128) ELSE c.mtip
  BY <1>4, <1>6
<1>9. CsrAfter(c, w).msip = IF Writes(w, "mip") THEN Bit(w.write_csr, 8) ELSE c.msip
  <2>1. CASE Writes(w, "mip")
    BY <2>1 DEF CsrAfter, NextPending, Bit
  <2>2. CASE ~Writes(w, "mip")
    BY <1>2, <2>2 DEF CsrAfter, NextPending
  <2> QED
    BY <2>1, <2>2
<1> QED
  BY <1>7, <1>8, <1>9

\* The return from a trap.
ByReturn(c) == [c EXCEPT !.mie = c.mpie, !.mpie = TRUE]

LEMMA CsrReturned ==
    ASSUME NEW c \in CsrFile, NEW w, ~TrapCaught(w), w.control.mret_instr, ~w.control.csr_write
    PROVE  CsrAfter(c, w) = ByReturn(c)
<1> DEFINE r == CsrAfter(c, w)
           t == ByReturn(c)
<1>1. \A name : ~Writes(w, name)
  BY DEF Writes
<1>2. ~w.interrupt_external /\ ~w.interrupt_timer
  BY DEF TrapCaught
<1>3. t \in CsrFile
  BY DEF ByReturn, CsrFile
<1>4. /\ t.mie = c.mpie /\ t.mpie = TRUE /\ t.meie = c.meie /\ t.mtie = c.mtie
      /\ t.msie = c.msie /\ t.meip = c.meip /\ t.mtip = c.mtip /\ t.msip = c.msip
      /\ t.mtvec = c.mtvec /\ t.mepc = c.mepc /\ t.mtval = c.mtval /\ t.mscratch = c.mscratch
      /\ t.interrupt = c.interrupt /\ t.code = c.code
  BY DEF ByReturn, CsrFile
<1>5. r.mie = c.mpie /\ r.mpie = TRUE
  BY DEF CsrAfter, NextMstatus
<1>6. r.meie = c.meie /\ r.mtie = c.mtie /\ r.msie = c.msie /\ r.mtvec = c.mtvec
      /\ r.mepc = c.mepc /\ r.mtval = c.mtval /\ r.mscratch = c.mscratch
      /\ r.interrupt = c.interrupt /\ r.code = c.code
  BY <1>1 DEF CsrAfter
<1>7. r.meip = c.meip /\ r.mtip = c.mtip /\ r.msip = c.msip
  BY <1>1, <1>2, PendingAfter
<1> HIDE DEF r, t
<1>8. r = t
  <2>1. Csrs(r)
    BY CsrAfterIsCsrs DEF r
  <2> QED
    BY <1>3, <1>4, <1>5, <1>6, <1>7, <2>1, CsrFileIsCsrs, SameCsrs
<1> QED
  BY <1>8 DEF r, t

\* A CSR instruction.
ByWrite(c, name, v) ==
    CASE name = "mstatus"  -> [c EXCEPT !.mie = Bit(v, 8)]
      [] name = "mie"      -> [c EXCEPT !.meie = Bit(v, 2048), !.mtie = Bit(v, 128),
                                        !.msie = Bit(v, 8)]
      [] name = "mip"      -> [c EXCEPT !.meip = Bit(v, 2048), !.mtip = Bit(v, 128),
                                        !.msip = Bit(v, 8)]
      [] name = "mtvec"    -> [c EXCEPT !.mtvec = v]
      [] name = "mepc"     -> [c EXCEPT !.mepc = v - (v % 2)]
      [] name = "mtval"    -> [c EXCEPT !.mtval = v]
      [] name = "mscratch" -> [c EXCEPT !.mscratch = v]
      [] OTHER             -> c

LEMMA CsrWritten ==
    ASSUME NEW c \in CsrFile, NEW w, ~TrapCaught(w), ~w.control.mret_instr,
           w.control.csr_write, w.write_csr \in Word
    PROVE  CsrAfter(c, w) = ByWrite(c, w.instr.csr, w.write_csr)
<1> DEFINE r == CsrAfter(c, w)
           name == w.instr.csr
           v == w.write_csr
           t == ByWrite(c, name, v)
<1>1. \A n : Writes(w, n) <=> name = n
  BY DEF Writes
<1>2. ~w.interrupt_external /\ ~w.interrupt_timer
  BY DEF TrapCaught
<1> HIDE DEF name, v
<1>3. /\ v - (v % 2) \in Word
      /\ Bit(v, 8) \in BOOLEAN /\ Bit(v, 128) \in BOOLEAN /\ Bit(v, 2048) \in BOOLEAN
  BY AlignType DEF Bit, v
<1>4. t \in CsrFile
  <2>1. v \in Word
    BY DEF v
  <2>2. [c EXCEPT !.mie = Bit(v, 8)] \in CsrFile
    BY <1>3 DEF CsrFile
  <2> DEFINE p == Bit(v, 2048)
             q == Bit(v, 128)
             s == Bit(v, 8)
  <2>b. p \in BOOLEAN /\ q \in BOOLEAN /\ s \in BOOLEAN
    BY <1>3
  <2> HIDE DEF p, q, s
  <2>3. [c EXCEPT !.meie = p, !.mtie = q, !.msie = s] \in CsrFile
    BY <2>b DEF CsrFile
  <2>4. [c EXCEPT !.meip = p, !.mtip = q, !.msip = s] \in CsrFile
    BY <2>b DEF CsrFile
  <2>5. [c EXCEPT !.mtvec = v] \in CsrFile /\ [c EXCEPT !.mtval = v] \in CsrFile
        /\ [c EXCEPT !.mscratch = v] \in CsrFile
    BY <2>1 DEF CsrFile
  <2>6. [c EXCEPT !.mepc = v - (v % 2)] \in CsrFile
    BY <1>3 DEF CsrFile, v
  <2> QED
    BY <2>2, <2>3, <2>4, <2>5, <2>6 DEF ByWrite, p, q, s
<1>5. /\ r.mie = IF name = "mstatus" THEN Bit(v, 8) ELSE c.mie
      /\ r.mpie = c.mpie
  BY <1>1 DEF CsrAfter, NextMstatus, v
<1>6. /\ r.meie = IF name = "mie" THEN Bit(v, 2048) ELSE c.meie
      /\ r.mtie = IF name = "mie" THEN Bit(v, 128) ELSE c.mtie
      /\ r.msie = IF name = "mie" THEN Bit(v, 8) ELSE c.msie
      /\ r.mtvec = IF name = "mtvec" THEN v ELSE c.mtvec
      /\ r.mepc = IF name = "mepc" THEN v - (v % 2) ELSE c.mepc
      /\ r.mtval = IF name = "mtval" THEN v ELSE c.mtval
      /\ r.mscratch = IF name = "mscratch" THEN v ELSE c.mscratch
      /\ r.interrupt = c.interrupt /\ r.code = c.code
  BY <1>1 DEF CsrAfter, v
<1>7. /\ r.meip = IF name = "mip" THEN Bit(v, 2048) ELSE c.meip
      /\ r.mtip = IF name = "mip" THEN Bit(v, 128) ELSE c.mtip
      /\ r.msip = IF name = "mip" THEN Bit(v, 8) ELSE c.msip
  BY <1>1, <1>2, PendingAfter DEF v
<1>8. /\ t.mie = IF name = "mstatus" THEN Bit(v, 8) ELSE c.mie
      /\ t.mpie = c.mpie
      /\ t.meie = IF name = "mie" THEN Bit(v, 2048) ELSE c.meie
      /\ t.mtie = IF name = "mie" THEN Bit(v, 128) ELSE c.mtie
      /\ t.msie = IF name = "mie" THEN Bit(v, 8) ELSE c.msie
  BY DEF ByWrite, CsrFile
<1>9. /\ t.mtvec = IF name = "mtvec" THEN v ELSE c.mtvec
      /\ t.mepc = IF name = "mepc" THEN v - (v % 2) ELSE c.mepc
      /\ t.mtval = IF name = "mtval" THEN v ELSE c.mtval
      /\ t.mscratch = IF name = "mscratch" THEN v ELSE c.mscratch
      /\ t.interrupt = c.interrupt /\ t.code = c.code
  BY DEF ByWrite, CsrFile
<1>10. /\ t.meip = IF name = "mip" THEN Bit(v, 2048) ELSE c.meip
       /\ t.mtip = IF name = "mip" THEN Bit(v, 128) ELSE c.mtip
       /\ t.msip = IF name = "mip" THEN Bit(v, 8) ELSE c.msip
  BY DEF ByWrite, CsrFile
<1> HIDE DEF r, t
<1>11. r = t
  <2>1. Csrs(r)
    BY CsrAfterIsCsrs DEF r
  <2> QED
    BY <1>4, <1>5, <1>6, <1>7, <1>8, <1>9, <1>10, <2>1, CsrFileIsCsrs, SameCsrs
<1> QED
  BY <1>11 DEF r, t, name, v

\* What the hart sees of the instruction in E.
LEMMA HartInE ==
    ASSUME EncodablePrograms, Settled, Settled', Tick, E.valid
    PROVE  /\ Arch!i = E.instr /\ Arch!a = regs[E.instr.rs1] /\ Arch!b = regs[E.instr.rs2]
           /\ Arch!a = src_a_e /\ Arch!b = src_b_e /\ Arch!a = E.rd1
           /\ Arch!Target = jump_pc_target_e
           /\ Arch!Address = AluResult(E.instr.op, src_a_e, src_b_e, E.instr.imm)
<1>1. rom[RomIndex(E.pc)] = E.instr
  BY DEF Settled, StagesHoldProgram
<1>2. Arch!i = E.instr /\ Arch!a = regs[E.instr.rs1] /\ Arch!b = regs[E.instr.rs2]
  BY <1>1, IntoM, HartOperators DEF Arch!i, Arch!a, Arch!b
<1>3. Arch!a = src_a_e /\ Arch!b = src_b_e /\ Arch!a = E.rd1
  BY <1>2, InE
<1>4. Arch!Target = jump_pc_target_e
  BY <1>2, <1>3, IntoM, HartOperators, RedirectionOfE DEF Arch!Target, pc_target_e
<1>5. Arch!Address = AluResult(E.instr.op, src_a_e, src_b_e, E.instr.imm)
  BY <1>2, <1>3, HartOperators DEF Arch!Address
<1> QED
  BY <1>2, <1>3, <1>4, <1>5

\* The instruction that goes to M without an exception.
LEMMA Passing ==
    ASSUME EncodablePrograms, Settled, Settled', Tick, E.valid, ~is_instr_exception_m'
    PROVE  /\ E.instr.op \notin IllegalOps \cup EnvOps
           /\ E.instr \in Instruction /\ Encodable(E.instr)
           /\ ~misaligned_pc_e /\ ~is_instr_exception_e
           /\ ExecutedM' /\ ~TrapCaught(DrainedM')
           /\ M'.instr = E.instr /\ M'.control = MainDecoder(E.instr.op) /\ M'.pc = E.pc
           /\ M'.pc_target = pc_target_e /\ M'.write_data = src_b_e
           /\ M'.alu_result = IF E.instr.op \in CsrOps THEN read_csr_e
                              ELSE AluResult(E.instr.op, src_a_e, src_b_e, E.instr.imm)
           /\ M'.write_csr = WriteCsr(E.instr.op, read_csr_e, src_a_e, E.instr.imm)
<1>1. E.control = MainDecoder(E.instr.op) /\ src_a_e = E.rd1
  BY InE
<1>2. Encodable(E.instr) /\ E.instr \in Instruction
  BY StagesEncodable DEF Settled, TypeOK, StageE
<1>3. ~E.illegal_instruction /\ ~E.control.env_call /\ ~misaligned_pc_e
  BY MemoryTakes DEF is_instr_exception_m
<1>4. E.instr.op \notin IllegalOps \cup EnvOps
  BY <1>1, <1>3, DecoderFields DEF Settled, HartInv, Decoded
<1>5. ~is_instr_exception_e
  BY <1>3 DEF is_instr_exception_e
<1>6. ExecutedM'
  BY IntoM DEF ExecutedM
<1>7. ~TrapCaught(DrainedM')
  BY DEF DrainedM, ToWriteback, TrapCaught, IsException, is_instr_exception_m
<1>8. data_output_from_execute =
        IF E.instr.op \in CsrOps THEN read_csr_e
        ELSE AluResult(E.instr.op, src_a_e, src_b_e, E.instr.imm)
  BY <1>1, <1>2, DecoderFields DEF data_output_from_execute, Encodable
<1> QED
  BY <1>1, <1>2, <1>3, <1>4, <1>5, <1>6, <1>7, <1>8, MemoryTakes

\* It is not one that faults.
LEMMA PassingIsFaultless ==
    ASSUME EncodablePrograms, Settled, Settled', Tick, E.valid, ~is_instr_exception_m'
    PROVE  ~Arch!Faults
<1> DEFINE op == E.instr.op
<1>1. op \notin IllegalOps \cup EnvOps
  BY Passing
<1>2. ~(Arch!Redirects /\ Arch!MisalignedTarget(Arch!Target))
  <2> SUFFICES ASSUME Arch!Redirects PROVE ~MisalignedTarget(jump_pc_target_e)
    BY HartInE, HartOperators
  <2>1. CASE op \in {"jal", "jalr", "mret"}
    BY <2>1, Passing, RedirectionOfE DEF misaligned_pc_e
  <2>2. CASE op \in BranchOps
    <3>1. jump_pc_target_e % 4 = 0
      BY <2>2, RedirectionOfE
    <3>2. jump_pc_target_e \in Nat
      BY TargetTypes, WordFacts DEF Settled
    <3> QED
      BY <3>1, <3>2 DEF MisalignedTarget, Bit
  <2>3. op \in {"jal", "jalr", "mret"} \/ op \in BranchOps
    BY HartInE, HartOperators DEF Arch!Redirects, TakeBranch, BranchOps
  <2> QED
    BY <2>1, <2>2, <2>3
<1>3. op \in LoadOps \cup StoreOps => ~MisalignedWord(Arch!Address)
  <2> SUFFICES ASSUME op \in LoadOps \cup StoreOps PROVE ~MisalignedWord(Arch!Address)
    OBVIOUS
  <2>1. M'.alu_result = Arch!Address
    BY Passing, HartInE DEF LoadOps, StoreOps, CsrOps, CsrRegOps, CsrImmOps
  <2>2. M'.control.load_store /\ (M'.control.mem_write <=> op \in StoreOps)
    BY Passing, DecoderFields
  <2>3. ~load_misaligned_m' /\ ~store_misaligned_m'
    BY DEF is_instr_exception_m
  <2> QED
    BY <2>1, <2>2, <2>3 DEF load_misaligned_m, store_misaligned_m
<1> QED
  BY <1>1, <1>2, <1>3, HartInE, HartOps, HartOperators DEF Arch!Faults

\* The pc is where the hart goes on.
LEMMA PcFollowsHart ==
    ASSUME EncodablePrograms, Settled, Settled', Tick, E.valid, ~is_instr_exception_m'
    PROVE  pcBar' = Arch!NextPc
<1> DEFINE op == E.instr.op
<1>1. pcBar' = pc_f'
  BY IntoM
<1>2. pc_f' = IF pc_src_e
              THEN (IF is_mispredict_ntbranch_e THEN pc_plus4_e ELSE jump_pc_target_e)
              ELSE pc_f
  BY Passing, PcRedirected
<1>3. E.control = MainDecoder(op) /\ ~D.valid
  BY InE, Spaced
<1>4. (take_branch_e <=> TakeBranch(op, Arch!a, Arch!b)) /\ (E.control.branch <=> op \in BranchOps)
  <2>1. E.control.branch <=> op \in BranchOps
    BY <1>3, DecoderFields
  <2>2. TakeBranch(op, src_a_e, src_b_e) => op \in BranchOps
    BY DEF TakeBranch, BranchOps
  <2> QED
    BY <2>1, <2>2, HartInE DEF take_branch_e
<1>5. Arch!Redirects <=> op \in {"jal", "jalr", "mret"} \/ take_branch_e
  BY <1>4, HartInE, HartOperators DEF Arch!Redirects
<1>6. Arch!NextPc = IF Arch!Redirects THEN jump_pc_target_e ELSE pc_plus4_e
  BY HartInE, IntoM, HartOperators DEF Arch!NextPc, pc_plus4_e
<1>7. is_mispredict_tbranch_e <=> op \in BranchOps /\ take_branch_e /\ jump_pc_target_e # pc_f
  BY <1>3, <1>4 DEF is_mispredict_tbranch_e, MispredictTaken, Followed
<1>8. is_mispredict_ntbranch_e <=> op \in BranchOps /\ ~take_branch_e /\ pc_plus4_e # pc_f
  BY <1>3, <1>4 DEF is_mispredict_ntbranch_e, MispredictNotTaken, Followed
<1>9. E.control.jump <=> op \in {"jal", "jalr", "mret"}
  BY <1>3, DecoderFields
<1>10. op \notin BranchOps => pc_f = pc_plus4_e
  BY DEF Settled, HartInv, Following, pc_plus4_e
<1>11. op \in BranchOps => op \notin {"jal", "jalr", "mret"}
  BY DEF BranchOps
<1>12. take_branch_e => op \in BranchOps
  BY <1>4 DEF take_branch_e
<1> QED
  BY <1>1, <1>2, <1>5, <1>6, <1>7, <1>8, <1>9, <1>10, <1>11, <1>12 DEF pc_src_e

\* The registers, the memory and the CSRs it leaves.
LEMMA PassingLeaves ==
    ASSUME EncodablePrograms, Settled, Settled', Tick, E.valid, ~is_instr_exception_m'
    PROVE  /\ xBar' = IF M'.control.reg_write THEN Arch!Put(E.instr.rd, ResultOfM') ELSE xBar
           /\ memBar' = IF E.instr.op \in StoreOps
                        THEN [mem EXCEPT ![MemIndex(M'.alu_result)] = src_b_e] ELSE mem
           /\ csrBar' = CsrAfter(csr, DrainedM')
<1>1. xBar' = IF M'.control.reg_write /\ M'.instr.rd # 0
              THEN [RegFile' EXCEPT ![M'.instr.rd] = ResultOfM'] ELSE RegFile'
  BY Passing DEF xBar
<1>2. xBar' = IF M'.control.reg_write THEN Arch!Put(E.instr.rd, ResultOfM') ELSE xBar
  BY <1>1, IntoM, Passing DEF Arch!Put
<1>3. M'.control.mem_write <=> E.instr.op \in StoreOps
  BY Passing, DecoderFields
<1>4. memBar' = IF E.instr.op \in StoreOps
                THEN [mem EXCEPT ![MemIndex(M'.alu_result)] = src_b_e] ELSE mem
  BY <1>3, IntoM, Passing DEF memBar
<1>5. csrBar' = CsrAfter(CsrAfter(csr', W'), DrainedM')
  BY Passing DEF csrBar
<1> QED
  BY <1>2, <1>4, <1>5, IntoM

LEMMA SetCsrByWrite ==
    ASSUME NEW name, NEW v
    PROVE  Arch!SetCsr(name, v) = ByWrite(csrBar, name, v)
BY DEF Arch!SetCsr, ByWrite, Arch!Bit, Bit

\* A CSR other than the counter reads the same whatever was counted.
LEMMA ReadWithoutCounter ==
    ASSUME NEW c, NEW n, NEW name \in CsrNames, name # "minstret"
    PROVE  ReadCsr(c, n, name) = ReadCsr(c, 0, name)
BY DEF ReadCsr, CsrValues, CsrNames

\* The operations that leave the CSRs alone.
LEMMA CsrsStay ==
    ASSUME EncodablePrograms, Settled, Settled', Tick, E.valid, ~is_instr_exception_m',
           E.instr.op \notin CsrOps, E.instr.op # "mret"
    PROVE  csrBar' = csrBar
<1>1. DrainedM'.control = MainDecoder(E.instr.op)
  BY Passing DEF DrainedM, ToWriteback
<1>2. ~DrainedM'.control.csr_write /\ ~DrainedM'.control.mret_instr
  BY <1>1, DecoderFields
<1>3. csr \in CsrFile
  BY DEF Settled, TypeOK, CsrTypeOK
<1> QED
  BY <1>2, <1>3, Passing, PassingLeaves, IntoM, CsrKept

\* What each kind of operation leaves.
LEMMA ComputeDone ==
    ASSUME EncodablePrograms, Settled, Settled', Tick, E.valid, ~is_instr_exception_m',
           E.instr.op \in AluOps \cup {"mul", "jal", "jalr", "auipc"}
    PROVE  Arch!Compute
<1> DEFINE op == E.instr.op
<1>1. op \notin CsrOps /\ op # "mret" /\ op \notin StoreOps /\ op \notin LoadOps /\ op # "divu"
  BY DEF AluOps, CsrOps, CsrRegOps, CsrImmOps, StoreOps, LoadOps
<1>2. csrBar' = csrBar /\ memBar' = memBar
  BY <1>1, CsrsStay, PassingLeaves, IntoM
<1>3. M'.control.reg_write /\ M'.control.result_src = ResultSource(op)
  BY Passing, DecoderFields
<1>4. M'.alu_result = Arch!Address
  BY <1>1, Passing, HartInE
<1>5. op = "auipc" => M'.pc_target = Arch!Target
  BY Passing, HartInE, RedirectionOfE
<1>6. ResultOfM' = CASE op \in {"jal", "jalr"} -> Wrap(E.pc + 4)
                     [] op = "auipc" -> Arch!Target
                     [] OTHER        -> Arch!Address
  BY <1>1, <1>3, <1>4, <1>5, Passing DEF ResultOfM, ResultSource
<1>7. xBar' = Arch!Put(E.instr.rd, CASE op \in {"jal", "jalr"} -> Arch!Wrap(pcBar + 4)
                                     [] op = "auipc" -> Arch!Target
                                     [] op = "divu"  -> Arch!Quotient(Arch!a, Arch!b)
                                     [] OTHER        -> Arch!Address)
  BY <1>1, <1>3, <1>6, PassingLeaves, IntoM, HartOperators
<1> QED
  BY <1>2, <1>7, HartInE, HartOps DEF Arch!Compute

LEMMA LoadDone ==
    ASSUME EncodablePrograms, Settled, Settled', Tick, E.valid, ~is_instr_exception_m',
           E.instr.op \in LoadOps
    PROVE  Arch!Load
<1> DEFINE op == E.instr.op
<1>1. op \notin CsrOps /\ op # "mret" /\ op \notin StoreOps
  BY DEF LoadOps, CsrOps, CsrRegOps, CsrImmOps, StoreOps
<1>2. csrBar' = csrBar /\ memBar' = memBar
  BY <1>1, CsrsStay, PassingLeaves, IntoM
<1>3. M'.control.reg_write /\ M'.control.result_src = "mem"
  <2>1. ResultSource(op) = "mem"
    BY DEF ResultSource, LoadOps
  <2> QED
    BY <2>1, Passing, DecoderFields
<1>4. M'.alu_result = Arch!Address
  BY <1>1, Passing, HartInE
<1>5. ResultOfM' = memBar[MemIndex(Arch!Address)]
  BY <1>3, <1>4, IntoM DEF ResultOfM
<1>6. xBar' = Arch!Put(E.instr.rd, memBar[Arch!MemIndex(Arch!Address)])
  BY <1>3, <1>5, PassingLeaves, HartOperators
<1> QED
  BY <1>2, <1>6, HartInE, HartOps DEF Arch!Load

LEMMA StoreDone ==
    ASSUME EncodablePrograms, Settled, Settled', Tick, E.valid, ~is_instr_exception_m',
           E.instr.op \in StoreOps
    PROVE  Arch!Store
<1> DEFINE op == E.instr.op
<1>1. op \notin CsrOps /\ op # "mret"
        /\ op \notin AluOps \cup LoadOps \cup CsrOps \cup {"mul", "divu", "jal", "jalr", "auipc"}
  BY DEF StoreOps, CsrOps, CsrRegOps, CsrImmOps, AluOps, LoadOps
<1>2. ~M'.control.reg_write
  BY <1>1, Passing, DecoderFields
<1>3. csrBar' = csrBar /\ xBar' = xBar
  BY <1>1, <1>2, CsrsStay, PassingLeaves
<1>4. M'.alu_result = Arch!Address
  BY <1>1, Passing, HartInE
<1>5. memBar' = [memBar EXCEPT ![Arch!MemIndex(Arch!Address)] = Arch!b]
  BY <1>4, PassingLeaves, IntoM, HartInE, HartOperators
<1> QED
  BY <1>3, <1>5, HartInE, HartOps DEF Arch!Store

LEMMA NoEffectDone ==
    ASSUME EncodablePrograms, Settled, Settled', Tick, E.valid, ~is_instr_exception_m',
           E.instr.op \in BranchOps \cup {"fence"}
    PROVE  Arch!NoEffect
<1> DEFINE op == E.instr.op
<1>1. op \notin CsrOps /\ op # "mret" /\ op \notin StoreOps
        /\ op \notin AluOps \cup LoadOps \cup CsrOps \cup {"mul", "divu", "jal", "jalr", "auipc"}
  BY DEF BranchOps, StoreOps, CsrOps, CsrRegOps, CsrImmOps, AluOps, LoadOps
<1>2. ~M'.control.reg_write
  BY <1>1, Passing, DecoderFields
<1>3. csrBar' = csrBar /\ xBar' = xBar /\ memBar' = memBar
  BY <1>1, <1>2, CsrsStay, PassingLeaves, IntoM
<1> QED
  BY <1>3, HartInE, HartOps DEF Arch!NoEffect

LEMMA ReturnDone ==
    ASSUME EncodablePrograms, Settled, Settled', Tick, E.valid, ~is_instr_exception_m',
           E.instr.op = "mret"
    PROVE  Arch!Return
<1> DEFINE op == E.instr.op
<1>1. op \notin CsrOps /\ op \notin StoreOps
        /\ op \notin AluOps \cup LoadOps \cup CsrOps \cup {"mul", "divu", "jal", "jalr", "auipc"}
  BY DEF StoreOps, CsrOps, CsrRegOps, CsrImmOps, AluOps, LoadOps
<1>2. ~M'.control.reg_write
  BY <1>1, Passing, DecoderFields
<1>3. xBar' = xBar /\ memBar' = memBar
  BY <1>1, <1>2, PassingLeaves, IntoM
<1>4. DrainedM'.control.mret_instr /\ ~DrainedM'.control.csr_write
  BY <1>1, Passing, DecoderFields DEF DrainedM, ToWriteback
<1>5. csr \in CsrFile
  BY DEF Settled, TypeOK, CsrTypeOK
<1>6. csrBar' = ByReturn(csrBar)
  BY <1>4, <1>5, Passing, PassingLeaves, IntoM, CsrReturned
<1> QED
  BY <1>3, <1>6, HartInE DEF Arch!Return, ByReturn

LEMMA AccessCsrDone ==
    ASSUME EncodablePrograms, Settled, Settled', Tick, E.valid, ~is_instr_exception_m',
           E.instr.op \in CsrOps
    PROVE  Arch!AccessCsr
<1> DEFINE op == E.instr.op
           old == ReadCsr(csr, 0, E.instr.csr)
           new == WriteCsr(op, old, src_a_e, E.instr.imm)
<1>1. op \notin StoreOps /\ op # "mret"
  BY DEF StoreOps, CsrOps, CsrRegOps, CsrImmOps
<1>2. memBar' = memBar
  BY <1>1, PassingLeaves, IntoM
<1>3. read_csr_e = old
  <2>1. E.instr.csr \in CsrNames /\ E.instr.csr # "minstret"
    BY Passing DEF Instruction, Encodable
  <2> QED
    BY <2>1, ReadWithoutCounter DEF read_csr_e
<1>4. xBar' = Arch!Put(E.instr.rd, old)
  <2>1. M'.control.reg_write /\ M'.control.result_src = "alu"
    <3>1. ResultSource(op) = "alu"
      BY DEF ResultSource, CsrOps, CsrRegOps, CsrImmOps, LoadOps
    <3> QED
      BY <3>1, Passing, DecoderFields
  <2>2. M'.alu_result = old
    BY <1>3, Passing
  <2> QED
    BY <2>1, <2>2, PassingLeaves DEF ResultOfM
<1>5. csrBar' = ByWrite(csr, E.instr.csr, new)
  <2>1. /\ DrainedM'.control.csr_write /\ ~DrainedM'.control.mret_instr
        /\ DrainedM'.instr = E.instr /\ DrainedM'.write_csr = new
    <3>1. DrainedM'.control = MainDecoder(op) /\ DrainedM'.instr = M'.instr
          /\ DrainedM'.write_csr = M'.write_csr
      BY Passing DEF DrainedM, ToWriteback
    <3> QED
      BY <1>1, <1>3, <3>1, Passing, DecoderFields
  <2>2. new \in Word
    <3>1. M'.write_csr \in Word
      BY DEF Settled, TypeOK, StageM
    <3> QED
      BY <1>3, <3>1, Passing
  <2>3. csr \in CsrFile
    BY DEF Settled, TypeOK, CsrTypeOK
  <2> HIDE DEF new
  <2>4. CsrAfter(csr, DrainedM') = ByWrite(csr, DrainedM'.instr.csr, DrainedM'.write_csr)
    BY <2>1, <2>2, <2>3, Passing, CsrWritten
  <2> QED
    BY <2>1, <2>4, PassingLeaves
<1>6. Arch!ReadCsr(csrBar, 0, Arch!i.csr) = old
  BY HartInE, IntoM, HartOperators
<1>7. Arch!WriteCsr(Arch!i.op, old, Arch!a, Arch!i.imm) = new
  BY HartInE, HartWrites
<1>8. csrBar' = Arch!SetCsr(Arch!i.csr, new)
  BY <1>5, HartInE, IntoM, SetCsrByWrite
<1> HIDE DEF old, new
<1> QED
  BY <1>2, <1>4, <1>6, <1>7, <1>8, HartInE, HartOps DEF Arch!AccessCsr

\* The edge that takes an instruction into M completes it.
LEMMA Completion ==
    ASSUME EncodablePrograms, Settled, Settled', Tick, E.valid, ~is_instr_exception_m'
    PROVE  Arch!Complete
<1>1. ~Arch!Faults /\ pcBar' = Arch!NextPc /\ rom' = rom
  BY PassingIsFaultless, PcFollowsHart, IntoM
<1>2. Arch!Compute \/ Arch!Load \/ Arch!Store \/ Arch!NoEffect \/ Arch!Return \/ Arch!AccessCsr
  <2>1. E.instr.op \in Ops /\ E.instr.op \notin IllegalOps \cup EnvOps /\ E.instr.op # "divu"
    BY Passing DEF Instruction, Encodable
  <2>2. \/ E.instr.op \in AluOps \cup {"mul", "jal", "jalr", "auipc"}
        \/ E.instr.op \in LoadOps \/ E.instr.op \in StoreOps
        \/ E.instr.op \in BranchOps \cup {"fence"}
        \/ E.instr.op = "mret" \/ E.instr.op \in CsrOps
    BY <2>1 DEF Ops
  <2> QED
    BY <2>2, ComputeDone, LoadDone, StoreDone, NoEffectDone, ReturnDone, AccessCsrDone
<1> QED
  BY <1>1, <1>2 DEF Arch!Complete

\* One clock edge is one step of the hart or none.
LEMMA HartStep ==
    ASSUME EncodablePrograms, Settled, Settled', Supported, Supported', Tick
    PROVE  HartRests \/ Arch!HartNext
<1>1. CASE TrapW
  BY <1>1, TrapRests
<1>2. CASE E.valid
  BY <1>2, ExceptingRests, Completion DEF Arch!HartNext
<1>3. CASE M.valid_pc /\ is_instr_exception_m /\ (interrupt_external_m \/ interrupt_timer_m)
  <2>1. interrupt_external_m \in BOOLEAN /\ interrupt_timer_m \in BOOLEAN
    BY DEF interrupt_external_m, interrupt_timer_m, EdgeDetected, Settled, TypeOK, CsrTypeOK, EdgeRegs
  <2> QED
    BY <1>3, <2>1, InterruptTaken DEF Arch!HartNext
<1>4. CASE M.valid_pc /\ is_instr_exception_m /\ ~interrupt_external_m /\ ~interrupt_timer_m
  BY <1>4, ExceptionTaken DEF Arch!HartNext
<1>5. CASE M.valid_pc /\ ~is_instr_exception_m
  BY <1>5, WaitingRests, LeavingRests
<1>6. CASE ~TrapW /\ ~E.valid /\ ~M.valid_pc
  BY <1>6, FrontRests
<1> QED
  BY <1>1, <1>2, <1>3, <1>4, <1>5, <1>6

\* The pipeline implements the hart: instructions take effect in program order, once and
\* completely, on the operands the hart would give them, and traps are precise, whatever
\* the slaves make the ports wait (datapath.vhd, control_unit.vhd, hazard_unit.vhd,
\* csr_exec.vhd).  It holds for programs without divisions and minstret, in executions
\* that spare the core what Supported lists.
THEOREM ProcessorImplementsHart ==
    ASSUME EncodablePrograms
    PROVE  Spec /\ []Supported => ImplementsHart
<1>1. Settled /\ Settled' /\ Supported /\ Supported' /\ [Tick]_vars
        => [Arch!HartNext]_(Arch!hartVars)
  <2> SUFFICES ASSUME Settled, Settled', Supported, Supported', [Tick]_vars
               PROVE  [Arch!HartNext]_(Arch!hartVars)
    OBVIOUS
  <2>1. HartRests => UNCHANGED Arch!hartVars
    BY DEF HartRests, Arch!hartVars
  <2>2. CASE Tick
    BY <2>1, <2>2, HartStep
  <2>3. CASE UNCHANGED vars
    <3>1. HartRests
      BY <2>3 DEF vars, csrRegs, hazardRegs, HartRests, pcBar, xBar, memBar, csrBar,
         ExecutedM, DrainedM, ResultOfM, TrapW, RegFile, result_w, reg_write_w, rd_w,
         is_instr_exception_w, is_instr_exception_m, load_misaligned_m, store_misaligned_m,
         interrupt_external_m, interrupt_timer_m, EdgeDetected, CsrAfter, TrapJumpAddr
    <3> QED
      BY <2>1, <3>1
  <2> QED
    BY <2>2, <2>3
<1>2. Spec /\ []Supported => []Settled
  BY SettledInvariant
<1> QED
  BY <1>1, <1>2, PTL DEF Spec, ImplementsHart, Arch!HartSafety
====
