---- MODULE Processor ----
(***************************************************************************)
(* processor.vhd, core_riscv.vhd, datapath.vhd and the stage registers of  *)
(* control_unit.vhd: the five-stage pipeline between its two Wishbone      *)
(* master ports.  One step is one rising edge of the clock after reset;    *)
(* every register below has one action that gives its next value, and Tick *)
(* is their conjunction.  Signals keep the names of the source.            *)
(*                                                                         *)
(* The program is an element of Programs, chosen in the initial state.     *)
(* The slaves behind the two ports are the environment: a request is       *)
(* acknowledged after a number of wait cycles out of FetchWaits or         *)
(* DataWaits.  The interrupt lines change freely at every edge.            *)
(***************************************************************************)
EXTENDS CsrExec, BranchPredictor, DivUnit, HazardUnit

CONSTANTS
    Programs,       \* contents of the instruction memory, functions on 0..RomWords-1
    InitRegs,       \* contents of the register file before the program sets them
    InitMems,       \* contents of the data memory
    FetchWaits,     \* cycles without ack of an instruction fetch
    DataWaits,      \* cycles without ack of a data access
    IdleBus,        \* what the data bus carries while no ack is high
    ExternalLine, TimerLine   \* levels the interrupt lines may have

ASSUME ProcessorAssumption ==
    /\ Programs \subseteq [0 .. RomWords - 1 -> Instruction]
    /\ InitRegs \subseteq {x \in [RegIds -> Word] : x[0] = 0}   \* register 0 reads as zero
    /\ InitMems \subseteq [0 .. MemWords - 1 -> Word]
    /\ FetchWaits \subseteq Nat \ {0}   \* both ROMs register their ack
    /\ DataWaits \subseteq Nat
    /\ IdleBus \in Word
    /\ ExternalLine \subseteq BOOLEAN /\ TimerLine \subseteq BOOLEAN

VARIABLES
    rom,            \* the program
    mem,            \* the data memory
    regs,           \* register_file
    pc_f, D, E, M, W,   \* the pc and the four pipeline registers
    decoder_latch,  \* outputs of the main decoder, which an illegal opcode keeps
    iport, dport    \* the Wishbone port machines, with the wait cycles left

----
\* Decode stage.
illegal_instruction_d == D.instr.op = "illegal" \/ (D.instr.op = "zero" /\ D.valid)
control_d == IF D.instr.op = "illegal" THEN decoder_latch ELSE MainDecoder(D.instr.op)
div_instr_d == D.instr.op = "divu"
rs1_d == D.instr.rs1
rs2_d == D.instr.rs2

\* Write-back stage.
TrapW == TrapCaught(W)
is_instr_exception_w == TrapW
trap_caught == TrapW
result_w == CASE W.control.result_src = "alu"    -> W.alu_result
              [] W.control.result_src = "mem"    -> W.read_data
              [] W.control.result_src = "pc4"    -> Wrap(W.pc + 4)
              [] W.control.result_src = "target" -> W.pc_target
reg_write_w == W.control.reg_write
rd_w == W.instr.rd
illegal_instruction_w == W.illegal_instruction
csr_instr_w == W.control.csr_write

\* The register file is written at the falling edge, so D reads the new value.
RegFile == IF reg_write_w /\ ~is_instr_exception_w /\ rd_w # 0
           THEN [regs EXCEPT ![rd_w] = result_w] ELSE regs

\* Memory stage.  A masked request is never acknowledged.
load_misaligned_m  == M.control.load_store /\ ~M.control.mem_write /\ MisalignedWord(M.alu_result)
store_misaligned_m == M.control.mem_write /\ MisalignedWord(M.alu_result)
interrupt_external_m == EdgeDetected(edge_external)
interrupt_timer_m    == EdgeDetected(edge_timer)
is_instr_exception_m ==
    \/ M.instr_addr_misaligned \/ M.illegal_instruction \/ M.control.env_call
    \/ store_misaligned_m \/ load_misaligned_m
    \/ interrupt_external_m \/ interrupt_timer_m
load_store_m == M.control.load_store
reg_write_m == M.control.reg_write
rd_m == M.instr.rd
d_valid == load_store_m /\ ~is_instr_exception_m
d_we == M.control.mem_write /\ ~is_instr_exception_m

\* The two ports hand the acks of the bus straight to the core.
instruction_ack == iport.state = "ACTIVE" /\ iport.wait = 0
instr_f == rom[RomIndex(iport.adr)]
data_ack == dport.state = "ACTIVE" /\ dport.wait = 0
read_data_m == IF data_ack /\ ~dport.we THEN mem[MemIndex(dport.adr)] ELSE IdleBus

\* Execute stage.  JALR and the CSR unit use rd1 as it was read in D; the other
\* operands go through the forwarding multiplexers.
rs1_e == E.instr.rs1
rs2_e == E.instr.rs2
rd_e == E.instr.rd
load_instr_e == E.control.load_instr
csr_instr_e == E.control.csr_write
Operand(rs, rd) ==
    CASE Forward(rs, rd_m, reg_write_m, rd_w, reg_write_w) = "M" -> M.alu_result
      [] Forward(rs, rd_m, reg_write_m, rd_w, reg_write_w) = "W" -> result_w
      [] OTHER -> rd
src_a_e == Operand(rs1_e, E.rd1)
src_b_e == Operand(rs2_e, E.rd2)
take_branch_e == E.control.branch /\ TakeBranch(E.instr.op, src_a_e, src_b_e)
pc_plus4_e == Wrap(E.pc + 4)
pc_target_e == PcTarget(E.instr.op, E.rd1, E.pc, E.instr.imm)
jump_pc_target_e == IF E.control.mret_instr THEN csr.mepc ELSE pc_target_e
is_mispredict_tbranch_e ==
    MispredictTaken(E.valid, E.control.branch, take_branch_e, jump_pc_target_e,
                    Followed(D.valid, D.pc, pc_f))
is_mispredict_ntbranch_e ==
    MispredictNotTaken(E.valid, E.control.branch, take_branch_e, pc_plus4_e,
                       Followed(D.valid, D.pc, pc_f))
pc_src_e == \/ take_branch_e /\ is_mispredict_tbranch_e
            \/ E.control.jump
            \/ is_mispredict_ntbranch_e
misaligned_pc_e == pc_src_e /\ MisalignedTarget(jump_pc_target_e)
is_instr_exception_e == E.illegal_instruction \/ misaligned_pc_e \/ E.control.env_call
read_csr_e == ReadCsr(csr, minstret, E.instr.csr)
data_output_from_execute ==
    IF E.control.csr_write THEN read_csr_e
    ELSE IF E.instr.op = "divu" THEN div.result
    ELSE AluResult(E.instr.op, src_a_e, src_b_e, E.instr.imm)

----
\* The stall and flush signals of the hazard unit.
jump_instr == JumpInstr(pc_src_e, is_instr_exception_e, is_instr_exception_m,
                        is_instr_exception_w)
lw_stall_d == LwStall(load_instr_e, rd_e, rs1_d, rs2_d)
waiting_on_instruction == ~InstrMemHandshake(instruction_ack)
stall_m == StallM(load_store_m, data_ack)
stall_e == StallE(stall_m)
stall_d == StallD(lw_stall_d, stall_e)
stall_f == StallF(waiting_on_instruction, stall_d)
flush_d == FlushD(jump_instr, waiting_on_instruction, stall_d)
flush_e == FlushE(lw_stall_d, jump_instr)
flush_m == FlushM

\* The divider is held in reset while E is flushed.
div_completed_e == DivCompleted(flush_e)

----
\* One clock edge of each register.

pc_next_f == IF TrapW THEN TrapJumpAddr(csr)
             ELSE IF pc_src_e
                  THEN (IF is_mispredict_ntbranch_e THEN pc_plus4_e ELSE jump_pc_target_e)
             ELSE IF BranchPredicted(pc_f) THEN PredictedPc(pc_f)
             ELSE Wrap(pc_f + 4)

PcRegister ==
    pc_f' = IF \/ ~stall_f
               \/ /\ pc_src_e /\ ~is_instr_exception_e
                  /\ ~load_misaligned_m /\ ~store_misaligned_m
               \/ TrapW
            THEN pc_next_f ELSE pc_f

BubbleD == [valid |-> FALSE, instr |-> ZeroInstr, pc |-> 0]
BubbleE == [valid |-> FALSE, instr |-> ZeroInstr, pc |-> 0, rd1 |-> 0, rd2 |-> 0,
            control |-> ZeroControl, illegal_instruction |-> FALSE]
BubbleM == [valid_pc |-> FALSE, instr |-> ZeroInstr, pc |-> 0, control |-> ZeroControl,
            illegal_instruction |-> FALSE, instr_addr_misaligned |-> FALSE,
            alu_result |-> 0, write_data |-> 0, pc_target |-> 0, write_csr |-> 0]

DecodeRegister ==
    D' = IF flush_d THEN BubbleD
         ELSE IF ~stall_d THEN [valid |-> TRUE, instr |-> instr_f, pc |-> pc_f]
         ELSE D

ExecuteRegister ==
    E' = IF flush_e THEN BubbleE
         ELSE IF ~stall_e
         THEN [valid |-> D.valid, instr |-> D.instr, pc |-> D.pc,
               rd1 |-> IF rs1_d = 0 THEN 0 ELSE RegFile[rs1_d],
               rd2 |-> IF rs2_d = 0 THEN 0 ELSE RegFile[rs2_d],
               control |-> control_d, illegal_instruction |-> illegal_instruction_d]
         ELSE E

MemoryRegister ==
    M' = IF flush_m THEN BubbleM
         ELSE IF ~stall_m
         THEN [valid_pc |-> E.valid, instr |-> E.instr, pc |-> E.pc, control |-> E.control,
               illegal_instruction |-> E.illegal_instruction,
               instr_addr_misaligned |-> misaligned_pc_e,
               alu_result |-> data_output_from_execute, write_data |-> src_b_e,
               pc_target |-> pc_target_e,
               write_csr |-> WriteCsr(E.instr.op, read_csr_e, E.rd1, E.instr.imm)]
         ELSE M

\* What write-back gets of the memory stage m.
ToWriteback(m, data, load_mis, store_mis, ext, timer) ==
    [valid_pc |-> m.valid_pc, instr |-> m.instr, pc |-> m.pc, control |-> m.control,
     illegal_instruction |-> m.illegal_instruction,
     instr_addr_misaligned |-> m.instr_addr_misaligned,
     alu_result |-> m.alu_result, pc_target |-> m.pc_target, write_csr |-> m.write_csr,
     read_data |-> data, load_misaligned |-> load_mis, store_misaligned |-> store_mis,
     interrupt_external |-> ext, interrupt_timer |-> timer]

\* The write-back register has no enable: it copies M in every cycle.
WritebackRegister ==
    W' = ToWriteback(M, read_data_m, load_misaligned_m, store_misaligned_m,
                     interrupt_external_m, interrupt_timer_m)

RegisterFile == regs' = RegFile
DecoderLatch == decoder_latch' = control_d

HazardUnitNext ==
    /\ IgnoreHandshakeNext(jump_instr, TrapW, instruction_ack)
    /\ CsrPendingNext(csr_instr_e, csr_instr_w)
    /\ DivPendingNext(div_instr_d, div_completed_e)
    /\ PendingExceptionFNext(illegal_instruction_d, illegal_instruction_w)
    /\ PendingExceptionMNext(is_instr_exception_m, is_instr_exception_w)

\* A port in WB_IDLE latches the request of the core; in WB_ACTIVE it waits for
\* the ack, whatever the core does meanwhile.
InstructionPort ==
    IF iport.state = "IDLE"
    THEN \E n \in FetchWaits : iport' = [state |-> "ACTIVE", adr |-> pc_f, wait |-> n]
    ELSE iport' = [state |-> IF instruction_ack THEN "IDLE" ELSE "ACTIVE",
                   adr |-> iport.adr,
                   wait |-> IF instruction_ack THEN 0 ELSE iport.wait - 1]

DataPort ==
    IF dport.state = "IDLE"
    THEN IF d_valid
         THEN \E n \in DataWaits :
                dport' = [state |-> "ACTIVE", adr |-> M.alu_result, we |-> d_we,
                          data |-> M.write_data, wait |-> n]
         ELSE dport' = [dport EXCEPT !.we = FALSE]
    ELSE dport' = IF data_ack THEN [dport EXCEPT !.state = "IDLE", !.we = FALSE]
                              ELSE [dport EXCEPT !.wait = @ - 1]

\* The slave stores a word in the cycle of its ack.
DataMemory ==
    mem' = IF data_ack /\ dport.we
           THEN [mem EXCEPT ![MemIndex(dport.adr)] = dport.data] ELSE mem

----
Init ==
    /\ rom \in Programs
    /\ regs \in InitRegs
    /\ mem \in InitMems
    /\ pc_f = 0
    /\ D = BubbleD /\ E = BubbleE /\ M = BubbleM
    /\ W = ToWriteback(BubbleM, 0, FALSE, FALSE, FALSE, FALSE)
    /\ decoder_latch = ZeroControl
    /\ iport = [state |-> "IDLE", adr |-> 0, wait |-> 0]
    /\ dport = [state |-> "IDLE", adr |-> 0, we |-> FALSE, data |-> 0, wait |-> 0]
    /\ CsrInit /\ BpInit /\ DivInit /\ HazardInit

Tick ==
    /\ PcRegister /\ DecodeRegister /\ ExecuteRegister /\ MemoryRegister /\ WritebackRegister
    /\ RegisterFile /\ DecoderLatch
    /\ \E ext \in ExternalLine, timer \in TimerLine : CsrNext(W, E.pc, ext, timer)
    /\ BpNext(E.control.branch, take_branch_e, E.pc, jump_pc_target_e)
    /\ DivNext(flush_e, E.instr.op = "divu", Quotient(src_a_e, src_b_e))
    /\ HazardUnitNext
    /\ InstructionPort /\ DataPort /\ DataMemory
    /\ UNCHANGED rom

vars == <<rom, mem, regs, pc_f, D, E, M, W, decoder_latch, iport, dport,
          csrRegs, bp, div, hazardRegs>>

\* The clock does not stop.
Spec == Init /\ [][Tick]_vars
FairSpec == Spec /\ WF_vars(Tick)
====
