---- MODULE ProcessorProperties ----
(***************************************************************************)
(* What must hold of the pipeline and its two ports in every cycle, beside *)
(* the refinement of the hart.                                             *)
(***************************************************************************)
EXTENDS ProcessorRefinesHart

StageD == [valid : BOOLEAN, instr : Instruction, pc : Word]
StageE == [valid : BOOLEAN, instr : Instruction, pc : Word, rd1 : Word, rd2 : Word,
           control : Control, illegal_instruction : BOOLEAN]
StageM == [valid_pc : BOOLEAN, instr : Instruction, pc : Word, control : Control,
           illegal_instruction : BOOLEAN, instr_addr_misaligned : BOOLEAN,
           alu_result : Word, write_data : Word, pc_target : Word, write_csr : Word]
StageW == [valid_pc : BOOLEAN, instr : Instruction, pc : Word, control : Control,
           illegal_instruction : BOOLEAN, instr_addr_misaligned : BOOLEAN,
           alu_result : Word, pc_target : Word, write_csr : Word, read_data : Word,
           load_misaligned : BOOLEAN, store_misaligned : BOOLEAN,
           interrupt_external : BOOLEAN, interrupt_timer : BOOLEAN]
PortStates == {"IDLE", "ACTIVE"}

\* Every register of the design holds a value of its type: in particular no wait
\* counter, address or counter of the predictor leaves its range.
TypeOK ==
    /\ rom \in [0 .. RomWords - 1 -> Instruction]
    /\ mem \in [0 .. MemWords - 1 -> Word]
    /\ regs \in [RegIds -> Word]
    /\ pc_f \in Word
    /\ D \in StageD /\ E \in StageE /\ M \in StageM /\ W \in StageW
    /\ decoder_latch \in Control
    /\ iport \in [state : PortStates, adr : Word, wait : {0} \cup UNION {0 .. n : n \in FetchWaits}]
    /\ dport \in [state : PortStates, adr : Word, we : BOOLEAN, data : Word,
                  wait : {0} \cup UNION {0 .. n : n \in DataWaits}]
    /\ CsrTypeOK /\ BpTypeOK(Word) /\ DivTypeOK /\ HazardTypeOK

----
\* Fetch.

\* The fetch a port has in flight is for the pc of the fetch stage, unless the
\* hazard unit is going to drop its answer or to flush what it delivers
\* (hazard_unit.vhd, ignore_instr_mem_handshake; processor.vhd, instruction port).
FetchConsistent ==
    iport.state = "ACTIVE" /\ ~ignore_instr_mem_handshake /\ ~pending_exception_m
        => iport.adr = pc_f

\* No stage ever holds an instruction other than the one the program has at the
\* pc the stage holds: a late answer to a fetch made before a jump or a trap is
\* never paired with the new pc (datapath.vhd, register_decode).
StagesHoldProgram ==
    /\ D.valid => D.instr = rom[RomIndex(D.pc)]
    /\ E.valid => E.instr = rom[RomIndex(E.pc)]
    /\ M.valid_pc => M.instr = rom[RomIndex(M.pc)]
    /\ W.valid_pc => W.instr = rom[RomIndex(W.pc)]

----
\* Pipeline occupancy.

\* With a registered ack, neighbouring stages never hold two instructions, and only
\* a division can still be in write-back when the next instruction is in E. The
\* core relies on it: the M forwarding path carries the ALU result only, wrong for
\* loads, AUIPC and links; and JALR and CSR operands are not forwarded at all.
SpacedPipeline ==
    /\ ~(D.valid /\ E.valid)
    /\ ~(E.valid /\ M.valid_pc)
    /\ E.valid /\ W.valid_pc => W.instr.op = "divu"

\* JALR and the CSR unit read the register file in D and are never corrected, so
\* no older instruction may still have to write that register
\* (datapath.vhd, pc_target_src_select and csr_unit).
UnforwardedOperandIsCurrent ==
    E.valid /\ E.instr.op \in CsrRegOps \cup {"jalr"} /\ E.instr.rs1 # 0
        => ~ \/ M.valid_pc /\ M.control.reg_write /\ M.instr.rd = E.instr.rs1
             \/ W.valid_pc /\ W.control.reg_write /\ W.instr.rd = E.instr.rs1

----
\* Data port.

\* The access in flight is the one of the load or store waiting in M: its ack
\* cannot be taken for the answer to another access (core_riscv.vhd, d_valid;
\* processor.vhd, data port).
AccessBelongsToM ==
    dport.state = "ACTIVE" =>
        /\ M.valid_pc /\ M.control.load_store
        /\ dport.adr = M.alu_result
        /\ dport.we = M.control.mem_write
        /\ dport.we => dport.data = M.write_data

----
\* Traps.

\* A trap is entered once: the cycle after the one that enters it has none in W,
\* so mepc, mcause and the saved interrupt enable survive until the handler
\* (hazard_unit.vhd, pending_exception_m).
TrapOnce == [][TrapW => ~TrapW']_vars

\* An interrupt pulse finds in M the instruction it interrupts, the one whose pc
\* will be mepc (csr_exec.vhd, valid_pc; datapath.vhd, interrupt_external_m).
InterruptHasVictim ==
    interrupt_external_m \/ interrupt_timer_m => M.valid_pc

\* Nothing younger than a trapping instruction survives its trap: when the handler
\* is about to be fetched the pipeline is empty (hazard_unit.vhd, flush_d, flush_e, flush_m).
TrapEmptiesPipeline ==
    [][TrapW => ~D'.valid /\ ~E'.valid /\ ~M'.valid_pc]_vars

\* Instructions keep completing: no stall or pending flag holds the pipeline for ever.
Progress == []<>(W.valid_pc /\ ~TrapW)

----
\* What README.md:5 ("the handling of precise exceptions and interrupts") and
\* README.md:2 promise in cases where the code does otherwise.

\* A load or store that traps has no effect outside the hart: the data port starts
\* no access while the trap is being taken (core_riscv.vhd, d_valid).
NoAccessOfTrapped ==
    [][dport.state = "IDLE" /\ dport'.state = "ACTIVE" => ~TrapW]_vars

\* An instruction that traps writes no CSR of the program: mscratch changes only
\* when the CSR instruction in W completes (csr_exec.vhd, write_enable).
TrappedCsrNotWritten == [][csr'.mscratch # csr.mscratch => ~TrapW]_vars

\* W holds an instruction that is still waiting for its access in M.
WaitingInM == M.valid_pc /\ M.control.load_store /\ W.control.load_store /\ M.pc = W.pc

\* minstret goes up once for each instruction that completes (csr_exec.vhd,
\* MINSTRET and MINSTRETH).
MinstretCountsCompleted ==
    [][minstret' # minstret => W.valid_pc /\ ~TrapW /\ ~WaitingInM]_vars

\* An instruction at an address that is not word aligned never completes: the jump
\* or branch to it traps (datapath.vhd, misaligned_pc_e).
NoMisalignedExecution == ExecutedM => M.pc % 4 = 0
====
