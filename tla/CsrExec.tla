---- MODULE CsrExec ----
(***************************************************************************)
(* csr_exec.vhd: the machine-mode CSRs, the interrupt edge detectors and   *)
(* trap entry and return.  A parameter w is the contents of the write-back *)
(* stage, a record                                                         *)
(*   [instr, pc, control, alu_result, pc_target, write_csr,                *)
(*    instr_addr_misaligned, illegal_instruction, load_misaligned,         *)
(*    store_misaligned, interrupt_external, interrupt_timer, valid_pc, ..] *)
(* from which every input of the entity is taken.                          *)
(***************************************************************************)
EXTENDS CsrFile

CONSTANT CounterSize    \* minstret counts modulo this; 2^64 in the RTL

ASSUME CsrAssumption == CounterSize \in Nat \ {0}

VARIABLES
    csr,            \* the CSRs, minstret aside
    minstret,
    edge_external, edge_timer   \* the two flip-flops of each edge detector

csrRegs == <<csr, minstret, edge_external, edge_timer>>

EdgeRegs == [first : BOOLEAN, second : BOOLEAN]

CsrTypeOK ==
    /\ csr \in CsrFile
    /\ minstret \in 0 .. CounterSize - 1
    /\ edge_external \in EdgeRegs
    /\ edge_timer \in EdgeRegs

\* Every register but mpie is reset.
ResetCsr(mpie) ==
    [mie |-> FALSE, mpie |-> mpie,
     meie |-> FALSE, mtie |-> FALSE, msie |-> FALSE,
     meip |-> FALSE, mtip |-> FALSE, msip |-> FALSE,
     mtvec |-> 0, mepc |-> 0, mtval |-> 0, mscratch |-> 0,
     interrupt |-> FALSE, code |-> 0]

CsrInit ==
    /\ \E mpie \in BOOLEAN : csr = ResetCsr(mpie)
    /\ minstret = 0
    /\ edge_external = [first |-> FALSE, second |-> FALSE]
    /\ edge_timer = [first |-> FALSE, second |-> FALSE]

----
\* Traps.
IsException(w) ==
    \/ w.instr_addr_misaligned \/ w.illegal_instruction
    \/ w.load_misaligned \/ w.store_misaligned \/ w.control.env_call
TrapCaught(w) == IsException(w) \/ w.interrupt_external \/ w.interrupt_timer

TrapCause(w) ==
    IF w.instr_addr_misaligned    THEN 0
    ELSE IF w.illegal_instruction THEN 2
    ELSE IF w.load_misaligned     THEN 4
    ELSE IF w.store_misaligned    THEN 6
    ELSE IF w.control.env_call    THEN (IF w.instr.op = "ebreak" THEN 3 ELSE 11)
    ELSE IF w.interrupt_external  THEN 11
    ELSE 7

\* The faulting address, as datapath.vhd selects it.
AddrExcept(w) == IF w.instr_addr_misaligned THEN w.pc_target
                 ELSE IF w.control.env_call THEN w.pc
                 ELSE w.alu_result

TrapJumpAddr(c) == c.mtvec - (c.mtvec % 4)

----
\* The registers after one clock edge with w in write-back.
Writes(w, name) == w.control.csr_write /\ w.instr.csr = name

\* Mutation: entering a trap leaves interrupts enabled.
NextMstatusEnabled(c, w) ==
    IF TrapCaught(w)              THEN [mie |-> c.mie, mpie |-> c.mie]
    ELSE IF w.control.mret_instr  THEN [mie |-> c.mpie, mpie |-> TRUE]
    ELSE IF Writes(w, "mstatus")  THEN [mie |-> Bit(w.write_csr, 8), mpie |-> c.mpie]
    ELSE [mie |-> c.mie, mpie |-> c.mpie]

NextMstatus(c, w) ==
    IF TrapCaught(w)              THEN [mie |-> FALSE, mpie |-> c.mie]
    ELSE IF w.control.mret_instr  THEN [mie |-> c.mpie, mpie |-> TRUE]
    ELSE IF Writes(w, "mstatus")  THEN [mie |-> Bit(w.write_csr, 8), mpie |-> c.mpie]
    ELSE [mie |-> c.mie, mpie |-> c.mpie]

NextPending(w, pending, arrived, weight) ==
    \/ Writes(w, "mip") /\ Bit(w.write_csr, weight)
    \/ ~Writes(w, "mip") /\ (pending \/ arrived)

CsrAfter(c, w) ==
    [mie  |-> NextMstatus(c, w).mie,
     mpie |-> NextMstatus(c, w).mpie,
     meie |-> IF Writes(w, "mie") THEN Bit(w.write_csr, 2048) ELSE c.meie,
     mtie |-> IF Writes(w, "mie") THEN Bit(w.write_csr, 128) ELSE c.mtie,
     msie |-> IF Writes(w, "mie") THEN Bit(w.write_csr, 8) ELSE c.msie,
     meip |-> NextPending(w, c.meip, w.interrupt_external, 2048),
     mtip |-> NextPending(w, c.mtip, w.interrupt_timer, 128),
     msip |-> NextPending(w, c.msip, FALSE, 8),
     mtvec |-> IF Writes(w, "mtvec") THEN w.write_csr ELSE c.mtvec,
     mepc |-> IF TrapCaught(w) THEN w.pc - (w.pc % 2)
              ELSE IF Writes(w, "mepc") THEN w.write_csr - (w.write_csr % 2) ELSE c.mepc,
     mtval |-> IF TrapCaught(w)
               THEN (IF w.illegal_instruction THEN 0 ELSE AddrExcept(w))
               ELSE IF Writes(w, "mtval") THEN w.write_csr ELSE c.mtval,
     mscratch |-> IF Writes(w, "mscratch") THEN w.write_csr ELSE c.mscratch,
     interrupt |-> IF TrapCaught(w) THEN ~IsException(w) ELSE c.interrupt,
     code |-> IF TrapCaught(w) THEN TrapCause(w) ELSE c.code]

MinstretAfter(n, w) ==
    IF Writes(w, "minstret") THEN w.write_csr % CounterSize
    ELSE IF w.valid_pc THEN (n + 1) % CounterSize
    ELSE n

----
\* Mutation: a request is sampled whether or not E holds an instruction.
IntrExternalAnytime(line, pc_e) == csr.mie /\ csr.meie /\ line

\* Interrupts: an enabled request is sampled while an instruction is in E, and
\* the edge detector makes a pulse of one cycle of it in the next one.
IntrExternalAsync(line, pc_e) == csr.mie /\ csr.meie /\ line /\ pc_e # 0
IntrTimerAsync(line, pc_e)    == csr.mie /\ csr.mtie /\ line /\ pc_e # 0
EdgeDetected(edge) == edge.first /\ ~edge.second
Sample(edge, d) == [first |-> d, second |-> edge.first]

CsrNext(w, pc_e, ext_line, timer_line) ==
    /\ csr' = CsrAfter(csr, w)
    /\ minstret' = MinstretAfter(minstret, w)
    /\ edge_external' = Sample(edge_external, IntrExternalAsync(ext_line, pc_e))
    /\ edge_timer' = Sample(edge_timer, IntrTimerAsync(timer_line, pc_e))

====
