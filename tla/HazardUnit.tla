---- MODULE HazardUnit ----
(***************************************************************************)
(* hazard_unit.vhd.  Its five registers are the variables; its output      *)
(* signals are operators on them and on the input signals, which are       *)
(* parameters with the names of the ports.                                 *)
(***************************************************************************)
EXTENDS Naturals

VARIABLES
    ignore_instr_mem_handshake,     \* drop the outstanding fetch
    csr_pending,                    \* a CSR instruction is past E
    div_pending,                    \* the divider is at work
    pending_exception_f,            \* an illegal instruction left D
    pending_exception_m             \* the instruction now in W excepted in M

hazardRegs == <<ignore_instr_mem_handshake, csr_pending, div_pending,
                pending_exception_f, pending_exception_m>>

HazardTypeOK ==
    /\ ignore_instr_mem_handshake \in BOOLEAN
    /\ csr_pending \in BOOLEAN
    /\ div_pending \in BOOLEAN
    /\ pending_exception_f \in BOOLEAN
    /\ pending_exception_m \in BOOLEAN

HazardInit ==
    /\ ignore_instr_mem_handshake = FALSE
    /\ csr_pending = FALSE
    /\ div_pending = FALSE
    /\ pending_exception_f = FALSE
    /\ pending_exception_m = FALSE

----
\* A jump counts only if neither it nor anything older has excepted.
JumpInstr(pc_src_e, exception_e, exception_m, exception_w) ==
    pc_src_e /\ ~exception_e /\ ~exception_m /\ ~exception_w

\* The operand of E: the nearest older instruction that writes rs provides it.
Forward(rs, rd_m, reg_write_m, rd_w, reg_write_w) ==
    IF rs # 0 /\ rs = rd_m /\ reg_write_m THEN "M"
    ELSE IF rs # 0 /\ rs = rd_w /\ reg_write_w THEN "W"
    ELSE "none"

LwStall(load_instr_e, rd_e, rs1_d, rs2_d) ==
    load_instr_e /\ (rd_e = rs1_d \/ rd_e = rs2_d)

\* Mutation: the answer to a fetch that must be dropped is taken.
InstrMemHandshakeAny(instruction_ack) == instruction_ack

\* instruction_valid is high whenever reset is low.
InstrMemHandshake(instruction_ack) == instruction_ack /\ ~ignore_instr_mem_handshake

\* Mutation: a load or store leaves M without its ack.
StallMNever(load_store_m, d_ack) == FALSE

StallM(load_store_m, d_ack) == load_store_m /\ ~d_ack
StallE(stalled_m)            == stalled_m \/ div_pending
StallD(lw_stall, stalled_e)  == lw_stall \/ stalled_e \/ csr_pending
StallF(waiting, stalled_d)   == \/ waiting \/ stalled_d
                                \/ pending_exception_f \/ pending_exception_m

\* Mutation: D takes what the bus carries while the fetch is still waiting.
FlushDNotWaiting(jump, waiting, stalled_d) ==
    jump \/ pending_exception_m \/ (~stalled_d /\ pending_exception_f)

FlushD(jump, waiting, stalled_d) ==
    \/ jump \/ pending_exception_m
    \/ ~stalled_d /\ (waiting \/ pending_exception_f)
\* Mutation: the instruction in D survives a trap.
FlushENotTrapped(lw_stall, jump) == lw_stall \/ jump \/ csr_pending

FlushE(lw_stall, jump) == lw_stall \/ jump \/ csr_pending \/ pending_exception_m
FlushM == pending_exception_m \/ div_pending

----
\* One clock edge of each register.

\* Mutation: a pulse, forgotten after one cycle.
IgnoreHandshakeNextPulse(jump, trap, instruction_ack) ==
    ignore_instr_mem_handshake' = (jump \/ trap)

\* Mutation: jumps do not drop the outstanding fetch.
IgnoreHandshakeNextTrapOnly(jump, trap, instruction_ack) ==
    ignore_instr_mem_handshake' =
        IF ignore_instr_mem_handshake THEN ~instruction_ack ELSE trap

\* The fetch that is outstanding when the pc is redirected must be dropped.
IgnoreHandshakeNext(jump, trap, instruction_ack) ==
    ignore_instr_mem_handshake' =
        IF ignore_instr_mem_handshake THEN ~instruction_ack ELSE jump \/ trap

CsrPendingNext(csr_e, csr_w) == csr_pending' = (csr_e \/ (csr_pending /\ ~csr_w))

DivPendingNext(div_d, completed) == div_pending' = (div_d \/ (div_pending /\ ~completed))

\* Mutation: the flag is set for ever.
PendingExceptionFNextStuck(illegal_d, illegal_w) ==
    pending_exception_f' = ((illegal_d /\ ~pending_exception_m) \/ pending_exception_f)

PendingExceptionFNext(illegal_d, illegal_w) ==
    pending_exception_f' = \/ illegal_d /\ ~pending_exception_m
                           \/ pending_exception_f /\ ~illegal_w

PendingExceptionMNext(exception_m, exception_w) ==
    pending_exception_m' = (exception_m \/ (pending_exception_m /\ ~exception_w))
====
