---- MODULE ProcessorRefinesHart ----
(***************************************************************************)
(* The pipeline implements the hart.  An instruction counts as executed    *)
(* from the cycle it is in M without an exception; one that excepts, from  *)
(* the cycle it is in W.  The architectural state is what is left when W   *)
(* and then M are drained into the registers.                              *)
(***************************************************************************)
EXTENDS Processor

ExecutedM == M.valid_pc /\ ~is_instr_exception_m /\ ~TrapW

\* M as it will be in W: a load gets the word it addresses.
DrainedM == ToWriteback(M, mem[MemIndex(M.alu_result)], FALSE, FALSE, FALSE, FALSE)

ResultOfM ==
    CASE M.control.result_src = "alu"    -> M.alu_result
      [] M.control.result_src = "mem"    -> mem[MemIndex(M.alu_result)]
      [] M.control.result_src = "pc4"    -> Wrap(M.pc + 4)
      [] M.control.result_src = "target" -> M.pc_target

pcBar == IF TrapW THEN TrapJumpAddr(csr)
         ELSE IF M.valid_pc /\ ~ExecutedM THEN M.pc
         ELSE IF E.valid THEN E.pc
         ELSE IF D.valid THEN D.pc
         ELSE pc_f
xBar == IF ExecutedM /\ M.control.reg_write /\ M.instr.rd # 0
        THEN [RegFile EXCEPT ![M.instr.rd] = ResultOfM] ELSE RegFile
memBar == IF ExecutedM /\ M.control.mem_write
          THEN [mem EXCEPT ![MemIndex(M.alu_result)] = M.write_data] ELSE mem
csrBar == IF ExecutedM THEN CsrAfter(CsrAfter(csr, W), DrainedM) ELSE CsrAfter(csr, W)

Arch == INSTANCE Hart WITH pc <- pcBar, x <- xBar, dmem <- memBar, s <- csrBar

\* Every clock edge is one step of the hart or none: instructions take effect
\* in program order, once, on the operands the hart would have given them, and
\* traps are precise (datapath.vhd, control_unit.vhd, hazard_unit.vhd, csr_exec.vhd).
ImplementsHart == Arch!HartSafety
====
