---- MODULE Asm ----
(***************************************************************************)
(* Assembler notation for the programs of the model-checking modules.      *)
(***************************************************************************)
EXTENDS Isa

Asm(op, rd, rs1, rs2, imm, csr) ==
    [op |-> op, rd |-> rd, rs1 |-> rs1, rs2 |-> rs2, imm |-> imm, csr |-> csr]

\* Instructions by format: register, immediate, branch, jump, CSR and the rest.
R(op, rd, rs1, rs2)   == Asm(op, rd, rs1, rs2, 0, "none")
I(op, rd, rs1, imm)   == Asm(op, rd, rs1, 0, imm, "none")
Sw(rs2, rs1, imm)     == Asm("sw", 0, rs1, rs2, imm, "none")
B(op, rs1, rs2, off)  == Asm(op, 0, rs1, rs2, off, "none")
Jal(rd, off)          == Asm("jal", rd, 0, 0, off, "none")
Csr(op, rd, name, rs1) == Asm(op, rd, rs1, 0, 0, name)
CsrI(op, rd, name, n) == Asm(op, rd, 0, 0, n, name)
Sys(op)               == Asm(op, 0, 0, 0, 0, "none")
Nop                   == I("addi", 0, 0, 0)
Halt                  == Jal(0, 0)
====
