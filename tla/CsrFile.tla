---- MODULE CsrFile ----
(***************************************************************************)
(* The machine-mode CSRs of csr_exec.vhd as a value: the fields that have  *)
(* registers, what a read of each address returns, and the value that each *)
(* form of CSR instruction writes.                                         *)
(***************************************************************************)
EXTENDS Isa

CsrFile ==
    [mie : BOOLEAN, mpie : BOOLEAN,                       \* mstatus
     meie : BOOLEAN, mtie : BOOLEAN, msie : BOOLEAN,      \* mie
     meip : BOOLEAN, mtip : BOOLEAN, msip : BOOLEAN,      \* mip
     mtvec : Word, mepc : Word, mtval : Word, mscratch : Word,
     interrupt : BOOLEAN, code : 0 .. 15]                 \* mcause

\* The read multiplexer, and the value a CSR instruction writes back.
Weighted(b, w) == IF b THEN w ELSE 0

CsrValues(c, n) ==
    [mstatus  |-> 6144 + Weighted(c.mpie, 128) + Weighted(c.mie, 8),
     mie      |-> Weighted(c.meie, 2048) + Weighted(c.mtie, 128) + Weighted(c.msie, 8),
     mip      |-> Weighted(c.meip, 2048) + Weighted(c.mtip, 128) + Weighted(c.msip, 8),
     mtvec    |-> c.mtvec,
     mepc     |-> c.mepc,
     mcause   |-> Weighted(c.interrupt, TopBit) + c.code,
     mtval    |-> c.mtval,
     mscratch |-> c.mscratch,
     minstret |-> Wrap(n),
     none     |-> 0]
ReadCsr(c, n, name) == CsrValues(c, n)[name]

WriteCsr(op, old, reg, imm) ==
    CASE op = "csrrw"  -> reg
      [] op = "csrrwi" -> Wrap(imm)
      [] op = "csrrs"  -> OrWord(old, reg)
      [] op = "csrrsi" -> OrWord(old, imm)
      [] op = "csrrc"  -> AndNotWord(old, reg)
      [] op = "csrrci" -> AndNotWord(old, imm)
      [] OTHER         -> 0
====
