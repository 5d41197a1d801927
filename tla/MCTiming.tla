------------------------------ MODULE MCTiming ------------------------------
(***************************************************************************)
(* Seconds of 40 cycles and counters of 3 + 8 bits: one to three tries at  *)
(* calibration, carries into the high half before, between and after the   *)
(* three reads.                                                            *)
(***************************************************************************)
EXTENDS TimingProperties

SomeCosts == {3, 4}
=============================================================================
