----------------------------- MODULE MCCoreMark -----------------------------
(***************************************************************************)
(* The three runs the port can be compiled for (core_portme.h): the 2K     *)
(* performance and validation runs, and the profile run with two           *)
(* iterations.                                                             *)
(***************************************************************************)
EXTENDS CoreMarkProperties

CompiledConfigs == {
  [seed1 |-> 0, seed2 |-> 0, seed3 |-> 102, total |-> 2000, iterations |-> 1],
  [seed1 |-> 13333, seed2 |-> 13333, seed3 |-> 102, total |-> 2000, iterations |-> 1],
  [seed1 |-> 8, seed2 |-> 8, seed3 |-> 8, total |-> 1200, iterations |-> 2]}
=============================================================================
