---- MODULE DivUnit ----
(***************************************************************************)
(* div.vhd as the pipeline sees it: a start pulse taken from the rising    *)
(* edge of div_start, one cycle for each bit of the mask, one cycle that   *)
(* latches the result.  What is computed is a function of the operands in  *)
(* the cycle of the start pulse; module Divider has the steps.             *)
(***************************************************************************)
EXTENDS Isa

CONSTANT DivSteps   \* shifts of the mask until it is zero, 32 in the RTL

ASSUME DivAssumption == DivSteps \in Nat

VARIABLE div        \* edge detector, busy flag, shifts left, operands' quotient, result

DivInit == div = [first |-> FALSE, second |-> FALSE, busy |-> FALSE,
                  left |-> 0, quotient |-> 0, result |-> 0]

DivTypeOK ==
    div \in [first : BOOLEAN, second : BOOLEAN, busy : BOOLEAN,
             left : 0 .. DivSteps, quotient : Word, result : Word]

DivStart == div.first /\ ~div.second

\* Mutation: completion is signalled while the last bit is still to be shifted.
DivCompletedEarly(reset) == div.busy /\ ~reset /\ div.left = 1

\* reset is the OR of reset and flush_e; it clears busy at once.
DivCompleted(reset) == div.busy /\ ~reset /\ div.left = 0

\* value is the result of the operands on the inputs.
DivNext(reset, div_start, value) ==
    LET edge == IF reset THEN [first |-> FALSE, second |-> FALSE]
                         ELSE [first |-> div_start, second |-> div.first]
    IN div' =
        [first |-> edge.first, second |-> edge.second,
         busy |-> ~reset /\ (DivStart \/ (div.busy /\ div.left # 0)),
         left |-> IF ~reset /\ DivStart THEN DivSteps
                  ELSE IF ~reset /\ div.busy /\ div.left # 0 THEN div.left - 1
                  ELSE div.left,
         quotient |-> IF ~reset /\ DivStart THEN value ELSE div.quotient,
         result |-> IF ~reset /\ ~DivStart /\ DivCompleted(FALSE) THEN div.quotient
                    ELSE div.result]
====
