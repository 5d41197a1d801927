------------------------------ MODULE Counter -------------------------------
(***************************************************************************)
(* The 64-bit counters mcycle and minstret of the core and the functions   *)
(* of csr_lib that read and write them in halves while they count          *)
(* (src/sw/csr_lib/rv_csr.c).  The low half has the values 0..L-1, the     *)
(* high half 0..H-1.                                                       *)
(*                                                                         *)
(* An access to a CSR takes one cycle; MaxWait bounds the cycles between   *)
(* the accesses of one call (fetches, an interrupt), so that a call is     *)
(* over before the low half has come round.                                *)
(***************************************************************************)
EXTENDS Integers

CONSTANTS L, H, MaxWait

ASSUME CounterAssumption ==
  /\ L \in Nat /\ H \in Nat \ {0, 1} /\ MaxWait \in Nat
  /\ MaxWait + 6 <= L

Csrs == {"mcycle", "minstret"}

VARIABLES
  hi, lo,   \* the halves of both counters
  call      \* the call of csr_lib that runs

counterVars == <<hi, lo, call>>

\* fn, csr, pc: which function, on which counter, and its next access.
\* value, low, high: argument, cycleLow and cycleHighInitial.  The rest is
\* history: the counter when the low half was read, cycles since the call,
\* carries into the high half since the call and since cycleHighInitial, and
\* the turns of the loop.
NoCall == [fn |-> "none", csr |-> "mcycle", pc |-> "idle",
           value |-> [high |-> 0, low |-> 0], low |-> 0, high |-> 0,
           seen |-> [high |-> 0, low |-> 0],
           waited |-> 0, carried |-> FALSE, moved |-> FALSE, turn |-> 0]

Init ==
  /\ hi = [c \in Csrs |-> 0]
  /\ lo = [c \in Csrs |-> 0]
  /\ call = NoCall
-----------------------------------------------------------------------------
(* One cycle of the counters.                                              *)

\* mcycle counts every cycle, minstret the instructions retired.
Counts(c, retired) == c = "mcycle" \/ retired

Carries(c, retired) == Counts(c, retired) /\ lo[c] = L - 1

LowAfter(c, retired) == CASE Carries(c, retired) -> 0
                          [] Counts(c, retired) /\ ~Carries(c, retired) -> lo[c] + 1
                          [] OTHER -> lo[c]

HighAfter(c, retired) == CASE Carries(c, retired) /\ hi[c] = H - 1 -> 0
                           [] Carries(c, retired) /\ hi[c] # H - 1 -> hi[c] + 1
                           [] OTHER -> hi[c]

CountOn(retired) ==
  /\ lo' = [c \in Csrs |-> LowAfter(c, retired)]
  /\ hi' = [c \in Csrs |-> HighAfter(c, retired)]

\* The history of the call after a cycle in which its counter counts.
WithCarry(k, retired) ==
  [k EXCEPT !.carried = @ \/ Carries(k.csr, retired),
            !.moved   = @ \/ Carries(k.csr, retired)]
-----------------------------------------------------------------------------
(* get_mcycle and get_minstret: high, low, high again until it is the same.*)

Get(csr) ==
  /\ call.fn = "none"
  /\ call' = [NoCall EXCEPT !.fn = "get", !.csr = csr, !.pc = "highInitial"]
  /\ UNCHANGED <<hi, lo>>

ReadHighInitial ==
  /\ call.fn = "get" /\ call.pc = "highInitial"
  /\ \E retired \in BOOLEAN :
       /\ CountOn(retired)
       /\ call' = WithCarry([call EXCEPT !.pc = "low", !.high = hi[call.csr],
                               !.moved = FALSE], retired)

ReadLow ==
  /\ call.fn = "get" /\ call.pc = "low"
  /\ \E retired \in BOOLEAN :
       /\ CountOn(retired)
       /\ call' = WithCarry([call EXCEPT !.pc = "high", !.low = lo[call.csr],
                               !.seen = [high |-> hi[call.csr], low |-> lo[call.csr]]],
                            retired)

\* Mutation: the high half is read once only.
ReadHighUnchecked ==
  /\ call.fn = "get" /\ call.pc = "high"
  /\ \E retired \in BOOLEAN :
       /\ CountOn(retired)
       /\ call' = [call EXCEPT !.pc = "ret",
                     !.value = [high |-> call.high, low |-> call.low]]

ReadHigh ==
  /\ call.fn = "get" /\ call.pc = "high"
  /\ \E retired \in BOOLEAN :
       /\ CountOn(retired)
       /\ call' = IF hi[call.csr] = call.high
                  THEN [call EXCEPT !.pc = "ret",
                          !.value = [high |-> call.high, low |-> call.low]]
                  ELSE WithCarry([call EXCEPT !.pc = "highInitial", !.turn = @ + 1],
                                 retired)
-----------------------------------------------------------------------------
(* set_mcycle and set_minstret: low half to 0, high half, low half.  The   *)
(* counter that is written does not count in that cycle.                   *)

Set(csr, value) ==
  /\ call.fn = "none"
  /\ call' = [NoCall EXCEPT !.fn = "set", !.csr = csr, !.pc = "clear", !.value = value]
  /\ UNCHANGED <<hi, lo>>

\* The other counter goes on.
WriteLow(v, retired) ==
  /\ lo' = [c \in Csrs |-> IF c = call.csr THEN v ELSE LowAfter(c, retired)]
  /\ hi' = [c \in Csrs |-> IF c = call.csr THEN hi[c] ELSE HighAfter(c, retired)]

WriteHigh(v, retired) ==
  /\ lo' = [c \in Csrs |-> IF c = call.csr THEN lo[c] ELSE LowAfter(c, retired)]
  /\ hi' = [c \in Csrs |-> IF c = call.csr THEN v ELSE HighAfter(c, retired)]

\* Mutation: the low half keeps its old value.
ClearLowNot ==
  /\ call.fn = "set" /\ call.pc = "clear"
  /\ \E retired \in BOOLEAN : CountOn(retired)
  /\ call' = [call EXCEPT !.pc = "high"]

ClearLow ==
  /\ call.fn = "set" /\ call.pc = "clear"
  /\ \E retired \in BOOLEAN : WriteLow(0, retired)
  /\ call' = [call EXCEPT !.pc = "high"]

SetHigh ==
  /\ call.fn = "set" /\ call.pc = "high"
  /\ \E retired \in BOOLEAN : WriteHigh(call.value.high, retired)
  /\ call' = [call EXCEPT !.pc = "low"]

SetLow ==
  /\ call.fn = "set" /\ call.pc = "low"
  /\ \E retired \in BOOLEAN : WriteLow(call.value.low, retired)
  /\ call' = [call EXCEPT !.pc = "ret"]
-----------------------------------------------------------------------------
\* Cycles between the accesses of a call.
Wait ==
  /\ call.fn # "none" /\ call.pc # "ret"
  /\ call.waited < MaxWait
  /\ \E retired \in BOOLEAN :
       /\ CountOn(retired)
       /\ call' = WithCarry([call EXCEPT !.waited = @ + 1], retired)

Return ==
  /\ call.pc = "ret"
  /\ call' = NoCall
  /\ UNCHANGED <<hi, lo>>

\* Any time passes while no call runs.
Elsewhere ==
  /\ call.fn = "none"
  /\ lo' \in [Csrs -> 0..L-1] /\ hi' \in [Csrs -> 0..H-1]
  /\ UNCHANGED call

Access == \/ ReadHighInitial \/ ReadLow \/ ReadHigh
          \/ ClearLow \/ SetHigh \/ SetLow

Value == [high : 0..H-1, low : 0..L-1]

\* Any program: it may set any value.
Next == \/ \E csr \in Csrs : Get(csr) \/ (call'.value \in Value /\ Set(csr, call'.value))
        \/ Access \/ Wait \/ Return \/ Elsewhere

Spec == Init /\ [][Next]_counterVars
-----------------------------------------------------------------------------
CallRecord ==
  [fn : {"none", "get", "set"}, csr : Csrs,
   pc : {"idle", "highInitial", "clear", "low", "high", "ret"},
   value : Value, low : 0..L-1, high : 0..H-1, seen : Value,
   waited : 0..MaxWait, carried : BOOLEAN, moved : BOOLEAN, turn : 0..1]

\* Type invariant: the halves and what a call has read of them stay in range,
\* and no loop turns more than once again.
CounterTypeOK ==
  /\ hi \in [Csrs -> 0..H-1] /\ lo \in [Csrs -> 0..L-1]
  /\ call \in CallRecord

\* get_mcycle and get_minstret return a value the counter really had, the one
\* it had when the low half was read, although both halves may change between
\* the three reads.
Snapshot == call.fn = "get" /\ call.pc = "ret" => call.value = call.seen

\* After set_mcycle or set_minstret the counter has the value that was set:
\* no carry out of the low half comes between the writes.
SetLands ==
  call.fn = "set" /\ call.pc = "ret" =>
    [high |-> hi[call.csr], low |-> lo[call.csr]] = call.value
=============================================================================
