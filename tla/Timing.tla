------------------------------- MODULE Timing -------------------------------
(***************************************************************************)
(* How CoreMark measures itself (core_portme.c, core_main.c): main's timed *)
(* runs, with the calls of csr_lib they make.  An iteration takes a fixed  *)
(* number of cycles and retires an instruction in each or in every other.  *)
(***************************************************************************)
EXTENDS Counter, Sequences

CONSTANTS
  Hz,            \* CORE_TICKS_PER_SEC
  Configured,    \* ITERATIONS as compiled: 0 stands for calibration
  Costs          \* cycles of an iteration

ASSUME TimingAssumption ==
  Hz \in Nat \ {0} /\ Configured \subseteq Nat /\ Costs \subseteq Nat \ {0}

\* The counters do not come round within a run, however long the tries at
\* calibration make it (64 bits last for thousands of years).
ASSUME CountersAreWide ==
  \A c \in Costs :
    /\ (10 * c) + (30 * Hz) + (2 * MaxWait) + 8 < H * L
    /\ \A n \in Configured : (n * c) + (2 * MaxWait) + 8 < H * L

VARIABLES
  pc,           \* where main is
  auto,         \* main still looks for the number of iterations
  todo,         \* calls of csr_lib that start_time or stop_time still makes
  cost,         \* cycles an iteration takes
  iterations,   \* results[0].iterations
  times,        \* start_time_val, stop_time_val, instructions_retired
  report        \* what main prints: seconds, iterations per second, error

timingVars == <<pc, auto, todo, cost, iterations, times, report>>
vars == <<counterVars, timingVars>>

NoReport == [secs |-> 0, rate |-> 0, error |-> FALSE]

TimingInit ==
  /\ Init
  /\ \E n \in Configured : iterations = (IF n = 0 THEN 1 ELSE n) /\ auto = (n = 0)
  /\ cost \in Costs
  /\ pc = "start"
  /\ todo = <<>>
  /\ times = [start |-> 0, stop |-> 0, retired |-> 0]
  /\ report = NoReport
-----------------------------------------------------------------------------
(* start_time and stop_time: calls of csr_lib, one after the other.        *)

Zero == [high |-> 0, low |-> 0]

\* Each try at calibration first takes ten times the iterations.
StartTime ==
  /\ pc = "start"
  /\ iterations' = IF auto THEN iterations * 10 ELSE iterations
  /\ pc' = "starting"
  /\ todo' = <<[fn |-> "set", csr |-> "mcycle"], [fn |-> "set", csr |-> "minstret"],
               [fn |-> "get", csr |-> "mcycle"]>>
  /\ UNCHANGED <<counterVars, auto, cost, times, report>>

StopTime ==
  /\ pc = "stop"
  /\ pc' = "stopping"
  /\ todo' = <<[fn |-> "get", csr |-> "mcycle"], [fn |-> "get", csr |-> "minstret"]>>
  /\ UNCHANGED <<counterVars, auto, cost, iterations, times, report>>

Call ==
  /\ todo # <<>>
  /\ LET next == Head(todo)
     IN  \/ next.fn = "set" /\ Set(next.csr, Zero)
         \/ next.fn = "get" /\ Get(next.csr)
  /\ UNCHANGED timingVars

Library == (Access \/ Wait) /\ UNCHANGED timingVars

Number(value) == (value.high * L) + value.low

\* start_time keeps what its only get returns, stop_time both.
Returned ==
  /\ Return
  /\ todo' = Tail(todo)
  /\ times' = LET n == Number(call.value)
              IN  CASE call.fn = "set" -> times
                    [] call.fn = "get" /\ pc = "starting" -> [times EXCEPT !.start = n]
                    [] call.fn = "get" /\ pc = "stopping" /\ call.csr = "mcycle" ->
                         [times EXCEPT !.stop = n]
                    [] OTHER -> [times EXCEPT !.retired = n]
  /\ UNCHANGED <<pc, auto, cost, iterations, report>>
-----------------------------------------------------------------------------
(* main.                                                                   *)

Later(c, n) == Number([high |-> hi[c], low |-> lo[c]]) + n

\* Mutation: the work begins while the counter is still being read.
IterateEarly ==
  /\ pc = "starting" /\ Len(todo) <= 1
  /\ LET n == [c \in Csrs |-> Later(c, iterations * cost)]
     IN  /\ lo' = [c \in Csrs |-> n[c] % L]
         /\ hi' = [c \in Csrs |-> (n[c] \div L) % H]
  /\ pc' = "stop"
  /\ UNCHANGED <<call, auto, todo, cost, iterations, times, report>>

\* iterate: both counters count on for the cycles of all iterations.
Iterate ==
  /\ pc = "starting" /\ todo = <<>> /\ call.fn = "none"
  /\ \E perInstruction \in {1, 2} :
       LET n == [mcycle   |-> Later("mcycle", iterations * cost),
                 minstret |-> Later("minstret", (iterations * cost) \div perInstruction)]
       IN  /\ lo' = [c \in Csrs |-> n[c] % L]
           /\ hi' = [c \in Csrs |-> (n[c] \div L) % H]
  /\ pc' = "stop"
  /\ UNCHANGED <<call, auto, todo, cost, iterations, times, report>>

get_time == (times.stop - times.start) % (H * L)

time_in_secs(ticks) == ticks \div Hz

Stopped == pc = "stopping" /\ todo = <<>> /\ call.fn = "none"

\* Mutation: one more run of the size that took the seconds is left out.
CalibratedShort ==
  /\ Stopped /\ auto
  /\ LET secs == time_in_secs(get_time)
     IN  IF secs < 1 THEN UNCHANGED <<auto, iterations>>
         ELSE auto' = FALSE /\ iterations' = iterations * (10 \div secs)
  /\ pc' = "start"
  /\ UNCHANGED <<counterVars, todo, cost, times, report>>

\* "now we know it executes for at least 1 sec, set actual run time at about
\* 10 secs"
Calibrated ==
  /\ Stopped /\ auto
  /\ LET secs == time_in_secs(get_time)
     IN  IF secs < 1 THEN UNCHANGED <<auto, iterations>>
         ELSE auto' = FALSE /\ iterations' = iterations * (1 + (10 \div secs))
  /\ pc' = "start"
  /\ UNCHANGED <<counterVars, todo, cost, times, report>>

Measured ==
  /\ Stopped /\ ~auto
  /\ LET secs == time_in_secs(get_time)
     IN  report' = [secs  |-> secs,
                    rate  |-> IF secs > 0 THEN iterations \div secs ELSE 0,
                    error |-> secs < 10]
  /\ pc' = "done"
  /\ UNCHANGED <<counterVars, auto, todo, cost, iterations, times>>

\* main has returned.
Finished == pc = "done" /\ UNCHANGED vars
-----------------------------------------------------------------------------
TimingNext == \/ StartTime \/ StopTime \/ Call \/ Library \/ Returned
              \/ Iterate \/ Calibrated \/ Measured \/ Finished

\* The processor runs on: main always has a next step until it returns, and a
\* call waits MaxWait cycles at most.
TimingSpec == /\ TimingInit /\ [][TimingNext]_vars
              /\ []<><<TRUE>>_vars \/ <>[](pc = "done")
=============================================================================
