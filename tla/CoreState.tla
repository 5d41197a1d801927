----------------------------- MODULE CoreState ------------------------------
(***************************************************************************)
(* The state-machine algorithm of CoreMark (core_state.c): a Moore machine *)
(* scans numbers in a memory block, some characters are corrupted, it      *)
(* scans again, and the corruption is undone.  A block is a function from  *)
(* 0..size-1 to character codes.                                           *)
(***************************************************************************)
EXTENDS Crc, Sequences

\* enum CORE_STATE, counted from 1: tuples of counters are indexed by it.
CORE_START == 1
CORE_INVALID == 2
CORE_S1 == 3
CORE_S2 == 4
CORE_INT == 5
CORE_FLOAT == 6
CORE_EXPONENT == 7
CORE_SCIENTIFIC == 8
NoCounts == <<0, 0, 0, 0, 0, 0, 0, 0>>

Comma == 44
Dot == 46
Signs == {43, 45}
Exps == {69, 101}

ee_isdigit(c) == c \in 48..57

\* "5012" "1234" "-874" "+122"
intpat == << <<53,48,49,50>>, <<49,50,51,52>>, <<45,56,55,52>>, <<43,49,50,50>> >>
\* "35.54400" ".1234500" "-110.700" "+0.64400"
floatpat == << <<51,53,46,53,52,52,48,48>>, <<46,49,50,51,52,53,48,48>>,
               <<45,49,49,48,46,55,48,48>>, <<43,48,46,54,52,52,48,48>> >>
\* "5.500e+3" "-.123e-2" "-87e+832" "+0.6e-12"
scipat == << <<53,46,53,48,48,101,43,51>>, <<45,46,49,50,51,101,45,50>>,
             <<45,56,55,101,43,56,51,50>>, <<43,48,46,54,101,45,49,50>> >>
\* "T0.3e-1F" "-T.T++Tq" "1T3.4e4z" "34.0e-T^"
errpat == << <<84,48,46,51,101,45,49,70>>, <<45,84,46,84,43,43,84,113>>,
             <<49,84,51,46,52,101,52,122>>, <<51,52,46,48,101,45,84,94>> >>

PatternOf(seed) ==
  LET which == ((seed \div 8) % 4) + 1
  IN  CASE seed % 8 \in 0..2 -> intpat[which]
        [] seed % 8 \in 3..4 -> floatpat[which]
        [] seed % 8 \in 5..6 -> scipat[which]
        [] OTHER             -> errpat[which]

\* The patterns of seed+1, seed+2, ..., each followed by a comma, as long as
\* the next one fits; the rest of the block is 0.
core_init_state(size, seed) ==
  LET fill[k \in 0..size] ==
        IF k = 0 THEN <<>>
        ELSE fill[k-1] \o PatternOf(seed + k) \o <<Comma>>
      Fits(k) == Len(fill[k-1]) + Len(PatternOf(seed + k)) + 1 < size - 1
      count[k \in 1..size+1] == IF Fits(k) THEN count[k+1] ELSE k - 1
      text == fill[count[1]]
  IN  [p \in 0..size-1 |-> IF p < Len(text) THEN text[p+1] ELSE 0]

\* The state after NEXT_SYMBOL c.
Delta(state, c) ==
  LET digit == ee_isdigit(c)
  IN  CASE digit /\ state \in {CORE_START, CORE_S1, CORE_INT} -> CORE_INT
        [] digit /\ state = CORE_FLOAT -> CORE_FLOAT
        [] digit /\ state \in {CORE_EXPONENT, CORE_SCIENTIFIC} -> CORE_SCIENTIFIC
        [] c \in Signs /\ state = CORE_START -> CORE_S1
        [] c \in Signs /\ state = CORE_S2 -> CORE_EXPONENT
        [] c = Dot /\ state \in {CORE_START, CORE_S1, CORE_INT} -> CORE_FLOAT
        [] c \in Exps /\ state = CORE_FLOAT -> CORE_S2
        [] OTHER -> CORE_INVALID

\* transition_count: a change of state counts for the state it leaves; a
\* failing start counts for CORE_INVALID too, and a failing CORE_SCIENTIFIC
\* for CORE_INVALID alone.
Count(n, state, c) ==
  LET to == Delta(state, c)
  IN  CASE to = state -> n
        [] state = CORE_START /\ to = CORE_INVALID ->
             [n EXCEPT ![CORE_START] = @ + 1, ![CORE_INVALID] = @ + 1]
        [] state = CORE_SCIENTIFIC -> [n EXCEPT ![CORE_INVALID] = @ + 1]
        [] OTHER -> [n EXCEPT ![state] = @ + 1]

\* One token from position p on: where *instr is left (str), the end state
\* and the counters.  Position size, past the block, stands for an overrun.
core_state_transition(mem, size, p, count) ==
  LET scan[str \in 0..size, state \in 1..8, n \in [1..8 -> Nat]] ==
        IF str = size \/ mem[str] = 0 \/ state = CORE_INVALID
        THEN [str |-> str, state |-> state, count |-> n]
        ELSE IF mem[str] = Comma THEN [str |-> str + 1, state |-> state, count |-> n]
        ELSE scan[str + 1, Delta(state, mem[str]), Count(n, state, mem[str])]
  IN  scan[p, CORE_START, count]

\* The tokens up to the terminating 0, added to the counters of sofar, and the
\* furthest position a scan stopped at.
RunOver(mem, size, sofar) ==
  LET run[p \in 0..size, n \in [final : [1..8 -> Nat], track : [1..8 -> Nat], end : 0..size]] ==
        IF p = size \/ mem[p] = 0 THEN [n EXCEPT !.end = IF @ > p THEN @ ELSE p]
        ELSE LET t == core_state_transition(mem, size, p, n.track)
             IN  run[t.str, [n EXCEPT !.final[t.state] = @ + 1, !.track = t.count]]
  IN  run[0, sofar]

\* Every step-th character that is no comma is xored with the low byte of seed.
Corrupt(mem, seed, step) ==
  [p \in DOMAIN mem |-> IF p % step = 0 /\ mem[p] # Comma
                        THEN Xor(mem[p], seed % 256) ELSE mem[p]]

\* returns [crc, mem, end]: the benchmark's CRC, the block it leaves behind
\* and the furthest position a scan stopped at.
core_bench_state(size, mem, seed1, seed2, step, crc) ==
  LET r1  == RunOver(mem, size, [final |-> NoCounts, track |-> NoCounts, end |-> 0])
      bad == Corrupt(mem, seed1, step)
      r2  == RunOver(bad, size, r1)
      sum[i \in 0..8] == IF i = 0 THEN crc
                         ELSE crcu32[r2.track[i], crcu32[r2.final[i], sum[i-1]]]
  IN  [crc |-> sum[8],
       mem |-> Corrupt(bad, seed2, step),
       end |-> r2.end]
=============================================================================
