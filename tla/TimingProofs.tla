---------------------------- MODULE TimingProofs ----------------------------
(***************************************************************************)
(* get_mcycle returns what the counter was, set_mcycle leaves what was     *)
(* asked for, and the loop turns at most twice, for every width of the     *)
(* halves, as long as a call is over before the low half comes round.      *)
(*                                                                         *)
(* What CoreMark measures with them is the work of the run and a few       *)
(* cycles, for every length of the iterations, and main uses csr_lib as    *)
(* Counter describes it.                                                   *)
(***************************************************************************)
EXTENDS TimingProperties, Arithmetic

\* The counter the call is about.
High == hi[call.csr]
Low == lo[call.csr]

Succ(h) == IF h = H - 1 THEN 0 ELSE h + 1

\* Cycles since the call of a get.
Accesses == IF call.pc = "highInitial" THEN 0 ELSE IF call.pc = "low" THEN 1 ELSE 2
Cycles == call.waited + (3 * call.turn) + Accesses

\* A get sees one carry at most, and knows when it came after the first read.
GetInv ==
  call.fn = "get" /\ call.pc # "ret" =>
    /\ call.pc \in {"highInitial", "low", "high"}
    /\ call.carried => Low < Cycles
    /\ call.turn = 1 => call.carried
    /\ call.turn = 1 /\ call.pc # "highInitial" => ~call.moved
    /\ call.pc # "highInitial" =>
         /\ ~call.moved => High = call.high
         /\ call.moved => call.carried /\ High = Succ(call.high)
    /\ call.pc = "high" =>
         /\ call.seen.low = call.low
         /\ ~call.moved => call.seen.high = call.high

\* A set keeps the low half too small to carry until it is written.
SetInv ==
  call.fn = "set" =>
    /\ call.pc \in {"clear", "high", "low", "ret"}
    /\ call.pc \in {"high", "low"} => Low <= call.waited
    /\ call.pc = "low" => High = call.value.high

CounterInv == CounterTypeOK /\ GetInv /\ SetInv /\ Snapshot /\ SetLands

-----------------------------------------------------------------------------
LEMMA CallType ==
  ASSUME CounterTypeOK
  PROVE  /\ call.fn \in {"none", "get", "set"} /\ call.csr \in Csrs
         /\ call.pc \in {"idle", "highInitial", "clear", "low", "high", "ret"}
         /\ call.value \in Value /\ call.low \in 0..L-1 /\ call.high \in 0..H-1
         /\ call.seen \in Value /\ call.waited \in 0..MaxWait
         /\ call.carried \in BOOLEAN /\ call.moved \in BOOLEAN /\ call.turn \in 0..1
         /\ High \in 0..H-1 /\ Low \in 0..L-1
BY DEF CounterTypeOK, CallRecord, High, Low

LEMMA CyclesBounded ==
  ASSUME CounterTypeOK
  PROVE  Cycles \in Nat /\ Cycles <= MaxWait + 5
<1>1. call.waited \in 0..MaxWait /\ call.turn \in 0..1
  BY CallType
<1>2. Accesses \in 0..2
  BY DEF Accesses
<1> QED
  BY <1>1, <1>2, CounterAssumption DEF Cycles

LEMMA CarryNeedsFullLow ==
  ASSUME CounterInv, NEW retired \in BOOLEAN, call.fn = "get", call.pc # "ret",
         Carries(call.csr, retired)
  PROVE  ~call.carried
<1>1. Low = L - 1
  BY DEF Carries, Low
<1>2. Cycles \in Nat /\ Cycles <= MaxWait + 5
  BY CyclesBounded DEF CounterInv
<1> QED
  BY <1>1, <1>2, CounterAssumption DEF CounterInv, GetInv

LEMMA HalvesStayInRange ==
  ASSUME CounterTypeOK, NEW retired \in BOOLEAN, NEW c \in Csrs
  PROVE  /\ LowAfter(c, retired) \in 0..L-1
         /\ HighAfter(c, retired) \in 0..H-1
         /\ LowAfter(c, retired) <= lo[c] + 1
         /\ Carries(c, retired) => LowAfter(c, retired) = 0 /\ HighAfter(c, retired) = Succ(hi[c])
         /\ ~Carries(c, retired) => HighAfter(c, retired) = hi[c]
<1>1. lo[c] \in 0..L-1 /\ hi[c] \in 0..H-1
  BY DEF CounterTypeOK
<1> QED
  BY <1>1, CounterAssumption DEF LowAfter, HighAfter, Carries, Succ

LEMMA CountingCycle ==
  ASSUME CounterTypeOK, NEW retired \in BOOLEAN, CountOn(retired), call'.csr = call.csr
  PROVE  /\ hi' \in [Csrs -> 0..H-1] /\ lo' \in [Csrs -> 0..L-1]
         /\ Low' \in 0..L-1 /\ Low' <= Low + 1
         /\ Carries(call.csr, retired) => Low' = 0 /\ High' = Succ(High)
         /\ ~Carries(call.csr, retired) => High' = High
<1>1. call.csr \in Csrs
  BY CallType
<1>2. Low' = LowAfter(call.csr, retired) /\ High' = HighAfter(call.csr, retired)
  BY <1>1 DEF CountOn, Low, High
<1>3. hi' \in [Csrs -> 0..H-1] /\ lo' \in [Csrs -> 0..L-1]
  BY HalvesStayInRange DEF CountOn
<1> QED
  BY <1>1, <1>2, <1>3, HalvesStayInRange DEF Low, High

LEMMA CarryIsBoolean ==
  ASSUME NEW c, NEW retired \in BOOLEAN PROVE Carries(c, retired) \in BOOLEAN
BY DEF Carries

LEMMA WithCarryFields ==
  ASSUME NEW k \in CallRecord, NEW retired \in BOOLEAN
  PROVE  LET r == WithCarry(k, retired)
         IN  /\ r \in CallRecord
             /\ r.fn = k.fn /\ r.csr = k.csr /\ r.pc = k.pc /\ r.value = k.value
             /\ r.low = k.low /\ r.high = k.high /\ r.seen = k.seen
             /\ r.waited = k.waited /\ r.turn = k.turn
             /\ r.carried <=> k.carried \/ Carries(k.csr, retired)
             /\ r.moved <=> k.moved \/ Carries(k.csr, retired)
<1>1. k.carried \in BOOLEAN /\ k.moved \in BOOLEAN
  BY DEF CallRecord
<1>2. PICK c \in BOOLEAN : c <=> k.carried \/ Carries(k.csr, retired)
  OBVIOUS
<1>3. PICK m \in BOOLEAN : m <=> k.moved \/ Carries(k.csr, retired)
  OBVIOUS
<1>4. (k.carried \/ Carries(k.csr, retired)) = c /\ (k.moved \/ Carries(k.csr, retired)) = m
  BY <1>1, <1>2, <1>3, CarryIsBoolean
<1>5. WithCarry(k, retired) = [k EXCEPT !.carried = c, !.moved = m]
  BY <1>4 DEF WithCarry
<1>6. [k EXCEPT !.carried = c, !.moved = m] \in CallRecord
  BY DEF CallRecord
<1> QED
  BY <1>2, <1>3, <1>5, <1>6 DEF CallRecord

LEMMA ReadHighInitialStep == CounterInv /\ ReadHighInitial => CounterInv'
<1> SUFFICES ASSUME CounterInv, ReadHighInitial, NEW retired \in BOOLEAN, CountOn(retired),
                    call' = WithCarry([call EXCEPT !.pc = "low", !.high = High,
                                         !.moved = FALSE], retired)
             PROVE  CounterInv'
  BY DEF ReadHighInitial, High
<1> DEFINE read == [call EXCEPT !.pc = "low", !.high = High, !.moved = FALSE]
           carry == Carries(call.csr, retired)
<1>1. /\ read \in CallRecord
      /\ read.fn = "get" /\ read.pc = "low" /\ read.high = High /\ read.moved = FALSE
      /\ read.carried = call.carried /\ read.csr = call.csr
      /\ read.turn = call.turn /\ read.waited = call.waited
  <2>1. High \in 0..H-1
    BY CallType DEF CounterInv
  <2> QED
    BY <2>1 DEF CounterInv, CounterTypeOK, CallRecord, ReadHighInitial
<1>2. /\ call' \in CallRecord
      /\ call'.fn = "get" /\ call'.pc = "low" /\ call'.high = High /\ (call'.moved <=> carry)
      /\ (call'.carried <=> call.carried \/ carry)
      /\ call'.csr = call.csr /\ call'.turn = call.turn /\ call'.waited = call.waited
  <2>1. call' = WithCarry(read, retired)
    BY DEF read
  <2> HIDE DEF read
  <2>2. /\ call' \in CallRecord
        /\ call'.fn = "get" /\ call'.pc = "low" /\ call'.high = High
        /\ call'.csr = call.csr /\ call'.turn = call.turn /\ call'.waited = call.waited
    BY <1>1, <2>1, WithCarryFields
  <2>3. (call'.moved <=> carry) /\ (call'.carried <=> call.carried \/ carry)
    BY <1>1, <2>1, WithCarryFields
  <2> QED
    BY <2>2, <2>3
<1>3. carry => ~call.carried
  BY CarryNeedsFullLow DEF ReadHighInitial
<1>4. Cycles \in Nat /\ Cycles' = Cycles + 1
  BY <1>2, CallType, CounterAssumption DEF Cycles, Accesses, ReadHighInitial, CounterInv
<1>5. CounterTypeOK'
  BY <1>2, CountingCycle DEF CounterInv, CounterTypeOK
<1>6. Low' \in Nat /\ Low' <= Low + 1 /\ (carry => Low' = 0 /\ High' = Succ(High))
      /\ (~carry => High' = High)
  BY <1>2, CountingCycle DEF CounterInv
<1>7. GetInv'
  <2>1. call.fn = "get" /\ call.pc = "highInitial"
    BY DEF ReadHighInitial
  <2>2. (call.carried => Low < Cycles) /\ (call.turn = 1 => call.carried)
    BY <2>1 DEF CounterInv, GetInv
  <2>3. Low \in Nat
    BY CallType DEF CounterInv
  <2> HIDE DEF carry
  <2> QED
    BY <1>2, <1>3, <1>4, <1>6, <2>2, <2>3 DEF GetInv
<1> QED
  BY <1>2, <1>5, <1>7 DEF CounterInv, SetInv, Snapshot, SetLands

LEMMA NoCallIsCall == NoCall \in CallRecord
BY CounterAssumption DEF NoCall, CallRecord, Csrs, Value

\* The invariant holds when the core comes out of reset (rv_csr.c is not yet called).
THEOREM CounterInvInit == Init => CounterInv
<1> SUFFICES ASSUME Init PROVE CounterInv
  OBVIOUS
<1>1. CounterTypeOK
  BY NoCallIsCall, CounterAssumption DEF Init, CounterTypeOK
<1>2. call.fn = "none"
  BY DEF Init, NoCall
<1> QED
  BY <1>1, <1>2 DEF CounterInv, GetInv, SetInv, Snapshot, SetLands

LEMMA ReadLowStep == CounterInv /\ ReadLow => CounterInv'
<1> SUFFICES ASSUME CounterInv, ReadLow, NEW retired \in BOOLEAN, CountOn(retired),
                    call' = WithCarry([call EXCEPT !.pc = "high", !.low = Low,
                                         !.seen = [high |-> High, low |-> Low]], retired)
             PROVE  CounterInv'
  BY DEF ReadLow, High, Low
<1> DEFINE read == [call EXCEPT !.pc = "high", !.low = Low,
                                !.seen = [high |-> High, low |-> Low]]
           carry == Carries(call.csr, retired)
<1>1. /\ read \in CallRecord
      /\ read.fn = "get" /\ read.pc = "high" /\ read.low = Low
      /\ read.seen = [high |-> High, low |-> Low] /\ read.high = call.high
      /\ read.carried = call.carried /\ read.moved = call.moved /\ read.csr = call.csr
      /\ read.turn = call.turn /\ read.waited = call.waited
  <2>1. High \in 0..H-1 /\ Low \in 0..L-1
    BY CallType DEF CounterInv
  <2> QED
    BY <2>1 DEF CounterInv, CounterTypeOK, CallRecord, ReadLow, Value
<1>2. /\ call' \in CallRecord
      /\ call'.fn = "get" /\ call'.pc = "high" /\ call'.high = call.high
      /\ call'.seen.low = call'.low /\ call'.seen.high = High
      /\ (call'.moved <=> call.moved \/ carry) /\ (call'.carried <=> call.carried \/ carry)
      /\ call'.csr = call.csr /\ call'.turn = call.turn /\ call'.waited = call.waited
  <2>1. call' = WithCarry(read, retired)
    BY DEF read
  <2> HIDE DEF read
  <2>2. /\ call' \in CallRecord
        /\ call'.fn = "get" /\ call'.pc = "high" /\ call'.high = call.high
        /\ call'.low = Low /\ call'.seen = [high |-> High, low |-> Low]
        /\ call'.csr = call.csr /\ call'.turn = call.turn /\ call'.waited = call.waited
    BY <1>1, <2>1, WithCarryFields
  <2>3. (call'.moved <=> call.moved \/ carry) /\ (call'.carried <=> call.carried \/ carry)
    BY <1>1, <2>1, WithCarryFields
  <2> QED
    BY <2>2, <2>3
<1>3. carry => ~call.carried
  BY CarryNeedsFullLow DEF ReadLow
<1>4. Cycles \in Nat /\ Cycles' = Cycles + 1
  BY <1>2, CallType, CounterAssumption DEF Cycles, Accesses, ReadLow, CounterInv
<1>5. CounterTypeOK'
  BY <1>2, CountingCycle DEF CounterInv, CounterTypeOK
<1>6. Low' \in Nat /\ Low' <= Low + 1 /\ (carry => Low' = 0 /\ High' = Succ(High))
      /\ (~carry => High' = High)
  BY <1>2, CountingCycle DEF CounterInv
<1>7. GetInv'
  <2>1. call.fn = "get" /\ call.pc = "low"
    BY DEF ReadLow
  <2>2. /\ call.carried => Low < Cycles
        /\ call.turn = 1 => call.carried /\ ~call.moved
        /\ ~call.moved => High = call.high
        /\ call.moved => call.carried /\ High = Succ(call.high)
    BY <2>1 DEF CounterInv, GetInv
  <2>3. Low \in Nat
    BY CallType DEF CounterInv
  <2> HIDE DEF carry
  <2> QED
    BY <1>2, <1>3, <1>4, <1>6, <2>2, <2>3 DEF GetInv
<1> QED
  BY <1>2, <1>5, <1>7 DEF CounterInv, SetInv, Snapshot, SetLands

\* The test at the end of the loop decides whether a carry came in between.
LEMMA HighTellsMoved ==
  ASSUME CounterInv, call.fn = "get", call.pc = "high"
  PROVE  High = call.high <=> ~call.moved
<1>1. call.high \in 0..H-1 /\ call.moved \in BOOLEAN
  BY CallType DEF CounterInv
<1>2. Succ(call.high) # call.high
  BY <1>1, CounterAssumption DEF Succ
<1>3. (~call.moved => High = call.high) /\ (call.moved => High = Succ(call.high))
  BY DEF CounterInv, GetInv
<1> QED
  BY <1>2, <1>3

LEMMA TurnAgain ==
  ASSUME CounterTypeOK, call.fn = "get", call.turn = 0
  PROVE  LET k == [call EXCEPT !.pc = "highInitial", !.turn = @ + 1]
         IN  /\ k \in CallRecord /\ k.fn = "get" /\ k.pc = "highInitial"
             /\ k.carried = call.carried /\ k.csr = call.csr
             /\ k.turn = 1 /\ k.waited = call.waited
<1> DEFINE k == [call EXCEPT !.pc = "highInitial", !.turn = 1]
<1>1. [call EXCEPT !.pc = "highInitial", !.turn = @ + 1] = k
  OBVIOUS
<1>2. k \in CallRecord
  <2>1. 1 \in 0..1 /\ "highInitial" \in {"idle", "highInitial", "clear", "low", "high", "ret"}
    OBVIOUS
  <2> QED
    BY <2>1 DEF CounterTypeOK, CallRecord
<1>3. /\ k.fn = "get" /\ k.pc = "highInitial" /\ k.carried = call.carried
      /\ k.csr = call.csr /\ k.turn = 1 /\ k.waited = call.waited
  BY DEF CounterTypeOK, CallRecord
<1> HIDE DEF k
<1> QED
  BY <1>1, <1>2, <1>3

LEMMA ReadHighStep == CounterInv /\ ReadHigh => CounterInv'
<1> SUFFICES ASSUME CounterInv, ReadHigh, NEW retired \in BOOLEAN, CountOn(retired),
                    call' = IF High = call.high
                            THEN [call EXCEPT !.pc = "ret",
                                    !.value = [high |-> call.high, low |-> call.low]]
                            ELSE WithCarry([call EXCEPT !.pc = "highInitial",
                                              !.turn = @ + 1], retired)
             PROVE  CounterInv'
  BY DEF ReadHigh, High
<1>0. call.fn = "get" /\ call.pc = "high"
  BY DEF ReadHigh
<1>1. CASE High = call.high
  <2>1. call' = [call EXCEPT !.pc = "ret", !.value = [high |-> call.high, low |-> call.low]]
    BY <1>1
  <2>2. call.seen = [high |-> call.high, low |-> call.low]
    <3>1. ~call.moved
      BY <1>0, <1>1, HighTellsMoved
    <3>2. call.seen.low = call.low /\ call.seen.high = call.high
      BY <1>0, <3>1 DEF CounterInv, GetInv
    <3>3. call.seen \in Value
      BY CallType DEF CounterInv
    <3> QED
      BY <3>2, <3>3 DEF Value
  <2>3. /\ call' \in CallRecord /\ call'.fn = "get" /\ call'.pc = "ret"
        /\ call'.value = call'.seen /\ call'.csr = call.csr
    BY <1>0, <2>1, <2>2 DEF CounterInv, CounterTypeOK, CallRecord
  <2>4. CounterTypeOK'
    BY <2>3, CountingCycle DEF CounterInv, CounterTypeOK
  <2> QED
    BY <2>3, <2>4 DEF CounterInv, GetInv, SetInv, Snapshot, SetLands
<1>2. CASE High # call.high
  <2> DEFINE again == [call EXCEPT !.pc = "highInitial", !.turn = @ + 1]
             carry == Carries(call.csr, retired)
  <2>1. call.moved /\ call.carried /\ call.turn = 0 /\ Low < Cycles
    <3>1. call.moved
      BY <1>0, <1>2, HighTellsMoved, CallType DEF CounterInv
    <3>2. call.carried /\ call.turn # 1 /\ Low < Cycles
      BY <1>0, <3>1 DEF CounterInv, GetInv
    <3>3. call.turn \in 0..1
      BY CallType DEF CounterInv
    <3> QED
      BY <3>1, <3>2, <3>3
  <2>2. /\ again \in CallRecord /\ again.fn = "get" /\ again.pc = "highInitial"
        /\ again.carried = call.carried /\ again.csr = call.csr
        /\ again.turn = 1 /\ again.waited = call.waited
    BY <1>0, <2>1, TurnAgain DEF CounterInv
  <2>3. /\ call' \in CallRecord /\ call'.fn = "get" /\ call'.pc = "highInitial"
        /\ call'.carried /\ call'.csr = call.csr
        /\ call'.turn = 1 /\ call'.waited = call.waited
    <3>1. call' = WithCarry(again, retired)
      BY <1>2
    <3> HIDE DEF again, carry
    <3>2. /\ call' \in CallRecord /\ call'.fn = "get" /\ call'.pc = "highInitial"
          /\ call'.csr = call.csr /\ call'.turn = 1 /\ call'.waited = call.waited
      BY ONLY <2>2, <3>1, WithCarryFields, retired \in BOOLEAN
    <3>3. call'.carried <=> again.carried \/ Carries(again.csr, retired)
      BY ONLY <2>2, <3>1, WithCarryFields, retired \in BOOLEAN
    <3> QED
      BY <2>1, <2>2, <3>2, <3>3
  <2>4. ~carry
    BY <1>0, <2>1, CarryNeedsFullLow
  <2>5. Cycles \in Nat /\ Cycles' = Cycles + 1
    BY <1>0, <2>1, <2>3, CallType, CounterAssumption DEF Cycles, Accesses, CounterInv
  <2>6. CounterTypeOK'
    BY <2>3, CountingCycle DEF CounterInv, CounterTypeOK
  <2>7. Low' \in Nat /\ Low' <= Low + 1 /\ Low \in Nat
    BY <2>3, CountingCycle, CallType DEF CounterInv
  <2>8. GetInv'
    BY <2>1, <2>3, <2>5, <2>7 DEF GetInv
  <2> QED
    BY <2>3, <2>6, <2>8 DEF CounterInv, SetInv, Snapshot, SetLands
<1> QED
  BY <1>1, <1>2

LEMMA WaitStep == CounterInv /\ Wait => CounterInv'
<1> SUFFICES ASSUME CounterInv, Wait, NEW retired \in BOOLEAN, CountOn(retired),
                    call' = WithCarry([call EXCEPT !.waited = @ + 1], retired)
             PROVE  CounterInv'
  BY DEF Wait
<1> DEFINE later == [call EXCEPT !.waited = @ + 1]
           carry == Carries(call.csr, retired)
<1>0. call.pc # "ret" /\ call.waited \in 0..MaxWait /\ call.waited < MaxWait
      /\ Low \in Nat
  BY CallType DEF Wait, CounterInv
<1>1. /\ later \in CallRecord /\ later.waited = call.waited + 1
      /\ later.fn = call.fn /\ later.pc = call.pc /\ later.csr = call.csr
      /\ later.value = call.value /\ later.low = call.low /\ later.high = call.high
      /\ later.seen = call.seen /\ later.turn = call.turn
      /\ later.carried = call.carried /\ later.moved = call.moved
  <2>1. call.waited + 1 \in 0..MaxWait
    BY <1>0, CounterAssumption
  <2> QED
    BY <2>1 DEF CounterInv, CounterTypeOK, CallRecord
<1>2. /\ call' \in CallRecord /\ call'.waited = call.waited + 1
      /\ call'.fn = call.fn /\ call'.pc = call.pc /\ call'.csr = call.csr
      /\ call'.value = call.value /\ call'.low = call.low /\ call'.high = call.high
      /\ call'.seen = call.seen /\ call'.turn = call.turn
      /\ (call'.moved <=> call.moved \/ carry) /\ (call'.carried <=> call.carried \/ carry)
  <2>1. call' = WithCarry(later, retired)
    BY DEF later
  <2> HIDE DEF later
  <2>2. /\ call' \in CallRecord /\ call'.waited = call.waited + 1
        /\ call'.fn = call.fn /\ call'.pc = call.pc /\ call'.csr = call.csr
        /\ call'.value = call.value /\ call'.low = call.low /\ call'.high = call.high
        /\ call'.seen = call.seen /\ call'.turn = call.turn
    BY <1>1, <2>1, WithCarryFields
  <2>3. (call'.moved <=> call.moved \/ carry) /\ (call'.carried <=> call.carried \/ carry)
    BY <1>1, <2>1, WithCarryFields
  <2> QED
    BY <2>2, <2>3
<1>3. CounterTypeOK'
  BY <1>2, CountingCycle DEF CounterInv, CounterTypeOK
<1>4. Low' \in Nat /\ Low' <= Low + 1 /\ (carry => Low' = 0 /\ High' = Succ(High))
      /\ (~carry => High' = High)
  BY <1>2, CountingCycle DEF CounterInv
<1>5. GetInv'
  <2> SUFFICES ASSUME call.fn = "get" PROVE GetInv'
    BY <1>2 DEF GetInv
  <2>1. carry => ~call.carried
    BY <1>0, CarryNeedsFullLow
  <2>2. Cycles \in Nat /\ Cycles' = Cycles + 1
    BY <1>0, <1>2, CallType, CounterAssumption DEF Cycles, Accesses, CounterInv
  <2>3. /\ call.pc \in {"highInitial", "low", "high"}
        /\ call.carried => Low < Cycles
        /\ call.turn = 1 => call.carried
        /\ call.turn = 1 /\ call.pc # "highInitial" => ~call.moved
        /\ call.pc # "highInitial" =>
             /\ ~call.moved => High = call.high
             /\ call.moved => call.carried /\ High = Succ(call.high)
        /\ call.pc = "high" =>
             /\ call.seen.low = call.low
             /\ ~call.moved => call.seen.high = call.high
    BY <1>0 DEF CounterInv, GetInv
  <2> HIDE DEF carry
  <2> QED
    BY <1>0, <1>2, <1>4, <2>1, <2>2, <2>3 DEF GetInv
<1>6. SetInv'
  <2> SUFFICES ASSUME call.fn = "set" PROVE SetInv'
    BY <1>2 DEF SetInv
  <2>1. /\ call.pc \in {"clear", "high", "low"}
        /\ call.pc \in {"high", "low"} => Low <= call.waited
        /\ call.pc = "low" => High = call.value.high
    BY <1>0 DEF CounterInv, SetInv
  <2>2. call.pc \in {"high", "low"} => ~carry
    BY <1>0, <2>1, CounterAssumption DEF Carries, Low
  <2> HIDE DEF carry
  <2> QED
    BY <1>0, <1>2, <1>4, <2>1, <2>2 DEF SetInv
<1> QED
  BY <1>0, <1>2, <1>3, <1>5, <1>6 DEF CounterInv, Snapshot, SetLands
-----------------------------------------------------------------------------
\* What a write of one half leaves of the counter that is written.
LEMMA WriteLowEffect ==
  ASSUME CounterTypeOK, NEW v \in 0..L-1, NEW retired \in BOOLEAN, WriteLow(v, retired),
         call'.csr = call.csr
  PROVE  /\ hi' \in [Csrs -> 0..H-1] /\ lo' \in [Csrs -> 0..L-1]
         /\ Low' = v /\ High' = High
<1>1. call.csr \in Csrs
  BY CallType
<1>2. hi' \in [Csrs -> 0..H-1] /\ lo' \in [Csrs -> 0..L-1]
  BY HalvesStayInRange DEF WriteLow, CounterTypeOK
<1> QED
  BY <1>1, <1>2 DEF WriteLow, Low, High

LEMMA WriteHighEffect ==
  ASSUME CounterTypeOK, NEW v \in 0..H-1, NEW retired \in BOOLEAN, WriteHigh(v, retired),
         call'.csr = call.csr
  PROVE  /\ hi' \in [Csrs -> 0..H-1] /\ lo' \in [Csrs -> 0..L-1]
         /\ Low' = Low /\ High' = v
<1>1. call.csr \in Csrs
  BY CallType
<1>2. hi' \in [Csrs -> 0..H-1] /\ lo' \in [Csrs -> 0..L-1]
  BY HalvesStayInRange DEF WriteHigh, CounterTypeOK
<1> QED
  BY <1>1, <1>2 DEF WriteHigh, Low, High

LEMMA NextAccess ==
  ASSUME CounterTypeOK, NEW place \in {"high", "low", "ret"},
         call' = [call EXCEPT !.pc = place]
  PROVE  /\ call' \in CallRecord /\ call'.pc = place /\ call'.fn = call.fn
         /\ call'.csr = call.csr /\ call'.value = call.value /\ call'.waited = call.waited
BY DEF CounterTypeOK, CallRecord

LEMMA SetStep == CounterInv /\ (ClearLow \/ SetHigh \/ SetLow) => CounterInv'
<1> SUFFICES ASSUME CounterInv, ClearLow \/ SetHigh \/ SetLow PROVE CounterInv'
  OBVIOUS
<1>0. /\ CounterTypeOK /\ call.waited \in Nat /\ Low \in Nat
      /\ call.value.high \in 0..H-1 /\ call.value.low \in 0..L-1
      /\ call.value = [high |-> call.value.high, low |-> call.value.low]
  BY CallType DEF CounterInv, Value
<1>1. CASE ClearLow
  <2>1. /\ call' \in CallRecord /\ call'.pc = "high" /\ call'.fn = "set"
        /\ call'.csr = call.csr /\ call'.waited = call.waited
    BY <1>0, <1>1, NextAccess DEF ClearLow
  <2>2. /\ hi' \in [Csrs -> 0..H-1] /\ lo' \in [Csrs -> 0..L-1] /\ Low' = 0
    BY <1>0, <1>1, <2>1, WriteLowEffect, CounterAssumption DEF ClearLow
  <2> QED
    BY <1>0, <2>1, <2>2 DEF CounterInv, CounterTypeOK, GetInv, SetInv, Snapshot, SetLands
<1>2. CASE SetHigh
  <2>1. /\ call' \in CallRecord /\ call'.pc = "low" /\ call'.fn = "set"
        /\ call'.csr = call.csr /\ call'.waited = call.waited /\ call'.value = call.value
    BY <1>0, <1>2, NextAccess DEF SetHigh
  <2>2. /\ hi' \in [Csrs -> 0..H-1] /\ lo' \in [Csrs -> 0..L-1]
        /\ Low' = Low /\ High' = call.value.high
    BY <1>0, <1>2, <2>1, WriteHighEffect DEF SetHigh
  <2>3. Low <= call.waited
    BY <1>2 DEF SetHigh, CounterInv, SetInv
  <2> QED
    BY <1>0, <2>1, <2>2, <2>3 DEF CounterInv, CounterTypeOK, GetInv, SetInv, Snapshot, SetLands
<1>3. CASE SetLow
  <2>1. /\ call' \in CallRecord /\ call'.pc = "ret" /\ call'.fn = "set"
        /\ call'.csr = call.csr /\ call'.value = call.value
    BY <1>0, <1>3, NextAccess DEF SetLow
  <2>2. /\ hi' \in [Csrs -> 0..H-1] /\ lo' \in [Csrs -> 0..L-1]
        /\ Low' = call.value.low /\ High' = High
    BY <1>0, <1>3, <2>1, WriteLowEffect DEF SetLow
  <2>3. High = call.value.high
    BY <1>3 DEF SetLow, CounterInv, SetInv
  <2>4. SetLands'
    <3>1. [high |-> High', low |-> Low'] = call'.value
      BY <1>0, <2>1, <2>2, <2>3
    <3> QED
      BY <3>1 DEF SetLands, High, Low
  <2> QED
    BY <2>1, <2>2, <2>4 DEF CounterInv, CounterTypeOK, GetInv, SetInv, Snapshot
<1> QED
  BY <1>1, <1>2, <1>3
-----------------------------------------------------------------------------
\* Calls start and end, and time passes between them.
LEMMA CallStep ==
  ASSUME CounterInv, \/ \E csr \in Csrs : Get(csr) \/ (call'.value \in Value /\ Set(csr, call'.value))
                     \/ Return \/ Elsewhere \/ UNCHANGED counterVars
  PROVE  CounterInv'
<1>1. ASSUME NEW csr \in Csrs, Get(csr) PROVE CounterInv'
  <2>1. /\ call' \in CallRecord /\ call'.fn = "get" /\ call'.pc = "highInitial"
        /\ call'.carried = FALSE /\ call'.turn = 0
    BY <1>1, NoCallIsCall DEF Get, NoCall, CallRecord
  <2>2. CounterTypeOK'
    BY <1>1, <2>1 DEF Get, CounterInv, CounterTypeOK
  <2>3. GetInv'
    <3>1. ~call'.carried /\ call'.turn # 1 /\ call'.pc = "highInitial"
      BY <2>1
    <3> QED
      BY <3>1 DEF GetInv
  <2> QED
    BY <2>1, <2>2, <2>3 DEF CounterInv, SetInv, Snapshot, SetLands
<1>2. ASSUME NEW csr \in Csrs, call'.value \in Value, Set(csr, call'.value)
      PROVE  CounterInv'
  <2>1. call' \in CallRecord
    BY <1>2, NoCallIsCall DEF Set, CallRecord
  <2>2. call'.fn = "set" /\ call'.pc = "clear"
    BY <1>2 DEF Set, NoCall
  <2> QED
    BY <1>2, <2>1, <2>2 DEF Set, CounterInv, CounterTypeOK, GetInv, SetInv, Snapshot, SetLands
<1>3. CASE Return
  <2>1. call'.fn = "none" /\ call' \in CallRecord
    BY <1>3, NoCallIsCall DEF Return, NoCall
  <2> QED
    BY <1>3, <2>1 DEF Return, CounterInv, CounterTypeOK, GetInv, SetInv, Snapshot, SetLands
<1>4. CASE Elsewhere
  BY <1>4 DEF Elsewhere, CounterInv, CounterTypeOK, GetInv, SetInv, Snapshot, SetLands
<1>5. CASE UNCHANGED counterVars
  BY <1>5 DEF counterVars, CounterInv, CounterTypeOK, GetInv, SetInv, Snapshot, SetLands,
              High, Low, Cycles, Accesses
<1> QED
  BY <1>1, <1>2, <1>3, <1>4, <1>5

\* Every cycle of the counters and every access of a call keeps the invariant.
THEOREM CounterInvNext == CounterInv /\ [Next]_counterVars => CounterInv'
<1> SUFFICES ASSUME CounterInv, [Next]_counterVars PROVE CounterInv'
  OBVIOUS
<1>1. CASE Access
  BY <1>1, ReadHighInitialStep, ReadLowStep, ReadHighStep, SetStep DEF Access
<1>2. CASE Wait
  BY <1>2, WaitStep
<1>3. CASE ~Access /\ ~Wait
  BY <1>3, CallStep DEF Next
<1> QED
  BY <1>1, <1>2, <1>3
-----------------------------------------------------------------------------
\* The inductive invariant behind the three theorems below.
THEOREM CounterInvAlways == Spec => []CounterInv
BY CounterInvInit, CounterInvNext, PTL DEF Spec

\* The halves and the state of a call stay in range: no get turns more than
\* twice (rv_csr.c, the loops of get_mcycle and get_minstret).
THEOREM CounterTypeSafe == Spec => []CounterTypeOK
<1>1. CounterInv => CounterTypeOK
  BY DEF CounterInv
<1> QED
  BY <1>1, CounterInvAlways, PTL

\* A get returns a value the counter had, however the halves carry between
\* its three reads (rv_csr.c, get_mcycle and get_minstret).
THEOREM GetsAreSnapshots == Spec => []Snapshot
<1>1. CounterInv => Snapshot
  BY DEF CounterInv
<1> QED
  BY <1>1, CounterInvAlways, PTL

\* A set leaves the value that was asked for (rv_csr.c, set_mcycle and
\* set_minstret).
THEOREM SetsLand == Spec => []SetLands
<1>1. CounterInv => SetLands
  BY DEF CounterInv
<1> QED
  BY <1>1, CounterInvAlways, PTL

-----------------------------------------------------------------------------
(* The run of main.                                                         *)

\* The 64-bit values of a counter.
Round == H * L
Cycle == Number([high |-> hi["mcycle"], low |-> lo["mcycle"]])

\* m is what v becomes after at least a and at most b cycles.
After(m, v, a, b) == \E d \in a..b : m = (v + d) % Round
-----------------------------------------------------------------------------
(* The arithmetic of the counters.                                         *)

LEMMA RoundType == /\ Round \in Nat \ {0} /\ L \in Nat \ {0} /\ H \in Nat \ {0}
                   /\ MaxWait \in Nat
<1>1. L \in Nat \ {0} /\ H \in Nat \ {0} /\ MaxWait \in Nat
  BY CounterAssumption
<1> QED
  BY <1>1 DEF Round

LEMMA NumberType ==
  ASSUME NEW v \in Value
  PROVE  Number(v) \in 0..(Round - 1)
<1>1. v.high \in 0..(H - 1) /\ v.low \in 0..(L - 1)
  BY DEF Value
<1> DEFINE h == v.high
           l == v.low
<1>2. ((H - 1) - h) * L >= 0 /\ h * L >= 0 /\ h * L \in Int
  BY <1>1, RoundType
<1>3. ((H - 1) - h) * L = H * L - L - h * L
  BY <1>1, RoundType
<1>4. H * L \in Int /\ L \in Int
  BY RoundType
<1> HIDE DEF h, l
<1>5. l \in 0..(L - 1) /\ h * L + l \in 0..(H * L - 1)
  BY <1>1, <1>2, <1>3, <1>4 DEF l
<1> QED
  BY <1>5 DEF Number, Round, h, l

LEMMA CycleType ==
  ASSUME CounterTypeOK
  PROVE  Cycle \in 0..(Round - 1)
<1>1. [high |-> hi["mcycle"], low |-> lo["mcycle"]] \in Value
  BY DEF CounterTypeOK, Csrs, Value
<1> QED
  BY <1>1, NumberType DEF Cycle

\* A number of the range is its own remainder.
LEMMA InRange ==
  ASSUME NEW x \in 0..(Round - 1)
  PROVE  x % Round = x
<1>1. 0 * Round + x = x
  BY RoundType
<1> QED
  BY <1>1, RoundType, OnlyQuotient

\* mcycle counts every cycle, the low half into the high half.
LEMMA CycleCounts ==
  ASSUME CounterTypeOK, NEW retired \in BOOLEAN, CountOn(retired)
  PROVE  Cycle' = (Cycle + 1) % Round
<1> DEFINE h == hi["mcycle"]
           l == lo["mcycle"]
<1>1. h \in 0..(H - 1) /\ l \in 0..(L - 1) /\ "mcycle" \in Csrs
  BY DEF CounterTypeOK, Csrs
<1>2. /\ hi["mcycle"]' = IF l = L - 1 THEN (IF h = H - 1 THEN 0 ELSE h + 1) ELSE h
      /\ lo["mcycle"]' = IF l = L - 1 THEN 0 ELSE l + 1
  BY <1>1 DEF CountOn, LowAfter, HighAfter, Carries, Counts
<1>3. Cycle = h * L + l
  BY DEF Cycle, Number
<1>4. Cycle' = hi["mcycle"]' * L + lo["mcycle"]'
  BY DEF Cycle, Number
<1>5. Cycle \in 0..(Round - 1) /\ Round \in Nat \ {0}
  BY CycleType, RoundType
<1> HIDE DEF h, l
<1>6. CASE l # L - 1
  <2>1. Cycle' = Cycle + 1
    <3>1. h * L \in Int
      BY <1>1, RoundType
    <3> QED
      BY <1>1, <1>2, <1>3, <1>4, <1>6, <3>1
  <2>2. l + 1 \in 0..(L - 1) /\ h \in 0..(H - 1)
    BY <1>1, <1>6, RoundType
  <2>3. Number([high |-> h, low |-> l + 1]) \in 0..(Round - 1)
    BY <2>2, NumberType DEF Value
  <2>4. Cycle + 1 \in 0..(Round - 1)
    BY <1>2, <1>4, <1>6, <2>1, <2>3 DEF Number
  <2> QED
    BY <2>1, <2>4, InRange
<1>7. CASE l = L - 1 /\ h # H - 1
  <2>1. Cycle' = Cycle + 1
    <3>1. (h + 1) * L = h * L + L /\ h * L \in Int
      BY <1>1, RoundType
    <3> QED
      BY <1>1, <1>2, <1>3, <1>4, <1>7, <3>1, RoundType
  <2>2. 0 \in 0..(L - 1) /\ h + 1 \in 0..(H - 1)
    BY <1>1, <1>7, RoundType
  <2>3. Number([high |-> h + 1, low |-> 0]) \in 0..(Round - 1)
    BY <2>2, NumberType DEF Value
  <2>4. Cycle + 1 \in 0..(Round - 1)
    BY <1>2, <1>4, <1>7, <2>1, <2>3 DEF Number
  <2> QED
    BY <2>1, <2>4, InRange
<1>8. CASE l = L - 1 /\ h = H - 1
  <2>1. Cycle' = 0
    <3>1. 0 * L = 0
      BY RoundType
    <3> QED
      BY <1>2, <1>4, <1>8, <3>1
  <2>2. Cycle + 1 = Round
    <3>1. (H - 1) * L = H * L - L /\ H * L \in Int
      BY RoundType
    <3> QED
      BY <1>3, <1>8, <3>1, RoundType DEF Round
  <2>3. (1 * Round + 0) % Round = 0 /\ 1 * Round + 0 = Round
    BY RoundType, OnlyQuotient
  <2> QED
    BY <2>1, <2>2, <2>3
<1> QED
  BY <1>6, <1>7, <1>8

LEMMA SumOnRound ==
  ASSUME NEW m, NEW x \in Int, NEW y \in Int, m = x % Round
  PROVE  (m + y) % Round = (x + y) % Round
<1>1. ((x % Round) + y) % Round = (x + y) % Round
  BY ONLY RoundType, RemainderOfSum, x \in Int, y \in Int
<1> QED
  BY <1>1

\* A cycle more, and the cycles of the work.
LEMMA AfterCycle ==
  ASSUME NEW m \in Int, NEW v \in Int, NEW a \in Int, NEW b \in Int, After(m, v, a, b)
  PROVE  After((m + 1) % Round, v, a + 1, b + 1)
<1>1. PICK d \in a..b : m = (v + d) % Round
  BY DEF After
<1>2. (m + 1) % Round = ((v + d) + 1) % Round
  <2> DEFINE x == v + d
  <2>1. x \in Int /\ m = x % Round
    BY <1>1
  <2> HIDE DEF x
  <2>2. (m + 1) % Round = (x + 1) % Round
    BY <2>1, SumOnRound
  <2> QED
    BY <2>2 DEF x
<1>3. (v + d) + 1 = v + (d + 1) /\ d + 1 \in (a + 1)..(b + 1)
  OBVIOUS
<1> QED
  BY <1>2, <1>3 DEF After

LEMMA AfterWork ==
  ASSUME NEW m \in Int, NEW v \in Int, NEW a \in Int, NEW b \in Int, NEW w \in Nat,
         After(m, v, a, b)
  PROVE  After((m + w) % Round, v + w, a, b)
<1>1. PICK d \in a..b : m = (v + d) % Round
  BY DEF After
<1>2. (m + w) % Round = ((v + d) + w) % Round
  <2> DEFINE x == v + d
  <2>1. x \in Int /\ m = x % Round
    BY <1>1
  <2> HIDE DEF x
  <2>2. (m + w) % Round = (x + w) % Round
    BY <2>1, SumOnRound
  <2> QED
    BY <2>2 DEF x
<1>3. (v + d) + w = (v + w) + d
  OBVIOUS
<1> QED
  BY <1>2, <1>3 DEF After

LEMMA AfterWithin ==
  ASSUME NEW m, NEW v \in Int, NEW a \in Int, NEW b \in Int, NEW x \in Int, NEW y \in Int,
         After(m, v, a, b), x <= a, b <= y
  PROVE  After(m, v, x, y)
BY DEF After

\* A value is its own successor after no cycle.
LEMMA AfterNone ==
  ASSUME NEW m \in 0..(Round - 1)
  PROVE  After(m, m, 0, 0)
BY InRange DEF After

\* The difference of two readings is what was counted between them, if that is
\* less than the counter holds.
LEMMA AfterDifference ==
  ASSUME NEW m \in 0..(Round - 1), NEW v \in 0..(Round - 1), NEW w \in Nat,
         NEW a \in Nat, NEW b \in Nat, After(m, v + w, a, b), w + b < Round
  PROVE  ((m - v) % Round) - w \in a..b
<1>1. PICK d \in a..b : m = ((v + w) + d) % Round
  BY DEF After
<1>2. (m - v) % Round = (((v + w) + d) - v) % Round
  <2> DEFINE x == (v + w) + d
             y == -v
  <2>1. x \in Int /\ y \in Int /\ m = x % Round /\ m - v = m + y /\ x - v = x + y
    BY <1>1
  <2> HIDE DEF x, y
  <2>2. (m + y) % Round = (x + y) % Round
    BY <2>1, SumOnRound
  <2> QED
    BY <2>1, <2>2 DEF x
<1>3. ((v + w) + d) - v = w + d /\ w + d \in 0..(Round - 1)
  BY RoundType
<1>4. (w + d) % Round = w + d
  BY <1>3, InRange
<1> QED
  BY <1>2, <1>3, <1>4
-----------------------------------------------------------------------------
(* A get takes a cycle for each of its reads and turns.                    *)

Seen == [high |-> hi[call.csr], low |-> lo[call.csr]]

LEMMA GetCycle ==
  ASSUME CounterInv, call.fn = "get", Access \/ Wait
  PROVE  /\ Cycle' = (Cycle + 1) % Round
         /\ call'.fn = "get" /\ call'.csr = call.csr
         /\ call'.pc # "ret" => Cycles' = Cycles + 1
         /\ call'.pc = "high" =>
              \/ call.pc = "low" /\ call'.seen = Seen /\ call'.waited = call.waited
              \/ call.pc = "high" /\ call'.seen = call.seen /\ call'.waited = call.waited + 1
         /\ call'.pc = "ret" =>
              call.pc = "high" /\ call'.seen = call.seen /\ call'.waited = call.waited
         /\ call'.pc \in {"highInitial", "low", "high", "ret"}
<1>1. CounterTypeOK /\ call \in CallRecord
  BY DEF CounterInv, CounterTypeOK
<1>2. /\ call.pc \in {"highInitial", "low", "high", "ret"} /\ call.waited \in Nat
      /\ call.turn \in 0..1 /\ MaxWait \in Nat /\ call.waited \in 0..MaxWait
  BY CallType, RoundType DEF CounterInv, GetInv
<1>3. ReadHighInitial \/ ReadLow \/ ReadHigh \/ Wait
  BY DEF Access, ClearLow, SetHigh, SetLow
<1>4. PICK retired \in BOOLEAN : CountOn(retired)
  BY <1>3 DEF ReadHighInitial, ReadLow, ReadHigh, Wait
<1>5. Cycle' = (Cycle + 1) % Round
  BY <1>1, <1>4, CycleCounts
<1>6. CASE ReadHighInitial
  <2> DEFINE read == [call EXCEPT !.pc = "low", !.high = hi[call.csr], !.moved = FALSE]
  <2>1. /\ read \in CallRecord
        /\ read.fn = "get" /\ read.pc = "low" /\ read.csr = call.csr
        /\ read.turn = call.turn /\ read.waited = call.waited
    BY <1>1, CallType DEF CallRecord, High, ReadHighInitial
  <2>2. PICK r \in BOOLEAN : call' = WithCarry(read, r)
    BY <1>6 DEF ReadHighInitial
  <2> HIDE DEF read
  <2>3. /\ call'.fn = "get" /\ call'.pc = "low" /\ call'.csr = call.csr
        /\ call'.turn = call.turn /\ call'.waited = call.waited
    BY <2>1, <2>2, WithCarryFields
  <2>4. call.pc = "highInitial"
    BY <1>6 DEF ReadHighInitial
  <2> QED
    BY <1>2, <1>5, <2>3, <2>4 DEF Cycles, Accesses
<1>7. CASE ReadLow
  <2> DEFINE read == [call EXCEPT !.pc = "high", !.low = lo[call.csr], !.seen = Seen]
  <2>1. /\ read \in CallRecord /\ read.seen = Seen
        /\ read.fn = "get" /\ read.pc = "high" /\ read.csr = call.csr
        /\ read.turn = call.turn /\ read.waited = call.waited
    <3>1. lo[call.csr] \in 0..L-1 /\ Seen \in Value
      BY <1>1, CallType DEF High, Low, Seen, Value
    <3> QED
      BY <1>1, <3>1 DEF CallRecord
  <2>2. PICK r \in BOOLEAN : call' = WithCarry(read, r)
    BY <1>7 DEF ReadLow, Seen
  <2> HIDE DEF read
  <2>3. /\ call'.fn = "get" /\ call'.pc = "high" /\ call'.csr = call.csr
        /\ call'.turn = call.turn /\ call'.waited = call.waited /\ call'.seen = Seen
    BY <2>1, <2>2, WithCarryFields
  <2>4. call.pc = "low"
    BY <1>7 DEF ReadLow
  <2> QED
    BY <1>2, <1>5, <2>3, <2>4 DEF Cycles, Accesses
<1>8. CASE ReadHigh
  <2>1. PICK r \in BOOLEAN :
           call' = IF hi[call.csr] = call.high
                   THEN [call EXCEPT !.pc = "ret",
                           !.value = [high |-> call.high, low |-> call.low]]
                   ELSE WithCarry([call EXCEPT !.pc = "highInitial", !.turn = @ + 1], r)
    BY <1>8 DEF ReadHigh
  <2>2. call.pc = "high"
    BY <1>8 DEF ReadHigh
  <2>3. CASE hi[call.csr] = call.high
    <3>1. /\ call'.fn = "get" /\ call'.pc = "ret" /\ call'.csr = call.csr
          /\ call'.seen = call.seen /\ call'.waited = call.waited
      BY <1>1, <2>1, <2>3 DEF CallRecord
    <3> QED
      BY <1>5, <2>2, <3>1
  <2>4. CASE hi[call.csr] # call.high
    <3> DEFINE again == [call EXCEPT !.pc = "highInitial", !.turn = @ + 1]
    <3>1. call.turn = 0
      <4>1. call.moved
        BY <2>2, <2>4, HighTellsMoved, CallType DEF CounterInv, High
      <4>2. call.turn # 1
        BY <2>2, <4>1 DEF CounterInv, GetInv
      <4> QED
        BY <1>2, <4>2
    <3>2. /\ again \in CallRecord /\ again.fn = "get" /\ again.pc = "highInitial"
          /\ again.csr = call.csr /\ again.turn = 1 /\ again.waited = call.waited
      BY <2>2, <3>1, TurnAgain DEF CounterInv
    <3>3. call' = WithCarry(again, r)
      BY <2>1, <2>4
    <3> HIDE DEF again
    <3>4. /\ call'.fn = "get" /\ call'.pc = "highInitial" /\ call'.csr = call.csr
          /\ call'.turn = 1 /\ call'.waited = call.waited
      BY <3>2, <3>3, WithCarryFields
    <3> QED
      BY <1>2, <1>5, <2>2, <3>1, <3>4 DEF Cycles, Accesses
  <2> QED
    BY <2>3, <2>4
<1>9. CASE Wait
  <2> DEFINE later == [call EXCEPT !.waited = @ + 1]
  <2>1. call.waited < MaxWait /\ call.pc # "ret"
    BY <1>9 DEF Wait
  <2>2. /\ later \in CallRecord /\ later.seen = call.seen
        /\ later.fn = "get" /\ later.pc = call.pc /\ later.csr = call.csr
        /\ later.turn = call.turn /\ later.waited = call.waited + 1
    <3>1. call.waited + 1 \in 0..MaxWait
      BY <1>2, <2>1
    <3> QED
      BY <1>1, <3>1 DEF CallRecord
  <2>3. PICK r \in BOOLEAN : call' = WithCarry(later, r)
    BY <1>9 DEF Wait
  <2> HIDE DEF later
  <2>4. /\ call'.fn = "get" /\ call'.pc = call.pc /\ call'.csr = call.csr
        /\ call'.turn = call.turn /\ call'.waited = call.waited + 1
        /\ call'.seen = call.seen
    BY <2>2, <2>3, WithCarryFields
  <2> QED
    BY <1>2, <1>5, <2>1, <2>4 DEF Cycles, Accesses
<1> QED
  BY <1>3, <1>6, <1>7, <1>8, <1>9
-----------------------------------------------------------------------------
(* The invariant.                                                          *)

\* How long a get has been under way since it read the low half.
GetAge ==
  call.fn = "get" /\ call.csr = "mcycle" =>
    /\ call.pc = "high" => After(Cycle, Number(call.seen), 1, call.waited + 1)
    /\ call.pc = "ret" => After(Cycle, Number(call.seen), 2, call.waited + 2)

Work == iterations * cost

TimingTypes ==
  /\ pc \in {"start", "starting", "stop", "stopping", "done"}
  /\ auto \in BOOLEAN /\ cost \in Costs /\ iterations \in Nat
  /\ times \in [start : 0..(Round - 1), stop : 0..(Round - 1), retired : 0..(Round - 1)]

SetMcycle == [fn |-> "set", csr |-> "mcycle"]
SetMinstret == [fn |-> "set", csr |-> "minstret"]
GetMcycle == [fn |-> "get", csr |-> "mcycle"]
GetMinstret == [fn |-> "get", csr |-> "minstret"]

\* The calls that start_time and stop_time have still to make, the first of which
\* may be under way.
Calls ==
  /\ pc \in {"start", "stop", "done"} => todo = <<>>
  /\ pc = "starting" => todo \in {<<SetMcycle, SetMinstret, GetMcycle>>,
                                  <<SetMinstret, GetMcycle>>, <<GetMcycle>>, <<>>}
  /\ pc = "stopping" => todo \in {<<GetMcycle, GetMinstret>>, <<GetMinstret>>, <<>>}
  /\ call.fn # "none" => todo # <<>> /\ call.fn = Head(todo).fn /\ call.csr = Head(todo).csr
  /\ call.fn = "none" => call.pc = "idle"

\* The tries at calibration end below ten seconds of work or with their first, and
\* the run that follows is at most thirty seconds of work longer than an iteration
\* or two.
Sizes ==
  /\ auto /\ pc = "start" => iterations = 1 \/ Work < Hz
  /\ auto /\ pc # "start" => iterations = 10 \/ Work < 10 * Hz
  /\ ~auto => iterations \in Configured \/ Work <= (10 * cost) + (30 * Hz)

\* What mcycle, or what was read of it, is ahead of the start of the measurement.
Marks ==
  /\ pc = "starting" /\ todo = <<>> => After(Cycle, times.start, 2, MaxWait + 2)
  /\ pc = "stop" => After(Cycle, times.start + Work, 2, MaxWait + 2)
  /\ pc = "stopping" /\ todo = <<GetMcycle, GetMinstret>> =>
       /\ call.fn = "none" => After(Cycle, times.start + Work, 2, MaxWait + 2)
       /\ call.fn = "get" =>
            /\ call.pc # "ret" =>
                 After(Cycle, times.start + Work, 2, (MaxWait + 2) + Cycles)
            /\ call.pc \in {"high", "ret"} =>
                 After(Number(call.seen), times.start + Work, 2, (2 * MaxWait) + 8)
  /\ pc = "stopping" /\ todo # <<GetMcycle, GetMinstret>> =>
       After(times.stop, times.start + Work, 2, (2 * MaxWait) + 8)

TimingInv == CounterInv /\ GetAge /\ TimingTypes /\ Calls /\ Sizes /\ Marks
-----------------------------------------------------------------------------
LEMMA Typed ==
  ASSUME TimingTypes
  PROVE  /\ cost \in Nat \ {0} /\ Hz \in Nat \ {0} /\ Work \in Nat /\ iterations \in Nat
         /\ times.start \in 0..(Round - 1) /\ times.stop \in 0..(Round - 1)
         /\ times.start \in Int /\ times.stop \in Int
         /\ times.start + Work \in Int
<1>1. cost \in Nat \ {0} /\ Hz \in Nat \ {0} /\ iterations \in Nat
  BY TimingAssumption DEF TimingTypes
<1>2. times.start \in 0..(Round - 1) /\ times.stop \in 0..(Round - 1)
  BY DEF TimingTypes
<1>3. Work \in Nat
  BY <1>1 DEF Work
<1> QED
  BY <1>1, <1>2, <1>3, RoundType

\* The work of a run and the cycles around it do not fill the counter.
LEMMA WorkFits ==
  ASSUME TimingTypes, Sizes, pc # "start"
  PROVE  Work + ((2 * MaxWait) + 8) < Round
<1>1. cost \in Costs /\ cost \in Nat /\ Hz \in Nat /\ MaxWait \in Nat /\ Work \in Nat
  BY Typed, RoundType DEF TimingTypes
<1>2. Round \in Nat /\ (10 * cost) + (30 * Hz) + (2 * MaxWait) + 8 < Round
  BY <1>1, CountersAreWide, RoundType DEF Round
<1>3. CASE ~auto /\ iterations \in Configured
  <2>1. (iterations * cost) + (2 * MaxWait) + 8 < Round
    BY <1>1, <1>3, CountersAreWide DEF Round
  <2> QED
    BY <1>1, <2>1 DEF Work
<1>4. CASE auto /\ iterations = 10
  BY <1>1, <1>2, <1>4 DEF Work
<1>5. CASE auto /\ Work < 10 * Hz
  BY <1>1, <1>2, <1>5
<1>6. CASE ~auto /\ Work <= (10 * cost) + (30 * Hz)
  BY <1>1, <1>2, <1>6
<1> QED
  BY <1>3, <1>4, <1>5, <1>6 DEF Sizes

\* The measurement, from the marks.
LEMMA Measurement ==
  ASSUME TimingInv, Stopped
  PROVE  get_time - Work \in 2..((2 * MaxWait) + 8)
<1>1. pc = "stopping" /\ todo = <<>>
  BY DEF Stopped
<1>2. After(times.stop, times.start + Work, 2, (2 * MaxWait) + 8)
  BY <1>1 DEF TimingInv, Marks
<1>3. /\ times.start \in 0..(Round - 1) /\ times.stop \in 0..(Round - 1) /\ Work \in Nat
      /\ 2 \in Nat /\ (2 * MaxWait) + 8 \in Nat
      /\ Work + ((2 * MaxWait) + 8) < Round
  BY <1>1, Typed, WorkFits, RoundType DEF TimingInv
<1>4. ((times.stop - times.start) % Round) - Work \in 2..((2 * MaxWait) + 8)
  BY <1>2, <1>3, AfterDifference
<1> QED
  BY <1>4 DEF get_time, Round

LEMMA TimingInitInv == TimingInit => TimingInv
<1> SUFFICES ASSUME TimingInit PROVE TimingInv
  OBVIOUS
<1>1. CounterInv
  BY CounterInvInit DEF TimingInit
<1>2. call.fn = "none" /\ call.pc = "idle"
  BY DEF TimingInit, Init, NoCall
<1>3. PICK n \in Configured : iterations = (IF n = 0 THEN 1 ELSE n) /\ auto = (n = 0)
  BY DEF TimingInit
<1>4. n \in Nat /\ cost \in Costs /\ pc = "start" /\ todo = <<>>
  BY TimingAssumption DEF TimingInit
<1>5. TimingTypes
  <2>1. 0 \in 0..(Round - 1)
    BY RoundType
  <2> QED
    BY <1>3, <1>4, <2>1 DEF TimingTypes, TimingInit
<1>6. Sizes
  BY <1>3, <1>4 DEF Sizes
<1> QED
  BY <1>1, <1>2, <1>4, <1>5, <1>6 DEF TimingInv, GetAge, Calls, Marks

\* What the steps do to the counters is what any program may.
LEMMA StepOfCounter ==
  ASSUME TimingInv, [TimingNext]_vars
  PROVE  [Next]_counterVars
<1>1. CASE Call
  <2>1. todo # <<>> /\ pc \in {"starting", "stopping"}
    BY <1>1 DEF Call, TimingInv, Calls, TimingTypes
  <2>2. Head(todo) \in {SetMcycle, SetMinstret, GetMcycle, GetMinstret}
    BY <2>1 DEF TimingInv, Calls
  <2>3. Head(todo).csr \in Csrs
    BY <2>2 DEF SetMcycle, SetMinstret, GetMcycle, GetMinstret, Csrs
  <2>4. CASE Get(Head(todo).csr)
    BY <2>3, <2>4 DEF Next
  <2>5. CASE Set(Head(todo).csr, Zero)
    <3>1. call'.value = Zero
      BY <2>5 DEF Set, NoCall
    <3>2. Zero \in Value
      BY RoundType DEF Zero, Value
    <3> QED
      BY <2>3, <2>5, <3>1, <3>2 DEF Next
  <2> QED
    BY <1>1, <2>4, <2>5 DEF Call
<1>2. CASE Iterate
  <2>1. PICK n \in [Csrs -> Nat] : /\ lo' = [c \in Csrs |-> n[c] % L]
                                   /\ hi' = [c \in Csrs |-> (n[c] \div L) % H]
    <3>1. PICK perInstruction \in {1, 2} :
             LET n == [mcycle   |-> Later("mcycle", iterations * cost),
                       minstret |-> Later("minstret", (iterations * cost) \div perInstruction)]
             IN  /\ lo' = [c \in Csrs |-> n[c] % L]
                 /\ hi' = [c \in Csrs |-> (n[c] \div L) % H]
      BY <1>2 DEF Iterate
    <3>2. ASSUME NEW c \in Csrs, NEW w \in Nat PROVE Later(c, w) \in Nat
      <4>1. [high |-> hi[c], low |-> lo[c]] \in Value
        BY DEF TimingInv, CounterInv, CounterTypeOK, Value
      <4>2. Number([high |-> hi[c], low |-> lo[c]]) \in Nat
        BY <4>1, NumberType, RoundType
      <4> QED
        BY <4>2 DEF Later
    <3>3. iterations * cost \in Nat /\ (iterations * cost) \div perInstruction \in Nat
      <4> DEFINE w == iterations * cost
      <4>1. w \in Nat
        BY Typed DEF TimingInv, Work
      <4> HIDE DEF w
      <4>2. w \div perInstruction \in Nat
        BY <4>1
      <4> QED
        BY <4>1, <4>2 DEF w
    <3> DEFINE n == [mcycle   |-> Later("mcycle", iterations * cost),
                     minstret |-> Later("minstret", (iterations * cost) \div perInstruction)]
    <3>4. n \in [Csrs -> Nat]
      BY <3>2, <3>3 DEF Csrs
    <3> QED
      BY <3>1, <3>4
  <2>2. ASSUME NEW c \in Csrs
        PROVE  n[c] % L \in 0..L-1 /\ (n[c] \div L) % H \in 0..H-1
    <3>1. n[c] \in Nat /\ L \in Nat \ {0} /\ H \in Nat \ {0}
      BY <2>1, RoundType
    <3> QED
      BY <3>1
  <2>3. lo' \in [Csrs -> 0..L-1] /\ hi' \in [Csrs -> 0..H-1]
    BY <2>1, <2>2
  <2> QED
    BY <1>2, <2>3 DEF Iterate, Next, Elsewhere
<1>3. CASE Library
  BY <1>3 DEF Library, Next
<1>4. CASE Returned
  BY <1>4 DEF Returned, Next
<1>5. CASE StartTime \/ StopTime \/ Calibrated \/ Measured \/ Finished \/ UNCHANGED vars
  BY <1>5 DEF StartTime, StopTime, Calibrated, Measured, Finished, vars
<1> QED
  BY <1>1, <1>2, <1>3, <1>4, <1>5 DEF TimingNext
-----------------------------------------------------------------------------
\* The function that runs does not change before it returns.
LEMMA SetGoesOn ==
  ASSUME CounterInv, call.fn = "set", Access \/ Wait
  PROVE  call'.fn = "set" /\ call'.csr = call.csr
<1>1. call \in CallRecord
  BY DEF CounterInv, CounterTypeOK
<1>2. CASE Wait
  <2> DEFINE later == [call EXCEPT !.waited = @ + 1]
  <2>1. later \in CallRecord /\ later.fn = "set" /\ later.csr = call.csr
    <3>1. call.waited + 1 \in 0..MaxWait
      BY <1>1, <1>2, RoundType DEF Wait, CallRecord
    <3> QED
      BY <1>1, <3>1 DEF CallRecord
  <2>2. PICK r \in BOOLEAN : call' = WithCarry(later, r)
    BY <1>2 DEF Wait
  <2> HIDE DEF later
  <2> QED
    BY <2>1, <2>2, WithCarryFields
<1>3. CASE Access
  <2>1. ClearLow \/ SetHigh \/ SetLow
    BY <1>3 DEF Access, ReadHighInitial, ReadLow, ReadHigh
  <2>2. \/ call' = [call EXCEPT !.pc = "high"]
        \/ call' = [call EXCEPT !.pc = "low"]
        \/ call' = [call EXCEPT !.pc = "ret"]
    BY <2>1 DEF ClearLow, SetHigh, SetLow
  <2> QED
    BY <1>1, <2>2 DEF CallRecord
<1> QED
  BY <1>2, <1>3

\* Only a call that runs has a last access.
LEMMA RetIsOfCall ==
  ASSUME TimingInv, call.pc = "ret"
  PROVE  call.fn # "none"
BY DEF TimingInv, Calls

\* A get grows older by a cycle at a time.
LEMMA GetAges ==
  ASSUME TimingInv, [TimingNext]_vars
  PROVE  GetAge'
<1>1. CounterInv /\ GetAge
  BY DEF TimingInv
<1>2. CASE call.fn = "get" /\ (Access \/ Wait)
  <2> SUFFICES ASSUME call'.fn = "get", call'.csr = "mcycle"
               PROVE  /\ call'.pc = "high" => After(Cycle', Number(call'.seen), 1, call'.waited + 1)
                      /\ call'.pc = "ret" => After(Cycle', Number(call'.seen), 2, call'.waited + 2)
    BY DEF GetAge, After, Number, Cycle
  <2>1. /\ Cycle' = (Cycle + 1) % Round /\ call'.csr = call.csr
        /\ call'.pc = "high" =>
             \/ call.pc = "low" /\ call'.seen = Seen /\ call'.waited = call.waited
             \/ call.pc = "high" /\ call'.seen = call.seen /\ call'.waited = call.waited + 1
        /\ call'.pc = "ret" =>
             call.pc = "high" /\ call'.seen = call.seen /\ call'.waited = call.waited
    BY <1>1, <1>2, GetCycle
  <2>2. Cycle \in 0..(Round - 1) /\ Cycle \in Int /\ call.waited \in Nat
        /\ Number(call.seen) \in Int
    <3>1. call.seen \in Value /\ call.waited \in 0..MaxWait
      BY <1>1, CallType DEF CounterInv
    <3>2. Number(call.seen) \in 0..(Round - 1)
      BY <3>1, NumberType
    <3>3. Cycle \in 0..(Round - 1)
      BY <1>1, CycleType DEF CounterInv
    <3> QED
      BY <3>1, <3>2, <3>3, RoundType
  <2>3. ASSUME call.pc = "high"
        PROVE  After(Cycle', Number(call.seen), 2, call.waited + 2)
    <3>1. After(Cycle, Number(call.seen), 1, call.waited + 1)
      BY <1>1, <1>2, <2>1, <2>3 DEF GetAge
    <3>2. After((Cycle + 1) % Round, Number(call.seen), 1 + 1, (call.waited + 1) + 1)
      BY <2>2, <3>1, AfterCycle
    <3> QED
      BY <2>1, <2>2, <3>2
  <2>4. CASE call'.pc = "high" /\ call.pc = "low"
    <3>1. call'.seen = [high |-> hi["mcycle"], low |-> lo["mcycle"]]
      BY <2>1, <2>4 DEF Seen
    <3>2. Number(call'.seen) = Cycle
      BY <3>1 DEF Cycle
    <3>3. After((Cycle + 1) % Round, Cycle, 0 + 1, 0 + 1)
      BY <2>2, AfterNone, AfterCycle
    <3>4. After(Cycle', Number(call'.seen), 1, call'.waited + 1)
      BY <2>1, <2>2, <2>4, <3>2, <3>3, AfterWithin
    <3> QED
      BY <2>4, <3>4
  <2>5. CASE call'.pc = "high" /\ call.pc = "high"
    <3>1. call'.seen = call.seen /\ call'.waited = call.waited + 1
      BY <2>1, <2>5
    <3>2. After(Cycle', Number(call.seen), 2, call.waited + 2)
      BY <2>3, <2>5
    <3>3. After(Cycle', Number(call.seen), 1, call.waited + 2)
      BY <2>2, <3>2, AfterWithin
    <3> QED
      BY <2>2, <2>5, <3>1, <3>3
  <2>6. CASE call'.pc = "ret"
    BY <2>1, <2>3, <2>6
  <2> QED
    BY <2>1, <2>4, <2>5, <2>6
<1>3. CASE Call \/ Returned \/ Iterate
  <2>1. CASE Call
    BY <2>1 DEF Call, Get, Set, NoCall, GetAge
  <2>2. CASE Returned
    BY <2>2 DEF Returned, Return, NoCall, GetAge
  <2>3. CASE Iterate
    BY <2>3 DEF Iterate, GetAge
  <2> QED
    BY <1>3, <2>1, <2>2, <2>3
<1>4. CASE Library /\ call.fn # "get"
  <2>1. call.fn = "set"
    BY <1>1, <1>4, CallType DEF Library, Access, Wait, ReadHighInitial, ReadLow, ReadHigh,
       ClearLow, SetHigh, SetLow, CounterInv
  <2>2. call'.fn = "set"
    BY <1>1, <1>4, <2>1, SetGoesOn DEF Library
  <2> QED
    BY <2>2 DEF GetAge
<1>5. CASE UNCHANGED counterVars
  BY <1>1, <1>5 DEF GetAge, counterVars, After, Number, Cycle
<1> QED
  BY <1>2, <1>3, <1>4, <1>5 DEF TimingNext, Library, StartTime, StopTime, Calibrated,
     Measured, Finished, vars
-----------------------------------------------------------------------------
(* main's steps, one by one.                                               *)

LEMMA StartTimeStep ==
  ASSUME TimingInv, StartTime
  PROVE  TimingTypes' /\ Calls' /\ Sizes' /\ Marks'
<1>1. /\ pc = "start" /\ pc' = "starting" /\ call' = call /\ cost' = cost /\ auto' = auto
      /\ times' = times /\ iterations' = (IF auto THEN iterations * 10 ELSE iterations)
      /\ todo' = <<SetMcycle, SetMinstret, GetMcycle>>
  BY DEF StartTime, counterVars, SetMcycle, SetMinstret, GetMcycle
<1>2. cost \in Nat \ {0} /\ Hz \in Nat \ {0} /\ Work \in Nat /\ iterations \in Nat
  BY Typed DEF TimingInv
<1>3. TimingTypes'
  BY <1>1, <1>2 DEF TimingInv, TimingTypes
<1>4. Calls'
  <2>1. call.fn = "none"
    BY <1>1 DEF TimingInv, Calls
  <2> QED
    BY <1>1, <2>1 DEF TimingInv, Calls
<1>5. Sizes'
  <2>1. CASE auto
    <3>1. iterations = 1 \/ Work < Hz
      BY <1>1, <2>1 DEF TimingInv, Sizes
    <3>2. Work' = 10 * Work
      <4>1. (iterations * 10) * cost = 10 * (iterations * cost)
        BY <1>2
      <4> QED
        BY <1>1, <2>1, <4>1 DEF Work
    <3>3. iterations' = 10 \/ Work' < 10 * Hz
      BY <1>1, <1>2, <2>1, <3>1, <3>2
    <3> QED
      BY <1>1, <2>1, <3>3 DEF Sizes
  <2>2. CASE ~auto
    <3>1. iterations \in Configured \/ Work <= (10 * cost) + (30 * Hz)
      BY <2>2 DEF TimingInv, Sizes
    <3> QED
      BY <1>1, <2>2, <3>1 DEF Sizes, Work
  <2> QED
    BY <2>1, <2>2
<1>6. Marks'
  BY <1>1 DEF Marks
<1> QED
  BY <1>3, <1>4, <1>5, <1>6

LEMMA StopTimeStep ==
  ASSUME TimingInv, StopTime
  PROVE  TimingTypes' /\ Calls' /\ Sizes' /\ Marks'
<1>1. /\ pc = "stop" /\ pc' = "stopping" /\ todo' = <<GetMcycle, GetMinstret>>
      /\ UNCHANGED <<hi, lo, call, auto, cost, iterations, times>>
  BY DEF StopTime, counterVars, GetMcycle, GetMinstret
<1>2. call.fn = "none" /\ todo = <<>>
  BY <1>1 DEF TimingInv, Calls
<1>3. After(Cycle, times.start + Work, 2, MaxWait + 2)
  BY <1>1 DEF TimingInv, Marks
<1>4. Cycle' = Cycle /\ Work' = Work
  BY <1>1 DEF Cycle, Number, Work
<1>5. TimingTypes' /\ Sizes'
  BY <1>1 DEF TimingInv, TimingTypes, Sizes, Work
<1>6. Calls'
  BY <1>1, <1>2 DEF TimingInv, Calls
<1>7. Marks'
  BY <1>1, <1>2, <1>3, <1>4 DEF Marks
<1> QED
  BY <1>5, <1>6, <1>7

\* The next call starts, and with it the count of its cycles.
LEMMA CallBegins ==
  ASSUME TimingInv, Call
  PROVE  TimingTypes' /\ Calls' /\ Sizes' /\ Marks'
<1>1. /\ UNCHANGED <<hi, lo, pc, auto, todo, cost, iterations, times>>
      /\ todo # <<>> /\ call.fn = "none"
      /\ \/ Head(todo).fn = "set" /\ call'.fn = "set" /\ call'.csr = Head(todo).csr
         \/ /\ Head(todo).fn = "get" /\ call'.fn = "get" /\ call'.csr = Head(todo).csr
            /\ call'.pc = "highInitial" /\ call'.waited = 0 /\ call'.turn = 0
  <2>1. todo # <<>> /\ UNCHANGED timingVars
    BY DEF Call
  <2>2. CASE Head(todo).fn = "set" /\ Set(Head(todo).csr, Zero)
    BY <2>1, <2>2 DEF Set, NoCall, timingVars
  <2>3. CASE Head(todo).fn = "get" /\ Get(Head(todo).csr)
    BY <2>1, <2>3 DEF Get, NoCall, timingVars
  <2> QED
    BY <2>2, <2>3 DEF Call
<1>2. Cycle' = Cycle /\ Work' = Work
  BY <1>1 DEF Cycle, Number, Work
<1>3. TimingTypes' /\ Sizes'
  BY <1>1 DEF TimingInv, TimingTypes, Sizes, Work
<1>4. Calls'
  BY <1>1 DEF TimingInv, Calls
<1>5. Marks'
  <2>1. CASE pc = "stopping" /\ todo = <<GetMcycle, GetMinstret>>
    <3>1. After(Cycle, times.start + Work, 2, MaxWait + 2)
      BY <1>1, <2>1 DEF TimingInv, Marks
    <3>2. call'.pc = "highInitial" /\ call'.waited = 0 /\ call'.turn = 0 /\ call'.fn = "get"
      BY <1>1, <2>1 DEF GetMcycle
    <3>3. Cycles' = 0 /\ MaxWait \in Nat
      BY <3>2, RoundType DEF Cycles, Accesses
    <3>4. (MaxWait + 2) + Cycles' = MaxWait + 2
      BY <3>3
    <3> QED
      BY <1>1, <1>2, <2>1, <3>1, <3>2, <3>4 DEF Marks
  <2>2. CASE ~(pc = "stopping" /\ todo = <<GetMcycle, GetMinstret>>)
    BY <1>1, <1>2, <2>2 DEF TimingInv, Marks
  <2> QED
    BY <2>1, <2>2
<1> QED
  BY <1>3, <1>4, <1>5

\* While the library reads, the distance to the start grows by a cycle at a time.
LEMMA LibraryGoesOn ==
  ASSUME TimingInv, Library
  PROVE  TimingTypes' /\ Calls' /\ Sizes' /\ Marks'
<1>1. UNCHANGED <<pc, auto, todo, cost, iterations, times>> /\ (Access \/ Wait)
  BY DEF Library, timingVars
<1>2. CounterInv /\ CounterTypeOK
  BY DEF TimingInv, CounterInv
<1>3. call.fn \in {"get", "set"} /\ call.pc # "ret"
  BY <1>1, <1>2, CallType DEF Access, Wait, ReadHighInitial, ReadLow, ReadHigh,
     ClearLow, SetHigh, SetLow
<1>4. call'.fn = call.fn /\ call'.csr = call.csr
  BY <1>1, <1>2, <1>3, GetCycle, SetGoesOn
<1>5. TimingTypes' /\ Sizes' /\ Work' = Work
  BY <1>1 DEF TimingInv, TimingTypes, Sizes, Work
<1>6. Calls'
  BY <1>1, <1>3, <1>4 DEF TimingInv, Calls
<1>7. todo # <<>> /\ call.fn = Head(todo).fn /\ call.csr = Head(todo).csr
      /\ pc \in {"starting", "stopping"}
  BY <1>3 DEF TimingInv, Calls, TimingTypes
<1>8. ASSUME pc = "stopping", todo = <<GetMcycle, GetMinstret>> PROVE Marks'
  <2>1. call.fn = "get" /\ call.csr = "mcycle"
    BY <1>7, <1>8 DEF GetMcycle
  <2>2. /\ Cycle' = (Cycle + 1) % Round
        /\ call'.pc # "ret" => Cycles' = Cycles + 1
        /\ call'.pc = "high" =>
             \/ call.pc = "low" /\ call'.seen = Seen
             \/ call.pc = "high" /\ call'.seen = call.seen
        /\ call'.pc = "ret" => call.pc = "high" /\ call'.seen = call.seen
    BY <1>1, <1>2, <2>1, GetCycle
  <2>3. /\ After(Cycle, times.start + Work, 2, (MaxWait + 2) + Cycles)
        /\ call.pc = "high" =>
             After(Number(call.seen), times.start + Work, 2, (2 * MaxWait) + 8)
    BY <1>3, <1>8, <2>1 DEF TimingInv, Marks
  <2>4. /\ Cycle \in Int /\ times.start + Work \in Int
        /\ Cycles \in Nat /\ Cycles <= MaxWait + 5 /\ MaxWait \in Nat
    <3>1. Cycle \in 0..(Round - 1)
      BY <1>2, CycleType
    <3> QED
      BY <1>2, <3>1, Typed, CyclesBounded, RoundType DEF TimingInv
  <2>5. call'.pc # "ret" => After(Cycle', times.start + Work, 2, (MaxWait + 2) + Cycles')
    <3> SUFFICES ASSUME call'.pc # "ret"
                 PROVE  After(Cycle', times.start + Work, 2, (MaxWait + 2) + Cycles')
      OBVIOUS
    <3>1. After((Cycle + 1) % Round, times.start + Work, 2 + 1, ((MaxWait + 2) + Cycles) + 1)
      <4>1. 2 \in Int /\ (MaxWait + 2) + Cycles \in Int
        BY <2>4
      <4> QED
        BY <2>3, <2>4, <4>1, AfterCycle
    <3>2. After((Cycle + 1) % Round, times.start + Work, 2, ((MaxWait + 2) + Cycles) + 1)
      <4>1. 2 + 1 \in Int /\ ((MaxWait + 2) + Cycles) + 1 \in Int /\ 2 <= 2 + 1 /\ 2 \in Int
        BY <2>4
      <4> QED
        BY <2>4, <3>1, <4>1, AfterWithin
    <3>3. ((MaxWait + 2) + Cycles) + 1 = (MaxWait + 2) + Cycles'
      BY <2>2, <2>4
    <3> QED
      BY <2>2, <3>2, <3>3
  <2>6. call'.pc \in {"high", "ret"} =>
          After(Number(call'.seen), times.start + Work, 2, (2 * MaxWait) + 8)
    <3>1. CASE call'.pc = "high" /\ call.pc = "low"
      <4>1. Number(call'.seen) = Cycle
        BY <2>1, <2>2, <3>1 DEF Seen, Cycle
      <4>2. /\ (MaxWait + 2) + Cycles <= (2 * MaxWait) + 8 /\ 2 <= 2 /\ 2 \in Int
            /\ (MaxWait + 2) + Cycles \in Int /\ (2 * MaxWait) + 8 \in Int
        BY <2>4
      <4> QED
        BY <2>3, <2>4, <4>1, <4>2, AfterWithin
    <3>2. CASE call.pc = "high" /\ call'.pc \in {"high", "ret"}
      BY <2>2, <2>3, <3>2
    <3> QED
      BY <2>2, <3>1, <3>2
  <2> QED
    BY <1>1, <1>4, <1>5, <1>8, <2>1, <2>5, <2>6 DEF Marks
<1>9. ASSUME ~(pc = "stopping" /\ todo = <<GetMcycle, GetMinstret>>) PROVE Marks'
  BY <1>1, <1>5, <1>7, <1>9 DEF TimingInv, Marks
<1> QED
  BY <1>5, <1>6, <1>8, <1>9

LEMMA Heads ==
  /\ \A a, b, c : Head(<<a, b, c>>) = a /\ Tail(<<a, b, c>>) = <<b, c>>
  /\ \A a, b : Head(<<a, b>>) = a /\ Tail(<<a, b>>) = <<b>>
OBVIOUS

\* A get that returns has read what the counter was a few cycles ago.
LEMMA ReturnedStep ==
  ASSUME TimingInv, Returned
  PROVE  TimingTypes' /\ Calls' /\ Sizes' /\ Marks'
<1> DEFINE n == Number(call.value)
<1>1. /\ UNCHANGED <<hi, lo, pc, auto, cost, iterations>>
      /\ call.pc = "ret" /\ call'.fn = "none" /\ call'.pc = "idle" /\ todo' = Tail(todo)
      /\ times' = CASE call.fn = "set" -> times
                    [] call.fn = "get" /\ pc = "starting" -> [times EXCEPT !.start = n]
                    [] call.fn = "get" /\ pc = "stopping" /\ call.csr = "mcycle" ->
                         [times EXCEPT !.stop = n]
                    [] OTHER -> [times EXCEPT !.retired = n]
  BY DEF Returned, Return, NoCall
<1>2. CounterInv /\ CounterTypeOK /\ TimingTypes
  BY DEF TimingInv, CounterInv
<1>3. call.fn \in {"get", "set"}
  <2>1. call.fn # "none"
    BY <1>1, <1>2, RetIsOfCall DEF TimingInv
  <2> QED
    BY <1>2, <2>1, CallType
<1>4. /\ todo # <<>> /\ call.fn = Head(todo).fn /\ call.csr = Head(todo).csr
      /\ pc \in {"starting", "stopping"}
  BY <1>3 DEF TimingInv, Calls, TimingTypes
<1>5. call.fn = "get" => call.value = call.seen
  BY <1>1 DEF TimingInv, CounterInv, Snapshot
<1>6. n \in 0..(Round - 1) /\ n \in Int
  <2>1. n \in 0..(Round - 1)
    BY <1>2, CallType, NumberType
  <2> QED
    BY <2>1, RoundType
<1> HIDE DEF n
<1>7. Sizes' /\ Work' = Work /\ Cycle' = Cycle
  BY <1>1 DEF TimingInv, Sizes, Work, Cycle, Number
<1>8. CASE pc = "starting" /\ todo # <<GetMcycle>>
  <2>1. todo \in {<<SetMcycle, SetMinstret, GetMcycle>>, <<SetMinstret, GetMcycle>>}
    BY <1>4, <1>8 DEF TimingInv, Calls
  <2>2. Head(todo) \in {SetMcycle, SetMinstret}
        /\ Tail(todo) \in {<<SetMinstret, GetMcycle>>, <<GetMcycle>>}
    <3>1. CASE todo = <<SetMcycle, SetMinstret, GetMcycle>>
      BY <3>1, Heads
    <3>2. CASE todo = <<SetMinstret, GetMcycle>>
      BY <3>2, Heads
    <3> QED
      BY <2>1, <3>1, <3>2
  <2>3. call.fn = "set"
    BY <1>4, <2>2 DEF SetMcycle, SetMinstret
  <2>4. times' = times
    BY <1>1, <2>3
  <2>5. todo' # <<>>
    BY <1>1, <2>2
  <2>6. TimingTypes' /\ Calls'
    BY <1>1, <1>2, <1>8, <2>2, <2>4 DEF TimingTypes, Calls
  <2>7. Marks'
    BY <1>1, <1>8, <2>5 DEF Marks
  <2> QED
    BY <1>7, <2>6, <2>7
<1>9. CASE pc = "starting" /\ todo = <<GetMcycle>>
  <2>1. call.fn = "get" /\ call.csr = "mcycle" /\ todo' = <<>>
    BY <1>1, <1>4, <1>9 DEF GetMcycle
  <2>2. times' = [times EXCEPT !.start = n]
    BY <1>1, <1>9, <2>1
  <2>3. times'.start = n /\ TimingTypes'
    BY <1>1, <1>2, <1>6, <2>2 DEF TimingTypes
  <2>4. After(Cycle, n, 2, call.waited + 2)
    BY <1>1, <1>5, <2>1 DEF TimingInv, GetAge, n
  <2>5. After(Cycle, n, 2, MaxWait + 2)
    <3>1. call.waited \in 0..MaxWait /\ MaxWait \in Nat
      BY <1>2, CallType, RoundType
    <3>2. /\ 2 \in Int /\ call.waited + 2 \in Int /\ MaxWait + 2 \in Int /\ 2 <= 2
          /\ call.waited + 2 <= MaxWait + 2
      BY <3>1
    <3> QED
      BY <1>6, <2>4, <3>2, AfterWithin
  <2> QED
    BY <1>1, <1>7, <1>9, <2>1, <2>3, <2>5 DEF Calls, Marks
<1>10. CASE pc = "stopping" /\ todo = <<GetMcycle, GetMinstret>>
  <2>1. call.fn = "get" /\ call.csr = "mcycle" /\ todo' = <<GetMinstret>>
    BY <1>1, <1>4, <1>10 DEF GetMcycle
  <2>2. times' = [times EXCEPT !.stop = n]
    BY <1>1, <1>10, <2>1
  <2>3. times'.start = times.start /\ times'.stop = n /\ TimingTypes'
    BY <1>1, <1>2, <1>6, <2>2 DEF TimingTypes
  <2>4. After(n, times.start + Work, 2, (2 * MaxWait) + 8)
    BY <1>1, <1>5, <1>10, <2>1 DEF TimingInv, Marks, n
  <2>5. <<GetMinstret>> # <<GetMcycle, GetMinstret>>
    OBVIOUS
  <2> QED
    BY <1>1, <1>7, <1>10, <2>1, <2>3, <2>4, <2>5 DEF Calls, Marks
<1>11. CASE pc = "stopping" /\ todo # <<GetMcycle, GetMinstret>>
  <2>1. todo = <<GetMinstret>>
    BY <1>4, <1>11 DEF TimingInv, Calls
  <2>2. call.fn = "get" /\ call.csr = "minstret" /\ todo' = <<>>
    BY <1>1, <1>4, <2>1 DEF GetMinstret
  <2>3. times' = [times EXCEPT !.retired = n]
    BY <1>1, <1>11, <2>2
  <2>4. times'.start = times.start /\ times'.stop = times.stop /\ TimingTypes'
    BY <1>1, <1>2, <1>6, <2>3 DEF TimingTypes
  <2>5. After(times.stop, times.start + Work, 2, (2 * MaxWait) + 8)
    BY <1>11 DEF TimingInv, Marks
  <2> QED
    BY <1>1, <1>7, <1>11, <2>2, <2>4, <2>5 DEF Calls, Marks
<1> QED
  BY <1>4, <1>8, <1>9, <1>10, <1>11

\* The work moves the counter by its cycles, through both halves.
LEMMA IterateStep ==
  ASSUME TimingInv, Iterate
  PROVE  TimingTypes' /\ Calls' /\ Sizes' /\ Marks'
<1>1. /\ pc = "starting" /\ todo = <<>> /\ call.fn = "none" /\ pc' = "stop"
      /\ UNCHANGED <<call, auto, todo, cost, iterations, times>>
  BY DEF Iterate
<1>2. After(Cycle, times.start, 2, MaxWait + 2)
  BY <1>1 DEF TimingInv, Marks
<1>3. Cycle \in 0..(Round - 1) /\ Cycle \in Nat /\ Work \in Nat /\ times.start \in Int
  <2>1. Cycle \in 0..(Round - 1)
    BY CycleType DEF TimingInv, CounterInv
  <2> QED
    BY <2>1, Typed DEF TimingInv
<1>4. Cycle' = (Cycle + Work) % Round
  <2> DEFINE n == Cycle + Work
  <2>1. hi'["mcycle"] = (n \div L) % H /\ lo'["mcycle"] = n % L
    BY DEF Iterate, Csrs, Later, Cycle, Work
  <2>2. Cycle' = (((n \div L) % H) * L) + (n % L)
    BY <2>1 DEF Cycle, Number
  <2>3. n \in Nat
    BY <1>3
  <2> HIDE DEF n
  <2>4. (((n \div L) % H) * L) + (n % L) = n % (H * L)
    BY <2>3, RoundType, Halves
  <2> QED
    BY <2>2, <2>4 DEF n, Round
<1>5. After(Cycle', times.start + Work, 2, MaxWait + 2)
  <2>1. 2 \in Int /\ MaxWait + 2 \in Int /\ Cycle \in Int
    BY <1>3, RoundType
  <2>2. After((Cycle + Work) % Round, times.start + Work, 2, MaxWait + 2)
    BY <1>2, <1>3, <2>1, AfterWork
  <2> QED
    BY <1>4, <2>2
<1>6. TimingTypes' /\ Calls' /\ Sizes' /\ Work' = Work
  BY <1>1 DEF TimingInv, TimingTypes, Calls, Sizes, Work
<1> QED
  BY <1>1, <1>5, <1>6 DEF Marks

\* The run that follows the tries takes about ten seconds, not much more than thirty.
LEMMA CalibratedStep ==
  ASSUME TimingInv, Calibrated
  PROVE  TimingTypes' /\ Calls' /\ Sizes' /\ Marks'
<1> DEFINE secs == time_in_secs(get_time)
<1>1. /\ Stopped /\ auto /\ pc = "stopping" /\ todo = <<>> /\ call.fn = "none"
      /\ pc' = "start" /\ UNCHANGED <<hi, lo, call, todo, cost, times>>
      /\ IF secs < 1 THEN UNCHANGED <<auto, iterations>>
         ELSE auto' = FALSE /\ iterations' = iterations * (1 + (10 \div secs))
  BY DEF Calibrated, Stopped, counterVars
<1>2. cost \in Nat \ {0} /\ Hz \in Nat \ {0} /\ Work \in Nat /\ iterations \in Nat
  BY Typed DEF TimingInv
<1>3. get_time - Work \in 2..((2 * MaxWait) + 8) /\ get_time \in Int
  <2>1. get_time \in Int
    <3>1. times.stop - times.start \in Int
      BY Typed DEF TimingInv
    <3> QED
      BY <3>1, RoundType, QuotientAndRemainder DEF get_time, Round
  <2> QED
    BY <1>1, <2>1, Measurement
<1>4. Work < get_time
  BY <1>2, <1>3
<1>5. secs \in Int /\ get_time < (secs + 1) * Hz /\ secs * Hz <= get_time
  <2> DEFINE t == get_time
             q == t \div Hz
             r == t % Hz
  <2>0. t \in Int
    BY <1>3
  <2> HIDE DEF t
  <2>1. q \in Int /\ r \in 0..(Hz - 1) /\ t = q * Hz + r
    BY <1>2, <2>0, QuotientAndRemainder
  <2> HIDE DEF q, r
  <2>2. (q + 1) * Hz = q * Hz + Hz /\ q * Hz \in Int
    BY <1>2, <2>1
  <2>3. q \in Int /\ t < (q + 1) * Hz /\ q * Hz <= t
    BY <1>2, <2>1, <2>2
  <2> QED
    BY <2>3 DEF t, q, time_in_secs
<1> HIDE DEF secs
<1>6. Calls' /\ Marks'
  BY <1>1 DEF TimingInv, Calls, Marks
<1>7. iterations = 10 \/ Work < 10 * Hz
  BY <1>1 DEF TimingInv, Sizes
<1>8. CASE secs < 1
  <2>1. Work < Hz
    <3>1. (secs + 1) * Hz <= Hz
      <4>1. (-secs) * Hz >= 0
        BY <1>2, <1>5, <1>8
      <4>2. (secs + 1) * Hz = Hz - ((-secs) * Hz) /\ (-secs) * Hz \in Int
        BY <1>2, <1>5
      <4> QED
        BY <1>2, <4>1, <4>2
    <3>2. (secs + 1) * Hz \in Int
      BY <1>2, <1>5
    <3> QED
      BY <1>2, <1>3, <1>4, <1>5, <3>1, <3>2
  <2> QED
    BY <1>1, <1>6, <1>8, <2>1 DEF TimingInv, TimingTypes, Sizes, Work
<1>9. CASE ~(secs < 1)
  <2> DEFINE t == 10 \div secs
  <2>1. t \in Nat /\ t <= 10 /\ t * secs <= 10
    <3>1. secs \in Nat \ {0}
      BY <1>5, <1>9
    <3>2. t \in Int /\ (10 % secs) \in 0..(secs - 1) /\ 10 = t * secs + (10 % secs)
      BY <3>1, QuotientAndRemainder
    <3>3. t >= 0
      <4> SUFFICES ASSUME t < 0 PROVE FALSE
        BY <3>2
      <4> HIDE DEF t
      <4>1. (-1 - t) * secs >= 0 /\ t * secs = -((-1 - t) * secs) - secs
        BY <3>1, <3>2
      <4> QED
        BY <3>1, <3>2, <4>1
    <3> HIDE DEF t
    <3>4. t * secs \in Int /\ t * secs <= 10
      <4> DEFINE r == 10 % secs
      <4>1. t * secs \in Int /\ r >= 0 /\ 10 = t * secs + r /\ r \in Int
        BY <3>1, <3>2
      <4> HIDE DEF r
      <4> QED
        BY <4>1
    <3>5. t \in Int
      BY <3>2
    <3>6. t * (secs - 1) >= 0
      BY <3>1, <3>3, <3>5
    <3>7. t * secs = t * (secs - 1) + t
      BY <3>1, <3>5
    <3>8. t <= t * secs
      <4> DEFINE z == t * (secs - 1)
      <4>1. z \in Int /\ z >= 0 /\ t * secs = z + t
        BY <3>1, <3>5, <3>6, <3>7
      <4> HIDE DEF z
      <4> QED
        BY <3>5, <4>1
    <3> QED
      BY <3>3, <3>4, <3>5, <3>8
  <2>2. auto' = FALSE /\ iterations' = iterations * (1 + t)
    BY <1>1, <1>9
  <2> HIDE DEF t
  <2>3. Work * t <= 20 * Hz
    <3> DEFINE u == (secs + 1) * Hz
    <3>1. u \in Int /\ Work <= u
      BY <1>2, <1>3, <1>4, <1>5
    <3>2. t * (u - Work) >= 0
      BY <1>2, <2>1, <3>1
    <3>3. Work * t <= t * u
      <4> HIDE DEF u
      <4>1. t * (u - Work) = t * u - Work * t /\ t * u \in Int /\ Work * t \in Int
        BY <1>2, <2>1, <3>1
      <4> QED
        BY <3>2, <4>1
    <3>4. t * u = (t * secs + t) * Hz
      BY <1>2, <1>5, <2>1
    <3>5. (20 - (t * secs + t)) * Hz >= 0
      <4>1. t * secs \in Int
        BY <1>5, <2>1
      <4>2. 20 - (t * secs + t) \in Nat
        BY <2>1, <4>1
      <4> HIDE DEF u
      <4> QED
        BY ONLY <1>2, <4>2
    <3>6. (20 - (t * secs + t)) * Hz = 20 * Hz - ((t * secs + t) * Hz)
      <4> DEFINE z == t * secs + t
      <4>1. z \in Int
        BY <1>5, <2>1
      <4> HIDE DEF z
      <4>2. (20 - z) * Hz = 20 * Hz - (z * Hz)
        BY <1>2, <4>1
      <4> QED
        BY <4>2 DEF z
    <3> HIDE DEF u
    <3>7. Work * t \in Int /\ t * u \in Int /\ 20 * Hz \in Int
      BY <1>2, <2>1, <3>1
    <3> QED
      BY <3>3, <3>4, <3>5, <3>6, <3>7
  <2>4. Work' = Work + Work * t
    <3>1. (iterations * (1 + t)) * cost = (iterations * cost) + (iterations * cost) * t
      BY <1>2, <2>1
    <3> QED
      BY <1>1, <2>2, <3>1 DEF Work
  <2>5. iterations' \in Nat
    BY <1>2, <2>1, <2>2
  <2>6. Work' <= (10 * cost) + (30 * Hz)
    <3>1. Work * t \in Nat
      BY <1>2, <2>1
    <3>2. CASE iterations = 10
      BY <1>2, <2>3, <2>4, <3>1, <3>2 DEF Work
    <3>3. CASE Work < 10 * Hz
      BY <1>2, <2>3, <2>4, <3>1, <3>3
    <3> QED
      BY <1>7, <3>2, <3>3
  <2>7. Sizes'
    BY <1>1, <2>2, <2>6 DEF Sizes
  <2>8. TimingTypes'
    BY <1>1, <2>2, <2>5 DEF TimingInv, TimingTypes
  <2> QED
    BY <1>6, <2>7, <2>8
<1> QED
  BY <1>8, <1>9

LEMMA MeasuredStep ==
  ASSUME TimingInv, Measured
  PROVE  TimingTypes' /\ Calls' /\ Sizes' /\ Marks'
<1>1. /\ pc = "stopping" /\ pc' = "done" /\ ~auto /\ todo = <<>> /\ call.fn = "none"
      /\ UNCHANGED <<hi, lo, call, auto, todo, cost, iterations, times>>
  BY DEF Measured, Stopped, counterVars
<1> QED
  BY <1>1 DEF TimingInv, TimingTypes, Calls, Sizes, Marks, Work
-----------------------------------------------------------------------------
\* Every step of main and of the library keeps the invariant.
THEOREM TimingInvNext == TimingInv /\ [TimingNext]_vars => TimingInv'
<1> SUFFICES ASSUME TimingInv, [TimingNext]_vars PROVE TimingInv'
  OBVIOUS
<1>1. CounterInv'
  BY StepOfCounter, CounterInvNext DEF TimingInv
<1>2. GetAge'
  BY GetAges
<1>3. TimingTypes' /\ Calls' /\ Sizes' /\ Marks'
  <2>1. CASE UNCHANGED vars
    <3>1. UNCHANGED <<hi, lo, call, pc, auto, todo, cost, iterations, times>>
      BY <2>1 DEF vars, counterVars, timingVars
    <3>2. Cycles' = Cycles /\ Cycle' = Cycle /\ Work' = Work
      BY <3>1 DEF Cycles, Accesses, Cycle, Number, Work
    <3> QED
      BY <3>1, <3>2 DEF TimingInv, TimingTypes, Calls, Sizes, Marks
  <2>2. CASE TimingNext /\ ~UNCHANGED vars
    BY <2>2, StartTimeStep, StopTimeStep, CallBegins, LibraryGoesOn, ReturnedStep,
       IterateStep, CalibratedStep, MeasuredStep DEF TimingNext, Finished
  <2> QED
    BY <2>1, <2>2
<1> QED
  BY <1>1, <1>2, <1>3 DEF TimingInv

\* The times that main has marked and the time the library reads belong together at
\* every step of start_time, stop_time and the calibration (core_portme.c).
THEOREM TimingInvAlways == TimingSpec => []TimingInv
BY TimingInitInv, TimingInvNext, PTL DEF TimingSpec

\* get_time is the work of the run and a few cycles of reading, for counters of any
\* width that do not come round within a run (core_portme.c: start_time, stop_time,
\* get_time; rv_csr.c: get_mcycle, set_mcycle).
THEOREM TimeIsTheWork == TimingSpec => []MeasuresTheRun
<1>1. TimingInv => MeasuresTheRun
  <2> SUFFICES ASSUME TimingInv, Stopped
               PROVE  get_time - (iterations * cost) \in Overhead
    BY DEF MeasuresTheRun
  <2> QED
    BY Measurement DEF Work, Overhead
<1> QED
  BY <1>1, TimingInvAlways, PTL

\* What is proved of Counter holds of every read and write that main makes: main
\* implements "any program".
THEOREM TimingImplementsCounter == TimingSpec => ImplementsCounter
<1>1. TimingInit => Init
  BY DEF TimingInit
<1>2. TimingInv /\ [TimingNext]_vars => [Next]_counterVars
  BY StepOfCounter
<1> QED
  BY <1>1, <1>2, TimingInvAlways, PTL DEF TimingSpec, ImplementsCounter, Spec

\* main's reads return values the counters had, and its writes leave what was asked
\* for (rv_csr.c).
THEOREM MainReadsAndWrites == TimingSpec => [](Snapshot /\ SetLands)
BY TimingImplementsCounter, GetsAreSnapshots, SetsLand, PTL DEF ImplementsCounter
=============================================================================
