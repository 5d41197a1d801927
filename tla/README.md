# RV-PipelineCore: verification model

TLA+ models, TLC runs and TLAPS proofs for this repository: the RISC-V core (RV32IM_Zicsr,
five stages, machine mode, two Wishbone master ports), the C software that runs on it with
the peripherals it drives, and the virtual board. Paths below are relative to `src/`.

## 1. The system

### Components, their state and their operations

| Component | Source | State | Operations |
|---|---|---|---|
| Hazard unit | `rtl/core/hazard_unit` | `ignore_instr_mem_handshake`, `csr_pending`, `div_pending`, `pending_exception_f`, `pending_exception_m` | forwarding, load-use stall, stalls and flushes of every stage |
| Control unit | `rtl/core/control` | control fields of the E, M, W registers; the decoder's outputs, which an illegal opcode leaves latched | decode, branch resolution, `pc_src_e` |
| Datapath | `rtl/core/datapath/datapath.vhd` and the units it instantiates | `pc_f`, the D, E, M, W registers, the register file (written at the falling edge) | select the next pc, read, forward, execute, write back |
| CSR unit | `rtl/core/datapath/csr_exec.vhd` | `mstatus`, `mie`, `mip`, `mtvec`, `mepc`, `mcause`, `mtval`, `mscratch`, `minstret`, `mcycle`; an edge detector for each interrupt line | CSR read in E and write in W, trap entry and `mret` in W, interrupt sampling |
| Divider | `rtl/core/datapath/div.vhd` | start edge, busy, the mask that is shifted out, the result | one quotient bit for each cycle, stalling E |
| Branch predictor | `branch_predictor.vhd`, `branch_misprediction.vhd` | target, tag and two-bit counter of 128 entries | predict in F, train and check in E |
| Wishbone ports | `rtl/core/processor.vhd` | two machines, `WB_IDLE` and `WB_ACTIVE`, with the request they latched | request, wait for the ack |
| Memories | `rtl/wishbone_memory` | ROM, RAM, a registered ack each | answer a request one cycle later |
| Interconnect, tops | `rtl/soc`, `rtl/soc/wb_intercon` | arbiter token | carry a request to a slave |
| Counters and CSR library | `csr_exec.vhd`, `sw/csr_lib` | `mcycle`, `minstret` in two halves | get (three reads, in a loop), set (three writes) |
| CoreMark | `sw/examples/coremark` | the memory block: list cells and data, matrices, text; four crcs | build, find, reverse, sort, remove and put back; the matrix and state benchmarks; validation |
| CoreMark's clock | `core_portme.c`, `core_main.c` | start, stop and retired counts, number of iterations | start, stop, calibrate, report |
| UART and its library | `rtl/soc/uart`, `sw/uart_lib` | line control, divisor latch, transmit FIFO, transmitter | initialise, poll the status, write a character |
| UART reader | `vidbo/uart`, `vidbo/tb.cpp` | receiver machine, string, queue of lines | sample the line, hand on a line |
| gpio, ptc, interrupt example | `rtl/soc/gpio`, `rtl/soc/ptc`, `sw/examples/btn_interrupt` | device registers, the enables of the core, two counters in memory | initialise, handle the two sources |
| Polling examples | `sw/examples/led_btn`, `seven_segment`, `led_example` | static flags, the value shown | read the inputs, act, write the outputs |
| Virtual board | `vidbo` | reader of the display, update list, sessions, inputs | poll, service the websocket, send |
| Tooling | `scripts`, `riscv-target`, `rtl/vivado` | | code generation, conformance tests, test bench |

`PROJECT.json` lists each part with its status.

### How they interact

The core presents `pc_f` to the instruction port at all times. The port takes a request
when idle, waits for the ack and hands it to the hazard unit, which lets D take the word
unless the fetch was made before a jump or a trap (`ignore_instr_mem_handshake`). Data
accesses start from M, which stays there until the ack (`stall_m`); W has no enable and
copies M in each cycle. Exceptions are collected in M, traps are entered in W, and from
one to the other `pending_exception_m` flushes everything younger. An interrupt request
is sampled while E holds an instruction, becomes a pulse of one cycle, and so meets that
instruction in M. The divider works beside the pipeline with E stalled and M flushed.

Software sees the devices through loads and stores of their registers. The gpio and the ptc
raise the two interrupt lines; one handler reads both. The counters run on beneath
`csr_lib`, CoreMark measures itself through it. The virtual board simulates the design one
clock at a time: `main` samples the serial line in each turn and every 10000 turns polls the
LEDs, runs the websocket callbacks, copies the inputs of a page to the pins and looks at one
digit of the display. What goes to a page waits in one list for all sessions.

### What is hard

In the core everything happens in one clock edge: a dozen registers with stall, flush and enable
conditions of their own, and a bus that answers when it likes. What no directed test
reaches is the *combination*: a trap while a fetch is outstanding, an interrupt on a
waiting store, a division behind an exception, a branch predicted while the previous one
is still being resolved. In the software it is what changes between two accesses: a counter
that carries between the reads of its halves, an edge in the clock that clears the one
before, a button between two polls; and in-place pointer code that holds a list in three
pieces. In the virtual board it is the order of callbacks, and pages that vanish.
`PROJECT.json` lists these hazards at their lines, with the property that covers each or the
reason why none does yet.

### What makes each part correct

* whole core: instructions take effect in program order, once, on the right operands;
  traps are precise; instructions keep completing;
* hazard unit and ports: no answer of the bus is paired with the wrong pc or access;
* operands: a value that is not forwarded is never stale;
* CSR unit: a trap is entered once, saves what it must, and an interrupt has a victim;
* divider: completion is signalled when the result is there, and always;
* predictor: it may be wrong, and the program must not notice;
* `csr_lib`: a value read is one the counter had; a value set is not carried into;
* CoreMark: no record is lost, every call restores the block, the crcs are the known ones,
  and the rate printed is that of the run;
* serial line: every character comes out once, in order, in lines;
* interrupt example: each recorded press and each period is counted once;
* polling examples: a press acts once; the value shown is that of the presses;
* virtual board: a page shows what the design does, in order, and the design sees the inputs.

## 2. The modules

| Module | Models |
|---|---|
| `Isa` | words, instructions, and the pure functions of D and E: main decoder, mul/div decoder, ALU, branch check, target adder, alignment checks |
| `CsrFile` | the CSRs as a value: fields, read multiplexer, value written by each CSR form |
| `CsrExec` | `csr_exec.vhd` and `edge_detector.vhd`: trap entry and return, CSR writes, `minstret`, interrupt sampling |
| `BranchPredictor` | the table, prediction, training, the misprediction check |
| `DivUnit` | the divider's handshake; the quotient is a function |
| `Divider` | the steps of `div.vhd` for DIV, DIVU, REM and REMU, as an implementation of `DivUnit` |
| `HazardUnit` | `hazard_unit.vhd`, signal by signal |
| `Processor` | the composition: pipeline registers, ports, memories; `Spec` and `FairSpec` |
| `Hart` | abstract specification: one instruction at a time, completely or not at all |
| `ProcessorRefinesHart` | the refinement mapping from `Processor` to `Hart` |
| `ProcessorProperties` | type invariant, safety, action and liveness properties |
| `Asm`, `MCProcessor` | instruction constructors; programs and constants for TLC |
| `Crc`, `CoreMatrix`, `CoreState`, `CoreList` | CoreMark's pure parts: words and crc, the matrix benchmark, the text and its state machine, the list cells and chains |
| `CoreMark` | the list benchmark pointer by pointer, `iterate`, and its use of the other two |
| `BenchList` | abstract specification: a sequence of records that is reversed, sorted stably, and cut |
| `CoreMarkProperties`, `MCCoreMark` | its properties; the three compiled configurations |
| `Counter` | `mcycle` and `minstret` in two halves, the calls of `csr_lib` |
| `Timing`, `TimingProperties`, `MCTiming` | `main` measuring itself through `Counter`: start, run, stop, calibrate, report |
| `Uart`, `UartProperties`, `MCUart` | driver, transmitter, the simulator's reader, and the lines `main` takes |
| `BtnInt` | the interrupt example, with the registers of gpio and ptc it uses |
| `ButtonApps` | the three polling examples |
| `Board`, `BoardProperties`, `MCBoard` | main loop, display reader, websocket server and pages of the virtual board |
| `Arithmetic` | induction, quotients and remainders: facts for the proofs |
| `ProcessorProofs`, `DividerProofs`, `TimingProofs` (with those of `Counter`), `BtnIntProofs`, `ButtonAppsProofs`, `BoardProofs`, `UartProofs` | the proofs (section 5) |

**The core.** One step of `Processor` (`Tick`) is one rising edge after reset.
Each register has one action that gives its next value (`PcRegister`, `DecodeRegister`,
`ExecuteRegister`, `MemoryRegister`, `WritebackRegister`, `RegisterFile`,
`InstructionPort`, `DataPort`, `HazardUnitNext`, ...), and `Tick` is their conjunction,
as the processes of the VHDL run together. Combinational signals are operators with the
names of the source. The register file's falling-edge write is the operator `RegFile`:
what D reads in the same cycle. Nondeterminism is the environment's: the program (chosen
in `Init`), the wait cycles of each request, the interrupt lines at each edge, and `mpie`,
which the RTL does not reset.

**Fields.** A pipeline register is a record. `D.valid` and `E.valid` are
`is_decode_flush_d` and `valid_pc_e`, `M.valid_pc` and `W.valid_pc` are `valid_pc_m` and
`valid_pc_w`; a flushed register is a bubble (`BubbleD`, `BubbleE`, `BubbleM`), which
holds the zero word as the cleared flip-flops do.

**Wishbone.** `iport` and `dport` are the machines of `processor.vhd`; the slave's answer
is a countdown of wait cycles chosen from `FetchWaits` or `DataWaits`. The ROM registers
its ack, so `FetchWaits` excludes zero (`ProcessorAssumption`). A store is written in the
cycle of its ack; the RAM writes the same word one cycle earlier and again, which a single
master cannot tell apart.

**Widths.** Words are `0 .. 2^XLEN - 1` with wrap-around. The runs use `XLEN = 14`: it
holds every bit of `mstatus`, and the index and the tag of the predictor (6 and 8 bits)
cover all of the pc. The proofs hold for every width of 13 bits or more.

**CoreMark.** `next` and `info` are the pointers of the list cells, numbered in the order
`core_list_insert_new` hands them out; `res` is `core_results`. Each pointer assignment group of the reversal
(`Reverse1`), the merge sort (`SortPass`..`SortMerge`) and the remove and its undo is an
action of its own. A comparison by data first calculates the results that are not cached yet,
one step each (`SortCalc`, which runs a state or matrix benchmark), as `cmp_complex` does. The
state and matrix benchmarks are functions of their block: they touch nothing else. The block
layout (`ListSize`, `Dimension`, `BlockSize`) is that of the real sizes, 2000 and 1200 bytes.

**Counters.** `Counter` has one cycle per step: an access, or one of at most `MaxWait`
cycles between two accesses, while `mcycle` counts and `minstret` may. `Timing` replaces the
program that calls it by `main`; the work of a run is one step (`Iterate`).

**Serial line.** Time is in turns of `main` (10 ns, half a clock), and a step goes to the
next instant at which something can happen. Bits of the frame are a function of its time,
and the receiver samples with a bit time of its own.

**Devices.** A step of `BtnInt` is one clock: the program performs one access or none
(`Idle`, any number of times), and the registers of both devices take it with whatever
happens in that clock. In `ButtonApps` a step is an access or something a user does.

**Virtual board.** A turn of `Board` is one poll: `Poll` (LEDs), `vidbo_recv` and the
callbacks (in any order, one for what a page did and one for its session being writeable),
`Display`, and then `SendLine` or `NotHundredth`. Users act while the design runs or during
a service call. Values are numbered as they arise, which makes loss and reordering visible.
The word of the display goes all the way: the reader collects nibbles (`sev_seg_tick`), makes
a number of them (`decoded_value`), the server prints it as a signed one (`printed`) and the
page writes it in decimal, one character to a position (`setValueToDisplay`).

## 3. The abstract specification

`Hart` has `pc`, registers, data memory and CSRs. `Complete` executes the instruction at
`pc` (`Compute`, `Load`, `Store`, `NoEffect`, `Return`, `AccessCsr`), `Exception` traps it,
`Interrupt` traps between two instructions. The mapping of `ProcessorRefinesHart` drains
the pipeline: an instruction is executed from the cycle it is in M without an exception;
`pc` is that of the oldest instruction not yet executed. `ImplementsHart` says that each
edge is one step of `Hart` or none, so an instruction that is lost, repeated, executed on
the wrong path or on a stale operand, and a trap that is not precise, all violate it.

`Hart` leaves open what `mtval` is after an interrupt, and reads `minstret` as zero: the
runs that use it have `CounterSize = 1`. It also lets an interrupt set its `mip` bit as it
is taken, as the code does.

## 4. The runs

Each run asks one question of one composition. For the core, programs are *families*: every
sequence of two or three instructions over an alphabet chosen for the question, between a prologue that sets up traps and a halting loop, with a
handler. Three instructions put dependent instructions in all neighbouring stages and a
third one behind; loops formed by a backward branch train the predictor up to and out of
saturation. Deadlock is checked in every run: clocks never stop, and a program that has
ended repeats its last state (`Exit`, `Finished`).

| Run | Checks | Bounds | Shows |
|---|---|---|---|
| `programs` | `ImplementsHart`, `SpacedPipeline`, `UnforwardedOperandIsCurrent`, `TrapEmptiesPipeline` | all 15^3 programs without traps and 14^3 with; one wait cycle; 32 divider steps | computation, memory, control flow and CSRs, and every synchronous exception is precise |
| `waits` | `TypeOK`, `FetchConsistent`, `StagesHoldProgram`, `AccessBelongsToM`, `ImplementsHart`, `Progress` | all programs of two out of the same alphabets; fetch 1 to 3, data 0 to 3 wait cycles; 4 divider steps | no answer is paired with the wrong request, and no stall lasts for ever |
| `interrupts` | `ImplementsHart`, `InterruptHasVictim` | all 7^2 programs; fetch 1 or 2; both lines free | interrupts are precise over computation and control flow |
| `divider` | `Inv` (type, `Restoring`, `ResultIsReference`), `ImplementsDivUnit`, `Answered` | words of 3 bits, six operand values, four operations, a flush at any edge | the result is that of the M extension, in the promised number of cycles |
| `coremark` | `Inv` (type, `NothingLost`, `RunsAreThere`, `ScanStaysInside`), `Restored`, `Validated`, `ImplementsBenchList`, `Terminates` | the three seed sets of `core_portme.h`, real block sizes, 1 or 2 iterations | in-place pointer code keeps the list, each call gives its memory back, and the crcs are those `main` knows |
| `timing` | `Snapshot`, `SetLands`, `MeasuresTheRun`, `ImplementsCounter`, `ReportIsSound` | halves of 3 and 8 bits, one wait cycle, 40 cycles a second, `ITERATIONS` 0 or 7, iterations of 3 or 4 cycles | no read is torn, the time is that of the run, a calibrated run takes ten seconds |
| `uart` | `Inv` (type, `CharsConserved`), `LinesInOrder`, `SamplesMidBit`, `TextArrives` | four texts of up to four strings, the real divisor, bit times and FIFO, both modes | text arrives once, in order, in lines; the halt line ends it |
| `btn_int` | `PressLedger`, `TimerInv` (type, `TimerLedger`), `EventsAreShown` | period of 5 clocks, three presses, count modulo 4 | presses and periods are counted once, at whatever clock they come |
| `button_apps` | `Inv` (type, `ValueIsNetPresses`), `ActsOncePerPress`, `InputsAreHeeded` | 4 bits, two buttons held, one or two switches | a press acts once, whatever else changes between two polls |
| `board` | `Inv` (type, `LedsInOrder`, `NewestLedsKept`), `LinesShownOnce`, `InputsInOrder`, `OutputsReachPage`, `InputsReachDesign` | four scenarios: two pages with LEDs and a line, two pages with switches, one page that connects twice, one page and two digits | nothing is shown twice or out of order; while the flag `connected` stays up everything is taken and sent, and one page alone sees it all |

The exception alphabet has no misaligned load or store, the interrupt alphabet no access,
CSR instruction or division, and `waits` no division behind an exception: there the code
departs from its promise. `waits` has no division right before a CSR instruction, a jump to a
register or another division either: with latencies that vary, these can read an operand that
is gone or not yet written (the hazards at `datapath.vhd:450` and `div.vhd:66`). `programs`
has all those pairs, with the fixed latency of the test bench. Two of the departures are runs
of `PROJECT.json`, with one program and one property each, which TLC violates:

| Run | Violates | What the code does |
|---|---|---|
| `interrupted_store` | `NoAccessOfTrapped` | the pulse masks `d_valid` for one cycle only; the access starts as the trap is taken, and again after `mret` |
| `trap_before_division` | `Progress` | `div_pending` is set by a division that is being flushed from D: the core stops |

The others have a configuration each, to be run with `tlc -config X.cfg MCProcessor`, or, for
the last two, `Board.cfg` with the property named in place of its own; TLC ends with the
counterexample:

| Configuration | Violates | What the code does |
|---|---|---|
| `MisalignedLoad.cfg` | `TrapOnce` | the masked access is never acknowledged, `stall_m` holds the load in M, and its trap is entered twice: MPIE is lost (`csr_exec.vhd:229` "Save interrupt state") |
| `InterruptedCsr.cfg` | `TrappedCsrNotWritten` | the CSR write enable is not gated by the trap; the instruction runs again after `mret` |
| `InterruptedDivision.cfg` | `InterruptHasVictim` | M is a bubble during a division: `mepc` becomes 0 |
| `CountedLoad.cfg` | `MinstretCountsCompleted` | a waiting load or store is in W, and counted, in each cycle |
| `MisalignedBranch.cfg` | `NoMisalignedExecution` | the alignment check needs a redirection; a correctly predicted branch has none |
| `Board.cfg` | `DisplaysAgree` | the page shows in decimal what `wb_sev_seg.v` shows in hexadecimal, against `README.md:25` "the same as": they agree below ten only |
| `Board.cfg` | `LinesTakenWhileOpen` | one page that leaves clears the flag `connected` of all (`vidbo.c:155`): no line is taken for a page that stays |

**Bounds of the core.** Four registers, 16 words of ROM, four of RAM. The table of the predictor has
64 entries, as many as the programs have byte addresses, and the RTL's tag of eight bits, so
no two addresses share an entry and a tag: aliasing, which the RTL has between addresses
2^15 apart, is left to a run of the plan. The divider takes
the RTL's 32 steps where latency matters relative to other events, fewer where the wait
cycles vary already. `divider` has
words of three bits: 0, 1, 3 (the largest), 4 (the most negative), 6 and 7 (-2 and -1) make
every sign combination, inexact quotients, division by zero and the signed overflow; any
sequence of divisions and flushes is covered, since stale registers are part of the state. The restrictions on programs above are the only ones.

**Bounds of the software and the board.** CoreMark needs none: seeds and sizes are compiled
in, so the three runs are all there are for one context and these iteration counts.
Corruption and undo give the text back for these seeds; with others a character could stay
changed, as a comma is skipped both ways. `timing`: `MaxWait + 6 <= L` says a call is over
before the low half comes round, which 2^32 cycles leave ample room for; 40 cycles a second
and iterations of 3 or 4 make one to three tries at calibration, and put carries before, between and after
the reads. `btn_int`: a period of five clocks is shorter than the handler, so a match falls on each
of its accesses; three presses let one be counted, one pending and one merged. `button_apps`:
two buttons held meet in one function, and a rotation or count wraps at four bits. `board`: two
pages give every pairing of session callbacks; two changes of the LEDs and one line fill the
list with batches of both kinds, and two connections of one page meet a late close. Two
digits stand for eight, and eight bits for 32: as on the board, some words have one decimal
numeral more than there are positions, and half of them are negative when printed.

What these runs show of the code, besides what they check:

* The comment "Clear irq" (`btn_int.c:82`) is not what the write does: 0x40 sets the
  interrupt bit again and clears the enables; the write of 0x31 that follows clears it.
* One flag `connected` serves all sessions and a batch goes to one of them (`vidbo.c:155`,
  `:168`): with two pages, either may miss what the other shows, and the display and the
  serial line stop for a page that stays when another leaves. `OutputsReachPage` therefore says
  what arrives while the flag stays up, and what an only page shows; `InputsReachDesign` is
  about the only page.
* The page shows the display in decimal (`nexys-a7.html:180`). A word of 10^8 or more is shown
  by its first eight numerals, and one with its top bit set is negative (`vidbo.c:208`): the
  minus has no segments, `setDigitSegments` throws, and the positions to its right stay as they
  were. `OutputsReachPage` asks for the decimal numeral of words that fit.
* A button pressed and released between two polls is never seen, and in `led_btns` what a
  button did in the turn of a mode change is dropped, with its flag refreshed in its own mode
  only (`led_btns.c:43`).
* A display that shows an 8 from the start is sent only after enough other changes
  (`seven_segment.cpp:34`).

**The divider's two levels.** `Processor` takes the result from `DivUnit` as a function of
the operands. `Divider` checks that the steps deliver it: `ImplementsDivUnit` maps the mask
to the number of shifts left and the history variable `expected` to the abstract quotient,
and every edge is then a step of `DivUnit` with the reference value of the standard; the run
checks it for words of three bits, `DividerImplementsDivUnit` states it for every width. Its
execute stage relies on what `SpacedPipeline` says of the core: no instruction follows a
division at once, so `div_instr_e` falls between two of them and the edge is seen.

**Fairness.** `FairSpec` adds weak fairness of `Tick`: the clock does not stop. In `Divider`
it is weak fairness of the cycle without a flush, so `Answered` does not lean on one. Of the
core nothing else is assumed; that slaves answer is built into the countdown, as for the repository's
ROM and RAM. An unmapped address is never acknowledged by the interconnect: the core would
wait for ever, which no run covers (section 6).

In the other modules it is the running of sequential code: `CoreMark` and `Timing` take a
step while the program has not ended; in `Uart` the driver's writes and the turns of `main`
that read a line go on (a page stays connected); in `BtnInt` the clock runs and the program,
which may pause between accesses, makes one again and again; `ButtonApps` runs its loop for
ever. `Board` assumes that the main loop turns, that the display, scanned by a free-running
counter, goes to the next digit, and that every hundredth poll looks for a line. No fairness
is assumed of users, of the program on the board or of the pages.

## 5. The proofs

All checked by TLAPS, for every value of the constants that the named assumptions of the
modules allow. Those of the core hold for every program, register contents, memory, word
size, size of the predictor and number of divider steps, and for every `FetchWaits` and
`DataWaits` (`IsaAssumption`, `BitsAssumption`, `CsrAssumption`, `BpAssumption`,
`DivAssumption`, `ProcessorAssumption`). `BitsAssumption` says that different powers of two
below `2^XLEN` sum to a word; it is the one assumption that a proof could replace (a sum over
a set, by induction), and TLC evaluates it for the width of the runs. `IsaAssumption` has
`WordSize % 4 = 0` next to `WordSize = 2^XLEN` because the provers do not calculate with
powers. `ProcessorAssumption` lets `InitRegs` be anything but for register 0, which the code
never reads (`register_file.vhd:40`).

| Theorem | States | Argument |
|---|---|---|
| `TypeCorrect` | `TypeOK` | inductive itself; the first part of `ProcessorProofs` has the types of the pure functions |
| `FetchIsConsistent` | `FetchConsistent` | `FetchInv`: with the port in one of its states the property is inductive |
| `InstructionsComeFromProgram` | `StagesHoldProgram` | D by `AckOfPc`, the other stages copy their predecessor |
| `TrapsEmptyThePipeline` | `TrapEmptiesPipeline` | `TrapFlagged`: a trap in W implies `pending_exception_m`, which flushes D, E and M |
| `PipelineIsSpaced` | `SpacedPipeline` | `SpacingInv`, below |
| `UnforwardedOperandsAreCurrent` | `UnforwardedOperandIsCurrent`, no division in the programs | from `SpacingInv` |
| `InterruptsHaveVictims` | `InterruptHasVictim`, no division in the programs | `InterruptInv` on top of `SpacingInv` |
| `AccessesBelongToM` | `AccessBelongsToM`, both interrupt lines low | `AccessInv` on top of `SpacingInv` |
| `ProcessorImplementsHart` | `ImplementsHart`, programs and executions as below | `HartInv` on top of the invariants above, then one case per place of the oldest instruction |
| `DivisionInvariant`, `DivisionIsRight` | `Inv` of `Divider`: type, `Restoring`, `ResultIsReference` | `DivInv`, below |
| `DividerImplementsDivUnit` | `ImplementsDivUnit` | each edge, mapped, is a step of `DivUnit`, from `DivInv` |
| `CounterTypeSafe` | `CounterTypeOK` | with `CounterInv`, below |
| `GetsAreSnapshots` | `Snapshot` of `Counter` | `GetInv`: at most one carry in a call, and it is known when |
| `SetsLand` | `SetLands` of `Counter` | `SetInv`: a cleared low half cannot carry before it is written |
| `TimingInvAlways`, `TimeIsTheWork` | `MeasuresTheRun` | `TimingInv`, below |
| `TimingImplementsCounter`, `MainReadsAndWrites` | `ImplementsCounter`; `Snapshot` and `SetLands` of `main`'s calls | each step of `main` is one of `Counter`; the invariant of `Counter` then holds along every run of `main` |
| `PressesAreCounted` | `PressLedger` | `LedgerInv`, below |
| `PeriodsAreCounted` | `TimerInv` | `DevicesOK`, below |
| `HandlerIsSet` | `TrapsHaveHandler` | `Progress`, a part of `LedgerInv` |
| `ValuesAreNetPresses`, `PressesActOnce` | `Inv` and `ActsOncePerPress` of `ButtonApps` | `ActsInv`, below |
| `BoardInvAlways`, `LedsStayInOrder` | `Inv` of `Board` | `BoardInv`, below |
| `LinesAreShownOnce`, `InputsStayInOrder` | `LinesShownOnce`, `InputsInOrder` | parts of `BoardInv` |
| `CharsAreConserved`, `LinesStayInOrder` | `Inv` and `LinesInOrder` of `Uart` | `UartInv`, below |
| `BitsAreSampledMidway` | `SamplesMidBit` | `Tracking`, a part of `UartInv` |

`SpacingInv` is why this core works at all. `SpacedPipeline` is not inductive: that D is
empty when E is filled depends on the port, which after an ack needs at least two cycles for the next one. The invariant says so stage by stage: when D fills the port is
idle and D is alone (`DecodeAlone`); when that instruction is in E the next request is out
and unanswered (`ExecuteAlone`); only a division stays longer, and no access waits in M
meanwhile (`NoAccessUnderDivision`); bubbles ask for nothing (`Bubbles`). It shows that
the M forwarding path, which carries the ALU result even for loads, AUIPC and links, is
never needed with an instruction memory that registers its ack, and would be wrong
with a faster one. The restriction to programs without divisions is needed: with latencies
that vary, the instruction after a division can read the register file too early
(the hazard at `datapath.vhd:450`).

`HartInv` is what the refinement of `Hart` needs. Empty stages have the controls of no operation
(`Emptied`) and full ones those of their instruction (`Decoded`); E has read what the registers
hold (`Operands`); the pc behind an instruction that is no branch is the next one (`Following`),
since an entry of the predictor that says otherwise belongs to a branch and has its target
(`Trained`); an exception in M or an interrupt that was sampled finds its instruction there
(`Trapping`); M is alone but for the copies W makes of a waiting access (`AloneInM`), whose
answer is its own (`AccessBelongsToM`); and nothing but words is fetched (`Aligned`). An edge is
then one of eight cases. Five leave the hart as it is: a trap enters its handler (`TrapRests`),
an instruction is still before E (`FrontRests`), one that will except goes to M
(`ExceptingRests`), a load or store waits (`WaitingRests`), an executed instruction leaves M
(`LeavingRests`, where draining before and after the edge give the same registers, memory and
CSRs). `Completion` is the edge that takes an instruction into M, one lemma for each kind of
operation; `ExceptionTaken` and `InterruptTaken` are the edges that take an excepting one out.

The theorem is about programs without divisions and `minstret` (`EncodablePrograms`), along the
executions that satisfy `Supported` in every state. What it leaves out is what the
configurations of section 4 show to go wrong, and no more: an excepting load or store
(`MisalignedLoad.cfg`), an interrupt on an access (`interrupted_store`) or a CSR instruction
(`InterruptedCsr.cfg`), divisions with varying latency, branches to an address that is not a
word's (`MisalignedBranch.cfg`), and aliasing in the predictor. Two more are those of `Hart`: it
does not count, and an interrupt in the same cycle as an exception sets its `mip` bit as well.
Everything else is in it: any latency, any history of the predictor, any nesting of traps, any
length of the program. With the test bench's fixed latency divisions are right as well:
`programs` checks that, no theorem does.

`DivInv` adds to the type that the edge detector remembers the instruction of the last edge
(`Detector`), that the mask is one bit (`MaskIsBit`), and what is true while a division is
under way (`Underway`): the quotient so far is a multiple of twice the mask, and quotient
times divisor plus what is left of the dividend is the magnitude of the first operand, with
the rest less than the divisor shifted to where the mask is. `Restoring` says less and is not
inductive: that the last step leaves a rest below the divisor needs the size of what each
step before it left. The proof is arithmetic: signs and magnitudes modulo `2^Width`, quotients
that round to zero, and powers of two, for which `Arithmetic` proves an induction principle
from the library's well-founded minimum. Division by zero and the signed overflow are cases.

`CounterInv` is `CounterTypeOK /\ GetInv /\ SetInv /\ Snapshot /\ SetLands`, for every width
of the halves and every `MaxWait` with `MaxWait + 6 <= L` (`CounterAssumption`). That the loop
turns at most twice is part of the type, so it needs `GetInv`: a second turn is caused by a
carry, after which the low half is less than the cycles since the call and cannot carry again.
The constant 6 is what two turns take.

`TimingInv` is `CounterInv` with what `main` adds: the calls it has still to make (`Calls`),
how long a try at calibration and the run after it can be (`Sizes`), and how far `mcycle`, or
what was read of it, is ahead of the start of the measurement, modulo its width (`Marks`,
with `GetAge` for a read under way). The time reported is then that of the run to within the
length of the calls at its ends. `CountersAreWide` is the assumption that the counter does
not come round within one measurement, which its 64 bits guarantee: the code subtracts
without looking.

`LedgerInv` of `BtnInt` is `Progress /\ Counting /\ Tallies /\ PressLedger`: how far the
initialisation is decides what the gpio can do (`Progress`), and the press being counted
stays recorded until the handler clears it (`Counting`), so that the clearing write loses only what
came after. It holds for every period and number of presses (`BtnIntAssumption`). `DevicesOK`
adds the timer: its interrupt bit against the matches that have happened (`TimerStage`), for
each place the handler can be, and that an edge on its way to the gpio is within the bound
on presses (`Room`).

`ActsInv` is `TypeOK /\ Remembered`: a button that has acted for its press is remembered as
clicked by its static flag, and a turn that is about to forget it has seen it released, so
that it is up or pressed anew. `Inv` is inductive itself. Both hold for every width and any
number of buttons and switches.

`BoardInv` has eight parts: the types; a poll starts with a batch of its own, which has no line
before the end of the poll (`Batches`); LED values ascend along the list, and what a page shows
is older than all of it (`LedsInOrder`), and the newest is shown or listed unless a batch went to
a page that had left (`NewestLedsKept`); the same for lines (`LinesQueued`, `LinesShown`, `NoLineMissing`); and
what the pins have of a page is older than what the server received, which is older than what is
on its way from the page (`InputsBehind`). `LinesShownOnce` and `InputsInOrder` are not
inductive: that a line appended to a page is later than those it shows needs that the whole
list is, and a message taken from the way is newer than the pins only if all on the way
are. That the digits of the reader make a number, for any number of digits, is `DecodedType`,
by the lemmas `Induction` and `Recursion` of `Arithmetic`.

`UartInv` has five parts: the types; how far the driver is, with nothing sent before the UART
is set up (`SetUp`); where the receiver is in the frame (`Tracking`); that the first `n`
characters, cut, are the lines taken, those in `m_q` and the one begun in `m_uart_str`, and
the rest of the text is on the line, in the FIFO or still to write (`Assembled`); and that the halt line
is not handed on (`Unhalted`). `Tracking` is the heart: the receiver samples at turn 543 of
a frame and every 868 turns from there, where a bit of the transmitter takes 864, so that it
drifts 32 turns over eight bits and stays in the middle half of each. What it has
collected is the character modulo a power of two, and the stop bit is over 8355 turns into the
frame, before another can start at 8640. The proof of a turn follows the phases
of the receiver; the text cut into lines is a recursive function of the number of
characters, and that it exists and adds up is proved from the lemmas `Induction` and `Recursion` of
`Arithmetic`. `UartAssumption` says that texts are sequences of strings without the character
0, as C strings are (`uart_write_str` stops at `strlen`), that the halt line is one too, and that
the FIFO has room.

**Only model-checked.** `ImplementsHart` for programs with divisions, and everything about
`CoreMark`, which leans on recursive data: the crc and the sorted list. Liveness
(`Progress`, `Answered`, `Terminates`, `TextArrives`, `EventsAreShown`, `InputsAreHeeded`,
`OutputsReachPage`, `InputsReachDesign`, the first part of `ReportIsSound`) and ENABLED are out of the
prover's reach. Induction is possible for sets of naturals only (`Arithmetic`): the library's induction
theorems take an operator as a parameter, which the installed provers cannot instantiate, so
what a function computes must be put as a set of the arguments for which it does. No module
declares a RECURSIVE operator.

## 6. Not modelled, and why

* In `Processor`: `mcycle`, which counts every cycle, so that no two states of a run would be
  equal (`Counter` has it); identification CSRs: constants; `minstreth`: `minstret` is one
  counter modulo `CounterSize` there.
* AND, OR, XOR, shifts, SLT, the other branches, byte and halfword accesses, MULH: the
  pipeline treats them as their siblings in the model. So it does DIV, REM and REMU, whose
  results are the subject of `Divider`.
* Reset in mid-operation: every register returns to `Init`, except `mpie`.
* Predictor aliasing: it needs a program of more than 32 KiB or a table with fewer tags.
* CoreMark's `ee_printf.c` and `cvt.c`: formatting, whose only effect is the characters that
  `Uart` carries. Multiple contexts and seeds from the command line: compiled out.
* The receive half, interrupts and modem lines of the UART (a receive FIFO with push, pop and
  overrun in one clock, `uart_rfifo.v:251`, is never driven), AUX and ECLK of the gpio, PWM and
  capture of the ptc: no program of the repository uses them.
* The interconnect (a token arbiter, `arbiter.v:99`, and a multiplexer that raises an error
  the core does not look at, `wb_mux.v:119`) and the SoC tops: third-party blocks and generated wiring. Their
  effect on the core is the set of wait cycles.
* Of the virtual board: allocation, JSON text and the 32-bit tick count of `check_vidbo`;
  waveform dumps and the ctrl-C handler; the drawing of LEDs, switches and segments.
* `json_buf` (`vidbo.c:39`) holds 1024 bytes and is written without a check. A line of `Board` is
  one whose message fits: up to about 46 characters in the worst case, when LEDs and a number
  have the same time. What a longer line does, CoreMark's longest of 72 characters among them,
  is not modelled, so `LinesShownOnce` and `OutputsReachPage` say nothing of it.
* Start-up and assembly code, which copies, clears and calls, or repeats the C examples;
  scripts, conformance targets, board files and the test bench, which generalise to the
  wait cycles and interrupt lines of the runs.

## 7. What is left

1. `Soc`: arbiter, address decoding, ROM shared by both ports, around the two port machines;
   latencies of `Processor` derived instead of assumed, to tell whether the SoC can meet the
   two division hazards.
2. `AluFlags`, `LoadStore`: flags, branch conditions and the byte lanes of
   `memory_store.vhd` and `mask_extend.vhd` against reference definitions.
3. Predictor aliasing: fewer tags, so that an instruction that is no branch hits an entry.
4. Liveness of interrupts in the core: an enabled request that stays up is taken.
5. Proofs: the refinement of `Hart` for divisions at a fixed latency, and that CoreMark's list stays whole (`NothingLost`, `Restored`).
