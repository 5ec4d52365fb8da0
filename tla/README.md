# TLA+ models of rtl8088

The repository holds two processors written in Verilog and the boards around
them:

- `mcl86/`: the MCL86 8088 core, microcoded, with a separate Bus Interface Unit
  (BIU) and Execution Unit (EU); a PC/XT board with an interval timer and a CGA
  card; FPGA top levels; a Verilator harness that boots a BIOS.
- `v188/`: V188, an independent 80188 core in one state machine with its own
  microcode, a serial divider and a Verilator harness.

This directory models the first system from the bus outwards: prefetching, the
request handshake, bus cycles, the board's strobes and decode with the harness
as RAM, interrupts, the timer and the CRT controller; and the second as a whole,
core, microcode, divider and harness, against an instruction set. Everything is
a register transfer model: one step of a module is one clock of the code's
`always` block (in the CRT controller one clock with `divclk`, in the V188 one
edge of its clock), and all registers are assigned together, so that the order
of non-blocking assignments in the source is the order of precedence in the
definitions. Line numbers for each definition are in `PROJECT.json` under `map`.

## 1. Inventory

### 1.1 BIU: `mcl86/rtl/system/cpu/biu_min.v`

*State.* The four-byte prefetch queue (`pfq_entry0..3`), addressed by two 16-bit
offsets whose low three bits make the full and empty flags; six segment
registers; the captured request of the EU (`eu_biu_req_d1`,
`eu_biu_req_caught`); the bus state machine (`biu_state`, 8 bits, with the status
`s_bits`, `word_cycle`, `byte_num`, the address register); shift registers that
synchronise CLK, READY, NMI and INTR; output pipelines towards the EU.

*Operations.* Every clock: shift the pipelines, capture the rising edge of the
request, apply the strobe of `EU_BIU_COMMAND` (pop a code byte, load a segment
register), move the queue. In state 00: start a request, finish a jump, start a
code fetch, or stay. States 01 to 58: one bus cycle, 69 clocks and the waits.
46 to 4E: acknowledge and return to 00.

*Interactions.* The EU reads the head of the queue and its address through a
delay register and reads data through two; it holds the request level until it
has seen the acknowledgement. Devices answer through READY and AD_IN.

*Hard.* A jump meets a code fetch in any of its states; a pop, a delivery and a
flush in one clock; request and acknowledgement cross pipelines in both
directions; READY may come or go at any clock; a word is two bus cycles.

*Correct when* the queue never overflows nor serves a byte of an older
CS:IP; each request gets the bus cycles of its kind once and is acknowledged
once; reads return the byte or word of their address; writes write it; every
request is served as long as devices get ready.

### 1.2 EU and microcode: `eu.v`, `eu_rom.v`, `microcode.mem`

*State.* The micro program counter with its jump stall, a four-deep call stack,
the register file, FLAGS, the latches `biu_done_caught`, `intr_enable_delayed`,
`eu_tr_latched`. *Operations.* One micro-operation a clock: ALU, register moves,
jumps, calls; instructions are microcode routines that talk to the BIU by
setting bits of `EU_BIU_COMMAND` and polling `SYSTEM_SIGNALS`. *Hard.*
Interrupts, NMI and the single-step trap are latches set at any clock and read
at a few microcode addresses; pulses to clear them are made by writing reserved
bits of FLAGS. *Correct when* none of the three is lost, taken twice or taken
too early, and when the use of the BIU keeps to the handshake.

### 1.3 `8088.v`, `system.v`

`8088.v` is the wires between EU and BIU. `CpuArbiter` divides the clock,
latches the address and decodes four strobes from the pins; `Bios` is a
registered ROM; `System` decodes the address and multiplexes the read data;
`CpuTracer` prints. *Hard.* Strobes are decoded from pins that change at
different clocks; ROM and video RAM answer a clock late, and the card drives the
bus only while its read strobe lasts; a device acts on every clock of a strobe.
*Correct when* a read samples the byte of the device that is addressed and a
write strobe is one pulse for one write.

### 1.4 Interval timer: `i8253.v`

Two counters behind ports 40 to 43, each with `count`, `init`, `mode`, `state`
and the latch and read flip-flops; a divider by 24. *Hard.* Reprogramming while
counting, latching while counting, ticks that fall on an access, odd counts and
zero, strobes of many clocks. *Correct when* the output has the period and duty
of the count loaded, and reading it costs no more than the ticks on the read.

### 1.5 CGA card: `video/*.v`

`crtc6845.v` counts characters and lines, makes sync, blanking and addresses;
`cga.v` decodes ports and holds the control registers; `cga_vram.v` is
dual-ported memory; `cga_sequencer.v` shares it between the CPU and the pixels;
`cga_scandoubler.v` stores a line and plays it twice; `cga_pixel.v`,
`cga_attrib.v` and `cga_vgaport.v` format pixels. *Hard.* All CRTC registers are
writable while the counters run; two line stores are exchanged between counters
of different rates. *Correct when* frames and pulses keep their length, every
displayed cell comes from its place in memory, and the controller recovers from
any rewriting.

### 1.6 V188: `v188/V188.v`, `MyDiv.v`, `top.v`, `microcode/`, `main.cpp`

*State.* A state machine of 23 states in use; a microcode address and the
micro-operation being executed; the 8086's registers; a stack of four operand
words that goes round; segment, offset and ModRM latches; a toggle per kind of
access (memory read and write, port read and write), one per interrupt line and
one to start the divider. The divider has its own registers and clock edge.

*Operations.* On a falling edge the core fetches a micro-operation and does it,
or goes on with the access it began. On a rising edge the harness compares the
toggles with the last it has seen and answers; the divider takes its operands or
does one bit. At the end of an instruction one of lines 0, 1, 4 and 7 may be
taken.

*Hard.* An access is announced by a toggle and answered by nothing but the clock
(or by `ready`, or a toggle back); its address is combinational in the state.
Words are popped in one clock and used in the next. The divider runs on the
other edge, and its answer is latched a clock before its toggle. Offsets wrap in
the middle of words.

*Correct when* every instruction leaves registers, memory and ports as its
definition says, no access is lost, none is answered with the byte of another,
divisions divide, and interrupts come between instructions only.

### 1.7 The harness of the MCL86: `mcl86/main.cpp`

It clocks the Verilated board, is its RAM (1 MB, `memory_t`) and dumps the
display. `tick` clocks, then writes the byte on the pins if `oSramWe` is up and
drives the byte of the address. *Hard.* A write strobe lasts 44 clocks, in each
of which it writes; the window of the video RAM is larger than it and overlaps
the RAM. *Correct when* memory is what the finished writes made of it.

The rest: `top.v`, `icext.v` (pins), `tests/` and `roms/` (programs and images),
`external/udis86` (vendored), `v188/ref` (generated multipliers), `v188/nasm`
(assembler). See `PROJECT.json` for the status of each.

### 1.8 How the parts interact

    EU ---- EU_BIU_COMMAND, R3, DATAOUT ---> BIU ---- pins ---> CpuArbiter
    EU <--- PFQ_*, RETURN_DATA, BIU_DONE --- BIU <--- AD_IN --- System mux
                                                                 ^   ^   ^
      NMI, INTR, READY: tied off by system.v      BIOS, harness  |   |   |
                                                          timer -+   |
                                                            CGA -----+

    V188 ---- toggles, a, dout ----> harness       V188 ---- div_run_out ----> MyDiv
    V188 <--- din, ready, toggles --- harness      V188 <--- q, r, run_out --- MyDiv

## 2. Modules

| module | models | extends / uses |
|---|---|---|
| `Biu` | the clocked block of `biu_min.v` | |
| `BiuSystem` | BIU + an EU that uses it as the microcode does + a board | `Biu` |
| `BusRequest` | abstract: a request gets its cycles, then one answer | |
| `CodeStream` | abstract: the EU reads a stream of code bytes | |
| `BiuRefines` | the refinement mappings to those two | `BiuSystem`, INSTANCEs |
| `Xt` | the BIU on the board of `system.v` | `BiuSystem` |
| `Harness8088` | that board in `mcl86/main.cpp`, its RAM and the video RAM | `Xt` |
| `Pit8253` | the timer, any access of any length | |
| `PitSystem` | the timer with a history of what a program did to it | `Pit8253` |
| `Interrupts` | the latches and the microcode between instructions | |
| `Crtc6845` | the counters, pulses and addresses of `crtc6845.v` | |
| `CrtcFrames` | the controller with a history of the frame and pulses | `Crtc6845` |
| `Bytes188` | bytes, words, addresses, flags and registers of the V188 | |
| `Ucode188` | the microcode: `mcode.asm` over the macros of `mcode.inc` | `Bytes188` |
| `MyDiv` | the divider | `Bytes188` |
| `V188` | the core, one falling edge a step | `Ucode188`, `MyDiv` |
| `Isa188` | abstract: the instruction set, one instruction a step | `Bytes188` |
| `Harness188` | the core in `v188/main.cpp`, or on a slower board; the refinement mapping to `Isa188` | `V188`, INSTANCE |
| `BiuProofs`, `BiuDataProofs`, `BoardProofs`, `InterruptsProofs`, `CrtcProofs`, `PitProofs`, `HarnessProofs188` | theorems | their components, `TLAPS` |
| `Remainders` | lemmas on `%` and `\div` they share | `TLAPS` |
| `MCBiu`, `MCXt`, `MCPit`, `MCInterrupts`, `MCCrtc`, `MCV188` | constants for TLC | |

A definition named `Name_Suffix` is `Name` with a plausible mistake in it. The
specifications never use it: it documents which mistake each property catches
(`PROJECT.json`, `mutants`).

**Biu / BiuSystem.** Every register that the control depends on has the
variable of its name. `BiuClock(clk, ready, ad_in)` is one clock:
`Pipelines /\ CaptureRequest /\ LoadSegment /\ Queue /\ StateMachine`.
`StateMachine` has an action for every decoded `biu_state` and `Count` for the
others, which only count up. Bytes are abstracted to where they came from, a
pair <<space, address>>, which is what all the data properties speak about;
addresses keep their arithmetic and wrap. `BiuSystem` adds the EU as the most
general user of the interface: it may at any clock do something else, poll for
a byte, pop it, load a segment register, raise a request, or release one that
is done, under the restrictions of the microcode (a request is held until
`biu_done_caught`, a byte is popped only after a poll, a load of CS is followed
by a jump before the queue is used again). `LatchDone` is the latch of `eu.v`.
The board gives CLK, READY and the address latch. `polled` and `cs_dirty` are
the only variables with no register behind them: the first is the position of
the microcode, the second is history.

**Xt.** Replaces the ideal board by `CpuArbiter`, the ROM and video RAM
registers and the read multiplexer of `System`; `held` is history. A byte read
is abstracted to the cell it came from: <<"mem", a>> is the byte of the RAM or the
BIOS at an address (the multiplexer is what tells the two apart), <<"vram", c>>
the cell c of the video RAM, where each is seen at several addresses.

**Harness8088.** Adds what is in the cells: `memory` is `memory_t`, `vram` the
video RAM, whose `VramSize` cells are seen through a larger window. `tick`
writes in every clock of a strobe of `oSramWe`. The harness works after both
edges of the clock, but the pins change at the rising one only, so a step is a
whole clock. `asked` is history: what the EU's finished writes ask for.

**Pit8253 / PitSystem.** `clk_div` and, per counter, a record of its
registers; `mode` and `state` are split in named bits. An access is a strobe of
some number of clocks on each of which the counter acts (`Act`) and misses the
tick if one is due. `PitSystem` adds `hist`: the ticks the counter has counted
since its output changed and those of the divider it has missed, the reads since
then, the edges and ticks since the last write, the bytes since the mode was set.

**Interrupts.** `upc` is the microcode address; addresses whose work changes none
of these registers are merged with the step before. The EU moves on or not in
a clock, so the latches can change between any two steps. Of FLAGS, I, T and
the two bits the microcode pulses (12, `BIU_NMI_DEBOUNCE`, and 5,
`eu_tf_debounce`) are kept. A program is any sequence of kinds of instruction.
The pins NMI and INTR are free.

**Crtc6845 / CrtcFrames.** The registers `r` after configuration are those of
`defparam crtc.*`; a write may fall on any clock, with or without a character.
Counters have their widths as constants and compare as the code does: the sum
`v_maxscan + v_totaladj` wraps in five bits, `count + 1` does not. `CrtcFrames`
adds the lines since the frame began, the ages of the two pulses and a bound on
writes.

**V188.** One action per group of micro-operations fetched (`FetchJump` to
`FetchSlow`), per group executed in the second clock (`ExecuteReset` to
`ExecuteMove`) and per state of the bus (`OpcodeByte` to `Divided`); `Wait` is
the clock in which what is waited for has not come. Registers, flags, the
operand stack and the arithmetic have their real widths. The registers are
grouped: `reg` what a programmer sees, `dp` the latches of the data path,
`strobe` the four toggles, `pin` the inputs. `a` and `dout` are the
combinational outputs. `Ucode188` gives the sequence of micro-operations behind
each of 93 opcodes, in the notation of `mcode.inc`.

**Harness188.** `Rise` is the body of the loop of `main.cpp` with `iClk` high,
and the divider's clock; `Fall` is the core's. `board` is "main", where every
access is answered in its clock and nothing interrupts, or "slow", hardware
outside the repository with the same pins, which may hold `ready` low, keep a
port waiting and raise interrupts (`Delay`, `Raise`). `seen` and `shown` are
`state_t`. `arch` and `io` are history: what the last instruction left behind,
which is what `Isa188` specifies.

## 3. Runs

Pass runs check every property named; a violation run documents a disagreement
between code and text (section 6).

| run | question | bounds |
|---|---|---|
| `biu_code` | Do loads of CS, jumps and byte reads, raised at any moment of a fetch, ever put a wrong byte in the queue or before the EU? `IInv`, `QueueBounded`, `QueueHoldsCode`, `PolledByteIsCode`, refinement `QueueIsAStream`. | widths 8/4/32, jump target 5 |
| `biu_data` | Does every kind of request get its cycles, one answer, and the right bytes, whatever it interrupts? `DoneIsForPending`, `NoStaleDone`, `ReadIsAnswered`, `WriteIsAsAsked`, refinement `RequestIsServedOnce`. | as above, one SS load |
| `biu_live` | Are requests served, with the device they wait for ready only now and then, and is the queue filled by one? `RequestIsServed`, `QueueIsFilled`. | jumps and word reads; READY in {0, 1}; no code byte popped |
| `xt_mem` | Do the board's registers, strobes and multiplexer deliver the right byte of RAM or ROM (the RAM's in the video window), one strobe of 44 clocks per write, and are RAM and video RAM what the finished writes made of them? `MemReadIsAnswered`, `CodeIsAnswered`, `XtWriteIsAsAsked`, `WriteStrobeLength`, `MemoryIsAsWritten`. | a ROM, video and timer range each, a video RAM half its window |
| `pit` | Do the modes keep their periods, halves and one-shots, in ticks counted, under reprogramming, reads and latches? By the divider, does a read cost more than the ticks on its strobe? Do one-byte modes load the byte written? `SquareWaveHalves`, `RatePeriod`, `OneShotIsTimed`, `HalvesAreOnTime`, `ByteIsProgrammed`. | see below |
| `int` | Are the shadow of STI, the arming and the single step of the trap, and NMI kept, with all requests at any clock? Are NMI and INTR taken in the end? `IntrAfterShadow`, `TrapIsArmed`, `TrapIsTakenOnce`, `TrapStepsOne`, `NmiIsKeptButByPopf`, `NmiIsTaken`, `IntrIsTaken`. | all kinds of instruction, all words for POPF and IRET |
| `v188` | Does the core do what the instruction set says, whatever it is kept waiting for? `ImplementsIsa` (refinement), `ByteIsAnswered`, `NoAccessIsLost`, `DivisionIsRight`, `HighestIsTaken`. | 25 programs, waits of a clock, lines 0 and 4 |
| `crtc` | Do frames, pulses and addresses survive rewriting of any register at any clock, and do frames go on? | 3 writes |
| `biu_halt`, `xt_port`, `pit_word`, `int_popf` | the findings | |

### Why the bounds are enough

- *BIU.* Offsets are 0..7: the queue indexes by three bits and its addresses
  wrap in the width of an offset, so 8 is the least width with every alignment
  and the wrap; the jump target 5 is close enough to the wrap to cross it. A
  paragraph of 4 and physical addresses below 32 let segments overlap and
  wrap. CLK is high for one core clock and low for two: three is the
  shortest period the edge detector can see, and the phase is arbitrary at
  reset and drifts against the 69-clock cycle; `xt_mem` uses the board's 8/8.
  `biu_live` has 5/6: going round the wait states takes 22 clocks, so that waits
  do not shift the phase, which keeps the graph small enough for liveness.
  The proofs hold for all widths (multiples of 8) and all periods.
- *Requests.* One request is in flight at most, so runs vary what it meets.
  `biu_code` has jumps, byte reads and loads of CS; `biu_data` has all 14
  kinds, no popping. `biu_live` has jumps, which have no bus cycle of their own,
  and word reads, which have two, the second of which ends like the only one of a
  byte: together they take every branch of the state machine. The other kinds
  differ in the status, the address and the data, on which no state waits, and
  are left to `biu_data` for safety. The EU of `biu_live` never pops, so that an
  empty queue is that of reset or of a jump.
- *READY* is high in `biu_code` and `biu_data`, and any level at any clock in
  `biu_live`. That `IInv` and `RequestIsServedOnce` hold for every READY is not
  checked but proved: `BiuProofs` and `BiuDataProofs` leave `ReadyLevels` open.
- *Timer.* A byte has 4 values (a count 16) instead of 256; a tick is 2 clocks
  and a write strobe 4, so that writes lose up to two ticks, as on the board
  (24 and 44). A read strobe is 3 clocks in `pit`: like the board's 15 an odd
  number of flips of the byte selector, and up to two ticks are lost in it where
  the board's loses one; `pit_word` uses the board's 24, 44 and 15. The counts 0, 3, 12 and 15 and the mixtures left by
  earlier modes occur. Modes 2 and 5 in LSB, 1 in MSB, 7 in LSB/MSB: each of
  the four tick actions in one access mode.
- *Interrupts.* No bounds: the module is finite with all kinds of
  instructions and all words on the stack for POPF and IRET, those with bits 12
  and 5 set included. In `int_popf` POPF pops what PUSHF pushes.
- *V188.* No width is reduced; what is bounded is the programs. Seven run
  through the addressing modes, the borders of segments, the string moves with
  REP and overrides, the ports, calls, returns and jumps, interrupt handlers,
  and the program of `main.cpp`; 18 divide, signed and unsigned, at the ends of
  the ranges of quotient, remainder and divisor, and by zero. All end in a jump
  to itself, so behaviours are finite. One clock of waiting is as good as any
  number: the core does not count them. Lines 0 and 4 are the highest and one
  that is tested after another. The proofs hold for all programs and waits.
- *CRTC.* Four characters, rows and scans, sync widths of 3, addresses of 2*4;
  the picture has a displayed and a blank part in both directions, a row of
  adjustment and a bottom border. Three writes are enough to move a total
  below its counter and back, to change a width in its pulse and to change the
  start address in two halves. The proofs hold for all widths and any number
  of writes.

### Fairness

- `biu_live`: `Clocked`, the core clock does not stop (stated of `clk_phase`, which
  every step moves); `Answers`, if the state
  machine looks at READY again and again (state 2F) it finds it high again
  and again. A device that is never ready at those clocks stalls an 8088 too.
  Nothing is assumed of the EU except what it owes to the handshake; in
  particular it need never release a request that is done.
- `int`: `EuFairness`. The EU's waits end (for bus cycles, `RequestIsServed`, of
  which a run checks the kinds above); the queue is not empty every time
  the boundary looks (`QueueIsFilled`); and
  the program is not an endless run of prefixes and segment loads, which the
  code does run without ever looking at interrupts.
- `crtc`: the character clock goes on.
- `v188`: `WF(Rise \/ Fall)`, the loop of `main.cpp` goes on. The slow board keeps
  an access waiting for `MaxWait` clocks at most, and raises interrupts or not.

The other runs check safety only. Deadlock is checked in all of them: no
clocked block can stop.

## 4. Properties

Each is stated in prose above its definition. The ones that relate several
actors over several steps:

- `QueueHoldsCode`, `QueueIsAStream`: a byte that was on the bus when a jump
  came never reaches the EU. They depend on a jump being held on the queue
  addresses until the state machine returns to 00 and acknowledges it.
- `DoneIsForPending`, `NoStaleDone`, `RequestIsServedOnce`: the handshake is a
  level in one direction and a pulse in the other, through two registers
  each; a pulse is not seen for the request before, twice, or not at all.
- `ReadIsAnswered`: at the moment the EU sees "done", two pipelines behind, the
  data is of this request, with the bytes in the right halves.
- `TrapStepsOne`, `TrapIsArmed`, `TrapIsTakenOnce`: the latch of the trap is an
  edge detector one clock behind FLAGS, and the microcode that sets T is then
  on its way to the boundary. `TrapIsArmed` and `NmiIsKeptButByPopf` name the
  POPFs that disarm the trap and drop an NMI (section 6), and say that nothing
  else does.
- `SquareWaveHalves`, `RatePeriod`, `OneShotIsTimed`: what a program times, in ticks
  the counter counts, from its last write on; for the square wave whatever it reads
  or latches meanwhile, while a latch command restarts a one-shot.
  `HalvesAreOnTime` adds the ticks that are not counted: a half in which nothing
  is latched or written is longer, by the divider, only by those that fall on the
  strobes of reads.
- `PictureIsRowMajor`, `FrameIsWhole`: positions in memory and lines of a frame
  in closed form against counters that compare, wrap and reset separately.
- `MemoryIsAsWritten`: the path of a write from the EU through two bus cycles,
  the strobes and the decode into a memory that is written in every clock of a
  strobe: no cell but those of the write under way ever differs from what the
  finished ones left, in the RAM, in the video RAM and in the dump.
- `ImplementsIsa`: an instruction is tens of clocks of micro-operations, bus
  states, toggles and waits; at its end all registers, all of memory and the
  port accesses in their order are those of one step of `Isa188`.
- `NoAccessIsLost`, `ByteIsAnswered`: a toggle that flips twice before it is seen
  is an access that never was; an answer that comes late is the byte of another
  address.
- `DivisionIsRight`: what the core takes from a divider on the other clock edge
  is the answer for the operands it holds.
- `HighestIsTaken`: line 0 cannot be starved by the others.
- `FramesGoOn`: wherever registers were moved, the counters come round.

## 5. Proofs

All theorems are proved for every value of the constants that satisfies the
`ASSUME`s of the modules (widths, ranges of the inputs), and checked by TLC on
the instances above.

**BiuProofs** (`Spec` of `BiuSystem`): `TypeCorrect`, `Invariance` (of `IInv`),
`QueueNeverOverflows`, `QueueIsFresh`, `PolledByteIsFresh`, `DoneIsExpected`,
`DoneIsNotStale`. The invariants are not inductive: that a full queue is never
written needs to know that a fetch in progress found room and that only it
fills the queue (`QueueHasRoom`), and that this byte is the right one needs its
whole path from the address register over the pins, the latch and the AD_IN
register (`FetchPath`, `FetchIsNext`). That a flush is not overtaken needs the
phases of the request (`Handshake`) and that bus cycles other than fetches
belong to the request that is caught (`CycleIsForRequest`). `EuIsTidy` says
that nothing moves the head of the queue between a poll and a pop. The step
lemmas are about `CodeClock`, a clock of the BIU on any board that has the byte
of a code fetch on AD_IN in state 3C; `NextIsCodeClock` says that the board of
`BiuSystem` has, and `BoardProofs` the same of `Xt`. The argument is one lemma per conjunct of `IInv`, cases on the actions of
`StateMachine`; arithmetic modulo the offset width is in lemmas about `Gap`,
`SlotsDiffer` and in `Remainders`.

**BiuDataProofs** (`Spec` of `BiuSystem`): `DataInvariance` (of `DataInv`),
`ReadsAreAnswered`, `WritesAreAsAsked`, `RequestIsImplemented`,
`QueueImplementsStream`. `DataInv` adds to `IInv` that a request stands still
while it is held (`RequestIsHeld`), that the bus cycle under way is the one it
asks for (`CycleIsAsAsked`), and where its address, data and strobes are in each
state (`CyclePins`) and the byte or word that comes back (`AnswerPath`), up to
the second delay register. `DataInv` has the kinds of read the board answers as
a parameter: all in `BiuSystem`, those of memory in `Xt`. The theorems about reads and writes are about words
that stay within a 64K block: `WithinBlock` asks that the offset does not wrap
and that the low 16 bits of the physical address do not carry. Proving them
showed that the first condition alone is not enough, which no word within the
bounds of the run does. The two refinements are step simulations: one lemma
says which step of the abstract machine a clock is (`RequestSimulates`,
`StreamSimulates`), after lemmas on what a clock does to the mapped state
(`TellStep`, `NoCyclesYet`; `BufferEntries`, `DeliveredIsNext`).

**BoardProofs** (`XtSpec` and `HarnessSpec`), for every decoding of the addresses
(`DecodeAssumption`: the ranges of the devices are disjoint): `BoardInvariance`
(of `XtInv`), `MemoryReadsAreAnswered`, `CodeIsOfTheBoard`, `StrobesAreAsAsked`,
`StrobesAreOfOneLength`, `XtServesRequests`, `XtStreamsCode`,
`HarnessIsOfTheBoard`, `MemoryIsWrittenAsAsked`. `XtInv` is `DataInv` for the
reads of memory with `BoardInv`: the ones of READY have gone through its three
registers when the first cycle gets to state 2F, so a cycle has no wait states;
the ROM's register has seen the address of a cycle from state 07 on; DEN is low
from 29 on, and `held` counts the states from 1A while WR_n is low. So nobody but
RAM or ROM is on the bus when the BIU samples (`SampledByte`), whatever the address:
in the window of the video RAM too, whose register then holds another byte
(`<<"vram", c>>`) that nobody reads. This is also why no port read is answered
(finding 2), and why `AnswerPath` is proved for reads of memory only. The theorem about the memory adds `MemoryInv`: each byte of the
write under way that has been on the bus (`Arrived`) is in its cell
(`ArrivedIsWritten`), in the RAM in the clock the strobe rises and in the video
RAM one clock later. A clock then goes on with a write (`WriteGoesOn`), ends it
(`WriteEnds`: the EU can release it only when it has been told, after the last
strobe) or has none (`NoWrite`). The theorem assumes `WritesStayInBlock`: the
second byte of a word across a 64K block is written elsewhere (section 6), so
without it the property is false; the run's words stay within a block. It also
needs a video RAM of at least two cells, or the two bytes of a word would share one
(the code has 16384).

**InterruptsProofs** (`Spec` of `Interrupts`): `Invariance`,
`InterruptsWaitForTheShadow`, `TrapsAreArmed`, `TrapsAreTakenOnce`,
`NmiIsNotLost`, `TrapsStepOne`, for every program and whatever words POPF and IRET
pop. `IInv` records at which addresses the debounce pulses are up (the bits a
POPF has popped count as such between 499 and 49A), at which the enable may
outlive I, at which T may have risen without the latch, and which service the EU
can be in. `bit5` is history: a POPF with bit 5 set since T rose. One lemma per
group of microcode addresses. The invariant of `TrapsStepOne` (`Stepped`) is only
about where T, the latch and the count of instructions can be between the IRET
that sets T and the trap.

**PitProofs** (`PitSpec`): `TimerIsTyped`, `BytesAreProgrammed`, `ShotsAreTimed`,
`RateIsKept`, `HalvesAreEqual`, `HalvesAreTimed`: all five properties of the run
`pit`, for every even number of values of a byte, every divider and every length
of the strobes. The invariants say what a counter's registers have to do with the
history of a program: `Programmed`, in a one-byte mode every clock of a strobe
stores into the same half; `Shot`, `Rate` and `Square`, the count is a function of
the count asked for and the ticks since the load or the last edge; `OnTime`, with
two reads at most since its edge a counter is filled and not latched, and the
ticks it has missed and will miss in the strobe under way (`Coming`, at most
`TicksIn(ReadHold)`) are those of its reads. `Rate` holds from the second edge
after a write on, and the third edge is the first one the property speaks of: the
first two may be the old count's. `HalvesAreTimed` counts two reads in a half; a
third would only make the history longer.

**HarnessProofs188** (`Spec` of `Harness188`), handshakes: `AccessesAreConsistent`,
`BytesAreAnswered`, `AccessesAreNotLost`. The invariant (`AccessInv`): a toggle
differs from the one seen only in the states of its access, at most one does,
and a byte awaited is still asked for until the rising edge that serves it. The
microcode does not matter: each step of the core asks for nothing, for one
access when none is under way, or goes on (`Outcome`).

Division: `DivisionsAreConsistent`, `DivisionsAreRight`. The invariant follows the operands from the clock before
the start (`OperandsLoaded`) through the phases: `QuotientSoFar`, the quotient so
far times the divisor and what is left make the dividend, and what is left is
less than as many divisors as the bits to come can hold. It is conditional on
the operands being words and the quotient fitting in 16 bits.

**CrtcProofs** (`FrameSpec`): `Invariance`, `PicturesAreRowMajor`,
`VsyncPulsesLast`, `HsyncPulsesLast`, `FramesAreWhole`. The invariant ties the
history to the counters: while no geometry register has been written since the
frame began, the position is a function of the number of lines (`Position`), the
blanking flip-flops of the position (`Blanking`), the row address of the row
(`RowBase`); the sync counters rest at 0 and 1 and count the pulse
(`VPulse`, `HPulse`).

**Only model-checked:** liveness (`RequestIsServed`, `QueueIsFilled`,
`NmiIsTaken`, `IntrIsTaken`, `FramesGoOn`, `HighestIsTaken`), which is out of the
prover's reach, and the refinement `ImplementsIsa`, which is about the concrete
microcode: a proof would have to run each of its routines symbolically. Every
other property of a passing run is a theorem. The properties of the runs that
expect a violation are false of the code.

## 6. Findings

1. `biu_halt`: HLT runs a bus cycle of status 011, whose low bits are those of
   a write, so WR_n is asserted (`biu_min.v:622`, "Assert WR_n for write cycles").
   On the board this is an I/O write strobe at CS:IP with a stale byte.
2. `xt_port`: `oIOR` is decoded with DEN as active high though it is declared
   active low (`system.v:41`, `system.v:64`); the strobe is over before the BIU
   samples, so no port read returns the byte of its device.
3. `pit_word`: the timer stores a byte on each clock of a strobe of 44, so in
   LSB/MSB mode both halves of the count get the byte of the first write
   (`i8253.v:119`, `i8253.v:143`).
4. `int_popf`: POPF puts the popped word in FLAGS before masking it; bit 12,
   which PUSHF pushes set, clears an NMI that was caught
   (`microcode.mem:1186`, `biu_min.v:336`).

Met on the way, where nothing in the repository says what should happen: a
read strobe of 15 clocks, as the board's, releases the timer's latch in its
second clock, so that a latched count is not what two reads return; the CPU never
reads the video RAM, because the strobe that turns the card's driver on falls with
DEN (`system.v:63`, the decoding of finding 2) and the byte sampled is that of the
RAM below, which differs where the video RAM, 16 KB in a window of 32, is aliased
or has not been written; a POPF of a word with bit 5 set loses a trap, and a POPF that
sets T is trapped at its own end; HLT looks at INTR before NMI, the boundary at
NMI first; a latch command restarts the count of modes 0, 1, 4 and 5; a word
across a 64K block of physical memory takes its high byte from the start of
the block; `v_maxscan + v_totaladj` above 31 shortens the frame; the two halves
of the start address are used as they are written; with `v_disp` above
`v_total` the last line of the picture is fetched from the first row. The
harness writes a reset vector at FFFF0, where the BIOS hides it, and dumps the
memory at B0000, while the card is at B8000. In the V188, `mcode.inc` defines
HLT twice (lines 61 and 80) and the second is a word the core does not decode,
so HLT does nothing and S_HLT is never entered; IN AX, imm8 and OUT imm8, AX
swap the operand stack when it holds a leftover (`mcode.asm:2066`), so the second
byte goes to another port; the remainder of IDIV takes the sign of the quotient,
and a quotient that does not fit is cut without a trap; there is no shadow after
STI or a load of SS; interrupts stay shut until 20h has been written to port
20h; lines 4 and 7 can be starved; REP takes no interrupt between repetitions.

## 7. Not modelled, and why

- *Instruction bodies, ALU and register file*: data. What matters of the EU for
  the other components is its use of their interfaces, which is modelled as
  nondeterminism within the microcode's discipline.
- *The clock counter and the prefix lock of the BIU, reset*: not yet.
- *Waits of the CGA card*: `bus_rdy` is left open by `system.v`.
- *Cursor, reading back of CRTC registers, pixels*: no control depends on them.
- *V188*: the instructions that use the 8-bit ALU, the multipliers or the segments
  fs and gs, the other string instructions and REPNZ; S_HLT, which is not
  reachable. IN AX, imm8 and OUT imm8, AX are in the microcode but have no
  definition in `Isa188` that the code would meet (section 6).
- *`main.cpp`*: `loadCom` of the MCL86's is called nowhere (the call is commented
  out); the V188's stops after 100 half clocks, the model goes on.
- *Top levels, tests, ROM images, vendored code*: no state of the system, or not
  the project's own.
- *Sequencer, scan doubler*: planned.

## 8. Plan

Done, in this order: BIU with its environment, abstract specifications and
invariant; board; timer; interrupts; CRT controller; V188 with microcode,
divider, harness and instruction set; the harness of the MCL86; the proofs above.

Next modules, most important first:

1. `Microcode`: the control flow graph of the microcode's calls and jumps
   against the four-deep call stack of `eu.v`, and its discipline in using the
   BIU (request held until done, released before the next, poll before pop, CS
   then jump), which `BiuSystem` assumes; then composed with `Biu`.
2. `ScanDoubler`: two line stores written at the pixel rate and read at twice it,
   exchanged by `line_reset`; property: the line shown is the last one stored,
   twice, and no store is read while it is written.
3. `CgaSequencer`: the slots of video RAM between pixels and CPU; with `Crtc6845`,
   that the byte latched for a pixel is the one addressed.
4. In `V188`: the arithmetic and shift groups with the 8-bit ALU, and the
   multipliers.
5. In `Biu`: the synchronisers of NMI and INTR (joining `Interrupts`) and the
   clock counter.

Next theorems: that a port read always returns what is not its device's byte
(`SampledByte` holds whatever IOM is, so `AnswerPath` can be restated for it);
where the bytes of a word across a 64K block go; of `ImplementsIsa`, the
routines one by one, as far as the prover gets through the microcode.
