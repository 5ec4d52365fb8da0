------------------------------ MODULE Pit8253 ------------------------------
(***************************************************************************)
(* The interval timer of i8253.v: a divider that gives one tick in Div     *)
(* clocks, and counters 0 and 2 behind ports 40 .. 43.                     *)
(*                                                                         *)
(* A counter acts on every clock its select is on, and the select is the   *)
(* strobe of the CPU's bus cycle: an access is modelled as the number of   *)
(* clocks its strobe lasts (Xt.WriteStrobeLength gives it for the board).  *)
(* A byte has Base values, a count Base * Base.                            *)
(***************************************************************************)
EXTENDS Integers

CONSTANTS
    Channels,     \* the counters there are, out of 0 and 2
    Base,         \* values of a byte, 256
    Div,          \* clocks in a tick, 24
    WriteHold,    \* clocks a write selects the counter for, 44 on the board
    ReadHold,     \* clocks a read selects it for, 15 on the board
    Commands,     \* commands the program writes: [rl, m], bits 5:4 and 3:1
    DataBytes     \* data bytes it writes

Range16 == Base * Base
Bit == 0 .. 1
Byte == 0 .. Base - 1
Count == 0 .. Range16 - 1

ASSUME PitAssumption ==
    /\ Channels \subseteq {0, 2}
    /\ Base \in Nat \ {0, 1} /\ Base % 2 = 0
    /\ {Div, WriteHold, ReadHold} \subseteq Nat \ {0}
    /\ Commands \subseteq [rl : 0 .. 3, m : 0 .. 7] /\ DataBytes \subseteq Byte

VARIABLES
    clk_div,
    cntr,         \* the registers of each counter
    access        \* the strobe that is on: [kind, ch, cmd, byte, left]

vars == <<clk_div, cntr, access>>

\* state is [filled, second]; mode is [out, null, rl, m], null its bit 6.
Counter == [count : Count, init : Count, filled : Bit, second : Bit,
            out : Bit, null : Bit, rl : 0 .. 3, m : 0 .. 7,
            strobe : Bit, rd : Bit, latch : Bit, newcmd : Bit]

NoAccess == [kind |-> "none", left |-> 0]

lo(x) == x % Base
hi(x) == x \div Base

\* dout: the high byte in MSB mode, and in LSB/MSB mode once rd is set.
dout(c) == IF c.rl = 2 \/ (c.rl = 3 /\ c.rd = 1) THEN hi(c.count) ELSE lo(c.count)

-----------------------------------------------------------------------------
(* Accesses, one clock of each. *)

\* Control word: a new mode, or (bits 5:4 clear) the latch command.
WriteCommand(c, cmd) ==
    IF cmd.rl # 0
    THEN [c EXCEPT !.null = 1, !.rd = 0, !.latch = 0, !.rl = cmd.rl,
                   !.m = cmd.m, !.newcmd = 1, !.filled = 0,
                   !.second = IF cmd.rl = 2 THEN 1 ELSE 0]
    ELSE [c EXCEPT !.null = 1, !.rd = 0, !.latch = IF c.rl = 3 THEN 1 ELSE 0]

\* state + ^mode[5:4] + 1, in two bits.
NextState_Pairs(c) == c.second + 1
NextState(c) == (c.second + (IF c.rl \in {1, 2} THEN 1 ELSE 0) + 1) % 4

WriteData(c, b) ==
    [c EXCEPT !.null = 1, !.rd = 0, !.latch = 0,
              !.filled = NextState(c) \div 2, !.second = NextState(c) % 2,
              !.init = IF c.second = 1 THEN b * Base + lo(c.init)
                       ELSE hi(c.init) * Base + b]

Read_Latches(c) == [c EXCEPT !.rd = 1 - c.rd, !.latch = 1 - c.rd]
Read(c) == [c EXCEPT !.rd = 1 - c.rd,
                     !.latch = IF c.rd = 1 THEN 0 ELSE c.latch]

-----------------------------------------------------------------------------
(* A tick, by mode. *)

\* The counters are 16 bits wide and wrap.
Minus(x, n) == (x - n) % Range16

TerminalCount_LoadCounts(c) ==
    IF c.null = 1
    THEN [c EXCEPT !.out = 0, !.null = 0, !.count = Minus(c.init, 1)]
    ELSE [c EXCEPT !.count = Minus(c.count, 1),
                   !.out = IF c.count = 1 THEN 1 ELSE c.out]
TerminalCount(c) ==
    IF c.null = 1
    THEN [c EXCEPT !.out = 0, !.null = 0, !.count = c.init]
    ELSE [c EXCEPT !.count = Minus(c.count, 1),
                   !.out = IF c.count = 1 THEN 1 ELSE c.out]

RateGenerator_Zero(c) ==
    LET d == [c EXCEPT !.out = IF c.count = 2 THEN 0 ELSE 1]
    IN  IF c.count = 0 \/ c.newcmd = 1
        THEN [d EXCEPT !.null = 0, !.count = c.init]
        ELSE [d EXCEPT !.count = Minus(c.count, 1)]
RateGenerator(c) ==
    LET d == [c EXCEPT !.out = IF c.count = 2 THEN 0 ELSE 1]
    IN  IF c.count = 1 \/ c.newcmd = 1
        THEN [d EXCEPT !.null = 0, !.count = c.init]
        ELSE [d EXCEPT !.count = Minus(c.count, 1)]

SquareWave_OddBoth(c) ==
    IF c.count \in {1, 2} \/ c.newcmd = 1
    THEN [c EXCEPT !.out = IF c.newcmd = 1 THEN 1 ELSE 1 - c.out,
                   !.null = 0, !.count = c.init]
    ELSE [c EXCEPT !.count = Minus(c.count, 2)]
\* Bit 0 of an odd count is kept for the high half only.
SquareWave(c) ==
    LET up == IF c.newcmd = 1 THEN 1 ELSE 1 - c.out
    IN  IF c.count \in {1, 2} \/ c.newcmd = 1
        THEN [c EXCEPT !.out = up, !.null = 0,
                       !.count = IF up = 1 THEN c.init ELSE 2 * (c.init \div 2)]
        ELSE [c EXCEPT !.count = Minus(c.count, 2)]

TriggeredStrobe(c) ==
    IF c.null = 1
    THEN [c EXCEPT !.out = 1, !.null = 0, !.count = c.init, !.strobe = 1]
    ELSE [c EXCEPT !.count = Minus(c.count, 1),
                   !.out = IF c.count # 1 THEN 1
                           ELSE IF c.strobe = 1 THEN 0 ELSE c.out,
                   !.strobe = IF c.count = 1 THEN 0 ELSE c.strobe]

Tick(c) ==
    [(CASE c.m \in {0, 1} -> TerminalCount(c)
        [] c.m \in {2, 6} -> RateGenerator(c)
        [] c.m \in {3, 7} -> SquareWave(c)
        [] c.m \in {4, 5} -> TriggeredStrobe(c)) EXCEPT !.newcmd = 0]

Ticks(c) == clk_div = 0 /\ c.filled = 1 /\ c.latch = 0

-----------------------------------------------------------------------------
(* mode has no initial value: whatever the build gives it. *)

Init ==
    /\ clk_div = 0 /\ access = NoAccess
    /\ \E rl \in 0 .. 3, m \in 0 .. 7, null \in Bit, out \in Bit :
         cntr = [ch \in Channels |->
                   [count |-> 0, init |-> 0, filled |-> 0, second |-> 0,
                    out |-> out, null |-> null, rl |-> rl, m |-> m,
                    strobe |-> 0, rd |-> 0, latch |-> 0, newcmd |-> 0]]

\* Another clock of the strobe that is on: the counter it selects acts, and
\* misses the tick if there is one.
Selected(ch) == access.kind # "none" /\ access.ch = ch
Act(c) == CASE access.kind = "command" -> WriteCommand(c, access.cmd)
            [] access.kind = "data"    -> WriteData(c, access.byte)
            [] access.kind = "read"    -> Read(c)
ClockOf(ch, c) ==
    IF Selected(ch) THEN Act(c) ELSE IF Ticks(c) THEN Tick(c) ELSE c

Strobe(kind, ch, cmd, byte, clocks) ==
    access' = [kind |-> kind, ch |-> ch, cmd |-> cmd, byte |-> byte,
               left |-> clocks]

\* The CPU's accesses: one strobe at a time, one clock apart at least.
LastClock == access.left = 1
NoCmd == [rl |-> 0, m |-> 0]
Cpu ==
    IF access.left > 1
    THEN access' = [access EXCEPT !.left = @ - 1]
    ELSE \/ access' = NoAccess
         \/ access.kind = "none" /\ \E ch \in Channels :
              \/ \E cmd \in Commands : Strobe("command", ch, cmd, 0, WriteHold)
              \/ \E b \in DataBytes  : Strobe("data", ch, NoCmd, b, WriteHold)
              \/ Strobe("read", ch, NoCmd, 0, ReadHold)

Next ==
    /\ clk_div' = IF clk_div = 0 THEN Div - 1 ELSE clk_div - 1
    /\ cntr' = [ch \in Channels |-> ClockOf(ch, cntr[ch])]
    /\ Cpu

Spec == Init /\ [][Next]_vars

=============================================================================
