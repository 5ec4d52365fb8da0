------------------------------ MODULE PitProofs ------------------------------
(***************************************************************************)
(* Proofs about the interval timer, for any width of a byte, any divider,  *)
(* any length of the strobes and any commands and data.                    *)
(***************************************************************************)
EXTENDS PitSystem, Remainders

(* Words of two bytes. *)

\* (Cited instead of the definition: the square of Base is a number like any
\* other to the counters.)
LEMMA Widths ==
    /\ Base \in Nat /\ Base >= 2 /\ Range16 \in Nat /\ Range16 >= 4
    /\ Range16 = Base * Base
  <1>1. Base \in Nat /\ Base >= 2
    BY PitAssumption
  <1>2. Base * Base \in Nat /\ Base * Base >= 2 * Base
    BY <1>1
  <1> QED BY <1>1, <1>2 DEF Range16

LEMMA Halves ==
    ASSUME NEW x \in Count
    PROVE  lo(x) \in Byte /\ hi(x) \in Byte /\ x = hi(x) * Base + lo(x)
  <1>1. x \in Nat /\ x < Base * Base /\ Base \in Nat \ {0}
    BY Widths DEF Count
  <1>2. x \div Base < Base
    BY <1>1, DivBelow
  <1>3. x % Base \in 0 .. Base - 1 /\ x \div Base \in Nat /\ x = Base * (x \div Base) + (x % Base)
    BY <1>1
  <1>4. x = (x \div Base) * Base + (x % Base)
    BY <1>1, <1>3
  <1> QED BY <1>1, <1>2, <1>3, <1>4 DEF lo, hi, Byte

LEMMA Joined ==
    ASSUME NEW h \in Byte, NEW l \in Byte
    PROVE  /\ h * Base + l \in Count
           /\ lo(h * Base + l) = l /\ hi(h * Base + l) = h
  <1>1. h \in Nat /\ l \in 0 .. Base - 1 /\ h <= Base - 1 /\ Base \in Nat \ {0}
    BY Widths DEF Byte
  <1>2. h * Base + l = Base * h + l
    BY <1>1
  <1>3. (Base * h + l) % Base = l /\ (Base * h + l) \div Base = h
    BY <1>1, ModUnique, DivUnique
  <1>4. Base * (Base - h) >= Base
    BY <1>1
  <1>5. Base * (Base - h) = Base * Base - Base * h
    BY <1>1
  <1>6. Base * h \in Nat
    BY <1>1
  <1>7. Base * h + l < Base * Base
    BY <1>1, <1>4, <1>5, <1>6
  <1>8. h * Base + l \in Count
    BY <1>2, <1>6, <1>7, <1>1, Widths DEF Count
  <1> QED BY <1>2, <1>3, <1>8 DEF lo, hi

-----------------------------------------------------------------------------
(* Types. *)

\* The registers of a counter that a step assigns to are of their widths.
LEMMA CommandTypes ==
    ASSUME NEW c \in Counter, NEW cmd \in Commands
    PROVE  WriteCommand(c, cmd) \in Counter
  <1>1. cmd.rl \in 0 .. 3 /\ cmd.m \in 0 .. 7 /\ 0 \in Bit /\ 1 \in Bit
    BY PitAssumption DEF Bit
  <1> QED BY <1>1 DEF WriteCommand, Counter

LEMMA DataTypes ==
    ASSUME NEW c \in Counter, NEW b \in Byte
    PROVE  WriteData(c, b) \in Counter
  <1>1. c.init \in Count /\ c.second \in Bit /\ 0 \in Bit /\ 1 \in Bit
    BY DEF Counter, Bit
  <1>2. (IF c.second = 1 THEN b * Base + lo(c.init) ELSE hi(c.init) * Base + b) \in Count
    BY <1>1, Halves, Joined
  <1>3. NextState(c) \div 2 \in Bit /\ NextState(c) % 2 \in Bit
    <2>1. NextState(c) \in 0 .. 3
      BY <1>1 DEF NextState, Bit
    <2> QED BY <2>1 DEF Bit
  <1> QED BY <1>1, <1>2, <1>3 DEF WriteData, Counter

LEMMA ReadTypes ==
    ASSUME NEW c \in Counter
    PROVE  Read(c) \in Counter
  <1>1. 0 \in Bit /\ 1 - c.rd \in Bit /\ c.latch \in Bit
    BY DEF Counter, Bit
  <1> QED BY <1>1 DEF Read, Counter

LEMMA MinusTypes ==
    ASSUME NEW x \in Count, NEW n \in 1 .. 2
    PROVE  Minus(x, n) \in Count /\ (x >= n => Minus(x, n) = x - n)
  <1>1. x \in Int /\ x >= 0 /\ x < Range16 /\ n \in {1, 2} /\ Range16 \in Nat /\ Range16 >= 4
    BY Widths DEF Count
  <1>2. (x - n) % Range16 \in 0 .. Range16 - 1
    BY <1>1
  <1>3. x >= n => (x - n) % Range16 = x - n
    BY <1>1
  <1> QED BY <1>2, <1>3 DEF Minus, Count

LEMMA TickTypes ==
    ASSUME NEW c \in Counter
    PROVE  Tick(c) \in Counter
  <1>1. /\ c.m \in 0 .. 7 /\ c.out \in Bit /\ c.strobe \in Bit /\ c.init \in Count
        /\ c.count \in Count /\ 0 \in Bit /\ 1 \in Bit /\ 1 - c.out \in Bit
    BY DEF Counter, Bit
  <1>2. Minus(c.count, 1) \in Count /\ Minus(c.count, 2) \in Count
    BY <1>1, MinusTypes
  <1>3. 2 * (c.init \div 2) \in Count
    BY <1>1, Widths DEF Count
  <1>4. TerminalCount(c) \in Counter
    BY <1>1, <1>2 DEF TerminalCount, Counter
  <1>5. RateGenerator(c) \in Counter
    BY <1>1, <1>2 DEF RateGenerator, Counter
  <1>6. SquareWave(c) \in Counter
    BY <1>1, <1>2, <1>3 DEF SquareWave, Counter
  <1>7. TriggeredStrobe(c) \in Counter
    BY <1>1, <1>2 DEF TriggeredStrobe, Counter
  <1>8. \A d \in Counter : [d EXCEPT !.newcmd = 0] \in Counter
    BY <1>1 DEF Counter
  <1> QED BY <1>1, <1>4, <1>5, <1>6, <1>7, <1>8 DEF Tick

\* The strobe that is on is of an access the CPU makes.
Accesses ==
    /\ access.kind \in {"none", "command", "data", "read"}
    /\ access.left \in Nat
    /\ access.kind # "none" =>
         /\ DOMAIN access = {"kind", "ch", "cmd", "byte", "left"}
         /\ access.ch \in Channels /\ access.left >= 1
         /\ access.kind = "command" => access.cmd \in Commands
         /\ access.kind = "data" => access.byte \in Byte
         /\ access.kind = "read" => access.left <= ReadHold
         /\ access.kind # "read" => access.left <= WriteHold
    /\ access.kind = "none" => access.left = 0

\* What the CPU does in a clock, field by field.
LEMMA CpuSteps ==
    ASSUME Accesses, Cpu
    PROVE  /\ Accesses'
           /\ access.left > 1 => /\ access'.left = access.left - 1
                                /\ access'.kind = access.kind /\ access'.ch = access.ch
                                /\ access'.cmd = access.cmd /\ access'.byte = access.byte
           /\ access.left <= 1 /\ access.kind # "none" => access' = NoAccess
  <1>1. {WriteHold, ReadHold} \subseteq Nat \ {0} /\ DataBytes \subseteq Byte
    BY PitAssumption
  <1>2. CASE access.left > 1
    <2>1. access' = [access EXCEPT !.left = @ - 1] /\ access.kind # "none"
      BY <1>2 DEF Cpu, Accesses
    <2>2. DOMAIN access = {"kind", "ch", "cmd", "byte", "left"}
      BY <2>1 DEF Accesses
    <2>3. /\ access'.left = access.left - 1 /\ DOMAIN access' = DOMAIN access
          /\ access'.kind = access.kind /\ access'.ch = access.ch
          /\ access'.cmd = access.cmd /\ access'.byte = access.byte
      BY <2>1, <2>2
    <2>4. Accesses'
      <3>1. /\ access.left \in Nat /\ WriteHold \in Nat /\ ReadHold \in Nat
            /\ access.kind \in {"command", "data", "read"} /\ access.ch \in Channels
            /\ access.kind = "command" => access.cmd \in Commands
            /\ access.kind = "data" => access.byte \in Byte
            /\ access.kind = "read" => access.left <= ReadHold
            /\ access.kind # "read" => access.left <= WriteHold
        BY <1>1, <2>1 DEF Accesses
      <3>2. access'.left \in Nat /\ access'.left >= 1
        BY <1>2, <2>3, <3>1
      <3>3. /\ access'.kind = "read" => access'.left <= ReadHold
            /\ access'.kind # "read" => access'.left <= WriteHold
        BY <1>2, <2>3, <3>1
      <3>4. /\ access'.kind \in {"none", "command", "data", "read"}
            /\ access'.kind # "none" /\ access'.ch \in Channels
            /\ DOMAIN access' = {"kind", "ch", "cmd", "byte", "left"}
            /\ access'.kind = "command" => access'.cmd \in Commands
            /\ access'.kind = "data" => access'.byte \in Byte
        BY <2>2, <2>3, <3>1
      <3> QED BY <3>2, <3>3, <3>4 DEF Accesses
    <2>5. access.left \in Nat
      BY DEF Accesses
    <2> QED BY <1>2, <2>3, <2>4, <2>5
  <1>3. CASE access.left <= 1 /\ access' = NoAccess
    BY <1>3 DEF Accesses, NoAccess
  <1>4. CASE access.left <= 1 /\ access' # NoAccess
    <2>1. access.kind = "none" /\ \E ch \in Channels :
              \/ \E cmd \in Commands : Strobe("command", ch, cmd, 0, WriteHold)
              \/ \E b \in DataBytes  : Strobe("data", ch, NoCmd, b, WriteHold)
              \/ Strobe("read", ch, NoCmd, 0, ReadHold)
      BY <1>4 DEF Cpu, Accesses
    <2> QED BY <1>1, <1>4, <2>1 DEF Accesses, Strobe
  <1> QED BY <1>2, <1>3, <1>4 DEF Accesses

\* A counter in a clock: an access, a tick or nothing.
LEMMA ClockTypes ==
    ASSUME Accesses, NEW ch \in Channels, NEW c \in Counter
    PROVE  ClockOf(ch, c) \in Counter
  <1>1. Selected(ch) => Act(c) \in Counter
    BY CommandTypes, DataTypes, ReadTypes DEF Selected, Accesses, Act
  <1> QED BY <1>1, TickTypes DEF ClockOf

PitTypes == clk_div \in 0 .. Div - 1 /\ cntr \in [Channels -> Counter] /\ Accesses

LEMMA InitialTypes == Init => PitTypes
  <1> SUFFICES ASSUME Init PROVE PitTypes
    OBVIOUS
  <1>1. Div \in Nat \ {0} /\ 0 \in Bit /\ 0 \in Count
    BY PitAssumption, Widths DEF Bit, Count
  <1>2. cntr \in [Channels -> Counter]
    BY <1>1 DEF Init, Counter
  <1>3. Accesses
    BY DEF Init, NoAccess, Accesses
  <1> QED BY <1>1, <1>2, <1>3 DEF Init, PitTypes

LEMMA TypesKept == PitTypes /\ [Next]_vars => PitTypes'
  <1> SUFFICES ASSUME PitTypes, [Next]_vars PROVE PitTypes'
    OBVIOUS
  <1>1. CASE Next
    <2>1. clk_div' \in 0 .. Div - 1
      <3>1. Div \in Nat \ {0}
        BY PitAssumption
      <3> QED BY <1>1, <3>1 DEF Next, PitTypes
    <2>2. cntr' \in [Channels -> Counter]
      <3>1. \A ch \in Channels : ClockOf(ch, cntr[ch]) \in Counter
        BY ClockTypes DEF PitTypes
      <3> QED BY <1>1, <3>1 DEF Next
    <2>3. Accesses'
      BY <1>1, CpuSteps DEF Next, PitTypes
    <2> QED BY <2>1, <2>2, <2>3 DEF PitTypes
  <1>2. CASE UNCHANGED vars
    BY <1>2 DEF vars, PitTypes, Accesses
  <1> QED BY <1>1, <1>2

\* Every register of the timer keeps to its width, whatever is written to it.
THEOREM TimerIsTyped == Spec => []PitTypes
  BY InitialTypes, TypesKept, PTL DEF Spec

-----------------------------------------------------------------------------
(* What a program reads and what it has written. *)

\* What a tick and an access leave of a counter.
LEMMA TickKeeps ==
    ASSUME NEW c \in Counter
    PROVE  /\ Tick(c).rl = c.rl /\ Tick(c).m = c.m /\ Tick(c).init = c.init
           /\ Tick(c).filled = c.filled /\ Tick(c).second = c.second
           /\ Tick(c).rd = c.rd /\ Tick(c).latch = c.latch
  <1>1. \A d \in Counter : DOMAIN d = {"count", "init", "filled", "second", "out",
                                       "null", "rl", "m", "strobe", "rd", "latch", "newcmd"}
    BY DEF Counter
  <1> DEFINE Keeps(d) == /\ d.rl = c.rl /\ d.m = c.m /\ d.init = c.init
                         /\ d.filled = c.filled /\ d.second = c.second
                         /\ d.rd = c.rd /\ d.latch = c.latch
                         /\ DOMAIN d = DOMAIN c
  <1>2. Keeps(TerminalCount(c))
    BY <1>1 DEF TerminalCount
  <1>3. Keeps(RateGenerator(c))
    BY <1>1 DEF RateGenerator
  <1>4. Keeps(SquareWave(c))
    BY <1>1 DEF SquareWave
  <1>5. Keeps(TriggeredStrobe(c))
    BY <1>1 DEF TriggeredStrobe
  <1>6. \A d : Keeps(d) => Keeps([d EXCEPT !.newcmd = 0])
    OBVIOUS
  <1>7. c.m \in 0 .. 7
    BY DEF Counter
  <1> HIDE DEF Keeps
  <1>8. Keeps(Tick(c))
    BY <1>2, <1>3, <1>4, <1>5, <1>6, <1>7 DEF Tick
  <1> QED BY <1>8 DEF Keeps

LEMMA UpToIs ==
    ASSUME NEW max \in Nat, NEW n \in 0 .. max
    PROVE  /\ UpTo(n, max) \in 0 .. max
           /\ UpTo(n, max) = IF n = max THEN n ELSE n + 1
  <1> DEFINE m == IF n = max THEN n ELSE n + 1
             S == {n + 1, max}
  <1>1. m \in S /\ \A y \in S : m <= y
    OBVIOUS
  <1>2. \A x \in S : (\A y \in S : x <= y) => x = m
    OBVIOUS
  <1>3. UpTo(n, max) = CHOOSE x \in S : \A y \in S : x <= y
    BY DEF UpTo, Min
  <1> QED BY <1>1, <1>2, <1>3

TickCount == 0 .. MaxTicks
EdgeCount == 0 .. 3
LostCount == 0 .. MaxLost

\* How many ticks the history can have missed: those of three reads at most.
LEMMA ReadTicks ==
    /\ TicksIn(ReadHold) \in Nat \ {0} /\ MaxLost \in Nat
    /\ MaxLost = 2 * TicksIn(ReadHold) + 1
  <1>1. Div \in Nat \ {0} /\ ReadHold \in Nat \ {0}
    BY PitAssumption
  <1>2. ReadHold + Div - 1 \in Nat /\ ReadHold + Div - 1 >= Div
    BY <1>1
  <1>3. \A x \in Nat : x >= Div => x \div Div \in Nat \ {0}
    BY <1>1
  <1>4. TicksIn(ReadHold) \in Nat \ {0}
    BY <1>2, <1>3 DEF TicksIn
  <1> QED BY <1>4 DEF MaxLost

\* The counters of the history, which stop at their bounds.
LEMMA Counters ==
    /\ 0 \in TickCount /\ 0 \in EdgeCount /\ 0 \in LostCount
    /\ \A n \in TickCount : /\ UpTo(n, MaxTicks) \in TickCount
                           /\ UpTo(n, MaxTicks) = IF n = MaxTicks THEN n ELSE n + 1
    /\ \A n \in EdgeCount : /\ UpTo(n, 3) \in EdgeCount
                           /\ UpTo(n, 3) = IF n = 3 THEN n ELSE n + 1
    /\ \A n \in LostCount : /\ UpTo(n, MaxLost) \in LostCount
                           /\ UpTo(n, MaxLost) <= n + 1
  <1>1. MaxTicks \in Nat /\ 3 \in Nat /\ MaxLost \in Nat
    BY Widths, ReadTicks DEF MaxTicks
  <1> QED BY <1>1, UpToIs DEF TickCount, EdgeCount, LostCount

HistFields == {"since", "written", "edges", "reads", "lost", "bytes", "last"}
IsHistory(h) == /\ DOMAIN h = HistFields /\ h.bytes \in -1 .. 2 /\ h.reads \in 0 .. 3
                /\ h.written \in TickCount /\ h.since \in TickCount
                /\ h.edges \in EdgeCount /\ h.lost \in LostCount

\* In a one-byte mode every byte written goes to the same half of init, also
\* while its strobe goes on.
Half(c, b) == /\ c.rl = 1 => c.filled = 1 /\ lo(c.init) = b
              /\ c.rl = 2 => c.filled = 1 /\ hi(c.init) = b
OneHalf(c) == c.rl # 0 /\ (c.rl = 1 => c.second = 0) /\ (c.rl = 2 => c.second = 1)
Writing(ch) == Selected(ch) /\ access.kind = "data"
Programmed(ch, c, h) ==
    h.bytes >= 0 => OneHalf(c) /\ (h.bytes > 0 /\ ~Writing(ch) => Half(c, h.last))

LEMMA ByteWritten ==
    ASSUME NEW c \in Counter, NEW b \in Byte, OneHalf(c)
    PROVE  OneHalf(WriteData(c, b)) /\ Half(WriteData(c, b), b)
  <1> DEFINE d == WriteData(c, b)
  <1>1. c.init \in Count /\ c.second \in 0 .. 1 /\ c.rl \in 0 .. 3
    BY DEF Counter, Bit
  <1>2. d.rl = c.rl
    BY DEF WriteData, Counter
  <1>3. d.filled = NextState(c) \div 2 /\ d.second = NextState(c) % 2
    BY DEF WriteData, Counter
  <1>4. d.init = IF c.second = 1 THEN b * Base + lo(c.init) ELSE hi(c.init) * Base + b
    BY DEF WriteData, Counter
  <1>5. CASE c.rl = 1
    <2>1. c.second = 0 /\ NextState(c) = 2
      BY <1>5 DEF OneHalf, NextState
    <2>2. lo(d.init) = b
      BY <1>1, <1>4, <2>1, Halves, Joined
    <2>3. d.filled = 1 /\ d.second = 0
      BY <1>3, <2>1
    <2> QED BY <1>2, <1>5, <2>2, <2>3 DEF OneHalf, Half
  <1>6. CASE c.rl = 2
    <2>1. c.second = 1 /\ NextState(c) = 3
      BY <1>6 DEF OneHalf, NextState
    <2>2. hi(d.init) = b
      BY <1>1, <1>4, <2>1, Halves, Joined
    <2>3. d.filled = 1 /\ d.second = 1
      BY <1>3, <2>1
    <2> QED BY <1>2, <1>6, <2>2, <2>3 DEF OneHalf, Half
  <1>7. CASE c.rl \notin {1, 2}
    BY <1>2, <1>7 DEF OneHalf, Half
  <1> QED BY <1>5, <1>6, <1>7

\* A clock in which a counter counts no tick, a latch command and a write, field
\* by field.
LEMMA HistorySteps ==
    ASSUME NEW h, IsHistory(h)
    PROVE  /\ DOMAIN Missed(h) = HistFields /\ DOMAIN Commanded(h) = HistFields
           /\ DOMAIN Written(h) = HistFields
           /\ \A g \in {Missed(h), Commanded(h), Written(h)} :
                g.bytes = h.bytes /\ g.last = h.last /\ g.since = h.since
           /\ Missed(h).written = h.written /\ Missed(h).edges = h.edges
           /\ Missed(h).reads = h.reads /\ Missed(h).lost \in LostCount
           /\ Missed(h).lost = IF clk_div = 0 /\ h.reads < 3 THEN UpTo(h.lost, MaxLost)
                               ELSE h.lost
           /\ \A g \in {Commanded(h), Written(h)} : g.written = 0 /\ g.reads = 3 /\ g.lost = 0
           /\ Commanded(h).edges = h.edges /\ Written(h).edges = 0
           /\ IsHistory(Missed(h)) /\ IsHistory(Commanded(h)) /\ IsHistory(Written(h))
  <1>1. /\ DOMAIN Missed(h) = HistFields /\ Missed(h).lost \in LostCount
        /\ Missed(h).bytes = h.bytes /\ Missed(h).last = h.last /\ Missed(h).since = h.since
        /\ Missed(h).written = h.written /\ Missed(h).edges = h.edges
        /\ Missed(h).reads = h.reads
        /\ Missed(h).lost = IF clk_div = 0 /\ h.reads < 3 THEN UpTo(h.lost, MaxLost) ELSE h.lost
    BY Counters DEF Missed, IsHistory, HistFields
  <1>2. LET g == Commanded(h)
        IN  /\ DOMAIN g = HistFields /\ g.written = 0 /\ g.reads = 3 /\ g.lost = 0
            /\ g.bytes = h.bytes /\ g.last = h.last /\ g.since = h.since
            /\ g.edges = h.edges
    BY DEF Commanded, IsHistory, HistFields
  <1>3. LET g == Written(h)
        IN  /\ DOMAIN g = HistFields /\ g.written = 0 /\ g.reads = 3 /\ g.lost = 0
            /\ g.bytes = h.bytes /\ g.last = h.last /\ g.since = h.since
            /\ g.edges = 0
    BY <1>2 DEF Written, HistFields
  <1>4. IsHistory(Missed(h))
    BY <1>1 DEF IsHistory
  <1>5. IsHistory(Commanded(h)) /\ IsHistory(Written(h))
    BY <1>2, <1>3, Counters DEF IsHistory
  <1> QED BY <1>1, <1>2, <1>3, <1>4, <1>5

\* The history after a clock, field by field.
LEMMA HistoryClock ==
    ASSUME Accesses, NEW ch \in Channels, NEW c, NEW h, IsHistory(h),
           NEW g, g = Track(ch, c, h)
    PROVE  /\ IsHistory(g)
           /\ ~Selected(ch) \/ access.kind = "read" => g.bytes = h.bytes /\ g.last = h.last
           /\ Selected(ch) /\ access.kind = "command" =>
                /\ g.reads = 3
                /\ access.cmd.rl # 0 => g.bytes = 0
                /\ access.cmd.rl = 0 => g.bytes = h.bytes /\ g.last = h.last
           /\ Writing(ch) =>
                /\ g.reads = 3
                /\ h.bytes = -1 => g.bytes = -1
                /\ h.bytes >= 0 /\ LastClock => g.bytes >= 0 /\ g.last = access.byte
                /\ ~LastClock => g.bytes = h.bytes
  <1> DEFINE w == Written(h)
  <1>a. IsHistory(Missed(h)) /\ Missed(h).bytes = h.bytes /\ Missed(h).last = h.last
        /\ Missed(h).reads = h.reads
    BY HistorySteps
  <1>b. /\ IsHistory(Commanded(h)) /\ Commanded(h).bytes = h.bytes
        /\ Commanded(h).last = h.last /\ Commanded(h).reads = 3
    BY HistorySteps
  <1>c. IsHistory(w) /\ w.bytes = h.bytes /\ w.reads = 3
    BY HistorySteps
  <1> HIDE DEF w
  <1>1. CASE ~Selected(ch) /\ Ticks(c)
    BY <1>1, Counters DEF Track, AfterTick, IsHistory, HistFields, Writing
  <1>2. CASE ~Selected(ch) /\ ~Ticks(c)
    BY <1>2, <1>a DEF Track, Writing
  <1>3. CASE Selected(ch) /\ access.kind = "read"
    <2>1. g = AfterRead(h) /\ ~Writing(ch)
      BY <1>3 DEF Track, Writing
    <2>2. CASE ~LastClock
      BY <1>3, <1>a, <2>1, <2>2 DEF AfterRead
    <2>3. CASE LastClock /\ h.reads < 2
      BY <1>3, <1>a, <2>1, <2>3 DEF AfterRead, IsHistory, HistFields
    <2>4. CASE LastClock /\ ~(h.reads < 2)
      BY <1>3, <2>1, <2>4, Counters DEF AfterRead, IsHistory, HistFields
    <2> QED BY <2>2, <2>3, <2>4
  <1>4. CASE Selected(ch) /\ access.kind = "command"
    <2>1. g = AfterCommand(h) /\ ~Writing(ch)
      BY <1>4 DEF Track, Writing
    <2>2. CASE access.cmd.rl # 0
      <3>1. g = [w EXCEPT !.bytes = 0, !.last = 0]
        BY <2>1, <2>2 DEF AfterCommand, w
      <3>2. g.bytes = 0 /\ g.reads = 3 /\ IsHistory(g)
        BY <1>c, <3>1 DEF IsHistory, HistFields
      <3> QED BY <1>4, <2>1, <2>2, <3>2
    <2>3. CASE access.cmd.rl = 0
      <3>1. g = Commanded(h)
        BY <2>1, <2>3 DEF AfterCommand
      <3> QED BY <1>4, <1>b, <2>1, <2>3, <3>1
    <2> QED BY <2>2, <2>3
  <1>5. CASE Writing(ch)
    <2>1. g = AfterByte(h) /\ Selected(ch) /\ access.kind = "data"
      BY <1>5 DEF Track, Writing
    <2>2. CASE ~LastClock \/ h.bytes = -1
      <3>1. g = w
        BY <2>1, <2>2 DEF AfterByte, w
      <3> QED BY <1>5, <1>c, <2>1, <2>2, <3>1
    <2>3. CASE LastClock /\ h.bytes # -1
      <3>1. g = [w EXCEPT !.last = access.byte,
                          !.bytes = IF @ = 2 THEN 1 ELSE @ + 1]
        BY <2>1, <2>3 DEF AfterByte, w
      <3>2. h.bytes \in 0 .. 2
        BY <2>3 DEF IsHistory
      <3>3. /\ g.bytes \in 1 .. 2 /\ g.last = access.byte /\ g.reads = 3
            /\ IsHistory(g)
        BY <1>c, <3>1, <3>2 DEF IsHistory, HistFields
      <3> QED BY <1>5, <2>1, <2>3, <3>3
    <2> QED BY <2>2, <2>3
  <1> QED BY <1>1, <1>2, <1>3, <1>4, <1>5 DEF Selected, Accesses, Writing

LEMMA ProgrammedClock ==
    ASSUME Accesses, Cpu, NEW ch \in Channels, NEW c \in Counter, NEW h,
           IsHistory(h), Programmed(ch, c, h),
           NEW d, d = ClockOf(ch, c), NEW g, g = Track(ch, c, h)
    PROVE  g.bytes >= 0 => OneHalf(d) /\ (g.bytes > 0 /\ ~Writing(ch)' => Half(d, g.last))
  <1>1. IsHistory(h) /\ IsHistory(g) /\ h.bytes \in -1 .. 2 /\ g.bytes \in -1 .. 2
    BY HistoryClock DEF IsHistory
  <1>2. CASE ~Selected(ch)
    <2>1. g.bytes = h.bytes /\ g.last = h.last
      BY <1>2, HistoryClock
    <2>2. d.rl = c.rl /\ d.init = c.init /\ d.filled = c.filled /\ d.second = c.second
      BY <1>2, TickKeeps DEF ClockOf
    <2>3. ~Writing(ch)
      BY <1>2 DEF Writing
    <2> QED BY <2>1, <2>2, <2>3 DEF Programmed, OneHalf, Half
  <1>3. CASE Selected(ch) /\ access.kind = "read"
    <2>1. g.bytes = h.bytes /\ g.last = h.last
      BY <1>3, HistoryClock
    <2>2. d = Read(c)
      BY <1>3 DEF ClockOf, Act
    <2>3. d.rl = c.rl /\ d.init = c.init /\ d.filled = c.filled /\ d.second = c.second
      BY <2>2 DEF Read, Counter
    <2>4. ~Writing(ch)
      BY <1>3 DEF Writing
    <2> QED BY <2>1, <2>3, <2>4 DEF Programmed, OneHalf, Half
  <1>4. CASE Selected(ch) /\ access.kind = "command"
    <2>1. d = WriteCommand(c, access.cmd) /\ ~Writing(ch)
      BY <1>4 DEF ClockOf, Act, Writing
    <2>2. CASE access.cmd.rl = 0
      <3>1. g.bytes = h.bytes /\ g.last = h.last
        BY <1>4, <2>2, HistoryClock
      <3>2. d.rl = c.rl /\ d.init = c.init /\ d.filled = c.filled /\ d.second = c.second
        BY <2>1, <2>2 DEF WriteCommand, Counter
      <3> QED BY <2>1, <3>1, <3>2 DEF Programmed, OneHalf, Half
    <2>3. CASE access.cmd.rl # 0
      <3>1. g.bytes = 0
        BY <1>4, <2>3, HistoryClock
      <3>2. OneHalf(d)
        BY <2>1, <2>3 DEF WriteCommand, Counter, OneHalf
      <3> QED BY <3>1, <3>2
    <2> QED BY <2>2, <2>3
  <1>5. CASE Writing(ch)
    <2>1. d = WriteData(c, access.byte) /\ access.byte \in Byte
      BY <1>5 DEF ClockOf, Act, Writing, Selected, Accesses
    <2>2. h.bytes = -1 => g.bytes = -1
      BY <1>5, HistoryClock
    <2>3. h.bytes >= 0 => OneHalf(d) /\ Half(d, access.byte)
      BY <2>1, ByteWritten DEF Programmed
    <2>4. LastClock /\ h.bytes >= 0 => g.last = access.byte
      BY <1>5, HistoryClock
    <2>5. ~LastClock => Writing(ch)'
      <3>1. SUFFICES ASSUME ~LastClock PROVE Writing(ch)'
        OBVIOUS
      <3>2. access.left > 1 /\ access.kind = "data" /\ access.ch = ch
        BY <1>5, <3>1 DEF Writing, Selected, Accesses, LastClock
      <3>3. access'.kind = "data" /\ access'.ch = ch
        BY <3>2, CpuSteps
      <3> QED BY <3>3 DEF Writing, Selected
    <2> QED BY <1>1, <2>2, <2>3, <2>4, <2>5
  <1> QED BY <1>2, <1>3, <1>4, <1>5 DEF Selected, Accesses, Writing

\* The invariants of the timer and its history together.
PitInv ==
    /\ PitTypes
    /\ hist = [ch \in Channels |-> hist[ch]]
    /\ \A ch \in Channels : IsHistory(hist[ch]) /\ Programmed(ch, cntr[ch], hist[ch])

LEMMA PitStarts == PitInit => PitInv
  <1> SUFFICES ASSUME PitInit PROVE PitInv
    OBVIOUS
  <1>1. PitTypes /\ hist = [ch \in Channels |-> NewHistory]
    BY InitialTypes DEF PitInit
  <1>2. IsHistory(NewHistory) /\ NewHistory.bytes = -1
    BY Counters DEF NewHistory, IsHistory, HistFields
  <1> QED BY <1>1, <1>2 DEF PitInv, Programmed

LEMMA PitSteps == PitInv /\ [PitNext]_pitVars => PitInv'
  <1> SUFFICES ASSUME PitInv, [PitNext]_pitVars PROVE PitInv'
    OBVIOUS
  <1>1. PitTypes'
    BY TypesKept DEF PitInv, PitNext, pitVars
  <1>2. CASE PitNext
    <2>1. /\ Accesses /\ Cpu
          /\ cntr' = [ch \in Channels |-> ClockOf(ch, cntr[ch])]
          /\ hist' = [ch \in Channels |-> Track(ch, cntr[ch], hist[ch])]
          /\ cntr \in [Channels -> Counter]
      BY <1>2 DEF PitNext, Next, PitInv, PitTypes
    <2>2. ASSUME NEW ch \in Channels
          PROVE  IsHistory(hist[ch])' /\ Programmed(ch, cntr[ch], hist[ch])'
      <3>1. /\ hist'[ch] = Track(ch, cntr[ch], hist[ch]) /\ cntr'[ch] = ClockOf(ch, cntr[ch])
            /\ cntr[ch] \in Counter /\ IsHistory(hist[ch]) /\ Programmed(ch, cntr[ch], hist[ch])
        BY <2>1 DEF PitInv
      <3>2. IsHistory(hist'[ch])
        BY <2>1, <3>1, HistoryClock
      <3>3. hist'[ch].bytes >= 0 =>
              /\ OneHalf(cntr'[ch])
              /\ hist'[ch].bytes > 0 /\ ~Writing(ch)' => Half(cntr'[ch], hist'[ch].last)
        BY <2>1, <3>1, ProgrammedClock
      <3> QED BY <3>2, <3>3 DEF Programmed, IsHistory, OneHalf, Half
    <2> QED BY <1>1, <2>1, <2>2 DEF PitInv
  <1>3. CASE UNCHANGED pitVars
    BY <1>1, <1>3 DEF pitVars, vars, PitInv, Programmed, IsHistory, OneHalf, Half, Writing, Selected
  <1> QED BY <1>2, <1>3

\* A one-byte counter counts from the byte the program wrote last, however
\* many clocks the strobe of the write lasts: every one of them writes it.
THEOREM BytesAreProgrammed == PitSpec => []ByteIsProgrammed
  <1>1. PitInv => ByteIsProgrammed
    BY DEF PitInv, ByteIsProgrammed, Programmed, Half, Writing, Selected, IsHistory
  <1> QED BY <1>1, PitSteps, PitStarts, PTL DEF PitSpec

-----------------------------------------------------------------------------
(* The one-shot modes. *)

\* Since the counter was last written to, w ticks ago: it has not been loaded
\* yet, or it has Asked - w ticks to go, or its edge has been.
Counting(c, h) ==
    /\ h.written >= 1
    /\ h.written = 1 => c.count = c.init
    /\ h.written > 1 /\ h.written <= Asked(c) => c.count = Asked(c) - h.written + 1
    /\ c.m \in {0, 1} => /\ h.written <= Asked(c) => c.out = 0
                         /\ h.written > Asked(c) => c.out = 1
    /\ c.m \in {4, 5} => /\ h.written <= Asked(c) => c.strobe = 1
                         /\ h.written > Asked(c) => c.strobe = 0
                         /\ c.out = 0 => h.written > Asked(c) /\ h.since = 0 /\ c.count = 0
Shot(c, h) ==
    c.filled = 1 /\ OneShot(c) =>
      (c.null = 1 => h.written = 0) /\ (c.null = 0 => Counting(c, h))
AllShot == \A ch \in Channels : Shot(cntr[ch], hist[ch])

LEMMA AskedIs ==
    ASSUME NEW c \in Counter
    PROVE  /\ Asked(c) \in 1 .. Range16 /\ (c.init > 0 => Asked(c) = c.init)
           /\ (c.init = 0 => Asked(c) = Range16) /\ MaxTicks \in Nat /\ MaxTicks = Range16 + 1
  <1>1. c.init \in Int /\ c.init >= 0 /\ c.init < Range16 /\ Range16 \in Nat /\ Range16 >= 4
    BY Widths DEF Counter, Count
  <1> QED BY <1>1 DEF Asked, MaxTicks

\* A tick of a one-shot counter, field by field.
LEMMA ShotTick ==
    ASSUME NEW c \in Counter, OneShot(c)
    PROVE  LET d == Tick(c)
           IN  /\ d.filled = c.filled /\ d.init = c.init /\ d.m = c.m /\ d.null = 0
               /\ c.null = 1 => /\ d.count = c.init
                                /\ c.m \in {0, 1} => d.out = 0
                                /\ c.m \in {4, 5} => d.out = 1 /\ d.strobe = 1
               /\ c.null = 0 =>
                    /\ d.count = Minus(c.count, 1)
                    /\ c.m \in {0, 1} => d.out = IF c.count = 1 THEN 1 ELSE c.out
                    /\ c.m \in {4, 5} =>
                         /\ d.out = IF c.count # 1 THEN 1
                                    ELSE IF c.strobe = 1 THEN 0 ELSE c.out
                         /\ d.strobe = IF c.count = 1 THEN 0 ELSE c.strobe
  <1>1. DOMAIN c = {"count", "init", "filled", "second", "out", "null", "rl", "m",
                    "strobe", "rd", "latch", "newcmd"} /\ c.null \in 0 .. 1
    BY DEF Counter, Bit
  <1>2. CASE c.m \in {0, 1}
    <2>1. Tick(c) = [TerminalCount(c) EXCEPT !.newcmd = 0]
      BY <1>2 DEF Tick
    <2> QED BY <1>1, <1>2, <2>1 DEF TerminalCount
  <1>3. CASE c.m \in {4, 5}
    <2>1. Tick(c) = [TriggeredStrobe(c) EXCEPT !.newcmd = 0]
      BY <1>3 DEF Tick
    <2> QED BY <1>1, <1>3, <2>1 DEF TriggeredStrobe
  <1> QED BY <1>2, <1>3 DEF OneShot

LEMMA TickIsShot ==
    ASSUME NEW c \in Counter, NEW h, IsHistory(h), Shot(c, h), c.filled = 1, OneShot(c),
           NEW d, d = Tick(c), NEW g, g = AfterTick(c, h)
    PROVE  Shot(d, g)
  <1>1. /\ g.written = IF h.written = MaxTicks THEN h.written ELSE h.written + 1
        /\ d.out # c.out => g.since = 0
    BY Counters DEF AfterTick, IsHistory, HistFields
  <1>2. PICK w \in Nat : w = h.written /\ w <= Range16 + 1 /\ MaxTicks = Range16 + 1
    BY Widths DEF IsHistory, TickCount, MaxTicks
  <1>3. Range16 \in Nat /\ Range16 >= 4
    BY Widths
  <1>4. PICK x \in Nat, n \in Nat : /\ x = c.count /\ x < Range16
                                  /\ n = c.init /\ n < Range16
    BY <1>3 DEF Counter, Count
  <1>5. c.null \in 0 .. 1 /\ c.out \in 0 .. 1 /\ c.m \in {0, 1, 4, 5}
    BY DEF Counter, Bit, OneShot
  <1>6. d.filled = 1 /\ d.init = n /\ d.m = c.m /\ d.null = 0
    BY <1>4, ShotTick
  <1>7. PICK a \in 1 .. Range16 : /\ a = Asked(c) /\ a = Asked(d)
                                /\ (n > 0 => a = n) /\ (n = 0 => a = Range16)
    BY <1>3, <1>4, <1>6, AskedIs DEF Asked
  <1>8. Minus(x, 1) = IF x = 0 THEN Range16 - 1 ELSE x - 1
    <2>1. CASE x = 0
      BY <1>3, <2>1 DEF Minus
    <2>2. CASE x > 0
      BY <1>3, <1>4, <2>2, MinusTypes DEF Count
    <2> QED BY <1>4, <2>1, <2>2
  <1>9. CASE c.null = 1
    <2>1. w = 0
      BY <1>2, <1>9 DEF Shot
    <2>2. g.written = 1 /\ d.count = c.init /\ (c.m \in {0, 1} => d.out = 0)
          /\ (c.m \in {4, 5} => d.out = 1 /\ d.strobe = 1)
      BY <1>1, <1>2, <1>3, <1>9, <2>1, ShotTick
    <2>3. Counting(d, g)
      BY <1>4, <1>6, <1>7, <2>2 DEF Counting
    <2> QED BY <1>6, <2>3 DEF Shot
  <1>10. CASE c.null = 0
    <2> DEFINE once == c.m \in {0, 1}
               strobed == c.m \in {4, 5}
    <2>1. Counting(c, h)
      BY <1>10 DEF Shot
    <2>2. /\ w >= 1 /\ (w = 1 => x = n) /\ (w > 1 /\ w <= a => x = a - w + 1)
          /\ once => (w <= a => c.out = 0) /\ (w > a => c.out = 1)
          /\ strobed => /\ (w <= a => c.strobe = 1) /\ (w > a => c.strobe = 0)
                        /\ c.out = 0 => w > a /\ x = 0
      BY <2>1, <1>2, <1>4, <1>7 DEF Counting
    <2>3. /\ d.count = Minus(x, 1)
          /\ once => (x = 1 => d.out = 1) /\ (x # 1 => d.out = c.out)
          /\ strobed => /\ x # 1 => d.out = 1 /\ d.strobe = c.strobe
                        /\ x = 1 => d.strobe = 0
                        /\ x = 1 /\ c.strobe = 1 => d.out = 0
                        /\ x = 1 /\ c.strobe # 1 => d.out = c.out
      BY <1>4, <1>10, ShotTick
    <2>4. g.written = IF w = Range16 + 1 THEN w ELSE w + 1
      BY <1>1, <1>2
    <2>5. d.filled = 1 /\ d.null = 0 /\ d.m = c.m
      BY <1>6
    <2> HIDE DEF once, strobed
    <2>6. CASE w < a
      <3>1. g.written = w + 1 /\ w + 1 <= a /\ x # 1 /\ d.count = a - (w + 1) + 1
        BY <1>3, <1>4, <1>7, <1>8, <2>2, <2>3, <2>4, <2>6
      <3>2. (once => d.out = 0) /\ (strobed => d.out = 1 /\ d.strobe = 1)
        BY <1>7, <2>2, <2>3, <2>6, <3>1
      <3>3. Counting(d, g)
        BY <1>7, <2>2, <2>5, <3>1, <3>2 DEF Counting, once, strobed
      <3> QED BY <2>5, <3>3 DEF Shot
    <2>7. CASE w = a
      <3>1. g.written = w + 1 /\ x = 1
        BY <1>3, <1>4, <1>7, <2>2, <2>4, <2>7
      <3>2. d.count = 0
        BY <1>8, <2>3, <3>1
      <3>3. /\ once => d.out = 1
            /\ strobed => d.strobe = 0 /\ d.out = 0 /\ c.out # 0
        BY <1>7, <2>2, <2>3, <2>7, <3>1
      <3>4. strobed => g.since = 0
        BY <1>1, <3>3
      <3>5. Counting(d, g)
        BY <1>7, <2>5, <2>7, <3>1, <3>2, <3>3, <3>4 DEF Counting, once, strobed
      <3> QED BY <2>5, <3>5 DEF Shot
    <2>8. CASE w > a
      <3>1. g.written \in Nat /\ g.written > a /\ g.written > 1
        BY <1>3, <1>7, <2>4, <2>8
      <3>2. once => d.out = 1
        BY <2>2, <2>3, <2>8
      <3>3. strobed => d.strobe = 0 /\ d.out = 1
        BY <1>5, <2>2, <2>3, <2>8
      <3>4. Counting(d, g)
        BY <1>7, <2>5, <3>1, <3>2, <3>3 DEF Counting, once, strobed
      <3> QED BY <2>5, <3>4 DEF Shot
    <2> QED BY <1>7, <2>6, <2>7, <2>8
  <1> QED BY <1>5, <1>9, <1>10

LEMMA ShotClock ==
    ASSUME Accesses, NEW ch \in Channels, NEW c \in Counter, NEW h,
           IsHistory(h), Shot(c, h)
    PROVE  Shot(ClockOf(ch, c), Track(ch, c, h))
  <1> DEFINE d == ClockOf(ch, c)
             g == Track(ch, c, h)
  <1>1. CASE ~Selected(ch) /\ Ticks(c) /\ OneShot(c)
    <2>1. d = Tick(c) /\ g = AfterTick(c, h) /\ c.filled = 1
      BY <1>1 DEF ClockOf, Track, Ticks
    <2> QED BY <1>1, <2>1, TickIsShot
  <1>2. CASE ~Selected(ch) /\ Ticks(c) /\ ~OneShot(c)
    <2>1. d.m = c.m
      BY <1>2, TickKeeps DEF ClockOf
    <2> QED BY <1>2, <2>1 DEF Shot, OneShot
  <1>3. CASE ~Selected(ch) /\ ~Ticks(c)
    <2>1. d = c /\ g = Missed(h)
      BY <1>3 DEF ClockOf, Track
    <2> QED BY <2>1, HistorySteps DEF Shot, Counting, OneShot, Asked
  <1>4. CASE Selected(ch) /\ access.kind = "read"
    <2>1. g.written = h.written /\ g.since = h.since
      BY <1>4, HistorySteps DEF Track, AfterRead, IsHistory, HistFields
    <2>2. d = Read(c)
      BY <1>4 DEF ClockOf, Act
    <2>3. /\ d.filled = c.filled /\ d.m = c.m /\ d.null = c.null /\ d.count = c.count
          /\ d.init = c.init /\ d.out = c.out /\ d.strobe = c.strobe
      BY <2>2 DEF Read, Counter
    <2> QED BY <2>1, <2>3 DEF Shot, Counting, OneShot, Asked
  <1>5. CASE Selected(ch) /\ access.kind = "command"
    <2>1. d = WriteCommand(c, access.cmd) /\ g = AfterCommand(h)
      BY <1>5 DEF ClockOf, Act, Track
    <2>2. CASE access.cmd.rl # 0
      <3>1. d.filled = 0
        BY <2>1, <2>2 DEF WriteCommand, Counter
      <3> QED BY <3>1 DEF Shot
    <2>3. CASE access.cmd.rl = 0
      <3>1. d.null = 1
        BY <2>1, <2>3 DEF WriteCommand, Counter
      <3>2. g.written = 0
        BY <2>1, <2>3, HistorySteps DEF AfterCommand
      <3> QED BY <3>1, <3>2 DEF Shot
    <2> QED BY <2>2, <2>3
  <1>6. CASE Selected(ch) /\ access.kind = "data"
    <2>1. d = WriteData(c, access.byte) /\ g = AfterByte(h)
      BY <1>6 DEF ClockOf, Act, Track
    <2>2. d.null = 1
      BY <2>1 DEF WriteData, Counter
    <2>3. g.written = 0
      BY <2>1, HistorySteps DEF AfterByte, HistFields
    <2> QED BY <2>2, <2>3 DEF Shot
  <1> QED BY <1>1, <1>2, <1>3, <1>4, <1>5, <1>6 DEF Selected, Accesses

LEMMA ShotsStay == PitInv /\ AllShot /\ [PitNext]_pitVars => AllShot'
  <1> SUFFICES ASSUME PitInv, AllShot, [PitNext]_pitVars PROVE AllShot'
    OBVIOUS
  <1>1. CASE PitNext
    <2>1. /\ Accesses
          /\ cntr' = [ch \in Channels |-> ClockOf(ch, cntr[ch])]
          /\ hist' = [ch \in Channels |-> Track(ch, cntr[ch], hist[ch])]
          /\ cntr \in [Channels -> Counter]
      BY <1>1 DEF PitNext, Next, PitInv, PitTypes
    <2>2. ASSUME NEW ch \in Channels PROVE Shot(cntr'[ch], hist'[ch])
      BY <2>1, ShotClock DEF PitInv, AllShot
    <2> QED BY <2>2 DEF AllShot, Shot, Counting, OneShot, Asked
  <1>2. CASE UNCHANGED pitVars
    BY <1>2 DEF pitVars, vars, AllShot, Shot, Counting, OneShot, Asked
  <1> QED BY <1>1, <1>2

\* A counter's edge is of a tick, and a tick is in the state the invariant says.
LEMMA EdgesAreTimed ==
    ASSUME PitInv, AllShot, PitNext, NEW ch \in Channels,
           NEW c, c = cntr[ch], NEW h, h = hist[ch]
    PROVE  /\ c.m \in {0, 1} /\ Goes(ch, 1) => h.written = Asked(c)
           /\ c.m \in {4, 5} /\ Goes(ch, 0) => h.written = Asked(c)
           /\ c.m \in {4, 5} /\ Goes(ch, 1) => h.written = 0 \/ h.since = 0
  <1>1. /\ c \in Counter /\ IsHistory(h) /\ Shot(c, h)
        /\ cntr'[ch] = ClockOf(ch, c)
    BY DEF PitInv, PitTypes, AllShot, PitNext, Next
  <1> SUFFICES ASSUME OneShot(c), ~Selected(ch), cntr'[ch].out # c.out
               PROVE  /\ c.m \in {0, 1} /\ Goes(ch, 1) => h.written = Asked(c)
                      /\ c.m \in {4, 5} /\ Goes(ch, 0) => h.written = Asked(c)
                      /\ c.m \in {4, 5} /\ Goes(ch, 1) => h.written = 0 \/ h.since = 0
    BY DEF Goes, OneShot
  <1>2. cntr'[ch] = Tick(c) /\ c.filled = 1
    BY <1>1 DEF ClockOf, Ticks
  <1>3. c.null \in 0 .. 1 /\ c.out \in 0 .. 1 /\ c.count \in Nat /\ h.written \in Nat
        /\ Asked(c) \in Nat /\ Asked(c) >= 1
        /\ (c.init > 0 => Asked(c) = c.init) /\ (c.init = 0 => Asked(c) = Range16)
        /\ Range16 >= 4 /\ c.init \in Nat
    BY <1>1, Widths, AskedIs DEF Counter, Bit, Count, IsHistory, TickCount
  <1>4. CASE c.null = 1
    BY <1>1, <1>2, <1>4, ShotTick DEF Shot, Goes
  <1>5. CASE c.null = 0
    <2>1. Counting(c, h)
      BY <1>1, <1>2, <1>5 DEF Shot
    <2>2. c.count = 1 /\ h.written <= Asked(c) => h.written = Asked(c)
      BY <1>3, <2>1 DEF Counting
    <2>3. ASSUME c.m \in {0, 1}, Goes(ch, 1) PROVE h.written = Asked(c)
      <3>1. c.count = 1 /\ c.out # 1
        BY <1>1, <1>2, <1>5, <2>3, ShotTick DEF Goes
      <3> QED BY <1>3, <2>1, <2>2, <2>3, <3>1 DEF Counting
    <2>4. ASSUME c.m \in {4, 5}, Goes(ch, 0) PROVE h.written = Asked(c)
      <3>1. c.out = 1 /\ c.count = 1 /\ c.strobe = 1
        BY <1>1, <1>2, <1>3, <1>5, <2>4, ShotTick DEF Goes
      <3> QED BY <1>3, <2>1, <2>2, <2>4, <3>1 DEF Counting
    <2>5. ASSUME c.m \in {4, 5}, Goes(ch, 1) PROVE h.since = 0
      <3>1. c.out = 0
        BY <1>3, <2>5 DEF Goes
      <3> QED BY <2>1, <2>5, <3>1 DEF Counting
    <2> QED BY <2>3, <2>4, <2>5
  <1> QED BY <1>3, <1>4, <1>5

\* A one-shot counter's edge comes Asked ticks after the tick that loads it, for
\* every count: neither the latch nor the strobe of a read shifts it.
THEOREM ShotsAreTimed == PitSpec => OneShotIsTimed
  <1> DEFINE Timed ==
        \A ch \in Channels :
          LET c == cntr[ch]  h == hist[ch]
          IN  /\ c.m \in {0, 1} /\ Goes(ch, 1) => h.written = Asked(c)
              /\ c.m \in {4, 5} /\ Goes(ch, 0) => h.written = Asked(c)
              /\ c.m \in {4, 5} /\ Goes(ch, 1) => h.written = 0 \/ h.since = 0
  <1>1. PitInit => AllShot
    BY DEF PitInit, Init, AllShot, Shot
  <1>2. PitInv /\ AllShot /\ [PitNext]_pitVars => [Timed]_pitVars
    BY EdgesAreTimed
  <1>3. PitInv /\ AllShot /\ [PitNext]_pitVars => PitInv' /\ AllShot'
    BY PitSteps, ShotsStay
  <1>4. OneShotIsTimed <=> [][Timed]_pitVars
    BY DEF OneShotIsTimed
  <1> HIDE DEF Timed
  <1> QED BY <1>1, <1>2, <1>3, <1>4, PitStarts, PTL DEF PitSpec

-----------------------------------------------------------------------------
(* The repeating modes. *)

\* Only a tick makes an edge; a write starts the count of edges again, and a latch
\* command leaves it as it is.
LEMMA EdgeClock ==
    ASSUME Accesses, NEW ch \in Channels, NEW c \in Counter, NEW h, IsHistory(h),
           NEW d, d = ClockOf(ch, c), NEW g, g = Track(ch, c, h)
    PROVE  \/ d = Tick(c) /\ g = AfterTick(c, h)
           \/ /\ d.m = c.m /\ d.init = c.init /\ d.count = c.count
              /\ d.out = c.out /\ d.newcmd = c.newcmd
              /\ g.edges = h.edges /\ g.since = h.since
           \/ g.edges = 0
  <1> USE HistorySteps
  <1>1. CASE ~Selected(ch)
    BY <1>1 DEF ClockOf, Track
  <1>2. CASE Selected(ch) /\ access.kind = "read"
    <2>1. g.edges = h.edges /\ g.since = h.since
      BY <1>2 DEF Track, AfterRead, IsHistory, HistFields
    <2>2. d = Read(c)
      BY <1>2 DEF ClockOf, Act
    <2> QED BY <2>1, <2>2 DEF Read, Counter
  <1>3. CASE Selected(ch) /\ access.kind = "command"
    <2>1. g = AfterCommand(h) /\ d = WriteCommand(c, access.cmd)
      BY <1>3 DEF Track, ClockOf, Act
    <2>2. CASE access.cmd.rl # 0
      BY <2>1, <2>2 DEF AfterCommand, HistFields
    <2>3. CASE access.cmd.rl = 0
      <3>1. /\ d.m = c.m /\ d.init = c.init /\ d.count = c.count
            /\ d.out = c.out /\ d.newcmd = c.newcmd
        BY <2>1, <2>3 DEF WriteCommand, Counter
      <3> QED BY <2>1, <2>3, <3>1 DEF AfterCommand
    <2> QED BY <2>2, <2>3
  <1>4. CASE Selected(ch) /\ access.kind = "data"
    BY <1>4 DEF Track, AfterByte, HistFields
  <1> QED BY <1>1, <1>2, <1>3, <1>4 DEF Selected, Accesses

\* A tick of the two modes, field by field.
LEMMA RepeatedTick ==
    ASSUME NEW c \in Counter, NEW h, IsHistory(h),
           NEW d, d = Tick(c), NEW g, g = AfterTick(c, h)
    PROVE  /\ d.m = c.m /\ d.init = c.init /\ d.newcmd = 0
           /\ d.out # c.out => g.since = 0 /\ g.edges = (IF h.edges = 3 THEN 3 ELSE h.edges + 1)
           /\ d.out = c.out => /\ g.edges = h.edges
                               /\ g.since = IF h.since = MaxTicks THEN h.since ELSE h.since + 1
           /\ c.m \in {2, 6} =>
                /\ d.out = IF c.count = 2 THEN 0 ELSE 1
                /\ d.count = IF c.count = 1 \/ c.newcmd = 1 THEN c.init ELSE Minus(c.count, 1)
           /\ c.m \in {3, 7} =>
                /\ c.newcmd = 1 => d.out = 1 /\ d.count = c.init
                /\ c.newcmd = 0 /\ c.count \in {1, 2} =>
                     /\ d.out = 1 - c.out
                     /\ d.count = IF c.out = 0 THEN c.init ELSE 2 * (c.init \div 2)
                /\ c.newcmd = 0 /\ c.count \notin {1, 2} =>
                     d.out = c.out /\ d.count = Minus(c.count, 2)
  <1>1. DOMAIN c = {"count", "init", "filled", "second", "out", "null", "rl", "m",
                    "strobe", "rd", "latch", "newcmd"}
        /\ c.newcmd \in 0 .. 1 /\ c.out \in 0 .. 1 /\ c.m \in 0 .. 7
    BY DEF Counter, Bit
  <1>2. /\ d.out # c.out => g.since = 0 /\ g.edges = (IF h.edges = 3 THEN 3 ELSE h.edges + 1)
        /\ d.out = c.out => /\ g.edges = h.edges
                            /\ g.since = IF h.since = MaxTicks THEN h.since ELSE h.since + 1
    BY Counters DEF AfterTick, IsHistory, HistFields
  <1>3. d.m = c.m /\ d.init = c.init
    BY TickKeeps
  <1>4. CASE c.m \in {2, 6}
    <2>1. d = [RateGenerator(c) EXCEPT !.newcmd = 0]
      BY <1>4 DEF Tick
    <2> QED BY <1>1, <1>2, <1>3, <1>4, <2>1 DEF RateGenerator
  <1>5. CASE c.m \in {3, 7}
    <2>1. d = [SquareWave(c) EXCEPT !.newcmd = 0]
      BY <1>5 DEF Tick
    <2> QED BY <1>1, <1>2, <1>3, <1>5, <2>1 DEF SquareWave
  <1>6. CASE c.m \in {0, 1, 4, 5}
    <2>1. DOMAIN TerminalCount(c) = DOMAIN c /\ DOMAIN TriggeredStrobe(c) = DOMAIN c
      BY DEF TerminalCount, TriggeredStrobe
    <2>2. d.newcmd = 0
      BY <1>1, <1>6, <2>1 DEF Tick
    <2> QED BY <1>2, <1>3, <1>6, <2>2
  <1> QED BY <1>1, <1>4, <1>5, <1>6

\* The rate generator: low with a count of 1 in the tick after the edge, and
\* high until it counts 2.  Two edges after a write the count is the new one.
Rate(c, h) ==
    c.m \in {2, 6} /\ h.edges > 0 =>
      /\ c.newcmd = 0
      /\ h.edges >= 2 /\ c.out = 0 => c.count = 1 /\ h.since = 0
      /\ h.edges = 3 /\ c.out = 1 =>
           /\ c.init = 1 => c.count = 1
           /\ c.init # 1 => /\ h.since <= Asked(c) - 2
                            /\ h.since = 0 => c.count = c.init
                            /\ h.since > 0 => c.count = Asked(c) - h.since

\* The square wave: since its last edge the counter has gone down by two a tick
\* from the count asked for, less its low bit in the low half.
Start(c) == IF c.out = 1 THEN Asked(c) ELSE 2 * (Asked(c) \div 2)
Square(c, h) ==
    c.m \in {3, 7} /\ h.edges > 0 /\ c.init # 1 =>
      /\ c.newcmd = 0
      /\ 2 * h.since < Start(c)
      /\ c.count = IF Start(c) - 2 * h.since = Range16 THEN 0 ELSE Start(c) - 2 * h.since

AllRepeat == \A ch \in Channels : Rate(cntr[ch], hist[ch]) /\ Square(cntr[ch], hist[ch])

\* The numbers a tick works on.
LEMMA Numbers ==
    ASSUME NEW c \in Counter, NEW h, IsHistory(h)
    PROVE  /\ Range16 \in Nat /\ Range16 >= 4 /\ 2 * (Range16 \div 2) = Range16
           /\ c.count \in 0 .. Range16 - 1 /\ c.init \in 0 .. Range16 - 1
           /\ c.out \in 0 .. 1 /\ c.newcmd \in 0 .. 1
           /\ h.since \in 0 .. Range16 + 1 /\ h.edges \in 0 .. 3 /\ MaxTicks = Range16 + 1
           /\ \A x \in 0 .. Range16 - 1, n \in 1 .. 2 :
                Minus(x, n) = IF x >= n THEN x - n ELSE Range16 + x - n
  <1>1. Range16 \in Nat /\ Range16 >= 4
    BY Widths
  <1>2. 2 * (Range16 \div 2) = Range16
    <2>1. PICK k \in Nat : Base = 2 * k
      <3>1. Base = 2 * (Base \div 2) /\ Base \div 2 \in Nat
        BY PitAssumption
      <3> QED BY <3>1
    <2>2. PICK j \in Nat : j = k * Base
      BY <2>1, Widths
    <2>3. Range16 = 2 * j
      BY <2>1, <2>2, Widths
    <2> QED BY <2>3
  <1>3. ASSUME NEW x \in 0 .. Range16 - 1, NEW n \in 1 .. 2
        PROVE  Minus(x, n) = IF x >= n THEN x - n ELSE Range16 + x - n
    <2>1. CASE x >= n
      BY <1>1, <2>1, MinusTypes DEF Count
    <2>2. CASE x < n
      <3>1. (x - n) % Range16 = Range16 + x - n
        BY <1>1, <2>2
      <3> QED BY <2>2, <3>1 DEF Minus
    <2> QED BY <1>1, <2>1, <2>2
  <1> QED BY <1>1, <1>2, <1>3 DEF Counter, Count, Bit, IsHistory, TickCount, EdgeCount, MaxTicks

LEMMA RateTick ==
    ASSUME NEW c \in Counter, NEW h, IsHistory(h), Rate(c, h), c.m \in {2, 6},
           NEW d, d = Tick(c), NEW g, g = AfterTick(c, h)
    PROVE  Rate(d, g)
  <1>1. PICK r \in Nat, x \in Nat, n \in Nat, s \in Nat, e \in 0 .. 3 :
           /\ r = Range16 /\ r >= 4 /\ x = c.count /\ x < r /\ n = c.init /\ n < r
           /\ s = h.since /\ e = h.edges
    <2>   /\ Range16 \in Nat /\ c.count \in Nat /\ c.init \in Nat /\ h.since \in Nat
          /\ h.edges \in 0 .. 3
          /\ Range16 >= 4 /\ c.count < Range16 /\ c.init < Range16
      BY Numbers
    <2> WITNESS Range16 \in Nat, c.count \in Nat, c.init \in Nat, h.since \in Nat,
                h.edges \in 0 .. 3
    <2> QED OBVIOUS
  <1>2. c.out \in 0 .. 1 /\ MaxTicks = r + 1
        /\ Minus(x, 1) = IF x >= 1 THEN x - 1 ELSE r + x - 1
    <2>1. x \in 0 .. Range16 - 1 /\ 1 \in 1 .. 2
      BY <1>1
    <2> QED BY <1>1, <2>1, Numbers
  <1>3. /\ d.m = c.m /\ d.init = n /\ d.newcmd = 0
        /\ d.out # c.out => g.since = 0 /\ g.edges = (IF e = 3 THEN 3 ELSE e + 1)
        /\ d.out = c.out => g.edges = e /\ g.since = IF s = r + 1 THEN s ELSE s + 1
        /\ d.out = IF x = 2 THEN 0 ELSE 1
        /\ d.count = IF x = 1 \/ c.newcmd = 1 THEN n ELSE Minus(x, 1)
    BY <1>1, <1>2, RepeatedTick
  <1>4. PICK a \in 1 .. r : /\ a = Asked(c) /\ a = Asked(d)
                          /\ (n > 0 => a = n) /\ (n = 0 => a = r)
    BY <1>1, <1>3, AskedIs DEF Asked
  <1>5. e > 0 => /\ c.newcmd = 0
                 /\ e >= 2 /\ c.out = 0 => x = 1 /\ s = 0
                 /\ e = 3 /\ c.out = 1 =>
                      /\ n = 1 => x = 1
                      /\ n # 1 => s <= a - 2 /\ (s = 0 => x = n) /\ (s > 0 => x = a - s)
    BY <1>1, <1>4 DEF Rate
  <1>6. g.edges >= 2 /\ d.out = 0 => d.count = 1 /\ g.since = 0
    <2> SUFFICES ASSUME g.edges >= 2, d.out = 0 PROVE d.count = 1 /\ g.since = 0
      OBVIOUS
    <2>1. x = 2 /\ e > 0
      BY <1>3
    <2>2. c.out = 1
      BY <1>2, <1>3, <1>5, <2>1
    <2> QED BY <1>2, <1>3, <1>5, <2>1, <2>2
  <1>7. g.edges = 3 /\ d.out = 1 /\ c.out = 0 => g.since = 0 /\ d.count = n /\ e >= 2
    BY <1>3, <1>5
  <1>8. g.edges = 3 /\ d.out = 1 /\ c.out = 1 =>
          /\ n = 1 => d.count = 1
          /\ n # 1 => g.since = s + 1 /\ s + 1 <= a - 2 /\ d.count = a - (s + 1)
    <2> SUFFICES ASSUME g.edges = 3, d.out = 1, c.out = 1
                 PROVE  /\ n = 1 => d.count = 1
                        /\ n # 1 => g.since = s + 1 /\ s + 1 <= a - 2 /\ d.count = a - (s + 1)
      OBVIOUS
    <2>1. e = 3 /\ x # 2 /\ c.newcmd = 0 /\ g.since = IF s = r + 1 THEN s ELSE s + 1
      BY <1>3, <1>5
    <2>2. CASE n = 1
      BY <1>3, <1>5, <2>1, <2>2
    <2>3. CASE n # 1
      <3>1. s <= a - 2 /\ (s = 0 => x = n) /\ (s > 0 => x = a - s)
        BY <1>5, <2>1, <2>3
      <3>2. s < a - 2 /\ x # 1
        BY <1>1, <1>4, <2>1, <2>3, <3>1
      <3>3. Minus(x, 1) = a - (s + 1)
        BY <1>1, <1>2, <1>4, <3>1
      <3> QED BY <1>3, <1>4, <2>1, <3>2, <3>3
    <2> QED BY <2>2, <2>3
  <1>9. /\ d.newcmd = 0 /\ d.init = n /\ Asked(d) = a /\ g.edges \in 0 .. 3
    BY <1>3, <1>4
  <1>10. ASSUME g.edges = 3, d.out = 1
         PROVE  /\ n = 1 => d.count = 1
                /\ n # 1 => /\ g.since <= a - 2
                            /\ g.since = 0 => d.count = n
                            /\ g.since > 0 => d.count = a - g.since
    <2>1. CASE c.out = 0
      <3>1. g.since = 0 /\ d.count = n
        BY <1>7, <1>10, <2>1
      <3>2. n # 1 => 0 <= a - 2
        BY <1>1, <1>4
      <3> QED BY <3>1, <3>2
    <2>2. CASE c.out = 1
      BY <1>1, <1>4, <1>8, <1>10, <2>2
    <2> QED BY <1>2, <2>1, <2>2
  <1> QED BY <1>6, <1>9, <1>10 DEF Rate

LEMMA SquareTick ==
    ASSUME NEW c \in Counter, NEW h, IsHistory(h), Square(c, h), c.m \in {3, 7},
           NEW d, d = Tick(c), NEW g, g = AfterTick(c, h)
    PROVE  Square(d, g)
  <1>1. PICK r \in Nat, x \in Nat, n \in Nat, s \in Nat, e \in 0 .. 3 :
           /\ r = Range16 /\ r >= 4 /\ 2 * (r \div 2) = r
           /\ x = c.count /\ x < r /\ n = c.init /\ n < r
           /\ s = h.since /\ s <= r + 1 /\ e = h.edges
    <2>   /\ Range16 \in Nat /\ c.count \in Nat /\ c.init \in Nat /\ h.since \in Nat
          /\ h.edges \in 0 .. 3 /\ h.since <= Range16 + 1 /\ 2 * (Range16 \div 2) = Range16
          /\ Range16 >= 4 /\ c.count < Range16 /\ c.init < Range16
      BY Numbers
    <2> WITNESS Range16 \in Nat, c.count \in Nat, c.init \in Nat, h.since \in Nat,
                h.edges \in 0 .. 3
    <2> QED OBVIOUS
  <1>2. c.out \in 0 .. 1 /\ c.newcmd \in 0 .. 1 /\ MaxTicks = r + 1
        /\ Minus(x, 2) = IF x >= 2 THEN x - 2 ELSE r + x - 2
    <2>1. x \in 0 .. Range16 - 1 /\ 2 \in 1 .. 2
      BY <1>1
    <2> QED BY <1>1, <2>1, Numbers
  <1>3. /\ d.m = c.m /\ d.init = n /\ d.newcmd = 0
        /\ d.out # c.out => g.since = 0
        /\ d.out = c.out => g.edges = e /\ g.since = IF s = r + 1 THEN s ELSE s + 1
        /\ c.newcmd = 1 => d.out = 1 /\ d.count = n
        /\ c.newcmd = 0 /\ x \in {1, 2} =>
             d.out = 1 - c.out /\ d.count = IF c.out = 0 THEN n ELSE 2 * (n \div 2)
        /\ c.newcmd = 0 /\ x \notin {1, 2} => d.out = c.out /\ d.count = Minus(x, 2)
    BY <1>1, <1>2, RepeatedTick
  <1>4. PICK a \in 1 .. r : /\ a = Asked(c) /\ a = Asked(d)
                          /\ (n > 0 => a = n) /\ (n = 0 => a = r)
    BY <1>1, <1>3, AskedIs DEF Asked
  <1> SUFFICES ASSUME g.edges > 0, n # 1 PROVE Square(d, g)
    BY <1>3 DEF Square
  <1>5. CASE d.out # c.out
    <2>1. g.since = 0 /\ d.out \in 0 .. 1 /\ d.count = IF d.out = 1 THEN n ELSE 2 * (n \div 2)
      BY <1>2, <1>3, <1>5
    <2>2. a >= 2
      BY <1>1, <1>4
    <2>3. 2 * (a \div 2) > 0 /\ (2 * (a \div 2) = r <=> n = 0)
      BY <1>1, <1>4, <2>2
    <2>4. Start(d) = IF d.out = 1 THEN a ELSE 2 * (a \div 2)
      BY <1>4 DEF Start
    <2>5. CASE n = 0
      <3>1. a = r /\ 2 * (n \div 2) = 0
        BY <1>4, <2>5
      <3> QED BY <1>1, <1>3, <2>1, <2>4, <2>5, <3>1 DEF Square
    <2>6. CASE n > 0
      <3>1. a = n
        BY <1>4, <2>6
      <3>2. Start(d) > 0 /\ Start(d) # r /\ d.count = Start(d) /\ Start(d) \in Nat
        BY <1>1, <2>1, <2>3, <2>4, <2>6, <3>1
      <3> QED BY <1>1, <1>3, <2>1, <3>2 DEF Square
    <2> QED BY <1>1, <2>5, <2>6
  <1>6. CASE d.out = c.out
    <2>1. PICK k \in Nat : k = Start(c) /\ k = Start(d) /\ k <= r
      <3>1. 2 * (a \div 2) \in Nat /\ 2 * (a \div 2) <= r
        BY <1>4
      <3> QED BY <1>4, <1>6, <3>1 DEF Start
    <2>2. g.edges = e /\ g.since = IF s = r + 1 THEN s ELSE s + 1
      BY <1>3, <1>6
    <2>3. c.newcmd = 0 /\ 2 * s < k /\ x = IF k - 2 * s = r THEN 0 ELSE k - 2 * s
      BY <1>1, <2>1, <2>2 DEF Square
    <2>4. x \notin {1, 2} /\ d.count = Minus(x, 2)
      BY <1>2, <1>3, <1>6, <2>3
    <2>5. g.since = s + 1 /\ 2 * (s + 1) < k
      BY <1>1, <2>1, <2>2, <2>3, <2>4
    <2>6. d.count = k - 2 * (s + 1) /\ k - 2 * (s + 1) # r
      BY <1>1, <1>2, <2>1, <2>3, <2>4, <2>5
    <2> QED BY <1>1, <1>3, <2>1, <2>5, <2>6 DEF Square
  <1> QED BY <1>5, <1>6

LEMMA RepeatClock ==
    ASSUME Accesses, NEW ch \in Channels, NEW c \in Counter, NEW h, IsHistory(h),
           Rate(c, h), Square(c, h), NEW d, d = ClockOf(ch, c), NEW g, g = Track(ch, c, h)
    PROVE  Rate(d, g) /\ Square(d, g)
  <1>1. CASE d = Tick(c) /\ g = AfterTick(c, h)
    <2>1. d.m = c.m
      BY <1>1, TickKeeps
    <2>2. c.m \in {2, 6} => Rate(d, g)
      BY <1>1, RateTick
    <2>3. c.m \in {3, 7} => Square(d, g)
      BY <1>1, SquareTick
    <2>4. (c.m \notin {2, 6} => Rate(d, g)) /\ (c.m \notin {3, 7} => Square(d, g))
      BY <2>1 DEF Rate, Square
    <2> QED BY <2>2, <2>3, <2>4
  <1>2. CASE /\ d.m = c.m /\ d.init = c.init /\ d.count = c.count
             /\ d.out = c.out /\ d.newcmd = c.newcmd
             /\ g.edges = h.edges /\ g.since = h.since
    <2>1. Asked(d) = Asked(c) /\ Start(d) = Start(c)
      BY <1>2 DEF Asked, Start
    <2> QED BY <1>2, <2>1 DEF Rate, Square
  <1>3. CASE g.edges = 0
    BY <1>3 DEF Rate, Square
  <1> QED BY <1>1, <1>2, <1>3, EdgeClock

LEMMA RepeatsStart == PitInit => AllRepeat
  <1> SUFFICES ASSUME PitInit, NEW ch \in Channels
               PROVE  Rate(cntr[ch], hist[ch]) /\ Square(cntr[ch], hist[ch])
    BY DEF AllRepeat
  <1>1. hist[ch].edges = 0
    BY DEF PitInit, NewHistory
  <1> QED BY <1>1 DEF Rate, Square

LEMMA RepeatsStay == PitInv /\ AllRepeat /\ [PitNext]_pitVars => AllRepeat'
  <1> SUFFICES ASSUME PitInv, AllRepeat, [PitNext]_pitVars PROVE AllRepeat'
    OBVIOUS
  <1>1. CASE PitNext
    <2>1. /\ Accesses
          /\ cntr' = [ch \in Channels |-> ClockOf(ch, cntr[ch])]
          /\ hist' = [ch \in Channels |-> Track(ch, cntr[ch], hist[ch])]
          /\ cntr \in [Channels -> Counter]
      BY <1>1 DEF PitNext, Next, PitInv, PitTypes
    <2>2. ASSUME NEW ch \in Channels
          PROVE  Rate(cntr'[ch], hist'[ch]) /\ Square(cntr'[ch], hist'[ch])
      <3>1. /\ cntr[ch] \in Counter /\ IsHistory(hist[ch])
            /\ Rate(cntr[ch], hist[ch]) /\ Square(cntr[ch], hist[ch])
            /\ cntr'[ch] = ClockOf(ch, cntr[ch])
            /\ hist'[ch] = Track(ch, cntr[ch], hist[ch])
        BY <2>1 DEF PitInv, AllRepeat
      <3> QED BY <2>1, <3>1, RepeatClock
    <2> QED BY <2>2 DEF AllRepeat, Rate, Square, Asked, Start
  <1>2. CASE UNCHANGED pitVars
    BY <1>2 DEF pitVars, vars, AllRepeat, Rate, Square, Asked, Start
  <1> QED BY <1>1, <1>2

\* An edge of a repeating counter is of a tick.
LEMMA EdgeIsTick ==
    ASSUME PitInv, PitNext, NEW ch \in Channels, NEW v, Goes(ch, v), v \in 0 .. 1
    PROVE  /\ cntr[ch] \in Counter /\ IsHistory(hist[ch])
           /\ cntr'[ch] = Tick(cntr[ch])
           /\ Tick(cntr[ch]).out = v /\ cntr[ch].out = 1 - v
  <1>1. cntr[ch] \in Counter /\ IsHistory(hist[ch]) /\ cntr'[ch] = ClockOf(ch, cntr[ch])
    BY DEF PitInv, PitTypes, PitNext, Next
  <1>2. cntr[ch].out \in 0 .. 1
    BY <1>1, Numbers
  <1> QED BY <1>1, <1>2 DEF ClockOf, Goes

\* The rate generator is low for one tick in N, from the third edge after the
\* program's last write on.
THEOREM RateIsKept == PitSpec => RatePeriod
  <1> DEFINE Timed ==
        \A ch \in Channels :
          LET c == cntr[ch]  h == hist[ch]
          IN  c.m \in {2, 6} /\ h.edges = 3 =>
                /\ Goes(ch, 1) => h.since = 0
                /\ Goes(ch, 0) => h.since + 1 = Asked(c) - 1
  <1>1. ASSUME PitInv, AllRepeat, PitNext, NEW ch \in Channels,
               NEW c, c = cntr[ch], NEW h, h = hist[ch], c.m \in {2, 6}, h.edges = 3
        PROVE  /\ Goes(ch, 1) => h.since = 0
               /\ Goes(ch, 0) => h.since + 1 = Asked(c) - 1
    <2>1. Rate(c, h)
      BY <1>1 DEF AllRepeat
    <2>2. ASSUME Goes(ch, 1) PROVE h.since = 0
      <3>1. c.out = 0
        BY <1>1, <2>2, EdgeIsTick
      <3> QED BY <1>1, <2>1, <3>1 DEF Rate
    <2>3. ASSUME Goes(ch, 0) PROVE h.since + 1 = Asked(c) - 1
      <3>1. c \in Counter /\ IsHistory(h) /\ Tick(c).out = 0 /\ c.out = 1
        BY <1>1, <2>3, EdgeIsTick
      <3>2. c.count = 2
        BY <1>1, <3>1, RepeatedTick
      <3>3. /\ c.init # 1 /\ (h.since = 0 => c.init = 2)
            /\ h.since > 0 => Asked(c) - h.since = 2
        BY <1>1, <2>1, <3>1, <3>2 DEF Rate
      <3>4. h.since \in Nat /\ Asked(c) \in Nat /\ (c.init = 2 => Asked(c) = 2)
        BY <3>1, Numbers, AskedIs
      <3> QED BY <3>3, <3>4
    <2> QED BY <2>2, <2>3
  <1>2. PitInv /\ AllRepeat /\ [PitNext]_pitVars => [Timed]_pitVars
    BY <1>1
  <1>3. PitInv /\ AllRepeat /\ [PitNext]_pitVars => PitInv' /\ AllRepeat'
    BY PitSteps, RepeatsStay
  <1>4. RatePeriod <=> [][Timed]_pitVars
    BY DEF RatePeriod
  <1> HIDE DEF Timed
  <1> QED BY <1>2, <1>3, <1>4, PitStarts, RepeatsStart, PTL DEF PitSpec

\* The edge of a square wave: the half it ends has had its N/2 ticks.
LEMMA HalfIsTimed ==
    ASSUME PitInv, AllRepeat, PitNext, NEW ch \in Channels, NEW c, c = cntr[ch],
           NEW h, h = hist[ch], c.m \in {3, 7}, h.edges > 0, c.init # 1,
           NEW v \in Bit, Goes(ch, v)
    PROVE  h.since + 1 = HalfOf(c, v)
  <1>1. Square(c, h)
    BY DEF AllRepeat
  <1>2. c \in Counter /\ IsHistory(h) /\ Tick(c).out = v /\ c.out = 1 - v
    BY EdgeIsTick DEF Bit
  <1>3. c.newcmd = 0 /\ 2 * h.since < Start(c)
        /\ c.count = IF Start(c) - 2 * h.since = Range16 THEN 0 ELSE Start(c) - 2 * h.since
    BY <1>1 DEF Square
  <1>4. c.count \in {1, 2}
    BY <1>2, <1>3, RepeatedTick DEF Bit
  <1>5. PICK s \in Nat : s = h.since
    BY <1>2, Numbers
  <1>6. PICK a \in Nat : a = Asked(c)
    BY <1>2, Numbers, AskedIs
  <1>7. Start(c) = IF v = 0 THEN a ELSE 2 * (a \div 2)
    BY <1>2, <1>6 DEF Start, Bit
  <1>8. Start(c) = 2 * s + 1 \/ Start(c) = 2 * s + 2
    BY <1>3, <1>4, <1>5, <1>6, <1>7
  <1>9. v \in 0 .. 1
    BY DEF Bit
  <1>10. (a + 1 - v) \div 2 = s + 1
    BY <1>6, <1>7, <1>8, <1>9
  <1> QED BY <1>5, <1>6, <1>10 DEF HalfOf

\* The halves of the square wave are N/2 ticks long, the high half the longer
\* by one for an odd N: for every count but 1, and 0 stands for the whole range
\* because the base of a byte is even.
THEOREM HalvesAreEqual == PitSpec => SquareWaveHalves
  <1> DEFINE Timed ==
        \A ch \in Channels, v \in Bit :
          LET c == cntr[ch]  h == hist[ch]
          IN  c.m \in {3, 7} /\ h.edges > 0 /\ c.init # 1 /\ Goes(ch, v)
                => h.since + 1 = HalfOf(c, v)
  <1>1. PitInv /\ AllRepeat /\ [PitNext]_pitVars => [Timed]_pitVars
    BY HalfIsTimed
  <1>2. PitInv /\ AllRepeat /\ [PitNext]_pitVars => PitInv' /\ AllRepeat'
    BY PitSteps, RepeatsStay
  <1>3. SquareWaveHalves <=> [][Timed]_pitVars
    BY DEF SquareWaveHalves
  <1> HIDE DEF Timed
  <1> QED BY <1>1, <1>2, <1>3, PitStarts, RepeatsStart, PTL DEF PitSpec

-----------------------------------------------------------------------------
(* What reads cost a square wave. *)

\* The ticks that fall on the clocks still to come of a strobe, when the divider
\* is d clocks away from its next.
Coming(left, d) == IF left > d THEN (left - 1 - d) \div Div + 1 ELSE 0

\* A clock takes off one if it is a tick's, and a whole read has TicksIn at most.
LEMMA ComingSteps ==
    ASSUME NEW left \in Nat \ {0}, NEW d \in 0 .. Div - 1
    PROVE  /\ Coming(left, d) \in Nat
           /\ d = 0 => Coming(left, d) = Coming(left - 1, Div - 1) + 1
           /\ d # 0 => Coming(left, d) = Coming(left - 1, d - 1)
           /\ left = 1 => Coming(left, d) = IF d = 0 THEN 1 ELSE 0
           /\ left <= ReadHold => Coming(left, d) <= TicksIn(ReadHold)
  <1>1. Div \in Nat \ {0} /\ ReadHold \in Nat \ {0}
    BY PitAssumption
  <1>2. \A x \in Nat : x \div Div \in Nat /\ (x < Div => x \div Div = 0)
    <2> TAKE x \in Nat
    <2>1. x \div Div \in Nat
      BY <1>1
    <2>2. x \div Div < 1 <=> x < 1 * Div
      BY <1>1, DivBelow
    <2> QED BY <1>1, <2>1, <2>2
  <1>3. \A x \in Nat : (x + Div) \div Div = x \div Div + 1
    <2> TAKE x \in Nat
    <2>1. x = Div * (x \div Div) + (x % Div) /\ x % Div \in 0 .. Div - 1 /\ x \div Div \in Nat
      BY <1>1
    <2>2. (Div * (x \div Div + 1) + (x % Div)) \div Div = x \div Div + 1
      BY <1>1, <2>1, DivUnique
    <2>3. x + Div = Div * (x \div Div + 1) + (x % Div)
      BY <1>1, <2>1
    <2> QED BY <2>2, <2>3
  <1>4. \A x, y \in Nat : x <= y => x \div Div <= y \div Div
    <2> TAKE x, y \in Nat
    <2>1. y \div Div \in Nat /\ x \div Div \in Nat
      BY <1>2
    <2>2. y \div Div < y \div Div + 1 <=> y < (y \div Div + 1) * Div
      BY <1>1, <2>1, DivBelow
    <2>3. x \div Div < y \div Div + 1 <=> x < (y \div Div + 1) * Div
      BY <1>1, <2>1, DivBelow
    <2>4. (y \div Div + 1) * Div \in Nat
      BY <1>1, <2>1
    <2> QED BY <2>1, <2>2, <2>3, <2>4
  <1>5. Coming(left, d) \in Nat
    BY <1>1, <1>2 DEF Coming
  <1>6. ASSUME d = 0 PROVE Coming(left, d) = Coming(left - 1, Div - 1) + 1
    <2>1. Coming(left, d) = (left - 1) \div Div + 1
      BY <1>6 DEF Coming
    <2>2. CASE left - 1 < Div
      <3>1. Coming(left - 1, Div - 1) = 0 /\ (left - 1) \div Div = 0
        BY <1>1, <1>2, <2>2 DEF Coming
      <3> QED BY <2>1, <3>1
    <2>3. CASE left - 1 >= Div
      <3>1. left - 1 - Div \in Nat /\ (left - 1 - Div) + Div = left - 1
        BY <1>1, <2>3
      <3>2. (left - 1) \div Div = (left - 1 - Div) \div Div + 1
        BY <1>3, <3>1
      <3>3. left - 1 > Div - 1 /\ left - 1 - 1 - (Div - 1) = left - 1 - Div
        BY <1>1, <2>3
      <3>4. Coming(left - 1, Div - 1) = (left - 1 - Div) \div Div + 1
        BY <3>3 DEF Coming
      <3> QED BY <2>1, <3>2, <3>4
    <2> QED BY <1>1, <2>2, <2>3
  <1>7. ASSUME d # 0 PROVE Coming(left, d) = Coming(left - 1, d - 1)
    <2>1. (left > d <=> left - 1 > d - 1) /\ left - 1 - d = left - 1 - 1 - (d - 1)
      BY <1>1
    <2> QED BY <2>1 DEF Coming
  <1>8. left = 1 => Coming(left, d) = IF d = 0 THEN 1 ELSE 0
    BY <1>1, <1>2 DEF Coming
  <1>9. ASSUME left <= ReadHold PROVE Coming(left, d) <= TicksIn(ReadHold)
    <2>1. ReadHold - 1 \in Nat /\ ReadHold + Div - 1 = (ReadHold - 1) + Div
      BY <1>1
    <2>2. TicksIn(ReadHold) = (ReadHold - 1) \div Div + 1 /\ (ReadHold - 1) \div Div \in Nat
      BY <1>2, <1>3, <2>1 DEF TicksIn
    <2>3. left > d => /\ left - 1 - d \in Nat /\ left - 1 - d <= ReadHold - 1
                      /\ (left - 1 - d) \div Div <= (ReadHold - 1) \div Div
                      /\ (left - 1 - d) \div Div \in Nat
      BY <1>1, <1>2, <1>4, <1>9, <2>1
    <2> QED BY <2>2, <2>3 DEF Coming
  <1> QED BY <1>5, <1>6, <1>7, <1>8, <1>9

\* With two reads at most since its edge a counter is filled and not latched, so
\* that it misses ticks on the strobes of those reads only, and of the one under
\* way.
Reading(ch) == Selected(ch) /\ access.kind = "read"
Cost(ch) == IF Reading(ch) THEN Coming(access.left, clk_div) ELSE 0
Reads(ch, h) == IF Reading(ch) THEN h.reads + 1 ELSE h.reads
OnTime(ch, c, h) ==
    h.reads < 3 => /\ c.filled = 1 /\ c.latch = 0
                   /\ h.lost + Cost(ch) <= Reads(ch, h) * TicksIn(ReadHold)
AllOnTime == \A ch \in Channels : OnTime(ch, cntr[ch], hist[ch])

LEMMA CostSteps ==
    ASSUME PitTypes, Next, NEW ch \in Channels
    PROVE  /\ Cost(ch) \in Nat /\ Cost(ch)' \in Nat
           /\ ~Reading(ch) /\ Reading(ch)' => Cost(ch)' <= TicksIn(ReadHold)
           /\ Reading(ch) /\ LastClock => /\ ~Reading(ch)'
                                          /\ Cost(ch) = IF clk_div = 0 THEN 1 ELSE 0
           /\ Reading(ch) /\ ~LastClock =>
                /\ Reading(ch)'
                /\ Cost(ch) = Cost(ch)' + IF clk_div = 0 THEN 1 ELSE 0
  <1>1. /\ Accesses /\ Cpu /\ clk_div \in 0 .. Div - 1 /\ Div \in Nat \ {0}
        /\ clk_div' = IF clk_div = 0 THEN Div - 1 ELSE clk_div - 1
    BY PitAssumption DEF PitTypes, Next
  <1>2. Accesses' /\ clk_div' \in 0 .. Div - 1
    BY <1>1, CpuSteps
  <1>3. Reading(ch) => access.left \in Nat \ {0} /\ access.left <= ReadHold
    BY <1>1 DEF Reading, Selected, Accesses
  <1>4. Reading(ch)' => access'.left \in Nat \ {0} /\ access'.left <= ReadHold
    BY <1>2 DEF Reading, Selected, Accesses
  <1>5. Cost(ch) \in Nat
    BY <1>1, <1>3, ComingSteps DEF Cost
  <1>6. Cost(ch)' \in Nat /\ (Reading(ch)' => Cost(ch)' <= TicksIn(ReadHold))
    BY <1>2, <1>4, ComingSteps DEF Cost
  <1>7. ASSUME Reading(ch), LastClock
        PROVE  ~Reading(ch)' /\ Cost(ch) = IF clk_div = 0 THEN 1 ELSE 0
    <2>1. access' = NoAccess
      BY <1>1, <1>7, CpuSteps DEF LastClock, Reading, Selected
    <2>2. Cost(ch) = IF clk_div = 0 THEN 1 ELSE 0
      BY <1>1, <1>7, ComingSteps DEF Cost, LastClock
    <2> QED BY <2>1, <2>2 DEF Reading, Selected, NoAccess
  <1>8. ASSUME Reading(ch), ~LastClock
        PROVE  Reading(ch)' /\ Cost(ch) = Cost(ch)' + IF clk_div = 0 THEN 1 ELSE 0
    <2>1. access.left > 1
      BY <1>3, <1>8 DEF LastClock
    <2>2. access'.left = access.left - 1 /\ access'.kind = access.kind /\ access'.ch = access.ch
      BY <1>1, <2>1, CpuSteps
    <2>3. Reading(ch)'
      BY <1>8, <2>2 DEF Reading, Selected
    <2>4. Cost(ch)' = Coming(access.left - 1, clk_div')
      BY <2>2, <2>3 DEF Cost
    <2>5. /\ Coming(access.left - 1, clk_div') \in Nat
          /\ Cost(ch) = Coming(access.left, clk_div)
      BY <1>6, <1>8, <2>4 DEF Cost
    <2> QED BY <1>1, <1>3, <1>8, <2>3, <2>4, <2>5, ComingSteps
  <1> QED BY <1>5, <1>6, <1>7, <1>8

LEMMA OnTimeStays ==
    ASSUME PitTypes, Next, NEW ch \in Channels, NEW c \in Counter, NEW h,
           IsHistory(h), OnTime(ch, c, h),
           NEW d, d = ClockOf(ch, c), NEW g, g = Track(ch, c, h), g.reads < 3
    PROVE  /\ d.filled = 1 /\ d.latch = 0
           /\ g.lost + Cost(ch)' <=
                (IF Reading(ch)' THEN g.reads + 1 ELSE g.reads) * TicksIn(ReadHold)
  <1>1. Accesses
    BY DEF PitTypes
  <1>2. PICK k \in Nat : k = TicksIn(ReadHold)
    BY ReadTicks
  <1>3. IsHistory(g) /\ h.reads \in 0 .. 3 /\ h.lost \in Nat /\ g.reads \in 0 .. 2 /\ g.lost \in Nat
    BY <1>1, HistoryClock, ReadTicks DEF IsHistory, LostCount
  <1>4. Reads(ch, h) = IF Reading(ch) THEN h.reads + 1 ELSE h.reads
    BY DEF Reads
  <1>5. \A r \in 0 .. 2 : r * k \in Nat /\ (r + 1) * k = r * k + k
    BY <1>2
  <1>6. h.reads < 3 => /\ c.filled = 1 /\ c.latch = 0
                       /\ h.lost + Cost(ch) <= Reads(ch, h) * k
    BY <1>2 DEF OnTime
  <1>7. /\ Missed(h).reads = h.reads /\ DOMAIN Missed(h) = HistFields
        /\ Missed(h).lost \in Nat
        /\ Missed(h).lost <= h.lost + IF clk_div = 0 THEN 1 ELSE 0
        /\ clk_div # 0 => Missed(h).lost = h.lost
    <2>1. UpTo(h.lost, MaxLost) \in Nat /\ UpTo(h.lost, MaxLost) <= h.lost + 1
      BY Counters, ReadTicks DEF IsHistory, LostCount
    <2>2. /\ Missed(h).reads = h.reads /\ DOMAIN Missed(h) = HistFields
          /\ Missed(h).lost = IF clk_div = 0 /\ h.reads < 3 THEN UpTo(h.lost, MaxLost)
                              ELSE h.lost
      BY HistorySteps
    <2> QED BY <1>3, <2>1, <2>2
  <1>8. CASE ~Selected(ch)
    <2>1. ~Reading(ch) /\ Cost(ch) = 0
      BY <1>8 DEF Reading, Cost
    <2>2. SUFFICES d.filled = 1 /\ d.latch = 0 /\ g.lost <= g.reads * k
      <3>1. CASE Reading(ch)'
        <4>1. Cost(ch)' <= k /\ Cost(ch)' \in Nat
          BY <1>2, <2>1, <3>1, CostSteps
        <4>2. (g.reads + 1) * k = g.reads * k + k /\ g.reads * k \in Nat
          BY <1>3, <1>5
        <4>3. g.lost + Cost(ch)' <= (g.reads + 1) * k
          BY <1>2, <1>3, <2>2, <4>1, <4>2
        <4> QED BY <1>2, <2>2, <3>1, <4>3
      <3>2. CASE ~Reading(ch)'
        <4>1. Cost(ch)' = 0
          BY <3>2 DEF Cost
        <4> QED BY <1>2, <1>3, <2>2, <3>2, <4>1
      <3> QED BY <3>1, <3>2
    <2>3. CASE Ticks(c) /\ Tick(c).out # c.out
      <3>1. d.filled = c.filled /\ d.latch = c.latch
        BY <1>8, <2>3, TickKeeps DEF ClockOf
      <3>2. g.lost = 0 /\ g.reads = 0
        BY <1>8, <2>3 DEF Track, AfterTick, IsHistory, HistFields
      <3> QED BY <1>2, <2>3, <3>1, <3>2 DEF Ticks
    <2>4. CASE Ticks(c) /\ Tick(c).out = c.out
      <3>1. d.filled = c.filled /\ d.latch = c.latch
        BY <1>8, <2>4, TickKeeps DEF ClockOf
      <3>2. g.lost = h.lost /\ g.reads = h.reads
        BY <1>8, <2>4 DEF Track, AfterTick, IsHistory, HistFields
      <3> QED BY <1>3, <1>4, <1>6, <2>1, <2>4, <3>1, <3>2 DEF Ticks
    <2>5. CASE ~Ticks(c)
      <3>1. d = c /\ g = Missed(h)
        BY <1>8, <2>5 DEF ClockOf, Track
      <3>2. h.reads < 3 /\ c.filled = 1 /\ c.latch = 0
        BY <1>6, <1>7, <3>1
      <3>3. clk_div # 0
        BY <2>5, <3>2 DEF Ticks
      <3> QED BY <1>3, <1>4, <1>6, <1>7, <2>1, <3>1, <3>2, <3>3
    <2> QED BY <2>3, <2>4, <2>5
  <1>9. CASE Reading(ch)
    <2>1. d = Read(c) /\ g = AfterRead(h)
      BY <1>9 DEF Reading, ClockOf, Act, Track
    <2>2. d.filled = c.filled /\ (c.latch = 0 => d.latch = 0)
      BY <2>1 DEF Read, Counter
    <2>3. CASE ~LastClock
      <3>1. g = Missed(h)
        BY <2>1, <2>3 DEF AfterRead
      <3>2. Reading(ch)' /\ Cost(ch) = Cost(ch)' + (IF clk_div = 0 THEN 1 ELSE 0)
            /\ Cost(ch)' \in Nat
        BY <1>9, <2>3, CostSteps
      <3>3. g.reads = h.reads /\ g.lost <= h.lost + IF clk_div = 0 THEN 1 ELSE 0
        BY <1>7, <3>1
      <3>4. h.lost + Cost(ch) <= (h.reads + 1) * k
        BY <1>4, <1>6, <1>9, <3>3
      <3>5. g.lost + Cost(ch)' <= h.lost + Cost(ch)
        BY <1>3, <3>2, <3>3
      <3>6. (h.reads + 1) * k \in Nat /\ Cost(ch) \in Nat
        BY <1>3, <1>5, <3>2, <3>3
      <3>7. g.lost + Cost(ch)' <= (g.reads + 1) * k
        BY <1>3, <3>2, <3>3, <3>4, <3>5, <3>6
      <3> QED BY <1>2, <1>4, <1>6, <2>2, <3>2, <3>3, <3>7
    <2>4. CASE LastClock
      <3>1. h.reads < 2 /\ g = [Missed(h) EXCEPT !.reads = @ + 1]
        BY <1>3, <2>1, <2>4 DEF AfterRead, IsHistory, HistFields
      <3>2. ~Reading(ch)' /\ Cost(ch) = IF clk_div = 0 THEN 1 ELSE 0
        BY <1>9, <2>4, CostSteps
      <3>3. Cost(ch)' = 0
        BY <3>2 DEF Cost
      <3>4. g.lost = Missed(h).lost /\ g.reads = h.reads + 1
        BY <1>7, <3>1 DEF HistFields
      <3>5. g.lost <= h.lost + Cost(ch)
        BY <1>7, <3>2, <3>4
      <3>6. h.lost + Cost(ch) <= (h.reads + 1) * k
        BY <1>3, <1>4, <1>6, <1>9, <3>1
      <3>7. (h.reads + 1) * k \in Nat /\ Cost(ch) \in Nat
        BY <1>3, <1>5, <3>1, <3>2
      <3>8. PICK n \in Nat : n = (h.reads + 1) * k
        BY <3>7
      <3>9. g.lost + Cost(ch)' <= n /\ g.reads * k = n
        BY <1>3, <3>3, <3>4, <3>5, <3>6, <3>7, <3>8
      <3>10. d.filled = 1 /\ d.latch = 0
        BY <1>3, <1>6, <2>2, <3>1
      <3> QED BY <1>2, <3>2, <3>9, <3>10
    <2> QED BY <2>3, <2>4
  <1>10. CASE Selected(ch) /\ ~Reading(ch)
    <2>1. access.kind = "command" \/ Writing(ch)
      BY <1>1, <1>10 DEF Reading, Writing, Selected, Accesses
    <2>2. g.reads = 3
      BY <1>1, <1>10, <2>1, HistoryClock
    <2> QED BY <2>2
  <1> QED BY <1>8, <1>9, <1>10

LEMMA AllStayOnTime == PitInv /\ AllOnTime /\ [PitNext]_pitVars => AllOnTime'
  <1> SUFFICES ASSUME PitInv, AllOnTime, [PitNext]_pitVars PROVE AllOnTime'
    OBVIOUS
  <1>1. CASE PitNext
    <2>1. /\ PitTypes /\ Next
          /\ cntr' = [ch \in Channels |-> ClockOf(ch, cntr[ch])]
          /\ hist' = [ch \in Channels |-> Track(ch, cntr[ch], hist[ch])]
          /\ cntr \in [Channels -> Counter]
      BY <1>1 DEF PitNext, Next, PitInv, PitTypes
    <2>2. ASSUME NEW ch \in Channels, hist'[ch].reads < 3
          PROVE  /\ cntr'[ch].filled = 1 /\ cntr'[ch].latch = 0
                 /\ hist'[ch].lost + Cost(ch)' <=
                      (IF Reading(ch)' THEN hist'[ch].reads + 1 ELSE hist'[ch].reads)
                        * TicksIn(ReadHold)
      <3>1. IsHistory(hist[ch]) /\ OnTime(ch, cntr[ch], hist[ch])
        BY DEF PitInv, AllOnTime
      <3>2. /\ cntr[ch] \in Counter /\ cntr'[ch] = ClockOf(ch, cntr[ch])
            /\ hist'[ch] = Track(ch, cntr[ch], hist[ch])
        BY <2>1
      <3> QED BY <2>1, <2>2, <3>1, <3>2, OnTimeStays
    <2> QED BY <2>2 DEF AllOnTime, OnTime, Reads
  <1>2. CASE UNCHANGED pitVars
    BY <1>2 DEF pitVars, vars, AllOnTime, OnTime, Cost, Reads, Reading, Selected
  <1> QED BY <1>1, <1>2

\* By the divider, a half with two reads in it at most, and no write or latch
\* command, is longer by the ticks on the strobes of those reads and no more:
\* for any divider and any length of the strobes.
THEOREM HalvesAreTimed == PitSpec => HalvesAreOnTime
  <1> DEFINE Timed ==
        \A ch \in Channels, v \in Bit :
          LET c == cntr[ch]  h == hist[ch]
          IN  c.m \in {3, 7} /\ h.edges > 0 /\ c.init # 1 /\ Goes(ch, v) /\ h.reads < 3
                => h.since + 1 + h.lost \in
                     HalfOf(c, v) .. HalfOf(c, v) + h.reads * TicksIn(ReadHold)
  <1>1. PitInit => AllOnTime
    BY DEF PitInit, NewHistory, AllOnTime, OnTime
  <1>2. ASSUME PitInv, AllRepeat, AllOnTime, PitNext, NEW ch \in Channels,
               NEW c, c = cntr[ch], NEW h, h = hist[ch], c.m \in {3, 7}, h.edges > 0,
               c.init # 1, NEW v \in Bit, Goes(ch, v), h.reads < 3
        PROVE  h.since + 1 + h.lost \in
                 HalfOf(c, v) .. HalfOf(c, v) + h.reads * TicksIn(ReadHold)
    <2>1. IsHistory(h) /\ OnTime(ch, c, h)
      BY <1>2 DEF PitInv, AllOnTime
    <2>2. h.since + 1 = HalfOf(c, v)
      BY <1>2, HalfIsTimed
    <2>3. Cost(ch) = 0 /\ Reads(ch, h) = h.reads
      BY <1>2 DEF Goes, Cost, Reads, Reading
    <2>4. h.since \in Nat /\ h.lost \in Nat
      BY <2>1, ReadTicks, Widths DEF IsHistory, TickCount, LostCount, MaxTicks
    <2>5. h.lost + 0 <= h.reads * TicksIn(ReadHold)
      BY <1>2, <2>1, <2>3 DEF OnTime
    <2>6. PICK n \in Nat : n = h.reads * TicksIn(ReadHold)
      BY <2>1, ReadTicks DEF IsHistory
    <2> QED BY <2>2, <2>4, <2>5, <2>6
  <1>3. PitInv /\ AllRepeat /\ AllOnTime /\ [PitNext]_pitVars => [Timed]_pitVars
    BY <1>2
  <1>4. PitInv /\ AllRepeat /\ AllOnTime /\ [PitNext]_pitVars
          => PitInv' /\ AllRepeat' /\ AllOnTime'
    BY PitSteps, RepeatsStay, AllStayOnTime
  <1>5. HalvesAreOnTime <=> [][Timed]_pitVars
    BY DEF HalvesAreOnTime
  <1> HIDE DEF Timed
  <1> QED BY <1>1, <1>3, <1>4, <1>5, PitStarts, RepeatsStart, PTL DEF PitSpec

=============================================================================
