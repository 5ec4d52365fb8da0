----------------------------- MODULE PitSystem -----------------------------
(***************************************************************************)
(* What a program sees of the timer: Pit8253 with a history of the ticks   *)
(* each counter has counted and those it has missed, the bytes written to  *)
(* it and the reads of it.                                                 *)
(***************************************************************************)
EXTENDS Pit8253, FiniteSetsExt

VARIABLE hist
pitVars == <<vars, hist>>

\* The ticks that fall on a strobe of some length, at most.
TicksIn(clocks) == (clocks + Div - 1) \div Div

MaxTicks == Range16 + 1
MaxLost  == 2 * TicksIn(ReadHold) + 1
UpTo(n, max) == Min({n + 1, max})
NewHistory ==
    [since   |-> 0,        \* ticks counted since out last changed
     written |-> 0,        \* modes 0, 1, 4, 5: ticks since the last write
     edges   |-> 0,        \* changes of out since the last write
     reads   |-> 3,        \* reads since out last changed; 3 when there were
                           \* more than two, or a write or a latch command
     lost    |-> 0,        \* with two reads at most: ticks of the divider since
                           \* out last changed that the counter did not count
     bytes   |-> -1,       \* data bytes since the mode was set, the third
                           \* counts as the first; -1 before the first mode
     last    |-> 0]        \* the last of them

OneShot(c) == c.m \in {0, 1, 4, 5}
AfterTick(c, h) ==
    LET edge == Tick(c).out # c.out
    IN  [h EXCEPT !.since   = IF edge THEN 0 ELSE UpTo(@, MaxTicks),
                  !.written = IF OneShot(c) THEN UpTo(@, MaxTicks) ELSE 0,
                  !.edges   = IF edge THEN UpTo(@, 3) ELSE @,
                  !.reads   = IF edge THEN 0 ELSE @,
                  !.lost    = IF edge THEN 0 ELSE @]
Missed(h) == [h EXCEPT !.lost = IF clk_div = 0 /\ h.reads < 3 THEN UpTo(@, MaxLost) ELSE @]
AfterRead(h) ==
    IF ~LastClock    THEN Missed(h)
    ELSE IF h.reads < 2 THEN [Missed(h) EXCEPT !.reads = @ + 1]
    ELSE [h EXCEPT !.reads = 3, !.lost = 0]

\* A latch command starts the one-shots again, but no square wave.
Commanded(h) == [h EXCEPT !.written = 0, !.reads = 3, !.lost = 0]
Written(h) == [Commanded(h) EXCEPT !.edges = 0]
AfterCommand(h) == IF access.cmd.rl = 0 THEN Commanded(h)
                   ELSE [Written(h) EXCEPT !.bytes = 0, !.last = 0]
AfterByte(h) ==
    IF ~LastClock \/ h.bytes = -1 THEN Written(h)
    ELSE [Written(h) EXCEPT !.last = access.byte,
                            !.bytes = IF @ = 2 THEN 1 ELSE @ + 1]

Track(ch, c, h) ==
    IF ~Selected(ch) THEN IF Ticks(c) THEN AfterTick(c, h) ELSE Missed(h)
    ELSE CASE access.kind = "read"    -> AfterRead(h)
           [] access.kind = "command" -> AfterCommand(h)
           [] access.kind = "data"    -> AfterByte(h)

PitInit == Init /\ hist = [ch \in Channels |-> NewHistory]
PitNext == Next /\ hist' = [ch \in Channels |-> Track(ch, cntr[ch], hist[ch])]
PitSpec == PitInit /\ [][PitNext]_pitVars

-----------------------------------------------------------------------------
\* The count a program asks for: 0 stands for the whole range.
Asked(c) == IF c.init = 0 THEN Range16 ELSE c.init

\* Ticks of counter ch at which out goes to v.
Goes(ch, v) == /\ ~Selected(ch) /\ cntr[ch].out # v /\ cntr'[ch].out = v

\* Ticks in the half of a square wave that ends when out goes to v: for an odd N
\* one more when it was high.
HalfOf(c, v) == (Asked(c) + 1 - v) \div 2

\* Modes 3 and 7: from one edge of out to the next the counter counts N/2 ticks,
\* for an odd N one more high than low, whatever is read or latched in between
\* and wherever in a half the last write came.  (N = 1 is not a count of mode 3.)
SquareWaveHalves ==
    [][\A ch \in Channels, v \in Bit :
         LET c == cntr[ch]  h == hist[ch]
         IN  c.m \in {3, 7} /\ h.edges > 0 /\ c.init # 1 /\ Goes(ch, v)
               => h.since + 1 = HalfOf(c, v)]_pitVars

\* So much for the ticks it counts.  By the divider, a half in which nothing is
\* latched or written is longer by the ticks that fall on the strobes of the
\* reads in it, TicksIn(ReadHold) for each at most (one on the board), and by
\* nothing else: a read that has ended holds the counter no longer.
HalvesAreOnTime ==
    [][\A ch \in Channels, v \in Bit :
         LET c == cntr[ch]  h == hist[ch]
         IN  c.m \in {3, 7} /\ h.edges > 0 /\ c.init # 1 /\ Goes(ch, v) /\ h.reads < 3
               => h.since + 1 + h.lost \in
                    HalfOf(c, v) .. HalfOf(c, v) + h.reads * TicksIn(ReadHold)]_pitVars

\* Modes 2 and 6: out is low for one tick in N, from the third edge after the
\* last write on (the first may be the old count's).
RatePeriod ==
    [][\A ch \in Channels :
         LET c == cntr[ch]  h == hist[ch]
         IN  c.m \in {2, 6} /\ h.edges = 3 =>
               /\ Goes(ch, 1) => h.since = 0
               /\ Goes(ch, 0) => h.since + 1 = Asked(c) - 1]_pitVars

\* Modes 0 and 1 raise out, modes 4 and 5 drop it for one tick, on the N-th
\* tick after the one that loads the count, and only then.
OneShotIsTimed ==
    [][\A ch \in Channels :
         LET c == cntr[ch]  h == hist[ch]
         IN  /\ c.m \in {0, 1} /\ Goes(ch, 1) => h.written = Asked(c)
             /\ c.m \in {4, 5} /\ Goes(ch, 0) => h.written = Asked(c)
             /\ c.m \in {4, 5} /\ Goes(ch, 1) => h.written = 0 \/ h.since = 0]_pitVars

\* A counter of one-byte mode counts from the last byte the program wrote,
\* however long the strobe of the write was.
ByteIsProgrammed ==
    \A ch \in Channels :
      LET c == cntr[ch]  h == hist[ch]
      IN  access.kind = "none" /\ h.bytes > 0 =>
            /\ c.rl = 1 => c.filled = 1 /\ lo(c.init) = h.last
            /\ c.rl = 2 => c.filled = 1 /\ hi(c.init) = h.last

\* "state[1] = init reg filled": a counter of LSB/MSB mode that counts has been
\* given both bytes.
FilledIsWhole ==
    \A ch \in Channels :
      access.kind = "none" /\ cntr[ch].rl = 3 /\ cntr[ch].filled = 1
        /\ hist[ch].bytes >= 0 => hist[ch].bytes = 2
=============================================================================
