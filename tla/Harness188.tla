----------------------------- MODULE Harness188 -----------------------------
(***************************************************************************)
(* The V188 on a board.  The board "main" is main.cpp: memory and ports    *)
(* answer in the clock of the request and nothing interrupts.  The board   *)
(* "slow" stands for hardware outside the repository that uses the same    *)
(* pins: it may hold ready low or keep a port waiting for up to MaxWait    *)
(* clocks, and raises interrupts.                                          *)
(*                                                                         *)
(* main.cpp stops after 100 half clocks; here it goes on, so that longer   *)
(* programs, the ones memLoadCom is for, come to their end, a jump to      *)
(* itself.                                                                 *)
(***************************************************************************)
EXTENDS V188

CONSTANTS
    Programs,     \* .COM files: sequences of bytes, loaded at 100h
    Boards,       \* "main", "slow"
    MaxWait,      \* clocks the slow board may let an access wait
    IrqLines      \* the lines it raises interrupts on

ASSUME BoardAssumption ==
    /\ Boards \subseteq {"main", "slow"} /\ MaxWait \in Nat /\ IrqLines \subseteq Lines

VARIABLES
    board,
    clk,          \* iClk
    i,            \* the loop counter, held from RunAt on
    memory,
    seen,         \* oMRd, oMWr, oPRd and oPWr of state_t
    shown,        \* ax .. ip of state_t: the registers last printed
    wait,         \* clocks the present access has been kept waiting
    arch,         \* history: what the last instruction left behind
    io            \* history: the port accesses since

boardVars == <<board, memory, seen, shown, wait, io, pin, dv>>
vars == <<coreVars, boardVars, clk, i, arch>>

\* No line: None of Isa188.
NotTaking == 255

RunAt == 11       \* iReset is high when i > 10
PortByteIn == \hCC

-----------------------------------------------------------------------------
(* main(): a rising edge. *)

\* An access is asked for while its toggle is not the one seen.
Asked(line) == strobe[line] # seen[line]

\* Every access asked for is answered, the read of memory before the write.
Serve ==
    /\ seen' = strobe /\ wait' = 0
    /\ pin' = [pin EXCEPT
                 !.reset = IF i >= RunAt THEN 1 ELSE 0,
                 !.ready = 1,
                 !.prd   = IF Asked("prd") THEN strobe.prd ELSE @,
                 !.iodin = IF Asked("prd") THEN PortByteIn ELSE @,
                 !.pwr   = IF Asked("pwr") THEN strobe.pwr ELSE @,
                 !.din   = IF Asked("mrd") THEN Peek(memory, a) ELSE @]
    /\ memory' = IF Asked("mwr") THEN Poke(memory, a, <<dout>>) ELSE memory

\* The slow board: nothing is answered in this clock, and ready is low if it
\* is the memory that keeps the core waiting.
Delay ==
    /\ board = "slow" /\ \E line \in DOMAIN strobe : Asked(line)
    /\ wait < MaxWait /\ wait' = wait + 1
    /\ pin' = [pin EXCEPT !.ready = IF Asked("mrd") \/ Asked("mwr") THEN 0 ELSE 1]
    /\ UNCHANGED <<seen, memory>>

\* An interrupt is asked for by toggling a line whose last was acknowledged.
Raise(k) ==
    /\ board = "slow" /\ k \in IrqLines /\ pin.reset = 1 /\ pin.irq[k] = irqout[k]
    /\ pin' = [pin EXCEPT !.irq[k] = 1 - @]
    /\ UNCHANGED <<coreVars, board, memory, seen, shown, wait, io, dv, clk, i, arch>>

\* Each register that is not as it was last printed is printed.
dumpState == shown' = [x \in DOMAIN shown |-> IF reg[x] # shown[x] THEN reg[x] ELSE shown[x]]

\* The port accesses served, in the order main.cpp looks at them.
Accesses == (IF Asked("prd") THEN <<<<"in", dp.port, PortByteIn>>>> ELSE <<>>)
            \o (IF Asked("pwr") THEN <<<<"out", dp.port, iodout>>>> ELSE <<>>)

Rise ==
    /\ clk = 0 /\ clk' = 1 /\ i' = IF i < RunAt THEN i + 1 ELSE i
    /\ DividerClock
    /\ Serve \/ Delay
    /\ io' = IF seen' = strobe THEN io \o Accesses ELSE io
    /\ dumpState
    /\ UNCHANGED <<coreVars, board, arch>>

Fall ==
    /\ clk = 1 /\ clk' = 0 /\ i' = IF i < RunAt THEN i + 1 ELSE i
    /\ Clock
    /\ LET end == pin.reset = 1 /\ state = "FETCH" /\ u.op = "end"
           took == {k \in Lines : irqout'[k] # irqout[k]}
       IN /\ arch' = IF end
                     THEN [r |-> reg, m |-> memory, io |-> io, en |-> irqs_enabled',
                           taking |-> IF took = {} THEN NotTaking ELSE CHOOSE k \in took : TRUE]
                     ELSE arch
          /\ io' = IF end THEN <<>> ELSE io
    /\ UNCHANGED <<board, memory, seen, shown, wait, pin, dv>>

\* memory.fill, memWrite of the reset vector, and a program at 100h.
ResetVector == <<\hEA, 0, 1, 0, 0>>
memLoadCom(mem, com) == Poke(mem, \h100, com)
Loaded(com) == memLoadCom(Poke(<<>>, \hFFFF0, ResetVector), com)

\* The static state: all zero.
state_t == [regs |-> [x \in RegNames |-> 0], seen |-> [line \in DOMAIN strobe |-> 0]]

Init ==
    /\ board \in Boards /\ clk = 0 /\ i = 0 /\ wait = 0 /\ io = <<>>
    /\ \E com \in Programs : memory = Loaded(com)
    /\ CoreInit
    /\ seen = state_t.seen /\ shown = state_t.regs
    /\ pin = [reset |-> 0, ready |-> 0, din |-> 0, iodin |-> 0, prd |-> 0, pwr |-> 0,
              irq |-> [k \in Lines |-> 0]]
    /\ arch = [r |-> [reg EXCEPT !.cs = 65535, !.flags = \hF002], m |-> memory,
               io |-> <<>>, en |-> FALSE, taking |-> NotTaking]

Next == Rise \/ Fall \/ \E k \in IrqLines : Raise(k)

Spec == Init /\ [][Next]_vars /\ WF_vars(Rise \/ Fall)

-----------------------------------------------------------------------------
(* Properties. *)

\* Taken together, the micro-operations, the bus states, the toggles and the
\* board do what the instruction set says: every instruction leaves the
\* registers, the memory and the ports as its definition does in one step,
\* and interrupts come only between instructions.
Programmer == INSTANCE Isa188
    WITH r <- arch.r, m <- arch.m, io <- arch.io, en <- arch.en, taking <- arch.taking,
         PortIn <- PortByteIn
ImplementsIsa == Programmer!IsaSpec

\* When the core takes a byte, the byte is that of the address on its pins now:
\* the answer is not for an earlier request.
ByteIsAnswered ==
    clk = 1 /\ pin.reset = 1 /\ pin.ready = 1 /\ state \in ReadStates
        => seen.mrd = strobe.mrd /\ pin.din = Peek(memory, a)

\* A toggle that flips twice before it is seen is an access lost: at most one
\* access is under way, and none is toggled before the last was served.
NoAccessIsLost ==
    [][\A line \in DOMAIN strobe : strobe[line] # strobe'[line] =>
          \A other \in DOMAIN strobe : ~Asked(other)]_vars

\* A request on line 0 that finds interrupts open is taken: the highest line
\* cannot be starved, however long the other lines and the memory keep the
\* core busy.
HighestIsTaken == 0 \in Pending ~> pin.irq[0] = irqout[0]

\* The operands that the core holds before the divider.
Signed == mc.op = "idiv"
Dividend == pos_denom(stack[2], stack[1], Signed)
Divisor  == pos_num(stack[3], Signed)
\* They are words, and the quotient of their magnitudes has 16 bits.
Fits == (\A j \in 1 .. 3 : stack[j] \in 0 .. Word - 1) /\ Dividend \div Divisor < Word
Answer(w) == IF Signed /\ sign(stack[2], stack[3]) THEN Neg16(w) ELSE w

\* Whatever the core, its clocks and the interrupts do in between, the answer it
\* waits for is the quotient and the remainder of the magnitudes of the operands
\* it holds then, both of them negated if their signs differ.  (An 8086 gives
\* the remainder the sign of the dividend.)
DivisionIsRight ==
    state = "DIV" /\ dv.run_out = div_run_out /\ Fits
        => dv.q = Answer(Dividend \div Divisor) /\ dv.r = Answer(Dividend % Divisor)

(* The inductive invariant behind the two properties of the accesses. *)

Toggles == {"mrd", "mwr", "prd", "pwr"}
StatesOf(line) == CASE line = "mrd" -> ReadStates
                    [] line = "mwr" -> WriteStates
                    [] line = "prd" -> {"READ_IO", "READ_IO2"}
                    [] line = "pwr" -> {"WRITE_IO", "WRITE_IO2"}
Idle == \A line \in Toggles : ~Asked(line)

Wires ==
    /\ strobe \in [Toggles -> {0, 1}] /\ seen \in [Toggles -> {0, 1}]
    /\ DOMAIN pin = {"reset", "ready", "din", "iodin", "prd", "pwr", "irq"}
    /\ pin.reset \in {0, 1} /\ pin.ready \in {0, 1}
    /\ clk \in {0, 1} /\ i \in 0 .. RunAt

\* An access is asked for in its states only; one whose byte is awaited is
\* asked for until the rising edge that serves it.
AccessInv ==
    /\ Wires
    /\ \A line \in Toggles : Asked(line) => state \in StatesOf(line)
    /\ pin.prd = seen.prd /\ pin.pwr = seen.pwr
    /\ IF pin.reset = 1 THEN i = RunAt ELSE Idle /\ state = "EXECUTE"
    /\ clk = 1 /\ pin.ready = 1 /\ state \in ReadStates \cup WriteStates => Idle
    /\ state \in ReadStates /\ (clk = 0 \/ pin.ready = 0) => Asked("mrd")
    /\ ByteIsAnswered

(* The inductive invariant behind DivisionIsRight. *)

DivideOps == {"div", "idiv"}

\* The operands are loaded in the clock before the start.
OperandsLoaded ==
    /\ dv.v = Dividend /\ dv.res = 0 /\ dv.m = Msb /\ dv.bm = Divisor * Msb
    /\ dv.phase = 0

\* After each phase the quotient lacks its bits below Weight: what is left of the
\* dividend is fewer than that many divisors.
Weights == <<65536, 32768, 16384, 8192, 4096, 2048, 1024, 512, 256, 128, 64, 32, 16, 8, 4, 2, 1>>
Weight == Weights[dv.phase + 1]
QuotientSoFar ==
    /\ dv.phase \in 0 .. 16 /\ dv.m = Weight \div 2
    /\ dv.phase < 16 => dv.bm = Divisor * dv.m
    /\ dv.res \in Nat /\ dv.res % Weight = 0
    /\ dv.v \in Nat /\ dv.v \div Divisor < Weight
    /\ dv.res * Divisor + dv.v = Dividend

DivisionInv ==
    /\ clk \in {0, 1} /\ dv.run_out \in {0, 1} /\ div_run_out \in {0, 1}
    /\ DOMAIN dv = {"run_out", "v", "bm", "phase", "q", "r", "m", "res"}
    /\ state # "DIV" => dv.run_out = div_run_out
    /\ state = "EXECUTE" /\ mc.op \in DivideOps /\ clk = 1 => OperandsLoaded
    /\ state = "DIV" => /\ mc.op \in DivideOps /\ stack[3] # 0
                        /\ IF dv.run_out = div_run_out THEN clk = 1
                           ELSE Fits => QuotientSoFar
    /\ DivisionIsRight
=============================================================================
