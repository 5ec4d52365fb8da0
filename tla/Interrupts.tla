---------------------------- MODULE Interrupts -----------------------------
(***************************************************************************)
(* How the 8088 takes NMI, INTR and the single-step trap: the latches of   *)
(* biu_min.v and eu.v, and the microcode that reads them between two       *)
(* instructions.  upc is the microcode address, in hexadecimal, of the     *)
(* next step; addresses whose work changes none of these registers are     *)
(* part of the step before them.  Of FLAGS only the bits that matter here  *)
(* are kept: I and T, and the two the microcode pulses, n = flags[12]      *)
(* (BIU_NMI_DEBOUNCE) and d = flags[5] (eu_tf_debounce).                   *)
(*                                                                         *)
(* A step of the module is a clock.  The EU moves on or not in a clock: a  *)
(* jump stalls it for one, and it waits for BIU_DONE, for a code byte and  *)
(* for the cycle counter.                                                  *)
(***************************************************************************)
EXTENDS Integers

CONSTANTS
    Program,      \* the kinds of instruction the program is made of
    Images,       \* the words IRET finds on the stack
    PopfImages    \* the words POPF finds there

Bit   == 0 .. 1
Flags == [i : Bit, t : Bit, n : Bit, d : Bit]

\* plain: any instruction that leaves these flags alone; string: an iteration
\* of a repeated string instruction; load: a load of a segment register.
Kinds == {"plain", "string", "sti", "cli", "popf", "iret", "load", "prefix",
          "int", "hlt"}

ASSUME InterruptsAssumption ==
    Program \subseteq Kinds /\ Images \subseteq Flags /\ PopfImages \subseteq Flags

VARIABLES
    upc, flags,
    nmi_d,                 \* <<nmi_d1, nmi_d2, nmi_d3>>
    nmi_caught, BIU_INTR,
    intr_enable_delayed,
    eu_flag_t_d, eu_tr_latched,
    serving,               \* history: what the EU last took, and
    sinceI, sinceT,        \* instructions since I and T last rose, and whether
    bit5                   \* a POPF popped a word with bit 5 set since T rose

euVars  == <<upc, flags>>
history == <<serving, sinceI, sinceT, bit5>>
vars    == <<euVars, nmi_d, nmi_caught, BIU_INTR, intr_enable_delayed,
             eu_flag_t_d, eu_tr_latched, history>>

-----------------------------------------------------------------------------
(* The latches, every clock. *)

\* The pin NMI is nmi; an edge beats the debounce.
CatchNmi(nmi) ==
    /\ nmi_d' = <<nmi, nmi_d[1], nmi_d[2]>>
    /\ nmi_caught' = IF nmi_d = <<1, 0, 0>> THEN 1
                     ELSE IF flags.n = 1 THEN 0
                     ELSE nmi_caught

new_instruction == upc = "1xx"
DelayIntr_AtOnce == intr_enable_delayed' = flags.i
\* The enable follows I when the next instruction begins, or when I falls.
DelayIntr == intr_enable_delayed' = IF flags.i = 0 THEN 0
                                    ELSE IF new_instruction THEN 1
                                    ELSE intr_enable_delayed

LatchTrap ==
    /\ eu_flag_t_d' = flags.t
    /\ eu_tr_latched' = IF eu_flag_t_d = 0 /\ flags.t = 1 THEN 1
                        ELSE IF flags.d = 1 THEN 0
                        ELSE eu_tr_latched

intr_asserted == BIU_INTR = 1 /\ intr_enable_delayed = 1

-----------------------------------------------------------------------------
(* The microcode. *)

Goto(a, b) == upc = a /\ upc' = b
Keep == UNCHANGED flags
Debounced(f) == [f EXCEPT !.n = 0, !.d = 0]

\* 004 .. 013, between instructions: NMI, then INTR, then the trap, and the
\* next instruction if its first byte is in the queue.
Boundary ==
    \/ Goto("004", "006") /\ flags' = Debounced(flags)
    \/ Goto("006", IF nmi_caught = 1 THEN "53a" ELSE "008") /\ Keep
    \/ Goto("008", IF intr_asserted THEN "562" ELSE "00a") /\ Keep
    \/ Goto("00a", IF eu_tr_latched = 1 THEN "545" ELSE "011") /\ Keep
    \/ Goto("011", "006") /\ Keep
Dispatch == Goto("011", "1xx") /\ Keep

\* Instructions that end at 045 and go through the boundary, and the string
\* instruction, which comes back to 006 after an iteration.
Checked ==
    \/ "plain"  \in Program /\ Goto("1xx", "045") /\ Keep
    \/ "string" \in Program /\ Goto("1xx", "006") /\ Keep
    \/ "sti" \in Program /\ Goto("1xx", "045") /\ flags' = [flags EXCEPT !.i = 1]
    \/ "cli" \in Program /\ Goto("1xx", "045") /\ flags' = [flags EXCEPT !.i = 0]
    \/ "popf" \in Program /\ Goto("1xx", "499") /\ Keep
    \/ "int"  \in Program /\ Goto("1xx", "4f4") /\ Keep
    \/ "hlt"  \in Program /\ Goto("1xx", "205") /\ Keep
    \/ Goto("045", "004") /\ Keep

\* Instructions after which the next one starts unchecked, once its first
\* byte is there: 474 .. 478 and 748 .. 74a.
Unchecked ==
    \/ "load"   \in Program /\ Goto("1xx", "474") /\ Keep
    \/ "prefix" \in Program /\ Goto("1xx", "748") /\ Keep
    \/ "iret"   \in Program /\ Goto("1xx", "531") /\ Keep
    \/ Goto("474", "1xx") /\ flags' = Debounced(flags)
    \/ Goto("748", "1xx") /\ Keep

\* POPF writes the popped word to FLAGS, then masks it.
Popf ==
    \/ \E w \in PopfImages : Goto("499", "49a") /\ flags' = w
    \/ Goto("49a", "045") /\ flags' = Debounced(flags)
Iret_Unmasked ==
    \/ Goto("531", "532") /\ flags' = [i |-> 0, t |-> 0, n |-> 0, d |-> 0]
    \/ \E w \in Images : Goto("532", "474") /\ flags' = w
Iret_ToBoundary ==
    \/ Goto("531", "532") /\ flags' = [i |-> 0, t |-> 0, n |-> 0, d |-> 0]
    \/ \E w \in Images : Goto("532", "004") /\ flags' = Debounced(w)
\* IRET masks it first, clears FLAGS, and sets it.
Iret ==
    \/ Goto("531", "532") /\ flags' = [i |-> 0, t |-> 0, n |-> 0, d |-> 0]
    \/ \E w \in Images : Goto("532", "474") /\ flags' = Debounced(w)

Hlt_NoNmi ==
    \/ Goto("205", "207") /\ Keep
    \/ Goto("207", IF intr_asserted THEN "562" ELSE "20b") /\ Keep
    \/ Goto("20b", "205") /\ Keep
Hlt_NoIntr ==
    \/ Goto("205", "209") /\ Keep
    \/ Goto("209", IF nmi_caught = 1 THEN "53a" ELSE "20b") /\ Keep
    \/ Goto("20b", "205") /\ Keep
Hlt ==
    \/ Goto("205", "207") /\ Keep
    \/ Goto("207", IF intr_asserted THEN "562" ELSE "209") /\ Keep
    \/ Goto("209", IF nmi_caught = 1 THEN "53a" ELSE "20b") /\ Keep
    \/ Goto("20b", "205") /\ Keep

\* The three ways in, and INT: push FLAGS, clear I and T, read the vector.
ServeNmi ==
    \/ Goto("53a", "53d") /\ Keep
    \/ Goto("53d", "53e") /\ flags' = [flags EXCEPT !.n = 1]
    \/ Goto("53e", "4f4") /\ flags' = [flags EXCEPT !.n = 0]
ServeTrap_NoPulse ==
    \/ Goto("545", "548") /\ Keep
    \/ Goto("548", "549") /\ Keep
    \/ Goto("549", "4f4") /\ Keep
ServeTrap ==
    \/ Goto("545", "548") /\ Keep
    \/ Goto("548", "549") /\ flags' = [flags EXCEPT !.d = 1]
    \/ Goto("549", "4f4") /\ flags' = [flags EXCEPT !.d = 0]
ServeIntr == Goto("562", "4f4") /\ Keep       \* two INTA cycles
Vector_KeepT ==
    \/ Goto("4f4", "4f8") /\ Keep
    \/ Goto("4f8", "514") /\ flags' = [flags EXCEPT !.i = 0]
    \/ Goto("514", "004") /\ Keep
Vector ==
    \/ Goto("4f4", "4f8") /\ Keep
    \/ Goto("4f8", "514") /\ flags' = [flags EXCEPT !.i = 0, !.t = 0]
    \/ Goto("514", "004") /\ Keep

EuMoves == \/ Boundary \/ Dispatch \/ Checked \/ Unchecked \/ Popf \/ Iret \/ Hlt
           \/ ServeNmi \/ ServeTrap \/ ServeIntr \/ Vector

-----------------------------------------------------------------------------
\* Reset: the microcode starts at 020 and comes to 004.
Init ==
    /\ upc = "004" /\ flags = [i |-> 0, t |-> 0, n |-> 0, d |-> 0]
    /\ nmi_d = <<0, 0, 0>> /\ nmi_caught = 0 /\ BIU_INTR = 0
    /\ intr_enable_delayed = 0 /\ eu_flag_t_d = 0 /\ eu_tr_latched = 0
    /\ serving = "none" /\ sinceI = 0 /\ sinceT = 0 /\ bit5 = 0

Latches == /\ \E nmi \in Bit : CatchNmi(nmi)
           /\ BIU_INTR' \in Bit
           /\ DelayIntr /\ LatchTrap

Counted(n, f, g) == IF f = 0 /\ g = 1 THEN 0
                    ELSE IF upc = "1xx" /\ upc' # "1xx" /\ n < 2 THEN n + 1
                    ELSE n
\* A POPF that sets T counts itself: it ends at the boundary.
Track ==
    /\ serving' = CASE upc' = "53a" -> "nmi"
                    [] upc' = "562" -> "intr"
                    [] upc' = "545" -> "trap"
                    [] upc' = "1xx" -> "none"
                    [] OTHER        -> serving
    /\ sinceI' = Counted(sinceI, flags.i, flags'.i)
    /\ sinceT' = IF upc = "499" /\ flags.t = 0 THEN 1
                 ELSE Counted(sinceT, flags.t, flags'.t)
    /\ bit5' = IF flags'.t = 0 THEN 0
               ELSE IF upc' = "49a" /\ flags'.d = 1 THEN 1 ELSE bit5

EuClock  == Latches /\ EuMoves /\ Track
EuStalls == Latches /\ UNCHANGED <<euVars, history>>
Next == EuClock \/ EuStalls
Spec == Init /\ [][Next]_vars

\* The EU does not wait for ever, the queue is not empty each time it looks,
\* and no program is an endless run of prefixes and segment loads.
EuFairness == /\ WF_vars(EuClock)
              /\ SF_vars(Latches /\ Dispatch /\ Track)
              /\ SF_vars(Latches /\ Checked /\ Track)
FairSpec == Spec /\ EuFairness

-----------------------------------------------------------------------------
(* Properties. *)

Addresses == {"004", "006", "008", "00a", "011", "045", "1xx", "205", "207",
              "209", "20b", "474", "499", "49a", "4f4", "4f8", "514", "531",
              "532", "53a", "53d", "53e", "545", "548", "549", "562", "748"}

\* The latches are bits, and upc stays in the microcode that is modelled.
TypeOK ==
    /\ upc \in Addresses /\ flags \in Flags
    /\ nmi_d \in [1 .. 3 -> Bit]
    /\ {nmi_caught, BIU_INTR, intr_enable_delayed, eu_flag_t_d,
        eu_tr_latched} \subseteq Bit
    /\ serving \in {"none", "nmi", "intr", "trap"}
    /\ sinceI \in 0 .. 2 /\ sinceT \in 0 .. 2 /\ bit5 \in Bit

\* "NMI caught on it's rising edge": what was caught stays caught until the
\* microcode takes it.
NmiIsKept == [][nmi_caught = 1 /\ nmi_caught' = 0 => serving = "nmi"]_vars

\* The word a POPF popped is on FLAGS, not masked yet, and has bit 12 set.
PopfDrops == upc = "49a" /\ flags.n = 1

\* That POPF is all that can drop an NMI: no service of an INTR or a trap, no
\* IRET, whatever word it finds, and no other instruction touches the latch.
NmiIsKeptButByPopf ==
    [][nmi_caught = 1 /\ nmi_caught' = 0 => serving = "nmi" \/ PopfDrops]_vars

\* An interrupt is taken with I set, and not before the instruction after the
\* one that set it has begun: STI; HLT and POPF; RET are safe.
IntrAfterShadow == upc = "562" => flags.i = 1 /\ sinceI >= 1

\* Wherever the program sets T, the trap is armed when the instruction that runs
\* with T set comes to the boundary, unless a POPF popped a word with bit 5 set
\* since T rose: 49A masks the bit a clock later, when it has disarmed the trap,
\* for as long as T stays set.
TrapIsArmed == upc = "004" /\ flags.t = 1 => eu_tr_latched = 1 \/ bit5 = 1

\* The instruction after the IRET that sets T runs before the trap, whatever
\* NMI and INTR come in between.
TrapStepsOne == upc = "545" => sinceT >= 1

\* A trap is taken once for a T: T has fallen or the trap is armed anew before
\* the boundary is reached again.
TrapIsTakenOnce == upc = "004" /\ serving = "trap" => eu_tr_latched = 0

\* An NMI that is caught is taken, out of HLT too, if no POPF drops it.
NmiIsTaken == nmi_caught = 1 ~> serving = "nmi" \/ PopfDrops

\* INTR is not held for ever with I set and nothing done about it.
IntrIsTaken == []<>~(BIU_INTR = 1 /\ flags.i = 1)

-----------------------------------------------------------------------------
(* The inductive invariant behind the state properties, whatever POPF and  *)
(* IRET pop.                                                               *)

\* The pulses: up at one address each, and where POPF has not masked its word.
Pulses == /\ flags.n = 1 => (upc = "53e" /\ serving = "nmi") \/ upc = "49a"
          /\ flags.d = 1 => upc \in {"549", "49a"}
          /\ upc = "549" => flags.d = 1
\* The enable outlives I for one clock, and precedes nothing but a dispatch.
Enable == /\ intr_enable_delayed = 1 /\ flags.i = 0
               => upc \in {"045", "49a", "532", "514"}
          /\ intr_enable_delayed = 1 /\ flags.i = 1
               => sinceI >= 1 \/ upc = "1xx"
\* T rises at two addresses only; the latch follows a clock later, and is
\* clear in the service of a trap from the pulse on, and after bit 5 was popped.
Armed  == /\ flags.t = 1 /\ eu_flag_t_d = 0 => upc \in {"49a", "474"}
          /\ flags.t = 1 /\ eu_flag_t_d = 1 /\ eu_tr_latched = 0
               => (serving = "trap" /\ upc \in {"549", "4f4", "4f8"}) \/ bit5 = 1
          /\ upc = "49a" /\ flags.t = 1 /\ flags.d = 1 => bit5 = 1
\* What was taken last tells where the EU can be.
Served == /\ serving = "trap" =>
               /\ upc \in {"545", "548", "549", "4f4", "4f8", "514", "004",
                           "006", "008", "00a", "011"}
               /\ upc \in {"4f4", "4f8", "514", "004"} => eu_tr_latched = 0
          /\ upc \in {"545", "548", "549"} => serving = "trap"
          /\ upc \in {"53a", "53d", "53e"} => serving = "nmi"
          /\ upc \in {"514", "532"} => flags.i = 0 /\ flags.t = 0
          /\ serving = "trap" /\ upc \in {"004", "006", "008", "00a", "011"}
               => flags.t = 0

\* The inductive invariant: it holds at reset and every clock keeps it.
IInv == TypeOK /\ Pulses /\ Enable /\ Armed /\ Served /\ IntrAfterShadow

\* With T set, or the trap still armed, an instruction has begun and ended since T
\* rose, or is on its way: what TrapStepsOne rests on, for any POPF.
Stepped == /\ flags.t = 1 \/ eu_tr_latched = 1 => sinceT >= 1 \/ upc \in {"474", "1xx"}
           /\ upc = "532" => flags.t = 0
           /\ TrapStepsOne
=============================================================================
