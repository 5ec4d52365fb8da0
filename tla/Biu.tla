-------------------------------- MODULE Biu --------------------------------
(***************************************************************************)
(* The Bus Interface Unit of the MCL86 core (mcl86/rtl/system/cpu/         *)
(* biu_min.v), one step per rising edge of CORE_CLK_INT.  The unit         *)
(* prefetches code bytes into a four byte queue, runs the bus cycles the   *)
(* Execution Unit (EU) asks for, and applies the EU's one clock strobes.   *)
(* BiuClock is the whole clocked block; the module has no specification of *)
(* its own, BiuSystem puts an EU and a board around it.                    *)
(*                                                                         *)
(* Data is abstracted to its origin: a byte read from the bus is the pair  *)
(* <<space, address>> it was read from, a byte written is <<"lo", w>> or   *)
(* <<"hi", w>> of the EU's word w.  Addresses keep their arithmetic, with  *)
(* the widths 2^16 (offsets), 2^4 (a paragraph) and 2^20 (AD_OUT) as       *)
(* constants.  Blocking out the data this way leaves all of the control:   *)
(* every register below that the control depends on has its own variable.  *)
(***************************************************************************)
EXTENDS Naturals

CONSTANTS
    AddrSpace,    \* offsets are 0 .. AddrSpace-1                (2^16)
    Para,         \* {segment, 4'h0} is segment * Para           (2^4)
    PhysSpace     \* physical addresses are 0 .. PhysSpace-1     (2^20)

ASSUME WidthAssumption ==
    /\ AddrSpace \in Nat /\ AddrSpace >= 8 /\ AddrSpace % 8 = 0
    /\ Para \in Nat \ {0}
    /\ PhysSpace \in Nat \ {0} /\ PhysSpace % AddrSpace = 0

Offset   == 0 .. AddrSpace - 1
PhysAddr == 0 .. PhysSpace - 1
Bit      == {0, 1}

\* biu_register_es, _ss, _cs, _ds, _rm and _reg
SegReg == {"es", "ss", "cs", "ds", "rm", "reg"}

\* EU_BIU_COMMAND[8:4] for the requests the state machine decodes.
ReqCode == {"INTA",                               \* 16
            "IORD8", "IORD16", "IOWR8", "IOWR16", \* 08, 1A, 0A, 1C
            "HALT",                               \* 18
            "MRD8", "MRD16", "SRD16", "VRD16",    \* 0C, 10, 11, 12
            "MWR8", "MWR16", "SWR16",             \* 0E, 13, 14
            "JUMP"}                               \* 19

\* s_bits.  Bit 1 is set for the cycles in which the BIU drives the bus,
\* bit 2 for those that address memory.
Status == {"inta", "iord", "iowr", "halt", "code", "mrd", "mwr", "idle"}
S1(s)  == IF s \in {"iowr", "halt", "mwr", "idle"} THEN 1 ELSE 0
S2(s)  == IF s \in {"code", "mrd", "mwr", "idle"}  THEN 1 ELSE 0
Not(b) == 1 - b

\* Where a byte came from.
Space == {"mem", "vram", "io", "inta", "lo", "hi", "zero", "junk"}
Byte  == Space \X Nat
Junk  == <<"junk", 0>>
Zero  == <<"zero", 0>>

-----------------------------------------------------------------------------
VARIABLES
    \* Driven by the EU.
    cmd,                  \* EU_BIU_COMMAND: [strobe, req, code, seg, reg]
    dataout,              \* EU_BIU_DATAOUT
    r3,                   \* EU_REGISTER_R3
    \* The queue.
    pfq_addr_in, pfq_addr_out, pfq_addr_out_d1,
    pfq_entry,            \* pfq_entry0 .. pfq_entry3
    pfq_top_byte_int_d1,
    \* Request capture, segment registers and input pipelines.
    eu_register_r3_d, eu_biu_req_d1, eu_biu_req_caught,
    biu_register,         \* [SegReg -> Offset]
    ad_in_int,
    ready_d,              \* <<ready_d1, ready_d2, ready_d3>>
    clk_d,                \* <<clk_d1, clk_d2, clk_d3, clk_d4>>
    \* Written by the bus state machine.
    biu_state, s_bits, word_cycle, byte_num, addr_out_temp,
    latched_data_in, pfq_write, biu_done_int,
    biu_return_int,       \* biu_return_data_int as [lo, hi]
    pin,                  \* the output pins
    \* The delayed copy the EU reads.
    biu_return_d          \* <<biu_return_data_int_d1, ..._d2>>

cmdVars  == <<cmd, dataout, r3>>
pfqVars  == <<pfq_addr_in, pfq_addr_out, pfq_addr_out_d1, pfq_entry,
              pfq_top_byte_int_d1>>
pipeVars == <<eu_register_r3_d, eu_biu_req_d1, eu_biu_req_caught,
              biu_register, ad_in_int, ready_d, clk_d, biu_return_d>>
seqVars  == <<biu_state, s_bits, word_cycle, byte_num, addr_out_temp,
              latched_data_in, pfq_write, biu_done_int, biu_return_int, pin>>
biuVars  == <<pfqVars, pipeVars, seqVars>>

Command == [strobe : {"none", "fetch", "seg"}, req : Bit, code : ReqCode,
            seg : {"es", "ss", "cs", "ds"}, reg : SegReg]
Word    == [lo : Byte, hi : Byte]
Pins    == [ALE : Bit, RD_n : Bit, WR_n : Bit, INTA_n : Bit, DEN : Bit,
            IOM : Bit, DTR : Bit, AD_OE : Bit, addr : PhysAddr, data : Byte]

-----------------------------------------------------------------------------
(* Addresses.  A definition whose name ends in a suffix, Name_Suffix, is a  *)
(* mutated form of Name: the specification does not use it.                *)

\* {segment, 4'h0} + offset, kept to the width of AD_OUT.
Phys(seg, off) == (seg * Para + off) % PhysSpace

NextByte_Same(a) == a
\* addr_out_temp[15:0] + 1 leaves addr_out_temp[19:16] alone.
NextByte(a) == IF a % AddrSpace = AddrSpace - 1
               THEN a - (AddrSpace - 1) ELSE a + 1

\* pfq_addr_in + 1 and pfq_addr_out + 1 are 16 bits wide.
IncOffset(x) == IF x = AddrSpace - 1 THEN 0 ELSE x + 1

(* The queue's flags compare bit 2 and bits [1:0] of the two addresses. *)
Slot(x)    == x % 4
Bit2(x)    == (x \div 4) % 2
pfq_full_LowBits == Slot(pfq_addr_in) = Slot(pfq_addr_out)
pfq_full   == /\ Bit2(pfq_addr_in) # Bit2(pfq_addr_out)
              /\ Slot(pfq_addr_in) = Slot(pfq_addr_out)
pfq_empty  == /\ Bit2(pfq_addr_in) = Bit2(pfq_addr_out)
              /\ Slot(pfq_addr_in) = Slot(pfq_addr_out)
pfq_top_byte_int_Late == pfq_entry[Slot(pfq_addr_out_d1)]
pfq_top_byte_int == pfq_entry[Slot(pfq_addr_out)]

clk_rising == clk_d[4] = 0 /\ clk_d[3] = 0 /\ clk_d[2] = 1

\* A jump the BIU has caught holds both queue addresses at the target.
JumpCaught == eu_biu_req_caught = 1 /\ cmd.code = "JUMP"

LoByte(w) == <<"lo", w>>
HiByte(w) == <<"hi", w>>

-----------------------------------------------------------------------------
(* Reset.  cmd, dataout and r3 are the EU's.  ALE and the delay registers  *)
(* that the reset block leaves out hold whatever they held: ALE is any     *)
(* level, the delayed return data is junk.                                 *)

BiuInit ==
    /\ pfq_addr_in = 0 /\ pfq_addr_out = 0 /\ pfq_addr_out_d1 = 0
    /\ pfq_entry = [i \in 0 .. 3 |-> Zero]
    /\ pfq_top_byte_int_d1 = Junk
    /\ eu_register_r3_d = 0 /\ eu_biu_req_d1 = 0 /\ eu_biu_req_caught = 0
    /\ biu_register = [s \in SegReg |-> IF s = "cs" THEN AddrSpace - 1 ELSE 0]
    /\ ad_in_int = Zero /\ latched_data_in = Zero
    /\ ready_d = <<0, 0, 0>> /\ clk_d = <<0, 0, 0, 0>>
    /\ biu_state = \hD0 /\ s_bits = "idle"
    /\ word_cycle = 0 /\ byte_num = 0 /\ addr_out_temp = 0
    /\ pfq_write = 0 /\ biu_done_int = 0
    /\ biu_return_int = [lo |-> Zero, hi |-> Zero]
    /\ biu_return_d = <<[lo |-> Junk, hi |-> Junk], [lo |-> Junk, hi |-> Junk]>>
    /\ \E ale \in Bit :
         pin = [ALE |-> ale, RD_n |-> 1, WR_n |-> 1, INTA_n |-> 1, DEN |-> 1,
                IOM |-> 0, DTR |-> 0, AD_OE |-> 0, addr |-> 0, data |-> Zero]

-----------------------------------------------------------------------------
(* What every clock does, whatever the state machine is doing. *)

\* Input pipelines, and the delayed copies the EU reads.
Pipelines(clk, ready, ad_in) ==
    /\ clk_d' = <<clk, clk_d[1], clk_d[2], clk_d[3]>>
    /\ ready_d' = <<ready, ready_d[1], ready_d[2]>>
    /\ ad_in_int' = ad_in
    /\ eu_register_r3_d' = r3
    /\ biu_return_d' = <<biu_return_int, biu_return_d[1]>>
    /\ pfq_top_byte_int_d1' = pfq_top_byte_int
    /\ pfq_addr_out_d1' = pfq_addr_out

CaptureRequest_WhenIdle ==
    /\ eu_biu_req_d1' = cmd.req
    /\ eu_biu_req_caught' =
         IF eu_biu_req_d1 = 0 /\ cmd.req = 1 /\ biu_state = 0 THEN 1
         ELSE IF biu_done_int = 1 THEN 0
         ELSE eu_biu_req_caught

\* A rising edge of the request is caught until the BIU is done with it.
CaptureRequest ==
    /\ eu_biu_req_d1' = cmd.req
    /\ eu_biu_req_caught' =
         IF eu_biu_req_d1 = 0 /\ cmd.req = 1 THEN 1
         ELSE IF biu_done_int = 1 THEN 0
         ELSE eu_biu_req_caught

\* Strobe 11 loads the register named by the low bits of the request code.
LoadSegment ==
    biu_register' = IF cmd.strobe = "seg"
                    THEN [biu_register EXCEPT ![cmd.reg] = dataout]
                    ELSE biu_register

Queue_WriteFirst ==
    /\ pfq_addr_out' =
         IF JumpCaught THEN eu_register_r3_d
         ELSE IF cmd.strobe = "fetch" /\ ~pfq_empty THEN IncOffset(pfq_addr_out)
         ELSE pfq_addr_out
    /\ pfq_addr_in' =
         IF pfq_write = 1 THEN IncOffset(pfq_addr_in)
         ELSE IF JumpCaught THEN eu_register_r3_d
         ELSE pfq_addr_in
    /\ pfq_entry' =
         IF pfq_write = 1
         THEN [pfq_entry EXCEPT ![Slot(pfq_addr_in)] = latched_data_in]
         ELSE pfq_entry

\* Strobe 01 pops the queue, a caught jump flushes it, pfq_write fills it.
Queue ==
    /\ pfq_addr_out' =
         IF JumpCaught THEN eu_register_r3_d
         ELSE IF cmd.strobe = "fetch" /\ ~pfq_empty THEN IncOffset(pfq_addr_out)
         ELSE pfq_addr_out
    /\ pfq_addr_in' =
         IF JumpCaught THEN eu_register_r3_d
         ELSE IF pfq_write = 1 THEN IncOffset(pfq_addr_in)
         ELSE pfq_addr_in
    /\ pfq_entry' =
         IF pfq_write = 1
         THEN [pfq_entry EXCEPT ![Slot(pfq_addr_in)] = latched_data_in]
         ELSE pfq_entry

-----------------------------------------------------------------------------
(* The bus state machine: one action per state that does something.  A     *)
(* state that does nothing counts up, biu_state + 1 in eight bits.         *)

CountUp == biu_state' = (biu_state + 1) % 256
DecodedStates == {\h00, \h01, \h04, \h13, \h19, \h28, \h2F, \h3D, \h3E, \h40,
                  \h45, \h46, \h4E, \h58}

\* The status, the address and the width of the cycle a request asks for.
StatusOf(code) ==
    CASE code = "INTA"                                    -> "inta"
      [] code \in {"IORD8", "IORD16"}                     -> "iord"
      [] code \in {"IOWR8", "IOWR16"}                     -> "iowr"
      [] code = "HALT"                                    -> "halt"
      [] code \in {"MRD8", "MRD16", "SRD16", "VRD16"}     -> "mrd"
      [] code \in {"MWR8", "MWR16", "SWR16"}              -> "mwr"
IsWord(code) == code \in {"INTA", "IORD16", "IOWR16", "MRD16", "SRD16",
                          "VRD16", "MWR16", "SWR16"}
AddressOf(c) ==
    CASE c.code \in {"INTA", "IORD8", "IORD16", "IOWR8", "IOWR16", "VRD16"}
            -> Phys(0, eu_register_r3_d)
      [] c.code \in {"SRD16", "SWR16"}
            -> Phys(biu_register["ss"], eu_register_r3_d)
      [] c.code \in {"MRD8", "MRD16", "MWR8", "MWR16"}
            -> Phys(biu_register[c.seg], eu_register_r3_d)
      [] c.code = "HALT"
            -> Phys(biu_register["cs"], pfq_addr_out)

Idle == biu_state = 0 /\ pfq_write' = 0 /\ byte_num' = 0

\* State 00, a request is caught: set up its bus cycle.
StartRequest ==
    /\ Idle /\ eu_biu_req_caught = 1 /\ cmd.code # "JUMP"
    /\ addr_out_temp' = AddressOf(cmd)
    /\ s_bits' = StatusOf(cmd.code)
    /\ word_cycle' = IF IsWord(cmd.code) THEN 1 ELSE 0
    /\ biu_state' = 1
    /\ UNCHANGED <<latched_data_in, biu_done_int, biu_return_int, pin>>

\* State 00, a jump is caught: the queue addresses are already loaded.
FinishJump ==
    /\ Idle /\ JumpCaught
    /\ biu_done_int' = 1 /\ biu_state' = \h46 /\ word_cycle' = 0
    /\ UNCHANGED <<s_bits, addr_out_temp, latched_data_in, biu_return_int, pin>>

StartPrefetch_NoRoomCheck ==
    /\ Idle /\ eu_biu_req_caught = 0
    /\ addr_out_temp' = Phys(biu_register["cs"], pfq_addr_in)
    /\ s_bits' = "code" /\ word_cycle' = 0
    /\ biu_state' = 1
    /\ UNCHANGED <<latched_data_in, biu_done_int, biu_return_int, pin>>

\* State 00, nothing to do for the EU: fetch the next code byte.
StartPrefetch ==
    /\ Idle /\ eu_biu_req_caught = 0 /\ ~pfq_full
    /\ addr_out_temp' = Phys(biu_register["cs"], pfq_addr_in)
    /\ s_bits' = "code" /\ word_cycle' = 0
    /\ biu_state' = 1
    /\ UNCHANGED <<latched_data_in, biu_done_int, biu_return_int, pin>>

StayIdle ==
    /\ Idle /\ eu_biu_req_caught = 0 /\ pfq_full
    /\ biu_state' = 0 /\ word_cycle' = 0
    /\ UNCHANGED <<s_bits, addr_out_temp, latched_data_in, biu_done_int,
                   biu_return_int, pin>>

\* What the states from 01 to 58 leave alone.
InCycle == UNCHANGED <<s_bits, word_cycle>>

\* 01: wait for a rising CLK, then IOM and DTR tell the kind of cycle.
AwaitClk ==
    /\ biu_state = 1 /\ InCycle
    /\ IF clk_rising
       THEN CountUp /\ pin' = [pin EXCEPT !.IOM = Not(S2(s_bits)),
                                          !.DTR = S1(s_bits)]
       ELSE UNCHANGED <<biu_state, pin>>
    /\ UNCHANGED <<byte_num, addr_out_temp, latched_data_in, pfq_write,
                   biu_done_int, biu_return_int>>

\* 04, 13, 19, 28: the address, then the strobes of the cycle.
DriveAddress ==
    /\ biu_state = \h04
    /\ pin' = [pin EXCEPT !.addr = addr_out_temp, !.data = Zero,
                          !.AD_OE = 1, !.ALE = 1]
DropAle ==
    /\ biu_state = \h13
    /\ pin' = [pin EXCEPT !.ALE = 0, !.DEN = IF S1(s_bits) = 1 THEN 0 ELSE @]
AssertStrobes_LowByte ==
    /\ biu_state = \h19
    /\ pin' = [pin EXCEPT
                 !.AD_OE = S1(s_bits), !.RD_n = S1(s_bits),
                 !.WR_n = Not(S1(s_bits)),
                 !.INTA_n = IF s_bits = "inta" THEN 0 ELSE @,
                 !.data = LoByte(dataout)]
AssertStrobes ==
    /\ biu_state = \h19
    /\ pin' = [pin EXCEPT
                 !.AD_OE = S1(s_bits), !.RD_n = S1(s_bits),
                 !.WR_n = Not(S1(s_bits)),
                 !.INTA_n = IF s_bits = "inta" THEN 0 ELSE @,
                 !.data = IF word_cycle = 1 /\ byte_num = 1
                          THEN HiByte(dataout) ELSE LoByte(dataout)]
EnableData ==
    /\ biu_state = \h28
    /\ pin' = [pin EXCEPT !.DEN = 0]
DrivePins ==
    /\ DriveAddress \/ DropAle \/ AssertStrobes \/ EnableData
    /\ CountUp /\ InCycle
    /\ UNCHANGED <<byte_num, addr_out_temp, latched_data_in, pfq_write,
                   biu_done_int, biu_return_int>>

\* 2F: not READY, go round 1A .. 2F once more.
SampleReady ==
    /\ biu_state = \h2F /\ InCycle
    /\ IF ready_d[3] = 0 THEN biu_state' = \h1A ELSE CountUp
    /\ UNCHANGED <<byte_num, addr_out_temp, latched_data_in, pfq_write,
                   biu_done_int, biu_return_int, pin>>

\* 3D, 3E: latch the data; for a code fetch pulse pfq_write for one clock.
LatchData ==
    /\ biu_state = \h3D /\ InCycle /\ CountUp
    /\ latched_data_in' = ad_in_int
    /\ pfq_write' = IF s_bits = "code" THEN 1 ELSE pfq_write
    /\ UNCHANGED <<byte_num, addr_out_temp, biu_done_int, biu_return_int, pin>>
EndQueueWrite_Held ==
    /\ biu_state = \h3E /\ InCycle /\ CountUp
    /\ UNCHANGED <<byte_num, addr_out_temp, latched_data_in, pfq_write,
                   biu_done_int, biu_return_int, pin>>
EndQueueWrite ==
    /\ biu_state = \h3E /\ InCycle /\ CountUp
    /\ pfq_write' = 0
    /\ UNCHANGED <<byte_num, addr_out_temp, latched_data_in, biu_done_int,
                   biu_return_int, pin>>

\* 40: the second byte of a word goes to the high half.
SteerData ==
    /\ biu_state = \h40 /\ InCycle /\ CountUp
    /\ biu_return_int' =
         IF s_bits # "inta" /\ word_cycle = 1 /\ byte_num = 1
         THEN [biu_return_int EXCEPT !.hi = latched_data_in]
         ELSE [lo |-> latched_data_in, hi |-> Zero]
    /\ UNCHANGED <<byte_num, addr_out_temp, latched_data_in, pfq_write,
                   biu_done_int, pin>>

EndCycle_AlwaysDone ==
    /\ biu_state = \h45 /\ InCycle
    /\ pin' = [pin EXCEPT !.WR_n = 1, !.RD_n = 1, !.DEN = 1, !.INTA_n = 1]
    /\ addr_out_temp' = NextByte(addr_out_temp)
    /\ IF word_cycle = 1 /\ byte_num = 0
       THEN byte_num' = 1 /\ biu_state' = \h50 /\ UNCHANGED biu_done_int
       ELSE CountUp /\ UNCHANGED byte_num /\ biu_done_int' = 1
    /\ UNCHANGED <<latched_data_in, pfq_write, biu_return_int>>
EndCycle_OneByte ==
    /\ biu_state = \h45 /\ InCycle
    /\ pin' = [pin EXCEPT !.WR_n = 1, !.RD_n = 1, !.DEN = 1, !.INTA_n = 1]
    /\ addr_out_temp' = NextByte(addr_out_temp)
    /\ CountUp /\ UNCHANGED byte_num
    /\ biu_done_int' = IF s_bits # "code" THEN 1 ELSE biu_done_int
    /\ UNCHANGED <<latched_data_in, pfq_write, biu_return_int>>
EndCycle_WriteKept ==
    /\ biu_state = \h45 /\ InCycle
    /\ pin' = [pin EXCEPT !.RD_n = 1, !.DEN = 1, !.INTA_n = 1]
    /\ addr_out_temp' = NextByte(addr_out_temp)
    /\ IF word_cycle = 1 /\ byte_num = 0
       THEN byte_num' = 1 /\ biu_state' = \h50 /\ UNCHANGED biu_done_int
       ELSE /\ CountUp /\ UNCHANGED byte_num
            /\ biu_done_int' = IF s_bits # "code" THEN 1 ELSE biu_done_int
    /\ UNCHANGED <<latched_data_in, pfq_write, biu_return_int>>

\* 45: the cycle is over.  A word has a second one; the EU is told otherwise.
EndCycle ==
    /\ biu_state = \h45 /\ InCycle
    /\ pin' = [pin EXCEPT !.WR_n = 1, !.RD_n = 1, !.DEN = 1, !.INTA_n = 1]
    /\ addr_out_temp' = NextByte(addr_out_temp)
    /\ IF word_cycle = 1 /\ byte_num = 0
       THEN byte_num' = 1 /\ biu_state' = \h50 /\ UNCHANGED biu_done_int
       ELSE /\ CountUp /\ UNCHANGED byte_num
            /\ biu_done_int' = IF s_bits # "code" THEN 1 ELSE biu_done_int
    /\ UNCHANGED <<latched_data_in, pfq_write, biu_return_int>>

EndDone ==
    /\ biu_state = \h46 /\ InCycle /\ CountUp
    /\ biu_done_int' = 0
    /\ UNCHANGED <<byte_num, addr_out_temp, latched_data_in, pfq_write,
                   biu_return_int, pin>>

\* 4E, 58: back to idle, or to the second byte; every other state counts.
Count ==
    /\ biu_state \in {\h4E, \h58} \/ biu_state \notin DecodedStates
    /\ InCycle
    /\ biu_state' = CASE biu_state = \h4E -> 0
                      [] biu_state = \h58 -> 1
                      [] OTHER            -> (biu_state + 1) % 256
    /\ UNCHANGED <<byte_num, addr_out_temp, latched_data_in, pfq_write,
                   biu_done_int, biu_return_int, pin>>

StateMachine ==
    \/ StartRequest \/ FinishJump \/ StartPrefetch \/ StayIdle
    \/ AwaitClk \/ DrivePins \/ SampleReady
    \/ LatchData \/ EndQueueWrite \/ SteerData
    \/ EndCycle \/ EndDone \/ Count

\* One clock of the BIU, with the levels it finds on CLK, READY and AD_IN.
BiuClock(clk, ready, ad_in) ==
    /\ Pipelines(clk, ready, ad_in)
    /\ CaptureRequest
    /\ LoadSegment
    /\ Queue
    /\ StateMachine
=============================================================================
