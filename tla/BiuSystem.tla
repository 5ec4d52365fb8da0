----------------------------- MODULE BiuSystem -----------------------------
(***************************************************************************)
(* The BIU with an EU and a board around it.  The EU is any EU that uses   *)
(* the interface the way the microcode does: it raises a request, holds it *)
(* until its latch of BIU_DONE is set, and releases it; it pops a byte it  *)
(* has polled for; after a load of CS it jumps before it polls again.      *)
(* The board gives CLK, READY, the address latch and the data read.        *)
(***************************************************************************)
EXTENDS Biu

CONSTANTS
    ClkHigh,      \* core clocks CLK is high ...
    ClkLow,       \* ... and low in one of its periods
    ReadyLevels,  \* the levels the READY pin can have
    Requests,     \* the [code, seg] requests the EU may raise
    Targets,      \* offsets the EU may put in R3
    DataWords,    \* words the EU may put in EU_BIU_DATAOUT for a write
    SegLoads,     \* the <<register, value>> segment loads the EU may strobe
    UsesCode      \* whether the EU polls for code bytes and pops them

ASSUME ClkAssumption   == ClkHigh \in Nat \ {0} /\ ClkLow \in Nat \ {0}
ASSUME InputAssumption ==
    /\ ReadyLevels \subseteq Bit
    /\ Requests \subseteq [code : ReqCode, seg : {"es", "ss", "cs", "ds"}]
    /\ Targets \subseteq Offset
    /\ DataWords \subseteq Offset
    /\ SegLoads \subseteq SegReg \X Offset
    /\ UsesCode \in BOOLEAN

VARIABLES
    biu_done_d1, biu_done_d2, biu_done_caught,   \* the EU's latch of BIU_DONE
    polled,       \* the microcode has seen ~PFQ_EMPTY for the byte on top
    cs_dirty,     \* CS was loaded, and no jump has flushed the queue since
    clk_phase,    \* position in the period of CLK
    cpuAddr       \* the address latch behind ALE

euVars == <<cmdVars, polled>>
vars   == <<euVars, biu_done_d1, biu_done_d2, biu_done_caught, cs_dirty,
            clk_phase, cpuAddr, biuVars>>

-----------------------------------------------------------------------------
(* The board. *)

CLK == IF clk_phase < ClkHigh THEN 1 ELSE 0

\* What is on AD_IN: the byte at the latched address while RD_n is asserted.
AD_IN == IF pin.RD_n = 1       THEN Junk
         ELSE IF pin.INTA_n = 0 THEN <<"inta", byte_num>>
         ELSE IF pin.IOM = 1    THEN <<"io", cpuAddr>>
         ELSE <<"mem", cpuAddr>>

Board ==
    /\ clk_phase' = IF clk_phase + 1 = ClkHigh + ClkLow THEN 0 ELSE clk_phase + 1
    /\ cpuAddr' = IF pin.ALE = 1 THEN pin.addr ELSE cpuAddr

-----------------------------------------------------------------------------
(* The EU. *)

LatchDone_Sticky ==
    /\ biu_done_d1' = biu_done_int /\ biu_done_d2' = biu_done_d1
    /\ biu_done_caught' =
         IF biu_done_d2 = 0 /\ biu_done_d1 = 1 THEN 1 ELSE biu_done_caught

\* biu_done_caught rises on BIU_DONE and falls when the request is released.
LatchDone ==
    /\ biu_done_d1' = biu_done_int /\ biu_done_d2' = biu_done_d1
    /\ biu_done_caught' =
         IF biu_done_d2 = 0 /\ biu_done_d1 = 1 THEN 1
         ELSE IF eu_biu_req_d1 = 1 /\ cmd.req = 0 THEN 0
         ELSE biu_done_caught

\* The microcode runs something that does not touch the interface.  A strobe
\* lasts one clock: the next micro-operation masks it out of the command.
EuOther ==
    /\ cmd' = [cmd EXCEPT !.strobe = "none"]
    /\ UNCHANGED <<dataout, r3, polled>>

\* nul = sys and 0080; jmpz: a byte is in the queue.
EuPoll ==
    /\ UsesCode /\ cmd.strobe = "none" /\ cmd.req = 0 /\ ~cs_dirty
    /\ polled = 0 /\ ~pfq_empty
    /\ polled' = 1
    /\ UNCHANGED cmdVars

\* cmd |= 1004: the instruction is done with the byte polled for, pop it.
EuPop ==
    /\ cmd.strobe = "none" /\ cmd.req = 0 /\ polled = 1
    /\ cmd' = [cmd EXCEPT !.strobe = "fetch"]
    /\ polled' = 0
    /\ UNCHANGED <<dataout, r3>>

\* dataout = value; cmd |= 30r0: load a segment register.
EuLoadSegment ==
    /\ cmd.strobe = "none" /\ cmd.req = 0
    /\ \E s \in SegLoads :
         /\ cmd' = [cmd EXCEPT !.strobe = "seg", !.reg = s[1]]
         /\ dataout' = s[2]
         /\ polled' = IF s[1] = "cs" THEN 0 ELSE polled
    /\ UNCHANGED r3

\* r3 = address; dataout = word; cmd |= request.  The byte on top of the queue
\* stays in use over the requests of its instruction, a jump excepted.
EuRequest ==
    /\ cmd.strobe = "none" /\ cmd.req = 0 /\ eu_biu_req_d1 = 0
    /\ \E q \in Requests, a \in Targets, w \in DataWords :
         /\ cmd' = [cmd EXCEPT !.req = 1, !.code = q.code, !.seg = q.seg]
         /\ r3' = a /\ dataout' = w
         /\ polled' = IF q.code = "JUMP" THEN 0 ELSE polled

\* nul = sys and 0040; jmpz; cmd &= 4003: release the request once done.
EuRelease ==
    /\ cmd.req = 1 /\ biu_done_caught = 1
    /\ cmd' = [cmd EXCEPT !.req = 0, !.strobe = "none"]
    /\ UNCHANGED <<dataout, r3, polled>>

EuStep == EuOther \/ EuPoll \/ EuPop \/ EuLoadSegment \/ EuRequest \/ EuRelease

\* History: from the load of CS to the flush by the jump that follows it.
TrackCs ==
    cs_dirty' = IF JumpCaught THEN FALSE
                ELSE IF cmd.strobe = "seg" /\ cmd.reg = "cs" THEN TRUE
                ELSE cs_dirty

-----------------------------------------------------------------------------
\* The EU comes out of reset in the microcode that loads CS and then jumps.
Init ==
    /\ BiuInit
    /\ cmd = [strobe |-> "none", req |-> 0, code |-> "JUMP", seg |-> "cs",
              reg |-> "cs"]
    /\ dataout = 0 /\ r3 = 0
    /\ biu_done_d1 = 0 /\ biu_done_d2 = 0 /\ biu_done_caught = 0
    /\ polled = 0 /\ cs_dirty = TRUE
    /\ clk_phase \in 0 .. ClkHigh + ClkLow - 1 /\ cpuAddr = 0

Next ==
    /\ EuStep /\ LatchDone /\ TrackCs /\ Board
    /\ \E ready \in ReadyLevels : BiuClock(CLK, ready, AD_IN)

Spec == Init /\ [][Next]_vars

\* The core clock never stops (every step moves clk_phase and can be taken, so
\* this is WF_vars(Next)), and a device that is not READY is at last READY when
\* state 2F looks.
Clocked  == WF_clk_phase(Board)
Answers  == []<>(biu_state = \h2F) => []<>(biu_state = \h2F /\ ready_d[3] = 1)
FairSpec == Spec /\ Clocked /\ Answers

-----------------------------------------------------------------------------
(* Properties. *)

EuType ==
    /\ cmd \in Command /\ dataout \in Offset /\ r3 \in Offset
    /\ biu_done_d1 \in Bit /\ biu_done_d2 \in Bit /\ biu_done_caught \in Bit
    /\ polled \in Bit /\ cs_dirty \in BOOLEAN
BoardType ==
    clk_phase \in 0 .. ClkHigh + ClkLow - 1 /\ cpuAddr \in PhysAddr
QueueType ==
    /\ pfq_addr_in \in Offset /\ pfq_addr_out \in Offset
    /\ pfq_addr_out_d1 \in Offset
    /\ pfq_entry \in [0 .. 3 -> Byte] /\ pfq_top_byte_int_d1 \in Byte
PipeType ==
    /\ eu_register_r3_d \in Offset
    /\ eu_biu_req_d1 \in Bit /\ eu_biu_req_caught \in Bit
    /\ biu_register \in [SegReg -> Offset] /\ ad_in_int \in Byte
    /\ ready_d \in Bit \X Bit \X Bit /\ clk_d \in Bit \X Bit \X Bit \X Bit
    /\ biu_return_d \in Word \X Word
SeqType ==
    /\ biu_state \in 0 .. 255 /\ s_bits \in Status
    /\ word_cycle \in Bit /\ byte_num \in Bit /\ addr_out_temp \in PhysAddr
    /\ latched_data_in \in Byte /\ pfq_write \in Bit /\ biu_done_int \in Bit
    /\ biu_return_int \in Word /\ pin \in Pins

\* Every register holds a value of its width.
TypeOK == EuType /\ BoardType /\ QueueType /\ PipeType /\ SeqType

\* From one offset up to another; the bytes in the queue; the code byte at an
\* offset of CS.
Gap(in, out) == IF in >= out THEN in - out ELSE in + AddrSpace - out
Occupancy    == Gap(pfq_addr_in, pfq_addr_out)
InQueue(x)   == Gap(x, pfq_addr_out) < Occupancy
CodeByte(x)  == <<"mem", Phys(biu_register["cs"], x)>>

\* The two addresses that stand for the queue never drift more than its four
\* entries apart, though a pop, a delivery and a flush may meet in one clock
\* and the flags look at three bits of the addresses only.
QueueBounded == Occupancy <= 4

\* Whatever jumps and loads of CS raced with the code fetch in progress, each
\* byte the queue holds is the code byte of its offset: a flush discards the
\* byte that arrives after it.
QueueHoldsCode ==
    ~cs_dirty => \A x \in Offset :
                    InQueue(x) => pfq_entry[Slot(x)] = CodeByte(x)

\* In the first clock the microcode can use PFQ_TOP_BYTE and PFQ_ADDR_OUT
\* after a poll of ~PFQ_EMPTY, and until the pop, both delay registers have
\* caught up: the byte is the code byte at the instruction pointer.
PolledByteIsCode ==
    polled = 1 => /\ pfq_top_byte_int_d1 = CodeByte(pfq_addr_out)
                  /\ pfq_addr_out_d1 = pfq_addr_out

\* A done pulse is never for nobody and never arrives twice: it comes while
\* the request is still held and the EU's latch is clear.
DoneIsForPending ==
    biu_done_int = 1 => /\ cmd.req = 1 /\ eu_biu_req_caught = 1
                        /\ biu_done_caught = 0 /\ biu_done_d1 = 0

\* A request newly raised is not taken for done because of the one before it.
NoStaleDone ==
    cmd.req = 1 /\ eu_biu_req_caught = 1 => biu_done_caught = 0

(* The inductive invariant behind the properties above. *)

\* A request goes through six phases: none, raised, caught, done, told to the
\* EU's delay register, latched; the done pulse is in state 46 only.
Phase(req, req_d1, caught, done, d1, latched) ==
    /\ cmd.req = req /\ eu_biu_req_d1 = req_d1
    /\ eu_biu_req_caught = caught /\ biu_done_int = done
    /\ biu_done_d1 = d1 /\ biu_done_caught = latched
Handshake ==
    \/ Phase(0, 0, 0, 0, 0, 0)
    \/ Phase(0, 1, 0, 0, 0, 1)
    \/ Phase(1, 0, 0, 0, 0, 0)
    \/ Phase(1, 1, 1, 0, 0, 0)
    \/ Phase(1, 1, 1, 1, 0, 0) /\ biu_state = \h46
    \/ Phase(1, 1, 0, 0, 1, 0) /\ biu_done_d2 = 0
    \/ Phase(1, 1, 0, 0, 0, 1)

\* The states in which a bus cycle is in progress, and those that occur.
InBusCycle == biu_state \in 1 .. \h45 \/ biu_state \in \h50 .. \h58
StatesOccur ==
    InBusCycle \/ biu_state = 0 \/ biu_state \in \h46 .. \h4E
               \/ biu_state >= \hD0
\* A bus cycle that is not a code fetch is for the request that is caught; a
\* code fetch has no second byte.
CycleIsForRequest ==
    InBusCycle => IF s_bits = "code"
                  THEN word_cycle = 0 /\ biu_state <= \h45
                  ELSE eu_biu_req_caught = 1 /\ biu_done_int = 0

\* A code fetch whose byte has not been put in the queue: there is room.
Fetching == s_bits = "code" /\ biu_state \in 1 .. \h3E
QueueHasRoom ==
    /\ pfq_write = 1 => biu_state = \h3E /\ s_bits = "code"
    /\ Fetching => Occupancy <= 3

\* The path of a code byte: address register, pins, address latch, AD_IN
\* register, data latch.
CodeAt(first, last) == s_bits = "code" /\ biu_state \in first .. last
FetchPath ==
    /\ biu_state = 5 => pin.ALE = 1
    /\ pin.INTA_n = 0 => s_bits = "inta" /\ InBusCycle
    /\ CodeAt(\h02, \h45) => pin.IOM = 0
    /\ CodeAt(\h05, \h3E) => pin.addr = addr_out_temp
    /\ CodeAt(\h06, \h3E) => cpuAddr = addr_out_temp
    /\ CodeAt(\h1A, \h3E) => pin.RD_n = 0
    /\ CodeAt(\h3D, \h3D) => ad_in_int = <<"mem", addr_out_temp>>
    /\ CodeAt(\h3E, \h3E) => latched_data_in = <<"mem", addr_out_temp>>
\* The fetch in progress is for the next offset, unless it will be dropped.
FetchIsNext ==
    Fetching /\ ~cs_dirty /\ ~JumpCaught
        => addr_out_temp = Phys(biu_register["cs"], pfq_addr_in)

\* The EU uses the queue only when nothing can move its head.
EuIsTidy ==
    /\ cmd.strobe = "fetch" => polled = 0
    /\ cmd.strobe = "seg" /\ cmd.reg = "cs" => polled = 0
    /\ cmd.req = 1 /\ cmd.code = "JUMP" => polled = 0
    /\ polled = 1 => /\ ~cs_dirty /\ Occupancy >= 1
                     /\ pfq_top_byte_int_d1 = pfq_entry[Slot(pfq_addr_out)]
                     /\ pfq_addr_out_d1 = pfq_addr_out

IInv == /\ TypeOK /\ Handshake /\ StatesOccur /\ CycleIsForRequest
        /\ QueueBounded /\ QueueHasRoom /\ FetchPath /\ FetchIsNext
        /\ QueueHoldsCode /\ EuIsTidy

(* What a request asks for. *)
Acked == cmd.req = 1 /\ biu_done_caught = 1
SegmentOf == CASE cmd.code \in {"MRD8", "MRD16", "MWR8", "MWR16"}
                       -> biu_register[cmd.seg]
               [] cmd.code \in {"SRD16", "SWR16"} -> biu_register["ss"]
               [] OTHER                           -> 0
Wanted(n)  == Phys(SegmentOf, (r3 + n) % AddrSpace)
\* The word lies within one 64K block of its segment and of physical memory.
WithinBlock == IsWord(cmd.code) => /\ Wanted(1) = Wanted(0) + 1
                                   /\ Wanted(0) % AddrSpace # AddrSpace - 1
WantedByte(n) ==
    CASE cmd.code = "INTA"                 -> <<"inta", 1>>
      [] cmd.code \in {"IORD8", "IORD16"}  -> <<"io", Wanted(n)>>
      [] OTHER                             -> <<"mem", Wanted(n)>>
Reads  == {"INTA", "IORD8", "IORD16", "MRD8", "MRD16", "SRD16", "VRD16"}
Writes == {"IOWR8", "IOWR16", "MWR8", "MWR16", "SWR16"}

ReadData ==
    [lo |-> WantedByte(0),
     hi |-> IF IsWord(cmd.code) /\ cmd.code # "INTA"
            THEN WantedByte(1) ELSE Zero]

\* WR_n is asserted in write cycles only ("Assert WR_n for write cycles").
WriteStrobeIsForWrite == pin.WR_n = 0 => s_bits \in {"iowr", "mwr"}

\* When the EU's latch says a read is done, BIU_RETURN_DATA, two registers
\* behind, already is the byte or word of the address asked for (not the one
\* of a prefetch or of the request before, nor its bytes swapped), and it is
\* still there when the next code fetch begins.
ReadIsAnswered ==
    Acked /\ cmd.code \in Reads /\ WithinBlock /\ s_bits # "code"
        => biu_return_d[2] = ReadData

\* The write strobe is low for a write the EU has pending, over the latched
\* address and the data of the byte of the word that is being written.
WriteIsAsAsked ==
    pin.WR_n = 0 /\ s_bits # "halt" /\ WithinBlock =>
        /\ cmd.req = 1 /\ ~Acked /\ cmd.code \in Writes
        /\ cpuAddr = Wanted(byte_num)
        /\ pin.data = IF byte_num = 1 THEN HiByte(dataout) ELSE LoByte(dataout)
        /\ pin.AD_OE = 1 /\ pin.DTR = 1
        /\ pin.IOM = IF cmd.code \in {"IOWR8", "IOWR16"} THEN 1 ELSE 0

(* The inductive invariant behind the two, with IInv.  All of it is about  *)
(* the bus cycles of the request that is caught, read or written.          *)

\* The EU is being told that its request is done, or has been.
Told == cmd.req = 1 /\ (biu_done_int = 1 \/ biu_done_d1 = 1 \/ biu_done_caught = 1)

\* A request stands still: no segment load, and R3 has reached the BIU's copy.
RequestIsHeld ==
    cmd.req = 1 => /\ cmd.strobe = "none"
                   /\ eu_biu_req_d1 = 1 => eu_register_r3_d = r3

\* The address the BIU puts out for byte n of the request, the byte it finds
\* there, and what it makes of the byte or bytes.
CycleAddress(n) == IF n = 0 THEN Phys(SegmentOf, r3)
                   ELSE NextByte(Phys(SegmentOf, r3))
ReadByte(n) ==
    CASE cmd.code = "INTA"                 -> <<"inta", n>>
      [] cmd.code \in {"IORD8", "IORD16"}  -> <<"io", CycleAddress(n)>>
      [] OTHER                             -> <<"mem", CycleAddress(n)>>
Result(n) == IF n = 1 /\ cmd.code # "INTA"
             THEN [lo |-> ReadByte(0), hi |-> ReadByte(1)]
             ELSE [lo |-> ReadByte(n), hi |-> Zero]

\* A bus cycle of the request, in these states.
ReqAt(first, last) == s_bits # "code" /\ biu_state \in first .. last
OwnCycle  == InBusCycle /\ s_bits # "code"
LastCycle == byte_num = word_cycle

CycleIsAsAsked ==
    OwnCycle => /\ cmd.code # "JUMP" /\ s_bits = StatusOf(cmd.code)
                /\ word_cycle = 1 <=> IsWord(cmd.code)
                /\ byte_num = 1 => word_cycle = 1
                /\ biu_state >= \h50 => byte_num = 1
                /\ cmd.code # "HALT" => addr_out_temp = CycleAddress(byte_num)

\* The path of an address, of the data out and of the strobes.
CyclePins ==
    /\ ReqAt(\h02, \h45) => pin.IOM = Not(S2(s_bits)) /\ pin.DTR = S1(s_bits)
    /\ ReqAt(\h05, \h45) => pin.addr = addr_out_temp
    /\ ReqAt(\h06, \h45) => cpuAddr = addr_out_temp
    /\ ReqAt(\h1A, \h45) =>
         /\ pin.RD_n = S1(s_bits) /\ pin.AD_OE = S1(s_bits)
         /\ pin.WR_n = Not(S1(s_bits))
         /\ s_bits = "inta" => pin.INTA_n = 0
         /\ pin.data = IF byte_num = 1 THEN HiByte(dataout) ELSE LoByte(dataout)
    /\ pin.WR_n = 0 => biu_state \in \h1A .. \h45 /\ S1(s_bits) = 1

\* The path of the data in: AD_IN register, data latch, the half of the word,
\* and the two registers before the EU, for reads of these kinds.
AnswerPath(codes) ==
    cmd.code \in codes =>
      /\ ReqAt(\h3D, \h3D) => ad_in_int = ReadByte(byte_num)
      /\ ReqAt(\h3E, \h40) => latched_data_in = ReadByte(byte_num)
      /\ ReqAt(\h41, \h45) => biu_return_int = Result(byte_num)
      /\ OwnCycle /\ byte_num = 1 /\ cmd.code # "INTA"
           => biu_return_int.lo = ReadByte(0)
      /\ ReqAt(\h42, \h45) /\ LastCycle => biu_return_d[1] = Result(byte_num)
      /\ ReqAt(\h43, \h45) /\ LastCycle => biu_return_d[2] = Result(byte_num)
      /\ Told /\ s_bits # "code" =>
           \E n \in Bit : /\ n = 1 <=> IsWord(cmd.code)
                          /\ biu_return_int = Result(n)
                          /\ biu_return_d = <<Result(n), Result(n)>>

DataInv(codes) == IInv /\ RequestIsHeld /\ CycleIsAsAsked /\ CyclePins
                  /\ AnswerPath(codes)

\* A request the EU raises and holds is done in the end, whatever fetch was in
\* progress and however slow the device is: a jump, which has no bus cycle of
\* its own and waits for the fetch, and the kinds that wait for the device too.
RequestIsServed == cmd.req = 1 ~> biu_done_caught = 1

\* An EU that waits for a code byte and asks for nothing else gets one.
QueueIsFilled == pfq_empty ~> (~pfq_empty \/ cmd.req = 1)
=============================================================================
