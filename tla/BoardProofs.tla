----------------------------- MODULE BoardProofs ----------------------------
(***************************************************************************)
(* Theorems of Xt and Harness8088, for every width of the addresses, every *)
(* clock, every set of requests and every decoding of the addresses: what  *)
(* the BIU gets and gives on the board of system.v, and what the memory of *)
(* main.cpp holds.  The BIU's own invariant comes from BiuDataProofs.      *)
(***************************************************************************)
EXTENDS Harness8088, BiuDataProofs

(* What the BIU finds on AD_IN. *)

\* The memory reads are among the read requests of the BIU.
LEMMA MemoryReadsAreReads == MemoryReads \in SUBSET Reads
BY DEF MemoryReads, Reads

\* Under READY tied high DEN is low from state 29 on, so that neither the CGA
\* card nor the timer is on the bus when the byte is sampled: it is the byte
\* of the address, from the BIOS or from the RAM.
LEMMA SampledByte ==
    ASSUME TypeOK, BoardInv
    PROVE  /\ cpuDataIn \in Byte
           /\ biu_state = \h3C => cpuDataIn = <<"mem", cpuAddr>>
<1>1. cpuAddr \in Nat /\ biosData \in Byte /\ isa_dout \in Byte
  BY WidthAssumption DEF TypeOK, BoardType, PhysAddr, BoardInv
<1>2. /\ <<"mem", cpuAddr>> \in Byte /\ <<"io", cpuAddr>> \in Byte
      /\ Junk \in Byte
  BY <1>1 DEF Byte, Space, Junk
<1>3. cpuDataIn \in Byte
  BY <1>1, <1>2 DEF cpuDataIn, cgaDataR, pitDataR, ramDataR
<1>4. ASSUME biu_state = \h3C PROVE cpuDataIn = <<"mem", cpuAddr>>
  <2>1. pin.DEN = 0 /\ (selectBios => biosData = <<"mem", cpuAddr>>)
    BY <1>4 DEF BoardInv
  <2>2. ~oMemR /\ ~oIOR
    BY <2>1 DEF oMemR, oIOR
  <2> QED
    BY <2>1, <2>2 DEF cpuDataIn, selectCga, ramDataR
<1> QED
  BY <1>3, <1>4

\* A clock of the board is a clock of the BIU on it, and the byte a memory
\* read samples is that of the address of its cycle.
LEMMA XtNextIsCodeClock ==
    ASSUME XtInv, XtNext
    PROVE  /\ CodeClock
           /\ ReqAt(\h3C, \h3C) /\ cmd.code \in MemoryReads
                => ad_in_int' = ReadByte(byte_num)
<1>1. /\ TypeOK /\ BoardInv /\ FetchPath /\ CyclePins /\ CycleIsAsAsked
      /\ BiuClock(CLK, 1, cpuDataIn)
  BY DEF XtInv, DataInv, IInv, XtNext
<1>2. /\ cpuDataIn \in Byte /\ 1 \in Bit
      /\ biu_state = \h3C => cpuDataIn = <<"mem", cpuAddr>>
  BY <1>1, SampledByte DEF Bit
<1>3. CodeAt(\h3C, \h3C) => cpuDataIn = <<"mem", addr_out_temp>>
  BY <1>1, <1>2 DEF CodeAt, FetchPath
<1>4. ASSUME ReqAt(\h3C, \h3C), cmd.code \in MemoryReads
      PROVE  ad_in_int' = ReadByte(byte_num)
  <2>1. /\ biu_state = \h3C /\ OwnCycle /\ ReqAt(\h06, \h45)
        /\ cmd.code \notin {"HALT", "INTA", "IORD8", "IORD16"}
    BY <1>4 DEF ReqAt, OwnCycle, InBusCycle, MemoryReads
  <2>2. cpuAddr = CycleAddress(byte_num)
    BY <1>1, <2>1 DEF CyclePins, CycleIsAsAsked
  <2>3. ad_in_int' = <<"mem", cpuAddr>>
    BY <1>1, <1>2, <2>1 DEF BiuClock, Pipelines
  <2> QED
    BY <2>1, <2>2, <2>3 DEF ReadByte
<1> QED
  BY <1>1, <1>2, <1>3, <1>4 DEF XtNext, CodeClock

-----------------------------------------------------------------------------
(* The inductive invariant of the board. *)

\* What each state does to the level of DEN.
LEMMA DenStep ==
    ASSUME TypeOK, StateMachine
    PROVE  /\ biu_state = \h28 => pin'.DEN = 0
           /\ biu_state \notin {\h13, \h28, \h45} => pin'.DEN = pin.DEN
<1>1. biu_state \in 0 .. 255 /\ pin \in Pins
  BY DEF TypeOK, SeqType
<1> USE <1>1 DEF Pins
<1>2. CASE StartRequest \/ FinishJump \/ StartPrefetch \/ StayIdle
  BY <1>2 DEF StartRequest, FinishJump, StartPrefetch, StayIdle, Idle
<1>3. CASE AwaitClk
  <2>1. CASE clk_rising
    <3>1. /\ biu_state = 1
          /\ pin' = [pin EXCEPT !.IOM = Not(S2(s_bits)), !.DTR = S1(s_bits)]
      BY <1>3, <2>1 DEF AwaitClk
    <3> QED
      BY <3>1
  <2>2. CASE ~clk_rising
    BY <1>3, <2>2 DEF AwaitClk
  <2> QED
    BY <2>1, <2>2
<1>4. CASE DriveAddress /\ DrivePins
  BY <1>4 DEF DrivePins, DriveAddress
<1>5. CASE DropAle /\ DrivePins
  BY <1>5 DEF DrivePins, DropAle
<1>6. CASE AssertStrobes /\ DrivePins
  BY <1>6 DEF DrivePins, AssertStrobes
<1>7. CASE EnableData /\ DrivePins
  BY <1>7 DEF DrivePins, EnableData
<1>8. CASE SampleReady \/ LatchData \/ EndQueueWrite \/ SteerData \/ EndDone
  BY <1>8 DEF SampleReady, LatchData, EndQueueWrite, SteerData, EndDone
<1>9. CASE EndCycle
  BY <1>9 DEF EndCycle
<1>10. CASE Count
  BY <1>10 DEF Count, DecodedStates
<1> QED
  BY <1>2, <1>3, <1>4, <1>5, <1>6, <1>7, <1>8, <1>9, <1>10
     DEF StateMachine, DrivePins

\* The bus states before a strobe's last follow each other clock by clock:
\* READY is high when state 2F looks.
LEMMA NoWaitStates ==
    ASSUME TypeOK, StatesOccur, BoardInv, StateMachine
    PROVE  /\ biu_state \in \h02 .. \h44 => biu_state' = biu_state + 1
           /\ biu_state' \in \h03 .. \h45 => biu_state = biu_state' - 1
<1>1. biu_state \in 0 .. 255 /\ (biu_state = \h2F => ready_d[3] = 1)
  BY DEF TypeOK, SeqType, BoardInv
<1>2. CASE StartRequest \/ FinishJump \/ StartPrefetch \/ StayIdle
  BY <1>1, <1>2 DEF StartRequest, FinishJump, StartPrefetch, StayIdle, Idle
<1>3. CASE AwaitClk
  BY <1>1, <1>3 DEF AwaitClk, CountUp
<1>4. CASE DrivePins
  BY <1>1, <1>4 DEF DrivePins, CountUp, DriveAddress, DropAle, AssertStrobes,
                    EnableData
<1>5. CASE SampleReady
  BY <1>1, <1>5 DEF SampleReady, CountUp
<1>6. CASE LatchData \/ EndQueueWrite \/ SteerData \/ EndDone
  BY <1>1, <1>6 DEF LatchData, EndQueueWrite, SteerData, EndDone, CountUp
<1>7. CASE EndCycle
  BY <1>1, <1>7 DEF EndCycle, CountUp
<1>8. CASE Count
  BY <1>1, <1>8 DEF Count, DecodedStates
<1> QED
  BY <1>2, <1>3, <1>4, <1>5, <1>6, <1>7, <1>8 DEF StateMachine

\* The address latch is steady from state 06 on.
LEMMA LatchIsSteady ==
    ASSUME XtInv, XtNext, biu_state \in \h06 .. \h3E
    PROVE  cpuAddr' = cpuAddr
<1>1. cpuAddr = addr_out_temp /\ pin.addr = addr_out_temp
  <2>1. CASE s_bits = "code"
    BY <2>1 DEF XtInv, DataInv, IInv, FetchPath, CodeAt
  <2>2. CASE s_bits # "code"
    BY <2>2 DEF XtInv, DataInv, CyclePins, ReqAt
  <2> QED
    BY <2>1, <2>2
<1> QED
  BY <1>1 DEF XtNext, Board

\* While WR_n is low the strobe of one of the two spaces is on.
LEMMA StrobeIsOn ==
    ASSUME TypeOK, CyclePins, pin.WR_n = 0
    PROVE  oMemW \/ oIOW
<1>1. biu_state \in \h1A .. \h45 /\ S1(s_bits) = 1 /\ pin \in Pins
  BY DEF CyclePins, TypeOK, SeqType
<1>2. s_bits # "code"
  BY <1>1 DEF S1
<1>3. pin.DTR = 1 /\ pin.IOM \in {0, 1}
  BY <1>1, <1>2 DEF CyclePins, ReqAt, Pins, Bit
<1> QED
  BY <1>3 DEF oMemW, oIOW

\* Power-up.
LEMMA InitBoardInv == XtInit => BoardInv
<1> SUFFICES ASSUME XtInit PROVE BoardInv
  OBVIOUS
<1>1. biosData \in Byte /\ isa_dout \in Byte /\ held \in Nat
  BY DEF XtInit, Zero, Junk, Byte, Space
<1>2. biu_state = \hD0 /\ pin.WR_n = 1
  BY DEF XtInit, Init, BiuInit
<1> QED
  BY <1>1, <1>2 DEF BoardInv

\* Two bytes next to each other have cells of their own in the video RAM.
LEMMA CellsDiffer ==
    ASSUME NEW a \in Nat
    PROVE  Cell(a) \in 0 .. VramSize - 1 /\ Cell(a + 1) # Cell(a)
<1>1. VramSize \in Nat \ {0, 1}
  BY DecodeAssumption
<1>2. PICK q \in Nat, k \in 0 .. VramSize - 1 :
         a = VramSize * q + k /\ k = a % VramSize
  <2>1. /\ a \div VramSize \in Nat /\ a % VramSize \in 0 .. VramSize - 1
        /\ a = VramSize * (a \div VramSize) + (a % VramSize)
    BY <1>1
  <2> QED
    BY <2>1
<1>3. CASE k + 1 < VramSize
  <2>1. (VramSize * q + (k + 1)) % VramSize = k + 1
    <3>1. k + 1 \in 0 .. VramSize - 1 /\ VramSize \in Nat \ {0}
      BY <1>1, <1>2, <1>3
    <3> QED
      BY <3>1, ModUnique
  <2>2. a + 1 = VramSize * q + (k + 1)
    BY <1>1, <1>2
  <2> QED
    BY <1>2, <2>1, <2>2 DEF Cell
<1>4. CASE k + 1 = VramSize
  <2>1. (VramSize * (q + 1) + 0) % VramSize = 0
    BY <1>1, <1>2, ModUnique
  <2>2. a + 1 = VramSize * (q + 1) + 0
    BY <1>1, <1>2, <1>4
  <2>3. k # 0
    BY <1>1, <1>4
  <2> QED
    BY <1>2, <2>1, <2>2, <2>3 DEF Cell
<1> QED
  BY <1>1, <1>2, <1>3, <1>4

\* A clock of the board keeps what holds of the devices around the BIU.
LEMMA StepBoardInv ==
    ASSUME XtInv, XtNext
    PROVE  BoardInv'
<1>1. /\ TypeOK /\ StatesOccur /\ CyclePins /\ BoardInv /\ StateMachine
      /\ biu_state \in 0 .. 255 /\ cpuAddr \in Nat /\ Devices
      /\ ready_d' = <<1, ready_d[1], ready_d[2]>>
  BY WidthAssumption
     DEF XtInv, DataInv, IInv, XtNext, BiuClock, Pipelines, TypeOK, SeqType,
         BoardType, PhysAddr
<1>0. /\ biu_state \in \h02 .. \h44 => biu_state' = biu_state + 1
      /\ biu_state' \in \h03 .. \h45 => biu_state = biu_state' - 1
  BY <1>1, NoWaitStates
<1>2. biosData' \in Byte /\ isa_dout' \in Byte /\ held' \in Nat
  <2>1. /\ <<"mem", cpuAddr>> \in Byte /\ Junk \in Byte
        /\ <<"vram", Cell(cpuAddr)>> \in Byte
    BY <1>1, CellsDiffer DEF Byte, Space, Junk
  <2> QED
    BY <1>1, <2>1 DEF Devices, BoardInv
<1>3. \A i \in 1 .. 3 : ready_d'[i] = 1 \/ biu_state' \in \hD0 .. \hD0 + i - 1
  <2>1. \A i \in 1 .. 2 : ready_d[i] = 1 \/ biu_state \in \hD0 .. \hD0 + i - 1
    BY <1>1 DEF BoardInv
  <2>2. biu_state \in \hD0 .. \hD1 => biu_state' = biu_state + 1
    BY <1>1
       DEF StateMachine, StartRequest, FinishJump, StartPrefetch, StayIdle,
           Idle, AwaitClk, DrivePins, DriveAddress, DropAle, AssertStrobes,
           EnableData, SampleReady, LatchData, EndQueueWrite, SteerData,
           EndCycle, EndDone, Count, DecodedStates
  <2>3. /\ ready_d'[1] = 1 /\ ready_d'[2] = ready_d[1]
        /\ ready_d'[3] = ready_d[2]
    BY <1>1
  <2> QED
    BY <1>1, <2>1, <2>2, <2>3
<1>4. biu_state' \in \h07 .. \h3E /\ selectBios' => biosData' = <<"mem", cpuAddr'>>
  <2> SUFFICES ASSUME biu_state' \in \h07 .. \h3E, selectBios'
               PROVE  biosData' = <<"mem", cpuAddr'>>
    OBVIOUS
  <2>1. biu_state \in \h06 .. \h3D
    BY <1>0
  <2> QED
    BY <1>1, <2>1, LatchIsSteady DEF Devices, selectBios
<1>5. biu_state' \in \h29 .. \h45 => pin'.DEN = 0
  <2> SUFFICES ASSUME biu_state' \in \h29 .. \h45 PROVE pin'.DEN = 0
    OBVIOUS
  <2>1. biu_state \in \h28 .. \h44
    BY <1>0
  <2> QED
    BY <1>1, <2>1, DenStep DEF BoardInv
<1>6. pin'.WR_n = 0 => held' = biu_state' - \h1A
  <2> SUFFICES ASSUME pin'.WR_n = 0 PROVE held' = biu_state' - \h1A
    OBVIOUS
  <2>1. CyclePins'
    BY StepCyclePins, XtNextIsCodeClock DEF XtInv, DataInv
  <2>2. biu_state \in \h19 .. \h44 /\ biu_state' = biu_state + 1
    BY <1>0, <2>1 DEF CyclePins
  <2>3. CASE biu_state = \h19
    BY <1>1, <2>2, <2>3 DEF CyclePins, Devices, oMemW, oIOW
  <2>4. CASE biu_state # \h19
    <3>1. pin.WR_n = 0
      BY <1>1, <2>2, <2>4, WritePinStep
    <3> QED
      BY <1>1, <2>2, <2>4, <3>1, StrobeIsOn DEF BoardInv, Devices
  <2> QED
    BY <2>3, <2>4
<1> QED
  BY <1>2, <1>3, <1>4, <1>5, <1>6 DEF BoardInv

\* A clock of the board keeps the whole invariant, the BIU's with it.
LEMMA StepXtInv ==
    ASSUME XtInv, [XtNext]_xtVars
    PROVE  XtInv'
<1>1. CASE XtNext
  BY <1>1, StepBoardInv, StepDataInv, XtNextIsCodeClock, MemoryReadsAreReads
     DEF XtInv
<1>2. CASE UNCHANGED xtVars
  <2>1. DataInv(MemoryReads)'
    BY <1>2, StutterDataInv, MemoryReadsAreReads DEF xtVars, XtInv
  <2>2. BoardInv'
    BY <1>2 DEF xtVars, vars, biuVars, pipeVars, seqVars, XtInv, BoardInv, selectBios
  <2> QED
    BY <2>1, <2>2 DEF XtInv
<1> QED
  BY <1>1, <1>2

-----------------------------------------------------------------------------
(* What holds of the board. *)

\* The BIU's invariant holds on the board of system.v too, with that of the
\* registers of the devices around it (Bios, the CGA card, the READY input).
THEOREM BoardInvariance == XtSpec => []XtInv
<1>1. XtInit => XtInv
  BY InitDataInv, InitBoardInv, MemoryReadsAreReads DEF XtInit, XtInv
<1>2. XtInv /\ [XtNext]_xtVars => XtInv'
  BY StepXtInv
<1> QED
  BY <1>1, <1>2, PTL DEF XtSpec

\* A memory read of the EU returns the BIOS's byte or word in the BIOS's range and
\* the RAM's everywhere else, in the window of the video RAM too: DEN is low when
\* the BIU samples, so neither the card nor the timer drives AD_IN then (cpuDataIn
\* in system.v).
THEOREM MemoryReadsAreAnswered == XtSpec => []MemReadIsAnswered
<1>1. XtInv => MemReadIsAnswered
  <2> SUFFICES ASSUME XtInv, cmd.code \in MemoryReads, Acked, WithinBlock,
                      s_bits # "code"
               PROVE  biu_return_d[2] = ReadData
    BY DEF MemReadIsAnswered, MemoryReads, ReadIsAnswered
  <2> QED
    BY AnswerIsReadData, MemoryReadsAreReads DEF XtInv
<1> QED
  BY <1>1, BoardInvariance, PTL

\* Each byte in the BIU's queue is the BIOS's or the RAM's at its offset of CS,
\* wherever the code lies, in the window of the video RAM too.
THEOREM CodeIsOfTheBoard == XtSpec => []CodeIsAnswered
<1>1. XtInv => CodeIsAnswered
  BY DEF XtInv, DataInv, IInv, CodeIsAnswered
<1> QED
  BY <1>1, BoardInvariance, PTL

\* A strobe of CpuArbiter for a write is on for the write the EU holds, at its
\* address, with its byte and on the side it asks for.
LEMMA StrobeIsAsAsked == XtInv => XtWriteIsAsAsked
<1> SUFFICES ASSUME XtInv, oMemW \/ oIOW, s_bits # "halt", WithinBlock
             PROVE  /\ cmd.req = 1 /\ ~Acked /\ cpuAddr = Wanted(byte_num)
                    /\ pin.data = IF byte_num = 1 THEN HiByte(dataout)
                                  ELSE LoByte(dataout)
                    /\ oIOW <=> cmd.code \in {"IOWR8", "IOWR16"}
                    /\ oMemW <=> cmd.code \in {"MWR8", "MWR16", "SWR16"}
  BY DEF XtWriteIsAsAsked
<1>1. pin.WR_n = 0 /\ pin.DTR = 1
  BY DEF oMemW, oIOW
<1>2. /\ cmd.req = 1 /\ ~Acked /\ cmd.code \in Writes
      /\ cpuAddr = Wanted(byte_num)
      /\ pin.data = IF byte_num = 1 THEN HiByte(dataout) ELSE LoByte(dataout)
      /\ pin.IOM = IF cmd.code \in {"IOWR8", "IOWR16"} THEN 1 ELSE 0
  BY <1>1, WriteIsOnTheBus, MemoryReadsAreReads DEF XtInv, WriteIsAsAsked
<1> QED
  BY <1>1, <1>2 DEF oMemW, oIOW, Writes

\* So a write strobe never reaches a memory or a port that the EU does not write
\* (CpuArbiter's oMemWrite and oIOWrite, the states 1A to 45 of biu_min.v).
THEOREM StrobesAreAsAsked == XtSpec => []XtWriteIsAsAsked
<1> QED
  BY StrobeIsAsAsked, BoardInvariance, PTL

\* A write strobe of CpuArbiter is one pulse of exactly the 44 clocks of the
\* states 1A to 45, for each byte.
THEOREM StrobesAreOfOneLength == XtSpec => WriteStrobeLength
<1>1. ASSUME XtInv, [XtNext]_xtVars, oMemW \/ oIOW, ~(oMemW \/ oIOW)'
      PROVE  held = StrobeClocks - 1
  <2>1. XtNext
    BY <1>1 DEF xtVars, vars, biuVars, seqVars, oMemW, oIOW
  <2>2. /\ TypeOK /\ StatesOccur /\ CyclePins /\ BoardInv /\ StateMachine
        /\ XtInv' /\ TypeOK' /\ CyclePins'
    BY <1>1, <2>1, StepXtInv
       DEF XtInv, DataInv, IInv, XtNext, BiuClock
  <2>3. /\ pin.WR_n = 0 /\ biu_state \in \h1A .. \h45
        /\ held = biu_state - \h1A
    BY <1>1, <2>2 DEF oMemW, oIOW, CyclePins, BoardInv
  <2>4. pin'.WR_n # 0
    <3>1. (TypeOK /\ CyclePins /\ pin.WR_n = 0 => oMemW \/ oIOW)'
      BY StrobeIsOn, PTL
    <3> QED
      BY <1>1, <2>2, <3>1
  <2>5. biu_state = \h45
    BY <2>2, <2>3, <2>4, WritePinStep
  <2> QED
    BY <2>3, <2>5 DEF StrobeClocks
<1>2. XtInv /\ [XtNext]_xtVars
        => [(oMemW \/ oIOW) /\ ~(oMemW \/ oIOW)' => held = StrobeClocks - 1]_xtVars
  BY <1>1
<1> QED
  BY <1>2, BoardInvariance, PTL DEF XtSpec, WriteStrobeLength

\* On this board too the BIU implements its two abstract specifications.
LEMMA XtClock ==
    ASSUME XtInv, [XtNext]_xtVars
    PROVE  [CodeClock]_vars
BY XtNextIsCodeClock DEF xtVars

\* Every request of an EU on the board of system.v gets the bus cycles of its
\* kind and is told once.
THEOREM XtServesRequests == XtSpec => RequestIsServedOnce
<1>1. XtInit => Request!Init /\ FirstByte
  BY InitRequest DEF XtInit
<1>2. XtInv /\ FirstByte /\ [XtNext]_xtVars
        => FirstByte' /\ [Request!Next]_(Request!vars)
  BY XtClock, RequestClock, MemoryReadsAreReads DEF XtInv
<1> QED
  BY <1>1, <1>2, BoardInvariance, PTL DEF XtSpec, RequestIsServedOnce

\* What an EU on this board pops is the stream of code bytes, none lost,
\* repeated or overtaken.
THEOREM XtStreamsCode == XtSpec => QueueIsAStream
<1>1. XtInit => Stream!Init
  BY InitStream DEF XtInit
<1>2. XtInv /\ [XtNext]_xtVars => [Stream!Next]_(Stream!vars)
  BY XtClock, StreamClock, MemoryReadsAreReads DEF XtInv
<1> QED
  BY <1>1, <1>2, BoardInvariance, PTL DEF XtSpec, QueueIsAStream, Stream!Spec

-----------------------------------------------------------------------------
(* The memory of main.cpp. *)

\* The address a byte of a request is wanted at is on the bus: it has 20 bits.
LEMMA WantedInRange ==
    ASSUME TypeOK, NEW n \in Bit
    PROVE  Wanted(n) \in PhysAddr
<1>1. SegmentOf \in Offset
  BY WidthAssumption
     DEF TypeOK, EuType, PipeType, Command, SegmentOf, SegReg, Offset
<1>2. (r3 + n) % AddrSpace \in Offset
  BY WidthAssumption DEF TypeOK, EuType, Offset, Bit
<1> QED
  BY <1>1, <1>2, PhysInRange DEF Wanted

\* Which byte of a write within a 64K block is asked for which address.
LEMMA BytesAsked ==
    ASSUME TypeOK, WithinBlock
    PROVE  /\ DOMAIN Bytes \subseteq PhysAddr
           /\ \A a \in DOMAIN Bytes : Bytes[a] \in Byte
           /\ \A a \in DOMAIN Bytes :
                \E n \in Bit : a = Wanted(n) /\ (n = 1 => IsWord(cmd.code))
           /\ \A n \in Bit : (n = 1 => IsWord(cmd.code)) =>
                /\ Wanted(n) \in DOMAIN Bytes
                /\ Bytes[Wanted(n)] = IF n = 1 THEN HiByte(dataout)
                                      ELSE LoByte(dataout)
           /\ \A a, b \in DOMAIN Bytes : Cell(a) = Cell(b) => a = b
<1>1. /\ Wanted(0) \in PhysAddr /\ Wanted(1) \in PhysAddr
      /\ PhysAddr \subseteq Nat /\ 0 \in Bit /\ 1 \in Bit
  BY WantedInRange, WidthAssumption DEF PhysAddr, Bit
<1>2. LoByte(dataout) \in Byte /\ HiByte(dataout) \in Byte
  BY WidthAssumption
     DEF TypeOK, EuType, LoByte, HiByte, Byte, Space, Offset
<1>3. CASE IsWord(cmd.code)
  <2>1. Wanted(1) = Wanted(0) + 1 /\ Wanted(1) # Wanted(0)
    <3>1. Wanted(1) = Wanted(0) + 1 /\ Wanted(0) \in Nat
      BY <1>1, <1>3 DEF WithinBlock
    <3> QED
      BY <3>1
  <2>2. /\ DOMAIN Bytes = {Wanted(0), Wanted(1)}
        /\ Bytes[Wanted(0)] = LoByte(dataout)
        /\ Bytes[Wanted(1)] = HiByte(dataout)
    BY <1>3, <2>1 DEF Bytes
  <2>3. Cell(Wanted(1)) # Cell(Wanted(0))
    BY <1>1, <2>1, CellsDiffer
  <2> HIDE DEF Bytes
  <2> QED
    BY <1>1, <1>2, <1>3, <2>2, <2>3 DEF Bit
<1>4. CASE ~IsWord(cmd.code)
  <2>1. DOMAIN Bytes = {Wanted(0)} /\ Bytes[Wanted(0)] = LoByte(dataout)
    BY <1>4 DEF Bytes
  <2> HIDE DEF Bytes
  <2> QED
    BY <1>1, <1>2, <1>4, <2>1 DEF Bit
<1> QED
  BY <1>3, <1>4

HasByte(n) == n = 1 => IsWord(cmd.code)
ByteOf(n)  == IF n = 1 THEN HiByte(dataout) ELSE LoByte(dataout)

\* What the write under way makes of each cell.
LEMMA CellsAsked ==
    ASSUME TypeOK, WithinBlock
    PROVE  /\ \A a \in PhysAddr : \/ AsAsked.ram[a] = asked.ram[a]
                                  \/ /\ a \notin BiosSel
                                     /\ \E n \in Bit : HasByte(n) /\ a = Wanted(n)
           /\ \A n \in Bit : HasByte(n) /\ Wanted(n) \notin BiosSel
                               => AsAsked.ram[Wanted(n)] = ByteOf(n)
           /\ \A c \in 0 .. VramSize - 1 :
                \/ AsAsked.video[c] = asked.video[c]
                \/ \E n \in Bit : /\ HasByte(n) /\ Wanted(n) \in VramSel
                                  /\ c = Cell(Wanted(n))
           /\ \A n \in Bit : HasByte(n) /\ Wanted(n) \in VramSel
                               => AsAsked.video[Cell(Wanted(n))] = ByteOf(n)
<1>1. /\ DOMAIN Bytes \subseteq PhysAddr
      /\ \A a \in DOMAIN Bytes : \E n \in Bit : a = Wanted(n) /\ HasByte(n)
      /\ \A n \in Bit : HasByte(n) => Wanted(n) \in DOMAIN Bytes
      /\ \A n \in Bit : HasByte(n) => Bytes[Wanted(n)] = ByteOf(n)
      /\ \A a, b \in DOMAIN Bytes : Cell(a) = Cell(b) => a = b
  BY BytesAsked DEF HasByte, ByteOf
<1>2. ASSUME NEW a \in PhysAddr
      PROVE  AsAsked.ram[a] = IF a \in DOMAIN Bytes \ BiosSel THEN Bytes[a]
                              ELSE asked.ram[a]
  BY DEF AsAsked
<1>3. ASSUME NEW c \in 0 .. VramSize - 1
      PROVE  AsAsked.video[c] = IF InVideo(c) = {} THEN asked.video[c]
                                ELSE Bytes[CHOOSE a \in InVideo(c) : TRUE]
  BY DEF AsAsked
<1>4. \A c : InVideo(c) \subseteq DOMAIN Bytes \cap VramSel
  BY DEF InVideo
<1>5. ASSUME NEW n \in Bit, HasByte(n), Wanted(n) \in VramSel
      PROVE  AsAsked.video[Cell(Wanted(n))] = ByteOf(n)
  <2>1. InVideo(Cell(Wanted(n))) = {Wanted(n)}
    BY <1>1, <1>5 DEF InVideo
  <2>2. (CHOOSE a \in InVideo(Cell(Wanted(n))) : TRUE) = Wanted(n)
    BY <2>1
  <2>3. Cell(Wanted(n)) \in 0 .. VramSize - 1
    BY <1>5, WantedInRange, CellsDiffer, WidthAssumption DEF PhysAddr
  <2> QED
    BY <1>1, <1>3, <1>5, <2>1, <2>2, <2>3
<1>6. ASSUME NEW c \in 0 .. VramSize - 1, AsAsked.video[c] # asked.video[c]
      PROVE  \E n \in Bit : /\ HasByte(n) /\ Wanted(n) \in VramSel
                            /\ c = Cell(Wanted(n))
  <2>1. PICK a : a \in InVideo(c)
    BY <1>3, <1>6
  <2>2. a \in DOMAIN Bytes /\ a \in VramSel /\ Cell(a) = c
    BY <2>1 DEF InVideo
  <2> QED
    BY <1>1, <2>2
<1>7. ASSUME NEW a \in PhysAddr, AsAsked.ram[a] # asked.ram[a]
      PROVE  a \notin BiosSel /\ \E n \in Bit : HasByte(n) /\ a = Wanted(n)
  BY <1>1, <1>2, <1>7
<1>8. ASSUME NEW n \in Bit, HasByte(n), Wanted(n) \notin BiosSel
      PROVE  AsAsked.ram[Wanted(n)] = ByteOf(n)
  BY <1>1, <1>2, <1>8
<1> QED
  BY <1>5, <1>6, <1>7, <1>8

\* The type of what the write makes of the memories.
LEMMA AskedType ==
    ASSUME TypeOK, WithinBlock, MemoryType
    PROVE  AsAsked \in [ram : [PhysAddr -> Cells], video : [0 .. VramSize - 1 -> Cells]]
<1>1. /\ \A a \in DOMAIN Bytes : Bytes[a] \in Cells
      /\ asked.ram \in [PhysAddr -> Cells]
      /\ asked.video \in [0 .. VramSize - 1 -> Cells]
  BY BytesAsked DEF MemoryType, Cells, Byte
<1>2. \A a \in PhysAddr :
        (IF a \in DOMAIN Bytes \ BiosSel THEN Bytes[a] ELSE asked.ram[a]) \in Cells
  BY <1>1
<1>3. ASSUME NEW c \in 0 .. VramSize - 1
      PROVE  (IF InVideo(c) = {} THEN asked.video[c]
              ELSE Bytes[CHOOSE a \in InVideo(c) : TRUE]) \in Cells
  <2>1. CASE InVideo(c) = {}
    BY <1>1, <2>1
  <2>2. CASE InVideo(c) # {}
    <3>1. (CHOOSE a \in InVideo(c) : TRUE) \in InVideo(c)
      BY <2>2
    <3>2. InVideo(c) \subseteq DOMAIN Bytes
      BY DEF InVideo
    <3> QED
      BY <1>1, <2>2, <3>1, <3>2
  <2> QED
    BY <2>1, <2>2
<1> QED
  BY <1>2, <1>3 DEF AsAsked

\* While a write is held it is the same write.
LEMMA SameWrite ==
    ASSUME cmd'.req = cmd.req, cmd'.code = cmd.code, cmd'.seg = cmd.seg,
           r3' = r3, dataout' = dataout, biu_register' = biu_register,
           asked' = asked
    PROVE  /\ Writing' <=> Writing
           /\ \A n : /\ Wanted(n)' = Wanted(n) /\ ByteOf(n)' = ByteOf(n)
                     /\ HasByte(n)' <=> HasByte(n)
           /\ AsAsked' = AsAsked
<1>1. SegmentOf' = SegmentOf /\ IsWord(cmd'.code) = IsWord(cmd.code)
  BY DEF SegmentOf
<1>2. \A n : Wanted(n)' = Wanted(n)
  BY <1>1 DEF Wanted
<1>3. \A n : ByteOf(n)' = ByteOf(n) /\ (HasByte(n)' <=> HasByte(n))
  BY <1>1 DEF ByteOf, HasByte
<1>4. Writing' <=> Writing
  BY DEF Writing
<1>5. Bytes' = Bytes
  BY <1>1, <1>2 DEF Bytes
<1>6. \A c : InVideo(c)' = InVideo(c)
  BY <1>5 DEF InVideo
<1>7. AsAsked' = AsAsked
  <2>1. \A c : (CHOOSE a \in InVideo(c) : TRUE)' = CHOOSE a \in InVideo(c) : TRUE
    BY <1>6
  <2>2. AsAsked.ram' = AsAsked.ram
    BY <1>5 DEF AsAsked
  <2>3. AsAsked.video' = AsAsked.video
    <3> DEFINE cell(c) == IF InVideo(c) = {} THEN asked.video[c]
                          ELSE Bytes[CHOOSE a \in InVideo(c) : TRUE]
    <3>1. /\ AsAsked.video = [c \in 0 .. VramSize - 1 |-> cell(c)]
          /\ AsAsked.video' = [c \in 0 .. VramSize - 1 |-> cell(c)']
      BY DEF AsAsked
    <3>2. ASSUME NEW c PROVE cell(c)' = cell(c)
      <4> DEFINE a == CHOOSE x \in InVideo(c) : TRUE
      <4>1. a' = a
        BY <2>1
      <4>2. /\ cell(c)  = IF InVideo(c) = {} THEN asked.video[c] ELSE Bytes[a]
            /\ cell(c)' = IF InVideo(c)' = {} THEN asked'.video[c] ELSE Bytes'[a']
        OBVIOUS
      <4> HIDE DEF a, cell
      <4> QED
        BY <1>5, <1>6, <4>1, <4>2
    <3> HIDE DEF cell
    <3> QED
      BY <3>1, <3>2
  <2>4. /\ AsAsked  = [ram |-> AsAsked.ram, video |-> AsAsked.video]
        /\ AsAsked' = [ram |-> AsAsked.ram', video |-> AsAsked.video']
    BY DEF AsAsked
  <2> QED
    BY <2>2, <2>3, <2>4
<1> QED
  BY <1>2, <1>3, <1>4, <1>7

\* A memory strobe is on in a bus cycle of the write under way, over the
\* address of the cycle's byte, with the byte.
LEMMA StrobeIsForWrite ==
    ASSUME XtInv, oMemW
    PROVE  /\ Writing /\ OwnCycle /\ biu_state \in \h1A .. \h45
           /\ WithinBlock => /\ cpuAddr = Wanted(byte_num)
                             /\ pin.data = ByteOf(byte_num)
           /\ byte_num \in Bit /\ HasByte(byte_num)
<1>1. /\ TypeOK /\ CyclePins /\ CycleIsAsAsked /\ IInv
      /\ pin.WR_n = 0 /\ pin.IOM = 0
  BY DEF XtInv, DataInv, IInv, oMemW
<1>2. biu_state \in \h1A .. \h45 /\ S1(s_bits) = 1
  BY <1>1 DEF CyclePins
<1>3. OwnCycle /\ pin.IOM = Not(S2(s_bits))
  BY <1>1, <1>2 DEF S1, OwnCycle, InBusCycle, CyclePins, ReqAt
<1>4. /\ cmd.req = 1 /\ cmd.code \in ReqCode /\ byte_num \in Bit
      /\ cmd.code # "JUMP" /\ s_bits = StatusOf(cmd.code)
      /\ byte_num = 1 => IsWord(cmd.code)
  BY <1>1, <1>3, OwnCycleIsHeld
     DEF CycleIsAsAsked, TypeOK, EuType, SeqType, Command
<1>5. s_bits # "halt"
  BY <1>1, <1>3 DEF S2, Not
<1>6. cmd.code \in {"MWR8", "MWR16", "SWR16"}
  BY <1>1, <1>2, <1>3, <1>4, <1>5, StatusFacts DEF Writes
<1>7. WithinBlock => /\ cpuAddr = Wanted(byte_num)
                     /\ pin.data = ByteOf(byte_num)
  BY <1>5, StrobeIsAsAsked DEF XtWriteIsAsAsked, ByteOf
<1> QED
  BY <1>2, <1>3, <1>4, <1>6, <1>7 DEF Writing, HasByte

\* cpu_t::tick writes the byte the strobe is on for, and nothing else.
LEMMA TickWrites ==
    ASSUME XtInv', WritesStayInBlock', MemoryType, tick
    PROVE  /\ memory' \in [PhysAddr -> Cells]
           /\ ~oMemW' => memory' = memory
           /\ \A n \in Bit : oMemW' /\ byte_num' = n =>
                /\ HasByte(n)'
                /\ Wanted(n)' \notin BiosSel => memory'[Wanted(n)'] = ByteOf(n)'
                /\ \A a \in PhysAddr : \/ memory'[a] = memory[a]
                                       \/ a = Wanted(n)' /\ a \notin BiosSel
<1>1. memory \in [PhysAddr -> Cells] /\ cpuAddr' \in PhysAddr /\ pin'.data \in Cells
  BY DEF MemoryType, XtInv, DataInv, IInv, TypeOK, BoardType, SeqType, Pins,
         Cells, Byte
<1>2. memory' = IF cpuAddr' \notin BiosSel /\ oMemW'
                THEN [memory EXCEPT ![cpuAddr'] = pin'.data] ELSE memory
  BY DEF tick, write, oSramWe, selectBios
<1>3. ASSUME oMemW', NEW n \in Bit, byte_num' = n
      PROVE  cpuAddr' = Wanted(n)' /\ pin'.data = ByteOf(n)' /\ HasByte(n)'
  <2>1. (XtInv /\ oMemW => /\ Writing /\ HasByte(byte_num)
                           /\ WithinBlock => /\ cpuAddr = Wanted(byte_num)
                                             /\ pin.data = ByteOf(byte_num))'
    BY StrobeIsForWrite, PTL
  <2> QED
    BY <1>3, <2>1 DEF WritesStayInBlock, Wanted, ByteOf, HasByte
<1> QED
  BY <1>1, <1>2, <1>3

\* So does the video RAM, one clock later.
LEMMA VideoWrites ==
    ASSUME XtInv, WritesStayInBlock, MemoryType, VideoWrite
    PROVE  /\ vram' \in [0 .. VramSize - 1 -> Cells]
           /\ ~oMemW => vram' = vram
           /\ oMemW =>
                /\ Wanted(byte_num) \in VramSel
                     => vram'[Cell(Wanted(byte_num))] = ByteOf(byte_num)
                /\ \A c \in 0 .. VramSize - 1 :
                     \/ vram'[c] = vram[c]
                     \/ /\ Wanted(byte_num) \in VramSel
                        /\ c = Cell(Wanted(byte_num))
<1>1. /\ vram \in [0 .. VramSize - 1 -> Cells]
      /\ cpuAddr \in PhysAddr /\ pin.data \in Cells
  BY DEF MemoryType, XtInv, DataInv, IInv, TypeOK, BoardType, SeqType, Pins,
         Cells, Byte
<1>2. Cell(cpuAddr) \in 0 .. VramSize - 1
  <2>1. cpuAddr \in Nat
    BY <1>1, WidthAssumption DEF PhysAddr
  <2> QED
    BY <2>1, CellsDiffer
<1>3. CASE oMemW
  <2>1. cpuAddr = Wanted(byte_num) /\ pin.data = ByteOf(byte_num)
    BY <1>3, StrobeIsForWrite DEF WritesStayInBlock
  <2>2. vram' = IF cpuAddr \in VramSel THEN [vram EXCEPT ![Cell(cpuAddr)] = pin.data]
                ELSE vram
    BY <1>3 DEF VideoWrite
  <2> QED
    BY <1>1, <1>2, <1>3, <2>1, <2>2
<1>4. CASE ~oMemW
  BY <1>1, <1>4 DEF VideoWrite
<1> QED
  BY <1>3, <1>4

\* In those states of a cycle of a memory write the strobe is on.
LEMMA StrobeInCycle ==
    ASSUME XtInv, Writing, OwnCycle, biu_state \in \h1A .. \h45
    PROVE  oMemW
<1>1. /\ CyclePins /\ ReqAt(\h1A, \h45) /\ ReqAt(\h02, \h45)
      /\ s_bits = StatusOf(cmd.code)
  BY DEF XtInv, DataInv, CycleIsAsAsked, OwnCycle, ReqAt
<1>2. s_bits = "mwr"
  BY <1>1 DEF Writing, StatusOf
<1>3. pin.WR_n = 0 /\ pin.DTR = 1 /\ pin.IOM = 0
  BY <1>1, <1>2 DEF CyclePins, S1, S2, Not
<1> QED
  BY <1>3 DEF oMemW

\* A byte has been on the bus after a clock when it had been before, or when
\* the strobe is on for it: for the RAM in the new state, for the video RAM,
\* which is written one clock later, in the old one.
LEMMA ArrivalStep ==
    ASSUME XtInv, XtNext, NEW n \in Bit
    PROVE  /\ Arrived(n, \h1A)' =>
                /\ Frozen
                /\ \/ Arrived(n, \h1A)
                   \/ OwnCycle' /\ byte_num' = n /\ biu_state' \in \h1A .. \h45
           /\ Arrived(n, \h1B)' =>
                /\ Frozen
                /\ \/ Arrived(n, \h1B)
                   \/ OwnCycle /\ byte_num = n /\ biu_state \in \h1A .. \h45
<1>1. /\ CodeClock /\ IInv /\ IInv' /\ RequestIsHeld /\ CycleIsAsAsked
      /\ TypeOK /\ StatesOccur /\ BoardInv /\ StateMachine /\ CaptureRequest
      /\ byte_num \in {0, 1} /\ n \in {0, 1}
  BY XtNextIsCodeClock, StepIInv
     DEF XtInv, DataInv, IInv, XtNext, BiuClock, TypeOK, SeqType, Bit
<1>2. ASSUME Writing', HasByte(n)', Told' \/ OwnCycle'
      PROVE  Frozen /\ Writing /\ HasByte(n) /\ cmd.req = 1 /\ cmd.code # "JUMP"
  <2>1. Frozen
    <3>1. CASE OwnCycle'
      BY <1>1, <3>1, CycleGoesOn
    <3>2. CASE Told'
      <4>1. cmd'.req = 1 /\ eu_biu_req_d1' = 1
        BY <1>1, <3>2 DEF Told, IInv, Handshake, Phase
      <4> QED
        BY <1>1, <4>1, RequestFreezes DEF CaptureRequest
    <3> QED
      BY <1>2, <3>1, <3>2
  <2> QED
    BY <1>2, <2>1 DEF Frozen, Writing, HasByte, IsWord
\* Whatever the first state of the byte is.
<1>3. ASSUME NEW first \in {\h1A, \h1B}, Writing', HasByte(n)',
             Told' \/ (OwnCycle' /\ byte_num' > n)
      PROVE  Arrived(n, first)
  <2>1. Writing /\ HasByte(n) /\ cmd.req = 1 /\ cmd.code # "JUMP"
    BY <1>2, <1>3
  <2>2. \/ Told
        \/ OwnCycle /\ byte_num > n
        \/ OwnCycle /\ byte_num = n /\ biu_state = \h45
    <3>1. CASE Told'
      <4>1. ~Told => /\ OwnCycle /\ biu_state = \h45
                     /\ byte_num = 1 <=> IsWord(cmd.code)
        BY <1>1, <2>1, <3>1, ToldAfterLastCycle
      <4> QED
        BY <1>1, <2>1, <4>1 DEF HasByte
    <3>2. CASE OwnCycle' /\ byte_num' > n
      <4>1. OwnCycle /\ (CycleAdvances \/ SecondByte)
        BY <1>1, <3>2, CycleGoesOn DEF StartRequest, Idle
      <4>2. CASE CycleAdvances
        BY <3>2, <4>1, <4>2 DEF CycleAdvances
      <4>3. CASE SecondByte
        BY <1>1, <3>2, <4>1, <4>3 DEF SecondByte
      <4> QED
        BY <4>1, <4>2, <4>3
    <3> QED
      BY <1>3, <3>1, <3>2
  <2> QED
    BY <2>1, <2>2 DEF Arrived, HasByte
<1>4. ASSUME OwnCycle', byte_num' = n, biu_state' \in \h1B .. \h45
      PROVE  OwnCycle /\ byte_num = n /\ biu_state \in \h1A .. \h45
  <2>1. ReqAt(\h02, \h45)'
    BY <1>4 DEF OwnCycle, ReqAt
  <2>2. OwnCycle /\ byte_num = n
    BY <1>1, <1>4, <2>1, CycleWasOwn DEF CycleAdvances
  <2>3. biu_state' \in \h03 .. \h45 => biu_state = biu_state' - 1
    BY <1>1, NoWaitStates
  <2> QED
    BY <1>4, <2>2, <2>3
<1>5. ASSUME NEW first, Arrived(n, first)'
      PROVE  /\ Writing' /\ HasByte(n)'
             /\ \/ Told'
                \/ OwnCycle' /\ byte_num' > n
                \/ OwnCycle' /\ byte_num' = n /\ biu_state' \in first .. \h45
  BY <1>5 DEF Arrived, HasByte
<1> QED
  BY <1>2, <1>3, <1>4, <1>5

\* A clock of main.cpp leaves bytes in every cell.
LEMMA StepMemoryType ==
    ASSUME XtInv, XtInv', MemoryType, HarnessNext,
           WritesStayInBlock, WritesStayInBlock'
    PROVE  MemoryType'
<1>1. memory' \in [PhysAddr -> Cells] /\ vram' \in [0 .. VramSize - 1 -> Cells]
  BY TickWrites, VideoWrites DEF HarnessNext
<1>2. asked' \in [ram : [PhysAddr -> Cells], video : [0 .. VramSize - 1 -> Cells]]
  <2>1. asked' = IF Writing /\ cmd'.req = 0 THEN AsAsked ELSE asked
    BY DEF HarnessNext, TrackWrites
  <2>2. TypeOK /\ (Writing => WithinBlock)
    BY DEF XtInv, DataInv, IInv, WritesStayInBlock
  <2> QED
    BY <2>1, <2>2, AskedType DEF MemoryType
<1> QED
  BY <1>1, <1>2 DEF MemoryType

\* A write that goes on: the bytes that arrive are those asked for.
LEMMA WriteGoesOn ==
    ASSUME XtInv, XtInv', MemoryInv, MemoryType', HarnessNext,
           WritesStayInBlock, WritesStayInBlock', Frozen, Writing
    PROVE  MemoryInv'
<1>1. /\ XtNext /\ tick /\ VideoWrite /\ asked' = asked
      /\ TypeOK /\ WithinBlock /\ MemoryType /\ byte_num' \in Bit
  BY DEF HarnessNext, TrackWrites, Frozen, XtInv, DataInv, IInv, TypeOK,
         SeqType, WritesStayInBlock, MemoryInv
<1>2. /\ Writing' /\ AsAsked' = AsAsked
      /\ \A n : /\ Wanted(n)' = Wanted(n) /\ ByteOf(n)' = ByteOf(n)
                /\ HasByte(n)' <=> HasByte(n)
  BY <1>1, SameWrite DEF Frozen
<1>3. /\ \A n \in Bit : HasByte(n) /\ Wanted(n) \notin BiosSel
                          => AsAsked.ram[Wanted(n)] = ByteOf(n)
      /\ \A n \in Bit : HasByte(n) /\ Wanted(n) \in VramSel
                          => AsAsked.video[Cell(Wanted(n))] = ByteOf(n)
  BY <1>1, CellsAsked
<1>4. \A a \in PhysAddr : memory'[a] = memory[a] \/ memory'[a] = AsAsked.ram[a]
  <2>1. CASE oMemW'
    <3>1. PICK n \in Bit : byte_num' = n
      BY <1>1
    <3>2. /\ HasByte(n)
          /\ Wanted(n) \notin BiosSel => memory'[Wanted(n)] = ByteOf(n)
          /\ \A a \in PhysAddr : \/ memory'[a] = memory[a]
                                 \/ a = Wanted(n) /\ a \notin BiosSel
      BY <1>1, <1>2, <2>1, <3>1, TickWrites
    <3> QED
      BY <1>3, <3>2
  <2>2. CASE ~oMemW'
    BY <1>1, <2>2, TickWrites
  <2> QED
    BY <2>1, <2>2
<1>5. \A c \in 0 .. VramSize - 1 : vram'[c] = vram[c] \/ vram'[c] = AsAsked.video[c]
  <2>1. oMemW => HasByte(byte_num) /\ byte_num \in Bit
    BY StrobeIsForWrite
  <2> QED
    BY <1>1, <1>3, <2>1, VideoWrites
<1>6. ASSUME NEW n \in Bit, Arrived(n, \h1A)', Wanted(n) \notin BiosSel
      PROVE  memory'[Wanted(n)] = AsAsked.ram[Wanted(n)]
  <2>1. CASE Arrived(n, \h1A)
    <3>1. memory[Wanted(n)] = AsAsked.ram[Wanted(n)]
      BY <1>6, <2>1 DEF MemoryInv, ArrivedIsWritten, read
    <3> QED
      BY <1>1, <1>4, <3>1, WantedInRange
  <2>2. CASE OwnCycle' /\ byte_num' = n /\ biu_state' \in \h1A .. \h45
    <3>1. oMemW'
      <4>1. (XtInv /\ Writing /\ OwnCycle /\ biu_state \in \h1A .. \h45 => oMemW)'
        BY StrobeInCycle, PTL
      <4> QED
        BY <1>2, <2>2, <4>1
    <3>2. HasByte(n) /\ memory'[Wanted(n)] = ByteOf(n)
      BY <1>1, <1>2, <1>6, <2>2, <3>1, TickWrites
    <3> QED
      BY <1>3, <1>6, <3>2
  <2> QED
    BY <1>1, <1>6, <2>1, <2>2, ArrivalStep
<1>7. ASSUME NEW n \in Bit, Arrived(n, \h1B)', Wanted(n) \in VramSel
      PROVE  vram'[Cell(Wanted(n))] = AsAsked.video[Cell(Wanted(n))]
  <2>1. CASE Arrived(n, \h1B)
    <3>1. vram[Cell(Wanted(n))] = AsAsked.video[Cell(Wanted(n))]
      BY <1>7, <2>1 DEF MemoryInv, ArrivedIsWritten
    <3>2. Cell(Wanted(n)) \in 0 .. VramSize - 1
      BY <1>1, WantedInRange, CellsDiffer, WidthAssumption DEF PhysAddr
    <3> QED
      BY <1>5, <3>1, <3>2
  <2>2. CASE OwnCycle /\ byte_num = n /\ biu_state \in \h1A .. \h45
    <3>1. oMemW /\ HasByte(n)
      BY <2>2, StrobeInCycle, StrobeIsForWrite
    <3> QED
      BY <1>1, <1>3, <1>7, <2>2, <3>1, VideoWrites
  <2> QED
    BY <1>1, <1>7, <2>1, <2>2, ArrivalStep
<1>8. MemoryIsAsWritten'
  <2>1. \A a \in PhysAddr : memory'[a] # asked.ram[a] => memory'[a] = AsAsked.ram[a]
    BY <1>4 DEF MemoryInv, MemoryIsAsWritten, read
  <2>2. DOMAIN vram' = 0 .. VramSize - 1 /\ DOMAIN vram = 0 .. VramSize - 1
    BY DEF MemoryInv, MemoryType
  <2>3. \A c \in DOMAIN vram' : vram'[c] # asked.video[c] => vram'[c] = AsAsked.video[c]
    BY <1>5, <2>2 DEF MemoryInv, MemoryIsAsWritten
  <2> QED
    BY <1>1, <1>2, <2>1, <2>3 DEF MemoryIsAsWritten, read
<1>9. ArrivedIsWritten'
  <2> SUFFICES ASSUME NEW n \in Bit
               PROVE  /\ Arrived(n, \h1A)' /\ Wanted(n)' \notin BiosSel
                           => memory'[Wanted(n)'] = AsAsked'.ram[Wanted(n)']
                      /\ Arrived(n, \h1B)' /\ Wanted(n)' \in VramSel
                           => vram'[Cell(Wanted(n)')] = AsAsked'.video[Cell(Wanted(n)')]
    BY DEF ArrivedIsWritten, read, Cell
  <2> QED
    BY <1>2, <1>6, <1>7
<1> QED
  BY <1>8, <1>9 DEF MemoryInv

\* The end of a write: both its bytes have arrived, and no strobe is on.
LEMMA WriteEnds ==
    ASSUME XtInv, XtInv', MemoryInv, MemoryType', HarnessNext,
           WritesStayInBlock, WritesStayInBlock', Writing, cmd'.req = 0
    PROVE  MemoryInv'
<1>1. /\ XtNext /\ tick /\ VideoWrite /\ asked' = AsAsked /\ EuStep
      /\ IInv /\ TypeOK /\ WithinBlock /\ MemoryType /\ byte_num' \in Bit
  BY DEF HarnessNext, XtNext, TrackWrites, XtInv, DataInv, IInv, TypeOK,
         SeqType, WritesStayInBlock, MemoryInv
<1>2. Told /\ biu_done_caught = 1
  BY <1>1, RequestStep DEF Writing, Told
<1>3. ~oMemW
  BY <1>1, <1>2, StrobeIsForWrite, OwnCycleIsHeld
<1>4. ~oMemW' /\ ~Writing'
  <2>1. (XtInv /\ oMemW => Writing)'
    BY StrobeIsForWrite, PTL
  <2> QED
    BY <2>1 DEF Writing
<1>5. memory' = memory /\ vram' = vram
  BY <1>1, <1>3, <1>4, TickWrites, VideoWrites
<1>6. /\ \A n \in Bit : HasByte(n) => Arrived(n, \h1A) /\ Arrived(n, \h1B)
      /\ \A n \in Bit : HasByte(n) /\ Wanted(n) \notin BiosSel
           => memory[Wanted(n)] = AsAsked.ram[Wanted(n)]
      /\ \A n \in Bit : HasByte(n) /\ Wanted(n) \in VramSel
           => vram[Cell(Wanted(n))] = AsAsked.video[Cell(Wanted(n))]
  BY <1>2 DEF Arrived, HasByte, MemoryInv, ArrivedIsWritten, read
<1>7. \A a \in PhysAddr : memory[a] = AsAsked.ram[a]
  <2> TAKE a \in PhysAddr
  <2>1. \/ AsAsked.ram[a] = asked.ram[a]
        \/ a \notin BiosSel /\ \E n \in Bit : HasByte(n) /\ a = Wanted(n)
    BY <1>1, CellsAsked
  <2>2. memory[a] # asked.ram[a] => memory[a] = AsAsked.ram[a]
    BY DEF MemoryInv, MemoryIsAsWritten, read
  <2> QED
    BY <1>6, <2>1, <2>2
<1>8. \A c \in 0 .. VramSize - 1 : vram[c] = AsAsked.video[c]
  <2> TAKE c \in 0 .. VramSize - 1
  <2>1. \/ AsAsked.video[c] = asked.video[c]
        \/ \E n \in Bit : /\ HasByte(n) /\ Wanted(n) \in VramSel
                          /\ c = Cell(Wanted(n))
    BY <1>1, CellsAsked
  <2>2. vram[c] # asked.video[c] => vram[c] = AsAsked.video[c]
    BY <1>1 DEF MemoryType, MemoryInv, MemoryIsAsWritten
  <2> QED
    BY <1>6, <2>1, <2>2
<1>9. /\ \A a \in PhysAddr : memory'[a] = asked'.ram[a]
      /\ \A c \in DOMAIN vram' : vram'[c] = asked'.video[c]
  <2>1. DOMAIN vram' = 0 .. VramSize - 1
    BY DEF MemoryType
  <2> QED
    BY <1>1, <1>5, <1>7, <1>8, <2>1
<1>10. MemoryIsAsWritten'
  <2>1. (dump_display = [a \in DisplaySel |-> asked.ram[a]])'
    BY <1>9, HarnessAssumption DEF dump_display, read
  <2> QED
    BY <1>9, <2>1 DEF MemoryIsAsWritten, read
<1>11. ArrivedIsWritten'
  BY <1>4 DEF ArrivedIsWritten, Arrived
<1> QED
  BY <1>10, <1>11 DEF MemoryInv

\* While no write is under way the memory stands still, and a write just
\* raised has no byte on the bus.
LEMMA NoWrite ==
    ASSUME XtInv, XtInv', MemoryInv, MemoryType', HarnessNext,
           WritesStayInBlock, WritesStayInBlock', ~Writing
    PROVE  MemoryInv'
<1>1. /\ XtNext /\ tick /\ VideoWrite /\ asked' = asked
      /\ MemoryType /\ byte_num' \in Bit
  BY DEF HarnessNext, TrackWrites, XtInv, DataInv, IInv, TypeOK, SeqType,
         MemoryInv
<1>2. \A n \in Bit : ~Arrived(n, \h1A)' /\ ~Arrived(n, \h1B)'
  <2>1. \A n \in Bit : Arrived(n, \h1A)' \/ Arrived(n, \h1B)' => Frozen /\ Writing'
    BY <1>1, ArrivalStep DEF Arrived
  <2> QED
    BY <2>1 DEF Frozen, Writing
<1>3. ~oMemW /\ ~oMemW'
  <2>1. ~oMemW
    BY StrobeIsForWrite
  <2>2. (XtInv /\ oMemW
           => /\ Writing /\ OwnCycle /\ biu_state \in \h1A .. \h45
              /\ byte_num \in Bit /\ HasByte(byte_num))'
    BY StrobeIsForWrite, PTL
  <2>3. ASSUME oMemW' PROVE FALSE
    <3>1. PICK n \in Bit : byte_num' = n
      BY <1>1
    <3>2. Arrived(n, \h1A)'
      BY <1>1, <2>2, <2>3, <3>1 DEF Arrived, HasByte
    <3> QED
      BY <1>2, <3>2
  <2> QED
    BY <2>1, <2>3
<1>4. memory' = memory /\ vram' = vram
  BY <1>1, <1>3, TickWrites, VideoWrites
<1>5. MemoryIsAsWritten'
  <2>1. /\ \A a \in PhysAddr : memory[a] = asked.ram[a]
        /\ \A c \in DOMAIN vram : vram[c] = asked.video[c]
    BY DEF MemoryInv, MemoryIsAsWritten, read
  <2>2. (dump_display = [a \in DisplaySel |-> asked.ram[a]])'
    BY <1>1, <1>4, <2>1, HarnessAssumption DEF dump_display, read
  <2> QED
    BY <1>1, <1>4, <2>1, <2>2 DEF MemoryIsAsWritten, read
<1>6. ArrivedIsWritten'
  BY <1>2 DEF ArrivedIsWritten
<1> QED
  BY <1>5, <1>6 DEF MemoryInv

\* A clock of main.cpp: no write, one that goes on, or one that ends.
LEMMA StepMemoryInv ==
    ASSUME XtInv, XtInv', MemoryInv, [HarnessNext]_harnessVars,
           WritesStayInBlock, WritesStayInBlock'
    PROVE  MemoryInv'
<1>1. CASE HarnessNext
  <2>1. MemoryType' /\ TypeOK' /\ RequestIsHeld /\ TypeOK /\ CodeClock
    BY <1>1, StepMemoryType, XtNextIsCodeClock
       DEF MemoryInv, HarnessNext, XtInv, DataInv, IInv
  <2>2. cmd.req \in {0, 1} /\ cmd'.req \in {0, 1}
    BY <2>1 DEF TypeOK, EuType, Command, Bit
  <2>3. CASE Writing /\ cmd'.req = 1
    <3>1. Frozen
      BY <2>1, <2>3, RequestFreezes DEF Writing
    <3> QED
      BY <1>1, <2>1, <2>3, <3>1, WriteGoesOn
  <2>4. CASE Writing /\ cmd'.req = 0
    BY <1>1, <2>1, <2>4, WriteEnds
  <2>5. CASE ~Writing
    BY <1>1, <2>1, <2>5, NoWrite
  <2> QED
    BY <2>2, <2>3, <2>4, <2>5
<1>2. CASE UNCHANGED harnessVars
  <2>1. /\ UNCHANGED <<memory, vram, asked, cmd, dataout, r3>>
        /\ UNCHANGED <<biu_register, biu_state, s_bits, byte_num>>
        /\ UNCHANGED <<biu_done_int, biu_done_d1, biu_done_caught>>
    BY <1>2 DEF harnessVars, xtVars, vars, euVars, cmdVars, biuVars, pipeVars,
                seqVars
  <2>2. /\ Writing' <=> Writing
        /\ AsAsked' = AsAsked /\ \A n : Wanted(n)' = Wanted(n)
    BY <2>1, SameWrite
  <2>3. MemoryType' /\ MemoryIsAsWritten'
    BY <2>1, <2>2
       DEF MemoryInv, MemoryType, MemoryIsAsWritten, read, dump_display
  <2>4. \A n, first : Arrived(n, first)' <=> Arrived(n, first)
    BY <2>1, <2>2 DEF Arrived, Told, OwnCycle, InBusCycle
  <2>5. ArrivedIsWritten'
    BY <2>1, <2>2, <2>4 DEF MemoryInv, ArrivedIsWritten, read, Cell
  <2> QED
    BY <2>3, <2>5 DEF MemoryInv
<1> QED
  BY <1>1, <1>2

\* The memories main.cpp starts from.
LEMMA InitMemoryInv == HarnessInit => MemoryInv
<1> SUFFICES ASSUME HarnessInit PROVE MemoryInv
  OBVIOUS
<1>1. /\ cmd.req = 0 /\ memory = writeBlock(InitialMemory, ResetVector)
      /\ vram = [c \in 0 .. VramSize - 1 |-> Junk]
      /\ asked = [ram |-> memory, video |-> vram]
  BY DEF HarnessInit, XtInit, Init
<1>2. MemoryType
  <2>1. \A a \in PhysAddr : <<"vector", a>> \in Cells /\ <<"fill", \hCC>> \in Cells
    BY WidthAssumption DEF PhysAddr, Cells
  <2>2. memory \in [PhysAddr -> Cells]
    BY <1>1, <2>1 DEF writeBlock, InitialMemory, ResetVector
  <2>3. vram \in [0 .. VramSize - 1 -> Cells]
    BY <1>1 DEF Junk, Cells, Space
  <2> QED
    BY <1>1, <2>2, <2>3 DEF MemoryType
<1>3. ~Writing
  BY <1>1 DEF Writing
<1>4. MemoryIsAsWritten
  BY <1>1, <1>3 DEF MemoryIsAsWritten, dump_display, read
<1>5. ArrivedIsWritten
  BY <1>3 DEF ArrivedIsWritten, Arrived
<1> QED
  BY <1>2, <1>4, <1>5 DEF MemoryInv

\* The board in main.cpp is the board of Xt.
THEOREM HarnessIsOfTheBoard == HarnessSpec => XtSpec
<1>1. HarnessInit => XtInit
  BY DEF HarnessInit
<1>2. [HarnessNext]_harnessVars => [XtNext]_xtVars
  BY DEF HarnessNext, harnessVars
<1> QED
  BY <1>1, <1>2, PTL DEF HarnessSpec, XtSpec

\* Provided every word written lies within one 64K block, the memory of
\* main.cpp (memory_t), the display it dumps and the video RAM are at all times
\* what the EU's finished writes made of them, but for bytes of the write under
\* way that have arrived.
THEOREM MemoryIsWrittenAsAsked ==
    HarnessSpec /\ []WritesStayInBlock => []MemoryIsAsWritten
<1>1. HarnessInit => MemoryInv
  BY InitMemoryInv
<1>2. XtInv /\ XtInv' /\ WritesStayInBlock /\ WritesStayInBlock'
        /\ MemoryInv /\ [HarnessNext]_harnessVars => MemoryInv'
  BY StepMemoryInv
<1>3. MemoryInv => MemoryIsAsWritten
  BY DEF MemoryInv
<1>4. HarnessSpec => []XtInv
  BY HarnessIsOfTheBoard, BoardInvariance, PTL
<1> QED
  BY <1>1, <1>2, <1>3, <1>4, PTL DEF HarnessSpec
=============================================================================
