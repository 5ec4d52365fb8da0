--------------------------- MODULE BiuDataProofs ---------------------------
(***************************************************************************)
(* More theorems of BiuSystem, for every width of the addresses, every     *)
(* clock, every set of requests and every device: what a read brings back  *)
(* and what a write puts out, and that the BIU implements the two abstract *)
(* specifications, BusRequest and CodeStream.                              *)
(***************************************************************************)
EXTENDS BiuProofs, BiuRefines, SequenceTheorems

\* The status bits tell reads from writes and memory from I/O.
LEMMA StatusFacts ==
    ASSUME NEW c \in ReqCode, c # "JUMP"
    PROVE  /\ StatusOf(c) # "code"
           /\ c \in Reads <=> S1(StatusOf(c)) = 0
           /\ c \in Writes <=> S1(StatusOf(c)) = 1 /\ StatusOf(c) # "halt"
           /\ StatusOf(c) = "inta" <=> c = "INTA"
           /\ StatusOf(c) = "halt" <=> c = "HALT"
           /\ c \in {"IORD8", "IORD16", "IOWR8", "IOWR16"}
                => Not(S2(StatusOf(c))) = 1
           /\ c \notin {"INTA", "IORD8", "IORD16", "IOWR8", "IOWR16", "HALT"}
                => Not(S2(StatusOf(c))) = 0
BY DEF StatusOf, ReqCode, Reads, Writes, S1, S2, Not

\* What the state machine puts in addr_out_temp for a request.
LEMMA AddressIsFirst ==
    ASSUME cmd.code \in ReqCode, cmd.code \notin {"JUMP", "HALT"},
           eu_register_r3_d = r3
    PROVE  AddressOf(cmd) = CycleAddress(0)
BY DEF AddressOf, CycleAddress, SegmentOf, ReqCode

\* Within a 64K block the address put out is the one asked for.
LEMMA CycleAddressIsWanted ==
    ASSUME TypeOK, WithinBlock, NEW n \in Bit, n = 1 => IsWord(cmd.code)
    PROVE  CycleAddress(n) = Wanted(n)
<1>1. r3 \in 0 .. AddrSpace - 1 /\ AddrSpace \in Nat \ {0}
  BY WidthAssumption DEF TypeOK, EuType, Offset
<1>2. (AddrSpace * 0 + r3) % AddrSpace = r3
  BY <1>1, ModUnique
<1>3. r3 + 0 = AddrSpace * 0 + r3
  BY <1>1
<1>4. Wanted(0) = Phys(SegmentOf, r3)
  BY <1>2, <1>3 DEF Wanted
<1>5. CASE n = 0
  BY <1>4, <1>5 DEF CycleAddress
<1>6. CASE n = 1
  <2>1. CycleAddress(1) = NextByte(Wanted(0))
    BY <1>4 DEF CycleAddress
  <2>2. Wanted(1) = Wanted(0) + 1 /\ Wanted(0) % AddrSpace # AddrSpace - 1
    BY <1>6 DEF WithinBlock
  <2> QED
    BY <1>6, <2>1, <2>2 DEF NextByte
<1> QED
  BY <1>5, <1>6 DEF Bit

-----------------------------------------------------------------------------
(* A request stands still while it is held. *)

Frozen == /\ cmd.req = 1 /\ cmd'.req = 1 /\ cmd'.strobe = "none"
          /\ cmd'.code = cmd.code /\ cmd'.seg = cmd.seg
          /\ r3' = r3 /\ dataout' = dataout /\ biu_register' = biu_register

LEMMA RequestFreezes ==
    ASSUME TypeOK, RequestIsHeld, CodeClock, cmd.req = 1, cmd'.req = 1
    PROVE  Frozen
<1> USE DEF TypeOK, EuType, Command, RequestIsHeld
<1>1. EuStep /\ LoadSegment
  BY DEF CodeClock, BiuClock
<1>2. biu_register' = biu_register
  BY <1>1 DEF LoadSegment
<1>3. CASE EuOther
  BY <1>2, <1>3 DEF EuOther, Frozen
<1>4. CASE EuRelease
  BY <1>4 DEF EuRelease
<1>5. CASE EuPoll \/ EuPop \/ EuLoadSegment \/ EuRequest
  BY <1>5 DEF EuPoll, EuPop, EuLoadSegment, EuRequest
<1> QED
  BY <1>1, <1>3, <1>4, <1>5 DEF EuStep

LEMMA FrozenAddress ==
    ASSUME Frozen, NEW n
    PROVE  CycleAddress(n)' = CycleAddress(n)
<1>1. SegmentOf' = SegmentOf
  BY DEF Frozen, SegmentOf
<1> QED
  BY <1>1 DEF Frozen, CycleAddress

LEMMA FrozenResult ==
    ASSUME Frozen, NEW n
    PROVE  ReadByte(n)' = ReadByte(n) /\ Result(n)' = Result(n)
<1>1. /\ CycleAddress(n)' = CycleAddress(n)
      /\ CycleAddress(0)' = CycleAddress(0) /\ CycleAddress(1)' = CycleAddress(1)
      /\ cmd'.code = cmd.code
  BY FrozenAddress DEF Frozen
<1>2. ReadByte(n)' = ReadByte(n)
  BY <1>1 DEF ReadByte
<1>3. ReadByte(0)' = ReadByte(0) /\ ReadByte(1)' = ReadByte(1)
  BY <1>1 DEF ReadByte
<1> QED
  BY <1>1, <1>2, <1>3 DEF Result

LEMMA StepRequestIsHeld ==
    ASSUME TypeOK, RequestIsHeld, CodeClock
    PROVE  RequestIsHeld'
<1> SUFFICES ASSUME cmd'.req = 1
             PROVE  /\ cmd'.strobe = "none"
                    /\ eu_biu_req_d1' = 1 => eu_register_r3_d' = r3'
  BY DEF RequestIsHeld
<1>1. EuStep /\ eu_biu_req_d1' = cmd.req /\ eu_register_r3_d' = r3
  BY DEF CodeClock, BiuClock, CaptureRequest, Pipelines
<1>2. CASE cmd.req = 1
  BY <1>1, <1>2, RequestFreezes DEF Frozen
<1>3. CASE cmd.req # 1
  <2> USE DEF TypeOK, EuType, Command, Bit
  <2>1. CASE EuRequest
    BY <1>1, <1>3, <2>1 DEF EuRequest
  <2>2. CASE EuOther \/ EuPoll \/ EuPop \/ EuLoadSegment \/ EuRelease
    BY <1>3, <2>2
       DEF EuOther, EuPoll, EuPop, EuLoadSegment, EuRelease, cmdVars
  <2> QED
    BY <1>1, <2>1, <2>2 DEF EuStep
<1> QED
  BY <1>2, <1>3

-----------------------------------------------------------------------------
(* The bus cycles of a request. *)

\* Nothing is being told to the EU in the middle of a bus cycle of its own.
LEMMA OwnCycleIsHeld ==
    ASSUME IInv, OwnCycle
    PROVE  /\ cmd.req = 1 /\ eu_biu_req_d1 = 1 /\ eu_biu_req_caught = 1
           /\ biu_done_int = 0 /\ biu_done_d1 = 0 /\ biu_done_caught = 0
BY DEF IInv, OwnCycle, CycleIsForRequest, Handshake, Phase

\* The state machine goes one state on with the cycle it is in ...
CycleAdvances ==
    /\ addr_out_temp' = addr_out_temp /\ byte_num' = byte_num
    /\ biu_state # \h45
    /\ \/ biu_state # \h58 /\ biu_state' = biu_state + 1
       \/ biu_state = 1 /\ biu_state' = 1
       \/ biu_state \in {\h19, \h2F} /\ biu_state' = \h1A
       \/ biu_state = \h58 /\ biu_state' = 1
\* ... or from the first byte of a word to the second.
SecondByte ==
    /\ biu_state = \h45 /\ biu_state' = \h50
    /\ word_cycle = 1 /\ byte_num = 0 /\ byte_num' = 1
    /\ addr_out_temp' = NextByte(addr_out_temp)

LEMMA StateStep ==
    ASSUME TypeOK, StateMachine, OwnCycle, biu_state' # \h46
    PROVE  CycleAdvances \/ SecondByte
<1>1. biu_state \in 1 .. \h45 \/ biu_state \in \h50 .. \h58
  BY DEF OwnCycle, InBusCycle
<1>2. byte_num \in {0, 1} /\ word_cycle \in {0, 1}
  BY DEF TypeOK, SeqType, Bit
<1> USE <1>1, <1>2 DEF CycleAdvances
<1>3. CASE StartRequest \/ FinishJump \/ StartPrefetch \/ StayIdle
  BY <1>3 DEF StartRequest, FinishJump, StartPrefetch, StayIdle, Idle
<1>4. CASE AwaitClk
  BY <1>4 DEF AwaitClk, CountUp
<1>5. CASE DrivePins
  BY <1>5 DEF DrivePins, CountUp, DriveAddress, DropAle, AssertStrobes,
              EnableData
<1>6. CASE SampleReady
  BY <1>6 DEF SampleReady, CountUp
<1>7. CASE LatchData \/ EndQueueWrite \/ SteerData \/ EndDone
  BY <1>7 DEF LatchData, EndQueueWrite, SteerData, EndDone, CountUp
<1>8. CASE EndCycle
  BY <1>8 DEF EndCycle, CountUp, SecondByte
<1>9. CASE Count
  BY <1>9 DEF Count, DecodedStates
<1> QED
  BY <1>3, <1>4, <1>5, <1>6, <1>7, <1>8, <1>9 DEF StateMachine

\* A bus cycle of a request was started for it, or goes on with it.
LEMMA CycleGoesOn ==
    ASSUME IInv, RequestIsHeld, CodeClock, OwnCycle'
    PROVE  /\ Frozen
           /\ \/ StartRequest
              \/ /\ OwnCycle /\ s_bits' = s_bits /\ word_cycle' = word_cycle
                 /\ CycleAdvances \/ SecondByte
<1>1. IInv' /\ StateMachine /\ CaptureRequest
  BY StepIInv DEF CodeClock, BiuClock
<1>2. cmd'.req = 1 /\ eu_biu_req_d1' = 1
  BY <1>1, OwnCycleIsHeld DEF IInv, OwnCycle, CycleIsForRequest, Handshake, Phase
<1>3. Frozen
  BY <1>1, <1>2, RequestFreezes DEF CaptureRequest, IInv
<1>4. biu_state' # \h46 /\ biu_state' # 0 /\ s_bits' # "code"
  BY DEF OwnCycle, InBusCycle
<1>5. CASE biu_state = 0
  <2>1. ~StartPrefetch /\ ~FinishJump /\ ~StayIdle
    BY <1>4 DEF StartPrefetch, FinishJump, StayIdle
  <2> QED
    BY <1>1, <1>3, <1>5, <2>1
       DEF StateMachine, AwaitClk, DrivePins, DriveAddress, DropAle,
           AssertStrobes, EnableData, SampleReady, LatchData, EndQueueWrite,
           SteerData, EndCycle, EndDone, Count, DecodedStates
<1>6. CASE biu_state # 0
  <2>1. s_bits' = s_bits /\ word_cycle' = word_cycle
    BY <1>1, <1>6, NextState DEF IInv
  <2>2. InBusCycle
    BY <1>1, <1>6, NextState DEF IInv, OwnCycle, InBusCycle, StatesOccur,
                                 TypeOK, SeqType
  <2>3. OwnCycle
    BY <1>4, <2>1, <2>2 DEF OwnCycle
  <2> QED
    BY <1>1, <1>3, <1>4, <2>1, <2>3, StateStep DEF IInv
<1> QED
  BY <1>5, <1>6

LEMMA StepCycleIsAsAsked ==
    ASSUME IInv, RequestIsHeld, CycleIsAsAsked, CodeClock
    PROVE  CycleIsAsAsked'
<1> SUFFICES ASSUME OwnCycle' PROVE CycleIsAsAsked'
  BY DEF CycleIsAsAsked
<1>1. Frozen
  BY CycleGoesOn
<1>2. /\ CycleAddress(0)' = CycleAddress(0) /\ CycleAddress(1)' = CycleAddress(1)
      /\ cmd'.code = cmd.code
  BY <1>1, FrozenAddress DEF Frozen
<1>3. cmd.code \in ReqCode /\ byte_num \in {0, 1} /\ biu_state \in 0 .. 255
  BY DEF IInv, TypeOK, EuType, SeqType, Command, Bit
<1>4. CASE StartRequest
  <2>1. eu_biu_req_caught = 1 /\ cmd.code # "JUMP"
    BY <1>4 DEF StartRequest
  <2>2. cmd.req = 1 /\ eu_biu_req_d1 = 1
    BY <2>1 DEF IInv, Handshake, Phase
  <2>3. cmd.code # "HALT" => AddressOf(cmd) = CycleAddress(0)
    BY <1>3, <2>1, <2>2, AddressIsFirst DEF RequestIsHeld
  <2> QED
    BY <1>2, <1>4, <2>1, <2>3 DEF StartRequest, Idle, CycleIsAsAsked
<1>5. CASE OwnCycle /\ s_bits' = s_bits /\ word_cycle' = word_cycle /\ CycleAdvances
  <2>1. biu_state' >= \h50 => biu_state >= \h50
    BY <1>3, <1>5 DEF CycleAdvances, OwnCycle, InBusCycle
  <2>2. CycleAddress(byte_num)' = CycleAddress(byte_num)
    <3>1. CASE byte_num = 0
      BY <1>2, <1>5, <3>1 DEF CycleAdvances
    <3>2. CASE byte_num = 1
      BY <1>2, <1>5, <3>2 DEF CycleAdvances
    <3> QED
      BY <1>3, <3>1, <3>2
  <2> QED
    BY <1>2, <1>5, <2>1, <2>2 DEF CycleIsAsAsked, CycleAdvances
<1>6. CASE OwnCycle /\ s_bits' = s_bits /\ word_cycle' = word_cycle /\ SecondByte
  <2>1. cmd.code # "HALT" => addr_out_temp' = CycleAddress(1)
    BY <1>6 DEF CycleIsAsAsked, SecondByte, CycleAddress
  <2> QED
    BY <1>2, <1>6, <2>1 DEF CycleIsAsAsked, SecondByte
<1> QED
  BY <1>4, <1>5, <1>6, CycleGoesOn

-----------------------------------------------------------------------------
(* The pins of a bus cycle. *)

\* What each state does to the pins a write depends on.
LEMMA WritePinStep ==
    ASSUME TypeOK, StatesOccur, StateMachine
    PROVE  /\ biu_state = 1 /\ biu_state' # 1 => pin'.DTR = S1(s_bits)
           /\ biu_state # 1 => pin'.DTR = pin.DTR
           /\ biu_state = \h19 =>
                /\ pin'.AD_OE = S1(s_bits) /\ pin'.WR_n = Not(S1(s_bits))
                /\ pin'.data = IF word_cycle = 1 /\ byte_num = 1
                               THEN HiByte(dataout) ELSE LoByte(dataout)
           /\ biu_state \notin {\h04, \h19} =>
                pin'.AD_OE = pin.AD_OE /\ pin'.data = pin.data
           /\ biu_state = \h45 => pin'.WR_n = 1
           /\ biu_state \notin {\h19, \h45} => pin'.WR_n = pin.WR_n
<1>1. biu_state \in 0 .. 255 /\ pin \in Pins
  BY DEF TypeOK, SeqType
<1> USE <1>1 DEF Pins
<1>2. CASE StartRequest \/ FinishJump \/ StartPrefetch \/ StayIdle
  BY <1>2 DEF StartRequest, FinishJump, StartPrefetch, StayIdle, Idle
<1>3. CASE AwaitClk
  <2>1. CASE clk_rising
    <3>1. /\ biu_state = 1
          /\ pin' = [pin EXCEPT !.IOM = Not(S2(s_bits)), !.DTR = S1(s_bits)]
      BY <1>3, <2>1 DEF AwaitClk
    <3> QED
      BY <3>1
  <2>2. CASE ~clk_rising
    BY <1>3, <2>2 DEF AwaitClk
  <2> QED
    BY <2>1, <2>2
<1>4. CASE DriveAddress /\ DrivePins
  BY <1>4 DEF DrivePins, DriveAddress
<1>5. CASE DropAle /\ DrivePins
  BY <1>5 DEF DrivePins, DropAle
<1>6. CASE AssertStrobes /\ DrivePins
  BY <1>6 DEF DrivePins, AssertStrobes
<1>7. CASE EnableData /\ DrivePins
  BY <1>7 DEF DrivePins, EnableData
<1>8. CASE SampleReady \/ LatchData \/ EndQueueWrite \/ SteerData \/ EndDone
  BY <1>8 DEF SampleReady, LatchData, EndQueueWrite, SteerData, EndDone
<1>9. CASE EndCycle
  BY <1>9 DEF EndCycle
<1>10. CASE Count
  BY <1>10 DEF Count, DecodedStates
<1> QED
  BY <1>2, <1>3, <1>4, <1>5, <1>6, <1>7, <1>8, <1>9, <1>10
     DEF StateMachine, DrivePins

\* Past its first state a cycle of the request was one before.
LEMMA CycleWasOwn ==
    ASSUME IInv, RequestIsHeld, CodeClock, ReqAt(\h02, \h45)'
    PROVE  /\ Frozen /\ ReqAt(\h01, \h44) /\ OwnCycle
           /\ s_bits' = s_bits /\ word_cycle' = word_cycle /\ CycleAdvances
<1>1. OwnCycle' /\ biu_state' # 1 /\ biu_state' # \h50
  BY DEF ReqAt, OwnCycle, InBusCycle
<1>2. /\ Frozen /\ OwnCycle /\ s_bits' = s_bits /\ word_cycle' = word_cycle
      /\ CycleAdvances
  BY <1>1, CycleGoesOn DEF StartRequest, SecondByte
<1> QED
  BY <1>2 DEF ReqAt, OwnCycle, InBusCycle, CycleAdvances

LEMMA StepCyclePins ==
    ASSUME IInv, RequestIsHeld, CycleIsAsAsked, CyclePins, CodeClock
    PROVE  CyclePins'
<1>1. /\ StateMachine /\ Board /\ TypeOK /\ StatesOccur
      /\ biu_state \in 0 .. 255 /\ pin \in Pins
  BY DEF CodeClock, BiuClock, IInv, TypeOK, SeqType
<1>2. ReqAt(\h02, \h45)' => pin'.IOM = Not(S2(s_bits')) /\ pin'.DTR = S1(s_bits')
  BY <1>1, CycleWasOwn, PinStep, WritePinStep
     DEF ReqAt, CycleAdvances, CyclePins
<1>3. ReqAt(\h05, \h45)' => pin'.addr = addr_out_temp'
  <2> SUFFICES ASSUME ReqAt(\h05, \h45)' PROVE pin'.addr = addr_out_temp'
    OBVIOUS
  <2>1. ReqAt(\h02, \h45)'
    BY DEF ReqAt
  <2>2. biu_state = \h04 \/ ReqAt(\h05, \h44)
    BY <2>1, CycleWasOwn DEF ReqAt, CycleAdvances
  <2>3. ReqAt(\h05, \h44) => pin.addr = addr_out_temp
    BY DEF CyclePins, ReqAt
  <2> QED
    BY <1>1, <2>1, <2>2, <2>3, CycleWasOwn, PinStep DEF CycleAdvances
<1>4. ReqAt(\h06, \h45)' => cpuAddr' = addr_out_temp'
  <2> SUFFICES ASSUME ReqAt(\h06, \h45)' PROVE cpuAddr' = addr_out_temp'
    OBVIOUS
  <2>1. ReqAt(\h02, \h45)'
    BY DEF ReqAt
  <2>2. addr_out_temp' = addr_out_temp /\ ReqAt(\h05, \h44)
    BY <2>1, CycleWasOwn DEF ReqAt, CycleAdvances
  <2>3. /\ pin.addr = addr_out_temp
        /\ biu_state = 5 => pin.ALE = 1
        /\ biu_state # 5 => cpuAddr = addr_out_temp
    BY <2>2 DEF CyclePins, ReqAt, IInv, FetchPath
  <2> QED
    BY <1>1, <2>2, <2>3 DEF Board
<1>5. ASSUME ReqAt(\h1A, \h45)'
      PROVE  /\ pin'.RD_n = S1(s_bits') /\ pin'.AD_OE = S1(s_bits')
             /\ pin'.WR_n = Not(S1(s_bits'))
             /\ s_bits' = "inta" => pin'.INTA_n = 0
             /\ pin'.data = IF byte_num' = 1 THEN HiByte(dataout')
                            ELSE LoByte(dataout')
  <2>1. ReqAt(\h02, \h45)'
    BY <1>5 DEF ReqAt
  <2>2. /\ s_bits' = s_bits /\ byte_num' = byte_num /\ dataout' = dataout
        /\ OwnCycle /\ biu_state # \h45
        /\ biu_state = \h19 \/ ReqAt(\h1A, \h44)
    BY <1>5, <2>1, CycleWasOwn DEF ReqAt, CycleAdvances, Frozen
  <2>3. byte_num = 1 => word_cycle = 1
    BY <2>2 DEF CycleIsAsAsked
  <2>4. CASE biu_state = \h19
    BY <1>1, <2>2, <2>3, <2>4, PinStep, WritePinStep
  <2>5. CASE ReqAt(\h1A, \h44)
    <3>1. /\ pin.RD_n = S1(s_bits) /\ pin.AD_OE = S1(s_bits)
          /\ pin.WR_n = Not(S1(s_bits))
          /\ s_bits = "inta" => pin.INTA_n = 0
          /\ pin.data = IF byte_num = 1 THEN HiByte(dataout)
                        ELSE LoByte(dataout)
      BY <2>5 DEF CyclePins, ReqAt
    <3>2. biu_state \in \h1A .. \h44
      BY <2>5 DEF ReqAt
    <3> QED
      BY <1>1, <2>2, <3>1, <3>2, PinStep, WritePinStep
  <2> QED
    BY <2>2, <2>4, <2>5
<1>6. pin'.WR_n = 0 => biu_state' \in \h1A .. \h45 /\ S1(s_bits') = 1
  <2> SUFFICES ASSUME pin'.WR_n = 0
               PROVE  biu_state' \in \h1A .. \h45 /\ S1(s_bits') = 1
    OBVIOUS
  <2>1. biu_state \in \h19 .. \h44 /\ S1(s_bits) = 1
    <3>1. CASE biu_state = \h19
      BY <1>1, <3>1, WritePinStep DEF S1, Not
    <3>2. CASE biu_state # \h19
      BY <1>1, <3>2, WritePinStep DEF CyclePins
    <3> QED
      BY <3>1, <3>2
  <2>2. s_bits' = s_bits
    BY <1>1, <2>1, NextState
  <2>3. biu_state' \in \h1A .. \h45
    BY <1>1, <2>1
       DEF StateMachine, StartRequest, FinishJump, StartPrefetch, StayIdle,
           Idle, AwaitClk, DrivePins, DriveAddress, DropAle, AssertStrobes,
           EnableData, SampleReady, LatchData, EndQueueWrite, SteerData,
           EndCycle, EndDone, Count, CountUp, DecodedStates
  <2> QED
    BY <2>1, <2>2, <2>3
<1> QED
  BY <1>2, <1>3, <1>4, <1>5, <1>6 DEF CyclePins

-----------------------------------------------------------------------------
(* The data of a read. *)

\* While the strobes are on, AD_IN carries the byte of the cycle.
LEMMA AdInIsAnswer ==
    ASSUME IInv, CycleIsAsAsked, CyclePins, ReqAt(\h1A, \h44), cmd.code \in Reads
    PROVE  AD_IN = ReadByte(byte_num)
<1>1. OwnCycle
  BY DEF ReqAt, OwnCycle, InBusCycle
<1>2. cmd.code \in ReqCode /\ pin \in Pins
  BY DEF IInv, TypeOK, EuType, Command, SeqType
<1>3. /\ cmd.code # "JUMP" /\ cmd.code # "HALT" /\ s_bits = StatusOf(cmd.code)
      /\ addr_out_temp = CycleAddress(byte_num)
  BY <1>1 DEF CycleIsAsAsked, Reads
<1>4. pin.RD_n = 0
  BY <1>2, <1>3, StatusFacts DEF CyclePins, ReqAt
<1>5. cpuAddr = CycleAddress(byte_num) /\ pin.IOM = Not(S2(s_bits))
  BY <1>3 DEF CyclePins, ReqAt
<1>6. pin.INTA_n = 0 <=> cmd.code = "INTA"
  BY <1>2, <1>3, StatusFacts DEF CyclePins, ReqAt, IInv, FetchPath
<1>7. CASE cmd.code = "INTA"
  BY <1>4, <1>6, <1>7 DEF AD_IN, ReadByte
<1>8. CASE cmd.code \in {"IORD8", "IORD16"}
  <2>1. pin.IOM = 1
    BY <1>2, <1>3, <1>5, <1>8, StatusFacts
  <2> QED
    BY <1>4, <1>5, <1>6, <1>8, <2>1 DEF AD_IN, ReadByte
<1>9. CASE cmd.code \notin {"INTA", "IORD8", "IORD16"}
  <2>1. pin.IOM = 0
    BY <1>2, <1>3, <1>5, <1>9, StatusFacts DEF Reads
  <2> QED
    BY <1>4, <1>5, <1>6, <1>9, <2>1 DEF AD_IN, ReadByte
<1> QED
  BY <1>7, <1>8, <1>9

\* Only state 40 writes the word returned.
LEMMA ReturnStep ==
    ASSUME TypeOK, StateMachine
    PROVE  /\ biu_state = \h40 => SteerData
           /\ biu_state # \h40 => biu_return_int' = biu_return_int
<1>1. biu_state \in 0 .. 255
  BY DEF TypeOK, SeqType
<1> QED
  BY <1>1
     DEF StateMachine, StartRequest, FinishJump, StartPrefetch, StayIdle,
         Idle, AwaitClk, DrivePins, DriveAddress, DropAle, AssertStrobes,
         EnableData, SampleReady, LatchData, EndQueueWrite, SteerData,
         EndCycle, EndDone, Count, DecodedStates

\* The byte of the cycle goes to its half of the word.
LEMMA Steered ==
    ASSUME NEW codes \in SUBSET Reads, IInv, CycleIsAsAsked,
           AnswerPath(codes), SteerData, s_bits # "code", cmd.code \in codes
    PROVE  biu_return_int' = Result(byte_num)
<1>1. biu_state = \h40 /\ OwnCycle /\ ReqAt(\h3E, \h40)
  BY DEF SteerData, OwnCycle, InBusCycle, ReqAt
<1>2. /\ latched_data_in = ReadByte(byte_num)
      /\ byte_num = 1 /\ cmd.code # "INTA" => biu_return_int.lo = ReadByte(0)
  BY <1>1 DEF AnswerPath
<1>3. /\ cmd.code \in ReqCode /\ byte_num \in {0, 1}
      /\ biu_return_int \in Word
  BY DEF IInv, TypeOK, EuType, Command, SeqType, Bit
<1>4. /\ s_bits = "inta" <=> cmd.code = "INTA"
      /\ byte_num = 1 => word_cycle = 1
  BY <1>1, <1>3, StatusFacts DEF CycleIsAsAsked
<1>5. CASE byte_num = 1 /\ cmd.code # "INTA"
  <2>1. biu_return_int' = [biu_return_int EXCEPT !.hi = latched_data_in]
    BY <1>4, <1>5 DEF SteerData
  <2>2. biu_return_int' = [lo |-> ReadByte(0), hi |-> ReadByte(1)]
    BY <1>2, <1>3, <1>5, <2>1 DEF Word
  <2> QED
    BY <1>5, <2>2 DEF Result
<1>6. CASE ~(byte_num = 1 /\ cmd.code # "INTA")
  <2>1. biu_return_int' = [lo |-> latched_data_in, hi |-> Zero]
    BY <1>4, <1>6 DEF SteerData
  <2> QED
    BY <1>2, <1>6, <2>1 DEF Result
<1> QED
  BY <1>5, <1>6

\* The EU is told of a request other than a jump at the end of its last cycle.
LEMMA ToldAfterLastCycle ==
    ASSUME IInv, CycleIsAsAsked, CodeClock, cmd.req = 1, cmd.code # "JUMP",
           ~Told, Told'
    PROVE  /\ EndCycle /\ OwnCycle /\ s_bits # "code" /\ biu_state = \h45
           /\ LastCycle /\ byte_num \in Bit
           /\ byte_num = 1 <=> IsWord(cmd.code)
<1>1. IInv' /\ StateMachine /\ LatchDone /\ TypeOK
  BY StepIInv DEF CodeClock, BiuClock, IInv
<1>2. biu_done_int = 0 /\ biu_done_int' = 1
  <2>1. biu_done_int # 1 /\ biu_done_d1 # 1 /\ biu_done_caught # 1
    BY DEF Told
  <2>2. biu_done_int' = 1
    BY <1>1, <2>1 DEF Told, LatchDone
  <2> QED
    BY <1>1, <2>1, <2>2 DEF TypeOK, SeqType, Bit
<1>3. EndCycle
  <2>1. EndCycle \/ FinishJump
    BY <1>1, <1>2
       DEF StateMachine, StartRequest, StartPrefetch, StayIdle, AwaitClk,
           DrivePins, SampleReady, LatchData, EndQueueWrite, SteerData,
           EndDone, Count
  <2> QED
    BY <2>1 DEF FinishJump, JumpCaught
<1>4. /\ s_bits # "code" /\ biu_state = \h45
      /\ ~(word_cycle = 1 /\ byte_num = 0)
  BY <1>2, <1>3 DEF EndCycle, InCycle
<1>5. OwnCycle /\ byte_num \in {0, 1} /\ word_cycle \in {0, 1}
  BY <1>1, <1>4 DEF OwnCycle, InBusCycle, TypeOK, SeqType, Bit
<1>6. LastCycle /\ (byte_num = 1 <=> IsWord(cmd.code))
  BY <1>4, <1>5 DEF LastCycle, CycleIsAsAsked
<1> QED
  BY <1>3, <1>4, <1>5, <1>6 DEF Bit

\* The word the EU is told of stays as it is until the next code fetch.
LEMMA StepTold ==
    ASSUME NEW codes \in SUBSET Reads, IInv, RequestIsHeld, CycleIsAsAsked,
           AnswerPath(codes), CodeClock,
           cmd'.code \in codes, Told', s_bits' # "code"
    PROVE  \E n \in Bit : /\ n = 1 <=> IsWord(cmd'.code)
                          /\ biu_return_int' = Result(n)'
                          /\ biu_return_d' = <<Result(n)', Result(n)'>>
<1>1. /\ IInv' /\ StateMachine /\ CaptureRequest /\ LatchDone /\ TypeOK
      /\ biu_return_d' = <<biu_return_int, biu_return_d[1]>>
  BY StepIInv DEF CodeClock, BiuClock, Pipelines, IInv
<1>2. Frozen
  <2>1. cmd'.req = 1 /\ eu_biu_req_d1' = 1
    BY <1>1 DEF Told, IInv, Handshake, Phase
  <2> QED
    BY <1>1, <2>1, RequestFreezes DEF CaptureRequest
<1>3. cmd.code \in codes /\ cmd'.code = cmd.code /\ cmd.req = 1
  BY <1>2 DEF Frozen
<1>4. SUFFICES \E n \in Bit : /\ n = 1 <=> IsWord(cmd.code)
                              /\ biu_return_int' = Result(n)
                              /\ biu_return_d' = <<Result(n), Result(n)>>
  BY <1>2, <1>3, FrozenResult
<1>5. CASE Told
  <2>1. biu_state # 0 \/ eu_biu_req_caught # 1
    BY <1>5 DEF Told, IInv, Handshake, Phase
  <2>2. s_bits' = s_bits
    <3>1. CASE biu_state = 0
      BY <1>1, <2>1, <3>1
         DEF StateMachine, StartRequest, FinishJump, StartPrefetch, StayIdle,
             JumpCaught, AwaitClk, DrivePins, DriveAddress, DropAle,
             AssertStrobes, EnableData, SampleReady, LatchData, EndQueueWrite,
             SteerData, EndCycle, EndDone, Count, DecodedStates, InCycle
    <3>2. CASE biu_state # 0
      BY <1>1, <3>2, NextState DEF IInv
    <3> QED
      BY <3>1, <3>2
  <2>3. ~OwnCycle
    BY <1>5, OwnCycleIsHeld DEF Told
  <2>4. biu_return_int' = biu_return_int
    BY <1>1, <2>2, <2>3, ReturnStep DEF OwnCycle, InBusCycle
  <2> QED
    BY <1>1, <1>3, <1>5, <2>2, <2>4 DEF AnswerPath
<1>6. CASE ~Told
  <2>1. /\ EndCycle /\ s_bits # "code" /\ biu_state = \h45 /\ LastCycle
        /\ byte_num \in Bit /\ (byte_num = 1 <=> IsWord(cmd.code))
    BY <1>2, <1>3, <1>6, ToldAfterLastCycle DEF Reads
  <2>2. /\ biu_return_int = Result(byte_num)
        /\ biu_return_d[1] = Result(byte_num)
    BY <1>3, <2>1 DEF AnswerPath, ReqAt
  <2>3. biu_return_int' = biu_return_int
    BY <2>1 DEF EndCycle
  <2> QED
    BY <1>1, <2>1, <2>2, <2>3
<1> QED
  BY <1>5, <1>6

LEMMA StepAnswerPath ==
    ASSUME NEW codes \in SUBSET Reads,
           IInv, RequestIsHeld, CycleIsAsAsked, CyclePins,
           AnswerPath(codes), CodeClock,
           ReqAt(\h3C, \h3C) /\ cmd.code \in codes
             => ad_in_int' = ReadByte(byte_num)
    PROVE  AnswerPath(codes)'
<1> SUFFICES ASSUME cmd'.code \in codes PROVE AnswerPath(codes)'
  BY DEF AnswerPath
<1>1. /\ StateMachine /\ TypeOK /\ StatesOccur /\ biu_state \in 0 .. 255
      /\ biu_return_d' = <<biu_return_int, biu_return_d[1]>>
      /\ biu_return_d \in Word \X Word
  BY DEF CodeClock, BiuClock, Pipelines, IInv, TypeOK, SeqType, PipeType
\* What holds of a cycle in these states held of it in the clock before.
<1>2. ASSUME ReqAt(\h02, \h45)'
      PROVE  /\ cmd.code \in codes /\ OwnCycle /\ ReqAt(\h01, \h44)
             /\ s_bits' = s_bits /\ CycleAdvances
             /\ LastCycle' <=> LastCycle
             /\ ReadByte(byte_num)' = ReadByte(byte_num)
             /\ Result(byte_num)' = Result(byte_num)
  <2>1. /\ Frozen /\ OwnCycle /\ ReqAt(\h01, \h44) /\ s_bits' = s_bits
        /\ word_cycle' = word_cycle /\ CycleAdvances /\ byte_num' = byte_num
    BY <1>2, CycleWasOwn DEF CycleAdvances
  <2>2. /\ ReadByte(byte_num)' = ReadByte(byte_num)
        /\ Result(byte_num)' = Result(byte_num)
    <3>1. \A n \in Bit : ReadByte(n)' = ReadByte(n) /\ Result(n)' = Result(n)
      BY <2>1, FrozenResult
    <3>2. byte_num \in Bit
      BY <1>1 DEF TypeOK, SeqType
    <3> QED
      BY <2>1, <3>1, <3>2 DEF ReadByte, Result, CycleAddress
  <2> QED
    BY <2>1, <2>2 DEF Frozen, LastCycle
<1>3. ReqAt(\h3D, \h3D)' => ad_in_int' = ReadByte(byte_num)'
  <2> SUFFICES ASSUME ReqAt(\h3D, \h3D)'
               PROVE  ad_in_int' = ReadByte(byte_num)'
    OBVIOUS
  <2>1. ReqAt(\h02, \h45)'
    BY DEF ReqAt
  <2>2. ReqAt(\h3C, \h3C)
    BY <1>2, <2>1 DEF ReqAt, CycleAdvances
  <2> QED
    BY <1>2, <2>1, <2>2
<1>4. ReqAt(\h3E, \h40)' => latched_data_in' = ReadByte(byte_num)'
  <2> SUFFICES ASSUME ReqAt(\h3E, \h40)'
               PROVE  latched_data_in' = ReadByte(byte_num)'
    OBVIOUS
  <2>1. ReqAt(\h02, \h45)'
    BY DEF ReqAt
  <2>2. ReqAt(\h3D, \h3F)
    BY <1>2, <2>1 DEF ReqAt, CycleAdvances
  <2>3. /\ biu_state = \h3D => ad_in_int = ReadByte(byte_num)
        /\ biu_state # \h3D => latched_data_in = ReadByte(byte_num)
    BY <1>2, <2>1, <2>2 DEF AnswerPath, ReqAt
  <2> QED
    BY <1>1, <1>2, <2>1, <2>3, PinStep
<1>5. ReqAt(\h41, \h45)' => biu_return_int' = Result(byte_num)'
  <2> SUFFICES ASSUME ReqAt(\h41, \h45)'
               PROVE  biu_return_int' = Result(byte_num)'
    OBVIOUS
  <2>1. ReqAt(\h02, \h45)'
    BY DEF ReqAt
  <2>2. ReqAt(\h40, \h44) /\ s_bits # "code"
    BY <1>2, <2>1 DEF ReqAt, CycleAdvances
  <2>3. CASE biu_state = \h40
    BY <1>1, <1>2, <2>1, <2>2, <2>3, ReturnStep, Steered
  <2>4. CASE biu_state # \h40
    <3>1. biu_return_int = Result(byte_num)
      BY <1>2, <2>1, <2>2, <2>4 DEF AnswerPath, ReqAt
    <3> QED
      BY <1>1, <1>2, <2>1, <2>4, <3>1, ReturnStep
  <2> QED
    BY <2>3, <2>4
<1>6. (OwnCycle /\ byte_num = 1 /\ cmd.code # "INTA")'
        => biu_return_int'.lo = ReadByte(0)'
  <2> SUFFICES ASSUME OwnCycle', byte_num' = 1, cmd'.code # "INTA"
               PROVE  biu_return_int'.lo = ReadByte(0)'
    OBVIOUS
  <2>1. /\ Frozen
        /\ OwnCycle /\ s_bits' = s_bits /\ (CycleAdvances \/ SecondByte)
    BY CycleGoesOn DEF StartRequest, Idle
  <2>2. /\ cmd.code \in codes /\ cmd.code # "INTA"
        /\ ReadByte(0)' = ReadByte(0)
    BY <2>1, FrozenResult DEF Frozen
  <2>3. CASE SecondByte
    <3>1. ReqAt(\h41, \h45) /\ byte_num = 0 /\ biu_state # \h40
      BY <2>1, <2>3 DEF SecondByte, ReqAt, OwnCycle
    <3>2. biu_return_int = Result(0)
      BY <2>2, <3>1 DEF AnswerPath
    <3> QED
      BY <1>1, <2>2, <3>1, <3>2, ReturnStep DEF Result
  <2>4. CASE CycleAdvances
    <3>1. byte_num = 1
      BY <2>4 DEF CycleAdvances
    <3>2. CASE biu_state = \h40
      <4>1. biu_return_int' = Result(1)
        BY <1>1, <2>1, <2>2, <3>1, <3>2, ReturnStep, Steered DEF OwnCycle
      <4> QED
        BY <2>2, <4>1 DEF Result
    <3>3. CASE biu_state # \h40
      BY <1>1, <2>1, <2>2, <3>1, <3>3, ReturnStep DEF AnswerPath
    <3> QED
      BY <3>2, <3>3
  <2> QED
    BY <2>1, <2>3, <2>4
<1>7. (ReqAt(\h42, \h45) /\ LastCycle)' => biu_return_d'[1] = Result(byte_num)'
  <2> SUFFICES ASSUME ReqAt(\h42, \h45)'
               PROVE  biu_return_d'[1] = Result(byte_num)'
    OBVIOUS
  <2>1. ReqAt(\h02, \h45)'
    BY DEF ReqAt
  <2>2. ReqAt(\h41, \h45)
    BY <1>2, <2>1 DEF ReqAt, CycleAdvances
  <2>3. biu_return_int = Result(byte_num)
    BY <1>2, <2>1, <2>2 DEF AnswerPath
  <2> QED
    BY <1>1, <1>2, <2>1, <2>3
<1>8. (ReqAt(\h43, \h45) /\ LastCycle)' => biu_return_d'[2] = Result(byte_num)'
  <2> SUFFICES ASSUME ReqAt(\h43, \h45)', LastCycle'
               PROVE  biu_return_d'[2] = Result(byte_num)'
    OBVIOUS
  <2>1. ReqAt(\h02, \h45)'
    BY DEF ReqAt
  <2>2. ReqAt(\h42, \h45) /\ LastCycle
    BY <1>2, <2>1 DEF ReqAt, CycleAdvances
  <2>3. biu_return_d[1] = Result(byte_num)
    BY <1>2, <2>1, <2>2 DEF AnswerPath
  <2> QED
    BY <1>1, <1>2, <2>1, <2>3
<1>9. ASSUME Told', s_bits' # "code"
      PROVE  (\E n \in Bit : /\ n = 1 <=> IsWord(cmd.code)
                             /\ biu_return_int = Result(n)
                             /\ biu_return_d = <<Result(n), Result(n)>>)'
  BY <1>9, StepTold
<1> QED
  BY <1>3, <1>4, <1>5, <1>6, <1>7, <1>8, <1>9 DEF AnswerPath

-----------------------------------------------------------------------------
(* The inductive invariant and what follows from it. *)

LEMMA InitDataInv ==
    ASSUME NEW codes \in SUBSET Reads, Init PROVE DataInv(codes)
<1>1. /\ cmd.req = 0 /\ cmd.code = "JUMP" /\ biu_state = \hD0
      /\ pin.WR_n = 1
  BY DEF Init, BiuInit
<1> QED
  BY <1>1, InitIInv
     DEF DataInv, RequestIsHeld, CycleIsAsAsked, OwnCycle, InBusCycle,
         CyclePins, ReqAt, AnswerPath, Reads

LEMMA StepDataInv ==
    ASSUME NEW codes \in SUBSET Reads, DataInv(codes), CodeClock,
           ReqAt(\h3C, \h3C) /\ cmd.code \in codes
             => ad_in_int' = ReadByte(byte_num)
    PROVE  DataInv(codes)'
BY StepIInv, StepRequestIsHeld, StepCycleIsAsAsked, StepCyclePins,
   StepAnswerPath DEF DataInv, IInv

LEMMA StutterDataInv ==
    ASSUME NEW codes \in SUBSET Reads, DataInv(codes), UNCHANGED vars
    PROVE  DataInv(codes)'
BY StutterIInv
   DEF vars, euVars, cmdVars, biuVars, pfqVars, pipeVars, seqVars,
       DataInv, RequestIsHeld, CycleIsAsAsked, OwnCycle, InBusCycle,
       CyclePins, ReqAt, AnswerPath, Told, LastCycle, Result, ReadByte,
       CycleAddress, SegmentOf

\* With IInv, RequestIsHeld, CycleIsAsAsked, CyclePins and AnswerPath hold in
\* every state the machine reaches.
THEOREM DataInvariance == Spec => []DataInv(Reads)
<1>1. Init => DataInv(Reads)
  BY InitDataInv
<1>2. DataInv(Reads) /\ [Next]_vars => DataInv(Reads)'
  <2> SUFFICES ASSUME DataInv(Reads), [Next]_vars PROVE DataInv(Reads)'
    OBVIOUS
  <2>1. CASE Next
    <3>1. CodeClock /\ ad_in_int' = AD_IN
      BY <2>1, NextIsCodeClock DEF DataInv, Next, BiuClock, Pipelines
    <3>2. ReqAt(\h3C, \h3C) /\ cmd.code \in Reads
            => ad_in_int' = ReadByte(byte_num)
      BY <3>1, AdInIsAnswer DEF DataInv, ReqAt
    <3> QED
      BY <3>1, <3>2, StepDataInv
  <2>2. CASE UNCHANGED vars
    BY <2>2, StutterDataInv
  <2> QED
    BY <2>1, <2>2
<1> QED
  BY <1>1, <1>2, PTL DEF Spec

\* Within a 64K block, what a read brings back is what was asked for.
LEMMA ResultIsReadData ==
    ASSUME TypeOK, WithinBlock, NEW n \in Bit, n = 1 <=> IsWord(cmd.code),
           cmd.code \in Reads
    PROVE  Result(n) = ReadData
<1>1. \A k \in Bit : (k = 1 => IsWord(cmd.code)) => CycleAddress(k) = Wanted(k)
  BY CycleAddressIsWanted
<1>2. 0 \in Bit /\ 1 \in Bit
  BY DEF Bit
<1>3. CASE cmd.code = "INTA"
  <2>1. n = 1
    BY <1>3 DEF IsWord
  <2> QED
    BY <1>3, <2>1 DEF Result, ReadData, ReadByte, WantedByte
<1>4. CASE cmd.code # "INTA" /\ n = 1
  <2>1. CycleAddress(0) = Wanted(0) /\ CycleAddress(1) = Wanted(1)
    BY <1>1, <1>2, <1>4
  <2> QED
    BY <1>4, <2>1 DEF Result, ReadData, ReadByte, WantedByte
<1>5. CASE cmd.code # "INTA" /\ n = 0
  <2>1. CycleAddress(0) = Wanted(0)
    BY <1>1, <1>2
  <2> QED
    BY <1>5, <2>1 DEF Result, ReadData, ReadByte, WantedByte
<1> QED
  BY <1>3, <1>4, <1>5 DEF Bit

LEMMA AnswerIsReadData ==
    ASSUME NEW codes \in SUBSET Reads, DataInv(codes), Acked,
           cmd.code \in codes, WithinBlock, s_bits # "code"
    PROVE  biu_return_d[2] = ReadData
<1>1. Told /\ TypeOK
  BY DEF Acked, Told, DataInv, IInv
<1>2. PICK n \in Bit : /\ n = 1 <=> IsWord(cmd.code)
                       /\ biu_return_d = <<Result(n), Result(n)>>
  BY <1>1 DEF DataInv, AnswerPath
<1> QED
  BY <1>1, <1>2, ResultIsReadData

\* When the EU is told that a read is done, BIU_RETURN_DATA is the byte or
\* word of the address asked for, and stays so until the next code fetch.
THEOREM ReadsAreAnswered == Spec => []ReadIsAnswered
<1>1. DataInv(Reads) => ReadIsAnswered
  BY AnswerIsReadData DEF ReadIsAnswered
<1> QED
  BY <1>1, DataInvariance, PTL

LEMMA WriteIsOnTheBus ==
    ASSUME NEW codes \in SUBSET Reads, DataInv(codes)
    PROVE  WriteIsAsAsked
<1> SUFFICES ASSUME pin.WR_n = 0, s_bits # "halt", WithinBlock
             PROVE  /\ cmd.req = 1 /\ ~Acked /\ cmd.code \in Writes
                    /\ cpuAddr = Wanted(byte_num)
                    /\ pin.data = IF byte_num = 1 THEN HiByte(dataout)
                                  ELSE LoByte(dataout)
                    /\ pin.AD_OE = 1 /\ pin.DTR = 1
                    /\ pin.IOM = IF cmd.code \in {"IOWR8", "IOWR16"}
                                 THEN 1 ELSE 0
  BY DEF WriteIsAsAsked
<1>1. biu_state \in \h1A .. \h45 /\ S1(s_bits) = 1 /\ TypeOK
  BY DEF DataInv, CyclePins, IInv
<1>2. s_bits # "code"
  BY <1>1 DEF S1
<1>3. OwnCycle /\ ReqAt(\h1A, \h45)
  BY <1>1, <1>2 DEF OwnCycle, InBusCycle, ReqAt
<1>4. cmd.req = 1 /\ ~Acked
  BY <1>3, OwnCycleIsHeld DEF DataInv, Acked
<1>5. cmd.code \in ReqCode /\ byte_num \in Bit
  BY <1>1 DEF TypeOK, EuType, SeqType, Command
<1>6. /\ cmd.code # "JUMP" /\ s_bits = StatusOf(cmd.code)
      /\ word_cycle = 1 <=> IsWord(cmd.code)
      /\ byte_num = 1 => word_cycle = 1
      /\ cmd.code # "HALT" => addr_out_temp = CycleAddress(byte_num)
  BY <1>3 DEF DataInv, CycleIsAsAsked
<1>7. cmd.code \in Writes /\ cmd.code # "HALT"
  BY <1>1, <1>5, <1>6, StatusFacts
<1>8. cpuAddr = Wanted(byte_num)
  <2>1. cpuAddr = addr_out_temp
    BY <1>3 DEF DataInv, CyclePins, ReqAt
  <2> QED
    BY <1>1, <1>5, <1>6, <1>7, <2>1, CycleAddressIsWanted
<1>9. /\ pin.data = IF byte_num = 1 THEN HiByte(dataout)
                    ELSE LoByte(dataout)
      /\ pin.AD_OE = 1 /\ pin.DTR = 1 /\ pin.IOM = Not(S2(s_bits))
  BY <1>1, <1>3 DEF DataInv, CyclePins, ReqAt
<1>10. pin.IOM = IF cmd.code \in {"IOWR8", "IOWR16"} THEN 1 ELSE 0
  BY <1>5, <1>6, <1>7, <1>9, StatusFacts DEF Writes
<1> QED
  BY <1>4, <1>7, <1>8, <1>9, <1>10

\* While WR_n is low the BIU puts out what a write the EU holds asks for.
THEOREM WritesAreAsAsked == Spec => []WriteIsAsAsked
<1>1. DataInv(Reads) => WriteIsAsAsked
  BY WriteIsOnTheBus
<1> QED
  BY <1>1, DataInvariance, PTL

-----------------------------------------------------------------------------
(* The clocked request implements BusRequest. *)

\* Outside the bus cycles of a request there is no second byte.
FirstByte == (InBusCycle /\ s_bits = "code") \/ biu_state >= \hD0 => byte_num = 0

LEMMA StepFirstByte ==
    ASSUME IInv, FirstByte, CodeClock
    PROVE  FirstByte'
<1>1. /\ StateMachine /\ biu_state \in 0 .. 255 /\ word_cycle \in {0, 1}
      /\ TypeOK /\ StatesOccur
  BY DEF CodeClock, BiuClock, IInv, TypeOK, SeqType, Bit
<1>2. CASE biu_state = 0
  <2>1. CASE StartRequest \/ StartPrefetch \/ StayIdle \/ FinishJump
    BY <2>1 DEF StartRequest, StartPrefetch, StayIdle, FinishJump, Idle, FirstByte
  <2> QED
    BY <1>1, <1>2, <2>1
       DEF StateMachine, AwaitClk, DrivePins, DriveAddress, DropAle,
           AssertStrobes, EnableData, SampleReady, LatchData, EndQueueWrite,
           SteerData, EndCycle, EndDone, Count, DecodedStates
<1>3. CASE biu_state # 0
  <2> SUFFICES ASSUME (InBusCycle' /\ s_bits' = "code") \/ biu_state' >= \hD0
               PROVE  byte_num' = 0
    BY DEF FirstByte
  <2>1. s_bits' = s_bits
    BY <1>1, <1>3, NextState
  <2>2. /\ (InBusCycle /\ s_bits = "code") \/ biu_state >= \hD0
        /\ InBusCycle /\ s_bits = "code" => word_cycle = 0
    BY <1>1, <1>3, <2>1, NextState
       DEF InBusCycle, StatesOccur, IInv, CycleIsForRequest
  <2>3. byte_num = 0 /\ (biu_state = \h45 => word_cycle = 0)
    BY <2>2 DEF FirstByte, InBusCycle
  <2> QED
    BY <1>1, <1>3, <2>3
       DEF StateMachine, StartRequest, FinishJump, StartPrefetch, StayIdle,
           Idle, AwaitClk, DrivePins, SampleReady, LatchData, EndQueueWrite,
           SteerData, EndCycle, EndDone, Count
<1> QED
  BY <1>2, <1>3

\* Before it is told, a request that is not in a bus cycle has had none.
LEMMA NoCyclesYet ==
    ASSUME IInv, FirstByte, cmd.req = 1, ~Told, ~OwnCycle
    PROVE  CyclesHad = 0
<1>1. Busy => InBusCycle \/ biu_state >= \hD0
  BY DEF IInv, StatesOccur, Busy
<1>2. Busy => byte_num = 0
  BY <1>1 DEF OwnCycle, FirstByte
<1> QED
  BY <1>2 DEF CyclesHad

LEMMA CyclesInCycle ==
    ASSUME IInv, OwnCycle
    PROVE  CyclesHad = byte_num /\ ~Told /\ cmd.req = 1
<1>1. cmd.req = 1 /\ ~Told /\ eu_biu_req_caught = 1
  BY OwnCycleIsHeld DEF Told
<1>2. Busy
  BY DEF OwnCycle, InBusCycle, Busy
<1> QED
  BY <1>1, <1>2 DEF CyclesHad

\* Being told begins with the last byte of the request, or with its jump.
LEMMA TellStep ==
    ASSUME IInv, RequestIsHeld, CycleIsAsAsked, CodeClock,
           Frozen, ~Told, Told'
    PROVE  \/ /\ cmd.code = "JUMP" /\ biu_state = 0
           \/ /\ cmd.code # "JUMP" /\ OwnCycle
              /\ byte_num = 1 <=> IsWord(cmd.code)
<1>1. /\ IInv' /\ StateMachine /\ LatchDone /\ TypeOK /\ cmd.req = 1
  BY StepIInv DEF CodeClock, BiuClock, IInv, Frozen
<1>2. biu_done_int = 0 /\ biu_done_int' = 1
  <2>1. biu_done_int # 1 /\ biu_done_d1 # 1 /\ biu_done_caught # 1
    BY <1>1 DEF Told
  <2>2. biu_done_int' = 1
    BY <1>1, <2>1 DEF Told, LatchDone
  <2> QED
    BY <1>1, <2>1, <2>2 DEF TypeOK, SeqType, Bit
<1>3. EndCycle \/ FinishJump
  BY <1>1, <1>2
     DEF StateMachine, StartRequest, StartPrefetch, StayIdle, AwaitClk,
         DrivePins, SampleReady, LatchData, EndQueueWrite, SteerData,
         EndDone, Count
<1>4. CASE FinishJump
  BY <1>4 DEF FinishJump, JumpCaught, Idle
<1>5. CASE EndCycle
  <2>1. /\ s_bits # "code" /\ biu_state = \h45
        /\ ~(word_cycle = 1 /\ byte_num = 0)
    BY <1>2, <1>5 DEF EndCycle, InCycle
  <2>2. OwnCycle /\ byte_num \in {0, 1} /\ word_cycle \in {0, 1}
    BY <1>1, <2>1 DEF OwnCycle, InBusCycle, TypeOK, SeqType, Bit
  <2> QED
    BY <2>1, <2>2 DEF CycleIsAsAsked
<1> QED
  BY <1>3, <1>4, <1>5

\* The EU leaves the kind of its request alone but when it raises it.
LEMMA KindStep ==
    ASSUME TypeOK, EuStep, ~(cmd.req = 0 /\ cmd'.req = 1)
    PROVE  cmd'.code = cmd.code
<1> USE DEF TypeOK, EuType, Command, Bit
<1>1. CASE EuOther \/ EuPoll \/ EuPop \/ EuLoadSegment \/ EuRelease
  BY <1>1 DEF EuOther, EuPoll, EuPop, EuLoadSegment, EuRelease, cmdVars
<1>2. CASE EuRequest
  BY <1>2 DEF EuRequest
<1> QED
  BY <1>1, <1>2 DEF EuStep

\* A clock is a step of BusRequest or leaves all of it as it was.
LEMMA RequestSimulates ==
    ASSUME IInv, RequestIsHeld, CycleIsAsAsked, FirstByte, CodeClock
    PROVE  Request!Next \/ UNCHANGED Request!vars
<1>1. /\ IInv' /\ FirstByte' /\ TypeOK /\ TypeOK' /\ EuStep /\ StateMachine
      /\ CaptureRequest /\ LatchDone /\ RequestIsHeld' /\ CycleIsAsAsked'
  BY StepIInv, StepFirstByte, StepRequestIsHeld, StepCycleIsAsAsked
     DEF CodeClock, BiuClock, IInv
<1>2. /\ cmd.req \in {0, 1} /\ cmd'.req \in {0, 1} /\ cmd'.code \in ReqCode
      /\ byte_num \in {0, 1}
  BY <1>1 DEF TypeOK, EuType, SeqType, Command, Bit
\* Told and cmd.req = 1 as the values the abstract variables have.
<1>a. Told \in BOOLEAN /\ Told' \in BOOLEAN
  BY DEF Told
<1>b. /\ Told => Told = TRUE
      /\ ~Told => Told = FALSE
      /\ Told' => Told' = TRUE
      /\ ~Told' => Told' = FALSE
  BY <1>a
<1>c. /\ cmd'.req = 1 => (cmd.req = 1)' = TRUE
      /\ cmd'.req # 1 => (cmd.req = 1)' = FALSE
      /\ (cmd.req = 1 <=> cmd'.req = 1) => (cmd.req = 1)' = (cmd.req = 1)
  OBVIOUS
<1>3. CASE cmd.req = 0 /\ cmd'.req = 1
  <2>1. ~Told /\ CyclesHad = 0
    BY <1>3 DEF Told, CyclesHad
  <2>2. eu_biu_req_d1' = 0
    BY <1>1, <1>3 DEF CaptureRequest
  <2>3. ~Told' /\ eu_biu_req_caught' = 0
    BY <1>1, <1>3, <2>2 DEF Told, IInv, Handshake, Phase
  <2>4. CyclesHad' = 0
    BY <1>3, <2>3 DEF CyclesHad
  <2>5. /\ cmd.req # 1 /\ (cmd.req = 1)' = TRUE
        /\ Told' = Told
    <3>1. cmd.req # 1 /\ (cmd.req = 1)' = TRUE
      BY <1>c, <1>3
    <3>2. Told' = Told
      BY <1>b, <2>1, <2>3
    <3> QED
      BY <3>1, <3>2
  <2>6. Request!Raise(cmd'.code)
    BY <2>4, <2>5 DEF Request!Raise
  <2> QED
    BY <1>2, <2>6 DEF Request!Next
<1>4. CASE cmd.req = 0 /\ cmd'.req = 0
  <2>1. ~Told /\ ~Told' /\ CyclesHad = 0 /\ CyclesHad' = 0
    BY <1>4 DEF Told, CyclesHad
  <2>2. cmd'.code = cmd.code
    BY <1>1, <1>4, KindStep
  <2> QED
    BY <1>b, <1>c, <1>4, <2>1, <2>2 DEF Request!vars
<1>5. CASE cmd.req = 1 /\ cmd'.req = 0
  <2>1. biu_done_caught = 1
    BY <1>1, <1>5, RequestStep
  <2>2. Told /\ ~Told' /\ cmd'.code = cmd.code
    BY <1>1, <1>5, <2>1, KindStep DEF Told
  <2>3. /\ cmd.req = 1 /\ (cmd.req = 1)' = FALSE
        /\ Told' = FALSE /\ CyclesHad' = 0
    BY <1>b, <1>c, <1>5, <2>2 DEF CyclesHad
  <2>4. Request!Release
    BY <2>2, <2>3 DEF Request!Release
  <2> QED
    BY <2>4 DEF Request!Next
<1>6. CASE cmd.req = 1 /\ cmd'.req = 1
  <2>1. Frozen /\ cmd'.code = cmd.code
    BY <1>1, <1>6, RequestFreezes DEF Frozen
  <2>2. CASE Told
    <3>1. Told'
      BY <1>1, <1>6, <2>2
         DEF Told, LatchDone, IInv, Handshake, Phase, TypeOK, EuType, SeqType, Bit
    <3>2. CyclesHad' = CyclesHad
      BY <1>6, <2>1, <2>2, <3>1 DEF CyclesHad
    <3> QED
      BY <1>b, <1>c, <1>6, <2>1, <2>2, <3>1, <3>2 DEF Request!vars
  <2>3. CASE ~Told /\ Told'
    <3>1. CyclesHad' = BusCycles(cmd.code)
      BY <1>6, <2>1, <2>3 DEF CyclesHad
    <3>2. \/ CyclesHad + 1 = BusCycles(cmd.code)
          \/ CyclesHad = BusCycles(cmd.code)
      <4>1. CASE cmd.code = "JUMP" /\ biu_state = 0
        BY <1>6, <2>3, <4>1 DEF CyclesHad, Busy, BusCycles
      <4>2. CASE /\ cmd.code # "JUMP" /\ OwnCycle
                 /\ byte_num = 1 <=> IsWord(cmd.code)
        BY <1>2, <4>2, CyclesInCycle DEF BusCycles
      <4> QED
        BY <2>1, <2>3, <4>1, <4>2, TellStep
    <3>3. Request!Finish
      BY <1>b, <1>c, <1>6, <2>1, <2>3, <3>1, <3>2 DEF Request!Finish
    <3> QED
      BY <3>3 DEF Request!Next
  <2>4. CASE ~Told /\ ~Told'
    <3>1. CASE OwnCycle'
      <4>1. CyclesHad' = byte_num'
        <5>1. (eu_biu_req_caught = 1 /\ Busy)'
          BY <1>1, <3>1, OwnCycleIsHeld
             DEF OwnCycle, InBusCycle, Busy, IInv, CycleIsForRequest
        <5> QED
          BY <1>6, <2>4, <5>1 DEF CyclesHad
      <4>2. CASE StartRequest
        <5>1. CyclesHad = 0 /\ CyclesHad' = 0
          BY <1>6, <2>4, <4>1, <4>2 DEF StartRequest, Idle, CyclesHad, Busy
        <5> QED
          BY <1>b, <1>c, <1>6, <2>1, <2>4, <5>1 DEF Request!vars
      <4>3. CASE OwnCycle /\ CycleAdvances
        <5>1. CyclesHad' = CyclesHad
          BY <4>1, <4>3, CyclesInCycle DEF CycleAdvances
        <5> QED
          BY <1>b, <1>c, <1>6, <2>1, <2>4, <5>1 DEF Request!vars
      <4>4. CASE OwnCycle /\ SecondByte
        <5>1. CyclesHad = 0 /\ CyclesHad' = 1
          BY <4>1, <4>4, CyclesInCycle DEF SecondByte
        <5>2. BusCycles(cmd.code) = 2
          BY <4>4 DEF SecondByte, CycleIsAsAsked, BusCycles
        <5>3. /\ (cmd.req = 1)' = (cmd.req = 1) /\ Told' = Told
              /\ CyclesHad + 1 < BusCycles(cmd.code) /\ CyclesHad' = CyclesHad + 1
          <6>1. (cmd.req = 1)' = (cmd.req = 1)
            BY <1>c, <1>6
          <6>2. Told' = Told
            BY <1>b, <2>4
          <6>3. CyclesHad + 1 < BusCycles(cmd.code) /\ CyclesHad' = CyclesHad + 1
            BY <5>1, <5>2
          <6> QED
            BY <6>1, <6>2, <6>3
        <5>4. Request!Cycle
          BY <1>6, <2>1, <2>4, <5>3 DEF Request!Cycle
        <5> QED
          BY <5>4 DEF Request!Next
      <4> QED
        BY <3>1, <4>2, <4>3, <4>4, CycleGoesOn
    <3>2. CASE ~OwnCycle'
      <4>1. CyclesHad' = 0
        <5>1. (cmd.req = 1 /\ ~Told /\ ~OwnCycle)'
          BY <1>6, <2>4, <3>2
        <5>2. (Busy => InBusCycle \/ biu_state >= \hD0)'
          BY <1>1 DEF IInv, StatesOccur, Busy
        <5>3. (Busy => byte_num = 0)'
          BY <1>1, <5>1, <5>2 DEF OwnCycle, FirstByte
        <5> QED
          BY <5>1, <5>3 DEF CyclesHad
      <4>2. ~OwnCycle
        <5> SUFFICES ASSUME OwnCycle PROVE FALSE
          OBVIOUS
        <5>1. biu_state # 0 /\ s_bits' = s_bits /\ s_bits # "code"
          BY <1>1, NextState DEF OwnCycle, InBusCycle, IInv
        <5>2. CASE biu_state' = \h46
          <6>1. EndCycle
            BY <1>1, <5>1, <5>2
               DEF OwnCycle, InBusCycle, StateMachine, StartRequest, FinishJump,
                   StartPrefetch, StayIdle, Idle, AwaitClk, DrivePins,
                   DriveAddress, DropAle, AssertStrobes, EnableData,
                   SampleReady, LatchData, EndQueueWrite, SteerData, EndDone,
                   Count, CountUp, DecodedStates
          <6>2. biu_done_int' = 1
            BY <5>1, <5>2, <6>1 DEF EndCycle
          <6> QED
            BY <1>6, <2>4, <6>2 DEF Told
        <5>3. CASE biu_state' # \h46
          <6>1. InBusCycle'
            BY <1>1, <5>3, StateStep
               DEF CycleAdvances, SecondByte, OwnCycle, InBusCycle
          <6> QED
            BY <3>2, <5>1, <6>1 DEF OwnCycle
        <5> QED
          BY <5>2, <5>3
      <4>3. CyclesHad = 0
        BY <1>6, <2>4, <4>2, NoCyclesYet
      <4> QED
        BY <1>b, <1>c, <1>6, <2>1, <2>4, <4>1, <4>3 DEF Request!vars
    <3> QED
      BY <3>1, <3>2
  <2> QED
    BY <2>2, <2>3, <2>4
<1> QED
  BY <1>2, <1>3, <1>4, <1>5, <1>6

LEMMA InitRequest == Init => Request!Init /\ FirstByte
<1> SUFFICES ASSUME Init PROVE Request!Init /\ FirstByte
  OBVIOUS
<1>1. cmd.req = 0 /\ cmd.code = "JUMP" /\ byte_num = 0
  BY DEF Init, BiuInit
<1>2. CyclesHad = 0 /\ ~Told
  BY <1>1 DEF CyclesHad, Told
<1> QED
  BY <1>1, <1>2 DEF Request!Init, FirstByte, ReqCode

LEMMA RequestClock ==
    ASSUME NEW codes \in SUBSET Reads, DataInv(codes), FirstByte,
           [CodeClock]_vars
    PROVE  FirstByte' /\ [Request!Next]_(Request!vars)
<1>1. CASE CodeClock
  BY <1>1, StepFirstByte, RequestSimulates DEF DataInv
<1>2. CASE UNCHANGED vars
  <2>1. UNCHANGED FirstByte
    BY <1>2 DEF vars, biuVars, seqVars, FirstByte, InBusCycle
  <2>2. UNCHANGED Request!vars
    BY <1>2
       DEF vars, euVars, cmdVars, biuVars, pipeVars, seqVars, Request!vars,
           CyclesHad, Told, Busy
  <2> QED
    BY <2>1, <2>2
<1> QED
  BY <1>1, <1>2

\* Every request gets the bus cycles of its kind and is told once, whatever
\* code fetch, flush or earlier request the state machine was busy with.
THEOREM RequestIsImplemented == Spec => RequestIsServedOnce
<1>1. Init => Request!Init /\ FirstByte
  BY InitRequest
<1>2. DataInv(Reads) /\ FirstByte /\ [Next]_vars
        => FirstByte' /\ [Request!Next]_(Request!vars)
  BY RequestClock, NextIsCodeClock DEF DataInv
<1> QED
  BY <1>1, <1>2, DataInvariance, PTL DEF Spec, RequestIsServedOnce

-----------------------------------------------------------------------------
(* The queue implements CodeStream. *)

\* Offsets near the top of the queue, with and without their width.
LEMMA NextSlots ==
    ASSUME NEW in \in Offset, NEW out \in Offset, Gap(in, out) <= 4
    PROVE  /\ Gap(in, out) \in Nat
           /\ in = (out + Gap(in, out)) % AddrSpace
           /\ Slot(out + Gap(in, out)) = Slot(in)
           /\ IncOffset(out) = (out + 1) % AddrSpace
           /\ \A i \in 1 .. 4 : Slot(IncOffset(out) + i - 1) = Slot(out + (i + 1) - 1)
<1>1. AddrSpace \in Nat \ {0} /\ AddrSpace >= 8 /\ AddrSpace % 4 = 0
  BY WidthAssumption
<1>2. in \in 0 .. AddrSpace - 1 /\ out \in 0 .. AddrSpace - 1
  BY DEF Offset
<1>3. /\ Gap(in, out) \in Nat
      /\ \/ out + Gap(in, out) = AddrSpace * 0 + in
         \/ out + Gap(in, out) = AddrSpace * 1 + in
  BY <1>1, <1>2 DEF Gap
<1>4. in = (out + Gap(in, out)) % AddrSpace
  BY <1>1, <1>2, <1>3, ModUnique
<1>5. Slot(out + Gap(in, out)) = Slot(in)
  BY <1>1, <1>2, <1>3 DEF Slot
<1>6. IncOffset(out) = (out + 1) % AddrSpace
  <2>1. CASE out = AddrSpace - 1
    <3>1. out + 1 = AddrSpace * 1 + 0 /\ 0 \in 0 .. AddrSpace - 1
      BY <1>1, <2>1
    <3>2. (AddrSpace * 1 + 0) % AddrSpace = 0
      BY <1>1, <3>1, ModUnique
    <3> QED
      BY <2>1, <3>1, <3>2 DEF IncOffset
  <2>2. CASE out # AddrSpace - 1
    <3>1. out + 1 = AddrSpace * 0 + (out + 1) /\ out + 1 \in 0 .. AddrSpace - 1
      BY <1>1, <1>2, <2>2
    <3>2. (AddrSpace * 0 + (out + 1)) % AddrSpace = out + 1
      BY <1>1, <3>1, ModUnique
    <3> QED
      BY <2>2, <3>1, <3>2 DEF IncOffset
  <2> QED
    BY <2>1, <2>2
<1>7. \A i \in 1 .. 4 : Slot(IncOffset(out) + i - 1) = Slot(out + (i + 1) - 1)
  BY <1>1, <1>2 DEF IncOffset, Slot
<1> QED
  BY <1>3, <1>4, <1>5, <1>6, <1>7

\* Two entries of a queue that is not full are in different slots.
LEMMA EntriesDiffer ==
    ASSUME NEW out \in Offset, NEW n \in 0 .. 3, NEW i \in 1 .. n
    PROVE  Slot(out + i - 1) # Slot(out + n)
BY WidthAssumption DEF Slot, Offset

BufferHolds ==
    /\ Buffer \in Seq(Byte) /\ Len(Buffer) = Occupancy
    /\ Occupancy \in 0 .. 4
    /\ \A i \in 1 .. Occupancy :
         Buffer[i] = pfq_entry[Slot(pfq_addr_out + i - 1)]

LEMMA BufferIsSeq == IInv => BufferHolds
<1> SUFFICES ASSUME TypeOK, QueueBounded PROVE BufferHolds
  BY DEF IInv
<1>1. Occupancy \in 0 .. 4
  BY Flags
<1>2. \A i \in 1 .. Occupancy : pfq_entry[Slot(pfq_addr_out + i - 1)] \in Byte
  <2> TAKE i \in 1 .. Occupancy
  <2>1. Slot(pfq_addr_out + i - 1) \in 0 .. 3
    BY <1>1, WidthAssumption DEF TypeOK, QueueType, Offset, Slot
  <2> QED
    BY <2>1 DEF TypeOK, QueueType
<1>3. Buffer \in [1 .. Occupancy -> Byte]
  BY <1>2 DEF Buffer
<1>4. Buffer \in Seq(Byte) /\ Len(Buffer) = Occupancy
  BY <1>1, <1>3, SeqDef, LenProperties
<1> QED
  BY <1>1, <1>4 DEF Buffer, BufferHolds

\* What a delivery and a pop do to the entries of the queue.
LEMMA EntryStep ==
    ASSUME IInv, CodeClock, ~JumpCaught
    PROVE  /\ \A i \in 1 .. Occupancy : pfq_entry'[Slot(pfq_addr_out + i - 1)]
                                      = pfq_entry[Slot(pfq_addr_out + i - 1)]
           /\ pfq_write = 1 =>
                /\ Occupancy <= 3
                /\ pfq_entry'[Slot(pfq_addr_out + Occupancy)] = latched_data_in
<1>1. /\ pfq_addr_in \in Offset /\ pfq_addr_out \in Offset
      /\ pfq_entry \in [0 .. 3 -> Byte] /\ Occupancy \in 0 .. 4
      /\ pfq_write = 1 => Occupancy <= 3
  BY Flags DEF IInv, TypeOK, QueueType, QueueHasRoom, Fetching
<1>2. pfq_entry' = IF pfq_write = 1
                   THEN [pfq_entry EXCEPT ![Slot(pfq_addr_in)] = latched_data_in]
                   ELSE pfq_entry
  BY DEF CodeClock, BiuClock, Queue
<1>3. Slot(pfq_addr_out + Occupancy) = Slot(pfq_addr_in)
  BY <1>1, NextSlots DEF Occupancy
<1>4. Slot(pfq_addr_in) \in 0 .. 3
  BY <1>1, WidthAssumption DEF Slot, Offset
<1>5. \A i \in 1 .. Occupancy :
        pfq_write = 1 => Slot(pfq_addr_out + i - 1) # Slot(pfq_addr_in)
  <2> SUFFICES ASSUME NEW i \in 1 .. Occupancy, pfq_write = 1
               PROVE  Slot(pfq_addr_out + i - 1) # Slot(pfq_addr_in)
    OBVIOUS
  <2>1. Occupancy \in 0 .. 3
    BY <1>1
  <2>2. Slot(pfq_addr_out + i - 1) # Slot(pfq_addr_out + Occupancy)
    BY <1>1, <2>1, EntriesDiffer
  <2> QED
    BY <1>3, <2>2
<1>6. \A i \in 1 .. Occupancy : Slot(pfq_addr_out + i - 1) \in 0 .. 3
  BY <1>1, WidthAssumption DEF Slot, Offset
<1>7. CASE pfq_write = 1
  BY <1>1, <1>2, <1>3, <1>4, <1>5, <1>6, <1>7
<1>8. CASE pfq_write # 1
  BY <1>2, <1>8
<1> QED
  BY <1>7, <1>8

Popped == cmd.strobe = "fetch" /\ Occupancy >= 1

\* The next state of the buffer, entry by entry.
LEMMA BufferEntries ==
    ASSUME IInv, CodeClock, ~JumpCaught
    PROVE  /\ Buffer' \in Seq(Byte) /\ Buffer \in Seq(Byte)
           /\ Len(Buffer) = Occupancy /\ Occupancy \in 0 .. 4
           /\ pfq_write \in {0, 1} /\ (pfq_write = 1 => Occupancy <= 3)
           /\ ~Popped => /\ Len(Buffer') = Occupancy + pfq_write
                         /\ pfq_addr_out' = pfq_addr_out
                         /\ \A i \in 1 .. Occupancy : Buffer'[i] = Buffer[i]
                         /\ pfq_write = 1 => Buffer'[Occupancy + 1] = latched_data_in
           /\ Popped => /\ Len(Buffer') = Occupancy + pfq_write - 1
                        /\ pfq_addr_out' = (pfq_addr_out + 1) % AddrSpace
                        /\ \A i \in 1 .. Occupancy - 1 : Buffer'[i] = Buffer[i + 1]
                        /\ pfq_write = 1 => Buffer'[Occupancy] = latched_data_in
<1>1. IInv'
  BY StepIInv
<1>2. /\ Buffer \in Seq(Byte) /\ Len(Buffer) = Occupancy /\ Occupancy \in 0 .. 4
      /\ \A i \in 1 .. Occupancy :
           Buffer[i] = pfq_entry[Slot(pfq_addr_out + i - 1)]
  BY BufferIsSeq DEF BufferHolds
<1>3. /\ Buffer' \in Seq(Byte) /\ Len(Buffer') = Occupancy'
      /\ \A i \in 1 .. Occupancy' :
           Buffer'[i] = pfq_entry'[Slot(pfq_addr_out' + i - 1)]
  <2>1. (IInv => BufferHolds)'
    BY BufferIsSeq, PTL
  <2> QED
    BY <1>1, <2>1 DEF BufferHolds
<1>4. /\ \A i \in 1 .. Occupancy : pfq_entry'[Slot(pfq_addr_out + i - 1)] = Buffer[i]
      /\ pfq_write = 1 =>
           /\ Occupancy <= 3
           /\ pfq_entry'[Slot(pfq_addr_out + Occupancy)] = latched_data_in
  BY <1>2, EntryStep
<1>5. pfq_write \in {0, 1} /\ pfq_addr_in \in Offset /\ pfq_addr_out \in Offset
  BY DEF IInv, TypeOK, QueueType, SeqType, Bit
<1>6. /\ pfq_addr_out' = IF Popped THEN IncOffset(pfq_addr_out) ELSE pfq_addr_out
      /\ Occupancy' = Occupancy + pfq_write - (IF Popped THEN 1 ELSE 0)
  BY OccupancyStep DEF IInv, Popped
<1>7. CASE ~Popped
  <2>1. pfq_addr_out' = pfq_addr_out /\ Occupancy' = Occupancy + pfq_write
    BY <1>2, <1>5, <1>6, <1>7
  <2>2. \A i \in 1 .. Occupancy : Buffer'[i] = Buffer[i]
    <3> SUFFICES ASSUME NEW i \in 1 .. Occupancy PROVE Buffer'[i] = Buffer[i]
      OBVIOUS
    <3>1. i \in 1 .. Occupancy'
      BY <1>2, <1>5, <2>1
    <3> QED
      BY <1>3, <1>4, <2>1, <3>1
  <2>3. pfq_write = 1 => Buffer'[Occupancy + 1] = latched_data_in
    <3> SUFFICES ASSUME pfq_write = 1
                 PROVE  Buffer'[Occupancy + 1] = latched_data_in
      OBVIOUS
    <3>1. Occupancy + 1 \in 1 .. Occupancy'
      BY <1>2, <2>1
    <3>2. pfq_addr_out' + (Occupancy + 1) - 1 = pfq_addr_out + Occupancy
      BY <1>2, <1>5, <2>1, WidthAssumption DEF Offset
    <3> QED
      BY <1>3, <1>4, <3>1, <3>2
  <2> QED
    BY <1>2, <1>3, <1>4, <1>5, <1>7, <2>1, <2>2, <2>3
<1>8. CASE Popped
  <2>1. /\ pfq_addr_out' = IncOffset(pfq_addr_out)
        /\ Occupancy' = Occupancy + pfq_write - 1 /\ Occupancy >= 1
    BY <1>2, <1>5, <1>6, <1>8 DEF Popped
  <2>2. /\ pfq_addr_out' = (pfq_addr_out + 1) % AddrSpace
        /\ \A i \in 1 .. 4 :
             Slot(pfq_addr_out' + i - 1) = Slot(pfq_addr_out + (i + 1) - 1)
    BY <1>2, <1>5, <2>1, NextSlots DEF Occupancy
  <2>3. \A i \in 1 .. Occupancy - 1 : Buffer'[i] = Buffer[i + 1]
    <3> SUFFICES ASSUME NEW i \in 1 .. Occupancy - 1
                 PROVE  Buffer'[i] = Buffer[i + 1]
      OBVIOUS
    <3>1. i \in 1 .. Occupancy' /\ i \in 1 .. 4 /\ i + 1 \in 1 .. Occupancy
      BY <1>2, <1>5, <2>1
    <3>2. Buffer'[i] = pfq_entry'[Slot(pfq_addr_out + (i + 1) - 1)]
      BY <1>3, <2>2, <3>1
    <3> QED
      BY <1>4, <3>1, <3>2
  <2>4. pfq_write = 1 => Buffer'[Occupancy] = latched_data_in
    <3> SUFFICES ASSUME pfq_write = 1
                 PROVE  Buffer'[Occupancy] = latched_data_in
      OBVIOUS
    <3>1. Occupancy \in 1 .. Occupancy' /\ Occupancy \in 1 .. 4
      BY <1>2, <2>1
    <3>2. Buffer'[Occupancy] = pfq_entry'[Slot(pfq_addr_out + (Occupancy + 1) - 1)]
      BY <1>3, <2>2, <3>1
    <3>3. pfq_addr_out + (Occupancy + 1) - 1 = pfq_addr_out + Occupancy
      BY <1>2, <1>5, WidthAssumption DEF Offset
    <3> QED
      BY <1>4, <3>2, <3>3
  <2> QED
    BY <1>2, <1>3, <1>4, <1>5, <1>8, <2>1, <2>2, <2>3, <2>4
<1> QED
  BY <1>7, <1>8

\* A byte delivered to a clean queue is the next of the stream.
LEMMA DeliveredIsNext ==
    ASSUME IInv, ~JumpCaught, ~cs_dirty, pfq_write = 1
    PROVE  latched_data_in = Stream!At(Occupancy)
<1>1. /\ CodeAt(\h3E, \h3E) /\ Fetching
      /\ pfq_addr_in \in Offset /\ pfq_addr_out \in Offset /\ Occupancy <= 4
  BY DEF IInv, QueueHasRoom, CodeAt, Fetching, TypeOK, QueueType, QueueBounded
<1>2. latched_data_in = <<"mem", Phys(biu_register["cs"], pfq_addr_in)>>
  BY <1>1 DEF IInv, FetchPath, FetchIsNext
<1>3. pfq_addr_in = (pfq_addr_out + Occupancy) % AddrSpace
  BY <1>1, NextSlots DEF Occupancy
<1> QED
  BY <1>2, <1>3 DEF Stream!At

LEMMA EmptyBuffer == IInv /\ Occupancy = 0 => Buffer = <<>>
BY BufferIsSeq, EmptySeq DEF BufferHolds

\* A delivery without a pop appends a byte, and nothing leaves all as it was.
LEMMA BufferGrows ==
    ASSUME IInv, CodeClock, ~JumpCaught, ~Popped
    PROVE  /\ pfq_write = 0 => Buffer' = Buffer
           /\ pfq_write = 1 => Stream!Arrives /\ Len(Buffer) < 4
<1>1. /\ Buffer' \in Seq(Byte) /\ Buffer \in Seq(Byte)
      /\ Len(Buffer) = Occupancy /\ Occupancy \in 0 .. 4
      /\ pfq_write = 1 => Occupancy <= 3
      /\ Len(Buffer') = Occupancy + pfq_write
      /\ \A i \in 1 .. Occupancy : Buffer'[i] = Buffer[i]
      /\ pfq_write = 1 => Buffer'[Occupancy + 1] = latched_data_in
  BY BufferEntries
<1>2. pfq_write = 0 => Buffer' = Buffer
  BY <1>1, SeqEqual
<1>3. ASSUME pfq_write = 1 PROVE Stream!Arrives
  <2>1. Len(Buffer') = Len(Buffer) + 1
    BY <1>1, <1>3
  <2>2. SubSeq(Buffer', 1, Len(Buffer)) = Buffer
    <3>1. /\ SubSeq(Buffer', 1, Occupancy) \in Seq(Byte)
          /\ Len(SubSeq(Buffer', 1, Occupancy)) = Occupancy
          /\ \A i \in 1 .. Occupancy : SubSeq(Buffer', 1, Occupancy)[i] = Buffer'[i]
      BY <1>1, <1>3
    <3> QED
      BY <1>1, <3>1, SeqEqual
  <2>3. cs_dirty = TRUE \/ Buffer'[Len(Buffer')] = Stream!At(Len(Buffer))
    <3>1. CASE cs_dirty
      BY <3>1 DEF IInv, TypeOK, EuType
    <3>2. CASE ~cs_dirty
      BY <1>1, <1>3, <3>2, DeliveredIsNext
    <3> QED
      BY <3>1, <3>2
  <2> QED
    BY <2>1, <2>2, <2>3 DEF Stream!Arrives
<1> QED
  BY <1>1, <1>2, <1>3

\* A pop takes the first byte off, and a byte may be delivered with it.
LEMMA BufferIsPopped ==
    ASSUME IInv, CodeClock, ~JumpCaught, Popped,
           biu_register'["cs"] = biu_register["cs"], cs_dirty' = cs_dirty
    PROVE  Stream!Pop
<1>1. /\ Buffer' \in Seq(Byte) /\ Buffer \in Seq(Byte)
      /\ Len(Buffer) = Occupancy /\ Occupancy \in 1 .. 4
      /\ pfq_write \in {0, 1}
      /\ Len(Buffer') = Occupancy + pfq_write - 1
      /\ pfq_addr_out' = (pfq_addr_out + 1) % AddrSpace
      /\ \A i \in 1 .. Occupancy - 1 : Buffer'[i] = Buffer[i + 1]
      /\ pfq_write = 1 => Buffer'[Occupancy] = latched_data_in
  BY BufferEntries DEF Popped
<1>2. /\ Buffer # <<>> /\ Tail(Buffer) \in Seq(Byte)
      /\ Len(Tail(Buffer)) = Occupancy - 1
      /\ \A i \in 1 .. Occupancy - 1 : Tail(Buffer)[i] = Buffer[i + 1]
  <2>1. Buffer # <<>>
    BY <1>1, EmptySeq
  <2> QED
    BY <1>1, <2>1, HeadTailProperties
<1>3. CASE pfq_write = 0
  <2>1. Buffer' = Tail(Buffer)
    BY <1>1, <1>2, <1>3, SeqEqual
  <2> QED
    BY <1>1, <1>2, <2>1 DEF Stream!Pop
<1>4. CASE pfq_write = 1
  <2>1. Len(Buffer') = Len(Buffer)
    BY <1>1, <1>4
  <2>2. SubSeq(Buffer', 1, Len(Buffer) - 1) = Tail(Buffer)
    <3> DEFINE front == SubSeq(Buffer', 1, Occupancy - 1)
    <3>1. /\ front \in Seq(Byte) /\ Len(front) = Occupancy - 1
          /\ \A i \in 1 .. Occupancy - 1 : front[i] = Buffer'[i]
      <4>1. /\ 1 \in 1 .. Len(Buffer') + 1
            /\ Occupancy - 1 \in 1 - 1 .. Len(Buffer')
        BY <1>1, <1>4
      <4> QED
        BY <1>1, <1>4, <4>1, SubSeqProperties
    <3> HIDE DEF front
    <3>2. front = Tail(Buffer)
      BY <1>1, <1>2, <3>1, SeqEqual
    <3> QED
      BY <1>1, <3>2 DEF front
  <2>3. cs_dirty = TRUE \/ Buffer'[Len(Buffer')] = Stream!At(Len(Buffer))
    <3>1. CASE cs_dirty
      BY <3>1 DEF IInv, TypeOK, EuType
    <3>2. CASE ~cs_dirty
      BY <1>1, <1>4, <3>2, DeliveredIsNext
    <3> QED
      BY <3>1, <3>2
  <2> QED
    BY <1>1, <1>2, <2>1, <2>2, <2>3 DEF Stream!Pop
<1> QED
  BY <1>1, <1>3, <1>4

\* A clock is a step of CodeStream or leaves all of it as it was.
LEMMA StreamSimulates ==
    ASSUME IInv, RequestIsHeld, CodeClock
    PROVE  Stream!Next \/ UNCHANGED Stream!vars
<1>1. /\ IInv' /\ Queue /\ LoadSegment /\ TrackCs
      /\ cs_dirty \in BOOLEAN /\ dataout \in Offset /\ cmd.reg \in SegReg
      /\ biu_register \in [SegReg -> Offset] /\ "cs" \in SegReg
      /\ eu_register_r3_d \in Offset /\ pfq_write \in {0, 1}
  BY StepIInv DEF CodeClock, BiuClock, IInv, TypeOK, EuType, PipeType, SeqType,
                  Command, SegReg, Bit
<1>2. CASE JumpCaught
  <2>1. biu_register' = biu_register
    BY <1>1, <1>2
       DEF JumpCaught, IInv, Handshake, Phase, RequestIsHeld, LoadSegment
  <2>2. pfq_addr_out' = eu_register_r3_d /\ cs_dirty' = FALSE
    BY <1>1, <1>2 DEF Queue, TrackCs
  <2>3. Buffer' = <<>>
    <3>1. Occupancy' = 0
      BY <1>2, OccupancyStep DEF IInv
    <3>2. (IInv /\ Occupancy = 0 => Buffer = <<>>)'
      BY EmptyBuffer, PTL
    <3> QED
      BY <1>1, <3>1, <3>2
  <2>4. Stream!Jump(eu_register_r3_d)
    BY <2>1, <2>2, <2>3 DEF Stream!Jump
  <2> QED
    BY <1>1, <2>4 DEF Stream!Next, Offset
<1>3. CASE ~JumpCaught /\ cmd.strobe = "seg" /\ cmd.reg = "cs"
  <2>1. ~Popped /\ cs_dirty' = TRUE /\ biu_register'["cs"] = dataout
    BY <1>1, <1>3 DEF Popped, TrackCs, LoadSegment
  <2>2. pfq_addr_out' = pfq_addr_out
    BY <1>3, <2>1, BufferEntries
  <2>3. Buffer' = Buffer \/ Stream!Arrives
    BY <1>1, <1>3, <2>1, BufferGrows
  <2>4. Stream!LoadCs(dataout)
    BY <2>1, <2>2, <2>3 DEF Stream!LoadCs
  <2> QED
    BY <1>1, <2>4 DEF Stream!Next
<1>4. CASE ~JumpCaught /\ ~(cmd.strobe = "seg" /\ cmd.reg = "cs")
  <2>1. cs_dirty' = cs_dirty /\ biu_register'["cs"] = biu_register["cs"]
    BY <1>1, <1>4 DEF TrackCs, LoadSegment
  <2>2. CASE Popped
    BY <1>4, <2>1, <2>2, BufferIsPopped DEF Stream!Next
  <2>3. CASE ~Popped
    <3>1. pfq_addr_out' = pfq_addr_out
      BY <1>4, <2>3, BufferEntries
    <3>2. CASE pfq_write = 0
      BY <1>4, <2>1, <2>3, <3>1, <3>2, BufferGrows DEF Stream!vars
    <3>3. CASE pfq_write = 1
      <4>1. Stream!Deliver
        BY <1>4, <2>1, <2>3, <3>1, <3>3, BufferGrows DEF Stream!Deliver
      <4> QED
        BY <4>1 DEF Stream!Next
    <3> QED
      BY <1>1, <3>2, <3>3
  <2> QED
    BY <2>2, <2>3
<1> QED
  BY <1>2, <1>3, <1>4

LEMMA InitStream == Init => Stream!Init
<1> SUFFICES ASSUME Init PROVE Stream!Init
  OBVIOUS
<1>1. IInv /\ Occupancy = 0
  BY InitIInv, WidthAssumption DEF Init, BiuInit, Occupancy, Gap
<1>2. Buffer = <<>>
  BY <1>1, EmptyBuffer
<1>3. biu_register["cs"] \in Offset
  BY <1>1 DEF IInv, TypeOK, PipeType, SegReg
<1> QED
  BY <1>2, <1>3 DEF Init, BiuInit, Stream!Init

LEMMA StreamClock ==
    ASSUME NEW codes \in SUBSET Reads, DataInv(codes), [CodeClock]_vars
    PROVE  [Stream!Next]_(Stream!vars)
<1>1. CASE CodeClock
  BY <1>1, StreamSimulates DEF DataInv
<1>2. CASE UNCHANGED vars
  BY <1>2 DEF vars, biuVars, pfqVars, pipeVars, Stream!vars, Buffer, Occupancy
<1> QED
  BY <1>1, <1>2

\* What the EU pops from the queue is the stream of code bytes from the target
\* of the last jump on, none lost, repeated or overtaken.
THEOREM QueueImplementsStream == Spec => QueueIsAStream
<1>1. Init => Stream!Init
  BY InitStream
<1>2. DataInv(Reads) /\ [Next]_vars => [Stream!Next]_(Stream!vars)
  BY StreamClock, NextIsCodeClock DEF DataInv
<1> QED
  BY <1>1, <1>2, DataInvariance, PTL DEF Spec, QueueIsAStream, Stream!Spec
=============================================================================
