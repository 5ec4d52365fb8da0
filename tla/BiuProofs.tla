----------------------------- MODULE BiuProofs -----------------------------
(***************************************************************************)
(* Theorems of BiuSystem, for every width of the addresses, every clock,   *)
(* every set of requests and every device.                                 *)
(***************************************************************************)
EXTENDS BiuSystem, Remainders, TLAPS

\* An address on AD_OUT fits its twenty bits.
LEMMA PhysInRange ==
    ASSUME NEW s \in Offset, NEW x \in Offset
    PROVE  Phys(s, x) \in PhysAddr
<1>1. s * Para \in Nat
  BY WidthAssumption DEF Offset
<1>2. s * Para + x \in Nat
  BY <1>1, WidthAssumption DEF Offset
<1> QED
  BY <1>2, WidthAssumption DEF Phys, PhysAddr

\* So does the address of the second byte of a word, whose low part wraps.
LEMMA NextByteInRange ==
    ASSUME NEW a \in PhysAddr
    PROVE  NextByte(a) \in PhysAddr
<1>1. CASE a % AddrSpace = AddrSpace - 1
  <2>1. a >= AddrSpace - 1
    BY <1>1, WidthAssumption DEF PhysAddr
  <2> QED
    BY <1>1, <2>1, WidthAssumption DEF NextByte, PhysAddr
<1>2. CASE a % AddrSpace # AddrSpace - 1
  <2>1. PICK q \in Nat, r \in 0 .. AddrSpace - 1 :
           a = AddrSpace * q + r /\ r = a % AddrSpace
    <3>1. /\ a \div AddrSpace \in Nat /\ a % AddrSpace \in 0 .. AddrSpace - 1
          /\ a = AddrSpace * (a \div AddrSpace) + (a % AddrSpace)
      BY WidthAssumption DEF PhysAddr
    <3> QED
      BY <3>1
  <2>2. r + 1 \in 1 .. AddrSpace - 1
    BY <1>2, <2>1, WidthAssumption
  <2>3. (AddrSpace * q + (r + 1)) % AddrSpace = r + 1
    BY <2>2, ModUnique, WidthAssumption
  <2>4. a + 1 = AddrSpace * q + (r + 1)
    BY <2>1, WidthAssumption
  <2>5. a + 1 # PhysSpace
    BY <2>2, <2>3, <2>4, WidthAssumption
  <2> QED
    BY <1>2, <2>5, WidthAssumption DEF NextByte, PhysAddr
<1> QED
  BY <1>1, <1>2

LEMMA IncInRange ==
    ASSUME NEW x \in Offset PROVE IncOffset(x) \in Offset
BY WidthAssumption DEF Offset, IncOffset

-----------------------------------------------------------------------------
(* Type correctness. *)

LEMMA InitTypeOK == Init => TypeOK
<1> SUFFICES ASSUME Init PROVE TypeOK
  OBVIOUS
<1> USE WidthAssumption, ClkAssumption
<1>1. EuType /\ BoardType
  BY DEF Init, EuType, BoardType, Command, Bit, Offset, SegReg, ReqCode,
         PhysAddr
<1>2. QueueType
  BY DEF Init, BiuInit, QueueType, Offset, Byte, Space, Zero, Junk
<1>3. PipeType
  <2>1. biu_return_d \in Word \X Word
    BY DEF Init, BiuInit, Word, Byte, Space, Junk
  <2>2. biu_register \in [SegReg -> Offset]
    BY DEF Init, BiuInit, SegReg, Offset
  <2> QED
    BY <2>1, <2>2 DEF Init, BiuInit, PipeType, Offset, Bit, Byte, Space, Zero
<1>4. SeqType
  <2>1. pin \in Pins
    BY DEF Init, BiuInit, Pins, Bit, PhysAddr, Byte, Space, Zero
  <2> QED
    BY <2>1 DEF Init, BiuInit, SeqType, Status, Bit, PhysAddr, Byte, Space,
                Zero, Word
<1> QED
  BY <1>1, <1>2, <1>3, <1>4 DEF TypeOK

\* One clock of the BIU on any board: READY and AD_IN are what they are, but
\* that the byte of a code fetch is on AD_IN in the state it is sampled in.
CodeClock ==
    /\ EuStep /\ LatchDone /\ TrackCs /\ Board
    /\ \E ready \in Bit, byte \in Byte :
         /\ CodeAt(\h3C, \h3C) => byte = <<"mem", addr_out_temp>>
         /\ BiuClock(CLK, ready, byte)

LEMMA StepEuType == TypeOK /\ CodeClock => EuType'
<1> SUFFICES ASSUME TypeOK, CodeClock PROVE EuType'
  OBVIOUS
<1> USE DEF TypeOK, EuType, CodeClock
<1>1. (cmd \in Command /\ dataout \in Offset /\ r3 \in Offset /\ polled \in Bit)'
  <2> USE DEF Command, Bit
  <2>1. CASE EuOther
    BY <2>1 DEF EuOther
  <2>2. CASE EuPoll
    BY <2>2 DEF EuPoll, cmdVars
  <2>3. CASE EuPop
    BY <2>3 DEF EuPop
  <2>4. CASE EuLoadSegment
    <3>1. PICK s \in SegReg \X Offset :
             /\ cmd' = [cmd EXCEPT !.strobe = "seg", !.reg = s[1]]
             /\ dataout' = s[2]
      BY <2>4, InputAssumption DEF EuLoadSegment
    <3> QED
      BY <2>4, <3>1 DEF EuLoadSegment
  <2>5. CASE EuRequest
    <3>1. PICK q \in Requests, a \in Targets, w \in DataWords :
             /\ cmd' = [cmd EXCEPT !.req = 1, !.code = q.code, !.seg = q.seg]
             /\ r3' = a /\ dataout' = w
      BY <2>5 DEF EuRequest
    <3>2. /\ q.code \in ReqCode /\ q.seg \in {"es", "ss", "cs", "ds"}
          /\ a \in Offset /\ w \in Offset
      BY InputAssumption
    <3> QED
      BY <2>5, <3>1, <3>2 DEF EuRequest
  <2>6. CASE EuRelease
    BY <2>6 DEF EuRelease
  <2> QED
    BY <2>1, <2>2, <2>3, <2>4, <2>5, <2>6 DEF EuStep
<1>2. (biu_done_d1 \in Bit /\ biu_done_d2 \in Bit /\ biu_done_caught \in Bit)'
  BY DEF LatchDone, SeqType, Bit
<1>3. cs_dirty' \in BOOLEAN
  BY DEF TrackCs
<1> QED
  BY <1>1, <1>2, <1>3

\* What AD_IN carries is a byte.
LEMMA AdInIsByte == TypeOK => AD_IN \in Byte
BY WidthAssumption
   DEF TypeOK, BoardType, SeqType, AD_IN, Byte, Space, Junk, Bit, PhysAddr

LEMMA StepQueueType == TypeOK /\ CodeClock => QueueType'
<1> SUFFICES ASSUME TypeOK, CodeClock PROVE QueueType'
  OBVIOUS
<1>0. Queue
  BY DEF CodeClock, BiuClock
<1>1. /\ pfq_addr_out' \in Offset /\ pfq_addr_in' \in Offset
  <2>1. /\ pfq_addr_out \in Offset /\ pfq_addr_in \in Offset
        /\ eu_register_r3_d \in Offset
    BY DEF TypeOK, QueueType, PipeType
  <2>2. /\ IncOffset(pfq_addr_out) \in Offset /\ IncOffset(pfq_addr_in) \in Offset
    BY <2>1, IncInRange
  <2> QED
    BY <1>0, <2>1, <2>2 DEF Queue, JumpCaught, pfq_empty
<1>2. pfq_entry' \in [0 .. 3 -> Byte]
  BY <1>0 DEF Queue, TypeOK, QueueType, SeqType
<1> USE DEF TypeOK, CodeClock, BiuClock
<1>3. pfq_addr_out_d1' \in Offset
  BY DEF QueueType, Pipelines
<1>4. pfq_top_byte_int_d1' \in Byte
  <2>1. Slot(pfq_addr_out) \in 0 .. 3
    BY DEF QueueType, Slot, Offset
  <2> QED
    BY <2>1 DEF QueueType, Pipelines, pfq_top_byte_int
<1> QED
  BY <1>1, <1>2, <1>3, <1>4 DEF QueueType

LEMMA StepPipeType == TypeOK /\ CodeClock => PipeType'
<1> SUFFICES ASSUME TypeOK, CodeClock PROVE PipeType'
  OBVIOUS
<1>1. PICK ready \in Bit, byte \in Byte : BiuClock(CLK, ready, byte)
  BY DEF CodeClock
<1>2. CLK \in Bit
  BY DEF CLK, Bit
<1> USE DEF TypeOK
<1>3. eu_register_r3_d' \in Offset /\ ad_in_int' \in Byte
  BY <1>1, <1>2 DEF EuType, BiuClock, Pipelines
<1>4. eu_biu_req_d1' \in Bit /\ eu_biu_req_caught' \in Bit
  BY <1>1 DEF EuType, PipeType, BiuClock, CaptureRequest, Command, Bit
<1>5. biu_register' \in [SegReg -> Offset]
  BY <1>1 DEF EuType, PipeType, BiuClock, LoadSegment, Command
<1>6. clk_d' \in Bit \X Bit \X Bit \X Bit
  BY <1>1, <1>2 DEF PipeType, BiuClock, Pipelines
<1>7. ready_d' \in Bit \X Bit \X Bit
  BY <1>1, <1>2 DEF PipeType, BiuClock, Pipelines
<1>8. biu_return_d' \in Word \X Word
  BY <1>1 DEF PipeType, SeqType, BiuClock, Pipelines
<1> QED
  BY <1>3, <1>4, <1>5, <1>6, <1>7, <1>8 DEF PipeType

\* The actions of the state machine write the registers of SeqType only.
LEMMA StepSeqType == TypeOK /\ CodeClock => SeqType'
<1> SUFFICES ASSUME TypeOK, CodeClock PROVE SeqType'
  OBVIOUS
<1>1. StateMachine
  BY DEF CodeClock, BiuClock
<1>2. SeqType /\ ad_in_int \in Byte /\ dataout \in Offset
  BY DEF TypeOK, PipeType, EuType
<1>3. \A s \in Status : S1(s) \in Bit /\ S2(s) \in Bit
  BY DEF S1, S2, Bit
<1>4. \A b \in Bit : Not(b) \in Bit
  BY DEF Not, Bit
<1>5. Zero \in Byte /\ LoByte(dataout) \in Byte /\ HiByte(dataout) \in Byte
  BY <1>2, WidthAssumption DEF Zero, LoByte, HiByte, Byte, Space, Offset
<1>0. /\ 0 \in Bit /\ 1 \in Bit /\ pin \in Pins /\ addr_out_temp \in PhysAddr
      /\ S1(s_bits) \in Bit /\ Not(S1(s_bits)) \in Bit /\ Not(S2(s_bits)) \in Bit
  BY <1>2, <1>3, <1>4 DEF SeqType, Bit
<1> USE DEF SeqType, Bit
<1>6. ASSUME Idle PROVE pfq_write' \in Bit /\ byte_num' \in Bit
  BY <1>6 DEF Idle
<1>7. CASE StartRequest
  <2>1. AddressOf(cmd) \in PhysAddr
    <3>1. /\ 0 \in Offset /\ eu_register_r3_d \in Offset
          /\ pfq_addr_out \in Offset
          /\ \A r \in SegReg : biu_register[r] \in Offset
      BY WidthAssumption DEF TypeOK, PipeType, QueueType, Offset
    <3>2. cmd.code \in ReqCode /\ cmd.seg \in SegReg
      BY DEF TypeOK, EuType, Command, SegReg
    <3>3. cmd.code # "JUMP"
      BY <1>7 DEF StartRequest
    <3>4. {"ss", "cs"} \subseteq SegReg
      BY DEF SegReg
    <3> QED
      BY <3>1, <3>2, <3>3, <3>4, PhysInRange DEF AddressOf, ReqCode
  <2>2. StatusOf(cmd.code) \in Status
    BY <1>7 DEF StartRequest, StatusOf, Status, TypeOK, EuType, Command, ReqCode
  <2> QED
    BY <1>2, <1>6, <1>7, <2>1, <2>2 DEF StartRequest
<1>8. CASE FinishJump
  BY <1>2, <1>6, <1>8 DEF FinishJump
<1>9. CASE StartPrefetch
  <2>1. Phys(biu_register["cs"], pfq_addr_in) \in PhysAddr
    BY PhysInRange DEF TypeOK, PipeType, QueueType, SegReg
  <2> QED
    BY <1>2, <1>6, <1>9, <2>1 DEF StartPrefetch, Status
<1>10. CASE StayIdle
  BY <1>2, <1>6, <1>10 DEF StayIdle
<1>11. CASE AwaitClk
  <2>1. pin' \in Pins
    <3> HIDE DEF SeqType, Bit
    <3> QED
      BY <1>0, <1>11 DEF AwaitClk, Pins
  <2> QED
    BY <1>2, <1>11, <2>1 DEF AwaitClk, InCycle, CountUp
<1>12. CASE DrivePins
  <2>1. pin' \in Pins
    <3> HIDE DEF SeqType, Bit
    <3>1. CASE DriveAddress
      BY <1>0, <1>5, <3>1 DEF DriveAddress, Pins
    <3>2. CASE DropAle
      BY <1>0, <3>2 DEF DropAle, Pins
    <3>3. CASE AssertStrobes
      BY <1>0, <1>5, <3>3 DEF AssertStrobes, Pins
    <3>4. CASE EnableData
      BY <1>0, <3>4 DEF EnableData, Pins
    <3> QED
      BY <1>12, <3>1, <3>2, <3>3, <3>4 DEF DrivePins
  <2> QED
    BY <1>2, <1>12, <2>1 DEF DrivePins, InCycle, CountUp
<1>13. CASE SampleReady
  BY <1>2, <1>13 DEF SampleReady, InCycle, CountUp
<1>14. CASE LatchData
  BY <1>2, <1>14 DEF LatchData, InCycle, CountUp
<1>15. CASE EndQueueWrite
  BY <1>2, <1>15 DEF EndQueueWrite, InCycle, CountUp
<1>16. CASE SteerData
  BY <1>2, <1>5, <1>16 DEF SteerData, InCycle, CountUp, Word
<1>17. CASE EndCycle
  <2>1. pin' \in Pins
    <3> HIDE DEF SeqType, Bit
    <3> QED
      BY <1>0, <1>17 DEF EndCycle, Pins
  <2>2. addr_out_temp' \in PhysAddr
    BY <1>2, <1>17, NextByteInRange DEF EndCycle
  <2> QED
    BY <1>2, <1>17, <2>1, <2>2 DEF EndCycle, InCycle, CountUp
<1>18. CASE EndDone
  BY <1>2, <1>18 DEF EndDone, InCycle, CountUp
<1>19. CASE Count
  BY <1>2, <1>19 DEF Count, InCycle
<1> QED
  BY <1>1, <1>7, <1>8, <1>9, <1>10, <1>11, <1>12, <1>13, <1>14, <1>15, <1>16,
     <1>17, <1>18, <1>19 DEF StateMachine

LEMMA StepBoardType == TypeOK /\ CodeClock => BoardType'
BY ClkAssumption DEF TypeOK, BoardType, SeqType, Pins, CodeClock, Board

-----------------------------------------------------------------------------
(* The handshake: a done pulse is for the request that is pending. *)

\* What the EU does to its request in one clock.
LEMMA RequestStep ==
    ASSUME TypeOK, EuStep
    PROVE  \/ cmd'.req = cmd.req /\ cmd'.code = cmd.code
           \/ cmd.req = 0 /\ eu_biu_req_d1 = 0 /\ cmd'.req = 1
           \/ cmd.req = 1 /\ biu_done_caught = 1 /\ cmd'.req = 0
<1> USE DEF TypeOK, EuType, Command
<1>1. CASE EuOther
  BY <1>1 DEF EuOther
<1>2. CASE EuPoll
  BY <1>2 DEF EuPoll, cmdVars
<1>3. CASE EuPop
  BY <1>3 DEF EuPop
<1>4. CASE EuLoadSegment
  BY <1>4 DEF EuLoadSegment
<1>5. CASE EuRequest
  BY <1>5 DEF EuRequest
<1>6. CASE EuRelease
  BY <1>6 DEF EuRelease
<1> QED
  BY <1>1, <1>2, <1>3, <1>4, <1>5, <1>6 DEF EuStep

\* The done pulse lasts one clock and is raised for a caught request only.
LEMMA DonePulse ==
    ASSUME TypeOK, Handshake, CycleIsForRequest, StateMachine
    PROVE  /\ biu_done_int = 1 => biu_done_int' = 0
           /\ biu_done_int = 0 /\ biu_done_int' # 0
                => /\ biu_done_int' = 1 /\ biu_state' = \h46
                   /\ eu_biu_req_caught = 1
<1>1. biu_done_int = 1 => biu_state = \h46
  BY DEF Handshake, Phase
<1>2. biu_state \in 0 .. 255 /\ biu_done_int \in {0, 1}
  BY DEF TypeOK, SeqType, Bit
<1>3. CASE FinishJump
  BY <1>1, <1>2, <1>3 DEF FinishJump, Idle, JumpCaught
<1>4. CASE EndCycle
  BY <1>1, <1>2, <1>4 DEF EndCycle, CountUp, CycleIsForRequest, InBusCycle
<1>5. CASE EndDone
  BY <1>1, <1>2, <1>5 DEF EndDone
<1>6. CASE Count
  <2>1. biu_state # \h46
    BY <1>6 DEF Count, DecodedStates
  <2> QED
    BY <1>1, <1>6, <2>1 DEF Count
<1>7. CASE StartRequest \/ StartPrefetch \/ StayIdle
  BY <1>1, <1>7 DEF StartRequest, StartPrefetch, StayIdle, Idle
<1>8. CASE AwaitClk \/ SampleReady \/ LatchData \/ EndQueueWrite \/ SteerData
  BY <1>1, <1>8 DEF AwaitClk, SampleReady, LatchData, EndQueueWrite, SteerData
<1>9. CASE DrivePins
  BY <1>1, <1>9
     DEF DrivePins, DriveAddress, DropAle, AssertStrobes, EnableData
<1> QED
  BY <1>3, <1>4, <1>5, <1>6, <1>7, <1>8, <1>9 DEF StateMachine

LEMMA StepHandshake ==
    ASSUME TypeOK, Handshake, CycleIsForRequest, CodeClock
    PROVE  Handshake'
<1>1. EuStep /\ LatchDone /\ CaptureRequest /\ StateMachine
  BY DEF CodeClock, BiuClock
<1>2. /\ biu_done_int = 1 => biu_done_int' = 0
      /\ biu_done_int = 0 /\ biu_done_int' # 0
           => biu_done_int' = 1 /\ biu_state' = \h46 /\ eu_biu_req_caught = 1
  BY <1>1, DonePulse
<1>3. \/ cmd'.req = cmd.req
      \/ cmd.req = 0 /\ eu_biu_req_d1 = 0 /\ cmd'.req = 1
      \/ cmd.req = 1 /\ biu_done_caught = 1 /\ cmd'.req = 0
  BY <1>1, RequestStep
<1>4. /\ eu_biu_req_d1' = cmd.req
      /\ eu_biu_req_caught' =
           IF eu_biu_req_d1 = 0 /\ cmd.req = 1 THEN 1
           ELSE IF biu_done_int = 1 THEN 0 ELSE eu_biu_req_caught
      /\ biu_done_d1' = biu_done_int /\ biu_done_d2' = biu_done_d1
      /\ biu_done_caught' =
           IF biu_done_d2 = 0 /\ biu_done_d1 = 1 THEN 1
           ELSE IF eu_biu_req_d1 = 1 /\ cmd.req = 0 THEN 0
           ELSE biu_done_caught
  BY <1>1 DEF CaptureRequest, LatchDone
<1>5. biu_done_d2 \in {0, 1}
  BY DEF TypeOK, EuType, Bit
<1> USE <1>2, <1>3, <1>4 DEF Phase
<1>6. CASE Phase(0, 0, 0, 0, 0, 0)
  BY <1>6 DEF Handshake
<1>7. CASE Phase(0, 1, 0, 0, 0, 1)
  BY <1>7 DEF Handshake
<1>8. CASE Phase(1, 0, 0, 0, 0, 0)
  BY <1>8 DEF Handshake
<1>9. CASE Phase(1, 1, 1, 0, 0, 0)
  BY <1>9 DEF Handshake
<1>10. CASE Phase(1, 1, 1, 1, 0, 0)
  BY <1>10 DEF Handshake
<1>11. CASE Phase(1, 1, 0, 0, 1, 0) /\ biu_done_d2 = 0
  BY <1>11 DEF Handshake
<1>12. CASE Phase(1, 1, 0, 0, 0, 1)
  BY <1>12 DEF Handshake
<1> QED
  BY <1>6, <1>7, <1>8, <1>9, <1>10, <1>11, <1>12 DEF Handshake

\* Which states follow which: a summary of the state machine.
LEMMA NextState ==
    ASSUME TypeOK, StatesOccur, StateMachine
    PROVE  /\ StatesOccur'
           /\ biu_state # 0 => s_bits' = s_bits /\ word_cycle' = word_cycle
           /\ biu_state' \in {biu_state, biu_state + 1, 0, 1, \h1A, \h46, \h50}
           /\ biu_state' = \h1A => biu_state \in {\h19, \h2F}
           /\ biu_state' = \h50 =>
                biu_state = \h45 /\ word_cycle = 1
           /\ biu_state' = \h46 => biu_state \in {0, \h45}
           /\ biu_state' = 1 => biu_state \in {0, 1, \h58}
           /\ biu_state' = biu_state => biu_state \in {0, 1}
           /\ biu_state' = 0 => biu_state \in {0, \h4E, \hFF}
<1> USE DEF StatesOccur, InBusCycle
<1>1. biu_state \in 0 .. 255
  BY DEF TypeOK, SeqType
<1>2. CASE StartRequest \/ FinishJump \/ StartPrefetch \/ StayIdle
  BY <1>1, <1>2 DEF StartRequest, FinishJump, StartPrefetch, StayIdle, Idle
<1>3. CASE AwaitClk
  BY <1>1, <1>3 DEF AwaitClk, CountUp, InCycle
<1>4. CASE DrivePins
  BY <1>1, <1>4 DEF DrivePins, CountUp, InCycle, DriveAddress, DropAle,
                    AssertStrobes, EnableData
<1>5. CASE SampleReady
  BY <1>1, <1>5 DEF SampleReady, CountUp, InCycle
<1>6. CASE LatchData \/ EndQueueWrite \/ SteerData \/ EndDone
  BY <1>1, <1>6
     DEF LatchData, EndQueueWrite, SteerData, EndDone, CountUp, InCycle
<1>7. CASE EndCycle
  BY <1>1, <1>7 DEF EndCycle, CountUp, InCycle
<1>8. CASE Count
  BY <1>1, <1>8 DEF Count, DecodedStates, InCycle
<1> QED
  BY <1>2, <1>3, <1>4, <1>5, <1>6, <1>7, <1>8 DEF StateMachine

LEMMA StepCycleIsForRequest ==
    ASSUME TypeOK, Handshake, StatesOccur, CycleIsForRequest, CodeClock
    PROVE  CycleIsForRequest'
<1> SUFFICES ASSUME InBusCycle'
             PROVE  (IF s_bits = "code" THEN word_cycle = 0 /\ biu_state <= \h45
                     ELSE eu_biu_req_caught = 1 /\ biu_done_int = 0)'
  BY DEF CycleIsForRequest
<1>1. StateMachine /\ CaptureRequest
  BY DEF CodeClock, BiuClock
<1>2. /\ biu_state \in 0 .. 255 /\ biu_done_int \in {0, 1}
      /\ eu_biu_req_caught \in {0, 1}
      /\ biu_done_int = 1 => biu_state = \h46
      /\ biu_done_int = 1 => biu_done_int' = 0
      /\ biu_done_int = 0 /\ biu_done_int' # 0 => biu_state' = \h46
  BY <1>1, DonePulse DEF TypeOK, SeqType, PipeType, Bit, Handshake, Phase
<1>3. biu_state' # \h46
  BY DEF InBusCycle
<1>4. biu_done_int' = 0
  BY <1>2, <1>3
<1>5. CASE biu_state = 0
  <2>1. CASE StartRequest
    <3>1. eu_biu_req_caught' = 1
      BY <1>1, <1>2, <1>5, <2>1 DEF StartRequest, CaptureRequest
    <3>2. s_bits' # "code"
      BY <2>1 DEF StartRequest, StatusOf, TypeOK, EuType, Command, ReqCode
    <3> QED
      BY <1>4, <3>1, <3>2
  <2>2. CASE StartPrefetch
    BY <2>2 DEF StartPrefetch
  <2>3. CASE FinishJump
    BY <2>3, <1>3 DEF FinishJump
  <2>4. CASE StayIdle
    BY <2>4 DEF StayIdle, InBusCycle
  <2> QED
    BY <1>1, <1>5, <2>1, <2>2, <2>3, <2>4
       DEF StateMachine, AwaitClk, DrivePins, DriveAddress, DropAle,
           AssertStrobes, EnableData, SampleReady, LatchData, EndQueueWrite,
           SteerData, EndCycle, EndDone, Count, DecodedStates
<1>6. CASE biu_state # 0
  <2>1. InBusCycle
    BY <1>1, <1>2, <1>6, NextState DEF InBusCycle, StatesOccur
  <2>2. s_bits' = s_bits /\ word_cycle' = word_cycle
    BY <1>1, <1>6, NextState
  <2>3. CASE s_bits = "code"
    BY <1>1, <1>2, <1>6, <2>1, <2>2, <2>3, NextState
       DEF CycleIsForRequest, InBusCycle
  <2>4. CASE s_bits # "code"
    <3>1. eu_biu_req_caught = 1 /\ biu_done_int = 0
      BY <2>1, <2>4 DEF CycleIsForRequest
    <3> QED
      BY <1>1, <1>4, <2>2, <2>4, <3>1 DEF CaptureRequest
  <2> QED
    BY <2>3, <2>4
<1> QED
  BY <1>5, <1>6

-----------------------------------------------------------------------------
(* The queue and the code fetch that fills it. *)

\* A code fetch that is in progress after a clock was started by it, or was
\* in progress before and has kept its address.
LEMMA FetchGoesOn ==
    ASSUME TypeOK, Handshake, StatesOccur, CycleIsForRequest, CodeClock,
           CodeAt(1, \h45)'
    PROVE  \/ StartPrefetch
           \/ /\ CodeAt(1, \h44) /\ addr_out_temp' = addr_out_temp
              /\ \/ biu_state' = biu_state + 1
                 \/ biu_state = 1 /\ biu_state' = 1
                 \/ biu_state \in {\h19, \h2F} /\ biu_state' = \h1A
<1>1. StateMachine /\ biu_state \in 0 .. 255 /\ biu_state' \in 1 .. \h45
  BY DEF CodeClock, BiuClock, TypeOK, SeqType, CodeAt
<1>2. CASE biu_state = 0
  <2>1. CASE StartRequest
    BY <2>1 DEF StartRequest, StatusOf, TypeOK, EuType, Command, ReqCode, CodeAt
  <2>2. CASE FinishJump \/ StayIdle
    BY <2>2, <1>1 DEF FinishJump, StayIdle
  <2> QED
    BY <1>1, <1>2, <2>1, <2>2
       DEF StateMachine, AwaitClk, DrivePins, DriveAddress, DropAle,
           AssertStrobes, EnableData, SampleReady, LatchData, EndQueueWrite,
           SteerData, EndCycle, EndDone, Count, DecodedStates
<1>3. CASE biu_state # 0
  <2>1. s_bits = "code"
    BY <1>1, <1>3, NextState DEF CodeAt
  <2>2. biu_state # \h58 /\ biu_state \in 1 .. \h45
    BY <1>1, <1>3, <2>1, NextState
       DEF CycleIsForRequest, StatesOccur, InBusCycle
  <2>3. biu_state # \h45
    BY <1>1, NextState
  <2>4. addr_out_temp' = addr_out_temp
    BY <1>1, <1>3, <2>3
       DEF StateMachine, StartRequest, FinishJump, StartPrefetch, StayIdle, Idle,
           AwaitClk, DrivePins, SampleReady, LatchData, EndQueueWrite,
           SteerData, EndCycle, EndDone, Count
  <2> QED
    BY <1>1, <1>3, <2>1, <2>2, <2>3, <2>4, NextState DEF CodeAt
<1> QED
  BY <1>2, <1>3

\* The queue is written in state 3E of a code fetch only.
LEMMA QueueWritten ==
    ASSUME TypeOK, QueueHasRoom, CodeClock
    PROVE  pfq_write' = 1 => biu_state' = \h3E /\ s_bits' = "code"
<1>1. StateMachine /\ biu_state \in 0 .. 255
  BY DEF CodeClock, BiuClock, TypeOK, SeqType
<1>2. CASE LatchData
  BY <1>1, <1>2 DEF LatchData, CountUp, InCycle, QueueHasRoom
<1>3. CASE EndQueueWrite
  BY <1>3 DEF EndQueueWrite
<1>4. CASE StartRequest \/ FinishJump \/ StartPrefetch \/ StayIdle
  BY <1>4 DEF StartRequest, FinishJump, StartPrefetch, StayIdle, Idle
<1>5. CASE AwaitClk \/ SampleReady \/ SteerData \/ EndCycle \/ EndDone
  BY <1>5 DEF AwaitClk, SampleReady, SteerData, EndCycle, EndDone, QueueHasRoom
<1>6. CASE DrivePins
  BY <1>6 DEF DrivePins, DriveAddress, DropAle, AssertStrobes, EnableData,
              QueueHasRoom
<1>7. CASE Count
  BY <1>7 DEF Count, DecodedStates, QueueHasRoom
<1> QED
  BY <1>1, <1>2, <1>3, <1>4, <1>5, <1>6, <1>7 DEF StateMachine

LEMMA GapIsOffset ==
    ASSUME NEW in \in Offset, NEW out \in Offset
    PROVE  Gap(in, out) \in Offset
BY WidthAssumption DEF Gap, Offset

\* What a pop and a delivery in one clock do to the gap of two offsets.
LEMMA GapStep ==
    ASSUME NEW in \in Offset, NEW out \in Offset,
           NEW in2 \in {in, IncOffset(in)}, NEW out2 \in {out, IncOffset(out)},
           Gap(in, out) <= 4,
           in2 # in => Gap(in, out) <= 3, out2 # out => Gap(in, out) >= 1
    PROVE  Gap(in2, out2) = Gap(in, out) + (IF in2 = in THEN 0 ELSE 1)
                                         - (IF out2 = out THEN 0 ELSE 1)
<1>1. AddrSpace \in Nat /\ AddrSpace >= 8
  BY WidthAssumption
<1> QED
  BY <1>1 DEF Gap, IncOffset, Offset

\* The three bits the flags compare are enough while the queue is bounded.
LEMMA Flags ==
    ASSUME TypeOK, QueueBounded
    PROVE  /\ pfq_full <=> Occupancy = 4
           /\ pfq_empty <=> Occupancy = 0
           /\ Occupancy \in 0 .. 4
<1>1. pfq_addr_in \in 0 .. AddrSpace - 1 /\ pfq_addr_out \in 0 .. AddrSpace - 1
  BY DEF TypeOK, QueueType, Offset
<1> QED
  BY <1>1, WidthAssumption
     DEF QueueBounded, Occupancy, Gap, pfq_full, pfq_empty, Slot, Bit2

\* What one clock does to the two addresses, in terms of the occupancy.
LEMMA OccupancyStep ==
    ASSUME TypeOK, QueueBounded, QueueHasRoom, CodeClock
    PROVE  /\ JumpCaught => Occupancy' = 0
           /\ ~JumpCaught =>
                /\ pfq_addr_out' = IF cmd.strobe = "fetch" /\ Occupancy >= 1
                                   THEN IncOffset(pfq_addr_out)
                                   ELSE pfq_addr_out
                /\ pfq_addr_in' = IF pfq_write = 1 THEN IncOffset(pfq_addr_in)
                                  ELSE pfq_addr_in
                /\ Occupancy' = Occupancy + pfq_write
                     - (IF cmd.strobe = "fetch" /\ Occupancy >= 1 THEN 1 ELSE 0)
                /\ Occupancy' \in 0 .. 4
<1>1. Queue
  BY DEF CodeClock, BiuClock
<1>2. /\ pfq_addr_in \in Offset /\ pfq_addr_out \in Offset
      /\ pfq_write \in {0, 1} /\ eu_register_r3_d \in Offset
  BY DEF TypeOK, QueueType, PipeType, SeqType, Bit
<1>3. Occupancy' = Gap(pfq_addr_in', pfq_addr_out')
  BY DEF Occupancy
<1>4. ASSUME JumpCaught PROVE Occupancy' = 0
  <2>1. pfq_addr_in' = eu_register_r3_d /\ pfq_addr_out' = eu_register_r3_d
    BY <1>1, <1>4 DEF Queue
  <2>2. Gap(eu_register_r3_d, eu_register_r3_d) = 0
    BY <1>2, WidthAssumption DEF Gap, Offset
  <2> QED
    BY <1>3, <2>1, <2>2
<1>5. ASSUME ~JumpCaught
      PROVE  /\ pfq_addr_out' = IF cmd.strobe = "fetch" /\ Occupancy >= 1
                                THEN IncOffset(pfq_addr_out)
                                ELSE pfq_addr_out
             /\ pfq_addr_in' = IF pfq_write = 1 THEN IncOffset(pfq_addr_in)
                               ELSE pfq_addr_in
             /\ Occupancy' = Occupancy + pfq_write
                  - (IF cmd.strobe = "fetch" /\ Occupancy >= 1 THEN 1 ELSE 0)
             /\ Occupancy' \in 0 .. 4
  <2>1. Occupancy \in 0 .. 4 /\ (pfq_empty <=> Occupancy = 0)
    BY Flags
  <2>2. pfq_addr_out' = IF cmd.strobe = "fetch" /\ Occupancy >= 1
                        THEN IncOffset(pfq_addr_out) ELSE pfq_addr_out
    <3>1. CASE pfq_empty
      BY <1>1, <1>5, <2>1, <3>1 DEF Queue
    <3>2. CASE ~pfq_empty
      BY <1>1, <1>5, <2>1, <3>2 DEF Queue
    <3> QED
      BY <3>1, <3>2
  <2>3. pfq_addr_in' = IF pfq_write = 1 THEN IncOffset(pfq_addr_in)
                       ELSE pfq_addr_in
    BY <1>1, <1>5 DEF Queue
  <2>4. pfq_write = 1 => Occupancy <= 3
    BY DEF QueueHasRoom, Fetching
  <2>5. /\ IncOffset(pfq_addr_out) # pfq_addr_out
        /\ IncOffset(pfq_addr_in) # pfq_addr_in
    BY <1>2, WidthAssumption DEF IncOffset, Offset
  <2>6. Gap(pfq_addr_in', pfq_addr_out')
          = Gap(pfq_addr_in, pfq_addr_out)
              + (IF pfq_addr_in' = pfq_addr_in THEN 0 ELSE 1)
              - (IF pfq_addr_out' = pfq_addr_out THEN 0 ELSE 1)
    BY <1>2, <2>1, <2>2, <2>3, <2>4, <2>5, GapStep DEF Occupancy
  <2> QED
    BY <1>2, <1>3, <2>1, <2>2, <2>3, <2>4, <2>5, <2>6 DEF Occupancy
<1> QED
  BY <1>4, <1>5

LEMMA StepQueueRoom ==
    ASSUME TypeOK, Handshake, StatesOccur, CycleIsForRequest, QueueBounded,
           QueueHasRoom, CodeClock
    PROVE  QueueBounded' /\ QueueHasRoom'
<1>1. Occupancy' \in 0 .. 4
  BY OccupancyStep
<1>2. Occupancy \in 0 .. 4
  BY Flags
<1>3. ASSUME Fetching' PROVE Occupancy' <= 3
  <2>1. CodeAt(1, \h45)'
    BY <1>3 DEF Fetching, CodeAt
  <2>2. CASE StartPrefetch
    <3>1. Occupancy <= 3 /\ pfq_write # 1
      BY <1>2, <2>2, Flags DEF StartPrefetch, Idle, QueueHasRoom
    <3>2. pfq_write = 0
      BY <3>1 DEF TypeOK, SeqType, Bit
    <3> QED
      BY <1>1, <1>2, <3>1, <3>2, OccupancyStep
  <2>3. CASE ~StartPrefetch
    <3>1. Fetching /\ biu_state # \h3E
      BY <1>3, <2>1, <2>3, FetchGoesOn DEF Fetching, CodeAt
    <3>2. Occupancy <= 3 /\ pfq_write # 1
      BY <3>1 DEF QueueHasRoom
    <3>3. pfq_write = 0
      BY <3>2 DEF TypeOK, SeqType, Bit
    <3> QED
      BY <1>1, <1>2, <3>2, <3>3, OccupancyStep
  <2> QED
    BY <2>2, <2>3
<1> QED
  BY <1>1, <1>3, QueueWritten DEF QueueBounded, QueueHasRoom

-----------------------------------------------------------------------------
(* The path of a code byte, from the address register to the queue. *)

\* What each state does to the pins a code byte depends on.
LEMMA PinStep ==
    ASSUME TypeOK, StatesOccur, StateMachine
    PROVE  /\ pin'.addr = IF biu_state = \h04 THEN addr_out_temp ELSE pin.addr
           /\ pin'.ALE = IF biu_state = \h04 THEN 1
                         ELSE IF biu_state = \h13 THEN 0 ELSE pin.ALE
           /\ pin'.RD_n = IF biu_state = \h19 THEN S1(s_bits)
                          ELSE IF biu_state = \h45 THEN 1 ELSE pin.RD_n
           /\ pin'.INTA_n = IF biu_state = \h19 /\ s_bits = "inta" THEN 0
                            ELSE IF biu_state = \h45 THEN 1 ELSE pin.INTA_n
           /\ pin'.IOM = IF biu_state = 1 /\ biu_state' # 1 THEN Not(S2(s_bits))
                         ELSE pin.IOM
           /\ latched_data_in' = IF biu_state = \h3D THEN ad_in_int
                                 ELSE latched_data_in
<1>1. biu_state \in 0 .. 255 /\ pin \in Pins
  BY DEF TypeOK, SeqType
<1> USE <1>1 DEF Pins
<1>2. CASE StartRequest \/ FinishJump \/ StartPrefetch \/ StayIdle
  BY <1>2 DEF StartRequest, FinishJump, StartPrefetch, StayIdle, Idle
<1>3. CASE AwaitClk
  <2>1. CASE clk_rising
    <3>1. /\ biu_state = 1 /\ biu_state' = 2
          /\ pin' = [pin EXCEPT !.IOM = Not(S2(s_bits)), !.DTR = S1(s_bits)]
          /\ latched_data_in' = latched_data_in
      BY <1>3, <2>1 DEF AwaitClk, CountUp
    <3> QED
      BY <3>1
  <2>2. CASE ~clk_rising
    BY <1>3, <2>2 DEF AwaitClk
  <2> QED
    BY <2>1, <2>2
<1>4. CASE DriveAddress /\ DrivePins
  BY <1>4 DEF DrivePins, DriveAddress
<1>5. CASE DropAle /\ DrivePins
  <2>1. CASE S1(s_bits) = 1
    BY <1>5, <2>1 DEF DrivePins, DropAle
  <2>2. CASE S1(s_bits) # 1
    BY <1>5, <2>2 DEF DrivePins, DropAle
  <2> QED
    BY <2>1, <2>2
<1>6. CASE AssertStrobes /\ DrivePins
  <2>1. CASE s_bits = "inta"
    BY <1>6, <2>1 DEF DrivePins, AssertStrobes, S1
  <2>2. CASE s_bits # "inta"
    BY <1>6, <2>2 DEF DrivePins, AssertStrobes
  <2> QED
    BY <2>1, <2>2
<1>7. CASE EnableData /\ DrivePins
  BY <1>7 DEF DrivePins, EnableData
<1>8. CASE SampleReady \/ LatchData \/ EndQueueWrite \/ SteerData \/ EndDone
  BY <1>8 DEF SampleReady, LatchData, EndQueueWrite, SteerData, EndDone
<1>9. CASE EndCycle
  BY <1>9 DEF EndCycle
<1>10. CASE Count
  BY <1>10 DEF Count, DecodedStates
<1> QED
  BY <1>2, <1>3, <1>4, <1>5, <1>6, <1>7, <1>8, <1>9, <1>10
     DEF StateMachine, DrivePins

LEMMA StepFetchPath ==
    ASSUME TypeOK, Handshake, StatesOccur, CycleIsForRequest, FetchPath, CodeClock
    PROVE  FetchPath'
<1>1. /\ StateMachine /\ Board
      /\ CodeAt(\h3C, \h3C) => ad_in_int' = <<"mem", addr_out_temp>>
      /\ biu_state \in 0 .. 255 /\ biu_state' \in 0 .. 255
      /\ s_bits \in Status /\ pin \in Pins
  BY StepSeqType DEF CodeClock, BiuClock, Pipelines, TypeOK, SeqType
<1> USE <1>1
<1>2. (biu_state = 5)' => pin'.ALE = 1
  BY NextState, PinStep
<1>3. pin'.INTA_n = 0 => s_bits' = "inta" /\ InBusCycle'
  <2>1. CASE biu_state = \h19
    BY <2>1, NextState, PinStep DEF FetchPath, InBusCycle
  <2>2. CASE biu_state # \h19
    BY <2>2, NextState, PinStep DEF FetchPath, InBusCycle, StatesOccur
  <2> QED
    BY <2>1, <2>2
<1>4. ASSUME CodeAt(1, \h45)', biu_state' # 1
      PROVE  /\ CodeAt(1, \h44) /\ addr_out_temp' = addr_out_temp
             /\ \/ biu_state' = biu_state + 1
                \/ biu_state \in {\h19, \h2F} /\ biu_state' = \h1A
  BY <1>4, FetchGoesOn DEF StartPrefetch
<1>5. CodeAt(\h02, \h45)' => pin'.IOM = 0
  <2> SUFFICES ASSUME CodeAt(\h02, \h45)' PROVE pin'.IOM = 0
    OBVIOUS
  <2>1. CodeAt(1, \h44) /\ biu_state' # 1
    BY <1>4 DEF CodeAt
  <2> QED
    BY <2>1, PinStep DEF FetchPath, CodeAt, S2, Not
<1>6. CodeAt(\h05, \h3E)' => pin'.addr = addr_out_temp'
  BY <1>4, PinStep DEF FetchPath, CodeAt
<1>7. CodeAt(\h06, \h3E)' => cpuAddr' = addr_out_temp'
  <2> SUFFICES ASSUME CodeAt(\h06, \h3E)' PROVE cpuAddr' = addr_out_temp'
    OBVIOUS
  <2>1. /\ CodeAt(\h05, \h3E) /\ addr_out_temp' = addr_out_temp
        /\ biu_state = 5 \/ CodeAt(\h06, \h3E)
    BY <1>4 DEF CodeAt
  <2>2. pin.addr = addr_out_temp
    BY <2>1 DEF FetchPath
  <2>3. biu_state = 5 => pin.ALE = 1
    BY DEF FetchPath
  <2>4. CodeAt(\h06, \h3E) => cpuAddr = addr_out_temp
    BY DEF FetchPath
  <2> QED
    BY <2>1, <2>2, <2>3, <2>4 DEF Board
<1>8. CodeAt(\h1A, \h3E)' => pin'.RD_n = 0
  BY <1>4, PinStep DEF FetchPath, CodeAt, S1
<1>9. CodeAt(\h3D, \h3D)' => ad_in_int' = <<"mem", addr_out_temp'>>
  BY <1>4 DEF CodeAt
<1>10. CodeAt(\h3E, \h3E)' => latched_data_in' = <<"mem", addr_out_temp'>>
  BY <1>4, PinStep DEF FetchPath, CodeAt
<1> QED
  BY <1>2, <1>3, <1>5, <1>6, <1>7, <1>8, <1>9, <1>10 DEF FetchPath

-----------------------------------------------------------------------------
(* The bytes in the queue. *)

\* A byte in the queue is not in the slot that is written next.
LEMMA SlotsDiffer ==
    ASSUME NEW in \in Offset, NEW out \in Offset, NEW x \in Offset,
           Gap(in, out) <= 3, Gap(x, out) < Gap(in, out)
    PROVE  Slot(x) # Slot(in)
<1>1. AddrSpace \in Nat /\ AddrSpace % 4 = 0
  BY WidthAssumption
<1>2. \/ x + 1 = in \/ x + 2 = in \/ x + 3 = in
      \/ x + 1 = in + AddrSpace \/ x + 2 = in + AddrSpace
      \/ x + 3 = in + AddrSpace
  BY <1>1 DEF Gap, Offset
<1> QED
  BY <1>1, <1>2 DEF Slot, Offset

\* A byte is in the queue because it was, or because it is delivered now.
LEMMA WhoIsInQueue ==
    ASSUME NEW in \in Offset, NEW out \in Offset, NEW x \in Offset,
           NEW w \in {0, 1}, NEW out2 \in {out, IncOffset(out)},
           Gap(in, out) <= 4,
           w = 1 => Gap(in, out) <= 3, out2 # out => Gap(in, out) >= 1,
           Gap(x, out2) < Gap(in, out) + w - (IF out2 = out THEN 0 ELSE 1)
    PROVE  Gap(x, out) < Gap(in, out) \/ (w = 1 /\ x = in)
<1>1. AddrSpace \in Nat /\ AddrSpace >= 8
  BY WidthAssumption
<1> QED
  BY <1>1 DEF Gap, IncOffset, Offset

\* The request is held, and its code with it, while it is caught.
LEMMA JumpIsHeld ==
    ASSUME TypeOK, Handshake, CodeClock, JumpCaught, biu_done_int = 0
    PROVE  JumpCaught'
<1>1. EuStep /\ CaptureRequest
  BY DEF CodeClock, BiuClock
<1>2. cmd.req = 1 /\ biu_done_caught = 0
  BY DEF Handshake, Phase, JumpCaught
<1>3. cmd'.code = cmd.code
  BY <1>1, <1>2, RequestStep
<1> QED
  BY <1>1, <1>3 DEF CaptureRequest, JumpCaught

\* CS is as it was, and was clean, or a jump is flushing the queue.
LEMMA CsIsClean ==
    ASSUME TypeOK, CodeClock, ~cs_dirty', ~JumpCaught
    PROVE  ~cs_dirty /\ biu_register'["cs"] = biu_register["cs"]
<1>1. TrackCs /\ LoadSegment /\ biu_register \in [SegReg -> Offset]
  BY DEF CodeClock, BiuClock, TypeOK, PipeType
<1>2. ~cs_dirty /\ ~(cmd.strobe = "seg" /\ cmd.reg = "cs")
  BY <1>1 DEF TrackCs
<1> QED
  BY <1>1, <1>2 DEF LoadSegment, SegReg

LEMMA StepFetchIsNext ==
    ASSUME TypeOK, Handshake, StatesOccur, CycleIsForRequest, QueueBounded,
           QueueHasRoom, FetchIsNext, CodeClock
    PROVE  FetchIsNext'
<1> SUFFICES ASSUME Fetching', ~cs_dirty', ~JumpCaught'
             PROVE  addr_out_temp' = Phys(biu_register'["cs"], pfq_addr_in')
  BY DEF FetchIsNext
<1>1. CodeAt(1, \h45)'
  BY DEF Fetching, CodeAt
<1>2. pfq_write \in {0, 1} /\ biu_state \in 0 .. 255
  BY DEF TypeOK, SeqType, Bit
<1>3. CASE StartPrefetch
  <2>1. ~JumpCaught /\ pfq_write = 0
    BY <1>2, <1>3 DEF StartPrefetch, Idle, JumpCaught, QueueHasRoom
  <2>2. pfq_addr_in' = pfq_addr_in
    BY <2>1, OccupancyStep
  <2> QED
    BY <1>3, <2>1, <2>2, CsIsClean DEF StartPrefetch
<1>4. CASE ~StartPrefetch
  <2>1. /\ Fetching /\ biu_state # \h3E /\ biu_state # \h46
        /\ addr_out_temp' = addr_out_temp
    BY <1>1, <1>4, FetchGoesOn DEF Fetching, CodeAt
  <2>2. biu_done_int = 0 /\ pfq_write = 0
    BY <1>2, <2>1 DEF Handshake, Phase, QueueHasRoom
  <2>3. ~JumpCaught
    BY <2>2, JumpIsHeld
  <2>4. pfq_addr_in' = pfq_addr_in
    BY <2>2, <2>3, OccupancyStep
  <2> QED
    BY <2>1, <2>3, <2>4, CsIsClean DEF FetchIsNext
<1> QED
  BY <1>3, <1>4

LEMMA StepQueueHoldsCode ==
    ASSUME TypeOK, Handshake, StatesOccur, CycleIsForRequest, QueueBounded,
           QueueHasRoom, FetchPath, FetchIsNext, QueueHoldsCode, CodeClock
    PROVE  QueueHoldsCode'
<1> SUFFICES ASSUME ~cs_dirty', NEW x \in Offset, InQueue(x)'
             PROVE  pfq_entry'[Slot(x)] = CodeByte(x)'
  BY DEF QueueHoldsCode
<1>1. /\ pfq_addr_in \in Offset /\ pfq_addr_out \in Offset
      /\ pfq_addr_out' \in Offset /\ pfq_write \in {0, 1}
      /\ pfq_entry \in [0 .. 3 -> Byte] /\ Occupancy \in 0 .. 4
      /\ pfq_write = 1 => Occupancy <= 3
  BY StepQueueType, Flags
     DEF TypeOK, QueueType, SeqType, Bit, QueueHasRoom, Fetching
<1>2. Queue
  BY DEF CodeClock, BiuClock
<1>3. Slot(x) \in 0 .. 3 /\ Slot(pfq_addr_in) \in 0 .. 3
  BY <1>1, WidthAssumption DEF Slot, Offset
<1>4. Gap(x, pfq_addr_out') < Occupancy'
  BY DEF InQueue
<1>5. ~JumpCaught
  <2>1. Gap(x, pfq_addr_out') \in Nat
    BY <1>1, GapIsOffset, WidthAssumption DEF Offset
  <2>2. Occupancy' # 0
    BY <1>4, <2>1
  <2> QED
    BY <2>2, OccupancyStep
<1>6. ~cs_dirty /\ CodeByte(x)' = CodeByte(x)
  BY <1>5, CsIsClean DEF CodeByte
<1>7. Gap(x, pfq_addr_out) < Occupancy \/ (pfq_write = 1 /\ x = pfq_addr_in)
  <2>1. /\ pfq_addr_out' \in {pfq_addr_out, IncOffset(pfq_addr_out)}
        /\ pfq_addr_out' # pfq_addr_out => Occupancy >= 1
        /\ Occupancy' = Occupancy + pfq_write
             - (IF cmd.strobe = "fetch" /\ Occupancy >= 1 THEN 1 ELSE 0)
        /\ pfq_addr_out' = IF cmd.strobe = "fetch" /\ Occupancy >= 1
                           THEN IncOffset(pfq_addr_out) ELSE pfq_addr_out
    BY <1>5, OccupancyStep
  <2>2. IncOffset(pfq_addr_out) # pfq_addr_out
    BY <1>1, WidthAssumption DEF IncOffset, Offset
  <2>3. Occupancy' = Occupancy + pfq_write
                       - (IF pfq_addr_out' = pfq_addr_out THEN 0 ELSE 1)
    BY <2>1, <2>2
  <2> QED
    BY <1>1, <1>4, <2>1, <2>3, WhoIsInQueue DEF Occupancy
<1>8. CASE pfq_write = 1 /\ x = pfq_addr_in
  <2>1. CodeAt(\h3E, \h3E) /\ Fetching
    BY <1>8 DEF QueueHasRoom, CodeAt, Fetching
  <2>2. latched_data_in = CodeByte(x)
    BY <1>5, <1>6, <1>8, <2>1 DEF FetchPath, FetchIsNext, CodeByte
  <2> QED
    BY <1>1, <1>2, <1>3, <1>6, <1>8, <2>2 DEF Queue
<1>9. CASE Gap(x, pfq_addr_out) < Occupancy
  <2>1. pfq_entry[Slot(x)] = CodeByte(x)
    BY <1>6, <1>9 DEF QueueHoldsCode, InQueue
  <2>2. pfq_write = 1 => Slot(x) # Slot(pfq_addr_in)
    BY <1>1, <1>9, SlotsDiffer DEF Occupancy
  <2>3. pfq_entry' =
          IF pfq_write = 1
          THEN [pfq_entry EXCEPT ![Slot(pfq_addr_in)] = latched_data_in]
          ELSE pfq_entry
    BY <1>2 DEF Queue
  <2>4. pfq_entry'[Slot(x)] = pfq_entry[Slot(x)]
    BY <1>1, <1>3, <2>2, <2>3
  <2> QED
    BY <1>6, <2>1, <2>4
<1> QED
  BY <1>7, <1>8, <1>9

-----------------------------------------------------------------------------
(* What the EU has polled for. *)

\* What may not be going on while a polled byte is in use.
Steady == /\ cmd.strobe # "fetch" /\ ~(cmd.strobe = "seg" /\ cmd.reg = "cs")
          /\ ~(cmd.req = 1 /\ cmd.code = "JUMP")

LEMMA PolledStep ==
    ASSUME TypeOK, EuIsTidy, EuStep, polled' = 1
    PROVE  Steady /\ Steady' /\ (polled = 1 \/ (~pfq_empty /\ ~cs_dirty))
<1> USE DEF TypeOK, EuType, Command, Bit, EuIsTidy, Steady
<1>1. CASE EuOther
  BY <1>1 DEF EuOther
<1>2. CASE EuPoll
  BY <1>2 DEF EuPoll, cmdVars
<1>3. CASE EuPop
  BY <1>3 DEF EuPop
<1>4. CASE EuLoadSegment
  BY <1>4 DEF EuLoadSegment
<1>5. CASE EuRequest
  BY <1>5 DEF EuRequest
<1>6. CASE EuRelease
  BY <1>6 DEF EuRelease
<1> QED
  BY <1>1, <1>2, <1>3, <1>4, <1>5, <1>6 DEF EuStep

LEMMA StepEuIsTidy ==
    ASSUME TypeOK, Handshake, QueueBounded, QueueHasRoom, EuIsTidy, CodeClock
    PROVE  EuIsTidy'
<1>1. EuStep /\ TrackCs /\ Queue
      /\ pfq_top_byte_int_d1' = pfq_entry[Slot(pfq_addr_out)]
      /\ pfq_addr_out_d1' = pfq_addr_out
  BY DEF CodeClock, BiuClock, Pipelines, pfq_top_byte_int
<1>2. /\ cmd'.strobe = "fetch" => polled' = 0
      /\ cmd'.strobe = "seg" /\ cmd'.reg = "cs" => polled' = 0
      /\ cmd'.req = 1 /\ cmd'.code = "JUMP" => polled' = 0
  <2>1. polled' \in {0, 1}
    BY StepEuType DEF EuType, Bit
  <2> QED
    BY <1>1, <2>1, PolledStep DEF Steady
<1>3. ASSUME polled' = 1
      PROVE  /\ ~cs_dirty' /\ Occupancy' >= 1
             /\ pfq_top_byte_int_d1' = pfq_entry'[Slot(pfq_addr_out')]
             /\ pfq_addr_out_d1' = pfq_addr_out'
  <2>1. Steady /\ (polled = 1 \/ (~pfq_empty /\ ~cs_dirty))
    BY <1>1, <1>3, PolledStep
  <2>2. /\ pfq_addr_in \in Offset /\ pfq_addr_out \in Offset
        /\ pfq_write \in {0, 1} /\ pfq_entry \in [0 .. 3 -> Byte]
        /\ Occupancy \in 0 .. 4 /\ (pfq_empty <=> Occupancy = 0)
        /\ pfq_write = 1 => Occupancy <= 3
    BY Flags DEF TypeOK, QueueType, SeqType, Bit, QueueHasRoom, Fetching
  <2>3. Occupancy >= 1 /\ ~cs_dirty
    BY <2>1, <2>2 DEF EuIsTidy
  <2>4. ~JumpCaught
    BY <2>1 DEF Handshake, Phase, JumpCaught, Steady
  <2>5. pfq_addr_out' = pfq_addr_out /\ Occupancy' >= 1
    BY <2>1, <2>2, <2>3, <2>4, OccupancyStep DEF Steady
  <2>6. ~cs_dirty'
    BY <1>1, <2>1, <2>3, <2>4 DEF TrackCs, Steady
  <2>7. pfq_write = 1 => Slot(pfq_addr_out) # Slot(pfq_addr_in)
    <3>1. Gap(pfq_addr_out, pfq_addr_out) = 0
      BY <2>2, WidthAssumption DEF Gap, Offset
    <3> QED
      BY <2>2, <2>3, <3>1, SlotsDiffer DEF Occupancy
  <2>8. Slot(pfq_addr_out) \in 0 .. 3 /\ Slot(pfq_addr_in) \in 0 .. 3
    BY <2>2, WidthAssumption DEF Slot, Offset
  <2>9. pfq_entry' =
          IF pfq_write = 1
          THEN [pfq_entry EXCEPT ![Slot(pfq_addr_in)] = latched_data_in]
          ELSE pfq_entry
    BY <1>1 DEF Queue
  <2>10. pfq_entry'[Slot(pfq_addr_out)] = pfq_entry[Slot(pfq_addr_out)]
    BY <2>2, <2>7, <2>8, <2>9
  <2> QED
    BY <1>1, <2>1, <2>5, <2>6, <2>10
<1> QED
  BY <1>2, <1>3 DEF EuIsTidy

-----------------------------------------------------------------------------
(* The inductive invariant and what follows from it. *)

LEMMA InitIInv == Init => IInv
<1> SUFFICES ASSUME Init PROVE IInv
  OBVIOUS
<1>1. TypeOK
  BY InitTypeOK
<1>2. Handshake
  BY DEF Init, BiuInit, Handshake, Phase
<1>3. StatesOccur /\ CycleIsForRequest /\ QueueHasRoom /\ FetchPath
      /\ FetchIsNext
  BY DEF Init, BiuInit, StatesOccur, CycleIsForRequest, InBusCycle,
         QueueHasRoom, Fetching, FetchPath, FetchIsNext, CodeAt
<1>4. QueueBounded
  BY WidthAssumption DEF Init, BiuInit, QueueBounded, Occupancy, Gap
<1>5. QueueHoldsCode /\ EuIsTidy
  BY DEF Init, BiuInit, QueueHoldsCode, EuIsTidy
<1> QED
  BY <1>1, <1>2, <1>3, <1>4, <1>5 DEF IInv

LEMMA StepIInv == IInv /\ CodeClock => IInv'
<1> SUFFICES ASSUME IInv, CodeClock PROVE IInv'
  OBVIOUS
<1> USE DEF IInv
<1>1. TypeOK'
  BY StepEuType, StepBoardType, StepQueueType, StepPipeType, StepSeqType
     DEF TypeOK
<1>2. Handshake' /\ CycleIsForRequest'
  BY StepHandshake, StepCycleIsForRequest
<1>3. StatesOccur'
  BY NextState DEF CodeClock, BiuClock
<1>4. QueueBounded' /\ QueueHasRoom'
  BY StepQueueRoom
<1>5. FetchPath' /\ FetchIsNext'
  BY StepFetchPath, StepFetchIsNext
<1>6. QueueHoldsCode'
  BY StepQueueHoldsCode
<1>7. EuIsTidy'
  BY StepEuIsTidy
<1> QED
  BY <1>1, <1>2, <1>3, <1>4, <1>5, <1>6, <1>7

\* The board of BiuSystem has the byte of a code fetch on AD_IN.
LEMMA NextIsCodeClock == IInv /\ Next => CodeClock
<1> SUFFICES ASSUME IInv, Next PROVE CodeClock
  OBVIOUS
<1>1. PICK ready \in ReadyLevels : BiuClock(CLK, ready, AD_IN)
  BY DEF Next
<1>2. ready \in Bit /\ AD_IN \in Byte
  BY InputAssumption, AdInIsByte DEF IInv
<1>3. CodeAt(\h3C, \h3C) => AD_IN = <<"mem", addr_out_temp>>
  <2> SUFFICES ASSUME CodeAt(\h3C, \h3C) PROVE AD_IN = <<"mem", addr_out_temp>>
    OBVIOUS
  <2>1. pin.RD_n = 0 /\ cpuAddr = addr_out_temp /\ pin.IOM = 0
    BY DEF IInv, FetchPath, CodeAt
  <2>2. pin.INTA_n # 0
    BY DEF IInv, FetchPath, CodeAt
  <2> QED
    BY <2>1, <2>2 DEF AD_IN
<1> QED
  BY <1>1, <1>2, <1>3 DEF Next, CodeClock

LEMMA StutterIInv == IInv /\ UNCHANGED vars => IInv'
BY DEF vars, euVars, cmdVars, biuVars, pfqVars, pipeVars, seqVars, IInv,
       TypeOK, EuType, BoardType, QueueType, PipeType, SeqType,
       Handshake, Phase, StatesOccur, InBusCycle, CycleIsForRequest,
       QueueBounded, Occupancy, QueueHasRoom, Fetching, FetchPath, CodeAt,
       FetchIsNext, JumpCaught, QueueHoldsCode, InQueue, CodeByte, EuIsTidy

\* IInv holds in every state the machine reaches.
THEOREM Invariance == Spec => []IInv
<1>1. Init => IInv
  BY InitIInv
<1>2. IInv /\ [Next]_vars => IInv'
  BY NextIsCodeClock, StepIInv, StutterIInv
<1> QED
  BY <1>1, <1>2, PTL DEF Spec

\* Every register of the BIU, and everything around it, keeps to its width.
THEOREM TypeCorrect == Spec => []TypeOK
<1>1. IInv => TypeOK
  BY DEF IInv
<1> QED
  BY <1>1, Invariance, PTL

\* The prefetch queue never holds more than its four bytes (pfq_addr_in,
\* pfq_addr_out), for every program, clock and device.
THEOREM QueueNeverOverflows == Spec => []QueueBounded
<1>1. IInv => QueueBounded
  BY DEF IInv
<1> QED
  BY <1>1, Invariance, PTL

\* No byte fetched for the old CS:IP survives a jump in the queue.
THEOREM QueueIsFresh == Spec => []QueueHoldsCode
<1>1. IInv => QueueHoldsCode
  BY DEF IInv
<1> QED
  BY <1>1, Invariance, PTL

\* The microcode that has seen PFQ_EMPTY low uses the right PFQ_TOP_BYTE and
\* PFQ_ADDR_OUT, delayed copies both, until it pops the byte or jumps.
THEOREM PolledByteIsFresh == Spec => []PolledByteIsCode
<1>1. IInv => PolledByteIsCode
  <2> SUFFICES ASSUME IInv, polled = 1
               PROVE  /\ pfq_top_byte_int_d1 = CodeByte(pfq_addr_out)
                      /\ pfq_addr_out_d1 = pfq_addr_out
    BY DEF PolledByteIsCode
  <2>1. /\ ~cs_dirty /\ Occupancy >= 1 /\ pfq_addr_out_d1 = pfq_addr_out
        /\ pfq_top_byte_int_d1 = pfq_entry[Slot(pfq_addr_out)]
        /\ pfq_addr_out \in Offset /\ Occupancy \in 0 .. 4
    BY Flags DEF IInv, EuIsTidy, TypeOK, QueueType
  <2>2. InQueue(pfq_addr_out)
    <3>1. Gap(pfq_addr_out, pfq_addr_out) = 0
      BY <2>1, WidthAssumption DEF Gap, Offset
    <3> QED
      BY <2>1, <3>1 DEF InQueue
  <2> QED
    BY <2>1, <2>2 DEF IInv, QueueHoldsCode
<1> QED
  BY <1>1, Invariance, PTL

\* biu_done_int pulses for the request the EU is holding and for no other.
THEOREM DoneIsExpected == Spec => []DoneIsForPending
<1>1. IInv => DoneIsForPending
  BY DEF IInv, Handshake, Phase, DoneIsForPending
<1> QED
  BY <1>1, Invariance, PTL

\* biu_done_caught of one request is gone before the BIU catches the next.
THEOREM DoneIsNotStale == Spec => []NoStaleDone
<1>1. IInv => NoStaleDone
  BY DEF IInv, Handshake, Phase, NoStaleDone
<1> QED
  BY <1>1, Invariance, PTL
=============================================================================
