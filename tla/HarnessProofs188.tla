-------------------------- MODULE HarnessProofs188 --------------------------
(***************************************************************************)
(* The handshakes of the V188, for every program, every board of           *)
(* Harness188 and any time it keeps the core waiting.  What the microcode  *)
(* does is hidden: the proof rests on what each step of the core does to   *)
(* its state and its toggles.  The second half is the division, for all    *)
(* operands: the arithmetic of one phase of the divider, and that nothing  *)
(* the core does disturbs it.                                              *)
(***************************************************************************)
EXTENDS Harness188, Remainders, TLAPS

AccessStates == ReadStates \cup WriteStates
PortStates   == {"READ_IO", "READ_IO2", "WRITE_IO", "WRITE_IO2"}

\* What a falling edge does to the state and the toggles: it asks for nothing,
\* or for one access when none is under way, or it goes on with the access
\* under way.
AsksNothing == Idle /\ strobe' = strobe /\ state' \notin ReadStates
AsksFor(line) == Idle /\ strobe' = Flip(line) /\ state' \in StatesOf(line)
GoesOn ==
    /\ strobe' = strobe
    /\ \/ state' = state /\ (state \in ReadStates => pin.ready = 0)
       \/ state = "READ_IO" /\ state' = "READ_IO2"
       \/ state = "WRITE_IO" /\ state' = "WRITE_IO2"
Outcome == AsksNothing \/ (\E line \in Toggles : AsksFor(line)) \/ GoesOn

\* The states of the four kinds of access are different, and not those in
\* which micro-operations are done.
LEMMA StatesDiffer ==
    /\ StatesOf("mrd") = ReadStates /\ StatesOf("mwr") = WriteStates
    /\ StatesOf("prd") = {"READ_IO", "READ_IO2"}
    /\ StatesOf("pwr") = {"WRITE_IO", "WRITE_IO2"}
    /\ ReadStates \cap WriteStates = {} /\ AccessStates \cap PortStates = {}
    /\ \A line \in Toggles : {"FETCH", "EXECUTE", "DIV", "MODRM_DECODE"} \cap StatesOf(line) = {}
  <1>1. /\ StatesOf("mrd") = ReadStates /\ StatesOf("mwr") = WriteStates
        /\ StatesOf("prd") = {"READ_IO", "READ_IO2"}
        /\ StatesOf("pwr") = {"WRITE_IO", "WRITE_IO2"}
    BY DEF StatesOf
  <1>2. ReadStates \cap WriteStates = {} /\ AccessStates \cap PortStates = {}
    BY DEF ReadStates, WriteStates, CodeStates, AccessStates, PortStates
  <1>3. \A line \in Toggles : {"FETCH", "EXECUTE", "DIV", "MODRM_DECODE"} \cap StatesOf(line) = {}
    BY <1>1 DEF Toggles, ReadStates, WriteStates, CodeStates
  <1> QED BY <1>1, <1>2, <1>3

\* No access is under way between micro-operations, and none when memory has
\* answered.
LEMMA IdleStates ==
    ASSUME AccessInv,
           \/ state \in {"FETCH", "EXECUTE", "DIV", "MODRM_DECODE"}
           \/ clk = 1 /\ pin.ready = 1 /\ state \in AccessStates
    PROVE  Idle
  BY StatesDiffer DEF AccessInv, Idle, AccessStates

\* The table of the micro-operations that begin an access is consistent.
LEMMA AccessTable ==
    ASSUME NEW op \in DOMAIN Access
    PROVE  Access[op][1] \in Toggles /\ Access[op][2] \in StatesOf(Access[op][1])
  <1>1. op \in {"read8", "read16", "load_e8", "load_e16", "write8", "write16", "push",
                "pop", "fetch8", "fetch8s", "fetch16", "modrm", "endprefix",
                "readio8", "writeio8"}
    BY DEF Access
  <1>2. Access[op] \in {<<"mrd", "READ">>, <<"mwr", "WRITE">>, <<"mwr", "PUSH">>,
                        <<"mrd", "POP">>, <<"mrd", "FETCH_D8">>, <<"mrd", "MODRM">>,
                        <<"mrd", "OPCODE">>, <<"prd", "READ_IO">>, <<"pwr", "WRITE_IO">>}
    BY <1>1 DEF Access
  <1> QED
    BY <1>2, StatesDiffer DEF Toggles, ReadStates, WriteStates, CodeStates

-----------------------------------------------------------------------------
(* The falling edge. *)

LEMMA FetchOutcome ==
    ASSUME AccessInv, Fetch PROVE Outcome
  <1>1. Idle /\ "FETCH" \notin ReadStates /\ "EXECUTE" \notin ReadStates
    BY IdleStates, StatesDiffer
       DEF Fetch, FetchJump, FetchEnd, TakeInterrupt, Enter, FetchAccess, FetchLoad, FetchStore,
           FetchLatch, FetchSlow, Fetching, Toggles
  <1>2. CASE FetchEnd
    <2>1. AsksFor("mrd")
      BY <1>1, <1>2, StatesDiffer DEF FetchEnd, Step, AsksFor, ReadStates, CodeStates
    <2> QED BY <2>1 DEF Outcome, Toggles
  <1>3. CASE FetchAccess
    <2>1. u.op \in DOMAIN Access /\ state' = Access[u.op][2] /\ strobe' = Flip(Access[u.op][1])
      BY <1>3 DEF FetchAccess, Fetching, Step
    <2> QED BY <1>1, <2>1, AccessTable DEF AsksFor, Outcome
  <1>4. CASE FetchJump \/ (\E k \in Lines : TakeInterrupt(k)) \/ FetchLoad \/ FetchStore \/ FetchLatch
             \/ FetchSlow
    <2>1. state' \in {"FETCH", "EXECUTE"} /\ strobe' = strobe
      BY <1>4 DEF FetchJump, TakeInterrupt, Enter, FetchLoad, FetchStore, FetchLatch, FetchSlow, Step
    <2> QED BY <1>1, <2>1 DEF AsksNothing, Outcome
  <1> QED BY <1>2, <1>3, <1>4 DEF Fetch

LEMMA ExecuteOutcome ==
    ASSUME AccessInv, Execute PROVE Outcome
  <1>1. Idle /\ "FETCH" \notin ReadStates /\ "DIV" \notin ReadStates
    BY IdleStates, StatesDiffer
       DEF Execute, ExecuteReset, ExecuteAlu, ExecuteDivide, ExecuteStoreE, ExecuteJump,
           ExecuteMove, Executing, Toggles
  <1>2. CASE ExecuteReset
    <2>1. AsksFor("mrd")
      BY <1>1, <1>2, StatesDiffer DEF ExecuteReset, Step, AsksFor, ReadStates, CodeStates
    <2> QED BY <2>1 DEF Outcome, Toggles
  <1>3. CASE ExecuteStoreE
    <2>1. \/ state' = "FETCH" /\ strobe' = strobe
          \/ state' = "WRITE" /\ strobe' = Flip("mwr")
      BY <1>3 DEF ExecuteStoreE, Step
    <2>2. "mwr" \in Toggles /\ "WRITE" \in StatesOf("mwr")
      BY StatesDiffer DEF Toggles, WriteStates
    <2> QED BY <1>1, <2>1, <2>2 DEF AsksFor, AsksNothing, Outcome
  <1>4. CASE ExecuteAlu \/ ExecuteDivide \/ ExecuteJump \/ ExecuteMove
    <2>1. state' \in {"FETCH", "DIV"} /\ strobe' = strobe
      BY <1>4 DEF ExecuteAlu, ExecuteDivide, ExecuteJump, ExecuteMove, Step
    <2> QED BY <1>1, <2>1 DEF AsksNothing, Outcome
  <1> QED BY <1>2, <1>3, <1>4 DEF Execute

\* What the states that take or give a byte do: each has its answer.
LEMMA ByteOutcome ==
    ASSUME AccessInv, clk = 1, CodeByte \/ DataByte \/ Divided PROVE Outcome
  <1>1. /\ "FETCH" \notin ReadStates /\ "MODRM_DECODE" \notin ReadStates
        /\ "mrd" \in Toggles /\ "mwr" \in Toggles
    BY StatesDiffer DEF Toggles
  <1>2. Idle
    BY IdleStates
       DEF CodeByte, DataByte, Divided, OpcodeByte, ModrmByte, ModrmDecode, ModrmD8, ModrmD16,
           ModrmD16High, FetchD8, FetchD16, Read, ReadHigh, Write, Written, Push, Pop_, PopHigh,
           Ready, AccessStates, ReadStates, WriteStates, CodeStates
  <1>3. \/ state' \in {"FETCH", "MODRM_DECODE"} /\ strobe' = strobe
        \/ state' \in ReadStates /\ strobe' = Flip("mrd")
        \/ state' \in WriteStates /\ strobe' = Flip("mwr")
    <2>1. CASE OpcodeByte \/ ModrmByte \/ ModrmD8 \/ ModrmD16High \/ FetchD16 \/ ReadHigh \/ Written
               \/ PopHigh \/ Divided
      BY <2>1 DEF OpcodeByte, ModrmByte, ModrmD8, ModrmD16High, FetchD16, ReadHigh, Written,
                  PopHigh, Divided, BusStep, Step
    <2>2. CASE ModrmD16 \/ FetchD8 \/ Read \/ Pop_
      BY <2>2 DEF ModrmD16, FetchD8, Read, Pop_, BusStep, Step, ReadStates, CodeStates
    <2>3. CASE Write \/ Push
      BY <2>3 DEF Write, Push, BusStep, Step, WriteStates
    <2>4. CASE ModrmDecode
      BY <2>4 DEF ModrmDecode, BusStep, Step, ReadStates, CodeStates
    <2> QED BY <2>1, <2>2, <2>3, <2>4 DEF CodeByte, DataByte
  <1> QED BY <1>1, <1>2, <1>3, StatesDiffer DEF AsksNothing, AsksFor, Outcome

LEMMA PortOutcome ==
    ASSUME AccessInv, PortByte \/ Wait PROVE Outcome
  <1>1. CASE ReadIo2 \/ WriteIo2
    <2>1. /\ state \in {"READ_IO2", "WRITE_IO2"} /\ state' = "FETCH" /\ strobe' = strobe
          /\ state = "READ_IO2" => strobe.prd = pin.prd
          /\ state = "WRITE_IO2" => strobe.pwr = pin.pwr
      BY <1>1 DEF ReadIo2, WriteIo2, BusStep, Step
    <2>2. Idle
      BY <2>1, StatesDiffer DEF AccessInv, Idle, Asked, Toggles, AccessStates, PortStates
    <2> QED BY <2>1, <2>2, StatesDiffer DEF AsksNothing, Outcome, Toggles
  <1>2. CASE ReadIo \/ WriteIo
    BY <1>2 DEF ReadIo, WriteIo, BusStep, Step, GoesOn, Outcome
  <1>3. CASE Wait
    <2>1. state' = state /\ strobe' = strobe
      BY <1>3 DEF Wait, coreVars
    <2>2. state \in ReadStates => pin.ready = 0
      BY <1>3, StatesDiffer DEF Wait, AccessStates, PortStates, Toggles
    <2> QED BY <2>1, <2>2 DEF GoesOn, Outcome
  <1> QED BY <1>1, <1>2, <1>3 DEF PortByte

LEMMA FallOutcome ==
    ASSUME AccessInv, Fall PROVE Outcome
  <1>1. CASE pin.reset = 1
    BY <1>1, FetchOutcome, ExecuteOutcome, ByteOutcome, PortOutcome DEF Fall, Clock, InReset
  <1>2. CASE pin.reset # 1
    BY <1>2, StatesDiffer DEF Fall, Clock, InReset, AccessInv, Outcome, AsksNothing, Toggles
  <1> QED BY <1>1, <1>2

-----------------------------------------------------------------------------
(* Each step keeps AccessInv. *)

LEMMA InitialAccess == Init => AccessInv
  <1> SUFFICES ASSUME Init PROVE AccessInv
    OBVIOUS
  <1>1. /\ strobe = [mrd |-> 0, mwr |-> 0, prd |-> 0, pwr |-> 0] /\ state = "EXECUTE"
        /\ clk = 0 /\ i = 0 /\ pin.reset = 0 /\ pin.ready = 0 /\ pin.prd = 0 /\ pin.pwr = 0
        /\ DOMAIN pin = {"reset", "ready", "din", "iodin", "prd", "pwr", "irq"}
    BY DEF Init, CoreInit
  <1>2. DOMAIN strobe = Toggles /\ strobe \in [Toggles -> {0, 1}]
    BY <1>1 DEF Toggles
  <1>3. seen = [line \in Toggles |-> 0]
    BY <1>2 DEF Init, state_t
  <1>4. Idle
    BY <1>1, <1>3 DEF Idle, Asked, Toggles
  <1>5. Wires
    BY <1>1, <1>2, <1>3 DEF Wires, RunAt
  <1>6. state \notin AccessStates
    BY <1>1 DEF AccessStates, ReadStates, WriteStates, CodeStates
  <1> QED
    BY <1>1, <1>3, <1>4, <1>5, <1>6 DEF AccessInv, Idle, ByteIsAnswered, AccessStates, Toggles

\* What a rising edge leaves alone.
LEMMA RiseFrame ==
    ASSUME AccessInv, Rise
    PROVE  /\ state' = state /\ strobe' = strobe /\ a' = a /\ clk = 0 /\ clk' = 1
           /\ i' \in 0 .. RunAt /\ (i = RunAt => i' = RunAt)
           /\ DOMAIN pin' = DOMAIN pin
  <1>1. UNCHANGED <<state, strobe, a>>
    BY DEF Rise, coreVars, a
  <1>2. i' \in 0 .. RunAt /\ (i = RunAt => i' = RunAt)
    BY DEF Rise, AccessInv, Wires, RunAt
  <1> QED BY <1>1, <1>2 DEF Rise, Serve, Delay

LEMMA ServeKeeps ==
    ASSUME AccessInv, Rise, Serve PROVE AccessInv'
  <1>1. /\ seen' = strobe /\ pin'.ready = 1
        /\ pin'.reset = IF i >= RunAt THEN 1 ELSE 0
        /\ pin'.prd = (IF Asked("prd") THEN strobe.prd ELSE pin.prd)
        /\ pin'.pwr = (IF Asked("pwr") THEN strobe.pwr ELSE pin.pwr)
        /\ pin'.din = (IF Asked("mrd") THEN Peek(memory, a) ELSE pin.din)
    BY DEF Serve, AccessInv, Wires
  <1>2. Idle' /\ Wires'
    BY <1>1, RiseFrame DEF Idle, Asked, Wires, AccessInv
  <1>3. pin'.prd = seen'.prd /\ pin'.pwr = seen'.pwr
    BY <1>1 DEF Asked, AccessInv
  <1>4. IF pin'.reset = 1 THEN i' = RunAt ELSE state' = "EXECUTE"
    BY <1>1, RiseFrame DEF AccessInv, Wires, RunAt
  <1>5. ASSUME state \in ReadStates PROVE pin'.din = Peek(memory', a')
    <2>1. Asked("mrd") /\ ~Asked("mwr")
      BY <1>5, RiseFrame, StatesDiffer DEF AccessInv, Toggles
    <2> QED BY <2>1, <1>1, RiseFrame DEF Serve
  <1> QED
    BY <1>1, <1>2, <1>3, <1>4, <1>5, RiseFrame
       DEF AccessInv, ByteIsAnswered, Idle, Toggles

LEMMA DelayKeeps ==
    ASSUME AccessInv, Rise, Delay PROVE AccessInv'
  <1>1. /\ seen' = seen /\ memory' = memory /\ pin'.reset = pin.reset
        /\ pin'.prd = pin.prd /\ pin'.pwr = pin.pwr /\ pin'.ready \in {0, 1}
        /\ pin'.ready = 1 => ~Asked("mrd") /\ ~Asked("mwr")
    BY DEF Delay, AccessInv, Wires
  <1>2. Wires' /\ \A line \in Toggles : Asked(line)' = Asked(line)
    BY <1>1, RiseFrame DEF Wires, AccessInv, Asked
  <1>3. ~Idle
    BY DEF Delay, Idle, AccessInv, Wires
  <1>4. pin.reset = 1 /\ i = RunAt
    BY <1>3 DEF AccessInv
  <1>5. ASSUME state \in AccessStates, pin'.ready = 1 PROVE FALSE
    BY <1>1, <1>3, <1>5, RiseFrame, StatesDiffer
       DEF AccessInv, Idle, Toggles, AccessStates, PortStates
  <1>6. state \in ReadStates => Asked("mrd")
    BY RiseFrame DEF AccessInv
  <1> QED
    BY <1>1, <1>2, <1>4, <1>5, <1>6, RiseFrame
       DEF AccessInv, ByteIsAnswered, AccessStates, Toggles

LEMMA FallKeeps ==
    ASSUME AccessInv, Fall PROVE AccessInv'
  <1>1. /\ clk' = 0 /\ seen' = seen /\ pin' = pin
        /\ i' \in 0 .. RunAt /\ (i = RunAt => i' = RunAt)
    BY DEF Fall, AccessInv, Wires, RunAt
  <1>2. strobe \in [Toggles -> {0, 1}]
    BY DEF AccessInv, Wires
  <1>3. pin.reset # 1 => Idle /\ state' = "EXECUTE" /\ strobe' = strobe
    BY DEF Fall, Clock, InReset, AccessInv
  <1>4. pin'.prd = seen'.prd /\ pin'.pwr = seen'.pwr /\ ByteIsAnswered'
    BY <1>1 DEF AccessInv, ByteIsAnswered
  <1>5. CASE AsksNothing
    <2>1. Idle' /\ Wires'
      BY <1>1, <1>5 DEF AsksNothing, Idle, Asked, Wires, AccessInv
    <2> QED BY <1>1, <1>3, <1>4, <1>5, <2>1 DEF AsksNothing, AccessInv, Idle, Toggles
  <1>6. CASE \E line \in Toggles : AsksFor(line)
    <2>1. PICK line \in Toggles : AsksFor(line)
      BY <1>6
    <2>2. strobe' \in [Toggles -> {0, 1}] /\ strobe'[line] # strobe[line]
          /\ \A other \in Toggles \ {line} : strobe'[other] = strobe[other]
      BY <1>2, <2>1 DEF AsksFor, Flip
    <2>3. Asked(line)' /\ \A other \in Toggles \ {line} : ~Asked(other)'
      BY <1>1, <2>1, <2>2 DEF AsksFor, Idle, Asked
    <2>4. state' \in ReadStates => line = "mrd"
      BY <2>1, StatesDiffer DEF AsksFor, Toggles, AccessStates, PortStates
    <2>5. pin.reset = 1
      BY <1>3, <2>2
    <2> QED
      BY <1>1, <1>2, <1>4, <2>1, <2>2, <2>3, <2>4, <2>5 DEF AsksFor, AccessInv, Wires
  <1>7. CASE GoesOn
    <2>1. Wires' /\ \A line \in Toggles : Asked(line)' = Asked(line)
      BY <1>1, <1>7 DEF GoesOn, Wires, AccessInv, Asked
    <2>2. \A line \in Toggles : state \in StatesOf(line) => state' \in StatesOf(line)
      BY <1>7, StatesDiffer DEF GoesOn, Toggles, AccessStates, PortStates
    <2>3. state' \in ReadStates => Asked("mrd")
      BY <1>7, StatesDiffer DEF GoesOn, AccessInv, AccessStates, PortStates
    <2> QED
      BY <1>1, <1>3, <1>4, <2>1, <2>2, <2>3 DEF AccessInv, Idle, Toggles
  <1> QED BY <1>5, <1>6, <1>7, FallOutcome DEF Outcome

LEMMA RaiseKeeps ==
    ASSUME AccessInv, NEW k \in IrqLines, Raise(k) PROVE AccessInv'
  <1>1. /\ UNCHANGED <<state, strobe, a, clk, i, seen, memory>>
        /\ pin'.reset = pin.reset /\ pin'.ready = pin.ready /\ pin'.din = pin.din
        /\ pin'.prd = pin.prd /\ pin'.pwr = pin.pwr /\ DOMAIN pin' = DOMAIN pin
    BY DEF Raise, coreVars, a, AccessInv, Wires
  <1> QED BY <1>1 DEF AccessInv, Wires, Idle, Asked, ByteIsAnswered

LEMMA NextKeeps == AccessInv /\ [Next]_vars => AccessInv'
  <1>1. CASE UNCHANGED vars
    BY <1>1 DEF vars, coreVars, boardVars, a, AccessInv, Wires, Idle, Asked, ByteIsAnswered
  <1>2. ASSUME AccessInv, Rise PROVE AccessInv'
    BY <1>2, ServeKeeps, DelayKeeps DEF Rise
  <1> QED BY <1>1, <1>2, FallKeeps, RaiseKeeps DEF Next

-----------------------------------------------------------------------------

\* An access is under way in its own states and no others, and until its rising
\* edge: the strengthening from which the next two follow.
THEOREM AccessesAreConsistent == Spec => []AccessInv
  BY InitialAccess, NextKeeps, PTL DEF Spec

\* The byte that the core takes is the one at the address on its pins.
THEOREM BytesAreAnswered == Spec => []ByteIsAnswered
  <1>1. AccessInv => ByteIsAnswered
    BY DEF AccessInv
  <1> QED BY <1>1, AccessesAreConsistent, PTL

\* No toggle is flipped while an access is under way, of any of the four kinds.
THEOREM AccessesAreNotLost == Spec => NoAccessIsLost
  <1> DEFINE Kept == \A line \in DOMAIN strobe : strobe[line] # strobe'[line] =>
                       \A other \in DOMAIN strobe : ~Asked(other)
  <1>1. AccessInv /\ [Next]_vars => [Kept]_vars
    <2> SUFFICES ASSUME AccessInv, Next PROVE Kept
      OBVIOUS
    <2>1. DOMAIN strobe = Toggles
      BY DEF AccessInv, Wires
    <2>2. Fall => Kept
      BY <2>1, FallOutcome DEF Outcome, AsksNothing, AsksFor, GoesOn, Idle
    <2>3. Rise \/ (\E k \in IrqLines : Raise(k)) => Kept
      BY DEF Rise, Raise, coreVars
    <2> QED BY <2>2, <2>3 DEF Next
  <1> QED BY <1>1, AccessesAreConsistent, PTL DEF Spec, NoAccessIsLost

-----------------------------------------------------------------------------
(* The division. *)

Words == 0 .. Word - 1
Operands == \A j \in 1 .. 3 : stack[j] \in Words

(* Arithmetic. *)

\* (Cited in place of the definitions, which would make the intervals below
\* intervals of numerals, for the provers to enumerate.)
LEMMA WordIs == Msb \in Nat \ {0} /\ Word \in Nat \ {0} /\ Word = 2 * Msb
  BY DEF Word, Msb

\* The magnitude of a word is a word, and that of a dividend a number.
LEMMA MagnitudeOfWord ==
    ASSUME NEW w \in Words, w # 0, NEW s \in BOOLEAN
    PROVE  pos_num(w, s) \in 1 .. Word - 1
  <1>1. CASE s /\ w >= Msb
    <2>1. Word - w \in 1 .. Word - 1
      BY <1>1, WordIs DEF Words
    <2>2. (Word - w) % Word = Word - w
      BY <2>1, WordIs
    <2> QED BY <1>1, <2>1, <2>2 DEF pos_num, Neg16
  <1>2. CASE ~(s /\ w >= Msb)
    BY <1>2, WordIs DEF pos_num, Words
  <1> QED BY <1>1, <1>2

LEMMA MagnitudeOfPair ==
    ASSUME NEW hi \in Words, NEW lo \in Words, NEW s \in BOOLEAN
    PROVE  pos_denom(hi, lo, s) \in Nat
  <1>1. CASE s /\ hi >= Msb
    <2>1. (Word - 1 - hi) * Word \in Nat
      BY WordIs DEF Words
    <2> QED BY <1>1, <2>1, WordIs DEF pos_denom, Neg32, Words
  <1>2. CASE ~(s /\ hi >= Msb)
    <2>1. hi * Word \in Nat
      BY WordIs DEF Words
    <2> QED BY <1>2, <2>1, WordIs DEF pos_denom, Words
  <1> QED BY <1>1, <1>2

LEMMA Magnitudes ==
    ASSUME Operands, stack[3] # 0
    PROVE  Dividend \in Nat /\ Divisor \in 1 .. Word - 1
  <1>1. stack[1] \in Words /\ stack[2] \in Words /\ stack[3] \in Words /\ Signed \in BOOLEAN
    BY DEF Operands, Signed
  <1>2. Dividend \in Nat
    BY <1>1, MagnitudeOfPair DEF Dividend
  <1>3. Divisor \in 1 .. Word - 1
    BY <1>1, MagnitudeOfWord DEF Divisor
  <1> QED BY <1>2, <1>3

\* The weights, and how each follows from the one before.
LEMMA WeightsHalve ==
    /\ Weights[1] = Word /\ Weights[1] \div 2 = Msb
    /\ Weights[17] = 1 /\ Weights[17] \div 2 = 0
    /\ \A p \in 0 .. 15 : /\ Weights[p + 1] \in Nat \ {0} /\ Weights[p + 2] \in Nat \ {0}
                          /\ Weights[p + 1] = 2 * Weights[p + 2]
                          /\ Weights[p + 1] \div 2 = Weights[p + 2]
    /\ \A p \in 0 .. 14 : Weights[p + 2] = 2 * (Weights[p + 2] \div 2)
  BY DEF Weights, Word, Msb

\* A bit of weight m is free in a multiple of 2 * m: OrBit adds it, and the sum
\* is a multiple of m.
LEMMA FreeBit ==
    ASSUME NEW m \in Nat \ {0}, NEW res \in Nat, res % (2 * m) = 0
    PROVE  /\ OrBit(res, m) = res + m
           /\ res % m = 0 /\ (res + m) % m = 0
  <1>1. PICK c \in Nat : res = (2 * m) * c
    <2> DEFINE w == 2 * m
    <2>1. w \in Nat \ {0}
      OBVIOUS
    <2> HIDE DEF w
    <2>2. res \div w \in Nat /\ res = w * (res \div w) + (res % w)
      BY <2>1
    <2> QED BY <2>2 DEF w
  <1>2. res = m * (2 * c) + 0 /\ res + m = m * (2 * c + 1) + 0
    BY <1>1
  <1>3. 2 * c \in Nat /\ 2 * c + 1 \in Nat /\ 0 \in 0 .. m - 1
    OBVIOUS
  <1>4. res \div m = 2 * c
    BY <1>2, <1>3, DivUnique
  <1>5. res % m = 0 /\ (res + m) % m = 0
    BY <1>2, <1>3, ModUnique
  <1>6. (2 * c) % 2 = 0
    OBVIOUS
  <1> QED BY <1>4, <1>5, <1>6 DEF OrBit

\* What a phase does to the dividend that is left, v, for a divisor k: whether or
\* not k * m fits in it, fewer than m divisors are left.
LEMMA OnePhase ==
    ASSUME NEW k \in Nat \ {0}, NEW m \in Nat \ {0}, NEW v \in Nat, NEW res \in Nat,
           v < k * (2 * m)
    PROVE  /\ v >= k * m => /\ v - k * m \in Nat /\ v - k * m < k * m
                            /\ (res + m) * k + (v - k * m) = res * k + v
           /\ k * m \in Nat
  <1>1. k * (2 * m) = 2 * (k * m) /\ k * m \in Nat
    OBVIOUS
  <1>2. (res + m) * k = res * k + k * m
    OBVIOUS
  <1>3. res * k \in Nat
    OBVIOUS
  <1> QED BY <1>1, <1>2, <1>3

\* What is left at the end is the remainder.
LEMMA LastPhase ==
    ASSUME NEW k \in 1 .. Word - 1, NEW n \in Nat, NEW v \in Nat, NEW res \in Nat,
           v < k, res * k + v = n
    PROVE  n \div k = res /\ n % k = v /\ v % Word = v
  <1>1. k \in Nat \ {0} /\ v \in 0 .. k - 1
    BY WordIs
  <1>2. n = k * res + v
    BY <1>1
  <1>3. v \in 0 .. Word - 1
    BY <1>1, WordIs
  <1>4. v % Word = v
    BY <1>3, WordIs
  <1>5. (k * res + v) \div k = res /\ (k * res + v) % k = v
    BY <1>1, DivUnique, ModUnique
  <1> QED BY <1>2, <1>4, <1>5

-----------------------------------------------------------------------------
(* A clock of the divider. *)

\* The operands just loaded: no bit of the quotient yet.
LEMMA LoadedIsBegun ==
    ASSUME OperandsLoaded, stack[3] # 0, Fits
    PROVE  QuotientSoFar
  <1>1. Dividend \in Nat /\ Divisor \in Nat
    BY Magnitudes, WordIs DEF Fits, Operands, Words
  <1>2. dv.phase = 0 /\ Weight = Word /\ Weight \div 2 = Msb
    <2>1. dv.phase = 0 /\ Weight = Weights[1]
      BY DEF OperandsLoaded, Weight
    <2> QED BY <2>1, WeightsHalve
  <1>3. 0 % Word = 0 /\ 0 * Divisor + Dividend = Dividend
    BY <1>1, WordIs
  <1> QED
    BY <1>1, <1>2, <1>3 DEF OperandsLoaded, QuotientSoFar, Fits

\* One more phase, for numbers: what is left, and the quotient.
Left(k, m, v) == IF v >= k * m THEN v - k * m ELSE v
Quotient(k, m, v, res) == IF v >= k * m THEN OrBit(res, m) ELSE res
PhaseBegun(k, m, v, res) == v \div k < 2 * m /\ res % (2 * m) = 0
PhaseDone(k, m, v, res) ==
    /\ Left(k, m, v) \in Nat /\ Left(k, m, v) \div k < m
    /\ Quotient(k, m, v, res) \in Nat /\ Quotient(k, m, v, res) % m = 0
    /\ Quotient(k, m, v, res) * k + Left(k, m, v) = res * k + v
LEMMA PhaseStep ==
    ASSUME NEW k \in Nat \ {0}, NEW m \in Nat \ {0}, NEW v \in Nat, NEW res \in Nat,
           PhaseBegun(k, m, v, res)
    PROVE  PhaseDone(k, m, v, res)
  <1> DEFINE v2 == Left(k, m, v)
             res2 == Quotient(k, m, v, res)
  <1>1. v < k * (2 * m)
    BY DivBelow DEF PhaseBegun
  <1>2. OrBit(res, m) = res + m /\ res % m = 0 /\ (res + m) % m = 0
    BY FreeBit DEF PhaseBegun
  <1>3. /\ v >= k * m => /\ v - k * m \in Nat /\ v - k * m < k * m
                         /\ (res + m) * k + (v - k * m) = res * k + v
        /\ k * m \in Nat
    BY <1>1, OnePhase
  <1>4. v2 \in Nat /\ v2 < k * m /\ res2 * k + v2 = res * k + v
    <2>1. CASE v >= k * m
      <3>1. v2 = v - k * m /\ res2 = res + m
        BY <1>2, <2>1 DEF Left, Quotient
      <3> HIDE DEF v2, res2
      <3> QED BY <1>3, <2>1, <3>1
    <2>2. CASE ~(v >= k * m)
      <3>1. v2 = v /\ res2 = res
        BY <2>2 DEF Left, Quotient
      <3> HIDE DEF v2, res2
      <3> QED BY <1>3, <2>2, <3>1
    <2> QED BY <2>1, <2>2
  <1>5. res2 \in Nat /\ res2 % m = 0
    BY <1>2 DEF Quotient
  <1>6. v2 \div k < m
    <2> HIDE DEF v2
    <2> QED BY <1>4, DivBelow
  <1> QED BY <1>4, <1>5, <1>6 DEF PhaseDone

\* A phase, as the divider does it, for operands that stay.
LEMMA DividerPhase ==
    ASSUME QuotientSoFar, Fits, stack[3] # 0, dv.phase < 16, UNCHANGED <<stack, mc>>,
           div_run_out # dv.run_out,
           DOMAIN dv = {"run_out", "v", "bm", "phase", "q", "r", "m", "res"},
           dv' = DivClock(dv, stack[2], stack[1], stack[3], Signed, div_run_out)
    PROVE  QuotientSoFar'
  <1> DEFINE v2 == Left(Divisor, dv.m, dv.v)
             res2 == Quotient(Divisor, dv.m, dv.v, dv.res)
  <1>1. /\ dv'.v = v2 /\ dv'.res = res2
        /\ dv'.bm = dv.bm \div 2 /\ dv'.m = dv.m \div 2 /\ dv'.phase = (dv.phase + 1) % 32
    <2>1. dv.bm = Divisor * dv.m
      BY DEF QuotientSoFar
    <2> QED BY <2>1 DEF DivClock, DivRun, Fitting, Left, Quotient
  <1>2. dv.phase \in 0 .. 15 /\ dv'.phase = dv.phase + 1
    BY <1>1 DEF QuotientSoFar
  <1>3. Dividend' = Dividend /\ Divisor' = Divisor /\ Dividend \in Nat /\ Divisor \in Nat \ {0}
    BY Magnitudes, WordIs DEF Fits, Operands, Words, Dividend, Divisor, Signed
  <1>4. /\ Weight = 2 * dv.m /\ Weight' = dv.m /\ dv.m \in Nat \ {0}
        /\ dv'.phase < 16 => dv.m = 2 * dv'.m
        /\ dv'.m = Weight' \div 2 /\ dv'.m \in Nat
    <2> DEFINE p == dv.phase
    <2>1. /\ Weight = Weights[p + 1] /\ Weight' = Weights[p + 2] /\ dv.m = Weights[p + 1] \div 2
          /\ p \in 0 .. 15 /\ dv'.m = dv.m \div 2
      BY <1>1, <1>2 DEF Weight, QuotientSoFar
    <2>2. dv'.phase < 16 => p \in 0 .. 14
      BY <1>2
    <2> HIDE DEF p
    <2>3. /\ Weights[p + 1] \in Nat \ {0} /\ Weights[p + 2] \in Nat \ {0}
          /\ Weights[p + 1] = 2 * Weights[p + 2] /\ dv.m = Weights[p + 2]
      BY <2>1, WeightsHalve
    <2>4. dv'.phase < 16 => dv.m = 2 * dv'.m
      BY <2>1, <2>2, <2>3, WeightsHalve
    <2>5. dv.m \div 2 \in Nat
      BY <2>3
    <2> QED BY <2>1, <2>3, <2>4, <2>5
  <1>5. /\ v2 \in Nat /\ v2 \div Divisor < dv.m /\ res2 \in Nat /\ res2 % dv.m = 0
        /\ res2 * Divisor + v2 = Dividend
    <2>1. /\ dv.bm = Divisor * dv.m /\ dv.v \in Nat /\ dv.res \in Nat
          /\ dv.v \div Divisor < 2 * dv.m /\ dv.res % (2 * dv.m) = 0
          /\ dv.res * Divisor + dv.v = Dividend
      BY <1>2, <1>4 DEF QuotientSoFar
    <2>2. Dividend \in Nat /\ Divisor \in Nat \ {0} /\ dv.m \in Nat \ {0}
      BY <1>3, <1>4
    <2>3. /\ v2 \in Nat /\ v2 \div Divisor < dv.m /\ res2 \in Nat /\ res2 % dv.m = 0
          /\ res2 * Divisor + v2 = dv.res * Divisor + dv.v
      <3>1. PhaseBegun(Divisor, dv.m, dv.v, dv.res)
        BY <2>1 DEF PhaseBegun
      <3>2. PhaseDone(Divisor, dv.m, dv.v, dv.res)
        <4>1. dv.v \in Nat /\ dv.res \in Nat
          BY <2>1
        <4> QED BY <2>2, <3>1, <4>1, PhaseStep
      <3> QED BY <3>2 DEF PhaseDone
    <2> HIDE DEF v2, res2
    <2> QED BY <2>1, <2>3
  <1>6. dv'.phase < 16 => dv'.bm = Divisor * dv'.m
    <2> DEFINE half == Divisor * dv'.m
    <2>1. half \in Nat
      BY <1>3, <1>4
    <2>2. dv'.phase < 16 => dv.bm = 2 * half
      <3>1. dv.bm = Divisor * dv.m
        BY <1>2 DEF QuotientSoFar
      <3> QED BY <1>3, <1>4, <3>1
    <2>3. (2 * half) \div 2 = half
      <3> HIDE DEF half
      <3> QED BY <2>1
    <2> QED BY <1>1, <2>2, <2>3
  <1> HIDE DEF v2, res2
  <1> QED BY <1>1, <1>2, <1>3, <1>4, <1>5, <1>6 DEF QuotientSoFar

\* The clock after the last phase gives the answer.
LEMMA DividerAnswer ==
    ASSUME QuotientSoFar, Fits, stack[3] # 0, dv.phase = 16, UNCHANGED <<stack, mc>>,
           div_run_out # dv.run_out,
           DOMAIN dv = {"run_out", "v", "bm", "phase", "q", "r", "m", "res"},
           dv' = DivClock(dv, stack[2], stack[1], stack[3], Signed, div_run_out)
    PROVE  DivisionIsRight'
  <1>1. Dividend \in Nat /\ Divisor \in 1 .. Word - 1
    BY Magnitudes DEF Fits, Operands, Words
  <1>2. dv.v \in Nat /\ dv.res \in Nat /\ dv.v < Divisor /\ dv.res * Divisor + dv.v = Dividend
    <2>1. Weight = 1
      BY WeightsHalve DEF Weight
    <2>2. dv.v \in Nat /\ dv.v \div Divisor < 1 /\ Divisor \in Nat \ {0}
      BY <1>1, <2>1, WordIs DEF QuotientSoFar
    <2>3. dv.v < Divisor * 1
      BY <2>2, DivBelow
    <2> QED BY <2>2, <2>3 DEF QuotientSoFar
  <1>3. Dividend \div Divisor = dv.res /\ Dividend % Divisor = dv.v /\ dv.v % Word = dv.v
    BY <1>1, <1>2, LastPhase
  <1>4. dv'.q = Answer(dv.res) /\ dv'.r = Answer(dv.v % Word)
    BY DEF DivClock, DivRun, Answer
  <1>5. dv'.q = Answer(Dividend \div Divisor) /\ dv'.r = Answer(Dividend % Divisor)
    BY <1>3, <1>4
  <1>6. /\ Answer(Dividend \div Divisor)' = Answer(Dividend \div Divisor)
        /\ Answer(Dividend % Divisor)' = Answer(Dividend % Divisor)
    BY DEF Answer, Dividend, Divisor, Signed
  <1> QED BY <1>5, <1>6 DEF DivisionIsRight

-----------------------------------------------------------------------------
(* Each step keeps DivisionInv. *)

LEMMA InitialDivision == Init => DivisionInv
  <1> SUFFICES ASSUME Init PROVE DivisionInv
    OBVIOUS
  <1>1. clk = 0 /\ state = "EXECUTE" /\ dv = DivInit /\ div_run_out = 0
    BY DEF Init, CoreInit
  <1> QED BY <1>1 DEF DivisionInv, DivisionIsRight, DivInit

\* A step that leaves the divider, its operands and the state alone.
LEMMA DivisionRests ==
    ASSUME DivisionInv, UNCHANGED <<state, mc, stack, dv, div_run_out, clk>>
    PROVE  DivisionInv'
  BY DEF DivisionInv, DivisionIsRight, OperandsLoaded, QuotientSoFar, Weight, Fits,
         Answer, Dividend, Divisor, Signed

\* A rising edge loads the operands, or goes on with them.
LEMMA DivisionRise ==
    ASSUME DivisionInv, Rise PROVE DivisionInv'
  <1>1. /\ UNCHANGED <<state, mc, stack, div_run_out>> /\ clk = 0 /\ clk' = 1
        /\ DividerClock
    BY DEF Rise, coreVars
  <1>2. UNCHANGED <<Dividend, Divisor, Fits>>
    BY <1>1 DEF Dividend, Divisor, Signed, Fits
  <1>3. CASE ~Dividing
    <2>1. dv' = dv /\ state # "DIV" /\ ~(state = "EXECUTE" /\ mc.op \in DivideOps)
      BY <1>1, <1>3 DEF DividerClock, Dividing, DivisionInv, DivideOps
    <2> QED BY <1>1, <2>1 DEF DivisionInv, DivisionIsRight
  <1>4. CASE Dividing /\ state = "EXECUTE"
    <2>1. dv' = DivLoad(dv, stack[2], stack[1], stack[3], Signed)
      BY <1>1, <1>4 DEF DividerClock, DivisionInv, DivClock, Signed
    <2>2. dv'.run_out = dv.run_out /\ DOMAIN dv' = DOMAIN dv
      BY <2>1 DEF DivLoad, DivisionInv
    <2>3. OperandsLoaded'
      BY <1>2, <2>1 DEF OperandsLoaded, DivLoad, DivisionInv, Dividend, Divisor
    <2> QED BY <1>1, <1>4, <2>2, <2>3 DEF DivisionInv, DivisionIsRight
  <1>5. CASE Dividing /\ state = "DIV"
    <2>1. /\ dv' = DivClock(dv, stack[2], stack[1], stack[3], Signed, div_run_out)
          /\ div_run_out # dv.run_out /\ stack[3] # 0 /\ mc.op \in DivideOps
          /\ Fits => QuotientSoFar
      BY <1>1, <1>5 DEF DividerClock, DivisionInv, Signed
    <2>2. /\ DOMAIN dv' = DOMAIN dv
          /\ dv'.run_out = IF dv.phase = 16 THEN 1 - dv.run_out ELSE dv.run_out
      BY <2>1 DEF DivClock, DivRun, DivisionInv
    <2>3. CASE dv.phase = 16
      <3>1. Fits => DivisionIsRight'
        BY <1>1, <2>1, <2>3, DividerAnswer DEF DivisionInv
      <3>2. DivisionIsRight'
        BY <1>2, <3>1 DEF DivisionIsRight
      <3> QED BY <1>1, <1>5, <2>1, <2>2, <2>3, <3>2 DEF DivisionInv
    <2>4. CASE dv.phase # 16
      <3>1. Fits => QuotientSoFar'
        <4> SUFFICES ASSUME Fits PROVE QuotientSoFar'
          OBVIOUS
        <4>1. dv.phase < 16
          BY <2>1, <2>4 DEF QuotientSoFar
        <4> QED BY <1>1, <2>1, <4>1, DividerPhase DEF DivisionInv
      <3> QED BY <1>1, <1>2, <1>5, <2>1, <2>2, <2>4, <3>1 DEF DivisionInv, DivisionIsRight
    <2> QED BY <2>3, <2>4
  <1> QED BY <1>3, <1>4, <1>5 DEF Dividing

\* The micro-operations and bus states that have nothing to do with the divider.
LEMMA DivisionElsewhere ==
    ASSUME Fetch \/ ExecuteReset \/ ExecuteAlu \/ ExecuteStoreE \/ ExecuteJump \/ ExecuteMove
           \/ CodeByte \/ DataByte \/ PortByte
    PROVE  state # "DIV" /\ state' # "DIV" /\ div_run_out' = div_run_out
  <1>1. CASE Fetch
    <2>1. CASE FetchJump \/ FetchEnd \/ (\E k \in Lines : TakeInterrupt(k)) \/ FetchLoad
               \/ FetchStore \/ FetchLatch \/ FetchSlow
      BY <2>1 DEF FetchJump, FetchEnd, TakeInterrupt, Enter, FetchLoad, FetchStore, FetchLatch,
                  FetchSlow, Fetching, Step
    <2>2. CASE FetchAccess
      <3>1. /\ state = "FETCH" /\ div_run_out' = div_run_out /\ u.op \in DOMAIN Access
            /\ state' = Access[u.op][2]
        BY <2>2 DEF FetchAccess, Fetching, Step
      <3>2. \A op \in DOMAIN Access : Access[op][2] # "DIV"
        BY DEF Access
      <3> QED BY <3>1, <3>2
    <2> QED BY <1>1, <2>1, <2>2 DEF Fetch
  <1>2. CASE ExecuteReset \/ ExecuteAlu \/ ExecuteStoreE \/ ExecuteJump \/ ExecuteMove
    BY <1>2 DEF ExecuteReset, ExecuteAlu, ExecuteStoreE, ExecuteJump, ExecuteMove, Executing, Step
  <1>3. CASE CodeByte
    BY <1>3 DEF CodeByte, OpcodeByte, ModrmByte, ModrmDecode, ModrmD8, ModrmD16, ModrmD16High,
                FetchD8, FetchD16, Ready, BusStep, Step
  <1>4. CASE DataByte
    BY <1>4 DEF DataByte, Read, ReadHigh, Write, Written, Push, Pop_, PopHigh, Ready, BusStep, Step
  <1>5. CASE PortByte
    BY <1>5 DEF PortByte, ReadIo, ReadIo2, WriteIo, WriteIo2, BusStep, Step
  <1> QED BY <1>1, <1>2, <1>3, <1>4, <1>5

\* A falling edge starts the divider, takes its answer, waits or is elsewhere.
LEMMA DivisionFall ==
    ASSUME AccessInv, DivisionInv, Fall PROVE DivisionInv'
  <1>1. clk = 1 /\ clk' = 0 /\ dv' = dv
    BY DEF Fall
  <1>2. CASE state # "DIV" /\ state' # "DIV" /\ div_run_out' = div_run_out
    BY <1>1, <1>2 DEF DivisionInv, DivisionIsRight
  <1>3. CASE InReset
    BY <1>2, <1>3 DEF InReset, AccessInv
  <1>4. CASE ExecuteDivide /\ state' = "DIV"
    <2>1. /\ state = "EXECUTE" /\ mc.op \in DivideOps /\ UNCHANGED <<mc, stack>>
          /\ stack[3] # 0 /\ div_run_out' = 1 - div_run_out
      BY <1>4 DEF ExecuteDivide, Executing, Step, DivideOps
    <2>2. OperandsLoaded /\ dv.run_out = div_run_out /\ div_run_out \in {0, 1}
      BY <1>1, <2>1 DEF DivisionInv
    <2>3. Fits => QuotientSoFar
      BY <2>1, <2>2, LoadedIsBegun
    <2>4. Fits' = Fits /\ QuotientSoFar' = QuotientSoFar
      BY <1>1, <2>1 DEF Fits, QuotientSoFar, Weight, Dividend, Divisor, Signed
    <2> QED
      BY <1>1, <1>4, <2>1, <2>2, <2>3, <2>4 DEF DivisionInv, DivisionIsRight
  <1>5. CASE ExecuteDivide /\ state' # "DIV"
    <2>1. state = "EXECUTE" /\ div_run_out' = div_run_out
      BY <1>5 DEF ExecuteDivide, Executing, Step
    <2> QED BY <1>2, <1>5, <2>1
  <1>6. CASE Divided
    <2>1. state' = "FETCH" /\ dv.run_out = div_run_out /\ div_run_out' = div_run_out
      BY <1>6 DEF Divided, BusStep, Step
    <2> QED BY <1>1, <2>1 DEF DivisionInv, DivisionIsRight
  <1>7. CASE Wait
    <2>1. UNCHANGED <<state, mc, stack, div_run_out>>
      BY <1>7 DEF Wait, coreVars
    <2>2. CASE state # "DIV"
      BY <1>2, <2>1, <2>2
    <2>3. CASE state = "DIV"
      <3>1. dv.run_out # div_run_out
        BY <1>7, <2>3 DEF Wait, ReadStates, WriteStates, CodeStates
      <3>2. Fits' = Fits /\ QuotientSoFar' = QuotientSoFar
        BY <1>1, <2>1 DEF Fits, QuotientSoFar, Weight, Dividend, Divisor, Signed
      <3> QED BY <1>1, <2>1, <2>3, <3>1, <3>2 DEF DivisionInv, DivisionIsRight
    <2> QED BY <2>2, <2>3
  <1>8. Clock
    BY DEF Fall
  <1> QED
    BY <1>2, <1>3, <1>4, <1>5, <1>6, <1>7, <1>8, DivisionElsewhere DEF Clock, Execute

LEMMA DivisionNext == AccessInv /\ DivisionInv /\ [Next]_vars => DivisionInv'
  <1>1. ASSUME DivisionInv, UNCHANGED vars \/ (\E k \in IrqLines : Raise(k)) PROVE DivisionInv'
    BY <1>1, DivisionRests DEF vars, boardVars, coreVars, Raise
  <1> QED BY <1>1, DivisionRise, DivisionFall DEF Next

-----------------------------------------------------------------------------

\* The operands stay and the quotient grows bit by bit until the answer.
THEOREM DivisionsAreConsistent == Spec => []DivisionInv
  BY InitialDivision, DivisionNext, AccessesAreConsistent, PTL DEF Spec

\* Whatever the program, the board and the operands, the core takes the quotient
\* and the remainder of the operands it holds.
THEOREM DivisionsAreRight == Spec => []DivisionIsRight
  <1>1. DivisionInv => DivisionIsRight
    BY DEF DivisionInv
  <1> QED BY <1>1, DivisionsAreConsistent, PTL

=============================================================================
