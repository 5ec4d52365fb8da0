-------------------------- MODULE InterruptsProofs -------------------------
(***************************************************************************)
(* Proofs about Interrupts, for every program and whatever words IRET and  *)
(* POPF find.                                                              *)
(***************************************************************************)
EXTENDS Interrupts, TLAPS

\* At reset.
LEMMA InitIsOk == Init => IInv
BY DEF Init, IInv, TypeOK, Addresses, Flags, Bit, Pulses, Enable, Armed, Served,
       IntrAfterShadow

\* What a clock does to the latches, in terms of the FLAGS before it.
LEMMA LatchTypes ==
    ASSUME TypeOK, Latches
    PROVE  /\ nmi_d' \in [1 .. 3 -> Bit]
           /\ {nmi_caught', BIU_INTR', intr_enable_delayed', eu_flag_t_d',
               eu_tr_latched'} \subseteq Bit
BY DEF TypeOK, Latches, CatchNmi, DelayIntr, LatchTrap, Flags, Bit, new_instruction

\* Setting bits of FLAGS.
LEMMA FlagBits ==
    ASSUME NEW f \in Flags
    PROVE  /\ f.i \in Bit /\ f.t \in Bit /\ f.n \in Bit /\ f.d \in Bit
           /\ Debounced(f) \in Flags
           /\ \A b \in Bit : /\ [f EXCEPT !.i = b] \in Flags
                           /\ [f EXCEPT !.n = b] \in Flags
                           /\ [f EXCEPT !.d = b] \in Flags
           /\ [f EXCEPT !.i = 0, !.t = 0] \in Flags
           /\ [i |-> 0, t |-> 0, n |-> 0, d |-> 0] \in Flags
<1> 0 \in Bit /\ 1 \in Bit
  BY DEF Bit
<1>1. /\ f.i \in Bit /\ f.t \in Bit /\ f.n \in Bit /\ f.d \in Bit
      /\ [i |-> 0, t |-> 0, n |-> 0, d |-> 0] \in Flags
  BY DEF Flags
<1>2. \A b \in Bit : /\ [f EXCEPT !.i = b] \in Flags
                  /\ [f EXCEPT !.n = b] \in Flags
                  /\ [f EXCEPT !.d = b] \in Flags
  BY DEF Flags
<1>3. Debounced(f) \in Flags /\ [f EXCEPT !.i = 0, !.t = 0] \in Flags
  BY DEF Flags, Debounced
<1> QED BY <1>1, <1>2, <1>3

\* FLAGS stay four bits, whatever is popped.
LEMMA MoveTypes ==
    ASSUME TypeOK, InterruptsAssumption, EuMoves
    PROVE  upc' \in Addresses /\ flags' \in Flags
<1>1. upc' \in Addresses
  BY DEF TypeOK, Addresses, EuMoves, Boundary, Dispatch, Checked, Unchecked,
         Popf, Iret, Hlt, ServeNmi, ServeTrap, ServeIntr, Vector, Goto
<1>2. flags' \in Flags
  <2> 0 \in Bit /\ 1 \in Bit
    BY DEF Bit
  <2>1. CASE Checked
    BY <2>1, FlagBits DEF Checked, Keep, TypeOK
  <2>2. CASE Popf \/ Iret
    BY <2>2, FlagBits DEF Popf, Iret, TypeOK, InterruptsAssumption
  <2>3. CASE ServeNmi \/ ServeTrap \/ ServeIntr \/ Vector
    BY <2>3, FlagBits DEF ServeNmi, ServeTrap, ServeIntr, Vector, Keep, TypeOK
  <2>4. CASE Boundary \/ Dispatch \/ Unchecked \/ Hlt
    BY <2>4, FlagBits DEF Boundary, Dispatch, Unchecked, Hlt, Keep, TypeOK
  <2> QED BY <2>1, <2>2, <2>3, <2>4 DEF EuMoves
<1> QED BY <1>1, <1>2

\* The history keeps its type.
LEMMA TrackTypes ==
    ASSUME TypeOK, Track
    PROVE  /\ serving' \in {"none", "nmi", "intr", "trap"}
           /\ sinceI' \in 0 .. 2 /\ sinceT' \in 0 .. 2 /\ bit5' \in Bit
<1>1. serving' \in {"none", "nmi", "intr", "trap"}
  BY DEF TypeOK, Track
<1>2. \A n \in 0 .. 2 : \A f, g : Counted(n, f, g) \in 0 .. 2
  BY DEF Counted
<1>3. bit5' \in Bit
  BY DEF TypeOK, Track, Bit
<1> QED BY <1>1, <1>2, <1>3 DEF TypeOK, Track

\* The fields of FLAGS after each of the assignments of the microcode.
LEMMA Fields ==
    ASSUME TypeOK
    PROVE  /\ flags.i \in {0, 1} /\ flags.t \in {0, 1}
           /\ flags.n \in {0, 1} /\ flags.d \in {0, 1}
           /\ eu_flag_t_d \in {0, 1} /\ eu_tr_latched \in {0, 1}
           /\ intr_enable_delayed \in {0, 1}
           /\ flags' = Debounced(flags) =>
                /\ flags'.i = flags.i /\ flags'.t = flags.t
                /\ flags'.n = 0 /\ flags'.d = 0
           /\ flags' = [flags EXCEPT !.i = 1] =>
                /\ flags'.i = 1 /\ flags'.t = flags.t
                /\ flags'.n = flags.n /\ flags'.d = flags.d
           /\ flags' = [flags EXCEPT !.i = 0] =>
                /\ flags'.i = 0 /\ flags'.t = flags.t
                /\ flags'.n = flags.n /\ flags'.d = flags.d
           /\ flags' = [flags EXCEPT !.n = 1] =>
                /\ flags'.i = flags.i /\ flags'.t = flags.t
                /\ flags'.n = 1 /\ flags'.d = flags.d
           /\ flags' = [flags EXCEPT !.n = 0] =>
                /\ flags'.i = flags.i /\ flags'.t = flags.t
                /\ flags'.n = 0 /\ flags'.d = flags.d
           /\ flags' = [flags EXCEPT !.d = 1] =>
                /\ flags'.i = flags.i /\ flags'.t = flags.t
                /\ flags'.n = flags.n /\ flags'.d = 1
           /\ flags' = [flags EXCEPT !.d = 0] =>
                /\ flags'.i = flags.i /\ flags'.t = flags.t
                /\ flags'.n = flags.n /\ flags'.d = 0
           /\ flags' = [flags EXCEPT !.i = 0, !.t = 0] =>
                /\ flags'.i = 0 /\ flags'.t = 0
                /\ flags'.n = flags.n /\ flags'.d = flags.d
<1>1. flags \in [i : Bit, t : Bit, n : Bit, d : Bit] /\ Bit = {0, 1}
  BY DEF TypeOK, Flags, Bit
<1>2. /\ flags.i \in {0, 1} /\ flags.t \in {0, 1}
      /\ flags.n \in {0, 1} /\ flags.d \in {0, 1}
      /\ eu_flag_t_d \in {0, 1} /\ eu_tr_latched \in {0, 1}
      /\ intr_enable_delayed \in {0, 1}
  BY <1>1 DEF TypeOK
<1> QED BY <1>1, <1>2 DEF Debounced

\* POPF finds any word, and masks FLAGS after it.
LEMMA PoppedFields ==
    ASSUME InterruptsAssumption, NEW w \in PopfImages
    PROVE  /\ w.i \in {0, 1} /\ w.t \in {0, 1} /\ w.n \in {0, 1} /\ w.d \in {0, 1}
           /\ Debounced(w).i = w.i /\ Debounced(w).t = w.t
           /\ Debounced(w).n = 0 /\ Debounced(w).d = 0
BY DEF InterruptsAssumption, Flags, Bit, Debounced

\* IRET masks whatever word it finds.
LEMMA ReturnedFields ==
    ASSUME InterruptsAssumption, NEW w \in Images
    PROVE  /\ Debounced(w).i \in {0, 1} /\ Debounced(w).t \in {0, 1}
           /\ Debounced(w).n = 0 /\ Debounced(w).d = 0
BY DEF InterruptsAssumption, Flags, Bit, Debounced

\* The latches, as far as the invariant goes.
LEMMA LatchSteps ==
    ASSUME TypeOK, Latches
    PROVE  /\ eu_flag_t_d' = flags.t
           /\ intr_enable_delayed' = 1 =>
                flags.i = 1 /\ (upc = "1xx" \/ intr_enable_delayed = 1)
           /\ flags.t = 1 /\ eu_flag_t_d = 0 => eu_tr_latched' = 1
           /\ flags.t = 0 \/ eu_flag_t_d = 1 =>
                eu_tr_latched' = IF flags.d = 1 THEN 0 ELSE eu_tr_latched
<1>0. flags.i \in {0, 1} /\ flags.t \in {0, 1} /\ eu_flag_t_d \in {0, 1}
  BY Fields
<1>1. eu_flag_t_d' = flags.t
  BY DEF Latches, LatchTrap
<1>2. intr_enable_delayed' = 1 =>
        flags.i = 1 /\ (upc = "1xx" \/ intr_enable_delayed = 1)
  BY <1>0 DEF Latches, DelayIntr, new_instruction
<1>3. flags.t = 1 /\ eu_flag_t_d = 0 => eu_tr_latched' = 1
  BY DEF Latches, LatchTrap
<1>4. flags.t = 0 \/ eu_flag_t_d = 1 =>
        eu_tr_latched' = IF flags.d = 1 THEN 0 ELSE eu_tr_latched
  <2>1. eu_tr_latched' = IF eu_flag_t_d = 0 /\ flags.t = 1 THEN 1
                         ELSE IF flags.d = 1 THEN 0 ELSE eu_tr_latched
    BY DEF Latches, LatchTrap
  <2>2. flags.t = 0 \/ eu_flag_t_d = 1 => ~ (eu_flag_t_d = 0 /\ flags.t = 1)
    BY <1>0
  <2> QED BY <2>1, <2>2
<1> QED BY <1>1, <1>2, <1>3, <1>4

\* 004 .. 013 keep the invariant.
LEMMA BoundaryStep ==
    ASSUME IInv, InterruptsAssumption, Latches, Track, Boundary, TypeOK'
    PROVE  IInv'
<1> USE LatchSteps, Fields DEF IInv, Track, Counted, Goto, Keep, Boundary, intr_asserted
<1>1. Pulses'
  BY DEF Pulses, Served
<1>2. Enable'
  BY DEF Enable, Served, TypeOK
<1>3. Armed'
  BY DEF Armed, Served, Pulses
<1>4. Served'
  BY DEF Served, Armed, Pulses
<1>5. IntrAfterShadow'
  BY DEF IntrAfterShadow, Enable
<1> QED BY <1>1, <1>2, <1>3, <1>4, <1>5

\* The start of an instruction keeps the invariant.
LEMMA DispatchStep ==
    ASSUME IInv, InterruptsAssumption, Latches, Track, Dispatch, TypeOK'
    PROVE  IInv'
<1> USE LatchSteps, Fields DEF IInv, Track, Counted, Goto, Keep, Dispatch
<1>1. Pulses'
  BY DEF Pulses, Served
<1>2. Enable'
  BY DEF Enable, Served, TypeOK
<1>3. Armed'
  BY DEF Armed, Served, Pulses
<1>4. Served'
  BY DEF Served, Armed, Pulses
<1>5. IntrAfterShadow'
  BY DEF IntrAfterShadow, Enable
<1> QED BY <1>1, <1>2, <1>3, <1>4, <1>5

\* Instructions that end at the boundary keep the invariant.
LEMMA CheckedStep ==
    ASSUME IInv, InterruptsAssumption, Latches, Track, Checked, TypeOK'
    PROVE  IInv'
<1> USE LatchSteps, Fields DEF IInv, Track, Counted, Goto, Keep, Checked
<1>1. Pulses'
  BY DEF Pulses, Served
<1>2. Enable'
  BY DEF Enable, Served, TypeOK
<1>3. Armed'
  BY DEF Armed, Served, Pulses
<1>4. Served'
  BY DEF Served, Armed, Pulses
<1>5. IntrAfterShadow'
  BY DEF IntrAfterShadow, Enable
<1> QED BY <1>1, <1>2, <1>3, <1>4, <1>5

\* Loads of a segment register and prefixes keep the invariant.
LEMMA UncheckedStep ==
    ASSUME IInv, InterruptsAssumption, Latches, Track, Unchecked, TypeOK'
    PROVE  IInv'
<1> USE LatchSteps, Fields DEF IInv, Track, Counted, Goto, Keep, Unchecked
<1>1. Pulses'
  BY DEF Pulses, Served
<1>2. Enable'
  BY DEF Enable, Served, TypeOK
<1>3. Armed'
  BY DEF Armed, Served, Pulses
<1>4. Served'
  BY DEF Served, Armed, Pulses
<1>5. IntrAfterShadow'
  BY DEF IntrAfterShadow, Enable
<1> QED BY <1>1, <1>2, <1>3, <1>4, <1>5

\* POPF keeps the invariant, whatever bits 12 and 5 of the word are.
LEMMA PopfStep ==
    ASSUME IInv, InterruptsAssumption, Latches, Track, Popf, TypeOK'
    PROVE  IInv'
<1> USE LatchSteps, Fields DEF IInv, Track, Counted, Goto, Keep, Popf
<1> USE PoppedFields
<1>1. Pulses'
  BY DEF Pulses, Served
<1>2. Enable'
  BY DEF Enable, Served, TypeOK
<1>3. Armed'
  BY DEF Armed, Served, Pulses
<1>4. Served'
  BY DEF Served, Armed, Pulses
<1>5. IntrAfterShadow'
  BY DEF IntrAfterShadow, Enable
<1> QED BY <1>1, <1>2, <1>3, <1>4, <1>5

\* IRET keeps the invariant.
LEMMA IretStep ==
    ASSUME IInv, InterruptsAssumption, Latches, Track, Iret, TypeOK'
    PROVE  IInv'
<1> USE LatchSteps, Fields DEF IInv, Track, Counted, Goto, Keep, Iret
<1> USE ReturnedFields
<1>1. Pulses'
  BY DEF Pulses, Served
<1>2. Enable'
  BY DEF Enable, Served, TypeOK
<1>3. Armed'
  BY DEF Armed, Served, Pulses
<1>4. Served'
  BY DEF Served, Armed, Pulses
<1>5. IntrAfterShadow'
  BY DEF IntrAfterShadow, Enable
<1> QED BY <1>1, <1>2, <1>3, <1>4, <1>5

\* HLT keeps the invariant.
LEMMA HltStep ==
    ASSUME IInv, InterruptsAssumption, Latches, Track, Hlt, TypeOK'
    PROVE  IInv'
<1> USE LatchSteps, Fields DEF IInv, Track, Counted, Goto, Keep, Hlt, intr_asserted
<1>1. Pulses'
  BY DEF Pulses, Served
<1>2. Enable'
  BY DEF Enable, Served, TypeOK
<1>3. Armed'
  BY DEF Armed, Served, Pulses
<1>4. Served'
  BY DEF Served, Armed, Pulses
<1>5. IntrAfterShadow'
  BY DEF IntrAfterShadow, Enable
<1> QED BY <1>1, <1>2, <1>3, <1>4, <1>5

\* The entry of the NMI service keeps the invariant.
LEMMA ServeNmiStep ==
    ASSUME IInv, InterruptsAssumption, Latches, Track, ServeNmi, TypeOK'
    PROVE  IInv'
<1> USE LatchSteps, Fields DEF IInv, Track, Counted, Goto, Keep, ServeNmi
<1>1. Pulses'
  BY DEF Pulses, Served
<1>2. Enable'
  BY DEF Enable, Served, TypeOK
<1>3. Armed'
  BY DEF Armed, Served, Pulses
<1>4. Served'
  BY DEF Served, Armed, Pulses
<1>5. IntrAfterShadow'
  BY DEF IntrAfterShadow, Enable
<1> QED BY <1>1, <1>2, <1>3, <1>4, <1>5

\* The entry of the trap service keeps the invariant.
LEMMA ServeTrapStep ==
    ASSUME IInv, InterruptsAssumption, Latches, Track, ServeTrap, TypeOK'
    PROVE  IInv'
<1> USE LatchSteps, Fields DEF IInv, Track, Counted, Goto, Keep, ServeTrap
<1>1. Pulses'
  BY DEF Pulses, Served
<1>2. Enable'
  BY DEF Enable, Served, TypeOK
<1>3. Armed'
  BY DEF Armed, Served, Pulses
<1>4. Served'
  BY DEF Served, Armed, Pulses
<1>5. IntrAfterShadow'
  BY DEF IntrAfterShadow, Enable
<1> QED BY <1>1, <1>2, <1>3, <1>4, <1>5

\* The INTA cycles keep the invariant.
LEMMA ServeIntrStep ==
    ASSUME IInv, InterruptsAssumption, Latches, Track, ServeIntr, TypeOK'
    PROVE  IInv'
<1> USE LatchSteps, Fields DEF IInv, Track, Counted, Goto, Keep, ServeIntr
<1>1. Pulses'
  BY DEF Pulses, Served
<1>2. Enable'
  BY DEF Enable, Served, TypeOK
<1>3. Armed'
  BY DEF Armed, Served, Pulses
<1>4. Served'
  BY DEF Served, Armed, Pulses
<1>5. IntrAfterShadow'
  BY DEF IntrAfterShadow, Enable
<1> QED BY <1>1, <1>2, <1>3, <1>4, <1>5

\* The common end of the services keeps the invariant.
LEMMA VectorStep ==
    ASSUME IInv, InterruptsAssumption, Latches, Track, Vector, TypeOK'
    PROVE  IInv'
<1> USE LatchSteps, Fields DEF IInv, Track, Counted, Goto, Keep, Vector
<1>1. Pulses'
  BY DEF Pulses, Served
<1>2. Enable'
  BY DEF Enable, Served, TypeOK
<1>3. Armed'
  BY DEF Armed, Served, Pulses
<1>4. Served'
  BY DEF Served, Armed, Pulses
<1>5. IntrAfterShadow'
  BY DEF IntrAfterShadow, Enable
<1> QED BY <1>1, <1>2, <1>3, <1>4, <1>5

\* A clock in which the EU stays where it is: the latches only.
LEMMA StallStep ==
    ASSUME IInv, EuStalls, TypeOK'
    PROVE  IInv'
<1>1. Latches /\ upc' = upc /\ flags' = flags /\ serving' = serving
      /\ sinceI' = sinceI /\ bit5' = bit5
  BY DEF EuStalls, euVars, history
<1> USE <1>1, LatchSteps, Fields DEF IInv
<1>2. Pulses' /\ IntrAfterShadow'
  BY DEF Pulses, IntrAfterShadow
<1>3. Enable'
  BY DEF Enable
<1>4. Armed'
  BY DEF Armed, Pulses, Served
<1>5. Served'
  BY DEF Served, Armed, Pulses
<1> QED BY <1>2, <1>3, <1>4, <1>5

\* Every clock keeps the invariant.
LEMMA NextKeeps ==
    ASSUME IInv, InterruptsAssumption, Next
    PROVE  IInv'
<1> TypeOK
  BY DEF IInv
<1>1. CASE EuStalls
  <2>1. TypeOK'
    BY <1>1, LatchTypes DEF EuStalls, euVars, history, TypeOK
  <2> QED BY <1>1, <2>1, StallStep
<1>2. CASE EuClock
  <2>1. Latches /\ EuMoves /\ Track
    BY <1>2 DEF EuClock
  <2>2. TypeOK'
    BY <2>1, LatchTypes, MoveTypes, TrackTypes DEF TypeOK
  <2> QED
    BY <2>1, <2>2, BoundaryStep, DispatchStep, CheckedStep, UncheckedStep,
       PopfStep, IretStep, HltStep, ServeNmiStep, ServeTrapStep,
       ServeIntrStep, VectorStep DEF EuMoves
<1> QED BY <1>1, <1>2 DEF Next

\* So does a step of the specification.
LEMMA StepKeeps == IInv /\ [Next]_vars => IInv'
<1> SUFFICES ASSUME IInv, [Next]_vars PROVE IInv'
  OBVIOUS
<1>1. CASE Next
  BY <1>1, NextKeeps, InterruptsAssumption
<1>2. CASE UNCHANGED vars
  BY <1>2 DEF vars, euVars, history, IInv, TypeOK, Pulses, Enable, Armed,
              Served, IntrAfterShadow
<1> QED BY <1>1, <1>2

\* The inductive invariant, for every program and whatever POPF and IRET pop.
THEOREM Invariance == Spec => []IInv
BY InitIsOk, StepKeeps, PTL DEF Spec

\* An interrupt is taken with I set, an instruction later at the earliest.
THEOREM InterruptsWaitForTheShadow == Spec => []IntrAfterShadow
<1>1. IInv => IntrAfterShadow
  BY DEF IInv
<1> QED BY <1>1, Invariance, PTL

\* At every boundary with T set the trap is armed, or a POPF popped a word with
\* bit 5 set since T rose.
THEOREM TrapsAreArmed == Spec => []TrapIsArmed
<1>1. IInv => TrapIsArmed
  <2> SUFFICES ASSUME IInv, upc = "004", flags.t = 1
               PROVE  eu_tr_latched = 1 \/ bit5 = 1
    BY DEF TrapIsArmed
  <2>1. TypeOK
    BY DEF IInv
  <2> QED BY <2>1, Fields DEF IInv, Armed
<1> QED BY <1>1, Invariance, PTL

\* A trap is not taken again for the T it was taken for.
THEOREM TrapsAreTakenOnce == Spec => []TrapIsTakenOnce
<1>1. IInv => TrapIsTakenOnce
  BY DEF IInv, Served, TrapIsTakenOnce
<1> QED BY <1>1, Invariance, PTL

\* What drops the NMI latch is the debounce pulse of the service, or the word a
\* POPF has just put on FLAGS.
LEMMA OnlyPulsesDrop ==
    IInv /\ [Next]_vars =>
        (nmi_caught = 1 /\ nmi_caught' = 0 => serving = "nmi" \/ PopfDrops)
<1> SUFFICES ASSUME IInv, [Next]_vars, nmi_caught = 1, nmi_caught' = 0
             PROVE  serving = "nmi" \/ PopfDrops
  OBVIOUS
<1>1. Latches
  BY DEF Next, EuClock, EuStalls, vars
<1>2. flags.n = 1
  BY <1>1 DEF Latches, CatchNmi
<1> QED BY <1>2 DEF IInv, Pulses, PopfDrops

\* An NMI that was caught stays caught until it is taken, or a POPF pops a word
\* with bit 12 set: no other instruction and no other service drops it.
THEOREM NmiIsNotLost == Spec => NmiIsKeptButByPopf
BY Invariance, OnlyPulsesDrop, PTL DEF Spec, NmiIsKeptButByPopf

-----------------------------------------------------------------------------

\* What a move of the EU does to T, and to the count of instructions since it rose.
LEMMA TrapFlagMoves ==
    ASSUME TypeOK, InterruptsAssumption, EuMoves, Track
    PROVE  /\ flags'.t # flags.t => upc \in {"499", "531", "532", "4f8"}
           /\ upc = "531" => flags'.t = 0 /\ upc' = "532"
           /\ upc = "499" => upc' = "49a" /\ (flags.t = 0 => sinceT' = 1)
           /\ upc = "4f8" => flags'.t = 0 /\ upc' = "514"
           /\ upc = "532" => upc' = "474"
           /\ upc' = "532" => upc = "531"
           /\ upc = "1xx" => upc' # "1xx" /\ flags'.t = flags.t
           /\ upc = "474" => upc' = "1xx"
  <1> USE Fields DEF Goto, Keep
  <1>1. CASE Checked
    BY <1>1 DEF Checked, Track
  <1>2. CASE Unchecked
    BY <1>2 DEF Unchecked, Track
  <1>3. CASE Popf
    <2>1. \A w \in PopfImages : flags' = w => flags'.t = w.t
      OBVIOUS
    <2> QED BY <1>3, <2>1 DEF Popf, Track
  <1>4. CASE Iret
    BY <1>4 DEF Iret, Track
  <1>5. CASE Boundary \/ Dispatch \/ Hlt
    BY <1>5 DEF Boundary, Dispatch, Hlt, Track
  <1>6. CASE ServeNmi \/ ServeTrap \/ ServeIntr \/ Vector
    BY <1>6 DEF ServeNmi, ServeTrap, ServeIntr, Vector, Track
  <1> QED BY <1>1, <1>2, <1>3, <1>4, <1>5, <1>6 DEF EuMoves

\* The trap is taken from 00a only, armed.
LEMMA TrapEntry ==
    ASSUME EuMoves, upc' = "545"
    PROVE  upc = "00a" /\ eu_tr_latched = 1 /\ flags' = flags
  BY DEF EuMoves, Boundary, Dispatch, Checked, Unchecked, Popf, Iret, Hlt, ServeNmi, ServeTrap,
         ServeIntr, Vector, Goto, Keep

LEMMA SteppedKept == TypeOK /\ Stepped /\ [Next]_vars => TypeOK' /\ Stepped'
<1> SUFFICES ASSUME TypeOK, Stepped, [Next]_vars PROVE TypeOK' /\ Stepped'
  OBVIOUS
<1>1. CASE UNCHANGED vars
  BY <1>1 DEF vars, euVars, history, TypeOK, Stepped, TrapStepsOne
<1>2. CASE EuStalls
  <2>1. Latches /\ upc' = upc /\ flags' = flags /\ sinceT' = sinceT /\ serving' = serving
        /\ sinceI' = sinceI /\ bit5' = bit5
    BY <1>2 DEF EuStalls, euVars, history
  <2>2. TypeOK'
    BY <2>1, LatchTypes DEF TypeOK
  <2>3. eu_tr_latched' = 1 => flags.t = 1 \/ eu_tr_latched = 1
    BY <2>1, LatchSteps, Fields
  <2> QED BY <2>1, <2>2, <2>3 DEF Stepped, TrapStepsOne
<1>3. CASE EuClock
  <2>1. Latches /\ EuMoves /\ Track
    BY <1>3 DEF EuClock
  <2>2. TypeOK'
    BY <2>1, LatchTypes, MoveTypes, TrackTypes, InterruptsAssumption DEF TypeOK
  <2>3. eu_tr_latched' = 1 => flags.t = 1 \/ eu_tr_latched = 1
    BY <2>1, LatchSteps, Fields
  <2>4. flags.t \in {0, 1} /\ flags'.t \in {0, 1} /\ sinceT \in 0 .. 2
    BY <2>2, Fields DEF TypeOK, Flags, Bit
  <2>5. upc # "499" \/ flags.t = 1 =>
          sinceT' = IF flags.t = 0 /\ flags'.t = 1 THEN 0
                    ELSE IF upc = "1xx" /\ upc' # "1xx" /\ sinceT < 2 THEN sinceT + 1
                    ELSE sinceT
    BY <2>1, <2>4 DEF Track, Counted
  <2>6. flags'.t = 1 \/ eu_tr_latched' = 1 => sinceT' >= 1 \/ upc' \in {"474", "1xx"}
    BY <2>1, <2>3, <2>4, <2>5, TrapFlagMoves, InterruptsAssumption DEF Stepped
  <2>7. upc' = "532" => flags'.t = 0
    BY <2>1, TrapFlagMoves, InterruptsAssumption
  <2>8. TrapStepsOne'
    BY <2>1, <2>4, <2>5, TrapEntry DEF Stepped, TrapStepsOne
  <2> QED BY <2>2, <2>6, <2>7, <2>8 DEF Stepped
<1> QED BY <1>1, <1>2, <1>3 DEF Next

\* One instruction at least runs between the IRET that sets T and the trap, for
\* every program and whatever words POPF and IRET find.
THEOREM TrapsStepOne == Spec => []TrapStepsOne
<1>1. Init => TypeOK /\ Stepped
  BY DEF Init, TypeOK, Addresses, Flags, Bit, Stepped, TrapStepsOne
<1>2. Stepped => TrapStepsOne
  BY DEF Stepped
<1> QED BY <1>1, <1>2, SteppedKept, PTL DEF Spec
=============================================================================
