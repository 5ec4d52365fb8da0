-------------------------------- MODULE V188 --------------------------------
(***************************************************************************)
(* The V188 core (V188.v): a microcoded 8086 whose bus accesses, port      *)
(* accesses and interrupts are all announced by toggles.  One step of Clock*)
(* is a falling edge of clk; the divider steps on the rising edges.        *)
(*                                                                         *)
(* Registers, flags and bytes have their real widths.  fs and gs, scratch  *)
(* registers of instructions not modelled, are left out, and so is S_HLT,  *)
(* which no micro-operation of the microcode enters (see HLT in Ucode188). *)
(***************************************************************************)
EXTENDS Ucode188, MyDiv

VARIABLES
    state,         \* state of the core, one of the S_ constants
    mip, mc,       \* microcode address, the micro-operation being executed
    reg,           \* ax .. di, es .. ds, flags, ip
    stack,         \* the four words of the micro-operand stack, top first
    dp,            \* data path: ofs, seg, sseg, saveseg, low, modrm, repz,
                   \* port and aluflags
    strobe,        \* mrdout, mwrout, iordout, iowrout: the access toggles
    irqout,        \* interrupt acknowledge toggles
    irqs_enabled,
    dv,            \* the divider
    div_run_out,   \* its start toggle
    pin            \* the inputs: reset_n, ready, din, iodin, iordin, iowrin, irqin

coreVars == <<state, mip, mc, reg, stack, dp, strobe, irqout, irqs_enabled, div_run_out>>

\* `a`, dout and iodout: combinational in the state.
a == CASE state \in {"READ_HIGH", "WRITE_HIGH"} -> Phys(dp.seg, PlusW(dp.ofs, 1))
       [] state \in {"READ", "WRITE"} -> Phys(dp.seg, dp.ofs)
       [] state \in {"PUSH", "PUSH_HIGH", "POP", "POP_HIGH"} -> Phys(reg.ss, reg.sp)
       [] OTHER -> Phys(reg.cs, reg.ip)
dout_HighLast == IF state \in {"WRITE_HIGH", "PUSH_HIGH"} THEN Hi(stack[4]) ELSE Lo(stack[4])
dout == IF state \in {"WRITE_HIGH", "PUSH"} THEN Hi(stack[4]) ELSE Lo(stack[4])
iodout == Lo(stack[4])

\* The fields of the ModRM byte and the operands they name.
modField == dp.modrm \div 64
regField == (dp.modrm \div 8) % 8
rmField  == dp.modrm % 8

-----------------------------------------------------------------------------
(* The micro-operand stack. *)

PushOps == {"dup", "fetch8", "fetch8s", "fetch16", "pop", "getofs", "read8",
            "read16", "readio8", "load_e8", "load_e16", "load_g8", "load_g16",
            "load_sreg", "loadreg8", "loadreg", "imm"}
PopOps  == {"setioport", "push", "add_ip", "setofs", "setseg", "overrideseg",
            "write8", "write16", "writeio8", "store_e8", "store_e16", "store_g8",
            "store_g16", "store_sreg", "storereg8", "storereg", "alu", "jz", "jnz"}

\* The words go round: a pop leaves the popped word at the bottom, where the
\* states after the fetch find it.
RotL(s) == <<s[4], s[1], s[2], s[3]>>
RotR(s) == <<s[2], s[3], s[4], s[1]>>
Rotated(u) == CASE u.op \in PushOps -> RotL(stack)
                [] u.op \in PopOps  -> RotR(stack)
                [] u.op = "stackswap" -> <<stack[2], stack[1], stack[3], stack[4]>>
                [] OTHER -> stack
Popped == stack[4]
SetTop(s, w) == <<w, s[2], s[3], s[4]>>

-----------------------------------------------------------------------------
(* The 16-bit ALU, a1 the popped word and a2 the top. *)

AluResult(f, a1, a2) ==
    CASE f = "add" -> a1 + a2
      [] f = "sub" -> a1 - a2
      [] f = "and" -> And16(a1, a2)
      [] f = "or"  -> Or16(a1, a2)
      [] f = "shl" -> 2 * a1

AluFlags(f, a1, a2) ==
    LET full == AluResult(f, a1, a2)
        res  == full % Word
        top(w) == w >= Msb
        over == CASE f = "add" -> top(res) # top(a1) /\ top(res) # top(a2)
                  [] f = "sub" -> top(res) # top(a1) /\ top(a1) # top(a2)
                  [] f = "shl" -> Bit(a1, 15) # Bit(a1, 14)
                  [] OTHER     -> FALSE
        bits(c, m) == IF c THEN m ELSE 0
    IN bits(over, F_O) + bits(top(res), F_S) + bits(res = 0, F_Z) + bits(EvenParity(Lo(res)), F_P)
       + bits((Bit(res, 4) + Bit(a1, 4) + Bit(a2, 4)) % 2 = 1, F_A)
       + bits(full < 0 \/ full >= Word, F_C)

-----------------------------------------------------------------------------
(* What a step does, to all the variables of the core. *)

Step(st, r, s, d, b) ==
    state' = st /\ reg' = r /\ stack' = s /\ dp' = d /\ strobe' = b
Flip(line) == [strobe EXCEPT ![line] = 1 - @]
Following(m) == [m EXCEPT !.n = @ + 1]
SameIrqs == UNCHANGED <<irqout, irqs_enabled>>
\* A step of a bus state: the microcode stands still.
BusStep(st, r, s, d, b) == Step(st, r, s, d, b) /\ UNCHANGED <<mip, mc, div_run_out>>
IpPlus1 == [reg EXCEPT !.ip = PlusW(@, 1)]

-----------------------------------------------------------------------------
(* S_FETCH: the micro-operation u is fetched and, if it can be, done.      *)

u == Mcode(mip)
Fetching(ops) == state = "FETCH" /\ u.op \in ops /\ mc' = u /\ UNCHANGED div_run_out

FetchJump ==
    /\ Fetching({"jmp", "jz", "jnz"}) /\ SameIrqs
    /\ Step("FETCH", reg, Rotated(u), dp, strobe)
    /\ mip' = IF \/ u.op = "jmp"
                 \/ u.op = "jz" /\ stack[1] = 0
                 \/ u.op = "jnz" /\ stack[1] # 0
              THEN u.arg ELSE Following(mip)

\* The lines that the end of an instruction would take an interrupt from.
Pending == {k \in Lines : irqs_enabled /\ Has(reg.flags, F_I) /\ pin.irq[k] # irqout[k]}
Ended == [dp EXCEPT !.repz = FALSE, !.seg = reg.ds, !.sseg = reg.ss]

FetchEnd ==
    /\ Fetching({"end"}) /\ Pending = {} /\ SameIrqs
    /\ Step("OPCODE", reg, stack, Ended, Flip("mrd"))
    /\ mip' = Following(mip)

Enter(k) ==
    /\ irqs_enabled' = FALSE /\ irqout' = [irqout EXCEPT ![k] = 1 - @]
    /\ Step("FETCH", reg, stack, Ended, strobe)
    /\ mip' = [at |-> <<"start", 264 + k>>, n |-> 1]
TakeInterrupt_Lowest(k) ==
    Fetching({"end"}) /\ k \in Pending /\ (\A j \in Pending : k >= j) /\ Enter(k)
TakeInterrupt(k) ==
    Fetching({"end"}) /\ k \in Pending /\ (\A j \in Pending : k <= j) /\ Enter(k)

\* The operand of a ModRM byte is a register.
RegisterE == modField = 3
Access == [read8 |-> <<"mrd", "READ">>, read16 |-> <<"mrd", "READ">>,
           load_e8 |-> <<"mrd", "READ">>, load_e16 |-> <<"mrd", "READ">>,
           write8 |-> <<"mwr", "WRITE">>, write16 |-> <<"mwr", "WRITE">>,
           push |-> <<"mwr", "PUSH">>, pop |-> <<"mrd", "POP">>,
           fetch8 |-> <<"mrd", "FETCH_D8">>, fetch8s |-> <<"mrd", "FETCH_D8">>,
           fetch16 |-> <<"mrd", "FETCH_D8">>, modrm |-> <<"mrd", "MODRM">>,
           endprefix |-> <<"mrd", "OPCODE">>,
           readio8 |-> <<"prd", "READ_IO">>, writeio8 |-> <<"pwr", "WRITE_IO">>]
LoadE == {"load_e8", "load_e16"}

FetchAccess ==
    /\ Fetching(DOMAIN Access) /\ SameIrqs
    /\ u.op \in LoadE => ~RegisterE
    /\ mip' = Following(mip)
    /\ Step(Access[u.op][2],
            IF u.op = "push" THEN [reg EXCEPT !.sp = PlusW(@, Word - 1)] ELSE reg,
            Rotated(u), dp, Flip(Access[u.op][1]))

Loads == {"loadreg", "loadreg8", "imm", "load_g8", "load_g16"} \cup LoadE
LoadValue ==
    CASE u.op = "loadreg"  -> reg[u.arg]
      [] u.op = "loadreg8" -> Get8(reg, u.arg)
      [] u.op = "imm"      -> u.arg
      [] u.op = "load_g8"  -> Get8(reg, regField)
      [] u.op = "load_g16" -> reg[Reg(regField)]
      [] u.op = "load_e8"  -> Get8(reg, rmField)
      [] u.op = "load_e16" -> reg[Reg(rmField)]

FetchLoad ==
    /\ Fetching(Loads) /\ SameIrqs
    /\ u.op \in LoadE => RegisterE
    /\ mip' = Following(mip)
    /\ Step("FETCH", reg, SetTop(Rotated(u), LoadValue), dp, strobe)

Stores == {"storereg", "storereg8", "store_g8", "store_g16", "add_ip", "addflags",
           "removeflags", "aluflags", "dec_cx", "adv_sidi"}
RegStored ==
    CASE u.op = "storereg"    -> [reg EXCEPT ![u.arg] = stack[1]]
      [] u.op = "storereg8"   -> Put8(reg, u.arg, Lo(stack[1]))
      [] u.op = "store_g8"    -> Put8(reg, regField, Lo(stack[1]))
      [] u.op = "store_g16"   -> [reg EXCEPT ![Reg(regField)] = stack[1]]
      [] u.op = "add_ip"      -> [reg EXCEPT !.ip = PlusW(@, stack[1])]
      [] u.op = "addflags"    -> [reg EXCEPT !.flags = Or16(@, u.arg)]
      [] u.op = "removeflags" -> [reg EXCEPT !.flags = Unmask(@, u.arg)]
      [] u.op = "aluflags"    -> [reg EXCEPT !.flags = Unmask(@, u.arg) + And16(dp.aluflags, u.arg)]
      [] u.op = "dec_cx"      -> [reg EXCEPT !.cx = PlusW(@, Word - 1)]
      [] u.op = "adv_sidi"    -> LET by == IF Has(reg.flags, F_D) THEN Word - 1 ELSE 1
                                 IN [reg EXCEPT !.si = PlusW(@, by), !.di = PlusW(@, by)]

FetchStore ==
    /\ Fetching(Stores) /\ SameIrqs
    /\ mip' = Following(mip)
    /\ Step("FETCH", RegStored, Rotated(u), dp, strobe)

Latches == {"setioport", "saveseg_esdi", "restseg", "setrepz", "stackswap"}
DpLatched ==
    CASE u.op = "setioport" -> [dp EXCEPT !.port = stack[1] % 4096]
      [] u.op = "saveseg_esdi" -> [dp EXCEPT !.saveseg = dp.seg, !.seg = reg.es, !.ofs = reg.di]
      [] u.op = "restseg"   -> [dp EXCEPT !.seg = dp.saveseg]
      [] u.op = "setrepz"   -> [dp EXCEPT !.repz = TRUE]
      [] u.op = "stackswap" -> dp

FetchLatch ==
    /\ Fetching(Latches) /\ SameIrqs
    /\ mip' = Following(mip)
    /\ Step("FETCH", reg, Rotated(u), DpLatched, strobe)

\* Everything else takes a second clock, in S_EXECUTE.
Slow == {"reset", "dup", "jmptable", "setofs", "getofs", "setseg", "overrideseg",
         "div", "idiv", "store_e8", "store_e16", "load_sreg", "store_sreg", "alu",
         "jrep", "0107"}

FetchSlow ==
    /\ Fetching(Slow) /\ SameIrqs
    /\ mip' = Following(mip)
    /\ Step("EXECUTE", reg, Rotated(u), dp, strobe)

-----------------------------------------------------------------------------
(* S_EXECUTE: the second clock of the micro-operation mc. *)

Executing(ops) == state = "EXECUTE" /\ mc.op \in ops /\ mc' = mc /\ SameIrqs

ExecuteReset ==
    /\ Executing({"reset"})
    /\ Step("OPCODE", [reg EXCEPT !.cs = 65535, !.ip = 0, !.flags = \hF002],
            stack, dp, Flip("mrd"))
    /\ UNCHANGED <<mip, div_run_out>>

ExecuteAlu ==
    /\ Executing({"alu"})
    /\ Step("FETCH", reg, SetTop(stack, AluResult(mc.arg, Popped, stack[1]) % Word),
            [dp EXCEPT !.aluflags = AluFlags(mc.arg, Popped, stack[1])], strobe)
    /\ UNCHANGED <<mip, div_run_out>>

\* A division by zero goes to trap_z instead.
ExecuteDivide ==
    /\ Executing({"div", "idiv"})
    /\ IF stack[3] # 0
       THEN /\ div_run_out' = 1 - div_run_out
            /\ Step("DIV", reg, stack, dp, strobe) /\ UNCHANGED mip
       ELSE /\ mip' = [at |-> <<"start", 256>>, n |-> 1]
            /\ Step("FETCH", reg, stack, dp, strobe) /\ UNCHANGED div_run_out

ExecuteStoreE ==
    /\ Executing({"store_e8", "store_e16"})
    /\ UNCHANGED <<mip, div_run_out>>
    /\ IF RegisterE
       THEN Step("FETCH",
                 IF mc.op = "store_e8" THEN Put8(reg, rmField, Lo(Popped))
                 ELSE [reg EXCEPT ![Reg(rmField)] = Popped],
                 stack, dp, strobe)
       ELSE Step("WRITE", reg, stack, dp, Flip("mwr"))

ExecuteJump ==
    /\ Executing({"jmptable", "jrep"})
    /\ mip' = CASE mc.op = "jmptable" -> [mip EXCEPT !.n = @ + regField]
                [] mc.op = "jrep" -> IF dp.repz THEN mc.arg ELSE mip
    /\ Step("FETCH", reg, stack, dp, strobe) /\ UNCHANGED div_run_out

ExecuteMove ==
    /\ Executing({"dup", "setofs", "getofs", "setseg", "overrideseg", "load_sreg",
                  "store_sreg", "0107"})
    /\ Step("FETCH",
            IF mc.op = "store_sreg" THEN [reg EXCEPT ![Sreg[(regField % 4) + 1]] = Popped]
            ELSE reg,
            CASE mc.op = "dup"       -> SetTop(stack, stack[2])
              [] mc.op = "getofs"    -> SetTop(stack, dp.ofs)
              [] mc.op = "load_sreg" -> SetTop(stack, reg[Sreg[(regField % 4) + 1]])
              [] OTHER -> stack,
            CASE mc.op = "setofs" -> [dp EXCEPT !.ofs = Popped]
              [] mc.op = "setseg" -> [dp EXCEPT !.seg = Popped]
              [] mc.op = "overrideseg" -> [dp EXCEPT !.seg = Popped, !.sseg = Popped]
              [] OTHER -> dp,
            strobe)
    /\ UNCHANGED <<mip, div_run_out>>

-----------------------------------------------------------------------------
(* The states that take a byte of code. *)

Ready(st) == state = st /\ pin.ready = 1 /\ SameIrqs

OpcodeByte ==
    /\ Ready("OPCODE")
    /\ mip' = [at |-> <<"start", pin.din>>, n |-> 1]
    /\ Step("FETCH", IpPlus1, stack, dp, strobe) /\ UNCHANGED <<mc, div_run_out>>

ModrmByte ==
    /\ Ready("MODRM")
    /\ BusStep("MODRM_DECODE", IpPlus1, stack, [dp EXCEPT !.modrm = pin.din], strobe)

\* Base and index registers by the rm field; 6 is bp, or with mod 0 none.
Direct == modField = 0 /\ rmField = 6
Base == CASE rmField \in {0, 1} -> PlusW(reg.bx, reg[IF rmField = 0 THEN "si" ELSE "di"])
          [] rmField \in {2, 3} -> PlusW(reg.bp, reg[IF rmField = 2 THEN "si" ELSE "di"])
          [] rmField = 4 -> reg.si
          [] rmField = 5 -> reg.di
          [] rmField = 6 -> IF Direct THEN 0 ELSE reg.bp
          [] rmField = 7 -> reg.bx
ModrmDecode ==
    /\ state = "MODRM_DECODE" /\ SameIrqs
    /\ LET next == CASE modField = 1 -> "MODRM_D8"
                     [] modField = 2 \/ Direct -> "MODRM_D16"
                     [] OTHER -> "FETCH"
       IN BusStep(next, reg, stack,
                  [dp EXCEPT !.ofs = Base,
                             !.seg = IF rmField \in {2, 3, 6} /\ ~Direct THEN dp.sseg ELSE @],
                  IF next = "FETCH" THEN strobe ELSE Flip("mrd"))

ModrmD8 ==
    /\ Ready("MODRM_D8")
    /\ BusStep("FETCH", IpPlus1, stack, [dp EXCEPT !.ofs = PlusW(@, Signed8(pin.din))], strobe)

ModrmD16 ==
    /\ Ready("MODRM_D16")
    /\ BusStep("MODRM_D16_HIGH", IpPlus1, stack, [dp EXCEPT !.low = pin.din], Flip("mrd"))

ModrmD16High ==
    /\ Ready("MODRM_D16_HIGH")
    /\ BusStep("FETCH", IpPlus1, stack,
               [dp EXCEPT !.ofs = PlusW(@, Join(pin.din, dp.low))], strobe)

\* mc[0], set in the micro-operations of a word.
WordOp == mc.op \in {"fetch16", "read16", "write16", "load_e16", "store_e16"}

FetchD8 ==
    /\ Ready("FETCH_D8")
    /\ BusStep(IF WordOp THEN "FETCH_D16" ELSE "FETCH", IpPlus1,
               SetTop(stack, IF mc.op = "fetch8s" THEN Signed8(pin.din) ELSE pin.din),
               dp, IF WordOp THEN Flip("mrd") ELSE strobe)

FetchD16 ==
    /\ Ready("FETCH_D16")
    /\ BusStep("FETCH", IpPlus1, SetTop(stack, Join(pin.din, Lo(stack[1]))), dp, strobe)

-----------------------------------------------------------------------------
(* The states of a data access, the low byte first but in a push. *)

Read ==
    /\ Ready("READ")
    /\ BusStep(IF WordOp THEN "READ_HIGH" ELSE "FETCH", reg, SetTop(stack, pin.din), dp,
               IF WordOp THEN Flip("mrd") ELSE strobe)

ReadHigh ==
    /\ Ready("READ_HIGH")
    /\ BusStep("FETCH", reg, SetTop(stack, Join(pin.din, Lo(stack[1]))), dp, strobe)

Write_NoReady ==
    /\ state = "WRITE" /\ SameIrqs
    /\ BusStep(IF WordOp THEN "WRITE_HIGH" ELSE "FETCH", reg, stack, dp,
               IF WordOp THEN Flip("mwr") ELSE strobe)
Write ==
    /\ Ready("WRITE")
    /\ BusStep(IF WordOp THEN "WRITE_HIGH" ELSE "FETCH", reg, stack, dp,
               IF WordOp THEN Flip("mwr") ELSE strobe)

\* The last byte of a write or of a push is out.
Written ==
    /\ \E st \in {"WRITE_HIGH", "PUSH_HIGH"} : Ready(st)
    /\ BusStep("FETCH", reg, stack, dp, strobe)

Push ==
    /\ Ready("PUSH")
    /\ BusStep("PUSH_HIGH", [reg EXCEPT !.sp = PlusW(@, Word - 1)], stack, dp, Flip("mwr"))

Pop_Once ==
    /\ Ready("POP")
    /\ BusStep("POP_HIGH", [reg EXCEPT !.sp = PlusW(@, 1)],
               SetTop(stack, Join(Hi(stack[1]), pin.din)), dp, strobe)
Pop_ ==
    /\ Ready("POP")
    /\ BusStep("POP_HIGH", [reg EXCEPT !.sp = PlusW(@, 1)],
               SetTop(stack, Join(Hi(stack[1]), pin.din)), dp, Flip("mrd"))

PopHigh ==
    /\ Ready("POP_HIGH")
    /\ BusStep("FETCH", [reg EXCEPT !.sp = PlusW(@, 1)],
               SetTop(stack, Join(pin.din, Lo(stack[1]))), dp, strobe)

\* Ports: the device answers by making its toggle equal.
ReadIo == state = "READ_IO" /\ SameIrqs /\ BusStep("READ_IO2", reg, stack, dp, strobe)

ReadIo2 ==
    /\ state = "READ_IO2" /\ strobe.prd = pin.prd /\ SameIrqs
    /\ BusStep("FETCH", reg, SetTop(stack, pin.iodin), dp, strobe)

\* 20h to port 20h, the end of interrupt, lets interrupts in again.
WriteIo ==
    /\ state = "WRITE_IO"
    /\ irqs_enabled' = (irqs_enabled \/ (dp.port = \h20 /\ iodout = \h20))
    /\ BusStep("WRITE_IO2", reg, stack, dp, strobe) /\ UNCHANGED irqout

WriteIo2 ==
    /\ state = "WRITE_IO2" /\ strobe.pwr = pin.pwr /\ SameIrqs
    /\ BusStep("FETCH", reg, stack, dp, strobe)

Divided ==
    /\ state = "DIV" /\ dv.run_out = div_run_out /\ SameIrqs
    /\ BusStep("FETCH", reg, <<dv.q, dv.r, stack[3], stack[4]>>, dp, strobe)

\* Whatever is waited for has not come.
CodeStates == {"OPCODE", "MODRM", "MODRM_D8", "MODRM_D16", "MODRM_D16_HIGH",
               "FETCH_D8", "FETCH_D16"}
ReadStates  == CodeStates \cup {"READ", "READ_HIGH", "POP", "POP_HIGH"}
WriteStates == {"WRITE", "WRITE_HIGH", "PUSH", "PUSH_HIGH"}
Wait ==
    /\ \/ state \in ReadStates \cup WriteStates /\ pin.ready = 0
       \/ state = "READ_IO2" /\ strobe.prd # pin.prd
       \/ state = "WRITE_IO2" /\ strobe.pwr # pin.pwr
       \/ state = "DIV" /\ dv.run_out # div_run_out
    /\ UNCHANGED coreVars

Fetch == \/ FetchJump \/ FetchEnd \/ (\E k \in Lines : TakeInterrupt(k))
         \/ FetchAccess \/ FetchLoad \/ FetchStore \/ FetchLatch \/ FetchSlow
Execute == \/ ExecuteReset \/ ExecuteAlu \/ ExecuteDivide \/ ExecuteStoreE
           \/ ExecuteJump \/ ExecuteMove
CodeByte == \/ OpcodeByte \/ ModrmByte \/ ModrmDecode \/ ModrmD8 \/ ModrmD16
            \/ ModrmD16High \/ FetchD8 \/ FetchD16
DataByte == Read \/ ReadHigh \/ Write \/ Written \/ Push \/ Pop_ \/ PopHigh
PortByte == ReadIo \/ ReadIo2 \/ WriteIo \/ WriteIo2

\* reset_n is asynchronous; a clock at rest in reset does the same again.
InReset ==
    /\ pin.reset = 0
    /\ state' = "EXECUTE" /\ mc' = Op("reset") /\ mip' = [at |-> <<"start", 0>>, n |-> 1]
    /\ UNCHANGED <<reg, stack, dp, strobe, irqout, irqs_enabled, div_run_out>>

\* A falling edge of clk.
Clock == \/ InReset
         \/ pin.reset = 1 /\ (Fetch \/ Execute \/ CodeByte \/ DataByte \/ PortByte
                              \/ Divided \/ Wait)

\* A rising edge steps the divider.  What it loads at rest matters only in
\* the clock before it is started.
Dividing == mc.op \in {"div", "idiv"} /\ state \in {"EXECUTE", "DIV"}
DividerClock ==
    dv' = IF Dividing
          THEN DivClock(dv, stack[2], stack[1], stack[3], mc.op = "idiv", div_run_out)
          ELSE dv

\* Verilator starts every register at zero.
CoreInit ==
    /\ state = "EXECUTE" /\ mc = Op("reset") /\ mip = [at |-> <<"start", 0>>, n |-> 1]
    /\ reg = [x \in RegNames |-> 0]
    /\ stack = <<0, 0, 0, 0>>
    /\ dp = [ofs |-> 0, seg |-> 0, sseg |-> 0, saveseg |-> 0, low |-> 0, modrm |-> 0,
             repz |-> FALSE, port |-> 0, aluflags |-> 0]
    /\ strobe = [mrd |-> 0, mwr |-> 0, prd |-> 0, pwr |-> 0]
    /\ irqout = [k \in Lines |-> 0] /\ irqs_enabled = FALSE
    /\ dv = DivInit /\ div_run_out = 0
=============================================================================
