------------------------------ MODULE Ucode188 ------------------------------
(***************************************************************************)
(* The microcode of the V188 (mcode.asm over the macros of mcode.inc): for *)
(* the instructions modelled, the sequence of micro-operations that V188.v *)
(* fetches one by one.  A micro-operation is [op, arg]; an address of the  *)
(* microcode is a label and a place after it.                              *)
(***************************************************************************)
EXTENDS Bytes188

Op(name) == [op |-> name, arg |-> 0]

\* The code of each macro of mcode.inc that V188.v tells apart.
END        == Op("end")
ENDPREFIX  == Op("endprefix")
MODRM      == Op("modrm")
JMPTABLE   == Op("jmptable")
SETIOPORT  == Op("setioport")
DUP        == Op("dup")
FETCH8     == Op("fetch8")
FETCH8S    == Op("fetch8s")
FETCH16    == Op("fetch16")
DECCX      == Op("dec_cx")
STACKSWAP  == Op("stackswap")
SETREPZ    == Op("setrepz")
\* mcode.inc defines HLT twice, and the second, 0107, wins: V188.v knows no
\* such micro-operation, so it does nothing.
HLT        == Op("0107")
PUSH       == Op("push")
POP        == Op("pop")
ADV_SIDI   == Op("adv_sidi")
ADD_IP     == Op("add_ip")
SETOFS     == Op("setofs")
GETOFS     == Op("getofs")
SETSEG     == Op("setseg")
OVERRIDESEG == Op("overrideseg")
SAVESEG_ESDI == Op("saveseg_esdi")
RESTSEG    == Op("restseg")
DIV        == Op("div")
IDIV       == Op("idiv")
READ8      == Op("read8")
READ16     == Op("read16")
WRITE8     == Op("write8")
WRITE16    == Op("write16")
READIO8    == Op("readio8")
WRITEIO8   == Op("writeio8")
LOAD_E8    == Op("load_e8")
LOAD_E16   == Op("load_e16")
STORE_E8   == Op("store_e8")
STORE_E16  == Op("store_e16")
LOAD_G8    == Op("load_g8")
LOAD_G16   == Op("load_g16")
STORE_G8   == Op("store_g8")
STORE_G16  == Op("store_g16")
LOAD_SREG  == Op("load_sreg")
STORE_SREG == Op("store_sreg")

LOADREG8(k)    == [op |-> "loadreg8", arg |-> k]
LOADREG(r)     == [op |-> "loadreg", arg |-> r]
STOREREG8(k)   == [op |-> "storereg8", arg |-> k]
STOREREG(r)    == [op |-> "storereg", arg |-> r]
ADDFLAGS(f)    == [op |-> "addflags", arg |-> f]
REMOVEFLAGS(f) == [op |-> "removeflags", arg |-> f]
ALUFLAGS(f)    == [op |-> "aluflags", arg |-> f]
IMM(w)         == [op |-> "imm", arg |-> w]
ALU(f)         == [op |-> "alu", arg |-> f]
JMP(label)     == [op |-> "jmp", arg |-> label]
JZ(label)      == [op |-> "jz", arg |-> label]
JNZ(label)     == [op |-> "jnz", arg |-> label]
JREP(label)    == [op |-> "jrep", arg |-> label]

NOCARRY == F_P + F_A + F_Z + F_S + F_O

iLabel(n) == [at |-> <<"i", n>>, n |-> 1]
Label(name) == [at |-> <<name, 0>>, n |-> 1]

INCREG(r) == <<IMM(1), LOADREG(r), ALU("add"), STOREREG(r), ALUFLAGS(NOCARRY), END>>
DECREG(r) == <<IMM(1), LOADREG(r), ALU("sub"), ALUFLAGS(NOCARRY), STOREREG(r), END>>
XCHGREG(r) == <<LOADREG(r), LOADREG("ax"), STOREREG(r), STOREREG("ax"), END>>
TESTFLAGS(f) == <<LOADREG("flags"), IMM(f), ALU("and")>>
JCOND(f)  == <<FETCH8S>> \o TESTFLAGS(f) \o <<JZ(Label("done")), ADD_IP, END>>
JNCOND(f) == <<FETCH8S>> \o TESTFLAGS(f) \o <<JNZ(Label("done")), ADD_IP, END>>
PREFIX(r) == <<LOADREG(r), OVERRIDESEG, ENDPREFIX>>

Interrupt ==
    <<ALU("shl"), ALU("shl"), SETOFS, IMM(0), SETSEG,
      LOADREG("flags"), PUSH, LOADREG("cs"), PUSH, LOADREG("ip"), PUSH,
      READ16, STOREREG("ip"), GETOFS, IMM(2), ALU("add"), SETOFS,
      READ16, STOREREG("cs"), REMOVEFLAGS(F_I), END>>

\* The labels other than i_xx.
Routine == [
    done      |-> <<END>>,
    interrupt |-> Interrupt,
    i_A4_rep  |-> <<LOADREG("cx"), JZ(Label("done")), DECCX, LOADREG("si"), SETOFS,
                    READ8, SAVESEG_ESDI, WRITE8, RESTSEG, ADV_SIDI,
                    JMP(Label("i_A4_rep"))>>,
    i_F7_6    |-> <<LOADREG("dx"), LOADREG("ax"), DIV,
                    STOREREG("ax"), STOREREG("dx"), END>>,
    i_F7_7    |-> <<LOADREG("dx"), LOADREG("ax"), IDIV,
                    STOREREG("ax"), STOREREG("dx"), END>>]

\* i_xx, by opcode.
Instr ==
    [n \in \h40 .. \h47 |-> INCREG(Reg(n % 8))] @@
    [n \in \h48 .. \h4F |-> DECREG(Reg(n % 8))] @@
    [n \in (\h50 .. \h57) \ {\h54} |-> <<LOADREG(Reg(n % 8)), PUSH, END>>] @@
    [n \in {\h54} |-> <<IMM(2), LOADREG("sp"), ALU("sub"), PUSH, END>>] @@
    [n \in \h58 .. \h5F |-> <<POP, STOREREG(Reg(n % 8)), END>>] @@
    [n \in {\h91, \h92, \h93, \h94, \h95, \h96, \h97} |-> XCHGREG(Reg(n % 8))] @@
    [n \in \hB0 .. \hB7 |-> <<FETCH8, STOREREG8(n % 8), END>>] @@
    [n \in \hB8 .. \hBF |-> <<FETCH16, STOREREG(Reg(n % 8)), END>>] @@
    [n \in {\h26, \h2E, \h36, \h3E} |-> PREFIX(Sreg[((n \div 8) % 4) + 1])] @@
    (\h72 :> JCOND(F_C)) @@ (\h73 :> JNCOND(F_C)) @@
    (\h74 :> JCOND(F_Z)) @@ (\h75 :> JNCOND(F_Z)) @@
    (\h88 :> <<MODRM, LOAD_G8, STORE_E8, END>>) @@
    (\h89 :> <<MODRM, LOAD_G16, STORE_E16, END>>) @@
    (\h8A :> <<MODRM, LOAD_E8, STORE_G8, END>>) @@
    (\h8B :> <<MODRM, LOAD_E16, STORE_G16, END>>) @@
    (\h8C :> <<MODRM, LOAD_SREG, STORE_E16, END>>) @@
    (\h8E :> <<MODRM, LOAD_E16, STORE_SREG, END>>) @@
    (\h8F :> <<MODRM, POP, STORE_E16, END>>) @@
    (\h90 :> <<END>>) @@
    (\h9C :> <<LOADREG("flags"), IMM(\hFD5), ALU("and"), IMM(2), ALU("or"), PUSH, END>>) @@
    (\h9D :> <<POP, IMM(\hFD5), ALU("and"), IMM(2), ALU("or"), STOREREG("flags"), END>>) @@
    (\hA0 :> <<FETCH16, SETOFS, READ8, STOREREG8(0), END>>) @@
    (\hA1 :> <<FETCH16, SETOFS, READ16, STOREREG("ax"), END>>) @@
    (\hA2 :> <<FETCH16, SETOFS, LOADREG8(0), WRITE8, END>>) @@
    (\hA3 :> <<FETCH16, SETOFS, LOADREG("ax"), WRITE16, END>>) @@
    (\hA4 :> <<JREP(Label("i_A4_rep")), LOADREG("si"), SETOFS, READ8,
               SAVESEG_ESDI, WRITE8, ADV_SIDI, END>>) @@
    (\hC3 :> <<POP, STOREREG("ip"), END>>) @@
    (\hCD :> <<FETCH8>> \o Interrupt) @@
    (\hCF :> <<POP, STOREREG("ip"), POP, STOREREG("cs"), POP, STOREREG("flags"), END>>) @@
    (\hE4 :> <<FETCH8, SETIOPORT, READIO8, STOREREG8(0), END>>) @@
    (\hE5 :> <<FETCH8, DUP, SETIOPORT, IMM(1), ALU("add"), STACKSWAP, READIO8,
               STOREREG8(0), SETIOPORT, READIO8, STOREREG8(4), END>>) @@
    (\hE6 :> <<FETCH8, SETIOPORT, LOADREG8(0), WRITEIO8, END>>) @@
    (\hE8 :> <<FETCH16, LOADREG("ip"), PUSH, ADD_IP, END>>) @@
    (\hE9 :> <<FETCH16, ADD_IP, END>>) @@
    (\hEA :> <<FETCH16, FETCH16, STOREREG("cs"), STOREREG("ip"), END>>) @@
    (\hEB :> <<FETCH8S, ADD_IP, END>>) @@
    (\hED :> <<LOADREG("dx"), SETIOPORT, READIO8, STOREREG8(0), LOADREG("dx"),
               IMM(1), ALU("add"), SETIOPORT, READIO8, STOREREG8(4), END>>) @@
    (\hEF :> <<LOADREG("dx"), SETIOPORT, LOADREG8(0), WRITEIO8, LOADREG("dx"),
               IMM(1), ALU("add"), SETIOPORT, LOADREG8(4), WRITEIO8, END>>) @@
    (\hF3 :> <<SETREPZ, ENDPREFIX>>) @@
    (\hF4 :> <<HLT, END>>) @@
    (\hF7 :> <<MODRM, LOAD_E16, JMPTABLE>>) @@
    (\hFA :> <<REMOVEFLAGS(F_I), END>>) @@
    (\hFB :> <<ADDFLAGS(F_I), END>>) @@
    (\hFC :> <<REMOVEFLAGS(F_D), END>>) @@
    (\hFD :> <<ADDFLAGS(F_D), END>>)

\* The jump table after MODRM, LOAD_E16, JMPTABLE of i_F7: its entry r is
\* the micro-operation r places on.  Only the divisions are modelled.
TableF7(r) == JMP(Label(IF r = 6 THEN "i_F7_6" ELSE "i_F7_7"))

\* The first 256 + 16 words: a jump to each instruction, then to each trap,
\* which is trap_z, irq0, irq1, irq4 or irq7 here: IMM n, JMP interrupt.
Start(n) == IF n < 256 THEN JMP(iLabel(n)) ELSE JMP([at |-> <<"trap", n - 256>>, n |-> 1])

\* The MICROCODE memory: the word mip is the address of.
Mcode(mip) ==
    CASE mip.at[1] = "start" -> Start(mip.at[2])
      [] mip.at[1] = "trap"  -> <<IMM(mip.at[2]), JMP(Label("interrupt"))>>[mip.n]
      [] mip.at[1] = "i"     ->
            IF mip.at[2] = \hF7 /\ mip.n > 3 THEN TableF7(mip.n - 4)
            ELSE Instr[mip.at[2]][mip.n]
      [] OTHER               -> Routine[mip.at[1]][mip.n]
=============================================================================
