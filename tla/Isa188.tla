------------------------------- MODULE Isa188 -------------------------------
(***************************************************************************)
(* What the V188 promises: the instructions of an 8086, each in one step,  *)
(* as the comments of mcode.asm name them, and interrupts between them.    *)
(* An instruction reads itself from memory at cs:ip, acts on the registers,*)
(* on memory and on the ports, and may be followed by an interrupt.        *)
(***************************************************************************)
EXTENDS Bytes188

CONSTANT PortIn      \* the byte a port read returns

VARIABLES
    r,        \* the registers
    m,        \* the memory
    io,       \* the port accesses of the last instruction, in order
    en,       \* a new interrupt may be taken: the end of the last was signalled
    taking    \* the interrupt request being taken, or None

\* No request line has this number.
None == 255
isaVars == <<r, m, io, en, taking>>

-----------------------------------------------------------------------------
(* The instruction at cs:ip: prefixes, opcode, ModRM byte, operand bytes. *)

At(n) == Peek(m, Phys(r.cs, PlusW(r.ip, n)))
SegPrefix == {\h26, \h2E, \h36, \h3E}
Prefixes == CHOOSE n \in 0 .. 4 : /\ At(n) \notin SegPrefix \cup {\hF3}
                                  /\ \A j \in 0 .. n - 1 : At(j) \in SegPrefix \cup {\hF3}
Repeated == \E j \in 0 .. Prefixes - 1 : At(j) = \hF3
Overrides == {j \in 0 .. Prefixes - 1 : At(j) \in SegPrefix}
SegOr(default) ==
    IF Overrides = {} THEN r[default]
    ELSE r[Sreg[((At(Max(Overrides)) \div 8) % 4) + 1]]

Opcode == At(Prefixes)
Imm8   == At(Prefixes + 1)
Imm16  == Join(At(Prefixes + 2), At(Prefixes + 1))

modF == Imm8 \div 64
regF == (Imm8 \div 8) % 8
rmF  == Imm8 % 8
DispLen == IF modF = 1 THEN 1 ELSE IF modF = 2 \/ (modF = 0 /\ rmF = 6) THEN 2 ELSE 0
Disp == CASE DispLen = 0 -> 0
          [] DispLen = 1 -> Signed8(At(Prefixes + 2))
          [] DispLen = 2 -> Join(At(Prefixes + 3), At(Prefixes + 2))
BaseRegs == IF modF = 0 /\ rmF = 6 THEN <<>>
            ELSE <<<<"bx", "si">>, <<"bx", "di">>, <<"bp", "si">>, <<"bp", "di">>,
                   <<"si">>, <<"di">>, <<"bp">>, <<"bx">>>>[rmF + 1]
EaOfs == CASE Len(BaseRegs) = 0 -> Disp
           [] Len(BaseRegs) = 1 -> PlusW(r[BaseRegs[1]], Disp)
           [] Len(BaseRegs) = 2 -> PlusW(PlusW(r[BaseRegs[1]], r[BaseRegs[2]]), Disp)
EaSeg == SegOr(IF "bp" \in {BaseRegs[k] : k \in DOMAIN BaseRegs} THEN "ss" ELSE "ds")

-----------------------------------------------------------------------------
(* A state t as the instructions make it: registers, memory, accesses. *)

Load8(t, s, o)  == Peek(t.m, Phys(s, o))
Load16(t, s, o) == Join(Load8(t, s, PlusW(o, 1)), Load8(t, s, o))
Store8(t, s, o, b) == [t EXCEPT !.m = Poke(@, Phys(s, o), <<b>>)]
Store16(t, s, o, w) == Store8(Store8(t, s, o, Lo(w)), s, PlusW(o, 1), Hi(w))
Set(t, name, w) == [t EXCEPT !.r[name] = w]
Push16(t, w) == LET sp == PlusW(t.r.sp, Word - 2)
                IN Store16(Set(t, "sp", sp), t.r.ss, sp, w)
Top(t)  == Load16(t, t.r.ss, t.r.sp)
Drop(t) == Set(t, "sp", PlusW(t.r.sp, 2))
PopTo(t, name) == Set(Drop(t), name, Top(t))
Go(t, by) == Set(t, "ip", PlusW(t.r.ip, by))
Flags(t, mask, f) == Set(t, "flags", Unmask(t.r.flags, mask) + And16(f, mask))
In(t, p)     == [t EXCEPT !.io = Append(@, <<"in", p % 4096, PortIn>>)]
Out(t, p, b) == [t EXCEPT !.io = Append(@, <<"out", p % 4096, b>>),
                          !.en = @ \/ (p % 4096 = \h20 /\ b = \h20)]

\* The state with ip past the instruction, whose bytes after the opcode are k.
Now(k) == Go([r |-> r, m |-> m, io |-> <<>>, en |-> en], Prefixes + 1 + k)
Modrm  == Now(1 + DispLen)

LoadE8(t)  == IF modF = 3 THEN Get8(t.r, rmF) ELSE Load8(t, EaSeg, EaOfs)
LoadE16(t) == IF modF = 3 THEN t.r[Reg(rmF)] ELSE Load16(t, EaSeg, EaOfs)
StoreE8(t, b)  == IF modF = 3 THEN [t EXCEPT !.r = Put8(@, rmF, b)]
                  ELSE Store8(t, EaSeg, EaOfs, b)
StoreE16(t, w) == IF modF = 3 THEN Set(t, Reg(rmF), w) ELSE Store16(t, EaSeg, EaOfs, w)

Interrupted(t, n) ==
    LET p == Push16(Push16(Push16(t, t.r.flags), t.r.cs), t.r.ip)
        v == Set(Set(p, "ip", Load16(p, 0, 4 * n)), "cs", Load16(p, 0, 4 * n + 2))
    IN Set(v, "flags", Unmask(v.r.flags, F_I))

\* Flags of an increment or a decrement that gave w; the carry stays.
StepFlags(w, over, half) ==
    (IF w >= Msb THEN F_S ELSE 0) + (IF w = 0 THEN F_Z ELSE 0)
    + (IF EvenParity(Lo(w)) THEN F_P ELSE 0) + (IF over THEN F_O ELSE 0)
    + (IF half THEN F_A ELSE 0)
NotCarry == F_P + F_A + F_Z + F_S + F_O

\* Signed division, the quotient cut towards zero, for quotients of 15 bits.
\* The rest has the sign of the quotient: this machine differs there from the
\* 8086, whose rest has the sign of the dividend.
Negative(w) == w >= Msb
Minus(w) == (Word - w) % Word
Magnitude(w) == IF Negative(w) THEN Minus(w) ELSE w
Divide32(hi, lo, d) == [q |-> ((hi * Word + lo) \div d) % Word, r |-> (hi * Word + lo) % d]
SDivide(hi, lo, d) ==
    LET neg == Negative(hi)
        res == IF ~neg THEN Divide32(hi, lo, Magnitude(d))
               ELSE Divide32((Word - 1 - hi) + (IF lo = 0 THEN 1 ELSE 0), Minus(lo), Magnitude(d))
        opposite == neg # Negative(d)
    IN [q |-> IF opposite THEN Minus(res.q) ELSE res.q,
        r |-> IF opposite THEN Minus(res.r) ELSE res.r]

\* Repeated string moves, one byte a turn; k turns are left.
Turn(t) ==
    LET by == IF Has(t.r.flags, F_D) THEN Word - 1 ELSE 1
        c  == Store8(t, t.r.es, t.r.di, Load8(t, SegOr("ds"), t.r.si))
    IN Set(Set(c, "si", PlusW(t.r.si, by)), "di", PlusW(t.r.di, by))
Turns(t) == LET f[k \in 0 .. t.r.cx] == IF k = 0 THEN t ELSE Turn(f[k - 1])
            IN Set(f[t.r.cx], "cx", 0)

-----------------------------------------------------------------------------
(* The instructions. *)

Family == Opcode - (Opcode % 8)
R == Reg(Opcode % 8)

Moves(t) ==
    CASE Family = \h50 -> Push16(t, IF R = "sp" THEN PlusW(r.sp, Word - 2) ELSE r[R])
      [] Family = \h58 -> PopTo(t, R)
      [] Family = \h90 -> Set(Set(t, R, r.ax), "ax", r[R])
      [] Family = \hB0 -> [t EXCEPT !.r = Put8(@, Opcode % 8, Imm8)]
      [] Family = \hB8 -> Set(t, R, Imm16)
      [] Opcode = \h88 -> StoreE8(t, Get8(r, regF))
      [] Opcode = \h89 -> StoreE16(t, r[Reg(regF)])
      [] Opcode = \h8A -> [t EXCEPT !.r = Put8(@, regF, LoadE8(t))]
      [] Opcode = \h8B -> Set(t, Reg(regF), LoadE16(t))
      [] Opcode = \h8C -> StoreE16(t, r[Sreg[(regF % 4) + 1]])
      [] Opcode = \h8E -> Set(t, Sreg[(regF % 4) + 1], LoadE16(t))
      [] Opcode = \h8F -> StoreE16(Drop(t), Top(t))
      [] Opcode = \h9C -> Push16(t, Or16(And16(r.flags, \hFD5), 2))
      [] Opcode = \h9D -> Set(Drop(t), "flags", Or16(And16(Top(t), \hFD5), 2))
      [] Opcode = \hA0 -> [t EXCEPT !.r = Put8(@, 0, Load8(t, SegOr("ds"), Imm16))]
      [] Opcode = \hA1 -> Set(t, "ax", Load16(t, SegOr("ds"), Imm16))
      [] Opcode = \hA2 -> Store8(t, SegOr("ds"), Imm16, Lo(r.ax))
      [] Opcode = \hA3 -> Store16(t, SegOr("ds"), Imm16, r.ax)
      [] Opcode = \hA4 -> IF Repeated THEN Turns(t) ELSE Turn(t)

Jumps(t) ==
    CASE Opcode = \h72 -> IF Has(r.flags, F_C) THEN Go(t, Signed8(Imm8)) ELSE t
      [] Opcode = \h73 -> IF Has(r.flags, F_C) THEN t ELSE Go(t, Signed8(Imm8))
      [] Opcode = \h74 -> IF Has(r.flags, F_Z) THEN Go(t, Signed8(Imm8)) ELSE t
      [] Opcode = \h75 -> IF Has(r.flags, F_Z) THEN t ELSE Go(t, Signed8(Imm8))
      [] Opcode = \hC3 -> PopTo(t, "ip")
      [] Opcode = \hCD -> Interrupted(t, Imm8)
      [] Opcode = \hCF -> PopTo(PopTo(PopTo(t, "ip"), "cs"), "flags")
      [] Opcode = \hE8 -> Go(Push16(t, t.r.ip), Imm16)
      [] Opcode = \hE9 -> Go(t, Imm16)
      [] Opcode = \hEA -> Set(Set(t, "ip", Imm16), "cs", Join(At(Prefixes + 4), At(Prefixes + 3)))
      [] Opcode = \hEB -> Go(t, Signed8(Imm8))

Counts(t) ==
    CASE Family = \h40 -> LET w == PlusW(r[R], 1)
                          IN Flags(Set(t, R, w), NotCarry, StepFlags(w, w = Msb, w % 16 = 0))
      [] Family = \h48 -> LET w == PlusW(r[R], Word - 1)
                          IN Flags(Set(t, R, w), NotCarry, StepFlags(w, w = Msb - 1, w % 16 = 15))
      [] Opcode = \hF7 -> LET d == LoadE16(t)
                              res == IF regF = 6 THEN Divide32(r.dx, r.ax, d) ELSE SDivide(r.dx, r.ax, d)
                          IN IF d = 0 THEN Interrupted(t, 0)
                             ELSE Set(Set(t, "ax", res.q), "dx", res.r)
      [] Opcode = \hFA -> Flags(t, F_I, 0)
      [] Opcode = \hFB -> Flags(t, F_I, F_I)
      [] Opcode = \hFC -> Flags(t, F_D, 0)
      [] Opcode = \hFD -> Flags(t, F_D, F_D)

Ports(t) ==
    CASE Opcode = \hE4 -> [In(t, Imm8) EXCEPT !.r = Put8(@, 0, PortIn)]
      [] Opcode = \hE6 -> Out(t, Imm8, Lo(r.ax))
      [] Opcode = \hED -> Set(In(In(t, r.dx), r.dx + 1), "ax", Join(PortIn, PortIn))
      [] Opcode = \hEF -> Out(Out(t, r.dx, Lo(r.ax)), r.dx + 1, Hi(r.ax))

\* The end of an instruction, where an interrupt may be taken.
Becomes(t) ==
    /\ r' = t.r /\ m' = t.m /\ io' = t.io
    /\ \/ taking' = None /\ en' = t.en
       \/ taking' \in Lines /\ t.en /\ Has(t.r.flags, F_I) /\ en' = FALSE

ModrmOps == {\h88, \h89, \h8A, \h8B, \h8C, \h8E, \h8F, \hF7}
Move  == /\ \/ Family \in {\h50, \h58, \h90, \hB0, \hB8}
            \/ Opcode \in ModrmOps \cup {\h9C, \h9D} \cup (\hA0 .. \hA4)
         /\ Opcode # \hF7
         /\ Becomes(Moves(IF Opcode \in ModrmOps THEN Modrm
                          ELSE Now(CASE Family = \hB0 -> 1 [] Family = \hB8 -> 2
                                     [] Opcode \in \hA0 .. \hA3 -> 2 [] OTHER -> 0)))
Jump  == /\ Opcode \in (\h72 .. \h75) \cup {\hC3, \hCD, \hCF} \cup (\hE8 .. \hEB)
         /\ Becomes(Jumps(Now(CASE Opcode \in {\hC3, \hCF} -> 0 [] Opcode \in {\hE8, \hE9} -> 2
                                [] Opcode = \hEA -> 4 [] OTHER -> 1)))
Count == /\ Family \in {\h40, \h48} \/ Opcode \in {\hF7} \cup (\hFA .. \hFD)
         /\ Becomes(Counts(IF Opcode = \hF7 THEN Modrm ELSE Now(0)))
Port  == /\ Opcode \in {\hE4, \hE6, \hED, \hEF}
         /\ Becomes(Ports(Now(IF Opcode \in {\hE4, \hE6} THEN 1 ELSE 0)))
\* The interrupt that was taken is entered, at the vector of its line.
Enter == Becomes(Interrupted([r |-> r, m |-> m, io |-> <<>>, en |-> en], 8 + taking))

IsaInit ==
    /\ r = [[x \in RegNames |-> 0] EXCEPT !.cs = 65535, !.flags = \hF002]
    /\ io = <<>> /\ en = FALSE /\ taking = None

IsaNext == IF taking = None THEN Move \/ Jump \/ Count \/ Port ELSE Enter

IsaSpec == IsaInit /\ [][IsaNext]_isaVars
=============================================================================
