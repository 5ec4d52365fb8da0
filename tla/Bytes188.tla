------------------------------ MODULE Bytes188 ------------------------------
(***************************************************************************)
(* Bytes, words, flags and the memory of the V188: what the core, its      *)
(* abstract instruction set and the program main.cpp share.                *)
(***************************************************************************)
EXTENDS Integers, Sequences, FiniteSetsExt, TLC

Word == 65536
Msb  == 32768

Lo(w) == w % 256
Hi(w) == w \div 256
Join(h, l) == h * 256 + l
Signed8(b) == IF b >= 128 THEN Join(255, b) ELSE b
PlusW(o, n) == (o + n) % Word
Bit(w, k) == (w \div 2^k) % 2
And16(x, y) == MapThenSumSet(LAMBDA k : 2^k * Bit(x, k) * Bit(y, k), 0 .. 15)
Or16(x, y)  == x + y - And16(x, y)
Unmask(w, f) == w - And16(w, f)
EvenParity(b) == MapThenSumSet(LAMBDA k : Bit(b, k), 0 .. 7) % 2 = 0

F_C == 1
F_P == 4
F_A == 16
F_Z == 64
F_S == 128
F_I == 512
F_D == 1024
F_O == 2048
Has(flags, f) == And16(flags, f) # 0

\* The register fields 0 .. 7 and 0 .. 3; a byte register is a half of a word.
Reg16 == <<"ax", "cx", "dx", "bx", "sp", "bp", "si", "di">>
Sreg  == <<"es", "cs", "ss", "ds">>
Reg(k)  == Reg16[k + 1]
Reg8(k) == Reg16[(k % 4) + 1]
Get8(r, k)  == IF k < 4 THEN Lo(r[Reg8(k)]) ELSE Hi(r[Reg8(k)])
Put8(r, k, b) == [r EXCEPT ![Reg8(k)] = IF k < 4 THEN Join(Hi(@), b) ELSE Join(b, Lo(@))]
RegNames == {Reg16[k] : k \in 1 .. 8} \cup {Sreg[k] : k \in 1 .. 4} \cup {"flags", "ip"}

\* The interrupt requests that the core looks at, by priority.
Lines == {0, 1, 4, 7}

\* A physical address: offsets wrap at 64 KB, addresses at 1 MB.
Phys(seg, ofs) == (seg * 16 + ofs) % 1048576

\* The memory of main.cpp, filled with Fill but for the addresses written.
Fill == \h90
Peek(m, addr) == IF addr \in DOMAIN m THEN m[addr] ELSE Fill
Poke(m, addr, bytes) == [x \in addr .. addr + Len(bytes) - 1 |-> bytes[x - addr + 1]] @@ m
=============================================================================
