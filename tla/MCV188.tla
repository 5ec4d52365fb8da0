------------------------------- MODULE MCV188 -------------------------------
EXTENDS Harness188

\* Instructions as bytes; `at` of a forward reference is counted by hand.
Imm(w) == <<Lo(w), Hi(w)>>
Mov(k, w)  == <<\hB8 + k>> \o Imm(w)      \* mov reg, w
Load(o)    == <<\hA1>> \o Imm(o)          \* mov ax, [o]
Store(o)   == <<\hA3>> \o Imm(o)          \* mov [o], ax
Push_(k)   == <<\h50 + k>>
PopR(k)    == <<\h58 + k>>
Out20      == <<\hB0, \h20, \hE6, \h20>>  \* mov al, 20h; out 20h, al
Iret       == <<\hCF>>
Stop       == <<\hEB, \hFE>>              \* jmp $
AX == 0
CX == 1
DX == 2
BX == 3
SP == 4
BP == 5
SI == 6
DI == 7

\* The program in main.cpp: mov ax, 4321h; dec ax; push ax.
Main == Mov(AX, \h4321) \o <<\h48>> \o Push_(AX) \o Stop

\* Vectors 8 and 12 to 0:0123, the controller opened, sti, and a loop that
\* counts on the stack; the handler opens the controller again.
Interrupts_ ==
    Mov(SP, \h1000) \o Mov(AX, \h123) \o Store(\h20) \o Store(\h30)         \* 100
    \o Mov(AX, 0) \o Store(\h22) \o Store(\h32)                             \* 10C
    \o Out20 \o <<\hFB>>                                                    \* 115
    \o Push_(AX) \o PopR(CX) \o <<\hEB, \hFC>> \o <<\h90, \h90, \h90, \h90, \h90>> \* 11A
    \o Out20 \o Iret                                                       \* 123

\* Every addressing mode, bytes and words, a segment override and its end.
Modes ==
    Mov(BX, \h200) \o Mov(SI, \h10) \o Mov(DI, \h20) \o Mov(BP, \h300) \o Mov(AX, \h1234)
    \o <<\h89, \h00>>              \* mov [bx+si], ax
    \o <<\h88, \h61, \hFE>>        \* mov [bx+di-2], ah
    \o <<\h8B, \h8A, \hF0, \hFE>>  \* mov cx, [bp+si-110h]
    \o <<\h88, \h03>>              \* mov [bp+di], al
    \o <<\h8A, \h14>>              \* mov dl, [si]
    \o <<\h89, \h05>>              \* mov [di], ax
    \o <<\h8A, \h76, \h00>>        \* mov dh, [bp]
    \o <<\h89, \h07>>              \* mov [bx], ax
    \o <<\h8B, \h16>> \o Imm(\h20) \* mov dx, [20h]
    \o <<\h8E, \hC0>> \o <<\h26, \h89, \h0D>> \o <<\h89, \h0D>>  \* mov es, ax; es: mov [di], cx; mov [di], cx
    \o <<\h2E, \hA0>> \o Imm(\h100) \o <<\hA2>> \o Imm(\h101)    \* cs: mov al, [100h]; mov [101h], al
    \o <<\h88, \hD6>> \o <<\h89, \hF8>> \o <<\h8C, \hC2>>        \* mov dh, dl; mov ax, di; mov dx, es
    \o <<\h8F, \h07>> \o Stop                                    \* pop [bx]

\* The last word of a segment, the stack over its border, push sp, pop sp.
Borders ==
    Mov(AX, \hABCD) \o Store(\hFFFF) \o Load(\hFFFF) \o Mov(SP, 1) \o Push_(AX)
    \o Push_(SP) \o PopR(BX) \o PopR(SP) \o <<\h8E, \hD0>> \o Push_(SP) \o PopR(SP)
    \o <<\h93, \h9C, \h9D, \h41, \h49>> \o Stop

\* Three bytes moved up, none moved, three moved down through es.
Strings ==
    Mov(SI, \h100) \o Mov(DI, \h140) \o Mov(CX, 3) \o <<\hF3, \hA4>>
    \o <<\hF3, \hA4>> \o Mov(AX, \h20) \o <<\h8E, \hC0, \h8E, \hD8>>
    \o Mov(CX, 2) \o <<\hFD, \hF3, \h2E, \hA4, \h36, \hA4, \hFC, \hA4>> \o Stop

\* Ports 20h, 20h with another byte, and a word at 3F8h and 3F9h.
Ports_ ==
    Out20 \o <<\hE4, \h20>> \o <<\hE6, \h20>> \o Mov(DX, \h3F8) \o <<\hED>>
    \o Mov(AX, \h2021) \o <<\hEF>> \o Mov(DX, \h1F) \o Mov(AX, \h2000) \o <<\hEF>> \o Stop

\* A call, a software interrupt, a loop on cx, and jumps on the carry.
Calls ==
    Mov(SP, \h400) \o Mov(AX, \h121) \o Store(\h84) \o Mov(AX, 0) \o Store(\h86) \* 100
    \o <<\hE8, 8, 0>>                             \* 10F call 11A
    \o <<\hCD, \h21>> \o <<\h72, 1, \h73, \hFE>>  \* 112 int 21h; jc; jnc $
    \o <<\h90, \h90>>                             \* 118
    \o Mov(CX, 3) \o <<\h49, \h75, \hFD>> \o <<\hC3>>  \* 11A dec cx; jnz; ret
    \o <<\h40, \h48>> \o <<\hE9, 0, 0>> \o Iret   \* 121

\* Division of dx:ax by cx: <<signed, dx, ax, cx>>, quotients that fit.
Divide(s, hi, lo, d) ==
    Mov(SP, \h200) \o Mov(AX, \h11C) \o Store(0) \o Mov(AX, 0) \o Store(2)      \* 100
    \o Mov(DX, hi) \o Mov(AX, lo) \o Mov(CX, d)                                 \* 10F
    \o <<\hF7, IF s THEN \hF9 ELSE \hF1>> \o Stop                               \* 118
    \o Iret                                                                     \* 11C
UnsignedCases == {<<0, 0, 1>>, <<0, 65535, 1>>, <<0, 7, 7>>, <<0, 7, 8>>, <<1, 0, 2>>,
                  <<32766, 65535, 32767>>, <<999, 12345, 65535>>, <<0, 5, 0>>}
SignedCases   == {<<0, 7, 2>>, <<65535, 65529, 2>>, <<65535, 65535, 1>>, <<65280, 0, 32767>>,
                  <<0, 32767, 32767>>, <<65535, 0, 2>>, <<65535, 32768, 1>>,
                  <<0, 7, 65534>>, <<65535, 65529, 65534>>, <<65535, 40000, 32768>>}

MCPrograms ==
    {Main, Interrupts_, Modes, Borders, Strings, Ports_, Calls}
    \cup {Divide(FALSE, x[1], x[2], x[3]) : x \in UnsignedCases}
    \cup {Divide(TRUE, x[1], x[2], x[3]) : x \in SignedCases}
=============================================================================
