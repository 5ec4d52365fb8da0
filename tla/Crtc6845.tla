----------------------------- MODULE Crtc6845 ------------------------------
(***************************************************************************)
(* The CRT controller of crtc6845.v: two nested counters that run through  *)
(* the characters of a line and the lines of a frame, the sync pulses and  *)
(* blanking they start, and the memory address of the character, with all  *)
(* registers writable while they run.                                      *)
(*                                                                         *)
(* A write strobe lasts many clocks and stores the same byte in each; the  *)
(* write of the address register before it changes nothing else, and is    *)
(* part of it.  The cursor is left out.  Counters keep their own widths,   *)
(* as constants: only a comparison with the sum v_maxscan + v_totaladj is  *)
(* done in five bits, those with a count + 1 are wider and do not wrap.    *)
(***************************************************************************)
EXTENDS Integers

CONSTANTS
    Chars,        \* values of h_count and its registers, 256
    Rows,         \* of v_rowcount, 128
    Scans,        \* of v_scancount, 32
    Syncs,        \* of the two sync counters, 16
    Highs, Lows,  \* of the two halves of start_a, 64 and 256
    Pictures,     \* the registers after configuration, defparam crtc.*
    Writes        \* the writes the program makes: [reg, val]

Addrs == Highs * Lows
Bit   == 0 .. 1
\* The registers, all but those of the cursor.
Registers ==
    [h_total : 0 .. Chars - 1, h_disp : 0 .. Chars - 1,
     h_syncpos : 0 .. Chars - 1, h_syncwidth : 0 .. Syncs - 1,
     v_total : 0 .. Rows - 1, v_totaladj : 0 .. Scans - 1,
     v_disp : 0 .. Rows - 1, v_syncpos : 0 .. Rows - 1,
     v_maxscan : 0 .. Scans - 1, start_hi : 0 .. Highs - 1,
     start_lo : 0 .. Lows - 1]
RegisterWrites ==
         [reg : {"h_total", "h_disp", "h_syncpos"}, val : 0 .. Chars - 1]
    \cup [reg : {"h_syncwidth"}, val : 0 .. Syncs - 1]
    \cup [reg : {"v_total", "v_disp", "v_syncpos"}, val : 0 .. Rows - 1]
    \cup [reg : {"v_totaladj", "v_maxscan"}, val : 0 .. Scans - 1]
    \cup [reg : {"start_hi"}, val : 0 .. Highs - 1]
    \cup [reg : {"start_lo"}, val : 0 .. Lows - 1]

ASSUME CrtcAssumption ==
    /\ {Chars, Rows, Scans, Syncs, Highs, Lows} \subseteq Nat \ {0, 1}
    /\ Pictures \subseteq Registers /\ Writes \subseteq RegisterWrites

VARIABLES
    r,                                          \* the registers
    h_count, hdisp, hs, h_synccount,
    v_scancount, v_rowcount, vdisp, vs, v_synccount,
    ma_rst

hVars == <<h_count, hdisp, hs, h_synccount>>
vVars == <<v_scancount, v_rowcount, vdisp, vs, v_synccount>>
vars  == <<r, hVars, vVars, ma_rst>>

-----------------------------------------------------------------------------
h_end    == h_count = r.h_total
last_row == v_rowcount = r.v_total
row_end  == v_scancount = r.v_maxscan
\* The sum is five bits wide.
LastScan == (r.v_maxscan + r.v_totaladj) % Scans
v_end    == last_row /\ v_scancount = LastScan

display_enable == hdisp = 1 /\ vdisp = 1
start_a  == r.start_hi * Lows + r.start_lo
mem_addr == (start_a + ma_rst + h_count) % Addrs

HCount_Holds ==
    /\ h_count' = IF h_end THEN 0 ELSE IF h_count = Chars - 1 THEN h_count ELSE h_count + 1
    /\ hdisp' = IF h_end THEN 1 ELSE IF h_count + 1 = r.h_disp THEN 0 ELSE hdisp
HCount ==
    /\ h_count' = IF h_end THEN 0 ELSE (h_count + 1) % Chars
    /\ hdisp' = IF h_end THEN 1 ELSE IF h_count + 1 = r.h_disp THEN 0 ELSE hdisp

HSyncStarts == ~h_end /\ h_count + 1 = r.h_syncpos
HSync_FromZero ==
    IF hs = 1 /\ h_synccount = r.h_syncwidth
    THEN hs' = 0 /\ h_synccount' = 0
    ELSE /\ hs' = IF HSyncStarts THEN 1 ELSE hs
         /\ h_synccount' = IF hs = 1 THEN (h_synccount + 1) % Syncs
                           ELSE h_synccount
\* The end of a pulse beats the start of one.
HSync ==
    IF hs = 1 /\ h_synccount = r.h_syncwidth
    THEN hs' = 0 /\ h_synccount' = 1
    ELSE /\ hs' = IF HSyncStarts THEN 1 ELSE hs
         /\ h_synccount' = IF hs = 1 THEN (h_synccount + 1) % Syncs
                           ELSE h_synccount

\* The end of a line: the next line of the row, the next row, or, after the
\* lines of the adjustment, the next frame.
NextScan == /\ v_scancount' = (v_scancount + 1) % Scans
            /\ UNCHANGED <<v_rowcount, vdisp>>
NextRow  == /\ v_scancount' = 0
            /\ v_rowcount' = (v_rowcount + 1) % Rows
            /\ vdisp' = IF v_rowcount + 1 = r.v_disp THEN 0 ELSE vdisp
NextFrame == v_scancount' = 0 /\ v_rowcount' = 0 /\ vdisp' = 1
VCount_AdjustEveryRow ==
    IF v_scancount # LastScan THEN NextScan
    ELSE IF last_row THEN NextFrame ELSE NextRow
VCount ==
    \/ ~last_row /\ ~row_end /\ NextScan
    \/ ~last_row /\ row_end /\ NextRow
    \/ last_row /\ ~v_end /\ NextScan
    \/ v_end /\ NextFrame

VSyncStarts == ~last_row /\ row_end /\ v_rowcount + 1 = r.v_syncpos
VSync_Free ==
    IF vs = 1 /\ v_synccount = Syncs - 1
    THEN vs' = 0 /\ v_synccount' = 0
    ELSE /\ vs' = IF VSyncStarts THEN 1 ELSE vs
         /\ v_synccount' = (v_synccount + 1) % Syncs
VSync ==
    IF vs = 1 /\ v_synccount = Syncs - 1
    THEN vs' = 0 /\ v_synccount' = 0
    ELSE /\ vs' = IF VSyncStarts THEN 1 ELSE vs
         /\ v_synccount' = IF vs = 1 THEN v_synccount + 1 ELSE v_synccount

\* The address of the row: kept at 0 all through the last line of a frame,
\* and advanced at the end of a row.
RowAddress_EveryLine ==
    ma_rst' = IF v_end THEN 0
              ELSE IF h_end THEN (ma_rst + r.h_disp) % Addrs
              ELSE ma_rst
RowAddress ==
    ma_rst' = IF v_end THEN 0
              ELSE IF h_end /\ row_end THEN (ma_rst + r.h_disp) % Addrs
              ELSE ma_rst

\* A clock with divclk, the clock of a character.
Character ==
    /\ HCount /\ HSync /\ RowAddress
    /\ IF h_end THEN VCount /\ VSync ELSE UNCHANGED vVars

Init ==
    /\ r \in Pictures
    /\ h_count = 0 /\ hdisp = 1 /\ hs = 0 /\ h_synccount = 1
    /\ v_scancount = 0 /\ v_rowcount = 0 /\ vdisp = 1 /\ vs = 0 /\ v_synccount = 0
    /\ ma_rst = 0

Write == \E w \in Writes : r' = [r EXCEPT ![w.reg] = w.val]
\* A write falls in the clock of a character or between two of them.
Next == \/ Character /\ (Write \/ UNCHANGED r)
        \/ Write /\ UNCHANGED <<hVars, vVars, ma_rst>>

Spec == Init /\ [][Next]_vars

\* Every register and every counter holds a value of its width.
TypeOK ==
    /\ r \in Registers
    /\ h_count \in 0 .. Chars - 1 /\ h_synccount \in 0 .. Syncs - 1
    /\ v_scancount \in 0 .. Scans - 1 /\ v_rowcount \in 0 .. Rows - 1
    /\ v_synccount \in 0 .. Syncs - 1 /\ ma_rst \in 0 .. Addrs - 1
    /\ {hdisp, hs, vdisp, vs} \subseteq Bit
=============================================================================
