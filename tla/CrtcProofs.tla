----------------------------- MODULE CrtcProofs ----------------------------
(***************************************************************************)
(* Theorems of CrtcFrames, for all widths of the counters, all pictures    *)
(* and all register writes, at any clock and in any number.                *)
(***************************************************************************)
EXTENDS CrtcFrames, Remainders, TLAPS

-----------------------------------------------------------------------------
(* Types. *)

\* The fields of the registers.
LEMMA Fields ==
    ASSUME NEW p \in Registers
    PROVE  /\ p.h_total \in 0 .. Chars - 1 /\ p.h_disp \in 0 .. Chars - 1
           /\ p.h_syncwidth \in 0 .. Syncs - 1
           /\ p.v_total \in 0 .. Rows - 1 /\ p.v_totaladj \in 0 .. Scans - 1
           /\ p.v_disp \in 0 .. Rows - 1 /\ p.v_maxscan \in 0 .. Scans - 1
           /\ p.start_hi \in 0 .. Highs - 1 /\ p.start_lo \in 0 .. Lows - 1
BY DEF Registers

\* A write leaves the registers within their widths.
LEMMA WriteKeepsWidths ==
    ASSUME CrtcAssumption, r \in Registers, Write
    PROVE  r' \in Registers
<1>1. PICK w \in RegisterWrites : r' = [r EXCEPT ![w.reg] = w.val]
  BY DEF CrtcAssumption, Write
<1>2. CASE w \in [reg : {"h_total", "h_disp", "h_syncpos"}, val : 0 .. Chars - 1]
  BY <1>1, <1>2 DEF Registers
<1>3. CASE w \in [reg : {"h_syncwidth"}, val : 0 .. Syncs - 1]
  BY <1>1, <1>3 DEF Registers
<1>4. CASE w \in [reg : {"v_total", "v_disp", "v_syncpos"}, val : 0 .. Rows - 1]
  BY <1>1, <1>4 DEF Registers
<1>5. CASE w \in [reg : {"v_totaladj", "v_maxscan"}, val : 0 .. Scans - 1]
  BY <1>1, <1>5 DEF Registers
<1>6. CASE w \in [reg : {"start_hi"}, val : 0 .. Highs - 1]
  BY <1>1, <1>6 DEF Registers
<1>7. CASE w \in [reg : {"start_lo"}, val : 0 .. Lows - 1]
  BY <1>1, <1>7 DEF Registers
<1> QED BY <1>2, <1>3, <1>4, <1>5, <1>6, <1>7 DEF RegisterWrites

\* The widths are positive, and so is that of an address.
LEMMA Widths ==
    ASSUME CrtcAssumption
    PROVE  /\ Chars \in Nat \ {0, 1} /\ Rows \in Nat \ {0, 1}
           /\ Scans \in Nat \ {0, 1} /\ Syncs \in Nat \ {0, 1}
           /\ Lows \in Nat \ {0, 1} /\ Addrs \in Nat \ {0}
<1>1. /\ Chars \in Nat \ {0, 1} /\ Rows \in Nat \ {0, 1}
      /\ Scans \in Nat \ {0, 1} /\ Syncs \in Nat \ {0, 1}
      /\ Highs \in Nat \ {0, 1} /\ Lows \in Nat \ {0, 1}
  BY DEF CrtcAssumption
<1>2. Highs * Lows >= Lows /\ Highs * Lows \in Nat
  BY <1>1
<1> QED BY <1>1, <1>2 DEF Addrs

\* A step of the vertical counter keeps it within its widths.
LEMMA VCountTypes ==
    ASSUME CrtcAssumption, TypeOK, VCount
    PROVE  v_scancount' \in 0 .. Scans - 1 /\ v_rowcount' \in 0 .. Rows - 1
           /\ vdisp' \in Bit
<1> USE Widths, Fields DEF TypeOK, Bit
<1>1. CASE NextScan
  BY <1>1 DEF NextScan
<1>2. CASE NextRow
  BY <1>2 DEF NextRow
<1>3. CASE NextFrame
  BY <1>3 DEF NextFrame
<1> QED BY <1>1, <1>2, <1>3 DEF VCount

\* The clock of a character keeps all counters within their widths.
LEMMA CharacterTypes ==
    ASSUME CrtcAssumption, TypeOK, Character, r' \in Registers
    PROVE  TypeOK'
<1> USE Widths, Fields DEF TypeOK, Bit
<1>1. h_count' \in 0 .. Chars - 1 /\ hdisp' \in Bit
  BY DEF Character, HCount
<1>2. hs' \in Bit /\ h_synccount' \in 0 .. Syncs - 1
  BY DEF Character, HSync
<1>3. ma_rst' \in 0 .. Addrs - 1
  BY DEF Character, RowAddress
<1>4. v_scancount' \in 0 .. Scans - 1 /\ v_rowcount' \in 0 .. Rows - 1
      /\ vdisp' \in Bit
  BY VCountTypes DEF Character, vVars
<1>5. vs' \in Bit /\ v_synccount' \in 0 .. Syncs - 1
  BY DEF Character, VSync, vVars
<1> QED BY <1>1, <1>2, <1>3, <1>4, <1>5

-----------------------------------------------------------------------------
(* Every step is one of three: a character with or without a write, or a   *)
(* write alone.                                                            *)

\* What a step does to the registers and the types.
LEMMA StepTypes ==
    ASSUME CrtcAssumption, TypeOK, FrameNext
    PROVE  TypeOK'
<1>1. r' \in Registers
  BY WriteKeepsWidths DEF FrameNext, FrameTick, FrameWrite, WriteNow, NoWrite, TypeOK
<1>2. CASE FrameTick
  BY <1>1, <1>2, CharacterTypes DEF FrameTick
<1>3. CASE FrameWrite
  BY <1>1, <1>3 DEF FrameWrite, hVars, vVars, TypeOK
<1> QED BY <1>2, <1>3 DEF FrameNext

\* The history keeps its type.
LEMMA StepHistory ==
    ASSUME HistoryType, FrameNext
    PROVE  HistoryType'
<1>1. \E tick \in BOOLEAN : Track(tick)
  BY DEF FrameNext, FrameTick, FrameWrite
<1>2. writes' \in Nat
  <2>1. writes' = writes + 1 \/ writes' = writes
    BY DEF FrameNext, FrameTick, FrameWrite, WriteNow, NoWrite
  <2> QED BY <2>1 DEF HistoryType
<1>3. settled' \in BOOLEAN
  BY <1>1 DEF Track
<1>4. lines' \in Nat /\ vpulse' \in Nat /\ hpulse' \in Nat \cup {-1}
  BY <1>1 DEF Track, HistoryType
<1> QED BY <1>2, <1>3, <1>4 DEF HistoryType

\* The sync timer of a vertical pulse counts its lines.
LEMMA StepVPulse ==
    ASSUME CrtcAssumption, TypeOK, HistoryType, VPulse, FrameNext
    PROVE  VPulse'
<1> USE Widths DEF TypeOK, HistoryType, VPulse, Bit, Track
<1>1. CASE FrameTick /\ h_end
  BY <1>1 DEF FrameTick, Character, VSync
<1>2. CASE FrameTick /\ ~h_end
  BY <1>2 DEF FrameTick, Character, vVars
<1>3. CASE FrameWrite
  BY <1>3 DEF FrameWrite, vVars
<1> QED BY <1>1, <1>2, <1>3 DEF FrameNext

\* The sync timer of a horizontal pulse counts its characters, from 1.
LEMMA StepHPulse ==
    ASSUME CrtcAssumption, TypeOK, HistoryType, HPulse, FrameNext
    PROVE  HPulse'
<1> USE Widths, Fields DEF TypeOK, HistoryType, HPulse, Bit, Track, Width
<1>1. CASE FrameTick
  <2>1. HSync
    BY <1>1 DEF FrameTick, Character
  <2>2. CASE hs = 0
    <3>1. h_synccount' = 1 /\ hpulse' = 0
      BY <1>1, <2>1, <2>2 DEF FrameTick, HSync
    <3>2. 0 < Width' /\ 1 % Syncs = 1
      BY StepTypes, Fields
    <3> QED BY <3>1, <3>2
  <2>3. CASE hs = 1 /\ h_synccount = r.h_syncwidth
    BY <2>1, <2>3 DEF HSync
  <2>4. CASE hs = 1 /\ h_synccount # r.h_syncwidth
    <3>1. hs' = 1 /\ h_synccount' = (h_synccount + 1) % Syncs
      BY <2>1, <2>4 DEF HSync
    <3>2. SUFFICES ASSUME hpulse' # -1
                   PROVE  hpulse' < Width' /\ h_synccount' = (hpulse' + 1) % Syncs
      BY <3>1
    <3>3. /\ hpulse # -1 /\ hpulse' = hpulse + 1 /\ r'.h_syncwidth = r.h_syncwidth
          /\ hpulse \in Nat
      BY <1>1, <2>4, <3>1, <3>2 DEF FrameTick
    <3>4. hpulse < Width /\ h_synccount = (hpulse + 1) % Syncs
      BY <2>4, <3>3
    <3>5. hpulse + 1 < Width
      <4>1. CASE r.h_syncwidth = 0
        BY <2>4, <3>3, <3>4, <4>1
      <4>2. CASE r.h_syncwidth # 0
        BY <2>4, <3>3, <3>4, <4>2
      <4> QED BY <4>1, <4>2
    <3>6. Width <= Syncs
      OBVIOUS
    <3>7. h_synccount = hpulse + 1
      BY <3>3, <3>4, <3>5, <3>6
    <3> QED BY <3>1, <3>3, <3>5, <3>7
  <2> QED BY <2>2, <2>3, <2>4
<1>2. CASE FrameWrite
  BY <1>2 DEF FrameWrite, hVars
<1> QED BY <1>1, <1>2 DEF FrameNext

-----------------------------------------------------------------------------
(* The settled frame. *)

\* Registers of one geometry agree where the picture's shape comes from.
LEMMA SameShape ==
    ASSUME NEW p \in Registers, NEW q \in Registers, Geometry(p) = Geometry(q)
    PROVE  /\ p.h_total = q.h_total /\ p.h_disp = q.h_disp
           /\ p.v_total = q.v_total /\ p.v_totaladj = q.v_totaladj
           /\ p.v_disp = q.v_disp /\ p.v_maxscan = q.v_maxscan
<1> DEFINE g(x) == Geometry(x)
<1>1. \A x \in Registers :
         /\ g(x).h_total = x.h_total /\ g(x).h_disp = x.h_disp
         /\ g(x).v_total = x.v_total /\ g(x).v_totaladj = x.v_totaladj
         /\ g(x).v_disp = x.v_disp /\ g(x).v_maxscan = x.v_maxscan
  BY DEF Geometry, Registers
<1> QED BY <1>1

\* A frame that is settled after a step was settled before it, or starts with
\* it; its shape is that of before the step.
LEMMA SettledStep ==
    ASSUME TypeOK, TypeOK', FrameNext, settled'
    PROVE  /\ r'.h_total = r.h_total /\ r'.h_disp = r.h_disp
           /\ r'.v_total = r.v_total /\ r'.v_totaladj = r.v_totaladj
           /\ r'.v_disp = r.v_disp /\ r'.v_maxscan = r.v_maxscan
           /\ LastScan' = LastScan
           /\ \/ Character /\ FrameStarts /\ lines' = 0
              \/ Character /\ ~FrameStarts /\ settled
                   /\ lines' = IF h_end THEN lines + 1 ELSE lines
              \/ UNCHANGED <<hVars, vVars, ma_rst>> /\ settled /\ lines' = lines
<1>1. r \in Registers /\ r' \in Registers
  BY DEF TypeOK
<1>2. ~Reshaped
  BY DEF FrameNext, FrameTick, FrameWrite, Track
<1>3. /\ r'.h_total = r.h_total /\ r'.h_disp = r.h_disp
      /\ r'.v_total = r.v_total /\ r'.v_totaladj = r.v_totaladj
      /\ r'.v_disp = r.v_disp /\ r'.v_maxscan = r.v_maxscan
  BY <1>1, <1>2, SameShape DEF Reshaped
<1>4. LastScan' = LastScan
  BY <1>3 DEF LastScan
<1>5. ASSUME FrameTick
      PROVE  \/ Character /\ FrameStarts /\ lines' = 0
             \/ Character /\ ~FrameStarts /\ settled
                  /\ lines' = IF h_end THEN lines + 1 ELSE lines
  <2>1. Character /\ Track(TRUE)
    BY <1>5 DEF FrameTick
  <2>2. settled \/ FrameStarts
    BY <2>1 DEF Track
  <2> QED BY <2>1, <2>2 DEF Track
<1>6. ASSUME FrameWrite
      PROVE  UNCHANGED <<hVars, vVars, ma_rst>> /\ settled /\ lines' = lines
  <2>1. UNCHANGED <<hVars, vVars, ma_rst>> /\ Track(FALSE)
    BY <1>6 DEF FrameWrite
  <2> QED BY <2>1 DEF Track
<1> QED BY <1>3, <1>4, <1>5, <1>6 DEF FrameNext

\* The position after a step.
LEMMA StepPosition ==
    ASSUME CrtcAssumption, TypeOK, TypeOK', HistoryType, Position, FrameNext
    PROVE  Position'
<1> SUFFICES ASSUME settled'
             PROVE  /\ (h_count <= r.h_total)' /\ (v_rowcount <= r.v_total)'
                    /\ (v_scancount <= IF last_row THEN LastScan ELSE r.v_maxscan)'
                    /\ (lines = v_rowcount * (r.v_maxscan + 1) + v_scancount)'
  BY DEF Position
<1>1. /\ r'.h_total = r.h_total /\ r'.v_total = r.v_total
      /\ r'.v_maxscan = r.v_maxscan /\ LastScan' = LastScan
  BY SettledStep
<1>2. /\ r \in Registers /\ h_count \in Nat /\ v_scancount \in Nat
      /\ v_rowcount \in 0 .. Rows - 1 /\ lines \in Nat
  BY Widths DEF TypeOK, HistoryType
<1>3. /\ r.h_total \in 0 .. Chars - 1 /\ r.v_total \in 0 .. Rows - 1
      /\ r.v_maxscan \in 0 .. Scans - 1 /\ LastScan \in 0 .. Scans - 1
  BY <1>2, Fields, Widths DEF LastScan
<1>4. CASE Character /\ FrameStarts /\ lines' = 0
  <2>1. h_count' = 0 /\ v_rowcount' = 0 /\ v_scancount' = 0
    BY <1>4 DEF Character, HCount, FrameStarts, VCount, NextFrame, v_end
  <2>2. lines' = v_rowcount' * (r.v_maxscan + 1) + v_scancount'
    BY <1>3, <1>4, <2>1
  <2> QED BY <1>1, <1>3, <2>1, <2>2 DEF last_row
<1>5. CASE UNCHANGED <<hVars, vVars, ma_rst>> /\ settled /\ lines' = lines
  BY <1>1, <1>5 DEF hVars, vVars, Position, last_row
<1>6. CASE /\ Character /\ ~FrameStarts /\ settled
           /\ lines' = IF h_end THEN lines + 1 ELSE lines
  <2>1. h_count <= r.h_total /\ v_rowcount <= r.v_total
    BY <1>6 DEF Position
  <2>6. lines = v_rowcount * (r.v_maxscan + 1) + v_scancount
    BY <1>6 DEF Position
  <2>5. v_scancount <= IF last_row THEN LastScan ELSE r.v_maxscan
    BY <1>6 DEF Position
  <2>2. h_count' <= r.h_total
    <3>1. HCount
      BY <1>6 DEF Character
    <3>2. CASE h_end
      BY <1>3, <3>1, <3>2 DEF HCount
    <3>3. CASE ~h_end
      <4>1. h_count < r.h_total
        <5>1. h_count # r.h_total /\ h_count <= r.h_total
          BY <2>1, <3>3 DEF h_end
        <5>2. h_count \in Int /\ r.h_total \in Int
          BY <1>2, <1>3
        <5> QED BY <5>1, <5>2
      <4>2. (h_count + 1) % Chars = h_count + 1
        BY <1>2, <1>3, <4>1, Widths
      <4> QED BY <1>2, <1>3, <3>1, <3>3, <4>1, <4>2 DEF HCount
    <3> QED BY <3>2, <3>3
  <2>3. CASE ~h_end
    <3>1. UNCHANGED vVars /\ lines' = lines
      BY <1>6, <2>3 DEF Character
    <3> QED BY <1>1, <2>1, <2>2, <2>5, <2>6, <3>1 DEF vVars, last_row
  <2>4. CASE h_end
    <3>1. VCount /\ ~v_end /\ lines' = lines + 1
      BY <1>6, <2>4 DEF Character, FrameStarts
    <3>2. CASE NextScan /\ ~(~last_row /\ row_end)
      <4>1. v_scancount < IF last_row THEN LastScan ELSE r.v_maxscan
        <5>1. CASE last_row
          <6>1. v_scancount # LastScan /\ v_scancount <= LastScan
            BY <2>5, <3>1, <5>1 DEF v_end
          <6>2. v_scancount \in Int /\ LastScan \in Int
            BY <1>2, <1>3
          <6>3. v_scancount < LastScan
            BY <6>1, <6>2
          <6> QED BY <5>1, <6>3
        <5>2. CASE ~last_row
          <6>1. v_scancount # r.v_maxscan /\ v_scancount <= r.v_maxscan
            BY <2>5, <3>2, <5>2 DEF row_end
          <6>2. v_scancount \in Int /\ r.v_maxscan \in Int
            BY <1>2, <1>3
          <6>3. v_scancount < r.v_maxscan
            BY <6>1, <6>2
          <6> QED BY <5>2, <6>3
        <5> QED BY <5>1, <5>2
      <4>2. v_scancount' = v_scancount + 1 /\ v_rowcount' = v_rowcount
        BY <1>2, <1>3, <3>2, <4>1, Widths DEF NextScan
      <4>3. lines' = v_rowcount' * (r.v_maxscan + 1) + v_scancount'
        BY <1>2, <1>3, <2>6, <3>1, <4>2
      <4> QED BY <1>1, <1>2, <1>3, <2>1, <2>2, <4>1, <4>2, <4>3 DEF last_row
    <3>3. CASE NextRow /\ ~last_row /\ row_end
      <4>1. v_rowcount < r.v_total /\ v_scancount = r.v_maxscan
        <5>1. v_rowcount # r.v_total /\ v_rowcount <= r.v_total
          BY <2>1, <3>3 DEF last_row
        <5>2. v_rowcount \in Int /\ r.v_total \in Int
          BY <1>2, <1>3
        <5> QED BY <3>3, <5>1, <5>2 DEF row_end
      <4>2. v_scancount' = 0 /\ v_rowcount' = v_rowcount + 1
        BY <1>2, <1>3, <3>3, <4>1, Widths DEF NextRow
      <4>3. (v_rowcount + 1) * (r.v_maxscan + 1)
              = v_rowcount * (r.v_maxscan + 1) + (r.v_maxscan + 1)
        BY <1>2, <1>3
      <4>4. v_rowcount * (r.v_maxscan + 1) \in Nat
        BY <1>2, <1>3
      <4>5. lines' = v_rowcount' * (r.v_maxscan + 1) + v_scancount'
        BY <1>2, <1>3, <2>6, <3>1, <4>1, <4>2, <4>3, <4>4
      <4> QED BY <1>1, <1>2, <1>3, <2>2, <4>1, <4>2, <4>5 DEF last_row
    <3> QED BY <3>1, <3>2, <3>3 DEF VCount
  <2> QED BY <2>3, <2>4
<1> QED BY <1>4, <1>5, <1>6, SettledStep

\* The blanking after a step.
LEMMA StepBlanking ==
    ASSUME CrtcAssumption, TypeOK, TypeOK', HistoryType, Position, Blanking, FrameNext
    PROVE  Blanking'
<1> SUFFICES ASSUME settled'
             PROVE  /\ (r.h_disp \in 1 .. r.h_total
                         => (hdisp = 1 <=> h_count < r.h_disp))'
                    /\ (r.v_disp \in 1 .. r.v_total
                         => (vdisp = 1 <=> v_rowcount < r.v_disp))'
  BY DEF Blanking
<1>1. /\ r'.h_total = r.h_total /\ r'.v_total = r.v_total
      /\ r'.h_disp = r.h_disp /\ r'.v_disp = r.v_disp
  BY SettledStep
<1>2. /\ r \in Registers /\ h_count \in 0 .. Chars - 1 /\ hdisp \in {0, 1}
      /\ v_rowcount \in 0 .. Rows - 1 /\ vdisp \in {0, 1}
  BY DEF TypeOK, Bit
<1>3. /\ r.h_total \in 0 .. Chars - 1 /\ r.v_total \in 0 .. Rows - 1
      /\ r.h_disp \in 0 .. Chars - 1 /\ r.v_disp \in 0 .. Rows - 1
  BY <1>2, Fields
<1>4. CASE Character /\ FrameStarts
  <2>1. h_count' = 0 /\ hdisp' = 1 /\ v_rowcount' = 0 /\ vdisp' = 1
    BY <1>4 DEF Character, HCount, FrameStarts, VCount, NextFrame, v_end
  <2> QED BY <1>1, <1>3, <2>1
<1>5. CASE UNCHANGED <<hVars, vVars, ma_rst>> /\ settled
  BY <1>1, <1>5 DEF hVars, vVars, Blanking
<1>6. CASE Character /\ ~FrameStarts /\ settled
  <2>1. h_count <= r.h_total /\ v_rowcount <= r.v_total
    BY <1>6 DEF Position
  <2>2. ASSUME r.h_disp \in 1 .. r.h_total
        PROVE  hdisp' = 1 <=> h_count' < r.h_disp
    <3>1. hdisp = 1 <=> h_count < r.h_disp
      BY <1>6, <2>2 DEF Blanking
    <3>2. HCount
      BY <1>6 DEF Character
    <3>3. CASE h_end
      BY <1>3, <2>2, <3>2, <3>3 DEF HCount
    <3>4. CASE ~h_end
      <4>1. h_count' = h_count + 1
        BY <1>2, <1>3, <2>1, <3>2, <3>4, Widths DEF HCount, h_end
      <4> QED BY <1>2, <1>3, <3>1, <3>2, <3>4, <4>1 DEF HCount
    <3> QED BY <3>3, <3>4
  <2>3. ASSUME r.v_disp \in 1 .. r.v_total
        PROVE  vdisp' = 1 <=> v_rowcount' < r.v_disp
    <3>1. vdisp = 1 <=> v_rowcount < r.v_disp
      BY <1>6, <2>3 DEF Blanking
    <3>2. CASE UNCHANGED <<v_rowcount, vdisp>>
      BY <3>1, <3>2
    <3>3. CASE NextRow /\ ~last_row
      <4>1. v_rowcount' = v_rowcount + 1
        BY <1>2, <1>3, <2>1, <3>3, Widths DEF NextRow, last_row
      <4> QED BY <1>2, <1>3, <3>1, <3>3, <4>1 DEF NextRow
    <3> QED BY <1>6, <3>2, <3>3 DEF Character, FrameStarts, VCount, NextScan, vVars
  <2> QED BY <1>1, <2>2, <2>3
<1> QED BY <1>4, <1>5, <1>6, SettledStep

\* The row address after a step.
LEMMA StepRowBase ==
    ASSUME CrtcAssumption, TypeOK, TypeOK', HistoryType, Position, RowBase, FrameNext
    PROVE  RowBase'
<1> SUFFICES ASSUME settled', ~last_row'
             PROVE  (ma_rst = (v_rowcount * r.h_disp) % Addrs)'
  BY DEF RowBase
<1>1. r'.h_disp = r.h_disp /\ r'.v_total = r.v_total
  BY SettledStep
<1>2. /\ r \in Registers /\ v_rowcount \in 0 .. Rows - 1
      /\ r.h_disp \in Nat /\ r.v_total \in 0 .. Rows - 1
  BY Fields, Widths DEF TypeOK
<1>3. CASE Character /\ FrameStarts
  <2>1. v_rowcount' = 0 /\ ma_rst' = 0
    BY <1>3 DEF Character, FrameStarts, VCount, NextFrame, v_end, RowAddress
  <2>2. 0 * r.h_disp = 0 /\ 0 % Addrs = 0
    BY <1>2, Widths
  <2> QED BY <1>1, <2>1, <2>2
<1>4. CASE UNCHANGED <<hVars, vVars, ma_rst>> /\ settled
  BY <1>1, <1>4 DEF vVars, RowBase, last_row
<1>5. CASE Character /\ ~FrameStarts /\ settled
  <2>1. v_rowcount <= r.v_total
    BY <1>5 DEF Position
  <2>2. ~last_row
    <3>1. SUFFICES ASSUME last_row PROVE v_rowcount' = v_rowcount
      BY <1>1 DEF last_row
    <3> QED BY <1>5, <3>1 DEF Character, FrameStarts, VCount, NextScan, vVars
  <2>3. ma_rst = (v_rowcount * r.h_disp) % Addrs
    BY <1>5, <2>2 DEF RowBase
  <2>4. ma_rst' = IF h_end /\ row_end THEN (ma_rst + r.h_disp) % Addrs ELSE ma_rst
    BY <1>5, <2>2 DEF Character, RowAddress, v_end
  <2>5. CASE h_end /\ row_end
    <3>1. v_rowcount' = v_rowcount + 1
      BY <1>2, <1>5, <2>1, <2>2, <2>5, Widths
         DEF Character, VCount, NextRow, last_row, v_end
    <3>2. v_rowcount * r.h_disp \in Nat
          /\ (v_rowcount + 1) * r.h_disp = v_rowcount * r.h_disp + r.h_disp
      BY <1>2
    <3>3. (((v_rowcount * r.h_disp) % Addrs) + r.h_disp) % Addrs
            = (v_rowcount * r.h_disp + r.h_disp) % Addrs
      BY <1>2, <3>2, ModAdd, Widths
    <3> QED BY <1>1, <2>3, <2>4, <2>5, <3>1, <3>2, <3>3
  <2>6. CASE ~(h_end /\ row_end)
    <3>1. v_rowcount' = v_rowcount
      BY <1>5, <2>2, <2>6 DEF Character, VCount, NextScan, v_end, vVars
    <3> QED BY <1>1, <2>3, <2>4, <2>6, <3>1
  <2> QED BY <2>5, <2>6
<1> QED BY <1>3, <1>4, <1>5, SettledStep

-----------------------------------------------------------------------------
(* The invariant. *)

\* After configuration.
LEMMA InitIsOk == CrtcAssumption /\ FrameInit => IInv
<1> SUFFICES ASSUME CrtcAssumption, FrameInit PROVE IInv
  OBVIOUS
<1> USE Widths
<1>1. r \in Registers
  BY DEF FrameInit, Init, CrtcAssumption
<1>2. TypeOK
  BY <1>1 DEF FrameInit, Init, TypeOK, Bit
<1>3. HistoryType /\ VPulse /\ HPulse
  BY DEF FrameInit, Init, HistoryType, VPulse, HPulse
<1>4. LastScan \in Nat /\ r.v_maxscan \in Nat /\ r.h_total \in Nat
      /\ r.v_total \in Nat /\ r.h_disp \in Nat /\ r.v_disp \in Nat
  BY <1>1, Fields DEF LastScan
<1>5. Position
  BY <1>4 DEF FrameInit, Init, Position
<1>6. Blanking
  BY <1>4 DEF FrameInit, Init, Blanking
<1>7. RowBase
  <2>1. 0 * r.h_disp = 0 /\ 0 % Addrs = 0
    BY <1>4
  <2> QED BY <2>1 DEF FrameInit, Init, RowBase
<1> QED BY <1>2, <1>3, <1>5, <1>6, <1>7 DEF IInv

\* Every step keeps it.
LEMMA StepKeeps ==
    ASSUME CrtcAssumption, IInv, [FrameNext]_frameVars
    PROVE  IInv'
<1>1. CASE FrameNext
  BY <1>1, StepTypes, StepHistory, StepVPulse, StepHPulse, StepPosition,
     StepBlanking, StepRowBase DEF IInv
<1>2. CASE UNCHANGED frameVars
  <2>1. UNCHANGED <<r, h_count, hdisp, hs, h_synccount, v_scancount, v_rowcount,
                    vdisp, vs, v_synccount, ma_rst, settled, lines, vpulse,
                    hpulse, writes>>
    BY <1>2 DEF frameVars, vars, hVars, vVars, history
  <2>2. TypeOK' /\ HistoryType' /\ VPulse' /\ HPulse'
    BY <2>1 DEF IInv, TypeOK, HistoryType, VPulse, HPulse, Width
  <2>3. Position' /\ Blanking' /\ RowBase'
    BY <2>1 DEF IInv, Position, Blanking, RowBase, last_row, LastScan
  <2> QED BY <2>2, <2>3 DEF IInv
<1> QED BY <1>1, <1>2

\* The inductive invariant, in every reachable state.
THEOREM Invariance == FrameSpec => []IInv
<1>1. FrameInit => IInv
  BY InitIsOk, CrtcAssumption
<1>2. IInv /\ [FrameNext]_frameVars => IInv'
  BY StepKeeps, CrtcAssumption
<1> QED BY <1>1, <1>2, PTL DEF FrameSpec

\* Each displayed cell of a settled frame comes from its place in memory.
THEOREM PicturesAreRowMajor == FrameSpec => []PictureIsRowMajor
<1>1. IInv => PictureIsRowMajor
  <2> SUFFICES ASSUME IInv, settled, display_enable,
                      r.v_disp \in 1 .. r.v_total, r.h_disp \in 1 .. r.h_total
               PROVE  /\ v_rowcount < r.v_disp /\ v_scancount <= r.v_maxscan
                      /\ h_count < r.h_disp
                      /\ mem_addr = (start_a + v_rowcount * r.h_disp + h_count)
                                      % Addrs
    BY DEF PictureIsRowMajor
  <2>1. v_rowcount < r.v_disp /\ h_count < r.h_disp
    BY DEF IInv, Blanking, display_enable
  <2>2. r \in Registers /\ v_rowcount \in 0 .. Rows - 1 /\ h_count \in 0 .. Chars - 1
    BY DEF IInv, TypeOK
  <2>3. /\ r.v_disp \in Nat /\ r.v_total \in Nat /\ r.h_disp \in Nat
        /\ r.start_hi \in Nat /\ r.start_lo \in Nat
        /\ v_rowcount \in Nat /\ h_count \in Nat /\ Lows \in Nat
        /\ Addrs \in Nat \ {0}
    BY <2>2, Fields, Widths, CrtcAssumption DEF CrtcAssumption
  <2>4. ~last_row
    BY <2>1, <2>3 DEF last_row
  <2>5. v_scancount <= r.v_maxscan
    BY <2>4 DEF IInv, Position
  <2>6. ma_rst = (v_rowcount * r.h_disp) % Addrs
    BY <2>4 DEF IInv, RowBase
  <2>7. v_rowcount * r.h_disp \in Nat /\ start_a \in Nat
    <3>1. r.start_hi * Lows \in Nat
      BY <2>3
    <3> QED BY <2>3, <3>1 DEF start_a
  <2> DEFINE d == start_a + h_count
  <2>8. (((v_rowcount * r.h_disp) % Addrs) + d) % Addrs
          = (v_rowcount * r.h_disp + d) % Addrs
    <3>1. d \in Nat
      BY <2>3, <2>7
    <3> HIDE DEF d
    <3> QED BY <2>3, <2>7, <3>1, ModAdd
  <2>9. /\ start_a + ma_rst + h_count = ma_rst + d
        /\ start_a + v_rowcount * r.h_disp + h_count = v_rowcount * r.h_disp + d
    <3>1. ma_rst \in Nat
      BY <2>3, <2>6, <2>7
    <3> QED BY <2>3, <2>7, <3>1
  <2> QED BY <2>1, <2>5, <2>6, <2>8, <2>9 DEF mem_addr
<1> QED BY <1>1, Invariance, PTL

\* A vertical sync pulse is Syncs lines long.
THEOREM VsyncPulsesLast == FrameSpec => VsyncLasts
<1>1. IInv /\ [FrameNext]_frameVars
        => (vs = 1 /\ vs' = 0 => vpulse = Syncs - 1)
  <2> SUFFICES ASSUME IInv, [FrameNext]_frameVars, vs = 1, vs' = 0
               PROVE  vpulse = Syncs - 1
    OBVIOUS
  <2>1. ~UNCHANGED vVars
    BY DEF vVars
  <2>2. FrameTick /\ h_end
    <3>1. FrameTick
      BY <2>1 DEF FrameNext, FrameWrite, frameVars, vars
    <3> QED BY <2>1, <3>1 DEF FrameTick, Character
  <2>3. v_synccount = Syncs - 1
    BY <2>2 DEF FrameTick, Character, VSync
  <2> QED BY <2>3 DEF IInv, VPulse
<1> QED BY <1>1, Invariance, PTL DEF FrameSpec, VsyncLasts

\* A horizontal sync pulse is as long as the register says.
THEOREM HsyncPulsesLast == FrameSpec => HsyncLasts
<1>1. IInv /\ [FrameNext]_frameVars
        => (hs = 1 /\ hs' = 0 /\ hpulse # -1 =>
              hpulse + 1 = IF r.h_syncwidth = 0 THEN Syncs ELSE r.h_syncwidth)
  <2> SUFFICES ASSUME IInv, [FrameNext]_frameVars, hs = 1, hs' = 0, hpulse # -1
               PROVE  hpulse + 1 = Width
    BY DEF Width
  <2>1. HSync
    BY DEF FrameNext, FrameTick, FrameWrite, Character, hVars, frameVars, vars
  <2>2. h_synccount = r.h_syncwidth
    BY <2>1 DEF HSync
  <2>3. hpulse < Width /\ r.h_syncwidth = (hpulse + 1) % Syncs /\ hpulse \in Nat
    BY <2>2 DEF IInv, HPulse, HistoryType
  <2>4. r.h_syncwidth \in 0 .. Syncs - 1 /\ Syncs \in Nat \ {0, 1}
    BY Fields, Widths, CrtcAssumption DEF IInv, TypeOK
  <2>5. CASE hpulse + 1 = Syncs
    BY <2>3, <2>4, <2>5 DEF Width
  <2>6. CASE hpulse + 1 < Syncs
    BY <2>3, <2>4, <2>6 DEF Width
  <2> QED BY <2>3, <2>4, <2>5, <2>6 DEF Width
<1> QED BY <1>1, Invariance, PTL DEF FrameSpec, HsyncLasts

\* A settled frame has the lines its registers ask for.
THEOREM FramesAreWhole == FrameSpec => FrameIsWhole
<1>1. IInv /\ [FrameNext]_frameVars
        => (FrameTick /\ FrameStarts /\ settled /\ AdjustFits =>
             lines + 1 = (r.v_total + 1) * (r.v_maxscan + 1) + r.v_totaladj)
  <2> SUFFICES ASSUME IInv, FrameStarts, settled, AdjustFits
               PROVE  lines + 1 = (r.v_total + 1) * (r.v_maxscan + 1) + r.v_totaladj
    OBVIOUS
  <2>1. /\ r.v_total \in Nat /\ r.v_maxscan \in Nat /\ r.v_totaladj \in Nat
        /\ Scans \in Nat \ {0}
    BY Fields, Widths, CrtcAssumption DEF IInv, TypeOK
  <2>2. LastScan = r.v_maxscan + r.v_totaladj
    BY <2>1 DEF LastScan, AdjustFits
  <2>3. v_rowcount = r.v_total /\ v_scancount = r.v_maxscan + r.v_totaladj
    BY <2>2 DEF FrameStarts, v_end, last_row
  <2>4. lines = r.v_total * (r.v_maxscan + 1) + (r.v_maxscan + r.v_totaladj)
    BY <2>3 DEF IInv, Position
  <2>5. (r.v_total + 1) * (r.v_maxscan + 1)
          = r.v_total * (r.v_maxscan + 1) + (r.v_maxscan + 1)
    BY <2>1
  <2>6. r.v_total * (r.v_maxscan + 1) \in Nat
    BY <2>1
  <2> QED BY <2>1, <2>4, <2>5, <2>6
<1> QED BY <1>1, Invariance, PTL DEF FrameSpec, FrameIsWhole
=============================================================================
