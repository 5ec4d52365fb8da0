---------------------------- MODULE CrtcFrames -----------------------------
(***************************************************************************)
(* What the monitor sees of the CRT controller: Crtc6845 with a history of *)
(* the present frame and of the present sync pulses.                       *)
(***************************************************************************)
EXTENDS Crtc6845

CONSTANT MaxWrites       \* bound: register writes in a behaviour

VARIABLES
    settled,      \* no geometry register written since the frame began
    lines,        \* line ends since then, counted while settled
    vpulse,       \* line ends since vs rose
    hpulse,       \* character clocks since hs rose; -1 after a write of
                  \* h_syncwidth in the pulse
    writes
history   == <<settled, lines, vpulse, hpulse, writes>>
frameVars == <<vars, history>>

\* The start address does not shape the picture.
Geometry(p) == [p EXCEPT !.start_hi = 0, !.start_lo = 0,
                         !.h_syncpos = 0, !.h_syncwidth = 0, !.v_syncpos = 0]
Reshaped == Geometry(r') # Geometry(r)

FrameStarts == h_end /\ v_end
Track(tick) ==
    /\ settled' = (~Reshaped /\ (settled \/ (tick /\ FrameStarts)))
    /\ lines' = IF ~settled' \/ (tick /\ FrameStarts) THEN 0
                ELSE IF tick /\ h_end THEN lines + 1
                ELSE lines
    /\ vpulse' = IF vs' = 0 \/ vs = 0 THEN 0
                 ELSE IF tick /\ h_end THEN vpulse + 1
                 ELSE vpulse
    /\ hpulse' = IF hs' = 0 \/ hs = 0 THEN 0
                 ELSE IF r'.h_syncwidth # r.h_syncwidth \/ hpulse = -1 THEN -1
                 ELSE IF tick THEN hpulse + 1
                 ELSE hpulse

FrameInit == /\ Init /\ settled = TRUE /\ lines = 0 /\ vpulse = 0 /\ hpulse = 0
             /\ writes = 0

WriteNow == writes < MaxWrites /\ Write /\ writes' = writes + 1
NoWrite  == UNCHANGED <<r, writes>>
FrameTick == Character /\ (WriteNow \/ NoWrite) /\ Track(TRUE)
FrameWrite == WriteNow /\ UNCHANGED <<hVars, vVars, ma_rst>> /\ Track(FALSE)
FrameNext == FrameTick \/ FrameWrite

\* divclk comes once in 16 or 32 clocks, for ever.
FrameSpec == FrameInit /\ [][FrameNext]_frameVars /\ WF_frameVars(FrameTick)

-----------------------------------------------------------------------------
\* "Vsync pulse is fixed at 16 scan line times", whatever is written to the
\* registers in the pulse and however often its start comes round in it.
VsyncLasts == [][vs = 1 /\ vs' = 0 => vpulse = Syncs - 1]_frameVars

\* A horizontal pulse lasts h_syncwidth characters, 16 for a width of 0, also
\* over the end of the line and when its own start comes round in it.
HsyncLasts ==
    [][hs = 1 /\ hs' = 0 /\ hpulse # -1 =>
         hpulse + 1 = IF r.h_syncwidth = 0 THEN Syncs ELSE r.h_syncwidth]_frameVars

\* A frame whose geometry was not changed has the rows of v_total and the
\* lines of v_totaladj, as long as the two counts fit in the line counter.
AdjustFits == r.v_maxscan + r.v_totaladj < Scans
FrameIsWhole ==
    [][FrameTick /\ FrameStarts /\ settled /\ AdjustFits =>
         lines + 1 = (r.v_total + 1) * (r.v_maxscan + 1) + r.v_totaladj]_frameVars

\* In such a frame, with a bottom border, the cells of the display are those
\* of the picture and each is fetched from its place in video memory, wherever
\* start_a was moved meanwhile.
PictureIsRowMajor ==
    settled /\ display_enable /\ r.v_disp \in 1 .. r.v_total
            /\ r.h_disp \in 1 .. r.h_total =>
        /\ v_rowcount < r.v_disp /\ v_scancount <= r.v_maxscan
        /\ h_count < r.h_disp
        /\ mem_addr = (start_a + v_rowcount * r.h_disp + h_count) % Addrs

\* Wherever the counters were when the totals were moved below them, once the
\* program lets the registers be the frames go on.
FramesGoOn == <>[][r' = r]_frameVars => []<>FrameStarts

(* The inductive invariant behind the properties above, the last one apart. *)

HistoryType == /\ settled \in BOOLEAN /\ lines \in Nat /\ writes \in Nat
               /\ vpulse \in Nat /\ hpulse \in Nat \cup {-1}

\* The sync counters rest at 0 and at 1, and count the pulse.
Width == IF r.h_syncwidth = 0 THEN Syncs ELSE r.h_syncwidth
VPulse == IF vs = 0 THEN v_synccount = 0 ELSE v_synccount = vpulse
HPulse == IF hs = 0 THEN h_synccount = 1
          ELSE hpulse # -1 => /\ hpulse < Width
                              /\ h_synccount = (hpulse + 1) % Syncs

\* A settled frame is where its lines say it is.
Position ==
    settled => /\ h_count <= r.h_total /\ v_rowcount <= r.v_total
               /\ v_scancount <= IF last_row THEN LastScan ELSE r.v_maxscan
               /\ lines = v_rowcount * (r.v_maxscan + 1) + v_scancount
\* Its blanking and row address follow from its position.
Blanking ==
    settled => /\ r.h_disp \in 1 .. r.h_total
                     => (hdisp = 1 <=> h_count < r.h_disp)
               /\ r.v_disp \in 1 .. r.v_total
                     => (vdisp = 1 <=> v_rowcount < r.v_disp)
RowBase == settled /\ ~last_row => ma_rst = (v_rowcount * r.h_disp) % Addrs

\* The inductive invariant: it holds after configuration, and every clock
\* and every write keeps it.
IInv == TypeOK /\ HistoryType /\ VPulse /\ HPulse /\ Position /\ Blanking /\ RowBase
=============================================================================
