-------------------------------- MODULE Xt --------------------------------
(***************************************************************************)
(* The board of system.v around the BIU: CpuArbiter turns the pins of the  *)
(* 8088 into four strobes, System decodes the latched address and puts the *)
(* byte of one device on AD_IN.  The EU is the one of BiuSystem.           *)
(*                                                                         *)
(* A byte is labelled with the cell it comes from.  <<"mem", a>> is the    *)
(* BIOS's byte at an address of the BIOS and the RAM's at any other; what  *)
(* the RAM holds under the BIOS, or the ROM repeats elsewhere, is Junk.    *)
(* <<"vram", c>> is cell c of the video RAM, which lies over the RAM, and  *)
(* <<"io", a>> the byte of an I/O device.                                  *)
(***************************************************************************)
EXTENDS BiuSystem

CONSTANTS
    BiosSel,      \* addresses FE000 .. FFFFF, selectBios
    VramSel,      \* addresses B8000 .. BFFFF, bus_mem_cs
    VramSize,     \* bytes of cga_vram: 16 KB, in a window of 32 KB
    PitSel,       \* addresses whose low bits are those of ports 40 .. 43
    CrtcSel,      \* ports 3D0 .. 3D7, crtc_cs
    StatusSel     \* port 3DA, status_cs

\* I/O addresses have the upper address bits clear.
ASSUME DecodeAssumption ==
    /\ BiosSel \subseteq PhysAddr \ Offset /\ VramSel \subseteq PhysAddr \ Offset
    /\ BiosSel \cap VramSel = {}
    /\ PitSel \subseteq PhysAddr /\ CrtcSel \subseteq Offset
    /\ StatusSel \subseteq Offset
    /\ VramSize \in Nat \ {0, 1}
    /\ PitSel \cap (CrtcSel \cup StatusSel) = {} /\ CrtcSel \cap StatusSel = {}

VARIABLES
    biosData,     \* oData of Bios, a register
    isa_dout,     \* the CPU's port of the video RAM, a register
    held          \* history: clocks the present write strobe has been on

xtVars == <<vars, biosData, isa_dout, held>>

-----------------------------------------------------------------------------
(* CpuArbiter: the strobes. *)

oMemW_AnySpace == pin.DTR = 1 /\ pin.WR_n = 0
oMemW == pin.DTR = 1 /\ pin.IOM = 0 /\ pin.WR_n = 0
oIOW  == pin.DTR = 1 /\ pin.IOM = 1 /\ pin.WR_n = 0
oMemR == pin.DEN = 1 /\ pin.IOM = 0 /\ pin.RD_n = 0
oIOR  == pin.DEN = 1 /\ pin.IOM = 1 /\ pin.RD_n = 0

(* System: who drives cpuDataIn. *)

selectBios == cpuAddr \in BiosSel
selectPit  == cpuAddr \in PitSel
selectCga_NoStrobe == \/ cpuAddr \in CrtcSel \cup StatusSel /\ oIOR
                      \/ cpuAddr \in VramSel
\* bus_dir of the CGA card.
selectCga  == \/ cpuAddr \in CrtcSel \cup StatusSel /\ oIOR
              \/ cpuAddr \in VramSel /\ oMemR
cgaDataR   == IF cpuAddr \in VramSel THEN isa_dout ELSE <<"io", cpuAddr>>
pitDataR   == <<"io", cpuAddr>>
\* The RAM answers whenever nobody else is selected, under the BIOS with
\* bytes that are not the BIOS's.
ramDataR   == IF selectBios THEN Junk ELSE <<"mem", cpuAddr>>

cpuDataIn_NoBios == IF selectCga               THEN cgaDataR
                    ELSE IF selectPit /\ oIOR  THEN pitDataR
                    ELSE ramDataR
cpuDataIn == IF selectCga               THEN cgaDataR
             ELSE IF selectBios         THEN biosData
             ELSE IF selectPit /\ oIOR  THEN pitDataR
             ELSE ramDataR

\* The video RAM sees 14 bits of the address.
Cell(a) == a % VramSize

Devices ==
    /\ biosData' = IF selectBios THEN <<"mem", cpuAddr>> ELSE Junk
    /\ isa_dout' = IF cpuAddr \in VramSel /\ oMemR /\ ~oMemW THEN <<"vram", Cell(cpuAddr)>>
                   ELSE isa_dout
    /\ held' = IF oMemW \/ oIOW THEN held + 1 ELSE 0

-----------------------------------------------------------------------------
XtInit == Init /\ biosData = Zero /\ isa_dout = Junk /\ held = 0

\* READY is tied high, and the interrupt inputs low.
XtNext == /\ EuStep /\ LatchDone /\ TrackCs /\ Board /\ Devices
          /\ BiuClock(CLK, 1, cpuDataIn)

XtSpec == XtInit /\ [][XtNext]_xtVars

-----------------------------------------------------------------------------
(* Properties. *)

\* A memory read returns the BIOS's byte in the BIOS's range and the RAM's byte
\* everywhere else: the ROM's register has caught up with the address when the
\* BIU samples, and no other device is on the bus.  So it is in the window of
\* the video RAM too: oMemR falls with DEN in state 28, the card lets go of the
\* bus before the BIU samples in 3D, and the byte is that of the RAM below,
\* which is written together with the video RAM.
MemReadIsAnswered ==
    cmd.code \in {"MRD8", "MRD16", "SRD16", "VRD16"} => ReadIsAnswered

\* So every code byte the BIU queues is the BIOS's or the RAM's at its address,
\* across the border of the two too, and in the video window it is the RAM's.
CodeIsAnswered == QueueHoldsCode

\* A write strobe is for the write the EU has pending, at its address and of
\* its byte, on the memory or on the I/O side as asked.
XtWriteIsAsAsked ==
    (oMemW \/ oIOW) /\ s_bits # "halt" /\ WithinBlock =>
        /\ cmd.req = 1 /\ ~Acked /\ cpuAddr = Wanted(byte_num)
        /\ pin.data = IF byte_num = 1 THEN HiByte(dataout) ELSE LoByte(dataout)
        /\ oIOW <=> cmd.code \in {"IOWR8", "IOWR16"}
        /\ oMemW <=> cmd.code \in {"MWR8", "MWR16", "SWR16"}

\* A write strobe is one pulse of 44 clocks per byte, the states 1A to 45:
\* what a device that acts on every clock of the strobe has to live with.
StrobeClocks == \h45 - \h1A + 1
WriteStrobeLength ==
    [][(oMemW \/ oIOW) /\ ~(oMemW \/ oIOW)' => held = StrobeClocks - 1]_xtVars

(* The inductive invariant behind these, with that of the BIU. *)

MemoryReads == {"MRD8", "MRD16", "SRD16", "VRD16"}

\* READY reaches the last of its registers before the first bus cycle; the ROM
\* has seen the address when its byte is sampled, and DEN is low by then, so
\* that no strobe selects another device; a write strobe goes on with the
\* states of its cycle.
BoardInv ==
    /\ biosData \in Byte /\ isa_dout \in Byte /\ held \in Nat
    /\ \A i \in 1 .. 3 : ready_d[i] = 1 \/ biu_state \in \hD0 .. \hD0 + i - 1
    /\ biu_state \in \h07 .. \h3E /\ selectBios => biosData = <<"mem", cpuAddr>>
    /\ biu_state \in \h29 .. \h45 => pin.DEN = 0
    /\ pin.WR_n = 0 => held = biu_state - \h1A

XtInv == DataInv(MemoryReads) /\ BoardInv

\* system.v says oIOR is "1 io read" and den is "0 data enable": the read
\* data of a port is on AD_IN when the BIU samples it.
PortReadIsAnswered ==
    Acked /\ cmd.code = "IORD8" /\ s_bits # "code"
          /\ Wanted(0) \in PitSel \cup CrtcSel \cup StatusSel
        => biu_return_d[2] = ReadData
=============================================================================
