---------------------------- MODULE Harness8088 ----------------------------
(***************************************************************************)
(* The board of Xt in main.cpp: the program clocks the simulated machine   *)
(* and is its RAM.  Each tick is half a clock; the harness does the same   *)
(* after both edges, and the pins it looks at change only at the rising    *)
(* one, so one step stands for the two.                                    *)
(*                                                                         *)
(* Xt follows which cell a byte read came from; here is what was written   *)
(* there.  The video RAM is half as large as the window it is seen *)
(* through, and a write to the window goes to the RAM of the harness too.  *)
(***************************************************************************)
EXTENDS Xt

CONSTANT
    DisplaySel    \* the 4 KB from B0000 that dump_display saves

ASSUME HarnessAssumption == DisplaySel \subseteq PhysAddr \ BiosSel

VARIABLES
    memory,       \* memory_t
    vram,         \* of cga_vram
    asked         \* history: [ram, video] as the EU's finished writes left them

harnessVars == <<xtVars, memory, vram, asked>>

-----------------------------------------------------------------------------
(* memory_t. *)

InitialMemory == [a \in PhysAddr |-> <<"fill", \hCC>>]

read(a) == memory[a]
write(mem, a, byte) == [mem EXCEPT ![a] = byte]
writeBlock(mem, block) == [a \in PhysAddr |-> IF a \in DOMAIN block THEN block[a] ELSE mem[a]]
dump_display == [a \in DisplaySel |-> read(a)]

-----------------------------------------------------------------------------
(* cpu_t::tick, and the video RAM in the rising edge before it. *)

oSramWe_AnySpace == ~selectBios /\ oMemW_AnySpace
oSramWe == ~selectBios /\ oMemW

tick == memory' = IF oSramWe' THEN write(memory, cpuAddr', pin'.data) ELSE memory

VideoWrite ==
    vram' = IF cpuAddr \in VramSel /\ oMemW THEN [vram EXCEPT ![Cell(cpuAddr)] = pin.data]
            ELSE vram

\* What the write the EU has raised makes of the RAM and the video RAM.
Writing == cmd.req = 1 /\ cmd.code \in {"MWR8", "MWR16", "SWR16"}
Bytes == [a \in {Wanted(n) : n \in IF IsWord(cmd.code) THEN {0, 1} ELSE {0}} |->
             IF a = Wanted(0) THEN LoByte(dataout) ELSE HiByte(dataout)]
InVideo(c) == {a \in DOMAIN Bytes \cap VramSel : Cell(a) = c}
AsAsked ==
    [ram   |-> [a \in PhysAddr |-> IF a \in DOMAIN Bytes \ BiosSel THEN Bytes[a] ELSE asked.ram[a]],
     video |-> [c \in 0 .. VramSize - 1 |->
                  IF InVideo(c) = {} THEN asked.video[c] ELSE Bytes[CHOOSE a \in InVideo(c) : TRUE]]]
TrackWrites == asked' = IF Writing /\ cmd'.req = 0 THEN AsAsked ELSE asked

-----------------------------------------------------------------------------
\* The far jump at FFFF0, where the BIOS hides it.
ResetVector == [a \in PhysSpace - Para .. PhysSpace - 1 |-> <<"vector", a>>]

HarnessInit ==
    /\ XtInit
    /\ memory = writeBlock(InitialMemory, ResetVector)
    /\ vram = [c \in 0 .. VramSize - 1 |-> Junk]
    /\ asked = [ram |-> memory, video |-> vram]

HarnessNext == XtNext /\ tick /\ VideoWrite /\ TrackWrites

HarnessSpec == HarnessInit /\ [][HarnessNext]_harnessVars

-----------------------------------------------------------------------------
(* Properties. *)

\* Whenever the loop ends, the memory of the harness, the display it saves and
\* the video RAM are what the EU's finished writes made of them, but for bytes
\* of the one write under way that have already arrived; ports and the BIOS
\* are never written through.
MemoryIsAsWritten ==
    /\ \A a \in PhysAddr : read(a) # asked.ram[a] => Writing /\ read(a) = AsAsked.ram[a]
    /\ \A c \in DOMAIN vram : vram[c] # asked.video[c] => Writing /\ vram[c] = AsAsked.video[c]
    /\ ~Writing => dump_display = [a \in DisplaySel |-> asked.ram[a]]

(* The inductive invariant behind it, with that of the board, for words that *)
(* lie within a 64K block.                                                  *)

\* The BIU counts in the low 16 bits of the physical address only: the second
\* byte of a word across the end of a 64K block goes to the start of the block.
WritesStayInBlock == Writing => WithinBlock

\* What a cell can hold, apart from what the CPU writes.
Cells == (Space \cup {"fill", "vector"}) \X Nat
MemoryType ==
    /\ memory \in [PhysAddr -> Cells] /\ vram \in [0 .. VramSize - 1 -> Cells]
    /\ asked \in [ram : [PhysAddr -> Cells], video : [0 .. VramSize - 1 -> Cells]]

\* Byte n of the write under way has been on the bus in this state of its cycle.
Arrived(n, first) ==
    /\ Writing /\ (n = 1 => IsWord(cmd.code))
    /\ \/ Told
       \/ OwnCycle /\ byte_num > n
       \/ OwnCycle /\ byte_num = n /\ biu_state \in first .. \h45

\* A byte that has been on the bus is where it was to go.
ArrivedIsWritten ==
    \A n \in Bit :
      /\ Arrived(n, \h1A) /\ Wanted(n) \notin BiosSel
           => read(Wanted(n)) = AsAsked.ram[Wanted(n)]
      /\ Arrived(n, \h1B) /\ Wanted(n) \in VramSel
           => vram[Cell(Wanted(n))] = AsAsked.video[Cell(Wanted(n))]

MemoryInv == MemoryType /\ MemoryIsAsWritten /\ ArrivedIsWritten
=============================================================================
