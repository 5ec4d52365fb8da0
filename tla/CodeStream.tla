----------------------------- MODULE CodeStream -----------------------------
(***************************************************************************)
(* What the prefetch queue promises, whatever the bus does: the EU reads   *)
(* the code bytes of its segment one after the other, starting where the   *)
(* last jump sent it.  Between a load of CS and the jump that follows, the *)
(* stream is stale: what it buffers is of no use.                          *)
(***************************************************************************)
EXTENDS Naturals, Sequences

CONSTANTS
    Size,           \* the bytes that can be buffered
    Offsets,        \* instruction pointers are 0 .. Offsets-1
    Segment,        \* values of CS
    Code(_, _)      \* the code byte of a segment and an offset

VARIABLES
    cs, ip,         \* CS and the offset of the next byte to read
    buffer,         \* the bytes read ahead
    stale

vars == <<cs, ip, buffer, stale>>

At(n) == Code(cs, (ip + n) % Offsets)

TypeOK == /\ cs \in Segment /\ ip \in 0 .. Offsets - 1
          /\ stale \in BOOLEAN /\ Len(buffer) <= Size

Init == cs \in Segment /\ ip = 0 /\ buffer = <<>> /\ stale = TRUE

\* A byte arrives: the next one of the stream, unless the stream is stale.
Arrives == /\ Len(buffer') = Len(buffer) + 1
           /\ SubSeq(buffer', 1, Len(buffer)) = buffer
           /\ stale = TRUE \/ buffer'[Len(buffer')] = At(Len(buffer))

Deliver == /\ Len(buffer) < Size /\ Arrives
           /\ UNCHANGED <<cs, ip, stale>>

\* The EU pops a byte; another may arrive in the same clock.
Pop == /\ buffer # <<>> /\ ip' = (ip + 1) % Offsets
       /\ \/ buffer' = Tail(buffer)
          \/ /\ Len(buffer') = Len(buffer)
             /\ SubSeq(buffer', 1, Len(buffer) - 1) = Tail(buffer)
             /\ stale = TRUE \/ buffer'[Len(buffer')] = At(Len(buffer))
       /\ UNCHANGED <<cs, stale>>

\* A load of CS makes the stream stale; a byte may arrive in the same clock.
LoadCs(s) == /\ cs' = s /\ stale' = TRUE /\ ip' = ip
             /\ buffer' = buffer \/ Arrives

Jump(target) == /\ ip' = target /\ buffer' = <<>> /\ stale' = FALSE
                /\ UNCHANGED cs

Next == \/ Deliver \/ Pop
        \/ \E s \in Segment : LoadCs(s)
        \/ \E target \in 0 .. Offsets - 1 : Jump(target)

Spec == Init /\ [][Next]_vars
=============================================================================
