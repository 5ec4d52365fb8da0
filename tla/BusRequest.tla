----------------------------- MODULE BusRequest -----------------------------
(***************************************************************************)
(* What the BIU promises the EU, with no clock and no pins: a request gets *)
(* the bus cycles of its kind, one per byte, then one acknowledgement, and *)
(* nothing else may be asked for until it is released.                     *)
(***************************************************************************)
EXTENDS Naturals

CONSTANTS
    Code,           \* the kinds of request
    Cycles(_)       \* how many bus cycles a kind needs: 0, 1 or 2

VARIABLES
    asked,          \* a request is raised
    code,           \* its kind
    cycles,         \* the bus cycles it has had
    acked           \* the EU has been, or is being, told it is done

vars == <<asked, code, cycles, acked>>

TypeOK == /\ asked \in BOOLEAN /\ acked \in BOOLEAN
          /\ code \in Code /\ cycles \in 0 .. 2

Init == ~asked /\ ~acked /\ code \in Code /\ cycles = 0

Raise(c) == /\ ~asked
            /\ asked' = TRUE /\ code' = c /\ cycles' = 0
            /\ UNCHANGED acked

\* A bus cycle that is not the last of its request.
Cycle == /\ asked /\ ~acked /\ cycles + 1 < Cycles(code)
         /\ cycles' = cycles + 1
         /\ UNCHANGED <<asked, code, acked>>

\* The last bus cycle, if there is any, and the acknowledgement.
Finish == /\ asked /\ ~acked
          /\ cycles + 1 = Cycles(code) \/ cycles = Cycles(code)
          /\ cycles' = Cycles(code) /\ acked' = TRUE
          /\ UNCHANGED <<asked, code>>

Release == /\ asked /\ acked
           /\ asked' = FALSE /\ acked' = FALSE /\ cycles' = 0
           /\ UNCHANGED code

Next == (\E c \in Code : Raise(c)) \/ Cycle \/ Finish \/ Release

\* A request is served; that it is then released is up to the EU.
Spec == Init /\ [][Next]_vars /\ WF_vars(Cycle \/ Finish)
=============================================================================
