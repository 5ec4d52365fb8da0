----------------------------- MODULE BiuRefines -----------------------------
(***************************************************************************)
(* The clocked BIU implements the two abstract specifications of what it   *)
(* promises the EU.                                                        *)
(***************************************************************************)
EXTENDS BiuSystem

BusCycles(code) == IF code = "JUMP" THEN 0 ELSE IF IsWord(code) THEN 2 ELSE 1
\* The bus cycles a request has had: those of its kind when it is told, until
\* then the number of the byte of the one it is in.
Busy      == biu_state \notin {0} \cup (\h46 .. \h4E)
CyclesHad == IF cmd.req = 0 THEN 0
             ELSE IF Told THEN BusCycles(cmd.code)
             ELSE IF eu_biu_req_caught = 1 /\ Busy THEN byte_num ELSE 0

Request == INSTANCE BusRequest WITH
    Code   <- ReqCode,
    Cycles <- BusCycles,
    asked  <- cmd.req = 1,
    code   <- cmd.code,
    acked  <- Told,
    cycles <- CyclesHad
\* The entries in the queue, the top one first.
Buffer == [i \in 1 .. Occupancy |-> pfq_entry[Slot(pfq_addr_out + i - 1)]]

Stream == INSTANCE CodeStream WITH
    Size    <- 4,
    Offsets <- AddrSpace,
    Segment <- Offset,
    Code    <- LAMBDA s, x : <<"mem", Phys(s, x)>>,
    cs      <- biu_register["cs"],
    ip      <- pfq_addr_out,
    buffer  <- Buffer,
    stale   <- cs_dirty

\* A request is given exactly the bus cycles of its kind and is told once,
\* whatever the state machine was in the middle of when it was raised.
RequestIsServedOnce == Request!Init /\ [][Request!Next]_(Request!vars)

\* What the EU pops is the stream of code bytes from the target of the last
\* jump on, none lost, repeated or overtaken.
QueueIsAStream == Stream!Spec
=============================================================================
