-------------------------------- MODULE MyDiv --------------------------------
(***************************************************************************)
(* The divider of the V188 (MyDiv.v): 32 bits by 16, one bit of the        *)
(* quotient a clock, started and answered by toggles.  The dividend is the *)
(* pair of words <<hi, lo>>.                                               *)
(***************************************************************************)
EXTENDS Bytes188

\* Two's complement: 16'd0 - w.
Neg16(w) == (Word - w) % Word

\* 32'd0 - {hi, lo}, for a dividend whose sign bit is set.
Neg32(hi, lo) == (Word - 1 - hi) * Word + (Word - lo)

sign(hi, num) == (hi >= Msb) # (num >= Msb)
pos_denom(hi, lo, s) == IF s /\ hi >= Msb THEN Neg32(hi, lo) ELSE hi * Word + lo
pos_num(num, s) == IF s /\ num >= Msb THEN Neg16(num) ELSE num

DivInit == [run_out |-> 0, v |-> 0, bm |-> 0, phase |-> 0, q |-> 0, r |-> 0,
            m |-> 0, res |-> 0]

\* res | m, for an m of one bit or none.
OrBit(res, m) == IF m = 0 \/ (res \div m) % 2 = 1 THEN res ELSE res + m

\* Does the divisor, shifted, fit in what is left of the dividend?
Fitting_Greater(d) == d.phase # 16 /\ d.v > d.bm
Fitting(d) == d.phase # 16 /\ d.v >= d.bm

\* A clock of a division under way: one bit in each of 16, the answer in the
\* 17th.  q and r follow res and v a clock late.
DivRun(d, hi, num, s) ==
    LET neg  == s /\ sign(hi, num)
        fits == Fitting(d)
    IN [d EXCEPT
          !.q = IF neg THEN Neg16(d.res) ELSE d.res,
          !.r = IF neg THEN Neg16(d.v % Word) ELSE d.v % Word,
          !.run_out = IF d.phase = 16 THEN 1 - @ ELSE @,
          !.res = IF fits THEN OrBit(@, d.m) ELSE @,
          !.v   = IF fits THEN @ - d.bm ELSE @,
          !.bm  = IF d.phase # 16 THEN @ \div 2 ELSE @,
          !.m   = IF d.phase # 16 THEN @ \div 2 ELSE @,
          !.phase = (@ + 1) % 32]

\* A clock at rest: the operands are taken.
DivLoad(d, hi, lo, num, s) ==
    [d EXCEPT !.v = pos_denom(hi, lo, s), !.res = 0, !.m = Msb,
              !.bm = pos_num(num, s) * Msb, !.phase = 0]

DivClock(d, hi, lo, num, s, run_in) ==
    IF run_in # d.run_out THEN DivRun(d, hi, num, s) ELSE DivLoad(d, hi, lo, num, s)
=============================================================================
