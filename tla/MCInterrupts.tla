---------------------------- MODULE MCInterrupts ---------------------------
EXTENDS Interrupts

\* What PUSHF and the interrupts push: bits 15:12 set, bit 5 clear.
PushedImages == [i : Bit, t : Bit, n : {1}, d : {0}]
=============================================================================
