------------------------------ MODULE MCAttempt ------------------------------
(* TLC instances of Attempt: one thread, or two, may call cancel().         *)
EXTENDS Attempt

CONSTANTS k1, k2

OneCanceller == {k1}
TwoCancellers == {k1, k2}
=============================================================================
