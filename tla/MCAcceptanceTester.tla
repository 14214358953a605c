------------------------- MODULE MCAcceptanceTester -------------------------
(* TLC instances of AcceptanceTester, with the plan of main(): two           *)
(* synchronous transfers, then two asynchronous ones.                        *)
EXTENDS AcceptanceTester

CONSTANTS w1, w2, a1, a2, s1, s2, main

OneWorker == {w1}
TwoWorkers == {w1, w2}
OnlyMain == {main}
TwoAsync == {a1, a2}
TwoSync == {s1, s2}
NoReqs == {}
FourTransfers == <<s1, s2, a1, a2>>
=============================================================================
