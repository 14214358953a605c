---------------------------- MODULE MCClientPool ----------------------------
(* TLC instances of ClientPool.  Threads of one kind are interchangeable in *)
(* the safety run.                                                          *)
EXTENDS ClientPool, TLC

CONSTANTS w1, w2, c1, c2, a1, a2, s1, s2

OneWorker == {w1}
TwoWorkers == {w1, w2}
OneCaller == {c1}
TwoCallers == {c1, c2}
OneAsync == {a1}
TwoAsync == {a1, a2}
TwoSync == {s1, s2}
LastBad == {a2, s2}
NoReqs == {}

Symmetry == Permutations(Workers) \cup Permutations(Callers)
=============================================================================
