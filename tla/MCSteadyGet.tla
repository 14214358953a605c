---------------------------- MODULE MCSteadyGet ----------------------------
(* TLC instances of SteadyGet: uploads of different sizes to one name and    *)
(* two processes that download it.                                           *)
EXTENDS SteadyGet, TLC

CONSTANTS p1, p2, g1, g2

TwoUploads == {p1, p2}
TwoDownloads == {g1, g2}
SizesOfTwo == p1 :> 1 @@ p2 :> 2

Symmetry == Permutations(Downloads)
=============================================================================
