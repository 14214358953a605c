-------------------------- MODULE MCTempFileServer --------------------------
(* TLC instance of TempFileServer by itself: two uploads of different sizes  *)
(* to one name, and a download.                                              *)
EXTENDS TempFileServer, TLC

CONSTANTS p1, p2, g1

TwoUploads == {p1, p2}
OneDownload == {g1}
SizesOfTwo == p1 :> 1 @@ p2 :> 2
=============================================================================
