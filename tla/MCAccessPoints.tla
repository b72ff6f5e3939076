--------------------------- MODULE MCAccessPoints ---------------------------
(* AccessPoints for TLC.  Access points are model values; their order in    *)
(* access_points is that of SetToSeq, so they are not exchangeable.         *)
EXTENDS AccessPoints
=============================================================================
