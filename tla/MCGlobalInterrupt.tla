--------------------------- MODULE MCGlobalInterrupt ---------------------------
(* GlobalInterrupt on two or three processors, for TLC. *)
EXTENDS GlobalInterrupt, TLC

CONSTANTS p1, p2, p3

TwoProcs   == {p1, p2}
ThreeProcs == {p1, p2, p3}

=============================================================================
