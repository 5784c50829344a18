---------------------------- MODULE MCSynchronizer ----------------------------
(* Synchronizer on three processors, for TLC. *)
EXTENDS Synchronizer, TLC

CONSTANTS p1, p2, p3

ThreeProcs == {p1, p2, p3}

=============================================================================
