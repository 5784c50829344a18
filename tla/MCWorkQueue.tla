------------------------------ MODULE MCWorkQueue ------------------------------
(* WorkQueue on a few processors and tasks of two priorities, for TLC. *)
EXTENDS WorkQueue, TLC

CONSTANTS p1, p2, t1, t2, t3, t4

TwoProcs  == {p1, p2}
TwoTasks  == {t1, t2}
FourTasks == {t1, t2, t3, t4}

TwoPrios  == t1 :> 5 @@ t2 :> 7

\* t2 comes to the priority of t1, t3 to a lower one; t4 has none.
FourPrios == t1 :> 5 @@ t2 :> 65536 + 5 @@ t3 :> 40000 @@ t4 :> 0

=============================================================================
