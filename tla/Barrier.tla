------------------------------- MODULE Barrier -------------------------------
(***************************************************************************)
(* What a synchronizer promises the processors of the machine: a barrier   *)
(* that is used once, and that a processor waiting at it may leave again   *)
(* and come back to (to serve an interrupt) as long as it has not opened.  *)
(* Nobody passes before everybody is there.                                *)
(***************************************************************************)
EXTENDS Naturals

CONSTANT Procs

VARIABLES place,   \* place[p]: "outside", "waiting" at the barrier, or "through"
          open     \* the barrier has opened

vars == <<place, open>>

Places == {"outside", "waiting", "through"}

Init == /\ place = [p \in Procs |-> "outside"]
        /\ open = FALSE

Enter(p) == /\ place[p] = "outside"
            /\ ~open
            /\ place' = [place EXCEPT ![p] = "waiting"]
            /\ UNCHANGED open

BackOut(p) == /\ place[p] = "waiting"
              /\ ~open
              /\ place' = [place EXCEPT ![p] = "outside"]
              /\ UNCHANGED open

Open == /\ \A p \in Procs : place[p] = "waiting"
        /\ ~open
        /\ open' = TRUE
        /\ UNCHANGED place

Pass(p) == /\ place[p] = "waiting"
           /\ open
           /\ place' = [place EXCEPT ![p] = "through"]
           /\ UNCHANGED open

Next == \/ Open
        \/ \E p \in Procs : Enter(p) \/ BackOut(p) \/ Pass(p)

Spec == Init /\ [][Next]_vars

=============================================================================
