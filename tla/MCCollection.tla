----------------------------- MODULE MCCollection -----------------------------
(* Collection on two processors and small heaps, for TLC. *)
EXTENDS Collection, TLC

CONSTANTS p1, p2, a, b, c, d, e, w

TwoProcs   == {p1, p2}

\* The weak pair c points to d, that is garbage, and the weak pair w to e, that
\* is reached from a only.  The vector b need not fit in what is left of a
\* heaplet, and the vector e never does.
SixObjects == {a, b, c, d, e, w}
SixFields  == a :> <<b, c>> @@ b :> <<e>> @@ c :> <<w>> @@ d :> <<None>>
              @@ e :> <<None>> @@ w :> <<a>>
SixWeak    == c :> d @@ w :> e @@ [o \in {a, b, d, e} |-> None]
TwoVectors == {b, e}
SixSizes   == b :> 3 @@ d :> 1 @@ e :> 7 @@ [o \in {a, c, w} |-> 2]
TwoRoots   == p1 :> <<a>> @@ p2 :> <<c, w>>

=============================================================================
