------------------------------- MODULE MCFutures -------------------------------
(* Futures on two processors and small programs, for TLC. *)
EXTENDS Futures, TLC

CONSTANTS p1, p2, root, a, b, io

TwoProcs == {p1, p2}
Symmetry == Permutations(TwoProcs)

Shape(r, x, y, z) == root :> r @@ a :> x @@ b :> y @@ io :> z

FourFutures == {root, a, b, io}
OnlyA       == {a}

\* The root spawns a, when it is needed, and b, and touches both; it waits
\* for io like a, and b determines io.
ForkSpawns     == Shape({a, b}, {}, {}, {})
ForkTouches    == Shape({a, b, io}, {io}, {}, {})
ForkDetermines == Shape({}, {}, {io}, {})
ForkKeeps      == Shape({}, {}, {}, {})

\* The root and b also determine a, which may be running or waiting; b keeps
\* the value in the future, so that another one may replace it.
RaceTouches    == Shape({b}, {io}, {}, {})
RaceDetermines == Shape({a}, {}, {a, io}, {})
RaceKeeps      == Shape({}, {}, {a}, {})

=============================================================================
