----------------------------- MODULE MCVariables -----------------------------
(* Variables in two frames of one lambda below a third one, for TLC. *)
EXTENDS Variables, TLC

CONSTANTS p1, p2, outer, in1, in2, x, y, v

TwoProcs    == {p1, p2}
ThreeFrames == {outer, in1, in2}
TwoNames    == {x, y}

\* in1 and in2 are frames of the same lambda, inside of outer.
Nesting == Global :> << >> @@ outer :> <<outer>>
           @@ in1 :> <<in1, outer>> @@ in2 :> <<in2, outer>>
Lambda  == outer :> "outer" @@ in1 :> "inner" @@ in2 :> "inner"

\* x is a parameter of the outer lambda, y is nobody's.
Parameters == [outer |-> <<x>>, inner |-> << >>]

Call(k, e, n, w, c) ==
    [kind |-> k, env |-> e, name |-> n, val |-> w, compiles |-> c]
Look(e, n)      == Call("reference", e, n, v, TRUE)
Assign(e, n)    == Call("assignment", e, n, v, TRUE)
Undo(e, n)      == Call("assignment", e, n, Unassigned, FALSE)
Define(e, n)    == Call("definition", e, n, v, FALSE)

\* p1 defines y in all frames, p2 in the outer one, and the code of both uses
\* it; both put a new x in the way of the parameter, and only p2 runs the code
\* that uses x.
BothDefine == p1 :> {Define(in1, x), Define(in1, y), Define(outer, y),
                     Define(Global, y), Look(in2, y)}
           @@ p2 :> {Look(in1, x), Look(outer, x), Look(in1, y), Assign(in2, y),
                     Undo(in1, y), Define(in1, x), Define(outer, y)}

\* Both processors run the code that uses x.
BothLook == p1 :> {Look(in1, x)} @@ p2 :> {Look(in2, x)}

=============================================================================
