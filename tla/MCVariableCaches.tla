-------------------------- MODULE MCVariableCaches --------------------------
(* Compiled code in a frame, in the frame around it, and outside, for TLC. *)
EXTENDS VariableCaches, TLC

CONSTANTS p1, p2, outer, inner, look, put, again, call1, call2, one, two

TwoProcs  == {p1, p2}
TwoFrames == {outer, inner}
Nesting   == Global :> << >> @@ outer :> <<outer>> @@ inner :> <<inner, outer>>

\* Both cells of the frames are in the heap of one processor, the symbol is
\* in that of another one.
Memory == Global :> "heap 1" @@ outer :> "heap 2" @@ inner :> "heap 2"

GlobalOnly == Global :> one @@ outer :> NoBinding @@ inner :> NoBinding

FourRefs == {look, put, call1, call2}
Blocks   == look :> Global @@ put :> inner @@ call1 :> inner @@ call2 :> outer
Uses     == look :> "lookup" @@ put :> "assignment" @@ call1 :> "operator"
            @@ call2 :> "operator"

CacheIt(r)    == [kind |-> "cache", ref |-> r]
Assign(e, n)  == [kind |-> "assign", env |-> e, val |-> n]
Through(r, n) == [kind |-> "compiled", ref |-> r, val |-> n]
DefineIn(e)   == [kind |-> "define", env |-> e, val |-> one]

\* p1 does everything; p2 only caches, in no frame that is below a definition.
OneChanges == p1 :> {CacheIt(r) : r \in {put, call1, call2, look}}
                    \cup {Assign(inner, Unassigned), Assign(inner, two), Through(put, two),
                          DefineIn(outer), DefineIn(inner)}
           @@ p2 :> {CacheIt(look)}

\* A second processor that caches an operator while a value is assigned, or
\* while a definition comes between: two races that no run includes.
AssignRace == p1 :> {Assign(inner, two)} @@ p2 :> {CacheIt(call1)}
DefineRace == p1 :> {DefineIn(inner)} @@ p2 :> {CacheIt(call1)}

FiveAndTwo == p1 :> 5 @@ p2 :> 2

\* Two assignments in compiled code, and two operators.
Callers   == {put, again, call1, call2}
TwoBlocks == put :> outer @@ again :> outer @@ call1 :> inner @@ call2 :> outer
TwoPuts   == put :> "assignment" @@ again :> "assignment" @@ call1 :> "operator"
             @@ call2 :> "operator"
OneOnly   == p1 :> ({CacheIt(r) : r \in Callers} \cup {DefineIn(inner)}) @@ p2 :> {}

=============================================================================
