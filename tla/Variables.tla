------------------------------ MODULE Variables ------------------------------
(***************************************************************************)
(* The variables of interpreted code (uc/lookup.h and uc/lookup.c).  A     *)
(* variable object of the code, shared by all processors, remembers the    *)
(* path by which its name was found, for the next evaluation; DEFINE may   *)
(* put a binding in the way at any time.  Bindings that are shadowed then  *)
(* are "dangerous": who finds one looks the name up again (a deep lookup). *)
(*                                                                         *)
(* A word is read or written in one step.  Who stores into a value cell    *)
(* holds its lock from the read to the store, so that is one step too; the *)
(* two words of a variable object are read without its lock.  The vectors  *)
(* and pairs of auxiliary bindings never change once they are visible, and *)
(* one step searches the bindings of a frame.                              *)
(***************************************************************************)
EXTENDS Naturals, Sequences, FiniteSets, SequencesExt

CONSTANTS Procs,      \* the processors
          Frames,     \* the environment frames
          Global,     \* the global environment
          Chain,      \* Chain[f]: f, its parent, and so on below Global
          Code,       \* Code[f]: the lambda expression f is a frame of
          Formals,    \* Formals[l]: the formal parameters of a lambda
          Names,      \* the names of variables
          Values,     \* what programs store, Unassigned perhaps
          Arg,        \* what arguments are before they are assigned
          Unassigned, Unbound, Junk,
          Calls,      \* Calls[p]: what processor p may ask for
          MaxCalls,   \* how many calls each of them makes
          Chunk,      \* AUX_CHUNK_SIZE
          MaxFull     \* how often the heap may be full

Envs == Frames \cup {Global}

ASSUME EnvironmentAssumption ==
    /\ Global \notin Frames
    /\ Chain \in [Envs -> Seq(Frames)] /\ Chain[Global] = << >>
    /\ \A f \in Frames : Len(Chain[f]) > 0 /\ Chain[f][1] = f
    /\ \A f \in Frames : \A i \in DOMAIN Chain[f] :
          Chain[Chain[f][i]] = SubSeq(Chain[f], i, Len(Chain[f]))
    /\ \A f \in Frames : Formals[Code[f]] \in Seq(Names) /\ IsInjective(Formals[Code[f]])
    /\ IsFiniteSet(Names) /\ Names \cap Nat = {}
    /\ Chunk \in Nat \ {0} /\ MaxCalls \in Nat /\ MaxFull \in Nat

\* The frames of a lambda are inside of frames of the lambda around it.
ASSUME LexicalAssumption ==
    \A e, f \in Frames : Code[e] = Code[f] =>
        /\ Len(Chain[e]) = Len(Chain[f])
        /\ \A i \in DOMAIN Chain[e] : Code[Chain[e][i]] = Code[Chain[f][i]]

Lambdas == {Code[f] : f \in Frames}

AuxFirst     == 4     \* AUX_LIST_FIRST
Position(s, n) == SelectInSeq(s, LAMBDA m : m = n)
FormalWord(f, n) == 1 + Position(Formals[Code[f]], n)

\* A value cell is a word of a frame, or the cdr of the pair of a name.
Words == 0 .. AuxFirst + Cardinality(Names)
Cells == (Frames \X (Words \cup Names)) \cup ({Global} \X Names)

\* The bottom bit of the kind of a trap, and what is behind the trap.
Plain(v)     == [danger |-> FALSE, val |-> v]
Dangerous(v) == [danger |-> TRUE, val |-> v]
Placeholder  == Dangerous(Unbound)        \* DANGEROUS_UNBOUND_OBJECT
Contents     == [danger : BOOLEAN, val : Values \cup {Arg, Unassigned, Unbound, Junk}]

Kinds     == {"reference", "assignment", "definition"}
CallTypes == [kind : Kinds, env : Envs, name : Names, val : Values, compiles : BOOLEAN]

ASSUME CallAssumption ==
    /\ Calls \in [Procs -> SUBSET CallTypes]
    /\ \A p \in Procs : \A k \in Calls[p] :
          k.compiles => k.kind # "definition" /\ k.env \in Frames
    /\ Unbound \notin Values

Free == "free"                \* nobody has locked the variable object
ASSUME LockAssumption == Free \notin Procs

VARIABLES hunk,     \* hunk[l, n]: the two words of the variable object
          holder,   \* holder[l, n]: who has locked it
          cell,     \* what is in every value cell
          aux,      \* aux[f]: the auxiliary bindings of f, and room for more
          pc, call, \* what each processor does, and is asked for
          loc,      \* its local variables
          pend,     \* pend[p][i]: what extend_frame has seen in frame i
          made,     \* how many calls it has begun
          full,     \* how often the heap was full
          seen,     \* history: the cells the call could have meant so far
          apart     \* history: definitions have always been apart

shared == <<hunk, holder, cell, aux>>
own    == <<pc, call, loc, pend, made>>
history == <<seen, apart>>
vars   == <<shared, own, full, history>>

Hunks       == Lambdas \X Names
Uncompiled  == <<"uncompiled", 0>>        \* UNCOMPILED_VARIABLE
Compiled    == {"local", "formal", "aux", "global"}
NoCall      == [kind |-> "none"]
NoLocals    == [word |-> Uncompiled, off |-> 0, i |-> 1, cell |-> <<Global, 0>>,
                shadowed |-> FALSE]
NoSeen      == [room |-> 0, count |-> 0]

Labels == {"idle", "type", "offset", "verify", "end", "deep", "storeType",
           "storeOffset", "deepEnd", "uncompile", "uncompiled", "extend",
           "ensure", "search", "add", "recache", "definition", "redefine", "done"}

TypeOK == /\ \A h \in Hunks :
                /\ hunk[h].word = Uncompiled \/ hunk[h].word \in Compiled \X Nat
                /\ hunk[h].off \in Words
                /\ holder[h] \in Procs \cup {Free}
          /\ cell \in [Cells -> Contents]
          /\ \A f \in Frames : /\ aux[f].names \in Seq(Names)
                               /\ Len(aux[f].names) <= aux[f].room
          /\ pc \in [Procs -> Labels]
          /\ \A p \in Procs : /\ call[p] \in Calls[p] \cup {NoCall}
                              /\ loc[p].cell \in Cells \cup {<<Global, 0>>}
          /\ made \in [Procs -> 0 .. MaxCalls]
          /\ full \in 0 .. MaxFull
          /\ apart \in BOOLEAN

\* A global variable is unbound until it is defined.
Init == /\ hunk = [h \in Hunks |-> [word |-> Uncompiled, off |-> 0]]
        /\ holder = [h \in Hunks |-> Free]
        /\ cell = [c \in Cells |->
                     Plain(IF c[1] = Global THEN Unbound
                           ELSE IF \E n \in ToSet(Formals[Code[c[1]]]) :
                                      c[2] = FormalWord(c[1], n)
                           THEN Arg ELSE Junk)]
        /\ aux = [f \in Frames |-> [room |-> 0, names |-> << >>]]
        /\ pc = [p \in Procs |-> "idle"]
        /\ call = [p \in Procs |-> NoCall]
        /\ loc = [p \in Procs |-> NoLocals]
        /\ pend = [p \in Procs |-> << >>]
        /\ made = [p \in Procs |-> 0]
        /\ full = 0
        /\ seen = [p \in Procs |-> {}]
        /\ apart = TRUE

-----------------------------------------------------------------------------
(* Bindings *)

IsFormal(f, n) == n \in ToSet(Formals[Code[f]])
HasAux(f, n)   == n \in ToSet(aux[f].names)

\* Where frame f binds n; a placeholder there is no real binding.
CellIn(f, n) == IF HasAux(f, n) THEN <<f, n>> ELSE <<f, FormalWord(f, n)>>
Binds(f, n)  == \/ IsFormal(f, n)
                \/ HasAux(f, n) /\ cell[<<f, n>>] # Placeholder

\* The binding of n that is seen from e: what every lookup is to find.
Visible(e, n) ==
    LET at == SelectInSeq(Chain[e], LAMBDA f : Binds(f, n))
    IN  IF at = 0 THEN <<Global, n>> ELSE CellIn(Chain[e][at], n)

\* A bug: an assignment that forgets that the binding is shadowed.
StoredPlain(c, v) == Plain(v)

\* An assignment of v keeps the danger, and is an error if c is unbound.
Stored(c, v) == [c EXCEPT !.val = v]
Traps(c)     == c.danger \/ c.val \in {Unassigned, Unbound}

-----------------------------------------------------------------------------
(* Control *)

Set(f, p, x)   == [f EXCEPT ![p] = x]
Goto(p, to)    == pc' = Set(pc, p, to)
Local(p, r)    == loc' = Set(loc, p, r)
Write(c, x)    == cell' = Set(cell, c, x)
At(p, label)   == pc[p] = label
Hunk(p)        == <<Code[call[p].env], call[p].name>>
Here(p)        == Chain[call[p].env][loc[p].i]        \* the frame p looks at
AtTop(p)       == loc[p].i > Len(Chain[call[p].env])  \* or the global one
Assigns(p)     == call[p].kind = "assignment"

Entry(k) == IF k.kind = "definition" THEN "extend"
            ELSE IF k.compiles THEN "type" ELSE "deep"

\* A call of Lex_Ref, Lex_Set (with a variable object), Symbol_Lex_Ref,
\* Symbol_Lex_Set (with a symbol), or Local_Set.
Begin(p) ==
    /\ At(p, "idle") /\ made[p] < MaxCalls
    /\ made' = Set(made, p, made[p] + 1)
    /\ \E k \in Calls[p] : call' = Set(call, p, k) /\ Goto(p, Entry(k))
    /\ UNCHANGED <<shared, loc, pend, full>>

Return(p) ==
    /\ At(p, "done")
    /\ Goto(p, "idle")
    /\ call' = Set(call, p, NoCall) /\ Local(p, NoLocals)
    /\ pend' = Set(pend, p, << >>)
    /\ UNCHANGED <<shared, made, full>>

\* GC_allocate_test fails: PRIM_INTERRUPT, and the call starts again after
\* the collection.
Interrupted(p) ==
    /\ full < MaxFull /\ full' = full + 1
    /\ Goto(p, Entry(call[p])) /\ Local(p, NoLocals)
    /\ pend' = Set(pend, p, << >>)
    /\ UNCHANGED <<call, made>>
Restart(p) == Interrupted(p) /\ UNCHANGED shared

-----------------------------------------------------------------------------
(* The macro lookup, by way of the variable object *)

ReadType(p) ==
    /\ At(p, "type")
    /\ LET w == hunk[Hunk(p)].word IN
         \/ /\ w = Uncompiled
            /\ Goto(p, "deep") /\ UNCHANGED loc
         \/ /\ w[1] = "global"
            /\ Goto(p, "end")
            /\ Local(p, [loc[p] EXCEPT !.cell = <<Global, call[p].name>>])
         \/ /\ w[1] = "local"
            /\ Goto(p, "end")
            /\ Local(p, [loc[p] EXCEPT !.cell = <<call[p].env, w[2]>>])
         \/ /\ w[1] \in {"formal", "aux"}
            /\ Goto(p, "offset") /\ Local(p, [loc[p] EXCEPT !.word = w])
    /\ UNCHANGED <<shared, call, pend, made, full>>

\* verify reads the second word ...
ReadOffset(p) ==
    /\ At(p, "offset")
    /\ Goto(p, "verify")
    /\ Local(p, [loc[p] EXCEPT !.off = hunk[Hunk(p)].off])
    /\ UNCHANGED <<shared, call, pend, made, full>>

\* The name in entry off of the auxiliary bindings; other words of the
\* vector are no pairs with a name in their car.
AuxEntry(f, off) == LET i == off - AuxFirst + 1
                    IN  IF off >= AuxFirst /\ i <= Len(aux[f].names)
                        THEN {aux[f].names[i]} ELSE {}

\* ... and starts again if the type code is not the same any more.  Both
\* read depth from the first word, and lookup_aux checks what it has found.
Verify(p) ==
    /\ At(p, "verify")
    /\ LET w == loc[p].word
           f == Chain[call[p].env][w[2] + 1]
           found(c) == Goto(p, "end") /\ Local(p, [loc[p] EXCEPT !.cell = c])
       IN
         \/ /\ hunk[Hunk(p)].word[1] # w[1]
            /\ Goto(p, "type") /\ UNCHANGED loc
         \/ /\ hunk[Hunk(p)].word[1] = w[1] /\ w[1] = "formal"
            /\ found(<<f, loc[p].off>>)
         \/ /\ hunk[Hunk(p)].word[1] = w[1] /\ w[1] = "aux"
            /\ IF call[p].name \in AuxEntry(f, loc[p].off)
               THEN found(<<f, call[p].name>>)
               ELSE Goto(p, "deep") /\ UNCHANGED loc
    /\ UNCHANGED <<shared, call, pend, made, full>>

\* A bug: the value of a dangerous binding is taken as it is.
FetchValueAtOnce(p) ==
    /\ At(p, "end") /\ ~Assigns(p)
    /\ Goto(p, "done")
    /\ UNCHANGED <<shared, call, loc, pend, made, full>>

\* lookup_end, and TC_VARIABLE in the interpreter.
FetchValue(p) ==
    /\ At(p, "end") /\ ~Assigns(p)
    /\ Goto(p, IF cell[loc[p].cell].danger THEN "deep" ELSE "done")
    /\ UNCHANGED <<shared, call, loc, pend, made, full>>

\* assignment_end, and RC_EXECUTE_ASSIGNMENT_FINISH in the interpreter.
StoreValue(p) ==
    /\ At(p, "end") /\ Assigns(p)
    /\ LET c == cell[loc[p].cell] IN
         \/ c.danger /\ Goto(p, "deep") /\ UNCHANGED cell
         \/ /\ ~c.danger /\ Goto(p, "done")
            /\ IF c.val = Unbound THEN UNCHANGED cell
               ELSE Write(loc[p].cell, Stored(c, call[p].val))
    /\ UNCHANGED <<hunk, holder, aux, call, loc, pend, made, full>>

-----------------------------------------------------------------------------
(* deep_lookup *)

\* The path it stores for a binding of n in frame i of the chain.
PathWord(f, i, n) == IF HasAux(f, n) THEN <<"aux", i - 1>>
                     ELSE IF i = 1 THEN <<"local", FormalWord(f, n)>>
                     ELSE <<"formal", i - 1>>
PathOffset(f, i, n) == IF HasAux(f, n) THEN AuxFirst - 1 + Position(aux[f].names, n)
                       ELSE IF i = 1 THEN 0 ELSE FormalWord(f, n)

Found(p, c, w, off) ==
    /\ Goto(p, IF call[p].compiles THEN "storeType" ELSE "deepEnd")
    /\ Local(p, [loc[p] EXCEPT !.cell = c, !.word = w, !.off = off, !.i = 1])

\* A placeholder sends it on to the next frame.
SearchFrame(p) ==
    /\ At(p, "deep")
    /\ LET n == call[p].name IN
         \/ /\ AtTop(p)
            /\ Found(p, <<Global, n>>, <<"global", 0>>, 0)
         \/ /\ ~AtTop(p) /\ Binds(Here(p), n)
            /\ Found(p, CellIn(Here(p), n), PathWord(Here(p), loc[p].i, n),
                     PathOffset(Here(p), loc[p].i, n))
         \/ /\ ~AtTop(p) /\ ~Binds(Here(p), n)
            /\ Local(p, [loc[p] EXCEPT !.i = @ + 1]) /\ UNCHANGED pc
    /\ UNCHANGED <<shared, call, pend, made, full>>

\* The two words are stored one after the other, with the lock.
StoreWord(p, from, to, word) ==
    /\ At(p, from) /\ holder[Hunk(p)] = Free
    /\ hunk' = [hunk EXCEPT ![Hunk(p)].word = word]
    /\ holder' = Set(holder, Hunk(p), p)
    /\ Goto(p, to)
    /\ UNCHANGED <<cell, aux, call, loc, pend, made, full>>

StoreOff(p, from, to, off) ==
    /\ At(p, from)
    /\ hunk' = [hunk EXCEPT ![Hunk(p)].off = off]
    /\ holder' = Set(holder, Hunk(p), Free)
    /\ Goto(p, to)
    /\ UNCHANGED <<cell, aux, call, loc, pend, made, full>>

StoreType(p)   == StoreWord(p, "storeType", "storeOffset", loc[p].word)
StoreOffset(p) == StoreOff(p, "storeOffset", "deepEnd", loc[p].off)

-----------------------------------------------------------------------------
(* deep_lookup_end, deep_assignment_end *)

AfterDeep(p, c) ==
    IF c /\ call[p].compiles THEN "uncompile" ELSE "done"

DeepFetch(p) ==
    /\ At(p, "deepEnd") /\ ~Assigns(p)
    /\ Goto(p, AfterDeep(p, cell[loc[p].cell].danger))
    /\ UNCHANGED <<shared, call, loc, pend, made, full>>

\* Only a dangerous trap that has no value yet needs a new object.
NeedsTrap(c, v) == c.danger /\ c.val \in {Unassigned, Unbound} /\ v # Unassigned

DeepStore(p) ==
    /\ At(p, "deepEnd") /\ Assigns(p)
    /\ LET c == cell[loc[p].cell] IN
         \/ /\ c.val = Unbound
            /\ Goto(p, AfterDeep(p, TRUE))
            /\ UNCHANGED <<shared, call, loc, pend, made, full>>
         \/ /\ c.val # Unbound
            /\ Write(loc[p].cell, Stored(c, call[p].val))
            /\ Goto(p, AfterDeep(p, c.danger))
            /\ UNCHANGED <<hunk, holder, aux, call, loc, pend, made, full>>
         \/ c.val # Unbound /\ NeedsTrap(c, call[p].val) /\ Restart(p)

\* The reference was dangerous: the next one starts with a deep lookup.
Uncompile(p)    == StoreWord(p, "uncompile", "uncompiled", Uncompiled)
UncompileOff(p) == StoreOff(p, "uncompiled", "done", 0)

-----------------------------------------------------------------------------
(* Local_Set: extend_frame, which calls itself for the frames above *)

IsOriginal(p) == loc[p].i = 1
DefCell(p)    == IF AtTop(p) THEN <<Global, call[p].name>>
                 ELSE CellIn(Here(p), call[p].name)

\* The end of the inner call: PRIM_DONE, to the frame below.
Down(p) == Goto(p, "add") /\ Local(p, [loc[p] EXCEPT !.i = @ - 1])

\* What is found is defined again, or shadowed by the new binding.
Redefines(p) ==
    /\ Goto(p, "redefine")
    /\ Local(p, [loc[p] EXCEPT !.cell = DefCell(p)])
    /\ UNCHANGED <<shared, call, pend, made, full>>

Dangerize(p) ==
    LET c == cell[DefCell(p)] IN
    \/ /\ Write(DefCell(p), Dangerous(c.val))
       /\ Down(p)
       /\ UNCHANGED <<hunk, holder, aux, call, pend, made, full>>
    \/ ~Traps(c) /\ Restart(p)

Existing(p) == \/ IsOriginal(p) /\ Redefines(p)
               \/ ~IsOriginal(p) /\ Dangerize(p)

\* The global environment, and the formals.
ExtendBound(p) ==
    /\ At(p, "extend")
    /\ ~AtTop(p) => IsFormal(Here(p), call[p].name)
    /\ Existing(p)

ExtendAux(p) ==
    /\ At(p, "extend")
    /\ ~AtTop(p) /\ ~IsFormal(Here(p), call[p].name)
    /\ Goto(p, "ensure")
    /\ UNCHANGED <<shared, call, loc, pend, made, full>>

\* Guarantee that there is an extension slot, and see how many are in it.
EnsureAux(p) ==
    /\ At(p, "ensure")
    /\ LET f == Here(p)
           room == IF aux[f].room = 0 THEN Chunk ELSE aux[f].room IN
         \/ /\ aux' = [aux EXCEPT ![f].room = room]
            /\ pend' = [pend EXCEPT ![p] = SubSeq(@, 1, loc[p].i - 1) \o
                          <<[room |-> room, count |-> Len(aux[f].names)]>>]
            /\ Goto(p, "search")
            /\ UNCHANGED <<hunk, holder, cell, call, loc, made, full>>
         \/ aux[f].room = 0 /\ Restart(p)

Listed(p) == call[p].name \in
                ToSet(SubSeq(aux[Here(p)].names, 1, pend[p][loc[p].i].count))

\* A placeholder of an inner definition: nothing above is left to shadow.
SearchPlaceholder(p) ==
    /\ At(p, "search") /\ Listed(p) /\ cell[DefCell(p)] = Placeholder
    /\ IF IsOriginal(p)
       THEN /\ Goto(p, "recache")
            /\ Local(p, [loc[p] EXCEPT !.cell = DefCell(p), !.shadowed = TRUE])
       ELSE Down(p)
    /\ UNCHANGED <<shared, call, pend, made, full>>

SearchReal(p) ==
    /\ At(p, "search") /\ Listed(p) /\ cell[DefCell(p)] # Placeholder
    /\ Existing(p)

SearchNothing(p) ==
    /\ At(p, "search") /\ ~Listed(p)
    /\ Goto(p, "extend") /\ Local(p, [loc[p] EXCEPT !.i = @ + 1])
    /\ UNCHANGED <<shared, call, pend, made, full>>

\* A bug: only the vector is compared, not how many bindings are in it.
ChangedVector(p) == pend[p][loc[p].i].room # aux[Here(p)].room

\* Somebody else has defined something here in the meantime.
Changed(p) == LET s == pend[p][loc[p].i] IN
    s # [room |-> aux[Here(p)].room, count |-> Len(aux[Here(p)].names)]

AddRedo(p) ==
    /\ At(p, "add") /\ Changed(p)
    /\ Goto(p, "ensure")
    /\ UNCHANGED <<shared, call, loc, pend, made, full>>

\* A bug: a full vector is filled up even more.
RoomNeededNever(f) == aux[f].room

RoomNeeded(f) == IF Len(aux[f].names) = aux[f].room
                 THEN 2 * aux[f].room ELSE aux[f].room

\* A full vector is replaced by a longer one, which stays when the pair for
\* the name cannot be allocated any more.
AddBinding(p) ==
    /\ At(p, "add") /\ ~Changed(p)
    /\ LET f == Here(p)
           n == call[p].name
           room == RoomNeeded(f) IN
         \/ /\ aux' = [aux EXCEPT ![f] = [room |-> room, names |-> Append(@.names, n)]]
            /\ Write(<<f, n>>, Placeholder)
            /\ IF IsOriginal(p)
               THEN /\ Goto(p, "recache")
                    /\ Local(p, [loc[p] EXCEPT !.cell = <<f, n>>, !.shadowed = FALSE])
               ELSE Down(p)
            /\ UNCHANGED <<hunk, holder, call, pend, made, full>>
         \/ Restart(p)
         \/ /\ room # aux[f].room
            /\ aux' = [aux EXCEPT ![f].room = room]
            /\ Interrupted(p)
            /\ UNCHANGED <<hunk, holder, cell>>

\* compiler_recache finds no compiled code to recache in this module, unless
\* another processor has defined the cell in the meantime.
Recache(p) ==
    /\ At(p, "recache")
    /\ Goto(p, IF cell[loc[p].cell] = Placeholder THEN "definition" ELSE "redefine")
    /\ UNCHANGED <<shared, call, loc, pend, made, full>>

\* A bug: whether a definition below shadows this one makes no difference.
UnshadowedAlways(p) == cell[loc[p].cell] = Placeholder

Unshadowed(p) == ~loc[p].shadowed /\ cell[loc[p].cell] = Placeholder

Definition(p) ==
    /\ At(p, "definition")
    /\ \/ /\ Unshadowed(p)
          /\ Write(loc[p].cell, Plain(call[p].val))
          /\ Goto(p, "done")
       \/ /\ ~Unshadowed(p)
          /\ Goto(p, "redefine") /\ UNCHANGED cell
    /\ UNCHANGED <<hunk, holder, aux, call, loc, pend, made, full>>

\* deep_assignment_end with force.
Redefine(p) ==
    /\ At(p, "redefine")
    /\ LET c == cell[loc[p].cell] IN
         \/ /\ Write(loc[p].cell, Stored(c, call[p].val))
            /\ Goto(p, "done")
            /\ UNCHANGED <<hunk, holder, aux, call, loc, pend, made, full>>
         \/ NeedsTrap(c, call[p].val) /\ Restart(p)

-----------------------------------------------------------------------------

Step(p) ==
    \/ Begin(p) \/ Return(p)
    \/ ReadType(p) \/ ReadOffset(p) \/ Verify(p) \/ FetchValue(p) \/ StoreValue(p)
    \/ SearchFrame(p) \/ StoreType(p) \/ StoreOffset(p) \/ DeepFetch(p) \/ DeepStore(p)
    \/ Uncompile(p) \/ UncompileOff(p)
    \/ ExtendBound(p) \/ ExtendAux(p) \/ EnsureAux(p)
    \/ SearchPlaceholder(p) \/ SearchReal(p) \/ SearchNothing(p)
    \/ AddRedo(p) \/ AddBinding(p)
    \/ Recache(p) \/ Definition(p) \/ Redefine(p)

\* No two processors are defining one name, at the same time, in frames of
\* which one is inside of the other.
Defines(p) == pc[p] \notin {"idle", "done"} /\ call[p].kind = "definition"
DefinitionsApart == \A p, q \in Procs :
    /\ p # q /\ Defines(p) /\ Defines(q) /\ call[p].name = call[q].name
    /\ call[p].env \in ToSet(Chain[call[q].env])
    => call[p].env = call[q].env

\* The cells that were visible to each call while it ran.
Meant(p) == Visible(call[p].env, call[p].name)
Watch == /\ seen' = [p \in Procs |->
               IF pc'[p] = "idle" THEN {}
               ELSE seen[p] \cup {Meant(p)'}]
         /\ apart' = (apart /\ DefinitionsApart')

AllDone == /\ \A p \in Procs : pc[p] = "idle" /\ made[p] = MaxCalls
           /\ UNCHANGED vars

Next == \/ (\E p \in Procs : Step(p)) /\ Watch
        \/ AllDone

Spec == Init /\ [][Next]_vars

-----------------------------------------------------------------------------
(* Properties *)

Parent(f) == IF Len(Chain[f]) = 1 THEN Global ELSE Chain[f][2]

\* While definitions have been apart, a binding made by DEFINE has made the one
\* it shadows dangerous, so that no path in a variable object leads past it
\* unnoticed.  extend_frame "takes care of dangerizing any bindings being
\* shadowed" without that condition, says its comment; but a definition in an
\* inner frame may look for what it shadows before another one adds that.
ShadowedIsDangerous == apart =>
    \A f \in Frames, n \in Names :
        HasAux(f, n) /\ Binds(f, n) => cell[Visible(Parent(f), n)].danger

\* Where the path <<w, off>> for name n leads from frame e: to one cell, or
\* to none when the macro lookup would go on to deep_lookup.
Leads(w, off, e, n) ==
    CASE w[1] = "local"  -> {<<e, w[2]>>}
      [] w[1] = "global" -> {<<Global, n>>}
      [] w[1] = "formal" -> {<<Chain[e][w[2] + 1], off>>}
      [] w[1] = "aux"    -> {<<Chain[e][w[2] + 1], m>> : 
                               m \in AuxEntry(Chain[e][w[2] + 1], off) \cap {n}}
      [] OTHER -> {}

\* While definitions have been apart, a variable object that nobody is changing
\* leads, in every environment its code runs in, to the binding a full search
\* would find there, or to a dangerous one, from which the search starts again.
PathsAreCurrent == apart =>
    \A e \in Frames, n \in Names :
        LET h == <<Code[e], n>> IN
        holder[h] = Free =>
            \A c \in Leads(hunk[h].word, hunk[h].off, e, n) :
                c = Visible(e, n) \/ cell[c].danger

\* While definitions have been apart, a reference or assignment ends at a value
\* cell of its name in one of the frames it sees; if its name meant the same
\* binding all the time, at that.
CallsFindTheirBinding == apart =>
    \A p \in Procs :
        pc[p] = "done" /\ call[p].kind # "definition" =>
            LET n == call[p].name IN
            /\ \/ loc[p].cell = <<Global, n>>
               \/ \E f \in ToSet(Chain[call[p].env]) : loc[p].cell = CellIn(f, n)
            /\ seen[p] = {Meant(p)} => loc[p].cell = Meant(p)

\* A frame never gets two bindings of one name, whoever extends it.
OneBindingEach ==
    \A f \in Frames : /\ IsInjective(aux[f].names)
                      /\ \A n \in Names : ~(HasAux(f, n) /\ IsFormal(f, n))

=============================================================================
