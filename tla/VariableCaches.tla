--------------------------- MODULE VariableCaches ---------------------------
(***************************************************************************)
(* The caches of compiled code for one variable name (uc/lookup.c).  A     *)
(* block of compiled code does not look its free variables up: it holds a  *)
(* link to an extension, an object that stands for one binding and keeps   *)
(* its value.  A call through a variable holds a direct link to the        *)
(* procedure that is the value (a "uuo link"), or a fake one while there   *)
(* is none.  An extension lists the blocks that refer to it, so that       *)
(* assignments can update the direct links, and definitions can move those *)
(* links that must lead to the new binding.                                *)
(*                                                                         *)
(* Two kinds of locks are used: those of value cells (Lock_Cell), where    *)
(* all extensions share the lock of the constant space, and the one lock   *)
(* Compiler_Recache_Lock.  A step ends where a processor gives a lock up   *)
(* or begins to wait for the next one.  What DEFINE does to the frames     *)
(* before it takes any of these locks is the subject of module Variables,  *)
(* and is one step here.                                                   *)
(***************************************************************************)
EXTENDS Naturals, Sequences, SequencesExt

CONSTANTS Procs,      \* the processors
          Frames,     \* the environment frames
          Global,     \* the global environment
          Chain,      \* Chain[f]: f, its parent, and so on below Global
          Refs,       \* references to the variable in blocks of code
          EnvOf,      \* EnvOf[r]: the environment of the block of r
          KindOf,     \* KindOf[r]: what the code does with it
          Initial,    \* Initial[e]: the value in frame e, or NoBinding
          Values,     \* what programs store
          Unassigned, Unbound, NoBinding,
          Region,     \* Region[e]: the lock that covers the cell in e
          Ops,        \* Ops[p]: what processor p may ask for
          MaxOps,     \* MaxOps[p]: how many operations p begins
          MaxFull     \* how often the heap may be full

Envs  == Frames \cup {Global}
Kinds == {"lookup", "assignment", "operator"}

Constant == "constant"                   \* the lock of all extensions
Free     == "free"                       \* nobody has the lock; or no handle
Places   == {Region[e] : e \in Envs} \cup {Constant}

Cell(d, v, x) == [danger |-> d, val |-> v, ext |-> x]
Empty         == Cell(FALSE, NoBinding, 0)      \* the frame has no such cell
Placeholder   == Cell(TRUE, Unbound, 0)         \* DANGEROUS_UNBOUND_OBJECT

Link(t, x, v) == [to |-> t, ext |-> x, val |-> v]
Symbol        == Link("symbol", 0, Unbound)     \* not cached yet
Gone          == Link("gone", 0, Unbound)       \* the block has been collected

Trap(v) == v \in {Unassigned, Unbound}

OpTypes == [kind : {"cache"}, ref : Refs]
      \cup [kind : {"assign", "define"}, env : Envs, val : Values \cup {Unassigned}]
      \cup [kind : {"compiled"}, ref : Refs, val : Values]

ASSUME CacheAssumption ==
    /\ Global \notin Frames /\ Constant \notin {Region[e] : e \in Envs}
    /\ Chain \in [Envs -> Seq(Frames)] /\ Chain[Global] = << >>
    /\ \A f \in Frames : Len(Chain[f]) > 0 /\ Chain[f][1] = f
    /\ \A f \in Frames : \A i \in DOMAIN Chain[f] :
          Chain[Chain[f][i]] = SubSeq(Chain[f], i, Len(Chain[f]))
    /\ EnvOf \in [Refs -> Envs] /\ KindOf \in [Refs -> Kinds]
    /\ Initial \in [Envs -> Values \cup {Unassigned, Unbound, NoBinding}]
    /\ Initial[Global] # NoBinding
    /\ NoBinding \notin Values \cup {Unassigned, Unbound}
    /\ Ops \in [Procs -> SUBSET OpTypes] /\ MaxOps \in [Procs -> Nat]
    /\ MaxFull \in Nat
ASSUME LockAssumption == Free \notin Procs \cup Places
\* No program has DANGEROUS_UNBOUND_OBJECT or its like in hand to store it.
ASSUME MarkerAssumption == /\ Unbound \notin Values \cup {Unassigned}
                           /\ \A f \in Frames : Initial[f] # Unbound
\* Compiled code assigns through the links of its assignments only.
ASSUME CompiledAssumption == \A p \in Procs : \A o \in Ops[p] :
                                o.kind = "compiled" => KindOf[o.ref] = "assignment"

VARIABLES cell,     \* the value cell of the variable in every environment
          exts,     \* the extensions: value, clone, lists of references
          link,     \* what is in the block of code of each reference
          holder,   \* who holds the lock of a region
          recache,  \* who holds Compiler_Recache_Lock
          pc, op,   \* what each processor does, and is asked for
          loc,      \* its local variables
          made,     \* how many operations it has begun
          full      \* how often the heap was full

shared == <<cell, exts, link>>
locks  == <<holder, recache>>
own    == <<pc, op, loc, made>>
vars   == <<shared, locks, own, full>>

NoOp    == [kind |-> "none"]
NoLocals == [cell |-> Global, old |-> Global, ext |-> 0, val |-> Unbound,
             new |-> FALSE, deep |-> FALSE, force |-> FALSE, shadowed |-> FALSE,
             h1 |-> Free, h2 |-> Free]

Labels == {"idle", "start", "cLock", "cRecache", "cExt", "aLock", "aExt", "aLinks",
           "dLock", "dRecache", "dExt", "dDefine"}

TypeOK ==
    /\ cell \in [Envs -> [danger : BOOLEAN,
                          val : Values \cup {Unassigned, Unbound, NoBinding},
                          ext : 0 .. Len(exts)]]
    /\ \A i \in DOMAIN exts : /\ exts[i].val \in Values \cup {Unassigned, Unbound}
                              /\ \A r \in UNION {exts[i].refs[k] : k \in Kinds} :
                                    link[r] # Symbol
    /\ \A r \in Refs : link[r] \notin {Symbol, Gone} => link[r].ext \in DOMAIN exts
    /\ holder \in [Places -> Procs \cup {Free}]
    /\ recache \in Procs \cup {Free}
    /\ pc \in [Procs -> Labels]
    /\ \A p \in Procs : op[p] \in Ops[p] \cup {NoOp}
    /\ \A p \in Procs : made[p] \in 0 .. MaxOps[p]
    /\ full \in 0 .. MaxFull

Init == /\ cell = [e \in Envs |-> Cell(FALSE, Initial[e], 0)]
        /\ exts = << >>
        /\ link = [r \in Refs |-> Symbol]
        /\ holder = [x \in Places |-> Free]
        /\ recache = Free
        /\ pc = [p \in Procs |-> "idle"]
        /\ op = [p \in Procs |-> NoOp]
        /\ loc = [p \in Procs |-> NoLocals]
        /\ made = [p \in Procs |-> 0]
        /\ full = 0

-----------------------------------------------------------------------------
(* Bindings and lists of references *)

Binds(e)   == cell[e] \notin {Empty, Placeholder}
Above(e)   == Append(Chain[e], Global)
Visible(e) == LET s == Above(e)
              IN  s[SelectInSeq(s, LAMBDA f : f = Global \/ Binds(f))]

Alive(s)   == {r \in s : link[r] # Gone}
Below(e)   == {r \in Refs : e \in ToSet(Above(EnvOf[r]))}

\* store_variable_cache, make_uuo_link, make_fake_uuo_link.
Cached(i, k, v, clone) ==
    CASE k = "lookup"     -> Link("cache", i, Unbound)
      [] k = "assignment" -> Link(IF clone THEN "clone" ELSE "cache", i, Unbound)
      [] k = "operator"   -> IF Trap(v) THEN Link("fake", i, Unbound)
                                        ELSE Link("direct", i, v)

\* A bug: the first entry is used without a test.
AddOver(s, r) == (IF s = {} THEN s ELSE s \ {CHOOSE d \in s : TRUE}) \cup {r}

\* add_reference uses the entry of a block that is gone, if there is one.
AddReference(s, r) ==
    LET dead == s \ Alive(s)
    IN  (IF dead = {} THEN s ELSE s \ {CHOOSE d \in dead : TRUE}) \cup {r}

-----------------------------------------------------------------------------
(* Control *)

Set(f, p, x)   == [f EXCEPT ![p] = x]
Goto(p, to)    == pc' = Set(pc, p, to)
Local(p, r)    == loc' = Set(loc, p, r)
At(p, label)   == pc[p] = label

\* Lock_Cell: a processor that has locked the region already gets no handle.
CanLock(p, x)   == holder[x] \in {Free, p}
Handle(p, x)    == IF holder[x] = p THEN Free ELSE x
Without(hs)     == [x \in Places |-> IF x \in hs THEN Free ELSE holder[x]]

\* The call ends, and gives up whatever it has locked.
Done(p) ==
    /\ Goto(p, "idle") /\ Local(p, NoLocals)
    /\ op' = Set(op, p, NoOp)
    /\ holder' = Without({loc[p].h1, loc[p].h2})
    /\ recache' = IF recache = p THEN Free ELSE recache
    /\ UNCHANGED <<made, full>>

\* PRIM_INTERRUPT: the call backs out and starts again later.
BackOut(p) ==
    /\ Goto(p, "start") /\ Local(p, NoLocals)
    /\ holder' = Without({loc[p].h1, loc[p].h2})
    /\ recache' = IF recache = p THEN Free ELSE recache
    /\ UNCHANGED <<op, made>>

HeapFull(p) == full < MaxFull /\ full' = full + 1 /\ BackOut(p)

\* bf_cc_lock_or_back_out: gives up when an interrupt is pending.
WaitInterrupted(p) ==
    /\ pc[p] \in {"cRecache", "dRecache"} /\ recache # Free
    /\ BackOut(p)
    /\ UNCHANGED <<shared, full>>

Begin(p) ==
    /\ At(p, "idle") /\ made[p] < MaxOps[p]
    /\ made' = Set(made, p, made[p] + 1)
    /\ \E o \in Ops[p] :
          /\ o.kind = "cache" => link[o.ref] = Symbol
          /\ o.kind = "compiled" => link[o.ref].to \in {"cache", "clone"}
          /\ op' = Set(op, p, o)
    /\ Goto(p, "start")
    /\ UNCHANGED <<shared, locks, loc, full>>

Starts(p, k, to, l) ==
    /\ At(p, "start") /\ op[p].kind = k
    /\ Goto(p, to) /\ Local(p, l)
    /\ UNCHANGED <<shared, locks, op, made, full>>

-----------------------------------------------------------------------------
(* compiler_cache_reference *)

StartCache(p) ==
    Starts(p, "cache", "cLock", [NoLocals EXCEPT !.cell = Visible(EnvOf[op[p].ref])])

\* compiler_cache_consistency_check looks by the path that was found, and
\* deeply only if that leads to a dangerous binding.
Consistent(p) == \/ ~cell[loc[p].cell].danger
                 \/ loc[p].cell = Visible(EnvOf[op[p].ref])

CacheLock(p) ==
    /\ At(p, "cLock") /\ CanLock(p, Region[loc[p].cell])
    /\ \/ /\ Consistent(p)
          /\ holder' = Set(holder, Region[loc[p].cell], p)
          /\ Goto(p, "cRecache")
          /\ Local(p, [loc[p] EXCEPT !.h1 = Handle(p, Region[loc[p].cell])])
       \/ /\ ~Consistent(p)
          /\ Goto(p, "start") /\ Local(p, NoLocals)
          /\ UNCHANGED holder
    /\ UNCHANGED <<shared, recache, op, made, full>>

\* Someone else beat us to this.
CacheBeaten(p) ==
    /\ At(p, "cRecache") /\ recache = Free
    /\ link[op[p].ref] # Symbol
    /\ Done(p)
    /\ UNCHANGED shared

\* The cell is cached already, or becomes so; then its lock is exchanged for
\* that of the extension.
CacheRecache(p) ==
    /\ At(p, "cRecache") /\ recache = Free
    /\ link[op[p].ref] = Symbol
    /\ LET c == cell[loc[p].cell]
           to(x, v, n) ==
             /\ Goto(p, "cExt")
             /\ Local(p, [loc[p] EXCEPT !.ext = x, !.val = v, !.new = n, !.h1 = Free])
             /\ holder' = Without({loc[p].h1})
             /\ recache' = p
             /\ UNCHANGED <<link, op, made, full>>
       IN \/ /\ c.ext # 0
             /\ to(c.ext, Unbound, FALSE)
             /\ UNCHANGED <<cell, exts>>
          \/ /\ c.ext = 0
             /\ exts' = Append(exts, [val |-> c.val, clone |-> FALSE,
                                      refs |-> [k \in Kinds |-> {}]])
             /\ cell' = Set(cell, loc[p].cell, Cell(c.danger, Unbound, Len(exts) + 1))
             /\ to(Len(exts) + 1, c.val, TRUE)
          \/ /\ c.ext = 0
             /\ HeapFull(p)
             /\ UNCHANGED shared

\* A bug: the links of the assignments are left as they are.
FixedNever(i, k, clone) == {}

\* fix_references: with the first operator, the assignments get the clone.
Fixed(i, k, clone) ==
    IF k = "operator" /\ clone /\ ~exts[i].clone
    THEN Alive(exts[i].refs["assignment"]) ELSE {}

NeedsClone(i, k) ==
    \/ k = "assignment" /\ exts[i].refs["operator"] # {}
    \/ k = "operator" /\ exts[i].refs["assignment"] # {}

\* A bug: the reference is added before the room for the link is assured.
CacheHalfDone(p) ==
    /\ exts' = [exts EXCEPT ![loc[p].ext].refs[KindOf[op[p].ref]] = @ \cup {op[p].ref}]
    /\ UNCHANGED <<cell, link>>

\* The heap is tested before anything is changed.
CacheUntouched(p) == UNCHANGED shared

\* What is linked is the value that was in the cell when it was locked, or
\* that of the extension if there was one.
CacheExt(p) ==
    /\ At(p, "cExt") /\ CanLock(p, Constant)
    /\ LET r == op[p].ref
           k == KindOf[r]
           i == loc[p].ext
           v == IF loc[p].new THEN loc[p].val ELSE exts[i].val
           store == NeedsClone(i, k)
           clone == exts[i].clone \/ store
           fixed == Fixed(i, k, store)
           refs == exts[i].refs
       IN \/ /\ exts' = [exts EXCEPT ![i].clone = clone,
                           ![i].refs = [j \in Kinds |->
                              IF j = k THEN AddReference(refs[j], r)
                              ELSE IF j = "assignment" /\ fixed # {} THEN Alive(refs[j])
                              ELSE refs[j]]]
             /\ link' = [s \in Refs |-> IF s = r THEN Cached(i, k, v, store)
                                        ELSE IF s \in fixed
                                        THEN Cached(i, "assignment", v, TRUE) ELSE link[s]]
             /\ Done(p)
             /\ UNCHANGED cell
          \/ /\ ~loc[p].new
             /\ HeapFull(p)
             /\ CacheUntouched(p)

-----------------------------------------------------------------------------
(* Assignments: assignment_end and deep_assignment_end *)

StartAssign(p) ==
    Starts(p, "assign", "aLock", [NoLocals EXCEPT !.cell = Visible(op[p].env)])

\* By compiled code, through its link: a clone is a trap that leads to a
\* deep assignment.
StartCompiled(p) ==
    Starts(p, "compiled", "aExt",
           [NoLocals EXCEPT !.ext = link[op[p].ref].ext,
                            !.deep = link[op[p].ref].to = "clone"])

\* An unbound variable is assigned only by a definition.
Assigned(p, old) == IF old = Unbound /\ ~loc[p].force THEN old ELSE op[p].val

AssignCell(p) ==
    /\ At(p, "aLock") /\ CanLock(p, Region[loc[p].cell])
    /\ LET c == cell[loc[p].cell] IN
         \/ /\ c.danger /\ ~loc[p].deep
            /\ Local(p, [loc[p] EXCEPT !.cell = Visible(op[p].env), !.deep = TRUE])
            /\ UNCHANGED <<shared, locks, pc, op, made, full>>
         \/ /\ c.ext = 0 /\ (c.danger => loc[p].deep)
            /\ cell' = [cell EXCEPT ![loc[p].cell].val = Assigned(p, c.val)]
            /\ Done(p)
            /\ UNCHANGED <<exts, link>>
         \/ /\ c.ext # 0 /\ (c.danger => loc[p].deep)
            /\ Goto(p, "aExt")
            /\ Local(p, [loc[p] EXCEPT !.ext = c.ext,
                           !.deep = @ \/ exts[c.ext].refs["operator"] # {}])
            /\ UNCHANGED <<shared, locks, op, made, full>>

\* A bug: a deep assignment forgets the direct links.
LinksNever(p) == FALSE

\* Are there direct links to bring up to date?
Links(p) == loc[p].deep /\ exts[loc[p].ext].refs["operator"] # {}

\* A simple assignment does not look for operators again here.
AssignExt(p) ==
    /\ At(p, "aExt") /\ CanLock(p, Constant)
    /\ LET i == loc[p].ext
           v == Assigned(p, exts[i].val)
       IN /\ exts' = [exts EXCEPT ![i].val = v]
          /\ \/ /\ Links(p) /\ ~(Trap(v) /\ Trap(exts[i].val))
                /\ holder' = Set(holder, Constant, p)
                /\ Goto(p, "aLinks")
                /\ Local(p, [loc[p] EXCEPT !.val = exts[i].val,
                                           !.h1 = Handle(p, Constant)])
                /\ UNCHANGED <<recache, op, made, full>>
             \/ /\ Links(p) => Trap(v) /\ Trap(exts[i].val)
                /\ Done(p)
    /\ UNCHANGED <<cell, link>>

\* update_uuo_links, which also drops the blocks that are gone, and the clone
\* when there are no direct links any more.
AssignLinks(p) ==
    /\ At(p, "aLinks") /\ recache = Free
    /\ LET i == loc[p].ext
           live == Alive(exts[i].refs["operator"])
           v == exts[i].val
           unclone == live = {} /\ exts[i].clone
           fixed == Alive(exts[i].refs["assignment"])
           refs == exts[i].refs
       IN /\ exts' = [exts EXCEPT ![i].clone = @ /\ ~unclone,
                        ![i].refs = [k \in Kinds |->
                           IF k = "operator" THEN live
                           ELSE IF k = "assignment" /\ unclone THEN fixed ELSE refs[k]]]
          /\ link' = [s \in Refs |->
                        IF s \in live THEN Cached(i, "operator", v, FALSE)
                        ELSE IF unclone /\ s \in fixed
                        THEN Cached(i, "assignment", v, FALSE) ELSE link[s]]
          /\ Done(p)
          /\ UNCHANGED cell

\* The heap is full after some of the links, or an interrupt is pending while
\* the lock is taken: the old value is put back, and the assignment starts
\* again.
AssignReverts(p, done) ==
    LET i == loc[p].ext IN
    /\ exts' = [exts EXCEPT ![i].val = loc[p].val]
    /\ link' = [s \in Refs |-> IF s \in done
                               THEN Cached(i, "operator", exts[i].val, FALSE) ELSE link[s]]
    /\ UNCHANGED cell

LinksFull(p) ==
    /\ At(p, "aLinks") /\ recache = Free
    /\ LET live == Alive(exts[loc[p].ext].refs["operator"]) IN
         \E done \in SUBSET live : done # live /\ AssignReverts(p, done)
    /\ HeapFull(p)

LinksInterrupted(p) ==
    /\ At(p, "aLinks") /\ recache # Free
    /\ AssignReverts(p, {})
    /\ BackOut(p)
    /\ UNCHANGED full

-----------------------------------------------------------------------------
(* Definitions: extend_frame, compiler_recache, definition *)

\* deep_assignment_end with force.
Redefine(p, e) ==
    /\ Goto(p, "aLock")
    /\ Local(p, [NoLocals EXCEPT !.cell = e, !.deep = TRUE, !.force = TRUE])

StartRedefine(p) ==
    /\ At(p, "start") /\ op[p].kind = "define"
    /\ op[p].env = Global \/ Binds(op[p].env)
    /\ Redefine(p, op[p].env)
    /\ UNCHANGED <<shared, locks, op, made, full>>

\* The binding that is shadowed becomes dangerous; the frames up to it get
\* placeholders.
Extend(p) ==
    /\ At(p, "start") /\ op[p].kind = "define"
    /\ LET e == op[p].env
           w == Visible(e)
       IN /\ e # Global /\ ~Binds(e)
          /\ CanLock(p, Region[w])
          /\ cell' = [f \in Envs |->
                        IF f = w THEN [cell[w] EXCEPT !.danger = TRUE]
                        ELSE IF f \in ToSet(Chain[e]) /\ f \notin ToSet(Above(w))
                        THEN Placeholder ELSE cell[f]]
          /\ Goto(p, "dLock")
          /\ Local(p, [NoLocals EXCEPT !.cell = e, !.old = w,
                                       !.shadowed = cell[e] = Placeholder])
    /\ UNCHANGED <<exts, link, locks, op, made, full>>

\* Both cells are locked, in the order of their addresses.
DefineLock(p) ==
    /\ At(p, "dLock")
    /\ LET new == Region[loc[p].cell]
           old == Region[loc[p].old]
       IN
       /\ CanLock(p, new) /\ CanLock(p, old)
       /\ \/ /\ cell[loc[p].cell] # Placeholder
             /\ Redefine(p, loc[p].cell)
             /\ UNCHANGED holder
          \/ /\ cell[loc[p].cell] = Placeholder /\ cell[loc[p].old].ext = 0
             /\ Goto(p, "dDefine")
             /\ UNCHANGED <<holder, loc>>
          \/ /\ cell[loc[p].cell] = Placeholder /\ cell[loc[p].old].ext # 0
             /\ Goto(p, "dRecache")
             /\ holder' = [holder EXCEPT ![new] = p, ![old] = p]
             /\ \E h \in IF new = old THEN {<<Free, new>>, <<new, Free>>} ELSE {<<old, new>>} :
                  Local(p, [loc[p] EXCEPT !.ext = cell[loc[p].old].ext,
                                          !.h1 = h[1], !.h2 = h[2]])
    /\ UNCHANGED <<shared, recache, op, made, full>>

\* The lock of the old cell is exchanged for that of its extension.
DefineRecache(p) ==
    /\ At(p, "dRecache") /\ recache = Free
    /\ recache' = p
    /\ holder' = Without({loc[p].h1})
    /\ Local(p, [loc[p] EXCEPT !.h1 = Free])
    /\ Goto(p, "dExt")
    /\ UNCHANGED <<shared, op, made, full>>

\* A bug: only the references in the frame of the definition move.
MovedHere(p, k) ==
    {r \in Alive(exts[loc[p].ext].refs[k]) : EnvOf[r] = loc[p].cell}

\* compiler_recache_split: the references that see the new binding.
Moved(p, k) == Alive(exts[loc[p].ext].refs[k]) \cap Below(loc[p].cell)
NoneMoved(p) == \A k \in Kinds : Moved(p, k) = {}

\* It drops the blocks that are gone, and puts those to be moved last.
Split(p) == [exts EXCEPT ![loc[p].ext].refs = [k \in Kinds |-> Alive(@[k])]]

\* Nothing to move: an ordinary definition.
DefineNothing(p) ==
    /\ At(p, "dExt") /\ CanLock(p, Constant) /\ NoneMoved(p)
    /\ exts' = Split(p)
    /\ holder' = Without({loc[p].h1, loc[p].h2}) /\ recache' = Free
    /\ Goto(p, "dDefine") /\ Local(p, [loc[p] EXCEPT !.h1 = Free, !.h2 = Free])
    /\ UNCHANGED <<cell, link, op, made, full>>

DefineFull(p) ==
    /\ At(p, "dExt") /\ CanLock(p, Constant) /\ ~NoneMoved(p)
    /\ exts' = Split(p)
    /\ HeapFull(p)
    /\ UNCHANGED <<cell, link>>

\* The new extension is installed when everything has been moved to it.
DefineExt(p) ==
    /\ At(p, "dExt") /\ CanLock(p, Constant) /\ ~NoneMoved(p)
    /\ LET x == Len(exts) + 1
           v == op[p].val
           moved == [k \in Kinds |-> Moved(p, k)]
           clone == moved["operator"] # {} /\ moved["assignment"] # {}
       IN /\ exts' = Append([exts EXCEPT ![loc[p].ext].refs =
                                [k \in Kinds |-> Alive(@[k]) \ moved[k]]],
                             [val |-> v, clone |-> clone, refs |-> moved])
          /\ link' = [r \in Refs |-> IF r \in moved[KindOf[r]]
                                     THEN Cached(x, KindOf[r], v, clone) ELSE link[r]]
          /\ cell' = Set(cell, loc[p].cell, Cell(loc[p].shadowed, Unbound, x))
    /\ Done(p)

Define(p) ==
    /\ At(p, "dDefine") /\ CanLock(p, Region[loc[p].cell])
    /\ \/ /\ ~loc[p].shadowed /\ cell[loc[p].cell] = Placeholder
          /\ cell' = Set(cell, loc[p].cell, Cell(FALSE, op[p].val, 0))
          /\ Done(p)
       \/ /\ loc[p].shadowed \/ cell[loc[p].cell] # Placeholder
          /\ Redefine(p, loc[p].cell)
          /\ UNCHANGED <<cell, locks, op, made, full>>
    /\ UNCHANGED <<exts, link>>

-----------------------------------------------------------------------------

\* The collector empties the weak pairs of a block that nobody has a pointer
\* to, when no processor is in the middle of a call.
Collect(r) ==
    /\ \A p \in Procs : /\ pc[p] \in {"idle", "start"}
                        /\ op[p].kind \in {"cache", "compiled"} => op[p].ref # r
    /\ link[r] \notin {Symbol, Gone}
    /\ link' = Set(link, r, Gone)
    /\ UNCHANGED <<cell, exts, locks, own, full>>

Step(p) ==
    \/ Begin(p) \/ WaitInterrupted(p)
    \/ StartCache(p) \/ CacheLock(p) \/ CacheBeaten(p) \/ CacheRecache(p) \/ CacheExt(p)
    \/ StartAssign(p) \/ StartCompiled(p) \/ AssignCell(p) \/ AssignExt(p)
    \/ AssignLinks(p) \/ LinksFull(p) \/ LinksInterrupted(p)
    \/ StartRedefine(p) \/ Extend(p) \/ DefineLock(p) \/ DefineRecache(p)
    \/ DefineNothing(p) \/ DefineFull(p) \/ DefineExt(p) \/ Define(p)

AllDone == /\ \A p \in Procs : pc[p] = "idle"
           /\ UNCHANGED vars

Next == \/ \E p \in Procs : Step(p)
        \/ \E r \in Refs : Collect(r)
        \/ AllDone

Spec == Init /\ [][Next]_vars

-----------------------------------------------------------------------------
(* Properties *)

Live == {r \in Refs : link[r] \notin {Symbol, Gone}}

\* Compiled code finds its variable where interpreted code in the same
\* environment would find it: every link belongs to the extension of the
\* visible binding, whatever was defined since it was made.
CachesFollowScope == \A r \in Live : link[r].ext = cell[Visible(EnvOf[r])].ext

\* Unless an assignment is under way, a direct link calls the procedure that
\* is the value of its variable, and is a fake one if there is none.
OperatorsAreCurrent ==
    (\A p \in Procs : op[p].kind \in {"none", "cache"}) =>
        \A r \in Live : KindOf[r] = "operator" =>
            link[r] = Cached(link[r].ext, "operator", exts[link[r].ext].val, FALSE)

\* While there are direct links to a variable, every assignment by compiled
\* code to it traps, so that they are brought up to date.
AssignmentsSeeOperators ==
    \A q, r \in Live :
        KindOf[q] = "operator" /\ KindOf[r] = "assignment" /\ link[q].ext = link[r].ext
            => link[r].to = "clone"

\* Every link is in the list by which definitions and assignments find it,
\* and in no other one.
ReferencesAreListed ==
    \A r \in Live : {i \in DOMAIN exts : \E k \in Kinds : r \in exts[i].refs[k]}
                        = {link[r].ext}

=============================================================================
