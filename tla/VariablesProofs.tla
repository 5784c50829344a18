--------------------------- MODULE VariablesProofs ---------------------------
(***************************************************************************)
(* What is proved of the variables of interpreted code: a frame never gets *)
(* two bindings of a name; a search finds what the name meant all the time *)
(* and so does an evaluation that uses a variable object, as long as no    *)
(* two processors define a name in frames of which one is in the other,    *)
(* and none reads the two words of a variable object while another one     *)
(* stores them.                                                            *)
(***************************************************************************)
EXTENDS Variables, TLAPS, FiniteSetTheorems, SequenceTheorems,
        WellFoundedInduction
-----------------------------------------------------------------------------
(* Types *)

WordTypes == {Uncompiled} \cup (Compiled \X Nat)
HunkTypes == [word : WordTypes, off : Words]
AuxTypes  == [room : Nat, names : Seq(Names)]
PendTypes == [room : Nat, count : Nat]
LocTypes  == [word : WordTypes, off : Words, i : Nat \ {0},
              cell : Cells \cup {<<Global, 0>>}, shadowed : BOOLEAN]

Typed == /\ hunk \in [Hunks -> HunkTypes]
         /\ holder \in [Hunks -> Procs \cup {Free}]
         /\ cell \in [Cells -> Contents]
         /\ aux \in [Frames -> AuxTypes]
         /\ pc \in [Procs -> Labels]
         /\ call \in [Procs -> CallTypes \cup {NoCall}]
         /\ \A p \in Procs : call[p] \in Calls[p] \cup {NoCall}
         /\ loc \in [Procs -> LocTypes]
         /\ pend \in [Procs -> Seq(PendTypes)]
         /\ made \in [Procs -> 0 .. MaxCalls]
         /\ full \in 0 .. MaxFull
         /\ seen \in [Procs -> SUBSET Cells]
         /\ apart \in BOOLEAN

\* What a processor at each place has been asked for.
OnPath   == {"type", "offset", "verify", "end"}
OnObject == {"storeType", "storeOffset", "uncompile", "uncompiled"}
Looking  == OnPath \cup OnObject \cup {"deep", "deepEnd"}
Extending == {"extend", "ensure", "search", "add"}
Defining == Extending \cup {"recache", "definition", "redefine"}

Role(p) == /\ pc[p] = "idle" <=> call[p] = NoCall
           /\ pc[p] \in Looking => call[p].kind # "definition"
           /\ pc[p] \in OnPath \cup OnObject => call[p].compiles
           /\ pc[p] \in Defining => call[p].kind = "definition"
Roles == \A p \in Procs : Role(p)

-----------------------------------------------------------------------------
(* Frames *)

\* The frame at position i of the search that begins at e; the last one is global.
Up(e, i) == IF i \in DOMAIN Chain[e] THEN Chain[e][i] ELSE Global

\* Where an environment has something for a name: a binding, or a placeholder.
HasCell(g, n) == g = Global \/ IsFormal(g, n) \/ HasAux(g, n)
TheCell(g, n) == IF g = Global THEN <<Global, n>> ELSE CellIn(g, n)

\* What a search from e for a name ends at.
Ends(g, n) == g = Global \/ Binds(g, n)
Sees(e, n) == \E k \in 1 .. Len(Chain[e]) + 1 :
    /\ Ends(Up(e, k), n) /\ Visible(e, n) = TheCell(Up(e, k), n)
    /\ \A j \in 1 .. k - 1 : ~Binds(Chain[e][j], n)

\* How far each search has come.
Place(p) == LET i == loc[p].i  m == Len(Chain[call[p].env]) IN
    /\ pc[p] \in {"idle"} \cup (Looking \ {"deep"}) => i = 1
    /\ pc[p] \in {"deep", "extend"} => i <= m + 1
    /\ pc[p] \in {"ensure", "search", "add"} => i <= m
PlaceInv == \A p \in Procs : Place(p)

-----------------------------------------------------------------------------
(* Auxiliary bindings *)

AuxInv == \A f \in Frames :
    /\ IsInjective(aux[f].names) /\ Len(aux[f].names) <= aux[f].room
    /\ \A n \in Names : ~(HasAux(f, n) /\ IsFormal(f, n))

\* What extend_frame has seen in the frame at position j: the name is no
\* parameter and not among the bindings that it has counted.
Examined(p, j) ==
    LET f == Chain[call[p].env][j]
        s == pend[p][j] IN
    /\ j \in DOMAIN pend[p] /\ s.room > 0 /\ s.count <= Len(aux[f].names)
    /\ ~IsFormal(f, call[p].name)
    /\ \A k \in 1 .. s.count : aux[f].names[k] # call[p].name

PendInv == \A p \in Procs : LET i == loc[p].i IN
    /\ pc[p] \in Extending => \A j \in 1 .. i - 1 : Examined(p, j)
    /\ pc[p] = "add" => Examined(p, i)
    /\ pc[p] \in {"ensure", "search"} => ~IsFormal(Here(p), call[p].name)
    /\ pc[p] = "search" => /\ i \in DOMAIN pend[p] /\ pend[p][i].room > 0
                           /\ pend[p][i].count <= Len(aux[Here(p)].names)

\* What is defined then is an auxiliary binding of the frame.
MadeInv == \A p \in Procs : pc[p] \in {"recache", "definition"} =>
    /\ call[p].env \in Frames /\ HasAux(call[p].env, call[p].name)
    /\ loc[p].cell = <<call[p].env, call[p].name>>

-----------------------------------------------------------------------------
(* Variable objects *)

\* A path leads, in every frame of the lambda, past frames that do not have
\* the name as a parameter ...
Past(e, k, n) == \A j \in 1 .. k : ~IsFormal(Chain[e][j], n)
PathIsRight(w, l, n) == \A e \in Frames : Code[e] = l =>
    /\ w[1] = "local"  => IsFormal(e, n) /\ w[2] = FormalWord(e, n)
    /\ w[1] = "global" => Past(e, Len(Chain[e]), n)
    /\ w[1] = "formal" => /\ w[2] + 1 \in DOMAIN Chain[e] /\ Past(e, w[2], n)
                          /\ IsFormal(Chain[e][w[2] + 1], n)
    /\ w[1] = "aux"    => w[2] + 1 \in DOMAIN Chain[e] /\ Past(e, w[2] + 1, n)

\* ... to the word of a parameter, if the two words belong together.
OffsetIsRight(w, off, l, n) == \A e \in Frames : Code[e] = l =>
    (w[1] = "formal" => off = FormalWord(Chain[e][w[2] + 1], n))

HunkInv == \A l \in Lambdas, n \in Names :
    /\ PathIsRight(hunk[<<l, n>>].word, l, n)
    /\ holder[<<l, n>>] = Free => OffsetIsRight(hunk[<<l, n>>].word, hunk[<<l, n>>].off, l, n)

WordInv == \A p \in Procs : LET l == Code[call[p].env]  n == call[p].name  w == loc[p].word IN
    /\ pc[p] \in {"offset", "verify"} => w[1] \in {"formal", "aux"} /\ PathIsRight(w, l, n)
    /\ pc[p] \in {"storeType", "storeOffset"} =>
          PathIsRight(w, l, n) /\ OffsetIsRight(w, loc[p].off, l, n)
    /\ pc[p] = "storeOffset" => hunk[Hunk(p)].word = w
    /\ pc[p] = "uncompiled" => hunk[Hunk(p)].word = Uncompiled

HolderInv == \A p \in Procs : \A h \in Hunks :
    holder[h] = p <=> pc[p] \in {"storeOffset", "uncompiled"} /\ h = Hunk(p)

-----------------------------------------------------------------------------
(* Deep lookups *)

SearchInv == \A p \in Procs : pc[p] = "deep" =>
    Past(call[p].env, loc[p].i - 1, call[p].name)

SeenInv == \A p \in Procs : pc[p] # "idle" => Meant(p) \in seen[p]

\* A search that has seen one meaning only has not gone past it, ...
NotPassed(p) == \A m \in seen[p] : seen[p] = {m} =>
    \A j \in 1 .. loc[p].i - 1 : Chain[call[p].env][j] # m[1]

\* ... and has found it.
HasFound(p) == LET e == call[p].env  n == call[p].name  c == loc[p].cell IN
    /\ \E j \in 1 .. Len(Chain[e]) + 1 : HasCell(Up(e, j), n) /\ c = TheCell(Up(e, j), n)
    /\ \A m \in seen[p] : seen[p] = {m} => c = m

FoundInv == \A p \in Procs :
    /\ pc[p] = "deep" => NotPassed(p)
    /\ pc[p] \in OnObject \cup {"deepEnd"} => HasFound(p)
    /\ pc[p] = "done" /\ call[p].kind # "definition" /\ ~call[p].compiles => HasFound(p)

IInv == /\ Typed /\ Roles /\ PlaceInv /\ AuxInv /\ PendInv /\ MadeInv
        /\ HunkInv /\ WordInv /\ HolderInv /\ SearchInv /\ SeenInv /\ FoundInv

-----------------------------------------------------------------------------
(* Danger *)

\* Above an auxiliary binding, or a placeholder for one, is something dangerous.
Covered(g, n) == HasCell(g, n) /\ cell[TheCell(g, n)].danger
Ladder == \A f \in Frames, n \in Names : HasAux(f, n) => Covered(Parent(f), n)

\* extend_frame comes down to a frame when there is something dangerous above it,
\* and what it defines is not dangerous if there is nothing below it.
AboveAdded(p) == pc[p] = "add" => \A g \in Envs, n \in Names :
    g = Up(call[p].env, loc[p].i + 1) /\ n = call[p].name => Covered(g, n)
BelowDefined(p) == pc[p] \in {"recache", "definition"} /\ ~loc[p].shadowed =>
    \A f \in Frames, n \in Names :
        Parent(f) = call[p].env /\ n = call[p].name => ~HasAux(f, n)

LadderInv == Ladder /\ \A p \in Procs : AboveAdded(p) /\ BelowDefined(p)

\* A path that leads past parameters and ends at something.
PathCell(e, n, c) == \E k \in 1 .. Len(Chain[e]) + 1 :
    Past(e, k - 1, n) /\ HasCell(Up(e, k), n) /\ c = TheCell(Up(e, k), n)

\* The two words that verify has read belong together.
NoTornReads == \A p \in Procs :
    pc[p] = "verify" /\ loc[p].word[1] = "formal" /\ hunk[Hunk(p)].word[1] = "formal" =>
        loc[p].off = FormalWord(Chain[call[p].env][loc[p].word[2] + 1], call[p].name)

CellTypes == Cells \cup {<<Global, 0>>}
OnThePath(p) == pc[p] = "end" => \A e \in Envs, n \in Names, c \in CellTypes :
    e = call[p].env /\ n = call[p].name /\ c = loc[p].cell => PathCell(e, n, c)
EndInv == \A p \in Procs :
    /\ OnThePath(p)
    /\ pc[p] = "done" /\ call[p].kind # "definition" => HasFound(p)

\* A name that is a parameter is looked up with one variable object by one
\* processor only.
ParametersApart == \A p, q \in Procs : p # q =>
    \A k \in Calls[p], m \in Calls[q] :
        k.compiles /\ m.compiles /\ Code[k.env] = Code[m.env] /\ k.name = m.name =>
            Past(k.env, Len(Chain[k.env]), k.name)

Untorn(p) == LET h == Hunk(p)  w == loc[p].word IN
    /\ pc[p] \in {"offset", "verify"} /\ w[1] = "formal" => hunk[h].word = w /\ holder[h] = Free
    /\ pc[p] = "verify" /\ w[1] = "formal" =>
          loc[p].off = FormalWord(Chain[call[p].env][w[2] + 1], call[p].name)
UntornInv == \A p \in Procs : Untorn(p)

-----------------------------------------------------------------------------
(* Sequences, positions and chains of frames *)

\* Every set of natural numbers has a least one.
LEMMA LeastNumber ==
  ASSUME NEW S \in SUBSET Nat, S # {}
  PROVE  Min(S) \in S /\ \A m \in S : Min(S) <= m
<1>1. PICK n \in S : \A m \in S : <<m, n>> \notin OpToRel(<, Nat)
  BY WFMin, NatLessThanWellFounded, Zenon
<1>2. \A m \in S : ~(m < n)
  BY <1>1, Zenon DEF OpToRel
<1>3. \E m \in S : \A k \in S : m <= k
  BY <1>2
<1> QED
  BY <1>3, Zenon DEF Min

\* Where a name is in a list of names.
LEMMA PositionFinds ==
  ASSUME NEW s \in Seq(Names), NEW n \in Names
  PROVE  /\ Position(s, n) \in 0 .. Len(s)
         /\ n \in ToSet(s) => Position(s, n) \in 1 .. Len(s) /\ s[Position(s, n)] = n
<1> DEFINE I == {i \in 1 .. Len(s) : s[i] = n}
<1>1. I \in SUBSET Nat /\ Len(s) \in Nat
  OBVIOUS
<1>2. Position(s, n) = IF I # {} THEN Min(I) ELSE 0
  BY DEF Position, SelectInSeq
<1>3. n \in ToSet(s) => I # {}
  BY DEF ToSet
<1>4. I # {} => Min(I) \in I
  BY <1>1, LeastNumber
<1> QED
  BY <1>1, <1>2, <1>3, <1>4

\* Names that are all different are not more than there are.
LEMMA DifferentNames ==
  ASSUME NEW s \in Seq(Names), IsInjective(s)
  PROVE  Len(s) <= Cardinality(Names) /\ Cardinality(Names) \in Nat
<1>1. IsFiniteSet(Names)
  BY EnvironmentAssumption
<1>2. Len(s) \in Nat /\ s \in [1 .. Len(s) -> Names]
  OBVIOUS
<1>3. s \in Injection(1 .. Len(s), Names)
  BY <1>2 DEF Injection
<1>4. Cardinality(1 .. Len(s)) <= Cardinality(Names)
  BY <1>1, <1>3, FS_Injection
<1>5. Cardinality(1 .. Len(s)) = Len(s)
  BY <1>2, FS_Interval
<1> QED
  BY <1>1, <1>4, <1>5, FS_CardinalityType

\* The words of parameters and of auxiliary bindings.
LEMMA WordsFit ==
  ASSUME NEW n \in Names
  PROVE  /\ \A f \in Frames : FormalWord(f, n) \in Words
         /\ \A s \in Seq(Names) :
               IsInjective(s) => AuxFirst - 1 + Position(s, n) \in Words
         /\ 0 \in Words
<1>1. \A s \in Seq(Names) : IsInjective(s) =>
         /\ Position(s, n) \in 0 .. Len(s) /\ Len(s) \in Nat
         /\ Len(s) <= Cardinality(Names) /\ Cardinality(Names) \in Nat
  BY PositionFinds, DifferentNames
<1>2. \A f \in Frames : Formals[Code[f]] \in Seq(Names) /\ IsInjective(Formals[Code[f]])
  BY EnvironmentAssumption
<1>3. Cardinality(Names) \in Nat
  BY FS_CardinalityType, EnvironmentAssumption
<1> QED
  BY <1>1, <1>2, <1>3 DEF Words, AuxFirst, FormalWord

LEMMA Chains ==
  ASSUME NEW e \in Envs
  PROVE  /\ Chain[e] \in Seq(Frames) /\ Len(Chain[e]) \in Nat
         /\ DOMAIN Chain[e] = 1 .. Len(Chain[e])
         /\ e \in Frames => Len(Chain[e]) > 0 /\ Chain[e][1] = e
         /\ e = Global => Len(Chain[e]) = 0
         /\ Up(e, 1) = e
         /\ \A i : Up(e, i) \in Envs
         /\ \A i \in 1 .. Len(Chain[e]) : Chain[e][i] \in Frames /\ Up(e, i) = Chain[e][i]
         /\ \A i \in Nat : i > Len(Chain[e]) => Up(e, i) = Global
         /\ Global \notin Frames
<1>1. Chain[e] \in Seq(Frames) /\ Global \notin Frames
  BY EnvironmentAssumption
<1>2. Len(Chain[e]) \in Nat /\ DOMAIN Chain[e] = 1 .. Len(Chain[e])
  BY <1>1
<1>3. \A i \in 1 .. Len(Chain[e]) : Chain[e][i] \in Frames
  BY <1>1
<1>4. e \in Frames => Len(Chain[e]) > 0 /\ Chain[e][1] = e
  BY EnvironmentAssumption
<1>5. e = Global => Len(Chain[e]) = 0
  BY EnvironmentAssumption
<1>6. e \in Frames \/ e = Global
  BY DEF Envs
<1> QED
  BY <1>1, <1>2, <1>3, <1>4, <1>5, <1>6 DEF Up, Envs

\* The chain of a frame further up is the rest of the chain.
LEMMA UpperChains ==
  ASSUME NEW e \in Envs, NEW i \in 1 .. Len(Chain[e])
  PROVE  /\ Len(Chain[Up(e, i)]) = Len(Chain[e]) - i + 1
         /\ \A j \in Nat \ {0} : Up(Up(e, i), j) = Up(e, i + j - 1)
         /\ Parent(Up(e, i)) = Up(e, i + 1)
         /\ i > 1 => Up(e, i) # e
<1> DEFINE s == Chain[e]
           f == Up(e, i)
<1>1. /\ s \in Seq(Frames) /\ Len(s) \in Nat /\ DOMAIN s = 1 .. Len(s)
      /\ f = s[i] /\ f \in Frames /\ e \in Frames
  <2>1. /\ s \in Seq(Frames) /\ Len(s) \in Nat /\ DOMAIN s = 1 .. Len(s)
        /\ f = s[i] /\ f \in Frames
        /\ e = Global => Len(s) = 0
    BY Chains
  <2>2. e # Global
    <3> HIDE DEF s, f
    <3> SUFFICES ASSUME e = Global PROVE FALSE
      OBVIOUS
    <3>1. i \in 1 .. Len(s)
      BY DEF s
    <3> QED
      BY <2>1, <3>1
  <2> QED
    BY <2>1, <2>2 DEF Envs
<1>2. Chain[f] = SubSeq(s, i, Len(s))
  <2>1. i \in DOMAIN s
    BY <1>1
  <2> QED
    BY <1>1, <2>1, EnvironmentAssumption
<1>3. /\ Len(Chain[f]) = Len(s) - i + 1
      /\ DOMAIN Chain[f] = 1 .. Len(s) - i + 1
      /\ \A j \in 1 .. Len(s) - i + 1 : Chain[f][j] = s[i + j - 1]
  BY <1>1, <1>2
<1>4. \A j \in Nat \ {0} : Up(f, j) = Up(e, i + j - 1)
  <2> HIDE DEF f, s
  <2> SUFFICES ASSUME NEW j \in Nat \ {0}
      PROVE  Up(f, j) = Up(e, i + j - 1)
    OBVIOUS
  <2>1. CASE j \in 1 .. Len(s) - i + 1
    <3>1. i + j - 1 \in DOMAIN s
      BY <1>1, <2>1
    <3> QED
      BY <1>3, <2>1, <3>1 DEF Up, s
  <2>2. CASE j \notin 1 .. Len(s) - i + 1
    <3>1. i + j - 1 \notin DOMAIN s
      BY <1>1, <2>2
    <3> QED
      BY <1>3, <2>2, <3>1 DEF Up, s
  <2> QED
    BY <2>1, <2>2
<1>5. Parent(f) = Up(e, i + 1)
  <2> HIDE DEF f, s
  <2>1. CASE i = Len(s)
    <3>1. Len(Chain[f]) = 1 /\ i + 1 \notin DOMAIN s
      BY <1>1, <1>3, <2>1
    <3> QED
      BY <3>1 DEF Parent, Up, s
  <2>2. CASE i # Len(s)
    <3>1. Len(Chain[f]) # 1 /\ i + 1 \in DOMAIN s /\ Chain[f][2] = s[i + 1]
      <4>1. 2 \in 1 .. Len(s) - i + 1 /\ Len(s) - i + 1 # 1 /\ i + 1 \in 1 .. Len(s)
        BY <1>1, <2>2 DEF s
      <4>2. Chain[f][2] = s[i + 2 - 1] /\ i + 2 - 1 = i + 1
        BY <1>3, <4>1
      <4> QED
        BY <1>1, <1>3, <4>1, <4>2
    <3> QED
      BY <3>1 DEF Parent, Up, s
  <2> QED
    BY <2>1, <2>2
<1>6. i > 1 => f # e
  <2> HIDE DEF f
  <2> QED
    BY <1>1, <1>3
<1> QED
  BY <1>3, <1>4, <1>5, <1>6

\* What the macro and the search see of parameters is a matter of the lambda.
LEMMA SameLambda ==
  ASSUME NEW e \in Frames, NEW f \in Frames, Code[e] = Code[f], NEW n \in Names
  PROVE  /\ Len(Chain[e]) = Len(Chain[f])
         /\ \A i \in 1 .. Len(Chain[e]) :
               /\ IsFormal(Chain[e][i], n) <=> IsFormal(Chain[f][i], n)
               /\ FormalWord(Chain[e][i], n) = FormalWord(Chain[f][i], n)
         /\ IsFormal(e, n) <=> IsFormal(f, n)
         /\ FormalWord(e, n) = FormalWord(f, n)
<1>1. /\ Len(Chain[e]) = Len(Chain[f])
      /\ \A i \in DOMAIN Chain[e] : Code[Chain[e][i]] = Code[Chain[f][i]]
  BY LexicalAssumption
<1>2. DOMAIN Chain[e] = 1 .. Len(Chain[e])
  BY Chains DEF Envs
<1> QED
  BY <1>1, <1>2 DEF IsFormal, FormalWord

\* A search from e finds the first frame that binds the name, or the global one.
LEMMA VisibleFinds == \A e \in Envs, n \in Names : Sees(e, n)
<1> SUFFICES ASSUME NEW e \in Envs, NEW n \in Names
    PROVE  Sees(e, n)
  OBVIOUS
<1> DEFINE s == Chain[e]
           I == {i \in 1 .. Len(s) : Binds(s[i], n)}
           at == SelectInSeq(s, LAMBDA f : Binds(f, n))
<1>1. Len(s) \in Nat /\ I \in SUBSET Nat
  BY Chains
<1>2. at = IF I # {} THEN Min(I) ELSE 0
  BY DEF SelectInSeq
<1>3. Visible(e, n) = IF at = 0 THEN <<Global, n>> ELSE CellIn(s[at], n)
  BY DEF Visible
<1>4. CASE I = {}
  <2>1. Visible(e, n) = <<Global, n>> /\ \A j \in 1 .. Len(s) : ~Binds(s[j], n)
    BY <1>2, <1>3, <1>4
  <2>2. Len(s) + 1 \in 1 .. Len(s) + 1 /\ Up(e, Len(s) + 1) = Global
    BY <1>1, Chains
  <2>3. 1 .. Len(s) + 1 - 1 = 1 .. Len(s)
    BY <1>1
  <2> HIDE DEF s, at, I
  <2> QED
    BY <2>1, <2>2, <2>3 DEF Sees, Ends, TheCell, s
<1>5. CASE I # {}
  <2>1. Min(I) \in I /\ \A m \in I : Min(I) <= m
    BY <1>1, <1>5, LeastNumber
  <2>2. Min(I) \in 1 .. Len(s) /\ Binds(s[Min(I)], n) /\ at = Min(I) /\ at # 0
    BY <1>2, <1>5, <2>1
  <2>3. \A j \in 1 .. Min(I) - 1 : ~Binds(s[j], n)
    <3>1. \A j \in 1 .. Min(I) - 1 : j \in 1 .. Len(s) /\ ~(Min(I) <= j)
      BY <1>1, <2>2
    <3> QED
      BY <2>1, <3>1
  <2>4. Up(e, Min(I)) = s[Min(I)] /\ s[Min(I)] # Global /\ Min(I) \in 1 .. Len(s) + 1
    <3>1. \A i \in 1 .. Len(s) : s[i] \in Frames /\ Up(e, i) = s[i]
      BY Chains
    <3>2. Global \notin Frames
      BY Chains
    <3>3. Min(I) \in 1 .. Len(s) + 1
      BY <1>1, <2>2
    <3> QED
      BY <2>2, <3>1, <3>2, <3>3
  <2> HIDE DEF s, at, I
  <2>5. Ends(Up(e, Min(I)), n) /\ Visible(e, n) = TheCell(Up(e, Min(I)), n)
    BY <1>3, <2>2, <2>4 DEF Ends, TheCell
  <2> QED
    BY <2>3, <2>4, <2>5 DEF Sees, s
<1> QED
  BY <1>4, <1>5

LEMMA VisibleFindsNext == (\A e \in Envs, n \in Names : Sees(e, n))'
<1>1. \A e \in Envs, n \in Names : Sees(e, n)
  BY VisibleFinds
<1> QED
  BY <1>1, PTL

\* The cells of names.
LEMMA CellsOfNames ==
  ASSUME NEW n \in Names
  PROVE  /\ <<Global, n>> \in Cells
         /\ \A f \in Frames : <<f, n>> \in Cells /\ <<f, FormalWord(f, n)>> \in Cells
         /\ \A f \in Frames : CellIn(f, n) \in Cells
         /\ \A g \in Envs : TheCell(g, n) \in Cells /\ TheCell(g, n)[1] = g
<1>1. \A f \in Frames : FormalWord(f, n) \in Words
  BY WordsFit
<1> QED
  BY <1>1 DEF Cells, CellIn, TheCell, Envs

LEMMA VisibleIsCell ==
  /\ \A e \in Envs, n \in Names : Visible(e, n) \in Cells
  /\ (\A e \in Envs, n \in Names : Visible(e, n) \in Cells)'
<1>1. \A e \in Envs, n \in Names : Visible(e, n) \in Cells
  <2> SUFFICES ASSUME NEW e \in Envs, NEW n \in Names
      PROVE  Visible(e, n) \in Cells
    OBVIOUS
  <2>1. Sees(e, n)
    BY VisibleFinds
  <2>2. \A i : Up(e, i) \in Envs
    BY Chains
  <2> QED
    BY <2>1, <2>2, CellsOfNames DEF Sees
<1> QED
  BY <1>1, PTL

-----------------------------------------------------------------------------
(* What a processor is doing *)

\* Who is not idle has been asked for something it may be asked for.
LEMMA Asked ==
  ASSUME Typed, Roles, NEW p \in Procs, pc[p] # "idle"
  PROVE  /\ call[p] \in Calls[p] /\ call[p] \in CallTypes
         /\ call[p].env \in Envs /\ call[p].name \in Names /\ call[p].val \in Values
         /\ call[p].kind \in Kinds /\ call[p].compiles \in BOOLEAN
         /\ call[p].compiles => /\ call[p].kind # "definition"
                                /\ call[p].env \in Frames /\ Hunk(p) \in Hunks
<1>1. call[p] \in Calls[p] /\ Calls[p] \subseteq CallTypes
  BY CallAssumption DEF Typed, Roles, Role
<1>2. call[p] \in CallTypes
  BY <1>1
<1>3. call[p].compiles => call[p].kind # "definition" /\ call[p].env \in Frames
  BY <1>1, CallAssumption
<1> QED
  BY <1>1, <1>2, <1>3 DEF CallTypes, Hunk, Hunks, Lambdas

\* A processor at a frame of a chain.
LEMMA Standing ==
  ASSUME Typed, Roles, PlaceInv, NEW p \in Procs,
         \/ pc[p] \in {"deep", "extend"} /\ ~AtTop(p)
         \/ pc[p] \in {"ensure", "search", "add"}
  PROVE  /\ ~AtTop(p) /\ loc[p].i \in 1 .. Len(Chain[call[p].env])
         /\ Here(p) \in Frames /\ Here(p) # Global /\ Here(p) = Up(call[p].env, loc[p].i)
<1> DEFINE e == call[p].env
<1>1. e \in Envs
  BY Asked
<1>2. loc[p].i \in Nat \ {0} /\ Len(Chain[e]) \in Nat
  BY <1>1, Chains DEF Typed, LocTypes
<1>3. loc[p].i <= Len(Chain[e])
  BY <1>2 DEF PlaceInv, Place, AtTop
<1>4. loc[p].i \in 1 .. Len(Chain[e])
  BY <1>2, <1>3
<1> HIDE DEF e
<1>5. Chain[e][loc[p].i] \in Frames /\ Chain[e][loc[p].i] = Up(e, loc[p].i) /\ Global \notin Frames
  BY <1>1, <1>4, Chains
<1> QED
  BY <1>2, <1>3, <1>4, <1>5 DEF e, AtTop, Here

\* The cell that is to be defined.
LEMMA DefCellIsCell ==
  ASSUME Typed, Roles, PlaceInv, NEW p \in Procs, pc[p] \in {"extend", "search"}
  PROVE  DefCell(p) \in Cells
<1>1. call[p].name \in Names
  BY Asked
<1>2. ~AtTop(p) => Here(p) \in Frames
  BY Standing
<1> QED
  BY <1>1, <1>2, CellsOfNames DEF DefCell

-----------------------------------------------------------------------------
(* Every step preserves the types *)

LEMMA PathsAreTyped ==
  ASSUME Typed, AuxInv, NEW f \in Frames, NEW i \in Nat \ {0}, NEW n \in Names
  PROVE  PathWord(f, i, n) \in WordTypes /\ PathOffset(f, i, n) \in Words
<1>1. /\ FormalWord(f, n) \in Words /\ 0 \in Words
      /\ AuxFirst - 1 + Position(aux[f].names, n) \in Words
  BY WordsFit DEF Typed, AuxTypes, AuxInv
<1>2. Words \subseteq Nat
  BY DEF Words
<1>3. i - 1 \in Nat
  OBVIOUS
<1> QED
  BY <1>1, <1>2, <1>3 DEF PathWord, PathOffset, WordTypes, Compiled

LEMMA InitTyped == Init => Typed
<1> SUFFICES ASSUME Init PROVE Typed
  OBVIOUS
<1>1. \A c : Plain(c) = [danger |-> FALSE, val |-> c]
  BY DEF Plain
<1>2. cell \in [Cells -> Contents]
  BY <1>1 DEF Init, Contents
<1>3. 0 \in Words /\ Uncompiled \in WordTypes
  BY FS_CardinalityType, EnvironmentAssumption DEF Words, AuxFirst, WordTypes
<1>4. hunk \in [Hunks -> HunkTypes]
  BY <1>3 DEF Init, HunkTypes
<1>5. NoLocals \in LocTypes
  BY <1>3 DEF NoLocals, LocTypes
<1>6. aux \in [Frames -> AuxTypes]
  BY DEF Init, AuxTypes
<1>7. pend \in [Procs -> Seq(PendTypes)] /\ pc \in [Procs -> Labels]
  BY DEF Init, Labels
<1>8. /\ holder \in [Hunks -> Procs \cup {Free}] /\ loc \in [Procs -> LocTypes]
      /\ seen \in [Procs -> SUBSET Cells] /\ apart \in BOOLEAN
  BY <1>5 DEF Init
<1>9. /\ call \in [Procs -> CallTypes \cup {NoCall}]
      /\ \A p \in Procs : call[p] \in Calls[p] \cup {NoCall}
  BY DEF Init
<1>10. made \in [Procs -> 0 .. MaxCalls] /\ full \in 0 .. MaxFull
  BY EnvironmentAssumption DEF Init
<1> QED
  BY <1>2, <1>4, <1>6, <1>7, <1>8, <1>9, <1>10 DEF Typed

\* The local variables of a lookup.
LEMMA LookupTyped ==
  ASSUME IInv, NEW p \in Procs,
         ReadType(p) \/ ReadOffset(p) \/ Verify(p) \/ SearchFrame(p)
  PROVE  loc' \in [Procs -> LocTypes]
<1> DEFINE e == call[p].env
           n == call[p].name
           x == loc'[p]
<1>1. /\ pc[p] # "idle" /\ loc[p] \in LocTypes /\ loc \in [Procs -> LocTypes]
      /\ e \in Envs /\ n \in Names
  BY Asked DEF IInv, ReadType, ReadOffset, Verify, SearchFrame, At, Typed
<1>2. <<Global, n>> \in Cells
  BY <1>1, CellsOfNames
<1>3. CASE ReadType(p)
  <2>1. Hunk(p) \in Hunks /\ e \in Frames /\ Hunk(p) = <<Code[e], n>> /\ Code[e] \in Lambdas
    BY <1>1, <1>3, Asked DEF IInv, ReadType, At, Roles, Role, OnPath, Hunk, Lambdas
  <2> DEFINE w == hunk[Hunk(p)].word
  <2>2. w \in WordTypes /\ PathIsRight(w, Code[e], n)
    BY <1>1, <2>1 DEF IInv, Typed, HunkTypes, HunkInv
  <2>3. w[1] = "local" => <<e, w[2]>> \in Cells
    BY <1>1, <2>1, <2>2, CellsOfNames DEF PathIsRight
  <2>4. \/ loc' = loc
        \/ loc' = Set(loc, p, [loc[p] EXCEPT !.cell = <<Global, n>>])
        \/ w[1] = "local" /\ loc' = Set(loc, p, [loc[p] EXCEPT !.cell = <<e, w[2]>>])
        \/ loc' = Set(loc, p, [loc[p] EXCEPT !.word = w])
    BY <1>3 DEF ReadType, Local
  <2> HIDE DEF w
  <2> QED
    BY <1>1, <1>2, <2>2, <2>3, <2>4 DEF Set, LocTypes
<1>4. CASE ReadOffset(p)
  <2>1. Hunk(p) \in Hunks
    BY <1>1, <1>4, Asked DEF IInv, ReadOffset, At, Roles, Role, OnPath
  <2>2. hunk[Hunk(p)].off \in Words
    BY <2>1 DEF IInv, Typed, HunkTypes
  <2> QED
    BY <1>1, <1>4, <2>2 DEF ReadOffset, Local, Set, LocTypes
<1>5. CASE Verify(p)
  <2>1. e \in Frames /\ pc[p] = "verify"
    BY <1>1, <1>5, Asked DEF IInv, Verify, At, Roles, Role, OnPath
  <2> DEFINE w == loc[p].word
             f == Chain[e][w[2] + 1]
  <2>2. w[1] \in {"formal", "aux"} /\ w[2] + 1 \in DOMAIN Chain[e]
    BY <1>1, <2>1 DEF IInv, WordInv, PathIsRight
  <2>3. f \in Frames
    BY <1>1, <2>2, Chains
  <2>4. <<f, loc[p].off>> \in Cells /\ <<f, n>> \in Cells
    BY <1>1, <2>3, CellsOfNames DEF LocTypes, Cells
  <2>5. \/ loc' = loc
        \/ loc' = Set(loc, p, [loc[p] EXCEPT !.cell = <<f, loc[p].off>>])
        \/ loc' = Set(loc, p, [loc[p] EXCEPT !.cell = <<f, n>>])
    BY <1>5 DEF Verify, Local
  <2> HIDE DEF w, f
  <2> QED
    BY <1>1, <2>4, <2>5 DEF Set, LocTypes
<1>6. CASE SearchFrame(p)
  <2> DEFINE i == loc[p].i
             f == Here(p)
  <2>1. /\ pc[p] = "deep" /\ i \in Nat \ {0}
        /\ ~AtTop(p) => f \in Frames
    BY <1>1, <1>6, Standing DEF IInv, SearchFrame, At, LocTypes
  <2>2. ~AtTop(p) => /\ CellIn(f, n) \in Cells
                     /\ PathWord(f, i, n) \in WordTypes /\ PathOffset(f, i, n) \in Words
    BY <1>1, <2>1, CellsOfNames, PathsAreTyped DEF IInv, LocTypes
  <2>3. <<"global", 0>> \in WordTypes /\ 0 \in Words
    BY <1>1, WordsFit DEF WordTypes, Compiled
  <2>4. \/ loc' = Set(loc, p, [loc[p] EXCEPT !.cell = <<Global, n>>,
                               !.word = <<"global", 0>>, !.off = 0, !.i = 1])
        \/ /\ ~AtTop(p)
           /\ loc' = Set(loc, p, [loc[p] EXCEPT !.cell = CellIn(f, n),
                             !.word = PathWord(f, i, n), !.off = PathOffset(f, i, n), !.i = 1])
        \/ loc' = Set(loc, p, [loc[p] EXCEPT !.i = @ + 1])
    BY <1>6 DEF SearchFrame, Found, Local
  <2>5. loc[p].i + 1 \in Nat \ {0} /\ 1 \in Nat \ {0}
    BY <2>1
  <2>6. ASSUME NEW c \in Cells, NEW w \in WordTypes, NEW off \in Words,
               loc' = Set(loc, p, [loc[p] EXCEPT !.cell = c, !.word = w, !.off = off, !.i = 1])
        PROVE  loc' \in [Procs -> LocTypes]
    <3>1. [loc[p] EXCEPT !.cell = c, !.word = w, !.off = off, !.i = 1] \in LocTypes
      BY <1>1, <2>5 DEF LocTypes
    <3> QED
      BY <1>1, <2>6, <3>1 DEF Set
  <2>7. [loc[p] EXCEPT !.i = @ + 1] \in LocTypes
    BY <1>1, <2>5 DEF LocTypes
  <2> HIDE DEF i, f, n
  <2>8. CASE loc' = Set(loc, p, [loc[p] EXCEPT !.i = @ + 1])
    BY <1>1, <2>7, <2>8 DEF Set
  <2>9. CASE loc' = Set(loc, p, [loc[p] EXCEPT !.cell = <<Global, n>>,
                               !.word = <<"global", 0>>, !.off = 0, !.i = 1])
    BY <1>2, <2>3, <2>6, <2>9
  <2>10. CASE /\ ~AtTop(p)
              /\ loc' = Set(loc, p, [loc[p] EXCEPT !.cell = CellIn(f, n),
                             !.word = PathWord(f, i, n), !.off = PathOffset(f, i, n), !.i = 1])
    BY <2>2, <2>6, <2>10
  <2> QED
    BY <2>4, <2>8, <2>9, <2>10
<1> QED
  BY <1>3, <1>4, <1>5, <1>6

\* The local variables of a definition, and of every call at its end.
LEMMA OtherLocalsTyped ==
  ASSUME IInv, NEW p \in Procs, Step(p), loc' # loc,
         ~(ReadType(p) \/ ReadOffset(p) \/ Verify(p) \/ SearchFrame(p))
  PROVE  loc' \in [Procs -> LocTypes]
<1>1. loc[p] \in LocTypes /\ loc \in [Procs -> LocTypes] /\ loc[p].i \in Nat \ {0}
  BY DEF IInv, Typed, LocTypes
<1>2. NoLocals \in LocTypes
  <2>1. 0 \in Words
    BY FS_CardinalityType, EnvironmentAssumption DEF Words, AuxFirst
  <2> QED
    BY <2>1 DEF NoLocals, LocTypes, WordTypes
<1>3. ASSUME Local(p, NoLocals)
      PROVE  loc' \in [Procs -> LocTypes]
  BY <1>1, <1>2, <1>3 DEF Local, Set
<1>4. ASSUME Restart(p) \/ Interrupted(p)
      PROVE  loc' \in [Procs -> LocTypes]
  BY <1>3, <1>4 DEF Restart, Interrupted
<1>5. ASSUME Down(p), ~IsOriginal(p)
      PROVE  loc' \in [Procs -> LocTypes]
  <2>1. loc[p].i - 1 \in Nat \ {0}
    BY <1>1, <1>5 DEF IsOriginal
  <2>2. [loc[p] EXCEPT !.i = @ - 1] \in LocTypes
    BY <1>1, <2>1 DEF LocTypes
  <2> QED
    BY <1>1, <1>5, <2>2 DEF Down, Local, Set
<1>6. ASSUME NEW c \in Cells, \E b \in BOOLEAN :
                Local(p, [loc[p] EXCEPT !.cell = c, !.shadowed = b])
      PROVE  loc' \in [Procs -> LocTypes]
  <2>1. PICK b \in BOOLEAN : loc' = Set(loc, p, [loc[p] EXCEPT !.cell = c, !.shadowed = b])
    BY <1>6 DEF Local
  <2>2. [loc[p] EXCEPT !.cell = c, !.shadowed = b] \in LocTypes
    BY <1>1 DEF LocTypes
  <2> QED
    BY <1>1, <2>1, <2>2 DEF Set
<1>7. ASSUME Existing(p), pc[p] \in {"extend", "search"}
      PROVE  loc' \in [Procs -> LocTypes]
  <2>1. CASE IsOriginal(p)
    <3>1. Local(p, [loc[p] EXCEPT !.cell = DefCell(p)]) /\ DefCell(p) \in Cells
      BY <1>7, <2>1, DefCellIsCell DEF IInv, Existing, Redefines
    <3> QED
      BY <1>1, <3>1 DEF Local, Set, LocTypes
  <2>2. CASE ~IsOriginal(p)
    BY <1>4, <1>5, <1>7, <2>2 DEF Existing, Dangerize
  <2> QED
    BY <2>1, <2>2
<1>8. CASE Return(p)
  BY <1>3, <1>8 DEF Return
<1>9. CASE DeepStore(p) \/ EnsureAux(p) \/ Redefine(p)
  BY <1>4, <1>9 DEF DeepStore, EnsureAux, Redefine
<1>10. CASE ExtendBound(p) \/ SearchReal(p)
  BY <1>7, <1>10 DEF ExtendBound, SearchReal, At
<1>11. CASE SearchPlaceholder(p)
  <2>1. DefCell(p) \in Cells
    BY <1>11, DefCellIsCell DEF IInv, SearchPlaceholder, At
  <2> QED
    BY <1>5, <1>6, <1>11, <2>1 DEF SearchPlaceholder
<1>12. CASE SearchNothing(p)
  <2>1. [loc[p] EXCEPT !.i = @ + 1] \in LocTypes
    BY <1>1 DEF LocTypes
  <2> QED
    BY <1>1, <1>12, <2>1 DEF SearchNothing, Local, Set
<1>13. CASE AddBinding(p)
  <2>1. <<Here(p), call[p].name>> \in Cells
    <3>1. Here(p) \in Frames /\ call[p].name \in Names
      BY <1>13, Standing, Asked DEF IInv, AddBinding, At
    <3> QED
      BY <3>1, CellsOfNames
  <2> QED
    BY <1>4, <1>5, <1>6, <1>13, <2>1 DEF AddBinding
<1> QED
  BY <1>8, <1>9, <1>10, <1>11, <1>12, <1>13
  DEF Step, Begin, FetchValue, StoreValue, StoreType, StoreOffset, StoreWord, StoreOff,
      DeepFetch, Uncompile, UncompileOff, ExtendAux, AddRedo, Recache, Definition

\* What is in a value cell.
LEMMA ContentsTyped ==
  /\ \A v : Plain(v).danger = FALSE /\ Plain(v).val = v
  /\ \A v : Dangerous(v).danger = TRUE /\ Dangerous(v).val = v
  /\ Placeholder \in Contents /\ Placeholder.danger /\ Placeholder.val = Unbound
  /\ \A v \in Values : Plain(v) \in Contents /\ Plain(v) # Placeholder
  /\ \A c \in Contents : \A v \in Values :
        /\ Stored(c, v) \in Contents /\ Stored(c, v).danger = c.danger
        /\ Stored(c, v).val = v /\ Stored(c, v) # Placeholder
        /\ Dangerous(c.val) \in Contents
<1>1. Unbound \notin Values
  BY CallAssumption
<1> QED
  BY <1>1 DEF Plain, Dangerous, Placeholder, Contents, Stored

\* What a step stores in value cells: no placeholder vanishes but by a
\* definition or redefinition, and only a definition makes a cell less dangerous.
Writes(p) ==
    \/ cell' = cell
    \/ \E c \in Cells, x \in Contents :
          /\ cell' = [cell EXCEPT ![c] = x]
          /\ \/ /\ c = loc[p].cell /\ x.danger = cell[c].danger
                /\ x # Placeholder /\ x.val \in Values
                /\ \/ pc[p] \in {"end", "deepEnd"} /\ cell[c].val # Unbound
                   \/ pc[p] = "redefine"
             \/ /\ c = loc[p].cell /\ ~x.danger /\ x.val \in Values
                /\ pc[p] = "definition" /\ ~loc[p].shadowed /\ cell[c] = Placeholder
                /\ pc'[p] = "done"
             \/ /\ c = DefCell(p) /\ x.danger /\ x.val = cell[c].val
                /\ pc[p] \in {"extend", "search"}
             \/ /\ x = Placeholder /\ pc[p] = "add" /\ c = <<Here(p), call[p].name>>
                /\ aux' # aux

LEMMA StepWrites ==
  ASSUME IInv, NEW p \in Procs, Step(p)
  PROVE  Writes(p)
<1>1. cell \in [Cells -> Contents] /\ loc[p].cell \in Cells \cup {<<Global, 0>>}
  BY DEF IInv, Typed, LocTypes
<1>2. pc[p] # "idle" => call[p].val \in Values /\ call[p].name \in Names
  BY Asked DEF IInv
<1>3. ASSUME NEW c, c \notin Cells, NEW x, Write(c, x)
      PROVE  cell' = cell
  BY <1>1, <1>3 DEF Write, Set
<1>4. ASSUME NEW c, c = loc[p].cell, cell[c].val # Unbound \/ pc[p] = "redefine",
             Write(c, Stored(cell[c], call[p].val)), pc[p] \in {"end", "deepEnd", "redefine"}
      PROVE  Writes(p)
  <2>1. CASE c \in Cells
    <3>1. /\ Stored(cell[c], call[p].val) \in Contents
          /\ Stored(cell[c], call[p].val).danger = cell[c].danger
          /\ Stored(cell[c], call[p].val).val = call[p].val
          /\ Stored(cell[c], call[p].val) # Placeholder
      BY <1>1, <1>2, <1>4, <2>1, ContentsTyped
    <3> QED
      BY <1>2, <1>4, <2>1, <3>1 DEF Writes, Write, Set
  <2> QED
    BY <1>3, <1>4, <2>1 DEF Writes
<1>5. CASE StoreValue(p)
  BY <1>4, <1>5 DEF StoreValue, At, Writes
<1>6. CASE DeepStore(p)
  BY <1>4, <1>6 DEF DeepStore, At, Writes, Restart, shared
<1>7. CASE Redefine(p)
  BY <1>4, <1>7 DEF Redefine, At, Writes, Restart, shared
<1>8. CASE Definition(p)
  <2> DEFINE c == loc[p].cell
             x == Plain(call[p].val)
  <2>1. CASE Unshadowed(p) /\ Write(c, x)
    <3>1. x \in Contents /\ ~x.danger /\ x.val \in Values
      BY <1>2, <1>8, ContentsTyped DEF Definition, At
    <3>2. c \in Cells
      <4>1. call[p].env \in Frames /\ c = <<call[p].env, call[p].name>>
        BY <1>8 DEF IInv, MadeInv, Definition, At
      <4>2. call[p].name \in Names
        BY <1>2, <1>8 DEF Definition, At
      <4> QED
        BY <4>1, <4>2, CellsOfNames
    <3>3. /\ pc[p] = "definition" /\ pc'[p] = "done"
          /\ ~loc[p].shadowed /\ cell[c] = Placeholder
      BY <1>8, <2>1 DEF IInv, Typed, Definition, At, Goto, Set, Unshadowed
    <3> QED
      BY <2>1, <3>1, <3>2, <3>3 DEF Write, Set, Writes
  <2> QED
    BY <1>8, <2>1 DEF Definition, Writes
<1>9. ASSUME pc[p] \in {"extend", "search"}, Existing(p)
      PROVE  Writes(p)
  <2> DEFINE c == DefCell(p)
             x == Dangerous(cell[c].val)
  <2>1. CASE Write(c, x)
    <3>1. c \in Cells /\ x \in Contents /\ x.danger /\ x.val = cell[c].val
      <4>1. c \in Cells
        BY <1>9, DefCellIsCell DEF IInv
      <4> QED
        BY <1>1, <4>1, ContentsTyped DEF Contents, Dangerous
    <3> QED
      BY <1>9, <2>1, <3>1 DEF Write, Set, Writes
  <2> QED
    BY <1>9, <2>1 DEF Existing, Redefines, Dangerize, Restart, shared, Writes
<1>10. CASE ExtendBound(p) \/ SearchReal(p)
  BY <1>9, <1>10 DEF ExtendBound, SearchReal, At
<1>11. CASE AddBinding(p)
  <2> DEFINE f == Here(p)
             n == call[p].name
  <2>1. /\ pc[p] = "add" /\ n \in Names /\ f \in Frames /\ <<f, n>> \in Cells
    BY <1>2, <1>11, Standing, CellsOfNames DEF IInv, AddBinding, At
  <2>2. CASE /\ aux' = [aux EXCEPT ![f] = [room |-> RoomNeeded(f), names |-> Append(@.names, n)]]
             /\ Write(<<f, n>>, Placeholder)
    <3>1. aux[f].names \in Seq(Names) /\ aux \in [Frames -> AuxTypes]
      BY <2>1 DEF IInv, Typed, AuxTypes
    <3>2. aux'[f].names # aux[f].names
      BY <2>1, <2>2, <3>1
    <3>3. Placeholder \in Contents
      BY ContentsTyped
    <3> QED
      BY <2>1, <2>2, <3>2, <3>3 DEF Write, Set, Writes
  <2> QED
    BY <1>11, <2>2 DEF AddBinding, Restart, shared, Writes
<1> QED
  BY <1>5, <1>6, <1>7, <1>8, <1>10, <1>11
  DEF Step, Begin, Return, ReadType, ReadOffset, Verify, FetchValue, SearchFrame,
      StoreType, StoreOffset, StoreWord, StoreOff, DeepFetch, Uncompile, UncompileOff,
      ExtendAux, EnsureAux, SearchPlaceholder, SearchNothing, AddRedo, Recache,
      Restart, shared, Writes

\* What a step makes of variable objects and their locks.
Objects(p) == LET h == Hunk(p) IN
    \/ /\ UNCHANGED <<hunk, holder>>
       /\ pc[p] \notin {"storeOffset", "uncompiled"} /\ pc'[p] \notin {"storeOffset", "uncompiled"}
    \/ /\ UNCHANGED <<cell, aux, call, loc>> /\ h \in Hunks
       /\ \E w \in WordTypes :
             /\ \/ pc[p] = "storeType" /\ pc'[p] = "storeOffset" /\ w = loc[p].word
                \/ pc[p] = "uncompile" /\ pc'[p] = "uncompiled" /\ w = Uncompiled
             /\ holder[h] = Free /\ holder' = [holder EXCEPT ![h] = p]
             /\ hunk' = [hunk EXCEPT ![h].word = w]
    \/ /\ UNCHANGED <<cell, aux, call, loc>> /\ h \in Hunks
       /\ \E off \in Words :
             /\ \/ pc[p] = "storeOffset" /\ pc'[p] = "deepEnd" /\ off = loc[p].off
                \/ pc[p] = "uncompiled" /\ pc'[p] = "done"
             /\ holder' = [holder EXCEPT ![h] = Free]
             /\ hunk' = [hunk EXCEPT ![h].off = off]

LEMMA StepObjects ==
  ASSUME IInv, NEW p \in Procs, Step(p)
  PROVE  Objects(p)
<1>1. /\ pc \in [Procs -> Labels] /\ loc[p].word \in WordTypes /\ loc[p].off \in Words
      /\ Uncompiled \in WordTypes /\ 0 \in Words
  BY FS_CardinalityType, EnvironmentAssumption
  DEF IInv, Typed, LocTypes, WordTypes, Words, AuxFirst
<1>2. pc[p] \in OnObject => Hunk(p) \in Hunks
  BY Asked DEF IInv, Roles, Role, OnObject
<1>3. CASE StoreType(p) \/ Uncompile(p)
  <2>1. /\ pc[p] \in OnObject
        /\ \/ pc[p] = "storeType" /\ pc'[p] = "storeOffset"
              /\ hunk' = [hunk EXCEPT ![Hunk(p)].word = loc[p].word]
           \/ pc[p] = "uncompile" /\ pc'[p] = "uncompiled"
              /\ hunk' = [hunk EXCEPT ![Hunk(p)].word = Uncompiled]
        /\ holder[Hunk(p)] = Free /\ holder' = [holder EXCEPT ![Hunk(p)] = p]
        /\ UNCHANGED <<cell, aux, call, loc>>
    BY <1>1, <1>3 DEF StoreType, Uncompile, StoreWord, At, Goto, Set, OnObject
  <2> QED
    BY <1>1, <1>2, <2>1 DEF Objects
<1>4. CASE StoreOffset(p) \/ UncompileOff(p)
  <2>1. /\ pc[p] \in OnObject
        /\ \/ pc[p] = "storeOffset" /\ pc'[p] = "deepEnd"
              /\ hunk' = [hunk EXCEPT ![Hunk(p)].off = loc[p].off]
           \/ pc[p] = "uncompiled" /\ pc'[p] = "done"
              /\ hunk' = [hunk EXCEPT ![Hunk(p)].off = 0]
        /\ holder' = [holder EXCEPT ![Hunk(p)] = Free]
        /\ UNCHANGED <<cell, aux, call, loc>>
    BY <1>1, <1>4 DEF StoreOffset, UncompileOff, StoreOff, At, Goto, Set, OnObject
  <2> QED
    BY <1>1, <1>2, <2>1 DEF Objects
<1>5. ASSUME UNCHANGED <<hunk, holder>>, pc[p] \notin {"storeOffset", "uncompiled"},
             NEW to, to \notin {"storeOffset", "uncompiled"}, Goto(p, to) \/ pc' = pc
      PROVE  Objects(p)
  BY <1>1, <1>5 DEF Goto, Set, Objects
<1>6. Entry(call[p]) \notin {"storeOffset", "uncompiled"}
  BY DEF Entry
<1>7. ASSUME Restart(p) \/ (Interrupted(p) /\ UNCHANGED <<hunk, holder>>),
             pc[p] \notin {"storeOffset", "uncompiled"}
      PROVE  Objects(p)
  BY <1>5, <1>6, <1>7 DEF Restart, Interrupted, shared
<1>8. CASE Begin(p)
  <2>1. \A k : Entry(k) \notin {"storeOffset", "uncompiled"}
    BY DEF Entry
  <2> QED
    BY <1>5, <1>8, <2>1 DEF Begin, At, shared
<1>9. CASE Return(p)
  BY <1>5, <1>9 DEF Return, At, shared
<1>10. CASE ReadType(p) \/ ReadOffset(p) \/ Verify(p)
  BY <1>5, <1>10 DEF ReadType, ReadOffset, Verify, At, shared
<1>11. CASE FetchValue(p) \/ StoreValue(p)
  BY <1>5, <1>11 DEF FetchValue, StoreValue, At, shared
<1>12. CASE SearchFrame(p)
  BY <1>5, <1>12 DEF SearchFrame, Found, At, shared
<1>13. CASE DeepFetch(p) \/ DeepStore(p)
  <2>1. \A c : AfterDeep(p, c) \notin {"storeOffset", "uncompiled"}
    BY DEF AfterDeep
  <2> QED
    BY <1>5, <1>7, <1>13, <2>1 DEF DeepFetch, DeepStore, At, shared
<1>14. ASSUME Existing(p), pc[p] \in {"extend", "search"}
      PROVE  Objects(p)
  BY <1>5, <1>7, <1>14 DEF Existing, Redefines, Dangerize, Down, shared
<1>15. CASE ExtendBound(p) \/ SearchReal(p)
  BY <1>14, <1>15 DEF ExtendBound, SearchReal, At
<1>16. CASE ExtendAux(p) \/ SearchPlaceholder(p) \/ SearchNothing(p)
  BY <1>5, <1>16 DEF ExtendAux, SearchPlaceholder, SearchNothing, Down, At, shared
<1>17. CASE EnsureAux(p) \/ AddRedo(p)
  <2>1. CASE AddRedo(p)
    BY <1>5, <2>1 DEF AddRedo, At, shared
  <2>2. CASE EnsureAux(p)
    <3>1. pc[p] = "ensure"
      BY <2>2 DEF EnsureAux, At
    <3>2. Restart(p) \/ (Goto(p, "search") /\ UNCHANGED <<hunk, holder>>)
      BY <2>2 DEF EnsureAux
    <3> QED
      BY <1>5, <1>7, <3>1, <3>2
  <2> QED
    BY <1>17, <2>1, <2>2
<1>18. CASE AddBinding(p)
  BY <1>5, <1>7, <1>18 DEF AddBinding, Down, At
<1>19. CASE Recache(p) \/ Definition(p) \/ Redefine(p)
  BY <1>5, <1>7, <1>19 DEF Recache, Definition, Redefine, At, shared
<1> QED
  BY <1>3, <1>4, <1>8, <1>9, <1>10, <1>11, <1>12, <1>13, <1>15, <1>16, <1>17, <1>18, <1>19
  DEF Step

\* What a step makes of auxiliary bindings.
Grows(p) == LET f == Here(p) IN
    \/ aux' = aux
    \/ /\ pc[p] \in {"ensure", "add"} /\ cell' = cell
       /\ \E room \in Nat : /\ room >= aux[f].room
                            /\ aux' = [aux EXCEPT ![f].room = room]
    \/ /\ pc[p] = "add" /\ ~Changed(p)
       /\ \E room \in Nat :
             /\ room >= aux[f].room /\ room > Len(aux[f].names)
             /\ aux' = [aux EXCEPT ![f] = [room |-> room,
                                           names |-> Append(@.names, call[p].name)]]
       /\ cell' = [cell EXCEPT ![<<f, call[p].name>>] = Placeholder]
       /\ call' = call
       /\ \/ /\ IsOriginal(p) /\ pc'[p] = "recache"
             /\ loc'[p].cell = <<f, call[p].name>> /\ ~loc'[p].shadowed
          \/ ~IsOriginal(p) /\ pc'[p] = "add" /\ loc'[p].i = loc[p].i - 1

LEMMA StepGrows ==
  ASSUME IInv, NEW p \in Procs, Step(p)
  PROVE  Grows(p)
<1> DEFINE f == Here(p)
<1>1. /\ pc \in [Procs -> Labels] /\ loc \in [Procs -> LocTypes] /\ loc[p] \in LocTypes
      /\ aux \in [Frames -> AuxTypes]
  BY DEF IInv, Typed
<1>2. pc[p] \in {"ensure", "add"} =>
         /\ f \in Frames /\ aux[f].room \in Nat /\ Len(aux[f].names) \in Nat
         /\ Len(aux[f].names) <= aux[f].room
  BY <1>1, Standing DEF IInv, AuxTypes, AuxInv
<1>3. Chunk \in Nat \ {0}
  BY EnvironmentAssumption
<1>4. CASE EnsureAux(p)
  <2>1. CASE Restart(p)
    BY <2>1 DEF Restart, shared, Grows
  <2>2. CASE ~Restart(p)
    <3> DEFINE room == IF aux[f].room = 0 THEN Chunk ELSE aux[f].room
    <3>1. room \in Nat /\ room >= aux[f].room
      BY <1>2, <1>3, <1>4 DEF EnsureAux, At
    <3>2. aux' = [aux EXCEPT ![f].room = room] /\ cell' = cell /\ pc[p] = "ensure"
      BY <1>4, <2>2 DEF EnsureAux, At
    <3> QED
      BY <3>1, <3>2 DEF Grows
  <2> QED
    BY <2>1, <2>2
<1>5. CASE AddBinding(p)
  <2> DEFINE room == RoomNeeded(f)
  <2>1. pc[p] = "add" /\ ~Changed(p)
    BY <1>5 DEF AddBinding, At
  <2>2. room \in Nat /\ room >= aux[f].room /\ room > Len(aux[f].names)
    <3>1. aux[f].room > 0
      <4>1. pend[p][loc[p].i].room > 0
        BY <2>1 DEF IInv, PendInv, Examined
      <4> QED
        BY <2>1, <4>1 DEF Changed
    <3> QED
      BY <1>2, <2>1, <3>1 DEF RoomNeeded
  <2>3. CASE Restart(p)
    BY <2>3 DEF Restart, shared, Grows
  <2>4. CASE aux' = [aux EXCEPT ![f].room = room] /\ cell' = cell
    BY <2>1, <2>2, <2>4 DEF Grows
  <2>5. CASE /\ aux' = [aux EXCEPT ![f] = [room |-> room,
                                           names |-> Append(@.names, call[p].name)]]
             /\ Write(<<f, call[p].name>>, Placeholder)
             /\ IF IsOriginal(p)
                THEN /\ Goto(p, "recache")
                     /\ Local(p, [loc[p] EXCEPT !.cell = <<f, call[p].name>>,
                                                !.shadowed = FALSE])
                ELSE Down(p)
             /\ call' = call
    <3>1. IsOriginal(p) => /\ pc'[p] = "recache" /\ ~loc'[p].shadowed
                           /\ loc'[p].cell = <<f, call[p].name>>
      <4> SUFFICES ASSUME IsOriginal(p)
          PROVE  /\ pc'[p] = "recache" /\ ~loc'[p].shadowed
                 /\ loc'[p].cell = <<f, call[p].name>>
        OBVIOUS
      <4> DEFINE x == [loc[p] EXCEPT !.cell = <<f, call[p].name>>, !.shadowed = FALSE]
      <4>1. loc' = [loc EXCEPT ![p] = x] /\ pc'[p] = "recache"
        BY <1>1, <2>5 DEF Goto, Set, Local
      <4>2. ~x.shadowed /\ x.cell = <<f, call[p].name>>
        BY <1>1 DEF LocTypes
      <4> HIDE DEF x
      <4>3. loc'[p] = x
        BY <1>1, <4>1
      <4> QED
        BY <4>1, <4>2, <4>3
    <3>2. ~IsOriginal(p) => pc'[p] = "add" /\ loc'[p].i = loc[p].i - 1
      <4> SUFFICES ASSUME ~IsOriginal(p)
          PROVE  pc'[p] = "add" /\ loc'[p].i = loc[p].i - 1
        OBVIOUS
      <4>1. loc' = [loc EXCEPT ![p] = [loc[p] EXCEPT !.i = @ - 1]] /\ pc'[p] = "add"
        BY <1>1, <2>5 DEF Down, Goto, Set, Local
      <4>2. loc'[p] = [loc[p] EXCEPT !.i = @ - 1]
        BY <1>1, <4>1
      <4> QED
        BY <1>1, <4>1, <4>2 DEF LocTypes
    <3> QED
      BY <2>1, <2>2, <2>5, <3>1, <3>2 DEF Write, Set, Grows
  <2> QED
    BY <1>5, <2>3, <2>4, <2>5 DEF AddBinding
<1>6. CASE ~(EnsureAux(p) \/ AddBinding(p))
  <2>1. aux' = aux
    BY <1>6
    DEF Step, Begin, Return, ReadType, ReadOffset, Verify, FetchValue, StoreValue, SearchFrame,
      StoreType, StoreOffset, StoreWord, StoreOff, DeepFetch, DeepStore, Uncompile, UncompileOff,
      ExtendBound, ExtendAux, SearchPlaceholder, SearchReal, SearchNothing, AddRedo, Recache,
      Definition, Redefine, Existing, Redefines, Dangerize, Restart, shared
  <2> QED
    BY <2>1 DEF Grows
<1> QED
  BY <1>4, <1>5, <1>6

\* The other processors stay where they are.
Others(p) == \A q \in Procs \ {p} : /\ pc'[q] = pc[q] /\ call'[q] = call[q]
                                    /\ loc'[q] = loc[q] /\ pend'[q] = pend[q]

LEMMA StepOthers ==
  ASSUME Typed, NEW p \in Procs, Step(p)
  PROVE  Others(p)
<1>1. /\ pc \in [Procs -> Labels] /\ call \in [Procs -> CallTypes \cup {NoCall}]
      /\ loc \in [Procs -> LocTypes] /\ pend \in [Procs -> Seq(PendTypes)]
  BY DEF Typed
<1>2. ASSUME \/ pc' = pc
             \/ \E to : Goto(p, to),
             call' = call \/ \E k : call' = Set(call, p, k),
             loc' = loc \/ \E r : Local(p, r),
             pend' = pend \/ \E s : pend' = Set(pend, p, s)
      PROVE  Others(p)
  BY <1>1, <1>2 DEF Goto, Local, Set, Others
<1>4. ASSUME Restart(p) \/ Interrupted(p)
      PROVE  Others(p)
  <2>1. /\ Goto(p, Entry(call[p])) /\ Local(p, NoLocals)
        /\ pend' = Set(pend, p, << >>) /\ call' = call
    BY <1>4 DEF Restart, Interrupted
  <2> QED
    BY <1>2, <2>1
<1>5. CASE Begin(p)
  <2>1. PICK k \in Calls[p] : call' = Set(call, p, k) /\ Goto(p, Entry(k))
    BY <1>5 DEF Begin
  <2> QED
    BY <1>2, <1>5, <2>1 DEF Begin
<1>6. CASE Return(p)
  BY <1>2, <1>6 DEF Return
<1>7. CASE ReadType(p) \/ ReadOffset(p)
  BY <1>2, <1>7 DEF ReadType, ReadOffset
<1>8. CASE Verify(p)
  BY <1>2, <1>8 DEF Verify
<1>9. CASE FetchValue(p) \/ StoreValue(p)
  BY <1>2, <1>9 DEF FetchValue, StoreValue
<1>10. CASE SearchFrame(p)
  <2>1. \A c, w, off : Found(p, c, w, off) => (\E to : Goto(p, to)) /\ \E r : Local(p, r)
    BY DEF Found
  <2> QED
    BY <1>2, <1>10, <2>1 DEF SearchFrame
<1>11. CASE StoreType(p) \/ StoreOffset(p) \/ Uncompile(p) \/ UncompileOff(p)
  BY <1>2, <1>11 DEF StoreType, StoreOffset, Uncompile, UncompileOff, StoreWord, StoreOff
<1>12. CASE DeepFetch(p) \/ DeepStore(p)
  <2> QED
    BY <1>2, <1>4, <1>12 DEF DeepFetch, DeepStore
<1>13. ASSUME Existing(p)
      PROVE  Others(p)
  BY <1>2, <1>4, <1>13 DEF Existing, Redefines, Dangerize, Down
<1>14. CASE ExtendBound(p) \/ SearchReal(p)
  BY <1>13, <1>14 DEF ExtendBound, SearchReal
<1>15. CASE ExtendAux(p) \/ SearchPlaceholder(p) \/ SearchNothing(p)
  BY <1>2, <1>15 DEF ExtendAux, SearchPlaceholder, SearchNothing, Down
<1>16. CASE EnsureAux(p)
  <2>1. Restart(p) \/ /\ Goto(p, "search") /\ UNCHANGED <<call, loc>>
                      /\ \E s : pend' = Set(pend, p, s)
    BY <1>16 DEF EnsureAux, Set
  <2> QED
    BY <1>2, <1>4, <2>1
<1>17. CASE AddBinding(p)
  BY <1>2, <1>4, <1>17 DEF AddBinding, Down
<1>18. CASE AddRedo(p) \/ Recache(p) \/ Definition(p)
  BY <1>2, <1>18 DEF AddRedo, Recache, Definition
<1>19. CASE Redefine(p)
  BY <1>2, <1>4, <1>19 DEF Redefine
<1> QED
  BY <1>5, <1>6, <1>7, <1>8, <1>9, <1>10, <1>11, <1>12, <1>14, <1>15, <1>16, <1>17,
     <1>18, <1>19 DEF Step

\* The places and calls of the processors.
LEMMA StepControl ==
  ASSUME IInv, NEW p \in Procs, Step(p)
  PROVE  /\ pc' \in [Procs -> Labels]
         /\ call' \in [Procs -> CallTypes \cup {NoCall}]
         /\ \A q \in Procs : call'[q] \in Calls[q] \cup {NoCall}
         /\ made' \in [Procs -> 0 .. MaxCalls] /\ full' \in 0 .. MaxFull
<1>1. /\ pc \in [Procs -> Labels] /\ call \in [Procs -> CallTypes \cup {NoCall}]
      /\ \A q \in Procs : call[q] \in Calls[q] \cup {NoCall}
      /\ made \in [Procs -> 0 .. MaxCalls] /\ full \in 0 .. MaxFull
      /\ MaxCalls \in Nat /\ MaxFull \in Nat
  BY EnvironmentAssumption DEF IInv, Typed
<1>2. \A k : Entry(k) \in Labels
  BY DEF Entry, Labels
<1>3. \A c : AfterDeep(p, c) \in Labels
  BY DEF AfterDeep, Labels
<1>4. \A to \in Labels : Goto(p, to) => pc' \in [Procs -> Labels]
  BY <1>1 DEF Goto, Set
<1>5. ASSUME Restart(p) \/ Interrupted(p)
      PROVE  /\ pc' \in [Procs -> Labels] /\ full' \in 0 .. MaxFull /\ UNCHANGED <<call, made>>
  BY <1>1, <1>2, <1>4, <1>5 DEF Restart, Interrupted
<1>6. pc' \in [Procs -> Labels]
  <2>1. CASE Begin(p) \/ Return(p) \/ ReadType(p) \/ ReadOffset(p) \/ Verify(p)
             \/ FetchValue(p) \/ StoreValue(p)
    <3>1. {"idle", "deep", "end", "offset", "verify", "type", "done"} \subseteq Labels
      BY DEF Labels
    <3> QED
      BY <1>1, <1>2, <1>4, <2>1, <3>1
      DEF Begin, Return, ReadType, ReadOffset, Verify, FetchValue, StoreValue
  <2>2. CASE SearchFrame(p) \/ StoreType(p) \/ StoreOffset(p) \/ Uncompile(p) \/ UncompileOff(p)
             \/ DeepFetch(p) \/ DeepStore(p)
    <3>1. {"storeType", "deepEnd", "storeOffset", "uncompiled", "done"} \subseteq Labels
      BY DEF Labels
    <3> QED
      BY <1>1, <1>3, <1>4, <1>5, <2>2, <3>1
      DEF SearchFrame, Found, StoreType, StoreOffset, Uncompile, UncompileOff, StoreWord, StoreOff,
          DeepFetch, DeepStore
  <2>3. {"redefine", "add", "ensure", "search", "recache", "extend", "definition", "done"}
          \subseteq Labels
    BY DEF Labels
  <2>4. ASSUME Existing(p) PROVE pc' \in [Procs -> Labels]
    BY <1>4, <1>5, <2>3, <2>4 DEF Existing, Redefines, Dangerize, Down
  <2>5. CASE ExtendBound(p) \/ ExtendAux(p) \/ SearchPlaceholder(p) \/ SearchReal(p)
             \/ SearchNothing(p)
    BY <1>4, <2>3, <2>4, <2>5
    DEF ExtendBound, ExtendAux, SearchPlaceholder, SearchReal, SearchNothing, Down
  <2>6. CASE EnsureAux(p)
    <3>1. Restart(p) \/ Goto(p, "search")
      BY <2>6 DEF EnsureAux
    <3> QED
      BY <1>4, <1>5, <2>3, <3>1
  <2>7. CASE AddRedo(p) \/ AddBinding(p) \/ Recache(p) \/ Definition(p) \/ Redefine(p)
    BY <1>4, <1>5, <2>3, <2>7 DEF AddRedo, AddBinding, Down, Recache, Definition, Redefine
  <2> QED
    BY <2>1, <2>2, <2>5, <2>6, <2>7 DEF Step
<1>7. CASE Begin(p)
  <2>1. PICK k \in Calls[p] : call' = Set(call, p, k)
    BY <1>7 DEF Begin
  <2>2. k \in CallTypes
    BY CallAssumption
  <2>3. made[p] + 1 \in 0 .. MaxCalls
    BY <1>1, <1>7 DEF Begin
  <2>4. call' \in [Procs -> CallTypes \cup {NoCall}]
    BY <1>1, <2>1, <2>2 DEF Set
  <2>5. \A q \in Procs : call'[q] \in Calls[q] \cup {NoCall}
    BY <1>1, <2>1 DEF Set
  <2> QED
    BY <1>1, <1>6, <1>7, <2>3, <2>4, <2>5 DEF Begin, Set
<1>8. CASE Return(p)
  BY <1>1, <1>6, <1>8 DEF Return, Set
<1>9. CASE ~Begin(p) /\ ~Return(p)
  <2>1. \/ UNCHANGED <<call, made, full>>
        \/ Restart(p) \/ Interrupted(p)
    BY <1>9
    DEF Step, ReadType, ReadOffset, Verify, FetchValue, StoreValue, SearchFrame,
      StoreType, StoreOffset, StoreWord, StoreOff, DeepFetch, DeepStore, Uncompile, UncompileOff,
      ExtendBound, ExtendAux, EnsureAux, SearchPlaceholder, SearchReal, SearchNothing, AddRedo,
      AddBinding, Recache, Definition, Redefine, Existing, Redefines, Dangerize, shared
  <2>2. UNCHANGED <<call, made>> /\ full' \in 0 .. MaxFull
    BY <1>1, <1>5, <2>1
  <2> QED
    BY <1>1, <1>6, <2>2
<1> QED
  BY <1>7, <1>8, <1>9

\* What extend_frame remembers of the frames it has been to.
LEMMA EnsurePend ==
  ASSUME IInv, NEW p \in Procs, pc[p] = "ensure", NEW x \in PendTypes,
         pend' = [pend EXCEPT ![p] = SubSeq(@, 1, loc[p].i - 1) \o <<x>>]
  PROVE  /\ pend' \in [Procs -> Seq(PendTypes)]
         /\ DOMAIN pend'[p] = 1 .. loc[p].i /\ pend'[p][loc[p].i] = x
         /\ \A j \in 1 .. loc[p].i - 1 : pend'[p][j] = pend[p][j]
<1> DEFINE i == loc[p].i
           s == pend[p]
           t == SubSeq(s, 1, i - 1) \o <<x>>
<1>1. i \in Nat \ {0} /\ s \in Seq(PendTypes) /\ pend \in [Procs -> Seq(PendTypes)]
  BY DEF IInv, Typed, LocTypes
<1>2. \A j \in 1 .. i - 1 : j \in 1 .. Len(s)
  <2>1. \A j \in 1 .. i - 1 : j \in DOMAIN pend[p]
    BY DEF IInv, PendInv, Examined, Extending
  <2> QED
    BY <1>1, <2>1
<1> HIDE DEF i, s
<1>3. /\ SubSeq(s, 1, i - 1) \in Seq(PendTypes) /\ Len(SubSeq(s, 1, i - 1)) = i - 1
      /\ \A j \in 1 .. i - 1 : SubSeq(s, 1, i - 1)[j] = s[j]
  BY <1>1, <1>2
<1>4. t \in Seq(PendTypes) /\ Len(t) = i /\ t[i] = x /\ \A j \in 1 .. i - 1 : t[j] = s[j]
  BY <1>1, <1>3
<1> HIDE DEF t
<1>5. DOMAIN t = 1 .. i
  BY <1>4
<1>6. pend' = [pend EXCEPT ![p] = t]
  BY DEF t, s, i
<1> QED
  BY <1>1, <1>4, <1>5, <1>6 DEF s, i

LEMMA StepPend ==
  ASSUME IInv, NEW p \in Procs, Step(p)
  PROVE  pend' \in [Procs -> Seq(PendTypes)]
<1>1. pend \in [Procs -> Seq(PendTypes)]
  BY DEF IInv, Typed
<1>2. CASE EnsureAux(p) /\ ~Restart(p)
  <2> DEFINE f == Here(p)
             room == IF aux[f].room = 0 THEN Chunk ELSE aux[f].room
             x == [room |-> room, count |-> Len(aux[f].names)]
  <2>1. /\ pc[p] = "ensure"
        /\ pend' = [pend EXCEPT ![p] = SubSeq(@, 1, loc[p].i - 1) \o <<x>>]
    BY <1>2 DEF EnsureAux, At
  <2>2. f \in Frames
    BY <2>1, Standing DEF IInv
  <2>3. x \in PendTypes
    BY <2>2, EnvironmentAssumption DEF IInv, Typed, AuxTypes, PendTypes
  <2> QED
    BY <2>1, <2>3, EnsurePend
<1>3. ASSUME Restart(p) \/ Interrupted(p) \/ Return(p)
      PROVE  pend' \in [Procs -> Seq(PendTypes)]
  <2>1. << >> \in Seq(PendTypes)
    OBVIOUS
  <2>2. pend' = [pend EXCEPT ![p] = << >>]
    BY <1>3 DEF Restart, Interrupted, Return, Set
  <2> QED
    BY <1>1, <2>1, <2>2
<1>4. CASE ~EnsureAux(p) /\ ~Restart(p) /\ ~Interrupted(p) /\ ~Return(p)
  BY <1>1, <1>4
  DEF Step, Begin, ReadType, ReadOffset, Verify, FetchValue, StoreValue, SearchFrame,
    StoreType, StoreOffset, StoreWord, StoreOff, DeepFetch, DeepStore, Uncompile, UncompileOff,
    ExtendBound, ExtendAux, SearchPlaceholder, SearchReal, SearchNothing, AddRedo,
    AddBinding, Recache, Definition, Redefine, Existing, Redefines, Dangerize
<1> QED
  BY <1>2, <1>3, <1>4

\* What happens to the auxiliary bindings of a frame: bindings are added at
\* the end, and only by who has looked at all that are there.
AuxKept == \A f \in Frames :
    /\ aux'[f].names \in Seq(Names) /\ aux'[f].room >= aux[f].room
    /\ Len(aux[f].names) <= Len(aux'[f].names)
    /\ \A k \in 1 .. Len(aux[f].names) : aux'[f].names[k] = aux[f].names[k]
AuxAdded(p, f) ==
    /\ pc[p] = "add" /\ ~Changed(p) /\ f = Here(p)
    /\ aux'[f].names = Append(aux[f].names, call[p].name)

LEMMA StepAux ==
  ASSUME IInv, NEW p \in Procs, Step(p)
  PROVE  /\ aux' \in [Frames -> AuxTypes] /\ AuxKept
         /\ \A f \in Frames : Len(aux'[f].names) <= aux'[f].room
         /\ \A f \in Frames : aux'[f].names = aux[f].names \/ AuxAdded(p, f)
<1>1. /\ aux \in [Frames -> AuxTypes] /\ Grows(p)
      /\ \A f \in Frames : /\ aux[f].room \in Nat /\ aux[f].names \in Seq(Names)
                           /\ Len(aux[f].names) <= aux[f].room /\ Len(aux[f].names) \in Nat
  BY StepGrows DEF IInv, Typed, AuxTypes, AuxInv
<1>2. CASE aux' = aux
  BY <1>1, <1>2 DEF AuxKept
<1> DEFINE g == Here(p)
<1>3. ASSUME pc[p] \in {"ensure", "add"}, NEW room \in Nat, room >= aux[g].room,
             aux' = [aux EXCEPT ![g].room = room]
      PROVE  /\ aux' \in [Frames -> AuxTypes] /\ AuxKept
             /\ \A f \in Frames : Len(aux'[f].names) <= aux'[f].room
             /\ \A f \in Frames : aux'[f].names = aux[f].names
  <2>1. g \in Frames
    BY <1>3, Standing DEF IInv
  <2>2. /\ aux' \in [Frames -> AuxTypes]
        /\ \A f \in Frames : aux'[f].names = aux[f].names /\ aux'[f].room >= aux[f].room
    BY <1>1, <1>3, <2>1 DEF AuxTypes
  <2>3. \A f \in Frames : aux'[f].room \in Nat
    BY <2>2 DEF AuxTypes
  <2> QED
    BY <1>1, <2>2, <2>3 DEF AuxKept
<1>4. ASSUME pc[p] = "add", ~Changed(p), NEW room \in Nat, room > Len(aux[g].names), room >= aux[g].room,
             aux' = [aux EXCEPT ![g] = [room |-> room, names |-> Append(@.names, call[p].name)]]
      PROVE  /\ aux' \in [Frames -> AuxTypes] /\ AuxKept
             /\ \A f \in Frames : Len(aux'[f].names) <= aux'[f].room
             /\ \A f \in Frames : aux'[f].names = aux[f].names \/ AuxAdded(p, f)
  <2>1. g \in Frames /\ call[p].name \in Names
    BY <1>4, Standing, Asked DEF IInv
  <2> DEFINE s == Append(aux[g].names, call[p].name)
             x == [room |-> room, names |-> s]
  <2>2. /\ s \in Seq(Names) /\ Len(s) = Len(aux[g].names) + 1
        /\ \A k \in 1 .. Len(aux[g].names) : s[k] = aux[g].names[k]
    BY <1>1, <2>1
  <2>3. /\ aux'[g] = x /\ aux' \in [Frames -> AuxTypes]
        /\ \A f \in Frames \ {g} : aux'[f] = aux[f]
    <3>1. x \in AuxTypes
      BY <2>2 DEF AuxTypes
    <3> QED
      BY <1>1, <1>4, <2>1, <3>1
  <2>4. aux'[g].names = s /\ aux'[g].room = room
    BY <2>3
  <2> QED
    BY <1>1, <1>4, <2>1, <2>2, <2>3, <2>4 DEF AuxKept, AuxAdded
<1> QED
  BY <1>1, <1>2, <1>3, <1>4 DEF Grows

\* Who begins a call is asked for something, and who ends it for nothing more.
LEMMA CallsGo ==
  ASSUME IInv, NEW p \in Procs, Step(p)
  PROVE  /\ pc'[p] = "idle" <=> call'[p] = NoCall
         /\ pc[p] = "idle" <=> Begin(p)
         /\ pc'[p] = "idle" <=> Return(p)
         /\ ~Begin(p) /\ ~Return(p) => call' = call
<1>1. /\ pc \in [Procs -> Labels] /\ call \in [Procs -> CallTypes \cup {NoCall}]
      /\ pc[p] = "idle" <=> call[p] = NoCall
  BY DEF IInv, Typed, Roles, Role
<1>2. \A k : Entry(k) # "idle"
  BY DEF Entry
<1>3. \A c : AfterDeep(p, c) # "idle"
  BY DEF AfterDeep
<1>4. \A k \in CallTypes : k # NoCall
  <2>1. NoCall \notin CallTypes
    <3>1. \A k \in CallTypes : k.kind \in Kinds
      BY DEF CallTypes
    <3>2. NoCall.kind \notin Kinds
      BY DEF NoCall, Kinds
    <3> QED
      BY <3>1, <3>2
  <2> QED
    BY <2>1
<1>5. ASSUME NEW to, to # "idle", Goto(p, to)
      PROVE  pc'[p] # "idle"
  BY <1>1, <1>5 DEF Goto, Set
<1>6. CASE Begin(p)
  <2>1. PICK k \in Calls[p] : call' = Set(call, p, k) /\ Goto(p, Entry(k))
    BY <1>6 DEF Begin
  <2>2. k \in CallTypes
    BY CallAssumption
  <2>3. pc'[p] # "idle" /\ call'[p] # NoCall /\ pc[p] = "idle"
    BY <1>1, <1>2, <1>4, <1>5, <1>6, <2>1, <2>2 DEF Begin, At, Set
  <2>4. ~Return(p)
    BY <2>3 DEF Return, At
  <2> QED
    BY <1>6, <2>3, <2>4
<1>7. CASE Return(p)
  <2>1. pc'[p] = "idle" /\ call'[p] = NoCall /\ pc[p] = "done"
    BY <1>1, <1>7 DEF Return, At, Goto, Set
  <2>2. ~Begin(p)
    BY <2>1 DEF Begin, At
  <2> QED
    BY <1>7, <2>1, <2>2
<1>8. CASE ~Begin(p) /\ ~Return(p)
  <2> SUFFICES pc[p] # "idle" /\ pc'[p] # "idle" /\ call' = call
    BY <1>1, <1>8
  <2>1. call' = call
    BY <1>8
    DEF Step, ReadType, ReadOffset, Verify, FetchValue, StoreValue, SearchFrame,
      StoreType, StoreOffset, StoreWord, StoreOff, DeepFetch, DeepStore, Uncompile, UncompileOff,
      ExtendBound, ExtendAux, EnsureAux, SearchPlaceholder, SearchReal, SearchNothing, AddRedo,
      AddBinding, Recache, Definition, Redefine, Existing, Redefines, Dangerize,
      Restart, Interrupted, shared
  <2>2. pc[p] # "idle"
    BY <1>8
    DEF Step, ReadType, ReadOffset, Verify, FetchValue, StoreValue, SearchFrame,
      StoreType, StoreOffset, StoreWord, StoreOff, DeepFetch, DeepStore, Uncompile, UncompileOff,
      ExtendBound, ExtendAux, EnsureAux, SearchPlaceholder, SearchReal, SearchNothing, AddRedo,
      AddBinding, Recache, Definition, Redefine, At
  <2>3. ASSUME Restart(p) \/ Interrupted(p)
        PROVE  pc'[p] # "idle"
    BY <1>2, <1>5, <2>3 DEF Restart, Interrupted
  <2>4. ASSUME Existing(p)
        PROVE  pc'[p] # "idle"
    BY <1>5, <2>3, <2>4 DEF Existing, Redefines, Dangerize, Down
  <2>5. CASE EnsureAux(p)
    <3>1. Restart(p) \/ Goto(p, "search")
      BY <2>5 DEF EnsureAux
    <3> QED
      BY <1>5, <2>1, <2>2, <2>3, <3>1
  <2>6. CASE ReadType(p) \/ ReadOffset(p) \/ Verify(p) \/ FetchValue(p) \/ StoreValue(p)
    BY <1>1, <1>5, <2>1, <2>2, <2>6 DEF ReadType, ReadOffset, Verify, FetchValue, StoreValue
  <2>7. CASE SearchFrame(p)
    BY <1>1, <1>5, <2>1, <2>2, <2>7 DEF SearchFrame, Found
  <2>8. CASE StoreType(p) \/ StoreOffset(p) \/ Uncompile(p) \/ UncompileOff(p)
    BY <1>5, <2>1, <2>2, <2>8 DEF StoreType, StoreOffset, StoreWord, StoreOff, Uncompile, UncompileOff
  <2>9. CASE DeepFetch(p) \/ DeepStore(p) \/ Redefine(p)
    BY <1>3, <1>5, <2>1, <2>2, <2>3, <2>9 DEF DeepFetch, DeepStore, Redefine
  <2>10. CASE ExtendBound(p) \/ ExtendAux(p) \/ SearchPlaceholder(p) \/ SearchReal(p)
              \/ SearchNothing(p) \/ AddRedo(p) \/ AddBinding(p) \/ Recache(p) \/ Definition(p)
    BY <1>5, <2>1, <2>2, <2>3, <2>4, <2>10
    DEF ExtendBound, ExtendAux, SearchPlaceholder, SearchReal, SearchNothing, AddRedo,
        AddBinding, Recache, Definition, Down
  <2> QED
    BY <1>8, <2>1, <2>2, <2>5, <2>6, <2>7, <2>8, <2>9, <2>10 DEF Step
<1> QED
  BY <1>6, <1>7, <1>8

LEMMA StepTyped ==
  ASSUME IInv, NEW p \in Procs, Step(p), Watch
  PROVE  Typed'
<1>1. /\ pc' \in [Procs -> Labels]
      /\ call' \in [Procs -> CallTypes \cup {NoCall}]
      /\ \A q \in Procs : call'[q] \in Calls[q] \cup {NoCall}
      /\ made' \in [Procs -> 0 .. MaxCalls] /\ full' \in 0 .. MaxFull
      /\ pend' \in [Procs -> Seq(PendTypes)] /\ aux' \in [Frames -> AuxTypes]
  BY StepControl, StepPend, StepAux
<1>2. loc' \in [Procs -> LocTypes]
  <2>1. loc \in [Procs -> LocTypes]
    BY DEF IInv, Typed
  <2> QED
    BY <2>1, LookupTyped, OtherLocalsTyped
<1>3. cell' \in [Cells -> Contents]
  BY StepWrites DEF Writes, IInv, Typed
<1>4. hunk' \in [Hunks -> HunkTypes] /\ holder' \in [Hunks -> Procs \cup {Free}]
  <2>1. hunk \in [Hunks -> HunkTypes] /\ holder \in [Hunks -> Procs \cup {Free}] /\ Objects(p)
    BY StepObjects DEF IInv, Typed
  <2>2. CASE UNCHANGED <<hunk, holder>>
    BY <2>1, <2>2
  <2>3. ASSUME NEW h \in Hunks, NEW w \in WordTypes, hunk' = [hunk EXCEPT ![h].word = w],
               holder' = [holder EXCEPT ![h] = p]
        PROVE  hunk' \in [Hunks -> HunkTypes] /\ holder' \in [Hunks -> Procs \cup {Free}]
    BY <2>1, <2>3 DEF HunkTypes
  <2>4. ASSUME NEW h \in Hunks, NEW off \in Words, hunk' = [hunk EXCEPT ![h].off = off],
               holder' = [holder EXCEPT ![h] = Free]
        PROVE  hunk' \in [Hunks -> HunkTypes] /\ holder' \in [Hunks -> Procs \cup {Free}]
    BY <2>1, <2>4 DEF HunkTypes
  <2> QED
    BY <2>1, <2>2, <2>3, <2>4 DEF Objects
<1>5. seen' \in [Procs -> SUBSET Cells]
  <2>1. seen \in [Procs -> SUBSET Cells]
    BY DEF IInv, Typed
  <2>2. \A q \in Procs : pc'[q] # "idle" => Meant(q)' \in Cells
    <3> SUFFICES ASSUME NEW q \in Procs, pc'[q] # "idle"
        PROVE  Meant(q)' \in Cells
      OBVIOUS
    <3>1. call'[q] # NoCall
      <4>1. CASE q # p
        BY <4>1, StepOthers DEF IInv, Others, Roles, Role
      <4>2. CASE q = p
        BY <4>2, CallsGo
      <4> QED
        BY <4>1, <4>2
    <3>2. call'[q] \in CallTypes
      BY <1>1, <3>1
    <3>3. call'[q].env \in Envs /\ call'[q].name \in Names
      BY <3>2 DEF CallTypes
    <3> QED
      BY <3>3, VisibleIsCell DEF Meant
  <2> QED
    BY <2>1, <2>2 DEF Watch
<1>6. apart' \in BOOLEAN
  BY DEF Watch
<1> QED
  BY <1>1, <1>2, <1>3, <1>4, <1>5, <1>6 DEF Typed

-----------------------------------------------------------------------------
(* Bindings stay where they are *)

\* Bindings are added where there was nothing for the name, by who has seen that.
BindingsKept(p) ==
    /\ \A f \in Frames, n \in Names : HasAux(f, n) => HasAux(f, n)'
    /\ \A f \in Frames, n \in Names : HasAux(f, n)' /\ ~HasAux(f, n) =>
          AuxAdded(p, f) /\ n = call[p].name /\ ~HasCell(f, n)
    /\ \A g \in Envs, n \in Names : HasCell(g, n) => HasCell(g, n)' /\ TheCell(g, n)' = TheCell(g, n)

\* The places of names that are there are counted already.
LEMMA AuxPlaces ==
  ASSUME Typed, NEW f \in Frames, NEW n \in Names
  PROVE  /\ aux[f].names \in Seq(Names) /\ Len(aux[f].names) \in Nat
         /\ HasAux(f, n) <=> \E k \in 1 .. Len(aux[f].names) : aux[f].names[k] = n
<1>1. aux[f].names \in Seq(Names)
  BY DEF Typed, AuxTypes
<1> QED
  BY <1>1 DEF HasAux, ToSet

LEMMA AuxPlacesNext ==
  ASSUME Typed', NEW f \in Frames, NEW n \in Names
  PROVE  HasAux(f, n)' <=> \E k \in 1 .. Len(aux'[f].names) : aux'[f].names[k] = n
<1>1. aux'[f].names \in Seq(Names)
  BY DEF Typed, AuxTypes
<1> QED
  BY <1>1 DEF HasAux, ToSet

\* Who adds a binding has found nothing for the name in the frame.
LEMMA NothingThere ==
  ASSUME IInv, NEW p \in Procs, NEW f \in Frames, AuxAdded(p, f)
  PROVE  /\ ~HasAux(f, call[p].name) /\ ~IsFormal(f, call[p].name) /\ call[p].name \in Names
         /\ call[p].kind = "definition" /\ call[p].env \in Frames
<1> DEFINE i == loc[p].i
           n == call[p].name
           s == pend[p][i]
<1>1. pc[p] = "add" /\ f = Here(p) /\ ~Changed(p) /\ n \in Names /\ call[p].env \in Envs
  BY Asked DEF AuxAdded, IInv
<1>2. Examined(p, i) /\ call[p].kind = "definition"
  BY <1>1 DEF IInv, PendInv, Roles, Role, Defining, Extending
<1>3. s.count = Len(aux[f].names)
  BY <1>1 DEF Changed
<1>4. \A k \in 1 .. Len(aux[f].names) : aux[f].names[k] # n
  BY <1>1, <1>2, <1>3 DEF Examined, Here
<1>5. ~IsFormal(f, n)
  BY <1>1, <1>2 DEF Examined, Here
<1>6. ~HasAux(f, n)
  BY <1>1, <1>4, AuxPlaces DEF IInv
<1>7. call[p].env \in Frames
  <2>1. i \in 1 .. Len(Chain[call[p].env])
    BY <1>1, Standing DEF IInv
  <2>2. call[p].env # Global
    BY <2>1, Chains DEF Envs
  <2> QED
    BY <1>1, <2>2 DEF Envs
<1> QED
  BY <1>1, <1>2, <1>5, <1>6, <1>7

LEMMA StepBindings ==
  ASSUME IInv, NEW p \in Procs, Step(p), Watch
  PROVE  BindingsKept(p) /\ AuxInv'
<1>1. Typed /\ Typed' /\ AuxKept
  BY StepTyped, StepAux DEF IInv
<1>2. /\ \A f \in Frames : Len(aux'[f].names) <= aux'[f].room
      /\ \A f \in Frames : aux'[f].names = aux[f].names \/ AuxAdded(p, f)
  BY StepAux
<1>3. ASSUME NEW f \in Frames, NEW n \in Names, HasAux(f, n)
      PROVE  HasAux(f, n)'
  <2>1. PICK k \in 1 .. Len(aux[f].names) : aux[f].names[k] = n
    BY <1>1, <1>3, AuxPlaces
  <2>2. k \in 1 .. Len(aux'[f].names) /\ aux'[f].names[k] = n
    <3>1. aux'[f].names \in Seq(Names) /\ aux[f].names \in Seq(Names)
      BY <1>1 DEF Typed, AuxTypes, AuxKept
    <3> QED
      BY <1>1, <2>1, <3>1 DEF AuxKept
  <2> QED
    BY <1>1, <2>2, AuxPlacesNext
<1>4. ASSUME NEW f \in Frames, AuxAdded(p, f), NEW n \in Names
      PROVE  /\ HasAux(f, n)' => HasAux(f, n) \/ n = call[p].name
             /\ IsInjective(aux'[f].names)
  <2> DEFINE s == aux[f].names
             t == Append(s, call[p].name)
  <2>1. s \in Seq(Names) /\ call[p].name \in Names /\ aux'[f].names = t /\ IsInjective(s)
    BY <1>1, <1>4, AuxPlaces, NothingThere DEF AuxAdded, IInv, AuxInv
  <2>2. \A k \in 1 .. Len(s) : s[k] # call[p].name
    BY <1>1, <1>4, NothingThere, AuxPlaces
  <2>3. /\ Len(t) = Len(s) + 1 /\ Len(s) \in Nat /\ t \in Seq(Names)
        /\ \A k \in 1 .. Len(s) : t[k] = s[k]
        /\ t[Len(s) + 1] = call[p].name
    BY <2>1
  <2> HIDE DEF t
  <2>4. DOMAIN t = 1 .. Len(s) + 1 /\ DOMAIN s = 1 .. Len(s)
    BY <2>1, <2>3
  <2>5. \A k \in 1 .. Len(s) + 1 : k = Len(s) + 1 \/ k \in 1 .. Len(s)
    BY <2>3
  <2>6. \A j, k \in 1 .. Len(s) + 1 : t[j] = t[k] => j = k
    <3>1. \A j, k \in 1 .. Len(s) : s[j] = s[k] => j = k
      BY <2>1, <2>4 DEF IsInjective
    <3> QED
      BY <2>2, <2>3, <2>5, <3>1
  <2>7. IsInjective(t)
    BY <2>4, <2>6 DEF IsInjective
  <2>8. HasAux(f, n)' => HasAux(f, n) \/ n = call[p].name
    <3>1. HasAux(f, n)' => \E k \in 1 .. Len(s) + 1 : t[k] = n
      BY <1>1, <2>1, <2>3, AuxPlacesNext
    <3>2. \A k \in 1 .. Len(s) : s[k] = n => HasAux(f, n)
      BY <1>1, AuxPlaces
    <3> QED
      BY <2>3, <2>5, <3>1, <3>2
  <2> QED
    BY <2>1, <2>7, <2>8
<1>5. ASSUME NEW f \in Frames, aux'[f].names = aux[f].names, NEW n \in Names
      PROVE  HasAux(f, n)' <=> HasAux(f, n)
  BY <1>5 DEF HasAux
<1>6. \A f \in Frames, n \in Names : HasAux(f, n)' /\ ~HasAux(f, n) =>
          AuxAdded(p, f) /\ n = call[p].name /\ ~HasCell(f, n)
  <2> SUFFICES ASSUME NEW f \in Frames, NEW n \in Names, HasAux(f, n)', ~HasAux(f, n)
      PROVE  AuxAdded(p, f) /\ n = call[p].name /\ ~HasCell(f, n)
    OBVIOUS
  <2>1. AuxAdded(p, f)
    BY <1>2, <1>5
  <2>2. n = call[p].name
    BY <1>4, <2>1
  <2> QED
    BY <2>1, <2>2, NothingThere, EnvironmentAssumption DEF HasCell
<1>7. AuxInv'
  <2> SUFFICES ASSUME NEW f \in Frames
      PROVE  /\ IsInjective(aux'[f].names) /\ Len(aux'[f].names) <= aux'[f].room
             /\ \A n \in Names : ~(HasAux(f, n)' /\ IsFormal(f, n))
    BY DEF AuxInv, IsFormal
  <2>1. IsInjective(aux'[f].names)
    <3>1. CASE AuxAdded(p, f)
      <4>1. call[p].name \in Names
        BY <3>1, NothingThere
      <4> QED
        BY <1>4, <3>1, <4>1
    <3> QED
      BY <1>2, <3>1 DEF IInv, AuxInv
  <2>2. ASSUME NEW n \in Names, HasAux(f, n)'
        PROVE  ~IsFormal(f, n)
    BY <1>6, <2>2 DEF HasCell, IInv, AuxInv
  <2> QED
    BY <1>2, <2>1, <2>2
<1>8. ASSUME NEW g \in Envs, NEW n \in Names, HasCell(g, n)
      PROVE  HasCell(g, n)' /\ TheCell(g, n)' = TheCell(g, n)
  <2>1. CASE g = Global
    BY <2>1 DEF HasCell, TheCell
  <2>2. CASE g # Global
    <3>1. g \in Frames
      BY <2>2 DEF Envs
    <3>2. HasAux(g, n)' <=> HasAux(g, n)
      BY <1>3, <1>6, <1>8, <3>1
    <3> QED
      BY <1>8, <2>2, <3>2 DEF HasCell, TheCell, CellIn, IsFormal, FormalWord
  <2> QED
    BY <2>1, <2>2
<1> QED
  BY <1>3, <1>6, <1>7, <1>8 DEF BindingsKept

-----------------------------------------------------------------------------
(* Every step preserves roles and places *)

\* Where a call begins, and begins again.
LEMMA Entering ==
  ASSUME NEW k \in CallTypes, NEW q \in Procs, k \in Calls[q]
  PROVE  /\ Entry(k) \in {"extend", "type", "deep"}
         /\ Entry(k) = "extend" <=> k.kind = "definition"
         /\ Entry(k) = "type" => k.compiles /\ k.kind # "definition"
<1>1. k.compiles \in BOOLEAN
  BY DEF CallTypes
<1> QED
  BY <1>1, CallAssumption DEF Entry

LEMMA StepRole ==
  ASSUME IInv, NEW p \in Procs, Step(p), Watch
  PROVE  Role(p)'
<1>1. /\ pc \in [Procs -> Labels] /\ call \in [Procs -> CallTypes \cup {NoCall}]
      /\ pc[p] = "idle" <=> call[p] = NoCall
      /\ pc[p] \in Looking => call[p].kind # "definition"
      /\ pc[p] \in OnPath \cup OnObject => call[p].compiles
      /\ pc[p] \in Defining => call[p].kind = "definition"
  BY DEF IInv, Typed, Roles, Role
<1>2. /\ pc'[p] = "idle" <=> call'[p] = NoCall
      /\ pc[p] = "idle" <=> Begin(p)
      /\ pc'[p] = "idle" <=> Return(p)
      /\ ~Begin(p) /\ ~Return(p) => call' = call
  BY CallsGo
<1>3. pc[p] # "idle" => call[p] \in CallTypes /\ call[p] \in Calls[p]
  BY Asked DEF IInv
<1> DEFINE R(c, k) == /\ c \in Looking => k.kind # "definition"
                      /\ c \in OnPath \cup OnObject => k.compiles
                      /\ c \in Defining => k.kind = "definition"
<1>4. \A q \in Procs : \A k \in CallTypes : k \in Calls[q] => R(Entry(k), k)
  BY Entering DEF Looking, OnPath, OnObject, Defining, Extending
<1> SUFFICES R(pc'[p], call'[p])
  BY <1>2 DEF Role
<1>5. CASE Begin(p)
  <2>1. PICK k \in Calls[p] : call' = Set(call, p, k) /\ Goto(p, Entry(k))
    BY <1>5 DEF Begin
  <2>2. k \in CallTypes
    BY CallAssumption
  <2>3. call'[p] = k /\ pc'[p] = Entry(k)
    BY <1>1, <2>1 DEF Goto, Set
  <2> HIDE DEF R
  <2> QED
    BY <1>4, <2>2, <2>3
<1>6. CASE Return(p)
  BY <1>2, <1>6 DEF Looking, OnPath, OnObject, Defining, Extending
<1>7. ASSUME Restart(p) \/ Interrupted(p), ~Begin(p), ~Return(p)
      PROVE  R(pc'[p], call'[p])
  <2>1. pc'[p] = Entry(call[p]) /\ call' = call
    BY <1>1, <1>2, <1>7 DEF Restart, Interrupted, Goto, Set
  <2> HIDE DEF R
  <2> QED
    BY <1>2, <1>3, <1>4, <1>7, <2>1
<1>8. ASSUME ~Begin(p), ~Return(p), NEW to, Goto(p, to), R(to, call[p])
      PROVE  R(pc'[p], call'[p])
  <2>1. pc'[p] = to /\ call' = call
    BY <1>1, <1>2, <1>8 DEF Goto, Set
  <2> HIDE DEF R
  <2> QED
    BY <1>8, <2>1
<1>9. CASE ~Begin(p) /\ ~Return(p)
  <2>1. /\ \A to \in {"done"} : R(to, call[p])
        /\ pc[p] \in Looking => \A to \in {"deep", "deepEnd"} : R(to, call[p])
        /\ pc[p] \in Looking /\ call[p].compiles =>
              \A to \in OnPath \cup OnObject : R(to, call[p])
        /\ pc[p] \in Defining => \A to \in Defining : R(to, call[p])
    BY <1>1 DEF Looking, OnPath, OnObject, Defining, Extending
  <2>2. CASE ReadType(p) \/ ReadOffset(p) \/ Verify(p) \/ FetchValue(p) \/ StoreValue(p)
    <3>1. pc[p] \in OnPath /\ pc[p] \in Looking /\ call[p].compiles
      BY <1>1, <2>2
      DEF ReadType, ReadOffset, Verify, FetchValue, StoreValue, At, Looking, OnPath, OnObject
    <3>2. \E to \in {"done", "deep"} \cup OnPath : Goto(p, to)
      BY <2>2 DEF ReadType, ReadOffset, Verify, FetchValue, StoreValue, OnPath
    <3> HIDE DEF R
    <3> QED
      BY <1>8, <1>9, <2>1, <3>1, <3>2
  <2>3. CASE SearchFrame(p)
    <3>1. pc[p] \in Looking /\ pc[p] = "deep"
      BY <2>3 DEF SearchFrame, At, Looking
    <3>2. \/ Goto(p, "storeType") /\ call[p].compiles
          \/ Goto(p, "deepEnd")
          \/ pc' = pc
      BY <2>3 DEF SearchFrame, Found
    <3>3. Goto(p, "deep") \/ pc' # pc
      BY <1>1, <3>1 DEF Goto, Set
    <3>4. "storeType" \in OnObject
      BY DEF OnObject
    <3> HIDE DEF R
    <3> QED
      BY <1>8, <1>9, <2>1, <3>1, <3>2, <3>3, <3>4
  <2>4. CASE StoreType(p) \/ StoreOffset(p) \/ Uncompile(p) \/ UncompileOff(p)
    <3>1. pc[p] \in OnObject /\ pc[p] \in Looking /\ call[p].compiles
      BY <1>1, <2>4
      DEF StoreType, StoreOffset, StoreWord, StoreOff, Uncompile, UncompileOff, At, Looking, OnObject
    <3>2. \E to \in {"done", "deepEnd"} \cup OnObject : Goto(p, to)
      BY <2>4 DEF StoreType, StoreOffset, StoreWord, StoreOff, Uncompile, UncompileOff, OnObject
    <3> HIDE DEF R
    <3> QED
      BY <1>8, <1>9, <2>1, <3>1, <3>2
  <2>5. CASE DeepFetch(p) \/ DeepStore(p)
    <3>1. pc[p] \in Looking
      BY <2>5 DEF DeepFetch, DeepStore, At, Looking
    <3>2. \/ Goto(p, "uncompile") /\ call[p].compiles
          \/ Goto(p, "done")
          \/ Restart(p)
      BY <2>5 DEF DeepFetch, DeepStore, AfterDeep
    <3>3. "uncompile" \in OnObject
      BY DEF OnObject
    <3> HIDE DEF R
    <3> QED
      BY <1>7, <1>8, <1>9, <2>1, <3>1, <3>2, <3>3
  <2>6. ASSUME pc[p] \in Defining,
               (\E to \in {"done"} \cup Defining : Goto(p, to)) \/ Restart(p) \/ Interrupted(p)
        PROVE  R(pc'[p], call'[p])
    <3> HIDE DEF R
    <3> QED
      BY <1>7, <1>8, <1>9, <2>1, <2>6
  <2>7. ASSUME Existing(p)
        PROVE  (\E to \in {"done"} \cup Defining : Goto(p, to)) \/ Restart(p)
    BY <2>7 DEF Existing, Redefines, Dangerize, Down, Defining, Extending
  <2>8. CASE EnsureAux(p)
    <3>1. pc[p] = "ensure" /\ (Restart(p) \/ Goto(p, "search"))
      BY <2>8 DEF EnsureAux, At
    <3> HIDE DEF R
    <3> QED
      BY <2>6, <3>1 DEF Defining, Extending
  <2>9. CASE ExtendBound(p) \/ ExtendAux(p) \/ SearchPlaceholder(p) \/ SearchReal(p)
              \/ SearchNothing(p)
    <3>1. pc[p] \in Defining
      BY <2>9 DEF ExtendBound, ExtendAux, SearchPlaceholder, SearchReal, SearchNothing,
                  At, Defining, Extending
    <3>2. (\E to \in {"done"} \cup Defining : Goto(p, to)) \/ Restart(p)
      BY <2>7, <2>9 DEF ExtendBound, ExtendAux, SearchPlaceholder, SearchReal, SearchNothing,
                        Down, Defining, Extending
    <3> HIDE DEF R
    <3> QED
      BY <2>6, <3>1, <3>2
  <2>10. CASE AddRedo(p) \/ AddBinding(p) \/ Recache(p) \/ Definition(p) \/ Redefine(p)
    <3>1. pc[p] \in Defining
      BY <2>10 DEF AddRedo, AddBinding, Recache, Definition, Redefine, At, Defining, Extending
    <3>2. (\E to \in {"done"} \cup Defining : Goto(p, to)) \/ Restart(p) \/ Interrupted(p)
      BY <2>10 DEF AddRedo, AddBinding, Recache, Definition, Redefine, Down, Defining, Extending
    <3> HIDE DEF R
    <3> QED
      BY <2>6, <3>1, <3>2
  <2> HIDE DEF R
  <2> QED
    BY <1>9, <2>2, <2>3, <2>4, <2>5, <2>8, <2>9, <2>10 DEF Step
<1> HIDE DEF R
<1> QED
  BY <1>5, <1>6, <1>9

\* How the frame that a processor is at changes.
Moves(p) == LET i == loc[p].i  j == loc'[p].i IN
    \/ j = 1 /\ pc'[p] \notin {"ensure", "search", "add"}
    \/ /\ j = i
       /\ \/ pc'[p] \in {"recache", "definition", "redefine", "done"}
          \/ pc[p] = "extend" /\ pc'[p] = "ensure" /\ ~AtTop(p)
          \/ pc[p] = "ensure" /\ pc'[p] = "search"
          \/ pc[p] = "add" /\ pc'[p] = "ensure"
    \/ /\ j = i + 1 /\ ~AtTop(p)
       /\ \/ pc[p] = "deep" /\ pc'[p] = "deep"
          \/ pc[p] = "search" /\ pc'[p] = "extend"
    \/ j = i - 1 /\ i > 1 /\ pc[p] \in Extending /\ pc'[p] = "add"

LEMMA StepMoves ==
  ASSUME IInv, NEW p \in Procs, Step(p)
  PROVE  /\ Moves(p)
         /\ pc'[p] \in {"idle"} \cup (Looking \ {"deep"}) => loc'[p].i = 1
<1> DEFINE G == /\ Moves(p)
                /\ pc'[p] \in {"idle"} \cup (Looking \ {"deep"}) => loc'[p].i = 1
<1> SUFFICES G
  OBVIOUS
<1>1. /\ pc \in [Procs -> Labels] /\ loc \in [Procs -> LocTypes] /\ loc[p] \in LocTypes
      /\ loc[p].i \in Nat \ {0}
      /\ pc[p] \in {"idle"} \cup (Looking \ {"deep"}) => loc[p].i = 1
  BY DEF IInv, Typed, PlaceInv, Place, LocTypes
<1>2. ASSUME loc'[p].i = 1, NEW to, Goto(p, to), to \notin {"ensure", "search", "add"} PROVE G
  <2>1. pc'[p] = to
    BY <1>1, <1>2 DEF Goto, Set
  <2> QED
    BY <1>2, <2>1 DEF Moves
<1>3. ASSUME NEW r, Local(p, r), r.i = 1 PROVE loc'[p].i = 1
  BY <1>1, <1>3 DEF Local, Set
<1>4. ASSUME Restart(p) \/ Interrupted(p) PROVE G
  <2>1. Entry(call[p]) \notin {"ensure", "search", "add"}
    BY DEF Entry
  <2>2. NoLocals.i = 1
    BY DEF NoLocals
  <2> QED
    BY <1>2, <1>3, <1>4, <2>1, <2>2 DEF Restart, Interrupted
<1>6. CASE Begin(p) \/ ReadType(p) \/ ReadOffset(p) \/ Verify(p) \/ FetchValue(p)
           \/ StoreValue(p) \/ StoreType(p) \/ StoreOffset(p) \/ DeepFetch(p)
           \/ Uncompile(p) \/ UncompileOff(p)
  <2>1. loc[p].i = 1
    BY <1>1, <1>6 DEF Begin, ReadType, ReadOffset, Verify, FetchValue, StoreValue, StoreType,
      StoreOffset, StoreWord, StoreOff, DeepFetch, Uncompile, UncompileOff, At, Looking, OnPath, OnObject
  <2>2. loc' = loc \/ \E c, w, off :
           \/ Local(p, [loc[p] EXCEPT !.cell = c])
           \/ Local(p, [loc[p] EXCEPT !.word = w])
           \/ Local(p, [loc[p] EXCEPT !.off = off])
    BY <1>6 DEF Begin, ReadType, ReadOffset, Verify, FetchValue, StoreValue, StoreType,
      StoreOffset, StoreWord, StoreOff, DeepFetch, Uncompile, UncompileOff, shared
  <2>3. \A c : /\ [loc[p] EXCEPT !.cell = c].i = 1 /\ [loc[p] EXCEPT !.word = c].i = 1
               /\ [loc[p] EXCEPT !.off = c].i = 1
    BY <1>1, <2>1 DEF LocTypes
  <2>4. loc'[p].i = 1
    BY <1>3, <2>1, <2>2, <2>3
  <2>5. \E to : Goto(p, to) /\ to \notin {"ensure", "search", "add"}
    <3>1. \A k : Entry(k) \notin {"ensure", "search", "add"}
      BY DEF Entry
    <3>2. \A c : AfterDeep(p, c) \notin {"ensure", "search", "add"}
      BY DEF AfterDeep
    <3>3. CASE Begin(p)
      BY <3>1, <3>3 DEF Begin
    <3>4. CASE FetchValue(p)
      <4>1. Goto(p, "deep") \/ Goto(p, "done")
        BY <3>4 DEF FetchValue
      <4> QED
        BY <4>1
    <3> QED
      BY <1>6, <3>2, <3>3, <3>4 DEF ReadType, ReadOffset, Verify, StoreValue, StoreType,
        StoreOffset, StoreWord, StoreOff, DeepFetch, Uncompile, UncompileOff
  <2> QED
    BY <1>2, <2>4, <2>5
<1>7. CASE Return(p)
  BY <1>2, <1>3, <1>7 DEF Return, NoLocals
<1>8. CASE DeepStore(p)
  <2>1. loc[p].i = 1
    BY <1>1, <1>8 DEF DeepStore, At, Looking
  <2>2. Restart(p) \/ (loc' = loc /\ \E to : Goto(p, to) /\ to \in {"uncompile", "done"})
    BY <1>8 DEF DeepStore, AfterDeep
  <2> QED
    BY <1>2, <1>4, <2>1, <2>2
<1>9. ASSUME pc'[p] \notin {"idle"} \cup (Looking \ {"deep"}), Moves(p) PROVE G
  BY <1>9
<1> HIDE DEF G
<1>10. ASSUME NEW to, Goto(p, to) PROVE pc'[p] = to
  BY <1>1, <1>10 DEF Goto, Set
<1>11. CASE SearchFrame(p)
  <2>1. pc[p] = "deep"
    BY <1>11 DEF SearchFrame, At
  <2>2. ASSUME NEW c, NEW w, NEW off, Found(p, c, w, off) PROVE G
    <3>1. [loc[p] EXCEPT !.cell = c, !.word = w, !.off = off, !.i = 1].i = 1
      BY <1>1 DEF LocTypes
    <3>2. Goto(p, "storeType") \/ Goto(p, "deepEnd")
      BY <2>2 DEF Found
    <3> QED
      BY <1>2, <1>3, <2>2, <3>1, <3>2 DEF Found
  <2>3. CASE ~AtTop(p) /\ Local(p, [loc[p] EXCEPT !.i = @ + 1]) /\ pc' = pc
    <3>1. loc'[p].i = loc[p].i + 1
      BY <1>1, <2>3 DEF Local, Set, LocTypes
    <3> QED
      BY <1>9, <2>1, <2>3, <3>1 DEF Moves, Looking, OnPath, OnObject
  <2> QED
    BY <1>11, <2>2, <2>3 DEF SearchFrame
<1>12. ASSUME Down(p), ~IsOriginal(p), pc[p] \in Extending PROVE G
  <2>1. pc'[p] = "add"
    BY <1>10, <1>12 DEF Down
  <2>2. loc'[p] = [loc[p] EXCEPT !.i = @ - 1] /\ loc[p].i > 1
    BY <1>1, <1>12 DEF Down, Local, Set, IsOriginal
  <2>3. loc'[p].i = loc[p].i - 1
    BY <1>1, <2>2 DEF LocTypes
  <2> QED
    BY <1>9, <1>12, <2>1, <2>2, <2>3 DEF Moves, Looking, OnPath, OnObject
<1>13. ASSUME NEW to \in {"recache", "definition", "redefine", "done"}, Goto(p, to),
              loc'[p].i = loc[p].i, to # "done" \/ pc[p] \notin Looking
       PROVE  G
  BY <1>9, <1>10, <1>13 DEF Moves, Looking, OnPath, OnObject
<1>14. ASSUME NEW c, NEW b, \/ Local(p, [loc[p] EXCEPT !.cell = c])
                            \/ Local(p, [loc[p] EXCEPT !.cell = c, !.shadowed = b])
       PROVE  loc'[p].i = loc[p].i
  <2>1. [loc[p] EXCEPT !.cell = c].i = loc[p].i
    BY <1>1 DEF LocTypes
  <2>2. [loc[p] EXCEPT !.cell = c, !.shadowed = b].i = loc[p].i
    BY <1>1 DEF LocTypes
  <2> QED
    BY <1>1, <1>14, <2>1, <2>2 DEF Local, Set
<1>15. ASSUME Existing(p), pc[p] \in Extending PROVE G
  BY <1>4, <1>12, <1>13, <1>14, <1>15 DEF Existing, Redefines, Dangerize
<1>16. CASE ExtendBound(p) \/ SearchReal(p)
  BY <1>15, <1>16 DEF ExtendBound, SearchReal, At, Extending
<1>17. CASE ExtendAux(p)
  <2>1. pc[p] = "extend" /\ pc'[p] = "ensure" /\ ~AtTop(p) /\ loc' = loc
    BY <1>10, <1>17 DEF ExtendAux, At
  <2> QED
    BY <1>9, <2>1 DEF Moves, Looking, OnPath, OnObject
<1>18. CASE EnsureAux(p)
  <2>1. CASE Restart(p)
    BY <1>4, <2>1
  <2>2. CASE ~Restart(p)
    <3>1. pc[p] = "ensure" /\ Goto(p, "search") /\ loc' = loc
      BY <1>18, <2>2 DEF EnsureAux, At
    <3>2. pc'[p] = "search"
      BY <1>10, <3>1
    <3> QED
      BY <1>9, <3>1, <3>2 DEF Moves, Looking, OnPath, OnObject
  <2> QED
    BY <2>1, <2>2
<1>19. CASE SearchPlaceholder(p)
  BY <1>12, <1>13, <1>14, <1>19 DEF SearchPlaceholder, At, Extending
<1>20. CASE SearchNothing(p)
  <2>1. pc[p] = "search" /\ pc'[p] = "extend" /\ loc'[p].i = loc[p].i + 1
    BY <1>1, <1>10, <1>20 DEF SearchNothing, At, Local, Set, LocTypes
  <2>2. ~AtTop(p)
    BY <2>1, Standing DEF IInv
  <2> QED
    BY <1>9, <2>1, <2>2 DEF Moves, Looking, OnPath, OnObject
<1>21. CASE AddRedo(p)
  <2>1. pc[p] = "add" /\ pc'[p] = "ensure" /\ loc' = loc
    BY <1>10, <1>21 DEF AddRedo, At
  <2> QED
    BY <1>9, <2>1 DEF Moves, Looking, OnPath, OnObject
<1>22. CASE AddBinding(p)
  BY <1>4, <1>12, <1>13, <1>14, <1>22 DEF AddBinding, At, Extending
<1>23. CASE Recache(p) \/ Definition(p)
  <2>1. /\ loc' = loc /\ pc[p] \notin Looking
        /\ Goto(p, "recache") \/ Goto(p, "definition") \/ Goto(p, "redefine") \/ Goto(p, "done")
    BY <1>23 DEF Recache, Definition, At, Looking, OnPath, OnObject
  <2> QED
    BY <1>13, <2>1
<1>24. CASE Redefine(p)
  <2>1. pc[p] \notin Looking /\ (Restart(p) \/ (loc' = loc /\ Goto(p, "done")))
    BY <1>24 DEF Redefine, At, Looking, OnPath, OnObject
  <2> QED
    BY <1>4, <1>13, <2>1
<1> QED
  BY <1>6, <1>7, <1>8, <1>11, <1>16, <1>17, <1>18, <1>19, <1>20, <1>21, <1>22, <1>23, <1>24
  DEF Step

LEMMA StepRolesAndPlaces ==
  ASSUME IInv, NEW p \in Procs, Step(p), Watch
  PROVE  Roles' /\ PlaceInv'
<1>1. Typed' /\ Others(p) /\ Role(p)' /\ Moves(p)
  BY StepTyped, StepOthers, StepRole, StepMoves DEF IInv
<1>2. Place(p)'
  <2> DEFINE m == Len(Chain[call[p].env])
  <2>1. pc'[p] \in {"idle"} \cup (Looking \ {"deep"}) => loc'[p].i = 1
    BY StepMoves
  <2>2. pc'[p] \in {"deep", "extend", "ensure", "search", "add"} =>
            Len(Chain[call'[p].env]) \in Nat
    <3> SUFFICES ASSUME pc'[p] \in {"deep", "extend", "ensure", "search", "add"}
        PROVE  Len(Chain[call'[p].env]) \in Nat
      OBVIOUS
    <3>1. call'[p] # NoCall /\ call'[p] \in CallTypes \cup {NoCall}
      BY <1>1 DEF Role, Typed
    <3>2. call'[p].env \in Envs
      BY <3>1 DEF CallTypes
    <3> QED
      BY <3>2, Chains
  <2>3. pc'[p] \in {"ensure", "search", "add"} => ~Begin(p) /\ ~Return(p) /\ call' = call
    <3>1. Begin(p) => pc'[p] \in {"extend", "type", "deep"}
      <4> SUFFICES ASSUME Begin(p) PROVE pc'[p] \in {"extend", "type", "deep"}
        OBVIOUS
      <4>1. PICK k \in Calls[p] : Goto(p, Entry(k))
        BY DEF Begin
      <4> QED
        BY <4>1, Entering, CallAssumption DEF Goto, Set, IInv, Typed
    <3> QED
      BY <3>1, CallsGo
  <2>4. loc[p].i \in Nat \ {0} /\ loc'[p].i \in Nat \ {0}
    BY <1>1 DEF IInv, Typed, LocTypes
  <2>5. Place(p) /\ (AtTop(p) <=> loc[p].i > m)
    BY DEF IInv, PlaceInv, AtTop
  <2>6. pc'[p] \in {"deep", "extend"} /\ loc'[p].i # 1 => call' = call /\ m \in Nat /\ pc[p] # "idle"
    <3> SUFFICES ASSUME pc'[p] \in {"deep", "extend"}, loc'[p].i # 1
        PROVE  call' = call /\ pc[p] # "idle"
      BY <2>2
    <3>1. ~Begin(p)
      <4>1. Begin(p) => loc' = loc /\ pc[p] = "idle"
        BY DEF Begin, At
      <4> QED
        BY <2>5, <4>1 DEF Place
    <3> QED
      BY <3>1, CallsGo
  <2>7. pc'[p] \in {"deep", "extend"} => loc'[p].i <= Len(Chain[call'[p].env]) + 1
    <3>1. CASE loc'[p].i = 1
      BY <2>2, <3>1
    <3>2. CASE loc'[p].i # 1
      <4> SUFFICES ASSUME pc'[p] \in {"deep", "extend"}
          PROVE  loc'[p].i <= Len(Chain[call'[p].env]) + 1
        OBVIOUS
      <4>1. call' = call /\ m \in Nat
        BY <2>6, <3>2
      <4>2. loc'[p].i = loc[p].i + 1 /\ ~AtTop(p)
        BY <1>1, <3>2 DEF Moves
      <4> QED
        BY <2>4, <2>5, <4>1, <4>2
    <3> QED
      BY <3>1, <3>2
  <2>8. pc'[p] \in {"ensure", "search", "add"} => loc'[p].i <= Len(Chain[call'[p].env])
    <3> SUFFICES ASSUME pc'[p] \in {"ensure", "search", "add"}
        PROVE  loc'[p].i <= m
      BY <2>3
    <3>1. m \in Nat
      BY <2>2, <2>3
    <3> QED
      <4>1. pc[p] \in {"ensure", "search", "add"} => loc[p].i <= m
        BY <2>5 DEF Place
      <4>2. pc[p] = "extend" => loc[p].i <= m + 1
        BY <2>5 DEF Place
      <4> HIDE DEF m
      <4>3. CASE loc'[p].i = loc[p].i - 1 /\ pc[p] \in Extending
        BY <2>4, <3>1, <4>1, <4>2, <4>3 DEF Extending
      <4>4. CASE loc'[p].i = loc[p].i
        BY <1>1, <2>4, <2>5, <3>1, <4>1, <4>2, <4>4 DEF Moves
      <4> QED
        BY <1>1, <4>3, <4>4 DEF Moves
  <2> QED
    BY <2>1, <2>7, <2>8 DEF Place
<1> QED
  BY <1>1, <1>2 DEF Others, IInv, Roles, Role, PlaceInv, Place

-----------------------------------------------------------------------------
(* What a definition knows of the frames it has been to *)

LEMMA ExaminedKept ==
  ASSUME IInv, NEW p \in Procs, Step(p), Watch, NEW q \in Procs, pc[q] # "idle",
         NEW j \in 1 .. Len(Chain[call[q].env]), Examined(q, j),
         j \in DOMAIN pend'[q], pend'[q][j] = pend[q][j], call'[q] = call[q]
  PROVE  Examined(q, j)'
<1> DEFINE f == Chain[call[q].env][j]
<1>1. call[q].env \in Envs
  BY Asked DEF IInv
<1>2. f \in Frames
  BY <1>1, Chains
<1>3. /\ Len(aux[f].names) <= Len(aux'[f].names)
      /\ \A k \in 1 .. Len(aux[f].names) : aux'[f].names[k] = aux[f].names[k]
  BY <1>2, StepAux DEF AuxKept
<1> DEFINE s == pend[q][j]
<1>4. /\ j \in DOMAIN pend[q] /\ s.room > 0 /\ s.count <= Len(aux[f].names)
      /\ ~IsFormal(f, call[q].name)
      /\ \A k \in 1 .. s.count : aux[f].names[k] # call[q].name
  BY DEF Examined
<1>5. s.count \in Nat
  <2>1. pend[q] \in Seq(PendTypes)
    BY DEF IInv, Typed
  <2>2. s \in PendTypes
    BY <1>4, <2>1
  <2> QED
    BY <2>2 DEF PendTypes
<1>6. Len(aux[f].names) \in Nat /\ Len(aux'[f].names) \in Nat
  <2>1. aux[f].names \in Seq(Names) /\ aux'[f].names \in Seq(Names)
    BY <1>2, StepTyped DEF IInv, Typed, AuxTypes
  <2> HIDE DEF f
  <2> QED
    BY <2>1
<1> HIDE DEF f, s
<1>7. s.count <= Len(aux'[f].names) /\ \A k \in 1 .. s.count : k \in 1 .. Len(aux[f].names)
  BY <1>3, <1>4, <1>5, <1>6
<1>8. \A k \in 1 .. s.count : aux'[f].names[k] # call[q].name
  BY <1>3, <1>4, <1>7
<1> QED
  BY <1>4, <1>7, <1>8 DEF Examined, IsFormal, f, s

\* Who is on the way up or down the frames after a step was so before, or
\* begins at the bottom.
LEMMA NotRestarted ==
  ASSUME IInv, NEW p \in Procs, pc'[p] \in Extending,
         ~(pc'[p] = "extend" /\ loc'[p].i = 1)
  PROVE  ~Restart(p) /\ ~Interrupted(p)
<1> SUFFICES ASSUME Interrupted(p)
    PROVE  FALSE
  BY DEF Restart
<1>1. loc'[p].i = 1 /\ pc'[p] = Entry(call[p])
  BY DEF Interrupted, Local, Goto, Set, IInv, Typed, NoLocals
<1> QED
  BY <1>1 DEF Entry, Extending

LEMMA StepExtending ==
  ASSUME IInv, NEW p \in Procs, Step(p), pc[p] \in Extending
  PROVE  \/ ExtendBound(p) \/ ExtendAux(p) \/ EnsureAux(p) \/ SearchPlaceholder(p)
         \/ SearchReal(p) \/ SearchNothing(p) \/ AddRedo(p) \/ AddBinding(p)
  BY DEF Step, Begin, Return, ReadType, ReadOffset, Verify, FetchValue, StoreValue, SearchFrame,
    StoreType, StoreOffset, StoreWord, StoreOff, DeepFetch, DeepStore, Uncompile, UncompileOff,
    Recache, Definition, Redefine, At, Extending

\* What is to be shown of the processor that makes the step, and of the others.
Pending(p) == LET i == loc[p].i IN
    /\ pc[p] \in Extending => \A j \in 1 .. i - 1 : Examined(p, j)
    /\ pc[p] = "add" => Examined(p, i)
    /\ pc[p] \in {"ensure", "search"} => ~IsFormal(Here(p), call[p].name)
    /\ pc[p] = "search" => /\ i \in DOMAIN pend[p] /\ pend[p][i].room > 0
                           /\ pend[p][i].count <= Len(aux[Here(p)].names)

LEMMA PendingOthers ==
  ASSUME IInv, NEW p \in Procs, Step(p), Watch, NEW q \in Procs \ {p}
  PROVE  Pending(q)'
<1> DEFINE i == loc[q].i
           m == Len(Chain[call[q].env])
<1>1. /\ pc'[q] = pc[q] /\ call'[q] = call[q] /\ loc'[q] = loc[q] /\ pend'[q] = pend[q]
      /\ Pending(q)
  BY StepOthers DEF Others, IInv, PendInv, Pending
<1> SUFFICES ASSUME pc[q] \in Extending
    PROVE  Pending(q)'
  BY <1>1 DEF Pending, Extending
<1>2. pc[q] # "idle" /\ i \in Nat \ {0} /\ call[q].env \in Envs
  BY Asked DEF Extending, IInv, Typed, LocTypes
<1>3. m \in Nat /\ i <= m + 1
  BY <1>2, Chains DEF Extending, IInv, PlaceInv, Place
<1>4. ASSUME NEW j \in 1 .. m, Examined(q, j)
      PROVE  Examined(q, j)'
  BY <1>1, <1>2, <1>4, ExaminedKept DEF Examined
<1>5. \A j \in 1 .. i - 1 : Examined(q, j)'
  <2>1. \A j \in 1 .. i - 1 : j \in 1 .. m /\ Examined(q, j)
    BY <1>1, <1>2, <1>3 DEF Pending
  <2> QED
    BY <1>4, <2>1
<1>6. \A j \in 1 .. m : pc[q] = "add" /\ j = i => Examined(q, j)'
  <2>1. pc[q] = "add" => Examined(q, i)
    BY <1>1 DEF Pending
  <2> QED
    BY <1>4, <2>1
<1>7. pc[q] = "search" => pend[q][i].count <= Len(aux'[Here(q)].names)
  <2> SUFFICES ASSUME pc[q] = "search"
      PROVE  pend[q][i].count <= Len(aux'[Here(q)].names)
    OBVIOUS
  <2>1. Here(q) \in Frames
    BY Standing DEF IInv
  <2>2. /\ pend[q][i].count <= Len(aux[Here(q)].names)
        /\ Len(aux[Here(q)].names) <= Len(aux'[Here(q)].names)
    BY <1>1, <2>1, StepAux DEF Pending, AuxKept
  <2>3. /\ aux[Here(q)].names \in Seq(Names) /\ aux'[Here(q)].names \in Seq(Names)
        /\ pend[q][i].count \in Nat
    <3>1. aux[Here(q)].names \in Seq(Names) /\ aux'[Here(q)].names \in Seq(Names)
      BY <2>1, StepTyped DEF IInv, Typed, AuxTypes
    <3>2. pend[q] \in Seq(PendTypes) /\ i \in DOMAIN pend[q]
      BY <1>1 DEF Pending, IInv, Typed
    <3>3. pend[q][i] \in PendTypes
      BY <3>2
    <3> QED
      BY <3>1, <3>3 DEF PendTypes
  <2> QED
    BY <2>2, <2>3
<1>8. pc[q] = "add" => \E j \in 1 .. m : j = i
  BY Standing DEF IInv
<1>9. pc'[q] = "add" => Examined(q, i)'
  BY <1>1, <1>6, <1>8
<1> QED
  BY <1>1, <1>5, <1>7, <1>9 DEF Pending, Here, IsFormal

LEMMA PendingSelf ==
  ASSUME IInv, NEW p \in Procs, Step(p), Watch
  PROVE  Pending(p)'
<1> DEFINE i == loc[p].i
           n == call[p].name
           m == Len(Chain[call[p].env])
<1>1. /\ Typed /\ Typed' /\ Pending(p) /\ Moves(p) /\ i \in Nat \ {0}
      /\ pc \in [Procs -> Labels] /\ loc \in [Procs -> LocTypes] /\ loc[p] \in LocTypes
  BY StepTyped, StepMoves DEF IInv, Typed, PendInv, Pending, LocTypes
<1>2. CASE pc'[p] \notin Extending
  BY <1>2 DEF Pending, Extending
<1>3. CASE pc'[p] = "extend" /\ loc'[p].i = 1
  BY <1>3 DEF Pending, Extending
<1>4. CASE pc'[p] \in Extending /\ ~(pc'[p] = "extend" /\ loc'[p].i = 1)
  <2>1. pc[p] \in Extending /\ pc[p] # "idle" /\ call[p].env \in Envs
    BY <1>1, <1>4, Asked DEF IInv, Moves, Extending, Looking, OnPath, OnObject
  <2>2. /\ call' = call /\ m \in Nat /\ i <= m + 1
        /\ pc[p] # "extend" => i <= m
    <3>1. ~Begin(p) /\ ~Return(p)
      BY <2>1 DEF Begin, Return, At, Extending
    <3>2. m \in Nat
      BY <2>1, Chains
    <3>3. i <= m + 1 /\ (pc[p] # "extend" => i <= m)
      BY <1>1, <2>1, <3>2 DEF IInv, PlaceInv, Place, Extending
    <3> QED
      BY <3>1, <3>2, <3>3, CallsGo
  <2>3. ASSUME NEW j \in 1 .. m, Examined(p, j), j \in DOMAIN pend'[p], pend'[p][j] = pend[p][j]
        PROVE  Examined(p, j)'
    BY <2>1, <2>2, <2>3, ExaminedKept
  <2>4. ASSUME pend' = pend
        PROVE  \A j \in 1 .. m : Examined(p, j) => Examined(p, j)'
    BY <2>3, <2>4 DEF Examined
  <2>5. \A j \in 1 .. i - 1 : j \in 1 .. m /\ Examined(p, j)
    BY <1>1, <2>1, <2>2 DEF Pending
  <2>6. CASE Down(p) /\ ~IsOriginal(p) /\ pend' = pend
    <3>1. loc'[p].i = i - 1 /\ i > 1 /\ pc'[p] = "add"
      <4>1. loc'[p] = [loc[p] EXCEPT !.i = @ - 1] /\ i > 1 /\ pc'[p] = "add"
        BY <1>1, <2>6 DEF Down, Goto, Local, Set, IsOriginal
      <4> QED
        BY <1>1, <4>1 DEF LocTypes
    <3>2. i - 1 \in 1 .. i - 1 /\ \A j \in 1 .. i - 2 : j \in 1 .. i - 1
      BY <1>1, <3>1
    <3>3. \A j \in 1 .. i - 1 : Examined(p, j)'
      BY <2>4, <2>5, <2>6
    <3>4. i - 1 - 1 = i - 2
      BY <1>1
    <3> QED
      BY <3>1, <3>2, <3>3, <3>4 DEF Pending
  <2>7. CASE SearchNothing(p)
    <3>1. pc[p] = "search" /\ pc'[p] = "extend" /\ loc'[p].i = i + 1 /\ pend' = pend
      BY <1>1, <2>7 DEF SearchNothing, At, Goto, Local, Set, LocTypes
    <3>2. Examined(p, i)
      <4>1. /\ i \in DOMAIN pend[p] /\ pend[p][i].room > 0
            /\ pend[p][i].count <= Len(aux[Here(p)].names) /\ ~IsFormal(Here(p), n)
        BY <1>1, <3>1 DEF Pending
      <4>2. Here(p) \in Frames
        BY <3>1, Standing DEF IInv
      <4>3. aux[Here(p)].names \in Seq(Names) /\ pend[p][i].count \in Nat
        <5>1. aux[Here(p)].names \in Seq(Names)
          BY <4>2 DEF IInv, Typed, AuxTypes
        <5>2. pend[p] \in Seq(PendTypes)
          BY DEF IInv, Typed
        <5>3. pend[p][i] \in PendTypes
          BY <4>1, <5>2
        <5> QED
          BY <5>1, <5>3 DEF PendTypes
      <4>4. \A k \in 1 .. pend[p][i].count : aux[Here(p)].names[k] # n
        <5> DEFINE s == aux[Here(p)].names
                   c == pend[p][i].count
        <5>1. n \notin ToSet(SubSeq(s, 1, c))
          BY <2>7 DEF SearchNothing, Listed
        <5>2. Len(SubSeq(s, 1, c)) = c /\ \A k \in 1 .. c : SubSeq(s, 1, c)[k] = s[k]
          BY <4>1, <4>3
        <5>3. DOMAIN SubSeq(s, 1, c) = 1 .. c
          BY <4>1, <4>3
        <5> QED
          BY <5>1, <5>2, <5>3 DEF ToSet
      <4> QED
        BY <4>1, <4>4 DEF Examined, Here
    <3>3. \A j \in 1 .. i : j \in 1 .. m /\ Examined(p, j)
      <4>1. \A j \in 1 .. i : j = i \/ j \in 1 .. i - 1
        BY <1>1
      <4>2. i \in 1 .. m
        BY <1>1, <2>2, <3>1
      <4> QED
        BY <2>5, <3>2, <4>1, <4>2
    <3>4. \A j \in 1 .. i : Examined(p, j)'
      BY <2>4, <3>1, <3>3
    <3>5. i + 1 - 1 = i
      BY <1>1
    <3>6. \A j \in 1 .. loc'[p].i - 1 : Examined(p, j)'
      <4>1. loc'[p].i - 1 = i
        BY <1>1, <3>1, <3>5
      <4> HIDE DEF i
      <4> QED
        BY <3>4, <4>1, Zenon
    <3> QED
      BY <3>1, <3>6 DEF Pending
  <2>8. CASE EnsureAux(p) /\ ~Restart(p)
    <3> DEFINE f == Here(p)
               room == IF aux[f].room = 0 THEN Chunk ELSE aux[f].room
               x == [room |-> room, count |-> Len(aux[f].names)]
    <3>1. /\ pc[p] = "ensure" /\ pc'[p] = "search" /\ loc' = loc
          /\ pend' = [pend EXCEPT ![p] = SubSeq(@, 1, loc[p].i - 1) \o <<x>>]
      BY <1>1, <2>8 DEF EnsureAux, At, Goto, Set
    <3>2. f \in Frames
      BY <3>1, Standing DEF IInv
    <3>3. x \in PendTypes /\ x.room > 0 /\ x.count = Len(aux[f].names) /\ Len(aux[f].names) \in Nat
      BY <3>2, EnvironmentAssumption DEF IInv, Typed, AuxTypes, PendTypes
    <3> HIDE DEF x
    <3>4. /\ DOMAIN pend'[p] = 1 .. i /\ pend'[p][i] = x
          /\ \A j \in 1 .. i - 1 : pend'[p][j] = pend[p][j]
      BY <3>1, <3>3, EnsurePend
    <3>5. \A j \in 1 .. i - 1 : Examined(p, j)'
      <4>1. \A j \in 1 .. i - 1 : j \in 1 .. i
        BY <1>1
      <4> QED
        BY <2>3, <2>5, <3>4, <4>1
    <3>6. Len(aux[f].names) <= Len(aux'[f].names)
      BY <3>2, StepAux DEF AuxKept
    <3>7. ~IsFormal(f, n)
      BY <1>1, <3>1 DEF Pending
    <3>8. i \in DOMAIN pend'[p] /\ pend'[p][i].room > 0 /\ pend'[p][i].count <= Len(aux'[f].names)
      BY <1>1, <3>3, <3>4, <3>6
    <3> QED
      BY <2>2, <3>1, <3>5, <3>7, <3>8 DEF Pending, Here, IsFormal
  <2>9. CASE ExtendAux(p) \/ AddRedo(p)
    <3>1. pc'[p] = "ensure" /\ UNCHANGED <<loc, pend>>
      BY <1>1, <2>9 DEF ExtendAux, AddRedo, Goto, Set
    <3>2. ~IsFormal(Here(p), n)
      <4>1. CASE ExtendAux(p)
        BY <4>1 DEF ExtendAux
      <4>2. CASE AddRedo(p)
        BY <1>1, <4>2 DEF AddRedo, At, Pending, Examined, Here
      <4> QED
        BY <2>9, <4>1, <4>2
    <3>3. \A j \in 1 .. i - 1 : Examined(p, j)'
      BY <2>4, <2>5, <3>1
    <3> QED
      BY <2>2, <3>1, <3>2, <3>3 DEF Pending, Here, IsFormal
  <2>10. ASSUME Existing(p), pc[p] \in {"extend", "search"}
         PROVE  Down(p) /\ ~IsOriginal(p) /\ pend' = pend
    <3>1. ~Restart(p)
      BY <1>4, NotRestarted
    <3>2. ~Goto(p, "redefine")
      BY <1>1, <1>4 DEF Goto, Set, Extending
    <3> QED
      BY <2>10, <3>1, <3>2 DEF Existing, Redefines, Dangerize
  <2>11. ~Restart(p) /\ ~Interrupted(p)
    BY <1>4, NotRestarted
  <2>12. CASE ExtendBound(p) \/ SearchReal(p)
    BY <2>6, <2>10, <2>12 DEF ExtendBound, SearchReal, At
  <2>13. CASE SearchPlaceholder(p) \/ AddBinding(p)
    <3>1. ~Goto(p, "recache")
      BY <1>1, <1>4 DEF Goto, Set, Extending
    <3> QED
      BY <2>6, <2>11, <2>13, <3>1 DEF SearchPlaceholder, AddBinding
  <2> QED
    BY <2>1, <2>7, <2>8, <2>9, <2>11, <2>12, <2>13, StepExtending
<1> QED
  BY <1>2, <1>3, <1>4

LEMMA StepPending ==
  ASSUME IInv, NEW p \in Procs, Step(p), Watch
  PROVE  PendInv'
<1>1. \A q \in Procs : Pending(q)'
  BY PendingOthers, PendingSelf
<1> QED
  BY <1>1 DEF PendInv, Pending

LEMMA StepToMaking ==
  ASSUME IInv, NEW p \in Procs, Step(p), pc'[p] \in {"recache", "definition"}
  PROVE  /\ SearchPlaceholder(p) \/ AddBinding(p) \/ Recache(p)
         /\ ~Restart(p) /\ ~Interrupted(p)
<1>1. pc \in [Procs -> Labels]
  BY DEF IInv, Typed
<1>2. \A to : Goto(p, to) => pc'[p] = to
  BY <1>1 DEF Goto, Set
<1>3. \A k : Entry(k) \notin {"recache", "definition"}
  BY DEF Entry
<1>4. ~Restart(p) /\ ~Interrupted(p)
  BY <1>2, <1>3 DEF Restart, Interrupted
<1>5. ~Existing(p)
  BY <1>2, <1>4 DEF Existing, Redefines, Dangerize, Down
<1>6. ~Begin(p)
  BY <1>2, <1>3 DEF Begin
<1>7. ~EnsureAux(p)
  <2>1. EnsureAux(p) => Restart(p) \/ Goto(p, "search")
    BY DEF EnsureAux
  <2> QED
    BY <1>2, <1>4, <2>1
<1>8. ~(ReadType(p) \/ ReadOffset(p) \/ Verify(p))
  <2>1. ReadType(p) \/ ReadOffset(p) \/ Verify(p) =>
           Goto(p, "deep") \/ Goto(p, "end") \/ Goto(p, "offset") \/ Goto(p, "verify")
             \/ Goto(p, "type")
    BY DEF ReadType, ReadOffset, Verify
  <2> QED
    BY <1>2, <2>1
<1>9. ~(FetchValue(p) \/ StoreValue(p) \/ DeepFetch(p) \/ DeepStore(p) \/ Redefine(p))
  <2>1. FetchValue(p) \/ StoreValue(p) \/ DeepFetch(p) \/ DeepStore(p) \/ Redefine(p) =>
           Goto(p, "deep") \/ Goto(p, "done") \/ Goto(p, "uncompile") \/ Restart(p)
    BY DEF FetchValue, StoreValue, DeepFetch, DeepStore, Redefine, AfterDeep
  <2> QED
    BY <1>2, <1>4, <2>1
<1>10. ~SearchFrame(p)
  <2>1. SearchFrame(p) => Goto(p, "storeType") \/ Goto(p, "deepEnd") \/ pc'[p] = pc[p]
    BY DEF SearchFrame, Found
  <2>2. SearchFrame(p) => pc[p] = "deep"
    BY DEF SearchFrame, At
  <2> QED
    BY <1>2, <2>1, <2>2
<1>11. ~Definition(p)
  <2>1. Definition(p) => Goto(p, "done") \/ Goto(p, "redefine")
    BY DEF Definition
  <2> QED
    BY <1>2, <2>1
<1> QED
  BY <1>2, <1>4, <1>5, <1>6, <1>7, <1>8, <1>9, <1>10, <1>11
  DEF Step, Return, StoreType, StoreOffset, StoreWord, StoreOff, Uncompile, UncompileOff,
      ExtendBound, ExtendAux, SearchReal, SearchNothing, AddRedo

\* A name that is found among the bindings counted is there.
LEMMA ListedIsThere ==
  ASSUME IInv, NEW p \in Procs, pc[p] = "search", Listed(p)
  PROVE  HasAux(Here(p), call[p].name)
<1> DEFINE s == aux[Here(p)].names
           c == pend[p][loc[p].i].count
           n == call[p].name
<1>1. n \in ToSet(SubSeq(s, 1, c))
  BY DEF Listed
<1>2. s \in Seq(Names) /\ c \in Nat /\ c <= Len(s)
  <2>1. loc[p].i \in DOMAIN pend[p] /\ c <= Len(s) /\ pend[p] \in Seq(PendTypes)
    BY DEF IInv, Typed, PendInv
  <2>2. pend[p][loc[p].i] \in PendTypes
    BY <2>1
  <2>3. Here(p) \in Frames
    BY Standing DEF IInv
  <2> QED
    BY <2>1, <2>2, <2>3 DEF IInv, Typed, AuxTypes, PendTypes
<1> HIDE DEF s, c
<1>3. \A k \in DOMAIN SubSeq(s, 1, c) : k \in 1 .. Len(s) /\ SubSeq(s, 1, c)[k] = s[k]
  BY <1>2
<1>4. n \in ToSet(s)
  BY <1>1, <1>2, <1>3 DEF ToSet
<1> QED
  BY <1>4 DEF HasAux, s

\* Who comes to the definition of a binding has it in the frame of the call.
LEMMA StepMade ==
  ASSUME IInv, NEW p \in Procs, Step(p), Watch
  PROVE  MadeInv'
<1> DEFINE M(q) == /\ call[q].env \in Frames /\ HasAux(call[q].env, call[q].name)
                   /\ loc[q].cell = <<call[q].env, call[q].name>>
           e == call[p].env
           n == call[p].name
<1>1. /\ pc \in [Procs -> Labels] /\ loc \in [Procs -> LocTypes] /\ loc[p] \in LocTypes
      /\ BindingsKept(p) /\ \A q \in Procs : pc[q] \in {"recache", "definition"} => M(q)
  BY StepBindings DEF IInv, Typed, MadeInv
<1>2. ASSUME NEW q \in Procs \ {p}, pc'[q] \in {"recache", "definition"}
      PROVE  M(q)'
  <2>1. pc[q] = pc'[q] /\ call'[q] = call[q] /\ loc'[q] = loc[q]
    BY StepOthers DEF Others, IInv
  <2>2. M(q) /\ call[q].name \in Names
    BY <1>1, <1>2, <2>1, Asked DEF IInv
  <2>3. HasAux(call[q].env, call[q].name)'
    <3>1. (\A f \in Frames, x \in Names : HasAux(f, x) => HasAux(f, x)')
      BY <1>1 DEF BindingsKept
    <3>2. call[q].name \in ToSet(aux'[call[q].env].names)
      BY <2>2, <3>1 DEF HasAux
    <3> QED
      BY <2>1, <3>2 DEF HasAux
  <2> QED
    BY <2>1, <2>2, <2>3
<1>3. ASSUME pc'[p] \in {"recache", "definition"}
      PROVE  M(p)'
  <2>1. /\ SearchPlaceholder(p) \/ AddBinding(p) \/ Recache(p)
        /\ ~Restart(p) /\ ~Interrupted(p)
    BY <1>1, <1>3, StepToMaking
  <2>2. call' = call /\ pc[p] # "idle" /\ n \in Names /\ e \in Envs
    BY <2>1, Asked DEF IInv, SearchPlaceholder, AddBinding, Recache, At, Interrupted
  <2>3. CASE Recache(p)
    <3>1. M(p) /\ loc' = loc /\ aux' = aux
      BY <1>1, <2>3 DEF Recache, At, shared
    <3> QED
      BY <2>2, <3>1 DEF HasAux
  <2>4. ASSUME IsOriginal(p), pc[p] \in {"search", "add"}
        PROVE  Here(p) = e /\ e \in Frames
    <3>1. Here(p) = Up(e, loc[p].i) /\ Here(p) \in Frames /\ loc[p].i = 1
      BY <2>4, Standing DEF IInv, IsOriginal
    <3> QED
      BY <2>2, <3>1, Chains
  <2>5. CASE SearchPlaceholder(p)
    <3>1. /\ pc[p] = "search" /\ Listed(p) /\ IsOriginal(p) /\ aux' = aux
          /\ Local(p, [loc[p] EXCEPT !.cell = DefCell(p), !.shadowed = TRUE])
      BY <1>1, <1>3, <2>5 DEF SearchPlaceholder, At, Down, Goto, Set, shared
    <3>2. Here(p) = e /\ e \in Frames /\ ~AtTop(p)
      BY <2>4, <3>1, Standing DEF IInv
    <3>3. HasAux(e, n)
      BY <3>1, <3>2, ListedIsThere
    <3>4. DefCell(p) = <<e, n>>
      BY <3>2, <3>3 DEF DefCell, CellIn
    <3>5. [loc[p] EXCEPT !.cell = DefCell(p), !.shadowed = TRUE].cell = DefCell(p)
      BY <1>1 DEF LocTypes
    <3>6. loc'[p].cell = <<e, n>>
      BY <1>1, <3>1, <3>4, <3>5 DEF Local, Set
    <3> QED
      BY <2>2, <3>1, <3>2, <3>3, <3>6 DEF HasAux
  <2>6. CASE AddBinding(p)
    <3>1. /\ pc[p] = "add" /\ IsOriginal(p) /\ ~Changed(p)
          /\ Local(p, [loc[p] EXCEPT !.cell = <<Here(p), n>>, !.shadowed = FALSE])
          /\ aux' = [aux EXCEPT ![Here(p)] = [room |-> RoomNeeded(Here(p)),
                                              names |-> Append(@.names, n)]]
      BY <1>1, <1>3, <2>1, <2>6 DEF AddBinding, At, Down, Goto, Set
    <3>2. Here(p) = e /\ e \in Frames
      BY <2>4, <3>1
    <3>3. aux'[e].names = Append(aux[e].names, n) /\ aux[e].names \in Seq(Names)
      BY <3>1, <3>2 DEF IInv, Typed, AuxTypes
    <3>4. n \in ToSet(aux'[e].names)
      <4> DEFINE s == aux[e].names
                 t == Append(s, n)
      <4>1. s \in Seq(Names) /\ n \in Names
        BY <2>2, <3>3
      <4> HIDE DEF s
      <4>2. Len(s) \in Nat /\ Len(t) = Len(s) + 1 /\ t[Len(s) + 1] = n /\ t \in Seq(Names)
        BY <4>1
      <4>3. Len(s) + 1 \in DOMAIN t
        BY <4>2
      <4> QED
        BY <3>3, <4>2, <4>3 DEF ToSet, s
    <3>5. [loc[p] EXCEPT !.cell = <<Here(p), n>>, !.shadowed = FALSE].cell = <<Here(p), n>>
      BY <1>1 DEF LocTypes
    <3>6. loc'[p].cell = <<e, n>>
      BY <1>1, <3>1, <3>2, <3>5 DEF Local, Set
    <3> QED
      BY <2>2, <3>2, <3>4, <3>6 DEF HasAux
  <2> QED
    BY <2>1, <2>3, <2>5, <2>6
<1>4. \A q \in Procs : pc'[q] \in {"recache", "definition"} => M(q)'
  BY <1>2, <1>3
<1> QED
  BY <1>4 DEF MadeInv

-----------------------------------------------------------------------------
(* Variable objects *)

\* The path that deep_lookup has found is right in every frame of the lambda.
LEMMA PathFound ==
  ASSUME AuxInv, NEW e \in Frames, NEW n \in Names, NEW i \in 1 .. Len(Chain[e]),
         NEW f, f = Chain[e][i], Past(e, i - 1, n), Binds(f, n)
  PROVE  /\ PathIsRight(PathWord(f, i, n), Code[e], n)
         /\ OffsetIsRight(PathWord(f, i, n), PathOffset(f, i, n), Code[e], n)
<1>1. /\ e \in Envs /\ Len(Chain[e]) \in Nat /\ f \in Frames
      /\ DOMAIN Chain[e] = 1 .. Len(Chain[e]) /\ (i = 1 => f = e)
  BY Chains DEF Envs
<1>2. HasAux(f, n) => ~IsFormal(f, n)
  BY <1>1 DEF AuxInv
<1>3. ~HasAux(f, n) => IsFormal(f, n)
  BY DEF Binds
<1> DEFINE w == PathWord(f, i, n)
<1>4. \/ HasAux(f, n) /\ w = <<"aux", i - 1>>
      \/ ~HasAux(f, n) /\ i = 1 /\ w = <<"local", FormalWord(f, n)>>
      \/ ~HasAux(f, n) /\ i # 1 /\ w = <<"formal", i - 1>> /\ PathOffset(f, i, n) = FormalWord(f, n)
  BY DEF PathWord, PathOffset
<1>5. i - 1 + 1 = i /\ \A j \in 1 .. i : j = i \/ j \in 1 .. i - 1
  BY <1>1
<1> HIDE DEF w
<1> SUFFICES ASSUME NEW g \in Frames, Code[g] = Code[e]
    PROVE  /\ w[1] = "local"  => IsFormal(g, n) /\ w[2] = FormalWord(g, n)
           /\ w[1] # "global"
           /\ w[1] = "formal" => /\ w[2] + 1 \in DOMAIN Chain[g] /\ Past(g, w[2], n)
                                 /\ IsFormal(Chain[g][w[2] + 1], n)
                                 /\ PathOffset(f, i, n) = FormalWord(Chain[g][w[2] + 1], n)
           /\ w[1] = "aux"    => w[2] + 1 \in DOMAIN Chain[g] /\ Past(g, w[2] + 1, n)
  BY DEF PathIsRight, OffsetIsRight, w
<1>6. /\ Len(Chain[g]) = Len(Chain[e]) /\ DOMAIN Chain[g] = 1 .. Len(Chain[g])
      /\ \A j \in 1 .. Len(Chain[e]) :
            /\ IsFormal(Chain[g][j], n) <=> IsFormal(Chain[e][j], n)
            /\ FormalWord(Chain[g][j], n) = FormalWord(Chain[e][j], n)
      /\ IsFormal(g, n) <=> IsFormal(e, n)
      /\ FormalWord(g, n) = FormalWord(e, n)
  BY SameLambda, Chains DEF Envs
<1>7. Past(g, i - 1, n)
  <2>1. \A j \in 1 .. i - 1 : j \in 1 .. Len(Chain[e])
    BY <1>1
  <2> QED
    BY <1>6, <2>1 DEF Past
<1>8. CASE HasAux(f, n)
  <2>1. Past(g, i, n)
    BY <1>2, <1>5, <1>6, <1>7, <1>8 DEF Past
  <2>2. w[1] = "aux" /\ w[2] + 1 = i
    BY <1>4, <1>5, <1>8
  <2> QED
    BY <1>6, <2>1, <2>2
<1>9. CASE ~HasAux(f, n) /\ i = 1
  <2>1. w[1] = "local" /\ w[2] = FormalWord(f, n)
    BY <1>4, <1>9
  <2> QED
    BY <1>1, <1>3, <1>6, <1>9, <2>1
<1>10. CASE ~HasAux(f, n) /\ i # 1
  <2>1. w[1] = "formal" /\ w[2] = i - 1 /\ PathOffset(f, i, n) = FormalWord(f, n)
    BY <1>4, <1>10
  <2> QED
    BY <1>3, <1>5, <1>6, <1>7, <1>10, <2>1
<1> QED
  BY <1>8, <1>9, <1>10

LEMMA PathFoundGlobal ==
  ASSUME NEW e \in Frames, NEW n \in Names, Past(e, Len(Chain[e]), n)
  PROVE  /\ PathIsRight(<<"global", 0>>, Code[e], n)
         /\ OffsetIsRight(<<"global", 0>>, 0, Code[e], n)
<1>1. ASSUME NEW g \in Frames, Code[g] = Code[e]
      PROVE  Past(g, Len(Chain[g]), n)
  BY <1>1, SameLambda DEF Past
<1>2. <<"global", 0>>[1] = "global"
  OBVIOUS
<1> QED
  BY <1>1, <1>2 DEF PathIsRight, OffsetIsRight

LEMMA UncompiledIsRight ==
  \A l \in Lambdas, n \in Names : PathIsRight(Uncompiled, l, n)
     /\ \A off : OffsetIsRight(Uncompiled, off, l, n)
  BY DEF Uncompiled, PathIsRight, OffsetIsRight

\* The lock of a variable object is with who is between its two stores.
LEMMA StepHolder ==
  ASSUME IInv, NEW p \in Procs, Step(p)
  PROVE  HolderInv'
<1>1. Objects(p) /\ Others(p) /\ HolderInv /\ holder \in [Hunks -> Procs \cup {Free}]
  BY StepObjects, StepOthers DEF IInv, Typed
<1>2. Free \notin Procs
  BY LockAssumption
<1> DEFINE In(c) == c \in {"storeOffset", "uncompiled"}
           h0 == Hunk(p)
<1>3. CASE UNCHANGED <<hunk, holder>> /\ ~In(pc[p]) /\ ~In(pc'[p])
  <2>1. ASSUME NEW q \in Procs, NEW h \in Hunks
        PROVE  holder'[h] = q <=> In(pc'[q]) /\ h = Hunk(q)'
    <3>1. CASE q = p
      BY <1>1, <1>3, <3>1 DEF HolderInv
    <3>2. CASE q # p
      BY <1>1, <1>3, <3>2 DEF HolderInv, Others, Hunk
    <3> QED
      BY <3>1, <3>2
  <2> QED
    BY <2>1 DEF HolderInv
<1>4. CASE /\ holder[h0] = Free /\ holder' = [holder EXCEPT ![h0] = p]
           /\ ~In(pc[p]) /\ In(pc'[p]) /\ call' = call /\ h0 \in Hunks
  <2>1. ASSUME NEW q \in Procs, NEW h \in Hunks
        PROVE  holder'[h] = q <=> In(pc'[q]) /\ h = Hunk(q)'
    <3>1. holder[h] = q <=> In(pc[q]) /\ h = Hunk(q)
      BY <1>1 DEF HolderInv
    <3>2. Hunk(q)' = Hunk(q) /\ (q # p => pc'[q] = pc[q])
      BY <1>1, <1>4 DEF Hunk, Others
    <3> HIDE DEF h0
    <3>3. holder'[h] = IF h = h0 THEN p ELSE holder[h]
      BY <1>1, <1>4
    <3> QED
      BY <1>2, <1>4, <3>1, <3>2, <3>3 DEF h0
  <2> QED
    BY <2>1 DEF HolderInv
<1>5. CASE /\ holder' = [holder EXCEPT ![h0] = Free]
           /\ In(pc[p]) /\ ~In(pc'[p]) /\ call' = call /\ h0 \in Hunks
  <2>1. ASSUME NEW q \in Procs, NEW h \in Hunks
        PROVE  holder'[h] = q <=> In(pc'[q]) /\ h = Hunk(q)'
    <3>1. /\ holder[h] = q <=> In(pc[q]) /\ h = Hunk(q)
          /\ holder[h0] = p
      BY <1>1, <1>5 DEF HolderInv
    <3>2. Hunk(q)' = Hunk(q) /\ (q # p => pc'[q] = pc[q])
      BY <1>1, <1>5 DEF Hunk, Others
    <3> HIDE DEF h0
    <3>3. holder'[h] = IF h = h0 THEN Free ELSE holder[h]
      BY <1>1, <1>5
    <3> QED
      BY <1>2, <1>5, <3>1, <3>2, <3>3 DEF h0
  <2> QED
    BY <2>1 DEF HolderInv
<1> QED
  BY <1>1, <1>3, <1>4, <1>5 DEF Objects

LEMMA StepHunk ==
  ASSUME IInv, NEW p \in Procs, Step(p)
  PROVE  HunkInv'
<1> DEFINE h0 == Hunk(p)
           e == call[p].env
           n0 == call[p].name
<1>1. /\ Objects(p) /\ HunkInv /\ HolderInv /\ hunk \in [Hunks -> HunkTypes]
      /\ holder \in [Hunks -> Procs \cup {Free}]
  BY StepObjects DEF IInv, Typed
<1>2. p # Free
  BY LockAssumption
<1>3. ASSUME NEW l \in Lambdas, NEW n \in Names
      PROVE  /\ PathIsRight(hunk'[<<l, n>>].word, l, n)
             /\ holder'[<<l, n>>] = Free =>
                   OffsetIsRight(hunk'[<<l, n>>].word, hunk'[<<l, n>>].off, l, n)
  <2> DEFINE h == <<l, n>>
  <2>1. /\ h \in Hunks /\ PathIsRight(hunk[h].word, l, n)
        /\ holder[h] = Free => OffsetIsRight(hunk[h].word, hunk[h].off, l, n)
    BY <1>1 DEF HunkInv, Hunks
  <2>2. CASE UNCHANGED <<hunk, holder>>
    BY <2>1, <2>2
  <2>3. ASSUME NEW w \in WordTypes, h0 \in Hunks, hunk' = [hunk EXCEPT ![h0].word = w],
               holder' = [holder EXCEPT ![h0] = p],
               \/ pc[p] = "storeType" /\ w = loc[p].word
               \/ pc[p] = "uncompile" /\ w = Uncompiled
        PROVE  /\ PathIsRight(hunk'[h].word, l, n)
               /\ holder'[h] = Free => OffsetIsRight(hunk'[h].word, hunk'[h].off, l, n)
    <3>1. CASE h # h0
      <4>1. hunk'[h] = hunk[h] /\ holder'[h] = holder[h]
        BY <1>1, <2>1, <2>3, <3>1
      <4> QED
        BY <2>1, <4>1
    <3>2. CASE h = h0
      <4>1. hunk'[h].word = w /\ holder'[h] = p
        BY <1>1, <2>1, <2>3, <3>2 DEF HunkTypes
      <4>2. l = Code[e] /\ n = n0
        BY <3>2 DEF Hunk
      <4>3. PathIsRight(w, l, n)
        BY <2>3, <4>2, UncompiledIsRight DEF IInv, WordInv
      <4> QED
        BY <1>2, <4>1, <4>3
    <3> QED
      BY <3>1, <3>2
  <2>4. ASSUME NEW off \in Words, h0 \in Hunks, hunk' = [hunk EXCEPT ![h0].off = off],
               holder' = [holder EXCEPT ![h0] = Free],
               \/ pc[p] = "storeOffset" /\ off = loc[p].off
               \/ pc[p] = "uncompiled"
        PROVE  /\ PathIsRight(hunk'[h].word, l, n)
               /\ holder'[h] = Free => OffsetIsRight(hunk'[h].word, hunk'[h].off, l, n)
    <3>1. CASE h # h0
      <4>1. hunk'[h] = hunk[h] /\ holder'[h] = holder[h]
        BY <1>1, <2>1, <2>4, <3>1
      <4> QED
        BY <2>1, <4>1
    <3>2. CASE h = h0
      <4>1. hunk'[h].word = hunk[h].word /\ hunk'[h].off = off
        BY <1>1, <2>1, <2>4, <3>2 DEF HunkTypes
      <4>2. l = Code[e] /\ n = n0
        BY <3>2 DEF Hunk
      <4>3. OffsetIsRight(hunk[h].word, off, l, n)
        BY <2>4, <3>2, <4>2, UncompiledIsRight DEF IInv, WordInv
      <4> QED
        BY <2>1, <4>1, <4>3
    <3> QED
      BY <3>1, <3>2
  <2> HIDE DEF h, h0
  <2>5. \/ UNCHANGED <<hunk, holder>>
        \/ /\ h0 \in Hunks
           /\ \E w \in WordTypes :
                 /\ hunk' = [hunk EXCEPT ![h0].word = w] /\ holder' = [holder EXCEPT ![h0] = p]
                 /\ \/ pc[p] = "storeType" /\ w = loc[p].word
                    \/ pc[p] = "uncompile" /\ w = Uncompiled
        \/ /\ h0 \in Hunks
           /\ \E off \in Words :
                 /\ hunk' = [hunk EXCEPT ![h0].off = off] /\ holder' = [holder EXCEPT ![h0] = Free]
                 /\ \/ pc[p] = "storeOffset" /\ off = loc[p].off
                    \/ pc[p] = "uncompiled"
    BY <1>1 DEF Objects, h0
  <2> QED
    BY <2>2, <2>3, <2>4, <2>5 DEF h
<1> QED
  BY <1>3 DEF HunkInv

\* Where a processor comes from.
Enters == {"extend", "type", "deep"}
ComesFrom(p) ==
    /\ pc'[p] = "offset" => ReadType(p)
    /\ pc'[p] = "verify" => ReadOffset(p)
    /\ pc'[p] = "end" => ReadType(p) \/ Verify(p)
    /\ pc'[p] = "storeType" => SearchFrame(p)
    /\ pc'[p] = "storeOffset" => StoreType(p)
    /\ pc'[p] = "deepEnd" => SearchFrame(p) \/ StoreOffset(p)
    /\ pc'[p] = "uncompile" => DeepFetch(p) \/ DeepStore(p)
    /\ pc'[p] = "uncompiled" => Uncompile(p)
    /\ pc'[p] = "done" => \/ FetchValue(p) \/ StoreValue(p) \/ DeepFetch(p) \/ DeepStore(p)
                          \/ UncompileOff(p) \/ call[p].kind = "definition"

LEMMA StepComesFrom ==
  ASSUME IInv, NEW p \in Procs, Step(p)
  PROVE  ComesFrom(p)
<1>1. pc \in [Procs -> Labels]
  BY DEF IInv, Typed
<1>2. \A to : Goto(p, to) => pc'[p] = to
  BY <1>1 DEF Goto, Set
<1>3. ASSUME Restart(p) \/ Interrupted(p) \/ Begin(p) \/ Return(p)
      PROVE  ComesFrom(p)
  <2>1. \A k : Entry(k) \in Enters
    BY DEF Entry, Enters
  <2>2. pc'[p] \in Enters \cup {"idle"}
    BY <1>2, <1>3, <2>1 DEF Restart, Interrupted, Begin, Return
  <2> QED
    BY <2>2 DEF ComesFrom, Enters
<1>4. ASSUME pc'[p] \in Enters \cup Defining
      PROVE  ComesFrom(p)
  BY <1>4 DEF ComesFrom, Enters, Defining, Extending
<1>5. CASE ReadType(p)
  <2>1. Goto(p, "deep") \/ Goto(p, "end") \/ Goto(p, "offset")
    BY <1>5 DEF ReadType
  <2> QED
    BY <1>2, <1>5, <2>1 DEF ComesFrom
<1>6. CASE ReadOffset(p)
  BY <1>2, <1>6 DEF ReadOffset, ComesFrom
<1>7. CASE Verify(p)
  <2>1. Goto(p, "type") \/ Goto(p, "end") \/ Goto(p, "deep")
    BY <1>7 DEF Verify
  <2> QED
    BY <1>2, <1>7, <2>1 DEF ComesFrom
<1>8. CASE FetchValue(p) \/ StoreValue(p)
  <2>1. Goto(p, "done") \/ Goto(p, "deep")
    BY <1>8 DEF FetchValue, StoreValue
  <2> QED
    BY <1>2, <1>8, <2>1 DEF ComesFrom
<1>9. CASE SearchFrame(p)
  <2>1. Goto(p, "storeType") \/ Goto(p, "deepEnd") \/ (pc'[p] = pc[p] /\ pc[p] = "deep")
    BY <1>9 DEF SearchFrame, Found, At
  <2> QED
    BY <1>2, <1>9, <2>1 DEF ComesFrom
<1>10. CASE StoreType(p)
  <2>1. Goto(p, "storeOffset")
    BY <1>10 DEF StoreType, StoreWord
  <2> QED
    BY <1>2, <1>10, <2>1 DEF ComesFrom
<1>11. CASE StoreOffset(p)
  <2>1. Goto(p, "deepEnd")
    BY <1>11 DEF StoreOffset, StoreOff
  <2> QED
    BY <1>2, <1>11, <2>1 DEF ComesFrom
<1>12. CASE DeepFetch(p) \/ DeepStore(p)
  <2>1. Goto(p, "uncompile") \/ Goto(p, "done") \/ Restart(p)
    BY <1>12 DEF DeepFetch, DeepStore, AfterDeep
  <2> QED
    BY <1>2, <1>3, <1>12, <2>1 DEF ComesFrom
<1>13. CASE Uncompile(p)
  <2>1. Goto(p, "uncompiled")
    BY <1>13 DEF Uncompile, StoreWord
  <2> QED
    BY <1>2, <1>13, <2>1 DEF ComesFrom
<1>14. CASE UncompileOff(p)
  <2>1. Goto(p, "done")
    BY <1>14 DEF UncompileOff, StoreOff
  <2> QED
    BY <1>2, <1>14, <2>1 DEF ComesFrom
<1>15. ASSUME Existing(p)
       PROVE  Restart(p) \/ pc'[p] \in Defining
  BY <1>2, <1>15 DEF Existing, Redefines, Dangerize, Down, Defining, Extending
<1>16. CASE EnsureAux(p)
  <2>1. Restart(p) \/ Goto(p, "search")
    BY <1>16 DEF EnsureAux
  <2> QED
    BY <1>2, <1>3, <1>4, <2>1 DEF Defining, Extending
<1>17. CASE ExtendBound(p) \/ ExtendAux(p) \/ SearchPlaceholder(p) \/ SearchReal(p)
            \/ SearchNothing(p) \/ AddRedo(p) \/ AddBinding(p) \/ Recache(p)
  <2>1. Restart(p) \/ Interrupted(p) \/ pc'[p] \in Defining
    BY <1>2, <1>15, <1>17 DEF ExtendBound, ExtendAux, SearchPlaceholder, SearchReal, SearchNothing,
      AddRedo, AddBinding, Recache, Down, Defining, Extending
  <2> QED
    BY <1>3, <1>4, <2>1
<1>18. CASE Definition(p) \/ Redefine(p)
  <2>1. call[p].kind = "definition"
    BY <1>18 DEF Definition, Redefine, At, IInv, Roles, Role, Defining
  <2>2. Goto(p, "redefine") \/ Goto(p, "done") \/ Restart(p)
    BY <1>18 DEF Definition, Redefine
  <2> QED
    BY <1>2, <1>3, <2>1, <2>2 DEF ComesFrom
<1> QED
  BY <1>3, <1>5, <1>6, <1>7, <1>8, <1>9, <1>10, <1>11, <1>12, <1>13, <1>14, <1>16, <1>17, <1>18
  DEF Step

\* What deep_lookup has found when it ends.
FoundAt(p, g, w, off) == LET e == call[p].env  n == call[p].name  i == loc[p].i IN
    /\ i \in 1 .. Len(Chain[e]) + 1 /\ g = Up(e, i) /\ Ends(g, n)
    /\ loc'[p].cell = TheCell(g, n) /\ loc'[p].word = w /\ loc'[p].off = off /\ loc'[p].i = 1
    /\ IF AtTop(p) THEN w = <<"global", 0>> /\ off = 0
       ELSE w = PathWord(g, i, n) /\ off = PathOffset(g, i, n)

LEMMA SearchEnds ==
  ASSUME IInv, NEW p \in Procs, SearchFrame(p), pc'[p] # "deep"
  PROVE  \E g, w, off : FoundAt(p, g, w, off)
<1> DEFINE e == call[p].env
           n == call[p].name
           i == loc[p].i
<1>1. /\ pc[p] = "deep" /\ pc \in [Procs -> Labels] /\ loc \in [Procs -> LocTypes]
      /\ loc[p] \in LocTypes /\ e \in Envs /\ n \in Names
  BY Asked DEF IInv, Typed, SearchFrame, At
<1>2. i \in Nat \ {0} /\ Len(Chain[e]) \in Nat /\ i <= Len(Chain[e]) + 1
  BY <1>1, Chains DEF LocTypes, IInv, PlaceInv, Place
<1>3. ASSUME NEW c, NEW w, NEW off, Found(p, c, w, off)
      PROVE  loc'[p].cell = c /\ loc'[p].word = w /\ loc'[p].off = off /\ loc'[p].i = 1
  <2> DEFINE x == [loc[p] EXCEPT !.cell = c, !.word = w, !.off = off, !.i = 1]
  <2>1. loc' = [loc EXCEPT ![p] = x]
    BY <1>3 DEF Found, Local, Set
  <2>2. x.cell = c /\ x.word = w /\ x.off = off /\ x.i = 1
    BY <1>1 DEF LocTypes
  <2> HIDE DEF x
  <2> QED
    BY <1>1, <2>1, <2>2
<1>4. CASE AtTop(p)
  <2>1. Found(p, <<Global, n>>, <<"global", 0>>, 0)
    BY <1>4 DEF SearchFrame
  <2>2. Up(e, i) = Global /\ i \in 1 .. Len(Chain[e]) + 1
    BY <1>1, <1>2, <1>4, Chains DEF AtTop
  <2> QED
    BY <1>3, <1>4, <2>1, <2>2 DEF FoundAt, Ends, TheCell
<1>5. CASE ~AtTop(p)
  <2>1. /\ Here(p) = Up(e, i) /\ Here(p) # Global /\ i \in 1 .. Len(Chain[e])
    BY <1>1, <1>5, Standing DEF IInv
  <2>2. /\ Binds(Here(p), n)
        /\ Found(p, CellIn(Here(p), n), PathWord(Here(p), i, n), PathOffset(Here(p), i, n))
    BY <1>1, <1>5 DEF SearchFrame
  <2>3. i \in 1 .. Len(Chain[e]) + 1
    BY <1>2, <2>1
  <2> QED
    BY <1>3, <1>5, <2>1, <2>2, <2>3 DEF FoundAt, Ends, TheCell
<1> QED
  BY <1>4, <1>5

\* Between its stores nobody else stores into a variable object.
LEMMA HeldAlone ==
  ASSUME IInv, NEW p \in Procs, Step(p), NEW q \in Procs \ {p},
         pc[q] \in {"storeOffset", "uncompiled"}
  PROVE  hunk'[Hunk(q)] = hunk[Hunk(q)]
<1>1. Hunk(q) \in Hunks
  BY Asked DEF IInv, Roles, Role, OnObject
<1>2. holder[Hunk(q)] = q
  BY <1>1 DEF IInv, HolderInv
<1>3. \A h \in Hunks : holder[h] = p <=> pc[p] \in {"storeOffset", "uncompiled"} /\ h = Hunk(p)
  BY DEF IInv, HolderInv
<1>4. q # Free
  BY LockAssumption
<1>5. hunk \in [Hunks -> HunkTypes] /\ Objects(p)
  BY StepObjects DEF IInv, Typed
<1>6. CASE UNCHANGED <<hunk, holder>>
  BY <1>6
<1>7. CASE ~UNCHANGED <<hunk, holder>>
  <2>1. Hunk(p) # Hunk(q) /\ Hunk(p) \in Hunks
    BY <1>1, <1>2, <1>3, <1>4, <1>5, <1>7 DEF Objects
  <2> DEFINE h == Hunk(p)
             k == Hunk(q)
  <2>2. \E w : hunk' = [hunk EXCEPT ![h].word = w] \/ hunk' = [hunk EXCEPT ![h].off = w]
    BY <1>5, <1>7 DEF Objects
  <2> HIDE DEF h, k
  <2>3. h # k /\ k \in Hunks
    BY <1>1, <2>1 DEF h, k
  <2>4. hunk'[k] = hunk[k]
    BY <1>5, <2>2, <2>3
  <2> QED
    BY <2>4 DEF k
<1> QED
  BY <1>6, <1>7

LEMMA StepWord ==
  ASSUME IInv, NEW p \in Procs, Step(p), Watch
  PROVE  WordInv'
<1> DEFINE l(q) == Code[call[q].env]
           n(q) == call[q].name
           W(q) ==
             /\ pc[q] \in {"offset", "verify"} =>
                   loc[q].word[1] \in {"formal", "aux"} /\ PathIsRight(loc[q].word, l(q), n(q))
             /\ pc[q] \in {"storeType", "storeOffset"} =>
                   /\ PathIsRight(loc[q].word, l(q), n(q))
                   /\ OffsetIsRight(loc[q].word, loc[q].off, l(q), n(q))
             /\ pc[q] = "storeOffset" => hunk[Hunk(q)].word = loc[q].word
             /\ pc[q] = "uncompiled" => hunk[Hunk(q)].word = Uncompiled
           WNext(q) == LET ll == Code[call'[q].env]  nn == call'[q].name IN
             /\ pc'[q] \in {"offset", "verify"} =>
                   loc'[q].word[1] \in {"formal", "aux"} /\ PathIsRight(loc'[q].word, ll, nn)
             /\ pc'[q] \in {"storeType", "storeOffset"} =>
                   /\ PathIsRight(loc'[q].word, ll, nn)
                   /\ OffsetIsRight(loc'[q].word, loc'[q].off, ll, nn)
             /\ pc'[q] = "storeOffset" => hunk'[<<ll, nn>>].word = loc'[q].word
             /\ pc'[q] = "uncompiled" => hunk'[<<ll, nn>>].word = Uncompiled
<1>1. /\ \A q \in Procs : W(q)
      /\ ComesFrom(p) /\ Objects(p) /\ Others(p)
      /\ pc \in [Procs -> Labels] /\ loc \in [Procs -> LocTypes] /\ loc[p] \in LocTypes
  BY StepComesFrom, StepObjects, StepOthers DEF IInv, Typed, WordInv
<1>2. ASSUME NEW q \in Procs \ {p}
      PROVE  WNext(q)
  <2>1. /\ pc'[q] = pc[q] /\ call'[q] = call[q] /\ loc'[q] = loc[q]
        /\ W(q)
    BY <1>1 DEF Others
  <2>2. pc[q] \in {"storeOffset", "uncompiled"} => hunk'[Hunk(q)] = hunk[Hunk(q)]
    BY HeldAlone
  <2> QED
    BY <2>1, <2>2 DEF Hunk
<1>3. ASSUME pc'[p] = "offset"
      PROVE  WNext(p)
  <2>1. ReadType(p) /\ pc[p] = "type"
    BY <1>1, <1>3 DEF ComesFrom, ReadType, At
  <2>2. Hunk(p) \in Hunks /\ l(p) \in Lambdas /\ n(p) \in Names /\ Hunk(p) = <<l(p), n(p)>>
    BY <2>1, Asked DEF IInv, Roles, Role, OnPath, Hunk, Lambdas
  <2> DEFINE w == hunk[Hunk(p)].word
  <2>3. /\ w[1] \in {"formal", "aux"} /\ loc' = [loc EXCEPT ![p] = [loc[p] EXCEPT !.word = w]]
        /\ call' = call
    BY <1>1, <1>3, <2>1 DEF ReadType, Goto, Local, Set
  <2>4. loc'[p].word = w
    BY <1>1, <2>3 DEF LocTypes
  <2>5. PathIsRight(w, l(p), n(p))
    BY <2>2 DEF IInv, HunkInv
  <2> QED
    BY <1>3, <2>3, <2>4, <2>5
<1>4. ASSUME pc'[p] = "verify"
      PROVE  WNext(p)
  <2>1. ReadOffset(p) /\ pc[p] = "offset"
    BY <1>1, <1>4 DEF ComesFrom, ReadOffset, At
  <2>2. loc'[p].word = loc[p].word /\ call' = call
    BY <1>1, <2>1 DEF ReadOffset, Local, Set, LocTypes
  <2> QED
    BY <1>1, <1>4, <2>1, <2>2
<1>5. ASSUME pc'[p] = "storeType"
      PROVE  WNext(p)
  <2>1. SearchFrame(p) /\ pc[p] = "deep" /\ call' = call /\ aux' = aux
    BY <1>1, <1>5 DEF ComesFrom, SearchFrame, At, shared
  <2>2. call[p].compiles
    BY <1>5, StepRole, <2>1 DEF Role, OnObject
  <2>3. call[p].env \in Frames /\ n(p) \in Names /\ call[p].env \in Envs
    BY <2>1, <2>2, Asked DEF IInv
  <2>4. PICK g, w, off : FoundAt(p, g, w, off)
    BY <1>5, <2>1, SearchEnds
  <2> DEFINE e == call[p].env
             i == loc[p].i
  <2>5. Past(e, i - 1, n(p))
    BY <2>1 DEF IInv, SearchInv
  <2>6. CASE AtTop(p)
    <3>1. i - 1 = Len(Chain[e])
      <4>1. i \in 1 .. Len(Chain[e]) + 1 /\ Len(Chain[e]) \in Nat
        BY <2>3, <2>4, Chains DEF FoundAt
      <4> QED
        BY <2>6, <4>1 DEF AtTop
    <3>2. PathIsRight(w, l(p), n(p)) /\ OffsetIsRight(w, off, l(p), n(p))
      BY <2>3, <2>4, <2>5, <2>6, <3>1, PathFoundGlobal DEF FoundAt
    <3>3. loc'[p].word = w /\ loc'[p].off = off
      BY <2>4 DEF FoundAt
    <3> QED
      BY <1>5, <2>1, <3>2, <3>3
  <2>7. CASE ~AtTop(p)
    <3>1. i \in 1 .. Len(Chain[e]) /\ g = Chain[e][i] /\ Binds(g, n(p))
      <4>1. /\ i \in 1 .. Len(Chain[e]) /\ Here(p) = Up(e, i) /\ Here(p) # Global
        BY <2>1, <2>7, Standing DEF IInv
      <4> QED
        BY <2>4, <4>1 DEF FoundAt, Here, Ends
    <3>2. w = PathWord(g, i, n(p)) /\ off = PathOffset(g, i, n(p))
      BY <2>4, <2>7 DEF FoundAt
    <3>3. PathIsRight(w, l(p), n(p)) /\ OffsetIsRight(w, off, l(p), n(p))
      BY <2>3, <2>5, <3>1, <3>2, PathFound DEF IInv
    <3>4. loc'[p].word = w /\ loc'[p].off = off
      BY <2>4 DEF FoundAt
    <3> QED
      BY <1>5, <2>1, <3>3, <3>4
  <2> QED
    BY <2>6, <2>7
<1>6. ASSUME pc'[p] = "storeOffset"
      PROVE  WNext(p)
  <2>1. StoreType(p) /\ pc[p] = "storeType" /\ UNCHANGED <<call, loc>>
    BY <1>1, <1>6 DEF ComesFrom, StoreType, StoreWord, At
  <2>2. Hunk(p) \in Hunks /\ Hunk(p) = <<l(p), n(p)>>
    BY <2>1, Asked DEF IInv, Roles, Role, OnObject, Hunk
  <2>3. hunk'[Hunk(p)].word = loc[p].word
    BY <2>1, <2>2 DEF StoreType, StoreWord, IInv, Typed, HunkTypes
  <2> QED
    BY <1>1, <1>6, <2>1, <2>2, <2>3
<1>7. ASSUME pc'[p] = "uncompiled"
      PROVE  WNext(p)
  <2>1. Uncompile(p) /\ pc[p] = "uncompile" /\ UNCHANGED <<call, loc>>
    BY <1>1, <1>7 DEF ComesFrom, Uncompile, StoreWord, At
  <2>2. Hunk(p) \in Hunks /\ Hunk(p) = <<l(p), n(p)>>
    BY <2>1, Asked DEF IInv, Roles, Role, OnObject, Hunk
  <2>3. hunk'[Hunk(p)].word = Uncompiled
    BY <2>1, <2>2 DEF Uncompile, StoreWord, IInv, Typed, HunkTypes
  <2> QED
    BY <1>7, <2>1, <2>2, <2>3
<1>8. WNext(p)
  BY <1>3, <1>4, <1>5, <1>6, <1>7
<1> QED
  BY <1>2, <1>8 DEF WordInv, Hunk

-----------------------------------------------------------------------------
(* Deep lookups *)

\* A search that goes on has found no binding.
LEMMA SearchGoesOn ==
  ASSUME IInv, NEW p \in Procs, Step(p), pc'[p] = "deep", loc'[p].i # 1
  PROVE  /\ SearchFrame(p) /\ pc[p] = "deep" /\ call' = call /\ ~AtTop(p)
         /\ loc'[p].i = loc[p].i + 1 /\ ~Binds(Here(p), call[p].name)
<1>1. Moves(p) /\ loc \in [Procs -> LocTypes] /\ loc[p] \in LocTypes
  BY StepMoves DEF IInv, Typed
<1>2. loc'[p].i = loc[p].i + 1 /\ pc[p] = "deep" /\ ~AtTop(p)
  BY <1>1 DEF Moves
<1>3. SearchFrame(p)
  BY <1>2
  DEF Step, Begin, Return, ReadType, ReadOffset, Verify, FetchValue, StoreValue,
    StoreType, StoreOffset, StoreWord, StoreOff, DeepFetch, DeepStore, Uncompile, UncompileOff,
    ExtendBound, ExtendAux, EnsureAux, SearchPlaceholder, SearchReal, SearchNothing, AddRedo,
    AddBinding, Recache, Definition, Redefine, At
<1>4. call' = call
  BY <1>3 DEF SearchFrame
<1>5. ~Binds(Here(p), call[p].name)
  <2>1. ASSUME NEW c, NEW w, NEW off, Found(p, c, w, off)
        PROVE  FALSE
    <3>1. pc'[p] = "storeType" \/ pc'[p] = "deepEnd"
      BY <2>1 DEF Found, Goto, Set, IInv, Typed
    <3> QED
      BY <3>1
  <2> QED
    BY <1>2, <1>3, <2>1 DEF SearchFrame
<1> QED
  BY <1>2, <1>3, <1>4, <1>5

LEMMA StepSearch ==
  ASSUME IInv, NEW p \in Procs, Step(p)
  PROVE  SearchInv'
<1>1. ASSUME NEW q \in Procs, pc'[q] = "deep"
      PROVE  Past(call'[q].env, loc'[q].i - 1, call'[q].name)
  <2>1. CASE q # p
    BY <1>1, <2>1, StepOthers DEF Others, IInv, SearchInv
  <2>2. CASE q = p /\ loc'[p].i = 1
    BY <2>2 DEF Past
  <2>3. CASE q = p /\ loc'[p].i # 1
    <3> DEFINE e == call[p].env
               n == call[p].name
               i == loc[p].i
    <3>1. /\ pc[p] = "deep" /\ call' = call /\ loc'[p].i = i + 1
          /\ ~Binds(Here(p), n)
      BY <1>1, <2>3, SearchGoesOn
    <3>2. Past(e, i - 1, n) /\ i \in Nat
      BY <3>1 DEF IInv, SearchInv, Typed, LocTypes
    <3>3. ~IsFormal(Chain[e][i], n)
      BY <3>1 DEF Binds, Here
    <3> HIDE DEF i
    <3>4. \A j \in 1 .. i : j = i \/ j \in 1 .. i - 1
      BY <3>2
    <3>5. Past(e, i, n)
      BY <3>2, <3>3, <3>4 DEF Past
    <3>6. loc'[p].i - 1 = i
      BY <3>1, <3>2
    <3> QED
      BY <2>3, <3>1, <3>5, <3>6
  <2> QED
    BY <2>1, <2>2, <2>3
<1> QED
  BY <1>1 DEF SearchInv

\* What a call could have meant is remembered until it ends.
LEMMA StepSeen ==
  ASSUME IInv, NEW p \in Procs, Step(p), Watch
  PROVE  /\ SeenInv'
         /\ \A q \in Procs : pc[q] # "idle" /\ pc'[q] # "idle" =>
               /\ Meant(q) \in seen[q] /\ seen[q] \subseteq seen'[q]
               /\ \A m : seen'[q] = {m} => seen[q] = {m}
<1>1. \A q \in Procs : pc'[q] # "idle" => seen'[q] = seen[q] \cup {Meant(q)'}
  BY DEF Watch
<1>2. SeenInv'
  BY <1>1 DEF SeenInv
<1>3. \A q \in Procs : pc[q] # "idle" => Meant(q) \in seen[q]
  BY DEF IInv, SeenInv
<1> QED
  BY <1>1, <1>2, <1>3

LEMMA HasFoundKept ==
  ASSUME IInv, NEW p \in Procs, Step(p), Watch, NEW q \in Procs, HasFound(q),
         pc[q] # "idle", pc'[q] # "idle", call'[q] = call[q], loc'[q].cell = loc[q].cell
  PROVE  HasFound(q)'
<1> DEFINE e == call[q].env
           n == call[q].name
           c == loc[q].cell
<1>1. e \in Envs /\ n \in Names
  BY Asked DEF IInv
<1>2. PICK j \in 1 .. Len(Chain[e]) + 1 : HasCell(Up(e, j), n) /\ c = TheCell(Up(e, j), n)
  BY DEF HasFound
<1>3. HasCell(Up(e, j), n)' /\ TheCell(Up(e, j), n)' = c
  BY <1>1, <1>2, StepBindings, Chains DEF BindingsKept
<1>4. \A m \in seen'[q] : seen'[q] = {m} => c = m
  BY StepSeen DEF HasFound
<1> QED
  BY <1>3, <1>4 DEF HasFound

\* A search that has not gone past the only meaning there was ends at it.
LEMMA EndsAtMeaning ==
  ASSUME IInv, NEW p \in Procs, pc[p] = "deep", NotPassed(p), Ends(Up(call[p].env, loc[p].i), call[p].name),
         NEW m, seen[p] = {m}
  PROVE  m = TheCell(Up(call[p].env, loc[p].i), call[p].name)
<1> DEFINE e == call[p].env
           n == call[p].name
           i == loc[p].i
<1>1. /\ e \in Envs /\ n \in Names /\ Len(Chain[e]) \in Nat /\ i \in Nat \ {0}
      /\ i <= Len(Chain[e]) + 1
  BY Asked, Chains DEF IInv, Typed, LocTypes, PlaceInv, Place
<1>2. m = Visible(e, n)
  <2>1. Meant(p) \in seen[p]
    BY DEF IInv, SeenInv
  <2> QED
    BY <2>1 DEF Meant
<1>3. PICK k \in 1 .. Len(Chain[e]) + 1 :
         /\ Ends(Up(e, k), n) /\ Visible(e, n) = TheCell(Up(e, k), n)
         /\ \A j \in 1 .. k - 1 : ~Binds(Chain[e][j], n)
  BY <1>1, VisibleFinds DEF Sees
<1>4. /\ \A j \in 1 .. Len(Chain[e]) : Chain[e][j] \in Frames /\ Up(e, j) = Chain[e][j]
      /\ Global \notin Frames /\ Up(e, k) \in Envs
  BY <1>1, Chains
<1>5. m[1] = Up(e, k)
  <2>1. \A g \in Envs : TheCell(g, n)[1] = g
    BY <1>1, CellsOfNames
  <2> QED
    BY <1>2, <1>3, <1>4, <2>1
<1>6. \A j \in 1 .. i - 1 : Chain[e][j] # Up(e, k)
  BY <1>5 DEF NotPassed
<1>7. ~(k < i)
  <2> SUFFICES ASSUME k < i
      PROVE  FALSE
    OBVIOUS
  <2>1. k \in 1 .. i - 1 /\ k \in 1 .. Len(Chain[e])
    BY <1>1
  <2> QED
    BY <1>4, <1>6, <2>1
<1>8. ~(i < k)
  <2> SUFFICES ASSUME i < k
      PROVE  FALSE
    OBVIOUS
  <2>1. i \in 1 .. k - 1 /\ i \in 1 .. Len(Chain[e])
    BY <1>1
  <2> QED
    BY <1>3, <1>4, <2>1 DEF Ends
<1>9. k = i
  BY <1>1, <1>7, <1>8
<1> QED
  BY <1>2, <1>3, <1>9

LEMMA SearchFinds ==
  ASSUME IInv, NEW p \in Procs, Step(p), Watch, SearchFrame(p), pc'[p] # "deep"
  PROVE  HasFound(p)'
<1> DEFINE e == call[p].env
           n == call[p].name
           i == loc[p].i
<1>1. pc[p] = "deep" /\ call' = call /\ e \in Envs /\ n \in Names /\ NotPassed(p)
  BY Asked DEF IInv, SearchFrame, At, FoundInv
<1>2. PICK g, w, off : FoundAt(p, g, w, off)
  BY SearchEnds
<1>3. /\ i \in 1 .. Len(Chain[e]) + 1 /\ g = Up(e, i) /\ Ends(g, n)
      /\ loc'[p].cell = TheCell(g, n) /\ g \in Envs
  BY <1>1, <1>2, Chains DEF FoundAt
<1>4. HasCell(g, n)
  BY <1>3 DEF Ends, HasCell, Binds
<1>5. HasCell(g, n)' /\ TheCell(g, n)' = TheCell(g, n)
  BY <1>1, <1>3, <1>4, StepBindings DEF BindingsKept
<1>6. pc'[p] # "idle"
  BY CallsGo DEF SearchFrame, Return, At
<1>7. \A m : seen'[p] = {m} => TheCell(g, n) = m
  BY <1>1, <1>3, <1>6, StepSeen, EndsAtMeaning
<1>8. \E j \in 1 .. Len(Chain[e]) + 1 : Up(e, j) = g
  BY <1>3
<1> QED
  BY <1>1, <1>3, <1>5, <1>7, <1>8 DEF HasFound

LEMMA SearchPasses ==
  ASSUME IInv, NEW p \in Procs, Step(p), Watch, pc'[p] = "deep", loc'[p].i # 1
  PROVE  NotPassed(p)'
<1> DEFINE e == call[p].env
           n == call[p].name
           i == loc[p].i
<1>1. /\ pc[p] = "deep" /\ call' = call /\ loc'[p].i = i + 1 /\ ~Binds(Here(p), n) /\ ~AtTop(p)
      /\ NotPassed(p) /\ e \in Envs /\ n \in Names
  BY SearchGoesOn, Asked DEF IInv, FoundInv
<1>2. i \in 1 .. Len(Chain[e]) /\ Here(p) = Up(e, i) /\ Here(p) \in Frames /\ Here(p) # Global
  BY <1>1, Standing DEF IInv
<1>3. ASSUME NEW m, seen[p] = {m}
      PROVE  Chain[e][i] # m[1]
  <2>1. m = Visible(e, n)
    <3>1. Meant(p) \in seen[p]
      BY <1>1 DEF IInv, SeenInv
    <3> QED
      BY <1>3, <3>1 DEF Meant
  <2>2. PICK k \in 1 .. Len(Chain[e]) + 1 :
           Ends(Up(e, k), n) /\ Visible(e, n) = TheCell(Up(e, k), n)
    BY <1>1, VisibleFinds DEF Sees
  <2>3. m[1] = Up(e, k)
    <3>1. \A g \in Envs : TheCell(g, n)[1] = g
      BY <1>1, CellsOfNames
    <3>2. Up(e, k) \in Envs
      BY <1>1, Chains
    <3> QED
      BY <2>1, <2>2, <3>1, <3>2
  <2> QED
    BY <1>1, <1>2, <2>2, <2>3 DEF Ends, Here
<1>4. \A m : seen'[p] = {m} => seen[p] = {m}
  BY <1>1, StepSeen
<1>5. \A j \in 1 .. (i + 1) - 1 : j = i \/ j \in 1 .. i - 1
  BY <1>2
<1>6. \A m : seen[p] = {m} => \A j \in 1 .. i - 1 : Chain[e][j] # m[1]
  BY <1>1 DEF NotPassed
<1>7. \A m : seen'[p] = {m} => \A j \in 1 .. loc'[p].i - 1 : Chain[e][j] # m[1]
  <2>1. loc'[p].i - 1 = (i + 1) - 1
    BY <1>1
  <2> SUFFICES ASSUME NEW m, seen'[p] = {m}, NEW j \in 1 .. (i + 1) - 1
      PROVE  Chain[e][j] # m[1]
    BY <2>1
  <2> HIDE DEF i
  <2> QED
    BY <1>3, <1>4, <1>5, <1>6
<1> QED
  BY <1>1, <1>7 DEF NotPassed

LEMMA StepFound ==
  ASSUME IInv, NEW p \in Procs, Step(p), Watch
  PROVE  FoundInv'
<1>1. /\ ComesFrom(p) /\ Role(p)' /\ Role(p)
      /\ loc \in [Procs -> LocTypes] /\ pc \in [Procs -> Labels]
  BY StepComesFrom, StepRole DEF IInv, Typed, Roles
<1>2. ASSUME NEW q \in Procs \ {p}
      PROVE  /\ pc'[q] = "deep" => NotPassed(q)'
             /\ pc'[q] \in OnObject \cup {"deepEnd"} => HasFound(q)'
             /\ pc'[q] = "done" /\ call'[q].kind # "definition" /\ ~call'[q].compiles => HasFound(q)'
  <2>1. /\ pc'[q] = pc[q] /\ call'[q] = call[q] /\ loc'[q] = loc[q]
        /\ pc[q] = "deep" => NotPassed(q)
        /\ pc[q] \in OnObject \cup {"deepEnd"} => HasFound(q)
        /\ pc[q] = "done" /\ call[q].kind # "definition" /\ ~call[q].compiles => HasFound(q)
    BY StepOthers DEF Others, IInv, FoundInv
  <2>2. pc[q] = "deep" => NotPassed(q)'
    <3> SUFFICES ASSUME pc[q] = "deep"
        PROVE  NotPassed(q)'
      OBVIOUS
    <3>1. \A m : seen'[q] = {m} => seen[q] = {m}
      BY <2>1, StepSeen
    <3> QED
      BY <2>1, <3>1 DEF NotPassed
  <2>3. pc[q] # "idle" /\ HasFound(q) => HasFound(q)'
    BY <2>1, HasFoundKept
  <2> QED
    BY <2>1, <2>2, <2>3 DEF OnObject
<1>3. pc'[p] = "deep" => NotPassed(p)'
  <2>1. loc'[p].i = 1 => NotPassed(p)'
    BY DEF NotPassed
  <2> QED
    BY <2>1, SearchPasses
<1>4. ASSUME pc'[p] \in OnObject \cup {"deepEnd"} \/
             (pc'[p] = "done" /\ call'[p].kind # "definition" /\ ~call'[p].compiles)
      PROVE  HasFound(p)'
  <2>1. CASE SearchFrame(p)
    BY <1>4, <2>1, SearchFinds DEF OnObject
  <2>2. CASE ~SearchFrame(p)
    <3>1. StoreType(p) \/ StoreOffset(p) \/ DeepFetch(p) \/ DeepStore(p) \/ Uncompile(p)
             \/ FetchValue(p) \/ StoreValue(p) \/ UncompileOff(p) \/ call[p].kind = "definition"
      BY <1>1, <1>4, <2>2 DEF ComesFrom, OnObject
    <3>2. ~Begin(p) /\ ~Return(p)
      <4>1. Begin(p) => pc'[p] \in Enters
        <5>1. \A k : Entry(k) \in Enters
          BY DEF Entry, Enters
        <5> QED
          BY <1>1, <5>1 DEF Begin, Goto, Set
      <4>2. Return(p) => pc'[p] = "idle"
        BY CallsGo
      <4> QED
        BY <1>4, <4>1, <4>2 DEF Enters, OnObject
    <3>3. call' = call /\ pc[p] # "idle" /\ pc'[p] # "idle"
      BY <3>2, CallsGo
    <3>4. ~(FetchValue(p) \/ StoreValue(p) \/ UncompileOff(p)) /\ call[p].kind # "definition"
      <4>1. call[p].kind # "definition"
        BY <1>1, <1>4, <3>3 DEF Role, Looking
      <4>2. FetchValue(p) \/ StoreValue(p) \/ UncompileOff(p) =>
               call[p].compiles /\ pc'[p] \in {"done", "deep"}
        BY <1>1 DEF Role, FetchValue, StoreValue, UncompileOff, StoreOff, At, Goto, Set,
                    OnPath, OnObject
      <4> QED
        BY <1>4, <3>3, <4>1, <4>2 DEF OnObject
    <3>5. pc[p] \in OnObject \cup {"deepEnd"}
      BY <3>1, <3>4 DEF StoreType, StoreOffset, StoreWord, StoreOff, DeepFetch, DeepStore, Uncompile,
                        At, OnObject
    <3>6. loc' = loc \/ Restart(p)
      BY <3>1, <3>4 DEF StoreType, StoreOffset, StoreWord, StoreOff, DeepFetch, DeepStore, Uncompile
    <3>7. ~Restart(p)
      <4>1. Restart(p) => pc'[p] \in Enters
        BY <1>1 DEF Restart, Interrupted, Goto, Set, Entry, Enters
      <4> QED
        BY <1>4, <4>1 DEF Enters, OnObject
    <3>8. HasFound(p)
      BY <3>5 DEF IInv, FoundInv
    <3> QED
      BY <3>3, <3>6, <3>7, <3>8, HasFoundKept
  <2> QED
    BY <2>1, <2>2
<1> QED
  BY <1>2, <1>3, <1>4 DEF FoundInv

-----------------------------------------------------------------------------
(* The invariant *)

LEMMA InitIInv == Init => IInv
<1> SUFFICES ASSUME Init
    PROVE  IInv
  OBVIOUS
<1>1. Typed
  BY InitTyped
<1>2. /\ \A p \in Procs : pc[p] = "idle" /\ call[p] = NoCall /\ loc[p].i = 1
      /\ \A h \in Hunks : hunk[h].word = Uncompiled /\ holder[h] = Free
      /\ \A f \in Frames : aux[f].names = << >> /\ aux[f].room = 0
  BY DEF Init, NoLocals
<1>3. Roles /\ PlaceInv
  BY <1>2 DEF Roles, Role, PlaceInv, Place, Looking, OnPath, OnObject, Defining, Extending
<1>4. AuxInv
  BY <1>2 DEF AuxInv, HasAux, ToSet, IsInjective
<1>5. PendInv /\ MadeInv
  BY <1>2 DEF PendInv, MadeInv, Extending
<1>6. HunkInv
  <2>1. \A l \in Lambdas, n \in Names : hunk[<<l, n>>].word = Uncompiled
    BY <1>2 DEF Hunks
  <2> QED
    BY <2>1, UncompiledIsRight DEF HunkInv
<1>7. WordInv
  BY <1>2 DEF WordInv
<1>8. HolderInv
  BY <1>2, LockAssumption DEF HolderInv
<1>9. SearchInv /\ SeenInv /\ FoundInv
  BY <1>2 DEF SearchInv, SeenInv, FoundInv, OnObject
<1> QED
  BY <1>1, <1>3, <1>4, <1>5, <1>6, <1>7, <1>8, <1>9 DEF IInv

LEMMA StutterIInv == IInv /\ UNCHANGED vars => IInv'
<1> SUFFICES ASSUME IInv, UNCHANGED vars
    PROVE  IInv'
  OBVIOUS
<1>1. UNCHANGED <<hunk, holder, cell, aux, pc, call, loc, pend, made, full, seen,
                  apart>>
  BY DEF vars, shared, own, history
<1>2. Typed' /\ Roles' /\ PlaceInv'
  BY <1>1 DEF IInv, Typed, Roles, Role, PlaceInv, Place
<1>3. AuxInv'
  BY <1>1 DEF IInv, AuxInv, HasAux
<1>4. PendInv'
  BY <1>1 DEF IInv, PendInv, Examined, Here
<1>5. MadeInv'
  BY <1>1 DEF IInv, MadeInv, HasAux
<1>6. HunkInv' /\ WordInv' /\ HolderInv'
  BY <1>1 DEF IInv, HunkInv, WordInv, HolderInv, Hunk
<1>7. SearchInv'
  BY <1>1 DEF IInv, SearchInv
<1>8. SeenInv'
  <2>1. \A f, n : (Binds(f, n)' <=> Binds(f, n)) /\ CellIn(f, n)' = CellIn(f, n)
    BY <1>1 DEF Binds, CellIn, HasAux
  <2>2. \A e, n : Visible(e, n)' = Visible(e, n)
    BY <2>1 DEF Visible, SelectInSeq
  <2>3. \A q \in Procs : Meant(q)' = Meant(q)
    BY <1>1, <2>2 DEF Meant, Visible, Binds, CellIn, HasAux, SelectInSeq
  <2> QED
    BY <1>1, <2>3 DEF IInv, SeenInv
<1>9. FoundInv'
  BY <1>1 DEF IInv, FoundInv, NotPassed, HasFound, HasCell, TheCell, CellIn, HasAux
<1> QED
  BY <1>2, <1>3, <1>4, <1>5, <1>6, <1>7, <1>8, <1>9 DEF IInv

LEMMA StepIInv ==
  ASSUME IInv, NEW p \in Procs, Step(p), Watch
  PROVE  IInv'
<1>1. Typed' /\ Roles' /\ PlaceInv'
  BY StepTyped, StepRolesAndPlaces
<1>2. AuxInv' /\ PendInv' /\ MadeInv'
  BY StepBindings, StepPending, StepMade
<1>3. HunkInv' /\ WordInv' /\ HolderInv'
  BY StepHunk, StepWord, StepHolder
<1>4. SearchInv' /\ SeenInv' /\ FoundInv'
  BY StepSearch, StepSeen, StepFound
<1> QED
  BY <1>1, <1>2, <1>3, <1>4 DEF IInv

\* The invariant holds in every state of every run, whoever defines what.
THEOREM Invariance == Spec => []IInv
<1>1. IInv /\ [Next]_vars => IInv'
  <2> SUFFICES ASSUME IInv, [Next]_vars
      PROVE  IInv'
    OBVIOUS
  <2>1. CASE UNCHANGED vars
    BY <2>1, StutterIInv
  <2>2. CASE AllDone
    BY <2>2, StutterIInv DEF AllDone
  <2>3. CASE (\E p \in Procs : Step(p)) /\ Watch
    BY <2>3, StepIInv
  <2> QED
    BY <2>1, <2>2, <2>3 DEF Next
<1> QED
  BY InitIInv, <1>1, PTL DEF Spec

\* Every variable keeps its type.
THEOREM TypeCorrect == Spec => []TypeOK
<1>1. IInv => TypeOK
  BY DEF IInv, Typed, HunkTypes, WordTypes, LocTypes, AuxTypes, AuxInv, TypeOK
<1> QED
  BY Invariance, <1>1, PTL

\* extend_frame, which looks again when it comes down from the frames above,
\* never adds a second binding of a name to a frame, however many processors
\* extend the frame at the same time.
THEOREM OneBindingEachAlways == Spec => []OneBindingEach
<1>1. IInv => OneBindingEach
  BY DEF IInv, AuxInv, OneBindingEach
<1> QED
  BY Invariance, <1>1, PTL

\* A reference or assignment that does not use a variable object (a symbol
\* that is evaluated) ends at a binding of its name that it sees, and at the
\* one that the name meant if that was the same all the time.
DeepCallsFindTheirBinding ==
    \A p \in Procs :
        pc[p] = "done" /\ call[p].kind # "definition" /\ ~call[p].compiles =>
            LET n == call[p].name IN
            /\ \/ loc[p].cell = <<Global, n>>
               \/ \E f \in ToSet(Chain[call[p].env]) : loc[p].cell = CellIn(f, n)
            /\ seen[p] = {Meant(p)} => loc[p].cell = Meant(p)

LEMMA HasFoundMeans ==
  ASSUME IInv, NEW p \in Procs, pc[p] # "idle", HasFound(p)
  PROVE  LET n == call[p].name IN
         /\ \/ loc[p].cell = <<Global, n>>
            \/ \E f \in ToSet(Chain[call[p].env]) : loc[p].cell = CellIn(f, n)
         /\ seen[p] = {Meant(p)} => loc[p].cell = Meant(p)
<1> DEFINE e == call[p].env
           n == call[p].name
<1>1. e \in Envs /\ n \in Names
  BY Asked DEF IInv
<1>2. PICK j \in 1 .. Len(Chain[e]) + 1 : loc[p].cell = TheCell(Up(e, j), n)
  BY DEF HasFound
<1>3. loc[p].cell = <<Global, n>> \/ \E f \in ToSet(Chain[e]) : loc[p].cell = CellIn(f, n)
  <2>1. CASE j \in DOMAIN Chain[e]
    BY <1>2, <2>1 DEF Up, TheCell, ToSet
  <2>2. CASE j \notin DOMAIN Chain[e]
    BY <1>2, <2>2 DEF Up, TheCell
  <2> QED
    BY <2>1, <2>2
<1>4. seen[p] = {Meant(p)} => loc[p].cell = Meant(p)
  BY DEF HasFound, IInv, SeenInv
<1> QED
  BY <1>3, <1>4

\* A search finds the meaning of its name, if that does not change, whatever
\* other processors define, look up and assign.
THEOREM DeepCallsFindTheirBindingAlways == Spec => []DeepCallsFindTheirBinding
<1>1. IInv => DeepCallsFindTheirBinding
  BY HasFoundMeans DEF IInv, FoundInv, DeepCallsFindTheirBinding
<1> QED
  BY Invariance, <1>1, PTL

-----------------------------------------------------------------------------
(* Dangerous bindings *)

\* Different names have different cells, and different frames have.
LEMMA CellsDiffer ==
  ASSUME NEW f \in Frames, NEW g \in Envs, NEW n \in Names, NEW m \in Names,
         TheCell(g, m) = <<f, n>>
  PROVE  g = f /\ m = n
<1>1. TheCell(g, m)[1] = g
  BY CellsOfNames
<1>2. g = f
  BY <1>1
<1>3. FormalWord(f, m) \in Words /\ Words \subseteq Nat /\ Names \cap Nat = {}
  BY WordsFit, EnvironmentAssumption DEF Words
<1>4. TheCell(g, m) = <<f, m>> \/ TheCell(g, m) = <<f, FormalWord(f, m)>>
  <2>1. f # Global
    BY EnvironmentAssumption
  <2> QED
    BY <1>2, <2>1 DEF TheCell, CellIn
<1>5. FormalWord(f, m) # n
  BY <1>3
<1>6. <<f, m>> = <<f, n>>
  <2> DEFINE w == FormalWord(f, m)
  <2>1. w # n /\ (<<f, n>> = <<f, m>> \/ <<f, n>> = <<f, w>>)
    BY <1>4, <1>5
  <2> HIDE DEF w
  <2> QED
    BY <2>1
<1> QED
  BY <1>2, <1>6

\* A definition makes the binding of the call's frame as good as new.
Undangers(p) == /\ pc[p] = "definition" /\ ~loc[p].shadowed /\ pc'[p] = "done"
                /\ HasAux(call[p].env, call[p].name) /\ call[p].env \in Frames
                /\ call[p].name \in Names /\ call[p].kind = "definition"

LEMMA DangerKept ==
  ASSUME IInv, NEW p \in Procs, Step(p), Watch,
         NEW g \in Envs, NEW n \in Names, Covered(g, n)
  PROVE  \/ Covered(g, n)'
         \/ Undangers(p) /\ g = call[p].env /\ n = call[p].name
<1> DEFINE c == TheCell(g, n)
<1>1. HasCell(g, n)' /\ TheCell(g, n)' = c /\ c \in Cells /\ cell[c].danger
  BY StepBindings, CellsOfNames DEF BindingsKept, Covered
<1>2. cell \in [Cells -> Contents] /\ Writes(p)
  BY StepWrites DEF IInv, Typed
<1>3. ASSUME cell'[c].danger
      PROVE  Covered(g, n)'
  BY <1>1, <1>3 DEF Covered
<1> HIDE DEF c
<1>4. CASE cell' = cell
  BY <1>1, <1>3, <1>4
<1>5. ASSUME NEW d \in Cells, NEW x \in Contents, cell' = [cell EXCEPT ![d] = x],
             d = c => x.danger
      PROVE  Covered(g, n)'
  BY <1>1, <1>2, <1>3, <1>5
<1>6. ASSUME pc[p] = "definition", ~loc[p].shadowed, pc'[p] = "done", c = loc[p].cell
      PROVE  Undangers(p) /\ g = call[p].env /\ n = call[p].name
  <2>1. /\ call[p].env \in Frames /\ HasAux(call[p].env, call[p].name)
        /\ c = <<call[p].env, call[p].name>> /\ call[p].name \in Names
        /\ call[p].kind = "definition"
    BY <1>6, Asked DEF IInv, MadeInv, Roles, Role, Defining
  <2>2. g = call[p].env /\ n = call[p].name
    BY <2>1, CellsDiffer DEF c
  <2> QED
    BY <1>6, <2>1, <2>2 DEF Undangers
<1>7. CASE \E d \in Cells, x \in Contents :
             /\ cell' = [cell EXCEPT ![d] = x]
             /\ \/ x.danger
                \/ x.danger = cell[d].danger
                \/ pc[p] = "definition" /\ ~loc[p].shadowed /\ pc'[p] = "done" /\ d = loc[p].cell
  <2>1. PICK d \in Cells, x \in Contents :
             /\ cell' = [cell EXCEPT ![d] = x]
             /\ \/ x.danger
                \/ x.danger = cell[d].danger
                \/ pc[p] = "definition" /\ ~loc[p].shadowed /\ pc'[p] = "done" /\ d = loc[p].cell
    BY <1>7
  <2>2. CASE d # c
    BY <1>5, <2>1, <2>2
  <2>3. CASE d = c /\ (x.danger \/ x.danger = cell[d].danger)
    BY <1>1, <1>5, <2>1, <2>3
  <2>4. CASE d = c /\ pc[p] = "definition" /\ ~loc[p].shadowed /\ pc'[p] = "done" /\ d = loc[p].cell
    BY <1>6, <2>4
  <2> QED
    BY <2>1, <2>2, <2>3, <2>4
<1>8. (cell' = cell) \/
      \E d \in Cells, x \in Contents :
             /\ cell' = [cell EXCEPT ![d] = x]
             /\ \/ x.danger
                \/ x.danger = cell[d].danger
                \/ pc[p] = "definition" /\ ~loc[p].shadowed /\ pc'[p] = "done" /\ d = loc[p].cell
  BY <1>2, ContentsTyped DEF Writes
<1> QED
  BY <1>4, <1>7, <1>8

\* Two frames of one definition each are not inside of each other.
LEMMA ApartAbove ==
  ASSUME DefinitionsApart, IInv, NEW p \in Procs, NEW q \in Procs, p # q,
         pc[p] \notin {"idle", "done"}, pc[q] \notin {"idle", "done"},
         call[p].kind = "definition", call[q].kind = "definition",
         call[p].name = call[q].name, NEW i \in Nat \ {0}, i > 1,
         call[p].env \in Frames, call[p].env = Up(call[q].env, i)
  PROVE  FALSE
<1> DEFINE e == call[q].env
<1>1. e \in Envs /\ call[p] \in Calls[p] /\ call[q] \in Calls[q]
  BY Asked DEF IInv
<1>2. i \in 1 .. Len(Chain[e]) /\ Up(e, i) = Chain[e][i] /\ DOMAIN Chain[e] = 1 .. Len(Chain[e])
  <2>1. ~(i > Len(Chain[e])) /\ Len(Chain[e]) \in Nat
    BY <1>1, Chains
  <2> QED
    BY <1>1, <2>1, Chains
<1>3. call[p].env \in ToSet(Chain[e])
  BY <1>2 DEF ToSet
<1>4. call[p].env = e
  BY <1>1, <1>3 DEF DefinitionsApart, Defines
<1> QED
  BY <1>1, <1>2, <1>4, UpperChains

LEMMA DownActions ==
  ASSUME IInv, NEW p \in Procs, Step(p), pc'[p] = "add", pc[p] \in Extending
  PROVE  ~(ExtendAux(p) \/ EnsureAux(p) \/ SearchNothing(p) \/ AddRedo(p))
<1>1. \A to : Goto(p, to) => pc'[p] = to
  BY DEF IInv, Typed, Goto, Set
<1>2. ~Restart(p)
  BY NotRestarted DEF Extending
<1>3. ~EnsureAux(p)
  <2>1. EnsureAux(p) => Restart(p) \/ Goto(p, "search")
    BY DEF EnsureAux
  <2> QED
    BY <1>1, <1>2, <2>1
<1> QED
  BY <1>1, <1>3 DEF ExtendAux, SearchNothing, AddRedo

\* What the next frame up has for the name when extend_frame comes down to a frame.
LEMMA ComesDown ==
  ASSUME IInv, NEW p \in Procs, Step(p), Watch, pc'[p] = "add"
  PROVE  /\ call' = call /\ pc[p] # "idle" /\ loc[p].i \in Nat /\ loc[p].i > 1
         /\ loc'[p].i = loc[p].i - 1
         /\ \A g \in Envs, n \in Names :
               g = Up(call[p].env, loc[p].i) /\ n = call[p].name => Covered(g, n)'
<1> DEFINE e == call[p].env
           i == loc[p].i
<1>1. /\ loc'[p].i = i - 1 /\ pc[p] \in Extending /\ i > 1 /\ i \in Nat
  BY StepMoves DEF Moves, IInv, Typed, LocTypes, Looking, OnPath, OnObject
<1>2. call' = call /\ pc[p] # "idle" /\ e \in Envs
  <2>1. ~Begin(p) /\ ~Return(p)
    BY <1>1 DEF Begin, Return, At, Extending
  <2> QED
    BY <1>1, <2>1, CallsGo, Asked DEF IInv, Extending
<1> SUFFICES ASSUME NEW g \in Envs, NEW n \in Names, g = Up(e, i), n = call[p].name
             PROVE  Covered(g, n)'
  BY <1>1, <1>2
<1>3. cell \in [Cells -> Contents] /\ TheCell(g, n) \in Cells
  BY CellsOfNames DEF IInv, Typed
<1>4. ASSUME pc[p] = "extend" => ~AtTop(p)
      PROVE  g = Here(p) /\ g \in Frames /\ g # Global /\ ~AtTop(p)
  BY <1>1, <1>4, Standing, EnvironmentAssumption DEF Extending, IInv
<1>5. AtTop(p) => g = Global
  BY <1>1, <1>2, Chains DEF AtTop
<1>6. ASSUME HasCell(g, n), DefCell(p) = TheCell(g, n), cell'[DefCell(p)].danger
      PROVE  Covered(g, n)'
  <2>1. HasCell(g, n)' /\ TheCell(g, n)' = TheCell(g, n)
    BY <1>6, StepBindings DEF BindingsKept
  <2> DEFINE c == TheCell(g, n)
  <2>2. cell'[c].danger
    BY <1>6
  <2> HIDE DEF c
  <2>3. TheCell(g, n)' = c
    BY <2>1 DEF c
  <2> QED
    BY <2>1, <2>2, <2>3 DEF Covered
<1>7. ~Restart(p) /\ ~Interrupted(p) /\ ~Goto(p, "redefine") /\ ~Goto(p, "recache")
      /\ ~IsOriginal(p)
  <2>1. ~Restart(p) /\ ~Interrupted(p)
    BY NotRestarted DEF Extending
  <2>2. ~Goto(p, "redefine") /\ ~Goto(p, "recache")
    BY DEF Goto, Set, IInv, Typed
  <2> QED
    BY <1>1, <2>1, <2>2 DEF IsOriginal
<1>8. ASSUME Existing(p), HasCell(g, n), DefCell(p) = TheCell(g, n)
      PROVE  Covered(g, n)'
  <2>1. Write(DefCell(p), Dangerous(cell[DefCell(p)].val))
    BY <1>7, <1>8 DEF Existing, Dangerize
  <2>2. cell'[DefCell(p)].danger
    BY <1>3, <1>8, <2>1, ContentsTyped DEF Write, Set
  <2> QED
    BY <1>6, <1>8, <2>2
<1>9. CASE ExtendBound(p)
  <2>1. pc[p] = "extend" /\ (~AtTop(p) => IsFormal(Here(p), n)) /\ Existing(p)
    BY <1>9 DEF ExtendBound, At
  <2>2. CASE AtTop(p)
    BY <1>5, <1>8, <2>1, <2>2 DEF HasCell, DefCell, TheCell
  <2>3. CASE ~AtTop(p)
    <3>1. g = Here(p) /\ g # Global
      BY <1>4, <2>3
    <3> QED
      BY <1>8, <2>1, <2>3, <3>1 DEF HasCell, DefCell, TheCell
  <2> QED
    BY <2>2, <2>3
<1>10. ASSUME pc[p] = "search", Listed(p)
       PROVE  HasCell(g, n) /\ DefCell(p) = TheCell(g, n)
  <2>1. g = Here(p) /\ g # Global /\ ~AtTop(p)
    BY <1>4, <1>10
  <2>2. HasAux(g, n)
    BY <1>10, <2>1, ListedIsThere
  <2> QED
    BY <2>1, <2>2 DEF HasCell, DefCell, TheCell
<1>11. CASE SearchReal(p)
  BY <1>8, <1>10, <1>11 DEF SearchReal, At
<1>12. CASE SearchPlaceholder(p)
  <2>1. pc[p] = "search" /\ Listed(p) /\ cell[DefCell(p)] = Placeholder /\ cell' = cell
    BY <1>12 DEF SearchPlaceholder, At, shared
  <2>2. cell'[DefCell(p)].danger
    BY <2>1, ContentsTyped
  <2> QED
    BY <1>6, <1>10, <2>1, <2>2
<1>13. CASE AddBinding(p)
  <2>1. /\ pc[p] = "add" /\ Write(<<Here(p), n>>, Placeholder)
        /\ aux' = [aux EXCEPT ![Here(p)] = [room |-> RoomNeeded(Here(p)),
                                            names |-> Append(@.names, n)]]
    BY <1>7, <1>13 DEF AddBinding, At
  <2>2. g = Here(p) /\ g \in Frames /\ g # Global
    BY <1>4, <2>1
  <2>3. HasAux(g, n)'
    <3>1. aux[g].names \in Seq(Names) /\ aux'[g].names = Append(aux[g].names, n)
      BY <2>1, <2>2 DEF IInv, Typed, AuxTypes
    <3> DEFINE s == aux[g].names
               t == Append(s, n)
    <3>2. s \in Seq(Names) /\ n \in Names
      BY <3>1
    <3> HIDE DEF s
    <3>3. Len(s) \in Nat /\ Len(t) = Len(s) + 1 /\ t[Len(s) + 1] = n /\ t \in Seq(Names)
      BY <3>2
    <3>4. Len(s) + 1 \in 1 .. Len(t)
      BY <3>3
    <3>5. \E k \in 1 .. Len(aux'[g].names) : aux'[g].names[k] = n
      BY <3>1, <3>3, <3>4 DEF s
    <3> QED
      BY <2>2, <3>5, AuxPlacesNext, StepTyped
  <2>4. cell'[<<g, n>>].danger
    BY <1>3, <2>1, <2>2, CellsOfNames, ContentsTyped DEF Write, Set
  <2>5. HasCell(g, n)' /\ TheCell(g, n)' = <<g, n>>
    BY <2>2, <2>3 DEF HasCell, TheCell, CellIn
  <2> QED
    BY <2>4, <2>5 DEF Covered
<1> QED
  BY <1>1, <1>9, <1>11, <1>12, <1>13, StepExtending, DownActions

LEMMA Parents ==
  ASSUME NEW f \in Frames
  PROVE  /\ Parent(f) \in Envs /\ Parent(f) # f
         /\ \A e \in Envs : \A i \in 1 .. Len(Chain[e]) : f = Up(e, i) => Parent(f) = Up(e, i + 1)
<1>1. f \in Envs /\ Up(f, 1) = f /\ Len(Chain[f]) \in Nat /\ Len(Chain[f]) > 0
  BY Chains DEF Envs
<1>2. Parent(f) = Up(f, 2)
  BY <1>1, UpperChains
<1>3. Up(f, 2) # f
  <2>1. CASE 2 \in 1 .. Len(Chain[f])
    BY <1>1, <2>1, UpperChains
  <2>2. CASE 2 > Len(Chain[f])
    BY <1>1, <2>2, Chains, EnvironmentAssumption
  <2> QED
    BY <1>1, <2>1, <2>2
<1>4. Up(f, 2) \in Envs
  BY <1>1, Chains
<1>5. \A e \in Envs : \A i \in 1 .. Len(Chain[e]) : Parent(Up(e, i)) = Up(e, i + 1)
  BY UpperChains
<1> QED
  BY <1>2, <1>3, <1>4, <1>5

\* Auxiliary bindings stay below something dangerous.
LEMMA StepOfLadder ==
  ASSUME IInv, LadderInv, NEW p \in Procs, Step(p), Watch
  PROVE  Ladder'
<1> SUFFICES ASSUME NEW f \in Frames, NEW n \in Names, HasAux(f, n)'
             PROVE  Covered(Parent(f), n)'
  BY DEF Ladder
<1>1. Parent(f) \in Envs
  BY Parents
<1>2. CASE HasAux(f, n)
  <2>1. Covered(Parent(f), n)
    BY <1>2 DEF LadderInv, Ladder
  <2>2. ~(Undangers(p) /\ Parent(f) = call[p].env /\ n = call[p].name)
    BY <1>2 DEF LadderInv, BelowDefined, Undangers
  <2> QED
    BY <1>1, <2>1, <2>2, DangerKept
<1>3. CASE ~HasAux(f, n)
  <2>1. AuxAdded(p, f) /\ n = call[p].name
    BY <1>3, StepBindings DEF BindingsKept
  <2>2. pc[p] = "add" /\ f = Here(p)
    BY <2>1 DEF AuxAdded
  <2>3. /\ f = Up(call[p].env, loc[p].i) /\ loc[p].i \in 1 .. Len(Chain[call[p].env])
        /\ call[p].env \in Envs
    BY <2>2, Standing, Asked DEF IInv
  <2>4. Parent(f) = Up(call[p].env, loc[p].i + 1)
    BY <2>3, Parents
  <2>5. Covered(Parent(f), n)
    BY <1>1, <2>1, <2>2, <2>4 DEF LadderInv, AboveAdded
  <2>6. ~Undangers(p)
    BY <2>2 DEF Undangers
  <2> QED
    BY <1>1, <2>5, <2>6, DangerKept
<1> QED
  BY <1>2, <1>3

\* extend_frame still has something dangerous above.
LEMMA StepAboveAdded ==
  ASSUME DefinitionsApart, IInv, LadderInv, NEW p \in Procs, Step(p), Watch, NEW q \in Procs
  PROVE  AboveAdded(q)'
<1> SUFFICES ASSUME pc'[q] = "add", NEW g \in Envs, NEW n \in Names,
                    g = Up(call'[q].env, loc'[q].i + 1), n = call'[q].name
             PROVE  Covered(g, n)'
  BY DEF AboveAdded
<1>1. CASE q = p
  <2>1. call' = call /\ loc[p].i \in Nat /\ loc'[p].i = loc[p].i - 1
        /\ (g = Up(call[p].env, loc[p].i) /\ n = call[p].name => Covered(g, n)')
    BY <1>1, ComesDown
  <2>2. loc'[p].i + 1 = loc[p].i
    BY <2>1
  <2> QED
    BY <1>1, <2>1, <2>2
<1>2. CASE q # p
  <2> DEFINE i == loc[q].i
  <2>1. pc[q] = "add" /\ call'[q] = call[q] /\ loc'[q] = loc[q]
    BY <1>2, StepOthers DEF Others, IInv
  <2>2. i \in Nat \ {0} /\ call[q].env \in Envs /\ call[q].kind = "definition"
    BY <2>1, Asked DEF IInv, Typed, LocTypes, Roles, Role, Defining, Extending
  <2>3. Covered(g, n) /\ g = Up(call[q].env, i + 1) /\ n = call[q].name
    BY <2>1 DEF LadderInv, AboveAdded
  <2>4. ~(Undangers(p) /\ g = call[p].env /\ n = call[p].name)
    <3> SUFFICES ASSUME Undangers(p), g = call[p].env, n = call[p].name
                 PROVE  FALSE
      OBVIOUS
    <3>1. pc[p] = "definition" /\ call[p].env \in Frames /\ call[p].kind = "definition"
      BY DEF Undangers
    <3>2. i + 1 \in Nat \ {0} /\ i + 1 > 1
      BY <2>2
    <3> QED
      BY <1>2, <2>1, <2>2, <2>3, <3>1, <3>2, ApartAbove
  <2> QED
    BY <2>3, <2>4, DangerKept
<1> QED
  BY <1>1, <1>2

\* What is to be defined still has nothing below.
LEMMA StepBelowDefined ==
  ASSUME DefinitionsApart, IInv, LadderInv, NEW p \in Procs, Step(p), Watch, NEW q \in Procs
  PROVE  BelowDefined(q)'
<1> SUFFICES ASSUME pc'[q] \in {"recache", "definition"}, ~loc'[q].shadowed,
                    NEW f \in Frames, NEW n \in Names,
                    Parent(f) = call'[q].env, n = call'[q].name, HasAux(f, n)'
             PROVE  FALSE
  BY DEF BelowDefined
<1>1. ASSUME ~HasAux(f, n)
      PROVE  /\ AuxAdded(p, f) /\ n = call[p].name /\ pc[p] = "add" /\ f = Here(p)
             /\ loc[p].i \in 1 .. Len(Chain[call[p].env]) /\ f = Up(call[p].env, loc[p].i)
             /\ call[p].env \in Envs /\ call[p].kind = "definition"
             /\ Parent(f) = Up(call[p].env, loc[p].i + 1)
  <2>1. AuxAdded(p, f) /\ n = call[p].name
    BY <1>1, StepBindings DEF BindingsKept
  <2>2. pc[p] = "add" /\ f = Here(p)
    BY <2>1 DEF AuxAdded
  <2>3. /\ f = Up(call[p].env, loc[p].i) /\ loc[p].i \in 1 .. Len(Chain[call[p].env])
        /\ call[p].env \in Envs
    BY <2>2, Standing, Asked DEF IInv
  <2> QED
    BY <2>1, <2>2, <2>3, Parents, NothingThere
<1>2. CASE q # p
  <2>1. pc'[q] = pc[q] /\ call'[q] = call[q] /\ loc'[q] = loc[q]
    BY <1>2, StepOthers DEF Others, IInv
  <2>2. ~HasAux(f, n)
    BY <2>1 DEF LadderInv, BelowDefined
  <2>3. /\ call[q].env \in Frames /\ call[q].kind = "definition"
        /\ pc[q] \notin {"idle", "done"}
    BY <2>1 DEF IInv, MadeInv, Roles, Role, Defining
  <2>4. loc[p].i + 1 \in Nat \ {0} /\ loc[p].i + 1 > 1 /\ pc[p] \notin {"idle", "done"}
    BY <1>1, <2>2
  <2>5. /\ call[q].env = Up(call[p].env, loc[p].i + 1) /\ call[q].name = call[p].name
        /\ call[p].kind = "definition"
    BY <1>1, <2>1, <2>2
  <2> QED
    BY <1>2, <2>3, <2>4, <2>5, ApartAbove
<1>3. CASE q = p
  <2>1. ~Restart(p) /\ ~Interrupted(p) /\ pc \in [Procs -> Labels] /\ loc \in [Procs -> LocTypes]
    BY <1>3, StepToMaking DEF IInv, Typed
  <2>2. \A to : Goto(p, to) => pc'[p] = to
    BY <2>1 DEF Goto, Set
  <2>3. CASE Recache(p)
    <3>1. pc[p] = "recache" /\ aux' = aux /\ call' = call /\ loc' = loc
      BY <2>3 DEF Recache, At, shared
    <3> QED
      BY <1>3, <3>1 DEF LadderInv, BelowDefined, HasAux
  <2>4. CASE SearchPlaceholder(p)
    <3>1. IsOriginal(p)
      BY <1>3, <2>2, <2>4 DEF SearchPlaceholder, Down
    <3>2. loc'[p].shadowed
      BY <2>1, <2>4, <3>1 DEF SearchPlaceholder, Local, Set, LocTypes
    <3> QED
      BY <1>3, <3>2
  <2>5. CASE AddBinding(p)
    <3>1. IsOriginal(p) /\ call' = call /\ pc[p] = "add"
      BY <1>3, <2>1, <2>2, <2>5 DEF AddBinding, Down, At
    <3>2. AuxAdded(p, Here(p)) /\ Here(p) \in Frames
      <4>1. Here(p) \in Frames
        BY <3>1, Standing DEF IInv
      <4>2. ~Changed(p) /\ aux' = [aux EXCEPT ![Here(p)] =
               [room |-> RoomNeeded(Here(p)), names |-> Append(@.names, call[p].name)]]
        BY <2>1, <2>5 DEF AddBinding
      <4> QED
        BY <3>1, <4>1, <4>2 DEF AuxAdded, IInv, Typed
    <3>3. Here(p) = call[p].env
      BY <3>1, Standing, Chains, Asked DEF IInv, IsOriginal
    <3>4. CASE HasAux(f, n)
      <4>1. HasCell(call[p].env, n) /\ n = call[p].name
        BY <1>3, <3>1, <3>4 DEF LadderInv, Ladder, Covered
      <4> QED
        BY <3>2, <3>3, <4>1, NothingThere, EnvironmentAssumption DEF HasCell
    <3>5. CASE ~HasAux(f, n)
      BY <1>1, <1>3, <3>1, <3>3, <3>5, Parents
    <3> QED
      BY <3>4, <3>5
  <2> QED
    BY <1>3, <2>3, <2>4, <2>5, StepToMaking
<1> QED
  BY <1>2, <1>3

LEMMA InitLadderInv == Init => LadderInv
<1> SUFFICES ASSUME Init
             PROVE  LadderInv
  OBVIOUS
<1>1. \A f \in Frames, n \in Names : ~HasAux(f, n)
  BY DEF Init, HasAux, ToSet
<1>2. \A p \in Procs : pc[p] = "idle"
  BY DEF Init
<1> QED
  BY <1>1, <1>2 DEF LadderInv, Ladder, AboveAdded, BelowDefined

LEMMA StutterLadderInv == LadderInv /\ UNCHANGED vars => LadderInv'
BY DEF LadderInv, Ladder, AboveAdded, BelowDefined, Covered, HasCell, HasAux, IsFormal, TheCell,
       CellIn, vars, shared, own

\* While definitions have been apart, there is a dangerous cell above an auxiliary
\* binding.
ApartInv == apart => DefinitionsApart /\ LadderInv

THEOREM LadderAlways == Spec => []ApartInv
<1>1. Init => ApartInv
  BY InitLadderInv DEF Init, ApartInv, DefinitionsApart, Defines
<1>2. IInv /\ ApartInv /\ [Next]_vars => ApartInv'
  <2> SUFFICES ASSUME IInv, ApartInv, [Next]_vars, apart'
               PROVE  DefinitionsApart' /\ LadderInv'
    BY DEF ApartInv
  <2>1. ASSUME NEW p \in Procs, Step(p), Watch
        PROVE  DefinitionsApart' /\ LadderInv'
    <3>1. apart /\ DefinitionsApart'
      BY <2>1 DEF Watch
    <3> QED
      BY <2>1, <3>1, StepOfLadder, StepAboveAdded, StepBelowDefined DEF ApartInv, LadderInv
  <2>2. CASE UNCHANGED vars
    <3>1. apart /\ DefinitionsApart'
      BY <2>2 DEF ApartInv, DefinitionsApart, Defines, vars, own, history
    <3> QED
      BY <2>2, <3>1, StutterLadderInv DEF ApartInv
  <2> QED
    BY <2>1, <2>2 DEF Next, AllDone
<1> QED
  BY <1>1, <1>2, Invariance, PTL DEF Spec

-----------------------------------------------------------------------------
(* What the ladder is good for *)

LEMMA Inside ==
  ASSUME NEW e \in Envs, NEW i \in 1 .. Len(Chain[e])
  PROVE  Up(e, i) = Chain[e][i] /\ Up(e, i) \in Frames /\ Up(e, i) # Global
<1>1. Up(e, i) = Chain[e][i] /\ Chain[e][i] \in Frames /\ Global \notin Frames
  BY Chains
<1> QED
  BY <1>1

\* Who is above a dangerous cell, and finds no parameter, is above a dangerous one.
LEMMA Climb ==
  ASSUME Ladder, NEW e \in Envs, NEW n \in Names,
         NEW a \in Nat \ {0}, NEW b \in Nat, a <= b, b <= Len(Chain[e]) + 1,
         Covered(Up(e, a), n), \A j \in a .. b - 1 : ~IsFormal(Chain[e][j], n)
  PROVE  Covered(Up(e, b), n)
<1> DEFINE S == {j \in a .. b : ~Covered(Up(e, j), n)}
           m == Min(S)
<1> SUFFICES ASSUME b \in S
             PROVE  FALSE
  OBVIOUS
<1>1. m \in S /\ \A j \in S : m <= j
  <2>1. S \in SUBSET Nat /\ S # {}
    OBVIOUS
  <2> HIDE DEF S
  <2> QED
    BY <2>1, LeastNumber
<1>2. m \in a .. b /\ ~Covered(Up(e, m), n) /\ \A j \in a .. b : ~Covered(Up(e, j), n) => m <= j
  BY <1>1
<1> HIDE DEF m
<1>3. m # a
  BY <1>2
<1> DEFINE i == m - 1
<1>4. i \in a .. b - 1 /\ i \in Nat /\ i < m /\ i + 1 = m /\ i \in a .. b /\ ~(m <= i)
  BY <1>2, <1>3
<1>5. Covered(Up(e, i), n)
  BY <1>2, <1>4
<1>6. i \in 1 .. Len(Chain[e])
  BY <1>4, Chains
<1> HIDE DEF i
<1>7. Up(e, i) = Chain[e][i] /\ Up(e, i) \in Frames /\ Up(e, i) # Global
  BY <1>6, Inside
<1>8. HasAux(Up(e, i), n)
  BY <1>4, <1>5, <1>7 DEF Covered, HasCell
<1>9. Covered(Parent(Up(e, i)), n)
  BY <1>7, <1>8 DEF Ladder
<1> QED
  BY <1>2, <1>4, <1>6, <1>9, UpperChains

LEMMA LadderCovers == IInv /\ Ladder => ShadowedIsDangerous
<1> SUFFICES ASSUME IInv, Ladder, NEW f \in Frames, NEW n \in Names, HasAux(f, n)
             PROVE  cell[Visible(Parent(f), n)].danger
  BY DEF ShadowedIsDangerous
<1> DEFINE e == Parent(f)
<1>1. e \in Envs /\ Covered(e, n)
  BY Parents DEF Ladder
<1> HIDE DEF e
<1>2. PICK k \in 1 .. Len(Chain[e]) + 1 :
          /\ Visible(e, n) = TheCell(Up(e, k), n)
          /\ \A j \in 1 .. k - 1 : ~Binds(Chain[e][j], n)
  BY <1>1, VisibleFinds DEF Sees
<1>3. Up(e, 1) = e /\ k \in Nat /\ 1 <= k /\ k <= Len(Chain[e]) + 1
  BY <1>1, Chains
<1>4. \A j \in 1 .. k - 1 : ~IsFormal(Chain[e][j], n)
  BY <1>2 DEF Binds
<1>5. Covered(Up(e, k), n)
  BY <1>1, <1>3, <1>4, Climb
<1> QED
  BY <1>2, <1>5 DEF Covered, e

\* A path leads to what a search finds, or to something dangerous.
LEMMA PathCellIsRight ==
  ASSUME IInv, Ladder, NEW e \in Envs, NEW n \in Names, NEW c, PathCell(e, n, c)
  PROVE  c = Visible(e, n) \/ cell[c].danger
<1>1. PICK k \in 1 .. Len(Chain[e]) + 1 :
          Past(e, k - 1, n) /\ HasCell(Up(e, k), n) /\ c = TheCell(Up(e, k), n)
  BY DEF PathCell
<1>2. PICK k0 \in 1 .. Len(Chain[e]) + 1 :
          /\ Ends(Up(e, k0), n) /\ Visible(e, n) = TheCell(Up(e, k0), n)
          /\ \A j \in 1 .. k0 - 1 : ~Binds(Chain[e][j], n)
  BY VisibleFinds DEF Sees
<1>3. Len(Chain[e]) \in Nat /\ k \in Nat /\ k0 \in Nat
  BY Chains
<1>4. CASE k = k0
  BY <1>1, <1>2, <1>4
<1>5. CASE k < k0
  <2>1. k \in 1 .. Len(Chain[e]) /\ k \in 1 .. k0 - 1
    BY <1>3, <1>5
  <2>2. Up(e, k) = Chain[e][k] /\ Up(e, k) \in Frames /\ Up(e, k) # Global
    BY <2>1, Inside
  <2>3. ~Binds(Up(e, k), n)
    BY <1>2, <2>1, <2>2
  <2>4. HasAux(Up(e, k), n) /\ cell[<<Up(e, k), n>>] = Placeholder
    BY <1>1, <2>2, <2>3 DEF HasCell, Binds
  <2>5. c = <<Up(e, k), n>>
    BY <1>1, <2>2, <2>4 DEF TheCell, CellIn
  <2> QED
    BY <2>4, <2>5 DEF Placeholder, Dangerous
<1>6. CASE k0 < k
  <2>1. k0 \in 1 .. Len(Chain[e]) /\ k0 \in 1 .. k - 1 /\ k0 + 1 \in Nat \ {0} /\ k0 + 1 <= k
    BY <1>3, <1>6
  <2>2. Up(e, k0) = Chain[e][k0] /\ Up(e, k0) \in Frames /\ Up(e, k0) # Global
    BY <2>1, Inside
  <2>3. HasAux(Up(e, k0), n)
    BY <1>1, <1>2, <2>1, <2>2 DEF Ends, Binds, Past
  <2>4. Covered(Up(e, k0 + 1), n)
    BY <2>1, <2>2, <2>3, UpperChains DEF Ladder
  <2>5. \A j \in k0 + 1 .. k - 1 : ~IsFormal(Chain[e][j], n)
    BY <1>1, <1>3 DEF Past
  <2>6. Covered(Up(e, k), n)
    BY <1>3, <2>1, <2>4, <2>5, Climb
  <2> QED
    BY <1>1, <2>6 DEF Covered
<1> QED
  BY <1>3, <1>4, <1>5, <1>6

\* Where the path in a variable object leads.
LEMMA PathLeads ==
  ASSUME IInv, NEW e \in Frames, NEW n \in Names, NEW w \in WordTypes, NEW off \in Nat,
         PathIsRight(w, Code[e], n),
         w[1] = "formal" => off = FormalWord(Chain[e][w[2] + 1], n),
         NEW c \in Leads(w, off, e, n)
  PROVE  PathCell(e, n, c)
<1> DEFINE k == w[2] + 1
<1>0. e \in Envs /\ Len(Chain[e]) \in Nat /\ DOMAIN Chain[e] = 1 .. Len(Chain[e])
      /\ Up(e, 1) = e /\ e # Global
  BY Chains, EnvironmentAssumption DEF Envs
<1>1. CASE w[1] = "local"
  <2>1. c = <<e, FormalWord(e, n)>> /\ IsFormal(e, n)
    BY <1>1 DEF Leads, PathIsRight
  <2>2. ~HasAux(e, n)
    BY <2>1 DEF IInv, AuxInv
  <2>3. HasCell(Up(e, 1), n) /\ c = TheCell(Up(e, 1), n)
    BY <1>0, <2>1, <2>2 DEF HasCell, TheCell, CellIn
  <2>4. Past(e, 1 - 1, n)
    BY DEF Past
  <2>5. 1 \in 1 .. Len(Chain[e]) + 1
    BY <1>0
  <2> QED
    BY <2>3, <2>4, <2>5 DEF PathCell
<1>2. CASE w[1] = "global"
  <2> DEFINE m == Len(Chain[e]) + 1
  <2>1. c = <<Global, n>> /\ Past(e, Len(Chain[e]), n)
    BY <1>2 DEF Leads, PathIsRight
  <2>2. m \in 1 .. Len(Chain[e]) + 1 /\ m - 1 = Len(Chain[e]) /\ Up(e, m) = Global
    BY <1>0, Chains
  <2>3. HasCell(Up(e, m), n) /\ c = TheCell(Up(e, m), n)
    BY <2>1, <2>2 DEF HasCell, TheCell
  <2>4. Past(e, m - 1, n)
    BY <2>1, <2>2
  <2> HIDE DEF m
  <2> QED
    BY <2>2, <2>3, <2>4 DEF PathCell
<1>3. ASSUME w[1] \in {"formal", "aux"}, k \in DOMAIN Chain[e], Past(e, w[2], n),
             HasCell(Chain[e][k], n), c = CellIn(Chain[e][k], n)
      PROVE  PathCell(e, n, c)
  <2>1. k \in 1 .. Len(Chain[e]) + 1 /\ w[2] \in Nat
    BY <1>0, <1>3 DEF WordTypes, Uncompiled
  <2>2. Up(e, k) = Chain[e][k] /\ Up(e, k) # Global /\ k - 1 = w[2]
    BY <1>0, <1>3, <2>1, Chains, EnvironmentAssumption
  <2>3. HasCell(Up(e, k), n) /\ c = TheCell(Up(e, k), n) /\ Past(e, k - 1, n)
    BY <1>3, <2>2 DEF TheCell
  <2> HIDE DEF k
  <2> QED
    BY <2>1, <2>3 DEF PathCell
<1>4. CASE w[1] = "formal"
  <2>1. /\ k \in DOMAIN Chain[e] /\ Past(e, w[2], n) /\ IsFormal(Chain[e][k], n)
        /\ c = <<Chain[e][k], FormalWord(Chain[e][k], n)>>
    BY <1>4 DEF Leads, PathIsRight
  <2>2. ~HasAux(Chain[e][k], n)
    BY <1>0, <2>1, Chains DEF IInv, AuxInv
  <2> QED
    BY <1>3, <1>4, <2>1, <2>2 DEF HasCell, CellIn
<1>5. CASE w[1] = "aux"
  <2> DEFINE f == Chain[e][k]
             i == off - AuxFirst + 1
  <2>1. k \in DOMAIN Chain[e] /\ Past(e, k, n) /\ c = <<f, n>> /\ n \in AuxEntry(f, off)
    BY <1>5 DEF Leads, PathIsRight
  <2>2. off >= AuxFirst /\ i <= Len(aux[f].names) /\ n = aux[f].names[i]
    BY <2>1 DEF AuxEntry
  <2>3. f \in Frames /\ w[2] \in Nat
    BY <1>0, <2>1, Chains DEF WordTypes, Uncompiled
  <2>4. i \in 1 .. Len(aux[f].names)
    BY <2>2, <2>3, AuxPlaces DEF AuxFirst, IInv
  <2>5. HasAux(f, n)
    BY <2>2, <2>3, <2>4, AuxPlaces DEF IInv
  <2>6. Past(e, w[2], n)
    BY <2>1, <2>3 DEF Past
  <2> QED
    BY <1>3, <1>5, <2>1, <2>5, <2>6 DEF HasCell, CellIn
<1>6. CASE w[1] \notin {"local", "global", "formal", "aux"}
  BY <1>6 DEF Leads
<1> QED
  BY <1>1, <1>2, <1>4, <1>5, <1>6

\* Until two processors define a name at once in frames of which one is in the
\* other, a binding made by DEFINE has made the one it shadows dangerous.
THEOREM ShadowedIsDangerousAlways == Spec => []ShadowedIsDangerous
<1>1. IInv /\ ApartInv => ShadowedIsDangerous
  BY LadderCovers DEF ApartInv, LadderInv, ShadowedIsDangerous
<1> QED
  BY <1>1, Invariance, LadderAlways, PTL

LEMMA PathsLeadRight == IInv /\ Ladder => PathsAreCurrent
<1> SUFFICES ASSUME IInv, Ladder, NEW e \in Frames, NEW n \in Names,
                    holder[<<Code[e], n>>] = Free,
                    NEW c \in Leads(hunk[<<Code[e], n>>].word, hunk[<<Code[e], n>>].off, e, n)
             PROVE  c = Visible(e, n) \/ cell[c].danger
  BY DEF PathsAreCurrent
<1> DEFINE h == <<Code[e], n>>
           w == hunk[h].word
           off == hunk[h].off
<1>1. Code[e] \in Lambdas /\ h \in Hunks /\ e \in Envs
  BY DEF Lambdas, Hunks, Envs
<1>2. w \in WordTypes /\ off \in Nat
  BY <1>1, EnvironmentAssumption DEF IInv, Typed, HunkTypes, Words
<1>3. PathIsRight(w, Code[e], n) /\ OffsetIsRight(w, off, Code[e], n)
  BY <1>1 DEF IInv, HunkInv
<1>4. w[1] = "formal" => off = FormalWord(Chain[e][w[2] + 1], n)
  BY <1>3 DEF OffsetIsRight
<1>5. c \in Leads(w, off, e, n)
  OBVIOUS
<1> HIDE DEF w, off
<1> QED
  BY <1>1, <1>2, <1>3, <1>4, <1>5, PathLeads, PathCellIsRight

\* Under the same condition, a variable object that nobody is changing leads,
\* in every frame of its lambda, to the binding that a full search would find,
\* or to a dangerous one.
THEOREM PathsAreCurrentAlways == Spec => []PathsAreCurrent
<1>1. IInv /\ ApartInv => PathsAreCurrent
  BY PathsLeadRight DEF ApartInv, LadderInv, PathsAreCurrent
<1> QED
  BY <1>1, Invariance, LadderAlways, PTL

-----------------------------------------------------------------------------
(* The ends of calls *)

\* A path stays one.
LEMMA PathCellKept ==
  ASSUME IInv, NEW p \in Procs, Step(p), Watch,
         NEW e \in Envs, NEW n \in Names, NEW c, PathCell(e, n, c)
  PROVE  PathCell(e, n, c)'
<1>1. PICK k \in 1 .. Len(Chain[e]) + 1 :
          Past(e, k - 1, n) /\ HasCell(Up(e, k), n) /\ c = TheCell(Up(e, k), n)
  BY DEF PathCell
<1> DEFINE g == Up(e, k)
<1>2. g \in Envs
  BY Chains
<1>3. HasCell(g, n)' /\ TheCell(g, n)' = c
  <2> HIDE DEF g
  <2>1. HasCell(g, n) /\ c = TheCell(g, n)
    BY <1>1 DEF g
  <2> QED
    BY <1>2, <2>1, StepBindings DEF BindingsKept
<1> QED
  BY <1>1, <1>3 DEF PathCell

\* The macro lookup comes to its end along a path.
LEMMA ComesAlongPath ==
  ASSUME IInv, NoTornReads, NEW p \in Procs, ReadType(p) \/ Verify(p), pc'[p] = "end"
  PROVE  /\ call' = call
         /\ PathCell(call[p].env, call[p].name, loc'[p].cell)
<1> DEFINE e == call[p].env
           n == call[p].name
<1>1. /\ pc[p] \in {"type", "verify"} /\ call' = call
      /\ loc \in [Procs -> LocTypes] /\ loc[p] \in LocTypes /\ pc \in [Procs -> Labels]
  BY DEF ReadType, Verify, At, shared, IInv, Typed
<1>2. call[p].compiles /\ e \in Frames /\ n \in Names /\ Hunk(p) \in Hunks
  BY <1>1, Asked DEF IInv, Roles, Role, OnPath
<1>3. \A to : Goto(p, to) => to = "end"
  BY <1>1 DEF Goto, Set
<1>4. \A c : Local(p, [loc[p] EXCEPT !.cell = c]) => loc'[p].cell = c
  BY <1>1 DEF Local, Set, LocTypes
<1>5. CASE ReadType(p)
  <2> DEFINE w == hunk[Hunk(p)].word
  <2>1. w \in WordTypes /\ PathIsRight(w, Code[e], n) /\ 0 \in Nat
    <3>1. Code[e] \in Lambdas /\ Hunk(p) = <<Code[e], n>>
      BY <1>2 DEF Lambdas, Hunk
    <3> QED
      BY <1>2, <3>1 DEF IInv, HunkInv, Typed, HunkTypes
  <2>2. \/ w[1] = "global" /\ loc'[p].cell = <<Global, n>>
        \/ w[1] = "local" /\ loc'[p].cell = <<e, w[2]>>
    BY <1>3, <1>4, <1>5 DEF ReadType
  <2> HIDE DEF w
  <2>3. loc'[p].cell \in Leads(w, 0, e, n) /\ w[1] # "formal"
    BY <2>2 DEF Leads
  <2> QED
    BY <1>1, <1>2, <2>1, <2>3, PathLeads
<1>6. CASE Verify(p)
  <2> DEFINE w == loc[p].word
             off == loc[p].off
             f == Chain[e][w[2] + 1]
  <2>1. w \in WordTypes /\ PathIsRight(w, Code[e], n) /\ off \in Nat /\ pc[p] = "verify"
    <3>1. pc[p] = "verify"
      BY <1>6 DEF Verify, At
    <3>2. w \in WordTypes /\ off \in Words
      BY <1>1 DEF LocTypes
    <3>3. Words \subseteq Nat
      BY WordsFit, <1>2 DEF Words
    <3>4. PathIsRight(w, Code[e], n)
      BY <3>1 DEF IInv, WordInv
    <3> QED
      BY <3>1, <3>2, <3>3, <3>4
  <2>2. \/ w[1] = "formal" /\ hunk[Hunk(p)].word[1] = "formal" /\ loc'[p].cell = <<f, off>>
        \/ w[1] = "aux" /\ n \in AuxEntry(f, off) /\ loc'[p].cell = <<f, n>>
    BY <1>3, <1>4, <1>6 DEF Verify
  <2>3. w[1] = "formal" => off = FormalWord(f, n)
    BY <2>1, <2>2 DEF NoTornReads
  <2> HIDE DEF w, off
  <2>4. loc'[p].cell \in Leads(w, off, e, n)
    BY <2>2 DEF Leads
  <2> QED
    BY <1>1, <1>2, <2>1, <2>3, <2>4, PathLeads
<1> QED
  BY <1>1, <1>5, <1>6

LEMMA StepOnThePath ==
  ASSUME IInv, EndInv, NoTornReads, NEW p \in Procs, Step(p), Watch, NEW q \in Procs
  PROVE  OnThePath(q)'
<1> SUFFICES ASSUME pc'[q] = "end", NEW e \in Envs, NEW n \in Names, NEW c \in CellTypes,
                    e = call'[q].env, n = call'[q].name, c = loc'[q].cell
             PROVE  PathCell(e, n, c)'
  BY DEF OnThePath
<1>1. CASE q # p
  <2>1. pc[q] = "end" /\ call'[q] = call[q] /\ loc'[q] = loc[q]
    BY <1>1, StepOthers DEF Others, IInv
  <2>2. PathCell(e, n, c)
    BY <2>1 DEF EndInv, OnThePath
  <2> QED
    BY <2>2, PathCellKept
<1>2. CASE q = p
  <2>1. ReadType(p) \/ Verify(p)
    BY <1>2, StepComesFrom DEF ComesFrom
  <2>2. call' = call /\ PathCell(call[p].env, call[p].name, loc'[p].cell)
    BY <1>2, <2>1, ComesAlongPath
  <2>3. PathCell(e, n, c)
    BY <1>2, <2>2
  <2> QED
    BY <2>3, PathCellKept
<1> QED
  BY <1>1, <1>2

\* A value that is fetched or stored without danger is that of the binding.
LEMMA EndsWithoutDanger ==
  ASSUME IInv, Ladder, EndInv, NEW p \in Procs, pc[p] = "end", ~cell[loc[p].cell].danger
  PROVE  HasFound(p)
<1> DEFINE e == call[p].env
           n == call[p].name
           c == loc[p].cell
<1>1. e \in Envs /\ n \in Names
  BY Asked DEF IInv
<1>2. PathCell(e, n, c)
  <2>1. c \in CellTypes
    BY DEF IInv, Typed, LocTypes, CellTypes
  <2> QED
    BY <1>1, <2>1 DEF EndInv, OnThePath
<1>3. c = Visible(e, n)
  BY <1>1, <1>2, PathCellIsRight
<1>4. c \in seen[p]
  BY <1>3 DEF IInv, SeenInv, Meant
<1> QED
  BY <1>2, <1>4 DEF HasFound, PathCell

LEMMA StepEnd ==
  ASSUME IInv, Ladder, EndInv, NoTornReads, NEW p \in Procs, Step(p), Watch
  PROVE  EndInv'
<1> SUFFICES ASSUME NEW q \in Procs, pc'[q] = "done", call'[q].kind # "definition"
             PROVE  HasFound(q)'
  BY StepOnThePath DEF EndInv
<1>1. CASE q # p
  <2>1. pc'[q] = pc[q] /\ call'[q] = call[q] /\ loc'[q] = loc[q]
    BY <1>1, StepOthers DEF Others, IInv
  <2>2. HasFound(q)
    BY <2>1 DEF EndInv
  <2> QED
    BY <2>1, <2>2, HasFoundKept
<1>2. CASE q = p
  <2>1. call' = call /\ pc[p] # "idle"
    <3>1. pc \in [Procs -> Labels]
      BY DEF IInv, Typed
    <3>2. ~Begin(p)
      <4>1. \A k \in Calls[p] : ~Goto(p, Entry(k))
        BY <1>2, <3>1 DEF Goto, Set, Entry
      <4> QED
        BY <4>1 DEF Begin
    <3>3. ~Return(p)
      BY <1>2, <3>1 DEF Return, Goto, Set
    <3> QED
      BY <3>2, <3>3, CallsGo
  <2>2. \/ FetchValue(p) \/ StoreValue(p) \/ DeepFetch(p) \/ DeepStore(p) \/ UncompileOff(p)
    BY <1>2, <2>1, StepComesFrom DEF ComesFrom
  <2>3. HasFound(p) /\ loc'[p].cell = loc[p].cell
    <3>1. pc \in [Procs -> Labels]
      BY DEF IInv, Typed
    <3>2. CASE FetchValue(p)
      <4>1. pc[p] = "end" /\ loc' = loc /\ ~cell[loc[p].cell].danger
        BY <1>2, <3>1, <3>2 DEF FetchValue, At, Goto, Set
      <4> QED
        BY <4>1, EndsWithoutDanger
    <3>3. CASE StoreValue(p)
      <4>1. pc[p] = "end" /\ loc' = loc /\ ~cell[loc[p].cell].danger
        BY <1>2, <3>1, <3>3 DEF StoreValue, At, Goto, Set
      <4> QED
        BY <4>1, EndsWithoutDanger
    <3>4. ASSUME pc[p] \in OnObject \cup {"deepEnd"}, loc' = loc
          PROVE  HasFound(p) /\ loc'[p].cell = loc[p].cell
      BY <3>4 DEF IInv, FoundInv
    <3>5. CASE DeepFetch(p)
      BY <3>4, <3>5 DEF DeepFetch, At
    <3>6. CASE UncompileOff(p)
      BY <3>4, <3>6 DEF UncompileOff, StoreOff, At, OnObject
    <3>7. CASE DeepStore(p)
      <4>1. ~Restart(p)
        <5>1. pc[p] = "deepEnd"
          BY <3>7 DEF DeepStore, At
        <5>2. \A k \in CallTypes : ~Goto(p, Entry(k))
          BY <1>2, <3>1 DEF Goto, Set, Entry
        <5> QED
          BY <2>1, <5>2, Asked DEF Restart, Interrupted, IInv
      <4> QED
        BY <3>4, <3>7, <4>1 DEF DeepStore, At
    <3> QED
      BY <2>2, <3>2, <3>3, <3>5, <3>6, <3>7
  <2>4. pc'[p] # "idle" /\ call'[p] = call[p]
    BY <1>2, <2>1
  <2> QED
    BY <1>2, <2>1, <2>3, <2>4, HasFoundKept
<1> QED
  BY <1>1, <1>2

LEMMA StutterEndInv == EndInv /\ UNCHANGED vars => EndInv'
<1> SUFFICES ASSUME EndInv, UNCHANGED vars
             PROVE  EndInv'
  OBVIOUS
<1>1. UNCHANGED <<cell, aux, pc, call, loc, seen>>
  BY DEF vars, shared, own, history
<1>2. \A p \in Procs : OnThePath(p)'
  BY <1>1 DEF EndInv, OnThePath, PathCell, HasCell, TheCell, CellIn, HasAux
<1>3. \A p \in Procs : pc'[p] = "done" /\ call'[p].kind # "definition" => HasFound(p)'
  BY <1>1 DEF EndInv, HasFound, HasCell, TheCell, CellIn, HasAux
<1> QED
  BY <1>2, <1>3 DEF EndInv

\* If no lookup reads the two words of different paths, then until two
\* processors define a name at once in frames of which one is in the other, a
\* call that uses variable objects ends at a binding of its name that it sees,
\* and at the one that the name meant if that was the same all the time.
THEOREM UntornCallsFindTheirBindingAlways ==
  Spec /\ []NoTornReads => []CallsFindTheirBinding
<1>1. Init => (apart => EndInv)
  BY DEF Init, EndInv, OnThePath
<1>2. IInv /\ ApartInv /\ NoTornReads /\ (apart => EndInv) /\ [Next]_vars
         => (apart => EndInv)'
  <2> SUFFICES ASSUME IInv, ApartInv, NoTornReads, apart => EndInv, [Next]_vars, apart'
               PROVE  EndInv'
    OBVIOUS
  <2>1. ASSUME NEW p \in Procs, Step(p), Watch
        PROVE  EndInv'
    <3>1. apart
      BY <2>1 DEF Watch
    <3> QED
      BY <2>1, <3>1, StepEnd DEF ApartInv, LadderInv
  <2>2. CASE UNCHANGED vars
    BY <2>2, StutterEndInv DEF vars, history
  <2> QED
    BY <2>1, <2>2 DEF Next, AllDone
<1>3. IInv /\ (apart => EndInv) => CallsFindTheirBinding
  BY HasFoundMeans DEF EndInv, CallsFindTheirBinding
<1> QED
  BY <1>1, <1>2, <1>3, Invariance, LadderAlways, PTL DEF Spec

-----------------------------------------------------------------------------
(* The two words of a path *)

\* Nobody else is busy with a variable object that leads to a parameter.
LEMMA BusyAlone ==
  ASSUME ParametersApart, IInv, NEW p \in Procs, NEW q \in Procs, p # q,
         pc[p] \in OnPath \cup OnObject, pc[q] \in OnPath \cup OnObject,
         Hunk(p) = Hunk(q), NEW w, w[1] = "formal", PathIsRight(w, Code[call[q].env], call[q].name)
  PROVE  FALSE
<1> DEFINE e == call[q].env
           n == call[q].name
<1>1. /\ pc[p] # "idle" /\ call[p].compiles /\ call[p] \in Calls[p]
      /\ pc[q] # "idle" /\ call[q].compiles /\ call[q] \in Calls[q] /\ e \in Frames
  BY Asked DEF IInv, Roles, Role, OnPath, OnObject
<1>2. Code[call[p].env] = Code[e] /\ call[p].name = n
  BY DEF Hunk
<1>3. Past(e, Len(Chain[e]), n)
  BY <1>1, <1>2 DEF ParametersApart
<1>4. w[2] + 1 \in DOMAIN Chain[e] /\ IsFormal(Chain[e][w[2] + 1], n)
  BY <1>1 DEF PathIsRight
<1>5. DOMAIN Chain[e] = 1 .. Len(Chain[e])
  BY <1>1, Chains DEF Envs
<1> QED
  BY <1>3, <1>4, <1>5 DEF Past

\* Others leave the variable object alone.
LEMMA OthersUntorn ==
  ASSUME ParametersApart, IInv, UntornInv, NEW p \in Procs, Step(p), Watch, NEW q \in Procs \ {p}
  PROVE  Untorn(q)'
<1>1. pc'[q] = pc[q] /\ call'[q] = call[q] /\ loc'[q] = loc[q] /\ Untorn(q)
  BY StepOthers DEF Others, UntornInv, IInv
<1> DEFINE h == Hunk(q)
           w == loc[q].word
<1>2. ASSUME pc[q] \in {"offset", "verify"}, w[1] = "formal"
      PROVE  hunk'[h] = hunk[h] /\ holder'[h] = holder[h]
  <2>1. PathIsRight(w, Code[call[q].env], call[q].name)
    BY <1>2 DEF IInv, WordInv
  <2>2. CASE UNCHANGED <<hunk, holder>>
    BY <2>2
  <2>3. ASSUME pc[p] \in OnObject
        PROVE  Hunk(p) # h
    BY <1>2, <2>1, <2>3, BusyAlone DEF OnPath
  <2>4. CASE \E x, y : /\ pc[p] \in OnObject
                       /\ holder' = [holder EXCEPT ![Hunk(p)] = x]
                       /\ \/ hunk' = [hunk EXCEPT ![Hunk(p)].word = y]
                          \/ hunk' = [hunk EXCEPT ![Hunk(p)].off = y]
    <3>1. hunk \in [Hunks -> HunkTypes] /\ holder \in [Hunks -> Procs \cup {Free}] /\ h \in Hunks
      BY <1>2, Asked DEF IInv, Typed, Roles, Role, OnPath
    <3> QED
      BY <2>3, <2>4, <3>1
  <2> QED
    BY <2>2, <2>4, StepObjects DEF Objects, OnObject
<1> QED
  BY <1>1, <1>2 DEF Untorn, Hunk

\* The first word of a path to a parameter is read when nobody stores into the object.
LEMMA ReadTypeUntorn ==
  ASSUME ParametersApart, IInv, NEW p \in Procs, ReadType(p)
  PROVE  Untorn(p)'
<1> DEFINE h == Hunk(p)
           w == hunk[h].word
<1>1. /\ pc[p] = "type" /\ call' = call /\ hunk' = hunk /\ holder' = holder
      /\ pc \in [Procs -> Labels] /\ loc \in [Procs -> LocTypes] /\ loc[p] \in LocTypes
  BY DEF ReadType, At, shared, IInv, Typed
<1>2. call[p].compiles /\ call[p].env \in Frames /\ call[p].name \in Names /\ h \in Hunks
  BY <1>1, Asked DEF IInv, Roles, Role, OnPath
<1>3. pc'[p] # "verify"
  BY <1>1 DEF ReadType, Goto, Set
<1>4. pc'[p] = "offset" => loc'[p].word = w
  BY <1>1 DEF ReadType, Goto, Set, Local, LocTypes
<1>5. PathIsRight(w, Code[call[p].env], call[p].name)
  BY <1>2 DEF IInv, HunkInv, Lambdas, Hunk
<1>6. w[1] = "formal" => holder[h] = Free
  <2> SUFFICES ASSUME w[1] = "formal", holder[h] # Free
               PROVE  FALSE
    OBVIOUS
  <2>1. PICK q \in Procs : holder[h] = q
    BY <1>2 DEF IInv, Typed
  <2>2. pc[q] \in {"storeOffset", "uncompiled"} /\ Hunk(q) = h
    BY <1>2, <2>1 DEF IInv, HolderInv
  <2>3. q # p /\ pc[q] \in OnPath \cup OnObject /\ pc[p] \in OnPath \cup OnObject
    BY <1>1, <2>2 DEF OnPath, OnObject
  <2> HIDE DEF w, h
  <2>4. w[1] = "formal" /\ Hunk(q) = Hunk(p)
    BY <2>2 DEF h
  <2> QED
    BY <1>5, <2>3, <2>4, BusyAlone
<1> QED
  BY <1>1, <1>3, <1>4, <1>6 DEF Untorn, Hunk

\* The second word is that of the same path.
LEMMA ReadOffsetUntorn ==
  ASSUME IInv, UntornInv, NEW p \in Procs, ReadOffset(p)
  PROVE  Untorn(p)'
<1> DEFINE h == Hunk(p)
           w == loc[p].word
           e == call[p].env
           n == call[p].name
<1>1. /\ pc[p] = "offset" /\ call' = call /\ hunk' = hunk /\ holder' = holder
      /\ loc'[p].word = w /\ loc'[p].off = hunk[h].off
  BY DEF ReadOffset, At, shared, IInv, Typed, Local, Set, LocTypes
<1>2. call[p].compiles /\ e \in Frames /\ n \in Names /\ h \in Hunks
  BY <1>1, Asked DEF IInv, Roles, Role, OnPath
<1>3. w[1] = "formal" => hunk[h].word = w /\ holder[h] = Free
  BY <1>1 DEF UntornInv, Untorn
<1>4. w[1] = "formal" => OffsetIsRight(w, hunk[h].off, Code[e], n)
  <2>1. Code[e] \in Lambdas /\ h = <<Code[e], n>>
    BY <1>2 DEF Lambdas, Hunk
  <2> QED
    BY <1>2, <1>3, <2>1 DEF IInv, HunkInv
<1>5. w[1] = "formal" => hunk[h].off = FormalWord(Chain[e][w[2] + 1], n)
  BY <1>2, <1>4 DEF OffsetIsRight
<1> QED
  BY <1>1, <1>3, <1>5 DEF Untorn, Hunk

LEMMA StepUntorn ==
  ASSUME ParametersApart, IInv, UntornInv, NEW p \in Procs, Step(p), Watch
  PROVE  UntornInv'
<1>1. ASSUME NEW q \in Procs, q # p
      PROVE  Untorn(q)'
  BY <1>1, OthersUntorn
<1>2. Untorn(p)'
  <2>1. CASE pc'[p] = "offset"
    BY <2>1, StepComesFrom, ReadTypeUntorn DEF ComesFrom
  <2>2. CASE pc'[p] = "verify"
    BY <2>2, StepComesFrom, ReadOffsetUntorn DEF ComesFrom
  <2>3. CASE pc'[p] \notin {"offset", "verify"}
    BY <2>3 DEF Untorn
  <2> QED
    BY <2>1, <2>2, <2>3
<1> QED
  BY <1>1, <1>2 DEF UntornInv

\* No lookup reads words of different paths if what one processor looks up
\* with a variable object that others use, too, is no parameter.
THEOREM NoTornReadsAlways ==
  ASSUME ParametersApart
  PROVE  Spec => []NoTornReads
<1>1. Init => UntornInv
  BY DEF Init, UntornInv, Untorn
<1>2. IInv /\ UntornInv /\ [Next]_vars => UntornInv'
  <2> SUFFICES ASSUME IInv, UntornInv, [Next]_vars
               PROVE  UntornInv'
    OBVIOUS
  <2>1. ASSUME NEW p \in Procs, Step(p), Watch
        PROVE  UntornInv'
    BY <2>1, StepUntorn
  <2>2. CASE UNCHANGED vars
    BY <2>2 DEF UntornInv, Untorn, Hunk, vars, shared, own
  <2> QED
    BY <2>1, <2>2 DEF Next, AllDone
<1>3. UntornInv => NoTornReads
  BY DEF UntornInv, Untorn, NoTornReads
<1> QED
  BY <1>1, <1>2, <1>3, Invariance, PTL DEF Spec

\* A reference or assignment ends at a binding of its name that it sees, and
\* at the one that the name meant if that was the same all the time: if no two
\* processors look the same parameter up with the same variable object, and
\* until two define a name at once in frames of which one is in the other.
THEOREM CallsFindTheirBindingAlways ==
  ASSUME ParametersApart
  PROVE  Spec => []CallsFindTheirBinding
BY UntornCallsFindTheirBindingAlways, NoTornReadsAlways, PTL
=============================================================================
