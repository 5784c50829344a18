------------------------- MODULE VariableCachesProofs -------------------------
(***************************************************************************)
(* What is proved of the caches of compiled code, for all processors doing *)
(* anything at any time: a link is in the list of its extension and in no  *)
(* other one, and no way out of a call leaves a lock behind.  Where no     *)
(* processor defines what another caches, links follow scope; where a      *)
(* variable is assigned in one place of compiled code, no assignment goes  *)
(* past an operator link; with both, and operators not cached during an    *)
(* assignment to them, a direct link calls what its variable holds.        *)
(***************************************************************************)
EXTENDS VariableCaches, TLAPS, FiniteSetTheorems, SequenceTheorems,
        WellFoundedInduction
-----------------------------------------------------------------------------
(* Types *)

Contents  == Values \cup {Unassigned, Unbound}
CellTypes == [danger : BOOLEAN, val : Contents \cup {NoBinding}, ext : Nat]
ExtTypes  == [val : Contents, clone : BOOLEAN, refs : [Kinds -> SUBSET Refs]]
LinkTypes == [to  : {"symbol", "gone", "cache", "clone", "fake", "direct"},
              ext : Nat, val : Contents]
Handles   == Places \cup {Free}
LocTypes  == [cell : Envs, old : Envs, ext : Nat, val : Contents, new : BOOLEAN,
              deep : BOOLEAN, force : BOOLEAN, shadowed : BOOLEAN,
              h1 : Handles, h2 : Handles]

Typed == /\ cell \in [Envs -> CellTypes]
         /\ exts \in Seq(ExtTypes)
         /\ link \in [Refs -> LinkTypes]
         /\ holder \in [Places -> Procs \cup {Free}]
         /\ recache \in Procs \cup {Free}
         /\ pc \in [Procs -> Labels]
         /\ op \in [Procs -> OpTypes \cup {NoOp}]
         /\ \A p \in Procs : op[p] \in Ops[p] \cup {NoOp}
         /\ loc \in [Procs -> LocTypes]
         /\ made \in [Procs -> Nat]
         /\ \A p \in Procs : made[p] <= MaxOps[p]
         /\ full \in 0 .. MaxFull

\* What a processor at each place has been asked for.
Roles == \A p \in Procs :
    /\ pc[p] = "idle" <=> op[p] = NoOp
    /\ pc[p] \in {"cLock", "cRecache", "cExt"} => op[p].kind = "cache"
    /\ pc[p] \in {"aExt", "aLinks"} => op[p].kind \in {"assign", "define", "compiled"}
    /\ pc[p] = "aLock" => op[p].kind \in {"assign", "define"}
    /\ pc[p] \in {"dLock", "dRecache", "dExt", "dDefine"} => op[p].kind = "define"

-----------------------------------------------------------------------------
(* Cells, extensions and links *)

\* A frame that has a cell keeps it.
CellInv == /\ \A e \in Envs : cell[e].val = NoBinding => cell[e] = Empty
           /\ \A e \in Envs : cell[e].ext <= Len(exts)
           /\ cell[Global].val # NoBinding

\* What a processor remembers is still there.
LocInv == \A p \in Procs :
    /\ cell[loc[p].cell].val # NoBinding
    /\ pc[p] \in {"cExt", "aExt", "aLinks", "dRecache", "dExt"} =>
          loc[p].ext \in DOMAIN exts
    /\ op[p].kind = "compiled" => link[op[p].ref] \notin {Symbol, Gone}

\* The lists hold what has been cached, by its kind ...
RefsInv == \A i \in DOMAIN exts, k \in Kinds : \A r \in exts[i].refs[k] :
              KindOf[r] = k /\ link[r] # Symbol

\* ... and every link is in one list, that of its extension.
Listed == \A r \in Refs : link[r] \notin {Symbol, Gone} =>
    /\ link[r].ext \in DOMAIN exts
    /\ \A i \in DOMAIN exts : i = link[r].ext <=> \E k \in Kinds : r \in exts[i].refs[k]

-----------------------------------------------------------------------------
(* Locks *)

\* Compiler_Recache_Lock is kept between two steps at two places only.  A
\* reference that is being cached is not cached by anybody else.
RecacheInv == \A p \in Procs : recache = p <=> pc[p] \in {"cExt", "dExt"}
CacheInv   == \A p \in Procs : pc[p] = "cExt" => link[op[p].ref] = Symbol

\* A processor has the locks that it has handles for, and at most places none.
Resting   == {"idle", "start", "cLock", "cExt", "aLock", "aExt", "dLock", "dDefine"}
HandleInv == \A p \in Procs :
    /\ \A x \in Places : holder[x] = p <=> x \in {loc[p].h1, loc[p].h2}
    /\ pc[p] \in Resting => loc[p].h1 = Free /\ loc[p].h2 = Free
    /\ pc[p] \in {"cRecache", "aLinks"} => loc[p].h2 = Free
    /\ loc[p].h1 = loc[p].h2 => loc[p].h1 = Free

IInv == /\ Typed /\ Roles /\ CellInv /\ LocInv /\ RefsInv /\ Listed
        /\ RecacheInv /\ CacheInv /\ HandleInv

-----------------------------------------------------------------------------
(* Lookups, sequences and operations *)

\* Every set of natural numbers has a least one.
LEMMA LeastNumber ==
  ASSUME NEW S \in SUBSET Nat, S # {}
  PROVE  Min(S) \in S
<1>1. PICK n \in S : \A m \in S : <<m, n>> \notin OpToRel(<, Nat)
  BY WFMin, NatLessThanWellFounded, Zenon
<1>2. \A m \in S : ~(m < n)
  BY <1>1, Zenon DEF OpToRel
<1>3. \E m \in S : \A k \in S : m <= k
  BY <1>2
<1> QED
  BY <1>3, Zenon DEF Min

\* A lookup finds a frame that has a binding, or the global environment.
LEMMA LookupFinds ==
  ASSUME NEW e \in Envs
  PROVE  /\ Visible(e) \in Envs /\ Visible(e) \in ToSet(Chain[e]) \cup {Global}
         /\ Visible(e) = Global \/ Binds(Visible(e))
<1> DEFINE s == Above(e)
           I == {i \in 1 .. Len(s) : s[i] = Global \/ Binds(s[i])}
<1>1. Chain[e] \in Seq(Envs)
  BY CacheAssumption DEF Envs
<1>2. s \in Seq(Envs) /\ Len(s) \in 1 .. Len(s) /\ s[Len(s)] = Global
  BY <1>1 DEF Above, Envs
<1>3. I \in SUBSET Nat /\ I # {}
  BY <1>2
<1>4. Min(I) \in I
  BY <1>3, LeastNumber
<1>5. SelectInSeq(s, LAMBDA f : f = Global \/ Binds(f)) = Min(I)
  BY <1>3 DEF SelectInSeq
<1>6. Visible(e) = s[Min(I)]
  BY <1>5 DEF Visible
<1>7. \A i \in 1 .. Len(s) : s[i] \in ToSet(Chain[e]) \cup {Global}
  BY <1>1 DEF Above, ToSet
<1> HIDE DEF s
<1>8. Min(I) \in 1 .. Len(s) /\ (s[Min(I)] = Global \/ Binds(s[Min(I)]))
  BY <1>4
<1> QED
  BY <1>2, <1>6, <1>7, <1>8

\* No frame is outside of a frame that is outside of it.
LEMMA NoCycle ==
  ASSUME NEW e \in Frames, NEW w \in Envs, w # e, w \in ToSet(Chain[e]) \cup {Global}
  PROVE  e \in ToSet(Chain[e]) /\ e \notin ToSet(Above(w))
<1> DEFINE s == Chain[e]
           n == Len(s)
<1>1. s \in Seq(Frames) /\ n \in Nat /\ n > 0 /\ s[1] = e /\ e # Global
      /\ \A i \in 1 .. n : Chain[s[i]] = SubSeq(s, i, n)
  <2>1. s \in Seq(Frames) /\ n \in Nat
    BY CacheAssumption DEF Envs
  <2>2. n > 0 /\ s[1] = e /\ e # Global
    BY CacheAssumption
  <2>3. DOMAIN s = 1 .. n
    BY <2>1
  <2>4. \A i \in DOMAIN s : Chain[s[i]] = SubSeq(s, i, n)
    BY CacheAssumption
  <2> QED
    BY <2>1, <2>2, <2>3, <2>4
<1>2. e \in ToSet(s)
  BY <1>1 DEF ToSet
<1>3. \A i \in 1 .. n : s[i] = e => i = 1
  <2> SUFFICES ASSUME NEW i \in 1 .. n, s[i] = e
      PROVE  i = 1
    OBVIOUS
  <2>1. s = SubSeq(s, i, n)
    BY <1>1
  <2>2. Len(SubSeq(s, i, n)) = n - i + 1
    BY <1>1
  <2> QED
    BY <1>1, <2>1, <2>2
<1>4. CASE w = Global
  BY <1>1, <1>2, <1>4, CacheAssumption DEF Above, ToSet
<1>5. CASE w # Global
  <2>1. PICK j \in 1 .. n : s[j] = w
    BY <1>1, <1>5 DEF ToSet
  <2>2. j # 1 /\ Chain[w] = SubSeq(s, j, n)
    BY <1>1, <2>1
  <2>3. \A k \in 1 .. Len(Chain[w]) : Chain[w][k] = s[k + j - 1] /\ k + j - 1 \in 2 .. n
    BY <1>1, <2>2
  <2>4. \A k \in 1 .. Len(Chain[w]) : Chain[w][k] # e
    <3> SUFFICES ASSUME NEW k \in 1 .. Len(Chain[w]), Chain[w][k] = e
        PROVE  FALSE
      OBVIOUS
    <3>1. s[k + j - 1] = e /\ k + j - 1 \in 1 .. n /\ k + j - 1 # 1
      BY <1>1, <2>3
    <3> QED
      BY <1>3, <3>1
  <2>5. Chain[w] \in Seq(Frames)
    BY CacheAssumption
  <2> QED
    BY <1>1, <1>2, <2>4, <2>5 DEF Above, ToSet
<1> QED
  BY <1>4, <1>5

LEMMA PutAt ==
  ASSUME NEW S, NEW s \in Seq(S), NEW i \in DOMAIN s, NEW e \in S
  PROVE  /\ [s EXCEPT ![i] = e] \in Seq(S)
         /\ Len([s EXCEPT ![i] = e]) = Len(s)
         /\ DOMAIN [s EXCEPT ![i] = e] = DOMAIN s
         /\ \A j \in DOMAIN s : [s EXCEPT ![i] = e][j] = IF j = i THEN e ELSE s[j]
OBVIOUS

LEMMA AddAtEnd ==
  ASSUME NEW S, NEW s \in Seq(S), NEW e \in S
  PROVE  /\ Append(s, e) \in Seq(S)
         /\ Len(Append(s, e)) = Len(s) + 1
         /\ DOMAIN s \subseteq DOMAIN Append(s, e)
         /\ DOMAIN Append(s, e) = DOMAIN s \cup {Len(s) + 1}
         /\ Len(s) + 1 \notin DOMAIN s
         /\ \A j \in DOMAIN s : Append(s, e)[j] = s[j]
         /\ Append(s, e)[Len(s) + 1] = e
OBVIOUS

\* What each kind of operation has.
LEMMA Operations ==
  ASSUME NEW o \in OpTypes
  PROVE  /\ o # NoOp
         /\ o.kind \in {"cache", "assign", "define", "compiled"}
         /\ o.kind = "cache" => o.ref \in Refs
         /\ o.kind = "compiled" => o.ref \in Refs /\ o.val \in Contents
         /\ o.kind \in {"assign", "define"} => o.env \in Envs /\ o.val \in Contents
BY DEF OpTypes, NoOp, Contents

\* What is linked is a link.
LEMMA MadeLink ==
  ASSUME NEW i \in Nat, NEW k \in Kinds, NEW v \in Contents, NEW c \in BOOLEAN
  PROVE  /\ Cached(i, k, v, c) \in LinkTypes
         /\ Cached(i, k, v, c).ext = i
         /\ Cached(i, k, v, c) \notin {Symbol, Gone}
BY DEF Cached, Kinds, LinkTypes, Link, Symbol, Gone, Contents

\* What changes an extension.
LEMMA ExtensionChanged ==
  ASSUME NEW x \in ExtTypes
  PROVE  /\ \A v : [x EXCEPT !.val = v] = [val |-> v, clone |-> x.clone, refs |-> x.refs]
         /\ \A c : [x EXCEPT !.clone = c] = [val |-> x.val, clone |-> c, refs |-> x.refs]
         /\ \A l : [x EXCEPT !.refs = l] = [val |-> x.val, clone |-> x.clone, refs |-> l]
BY DEF ExtTypes

-----------------------------------------------------------------------------
(* What the steps do to the lists of references *)

\* The entries of collected blocks may go, a new extension has none, and links
\* stay with their extension.
Kept == /\ \A i \in DOMAIN exts, k \in Kinds :
              /\ exts'[i].refs[k] \subseteq exts[i].refs[k]
              /\ Alive(exts[i].refs[k]) \subseteq exts'[i].refs[k]
        /\ \A i \in DOMAIN exts' \ DOMAIN exts, k \in Kinds : exts'[i].refs[k] = {}
        /\ \A r \in Refs : \/ link'[r] = link[r]
                           \/ /\ link[r] \notin {Symbol, Gone}
                              /\ link'[r] \notin {Symbol, Gone}
                              /\ link'[r].ext = link[r].ext

\* The same, and one reference is cached.
Filed(p) ==
    LET f == op[p].ref IN
    /\ \A i \in DOMAIN exts, k \in Kinds :
          /\ exts'[i].refs[k] \subseteq exts[i].refs[k] \cup
                (IF i = loc[p].ext /\ k = KindOf[f] THEN {f} ELSE {})
          /\ Alive(exts[i].refs[k]) \subseteq exts'[i].refs[k]
    /\ DOMAIN exts' = DOMAIN exts
    /\ f \in exts'[loc[p].ext].refs[KindOf[f]]
    /\ link'[f] \notin {Symbol, Gone} /\ link'[f].ext = loc[p].ext
    /\ \A r \in Refs \ {f} : \/ link'[r] = link[r]
                             \/ /\ link[r] \notin {Symbol, Gone}
                                /\ link'[r] \notin {Symbol, Gone}
                                /\ link'[r].ext = link[r].ext

\* Some references go to a new extension.
Refiled(p) ==
    LET x == Len(exts) + 1 IN
    /\ DOMAIN exts' = DOMAIN exts \cup {x}
    /\ \A i \in DOMAIN exts \ {loc[p].ext}, k \in Kinds :
          exts'[i].refs[k] = exts[i].refs[k]
    /\ \A k \in Kinds :
          /\ exts'[x].refs[k] = Moved(p, k)
          /\ exts'[loc[p].ext].refs[k] = Alive(exts[loc[p].ext].refs[k]) \ Moved(p, k)
    /\ \A r \in Refs :
          IF r \in Moved(p, KindOf[r])
          THEN link'[r] \notin {Symbol, Gone} /\ link'[r].ext = x
          ELSE link'[r] = link[r]

\* A block is collected.
Lost == /\ UNCHANGED exts
        /\ \A r \in Refs : \/ link'[r] = link[r]
                           \/ link'[r] = Gone /\ link[r] \notin {Symbol, Gone}

ListTypes == /\ exts' \in Seq(ExtTypes)
             /\ DOMAIN exts \subseteq DOMAIN exts' /\ Len(exts) <= Len(exts')
             /\ link' \in [Refs -> LinkTypes]

LEMMA UnchangedLists ==
  ASSUME Typed, UNCHANGED <<exts, link>>
  PROVE  ListTypes /\ Kept
BY DEF Typed, ListTypes, Kept, Alive

LEMMA CacheRecacheLists ==
  ASSUME Typed, Roles, LocInv, CellInv, NEW p \in Procs, CacheRecache(p)
  PROVE  ListTypes /\ Kept
<1> DEFINE c == cell[loc[p].cell]
           e == [val |-> c.val, clone |-> FALSE, refs |-> [k \in Kinds |-> {}]]
<1>1. CASE exts' = Append(exts, e) /\ link' = link
  <2>1. e \in ExtTypes
    BY DEF CacheRecache, At, LocInv, Typed, LocTypes, CellTypes, ExtTypes, Contents
  <2>2. e.refs = [k \in Kinds |-> {}]
    OBVIOUS
  <2> HIDE DEF e
  <2>3. exts \in Seq(ExtTypes)
    BY DEF Typed
  <2>4. /\ exts' \in Seq(ExtTypes) /\ Len(exts') = Len(exts) + 1
        /\ DOMAIN exts' = DOMAIN exts \cup {Len(exts) + 1}
        /\ \A j \in DOMAIN exts : exts'[j] = exts[j]
        /\ exts'[Len(exts) + 1] = e
    BY <1>1, <2>1, <2>3, AddAtEnd
  <2>5. Len(exts) \in Nat
    BY <2>3
  <2> QED
    BY <1>1, <2>2, <2>4, <2>5 DEF ListTypes, Kept, Typed, Alive
<1>2. CASE UNCHANGED <<exts, link>>
  BY <1>2, UnchangedLists
<1> QED
  BY <1>1, <1>2 DEF CacheRecache, shared, HeapFull

\* add_reference adds the reference, and takes the place of a dead one at most.
LEMMA AddsReference ==
  ASSUME NEW s \in SUBSET Refs, NEW r \in Refs
  PROVE  /\ AddReference(s, r) \in SUBSET Refs
         /\ r \in AddReference(s, r)
         /\ AddReference(s, r) \subseteq s \cup {r}
         /\ Alive(s) \subseteq AddReference(s, r)
<1> DEFINE dead == s \ Alive(s)
           d == CHOOSE d \in dead : TRUE
<1>1. dead # {} => d \in dead
  OBVIOUS
<1>2. AddReference(s, r) = (IF dead = {} THEN s ELSE s \ {d}) \cup {r}
  BY DEF AddReference
<1>3. Alive(s) \subseteq s
  BY DEF Alive
<1> HIDE DEF d
<1> QED
  BY <1>1, <1>2, <1>3

\* What is in a list and alive is a link to the extension of the list.
LEMMA AliveLinks ==
  ASSUME Typed, RefsInv, Listed, NEW i \in DOMAIN exts, NEW k \in Kinds,
         NEW r \in Alive(exts[i].refs[k])
  PROVE  /\ r \in Refs /\ link[r] \notin {Symbol, Gone}
         /\ link[r].ext = i /\ KindOf[r] = k
<1>1. r \in exts[i].refs[k] /\ link[r] # Gone
  BY DEF Alive
<1>2. exts[i] \in ExtTypes
  BY DEF Typed
<1>3. r \in Refs
  BY <1>1, <1>2 DEF ExtTypes
<1> QED
  BY <1>1, <1>3 DEF RefsInv, Listed

LEMMA CacheExtLists ==
  ASSUME Typed, Roles, LocInv, RefsInv, Listed, NEW p \in Procs, CacheExt(p)
  PROVE  ListTypes /\ (Kept \/ Filed(p))
<1> DEFINE r == op[p].ref
           k == KindOf[r]
           i == loc[p].ext
           v == IF loc[p].new THEN loc[p].val ELSE exts[i].val
           store == NeedsClone(i, k)
           clone == exts[i].clone \/ store
           fixed == Fixed(i, k, store)
           refs == exts[i].refs
           lists == [j \in Kinds |->
                       IF j = k THEN AddReference(refs[j], r)
                       ELSE IF j = "assignment" /\ fixed # {} THEN Alive(refs[j])
                       ELSE refs[j]]
           e == [val |-> exts[i].val, clone |-> clone, refs |-> lists]
<1>0. pc[p] = "cExt"
  BY DEF CacheExt, At
<1>1. r \in Refs /\ k \in Kinds
  <2>1. op[p] \in OpTypes
    BY <1>0 DEF Typed, Roles, NoOp
  <2> QED
    BY <1>0, <2>1, Operations, CacheAssumption DEF Roles
<1>2. i \in DOMAIN exts /\ i \in Nat /\ exts \in Seq(ExtTypes) /\ exts[i] \in ExtTypes
  BY <1>0 DEF LocInv, Typed
<1>3. v \in Contents /\ store \in BOOLEAN /\ clone \in BOOLEAN
  BY <1>2 DEF Typed, LocTypes, ExtTypes, NeedsClone
<1>4. refs \in [Kinds -> SUBSET Refs] /\ "assignment" \in Kinds
  BY <1>2 DEF ExtTypes, Kinds
<1>5. fixed \in SUBSET Alive(refs["assignment"])
  BY DEF Fixed
<1>6. lists \in [Kinds -> SUBSET Refs]
  <2>1. \A j \in Kinds : /\ AddReference(refs[j], r) \in SUBSET Refs
                         /\ Alive(refs[j]) \in SUBSET Refs /\ refs[j] \in SUBSET Refs
    BY <1>1, <1>4, AddsReference DEF Alive
  <2> HIDE DEF refs, r, k, fixed
  <2> QED
    BY <2>1
<1>7. e \in ExtTypes /\ e.refs = lists
  BY <1>2, <1>3, <1>6 DEF ExtTypes
<1>8. \A j \in Kinds : /\ lists[j] \subseteq refs[j] \cup (IF j = k THEN {r} ELSE {})
                       /\ Alive(refs[j]) \subseteq lists[j]
  <2>1. \A j \in Kinds : /\ AddReference(refs[j], r) \subseteq refs[j] \cup {r}
                         /\ Alive(refs[j]) \subseteq AddReference(refs[j], r)
                         /\ Alive(refs[j]) \subseteq refs[j]
    BY <1>1, <1>4, AddsReference DEF Alive
  <2> HIDE DEF refs, r, k, fixed
  <2> QED
    BY <2>1
<1>9. r \in lists[k]
  <2>1. r \in AddReference(refs[k], r)
    <3>1. refs[k] \in SUBSET Refs
      BY <1>1, <1>4
    <3> HIDE DEF refs, k
    <3> QED
      BY <1>1, <3>1, AddsReference, Zenon
  <2> HIDE DEF refs, r, k, fixed
  <2> QED
    BY <1>1, <2>1
<1>10. Cached(i, k, v, store) \in LinkTypes /\ Cached(i, k, v, store).ext = i
       /\ Cached(i, k, v, store) \notin {Symbol, Gone}
  BY <1>1, <1>2, <1>3, MadeLink
<1>11. /\ Cached(i, "assignment", v, TRUE) \in LinkTypes
       /\ Cached(i, "assignment", v, TRUE).ext = i
       /\ Cached(i, "assignment", v, TRUE) \notin {Symbol, Gone}
  BY <1>2, <1>3, <1>4, MadeLink
<1>12. \A s \in fixed : s \in Refs /\ link[s] \notin {Symbol, Gone} /\ link[s].ext = i
  BY <1>2, <1>4, <1>5, AliveLinks
<1>13. CASE UNCHANGED <<exts, link>>
  BY <1>13, UnchangedLists
<1>14. ASSUME exts' = [exts EXCEPT ![i] = e],
              link' = [s \in Refs |-> IF s = r THEN Cached(i, k, v, store)
                                      ELSE IF s \in fixed
                                      THEN Cached(i, "assignment", v, TRUE) ELSE link[s]]
       PROVE  ListTypes /\ Filed(p)
  <2> HIDE DEF e, v, store, fixed, lists
  <2>1. /\ exts' \in Seq(ExtTypes) /\ Len(exts') = Len(exts) /\ DOMAIN exts' = DOMAIN exts
        /\ \A j \in DOMAIN exts : exts'[j] = IF j = i THEN e ELSE exts[j]
    BY <1>2, <1>7, <1>14, PutAt
  <2>2. Len(exts) \in Nat
    BY <1>2
  <2>3. link' \in [Refs -> LinkTypes]
    BY <1>10, <1>11, <1>14 DEF Typed
  <2>a. ListTypes
    BY <2>1, <2>2, <2>3 DEF ListTypes
  <2>4. \A j \in DOMAIN exts, l \in Kinds :
          /\ exts'[j].refs[l] \subseteq exts[j].refs[l] \cup
                (IF j = i /\ l = k THEN {r} ELSE {})
          /\ Alive(exts[j].refs[l]) \subseteq exts'[j].refs[l]
    BY <1>7, <1>8, <2>1 DEF Alive
  <2>5. r \in exts'[i].refs[k]
    BY <1>2, <1>7, <1>9, <2>1
  <2>6. link'[r] \notin {Symbol, Gone} /\ link'[r].ext = i
    BY <1>1, <1>10, <1>14
  <2>7. \A s \in Refs \ {r} : \/ link'[s] = link[s]
                              \/ /\ link[s] \notin {Symbol, Gone}
                                 /\ link'[s] \notin {Symbol, Gone}
                                 /\ link'[s].ext = link[s].ext
    BY <1>11, <1>12, <1>14
  <2> QED
    BY <2>1, <2>a, <2>4, <2>5, <2>6, <2>7 DEF Filed
<1>15. \/ UNCHANGED <<exts, link>>
       \/ /\ exts' = [exts EXCEPT ![i].clone = clone, ![i].refs = lists]
          /\ link' = [s \in Refs |-> IF s = r THEN Cached(i, k, v, store)
                                     ELSE IF s \in fixed
                                     THEN Cached(i, "assignment", v, TRUE) ELSE link[s]]
  BY DEF CacheExt, CacheUntouched, shared
<1>16. [exts EXCEPT ![i].clone = clone, ![i].refs = lists] = [exts EXCEPT ![i] = e]
  <2> DEFINE x == exts[i]
             y == [val |-> x.val, clone |-> clone, refs |-> x.refs]
  <2> HIDE DEF clone, lists, x
  <2>1. x \in ExtTypes
    BY <1>2 DEF x
  <2>2. [x EXCEPT !.clone = clone] = y
    BY <2>1, ExtensionChanged
  <2>3. [y EXCEPT !.refs = lists] = [val |-> x.val, clone |-> clone, refs |-> lists]
    OBVIOUS
  <2>4. [x EXCEPT !.clone = clone, !.refs = lists]
           = [[x EXCEPT !.clone = clone] EXCEPT !.refs = lists]
    BY <2>1 DEF ExtTypes
  <2>5. [x EXCEPT !.clone = clone, !.refs = lists]
           = [val |-> x.val, clone |-> clone, refs |-> lists]
    BY <2>2, <2>3, <2>4
  <2>6. [exts EXCEPT ![i].clone = clone, ![i].refs = lists]
           = [exts EXCEPT ![i] = [x EXCEPT !.clone = clone, !.refs = lists]]
    BY <1>2 DEF x
  <2> QED
    BY <2>5, <2>6 DEF x
<1> QED
  BY <1>13, <1>14, <1>15, <1>16

\* An extension gives up dead entries, and links to it are made again.
LEMMA ListsPruned ==
  ASSUME Typed, RefsInv, Listed, NEW i \in DOMAIN exts, NEW e \in ExtTypes,
         exts' = [exts EXCEPT ![i] = e],
         \A k \in Kinds : /\ e.refs[k] \subseteq exts[i].refs[k]
                          /\ Alive(exts[i].refs[k]) \subseteq e.refs[k],
         NEW S \in SUBSET UNION {Alive(exts[i].refs[k]) : k \in Kinds},
         link' \in [Refs -> LinkTypes],
         \A r \in Refs \ S : link'[r] = link[r],
         \A r \in S : link'[r] \notin {Symbol, Gone} /\ link'[r].ext = i
  PROVE  ListTypes /\ Kept
<1>1. exts \in Seq(ExtTypes) /\ Len(exts) \in Nat
  BY DEF Typed
<1>2. /\ exts' \in Seq(ExtTypes) /\ Len(exts') = Len(exts) /\ DOMAIN exts' = DOMAIN exts
      /\ \A j \in DOMAIN exts : exts'[j] = IF j = i THEN e ELSE exts[j]
  BY <1>1, PutAt
<1>3. \A r \in S : link[r] \notin {Symbol, Gone} /\ link[r].ext = i
  BY AliveLinks
<1>4. \A r \in Refs : \/ link'[r] = link[r]
                      \/ /\ link[r] \notin {Symbol, Gone}
                         /\ link'[r] \notin {Symbol, Gone}
                         /\ link'[r].ext = link[r].ext
  BY <1>3
<1>5. \A j \in DOMAIN exts, k \in Kinds :
         /\ exts'[j].refs[k] \subseteq exts[j].refs[k]
         /\ Alive(exts[j].refs[k]) \subseteq exts'[j].refs[k]
  BY <1>2 DEF Alive
<1> QED
  BY <1>1, <1>2, <1>4, <1>5 DEF ListTypes, Kept

\* The same when no link is made again.
LEMMA EntriesPruned ==
  ASSUME Typed, RefsInv, Listed, NEW i \in DOMAIN exts, NEW e \in ExtTypes,
         exts' = [exts EXCEPT ![i] = e], link' = link,
         \A k \in Kinds : /\ e.refs[k] \subseteq exts[i].refs[k]
                          /\ Alive(exts[i].refs[k]) \subseteq e.refs[k]
  PROVE  ListTypes /\ Kept
<1>1. exts \in Seq(ExtTypes) /\ Len(exts) \in Nat
  BY DEF Typed
<1>2. /\ exts' \in Seq(ExtTypes) /\ Len(exts') = Len(exts) /\ DOMAIN exts' = DOMAIN exts
      /\ \A j \in DOMAIN exts : exts'[j] = IF j = i THEN e ELSE exts[j]
  BY <1>1, PutAt
<1>3. \A j \in DOMAIN exts, k \in Kinds :
         /\ exts'[j].refs[k] \subseteq exts[j].refs[k]
         /\ Alive(exts[j].refs[k]) \subseteq exts'[j].refs[k]
  BY <1>2 DEF Alive
<1> QED
  BY <1>1, <1>2, <1>3 DEF ListTypes, Kept, Typed

\* An assignment stores what a program gives, or what was there.
LEMMA AssignedTypes ==
  ASSUME Typed, NEW p \in Procs, op[p].kind \in {"assign", "define", "compiled"},
         NEW old
  PROVE  Assigned(p, old) = old \/ Assigned(p, old) \in Contents
<1>1. op[p] \in OpTypes
  BY DEF Typed, NoOp
<1> QED
  BY <1>1, Operations DEF Assigned

LEMMA AssignExtLists ==
  ASSUME Typed, Roles, LocInv, RefsInv, Listed, NEW p \in Procs, AssignExt(p)
  PROVE  ListTypes /\ Kept
<1> DEFINE i == loc[p].ext
           x == exts[i]
           v == Assigned(p, x.val)
           e == [val |-> v, clone |-> x.clone, refs |-> x.refs]
<1>1. pc[p] = "aExt" /\ link' = link /\ exts' = [exts EXCEPT ![i].val = v]
  BY DEF AssignExt, At
<1>2. i \in DOMAIN exts /\ x \in ExtTypes
  BY <1>1 DEF LocInv, Typed
<1>3. v \in Contents
  BY <1>1, <1>2, AssignedTypes DEF Roles, ExtTypes
<1>4. e \in ExtTypes
  BY <1>2, <1>3 DEF ExtTypes
<1>5. exts' = [exts EXCEPT ![i] = e]
  <2> HIDE DEF x, v
  <2>1. [x EXCEPT !.val = v] = e
    BY <1>2, ExtensionChanged
  <2> QED
    BY <1>1, <2>1 DEF x
<1>7. \A k \in Kinds : /\ e.refs[k] \subseteq exts[i].refs[k]
                         /\ Alive(exts[i].refs[k]) \subseteq e.refs[k]
  BY DEF Alive
<1> HIDE DEF e
<1> QED
  BY <1>1, <1>2, <1>4, <1>5, <1>7, EntriesPruned

\* An assignment puts back what was there, and leaves the links it has made.
LEMMA AssignRevertsLists ==
  ASSUME Typed, Roles, LocInv, RefsInv, Listed, NEW p \in Procs, pc[p] = "aLinks",
         NEW done \in SUBSET Alive(exts[loc[p].ext].refs["operator"]),
         AssignReverts(p, done)
  PROVE  ListTypes /\ Kept
<1> DEFINE i == loc[p].ext
           x == exts[i]
           v == loc[p].val
           e == [val |-> v, clone |-> x.clone, refs |-> x.refs]
<1>1. i \in DOMAIN exts /\ i \in Nat /\ x \in ExtTypes /\ v \in Contents
  BY DEF LocInv, Typed, LocTypes
<1>2. exts' = [exts EXCEPT ![i].val = v]
  BY DEF AssignReverts
<1>3. e \in ExtTypes
  BY <1>1 DEF ExtTypes
<1>4. exts' = [exts EXCEPT ![i] = e]
  <2> HIDE DEF x, v
  <2>1. [x EXCEPT !.val = v] = e
    BY <1>1, ExtensionChanged
  <2> QED
    BY <1>2, <2>1 DEF x
<1>5. e.refs = exts[i].refs
  OBVIOUS
<1>6. /\ Cached(i, "operator", x.val, FALSE) \in LinkTypes
      /\ Cached(i, "operator", x.val, FALSE).ext = i
      /\ Cached(i, "operator", x.val, FALSE) \notin {Symbol, Gone}
  BY <1>1, MadeLink DEF ExtTypes, Kinds
<1>7. link' = [s \in Refs |-> IF s \in done THEN Cached(i, "operator", x.val, FALSE)
                              ELSE link[s]]
  BY DEF AssignReverts
<1>8. done \in SUBSET UNION {Alive(exts[i].refs[k]) : k \in Kinds}
  BY DEF Kinds
<1>9. done \subseteq Refs
  BY <1>1 DEF ExtTypes, Kinds, Alive
<1>10. /\ link' \in [Refs -> LinkTypes]
       /\ \A r \in Refs \ done : link'[r] = link[r]
       /\ \A r \in done : link'[r] \notin {Symbol, Gone} /\ link'[r].ext = i
  BY <1>6, <1>7, <1>9 DEF Typed
<1> HIDE DEF e
<1> QED
  BY <1>1, <1>3, <1>4, <1>5, <1>8, <1>10, ListsPruned DEF Alive

LEMMA AssignLinksLists ==
  ASSUME Typed, Roles, LocInv, RefsInv, Listed, NEW p \in Procs, AssignLinks(p)
  PROVE  ListTypes /\ Kept
<1> DEFINE i == loc[p].ext
           x == exts[i]
           live == Alive(x.refs["operator"])
           unclone == live = {} /\ x.clone
           fixed == Alive(x.refs["assignment"])
           S == live \cup (IF unclone THEN fixed ELSE {})
           lists == [k \in Kinds |-> IF k = "operator" THEN live
                                     ELSE IF k = "assignment" /\ unclone THEN fixed
                                     ELSE x.refs[k]]
           clone == x.clone /\ ~unclone
           e == [val |-> x.val, clone |-> clone, refs |-> lists]
<1>1. pc[p] = "aLinks"
  BY DEF AssignLinks, At
<1>2. i \in DOMAIN exts /\ i \in Nat /\ x \in ExtTypes
  BY <1>1 DEF LocInv, Typed
<1>3. x.refs \in [Kinds -> SUBSET Refs] /\ x.val \in Contents /\ x.clone \in BOOLEAN
  BY <1>2 DEF ExtTypes
<1>4. lists \in [Kinds -> SUBSET Refs]
  BY <1>3 DEF Alive
<1>5. e \in ExtTypes /\ e.refs = lists
  BY <1>3, <1>4 DEF ExtTypes
<1>6. exts' = [exts EXCEPT ![i] = e]
  <2> DEFINE y == [val |-> x.val, clone |-> clone, refs |-> x.refs]
  <2>1. exts' = [exts EXCEPT ![i].clone = clone, ![i].refs = lists]
    BY DEF AssignLinks
  <2> HIDE DEF clone, lists, x
  <2>2. [x EXCEPT !.clone = clone] = y
    BY <1>2, ExtensionChanged
  <2>3. [y EXCEPT !.refs = lists] = e
    OBVIOUS
  <2>4. [x EXCEPT !.clone = clone, !.refs = lists]
           = [[x EXCEPT !.clone = clone] EXCEPT !.refs = lists]
    BY <1>2 DEF ExtTypes
  <2>5. [x EXCEPT !.clone = clone, !.refs = lists] = e
    BY <2>2, <2>3, <2>4
  <2>6. [exts EXCEPT ![i].clone = clone, ![i].refs = lists]
           = [exts EXCEPT ![i] = [x EXCEPT !.clone = clone, !.refs = lists]]
    BY <1>2 DEF x
  <2> QED
    BY <2>1, <2>5, <2>6
<1>7. S \in SUBSET UNION {Alive(x.refs[k]) : k \in Kinds} /\ S \subseteq Refs
  BY <1>3 DEF Alive, Kinds
<1>8. \A k \in Kinds : lists[k] \subseteq x.refs[k] /\ Alive(x.refs[k]) \subseteq lists[k]
  BY DEF Alive
<1>9. /\ Cached(i, "operator", x.val, FALSE) \in LinkTypes
      /\ Cached(i, "operator", x.val, FALSE).ext = i
      /\ Cached(i, "operator", x.val, FALSE) \notin {Symbol, Gone}
      /\ Cached(i, "assignment", x.val, FALSE) \in LinkTypes
      /\ Cached(i, "assignment", x.val, FALSE).ext = i
      /\ Cached(i, "assignment", x.val, FALSE) \notin {Symbol, Gone}
  BY <1>2, <1>3, MadeLink DEF Kinds
<1>10. link' = [s \in Refs |-> IF s \in live THEN Cached(i, "operator", x.val, FALSE)
                               ELSE IF unclone /\ s \in fixed
                               THEN Cached(i, "assignment", x.val, FALSE) ELSE link[s]]
  BY DEF AssignLinks
<1>11. /\ link' \in [Refs -> LinkTypes]
       /\ \A r \in Refs \ S : link'[r] = link[r]
       /\ \A r \in S : link'[r] \notin {Symbol, Gone} /\ link'[r].ext = i
  <2> HIDE DEF live, unclone, fixed
  <2> QED
    BY <1>7, <1>9, <1>10 DEF Typed
<1> HIDE DEF e, S, lists
<1> QED
  BY <1>2, <1>5, <1>6, <1>7, <1>8, <1>11, ListsPruned

\* compiler_recache_split on its own.
LEMMA SplitLists ==
  ASSUME Typed, LocInv, RefsInv, Listed, NEW p \in Procs, pc[p] = "dExt",
         exts' = Split(p), link' = link
  PROVE  ListTypes /\ Kept
<1> DEFINE i == loc[p].ext
           x == exts[i]
           lists == [k \in Kinds |-> Alive(x.refs[k])]
           e == [val |-> x.val, clone |-> x.clone, refs |-> lists]
<1>1. i \in DOMAIN exts /\ x \in ExtTypes
  BY DEF LocInv, Typed
<1>2. lists \in [Kinds -> SUBSET Refs]
  BY <1>1 DEF ExtTypes, Alive
<1>3. e \in ExtTypes /\ e.refs = lists
  BY <1>1, <1>2 DEF ExtTypes
<1>4. exts' = [exts EXCEPT ![i].refs = lists]
  BY DEF Split
<1>5. exts' = [exts EXCEPT ![i] = e]
  <2> HIDE DEF x, lists
  <2>1. [x EXCEPT !.refs = lists] = e
    BY <1>1, ExtensionChanged
  <2> QED
    BY <1>4, <2>1 DEF x
<1>6. \A k \in Kinds : e.refs[k] \subseteq x.refs[k] /\ Alive(x.refs[k]) \subseteq e.refs[k]
  BY DEF Alive
<1> HIDE DEF e
<1> QED
  BY <1>1, <1>3, <1>5, <1>6, EntriesPruned

LEMMA DefineExtLists ==
  ASSUME Typed, Roles, LocInv, RefsInv, Listed, NEW p \in Procs, DefineExt(p)
  PROVE  ListTypes /\ Refiled(p)
<1> DEFINE i == loc[p].ext
           n == Len(exts) + 1
           x == exts[i]
           v == op[p].val
           moved == [k \in Kinds |-> Moved(p, k)]
           clone == moved["operator"] # {} /\ moved["assignment"] # {}
           lists == [k \in Kinds |-> Alive(x.refs[k]) \ moved[k]]
           e == [val |-> x.val, clone |-> x.clone, refs |-> lists]
           new == [val |-> v, clone |-> clone, refs |-> moved]
           old == [exts EXCEPT ![i] = e]
<1>1. pc[p] = "dExt"
  BY DEF DefineExt, At
<1>2. /\ i \in DOMAIN exts /\ x \in ExtTypes /\ exts \in Seq(ExtTypes)
      /\ Len(exts) \in Nat /\ i # n
  BY <1>1 DEF LocInv, Typed
<1>3. v \in Contents
  <2>1. op[p] \in OpTypes /\ op[p].kind = "define"
    BY <1>1 DEF Typed, Roles, NoOp
  <2> QED
    BY <2>1, Operations
<1>4. /\ moved \in [Kinds -> SUBSET Refs] /\ lists \in [Kinds -> SUBSET Refs]
      /\ clone \in BOOLEAN
  BY <1>2 DEF ExtTypes, Alive, Moved
<1>5. e \in ExtTypes /\ e.refs = lists
  BY <1>2, <1>4 DEF ExtTypes
<1>6. new \in ExtTypes /\ new.refs = moved
  BY <1>3, <1>4 DEF ExtTypes
<1>7. exts' = Append([exts EXCEPT ![i].refs = lists], new)
  BY DEF DefineExt
<1>8. [exts EXCEPT ![i].refs = lists] = old
  <2> HIDE DEF x, lists
  <2>1. [x EXCEPT !.refs = lists] = e
    BY <1>2, ExtensionChanged
  <2> QED
    BY <2>1 DEF x
<1>9. link' = [r \in Refs |-> IF r \in moved[KindOf[r]]
                              THEN Cached(n, KindOf[r], v, clone) ELSE link[r]]
  BY DEF DefineExt
<1>10. \A r \in Refs : /\ KindOf[r] \in Kinds
                       /\ Cached(n, KindOf[r], v, clone) \in LinkTypes
                       /\ Cached(n, KindOf[r], v, clone).ext = n
                       /\ Cached(n, KindOf[r], v, clone) \notin {Symbol, Gone}
  <2> SUFFICES ASSUME NEW r \in Refs
      PROVE  /\ KindOf[r] \in Kinds
             /\ Cached(n, KindOf[r], v, clone) \in LinkTypes
             /\ Cached(n, KindOf[r], v, clone).ext = n
             /\ Cached(n, KindOf[r], v, clone) \notin {Symbol, Gone}
    OBVIOUS
  <2>1. KindOf[r] \in Kinds /\ n \in Nat
    BY <1>2, CacheAssumption
  <2> HIDE DEF clone, v, n
  <2> QED
    BY <1>3, <1>4, <2>1, MadeLink
<1>11. /\ old \in Seq(ExtTypes) /\ Len(old) = Len(exts) /\ DOMAIN old = DOMAIN exts
       /\ \A j \in DOMAIN exts : old[j] = IF j = i THEN e ELSE exts[j]
  <2> HIDE DEF e
  <2> QED
    BY <1>2, <1>5, PutAt
<1>12. /\ exts' \in Seq(ExtTypes) /\ Len(exts') = Len(exts) + 1
       /\ DOMAIN exts' = DOMAIN exts \cup {n}
       /\ \A j \in DOMAIN exts : exts'[j] = IF j = i THEN e ELSE exts[j]
       /\ exts'[n] = new
  <2> HIDE DEF old, new, e
  <2>1. exts' = Append(old, new)
    BY <1>7, <1>8
  <2> QED
    BY <1>6, <1>11, <2>1, AddAtEnd
<1>13. link' \in [Refs -> LinkTypes]
  <2> HIDE DEF moved, clone, v
  <2> QED
    BY <1>9, <1>10 DEF Typed
<1>14. ListTypes
  BY <1>2, <1>12, <1>13 DEF ListTypes
<1>15. \A r \in Refs : IF r \in Moved(p, KindOf[r])
                       THEN link'[r] \notin {Symbol, Gone} /\ link'[r].ext = n
                       ELSE link'[r] = link[r]
  <2>1. \A r \in Refs : moved[KindOf[r]] = Moved(p, KindOf[r])
    BY <1>10
  <2> HIDE DEF moved, clone, v, n
  <2> QED
    BY <1>9, <1>10, <2>1
<1>16. /\ \A j \in DOMAIN exts \ {i}, k \in Kinds : exts'[j].refs[k] = exts[j].refs[k]
       /\ \A k \in Kinds : /\ exts'[n].refs[k] = Moved(p, k)
                           /\ exts'[i].refs[k] = Alive(x.refs[k]) \ Moved(p, k)
  <2>1. \A k \in Kinds : moved[k] = Moved(p, k) /\ lists[k] = Alive(x.refs[k]) \ Moved(p, k)
    OBVIOUS
  <2> HIDE DEF moved, lists, e, new
  <2> QED
    BY <1>2, <1>5, <1>6, <1>12, <2>1
<1> QED
  BY <1>12, <1>14, <1>15, <1>16 DEF Refiled

LEMMA CollectLists ==
  ASSUME Typed, NEW r \in Refs, Collect(r)
  PROVE  ListTypes /\ Lost
<1>1. Gone \in LinkTypes
  BY DEF Gone, Link, LinkTypes, Contents
<1> QED
  BY <1>1 DEF Collect, Typed, ListTypes, Lost, Set

\* Every step of a processor does one of these things.
LEMMA StepLists ==
  ASSUME IInv, NEW p \in Procs, Step(p)
  PROVE  /\ ListTypes
         /\ \/ Kept
            \/ Filed(p) /\ pc[p] = "cExt"
            \/ Refiled(p) /\ pc[p] = "dExt"
<1> USE DEF IInv
<1>1. CASE UNCHANGED <<exts, link>>
  BY <1>1, UnchangedLists
<1>2. CASE CacheRecache(p)
  BY <1>2, CacheRecacheLists
<1>3. CASE CacheExt(p)
  BY <1>3, CacheExtLists DEF CacheExt, At
<1>4. CASE AssignExt(p)
  BY <1>4, AssignExtLists
<1>5. CASE AssignLinks(p)
  BY <1>5, AssignLinksLists
<1>6. CASE LinksFull(p)
  BY <1>6, AssignRevertsLists DEF LinksFull, At
<1>7. CASE LinksInterrupted(p)
  <2>1. {} \in SUBSET Alive(exts[loc[p].ext].refs["operator"])
    OBVIOUS
  <2> QED
    BY <1>7, <2>1, AssignRevertsLists DEF LinksInterrupted, At
<1>8. CASE DefineNothing(p) \/ DefineFull(p)
  BY <1>8, SplitLists DEF DefineNothing, DefineFull, At
<1>9. CASE DefineExt(p)
  BY <1>9, DefineExtLists DEF DefineExt, At
<1>10. CASE Begin(p) \/ WaitInterrupted(p) \/ StartCache(p) \/ CacheLock(p)
            \/ CacheBeaten(p) \/ StartAssign(p) \/ StartCompiled(p) \/ AssignCell(p)
            \/ StartRedefine(p) \/ Extend(p) \/ DefineLock(p) \/ DefineRecache(p)
            \/ Define(p)
  <2>1. UNCHANGED <<exts, link>>
    BY <1>10 DEF Begin, WaitInterrupted, StartCache, Starts, CacheLock, CacheBeaten,
       StartAssign, StartCompiled, AssignCell, StartRedefine, Extend, DefineLock,
       DefineRecache, Define, shared
  <2> QED
    BY <1>1, <2>1
<1> QED
  BY <1>2, <1>3, <1>4, <1>5, <1>6, <1>7, <1>8, <1>9, <1>10 DEF Step

-----------------------------------------------------------------------------
(* The lists stay right *)

\* An entry is for a reference, whose kind is that of the list.
LEMMA EntryKinds ==
  ASSUME Typed, NEW i \in DOMAIN exts, NEW k \in Kinds, NEW r \in exts[i].refs[k]
  PROVE  r \in Refs
<1>1. exts[i] \in ExtTypes
  BY DEF Typed
<1> QED
  BY <1>1 DEF ExtTypes

LEMMA KeptLists ==
  ASSUME Typed, ListTypes, RefsInv, Listed, Kept
  PROVE  RefsInv' /\ Listed'
<1>1. \A i \in DOMAIN exts', k \in Kinds : \A r \in exts'[i].refs[k] :
         i \in DOMAIN exts /\ r \in exts[i].refs[k]
  BY DEF Kept
<1>2. \A r \in Refs : link[r] # Symbol => link'[r] # Symbol
  BY DEF Kept
<1>3. RefsInv'
  BY <1>1, <1>2, EntryKinds DEF RefsInv
<1>4. ASSUME NEW r \in Refs, link'[r] \notin {Symbol, Gone}
      PROVE  /\ link'[r].ext \in DOMAIN exts'
             /\ \A i \in DOMAIN exts' :
                   i = link'[r].ext <=> \E k \in Kinds : r \in exts'[i].refs[k]
  <2>1. link[r] \notin {Symbol, Gone} /\ link'[r].ext = link[r].ext
    BY <1>4 DEF Kept
  <2>2. link'[r].ext \in DOMAIN exts /\ DOMAIN exts \subseteq DOMAIN exts'
    BY <2>1 DEF Listed, ListTypes
  <2>3. ASSUME NEW i \in DOMAIN exts', i = link'[r].ext
        PROVE  \E k \in Kinds : r \in exts'[i].refs[k]
    <3>1. PICK k \in Kinds : r \in exts[i].refs[k]
      BY <2>1, <2>2, <2>3 DEF Listed
    <3>2. r \in Alive(exts[i].refs[k])
      BY <2>1, <3>1 DEF Alive
    <3> QED
      BY <2>1, <2>2, <2>3, <3>2 DEF Kept
  <2>4. ASSUME NEW i \in DOMAIN exts', NEW k \in Kinds, r \in exts'[i].refs[k]
        PROVE  i = link'[r].ext
    BY <1>1, <2>1, <2>4 DEF Listed
  <2> QED
    BY <2>2, <2>3, <2>4
<1> QED
  BY <1>3, <1>4 DEF Listed

LEMMA LostLists ==
  ASSUME Typed, ListTypes, RefsInv, Listed, Lost
  PROVE  RefsInv' /\ Listed'
<1>1. Gone # Symbol
  BY DEF Gone, Symbol, Link
<1>2. \A r \in Refs : link[r] # Symbol => link'[r] # Symbol
  BY <1>1 DEF Lost
<1>3. RefsInv'
  BY <1>2, EntryKinds DEF RefsInv, Lost
<1>4. \A r \in Refs : link'[r] \notin {Symbol, Gone} => link'[r] = link[r]
  BY DEF Lost
<1> QED
  BY <1>3, <1>4 DEF Listed, Lost

LEMMA FiledLists ==
  ASSUME Typed, ListTypes, RefsInv, Listed, NEW p \in Procs, Filed(p),
         op[p].ref \in Refs, link[op[p].ref] = Symbol, loc[p].ext \in DOMAIN exts
  PROVE  RefsInv' /\ Listed'
<1> DEFINE f == op[p].ref
           x == loc[p].ext
<1>1. \A i \in DOMAIN exts', k \in Kinds : \A r \in exts'[i].refs[k] :
         i \in DOMAIN exts /\ (r \in exts[i].refs[k] \/ (r = f /\ i = x /\ k = KindOf[f]))
  BY DEF Filed
<1>2. \A i \in DOMAIN exts, k \in Kinds : f \notin exts[i].refs[k]
  BY DEF RefsInv
<1>3. \A r \in Refs : link[r] # Symbol \/ r = f => link'[r] # Symbol
  BY DEF Filed
<1>4. RefsInv'
  BY <1>1, <1>3, EntryKinds DEF RefsInv
<1>5. f \in exts'[x].refs[KindOf[f]] /\ link'[f].ext = x /\ DOMAIN exts' = DOMAIN exts
      /\ KindOf[f] \in Kinds
  BY CacheAssumption DEF Filed
<1>6. /\ link'[f].ext \in DOMAIN exts'
      /\ \A i \in DOMAIN exts' :
            i = link'[f].ext <=> \E k \in Kinds : f \in exts'[i].refs[k]
  BY <1>1, <1>2, <1>5
<1>7. ASSUME NEW r \in Refs, r # f, link'[r] \notin {Symbol, Gone}
      PROVE  /\ link'[r].ext \in DOMAIN exts'
             /\ \A i \in DOMAIN exts' :
                   i = link'[r].ext <=> \E k \in Kinds : r \in exts'[i].refs[k]
  <2>1. link[r] \notin {Symbol, Gone} /\ link'[r].ext = link[r].ext
    BY <1>7 DEF Filed
  <2>2. link'[r].ext \in DOMAIN exts /\ DOMAIN exts = DOMAIN exts'
    BY <2>1, <1>5 DEF Listed
  <2>3. ASSUME NEW i \in DOMAIN exts', i = link'[r].ext
        PROVE  \E k \in Kinds : r \in exts'[i].refs[k]
    <3>1. PICK k \in Kinds : r \in exts[i].refs[k]
      BY <2>1, <2>2, <2>3 DEF Listed
    <3>2. r \in Alive(exts[i].refs[k])
      BY <2>1, <3>1 DEF Alive
    <3> QED
      BY <2>1, <2>2, <2>3, <3>2 DEF Filed
  <2>4. ASSUME NEW i \in DOMAIN exts', NEW k \in Kinds, r \in exts'[i].refs[k]
        PROVE  i = link'[r].ext
    BY <1>1, <1>7, <2>1, <2>4 DEF Listed
  <2> QED
    BY <2>2, <2>3, <2>4
<1> QED
  BY <1>4, <1>6, <1>7 DEF Listed

LEMMA RefiledLists ==
  ASSUME Typed, ListTypes, RefsInv, Listed, NEW p \in Procs, Refiled(p),
         loc[p].ext \in DOMAIN exts
  PROVE  RefsInv' /\ Listed'
<1> DEFINE x == Len(exts) + 1
           y == loc[p].ext
<1>1. Len(exts) \in Nat /\ x \notin DOMAIN exts /\ DOMAIN exts' = DOMAIN exts \cup {x}
  BY DEF Typed, Refiled
<1>2. \A k \in Kinds : \A r \in Moved(p, k) :
         /\ r \in Refs /\ r \in exts[y].refs[k] /\ KindOf[r] = k
         /\ link[r] \notin {Symbol, Gone} /\ link[r].ext = y
  BY AliveLinks DEF Moved, Alive
<1>3. /\ \A k \in Kinds : exts'[x].refs[k] = Moved(p, k)
      /\ \A k \in Kinds : exts'[y].refs[k] = Alive(exts[y].refs[k]) \ Moved(p, k)
      /\ \A i \in DOMAIN exts \ {y}, k \in Kinds : exts'[i].refs[k] = exts[i].refs[k]
  BY DEF Refiled
<1>4. \A r \in Refs : KindOf[r] \in Kinds
  BY CacheAssumption
<1>5. \A r \in Refs : IF r \in Moved(p, KindOf[r])
                      THEN link'[r] \notin {Symbol, Gone} /\ link'[r].ext = x
                      ELSE link'[r] = link[r]
  BY DEF Refiled
<1>6. \A r \in Refs : link[r] # Symbol => link'[r] # Symbol
  BY <1>5
<1>7. \A i \in DOMAIN exts', k \in Kinds : \A r \in exts'[i].refs[k] :
         r \in exts[IF i = x THEN y ELSE i].refs[k]
  <2> HIDE DEF x, y
  <2> QED
    BY <1>1, <1>2, <1>3 DEF Alive
<1>8. RefsInv'
  <2> HIDE DEF x, y
  <2>1. y \in DOMAIN exts
    BY DEF y
  <2> QED
    BY <1>1, <1>6, <1>7, <2>1, EntryKinds DEF RefsInv
<1>9. ASSUME NEW r \in Refs, r \in Moved(p, KindOf[r])
      PROVE  /\ link'[r].ext \in DOMAIN exts'
             /\ \A i \in DOMAIN exts' :
                   i = link'[r].ext <=> \E k \in Kinds : r \in exts'[i].refs[k]
  <2>1. link'[r].ext = x /\ KindOf[r] \in Kinds /\ x # y
    BY <1>1, <1>4, <1>5, <1>9
  <2>2. r \in exts'[x].refs[KindOf[r]]
    BY <1>3, <1>9, <2>1
  <2>3. ASSUME NEW i \in DOMAIN exts, NEW k \in Kinds, r \in exts'[i].refs[k]
        PROVE  FALSE
    <3>1. i = y
      BY <1>1, <1>2, <1>3, <1>4, <1>9, <2>3 DEF Listed
    <3>2. r \in exts[y].refs[k] /\ r \notin Moved(p, k)
      BY <1>3, <2>3, <3>1 DEF Alive
    <3>3. KindOf[r] = k
      BY <3>2 DEF RefsInv
    <3> QED
      BY <1>9, <3>2, <3>3
  <2> HIDE DEF x, y
  <2> QED
    BY <1>1, <2>1, <2>2, <2>3
<1>10. ASSUME NEW r \in Refs, r \notin Moved(p, KindOf[r]), link'[r] \notin {Symbol, Gone}
       PROVE  /\ link'[r].ext \in DOMAIN exts'
              /\ \A i \in DOMAIN exts' :
                    i = link'[r].ext <=> \E k \in Kinds : r \in exts'[i].refs[k]
  <2>1. link'[r] = link[r] /\ link[r] \notin {Symbol, Gone}
    BY <1>5, <1>10
  <2>2. link[r].ext \in DOMAIN exts
    BY <2>1 DEF Listed
  <2>3. \A k \in Kinds : r \notin Moved(p, k)
    BY <1>2, <1>10
  <2>4. \A i \in DOMAIN exts, k \in Kinds : r \in exts'[i].refs[k] <=> r \in exts[i].refs[k]
    BY <1>3, <2>1, <2>3 DEF Alive
  <2>5. \A k \in Kinds : r \notin exts'[x].refs[k]
    BY <1>3, <2>3
  <2> HIDE DEF x, y
  <2> QED
    BY <1>1, <2>1, <2>2, <2>4, <2>5 DEF Listed
<1> QED
  BY <1>8, <1>9, <1>10 DEF Listed

-----------------------------------------------------------------------------
(* Where the processors are *)

\* The places a processor goes to from each place, with the same operation ...
From(l) == CASE l = "idle"     -> {"start"}
             [] l = "start"    -> {"cLock", "aLock", "aExt", "dLock"}
             [] l = "cLock"    -> {"cRecache", "start"}
             [] l = "cRecache" -> {"cExt", "start"}
             [] l = "cExt"     -> {"start"}
             [] l = "aLock"    -> {"aLock", "aExt"}
             [] l = "aExt"     -> {"aLinks"}
             [] l = "aLinks"   -> {"start"}
             [] l = "dLock"    -> {"aLock", "dDefine", "dRecache"}
             [] l = "dRecache" -> {"dExt", "start"}
             [] l = "dExt"     -> {"dDefine", "start"}
             [] l = "dDefine"  -> {"aLock"}

\* ... and what operations start with each place.
Entry(l) == CASE l = "cLock" -> {"cache"}
              [] l = "aExt"  -> {"compiled"}
              [] l = "dLock" -> {"define"}
              [] OTHER       -> {"assign", "define"}

Goes(p) ==
    \/ Goto(p, "idle") /\ op' = Set(op, p, NoOp)
    \/ \E to \in From(pc[p]) :
          /\ Goto(p, to)
          /\ \/ pc[p] = "idle" /\ \E o \in Ops[p] : op' = Set(op, p, o)
             \/ /\ pc[p] # "idle" /\ op' = op
                /\ pc[p] = "start" => op[p].kind \in Entry(to)

Counts(p) == /\ \/ made' = made
                \/ made[p] < MaxOps[p] /\ made' = Set(made, p, made[p] + 1)
             /\ \/ full' = full
                \/ full < MaxFull /\ full' = full + 1

LEMMA StepGoes ==
  ASSUME Typed, NEW p \in Procs, Step(p)
  PROVE  Goes(p) /\ Counts(p)
<1>1. CASE Begin(p)
  BY <1>1 DEF Begin, Goto, At, locks, own, Goes, Counts, From, Entry
<1>2. CASE WaitInterrupted(p)
  BY <1>2 DEF WaitInterrupted, BackOut, Goto, At, locks, own, Goes, Counts, From, Entry
<1>3. CASE StartCache(p)
  BY <1>3 DEF StartCache, Starts, Goto, At, locks, own, Goes, Counts, From, Entry
<1>4. CASE CacheLock(p)
  BY <1>4 DEF CacheLock, Goto, At, locks, own, Goes, Counts, From, Entry
<1>5. CASE CacheBeaten(p)
  BY <1>5 DEF CacheBeaten, Done, Goto, At, locks, own, Goes, Counts, From, Entry
<1>6. CASE CacheRecache(p)
  BY <1>6 DEF CacheRecache, HeapFull, BackOut, Goto, At, locks, own, Goes, Counts, From, Entry
<1>7. CASE CacheExt(p)
  BY <1>7 DEF CacheExt, Done, HeapFull, BackOut, Goto, At, locks, own, Goes, Counts, From, Entry
<1>8. CASE StartAssign(p)
  BY <1>8 DEF StartAssign, Starts, Goto, At, locks, own, Goes, Counts, From, Entry
<1>9. CASE StartCompiled(p)
  BY <1>9 DEF StartCompiled, Starts, Goto, At, locks, own, Goes, Counts, From, Entry
<1>10. CASE AssignCell(p)
  <2>1. pc[p] = "aLock" => pc = [pc EXCEPT ![p] = "aLock"]
    BY DEF Typed
  <2> QED
    BY <1>10, <2>1 DEF AssignCell, Done, Goto, Set, At, locks, own, Goes, Counts, From
<1>11. CASE AssignExt(p)
  BY <1>11 DEF AssignExt, Done, Goto, At, locks, own, Goes, Counts, From, Entry
<1>12. CASE AssignLinks(p)
  BY <1>12 DEF AssignLinks, Done, Goto, At, locks, own, Goes, Counts, From, Entry
<1>13. CASE LinksFull(p)
  BY <1>13 DEF LinksFull, HeapFull, BackOut, AssignReverts, Goto, At, locks, own, Goes, Counts, From, Entry
<1>14. CASE LinksInterrupted(p)
  BY <1>14 DEF LinksInterrupted, BackOut, AssignReverts, Goto, At, locks, own, Goes, Counts, From, Entry
<1>15. CASE StartRedefine(p)
  BY <1>15 DEF StartRedefine, Redefine, Goto, At, locks, own, Goes, Counts, From, Entry
<1>16. CASE Extend(p)
  BY <1>16 DEF Extend, Goto, At, locks, own, Goes, Counts, From, Entry
<1>17. CASE DefineLock(p)
  BY <1>17 DEF DefineLock, Redefine, Goto, At, locks, own, Goes, Counts, From, Entry
<1>18. CASE DefineRecache(p)
  BY <1>18 DEF DefineRecache, Goto, At, locks, own, Goes, Counts, From, Entry
<1>19. CASE DefineNothing(p)
  BY <1>19 DEF DefineNothing, Goto, At, locks, own, Goes, Counts, From, Entry
<1>20. CASE DefineFull(p)
  BY <1>20 DEF DefineFull, HeapFull, BackOut, Goto, At, locks, own, Goes, Counts, From, Entry
<1>21. CASE DefineExt(p)
  BY <1>21 DEF DefineExt, Done, Goto, At, locks, own, Goes, Counts, From, Entry
<1>22. CASE Define(p)
  BY <1>22 DEF Define, Done, Redefine, Goto, At, locks, own, Goes, Counts, From, Entry
<1> QED
  BY <1>1, <1>2, <1>3, <1>4, <1>5, <1>6, <1>7, <1>8, <1>9, <1>10, <1>11, <1>12, <1>13, <1>14, <1>15, <1>16, <1>17, <1>18, <1>19, <1>20, <1>21, <1>22 DEF Step

LEMMA GoesTypes ==
  ASSUME Typed, Roles, NEW p \in Procs, Goes(p)
  PROVE  /\ pc' \in [Procs -> Labels] /\ op' \in [Procs -> OpTypes \cup {NoOp}]
         /\ \A q \in Procs : op'[q] \in Ops[q] \cup {NoOp}
         /\ Roles'
<1>1. /\ \A o \in OpTypes : o # NoOp /\ o.kind \in {"cache", "assign", "define", "compiled"}
      /\ Ops[p] \subseteq OpTypes /\ NoOp.kind = "none"
  BY Operations, CacheAssumption DEF NoOp
<1>2. CASE Goto(p, "idle") /\ op' = Set(op, p, NoOp)
  BY <1>1, <1>2 DEF Typed, Roles, Goto, Set, Labels
<1>3. ASSUME pc[p] = "idle", Goto(p, "start"), NEW o \in Ops[p], op' = Set(op, p, o)
      PROVE  /\ pc' \in [Procs -> Labels] /\ op' \in [Procs -> OpTypes \cup {NoOp}]
             /\ \A q \in Procs : op'[q] \in Ops[q] \cup {NoOp}
             /\ Roles'
  BY <1>1, <1>3 DEF Typed, Roles, Goto, Set, Labels
<1>4. ASSUME NEW to \in From(pc[p]), pc[p] # "idle", Goto(p, to), op' = op,
             pc[p] = "start" => op[p].kind \in Entry(to)
      PROVE  /\ pc' \in [Procs -> Labels] /\ op' \in [Procs -> OpTypes \cup {NoOp}]
             /\ \A q \in Procs : op'[q] \in Ops[q] \cup {NoOp}
             /\ Roles'
  <2>1. to \in Labels /\ to # "idle"
    BY <1>4 DEF Typed, Labels, From
  <2>2. /\ op[p] # NoOp
        /\ to \in {"cLock", "cRecache", "cExt"} => op[p].kind = "cache"
        /\ to \in {"aExt", "aLinks"} => op[p].kind \in {"assign", "define", "compiled"}
        /\ to = "aLock" => op[p].kind \in {"assign", "define"}
        /\ to \in {"dLock", "dRecache", "dExt", "dDefine"} => op[p].kind = "define"
    BY <1>4, <2>1 DEF Typed, Roles, Labels, From, Entry
  <2>3. pc' \in [Procs -> Labels] /\ Roles'
    BY <1>4, <2>1, <2>2 DEF Typed, Roles, Goto, Set
  <2> QED
    BY <1>4, <2>3 DEF Typed
<1> QED
  BY <1>2, <1>3, <1>4 DEF Goes, From

LEMMA CountsTypes ==
  ASSUME Typed, NEW p \in Procs, Counts(p)
  PROVE  /\ made' \in [Procs -> Nat] /\ \A q \in Procs : made'[q] <= MaxOps[q]
         /\ full' \in 0 .. MaxFull
<1>1. MaxOps \in [Procs -> Nat] /\ MaxFull \in Nat
  BY CacheAssumption
<1>2. /\ made' \in [Procs -> Nat] /\ \A q \in Procs : made'[q] <= MaxOps[q]
  <2>1. made \in [Procs -> Nat] /\ \A q \in Procs : made[q] <= MaxOps[q]
    BY DEF Typed
  <2>2. CASE made' = made
    BY <2>1, <2>2
  <2>3. CASE made[p] < MaxOps[p] /\ made' = [made EXCEPT ![p] = made[p] + 1]
    BY <1>1, <2>1, <2>3
  <2> QED
    BY <2>2, <2>3 DEF Counts, Set
<1>3. full' \in 0 .. MaxFull
  BY <1>1 DEF Typed, Counts
<1> QED
  BY <1>2, <1>3

-----------------------------------------------------------------------------
(* Cells *)

\* A step fills cells, of which some are new, and empties none.
Fills == /\ cell' \in [Envs -> CellTypes]
         /\ \A e \in Envs : /\ cell'[e] = cell[e] \/ cell'[e].val # NoBinding
                            /\ cell'[e].ext <= Len(exts')

LEMMA CellsUnchanged ==
  ASSUME Typed, CellInv, ListTypes, cell' = cell
  PROVE  Fills
<1>1. \A e \in Envs : cell[e].ext \in Nat /\ cell[e].ext <= Len(exts)
  BY DEF Typed, CellTypes, CellInv
<1>2. Len(exts) \in Nat /\ Len(exts') \in Nat /\ Len(exts) <= Len(exts')
  BY DEF Typed, ListTypes
<1>3. cell \in [Envs -> CellTypes]
  BY DEF Typed
<1> QED
  BY <1>1, <1>2, <1>3 DEF Fills

LEMMA CellFilled ==
  ASSUME Typed, CellInv, ListTypes, NEW e \in Envs, NEW c \in CellTypes,
         c.val # NoBinding, c.ext <= Len(exts'), cell' = [cell EXCEPT ![e] = c]
  PROVE  Fills
<1>1. \A f \in Envs : cell[f].ext \in Nat /\ cell[f].ext <= Len(exts)
  BY DEF Typed, CellTypes, CellInv
<1>2. Len(exts) \in Nat /\ Len(exts') \in Nat /\ Len(exts) <= Len(exts')
  BY DEF Typed, ListTypes
<1>3. cell \in [Envs -> CellTypes]
  BY DEF Typed
<1>4. cell' \in [Envs -> CellTypes] /\ \A f \in Envs : cell'[f] = IF f = e THEN c ELSE cell[f]
  BY <1>3
<1> QED
  BY <1>1, <1>2, <1>4 DEF Fills

LEMMA CacheRecacheFills ==
  ASSUME Typed, CellInv, LocInv, ListTypes, NEW p \in Procs, CacheRecache(p)
  PROVE  Fills
<1> DEFINE e == loc[p].cell
           n == Len(exts) + 1
           c == Cell(cell[e].danger, Unbound, n)
<1>1. e \in Envs /\ cell[e] \in CellTypes
  BY DEF Typed, LocTypes
<1>2. CASE cell' = cell
  BY <1>2, CellsUnchanged
<1>3. ASSUME cell' = Set(cell, e, c),
             exts' = Append(exts, [val |-> cell[e].val, clone |-> FALSE,
                                   refs |-> [k \in Kinds |-> {}]])
      PROVE  Fills
  <2>1. exts \in Seq(ExtTypes) /\ n \in Nat
    BY DEF Typed
  <2>2. Len(exts') \in Nat
    BY DEF ListTypes
  <2>3. n <= Len(exts')
    BY <1>3, <2>1, <2>2
  <2>4. c \in CellTypes /\ c.val # NoBinding /\ c.ext = n
    BY <1>1, <2>1, CacheAssumption DEF Cell, CellTypes, Contents
  <2> HIDE DEF c, e, n
  <2> QED
    BY <1>1, <1>3, <2>3, <2>4, CellFilled DEF Set
<1> QED
  BY <1>2, <1>3 DEF CacheRecache, shared

LEMMA AssignCellFills ==
  ASSUME Typed, Roles, CellInv, ListTypes, NEW p \in Procs, AssignCell(p),
         cell[loc[p].cell].val # NoBinding
  PROVE  Fills
<1> DEFINE e == loc[p].cell
           v == Assigned(p, cell[e].val)
           c == [cell[e] EXCEPT !.val = v]
<1>1. e \in Envs /\ cell[e] \in CellTypes /\ cell[e].ext <= Len(exts)
  BY DEF Typed, LocTypes, CellInv
<1>2. CASE cell' = cell
  BY <1>2, CellsUnchanged
<1>3. ASSUME cell' = [cell EXCEPT ![e].val = v]
      PROVE  Fills
  <2>1. v \in Contents
    <3>1. op[p].kind \in {"assign", "define", "compiled"}
      BY DEF AssignCell, At, Roles
    <3> QED
      BY <1>1, <3>1, AssignedTypes DEF CellTypes
  <2>2. c \in CellTypes /\ c.val = v /\ c.ext = cell[e].ext /\ v # NoBinding
    <3> HIDE DEF v
    <3> QED
      BY <1>1, <2>1, CacheAssumption DEF CellTypes, Contents
  <2>3. Len(exts) \in Nat /\ Len(exts') \in Nat /\ Len(exts) <= Len(exts')
        /\ cell[e].ext \in Nat
    BY <1>1 DEF Typed, ListTypes, CellTypes
  <2>4. c.ext <= Len(exts')
    BY <1>1, <2>2, <2>3
  <2>5. cell' = [cell EXCEPT ![e] = c]
    BY <1>3
  <2> HIDE DEF c, e
  <2> QED
    BY <1>1, <2>2, <2>4, <2>5, CellFilled
<1> QED
  BY <1>2, <1>3 DEF AssignCell, shared

LEMMA ExtendFills ==
  ASSUME Typed, CellInv, ListTypes, NEW p \in Procs, Extend(p), op[p].env \in Envs
  PROVE  Fills
<1> DEFINE e == op[p].env
           w == Visible(e)
           c == [cell[w] EXCEPT !.danger = TRUE]
<1>1. w \in Envs /\ (w = Global \/ Binds(w))
  BY LookupFinds
<1>2. cell[w] \in CellTypes /\ cell[w].val # NoBinding
  BY <1>1 DEF Typed, CellInv, Binds
<1>3. c \in CellTypes /\ c.val # NoBinding /\ c.ext = cell[w].ext
  BY <1>2 DEF CellTypes
<1>4. Placeholder \in CellTypes /\ Placeholder.val # NoBinding /\ Placeholder.ext = 0
  BY CacheAssumption DEF Placeholder, Cell, CellTypes, Contents
<1>5. cell' = [f \in Envs |->
                 IF f = w THEN c
                 ELSE IF f \in ToSet(Chain[e]) /\ f \notin ToSet(Above(w))
                 THEN Placeholder ELSE cell[f]]
  BY DEF Extend
<1>6. \A f \in Envs : cell[f] \in CellTypes /\ cell[f].ext \in Nat /\ cell[f].ext <= Len(exts)
  BY DEF Typed, CellTypes, CellInv
<1>7. Len(exts) \in Nat /\ Len(exts') \in Nat /\ Len(exts) <= Len(exts')
  BY DEF Typed, ListTypes
<1> HIDE DEF c, w, e
<1> QED
  BY <1>1, <1>3, <1>4, <1>5, <1>6, <1>7 DEF Fills

LEMMA DefineExtFills ==
  ASSUME Typed, CellInv, ListTypes, NEW p \in Procs, DefineExt(p), Refiled(p)
  PROVE  Fills
<1> DEFINE n == Len(exts) + 1
           e == loc[p].cell
           c == Cell(loc[p].shadowed, Unbound, n)
<1>1. e \in Envs /\ loc[p].shadowed \in BOOLEAN
  BY DEF Typed, LocTypes
<1>2. n \in Nat /\ n <= Len(exts')
  <2>1. Len(exts) \in Nat /\ exts' \in Seq(ExtTypes)
    BY DEF Typed, ListTypes
  <2>2. n \in DOMAIN exts' /\ DOMAIN exts' = 1 .. Len(exts')
    BY <2>1 DEF Refiled
  <2> QED
    BY <2>1, <2>2
<1>3. c \in CellTypes /\ c.val # NoBinding /\ c.ext = n
  BY <1>1, <1>2, CacheAssumption DEF Cell, CellTypes, Contents
<1>4. cell' = [cell EXCEPT ![e] = c]
  BY DEF DefineExt, Set
<1> HIDE DEF n, c, e
<1> QED
  BY <1>1, <1>2, <1>3, <1>4, CellFilled

LEMMA DefineFills ==
  ASSUME Typed, CellInv, ListTypes, NEW p \in Procs, Define(p), op[p].val \in Contents
  PROVE  Fills
<1> DEFINE e == loc[p].cell
           c == Cell(FALSE, op[p].val, 0)
<1>1. e \in Envs
  BY DEF Typed, LocTypes
<1>2. Len(exts') \in Nat
  BY DEF ListTypes
<1>3. c \in CellTypes /\ c.val # NoBinding /\ c.ext = 0
  BY CacheAssumption DEF Cell, CellTypes, Contents
<1>4. CASE cell' = Set(cell, e, c)
  <2> HIDE DEF c, e
  <2>1. c.ext <= Len(exts') /\ cell' = [cell EXCEPT ![e] = c]
    BY <1>2, <1>3, <1>4 DEF Set
  <2> QED
    BY <1>1, <1>3, <2>1, CellFilled
<1>5. CASE cell' = cell
  BY <1>5, CellsUnchanged
<1> QED
  BY <1>4, <1>5 DEF Define

LEMMA OpFacts ==
  ASSUME Typed, Roles, NEW p \in Procs, pc[p] # "idle"
  PROVE  /\ op[p] \in OpTypes
         /\ op[p].kind = "cache" => op[p].ref \in Refs
         /\ op[p].kind = "compiled" => op[p].ref \in Refs /\ op[p].val \in Contents
         /\ op[p].kind \in {"assign", "define"} => op[p].env \in Envs /\ op[p].val \in Contents
<1>1. op[p] \in OpTypes
  BY DEF Typed, Roles, NoOp
<1> QED
  BY <1>1, Operations

LEMMA StepFills ==
  ASSUME IInv, NEW p \in Procs, Step(p)
  PROVE  Fills
<1> USE DEF IInv
<1>0. ListTypes
  BY StepLists
<1>1. CASE CacheRecache(p)
  BY <1>0, <1>1, CacheRecacheFills
<1>2. CASE AssignCell(p)
  BY <1>0, <1>2, AssignCellFills DEF LocInv
<1>3. CASE Extend(p)
  <2>1. op[p].env \in Envs
    BY <1>3, OpFacts DEF Extend, At
  <2> QED
    BY <1>0, <1>3, <2>1, ExtendFills
<1>4. CASE DefineExt(p)
  BY <1>0, <1>4, DefineExtLists, DefineExtFills
<1>5. CASE Define(p)
  <2>1. op[p].val \in Contents
    BY <1>5, OpFacts DEF Define, At, Roles
  <2> QED
    BY <1>0, <1>5, <2>1, DefineFills
<1>6. CASE Begin(p) \/ WaitInterrupted(p) \/ StartCache(p) \/ CacheLock(p)
           \/ CacheBeaten(p) \/ CacheExt(p) \/ StartAssign(p) \/ StartCompiled(p)
           \/ AssignExt(p) \/ AssignLinks(p) \/ LinksFull(p) \/ LinksInterrupted(p)
           \/ StartRedefine(p) \/ DefineLock(p) \/ DefineRecache(p)
           \/ DefineNothing(p) \/ DefineFull(p)
  <2>1. cell' = cell
    BY <1>6 DEF Begin, WaitInterrupted, StartCache, Starts, CacheLock, CacheBeaten,
       CacheExt, CacheUntouched, StartAssign, StartCompiled, AssignExt, AssignLinks,
       LinksFull, LinksInterrupted, AssignReverts, StartRedefine, DefineLock,
       DefineRecache, DefineNothing, DefineFull, shared
  <2> QED
    BY <1>0, <2>1, CellsUnchanged
<1> QED
  BY <1>1, <1>2, <1>3, <1>4, <1>5, <1>6 DEF Step

LEMMA FillsCells ==
  ASSUME Typed, CellInv, ListTypes, Fills
  PROVE  CellInv' /\ \A e \in Envs : cell[e].val # NoBinding => cell'[e].val # NoBinding
<1>1. Global \in Envs
  BY DEF Envs
<1> QED
  BY <1>1 DEF CellInv, Fills

-----------------------------------------------------------------------------
(* Local variables *)

\* What a step leaves in the local variables of its processor.
Remembers(p) ==
    /\ loc' \in [Procs -> LocTypes]
    /\ \A q \in Procs \ {p} : loc'[q] = loc[q]
    /\ cell'[loc'[p].cell].val # NoBinding
    /\ pc'[p] \in {"cExt", "aExt", "aLinks", "dRecache", "dExt"} =>
          loc'[p].ext \in DOMAIN exts'

LEMMA LocalWritten ==
  ASSUME Typed, NEW p \in Procs, NEW l \in LocTypes, loc' = [loc EXCEPT ![p] = l],
         NEW to, pc' = [pc EXCEPT ![p] = to], cell'[l.cell].val # NoBinding,
         to \in {"cExt", "aExt", "aLinks", "dRecache", "dExt"} => l.ext \in DOMAIN exts'
  PROVE  Remembers(p)
BY DEF Typed, Remembers

LEMMA NothingWritten ==
  ASSUME Typed, LocInv, ListTypes, CellInv, Fills, NEW p \in Procs, loc' = loc,
         pc'[p] \notin {"cExt", "aExt", "aLinks", "dRecache", "dExt"}
  PROVE  Remembers(p)
<1>1. loc \in [Procs -> LocTypes]
  BY DEF Typed
<1>2. loc[p].cell \in Envs
  BY <1>1 DEF LocTypes
<1> QED
  BY <1>1, <1>2, FillsCells DEF Remembers, LocInv

LEMMA NoLocalsTypes ==
  NoLocals \in LocTypes /\ NoLocals.cell = Global /\ NoLocals.h1 = Free /\ NoLocals.h2 = Free
BY DEF NoLocals, LocTypes, Envs, Handles, Contents

\* The end of a call, or its start.
LEMMA NothingRemembered ==
  ASSUME Typed, CellInv, ListTypes, Fills, NEW p \in Procs,
         Local(p, NoLocals), NEW to \in {"idle", "start"}, Goto(p, to)
  PROVE  Remembers(p)
<1>1. cell'[Global].val # NoBinding
  BY FillsCells DEF CellInv
<1> HIDE DEF NoLocals
<1> QED
  BY <1>1, NoLocalsTypes, LocalWritten DEF Local, Goto, Set

\* The lookups that a call begins with.
LEMMA StartRemembers ==
  ASSUME IInv, ListTypes, Fills, NEW p \in Procs,
         StartCache(p) \/ StartAssign(p) \/ StartRedefine(p) \/ StartCompiled(p)
  PROVE  Remembers(p)
<1> USE DEF IInv
<1>0. pc[p] = "start"
  BY DEF StartCache, StartAssign, StartRedefine, StartCompiled, Starts, At
<1>1. ASSUME NEW e \in Envs, NEW to \in {"cLock", "aLock"}, Goto(p, to),
             e = Global \/ Binds(e),
             \/ Local(p, [NoLocals EXCEPT !.cell = e])
             \/ Local(p, [NoLocals EXCEPT !.cell = e, !.deep = TRUE, !.force = TRUE])
      PROVE  Remembers(p)
  <2>1. cell[e].val # NoBinding
    BY <1>1 DEF CellInv, Binds
  <2>2. cell'[e].val # NoBinding
    BY <2>1, FillsCells
  <2>3. PICK l \in LocTypes : l.cell = e /\ Local(p, l)
    <3>1. /\ [NoLocals EXCEPT !.cell = e] \in LocTypes
          /\ [NoLocals EXCEPT !.cell = e].cell = e
          /\ [NoLocals EXCEPT !.cell = e, !.deep = TRUE, !.force = TRUE] \in LocTypes
          /\ [NoLocals EXCEPT !.cell = e, !.deep = TRUE, !.force = TRUE].cell = e
      BY NoLocalsTypes DEF LocTypes
    <3> QED
      BY <1>1, <3>1
  <2> QED
    BY <1>1, <2>2, <2>3, LocalWritten DEF Local, Goto, Set
<1>2. CASE StartCache(p)
  <2>1. EnvOf[op[p].ref] \in Envs
    <3>1. op[p].ref \in Refs
      BY <1>0, <1>2, OpFacts DEF StartCache, Starts
    <3> QED
      BY <3>1, CacheAssumption
  <2> QED
    BY <1>1, <1>2, <2>1, LookupFinds DEF StartCache, Starts
<1>3. CASE StartAssign(p)
  <2>1. op[p].env \in Envs
    BY <1>0, <1>3, OpFacts DEF StartAssign, Starts
  <2> QED
    BY <1>1, <1>3, <2>1, LookupFinds DEF StartAssign, Starts
<1>4. CASE StartRedefine(p)
  <2>1. op[p].env \in Envs
    BY <1>0, <1>4, OpFacts DEF StartRedefine
  <2> QED
    BY <1>1, <1>4, <2>1 DEF StartRedefine, Redefine
<1>5. CASE StartCompiled(p)
  <2> DEFINE r == op[p].ref
             l == [NoLocals EXCEPT !.ext = link[r].ext, !.deep = link[r].to = "clone"]
  <2>1. op[p].kind = "compiled" /\ Goto(p, "aExt") /\ Local(p, l)
    BY <1>5 DEF StartCompiled, Starts
  <2>2. r \in Refs /\ link[r] \notin {Symbol, Gone}
    BY <1>0, <2>1, OpFacts DEF LocInv
  <2>3. link[r].ext \in DOMAIN exts /\ link[r].ext \in Nat
    BY <2>2 DEF Listed, Typed, LinkTypes
  <2>4. l \in LocTypes /\ l.cell = Global /\ l.ext = link[r].ext
    BY <2>3, NoLocalsTypes DEF LocTypes
  <2>5. cell'[Global].val # NoBinding
    BY FillsCells DEF CellInv
  <2>6. l.ext \in DOMAIN exts'
    BY <2>3, <2>4 DEF ListTypes
  <2> HIDE DEF l
  <2> QED
    BY <2>1, <2>4, <2>5, <2>6, LocalWritten DEF Local, Goto, Set
<1> QED
  BY <1>2, <1>3, <1>4, <1>5

LEMMA CacheRemembers ==
  ASSUME IInv, ListTypes, Fills, NEW p \in Procs, CacheLock(p) \/ CacheRecache(p)
  PROVE  Remembers(p)
<1> USE DEF IInv
<1> DEFINE x == loc[p]
<1>1. x \in LocTypes /\ x.cell \in Envs
  BY DEF Typed, LocTypes
<1>2. cell'[x.cell].val # NoBinding
  BY <1>1, FillsCells DEF LocInv
<1>3. CASE CacheLock(p)
  <2>1. CASE Goto(p, "start") /\ Local(p, NoLocals)
    BY <2>1, NothingRemembered
  <2>2. CASE Goto(p, "cRecache") /\ Local(p, [x EXCEPT !.h1 = Handle(p, Region[x.cell])])
    <3> DEFINE l == [x EXCEPT !.h1 = Handle(p, Region[x.cell])]
    <3>1. Handle(p, Region[x.cell]) \in Handles
      BY <1>1 DEF Handle, Handles, Places
    <3>2. l \in LocTypes /\ l.cell = x.cell
      BY <1>1, <3>1 DEF LocTypes
    <3> HIDE DEF l, x
    <3> QED
      BY <1>2, <2>2, <3>2, LocalWritten DEF Local, Goto, Set, l
  <2> QED
    BY <1>3, <2>1, <2>2 DEF CacheLock
<1>4. CASE CacheRecache(p)
  <2> DEFINE c == cell[x.cell]
             l(n, v, new) == [x EXCEPT !.ext = n, !.val = v, !.new = new, !.h1 = Free]
  <2>1. ASSUME Goto(p, "cExt"), NEW n \in DOMAIN exts', NEW v \in Contents,
               NEW new \in BOOLEAN, Local(p, l(n, v, new))
        PROVE  Remembers(p)
    <3>1. n \in Nat
      BY DEF ListTypes
    <3>2. l(n, v, new) \in LocTypes /\ l(n, v, new).cell = x.cell /\ l(n, v, new).ext = n
      BY <1>1, <3>1 DEF LocTypes, Handles
    <3> HIDE DEF l, x
    <3> QED
      BY <1>2, <2>1, <3>2, LocalWritten DEF Local, Goto, Set
  <2>2. c \in CellTypes /\ c.ext <= Len(exts) /\ c.val # NoBinding
    BY <1>1 DEF Typed, CellInv, LocInv
  <2>3. exts \in Seq(ExtTypes) /\ exts' \in Seq(ExtTypes) /\ DOMAIN exts \subseteq DOMAIN exts'
    BY DEF Typed, ListTypes
  <2>4. CASE c.ext # 0 /\ Goto(p, "cExt") /\ Local(p, l(c.ext, Unbound, FALSE))
    <3>1. c.ext \in DOMAIN exts'
      BY <2>2, <2>3, <2>4 DEF CellTypes
    <3> QED
      BY <2>1, <2>4, <3>1 DEF Contents
  <2>5. CASE /\ Goto(p, "cExt") /\ Local(p, l(Len(exts) + 1, c.val, TRUE))
             /\ exts' = Append(exts, [val |-> c.val, clone |-> FALSE,
                                      refs |-> [k \in Kinds |-> {}]])
    <3>1. Len(exts) + 1 \in DOMAIN exts'
      BY <2>3, <2>5
    <3>2. c.val \in Contents
      BY <2>2 DEF CellTypes
    <3> QED
      BY <2>1, <2>5, <3>1, <3>2
  <2>6. CASE HeapFull(p)
    BY <2>6, NothingRemembered DEF HeapFull, BackOut
  <2> QED
    BY <1>4, <2>4, <2>5, <2>6 DEF CacheRecache
<1> QED
  BY <1>3, <1>4

LEMMA AssignRemembers ==
  ASSUME IInv, ListTypes, Fills, NEW p \in Procs, AssignCell(p) \/ AssignExt(p)
  PROVE  Remembers(p)
<1> USE DEF IInv
<1> DEFINE x == loc[p]
<1>1. x \in LocTypes /\ x.cell \in Envs
  BY DEF Typed, LocTypes
<1>2. cell'[x.cell].val # NoBinding
  BY <1>1, FillsCells DEF LocInv
<1>3. CASE Done(p)
  BY <1>3, NothingRemembered DEF Done
<1>4. CASE AssignCell(p)
  <2> DEFINE c == cell[x.cell]
             w == Visible(op[p].env)
             deep == x.deep \/ exts[c.ext].refs["operator"] # {}
  <2>0. op[p].env \in Envs
    BY <1>4, OpFacts DEF AssignCell, At, Roles
  <2>1. CASE pc' = pc /\ Local(p, [x EXCEPT !.cell = w, !.deep = TRUE])
    <3> DEFINE l == [x EXCEPT !.cell = w, !.deep = TRUE]
    <3>1. w \in Envs /\ cell'[w].val # NoBinding
      BY <2>0, LookupFinds, FillsCells DEF CellInv, Binds
    <3>2. l \in LocTypes /\ l.cell = w
      <4> HIDE DEF w
      <4> QED
        BY <1>1, <3>1 DEF LocTypes
    <3>3. pc[p] = "aLock" /\ pc' = [pc EXCEPT ![p] = "aLock"]
      BY <1>4, <2>1 DEF AssignCell, At, Typed
    <3> HIDE DEF l, w, x
    <3> QED
      BY <2>1, <3>1, <3>2, <3>3, LocalWritten DEF Local, Set, l
  <2>2. CASE c.ext # 0 /\ Goto(p, "aExt") /\ Local(p, [x EXCEPT !.ext = c.ext, !.deep = deep])
    <3> DEFINE l == [x EXCEPT !.ext = c.ext, !.deep = deep]
    <3>1. c.ext \in Nat /\ c.ext <= Len(exts) /\ Len(exts) \in Nat
      BY <1>1 DEF Typed, CellInv, CellTypes
    <3>2. c.ext \in DOMAIN exts'
      BY <2>2, <3>1 DEF ListTypes, Typed
    <3>3. deep \in BOOLEAN
      BY <1>1 DEF LocTypes
    <3>4. l \in LocTypes /\ l.cell = x.cell /\ l.ext = c.ext
      <4> HIDE DEF deep, c
      <4> QED
        BY <1>1, <3>1, <3>3 DEF LocTypes
    <3> HIDE DEF c, x, deep
    <3> QED
      BY <1>2, <2>2, <3>2, <3>4, LocalWritten DEF Local, Goto, Set
  <2> QED
    BY <1>3, <1>4, <2>1, <2>2 DEF AssignCell
<1>5. CASE AssignExt(p)
  <2> DEFINE i == x.ext
             l == [x EXCEPT !.val = exts[i].val, !.h1 = Handle(p, Constant)]
  <2>1. CASE Goto(p, "aLinks") /\ Local(p, l)
    <3>1. i \in DOMAIN exts /\ exts[i].val \in Contents /\ i \in DOMAIN exts'
      BY <1>5 DEF AssignExt, At, LocInv, Typed, ExtTypes, ListTypes
    <3>2. Handle(p, Constant) \in Handles
      BY DEF Handle, Handles, Places
    <3>3. l \in LocTypes /\ l.cell = x.cell /\ l.ext = x.ext
      BY <1>1, <3>1, <3>2 DEF LocTypes
    <3> HIDE DEF l, x
    <3> QED
      BY <1>2, <2>1, <3>1, <3>3, LocalWritten DEF Local, Goto, Set
  <2> QED
    BY <1>3, <1>5, <2>1 DEF AssignExt
<1> QED
  BY <1>4, <1>5

LEMMA ExtendRemembers ==
  ASSUME IInv, ListTypes, Fills, NEW p \in Procs, Extend(p)
  PROVE  Remembers(p)
<1> USE DEF IInv
<1> DEFINE e == op[p].env
           w == Visible(e)
           s == cell[e] = Placeholder
           l == [NoLocals EXCEPT !.cell = e, !.old = w, !.shadowed = s]
<1>1. e \in Frames /\ ~Binds(e)
  BY OpFacts DEF Extend, At, Envs
<1>2. w \in Envs /\ w \in ToSet(Chain[e]) \cup {Global} /\ w # e
  <2>1. e \in Envs /\ e # Global
    BY <1>1, CacheAssumption DEF Envs
  <2> QED
    BY <1>1, <2>1, LookupFinds
<1>3. e \in ToSet(Chain[e]) /\ e \notin ToSet(Above(w))
  <2> HIDE DEF w, e
  <2> QED
    BY <1>1, <1>2, NoCycle
<1>4. cell'[e] = Placeholder
  <2>1. cell' = [f \in Envs |->
                   IF f = w THEN [cell[w] EXCEPT !.danger = TRUE]
                   ELSE IF f \in ToSet(Chain[e]) /\ f \notin ToSet(Above(w))
                   THEN Placeholder ELSE cell[f]]
    BY DEF Extend
  <2> HIDE DEF w, e
  <2> QED
    BY <1>1, <1>2, <1>3, <2>1 DEF Envs
<1>5. cell'[e].val # NoBinding
  BY <1>4, CacheAssumption DEF Placeholder, Cell
<1>6. l \in LocTypes /\ l.cell = e
  <2> HIDE DEF w, e, s
  <2>1. s \in BOOLEAN /\ e \in Envs
    BY <1>1 DEF s, Envs
  <2> QED
    BY <1>2, <2>1, NoLocalsTypes DEF LocTypes
<1>7. Goto(p, "dLock") /\ Local(p, l)
  BY DEF Extend
<1> HIDE DEF l
<1> QED
  BY <1>5, <1>6, <1>7, LocalWritten DEF Local, Goto, Set

LEMMA DefineRemembers ==
  ASSUME IInv, ListTypes, Fills, NEW p \in Procs,
         DefineLock(p) \/ DefineRecache(p) \/ DefineNothing(p) \/ Define(p)
  PROVE  Remembers(p)
<1> USE DEF IInv
<1> DEFINE x == loc[p]
<1>1. x \in LocTypes /\ x.cell \in Envs /\ x.old \in Envs
  BY DEF Typed, LocTypes
<1>2. cell'[x.cell].val # NoBinding
  BY <1>1, FillsCells DEF LocInv
<1>3. CASE Redefine(p, x.cell)
  <2> DEFINE l == [NoLocals EXCEPT !.cell = x.cell, !.deep = TRUE, !.force = TRUE]
  <2>1. l \in LocTypes /\ l.cell = x.cell
    <3> HIDE DEF x
    <3> QED
      BY <1>1, NoLocalsTypes DEF LocTypes
  <2>2. Goto(p, "aLock") /\ Local(p, l)
    BY <1>3 DEF Redefine
  <2> HIDE DEF l, x
  <2> QED
    BY <1>2, <2>1, <2>2, LocalWritten DEF Local, Goto, Set
<1>4. ASSUME NEW n \in Nat, NEW h \in Handles, NEW k \in Handles,
             NEW to \in {"dRecache", "dExt", "dDefine"}, Goto(p, to),
             to # "dDefine" => n \in DOMAIN exts,
             Local(p, [x EXCEPT !.ext = n, !.h1 = h, !.h2 = k])
      PROVE  Remembers(p)
  <2> DEFINE l == [x EXCEPT !.ext = n, !.h1 = h, !.h2 = k]
  <2>1. l \in LocTypes /\ l.cell = x.cell /\ l.ext = n
    <3> HIDE DEF x
    <3> QED
      BY <1>1, <1>4 DEF LocTypes
  <2> HIDE DEF l, x
  <2> QED
    BY <1>2, <1>4, <2>1, LocalWritten DEF Local, Goto, Set, ListTypes, l
<1>5. CASE DefineLock(p)
  <2> DEFINE new == Region[x.cell]
             old == Region[x.old]
             n == cell[x.old].ext
             H == IF new = old THEN {<<Free, new>>, <<new, Free>>} ELSE {<<old, new>>}
  <2>1. CASE Goto(p, "dDefine") /\ loc' = loc
    BY <2>1, NothingWritten DEF Goto, Set, Typed
  <2>2. ASSUME Goto(p, "dRecache"), n # 0, NEW h \in H,
               Local(p, [x EXCEPT !.ext = n, !.h1 = h[1], !.h2 = h[2]])
        PROVE  Remembers(p)
    <3>1. new \in Handles /\ old \in Handles /\ Free \in Handles
      BY <1>1 DEF Handles, Places
    <3>2. h[1] \in Handles /\ h[2] \in Handles
      BY <3>1, <2>2
    <3>3. n \in Nat /\ n <= Len(exts) /\ Len(exts) \in Nat
      BY <1>1 DEF Typed, CellInv, CellTypes
    <3>4. n \in DOMAIN exts
      BY <2>2, <3>3 DEF Typed
    <3> HIDE DEF n, x
    <3> QED
      BY <1>4, <2>2, <3>2, <3>3, <3>4
  <2> QED
    BY <1>3, <1>5, <2>1, <2>2 DEF DefineLock
<1>6. CASE DefineRecache(p)
  <2>1. x.ext \in DOMAIN exts /\ x.ext \in DOMAIN exts'
    BY <1>6 DEF DefineRecache, At, LocInv, ListTypes
  <2> DEFINE l == [x EXCEPT !.h1 = Free]
  <2>2. l \in LocTypes /\ l.cell = x.cell /\ l.ext = x.ext
    <3> HIDE DEF x
    <3> QED
      BY <1>1 DEF LocTypes, Handles
  <2>3. Goto(p, "dExt") /\ Local(p, l)
    BY <1>6 DEF DefineRecache
  <2> HIDE DEF l, x
  <2> QED
    BY <1>2, <2>1, <2>2, <2>3, LocalWritten DEF Local, Goto, Set
<1>7. CASE DefineNothing(p)
  <2> DEFINE l == [x EXCEPT !.h1 = Free, !.h2 = Free]
  <2>1. l \in LocTypes /\ l.cell = x.cell
    <3> HIDE DEF x
    <3> QED
      BY <1>1 DEF LocTypes, Handles
  <2>2. Goto(p, "dDefine") /\ Local(p, l)
    BY <1>7 DEF DefineNothing
  <2> HIDE DEF l, x
  <2> QED
    BY <1>2, <2>1, <2>2, LocalWritten DEF Local, Goto, Set
<1>8. CASE Define(p)
  <2>1. CASE Done(p)
    BY <2>1, NothingRemembered DEF Done
  <2> QED
    BY <1>3, <1>8, <2>1 DEF Define
<1> QED
  BY <1>5, <1>6, <1>7, <1>8

LEMMA StepRemembers ==
  ASSUME IInv, NEW p \in Procs, Step(p)
  PROVE  Remembers(p)
<1>0. ListTypes /\ Fills
  BY StepLists, StepFills
<1>1. CASE Begin(p)
  <2>1. pc'[p] = "start" /\ loc' = loc
    BY <1>1 DEF Begin, Goto, Set, IInv, Typed
  <2> QED
    BY <1>0, <2>1, NothingWritten DEF IInv
<1>2. CASE \/ WaitInterrupted(p) \/ CacheBeaten(p) \/ CacheExt(p) \/ AssignLinks(p)
           \/ LinksFull(p) \/ LinksInterrupted(p) \/ DefineFull(p) \/ DefineExt(p)
  <2>1. Done(p) \/ BackOut(p)
    BY <1>2 DEF WaitInterrupted, CacheBeaten, CacheExt, AssignLinks, LinksFull,
       LinksInterrupted, DefineFull, DefineExt, HeapFull
  <2> QED
    BY <1>0, <2>1, NothingRemembered DEF Done, BackOut, IInv
<1>3. CASE StartCache(p) \/ StartAssign(p) \/ StartRedefine(p) \/ StartCompiled(p)
  BY <1>0, <1>3, StartRemembers
<1>4. CASE CacheLock(p) \/ CacheRecache(p)
  BY <1>0, <1>4, CacheRemembers
<1>5. CASE AssignCell(p) \/ AssignExt(p)
  BY <1>0, <1>5, AssignRemembers
<1>6. CASE Extend(p)
  BY <1>0, <1>6, ExtendRemembers
<1>7. CASE DefineLock(p) \/ DefineRecache(p) \/ DefineNothing(p) \/ Define(p)
  BY <1>0, <1>7, DefineRemembers
<1> QED
  BY <1>1, <1>2, <1>3, <1>4, <1>5, <1>6, <1>7 DEF Step

-----------------------------------------------------------------------------
(* Locks *)

\* What a step does with Compiler_Recache_Lock: nothing, it takes it, or gives
\* it up.
RecacheMove(p) ==
    LET in  == pc[p] \in {"cExt", "dExt"}
        out == pc'[p] \in {"cExt", "dExt"}
    IN  \/ recache' = recache /\ ~in /\ ~out
        \/ recache = Free /\ recache' = p /\ out
        \/ recache' = (IF recache = p THEN Free ELSE recache) /\ ~out

LEMMA StepRecache ==
  ASSUME Typed, RecacheInv, NEW p \in Procs, Step(p)
  PROVE  RecacheMove(p)
<1>a. pc \in [Procs -> Labels]
  BY DEF Typed
<1>1. CASE Begin(p)
  BY <1>1, <1>a DEF Begin, Goto, Set, At, locks, RecacheMove
<1>2. CASE WaitInterrupted(p)
  BY <1>2, <1>a DEF WaitInterrupted, BackOut, Goto, Set, At, locks, RecacheMove
<1>3. CASE StartCache(p)
  BY <1>3, <1>a DEF StartCache, Starts, Goto, Set, At, locks, RecacheMove
<1>4. CASE CacheLock(p)
  BY <1>4, <1>a DEF CacheLock, Goto, Set, At, locks, RecacheMove
<1>5. CASE CacheBeaten(p)
  BY <1>5, <1>a DEF CacheBeaten, Done, Goto, Set, At, locks, RecacheMove
<1>6. CASE CacheRecache(p)
  BY <1>6, <1>a DEF CacheRecache, HeapFull, BackOut, Goto, Set, At, locks, RecacheMove
<1>7. CASE CacheExt(p)
  BY <1>7, <1>a DEF CacheExt, Done, HeapFull, BackOut, Goto, Set, At, locks, RecacheMove
<1>8. CASE StartAssign(p)
  BY <1>8, <1>a DEF StartAssign, Starts, Goto, Set, At, locks, RecacheMove
<1>9. CASE StartCompiled(p)
  BY <1>9, <1>a DEF StartCompiled, Starts, Goto, Set, At, locks, RecacheMove
<1>10. CASE AssignCell(p)
  BY <1>10, <1>a DEF AssignCell, Done, Goto, Set, At, locks, RecacheMove
<1>11. CASE AssignExt(p)
  BY <1>11, <1>a DEF AssignExt, Done, Goto, Set, At, locks, RecacheMove
<1>12. CASE AssignLinks(p)
  BY <1>12, <1>a DEF AssignLinks, Done, Goto, Set, At, locks, RecacheMove
<1>13. CASE LinksFull(p)
  BY <1>13, <1>a DEF LinksFull, HeapFull, BackOut, AssignReverts, Goto, Set, At, locks, RecacheMove
<1>14. CASE LinksInterrupted(p)
  BY <1>14, <1>a DEF LinksInterrupted, BackOut, AssignReverts, Goto, Set, At, locks, RecacheMove
<1>15. CASE StartRedefine(p)
  BY <1>15, <1>a DEF StartRedefine, Redefine, Goto, Set, At, locks, RecacheMove
<1>16. CASE Extend(p)
  BY <1>16, <1>a DEF Extend, Goto, Set, At, locks, RecacheMove
<1>17. CASE DefineLock(p)
  BY <1>17, <1>a DEF DefineLock, Redefine, Goto, Set, At, locks, RecacheMove
<1>18. CASE DefineRecache(p)
  BY <1>18, <1>a DEF DefineRecache, Goto, Set, At, locks, RecacheMove
<1>19. CASE DefineNothing(p)
  <2>1. recache = p
    BY <1>19 DEF DefineNothing, At, RecacheInv
  <2> QED
    BY <1>19, <1>a, <2>1 DEF DefineNothing, Goto, Set, At, RecacheMove
<1>20. CASE DefineFull(p)
  BY <1>20, <1>a DEF DefineFull, HeapFull, BackOut, Goto, Set, At, locks, RecacheMove
<1>21. CASE DefineExt(p)
  BY <1>21, <1>a DEF DefineExt, Done, Goto, Set, At, locks, RecacheMove
<1>22. CASE Define(p)
  BY <1>22, <1>a DEF Define, Done, Redefine, Goto, Set, At, locks, RecacheMove
<1> QED
  BY <1>1, <1>2, <1>3, <1>4, <1>5, <1>6, <1>7, <1>8, <1>9, <1>10, <1>11, <1>12, <1>13, <1>14, <1>15, <1>16, <1>17, <1>18, <1>19, <1>20, <1>21, <1>22 DEF Step

LEMMA RecacheKept ==
  ASSUME Typed, RecacheInv, NEW p \in Procs, Goes(p), RecacheMove(p)
  PROVE  RecacheInv' /\ recache' \in Procs \cup {Free}
<1>1. Free \notin Procs /\ recache \in Procs \cup {Free}
  BY LockAssumption DEF Typed
<1>2. \A q \in Procs \ {p} : pc'[q] = pc[q]
  BY DEF Goes, Goto, Set, Typed
<1> QED
  BY <1>1, <1>2 DEF RecacheInv, RecacheMove

\* What a step does with the locks of cells.
Frees(p, hs) == \A x \in Places : holder'[x] = IF x \in hs THEN Free ELSE holder[x]
HandleMove(p) ==
    LET h1 == loc[p].h1  h2 == loc[p].h2
        k1 == loc'[p].h1 k2 == loc'[p].h2
    IN
    \* nothing,
    \/ holder' = holder /\ k1 = h1 /\ k2 = h2 /\ pc[p] \in Resting /\ pc'[p] \in Resting
    \/ holder' = holder /\ pc[p] \in Resting /\ k1 = Free /\ k2 = Free
    \* it gives all or one of them up,
    \/ Frees(p, {h1, h2}) /\ k1 = Free /\ k2 = Free
    \/ Frees(p, {h1}) /\ k1 = Free /\ k2 = h2 /\ pc[p] = "cRecache" /\ pc'[p] = "cExt"
    \/ Frees(p, {h1}) /\ k1 = Free /\ k2 = h2 /\ pc'[p] = "dExt"
    \* or takes one or two.
    \/ /\ pc[p] \in Resting /\ pc'[p] \in {"cRecache", "aLinks"}
       /\ \E x \in Places : /\ holder[x] \in {Free, p}
                            /\ \A y \in Places : holder'[y] = IF y = x THEN p ELSE holder[y]
                            /\ k1 = (IF holder[x] = p THEN Free ELSE x) /\ k2 = h2
    \/ /\ pc[p] \in Resting /\ pc'[p] = "dRecache"
       /\ \E x, y \in Places :
             /\ holder[x] \in {Free, p} /\ holder[y] \in {Free, p}
             /\ \A z \in Places : holder'[z] = IF z \in {x, y} THEN p ELSE holder[z]
             /\ \/ x = y /\ k1 = x /\ k2 = Free
                \/ x = y /\ k1 = Free /\ k2 = x
                \/ x # y /\ k1 = x /\ k2 = y

LEMMA HandlesKept ==
  ASSUME Typed, HandleInv, NEW p \in Procs, Goes(p), Remembers(p), HandleMove(p),
         holder' \in [Places -> Procs \cup {Free}]
  PROVE  HandleInv'
<1>1. Free \notin Procs /\ Free \notin Places
  BY LockAssumption
<1>2. \A q \in Procs \ {p} : pc'[q] = pc[q] /\ loc'[q] = loc[q]
  BY DEF Goes, Goto, Set, Typed, Remembers
<1>3. /\ loc[p].h1 \in Places \cup {Free} /\ loc[p].h2 \in Places \cup {Free}
      /\ loc'[p].h1 \in Places \cup {Free} /\ loc'[p].h2 \in Places \cup {Free}
      /\ \A x \in Places : holder[x] \in Procs \cup {Free}
  BY DEF Typed, Remembers, LocTypes, Handles
<1> QED
  BY <1>1, <1>2, <1>3 DEF HandleInv, HandleMove, Frees, Resting

LEMMA FreedTypes ==
  ASSUME Typed, NEW hs
  PROVE  /\ Without(hs) \in [Places -> Procs \cup {Free}]
         /\ \A x \in Places : Without(hs)[x] = IF x \in hs THEN Free ELSE holder[x]
BY DEF Typed, Without

LEMMA StepHandles ==
  ASSUME Typed, NEW p \in Procs, Step(p), HandleInv
  PROVE  HandleMove(p) /\ holder' \in [Places -> Procs \cup {Free}]
<1> DEFINE x == loc[p]
<1>a. /\ pc \in [Procs -> Labels] /\ loc \in [Procs -> LocTypes]
      /\ holder \in [Places -> Procs \cup {Free}]
      /\ x \in LocTypes /\ x.cell \in Envs /\ x.old \in Envs
  BY DEF Typed, LocTypes
<1>b. /\ Constant \in Places /\ \A e \in Envs : Region[e] \in Places
      /\ NoLocals.h1 = Free /\ NoLocals.h2 = Free
  BY DEF Places, NoLocals
<1>c. ASSUME Local(p, NoLocals), holder' = Without({x.h1, x.h2})
      PROVE  HandleMove(p) /\ holder' \in [Places -> Procs \cup {Free}]
  BY <1>a, <1>b, <1>c, FreedTypes DEF Local, Set, HandleMove, Frees
<1>d. ASSUME NEW l, Local(p, l), l.h1 = Free, l.h2 = Free, holder' = holder, pc[p] \in Resting
      PROVE  HandleMove(p) /\ holder' \in [Places -> Procs \cup {Free}]
  BY <1>a, <1>d DEF Local, Set, HandleMove
<1>1. CASE Begin(p)
  BY <1>1, <1>a DEF Begin, Goto, Set, At, locks, HandleMove, Resting
<1>2. CASE WaitInterrupted(p)
  BY <1>2, <1>c DEF WaitInterrupted, Done, BackOut, HeapFull
<1>3. CASE StartCache(p)
  BY <1>3, <1>d DEF StartCache, Starts, At, locks, Resting, NoLocals
<1>4. CASE CacheLock(p)
  <2> DEFINE r == Region[x.cell]
             l == [x EXCEPT !.h1 = Handle(p, r)]
  <2>0. pc[p] = "cLock" /\ r \in Places
    BY <1>4, <1>a, <1>b DEF CacheLock, At
  <2>1. CASE Local(p, NoLocals) /\ holder' = holder
    BY <2>0, <2>1, <1>b, <1>d DEF Resting
  <2>2. CASE /\ holder' = Set(holder, r, p) /\ Goto(p, "cRecache") /\ Local(p, l)
             /\ CanLock(p, r)
    <3>1. l.h1 = Handle(p, r) /\ l.h2 = x.h2
      <4> HIDE DEF x
      <4> QED
        BY <1>a DEF LocTypes
    <3> HIDE DEF l, r
    <3> QED
      BY <1>a, <2>0, <2>2, <3>1 DEF Handle, CanLock, Local, Goto, Set, HandleMove, Resting
  <2> QED
    BY <1>4, <2>1, <2>2 DEF CacheLock
<1>5. CASE CacheBeaten(p)
  BY <1>5, <1>c DEF CacheBeaten, Done, BackOut, HeapFull
<1>6. CASE CacheRecache(p)
  <2> DEFINE l(n, v, new) == [x EXCEPT !.ext = n, !.val = v, !.new = new, !.h1 = Free]
  <2>1. ASSUME pc[p] = "cRecache", Goto(p, "cExt"), NEW n, NEW v, NEW new,
               Local(p, l(n, v, new)), holder' = Without({x.h1})
        PROVE  HandleMove(p) /\ holder' \in [Places -> Procs \cup {Free}]
    <3>1. l(n, v, new).h1 = Free /\ l(n, v, new).h2 = x.h2
      <4> HIDE DEF x
      <4> QED
        BY <1>a DEF LocTypes
    <3> HIDE DEF l
    <3> QED
      BY <1>a, <2>1, <3>1, FreedTypes DEF Local, Goto, Set, HandleMove, Frees
  <2> QED
    BY <1>6, <1>c, <2>1 DEF CacheRecache, At, HeapFull, BackOut
<1>7. CASE CacheExt(p)
  BY <1>7, <1>c DEF CacheExt, Done, BackOut, HeapFull
<1>8. CASE StartAssign(p)
  BY <1>8, <1>d DEF StartAssign, Starts, At, locks, Resting, NoLocals
<1>9. CASE StartCompiled(p)
  BY <1>9, <1>d DEF StartCompiled, Starts, At, locks, Resting, NoLocals
<1>10. CASE AssignCell(p)
  <2>1. pc[p] = "aLock" /\ x.h1 = Free /\ x.h2 = Free
    BY <1>10 DEF AssignCell, At, HandleInv, Resting
  <2>2. ASSUME NEW e, Local(p, [x EXCEPT !.cell = e, !.deep = TRUE]), holder' = holder
        PROVE  HandleMove(p) /\ holder' \in [Places -> Procs \cup {Free}]
    <3>1. [x EXCEPT !.cell = e, !.deep = TRUE].h1 = x.h1
          /\ [x EXCEPT !.cell = e, !.deep = TRUE].h2 = x.h2
      <4> HIDE DEF x
      <4> QED
        BY <1>a DEF LocTypes
    <3> QED
      BY <1>d, <2>1, <2>2, <3>1 DEF Resting
  <2>3. ASSUME NEW n, NEW d, Local(p, [x EXCEPT !.ext = n, !.deep = d]), holder' = holder
        PROVE  HandleMove(p) /\ holder' \in [Places -> Procs \cup {Free}]
    <3>1. [x EXCEPT !.ext = n, !.deep = d].h1 = x.h1 /\ [x EXCEPT !.ext = n, !.deep = d].h2 = x.h2
      <4> HIDE DEF x
      <4> QED
        BY <1>a DEF LocTypes
    <3> QED
      BY <1>d, <2>1, <2>3, <3>1 DEF Resting
  <2> QED
    BY <1>10, <1>c, <2>2, <2>3 DEF AssignCell, Done, locks
<1>11. CASE AssignExt(p)
  <2> DEFINE l(v) == [x EXCEPT !.val = v, !.h1 = Handle(p, Constant)]
  <2>1. ASSUME NEW v, Local(p, l(v)), Goto(p, "aLinks"), CanLock(p, Constant),
               holder' = Set(holder, Constant, p), pc[p] = "aExt"
        PROVE  HandleMove(p) /\ holder' \in [Places -> Procs \cup {Free}]
    <3>1. l(v).h1 = Handle(p, Constant) /\ l(v).h2 = x.h2
      <4> HIDE DEF x
      <4> QED
        BY <1>a DEF LocTypes
    <3> HIDE DEF l, Constant
    <3> QED
      BY <1>a, <1>b, <2>1, <3>1 DEF Handle, CanLock, Local, Goto, Set, HandleMove, Resting
  <2> QED
    BY <1>11, <1>c, <2>1 DEF AssignExt, Done, At
<1>12. CASE AssignLinks(p)
  BY <1>12, <1>c DEF AssignLinks, Done, BackOut, HeapFull
<1>13. CASE LinksFull(p)
  BY <1>13, <1>c DEF LinksFull, Done, BackOut, HeapFull
<1>14. CASE LinksInterrupted(p)
  BY <1>14, <1>c DEF LinksInterrupted, Done, BackOut, HeapFull
<1>15. CASE StartRedefine(p)
  BY <1>15, <1>d DEF StartRedefine, Redefine, At, locks, Resting, NoLocals
<1>16. CASE Extend(p)
  BY <1>16, <1>d DEF Extend, At, locks, Resting, NoLocals
<1>17. CASE DefineLock(p)
  <2> DEFINE new == Region[x.cell]
             old == Region[x.old]
             H == IF new = old THEN {<<Free, new>>, <<new, Free>>} ELSE {<<old, new>>}
             l(n, h) == [x EXCEPT !.ext = n, !.h1 = h[1], !.h2 = h[2]]
  <2>0. pc[p] = "dLock" /\ new \in Places /\ old \in Places
        /\ CanLock(p, new) /\ CanLock(p, old)
    BY <1>17, <1>a, <1>b DEF DefineLock, At
  <2>1. CASE Redefine(p, x.cell) /\ holder' = holder
    BY <1>d, <2>0, <2>1 DEF Redefine, Resting, NoLocals
  <2>2. CASE Goto(p, "dDefine") /\ holder' = holder /\ loc' = loc
    BY <1>a, <2>0, <2>2 DEF Goto, Set, HandleMove, Resting
  <2>3. ASSUME Goto(p, "dRecache"), holder' = [holder EXCEPT ![new] = p, ![old] = p],
               NEW n, NEW h \in H, Local(p, l(n, h))
        PROVE  HandleMove(p) /\ holder' \in [Places -> Procs \cup {Free}]
    <3>1. l(n, h).h1 = h[1] /\ l(n, h).h2 = h[2]
      <4> HIDE DEF x
      <4> QED
        BY <1>a DEF LocTypes
    <3>2. loc'[p].h1 = h[1] /\ loc'[p].h2 = h[2]
      <4> HIDE DEF l
      <4> QED
        BY <1>a, <2>3, <3>1 DEF Local, Set
    <3>3. /\ holder' \in [Places -> Procs \cup {Free}]
          /\ \A z \in Places : holder'[z] = IF z \in {old, new} THEN p ELSE holder[z]
      <4> HIDE DEF new, old
      <4> QED
        BY <1>a, <2>0, <2>3
    <3>4. \/ old = new /\ h[1] = old /\ h[2] = Free
          \/ old = new /\ h[1] = Free /\ h[2] = old
          \/ old # new /\ h[1] = old /\ h[2] = new
      BY <2>3
    <3>5. pc'[p] = "dRecache"
      BY <1>a, <2>3 DEF Goto, Set
    <3> HIDE DEF new, old
    <3> QED
      BY <2>0, <3>2, <3>3, <3>4, <3>5 DEF CanLock, HandleMove, Resting
  <2> QED
    BY <1>17, <2>1, <2>2, <2>3 DEF DefineLock
<1>18. CASE DefineRecache(p)
  <2> DEFINE l == [x EXCEPT !.h1 = Free]
  <2>1. l.h1 = Free /\ l.h2 = x.h2
    <3> HIDE DEF x
    <3> QED
      BY <1>a DEF LocTypes
  <2>2. Local(p, l) /\ Goto(p, "dExt") /\ holder' = Without({x.h1})
    BY <1>18 DEF DefineRecache
  <2> HIDE DEF l
  <2> QED
    BY <1>a, <2>1, <2>2, FreedTypes DEF Local, Goto, Set, HandleMove, Frees
<1>19. CASE DefineNothing(p)
  <2> DEFINE l == [x EXCEPT !.h1 = Free, !.h2 = Free]
  <2>1. l.h1 = Free /\ l.h2 = Free
    <3> HIDE DEF x
    <3> QED
      BY <1>a DEF LocTypes
  <2>2. Local(p, l) /\ holder' = Without({x.h1, x.h2})
    BY <1>19 DEF DefineNothing
  <2> HIDE DEF l
  <2> QED
    BY <1>a, <2>1, <2>2, FreedTypes DEF Local, Set, HandleMove, Frees
<1>20. CASE DefineFull(p)
  BY <1>20, <1>c DEF DefineFull, Done, BackOut, HeapFull
<1>21. CASE DefineExt(p)
  BY <1>21, <1>c DEF DefineExt, Done, BackOut, HeapFull
<1>22. CASE Define(p)
  <2>1. CASE Redefine(p, x.cell) /\ holder' = holder /\ pc[p] = "dDefine"
    BY <1>d, <2>1 DEF Redefine, Resting, NoLocals
  <2> QED
    BY <1>22, <1>c, <2>1 DEF Define, Done, At, locks
<1> QED
  BY <1>1, <1>2, <1>3, <1>4, <1>5, <1>6, <1>7, <1>8, <1>9, <1>10, <1>11, <1>12, <1>13, <1>14, <1>15, <1>16, <1>17, <1>18, <1>19, <1>20, <1>21, <1>22 DEF Step

-----------------------------------------------------------------------------
(* All together *)

\* Where the others are, and what they are asked for, is left alone.
LEMMA OthersStay ==
  ASSUME Typed, NEW p \in Procs, Goes(p), NEW q \in Procs, q # p
  PROVE  pc'[q] = pc[q] /\ op'[q] = op[q]
BY DEF Goes, Goto, Set, Typed

\* What is linked stays so.
LEMMA LinksStay ==
  ASSUME IInv, NEW p \in Procs, Step(p), NEW r \in Refs, link[r] \notin {Symbol, Gone}
  PROVE  link'[r] \notin {Symbol, Gone}
<1>1. CASE Kept
  BY <1>1 DEF Kept
<1>2. CASE Filed(p)
  BY <1>2 DEF Filed
<1>3. CASE Refiled(p)
  BY <1>3 DEF Refiled
<1> QED
  BY <1>1, <1>2, <1>3, StepLists

\* A call through a link is for a link.
LEMMA CompiledLinks ==
  ASSUME IInv, NEW p \in Procs, Step(p), NEW q \in Procs, op'[q].kind = "compiled"
  PROVE  link'[op'[q].ref] \notin {Symbol, Gone}
<1> USE DEF IInv
<1>0. Goes(p) /\ NoOp.kind = "none"
  BY StepGoes DEF NoOp
<1>1. CASE op'[q] = op[q]
  <2>1. pc[q] # "idle"
    BY <1>0, <1>1 DEF Roles
  <2> QED
    BY <1>1, <2>1, OpFacts, LinksStay DEF LocInv
<1>2. CASE op'[q] # op[q]
  <2>1. q = p
    BY <1>0, <1>2, OthersStay
  <2>2. op \in [Procs -> OpTypes \cup {NoOp}]
    BY DEF Typed
  <2>3. op' # op /\ ~(op' = Set(op, p, NoOp))
    BY <1>0, <1>2, <2>1, <2>2 DEF Set
  <2>4. pc[p] = "idle"
    BY <1>0, <2>3 DEF Goes
  <2>5. Begin(p)
    BY <2>4 DEF Step, WaitInterrupted, StartCache, Starts, CacheLock, CacheBeaten,
       CacheRecache, CacheExt, StartAssign, StartCompiled, AssignCell, AssignExt,
       AssignLinks, LinksFull, LinksInterrupted, StartRedefine, Extend, DefineLock,
       DefineRecache, DefineNothing, DefineFull, DefineExt, Define, At
  <2>6. PICK o \in Ops[p] : /\ o.kind = "compiled" => link[o.ref].to \in {"cache", "clone"}
                            /\ op' = Set(op, p, o)
    BY <2>5 DEF Begin
  <2>7. op'[q] = o
    BY <2>1, <2>2, <2>6 DEF Set
  <2>8. link[o.ref] \notin {Symbol, Gone}
    BY <2>6, <2>7 DEF Symbol, Gone, Link
  <2> QED
    BY <2>5, <2>7, <2>8 DEF Begin, shared
<1> QED
  BY <1>1, <1>2

LEMMA LocalsKept ==
  ASSUME IInv, NEW p \in Procs, Step(p)
  PROVE  LocInv'
<1> USE DEF IInv
<1>0. ListTypes /\ Fills /\ Goes(p) /\ Remembers(p)
  BY StepLists, StepFills, StepGoes, StepRemembers
<1>1. ASSUME NEW q \in Procs
      PROVE  /\ cell'[loc'[q].cell].val # NoBinding
             /\ pc'[q] \in {"cExt", "aExt", "aLinks", "dRecache", "dExt"} =>
                   loc'[q].ext \in DOMAIN exts'
  <2>1. CASE q = p
    BY <1>0, <2>1 DEF Remembers
  <2>2. CASE q # p
    <3>1. loc'[q] = loc[q] /\ pc'[q] = pc[q]
      BY <1>0, <2>2, OthersStay DEF Remembers
    <3>2. loc[q].cell \in Envs
      BY DEF Typed, LocTypes
    <3>3. cell'[loc[q].cell].val # NoBinding
      BY <1>0, <3>2, FillsCells DEF LocInv
    <3> QED
      BY <1>0, <3>1, <3>3 DEF LocInv, ListTypes
  <2> QED
    BY <2>1, <2>2
<1> QED
  BY <1>1, CompiledLinks DEF LocInv

\* Whoever caches a reference has found it not cached, and nobody else has
\* Compiler_Recache_Lock until he is done.
LEMMA CachingKept ==
  ASSUME IInv, NEW p \in Procs, Step(p)
  PROVE  CacheInv'
<1> USE DEF IInv
<1> SUFFICES ASSUME NEW q \in Procs, pc'[q] = "cExt"
    PROVE  link'[op'[q].ref] = Symbol
  BY DEF CacheInv
<1>0. Goes(p)
  BY StepGoes
<1>1. CASE q = p
  <2>1. pc[p] = "cRecache"
    BY <1>0, <1>1 DEF Goes, From, Goto, Set, Typed, Labels
  <2>2. ~WaitInterrupted(p) /\ ~CacheBeaten(p)
    BY <1>1 DEF WaitInterrupted, CacheBeaten, BackOut, Done, Goto, Set, Typed
  <2>3. CacheRecache(p)
    BY <2>1, <2>2 DEF Step, Begin, StartCache, Starts, CacheLock,
       CacheExt, StartAssign, StartCompiled, AssignCell, AssignExt,
       AssignLinks, LinksFull, LinksInterrupted, StartRedefine, Extend, DefineLock,
       DefineRecache, DefineNothing, DefineFull, DefineExt, Define, At
  <2>4. link[op[p].ref] = Symbol /\ link' = link /\ op' = op
    BY <2>3 DEF CacheRecache, shared, HeapFull, BackOut
  <2> QED
    BY <1>1, <2>4
<1>2. CASE q # p
  <2>1. pc[q] = "cExt" /\ op'[q] = op[q]
    BY <1>0, <1>2, OthersStay
  <2>2. link[op[q].ref] = Symbol /\ op[q].ref \in Refs
    BY <2>1, OpFacts DEF CacheInv, Roles
  <2>3. pc[p] \notin {"cExt", "dExt"}
    BY <1>2, <2>1 DEF RecacheInv
  <2>4. Kept
    BY <2>3, StepLists
  <2> QED
    BY <2>1, <2>2, <2>4 DEF Kept
<1> QED
  BY <1>1, <1>2

LEMMA StepKept ==
  ASSUME IInv, NEW p \in Procs, Step(p)
  PROVE  IInv'
<1> USE DEF IInv
<1>1. ListTypes /\ Fills /\ Goes(p) /\ Counts(p) /\ Remembers(p) /\ RecacheMove(p)
  BY StepLists, StepFills, StepGoes, StepRemembers, StepRecache
<1>2. HandleMove(p) /\ holder' \in [Places -> Procs \cup {Free}]
  BY StepHandles
<1>3. Typed' /\ Roles'
  BY <1>1, <1>2, GoesTypes, CountsTypes, RecacheKept
     DEF Typed, ListTypes, Fills, Remembers
<1>4. CellInv' /\ RecacheInv' /\ HandleInv'
  BY <1>1, <1>2, FillsCells, RecacheKept, HandlesKept
<1>5. LocInv' /\ CacheInv'
  BY LocalsKept, CachingKept
<1>6. RefsInv' /\ Listed'
  <2>1. CASE Kept
    BY <1>1, <2>1, KeptLists
  <2>2. CASE Filed(p) /\ pc[p] = "cExt"
    <3>1. op[p].ref \in Refs /\ link[op[p].ref] = Symbol /\ loc[p].ext \in DOMAIN exts
      BY <2>2, OpFacts DEF Roles, CacheInv, LocInv
    <3> QED
      BY <1>1, <2>2, <3>1, FiledLists
  <2>3. CASE Refiled(p) /\ pc[p] = "dExt"
    <3>1. loc[p].ext \in DOMAIN exts
      BY <2>3 DEF LocInv
    <3> QED
      BY <1>1, <2>3, <3>1, RefiledLists
  <2> QED
    BY <2>1, <2>2, <2>3, StepLists
<1> QED
  BY <1>3, <1>4, <1>5, <1>6

LEMMA CollectKept ==
  ASSUME IInv, NEW r \in Refs, Collect(r)
  PROVE  IInv'
<1> USE DEF IInv
<1>1. ListTypes /\ Lost
  BY CollectLists
<1>2. RefsInv' /\ Listed'
  BY <1>1, LostLists
<1>3. UNCHANGED <<cell, exts, holder, recache, pc, op, loc, made, full>>
  BY DEF Collect, locks, own
<1>4. \A p \in Procs : /\ pc[p] \in {"idle", "start"}
                       /\ op[p].kind = "compiled" => op[p].ref # r
  BY DEF Collect
<1>5. \A s \in Refs \ {r} : link'[s] = link[s]
  BY DEF Collect, Set, Typed
<1>6. ASSUME NEW p \in Procs, op[p].kind = "compiled"
      PROVE  link'[op[p].ref] = link[op[p].ref]
  <2>1. pc[p] # "idle"
    BY <1>6 DEF Roles, NoOp
  <2> QED
    BY <1>4, <1>5, <1>6, <2>1, OpFacts
<1>7. LocInv'
  BY <1>3, <1>6 DEF LocInv
<1>8. CacheInv'
  BY <1>3, <1>4 DEF CacheInv
<1>9. Typed' /\ Roles' /\ CellInv' /\ RecacheInv' /\ HandleInv'
  BY <1>1, <1>3 DEF Typed, ListTypes, Roles, CellInv, RecacheInv, HandleInv
<1> QED
  BY <1>2, <1>7, <1>8, <1>9

LEMMA StutterKept ==
  ASSUME IInv, UNCHANGED vars
  PROVE  IInv'
BY DEF IInv, vars, shared, locks, own, Typed, Roles, CellInv, LocInv, RefsInv, Listed,
   RecacheInv, CacheInv, HandleInv

LEMMA InitialInvariant == Init => IInv
<1> SUFFICES ASSUME Init
    PROVE  IInv
  OBVIOUS
<1>1. /\ Initial \in [Envs -> Contents \cup {NoBinding}] /\ Initial[Global] # NoBinding
      /\ Global \in Envs /\ MaxOps \in [Procs -> Nat] /\ MaxFull \in Nat
  BY CacheAssumption DEF Contents, Envs
<1>2. /\ Symbol \in LinkTypes /\ NoLocals \in LocTypes
      /\ NoLocals.cell = Global /\ NoLocals.h1 = Free /\ NoLocals.h2 = Free
  BY NoLocalsTypes DEF Symbol, Link, LinkTypes, Contents
<1>3. \A e \in Envs : /\ cell[e] = Cell(FALSE, Initial[e], 0) /\ cell[e] \in CellTypes
                      /\ cell[e].val = Initial[e] /\ cell[e].ext = 0
  BY <1>1 DEF Init, Cell, CellTypes
<1>4. Len(exts) = 0 /\ DOMAIN exts = {} /\ exts \in Seq(ExtTypes)
  BY DEF Init
<1>5. Typed
  BY <1>1, <1>2, <1>3, <1>4 DEF Init, Typed, Labels, Cell
<1>6. Roles
  BY DEF Init, Roles, NoOp
<1>7. CellInv
  <2>1. \A e \in Envs : cell[e].val = NoBinding => cell[e] = Empty
    BY <1>3 DEF Empty
  <2>2. \A e \in Envs : cell[e].ext <= Len(exts)
    <3>1. 0 <= Len(exts)
      BY <1>4
    <3>2. \A e \in Envs : cell[e].ext = 0
      BY <1>3
    <3> QED
      BY <3>1, <3>2
  <2>3. cell[Global].val # NoBinding
    BY <1>1, <1>3
  <2> QED
    BY <2>1, <2>2, <2>3 DEF CellInv
<1>8. LocInv
  BY <1>1, <1>2, <1>3 DEF Init, LocInv, NoOp
<1>9. RefsInv /\ Listed
  BY <1>4 DEF Init, RefsInv, Listed
<1>10. RecacheInv /\ CacheInv
  BY LockAssumption DEF Init, RecacheInv, CacheInv
<1>11. HandleInv
  BY <1>2, LockAssumption DEF Init, HandleInv
<1> QED
  BY <1>5, <1>6, <1>7, <1>8, <1>9, <1>10, <1>11 DEF IInv

-----------------------------------------------------------------------------

\* The inductive invariant: what the calls remember is still there, and what
\* they do with the lists, the links and the locks agrees, at every place a
\* processor can be interrupted at.
THEOREM Invariance == Spec => []IInv
<1>1. Init => IInv
  BY InitialInvariant
<1>2. IInv /\ [Next]_vars => IInv'
  BY StepKept, CollectKept, StutterKept DEF Next, AllDone
<1> QED
  BY <1>1, <1>2, PTL DEF Spec

\* The types of cells, extensions and links; a reference that is in a list is
\* cached, and a link leads to an extension (lookup.c, compiler_cache).
THEOREM TypeCorrect == Spec => []TypeOK
<1>1. IInv => TypeOK
  <2> SUFFICES ASSUME IInv
      PROVE  TypeOK
    OBVIOUS
  <2> USE DEF IInv
  <2>1. cell \in [Envs -> [danger : BOOLEAN,
                          val : Values \cup {Unassigned, Unbound, NoBinding},
                          ext : 0 .. Len(exts)]]
    <3>1. \A e \in Envs : /\ cell[e] \in CellTypes
                          /\ cell[e].ext \in 0 .. Len(exts)
      BY DEF Typed, CellInv, CellTypes
    <3> QED
      BY <3>1 DEF Typed, CellTypes, Contents
  <2>2. \A i \in DOMAIN exts : /\ exts[i].val \in Values \cup {Unassigned, Unbound}
                               /\ \A r \in UNION {exts[i].refs[k] : k \in Kinds} :
                                     link[r] # Symbol
    <3> SUFFICES ASSUME NEW i \in DOMAIN exts
        PROVE  /\ exts[i].val \in Values \cup {Unassigned, Unbound}
               /\ \A k \in Kinds : \A r \in exts[i].refs[k] : link[r] # Symbol
      OBVIOUS
    <3>1. exts[i] \in ExtTypes
      BY DEF Typed
    <3> QED
      BY <3>1 DEF ExtTypes, Contents, RefsInv
  <2>3. \A r \in Refs : link[r] \notin {Symbol, Gone} => link[r].ext \in DOMAIN exts
    BY DEF Listed
  <2>4. \A p \in Procs : made[p] \in 0 .. MaxOps[p]
    BY CacheAssumption DEF Typed
  <2> QED
    BY <2>1, <2>2, <2>3, <2>4 DEF Typed, TypeOK
<1> QED
  BY <1>1, Invariance, PTL

\* Every link is in the list by which definitions and assignments find it, and
\* in no other one: add_reference, compiler_recache_split and the collector of
\* dead entries lose none, though the heap may be full in the middle.
THEOREM ReferencesAreListedAlways == Spec => []ReferencesAreListed
<1>1. IInv => ReferencesAreListed
  BY DEF IInv, ReferencesAreListed, Listed, Live
<1> QED
  BY <1>1, Invariance, PTL

\* A processor between two calls, and one that begins its call again, has no lock.
LocksAreReturned ==
    \A p \in Procs : pc[p] \in {"idle", "start"} =>
        recache # p /\ \A x \in Places : holder[x] # p

\* Every way out of compiler_cache, extend_frame and the assignments, by an
\* interrupt, a full heap or an end, gives up all that has been taken, also
\* the lock that two cells of the same region share.
THEOREM LocksAreReturnedAlways == Spec => []LocksAreReturned
<1>1. IInv => LocksAreReturned
  BY LockAssumption DEF IInv, LocksAreReturned, RecacheInv, HandleInv, Resting
<1> QED
  BY <1>1, Invariance, PTL

-----------------------------------------------------------------------------
(* Caches follow scope: what is bound, and what has been found *)

\* Nothing that p defines is seen from where another processor caches or
\* defines.
ChangesApart ==
    \A p, q \in Procs : p # q =>
        \A k \in Ops[p], m \in Ops[q] :
            /\ k.kind = "define" /\ m.kind = "cache" =>
                  k.env \notin ToSet(Chain[EnvOf[m.ref]])
            /\ k.kind = "define" /\ m.kind = "define" => k.env \notin ToSet(Chain[m.env])

\* Two bindings have two extensions, and a frame without one has a value.
OwnExtensions == \A a, b \in Envs : cell[a].ext = cell[b].ext /\ cell[a].ext # 0 => a = b
Marked == \A f \in Frames : cell[f].ext = 0 /\ cell[f].val = Unbound => cell[f] = Placeholder

\* No link that is in use leads past e to the binding that e sees.
Clear(e) == \A r \in Live : e \in ToSet(Chain[EnvOf[r]]) => Visible(EnvOf[r]) # Visible(e)

\* A frame that p may give a binding to without moving a link.
Ready(p, e) == e \in Frames /\ op[p].env = e /\ cell[e] = Placeholder /\ Clear(e)

\* What was found when a reference is cached ...
CachingInv == \A p \in Procs : pc[p] \in {"cLock", "cRecache", "cExt"} =>
    /\ loc[p].cell = Visible(EnvOf[op[p].ref])
    /\ pc[p] = "cExt" => loc[p].ext = cell[loc[p].cell].ext

\* ... and when a variable is defined is still so ...
DefiningInv == \A p \in Procs, e \in Envs :
    pc[p] \in {"dLock", "dRecache", "dExt", "dDefine"} /\ op[p].env = e =>
        /\ e \in Frames /\ loc[p].cell = e /\ cell[e] = Placeholder
        /\ pc[p] # "dDefine" => loc[p].old = Visible(e)
        /\ pc[p] \in {"dRecache", "dExt"} => /\ loc[p].ext = cell[loc[p].old].ext
                                             /\ loc[p].ext # 0
        /\ pc[p] = "dDefine" => Clear(e)

\* ... and an assignment makes a binding of a frame only where it is defined.
AssigningInv == \A p \in Procs, e \in Envs : pc[p] = "aLock" /\ loc[p].cell = e =>
    e = Global \/ Binds(e) \/ (op[p].kind = "define" /\ Ready(p, e))

ScopeInv == /\ CachesFollowScope /\ OwnExtensions /\ Marked
            /\ CachingInv /\ DefiningInv /\ AssigningInv

-----------------------------------------------------------------------------
(* Lookups by what is bound *)

\* The first environment of a chain that is the global one or in B.
IsFirst(c, B, v) ==
    \E i \in 1 .. Len(Above(c)) :
        /\ v = Above(c)[i] /\ v \in B \cup {Global}
        /\ \A j \in 1 .. i - 1 : Above(c)[j] \notin B \cup {Global}

Bound == {f \in Frames : Binds(f)}

\* Chains end with the global environment, which is nowhere else, and what is
\* outside of a frame of a chain is the rest of the chain.
LEMMA Chains ==
  ASSUME NEW c \in Envs
  PROVE  /\ Chain[c] \in Seq(Frames) /\ Above(c) \in Seq(Envs)
         /\ Len(Above(c)) = Len(Chain[c]) + 1 /\ Len(Chain[c]) \in Nat
         /\ \A i \in 1 .. Len(Chain[c]) : Above(c)[i] = Chain[c][i] /\ Chain[c][i] \in Frames
         /\ Above(c)[Len(Above(c))] = Global /\ Global \notin Frames
         /\ ToSet(Chain[c]) \subseteq Frames
<1>1. Chain[c] \in Seq(Frames) /\ Global \notin Frames
  BY CacheAssumption DEF Envs
<1>2. Chain[c] \in Seq(Envs) /\ Global \in Envs
  BY <1>1 DEF Envs
<1> QED
  BY <1>1, <1>2 DEF Above, ToSet

LEMMA Outward ==
  ASSUME NEW c \in Envs, NEW m \in 1 .. Len(Chain[c]), NEW f, f = Chain[c][m]
  PROVE  /\ f \in Frames /\ f \in Envs
         /\ Len(Above(f)) = Len(Above(c)) - m + 1
         /\ \A k \in 1 .. Len(Above(f)) : Above(f)[k] = Above(c)[m - 1 + k]
<1>2. /\ Chain[c] \in Seq(Frames) /\ Len(Chain[c]) \in Nat
      /\ Len(Above(c)) = Len(Chain[c]) + 1 /\ Above(c)[Len(Above(c))] = Global
      /\ \A i \in 1 .. Len(Chain[c]) : Above(c)[i] = Chain[c][i]
  BY Chains
<1>0. Chain[c][m] \in Frames
  BY <1>2
<1>1. f \in Frames /\ f \in Envs
  BY <1>0 DEF Envs
<1>3. /\ Chain[f] \in Seq(Frames) /\ Len(Chain[f]) \in Nat
      /\ Len(Above(f)) = Len(Chain[f]) + 1 /\ Above(f)[Len(Above(f))] = Global
      /\ \A i \in 1 .. Len(Chain[f]) : Above(f)[i] = Chain[f][i]
  BY <1>1, Chains
<1>4. Chain[f] = SubSeq(Chain[c], m, Len(Chain[c]))
  <2>1. CASE c = Global
    BY <2>1, <1>2, CacheAssumption
  <2>2. CASE c \in Frames
    <3>1. DOMAIN Chain[c] = 1 .. Len(Chain[c])
      BY <1>2
    <3>2. \A i \in DOMAIN Chain[c] : Chain[Chain[c][i]] = SubSeq(Chain[c], i, Len(Chain[c]))
      BY <2>2, CacheAssumption
    <3> QED
      BY <3>1, <3>2
  <2> QED
    BY <2>1, <2>2 DEF Envs
<1>5. Len(Chain[f]) = Len(Chain[c]) - m + 1
  BY <1>2, <1>4
<1>6. \A k \in 1 .. Len(Chain[f]) : Chain[f][k] = Chain[c][m - 1 + k]
  BY <1>2, <1>4
<1>n. /\ Len(Chain[c]) \in Nat /\ Len(Above(c)) = Len(Chain[c]) + 1
      /\ Len(Chain[f]) \in Nat /\ Len(Above(f)) = Len(Chain[f]) + 1
      /\ m \in Nat /\ m >= 1
  BY <1>2, <1>3
<1>7. ASSUME NEW k \in 1 .. Len(Above(f))
      PROVE  Above(f)[k] = Above(c)[m - 1 + k]
  <2>1. CASE k = Len(Above(f))
    <3>1. m - 1 + k = Len(Above(c))
      BY <1>n, <1>5, <2>1
    <3> QED
      BY <1>2, <1>3, <2>1, <3>1
  <2>2. CASE k # Len(Above(f))
    <3>1. k \in 1 .. Len(Chain[f]) /\ m - 1 + k \in 1 .. Len(Chain[c])
      BY <1>n, <1>5, <2>2
    <3> QED
      BY <1>2, <1>3, <1>6, <3>1
  <2> QED
    BY <2>1, <2>2
<1>8. Len(Above(f)) = Len(Above(c)) - m + 1
  BY <1>2, <1>3, <1>5
<1> QED
  BY <1>1, <1>7, <1>8

\* No environment is twice in a chain.
LEMMA OnceInChain ==
  ASSUME NEW c \in Envs, NEW i \in 1 .. Len(Above(c)), NEW j \in 1 .. Len(Above(c)),
         Above(c)[i] = Above(c)[j]
  PROVE  i = j
<1>1. /\ Len(Chain[c]) \in Nat /\ Len(Above(c)) = Len(Chain[c]) + 1
      /\ Above(c)[Len(Above(c))] = Global /\ Global \notin Frames
      /\ \A k \in 1 .. Len(Chain[c]) : Above(c)[k] = Chain[c][k] /\ Chain[c][k] \in Frames
  BY Chains
<1>2. CASE i \in 1 .. Len(Chain[c]) /\ j \in 1 .. Len(Chain[c])
  <2>1. PICK f : f = Chain[c][i] /\ f = Chain[c][j]
    BY <1>1, <1>2
  <2>2. Len(Above(f)) = Len(Above(c)) - i + 1
    BY <1>2, <2>1, Outward
  <2>3. Len(Above(f)) = Len(Above(c)) - j + 1
    BY <1>2, <2>1, Outward
  <2> QED
    BY <1>1, <1>2, <2>2, <2>3
<1>3. CASE ~(i \in 1 .. Len(Chain[c]) /\ j \in 1 .. Len(Chain[c]))
  <2>1. i = Len(Above(c)) \/ i \in 1 .. Len(Chain[c])
    BY <1>1
  <2>2. j = Len(Above(c)) \/ j \in 1 .. Len(Chain[c])
    BY <1>1
  <2> QED
    BY <1>1, <1>3, <2>1, <2>2
<1> QED
  BY <1>2, <1>3

\* There is only one first.
LEMMA OneFirst ==
  ASSUME NEW c \in Envs, NEW B, NEW v, NEW w, IsFirst(c, B, v), IsFirst(c, B, w)
  PROVE  v = w
<1>1. PICK i \in 1 .. Len(Above(c)) :
         /\ v = Above(c)[i] /\ v \in B \cup {Global}
         /\ \A j \in 1 .. i - 1 : Above(c)[j] \notin B \cup {Global}
  BY DEF IsFirst
<1>2. PICK k \in 1 .. Len(Above(c)) :
         /\ w = Above(c)[k] /\ w \in B \cup {Global}
         /\ \A j \in 1 .. k - 1 : Above(c)[j] \notin B \cup {Global}
  BY DEF IsFirst
<1>3. k \notin 1 .. i - 1 /\ i \notin 1 .. k - 1
  BY <1>1, <1>2
<1>4. Len(Above(c)) \in Nat
  BY Chains
<1>5. i = k
  BY <1>3, <1>4
<1> QED
  BY <1>1, <1>2, <1>5

\* The first one is found by the least index.
LEMMA FirstFound ==
  ASSUME NEW c \in Envs, NEW B,
         NEW I, I = {i \in 1 .. Len(Above(c)) : Above(c)[i] \in B \cup {Global}}
  PROVE  I # {} /\ I \subseteq 1 .. Len(Above(c)) /\ IsFirst(c, B, Above(c)[Min(I)])
<1>1. Len(Above(c)) \in Nat /\ Len(Above(c)) \in 1 .. Len(Above(c))
      /\ Above(c)[Len(Above(c))] = Global
  BY Chains
<1>2. I \in SUBSET Nat /\ I # {}
  BY <1>1
<1>3. Min(I) \in I
  BY <1>2, LeastNumber
<1>4. \A n \in I : Min(I) <= n
  <2>1. \E n \in I : \A m \in I : n <= m
    <3>1. PICK n \in I : \A m \in I : <<m, n>> \notin OpToRel(<, Nat)
      BY <1>2, WFMin, NatLessThanWellFounded, Zenon
    <3>2. \A m \in I : ~(m < n)
      BY <1>2, <3>1, Zenon DEF OpToRel
    <3> QED
      BY <1>2, <3>2
  <2> QED
    BY <2>1, Zenon DEF Min
<1>5. \A j \in 1 .. Min(I) - 1 : Above(c)[j] \notin B \cup {Global}
  BY <1>1, <1>2, <1>3, <1>4
<1>6. Min(I) \in 1 .. Len(Above(c)) /\ Above(c)[Min(I)] \in B \cup {Global}
  BY <1>3
<1> QED
  BY <1>2, <1>5, <1>6 DEF IsFirst

\* That is what a lookup finds, before a step and after it.
LEMMA VisibleIsFirst ==
  ASSUME NEW c \in Envs
  PROVE  IsFirst(c, Bound, Visible(c)) /\ IsFirst(c, Bound', Visible(c)')
<1>0. /\ Len(Above(c)) \in Nat
      /\ \A i \in 1 .. Len(Above(c)) : Above(c)[i] = Global \/ Above(c)[i] \in Frames
      /\ Global \notin Frames
  <2>1. /\ Len(Chain[c]) \in Nat /\ Len(Above(c)) = Len(Chain[c]) + 1
        /\ \A i \in 1 .. Len(Chain[c]) : Above(c)[i] = Chain[c][i] /\ Chain[c][i] \in Frames
        /\ Above(c)[Len(Above(c))] = Global /\ Global \notin Frames
    BY Chains
  <2>2. \A i \in 1 .. Len(Above(c)) : i = Len(Above(c)) \/ i \in 1 .. Len(Chain[c])
    BY <2>1
  <2> QED
    BY <2>1, <2>2
<1>1. IsFirst(c, Bound, Visible(c))
  <2> DEFINE I == {i \in 1 .. Len(Above(c)) : Above(c)[i] = Global \/ Binds(Above(c)[i])}
             J == {i \in 1 .. Len(Above(c)) : Above(c)[i] \in Bound \cup {Global}}
  <2>1. I = J
    BY <1>0 DEF Bound
  <2>2. J # {} /\ IsFirst(c, Bound, Above(c)[Min(J)])
    BY FirstFound
  <2>3. SelectInSeq(Above(c), LAMBDA f : f = Global \/ Binds(f)) = Min(I)
    BY <2>1, <2>2 DEF SelectInSeq
  <2> QED
    BY <2>1, <2>2, <2>3 DEF Visible
<1>2. IsFirst(c, Bound', Visible(c)')
  <2> DEFINE I == {i \in 1 .. Len(Above(c)) : Above(c)[i] = Global \/ Binds(Above(c)[i])'}
             J == {i \in 1 .. Len(Above(c)) : Above(c)[i] \in Bound' \cup {Global}}
  <2>1. I = J
    BY <1>0 DEF Bound
  <2>2. J # {} /\ IsFirst(c, Bound', Above(c)[Min(J)])
    BY FirstFound
  <2>3. I # {} /\ I = {i \in 1 .. Len(Above(c)) : Above(c)[i] = Global \/ Binds(Above(c)[i])'}
    BY <2>1, <2>2
  <2> HIDE DEF I
  <2>4. Visible(c)' = Above(c)[Min(I)]
    BY <2>3 DEF Visible, SelectInSeq, Binds
  <2> QED
    BY <2>1, <2>2, <2>4
<1> QED
  BY <1>1, <1>2

\* Where it is.
LEMMA FirstPlace ==
  ASSUME NEW c \in Envs, NEW B, NEW v, IsFirst(c, B, v)
  PROVE  /\ v \in Envs /\ v \in ToSet(Chain[c]) \cup {Global}
         /\ v = Global \/ v \in B
<1>1. PICK i \in 1 .. Len(Above(c)) : v = Above(c)[i] /\ v \in B \cup {Global}
  BY DEF IsFirst
<1>2. /\ Len(Chain[c]) \in Nat /\ Len(Above(c)) = Len(Chain[c]) + 1 /\ Chain[c] \in Seq(Frames)
      /\ \A k \in 1 .. Len(Chain[c]) : Above(c)[k] = Chain[c][k] /\ Chain[c][k] \in Frames
      /\ Above(c)[Len(Above(c))] = Global
  BY Chains
<1>3. CASE i \in 1 .. Len(Chain[c])
  BY <1>1, <1>2, <1>3 DEF ToSet, Envs
<1>4. CASE i \notin 1 .. Len(Chain[c])
  <2>1. i = Len(Above(c))
    BY <1>2, <1>4
  <2> QED
    BY <1>1, <1>2, <2>1 DEF Envs
<1> QED
  BY <1>3, <1>4

\* Frames that do not see the new binding of e, and those that do.
LEMMA FirstWithOneMore ==
  ASSUME NEW c \in Envs, NEW e \in Frames, NEW B, e \notin B, NEW v, NEW w, NEW u,
         IsFirst(c, B, v), IsFirst(e, B, w), IsFirst(c, B \cup {e}, u)
  PROVE  u = IF e \in ToSet(Chain[c]) /\ v = w THEN e ELSE v
<1> DEFINE s == Above(c)
           n == Len(Chain[c])
<1>1. /\ n \in Nat /\ Len(s) = n + 1 /\ Chain[c] \in Seq(Frames)
      /\ \A k \in 1 .. n : s[k] = Chain[c][k] /\ Chain[c][k] \in Frames
      /\ s[Len(s)] = Global /\ Global \notin Frames /\ e \in Envs
  BY Chains DEF Envs
<1>2. PICK i \in 1 .. Len(s) : /\ v = s[i] /\ v \in B \cup {Global}
                               /\ \A j \in 1 .. i - 1 : s[j] \notin B \cup {Global}
  BY DEF IsFirst
<1>3. ASSUME e \notin ToSet(Chain[c])
      PROVE  u = v
  <2>1. \A k \in 1 .. n : s[k] # e
    BY <1>1, <1>3 DEF ToSet
  <2>2. \A k \in 1 .. Len(s) : k = Len(s) \/ k \in 1 .. n
    BY <1>1
  <2>3. \A k \in 1 .. Len(s) : s[k] # e
    BY <1>1, <2>1, <2>2
  <2>4. \A j \in 1 .. i - 1 : j \in 1 .. Len(s)
    BY <1>1
  <2>5. IsFirst(c, B \cup {e}, v)
    BY <1>2, <2>3, <2>4 DEF IsFirst
  <2> QED
    BY <2>5, OneFirst
<1>4. ASSUME e \in ToSet(Chain[c])
      PROVE  u = IF v = w THEN e ELSE v
  <2>1. PICK m \in 1 .. n : e = Chain[c][m]
    BY <1>1, <1>4 DEF ToSet
  <2>2. /\ Len(Above(e)) = Len(s) - m + 1
        /\ \A k \in 1 .. Len(Above(e)) : Above(e)[k] = s[m - 1 + k]
    BY <2>1, Outward
  <2>3. s[m] = e /\ m \in 1 .. Len(s) /\ m # i
    BY <1>1, <1>2, <2>1
  <2>4. CASE m < i
    <3>1. IsFirst(c, B \cup {e}, e)
      <4>1. \A j \in 1 .. m - 1 : j \in 1 .. i - 1 /\ j \in 1 .. Len(s) /\ j # m
        BY <2>3, <2>4, <1>1
      <4>2. \A j \in 1 .. m - 1 : s[j] # e
        BY <2>3, <4>1, OnceInChain
      <4>3. \A j \in 1 .. m - 1 : s[j] \notin B \cup {e} \cup {Global}
        BY <1>2, <4>1, <4>2
      <4> QED
        BY <2>3, <4>3 DEF IsFirst
    <3>2. u = e
      BY <3>1, OneFirst
    <3>3. i - m + 1 \in 1 .. Len(Above(e)) /\ m - 1 + (i - m + 1) = i
      BY <1>1, <2>2, <2>3, <2>4
    <3>4. Above(e)[i - m + 1] = s[i]
      BY <2>2, <3>3
    <3>5. \A j \in 1 .. (i - m + 1) - 1 : j \in 1 .. Len(Above(e)) /\ m - 1 + j \in 1 .. i - 1
      BY <1>1, <2>2, <2>3, <2>4
    <3>6. \A j \in 1 .. (i - m + 1) - 1 : Above(e)[j] \notin B \cup {Global}
      BY <1>2, <2>2, <3>5
    <3>7. IsFirst(e, B, v)
      BY <1>2, <3>3, <3>4, <3>6 DEF IsFirst
    <3>8. v = w
      BY <1>1, <3>7, OneFirst
    <3> QED
      BY <3>2, <3>8
  <2>5. CASE i < m
    <3>1. \A j \in 1 .. i - 1 : j \in 1 .. Len(s) /\ j # m
      BY <2>3, <2>5, <1>1
    <3>2. \A j \in 1 .. i - 1 : s[j] # e
      BY <2>3, <3>1, OnceInChain
    <3>3. IsFirst(c, B \cup {e}, v)
      BY <1>2, <3>2 DEF IsFirst
    <3>4. u = v
      BY <3>3, OneFirst
    <3>5. v # w
      <4>1. SUFFICES ASSUME v = w
            PROVE  FALSE
        OBVIOUS
      <4>2. PICK k \in 1 .. Len(Above(e)) : w = Above(e)[k]
        BY DEF IsFirst
      <4>3. w = s[m - 1 + k] /\ m - 1 + k \in 1 .. Len(s) /\ m - 1 + k # i
        BY <1>1, <2>2, <2>3, <2>5, <4>2
      <4> QED
        BY <1>2, <4>1, <4>3, OnceInChain
    <3> QED
      BY <3>4, <3>5
  <2> QED
    BY <2>3, <2>4, <2>5, <1>1
<1> QED
  BY <1>3, <1>4

\* What is inside of the binding that is found is not bound.
LEMMA InsideUnbound ==
  ASSUME NEW c \in Envs, NEW B, NEW v, IsFirst(c, B, v),
         NEW f \in ToSet(Chain[c]), f \notin ToSet(Above(v))
  PROVE  f \notin B /\ f \in Frames
<1> DEFINE s == Above(c)
           n == Len(Chain[c])
<1>1. /\ n \in Nat /\ Len(s) = n + 1 /\ Chain[c] \in Seq(Frames)
      /\ \A k \in 1 .. n : s[k] = Chain[c][k] /\ Chain[c][k] \in Frames
      /\ s[Len(s)] = Global
  BY Chains
<1>2. PICK i \in 1 .. Len(s) : /\ v = s[i] /\ v \in B \cup {Global}
                               /\ \A j \in 1 .. i - 1 : s[j] \notin B \cup {Global}
  BY DEF IsFirst
<1>3. PICK m \in 1 .. n : f = Chain[c][m]
  BY <1>1 DEF ToSet
<1>4. CASE m < i
  <2>1. m \in 1 .. i - 1
    BY <1>1, <1>4
  <2> QED
    BY <1>1, <1>2, <1>3, <2>1
<1>5. CASE ~(m < i)
  <2>1. i \in 1 .. n /\ v = Chain[c][i]
    BY <1>1, <1>2, <1>5
  <2>2. /\ v \in Envs /\ Len(Above(v)) = Len(s) - i + 1
        /\ \A k \in 1 .. Len(Above(v)) : Above(v)[k] = s[i - 1 + k]
    BY <2>1, Outward
  <2>3. m - i + 1 \in 1 .. Len(Above(v)) /\ i - 1 + (m - i + 1) = m
    BY <1>1, <1>5, <2>1, <2>2
  <2>4. Above(v)[m - i + 1] = f
    BY <1>1, <1>3, <2>2, <2>3
  <2>5. Above(v) \in Seq(Envs)
    BY <2>2, Chains
  <2> QED
    BY <2>3, <2>4, <2>5 DEF ToSet
<1> QED
  BY <1>4, <1>5

-----------------------------------------------------------------------------
(* Caches follow scope: what the steps do to the bindings *)

\* No frame gets a binding or loses one, ...
SameCells == /\ \A f \in Frames : /\ f \in Bound' <=> f \in Bound
                                  /\ cell[f] = Placeholder => cell'[f] = Placeholder
             /\ \A e \in Envs : cell'[e].ext = cell[e].ext

\* ... but one binding gets an extension, ...
NewExtension(p) ==
    /\ \A f \in Frames : /\ f \in Bound' <=> f \in Bound
                         /\ cell[f] = Placeholder => cell'[f] = Placeholder
    /\ cell[loc[p].cell].ext = 0
    /\ \A e \in Envs : cell'[e].ext = IF e = loc[p].cell THEN Len(exts) + 1 ELSE cell[e].ext

\* ... or a frame gets a binding, with an extension or without one.
NewBinding(p, e, x) ==
    /\ op[p].kind = "define" /\ op[p].env = e
    /\ cell[e] = Placeholder /\ e \in Bound' /\ cell'[e].ext = x
    /\ \A f \in Envs \ {e} : cell'[f] = cell[f]

\* What is bound is seen by its contents.
LEMMA BoundCells ==
  ASSUME NEW c \in CellTypes
  PROVE  /\ c.ext # 0 => c \notin {Empty, Placeholder}
         /\ c.val \notin {Unbound, NoBinding} => c \notin {Empty, Placeholder}
         /\ c \in {Empty, Placeholder} => c.ext = 0
         /\ c.danger => c # Empty
         /\ c.val # Unbound => c # Placeholder
         /\ \A d : [c EXCEPT !.danger = d] = [danger |-> d, val |-> c.val, ext |-> c.ext]
         /\ \A v : [c EXCEPT !.val = v] = [danger |-> c.danger, val |-> v, ext |-> c.ext]
         /\ [c EXCEPT !.val = c.val] = c
BY DEF CellTypes, Empty, Placeholder, Cell

\* What is stored or defined is a value.
LEMMA StoredValue ==
  ASSUME IInv, NEW p \in Procs, op[p].kind \in {"assign", "define"}
  PROVE  op[p].env \in Envs /\ op[p].val \in Contents /\ op[p].val \notin {Unbound, NoBinding}
<1>1. op[p] \in OpTypes
  BY DEF IInv, Typed, NoOp
<1>2. op[p].val \in Values \cup {Unassigned} /\ op[p].env \in Envs
  BY <1>1 DEF OpTypes
<1> QED
  BY <1>2, CacheAssumption, MarkerAssumption DEF Contents

LEMMA StillCells ==
  ASSUME ScopeInv, UNCHANGED cell
  PROVE  Marked' /\ SameCells
BY DEF ScopeInv, Marked, SameCells, Bound, Binds

LEMMA AssignCellMoves ==
  ASSUME IInv, ScopeInv, NEW p \in Procs, AssignCell(p)
  PROVE  Marked' /\ (SameCells \/ \E e \in Frames : NewBinding(p, e, 0) /\ Clear(e))
<1> DEFINE e == loc[p].cell
           c == cell[e]
<1>0. /\ cell \in [Envs -> CellTypes] /\ e \in Envs /\ c \in CellTypes
      /\ Marked /\ Global \notin Frames /\ Frames \subseteq Envs
  BY CacheAssumption DEF IInv, Typed, LocTypes, ScopeInv, Envs
<1>1. CASE cell' = cell
  BY <1>1, StillCells
<1>2. ASSUME NEW v, v = Assigned(p, c.val), c.ext = 0, cell' = [cell EXCEPT ![e].val = v]
      PROVE  Marked' /\ (SameCells \/ \E f \in Frames : NewBinding(p, f, 0) /\ Clear(f))
  <2>1. CASE v = c.val
    <3>1. [c EXCEPT !.val = v] = c
      BY <1>0, <2>1, BoundCells
    <3>2. cell' = cell
      BY <1>0, <1>2, <3>1
    <3> QED
      BY <3>2, <1>1
  <2>2. CASE v # c.val
    <3>1. v = op[p].val /\ pc[p] = "aLock"
      BY <1>2, <2>2 DEF Assigned, AssignCell, At
    <3>2. v \in Contents /\ v \notin {Unbound, NoBinding}
      BY <3>1, StoredValue DEF IInv, Roles
    <3>3. cell' = [cell EXCEPT ![e] = [danger |-> c.danger, val |-> v, ext |-> 0]]
      BY <1>0, <1>2, BoundCells
    <3>4. [danger |-> c.danger, val |-> v, ext |-> 0] \in CellTypes
      BY <1>0, <3>2 DEF CellTypes
    <3>5. \A f \in Envs : cell'[f] = IF f = e THEN [danger |-> c.danger, val |-> v, ext |-> 0]
                                    ELSE cell[f]
      BY <1>0, <3>3
    <3>6. cell'[e].ext = 0 /\ cell'[e].val = v /\ cell'[e] \notin {Empty, Placeholder}
      BY <1>0, <3>2, <3>4, <3>5, BoundCells
    <3>7. Marked'
      BY <1>0, <3>2, <3>5, <3>6 DEF Marked
    <3>8. e = Global \/ Binds(e) \/ (op[p].kind = "define" /\ Ready(p, e))
      BY <1>0, <3>1 DEF ScopeInv, AssigningInv
    <3>9. \A f \in Frames : f \in Bound' <=> (f = e \/ f \in Bound)
      BY <1>0, <3>5, <3>6 DEF Bound, Binds
    <3>10. \A f \in Envs : cell'[f].ext = cell[f].ext
      BY <1>2, <3>5, <3>6
    <3>11. \A f \in Frames \ {e} : cell'[f] = cell[f]
      BY <1>0, <3>5
    <3>12. CASE e = Global \/ Binds(e)
      <4>1. \A f \in Frames : f \in Bound' <=> f \in Bound
        BY <1>0, <3>9, <3>12 DEF Bound
      <4>2. \A f \in Frames : cell[f] = Placeholder => cell'[f] = Placeholder
        BY <1>0, <3>11, <3>12 DEF Binds
      <4> QED
        BY <3>7, <3>10, <4>1, <4>2 DEF SameCells
    <3>13. CASE op[p].kind = "define" /\ Ready(p, e)
      <4>1. e \in Frames /\ op[p].env = e /\ cell[e] = Placeholder /\ Clear(e)
        BY <3>13 DEF Ready
      <4>2. e \in Bound'
        BY <3>9, <4>1
      <4>3. NewBinding(p, e, 0)
        BY <3>5, <3>6, <3>13, <4>1, <4>2 DEF NewBinding
      <4> QED
        BY <3>7, <4>1, <4>3
    <3> QED
      BY <3>8, <3>12, <3>13
  <2> QED
    BY <2>1, <2>2
<1> QED
  BY <1>1, <1>2 DEF AssignCell, shared

LEMMA CacheRecacheMoves ==
  ASSUME IInv, ScopeInv, NEW p \in Procs, CacheRecache(p)
  PROVE  Marked' /\ (SameCells \/ NewExtension(p))
<1> DEFINE e == loc[p].cell
           c == cell[e]
           n == Len(exts) + 1
           d == Cell(c.danger, Unbound, n)
<1>0. /\ cell \in [Envs -> CellTypes] /\ e \in Envs /\ c \in CellTypes /\ n \in Nat /\ n # 0
      /\ Marked /\ Global \notin Frames /\ Frames \subseteq Envs
  BY CacheAssumption DEF IInv, Typed, LocTypes, ScopeInv, Envs
<1>1. CASE cell' = cell
  BY <1>1, StillCells
<1>2. ASSUME c.ext = 0, cell' = Set(cell, e, d)
      PROVE  Marked' /\ NewExtension(p)
  <2>1. e = Global \/ Binds(e)
    <3>1. op[p].ref \in Refs /\ e = Visible(EnvOf[op[p].ref])
      BY OpFacts DEF CacheRecache, At, IInv, Roles, ScopeInv, CachingInv
    <3>2. EnvOf[op[p].ref] \in Envs
      BY <3>1, CacheAssumption
    <3> QED
      BY <3>1, <3>2, LookupFinds
  <2>2. d \in CellTypes /\ d.ext = n
    BY <1>0 DEF Cell, CellTypes, Contents
  <2> HIDE DEF d, n
  <2>3. \A f \in Envs : cell'[f] = IF f = e THEN d ELSE cell[f]
    BY <1>0, <1>2 DEF Set
  <2>4. d \notin {Empty, Placeholder}
    BY <1>0, <2>2, BoundCells
  <2>5. Marked'
    BY <1>0, <2>2, <2>3 DEF Marked
  <2>6. \A f \in Frames : /\ f \in Bound' <=> f \in Bound
                          /\ cell[f] = Placeholder => cell'[f] = Placeholder
    BY <1>0, <2>1, <2>3, <2>4 DEF Bound, Binds
  <2>7. \A f \in Envs : cell'[f].ext = IF f = e THEN n ELSE cell[f].ext
    BY <2>2, <2>3
  <2> QED
    BY <1>2, <2>5, <2>6, <2>7 DEF NewExtension, n
<1> QED
  BY <1>1, <1>2 DEF CacheRecache, shared

LEMMA ExtendMoves ==
  ASSUME IInv, ScopeInv, NEW p \in Procs, Extend(p)
  PROVE  Marked' /\ SameCells
<1> USE DEF IInv
<1>1. PICK e, w : /\ e = op[p].env /\ w = Visible(e) /\ e # Global /\ ~Binds(e)
                  /\ cell' = [f \in Envs |->
                        IF f = w THEN [cell[w] EXCEPT !.danger = TRUE]
                        ELSE IF f \in ToSet(Chain[e]) /\ f \notin ToSet(Above(w))
                        THEN Placeholder ELSE cell[f]]
  BY DEF Extend
<1>2. e \in Envs
  BY <1>1, OpFacts DEF Extend, At
<1>3. /\ cell \in [Envs -> CellTypes] /\ w \in Envs /\ cell[w] \in CellTypes
      /\ Marked /\ Global \notin Frames /\ Frames \subseteq Envs
      /\ w = Global \/ Binds(w)
  BY <1>1, <1>2, LookupFinds, CacheAssumption DEF Typed, ScopeInv, Envs
<1>4. ASSUME NEW f \in ToSet(Chain[e]), f \notin ToSet(Above(w))
      PROVE  f \in Frames /\ cell[f] \in {Empty, Placeholder}
  <2>1. IsFirst(e, Bound, w)
    BY <1>1, <1>2, VisibleIsFirst
  <2>2. f \notin Bound /\ f \in Frames
    BY <1>2, <1>4, <2>1, InsideUnbound
  <2> QED
    BY <2>2 DEF Bound, Binds
<1> DEFINE d == [danger |-> TRUE, val |-> cell[w].val, ext |-> cell[w].ext]
<1>5. cell'[w] = d /\ d \in CellTypes
  BY <1>1, <1>3, BoundCells DEF CellTypes
<1>6. w \in Frames => d \notin {Empty, Placeholder} /\ (d.ext = 0 => d.val # Unbound)
  <2>1. SUFFICES ASSUME w \in Frames
        PROVE  d \notin {Empty, Placeholder} /\ (d.ext = 0 => d.val # Unbound)
    OBVIOUS
  <2>2. cell[w] # Placeholder
    BY <1>3, <2>1 DEF Binds
  <2>3. cell[w].ext = 0 => cell[w].val # Unbound
    BY <1>3, <2>1, <2>2 DEF Marked
  <2>4. d.ext = cell[w].ext /\ d.val = cell[w].val /\ d.danger
    OBVIOUS
  <2>5. d.ext # 0 \/ d.val # Unbound
    BY <2>3, <2>4
  <2> HIDE DEF d
  <2>6. d # Empty /\ d # Placeholder
    BY <1>5, <2>4, <2>5, BoundCells
  <2> QED
    BY <2>3, <2>4, <2>6
<1>7. ASSUME NEW f \in Envs
      PROVE  \/ f = w /\ cell'[f] = d
             \/ cell'[f] = cell[f]
             \/ cell'[f] = Placeholder /\ f \in Frames /\ cell[f] \in {Empty, Placeholder}
  BY <1>1, <1>4, <1>5
<1>8. Placeholder.ext = 0 /\ Empty.ext = 0 /\ d.ext = cell[w].ext
  BY DEF Placeholder, Empty, Cell
<1> HIDE DEF d
<1>9. Marked'
  BY <1>3, <1>6, <1>7 DEF Marked
<1>10. \A f \in Frames : f \in Bound' <=> f \in Bound
  BY <1>3, <1>6, <1>7 DEF Bound, Binds
<1>11. \A f \in Frames : cell[f] = Placeholder => cell'[f] = Placeholder
  BY <1>3, <1>7 DEF Binds
<1>12. \A f \in Envs : cell'[f].ext = cell[f].ext
  BY <1>7, <1>8
<1> QED
  BY <1>9, <1>10, <1>11, <1>12 DEF SameCells

LEMMA DefineExtMoves ==
  ASSUME IInv, ScopeInv, NEW p \in Procs, DefineExt(p)
  PROVE  Marked' /\ \E e \in Frames : NewBinding(p, e, Len(exts) + 1)
<1> USE DEF IInv
<1>1. PICK e : e = op[p].env
  OBVIOUS
<1>2. /\ op[p].kind = "define" /\ e \in Envs
      /\ e \in Frames /\ loc[p].cell = e /\ cell[e] = Placeholder
  BY <1>1, OpFacts DEF DefineExt, At, Roles, ScopeInv, DefiningInv
<1> DEFINE x == Len(exts) + 1
           d == Cell(loc[p].shadowed, Unbound, x)
<1>3. /\ cell \in [Envs -> CellTypes] /\ Marked /\ Frames \subseteq Envs
      /\ loc[p].shadowed \in BOOLEAN /\ x \in Nat /\ x # 0
  BY DEF Typed, LocTypes, ScopeInv, Envs
<1>4. d \in CellTypes /\ d.ext = x
  BY <1>3 DEF Cell, CellTypes, Contents
<1>5. cell' = Set(cell, e, d)
  BY <1>2 DEF DefineExt
<1> HIDE DEF d, x
<1>6. \A f \in Envs : cell'[f] = IF f = e THEN d ELSE cell[f]
  BY <1>3, <1>5 DEF Set
<1>7. d \notin {Empty, Placeholder}
  BY <1>3, <1>4, BoundCells
<1>8. Marked'
  BY <1>3, <1>4, <1>6 DEF Marked
<1>9. NewBinding(p, e, x)
  BY <1>1, <1>2, <1>3, <1>4, <1>6, <1>7 DEF NewBinding, Bound, Binds
<1> QED
  BY <1>2, <1>8, <1>9 DEF x

LEMMA DefineMoves ==
  ASSUME IInv, ScopeInv, NEW p \in Procs, Define(p)
  PROVE  Marked' /\ (SameCells \/ \E e \in Frames : NewBinding(p, e, 0) /\ Clear(e))
<1> USE DEF IInv
<1>1. PICK e : e = op[p].env
  OBVIOUS
<1>2. /\ op[p].kind = "define" /\ e \in Envs
      /\ e \in Frames /\ loc[p].cell = e /\ cell[e] = Placeholder /\ Clear(e)
  BY <1>1, OpFacts DEF Define, At, Roles, ScopeInv, DefiningInv
<1>3. CASE cell' = cell
  BY <1>3, StillCells
<1>4. ASSUME cell' = Set(cell, e, Cell(FALSE, op[p].val, 0))
      PROVE  Marked' /\ NewBinding(p, e, 0)
  <2> DEFINE d == Cell(FALSE, op[p].val, 0)
  <2>1. cell \in [Envs -> CellTypes] /\ Marked /\ Frames \subseteq Envs
    BY DEF Typed, ScopeInv, Envs
  <2>2. op[p].val \in Contents /\ op[p].val \notin {Unbound, NoBinding}
    BY <1>2, StoredValue
  <2>3. d \in CellTypes /\ d.ext = 0 /\ d.val = op[p].val
    BY <2>2 DEF Cell, CellTypes, Contents
  <2>4. d \notin {Empty, Placeholder}
    BY <2>2, <2>3, BoundCells
  <2> HIDE DEF d
  <2>5. \A f \in Envs : cell'[f] = IF f = e THEN d ELSE cell[f]
    BY <1>4, <2>1 DEF Set, d
  <2>6. Marked'
    BY <2>1, <2>2, <2>3, <2>5 DEF Marked
  <2> QED
    BY <1>1, <1>2, <2>1, <2>3, <2>4, <2>5, <2>6 DEF NewBinding, Bound, Binds
<1> QED
  BY <1>2, <1>3, <1>4 DEF Define

\* What a step does to bindings, extensions and links together.
Moves(p) ==
    \/ SameCells /\ Kept
    \/ SameCells /\ Filed(p) /\ pc[p] = "cExt"
    \/ NewExtension(p) /\ Kept
    \/ \E e \in Frames : NewBinding(p, e, 0) /\ Clear(e) /\ Kept
    \/ \E e \in Frames : NewBinding(p, e, Len(exts) + 1) /\ Refiled(p) /\ pc[p] = "dExt"

LEMMA StepMoves ==
  ASSUME IInv, ScopeInv, NEW p \in Procs, Step(p)
  PROVE  Marked' /\ Moves(p)
<1> USE DEF IInv
<1>0. pc[p] \notin {"cExt", "dExt"} => Kept
  BY StepLists
<1>1. CASE CacheRecache(p)
  BY <1>0, <1>1, CacheRecacheMoves DEF CacheRecache, At, Moves
<1>2. CASE AssignCell(p)
  BY <1>0, <1>2, AssignCellMoves DEF AssignCell, At, Moves
<1>3. CASE Extend(p)
  BY <1>0, <1>3, ExtendMoves DEF Extend, At, Moves
<1>4. CASE DefineExt(p)
  <2>1. Refiled(p) /\ pc[p] = "dExt"
    BY <1>4, DefineExtLists DEF DefineExt, At
  <2> QED
    BY <1>4, <2>1, DefineExtMoves DEF Moves
<1>5. CASE Define(p)
  BY <1>0, <1>5, DefineMoves DEF Define, At, Moves
<1>6. CASE DefineNothing(p) \/ DefineFull(p)
  <2>1. Kept /\ cell' = cell
    BY <1>6, SplitLists DEF DefineNothing, DefineFull, At
  <2> QED
    BY <2>1, StillCells DEF Moves
<1>7. CASE CacheExt(p)
  <2>1. cell' = cell /\ pc[p] = "cExt"
    BY <1>7 DEF CacheExt, CacheUntouched, shared, At
  <2> QED
    BY <2>1, StillCells, StepLists DEF Moves
<1>8. CASE Begin(p) \/ WaitInterrupted(p) \/ StartCache(p) \/ CacheLock(p)
           \/ CacheBeaten(p) \/ StartAssign(p) \/ StartCompiled(p)
           \/ AssignExt(p) \/ AssignLinks(p) \/ LinksFull(p) \/ LinksInterrupted(p)
           \/ StartRedefine(p) \/ DefineLock(p) \/ DefineRecache(p)
  <2>1. cell' = cell
    BY <1>8 DEF Begin, WaitInterrupted, StartCache, Starts, CacheLock, CacheBeaten,
       StartAssign, StartCompiled, AssignExt, AssignLinks, LinksFull, LinksInterrupted,
       AssignReverts, StartRedefine, DefineLock, DefineRecache, shared
  <2>2. pc[p] \notin {"cExt", "dExt"}
    BY <1>8 DEF Begin, WaitInterrupted, StartCache, Starts, CacheLock, CacheBeaten,
       StartAssign, StartCompiled, AssignExt, AssignLinks, LinksFull, LinksInterrupted,
       StartRedefine, DefineLock, DefineRecache, At
  <2> QED
    BY <1>0, <2>1, <2>2, StillCells DEF Moves
<1> QED
  BY <1>1, <1>2, <1>3, <1>4, <1>5, <1>6, <1>7, <1>8 DEF Step

\* Lookups find what they found, ...
LEMMA SameVisible ==
  ASSUME \A f \in Frames : f \in Bound' <=> f \in Bound, NEW c \in Envs
  PROVE  Visible(c)' = Visible(c)
<1>1. Bound' = Bound
  BY DEF Bound
<1>2. IsFirst(c, Bound, Visible(c)) /\ IsFirst(c, Bound, Visible(c)')
  BY <1>1, VisibleIsFirst
<1> QED
  BY <1>2, OneFirst

\* ... but those from below a new binding that found what it hides.
LEMMA OtherVisible ==
  ASSUME NEW p \in Procs, NEW e \in Frames, NEW x, NewBinding(p, e, x), NEW c \in Envs
  PROVE  Visible(c)' = IF e \in ToSet(Chain[c]) /\ Visible(c) = Visible(e)
                       THEN e ELSE Visible(c)
<1>1. e \in Envs /\ Frames \subseteq Envs
  BY DEF Envs
<1>2. e \notin Bound
  BY DEF NewBinding, Bound, Binds
<1>3. Bound' = Bound \cup {e}
  <2>1. \A f \in Frames : f \in Bound' <=> f = e \/ f \in Bound
    BY <1>1 DEF NewBinding, Bound, Binds
  <2> QED
    BY <2>1 DEF Bound
<1>4. /\ IsFirst(c, Bound, Visible(c)) /\ IsFirst(e, Bound, Visible(e))
      /\ IsFirst(c, Bound', Visible(c)')
  BY <1>1, VisibleIsFirst
<1>5. IsFirst(c, Bound \cup {e}, Visible(c)')
  BY <1>3, <1>4
<1> QED
  BY <1>2, <1>4, <1>5, FirstWithOneMore

\* A lookup sees a new binding only from below it.
LEMMA VisibleFarAway ==
  ASSUME IInv, ScopeInv, NEW p \in Procs, Moves(p), NEW c \in Envs,
         op[p].kind = "define" => op[p].env \notin ToSet(Chain[c])
  PROVE  Visible(c)' = Visible(c)
<1>1. CASE SameCells \/ NewExtension(p)
  BY <1>1, SameVisible DEF SameCells, NewExtension
<1>2. ASSUME NEW e \in Frames, NEW x, NewBinding(p, e, x)
      PROVE  Visible(c)' = Visible(c)
  BY <1>2, OtherVisible DEF NewBinding
<1> QED
  BY <1>1, <1>2 DEF Moves

\* An extension stays with its binding, and a new one is nobody else's.
LEMMA ExtensionsStay ==
  ASSUME IInv, ScopeInv, NEW p \in Procs, Moves(p)
  PROVE  /\ \A e \in Envs : cell[e].ext # 0 => cell'[e].ext = cell[e].ext
         /\ OwnExtensions'
<1> USE DEF IInv
<1>0. /\ Len(exts) \in Nat /\ OwnExtensions
      /\ \A e \in Envs : cell[e].ext \in Nat /\ cell[e].ext <= Len(exts)
      /\ Frames \subseteq Envs /\ Placeholder.ext = 0
  BY DEF Typed, CellTypes, CellInv, ScopeInv, Envs, Placeholder, Cell
<1>1. ASSUME \A e \in Envs : cell'[e].ext = cell[e].ext
      PROVE  /\ \A e \in Envs : cell[e].ext # 0 => cell'[e].ext = cell[e].ext
             /\ OwnExtensions'
  BY <1>0, <1>1 DEF OwnExtensions
<1>2. ASSUME NEW d, cell[d].ext = 0,
             \A e \in Envs : cell'[e].ext = IF e = d THEN Len(exts) + 1 ELSE cell[e].ext
      PROVE  /\ \A e \in Envs : cell[e].ext # 0 => cell'[e].ext = cell[e].ext
             /\ OwnExtensions'
  BY <1>0, <1>2 DEF OwnExtensions
<1>3. CASE SameCells
  BY <1>1, <1>3 DEF SameCells
<1>4. CASE NewExtension(p)
  BY <1>2, <1>4 DEF NewExtension
<1>5. ASSUME NEW e \in Frames, NewBinding(p, e, 0)
      PROVE  \A f \in Envs : cell'[f].ext = cell[f].ext
  BY <1>0, <1>5 DEF NewBinding
<1>6. ASSUME NEW e \in Frames, NewBinding(p, e, Len(exts) + 1)
      PROVE  /\ cell[e].ext = 0
             /\ \A f \in Envs : cell'[f].ext = IF f = e THEN Len(exts) + 1 ELSE cell[f].ext
  BY <1>0, <1>6 DEF NewBinding
<1> QED
  BY <1>1, <1>2, <1>3, <1>4, <1>5, <1>6 DEF Moves

\* What is in use afterwards has been so before, or is being cached.
LEMMA LiveBefore ==
  ASSUME IInv, NEW p \in Procs, Moves(p), NEW r \in Refs, r \in Live'
  PROVE  \/ r \in Live
         \/ r = op[p].ref /\ pc[p] = "cExt" /\ Filed(p) /\ SameCells
<1>0. link'[r] \notin {Symbol, Gone}
  BY DEF Live
<1>1. CASE Kept
  BY <1>0, <1>1 DEF Kept, Live
<1>2. CASE SameCells /\ Filed(p) /\ pc[p] = "cExt"
  BY <1>0, <1>2 DEF Filed, Live
<1>3. CASE Refiled(p) /\ pc[p] = "dExt"
  <2>1. loc[p].ext \in DOMAIN exts /\ KindOf[r] \in Kinds
    BY <1>3, CacheAssumption DEF IInv, LocInv
  <2>2. CASE r \in Moved(p, KindOf[r])
    <3>1. r \in Alive(exts[loc[p].ext].refs[KindOf[r]])
      BY <2>2 DEF Moved
    <3> QED
      BY <2>1, <3>1, AliveLinks DEF IInv, Live
  <2>3. CASE r \notin Moved(p, KindOf[r])
    BY <1>0, <1>3, <2>3 DEF Refiled, Live
  <2> QED
    BY <2>2, <2>3
<1> QED
  BY <1>1, <1>2, <1>3 DEF Moves

\* A link leads to an extension, so the binding it follows has one.
LEMMA LiveLinks ==
  ASSUME IInv, ScopeInv, NEW r \in Live
  PROVE  /\ r \in Refs /\ EnvOf[r] \in Envs /\ Visible(EnvOf[r]) \in Envs
         /\ link[r].ext \in DOMAIN exts /\ link[r].ext # 0
         /\ link[r].ext = cell[Visible(EnvOf[r])].ext
<1>1. r \in Refs /\ EnvOf[r] \in Envs /\ link[r].ext \in DOMAIN exts
  BY CacheAssumption DEF Live, IInv, Listed
<1>2. exts \in Seq(ExtTypes)
  BY DEF IInv, Typed
<1> QED
  BY <1>1, <1>2, LookupFinds DEF ScopeInv, CachesFollowScope

\* The links still follow the scope.
LEMMA ScopeKept ==
  ASSUME IInv, ScopeInv, NEW p \in Procs, Moves(p)
  PROVE  CachesFollowScope'
<1> USE DEF IInv
<1> SUFFICES ASSUME NEW r \in Refs, r \in Live'
    PROVE  \A c : c = EnvOf[r] => link'[r].ext = cell'[Visible(c)'].ext
  BY DEF CachesFollowScope, Live
<1> SUFFICES ASSUME NEW c, c = EnvOf[r]
    PROVE  link'[r].ext = cell'[Visible(c)'].ext
  OBVIOUS
<1>1. c \in Envs
  BY CacheAssumption
<1>2. \A e \in Envs : cell[e].ext # 0 => cell'[e].ext = cell[e].ext
  BY ExtensionsStay
<1>3. CASE r \notin Live
  <2>1. r = op[p].ref /\ pc[p] = "cExt" /\ Filed(p) /\ SameCells
    BY <1>3, LiveBefore
  <2>2. link'[r].ext = loc[p].ext
    BY <2>1 DEF Filed
  <2>3. loc[p].ext = cell[Visible(c)].ext
    BY <2>1 DEF ScopeInv, CachingInv
  <2>4. Visible(c)' = Visible(c) /\ Visible(c) \in Envs
    BY <1>1, <2>1, SameVisible, LookupFinds DEF SameCells
  <2> QED
    BY <2>1, <2>2, <2>3, <2>4 DEF SameCells
<1>4. CASE r \in Live
  <2>1. /\ link[r].ext \in DOMAIN exts /\ link[r].ext # 0
        /\ link[r].ext = cell[Visible(c)].ext /\ Visible(c) \in Envs
    BY <1>4, LiveLinks
  <2>2. cell'[Visible(c)].ext = link[r].ext
    BY <1>2, <2>1
  <2>3. Kept => link'[r].ext = link[r].ext
    BY <1>4 DEF Kept, Live
  <2>4. CASE (SameCells \/ NewExtension(p)) /\ Kept
    BY <1>1, <2>2, <2>3, <2>4, SameVisible DEF SameCells, NewExtension
  <2>5. CASE SameCells /\ Filed(p) /\ pc[p] = "cExt"
    <3>1. op[p].ref # r
      BY <1>4, <2>5 DEF CacheInv, Live
    <3>2. link'[r].ext = link[r].ext
      BY <2>5, <3>1 DEF Filed
    <3> QED
      BY <1>1, <2>2, <2>5, <3>2, SameVisible DEF SameCells
  <2>6. ASSUME NEW e \in Frames, NewBinding(p, e, 0), Clear(e), Kept
        PROVE  link'[r].ext = cell'[Visible(c)'].ext
    <3>1. ~(e \in ToSet(Chain[c]) /\ Visible(c) = Visible(e))
      BY <1>4, <2>6 DEF Clear
    <3>2. Visible(c)' = Visible(c)
      BY <1>1, <2>6, <3>1, OtherVisible
    <3> QED
      BY <2>2, <2>3, <2>6, <3>2
  <2>7. ASSUME NEW e \in Frames, NewBinding(p, e, Len(exts) + 1), Refiled(p), pc[p] = "dExt"
        PROVE  link'[r].ext = cell'[Visible(c)'].ext
    <3>0. e \in Envs /\ op[p].env = e /\ KindOf[r] \in Kinds
      BY <2>7, CacheAssumption DEF NewBinding, Envs
    <3>1. /\ loc[p].cell = e /\ loc[p].old = Visible(e)
          /\ loc[p].ext = cell[loc[p].old].ext /\ loc[p].ext \in DOMAIN exts
      BY <2>7, <3>0 DEF ScopeInv, DefiningInv, LocInv
    <3>2. Visible(e) \in Envs
      BY <3>0, LookupFinds
    <3>3. loc[p].ext = link[r].ext <=> Visible(c) = Visible(e)
      BY <2>1, <3>1, <3>2 DEF ScopeInv, OwnExtensions
    <3>4. r \in Alive(exts[loc[p].ext].refs[KindOf[r]]) <=> loc[p].ext = link[r].ext
      <4>1. r \in exts[loc[p].ext].refs[KindOf[r]] => loc[p].ext = link[r].ext
        BY <1>4, <3>0, <3>1 DEF Listed, Live
      <4>2. ASSUME loc[p].ext = link[r].ext
            PROVE  r \in exts[loc[p].ext].refs[KindOf[r]]
        <5>1. PICK k \in Kinds : r \in exts[loc[p].ext].refs[k]
          BY <1>4, <3>1, <4>2 DEF Listed, Live
        <5> QED
          BY <3>1, <5>1 DEF RefsInv
      <4> QED
        BY <1>4, <4>1, <4>2 DEF Alive, Live
    <3>5. r \in Below(e) <=> e \in ToSet(Chain[c])
      <4>1. /\ Len(Chain[c]) \in Nat /\ Len(Above(c)) = Len(Chain[c]) + 1
            /\ \A i \in 1 .. Len(Chain[c]) : Above(c)[i] = Chain[c][i]
            /\ Above(c)[Len(Above(c))] = Global /\ Global # e
            /\ Chain[c] \in Seq(Frames) /\ Above(c) \in Seq(Envs)
        BY <1>1, Chains
      <4>2. \A i \in 1 .. Len(Above(c)) : i = Len(Above(c)) \/ i \in 1 .. Len(Chain[c])
        BY <4>1
      <4>3. \A i \in 1 .. Len(Chain[c]) : i \in 1 .. Len(Above(c))
        BY <4>1
      <4>4. (\E i \in 1 .. Len(Above(c)) : Above(c)[i] = e)
               <=> \E i \in 1 .. Len(Chain[c]) : Chain[c][i] = e
        BY <4>1, <4>2, <4>3
      <4>5. e \in ToSet(Above(c)) <=> e \in ToSet(Chain[c])
        BY <4>1, <4>4 DEF ToSet
      <4> QED
        BY <4>5 DEF Below
    <3>6. r \in Moved(p, KindOf[r]) <=> e \in ToSet(Chain[c]) /\ Visible(c) = Visible(e)
      BY <3>1, <3>3, <3>4, <3>5 DEF Moved
    <3>7. Visible(c)' = IF r \in Moved(p, KindOf[r]) THEN e ELSE Visible(c)
      BY <1>1, <2>7, <3>6, OtherVisible
    <3>8. CASE r \in Moved(p, KindOf[r])
      BY <2>7, <3>7, <3>8 DEF Refiled, NewBinding
    <3>9. CASE r \notin Moved(p, KindOf[r])
      BY <2>2, <2>7, <3>7, <3>9 DEF Refiled
    <3> QED
      BY <3>8, <3>9
  <2> QED
    BY <2>4, <2>5, <2>6, <2>7 DEF Moves
<1> QED
  BY <1>3, <1>4

\* What p defines is not seen by a call of another processor.
LEMMA OthersApart ==
  ASSUME ChangesApart, IInv, NEW p \in Procs, NEW q \in Procs, p # q, op[p].kind = "define"
  PROVE  /\ op[q].kind = "cache" => op[p].env \notin ToSet(Chain[EnvOf[op[q].ref]])
         /\ op[q].kind = "define" => op[p].env \notin ToSet(Chain[op[q].env])
<1>1. op[p] \in Ops[p] \cup {NoOp} /\ op[q] \in Ops[q] \cup {NoOp} /\ NoOp.kind = "none"
  BY DEF IInv, Typed, NoOp
<1>2. op[p] \in Ops[p]
  BY <1>1
<1> QED
  BY <1>1, <1>2 DEF ChangesApart

\* A frame that is being defined is still a placeholder, and still clear.
LEMMA FrameStays ==
  ASSUME ChangesApart, IInv, ScopeInv, NEW p \in Procs, Moves(p), NEW q \in Procs, p # q,
         NEW e \in Frames, op[q].kind = "define", op[q].env = e, cell[e] = Placeholder
  PROVE  cell'[e] = Placeholder /\ Visible(e)' = Visible(e) /\ (Clear(e) => Clear(e)')
<1> USE DEF IInv
<1>0. e \in Envs /\ Frames \subseteq Envs /\ Global \notin Frames
  BY CacheAssumption DEF Envs
<1>1. op[p].kind = "define" => op[p].env \notin ToSet(Chain[e])
  BY OthersApart
<1>2. Visible(e)' = Visible(e)
  BY <1>0, <1>1, VisibleFarAway
<1>3. e \in ToSet(Chain[e])
  <2>1. Chain[e] \in Seq(Frames) /\ Len(Chain[e]) > 0 /\ Chain[e][1] = e
    BY <1>0, CacheAssumption
  <2> QED
    BY <2>1 DEF ToSet
<1>4. cell'[e] = Placeholder
  <2>1. ASSUME NEW f \in Frames, NEW x, NewBinding(p, f, x)
        PROVE  cell'[e] = Placeholder
    BY <1>0, <1>1, <1>3, <2>1 DEF NewBinding
  <2> QED
    BY <2>1 DEF Moves, SameCells, NewExtension
<1>5. ASSUME Clear(e)
      PROVE  Clear(e)'
  <2> SUFFICES ASSUME NEW r \in Refs, r \in Live', NEW c, c = EnvOf[r], e \in ToSet(Chain[c])
      PROVE  Visible(c)' # Visible(e)
    BY <1>2 DEF Clear, Live
  <2>1. c \in Envs
    BY CacheAssumption
  <2>2. r \in Live
    <3>1. ~(r = op[p].ref /\ pc[p] = "cExt")
      BY OthersApart DEF Roles
    <3> QED
      BY <3>1, LiveBefore
  <2>3. Visible(c) # Visible(e)
    BY <1>5, <2>2 DEF Clear
  <2>4. Visible(c)' = Visible(c) \/ (op[p].kind = "define" /\ Visible(c)' = op[p].env
                                       /\ op[p].env \in Frames)
    <3>1. CASE SameCells \/ NewExtension(p)
      BY <2>1, <3>1, SameVisible DEF SameCells, NewExtension
    <3>2. ASSUME NEW f \in Frames, NEW x, NewBinding(p, f, x)
          PROVE  Visible(c)' = Visible(c) \/ (op[p].kind = "define" /\ Visible(c)' = op[p].env
                                                /\ op[p].env \in Frames)
      BY <2>1, <3>2, OtherVisible DEF NewBinding
    <3> QED
      BY <3>1, <3>2 DEF Moves
  <2>5. Visible(e) \in ToSet(Chain[e]) \cup {Global}
    BY <1>0, LookupFinds
  <2> QED
    BY <1>0, <1>1, <2>3, <2>4, <2>5
<1> QED
  BY <1>2, <1>4, <1>5

-----------------------------------------------------------------------------
(* What has been found is still so *)

\* The three invariants of what calls have found, for one processor.
Found(p) ==
    /\ \A c \in Envs : pc[p] \in {"cLock", "cRecache", "cExt"} /\ c = EnvOf[op[p].ref] =>
          /\ loc[p].cell = Visible(c)
          /\ pc[p] = "cExt" => loc[p].ext = cell[loc[p].cell].ext
    /\ \A e \in Envs :
          pc[p] \in {"dLock", "dRecache", "dExt", "dDefine"} /\ op[p].env = e =>
             /\ e \in Frames /\ loc[p].cell = e /\ cell[e] = Placeholder
             /\ pc[p] # "dDefine" => loc[p].old = Visible(e)
             /\ pc[p] \in {"dRecache", "dExt"} => /\ loc[p].ext = cell[loc[p].old].ext
                                                  /\ loc[p].ext # 0
             /\ pc[p] = "dDefine" => Clear(e)
    /\ \A e \in Envs : pc[p] = "aLock" /\ loc[p].cell = e =>
          e = Global \/ Binds(e) \/ (op[p].kind = "define" /\ Ready(p, e))

LEMMA FoundByAll ==
  /\ CachingInv /\ DefiningInv /\ AssigningInv => \A p \in Procs : Found(p)
  /\ Typed' /\ Roles' /\ (\A p \in Procs : Found(p)') =>
        CachingInv' /\ DefiningInv' /\ AssigningInv'
<1>1. CachingInv /\ DefiningInv /\ AssigningInv => \A p \in Procs : Found(p)
  BY DEF CachingInv, DefiningInv, AssigningInv, Found
<1>2. ASSUME Typed', Roles', \A p \in Procs : Found(p)'
      PROVE  CachingInv' /\ DefiningInv' /\ AssigningInv'
  <2>1. ASSUME NEW p \in Procs, pc'[p] \in {"cLock", "cRecache", "cExt"}
        PROVE  EnvOf[op'[p].ref] \in Envs
    <3>1. op'[p].kind = "cache" /\ op'[p] \in OpTypes \cup {NoOp} /\ NoOp.kind = "none"
      BY <1>2, <2>1 DEF Typed, Roles, NoOp
    <3> QED
      BY <3>1, Operations, CacheAssumption
  <2>2. CachingInv'
    BY <1>2, <2>1 DEF CachingInv, Found
  <2>3. DefiningInv' /\ AssigningInv'
    BY <1>2 DEF DefiningInv, AssigningInv, Found
  <2> QED
    BY <2>2, <2>3
<1> QED
  BY <1>1, <1>2

\* Another processor has not been disturbed.
LEMMA OthersFound ==
  ASSUME ChangesApart, IInv, ScopeInv, NEW p \in Procs, Moves(p), NEW q \in Procs, p # q,
         pc'[q] = pc[q], op'[q] = op[q], loc'[q] = loc[q]
  PROVE  Found(q)'
<1> USE DEF IInv
<1>0. /\ Global \notin Frames /\ Global \in Envs /\ loc[q].cell \in Envs
      /\ \A e \in Envs : e # Global => e \in Frames
  BY CacheAssumption DEF Envs, Typed, LocTypes
<1>a. Found(q)
  BY FoundByAll DEF ScopeInv
<1>b. \A e \in Envs : cell[e].ext # 0 => cell'[e].ext = cell[e].ext
  BY ExtensionsStay
<1>c. \A i \in DOMAIN exts : i # 0
  BY DEF Typed
<1>1. ASSUME NEW c \in Envs, pc[q] \in {"cLock", "cRecache", "cExt"}, c = EnvOf[op[q].ref]
      PROVE  /\ loc[q].cell = Visible(c)'
             /\ pc[q] = "cExt" => loc[q].ext = cell'[loc[q].cell].ext
  <2>1. loc[q].cell = Visible(c) /\ (pc[q] = "cExt" => loc[q].ext = cell[loc[q].cell].ext)
    BY <1>a, <1>1 DEF Found
  <2>2. op[p].kind = "define" => op[p].env \notin ToSet(Chain[c])
    BY <1>1, OthersApart DEF Roles
  <2>3. Visible(c)' = Visible(c)
    BY <2>2, VisibleFarAway
  <2>4. pc[q] = "cExt" => cell[loc[q].cell].ext # 0
    BY <1>c, <2>1 DEF LocInv
  <2> QED
    BY <1>0, <1>b, <2>1, <2>3, <2>4
<1>2. ASSUME NEW e \in Envs, pc[q] \in {"dLock", "dRecache", "dExt", "dDefine"}, op[q].env = e
      PROVE  /\ e \in Frames /\ loc[q].cell = e /\ cell'[e] = Placeholder
             /\ pc[q] # "dDefine" => loc[q].old = Visible(e)'
             /\ pc[q] \in {"dRecache", "dExt"} => /\ loc[q].ext = cell'[loc[q].old].ext
                                                  /\ loc[q].ext # 0
             /\ pc[q] = "dDefine" => Clear(e)'
  <2>1. /\ e \in Frames /\ loc[q].cell = e /\ cell[e] = Placeholder
        /\ pc[q] # "dDefine" => loc[q].old = Visible(e)
        /\ pc[q] \in {"dRecache", "dExt"} => /\ loc[q].ext = cell[loc[q].old].ext
                                             /\ loc[q].ext # 0
        /\ pc[q] = "dDefine" => Clear(e)
    BY <1>a, <1>2 DEF Found
  <2>2. op[q].kind = "define"
    BY <1>2 DEF Roles
  <2>3. cell'[e] = Placeholder /\ Visible(e)' = Visible(e) /\ (Clear(e) => Clear(e)')
    BY <1>2, <2>1, <2>2, FrameStays
  <2>4. loc[q].old \in Envs
    BY DEF Typed, LocTypes
  <2> QED
    BY <1>b, <2>1, <2>3, <2>4
<1>3. ASSUME NEW e \in Envs, pc[q] = "aLock", loc[q].cell = e
      PROVE  e = Global \/ Binds(e)' \/ (op[q].kind = "define" /\ Ready(q, e)')
  <2>1. e = Global \/ Binds(e) \/ (op[q].kind = "define" /\ Ready(q, e))
    BY <1>a, <1>3 DEF Found
  <2>2. CASE e = Global
    BY <2>2
  <2>3. CASE e # Global /\ Binds(e)
    <3>1. e \in Bound
      BY <1>0, <2>3 DEF Bound
    <3>2. ASSUME NEW f \in Frames, NEW x, NewBinding(p, f, x)
          PROVE  e \in Bound'
      BY <1>0, <2>3, <3>1, <3>2 DEF NewBinding, Bound, Binds
    <3>3. e \in Bound'
      BY <1>0, <2>3, <3>1, <3>2 DEF Moves, SameCells, NewExtension
    <3> QED
      BY <3>3 DEF Bound
  <2>4. CASE op[q].kind = "define" /\ Ready(q, e)
    <3>1. e \in Frames /\ op[q].env = e /\ cell[e] = Placeholder /\ Clear(e)
      BY <2>4 DEF Ready
    <3>2. cell'[e] = Placeholder /\ Clear(e)'
      BY <2>4, <3>1, FrameStays
    <3> QED
      BY <2>4, <3>1, <3>2 DEF Ready
  <2> QED
    BY <2>1, <2>2, <2>3, <2>4
<1> QED
  BY <1>1, <1>2, <1>3 DEF Found

LEMMA NothingFound ==
  ASSUME NEW p \in Procs, pc'[p] \in {"idle", "start", "aExt", "aLinks"}
  PROVE  Found(p)'
BY DEF Found

\* While a processor looks, nothing moves.
LEMMA LookupStays ==
  ASSUME cell' = cell, link' = link, NEW c \in Envs
  PROVE  Visible(c)' = Visible(c) /\ (Clear(c) => Clear(c)')
<1>1. \A f \in Frames : f \in Bound' <=> f \in Bound
  BY DEF Bound, Binds
<1>2. \A d \in Envs : Visible(d)' = Visible(d)
  BY <1>1, SameVisible
<1>3. ASSUME Clear(c)
      PROVE  Clear(c)'
  <2> SUFFICES ASSUME NEW r \in Refs, r \in Live', NEW d, d = EnvOf[r], c \in ToSet(Chain[d])
      PROVE  Visible(d)' # Visible(c)
    BY <1>2 DEF Clear, Live
  <2>1. r \in Live /\ d \in Envs
    BY CacheAssumption DEF Live
  <2> QED
    BY <1>2, <1>3, <2>1 DEF Clear
<1> QED
  BY <1>2, <1>3

\* A call that caches.
LEMMA CacheFound ==
  ASSUME IInv, ScopeInv, NEW p \in Procs, StartCache(p) \/ CacheLock(p) \/ CacheRecache(p)
  PROVE  Found(p)'
<1> USE DEF IInv
<1>0. /\ pc \in [Procs -> Labels] /\ loc \in [Procs -> LocTypes] /\ op' = op
      /\ cell \in [Envs -> CellTypes] /\ exts \in Seq(ExtTypes)
  BY DEF Typed, StartCache, Starts, CacheLock, CacheRecache, HeapFull, BackOut
<1> SUFFICES ASSUME pc'[p] \in {"cLock", "cRecache", "cExt"}, NEW c \in Envs,
                    c = EnvOf[op[p].ref]
    PROVE  /\ loc'[p].cell = Visible(c)'
           /\ pc'[p] = "cExt" => loc'[p].ext = cell'[loc'[p].cell].ext
  <2>1. pc'[p] \notin {"cLock", "cRecache", "cExt"} \/ pc'[p] \in {"cLock", "cRecache", "cExt"}
    OBVIOUS
  <2>2. pc'[p] \in {"cLock", "cRecache", "cExt", "start"}
    BY <1>0 DEF StartCache, Starts, CacheLock, CacheRecache, HeapFull, BackOut, Goto, Set
  <2> QED
    BY <1>0, <2>2 DEF Found
<1>1. CASE StartCache(p)
  <2>1. cell' = cell /\ link' = link /\ pc'[p] = "cLock" /\ loc'[p].cell = Visible(c)
    BY <1>0, <1>1 DEF StartCache, Starts, shared, Goto, Local, Set, NoLocals
  <2> QED
    BY <2>1, LookupStays
<1>2. CASE CacheLock(p)
  <2>1. pc'[p] # "start"
    OBVIOUS
  <2>2. cell' = cell /\ link' = link /\ pc'[p] = "cRecache" /\ loc'[p].cell = loc[p].cell
    BY <1>0, <1>2 DEF CacheLock, shared, Goto, Local, Set, LocTypes
  <2>3. loc[p].cell = Visible(c)
    BY <1>2 DEF CacheLock, At, ScopeInv, CachingInv
  <2> QED
    BY <2>2, <2>3, LookupStays
<1>3. CASE CacheRecache(p)
  <2>1. pc[p] = "cRecache" /\ loc[p].cell = Visible(c) /\ loc[p].cell \in Envs
    BY <1>0, <1>3 DEF CacheRecache, At, ScopeInv, CachingInv, LocTypes
  <2>2. Visible(c)' = Visible(c)
    <3>1. SameCells \/ NewExtension(p)
      BY <1>3, CacheRecacheMoves
    <3> QED
      BY <3>1, SameVisible DEF SameCells, NewExtension
  <2>3. pc'[p] = "cExt" /\ ~HeapFull(p)
    BY <1>0, <1>3 DEF CacheRecache, HeapFull, BackOut, Goto, Set
  <2>4. PICK x, v, n :
           /\ loc' = Set(loc, p, [loc[p] EXCEPT !.ext = x, !.val = v, !.new = n, !.h1 = Free])
           /\ \/ cell' = cell /\ x = cell[loc[p].cell].ext
              \/ /\ x = Len(exts) + 1
                 /\ cell' = Set(cell, loc[p].cell, Cell(cell[loc[p].cell].danger, Unbound, x))
    <3>1. \/ /\ loc' = Set(loc, p, [loc[p] EXCEPT !.ext = cell[loc[p].cell].ext,
                                                  !.val = Unbound, !.new = FALSE, !.h1 = Free])
             /\ cell' = cell
          \/ /\ loc' = Set(loc, p, [loc[p] EXCEPT !.ext = Len(exts) + 1,
                                                  !.val = cell[loc[p].cell].val,
                                                  !.new = TRUE, !.h1 = Free])
             /\ cell' = Set(cell, loc[p].cell,
                            Cell(cell[loc[p].cell].danger, Unbound, Len(exts) + 1))
      BY <1>3, <2>3 DEF CacheRecache, Local
    <3> QED
      BY <3>1
  <2>5. loc'[p].cell = loc[p].cell /\ loc'[p].ext = x
    <3>1. loc'[p] = [loc[p] EXCEPT !.ext = x, !.val = v, !.new = n, !.h1 = Free]
      BY <1>0, <2>4 DEF Set
    <3>2. loc[p] \in LocTypes
      BY <1>0
    <3> QED
      BY <3>1, <3>2 DEF LocTypes
  <2>6. loc'[p].cell = loc[p].cell /\ loc'[p].ext = cell'[loc[p].cell].ext
    BY <1>0, <2>1, <2>4, <2>5 DEF Set, Cell
  <2> QED
    BY <2>1, <2>2, <2>6
<1> QED
  BY <1>1, <1>2, <1>3

\* A call that assigns.
LEMMA AssignFound ==
  ASSUME IInv, ScopeInv, NEW p \in Procs,
         StartAssign(p) \/ AssignCell(p) \/ StartRedefine(p)
  PROVE  Found(p)'
<1> USE DEF IInv
<1>0. /\ pc \in [Procs -> Labels] /\ loc \in [Procs -> LocTypes]
      /\ op \in [Procs -> OpTypes \cup {NoOp}]
  BY DEF Typed
<1>1. CASE pc'[p] \in {"idle", "start", "aExt", "aLinks"}
  BY <1>1, NothingFound
<1>2. CASE pc'[p] \notin {"idle", "start", "aExt", "aLinks"}
  <2>1. pc'[p] = "aLock" /\ cell' = cell /\ op' = op
    BY <1>0, <1>2 DEF StartAssign, Starts, AssignCell, StartRedefine, Redefine, Done,
       shared, Goto, Set, At
  <2>2. op[p].env \in Envs
    BY OpFacts DEF StartAssign, Starts, AssignCell, StartRedefine, At, Roles
  <2>3. \/ loc'[p].cell = Visible(op[p].env)
        \/ loc'[p].cell = op[p].env /\ (op[p].env = Global \/ Binds(op[p].env))
    <3>1. CASE StartAssign(p)
      BY <1>0, <3>1 DEF StartAssign, Starts, Local, Set, NoLocals
    <3>2. CASE StartRedefine(p)
      BY <1>0, <3>2 DEF StartRedefine, Redefine, Local, Set, NoLocals
    <3>3. CASE AssignCell(p)
      <4>1. loc' = Set(loc, p, [loc[p] EXCEPT !.cell = Visible(op[p].env), !.deep = TRUE])
        BY <1>0, <1>2, <3>3 DEF AssignCell, Done, Goto, Local, Set
      <4>2. loc[p] \in LocTypes
        BY <1>0
      <4>3. loc'[p] = [loc[p] EXCEPT !.cell = Visible(op[p].env), !.deep = TRUE]
        BY <1>0, <4>1 DEF Set
      <4> QED
        BY <4>2, <4>3 DEF LocTypes
    <3> QED
      BY <3>1, <3>2, <3>3
  <2>4. PICK e : e = loc'[p].cell
    OBVIOUS
  <2>5. e = Global \/ Binds(e)
    BY <2>2, <2>3, <2>4, LookupFinds
  <2>6. e = Global \/ Binds(e)'
    BY <2>1, <2>5 DEF Binds
  <2> QED
    BY <2>1, <2>4, <2>6 DEF Found
<1> QED
  BY <1>1, <1>2

\* A frame is extended: it gets a placeholder, and sees what it saw.
LEMMA ExtendFound ==
  ASSUME IInv, ScopeInv, NEW p \in Procs, Extend(p)
  PROVE  Found(p)'
<1> USE DEF IInv
<1>0. /\ pc \in [Procs -> Labels] /\ loc \in [Procs -> LocTypes]
      /\ cell \in [Envs -> CellTypes]
  BY DEF Typed
<1>1. PICK e, w : /\ e = op[p].env /\ w = Visible(e) /\ e # Global /\ ~Binds(e)
                  /\ cell' = [f \in Envs |->
                        IF f = w THEN [cell[w] EXCEPT !.danger = TRUE]
                        ELSE IF f \in ToSet(Chain[e]) /\ f \notin ToSet(Above(w))
                        THEN Placeholder ELSE cell[f]]
  BY DEF Extend
<1>2. e \in Envs
  BY <1>1, OpFacts DEF Extend, At
<1>3. /\ w \in ToSet(Chain[e]) \cup {Global} /\ e \in Frames /\ w \in Envs
      /\ w = Global \/ Binds(w)
  BY <1>1, <1>2, LookupFinds DEF Envs
<1>4. w # e
  BY <1>1, <1>3
<1>5. e \in ToSet(Chain[e]) /\ e \notin ToSet(Above(w))
  BY <1>3, <1>4, NoCycle
<1>6. cell'[e] = Placeholder
  BY <1>1, <1>2, <1>4, <1>5
<1>7. Visible(e)' = w
  BY <1>1, <1>2, ExtendMoves, SameVisible DEF SameCells
<1>8. pc'[p] = "dLock" /\ op' = op /\ loc'[p].cell = e /\ loc'[p].old = w
  BY <1>0, <1>1 DEF Extend, Goto, Local, Set, NoLocals
<1> QED
  BY <1>1, <1>3, <1>6, <1>7, <1>8 DEF Found

\* No link leads past a frame to a binding without an extension.
LEMMA ClearWithout ==
  ASSUME IInv, ScopeInv, NEW e \in Envs, cell[Visible(e)].ext = 0
  PROVE  Clear(e)
BY LiveLinks DEF Clear

\* A call that defines.
LEMMA DefineFound ==
  ASSUME IInv, ScopeInv, NEW p \in Procs,
         DefineLock(p) \/ DefineRecache(p) \/ DefineNothing(p) \/ Define(p)
  PROVE  Found(p)'
<1> USE DEF IInv
<1>0. /\ pc \in [Procs -> Labels] /\ loc \in [Procs -> LocTypes]
      /\ cell \in [Envs -> CellTypes] /\ loc[p] \in LocTypes
  BY DEF Typed
<1>1. PICK e : e = op[p].env
  OBVIOUS
<1>2. /\ op[p].kind = "define" /\ e \in Envs /\ e \in Frames
      /\ loc[p].cell = e /\ cell[e] = Placeholder
      /\ pc[p] # "dDefine" => loc[p].old = Visible(e)
      /\ pc[p] \in {"dRecache", "dExt"} => loc[p].ext = cell[loc[p].old].ext /\ loc[p].ext # 0
      /\ pc[p] = "dDefine" => Clear(e)
  BY <1>1, OpFacts DEF DefineLock, DefineRecache, DefineNothing, Define, At, Roles,
     ScopeInv, DefiningInv
<1>3. CASE pc'[p] \in {"idle", "start", "aExt", "aLinks"}
  BY <1>3, NothingFound
<1>4. CASE pc'[p] \notin {"idle", "start", "aExt", "aLinks"}
  <2>0. cell' = cell /\ link' = link /\ op' = op
    BY <1>0, <1>4 DEF DefineLock, DefineRecache, DefineNothing, Define, Done, Goto, Set, shared
  <2>1. Visible(e)' = Visible(e) /\ (Clear(e) => Clear(e)') /\ cell'[e] = Placeholder
    BY <1>2, <2>0, LookupStays
  <2>2. ASSUME pc'[p] = "dRecache" \/ pc'[p] = "dExt", loc'[p].cell = e,
               loc'[p].old = Visible(e), loc'[p].ext = cell[Visible(e)].ext, loc'[p].ext # 0
        PROVE  Found(p)'
    BY <1>1, <1>2, <2>0, <2>1, <2>2 DEF Found
  <2>3. ASSUME pc'[p] = "dDefine", loc'[p].cell = e, Clear(e)
        PROVE  Found(p)'
    BY <1>1, <1>2, <2>0, <2>1, <2>3 DEF Found
  <2>4. ASSUME pc'[p] = "aLock", loc'[p].cell = e, Clear(e)
        PROVE  Found(p)'
    BY <1>1, <1>2, <2>0, <2>1, <2>4 DEF Found, Ready
  <2>5. CASE DefineLock(p)
    <3>1. pc[p] = "dLock" /\ loc[p].old = Visible(e)
      BY <1>2, <2>5 DEF DefineLock, At
    <3>2. CASE cell[loc[p].old].ext = 0
      <4>1. pc'[p] = "dDefine" /\ loc' = loc
        BY <1>0, <1>2, <2>5, <3>2 DEF DefineLock, Goto, Set
      <4> QED
        BY <1>2, <2>3, <3>1, <3>2, <4>1, ClearWithout
    <3>3. CASE cell[loc[p].old].ext # 0
      <4>1. /\ pc'[p] = "dRecache"
            /\ \E h1, h2 : loc' = Set(loc, p, [loc[p] EXCEPT !.ext = cell[loc[p].old].ext,
                                                             !.h1 = h1, !.h2 = h2])
        <5>1. pc'[p] = "dRecache"
          BY <1>0, <1>2, <2>5, <3>3 DEF DefineLock, Goto, Set
        <5>2. \E h : loc' = Set(loc, p, [loc[p] EXCEPT !.ext = cell[loc[p].old].ext,
                                                       !.h1 = h[1], !.h2 = h[2]])
          BY <1>2, <2>5, <3>3 DEF DefineLock, Local
        <5> QED
          BY <5>1, <5>2
      <4>2. loc'[p].ext = cell[loc[p].old].ext /\ loc'[p].cell = e /\ loc'[p].old = loc[p].old
        <5>1. PICK h1, h2 : loc'[p] = [loc[p] EXCEPT !.ext = cell[loc[p].old].ext,
                                                     !.h1 = h1, !.h2 = h2]
          BY <1>0, <4>1 DEF Set
        <5> QED
          BY <1>0, <1>2, <5>1 DEF LocTypes
      <4> QED
        BY <2>2, <3>1, <3>3, <4>1, <4>2
    <3> QED
      BY <3>2, <3>3
  <2>6. CASE DefineRecache(p)
    <3>1. /\ pc[p] = "dRecache" /\ pc'[p] = "dExt"
          /\ loc'[p].cell = e /\ loc'[p].old = loc[p].old /\ loc'[p].ext = loc[p].ext
      BY <1>0, <1>2, <2>6 DEF DefineRecache, At, Goto, Local, Set, LocTypes
    <3> QED
      BY <1>2, <2>2, <3>1
  <2>7. CASE DefineNothing(p)
    <3>1. /\ pc[p] = "dExt" /\ pc'[p] = "dDefine" /\ loc'[p].cell = e
          /\ NoneMoved(p)
      BY <1>0, <1>2, <2>7 DEF DefineNothing, At, Goto, Local, Set, LocTypes
    <3>2. Clear(e)
      <4> SUFFICES ASSUME NEW r \in Live, e \in ToSet(Chain[EnvOf[r]]),
                          Visible(EnvOf[r]) = Visible(e)
          PROVE  FALSE
        BY DEF Clear
      <4>1. r \in Refs /\ EnvOf[r] \in Envs /\ link[r].ext = cell[Visible(EnvOf[r])].ext
        BY LiveLinks
      <4>2. loc[p].ext = link[r].ext /\ loc[p].ext \in DOMAIN exts
        BY <1>2, <3>1, <4>1 DEF LocInv
      <4>3. PICK k \in Kinds : r \in exts[loc[p].ext].refs[k]
        BY <4>1, <4>2 DEF Listed, Live
      <4>4. r \in Alive(exts[loc[p].ext].refs[k])
        BY <4>3 DEF Alive, Live
      <4>5. r \in Below(e)
        <5>1. Chain[EnvOf[r]] \in Seq(Frames)
          BY <4>1, Chains
        <5> QED
          BY <4>1, <5>1 DEF Below, Above, ToSet
      <4>6. r \in Moved(p, k)
        BY <1>2, <4>4, <4>5 DEF Moved
      <4> QED
        BY <3>1, <4>6 DEF NoneMoved
    <3> QED
      BY <2>3, <3>1, <3>2
  <2>8. CASE Define(p)
    <3>1. pc[p] = "dDefine" /\ pc'[p] = "aLock" /\ loc'[p].cell = e
      BY <1>0, <1>2, <1>4, <2>8 DEF Define, At, Done, Redefine, Goto, Local, Set, NoLocals
    <3> QED
      BY <1>2, <2>4, <3>1
  <2> QED
    BY <2>5, <2>6, <2>7, <2>8
<1> QED
  BY <1>3, <1>4

LEMMA OwnFound ==
  ASSUME IInv, ScopeInv, NEW p \in Procs, Step(p)
  PROVE  Found(p)'
<1>0. pc \in [Procs -> Labels]
  BY DEF IInv, Typed
<1>1. CASE StartCache(p) \/ CacheLock(p) \/ CacheRecache(p)
  BY <1>1, CacheFound
<1>2. CASE StartAssign(p) \/ AssignCell(p) \/ StartRedefine(p)
  BY <1>2, AssignFound
<1>3. CASE Extend(p)
  BY <1>3, ExtendFound
<1>4. CASE DefineLock(p) \/ DefineRecache(p) \/ DefineNothing(p) \/ Define(p)
  BY <1>4, DefineFound
<1>5. CASE Begin(p) \/ WaitInterrupted(p) \/ CacheBeaten(p) \/ CacheExt(p)
           \/ StartCompiled(p) \/ AssignExt(p) \/ AssignLinks(p) \/ LinksFull(p)
           \/ LinksInterrupted(p) \/ DefineFull(p) \/ DefineExt(p)
  <2>1. pc'[p] \in {"idle", "start", "aExt", "aLinks"}
    BY <1>0, <1>5 DEF Begin, WaitInterrupted, CacheBeaten, CacheExt, StartCompiled, Starts,
       AssignExt, AssignLinks, LinksFull, LinksInterrupted, DefineFull, DefineExt,
       HeapFull, BackOut, Done, Goto, Set
  <2> QED
    BY <2>1, NothingFound
<1> QED
  BY <1>1, <1>2, <1>3, <1>4, <1>5 DEF Step

-----------------------------------------------------------------------------

LEMMA ScopeStep ==
  ASSUME ChangesApart, IInv, ScopeInv, NEW p \in Procs, Step(p)
  PROVE  ScopeInv'
<1>1. Marked' /\ Moves(p)
  BY StepMoves
<1>2. CachesFollowScope' /\ OwnExtensions'
  BY <1>1, ScopeKept, ExtensionsStay
<1>3. Goes(p) /\ Remembers(p) /\ Typed' /\ Roles'
  BY StepGoes, StepRemembers, StepLists, StepFills, StepKept DEF IInv
<1>4. ASSUME NEW q \in Procs
      PROVE  Found(q)'
  <2>1. CASE q = p
    BY <2>1, OwnFound
  <2>2. CASE q # p
    <3>1. pc'[q] = pc[q] /\ op'[q] = op[q] /\ loc'[q] = loc[q]
      BY <1>3, <2>2, OthersStay DEF IInv, Remembers
    <3> QED
      BY <1>1, <2>2, <3>1, OthersFound
  <2> QED
    BY <2>1, <2>2
<1>5. (CachingInv /\ DefiningInv /\ AssigningInv)'
  BY <1>3, <1>4, FoundByAll
<1> QED
  BY <1>1, <1>2, <1>5 DEF ScopeInv

\* When links are lost, and nothing else happens.
LEMMA ScopeQuiet ==
  ASSUME IInv, ScopeInv, IInv', UNCHANGED <<cell, pc, op, loc>>,
         \A r \in Refs : r \in Live' => r \in Live /\ link'[r] = link[r]
  PROVE  ScopeInv'
<1>1. cell' = cell /\ pc' = pc /\ op' = op /\ loc' = loc
  OBVIOUS
<1>2. \A s \in Refs : s \in Live' => s \in Live /\ link'[s] = link[s]
  OBVIOUS
<1>3. \A f \in Frames : f \in Bound' <=> f \in Bound
  BY <1>1 DEF Bound, Binds
<1>4. \A c \in Envs : Visible(c)' = Visible(c)
  BY <1>3, SameVisible
<1>5. ASSUME NEW c \in Envs, Clear(c)
      PROVE  Clear(c)'
  <2> SUFFICES ASSUME NEW s \in Refs, s \in Live', NEW d, d = EnvOf[s], c \in ToSet(Chain[d])
      PROVE  Visible(d)' # Visible(c)
    BY <1>4 DEF Clear, Live
  <2>1. d \in Envs
    BY CacheAssumption
  <2> QED
    BY <1>2, <1>4, <1>5, <2>1 DEF Clear
<1>6. CachesFollowScope'
  <2> SUFFICES ASSUME NEW s \in Refs, s \in Live', NEW c, c = EnvOf[s]
      PROVE  link'[s].ext = cell'[Visible(c)'].ext
    BY DEF CachesFollowScope, Live
  <2>1. c \in Envs
    BY CacheAssumption
  <2> QED
    BY <1>1, <1>2, <1>4, <2>1 DEF ScopeInv, CachesFollowScope
<1>7. OwnExtensions' /\ Marked'
  BY <1>1 DEF ScopeInv, OwnExtensions, Marked
<1>8. ASSUME NEW p \in Procs
      PROVE  Found(p)'
  <2>1. Found(p)
    BY FoundByAll DEF ScopeInv
  <2>2. \A e \in Envs : Ready(p, e) => Ready(p, e)'
    BY <1>1, <1>5 DEF Ready
  <2>3. \A e \in Envs : Binds(e)' <=> Binds(e)
    BY <1>1 DEF Binds
  <2> QED
    BY <1>1, <1>4, <1>5, <2>1, <2>2, <2>3 DEF Found
<1>9. Typed' /\ Roles'
  BY DEF IInv
<1> QED
  BY <1>6, <1>7, <1>8, <1>9, FoundByAll DEF ScopeInv

LEMMA ScopeCollect ==
  ASSUME IInv, ScopeInv, NEW r \in Refs, Collect(r)
  PROVE  ScopeInv'
<1>1. UNCHANGED <<cell, pc, op, loc>>
  BY DEF Collect, own
<1>2. \A s \in Refs : s \in Live' => s \in Live /\ link'[s] = link[s]
  BY DEF Collect, Set, Live, IInv, Typed
<1> QED
  BY <1>1, <1>2, CollectKept, ScopeQuiet

LEMMA ScopeStutter ==
  ASSUME IInv, ScopeInv, UNCHANGED vars
  PROVE  ScopeInv'
<1>1. UNCHANGED <<cell, pc, op, loc, link>>
  BY DEF vars, shared, own
<1>2. \A s \in Refs : s \in Live' => s \in Live /\ link'[s] = link[s]
  BY <1>1 DEF Live
<1> QED
  BY <1>1, <1>2, StutterKept, ScopeQuiet

LEMMA ScopeInitially == Init => ScopeInv
<1> SUFFICES ASSUME Init
    PROVE  ScopeInv
  OBVIOUS
<1>1. \A e \in Envs : cell[e].ext = 0 /\ cell[e].val = Initial[e]
  BY DEF Init, Cell
<1>2. Live = {}
  BY DEF Init, Live
<1>3. CachesFollowScope /\ OwnExtensions
  BY <1>1, <1>2 DEF CachesFollowScope, OwnExtensions
<1>4. Marked
  BY <1>1, MarkerAssumption DEF Marked, Envs
<1>5. CachingInv /\ DefiningInv /\ AssigningInv
  BY DEF Init, CachingInv, DefiningInv, AssigningInv
<1> QED
  BY <1>3, <1>4, <1>5 DEF ScopeInv

\* When nothing is defined where another processor caches or defines, what a
\* call has found is still so whenever it goes on, and a frame is clear when it
\* gets a binding without an extension.
THEOREM ScopeInvariance ==
  ASSUME ChangesApart
  PROVE  Spec => [](IInv /\ ScopeInv)
<1>1. Init => IInv /\ ScopeInv
  BY InitialInvariant, ScopeInitially
<1>2. IInv /\ ScopeInv /\ [Next]_vars => (IInv /\ ScopeInv)'
  BY StepKept, CollectKept, StutterKept, ScopeStep, ScopeCollect, ScopeStutter
     DEF Next, AllDone
<1> QED
  BY <1>1, <1>2, PTL DEF Spec

\* Compiled code finds its variable where interpreted code in its environment
\* would: extend_frame moves the links that the new binding hides the old one
\* from (compiler_recache), all of them and no others, and a call that caches
\* links the binding that is visible when it ends (compiler_cache).
THEOREM CachesFollowScopeAlways ==
  ASSUME ChangesApart
  PROVE  Spec => []CachesFollowScope
<1>1. IInv /\ ScopeInv => CachesFollowScope
  BY DEF ScopeInv
<1> QED
  BY <1>1, ScopeInvariance, PTL

-----------------------------------------------------------------------------
(* Assignments see operators *)

\* Only one reference assigns, or nothing is defined.
OneAssigns     == \A q, r \in Refs :
                      KindOf[q] = "assignment" /\ KindOf[r] = "assignment" => q = r
NothingDefined == \A p \in Procs : \A o \in Ops[p] : o.kind # "define"

\* An extension that has both operators and assignments has a clone, which the
\* assignments are linked to; a clone that has outlived its operators is met by
\* no new assignment.
CloneInv ==
    /\ \A i \in DOMAIN exts :
          /\ exts[i].refs["operator"] # {} /\ exts[i].refs["assignment"] # {} => exts[i].clone
          /\ exts[i].clone => \/ exts[i].refs["operator"] # {} /\ NothingDefined
                              \/ /\ OneAssigns
                                 /\ \A r \in Refs : KindOf[r] = "assignment" => link[r] # Symbol
    /\ \A r \in Live : KindOf[r] = "assignment" /\ exts[link[r].ext].clone
                           => link[r].to = "clone"

-----------------------------------------------------------------------------
(* Extensions, field by field *)

LEMMA EntryPut ==
  ASSUME NEW S, NEW s \in Seq(S), NEW i \in DOMAIN s, NEW e
  PROVE  /\ DOMAIN [s EXCEPT ![i] = e] = DOMAIN s
         /\ \A j \in DOMAIN s : [s EXCEPT ![i] = e][j] = IF j = i THEN e ELSE s[j]
         /\ [s EXCEPT ![i] = e] = [j \in DOMAIN s |-> [s EXCEPT ![i] = e][j]]
OBVIOUS

\* What the end of compiler_cache_reference does.
CacheExtWrites(r, k, i, v, store, fixed) ==
    /\ r \in Refs /\ k \in Kinds /\ i \in DOMAIN exts /\ link[r] = Symbol
    /\ DOMAIN exts' = DOMAIN exts
    /\ \A j \in DOMAIN exts \ {i} : exts'[j] = exts[j]
    /\ exts'[i].val = exts[i].val
    /\ exts'[i].clone = (exts[i].clone \/ store)
    /\ \A j \in Kinds : exts'[i].refs[j] =
          IF j = k THEN AddReference(exts[i].refs[j], r)
          ELSE IF j = "assignment" /\ fixed # {} THEN Alive(exts[i].refs[j])
          ELSE exts[i].refs[j]
    /\ \A s \in Refs : link'[s] =
          IF s = r THEN Cached(i, k, v, store)
          ELSE IF s \in fixed THEN Cached(i, "assignment", v, TRUE) ELSE link[s]

LEMMA CacheExtFields ==
  ASSUME IInv, NEW p \in Procs, CacheExt(p), ~UNCHANGED <<exts, link>>
  PROVE  LET r == op[p].ref
             k == KindOf[r]
             i == loc[p].ext
             v == IF loc[p].new THEN loc[p].val ELSE exts[i].val
             store == NeedsClone(i, k)
         IN  CacheExtWrites(r, k, i, v, store, Fixed(i, k, store))
<1> DEFINE r == op[p].ref
           k == KindOf[r]
           i == loc[p].ext
           v == IF loc[p].new THEN loc[p].val ELSE exts[i].val
           store == NeedsClone(i, k)
           fixed == Fixed(i, k, store)
<1> USE DEF IInv
<1>0. pc[p] = "cExt"
  BY DEF CacheExt, At
<1>1. r \in Refs /\ k \in Kinds /\ link[r] = Symbol
  BY <1>0, OpFacts, CacheAssumption DEF Roles, CacheInv
<1>2. i \in DOMAIN exts /\ exts \in Seq(ExtTypes)
  BY <1>0 DEF LocInv, Typed
<1> DEFINE lists == [j \in Kinds |->
                       IF j = k THEN AddReference(exts[i].refs[j], r)
                       ELSE IF j = "assignment" /\ fixed # {} THEN Alive(exts[i].refs[j])
                       ELSE exts[i].refs[j]]
           clone == exts[i].clone \/ store
<1>3. /\ exts' = [exts EXCEPT ![i].clone = clone, ![i].refs = lists]
      /\ link' = [s \in Refs |-> IF s = r THEN Cached(i, k, v, store)
                                 ELSE IF s \in fixed
                                 THEN Cached(i, "assignment", v, TRUE) ELSE link[s]]
  BY DEF CacheExt, CacheUntouched, shared
<1> HIDE DEF clone, lists
<1>a. [exts EXCEPT ![i].clone = clone, ![i].refs = lists]
         = [exts EXCEPT ![i] = [val |-> exts[i].val, clone |-> clone, refs |-> lists]]
  <2> DEFINE x == exts[i]
             y == [val |-> x.val, clone |-> clone, refs |-> x.refs]
  <2> HIDE DEF x
  <2>1. x \in ExtTypes
    BY <1>2 DEF x
  <2>2. [x EXCEPT !.clone = clone] = y
    BY <2>1, ExtensionChanged
  <2>3. [y EXCEPT !.refs = lists] = [val |-> x.val, clone |-> clone, refs |-> lists]
    OBVIOUS
  <2>4. [x EXCEPT !.clone = clone, !.refs = lists]
           = [[x EXCEPT !.clone = clone] EXCEPT !.refs = lists]
    BY <2>1 DEF ExtTypes
  <2>5. [x EXCEPT !.clone = clone, !.refs = lists]
           = [val |-> x.val, clone |-> clone, refs |-> lists]
    BY <2>2, <2>3, <2>4
  <2>6. [exts EXCEPT ![i].clone = clone, ![i].refs = lists]
           = [exts EXCEPT ![i] = [x EXCEPT !.clone = clone, !.refs = lists]]
    BY <1>2 DEF x
  <2> QED
    BY <2>5, <2>6 DEF x
<1>4. /\ DOMAIN exts' = DOMAIN exts
      /\ \A j \in DOMAIN exts : exts'[j] =
            IF j = i THEN [val |-> exts[i].val, clone |-> clone, refs |-> lists] ELSE exts[j]
  BY <1>2, <1>3, <1>a, EntryPut
<1>5. exts'[i] = [val |-> exts[i].val, clone |-> clone, refs |-> lists]
  BY <1>2, <1>4
<1>6. exts'[i].val = exts[i].val /\ exts'[i].clone = clone /\ exts'[i].refs = lists
  BY <1>5
<1>7. \A s \in Refs : link'[s] =
               IF s = r THEN Cached(i, k, v, store)
               ELSE IF s \in fixed THEN Cached(i, "assignment", v, TRUE) ELSE link[s]
  BY <1>3
<1>8. /\ exts'[i].clone = (exts[i].clone \/ store)
      /\ \A j \in Kinds : exts'[i].refs[j] =
            IF j = k THEN AddReference(exts[i].refs[j], r)
            ELSE IF j = "assignment" /\ fixed # {} THEN Alive(exts[i].refs[j])
            ELSE exts[i].refs[j]
  BY <1>6 DEF clone, lists
<1> HIDE DEF r, k, i, v, store, fixed
<1>9. CacheExtWrites(r, k, i, v, store, fixed)
  BY <1>1, <1>2, <1>4, <1>6, <1>7, <1>8 DEF CacheExtWrites
<1> QED
  BY <1>9 DEF r, k, i, v, store, fixed

\* What update_uuo_links does.
AssignLinksWrites(i, live, unclone, fixed) ==
    /\ i \in DOMAIN exts /\ DOMAIN exts' = DOMAIN exts
    /\ \A j \in DOMAIN exts \ {i} : exts'[j] = exts[j]
    /\ exts'[i].val = exts[i].val
    /\ exts'[i].clone = (exts[i].clone /\ ~unclone)
    /\ exts'[i].refs["operator"] = live
    /\ exts'[i].refs["assignment"] \subseteq exts[i].refs["assignment"]
    /\ \A s \in Refs : link'[s] =
          IF s \in live THEN Cached(i, "operator", exts[i].val, FALSE)
          ELSE IF unclone /\ s \in fixed
          THEN Cached(i, "assignment", exts[i].val, FALSE) ELSE link[s]

LEMMA AssignLinksFields ==
  ASSUME IInv, NEW p \in Procs, AssignLinks(p)
  PROVE  LET i == loc[p].ext
             live == Alive(exts[i].refs["operator"])
         IN  AssignLinksWrites(i, live, live = {} /\ exts[i].clone,
                               Alive(exts[i].refs["assignment"]))
<1> DEFINE i == loc[p].ext
           live == Alive(exts[i].refs["operator"])
           unclone == live = {} /\ exts[i].clone
           fixed == Alive(exts[i].refs["assignment"])
<1> USE DEF IInv
<1>0. i \in DOMAIN exts /\ exts \in Seq(ExtTypes)
  BY DEF LocInv, Typed, AssignLinks, At
<1> DEFINE lists == [j \in Kinds |-> IF j = "operator" THEN live
                                     ELSE IF j = "assignment" /\ unclone THEN fixed
                                     ELSE exts[i].refs[j]]
           clone == exts[i].clone /\ ~unclone
<1>1. /\ exts' = [exts EXCEPT ![i].clone = clone, ![i].refs = lists]
      /\ link' = [s \in Refs |->
                    IF s \in live THEN Cached(i, "operator", exts[i].val, FALSE)
                    ELSE IF unclone /\ s \in fixed
                    THEN Cached(i, "assignment", exts[i].val, FALSE) ELSE link[s]]
  BY DEF AssignLinks
<1>2. lists["operator"] = live /\ lists["assignment"] \subseteq exts[i].refs["assignment"]
  BY DEF Kinds, Alive
<1> HIDE DEF clone, lists
<1>a. [exts EXCEPT ![i].clone = clone, ![i].refs = lists]
         = [exts EXCEPT ![i] = [val |-> exts[i].val, clone |-> clone, refs |-> lists]]
  <2> DEFINE x == exts[i]
             y == [val |-> x.val, clone |-> clone, refs |-> x.refs]
  <2> HIDE DEF x
  <2>1. x \in ExtTypes
    BY <1>0 DEF x
  <2>2. [x EXCEPT !.clone = clone] = y
    BY <2>1, ExtensionChanged
  <2>3. [y EXCEPT !.refs = lists] = [val |-> x.val, clone |-> clone, refs |-> lists]
    OBVIOUS
  <2>4. [x EXCEPT !.clone = clone, !.refs = lists]
           = [[x EXCEPT !.clone = clone] EXCEPT !.refs = lists]
    BY <2>1 DEF ExtTypes
  <2>5. [x EXCEPT !.clone = clone, !.refs = lists]
           = [val |-> x.val, clone |-> clone, refs |-> lists]
    BY <2>2, <2>3, <2>4
  <2>6. [exts EXCEPT ![i].clone = clone, ![i].refs = lists]
           = [exts EXCEPT ![i] = [x EXCEPT !.clone = clone, !.refs = lists]]
    BY <1>0 DEF x
  <2> QED
    BY <2>5, <2>6 DEF x
<1>3. /\ DOMAIN exts' = DOMAIN exts
      /\ \A j \in DOMAIN exts : exts'[j] =
            IF j = i THEN [val |-> exts[i].val, clone |-> clone, refs |-> lists] ELSE exts[j]
  BY <1>0, <1>1, <1>a, EntryPut
<1>4. exts'[i] = [val |-> exts[i].val, clone |-> clone, refs |-> lists]
  BY <1>0, <1>3
<1>5. exts'[i].val = exts[i].val /\ exts'[i].clone = clone /\ exts'[i].refs = lists
  BY <1>4
<1>6. \A s \in Refs : link'[s] =
               IF s \in live THEN Cached(i, "operator", exts[i].val, FALSE)
               ELSE IF unclone /\ s \in fixed
               THEN Cached(i, "assignment", exts[i].val, FALSE) ELSE link[s]
  BY <1>1
<1>7. exts'[i].clone = (exts[i].clone /\ ~unclone)
  BY <1>5 DEF clone
<1>8. exts'[i].refs["operator"] = live
      /\ exts'[i].refs["assignment"] \subseteq exts[i].refs["assignment"]
  BY <1>2, <1>5
<1> HIDE DEF i, live, unclone, fixed
<1>9. AssignLinksWrites(i, live, unclone, fixed)
  BY <1>0, <1>3, <1>5, <1>6, <1>7, <1>8 DEF AssignLinksWrites
<1> QED
  BY <1>9 DEF i, live, unclone, fixed

\* An extension gets a value.
LEMMA ValueFields ==
  ASSUME IInv, NEW i \in DOMAIN exts, NEW v, exts' = [exts EXCEPT ![i].val = v]
  PROVE  /\ DOMAIN exts' = DOMAIN exts
         /\ \A j \in DOMAIN exts : /\ exts'[j].clone = exts[j].clone
                                   /\ exts'[j].refs = exts[j].refs
                                   /\ exts'[j].val = IF j = i THEN v ELSE exts[j].val
<1>1. exts \in Seq(ExtTypes)
  BY DEF IInv, Typed
<1>2. /\ DOMAIN exts' = DOMAIN exts
      /\ \A j \in DOMAIN exts : exts'[j] =
            IF j = i THEN [val |-> v, clone |-> exts[i].clone, refs |-> exts[i].refs]
            ELSE exts[j]
  <2> DEFINE e == [val |-> v, clone |-> exts[i].clone, refs |-> exts[i].refs]
  <2>1. exts' = [exts EXCEPT ![i] = e]
    <3> DEFINE x == exts[i]
    <3>1. x \in ExtTypes
      BY <1>1
    <3>2. e = [x EXCEPT !.val = v]
      <4>1. e = [val |-> v, clone |-> x.clone, refs |-> x.refs]
        OBVIOUS
      <4> HIDE DEF x, e
      <4> QED
        BY <3>1, <4>1, ExtensionChanged
    <3>3. exts' = [exts EXCEPT ![i] = [x EXCEPT !.val = v]]
      BY <1>1
    <3> HIDE DEF x, e
    <3> QED
      BY <3>2, <3>3
  <2> HIDE DEF e
  <2>2. /\ DOMAIN exts' = DOMAIN exts
        /\ \A j \in DOMAIN exts : exts'[j] = IF j = i THEN e ELSE exts[j]
    BY <1>1, <2>1, EntryPut
  <2> QED
    BY <2>2 DEF e
<1>3. \A j \in DOMAIN exts : j = i =>
         exts'[j] = [val |-> v, clone |-> exts[i].clone, refs |-> exts[i].refs]
  BY <1>2
<1>4. \A j \in DOMAIN exts : j # i => exts'[j] = exts[j]
  BY <1>2
<1> QED
  BY <1>2, <1>3, <1>4

\* Dead entries are dropped.
LEMMA SplitFields ==
  ASSUME IInv, NEW p \in Procs, pc[p] = "dExt", exts' = Split(p)
  PROVE  /\ DOMAIN exts' = DOMAIN exts
         /\ \A j \in DOMAIN exts : /\ exts'[j].clone = exts[j].clone
                                   /\ exts'[j].val = exts[j].val
                                   /\ \A k \in Kinds : exts'[j].refs[k] \subseteq exts[j].refs[k]
<1> DEFINE i == loc[p].ext
           lists == [k \in Kinds |-> Alive(exts[i].refs[k])]
<1>1. i \in DOMAIN exts /\ exts \in Seq(ExtTypes)
  BY DEF IInv, LocInv, Typed
<1>2. exts' = [exts EXCEPT ![i].refs = lists]
  BY DEF Split
<1>3. \A k \in Kinds : lists[k] \subseteq exts[i].refs[k]
  BY DEF Alive
<1> HIDE DEF lists, i
<1>4. /\ DOMAIN exts' = DOMAIN exts
      /\ \A j \in DOMAIN exts : exts'[j] =
            IF j = i THEN [val |-> exts[i].val, clone |-> exts[i].clone, refs |-> lists]
            ELSE exts[j]
  <2> DEFINE e == [val |-> exts[i].val, clone |-> exts[i].clone, refs |-> lists]
  <2>1. exts' = [exts EXCEPT ![i] = e]
    <3> DEFINE x == exts[i]
    <3>1. x \in ExtTypes
      BY <1>1
    <3>2. e = [x EXCEPT !.refs = lists]
      <4>1. e = [val |-> x.val, clone |-> x.clone, refs |-> lists]
        OBVIOUS
      <4> HIDE DEF x, e
      <4> QED
        BY <3>1, <4>1, ExtensionChanged
    <3>3. exts' = [exts EXCEPT ![i] = [x EXCEPT !.refs = lists]]
      BY <1>1, <1>2
    <3> HIDE DEF x, e
    <3> QED
      BY <3>2, <3>3
  <2> HIDE DEF e
  <2>2. /\ DOMAIN exts' = DOMAIN exts
        /\ \A j \in DOMAIN exts : exts'[j] = IF j = i THEN e ELSE exts[j]
    BY <1>1, <2>1, EntryPut
  <2> QED
    BY <2>2 DEF e
<1>5. exts'[i] = [val |-> exts[i].val, clone |-> exts[i].clone, refs |-> lists]
  BY <1>1, <1>4
<1>6. \A j \in DOMAIN exts : j # i => exts'[j] = exts[j]
  BY <1>4
<1>7. exts'[i].val = exts[i].val /\ exts'[i].clone = exts[i].clone /\ exts'[i].refs = lists
  BY <1>5
<1> QED
  BY <1>3, <1>4, <1>6, <1>7

\* Links are moved to a new extension.
DefineExtWrites(p, x, clone) ==
    /\ DOMAIN exts' = DOMAIN exts \cup {x} /\ x \notin DOMAIN exts
    /\ \A j \in DOMAIN exts : /\ exts'[j].clone = exts[j].clone
                              /\ exts'[j].val = exts[j].val
                              /\ \A k \in Kinds : exts'[j].refs[k] \subseteq exts[j].refs[k]
    /\ exts'[x].val = op[p].val /\ exts'[x].clone = clone
    /\ \A k \in Kinds : exts'[x].refs[k] = Moved(p, k)
    /\ \A r \in Refs : link'[r] = IF r \in Moved(p, KindOf[r])
                                   THEN Cached(x, KindOf[r], op[p].val, clone) ELSE link[r]

LEMMA DefineExtFields ==
  ASSUME IInv, NEW p \in Procs, DefineExt(p)
  PROVE  DefineExtWrites(p, Len(exts) + 1,
                         Moved(p, "operator") # {} /\ Moved(p, "assignment") # {})
<1> DEFINE x == Len(exts) + 1
           clone == Moved(p, "operator") # {} /\ Moved(p, "assignment") # {}
<1> DEFINE i == loc[p].ext
           moved == [k \in Kinds |-> Moved(p, k)]
           lists == [k \in Kinds |-> Alive(exts[i].refs[k]) \ moved[k]]
           new == [val |-> op[p].val, clone |-> clone, refs |-> moved]
           old == [exts EXCEPT ![i].refs = lists]
<1>1. i \in DOMAIN exts /\ exts \in Seq(ExtTypes) /\ x \in Nat /\ x \notin DOMAIN exts
  BY DEF IInv, LocInv, Typed, DefineExt, At
<1>2. exts' = Append(old, new)
  BY DEF DefineExt, Kinds
<1>3. link' = [r \in Refs |-> IF r \in moved[KindOf[r]]
                              THEN Cached(x, KindOf[r], op[p].val, clone) ELSE link[r]]
  BY DEF DefineExt, Kinds
<1>4. \A k \in Kinds : lists[k] \subseteq exts[i].refs[k] /\ moved[k] = Moved(p, k)
  BY DEF Alive
<1>5. \A r \in Refs : KindOf[r] \in Kinds
  BY CacheAssumption
<1>6. new.val = op[p].val /\ new.clone = clone /\ new.refs = moved
  OBVIOUS
<1>7. /\ DOMAIN old = DOMAIN exts /\ old = [j \in DOMAIN exts |-> old[j]]
      /\ \A j \in DOMAIN exts : old[j] =
            IF j = i THEN [val |-> exts[i].val, clone |-> exts[i].clone, refs |-> lists]
            ELSE exts[j]
  <2> DEFINE e == [val |-> exts[i].val, clone |-> exts[i].clone, refs |-> lists]
  <2> HIDE DEF lists, i
  <2>1. old = [exts EXCEPT ![i] = e]
    <3> DEFINE ext == exts[i]
    <3>1. ext \in ExtTypes
      BY <1>1
    <3>2. e = [ext EXCEPT !.refs = lists]
      <4>1. e = [val |-> ext.val, clone |-> ext.clone, refs |-> lists]
        OBVIOUS
      <4> HIDE DEF ext, e
      <4> QED
        BY <3>1, <4>1, ExtensionChanged
    <3>3. old = [exts EXCEPT ![i] = [ext EXCEPT !.refs = lists]]
      BY <1>1
    <3> HIDE DEF ext, e
    <3> QED
      BY <3>2, <3>3
  <2> HIDE DEF old, e
  <2>2. /\ DOMAIN old = DOMAIN exts /\ old = [j \in DOMAIN exts |-> old[j]]
        /\ \A j \in DOMAIN exts : old[j] = IF j = i THEN e ELSE exts[j]
    BY <1>1, <2>1, EntryPut
  <2> QED
    BY <2>2 DEF e
<1>8. /\ DOMAIN exts' = DOMAIN exts \cup {x}
      /\ \A j \in DOMAIN exts : exts'[j] = old[j]
      /\ exts'[x] = new
  <2>1. old \in Seq({old[j] : j \in DOMAIN exts} \cup {new}) /\ Len(old) = Len(exts)
    <3> HIDE DEF old, new
    <3>1. old = [j \in 1 .. Len(exts) |-> old[j]] /\ Len(exts) \in Nat
      BY <1>1, <1>7
    <3> QED
      BY <1>1, <3>1
  <2> HIDE DEF old, new
  <2> QED
    BY <1>1, <1>2, <2>1
<1> HIDE DEF old, new, lists, moved
<1>9. \A j \in DOMAIN exts : /\ exts'[j].clone = exts[j].clone
                             /\ exts'[j].val = exts[j].val
                             /\ \A k \in Kinds : exts'[j].refs[k] \subseteq exts[j].refs[k]
  BY <1>4, <1>7, <1>8
<1>10. \A r \in Refs : link'[r] = IF r \in Moved(p, KindOf[r])
                                  THEN Cached(x, KindOf[r], op[p].val, clone) ELSE link[r]
  BY <1>3, <1>4, <1>5
<1> HIDE DEF x, clone
<1>11. DefineExtWrites(p, x, clone)
  BY <1>1, <1>4, <1>6, <1>8, <1>9, <1>10 DEF DefineExtWrites
<1> QED
  BY <1>11 DEF x, clone

-----------------------------------------------------------------------------
(* Clones are kept where they are needed *)

\* The kind of the list that a link is in.
LEMMA LinkedByKind ==
  ASSUME IInv, NEW r \in Live
  PROVE  /\ r \in Refs /\ KindOf[r] \in Kinds /\ link[r].ext \in DOMAIN exts
         /\ r \in exts[link[r].ext].refs[KindOf[r]]
         /\ r \in Alive(exts[link[r].ext].refs[KindOf[r]])
BY CacheAssumption DEF IInv, Live, Listed, RefsInv, Alive

\* What a link leads to.
LEMMA CachedTo ==
  ASSUME NEW i, NEW k \in Kinds, NEW v, NEW c
  PROVE  /\ Cached(i, k, v, c).ext = i /\ Cached(i, k, v, c) # Symbol
         /\ k = "assignment" => Cached(i, k, v, c).to = IF c THEN "clone" ELSE "cache"
BY DEF Cached, Kinds, Link, Symbol

\* What is enough for the clones after a step.
LEMMA ClonesFrom ==
  ASSUME OneAssigns \/ NothingDefined, IInv, CloneInv, IInv',
         \A i \in DOMAIN exts' :
            exts'[i].refs["operator"] # {} /\ exts'[i].refs["assignment"] # {}
               => exts'[i].clone,
         \A i \in DOMAIN exts' : exts'[i].clone =>
            \/ exts'[i].refs["operator"] # {} /\ exts'[i].refs["assignment"] # {}
            \/ /\ i \in DOMAIN exts /\ exts[i].clone
               /\ NothingDefined /\ exts[i].refs["operator"] # {}
                     => exts'[i].refs["operator"] # {},
         \A r \in Refs : r \in Live' /\ KindOf[r] = "assignment"
                            /\ exts'[link'[r].ext].clone => link'[r].to = "clone",
         \A r \in Refs : link[r] # Symbol => link'[r] # Symbol
  PROVE  CloneInv'
<1>1. ASSUME NEW i \in DOMAIN exts', exts'[i].clone
      PROVE  \/ exts'[i].refs["operator"] # {} /\ NothingDefined
             \/ /\ OneAssigns
                /\ \A r \in Refs : KindOf[r] = "assignment" => link'[r] # Symbol
  <2>1. ASSUME exts'[i].refs["operator"] # {}, exts'[i].refs["assignment"] # {},
               ~NothingDefined, NEW r \in Refs, KindOf[r] = "assignment"
        PROVE  link'[r] # Symbol
    <3>1. PICK s \in exts'[i].refs["assignment"] : TRUE
      BY <2>1
    <3>2. exts'[i] \in ExtTypes /\ "assignment" \in Kinds
      BY DEF IInv, Typed, Kinds
    <3>3. s \in Refs /\ KindOf[s] = "assignment" /\ link'[s] # Symbol
      BY <3>1, <3>2 DEF IInv, RefsInv, ExtTypes
    <3> QED
      BY <2>1, <3>3 DEF OneAssigns
  <2>2. ASSUME i \in DOMAIN exts, exts[i].clone,
               NothingDefined /\ exts[i].refs["operator"] # {}
                  => exts'[i].refs["operator"] # {}
        PROVE  \/ exts'[i].refs["operator"] # {} /\ NothingDefined
               \/ /\ OneAssigns
                  /\ \A r \in Refs : KindOf[r] = "assignment" => link'[r] # Symbol
    BY <2>2 DEF CloneInv
  <2> QED
    BY <1>1, <2>1, <2>2
<1>2. \A r : r \in Live' => r \in Refs
  BY DEF Live
<1>3. \A r \in Live' : KindOf[r] = "assignment" /\ exts'[link'[r].ext].clone
                           => link'[r].to = "clone"
  BY <1>2
<1> QED
  BY <1>1, <1>3 DEF CloneInv

\* Values change, and links of operators.
LEMMA ValueClones ==
  ASSUME OneAssigns \/ NothingDefined, IInv, CloneInv, IInv',
         DOMAIN exts' = DOMAIN exts,
         \A i \in DOMAIN exts : /\ exts'[i].clone = exts[i].clone
                                /\ exts'[i].refs = exts[i].refs,
         \A r \in Refs : \/ link'[r] = link[r]
                         \/ KindOf[r] = "operator" /\ link'[r] # Symbol
  PROVE  CloneInv'
<1>1. ASSUME NEW r \in Refs, r \in Live', KindOf[r] = "assignment",
             exts'[link'[r].ext].clone
      PROVE  link'[r].to = "clone"
  <2>1. link'[r] = link[r] /\ r \in Live
    BY <1>1 DEF Live
  <2> QED
    BY <1>1, <2>1, LinkedByKind DEF CloneInv
<1>2. \A i \in DOMAIN exts' :
         exts'[i].refs["operator"] # {} /\ exts'[i].refs["assignment"] # {}
            => exts'[i].clone
  BY DEF CloneInv
<1> QED
  BY <1>1, <1>2, ClonesFrom

\* Dead entries go, where something is defined.
LEMMA SplitClones ==
  ASSUME OneAssigns \/ NothingDefined, IInv, CloneInv, IInv', ~NothingDefined,
         NEW p \in Procs, pc[p] = "dExt", exts' = Split(p), link' = link
  PROVE  CloneInv'
<1>1. /\ DOMAIN exts' = DOMAIN exts
      /\ \A j \in DOMAIN exts : /\ exts'[j].clone = exts[j].clone
                                /\ \A k \in Kinds : exts'[j].refs[k] \subseteq exts[j].refs[k]
  BY SplitFields
<1>2. \A i \in DOMAIN exts' :
         exts'[i].refs["operator"] # {} /\ exts'[i].refs["assignment"] # {}
            => exts'[i].clone
  BY <1>1 DEF CloneInv, Kinds
<1>3. ASSUME NEW r \in Refs, r \in Live', KindOf[r] = "assignment",
             exts'[link'[r].ext].clone
      PROVE  link'[r].to = "clone"
  <2>1. r \in Live
    BY <1>3 DEF Live
  <2> QED
    BY <1>1, <1>3, <2>1, LinkedByKind DEF CloneInv
<1> QED
  BY <1>1, <1>2, <1>3, ClonesFrom

\* The new extension gets a clone exactly if it needs one.
LEMMA DefineExtClones ==
  ASSUME OneAssigns \/ NothingDefined, IInv, CloneInv, IInv', ~NothingDefined,
         NEW p \in Procs, DefineExt(p)
  PROVE  CloneInv'
<1> DEFINE x == Len(exts) + 1
           clone == Moved(p, "operator") # {} /\ Moved(p, "assignment") # {}
<1>0. DefineExtWrites(p, x, clone)
  BY DefineExtFields
<1>b. clone <=> Moved(p, "operator") # {} /\ Moved(p, "assignment") # {}
  OBVIOUS
<1> HIDE DEF x, clone
<1>1. /\ DOMAIN exts' = DOMAIN exts \cup {x} /\ x \notin DOMAIN exts
      /\ \A j \in DOMAIN exts : /\ exts'[j].clone = exts[j].clone
                                /\ \A k \in Kinds : exts'[j].refs[k] \subseteq exts[j].refs[k]
      /\ exts'[x].clone = clone
      /\ \A k \in Kinds : exts'[x].refs[k] = Moved(p, k)
      /\ \A r \in Refs : link'[r] = IF r \in Moved(p, KindOf[r])
                                    THEN Cached(x, KindOf[r], op[p].val, clone) ELSE link[r]
  BY <1>0 DEF DefineExtWrites
<1>a. {"operator", "assignment"} \subseteq Kinds
  BY DEF Kinds
<1>2. \A r \in Refs : r \in Moved(p, KindOf[r]) =>
         /\ link'[r].ext = x /\ link'[r] # Symbol
         /\ KindOf[r] = "assignment" => link'[r].to = IF clone THEN "clone" ELSE "cache"
  BY <1>1, CachedTo, CacheAssumption
<1>3. \A r \in Refs : r \notin Moved(p, KindOf[r]) => link'[r] = link[r]
  BY <1>1
<1>4. ASSUME NEW r \in Refs, r \in Live', KindOf[r] = "assignment",
             exts'[link'[r].ext].clone
      PROVE  link'[r].to = "clone"
  <2>1. CASE r \in Moved(p, KindOf[r])
    BY <1>1, <1>2, <1>4, <2>1
  <2>2. CASE r \notin Moved(p, KindOf[r])
    <3>1. link'[r] = link[r] /\ r \in Live
      BY <1>3, <1>4, <2>2 DEF Live
    <3> QED
      BY <1>1, <1>4, <3>1, LinkedByKind DEF CloneInv
  <2> QED
    BY <2>1, <2>2
<1>5. \A i \in DOMAIN exts' :
         exts'[i].refs["operator"] # {} /\ exts'[i].refs["assignment"] # {}
            => exts'[i].clone
  BY <1>1, <1>a, <1>b DEF CloneInv
<1>6. \A i \in DOMAIN exts' : exts'[i].clone =>
         \/ exts'[i].refs["operator"] # {} /\ exts'[i].refs["assignment"] # {}
         \/ i \in DOMAIN exts /\ exts[i].clone
  BY <1>1, <1>a, <1>b
<1>7. \A r \in Refs : link[r] # Symbol => link'[r] # Symbol
  BY <1>2, <1>3
<1> QED
  BY <1>4, <1>5, <1>6, <1>7, ClonesFrom

\* An extension that is new lists nothing.
LEMMA CacheRecacheClones ==
  ASSUME OneAssigns \/ NothingDefined, IInv, CloneInv, IInv',
         NEW p \in Procs, CacheRecache(p)
  PROVE  CloneInv'
<1> DEFINE c == cell[loc[p].cell]
           e == [val |-> c.val, clone |-> FALSE, refs |-> [k \in Kinds |-> {}]]
<1>1. CASE UNCHANGED <<exts, link>>
  BY <1>1, ValueClones
<1>2. CASE exts' = Append(exts, e) /\ link' = link
  <2>1. e \in ExtTypes
    BY DEF CacheRecache, At, IInv, LocInv, Typed, LocTypes, CellTypes, ExtTypes, Contents
  <2>2. e.clone = FALSE /\ \A k \in Kinds : e.refs[k] = {}
    OBVIOUS
  <2> HIDE DEF e
  <2>3. exts \in Seq(ExtTypes)
    BY DEF IInv, Typed
  <2>4. /\ DOMAIN exts' = DOMAIN exts \cup {Len(exts) + 1}
        /\ \A j \in DOMAIN exts : exts'[j] = exts[j]
        /\ exts'[Len(exts) + 1] = e
    BY <1>2, <2>1, <2>3, AddAtEnd
  <2>5. ASSUME NEW r \in Refs, r \in Live', KindOf[r] = "assignment",
               exts'[link'[r].ext].clone
        PROVE  link'[r].to = "clone"
    <3>1. r \in Live
      BY <1>2, <2>5 DEF Live
    <3> QED
      BY <1>2, <2>4, <2>5, <3>1, LinkedByKind DEF CloneInv
  <2>6. \A i \in DOMAIN exts' :
           exts'[i].refs["operator"] # {} /\ exts'[i].refs["assignment"] # {}
              => exts'[i].clone
    BY <2>2, <2>4 DEF CloneInv, Kinds
  <2>7. \A i \in DOMAIN exts' : exts'[i].clone =>
           /\ i \in DOMAIN exts /\ exts[i].clone
           /\ exts'[i].refs["operator"] = exts[i].refs["operator"]
    BY <2>2, <2>4
  <2>8. \A r \in Refs : link[r] # Symbol => link'[r] # Symbol
    BY <1>2
  <2> QED
    BY <2>5, <2>6, <2>7, <2>8, ClonesFrom
<1> QED
  BY <1>1, <1>2 DEF CacheRecache, shared, HeapFull

\* The first operator gives the assignments a clone, and so does the first
\* assignment after an operator; a clone without operators is met by no other
\* assignment, as there is only one.
LEMMA CacheExtClones ==
  ASSUME OneAssigns \/ NothingDefined, IInv, CloneInv, IInv',
         NEW p \in Procs, CacheExt(p)
  PROVE  CloneInv'
<1>1. CASE UNCHANGED <<exts, link>>
  BY <1>1, ValueClones
<1>2. CASE ~UNCHANGED <<exts, link>>
  <2> DEFINE r == op[p].ref
             k == KindOf[r]
             i == loc[p].ext
             v == IF loc[p].new THEN loc[p].val ELSE exts[i].val
             store == NeedsClone(i, k)
             fixed == Fixed(i, k, store)
             ops == exts[i].refs["operator"]
             asg == exts[i].refs["assignment"]
  <2>0. CacheExtWrites(r, k, i, v, store, fixed)
    BY <1>2, CacheExtFields
  <2>a. {"operator", "assignment"} \subseteq Kinds
    BY DEF Kinds
  <2>2. fixed = IF k = "operator" /\ store /\ ~exts[i].clone THEN Alive(asg) ELSE {}
    BY DEF Fixed
  <2>3. store <=> \/ k = "assignment" /\ ops # {}
                  \/ k = "operator" /\ asg # {}
    BY DEF NeedsClone
  <2>b. k = KindOf[r]
    OBVIOUS
  <2> HIDE DEF r, k, i, v, store, fixed
  <2>1. /\ r \in Refs /\ k \in Kinds /\ i \in DOMAIN exts /\ link[r] = Symbol
        /\ DOMAIN exts' = DOMAIN exts
        /\ \A j \in DOMAIN exts \ {i} : exts'[j] = exts[j]
        /\ exts'[i].clone = (exts[i].clone \/ store)
        /\ \A j \in Kinds : exts'[i].refs[j] =
               IF j = k THEN AddReference(exts[i].refs[j], r)
               ELSE IF j = "assignment" /\ fixed # {} THEN Alive(exts[i].refs[j])
               ELSE exts[i].refs[j]
        /\ \A s \in Refs : link'[s] =
               IF s = r THEN Cached(i, k, v, store)
               ELSE IF s \in fixed THEN Cached(i, "assignment", v, TRUE) ELSE link[s]
    BY <2>0 DEF CacheExtWrites
  <2>4. Alive(asg) \subseteq asg
    BY DEF Alive
  <2>5. AddReference(exts[i].refs[k], r) # {}
    BY DEF AddReference
  <2>6. /\ link'[r].ext = i /\ link'[r] # Symbol
        /\ k = "assignment" => link'[r].to = IF store THEN "clone" ELSE "cache"
    <3>1. link'[r] = Cached(i, k, v, store)
      BY <2>1
    <3> QED
      BY <2>1, <3>1, CachedTo
  <2>7. ASSUME NEW s \in Refs, s # r, s \in fixed
        PROVE  link'[s].ext = i /\ link'[s] # Symbol /\ link'[s].to = "clone"
    <3>1. link'[s] = Cached(i, "assignment", v, TRUE)
      BY <2>1, <2>7
    <3> QED
      BY <3>1 DEF Cached, Link, Symbol
  <2>8. \A s \in Refs : s # r /\ s \notin fixed => link'[s] = link[s]
    BY <2>1
  <2>9. /\ exts'[i].refs["operator"] = IF k = "operator"
              THEN AddReference(exts[i].refs[k], r) ELSE ops
        /\ exts'[i].refs["assignment"] = IF k = "assignment"
              THEN AddReference(exts[i].refs[k], r)
              ELSE IF fixed # {} THEN Alive(asg) ELSE asg
    BY <2>1, <2>a
  <2>10. /\ ops # {} /\ asg # {} => exts[i].clone
         /\ exts[i].clone => \/ ops # {}
                             \/ OneAssigns /\ \A s \in Refs : KindOf[s] = "assignment" =>
                                                 link[s] # Symbol
    BY <2>1 DEF CloneInv
  <2> HIDE DEF ops, asg
  <2>11. ASSUME NEW s \in Refs, s \in Live', KindOf[s] = "assignment",
                exts'[link'[s].ext].clone
         PROVE  link'[s].to = "clone"
    <3>1. CASE s = r
      <4>1. k = "assignment" /\ (exts[i].clone \/ store)
        BY <2>1, <2>6, <2>b, <2>11, <3>1
      <4>2. exts[i].clone => store
        BY <2>1, <2>3, <2>10, <2>11, <3>1, <4>1
      <4> QED
        BY <2>6, <3>1, <4>1, <4>2
    <3>2. CASE s # r /\ s \in fixed
      BY <2>7, <3>2
    <3>3. CASE s # r /\ s \notin fixed
      <4>1. link'[s] = link[s] /\ s \in Live
        BY <2>8, <2>11, <3>3 DEF Live
      <4>2. CASE link[s].ext # i
        BY <2>1, <2>11, <4>1, <4>2, LinkedByKind DEF CloneInv
      <4>3. CASE link[s].ext = i
        <5>1. s \in asg /\ s \in Alive(asg)
          BY <2>11, <4>1, <4>3, LinkedByKind DEF asg
        <5>2. exts[i].clone
          BY <2>1, <2>2, <2>3, <2>10, <2>11, <3>3, <4>1, <4>3, <5>1
        <5> QED
          BY <2>11, <4>1, <4>3, <5>2 DEF CloneInv
      <4> QED
        BY <4>2, <4>3
    <3> QED
      BY <3>1, <3>2, <3>3
  <2>12. exts'[i].refs["operator"] # {} /\ exts'[i].refs["assignment"] # {}
            => exts'[i].clone
    BY <2>1, <2>3, <2>4, <2>9, <2>10
  <2>13. exts'[i].clone =>
            \/ exts'[i].refs["operator"] # {} /\ exts'[i].refs["assignment"] # {}
            \/ exts[i].clone /\ (ops # {} => exts'[i].refs["operator"] # {})
    BY <2>1, <2>2, <2>3, <2>5, <2>9
  <2>14. \A j \in DOMAIN exts' :
            exts'[j].refs["operator"] # {} /\ exts'[j].refs["assignment"] # {}
               => exts'[j].clone
    BY <2>1, <2>12 DEF CloneInv
  <2>15. \A j \in DOMAIN exts' : exts'[j].clone =>
            \/ exts'[j].refs["operator"] # {} /\ exts'[j].refs["assignment"] # {}
            \/ /\ j \in DOMAIN exts /\ exts[j].clone
               /\ exts[j].refs["operator"] # {} => exts'[j].refs["operator"] # {}
    BY <2>1, <2>13 DEF ops
  <2>16. \A s \in Refs : link[s] # Symbol => link'[s] # Symbol
    BY <2>6, <2>7, <2>8
  <2> QED
    BY <2>11, <2>14, <2>15, <2>16, ClonesFrom
<1> QED
  BY <1>1, <1>2

\* The clone goes with the last operator.
LEMMA AssignLinksClones ==
  ASSUME OneAssigns \/ NothingDefined, IInv, CloneInv, IInv',
         NEW p \in Procs, AssignLinks(p)
  PROVE  CloneInv'
<1> DEFINE i == loc[p].ext
           live == Alive(exts[i].refs["operator"])
           unclone == live = {} /\ exts[i].clone
           fixed == Alive(exts[i].refs["assignment"])
<1>0. AssignLinksWrites(i, live, unclone, fixed)
  BY AssignLinksFields
<1>b. /\ live = Alive(exts[i].refs["operator"])
      /\ unclone <=> live = {} /\ exts[i].clone
  OBVIOUS
<1> HIDE DEF i, live, unclone, fixed
<1>1. /\ i \in DOMAIN exts /\ DOMAIN exts' = DOMAIN exts
      /\ \A j \in DOMAIN exts \ {i} : exts'[j] = exts[j]
      /\ exts'[i].clone = (exts[i].clone /\ ~unclone)
      /\ exts'[i].refs["operator"] = live
      /\ exts'[i].refs["assignment"] \subseteq exts[i].refs["assignment"]
      /\ \A s \in Refs : link'[s] =
            IF s \in live THEN Cached(i, "operator", exts[i].val, FALSE)
            ELSE IF unclone /\ s \in fixed
            THEN Cached(i, "assignment", exts[i].val, FALSE) ELSE link[s]
  BY <1>0 DEF AssignLinksWrites
<1>a. {"operator", "assignment"} \subseteq Kinds
  BY DEF Kinds
<1>2. live \subseteq exts[i].refs["operator"] /\ \A s \in live : KindOf[s] = "operator"
  BY <1>1, <1>a, <1>b, AliveLinks DEF Alive, IInv
<1>3. ASSUME NEW s \in Refs, s \in live
      PROVE  link'[s] # Symbol /\ link'[s].ext = i
  <2>1. link'[s] = Cached(i, "operator", exts[i].val, FALSE)
    BY <1>1, <1>3
  <2> QED
    BY <2>1 DEF Cached, Link, Symbol
<1>4. ASSUME NEW s \in Refs, s \notin live, unclone, s \in fixed
      PROVE  link'[s] # Symbol /\ link'[s].ext = i
  <2>1. link'[s] = Cached(i, "assignment", exts[i].val, FALSE)
    BY <1>1, <1>4
  <2> QED
    BY <2>1 DEF Cached, Link, Symbol
<1>5. \A s \in Refs : s \notin live /\ ~(unclone /\ s \in fixed) => link'[s] = link[s]
  BY <1>1
<1>6. exts'[i].clone <=> exts[i].clone /\ live # {}
  BY <1>1, <1>b
<1>7. ASSUME NEW s \in Refs, s \in Live', KindOf[s] = "assignment",
             exts'[link'[s].ext].clone
      PROVE  link'[s].to = "clone"
  <2>1. s \notin live
    BY <1>2, <1>7
  <2>2. ~(unclone /\ s \in fixed)
    BY <1>1, <1>4, <1>7, <2>1
  <2>3. link'[s] = link[s] /\ s \in Live
    BY <1>5, <1>7, <2>1, <2>2 DEF Live
  <2>4. exts[link[s].ext].clone
    BY <1>1, <1>6, <1>7, <2>3, LinkedByKind
  <2> QED
    BY <1>7, <2>3, <2>4 DEF CloneInv
<1>8. \A j \in DOMAIN exts' :
         exts'[j].refs["operator"] # {} /\ exts'[j].refs["assignment"] # {}
            => exts'[j].clone
  BY <1>1, <1>2, <1>6 DEF CloneInv
<1>9. \A j \in DOMAIN exts' : exts'[j].clone =>
         /\ j \in DOMAIN exts /\ exts[j].clone
         /\ exts[j].refs["operator"] # {} => exts'[j].refs["operator"] # {}
  BY <1>1, <1>6
<1>10. \A s \in Refs : link[s] # Symbol => link'[s] # Symbol
  BY <1>3, <1>4, <1>5
<1> QED
  BY <1>7, <1>8, <1>9, <1>10, ClonesFrom

\* A definition under way.
LEMMA SomethingDefined ==
  ASSUME IInv, NEW p \in Procs, pc[p] = "dExt"
  PROVE  ~NothingDefined
<1>1. op[p].kind = "define" /\ op[p] \in Ops[p] \cup {NoOp} /\ op[p] # NoOp
  BY DEF IInv, Roles, Typed
<1> QED
  BY <1>1 DEF NothingDefined

LEMMA RevertClones ==
  ASSUME OneAssigns \/ NothingDefined, IInv, CloneInv, IInv',
         NEW p \in Procs, pc[p] = "aLinks",
         NEW done \in SUBSET Alive(exts[loc[p].ext].refs["operator"]),
         AssignReverts(p, done)
  PROVE  CloneInv'
<1> DEFINE i == loc[p].ext
           v == exts[i].val
<1>1. /\ i \in DOMAIN exts /\ exts' = [exts EXCEPT ![i].val = loc[p].val]
      /\ link' = [s \in Refs |-> IF s \in done
                                 THEN Cached(i, "operator", v, FALSE) ELSE link[s]]
  BY DEF AssignReverts, IInv, LocInv
<1>2. \A s \in done : KindOf[s] = "operator"
  BY <1>1, AliveLinks DEF IInv, Kinds
<1>3. Cached(i, "operator", v, FALSE) # Symbol
  BY DEF Cached, Link, Symbol
<1> HIDE DEF i, v
<1>4. \A r \in Refs : \/ link'[r] = link[r]
                      \/ KindOf[r] = "operator" /\ link'[r] # Symbol
  BY <1>1, <1>2, <1>3
<1>5. /\ DOMAIN exts' = DOMAIN exts
      /\ \A j \in DOMAIN exts : /\ exts'[j].clone = exts[j].clone
                                /\ exts'[j].refs = exts[j].refs
  BY <1>1, ValueFields
<1> QED
  BY <1>4, <1>5, ValueClones

LEMMA ClonesStep ==
  ASSUME OneAssigns \/ NothingDefined, IInv, CloneInv, NEW p \in Procs, Step(p)
  PROVE  CloneInv'
<1>0. IInv'
  BY StepKept
<1>1. CASE UNCHANGED <<exts, link>>
  BY <1>0, <1>1, ValueClones
<1>2. CASE CacheRecache(p)
  BY <1>0, <1>2, CacheRecacheClones
<1>3. CASE CacheExt(p)
  BY <1>0, <1>3, CacheExtClones
<1>4. CASE AssignExt(p)
  <2> DEFINE v == Assigned(p, exts[loc[p].ext].val)
  <2>1. /\ loc[p].ext \in DOMAIN exts /\ link' = link
        /\ exts' = [exts EXCEPT ![loc[p].ext].val = v]
    BY <1>4 DEF AssignExt, At, IInv, LocInv
  <2> HIDE DEF v
  <2>2. /\ DOMAIN exts' = DOMAIN exts
        /\ \A j \in DOMAIN exts : /\ exts'[j].clone = exts[j].clone
                                  /\ exts'[j].refs = exts[j].refs
    BY <2>1, ValueFields
  <2> QED
    BY <1>0, <2>1, <2>2, ValueClones
<1>5. CASE AssignLinks(p)
  BY <1>0, <1>5, AssignLinksClones
<1>6. CASE LinksFull(p)
  BY <1>0, <1>6, RevertClones DEF LinksFull, At
<1>7. CASE LinksInterrupted(p)
  <2>1. {} \in SUBSET Alive(exts[loc[p].ext].refs["operator"])
    OBVIOUS
  <2> QED
    BY <1>0, <1>7, <2>1, RevertClones DEF LinksInterrupted, At
<1>8. CASE DefineNothing(p) \/ DefineFull(p)
  BY <1>0, <1>8, SomethingDefined, SplitClones DEF DefineNothing, DefineFull, At
<1>9. CASE DefineExt(p)
  BY <1>0, <1>9, SomethingDefined, DefineExtClones DEF DefineExt, At
<1>10. CASE Begin(p) \/ WaitInterrupted(p) \/ StartCache(p) \/ CacheLock(p)
            \/ CacheBeaten(p) \/ StartAssign(p) \/ StartCompiled(p) \/ AssignCell(p)
            \/ StartRedefine(p) \/ Extend(p) \/ DefineLock(p) \/ DefineRecache(p)
            \/ Define(p)
  <2>1. UNCHANGED <<exts, link>>
    BY <1>10 DEF Begin, WaitInterrupted, StartCache, Starts, CacheLock, CacheBeaten,
       StartAssign, StartCompiled, AssignCell, StartRedefine, Extend, DefineLock,
       DefineRecache, Define, shared
  <2> QED
    BY <1>1, <2>1
<1> QED
  BY <1>2, <1>3, <1>4, <1>5, <1>6, <1>7, <1>8, <1>9, <1>10 DEF Step

LEMMA ClonesCollect ==
  ASSUME OneAssigns \/ NothingDefined, IInv, CloneInv, NEW r \in Refs, Collect(r)
  PROVE  CloneInv'
<1>0. IInv' /\ exts' = exts
  BY CollectKept DEF Collect
<1>1. \A s \in Refs : s \in Live' => s \in Live /\ link'[s] = link[s]
  BY DEF Collect, Set, Live, IInv, Typed
<1>2. \A s \in Refs : link[s] # Symbol => link'[s] # Symbol
  BY DEF Collect, Set, IInv, Typed, Gone, Symbol, Link
<1> QED
  BY <1>0, <1>1, <1>2, ClonesFrom DEF CloneInv

LEMMA ClonesInitially == Init => CloneInv
BY DEF Init, CloneInv, Live

\* Whenever an extension lists both operators and assignments, it has a clone.
THEOREM CloneInvariance ==
  ASSUME OneAssigns \/ NothingDefined
  PROVE  Spec => [](IInv /\ CloneInv)
<1>1. Init => IInv /\ CloneInv
  BY InitialInvariant, ClonesInitially
<1>2. ASSUME IInv, CloneInv, UNCHANGED vars
      PROVE  CloneInv'
  BY <1>2, StutterKept, ValueClones DEF vars, shared
<1>3. IInv /\ CloneInv /\ [Next]_vars => (IInv /\ CloneInv)'
  BY <1>2, StepKept, CollectKept, StutterKept, ClonesStep, ClonesCollect
     DEF Next, AllDone
<1> QED
  BY <1>1, <1>3, PTL DEF Spec

\* While compiled code has direct links to a procedure, compiled assignments to
\* the variable trap (fix_references, compiler_cache, compiler_recache): for
\* all calls of all processors if the variable is assigned in one place, or if
\* nothing is defined.
THEOREM AssignmentsSeeOperatorsAlways ==
  ASSUME OneAssigns \/ NothingDefined
  PROVE  Spec => []AssignmentsSeeOperators
<1>1. IInv /\ CloneInv => AssignmentsSeeOperators
  <2> SUFFICES ASSUME IInv, CloneInv, NEW q \in Live, NEW r \in Live,
                      KindOf[q] = "operator", KindOf[r] = "assignment",
                      link[q].ext = link[r].ext
      PROVE  link[r].to = "clone"
    BY DEF AssignmentsSeeOperators
  <2>1. /\ q \in exts[link[r].ext].refs["operator"] /\ link[r].ext \in DOMAIN exts
        /\ r \in exts[link[r].ext].refs["assignment"]
    BY LinkedByKind
  <2> QED
    BY <2>1 DEF CloneInv
<1> QED
  BY <1>1, CloneInvariance, PTL

-----------------------------------------------------------------------------
(* Operators are current *)

\* Where one processor assigns or defines, the others only cache, and no operators.
ChangesAlone ==
    \A p, q \in Procs : p # q =>
        \A k \in Ops[p], m \in Ops[q] :
            k.kind # "cache" => m.kind = "cache" /\ KindOf[m.ref] # "operator"

\* A link that does not call the value of its variable.
Stale(r) == /\ r \in Live /\ KindOf[r] = "operator"
            /\ link[r] # Cached(link[r].ext, "operator", exts[link[r].ext].val, FALSE)

\* What p is asked to change is kept by the extension i.
Target(p, i) ==
    \/ /\ op[p].kind = "compiled"
       /\ \E r \in Refs : op[p].ref = r /\ link[r].ext = i
    \/ /\ op[p].kind = "assign"
       /\ \E e \in Envs : op[p].env = e /\ cell[Visible(e)].ext = i
    \/ /\ op[p].kind = "define"
       /\ \E e \in Envs : op[p].env = e /\ (e = Global \/ Binds(e)) /\ cell[e].ext = i

\* To put its value in the place of v makes a difference to the links.
Matters(p, v) == /\ ~(Trap(v) /\ Trap(op[p].val))
                 /\ v # Unbound \/ op[p].kind = "define"

\* The links of i will be made again before the call of p ends.
Repairs(p, i) ==
    \/ pc[p] = "aLinks" /\ loc[p].ext = i
    \/ pc[p] \in {"start", "aLock", "aExt"} /\ Target(p, i) /\ Matters(p, exts[i].val)

StaleInv == \A r \in Refs, i \in DOMAIN exts :
               Stale(r) /\ link[r].ext = i => \E p \in Procs : Repairs(p, i)

\* What p has found out about its target.
Changing(p) ==
    /\ pc[p] = "aLock" => \A e \in Envs : op[p].env = e =>
          /\ op[p].kind = "assign" => loc[p].cell = Visible(e)
          /\ op[p].kind = "define" => loc[p].cell = e /\ loc[p].deep
    /\ pc[p] \in {"aLock", "aExt", "aLinks"} => (loc[p].force <=> op[p].kind = "define")
    /\ pc[p] \in {"aExt", "aLinks"} =>
          \A i \in DOMAIN exts : loc[p].ext = i => Target(p, i)
    /\ pc[p] = "aExt" /\ ~loc[p].deep =>
          \A r \in Refs : r \in Live /\ KindOf[r] = "operator" => link[r].ext # loc[p].ext
    /\ pc[p] = "aLinks" => Matters(p, loc[p].val)
    /\ pc[p] = "cExt" /\ loc[p].new /\ KindOf[op[p].ref] = "operator" =>
          loc[p].val = exts[loc[p].ext].val

CurrentInv == StaleInv /\ \A p \in Procs : Changing(p)

-----------------------------------------------------------------------------
(* What leaves the links of operators as good as they are *)

ValuesKept == \A i \in DOMAIN exts : exts'[i].val = exts[i].val
CallsKept  == \A r \in Refs : r \in Live' /\ KindOf[r] = "operator" =>
    \/ r \in Live /\ link'[r] = link[r]
    \/ link'[r] = Cached(link'[r].ext, "operator", exts'[link'[r].ext].val, FALSE)

LEMMA StaleBefore ==
  ASSUME IInv, ValuesKept, CallsKept, NEW r \in Refs, Stale(r)'
  PROVE  Stale(r) /\ link'[r] = link[r]
<1>1. /\ r \in Live' /\ KindOf[r] = "operator"
      /\ link'[r] # Cached(link'[r].ext, "operator", exts'[link'[r].ext].val, FALSE)
  BY DEF Stale
<1>2. r \in Live /\ link'[r] = link[r]
  BY <1>1 DEF CallsKept
<1>3. link[r].ext \in DOMAIN exts
  BY <1>2, LinkedByKind
<1> QED
  BY <1>1, <1>2, <1>3 DEF Stale, ValuesKept

LEMMA SameLinks ==
  ASSUME link' = link
  PROVE  CallsKept
BY DEF CallsKept, Live

LEMMA CacheRecacheCalls ==
  ASSUME IInv, NEW p \in Procs, CacheRecache(p)
  PROVE  ValuesKept /\ CallsKept
<1> DEFINE c == cell[loc[p].cell]
           e == [val |-> c.val, clone |-> FALSE, refs |-> [k \in Kinds |-> {}]]
<1>1. link' = link
  BY DEF CacheRecache, shared
<1>2. CASE exts' = exts
  BY <1>1, <1>2, SameLinks DEF ValuesKept
<1>3. CASE exts' = Append(exts, e)
  <2>1. e \in ExtTypes
    BY DEF CacheRecache, At, IInv, LocInv, Typed, LocTypes, CellTypes, ExtTypes, Contents
  <2> HIDE DEF e
  <2>2. exts \in Seq(ExtTypes)
    BY DEF IInv, Typed
  <2>3. \A j \in DOMAIN exts : exts'[j] = exts[j]
    BY <1>3, <2>1, <2>2, AddAtEnd
  <2> QED
    BY <1>1, <2>3, SameLinks DEF ValuesKept
<1> QED
  BY <1>2, <1>3 DEF CacheRecache, shared, HeapFull

\* What is linked is the value: of the extension, or of the cell if nobody has
\* assigned since it got one.
LEMMA CacheExtCalls ==
  ASSUME IInv, NEW p \in Procs, Changing(p), CacheExt(p)
  PROVE  ValuesKept /\ CallsKept
<1>1. CASE UNCHANGED <<exts, link>>
  BY <1>1, SameLinks DEF ValuesKept
<1>2. CASE ~UNCHANGED <<exts, link>>
  <2> DEFINE r == op[p].ref
             k == KindOf[r]
             i == loc[p].ext
             v == IF loc[p].new THEN loc[p].val ELSE exts[i].val
             store == NeedsClone(i, k)
             fixed == Fixed(i, k, store)
  <2>0. CacheExtWrites(r, k, i, v, store, fixed)
    BY <1>2, CacheExtFields
  <2>1. k = "operator" => v = exts[i].val
    BY DEF Changing, CacheExt, At
  <2>2. fixed \subseteq Alive(exts[i].refs["assignment"]) /\ k = KindOf[r]
    BY DEF Fixed
  <2> HIDE DEF r, k, i, v, store, fixed
  <2>3. /\ i \in DOMAIN exts /\ DOMAIN exts' = DOMAIN exts /\ exts'[i].val = exts[i].val
        /\ \A j \in DOMAIN exts \ {i} : exts'[j] = exts[j]
        /\ \A s \in Refs : link'[s] =
              IF s = r THEN Cached(i, k, v, store)
              ELSE IF s \in fixed THEN Cached(i, "assignment", v, TRUE) ELSE link[s]
    BY <2>0 DEF CacheExtWrites
  <2>4. \A s \in fixed : KindOf[s] = "assignment"
    BY <2>2, <2>3, AliveLinks DEF IInv, Kinds
  <2>5. ValuesKept
    BY <2>3 DEF ValuesKept
  <2>6. ASSUME NEW s \in Refs, s \in Live', KindOf[s] = "operator"
        PROVE  \/ s \in Live /\ link'[s] = link[s]
               \/ link'[s] = Cached(link'[s].ext, "operator", exts'[link'[s].ext].val, FALSE)
    <3>1. CASE s = r
      <4>1. link'[s] = Cached(i, "operator", exts[i].val, store)
        BY <2>1, <2>2, <2>3, <2>6, <3>1
      <4> QED
        BY <2>3, <4>1 DEF Cached, Link
    <3>2. CASE s # r
      <4>1. link'[s] = link[s]
        BY <2>3, <2>4, <2>6, <3>2
      <4> QED
        BY <2>6, <4>1 DEF Live
    <3> QED
      BY <3>1, <3>2
  <2> QED
    BY <2>5, <2>6 DEF CallsKept
<1> QED
  BY <1>1, <1>2

LEMMA DefineExtCalls ==
  ASSUME IInv, NEW p \in Procs, DefineExt(p)
  PROVE  ValuesKept /\ CallsKept
<1> DEFINE x == Len(exts) + 1
           clone == Moved(p, "operator") # {} /\ Moved(p, "assignment") # {}
<1>0. DefineExtWrites(p, x, clone)
  BY DefineExtFields
<1> HIDE DEF x, clone
<1>1. /\ \A j \in DOMAIN exts : exts'[j].val = exts[j].val
      /\ exts'[x].val = op[p].val
      /\ \A r \in Refs : link'[r] = IF r \in Moved(p, KindOf[r])
                                    THEN Cached(x, KindOf[r], op[p].val, clone) ELSE link[r]
  BY <1>0 DEF DefineExtWrites
<1>2. ASSUME NEW r \in Refs, r \in Live', KindOf[r] = "operator"
      PROVE  \/ r \in Live /\ link'[r] = link[r]
             \/ link'[r] = Cached(link'[r].ext, "operator", exts'[link'[r].ext].val, FALSE)
  <2>1. CASE link'[r] = link[r]
    BY <1>2, <2>1 DEF Live
  <2>2. CASE link'[r] = Cached(x, "operator", op[p].val, clone)
    BY <1>1, <2>2 DEF Cached, Link
  <2> QED
    BY <1>1, <1>2, <2>1, <2>2
<1> QED
  BY <1>1, <1>2 DEF ValuesKept, CallsKept

LEMMA StepCalls ==
  ASSUME IInv, NEW p \in Procs, Changing(p), Step(p), pc[p] \notin {"aExt", "aLinks"}
  PROVE  ValuesKept /\ CallsKept
<1>1. CASE CacheRecache(p)
  BY <1>1, CacheRecacheCalls
<1>2. CASE CacheExt(p)
  BY <1>2, CacheExtCalls
<1>3. CASE DefineNothing(p) \/ DefineFull(p)
  <2>1. pc[p] = "dExt" /\ exts' = Split(p) /\ link' = link
    BY <1>3 DEF DefineNothing, DefineFull, At
  <2> QED
    BY <2>1, SplitFields, SameLinks DEF ValuesKept
<1>4. CASE DefineExt(p)
  BY <1>4, DefineExtCalls
<1>5. CASE Begin(p) \/ WaitInterrupted(p) \/ StartCache(p) \/ CacheLock(p)
           \/ CacheBeaten(p) \/ StartAssign(p) \/ StartCompiled(p) \/ AssignCell(p)
           \/ StartRedefine(p) \/ Extend(p) \/ DefineLock(p) \/ DefineRecache(p)
           \/ Define(p)
  <2>1. UNCHANGED <<exts, link>>
    BY <1>5 DEF Begin, WaitInterrupted, StartCache, Starts, CacheLock, CacheBeaten,
       StartAssign, StartCompiled, AssignCell, StartRedefine, Extend, DefineLock,
       DefineRecache, Define, shared
  <2> QED
    BY <2>1, SameLinks DEF ValuesKept
<1>6. ~(AssignExt(p) \/ AssignLinks(p) \/ LinksFull(p) \/ LinksInterrupted(p))
  BY DEF AssignExt, AssignLinks, LinksFull, LinksInterrupted, At
<1> QED
  BY <1>1, <1>2, <1>3, <1>4, <1>5, <1>6 DEF Step

-----------------------------------------------------------------------------
(* One processor changes, the others do not disturb it *)

Changes(p) == op[p].kind \in {"assign", "define", "compiled"}

LEMMA OneAtATime ==
  ASSUME ChangesAlone, IInv, NEW p \in Procs, NEW q \in Procs, p # q, Changes(p)
  PROVE  /\ op[q].kind \in {"cache", "none"}
         /\ op[q].kind = "cache" => KindOf[op[q].ref] # "operator"
<1>1. op[p] \in Ops[p] \cup {NoOp} /\ op[q] \in Ops[q] \cup {NoOp} /\ NoOp.kind = "none"
  BY DEF IInv, Typed, NoOp
<1>2. op[p] \in Ops[p] /\ op[p].kind # "cache"
  BY <1>1 DEF Changes
<1> QED
  BY <1>1, <1>2 DEF ChangesAlone

\* At these places a variable is changed.
LEMMA WhoChanges ==
  ASSUME IInv, NEW p \in Procs
  PROVE  /\ pc[p] \in {"aLock", "aExt", "aLinks"} => Changes(p)
         /\ \A i : Target(p, i) => Changes(p)
         /\ \A i : Repairs(p, i) => Changes(p)
         /\ Changes(p) => pc[p] # "idle" /\ op[p] # NoOp /\ pc[p] # "cExt"
         /\ op[p].kind \in {"cache", "none"} =>
               pc[p] \notin {"aLock", "aExt", "aLinks", "dLock", "dRecache", "dExt", "dDefine"}
BY DEF IInv, Roles, Changes, Target, Repairs, NoOp

\* The target of a call stays what it is: only a definition could change it,
\* and a call that defines knows its frame.
LEMMA TargetStays ==
  ASSUME IInv, ScopeInv, NEW p \in Procs, Moves(p), NEW c \in Procs, op'[c] = op[c],
         op[c].kind # "define" => op[p].kind # "define",
         NEW i \in DOMAIN exts, Target(c, i)
  PROVE  Target(c, i)'
<1>0. i # 0 /\ cell \in [Envs -> CellTypes] /\ Frames \subseteq Envs
  BY DEF IInv, Typed, Envs
<1>1. \A e \in Envs : cell[e].ext # 0 => cell'[e].ext = cell[e].ext
  BY ExtensionsStay
<1>2. CASE op[c].kind = "compiled"
  <2>1. PICK r \in Refs : op[c].ref = r /\ link[r].ext = i
    BY <1>2, <1>0 DEF Target
  <2>2. link[r] # Symbol
    BY <1>0, <2>1 DEF Symbol, Link
  <2>3. pc[p] # "dExt"
    BY <1>2 DEF IInv, Roles
  <2>4. link'[r].ext = i
    <3>1. CASE Kept
      BY <2>1, <3>1 DEF Kept
    <3>2. CASE Filed(p) /\ pc[p] = "cExt"
      <4>1. r # op[p].ref
        BY <2>2, <3>2 DEF IInv, CacheInv
      <4> QED
        BY <2>1, <3>2, <4>1 DEF Filed
    <3> QED
      BY <2>3, <3>1, <3>2 DEF Moves
  <2> QED
    BY <1>2, <2>1, <2>4 DEF Target
<1>3. CASE op[c].kind = "assign"
  <2>1. PICK e \in Envs : op[c].env = e /\ cell[Visible(e)].ext = i
    BY <1>3 DEF Target
  <2>2. Visible(e)' = Visible(e)
    BY <1>3, VisibleFarAway
  <2>3. Visible(e) \in Envs
    BY LookupFinds
  <2> QED
    BY <1>0, <1>1, <1>3, <2>1, <2>2, <2>3 DEF Target
<1>4. CASE op[c].kind = "define"
  <2>1. PICK e \in Envs : op[c].env = e /\ cell[e].ext = i
    BY <1>4 DEF Target
  <2>2. cell'[e].ext = i
    BY <1>0, <1>1, <2>1
  <2>3. Binds(e)'
    BY <1>0, <2>2 DEF Binds, Empty, Placeholder, Cell
  <2> QED
    BY <1>4, <2>1, <2>2, <2>3 DEF Target
<1> QED
  BY <1>2, <1>3, <1>4 DEF Target

\* What another processor will repair it still will.
LEMMA RepairStays ==
  ASSUME ChangesAlone, IInv, ScopeInv, NEW p \in Procs, Step(p), Changing(p),
         NEW c \in Procs, c # p, NEW i \in DOMAIN exts, Repairs(c, i)
  PROVE  Repairs(c, i)' /\ pc[p] \notin {"aExt", "aLinks"}
<1>1. Changes(c) /\ op[p].kind \in {"cache", "none"} /\ pc[p] \notin {"aExt", "aLinks"}
  BY WhoChanges, OneAtATime
<1>2. pc'[c] = pc[c] /\ op'[c] = op[c] /\ loc'[c] = loc[c]
  BY StepGoes, StepRemembers, StepLists, StepFills, OthersStay DEF IInv, Remembers
<1>3. exts'[i].val = exts[i].val
  BY <1>1, StepCalls DEF ValuesKept
<1>4. Target(c, i) => Target(c, i)'
  BY <1>1, <1>2, StepMoves, TargetStays
<1> QED
  BY <1>1, <1>2, <1>3, <1>4 DEF Repairs, Matters

LEMMA OthersChanging ==
  ASSUME ChangesAlone, IInv, ScopeInv, NEW p \in Procs, Step(p), Changing(p),
         NEW q \in Procs, q # p, Changing(q)
  PROVE  Changing(q)'
<1>0. pc'[q] = pc[q] /\ op'[q] = op[q] /\ loc'[q] = loc[q] /\ Moves(p)
  BY StepGoes, StepRemembers, StepLists, StepFills, OthersStay, StepMoves
     DEF IInv, Remembers
<1>1. CASE Changes(q)
  <2>1. /\ op[p].kind \in {"cache", "none"}
        /\ op[p].kind = "cache" => KindOf[op[p].ref] # "operator"
    BY <1>1, OneAtATime
  <2>2. \A e \in Envs : Visible(e)' = Visible(e)
    BY <1>0, <2>1, VisibleFarAway
  <2>3. \A i \in DOMAIN exts : Target(q, i) => Target(q, i)'
    BY <1>0, <2>1, TargetStays
  <2>4. pc[q] \in {"aExt", "aLinks"} => loc[q].ext \in DOMAIN exts
    BY DEF IInv, LocInv
  <2>5. ASSUME NEW r \in Refs, r \in Live', KindOf[r] = "operator"
        PROVE  r \in Live /\ link'[r].ext = link[r].ext
    <3>1. r # op[p].ref \/ pc[p] # "cExt"
      BY <2>1, <2>5 DEF IInv, Roles
    <3>2. r \in Live
      BY <1>0, <2>5, <3>1, LiveBefore
    <3>3. pc[p] # "dExt"
      BY <2>1, WhoChanges
    <3> QED
      BY <1>0, <3>1, <3>2, <3>3 DEF Moves, Kept, Filed
  <2>6. pc[q] # "cExt"
    BY <1>1, WhoChanges
  <2> QED
    BY <1>0, <2>2, <2>3, <2>4, <2>5, <2>6 DEF Changing, Matters
<1>2. CASE ~Changes(q)
  <2>1. pc[q] \notin {"aLock", "aExt", "aLinks"}
    BY <1>2, WhoChanges
  <2>2. ASSUME pc[q] = "cExt", loc[q].new, KindOf[op[q].ref] = "operator"
        PROVE  loc[q].val = exts'[loc[q].ext].val
    <3>1. op[q].kind = "cache" /\ loc[q].ext \in DOMAIN exts
      BY <2>2 DEF IInv, Roles, LocInv
    <3>2. ~Changes(p)
      BY <2>2, <3>1, OneAtATime
    <3>3. pc[p] \notin {"aExt", "aLinks"}
      BY <3>2, WhoChanges
    <3>4. ValuesKept
      BY <3>3, StepCalls
    <3> QED
      BY <2>2, <3>1, <3>4 DEF Changing, ValuesKept
  <2> QED
    BY <1>0, <2>1, <2>2 DEF Changing
<1> QED
  BY <1>1, <1>2

-----------------------------------------------------------------------------
(* What a call that changes a variable finds out *)

LEMMA QuietChanging ==
  ASSUME NEW p \in Procs, pc'[p] \notin {"aLock", "aExt", "aLinks", "cExt"}
  PROVE  Changing(p)'
BY DEF Changing

\* Targets stay where the cells and links do.
LEMMA TargetSame ==
  ASSUME cell' = cell, link' = link, NEW p \in Procs, op'[p] = op[p], NEW i
  PROVE  Target(p, i)' <=> Target(p, i)
<1>1. \A e \in Envs : Visible(e)' = Visible(e)
  BY LookupStays
<1>2. \A e \in Envs : Binds(e)' <=> Binds(e)
  BY DEF Binds
<1> QED
  BY <1>1, <1>2 DEF Target

LEMMA StartChanging ==
  ASSUME OneAssigns \/ NothingDefined, IInv, CloneInv, NEW p \in Procs,
         StartAssign(p) \/ StartCompiled(p)
  PROVE  Changing(p)'
<1>0. /\ cell' = cell /\ link' = link /\ exts' = exts /\ op' = op
      /\ pc \in [Procs -> Labels] /\ loc \in [Procs -> LocTypes]
  BY DEF StartAssign, StartCompiled, Starts, shared, IInv, Typed
<1>1. CASE StartAssign(p)
  <2>1. pc'[p] = "aLock" /\ loc'[p].cell = Visible(op[p].env) /\ loc'[p].force = FALSE
        /\ op[p].kind = "assign"
    BY <1>0, <1>1 DEF StartAssign, Starts, Goto, Local, Set, NoLocals
  <2>2. \A e \in Envs : op[p].env = e => loc'[p].cell = Visible(e)'
    BY <1>0, <2>1, LookupStays
  <2> QED
    BY <1>0, <2>1, <2>2 DEF Changing
<1>2. CASE StartCompiled(p)
  <2>1. /\ pc'[p] = "aExt" /\ loc'[p].ext = link[op[p].ref].ext /\ loc'[p].force = FALSE
        /\ loc'[p].deep = (link[op[p].ref].to = "clone") /\ op[p].kind = "compiled"
        /\ pc[p] = "start"
    BY <1>0, <1>2 DEF StartCompiled, Starts, Goto, Local, Set, NoLocals, At
  <2>2. op[p].ref \in Refs /\ op[p].ref \in Live /\ KindOf[op[p].ref] = "assignment"
    <3>1. op[p] \in Ops[p] \cup {NoOp} /\ op[p] # NoOp
      BY <2>1 DEF IInv, Typed, Roles
    <3> QED
      BY <2>1, <3>1, OpFacts, CompiledAssumption DEF IInv, LocInv, Live
  <2>3. \A i : loc'[p].ext = i => Target(p, i)
    BY <2>1, <2>2 DEF Target
  <2>4. ASSUME ~loc'[p].deep, NEW r \in Refs, r \in Live, KindOf[r] = "operator"
        PROVE  link[r].ext # loc'[p].ext
    <3> SUFFICES ASSUME link[r].ext = link[op[p].ref].ext
        PROVE  link[op[p].ref].to = "clone"
      BY <2>1, <2>4
    <3>1. /\ r \in exts[link[op[p].ref].ext].refs["operator"]
          /\ op[p].ref \in exts[link[op[p].ref].ext].refs["assignment"]
          /\ link[op[p].ref].ext \in DOMAIN exts
      BY <2>2, <2>4, LinkedByKind
    <3> QED
      BY <2>2, <3>1 DEF CloneInv
  <2>5. \A i \in DOMAIN exts : loc'[p].ext = i => Target(p, i)'
    BY <1>0, <2>3, TargetSame
  <2>6. \A r \in Refs : r \in Live' => r \in Live
    BY <1>0 DEF Live
  <2> QED
    BY <1>0, <2>1, <2>4, <2>5, <2>6 DEF Changing
<1> QED
  BY <1>1, <1>2

LEMMA RedefineChanging ==
  ASSUME IInv, NEW p \in Procs, op' = op, op[p].kind = "define", NEW e, Redefine(p, e),
         op[p].env = e
  PROVE  Changing(p)'
<1>1. pc'[p] = "aLock" /\ loc'[p].cell = e /\ loc'[p].deep /\ loc'[p].force
  BY DEF Redefine, Goto, Local, Set, IInv, Typed, NoLocals
<1> QED
  BY <1>1 DEF Changing

LEMMA DefineChanging ==
  ASSUME IInv, ScopeInv, NEW p \in Procs, StartRedefine(p) \/ DefineLock(p) \/ Define(p)
  PROVE  Changing(p)'
<1>0. pc \in [Procs -> Labels] /\ op[p].kind = "define" /\ op[p].env \in Envs
  <2>1. pc[p] \in {"start", "dLock", "dDefine"} /\ op[p].kind = "define"
    BY DEF IInv, Roles, StartRedefine, DefineLock, Define, At
  <2> QED
    BY <2>1, OpFacts DEF IInv, Typed
<1>1. CASE StartRedefine(p)
  BY <1>0, <1>1, RedefineChanging DEF StartRedefine
<1>2. CASE DefineLock(p)
  <2>1. op' = op /\ pc[p] = "dLock"
    BY <1>2 DEF DefineLock, At
  <2>2. loc[p].cell = op[p].env
    BY <1>0, <2>1 DEF ScopeInv, DefiningInv
  <2>3. CASE Redefine(p, loc[p].cell)
    BY <1>0, <2>1, <2>2, <2>3, RedefineChanging
  <2>4. CASE Goto(p, "dDefine") \/ Goto(p, "dRecache")
    <3>1. pc'[p] \in {"dDefine", "dRecache"}
      BY <1>0, <2>4 DEF Goto, Set
    <3> QED
      BY <3>1, QuietChanging
  <2> QED
    BY <1>2, <2>3, <2>4 DEF DefineLock
<1>3. CASE Define(p)
  <2>1. pc[p] = "dDefine"
    BY <1>3 DEF Define, At
  <2>2. loc[p].cell = op[p].env
    BY <1>0, <2>1 DEF ScopeInv, DefiningInv
  <2>3. CASE Redefine(p, loc[p].cell) /\ op' = op
    BY <1>0, <2>1, <2>2, <2>3, RedefineChanging
  <2>4. CASE Goto(p, "idle")
    <3>1. pc'[p] = "idle"
      BY <1>0, <2>4 DEF Goto, Set
    <3> QED
      BY <3>1, QuietChanging
  <2> QED
    BY <1>3, <2>3, <2>4 DEF Define, Done
<1> QED
  BY <1>1, <1>2, <1>3

\* The extension that a cell gets has the value of the cell.
LEMMA CacheRecacheChanging ==
  ASSUME IInv, NEW p \in Procs, CacheRecache(p)
  PROVE  Changing(p)'
<1> DEFINE c == cell[loc[p].cell]
           e == [val |-> c.val, clone |-> FALSE, refs |-> [k \in Kinds |-> {}]]
<1>0. pc \in [Procs -> Labels] /\ loc \in [Procs -> LocTypes] /\ exts \in Seq(ExtTypes)
  BY DEF IInv, Typed
<1>1. CASE HeapFull(p)
  <2>1. pc'[p] = "start"
    BY <1>0, <1>1 DEF HeapFull, BackOut, Goto, Set
  <2> QED
    BY <2>1, QuietChanging
<1>2. ASSUME NEW x, NEW v, NEW n, Goto(p, "cExt"),
             Local(p, [loc[p] EXCEPT !.ext = x, !.val = v, !.new = n, !.h1 = Free]),
             n => exts'[x].val = v
      PROVE  Changing(p)'
  <2>1. pc'[p] = "cExt"
    BY <1>0, <1>2 DEF Goto, Set
  <2>2. loc'[p] = [loc[p] EXCEPT !.ext = x, !.val = v, !.new = n, !.h1 = Free]
    BY <1>0, <1>2 DEF Local, Set
  <2>3. loc'[p].ext = x /\ loc'[p].val = v /\ loc'[p].new = n
    BY <1>0, <2>2 DEF LocTypes
  <2> QED
    BY <1>2, <2>1, <2>3 DEF Changing
<1>3. exts' = Append(exts, e) => exts'[Len(exts) + 1].val = c.val
  <2>1. e \in ExtTypes /\ e.val = c.val
    BY DEF CacheRecache, At, IInv, LocInv, Typed, LocTypes, CellTypes, ExtTypes, Contents
  <2> HIDE DEF e, c
  <2> QED
    BY <1>0, <2>1, AddAtEnd
<1> QED
  BY <1>1, <1>2, <1>3 DEF CacheRecache

LEMMA AssignCellChanging ==
  ASSUME IInv, ScopeInv, NEW p \in Procs, Changing(p), AssignCell(p)
  PROVE  Changing(p)'
<1> DEFINE c == cell[loc[p].cell]
<1>0. /\ pc \in [Procs -> Labels] /\ loc \in [Procs -> LocTypes] /\ pc[p] = "aLock"
      /\ loc[p] \in LocTypes /\ op[p].env \in Envs /\ op[p].kind \in {"assign", "define"}
      /\ cell \in [Envs -> CellTypes]
  BY OpFacts DEF IInv, Typed, Roles, AssignCell, At
<1>1. ASSUME ~loc[p].deep, UNCHANGED <<shared, pc, op>>,
             Local(p, [loc[p] EXCEPT !.cell = Visible(op[p].env), !.deep = TRUE])
      PROVE  Changing(p)'
  <2>1. loc'[p] = [loc[p] EXCEPT !.cell = Visible(op[p].env), !.deep = TRUE]
    BY <1>0, <1>1 DEF Local, Set
  <2>2. loc'[p].cell = Visible(op[p].env) /\ loc'[p].force = loc[p].force
    BY <1>0, <2>1 DEF LocTypes
  <2>3. cell' = cell /\ link' = link /\ pc' = pc /\ op' = op
    BY <1>1 DEF shared
  <2>4. \A e \in Envs : Visible(e)' = Visible(e)
    BY <2>3, LookupStays
  <2>5. op[p].kind # "define" /\ (loc[p].force <=> op[p].kind = "define")
    BY <1>0, <1>1 DEF Changing
  <2> QED
    BY <1>0, <2>2, <2>3, <2>4, <2>5 DEF Changing
<1>2. CASE Done(p)
  <2>1. pc'[p] = "idle"
    BY <1>0, <1>2 DEF Done, Goto, Set
  <2> QED
    BY <2>1, QuietChanging
<1>3. ASSUME c.ext # 0, UNCHANGED <<shared, op>>, Goto(p, "aExt"), NEW d,
             d = (loc[p].deep \/ exts[c.ext].refs["operator"] # {}),
             Local(p, [loc[p] EXCEPT !.ext = c.ext, !.deep = d])
      PROVE  Changing(p)'
  <2>1. pc'[p] = "aExt" /\ loc'[p] = [loc[p] EXCEPT !.ext = c.ext, !.deep = d]
    BY <1>0, <1>3 DEF Goto, Local, Set
  <2>2. loc'[p].ext = c.ext /\ loc'[p].deep = d /\ loc'[p].force = loc[p].force
    <3> HIDE DEF c
    <3> QED
      BY <1>0, <2>1 DEF LocTypes
  <2>3. cell' = cell /\ link' = link /\ exts' = exts /\ op' = op
    BY <1>3 DEF shared
  <2>4. ASSUME NEW i \in DOMAIN exts, loc'[p].ext = i
        PROVE  Target(p, i)
    <3>1. op[p].kind = "assign" => loc[p].cell = Visible(op[p].env)
      BY <1>0 DEF Changing
    <3>2. op[p].kind = "define" => loc[p].cell = op[p].env
      BY <1>0 DEF Changing
    <3>3. op[p].kind = "define" => Binds(op[p].env)
      <4> SUFFICES ASSUME op[p].kind = "define"
          PROVE  cell[op[p].env] \notin {Empty, Placeholder}
        BY DEF Binds
      <4>1. cell[op[p].env].ext # 0 /\ cell[op[p].env] \in CellTypes
        BY <1>0, <1>3, <3>2
      <4> QED
        BY <4>1, BoundCells
    <3> QED
      BY <1>0, <2>2, <2>4, <3>1, <3>2, <3>3 DEF Target
  <2>5. \A i \in DOMAIN exts : loc'[p].ext = i => Target(p, i)'
    BY <2>3, <2>4, TargetSame
  <2>6. ASSUME ~d, NEW r \in Refs, r \in Live, KindOf[r] = "operator"
        PROVE  link[r].ext # c.ext
    BY <1>3, <2>6, LinkedByKind
  <2>7. \A r \in Refs : r \in Live' => r \in Live
    BY <2>3 DEF Live
  <2>8. loc[p].force <=> op[p].kind = "define"
    BY <1>0 DEF Changing
  <2> QED
    BY <1>0, <2>1, <2>2, <2>3, <2>5, <2>6, <2>7, <2>8 DEF Changing
<1> QED
  BY <1>1, <1>2, <1>3 DEF AssignCell

\* When an assignment is made that makes a difference, the links are made again.
LEMMA AssignExtChanging ==
  ASSUME IInv, NEW p \in Procs, Changing(p), AssignExt(p)
  PROVE  Changing(p)'
<1> DEFINE i == loc[p].ext
           w == exts[i].val
           v == Assigned(p, w)
<1>0. /\ pc \in [Procs -> Labels] /\ loc \in [Procs -> LocTypes] /\ pc[p] = "aExt"
      /\ loc[p] \in LocTypes /\ i \in DOMAIN exts /\ cell' = cell /\ link' = link
      /\ exts' = [exts EXCEPT ![i].val = v]
  BY DEF IInv, Typed, LocInv, AssignExt, At
<1>1. CASE Done(p)
  <2>1. pc'[p] = "idle"
    BY <1>0, <1>1 DEF Done, Goto, Set
  <2> QED
    BY <2>1, QuietChanging
<1>2. ASSUME ~(Trap(v) /\ Trap(w)), Goto(p, "aLinks"), op' = op,
             Local(p, [loc[p] EXCEPT !.val = w, !.h1 = Handle(p, Constant)])
      PROVE  Changing(p)'
  <2>1. pc'[p] = "aLinks"
        /\ loc'[p] = [loc[p] EXCEPT !.val = w, !.h1 = Handle(p, Constant)]
    BY <1>0, <1>2 DEF Goto, Local, Set
  <2>2. loc'[p].val = w /\ loc'[p].ext = i /\ loc'[p].force = loc[p].force
    <3> HIDE DEF w
    <3> QED
      BY <1>0, <2>1 DEF LocTypes
  <2>3. (loc[p].force <=> op[p].kind = "define") /\ Target(p, i)
    BY <1>0 DEF Changing
  <2>4. Matters(p, w)
    BY <1>2, <2>3 DEF Matters, Assigned, Trap
  <2>5. DOMAIN exts' = DOMAIN exts
    <3> HIDE DEF i, v
    <3> QED
      BY <1>0, ValueFields
  <2>6. \A j : Target(p, j)' <=> Target(p, j)
    BY <1>0, <1>2, TargetSame
  <2>7. \A j \in DOMAIN exts' : loc'[p].ext = j => Target(p, j)'
    BY <2>2, <2>3, <2>6
  <2> HIDE DEF w, i, v
  <2> QED
    BY <1>2, <2>1, <2>2, <2>3, <2>4, <2>7 DEF Changing, Matters
<1> QED
  BY <1>1, <1>2 DEF AssignExt

LEMMA OwnChanging ==
  ASSUME OneAssigns \/ NothingDefined, IInv, ScopeInv, CloneInv, NEW p \in Procs,
         Step(p), Changing(p)
  PROVE  Changing(p)'
<1>0. pc \in [Procs -> Labels]
  BY DEF IInv, Typed
<1>1. CASE StartAssign(p) \/ StartCompiled(p)
  BY <1>1, StartChanging
<1>2. CASE StartRedefine(p) \/ DefineLock(p) \/ Define(p)
  BY <1>2, DefineChanging
<1>3. CASE CacheRecache(p)
  BY <1>3, CacheRecacheChanging
<1>4. CASE AssignCell(p)
  BY <1>4, AssignCellChanging
<1>5. CASE AssignExt(p)
  BY <1>5, AssignExtChanging
<1>6. CASE Begin(p) \/ WaitInterrupted(p) \/ StartCache(p) \/ CacheLock(p) \/ CacheBeaten(p)
           \/ AssignLinks(p) \/ LinksFull(p) \/ LinksInterrupted(p)
  <2>1. pc'[p] \in {"idle", "start", "cLock", "cRecache"}
    BY <1>0, <1>6 DEF Begin, WaitInterrupted, StartCache, Starts, CacheLock, CacheBeaten,
       AssignLinks, LinksFull, LinksInterrupted, HeapFull, BackOut, Done, Goto, Set
  <2> QED
    BY <2>1, QuietChanging
<1>7. CASE CacheExt(p)
  <2>1. pc'[p] \in {"idle", "start"}
    BY <1>0, <1>7 DEF CacheExt, HeapFull, BackOut, Done, Goto, Set
  <2> QED
    BY <2>1, QuietChanging
<1>8. CASE Extend(p) \/ DefineRecache(p) \/ DefineNothing(p) \/ DefineFull(p) \/ DefineExt(p)
  <2>1. pc'[p] \in {"idle", "start", "dLock", "dExt", "dDefine"}
    BY <1>0, <1>8 DEF Extend, DefineRecache, DefineNothing, DefineFull, DefineExt,
       HeapFull, BackOut, Done, Goto, Set
  <2> QED
    BY <2>1, QuietChanging
<1> QED
  BY <1>1, <1>2, <1>3, <1>4, <1>5, <1>6, <1>7, <1>8 DEF Step

-----------------------------------------------------------------------------
(* What is stale is repaired *)

\* Without a target that p is about to change, nobody repairs.
LEMMA RepairsBefore ==
  ASSUME IInv, NEW p \in Procs, Step(p), NEW i \in DOMAIN exts, Repairs(p, i),
         pc[p] \notin {"aExt", "aLinks"}
  PROVE  StartAssign(p) \/ StartCompiled(p) \/ StartRedefine(p) \/ AssignCell(p)
<1>1. pc[p] \in {"start", "aLock"} /\ Target(p, i)
  BY DEF Repairs
<1>2. ~Begin(p) /\ ~WaitInterrupted(p) /\ ~CacheLock(p) /\ ~CacheBeaten(p)
      /\ ~CacheRecache(p) /\ ~CacheExt(p) /\ ~AssignExt(p) /\ ~AssignLinks(p)
      /\ ~LinksFull(p) /\ ~LinksInterrupted(p) /\ ~DefineLock(p) /\ ~DefineRecache(p)
      /\ ~DefineNothing(p) /\ ~DefineFull(p) /\ ~DefineExt(p) /\ ~Define(p)
  BY <1>1 DEF Begin, WaitInterrupted, CacheLock, CacheBeaten, CacheRecache, CacheExt,
     AssignExt, AssignLinks, LinksFull, LinksInterrupted, DefineLock, DefineRecache,
     DefineNothing, DefineFull, DefineExt, Define, At
<1>3. ~StartCache(p)
  BY <1>1 DEF StartCache, Starts, Target
<1>4. ~Extend(p)
  BY <1>1 DEF Extend, Target
<1> QED
  BY <1>2, <1>3, <1>4 DEF Step

\* A call on its way to its target still repairs.
LEMMA RepairGoesOn ==
  ASSUME IInv, NEW p \in Procs, Step(p), Changing(p), NEW i \in DOMAIN exts, Repairs(p, i),
         pc[p] \notin {"aExt", "aLinks"}
  PROVE  Repairs(p, i)'
<1>0. /\ pc \in [Procs -> Labels] /\ pc[p] \in {"start", "aLock"} /\ exts \in Seq(ExtTypes)
      /\ Target(p, i) /\ Matters(p, exts[i].val) /\ i # 0
  BY DEF Repairs, IInv, Typed
<1>1. ASSUME UNCHANGED <<shared, op>>, pc'[p] \in {"aLock", "aExt"}
      PROVE  Repairs(p, i)'
  <2>1. cell' = cell /\ link' = link /\ exts' = exts /\ op' = op
    BY <1>1 DEF shared
  <2>2. Target(p, i)'
    BY <1>0, <2>1, TargetSame
  <2>3. Matters(p, exts[i].val)'
    BY <1>0, <2>1 DEF Matters
  <2> QED
    BY <1>1, <2>2, <2>3 DEF Repairs
<1>2. CASE StartAssign(p) \/ StartCompiled(p) \/ StartRedefine(p)
  <2>1. UNCHANGED <<shared, op>> /\ pc'[p] \in {"aLock", "aExt"}
    BY <1>0, <1>2 DEF StartAssign, StartCompiled, StartRedefine, Starts, Redefine, Goto, Set
  <2> QED
    BY <1>1, <2>1
<1>3. CASE AssignCell(p)
  <2>1. pc[p] = "aLock" /\ op[p].kind \in {"assign", "define"}
    BY <1>3 DEF AssignCell, At, IInv, Roles
  <2>2. cell[loc[p].cell].ext = i
    BY <1>0, <2>1 DEF Target, Changing
  <2>3. UNCHANGED <<shared, op>> /\ pc'[p] \in {"aLock", "aExt"}
    BY <1>0, <1>3, <2>1, <2>2 DEF AssignCell, Goto, Set
  <2> QED
    BY <1>1, <2>3
<1> QED
  BY <1>2, <1>3, RepairsBefore

\* Only links of the extension that p changes are stale.
LEMMA StaleHere ==
  ASSUME ChangesAlone, IInv, CurrentInv, NEW p \in Procs, pc[p] \in {"aExt", "aLinks"},
         NEW r \in Refs, Stale(r)
  PROVE  link[r].ext = loc[p].ext /\ Repairs(p, loc[p].ext)
<1>1. link[r].ext \in DOMAIN exts
  BY LinkedByKind DEF Stale
<1>2. PICK c \in Procs : Repairs(c, link[r].ext)
  BY <1>1 DEF CurrentInv, StaleInv
<1>3. c = p
  BY <1>2, WhoChanges, OneAtATime DEF Changes
<1>4. loc[p].ext \in DOMAIN exts /\ Changing(p)
  BY DEF CurrentInv, IInv, LocInv
<1>5. pc[p] = "aExt" => Target(p, link[r].ext) /\ Target(p, loc[p].ext)
  BY <1>2, <1>3, <1>4 DEF Repairs, Changing
<1>6. pc[p] = "aLinks" => link[r].ext = loc[p].ext
  BY <1>2, <1>3 DEF Repairs
<1>7. \A i, j : Target(p, i) /\ Target(p, j) => i = j
  BY DEF Target
<1> QED
  BY <1>2, <1>3, <1>5, <1>6, <1>7

\* An assignment that makes a difference goes on to the links.
LEMMA AssignExtRepairs ==
  ASSUME ChangesAlone, IInv, CurrentInv, NEW p \in Procs, AssignExt(p)
  PROVE  StaleInv'
<1> DEFINE i == loc[p].ext
           w == exts[i].val
           v == Assigned(p, w)
<1>0. /\ pc \in [Procs -> Labels] /\ loc \in [Procs -> LocTypes] /\ pc[p] = "aExt"
      /\ loc[p] \in LocTypes /\ i \in DOMAIN exts /\ link' = link
      /\ exts' = [exts EXCEPT ![i].val = v] /\ Changing(p)
  BY DEF IInv, Typed, LocInv, AssignExt, At, CurrentInv
<1>1. /\ DOMAIN exts' = DOMAIN exts
      /\ \A j \in DOMAIN exts : exts'[j].val = IF j = i THEN v ELSE exts[j].val
  <2> HIDE DEF i, v
  <2> QED
    BY <1>0, ValueFields
<1> SUFFICES ASSUME NEW r \in Refs, Stale(r)', NEW j, j = i
    PROVE  link[r].ext = j /\ Repairs(p, j)'
  <2> HIDE DEF i, w, v
  <2> QED
    BY <1>0 DEF StaleInv
<1>2. r \in Live /\ KindOf[r] = "operator" /\ link[r].ext \in DOMAIN exts
      /\ link[r] # Cached(link[r].ext, "operator", exts'[link[r].ext].val, FALSE)
  <2>1. r \in Live
    BY <1>0 DEF Stale, Live
  <2> QED
    BY <1>0, <2>1, LinkedByKind DEF Stale
<1>3. link[r].ext = i
  BY <1>0, <1>1, <1>2, StaleHere DEF Stale
<1>4. link[r] # Cached(i, "operator", v, FALSE)
  BY <1>0, <1>1, <1>2, <1>3
<1>5. CASE Goto(p, "aLinks") /\ Local(p, [loc[p] EXCEPT !.val = w, !.h1 = Handle(p, Constant)])
  <2>1. pc'[p] = "aLinks"
        /\ loc'[p] = [loc[p] EXCEPT !.val = w, !.h1 = Handle(p, Constant)]
    BY <1>0, <1>5 DEF Goto, Local, Set
  <2>2. loc'[p].ext = i
    <3> HIDE DEF w
    <3> QED
      BY <1>0, <2>1 DEF LocTypes
  <2> QED
    BY <1>3, <2>1, <2>2 DEF Repairs
<1>6. CASE Links(p) => Trap(v) /\ Trap(w)
  <2>1. Links(p)
    <3>1. r \in exts[i].refs["operator"]
      BY <1>2, <1>3, LinkedByKind
    <3>2. loc[p].deep
      BY <1>0, <1>2, <1>3 DEF Changing
    <3> QED
      BY <3>1, <3>2 DEF Links
  <2>2. Trap(v) /\ Trap(w)
    BY <1>6, <2>1
  <2>3. Cached(i, "operator", v, FALSE) = Cached(i, "operator", w, FALSE)
    <3> HIDE DEF i, v, w
    <3> QED
      BY <2>2 DEF Cached
  <2>4. Stale(r)
    BY <1>2, <1>3, <1>4, <2>3 DEF Stale
  <2>5. Target(p, i) /\ Matters(p, w)
    BY <1>0, <2>4, StaleHere DEF Repairs
  <2>6. v = op[p].val
    BY <1>0, <2>5 DEF Assigned, Matters, Changing
  <2> QED
    BY <2>2, <2>5, <2>6 DEF Matters
<1> QED
  BY <1>5, <1>6 DEF AssignExt

\* update_uuo_links makes all links again.
LEMMA AssignLinksRepairs ==
  ASSUME ChangesAlone, IInv, CurrentInv, NEW p \in Procs, AssignLinks(p)
  PROVE  StaleInv'
<1> DEFINE i == loc[p].ext
           live == Alive(exts[i].refs["operator"])
           unclone == live = {} /\ exts[i].clone
           fixed == Alive(exts[i].refs["assignment"])
<1>0. AssignLinksWrites(i, live, unclone, fixed)
  BY AssignLinksFields
<1>1. live = Alive(exts[i].refs["operator"]) /\ fixed = Alive(exts[i].refs["assignment"])
      /\ pc[p] = "aLinks" /\ i = loc[p].ext
  BY DEF AssignLinks, At
<1> HIDE DEF i, live, unclone, fixed
<1>2. /\ i \in DOMAIN exts /\ DOMAIN exts' = DOMAIN exts
      /\ \A j \in DOMAIN exts \ {i} : exts'[j] = exts[j]
      /\ exts'[i].val = exts[i].val
      /\ \A s \in Refs : link'[s] =
            IF s \in live THEN Cached(i, "operator", exts[i].val, FALSE)
            ELSE IF unclone /\ s \in fixed
            THEN Cached(i, "assignment", exts[i].val, FALSE) ELSE link[s]
  BY <1>0 DEF AssignLinksWrites
<1>3. \A s \in fixed : KindOf[s] = "assignment"
  BY <1>1, <1>2, AliveLinks DEF IInv, Kinds
<1> SUFFICES ASSUME NEW r \in Refs, Stale(r)'
    PROVE  FALSE
  BY DEF StaleInv
<1>4. r \in Live' /\ KindOf[r] = "operator"
      /\ link'[r] # Cached(link'[r].ext, "operator", exts'[link'[r].ext].val, FALSE)
  BY DEF Stale
<1>5. CASE r \in live
  <2>1. link'[r] = Cached(i, "operator", exts[i].val, FALSE)
    BY <1>2, <1>5
  <2>2. link'[r].ext = i
    BY <2>1 DEF Cached, Link
  <2> QED
    BY <1>2, <1>4, <2>1, <2>2
<1>6. CASE r \notin live
  <2>1. link'[r] = link[r]
    BY <1>2, <1>3, <1>4, <1>6
  <2>2. r \in Live
    BY <1>4, <2>1 DEF Live
  <2>3. link[r].ext # i
    BY <1>1, <1>4, <1>6, <2>2, LinkedByKind
  <2>4. Stale(r)
    BY <1>2, <1>4, <2>1, <2>2, <2>3, LinkedByKind DEF Stale
  <2> QED
    BY <1>1, <2>3, <2>4, StaleHere
<1> QED
  BY <1>5, <1>6

\* An assignment that is broken off puts the old value back, and will make the
\* links again when it is made again.
LEMMA RevertRepairs ==
  ASSUME ChangesAlone, IInv, CurrentInv, NEW p \in Procs, pc[p] = "aLinks",
         NEW done \in SUBSET Alive(exts[loc[p].ext].refs["operator"]),
         AssignReverts(p, done), BackOut(p)
  PROVE  StaleInv'
<1> DEFINE w == exts[loc[p].ext].val
<1> SUFFICES ASSUME NEW r \in Refs, Stale(r)', NEW i, i = loc[p].ext
    PROVE  link'[r].ext = i /\ Repairs(p, i)'
  BY DEF StaleInv, IInv, LocInv
<1>1. /\ i \in DOMAIN exts /\ exts' = [exts EXCEPT ![i].val = loc[p].val]
      /\ link' = [s \in Refs |-> IF s \in done
                                 THEN Cached(i, "operator", w, FALSE) ELSE link[s]]
      /\ cell' = cell /\ op' = op /\ pc \in [Procs -> Labels] /\ pc' = [pc EXCEPT ![p] = "start"]
  BY DEF AssignReverts, IInv, LocInv, Typed, BackOut, Goto, Set
<1>2. \A s \in done : KindOf[s] = "operator" /\ link[s].ext = i /\ s \in Refs
  BY <1>1, AliveLinks DEF IInv, Kinds
<1>3. \A s \in Refs : link'[s].ext = link[s].ext
  <2>1. Cached(i, "operator", w, FALSE).ext = i
    BY DEF Cached, Link
  <2> HIDE DEF w
  <2> QED
    BY <1>1, <1>2, <2>1
<1> HIDE DEF w
<1>4. /\ DOMAIN exts' = DOMAIN exts
      /\ \A j \in DOMAIN exts : exts'[j].val = IF j = i THEN loc[p].val ELSE exts[j].val
  BY <1>1, ValueFields
<1>5. link'[r].ext = i
  <2>1. CASE r \in done
    BY <1>2, <1>3, <2>1
  <2>2. CASE r \notin done
    <3>1. link'[r] = link[r]
      BY <1>1, <2>2
    <3>2. r \in Live /\ KindOf[r] = "operator"
      BY <3>1 DEF Stale, Live
    <3>3. link[r].ext # i => Stale(r)
      BY <1>4, <3>1, <3>2, LinkedByKind DEF Stale
    <3> QED
      BY <1>3, <3>3, StaleHere
  <2> QED
    BY <2>1, <2>2
<1>6. Target(p, i) /\ Matters(p, loc[p].val)
  BY <1>1 DEF CurrentInv, Changing
<1>7. Target(p, i)'
  <2>1. \A e \in Envs : Visible(e)' = Visible(e)
    <3>1. \A f \in Frames : f \in Bound' <=> f \in Bound
      BY <1>1 DEF Bound, Binds
    <3> QED
      BY <3>1, SameVisible
  <2>2. \A e \in Envs : Binds(e)' <=> Binds(e)
    BY <1>1 DEF Binds
  <2> QED
    BY <1>1, <1>3, <1>6, <2>1, <2>2 DEF Target
<1>8. Matters(p, exts[i].val)'
  BY <1>1, <1>4, <1>6 DEF Matters
<1> QED
  BY <1>1, <1>5, <1>7, <1>8 DEF Repairs

LEMMA StaleStep ==
  ASSUME ChangesAlone, IInv, ScopeInv, CurrentInv, NEW p \in Procs, Step(p)
  PROVE  StaleInv'
<1>0. Changing(p)
  BY DEF CurrentInv
<1>1. CASE pc[p] \notin {"aExt", "aLinks"}
  <2> SUFFICES ASSUME NEW r \in Refs, NEW i \in DOMAIN exts', Stale(r)', link'[r].ext = i
      PROVE  \E c \in Procs : Repairs(c, i)'
    BY DEF StaleInv
  <2>1. Stale(r) /\ link[r].ext = i
    BY <1>0, <1>1, StepCalls, StaleBefore
  <2>2. i \in DOMAIN exts
    BY <2>1, LinkedByKind DEF Stale
  <2>3. PICK c \in Procs : Repairs(c, i)
    BY <2>1, <2>2 DEF CurrentInv, StaleInv
  <2> QED
    BY <1>0, <1>1, <2>2, <2>3, RepairStays, RepairGoesOn
<1>2. CASE pc[p] \in {"aExt", "aLinks"}
  <2>1. AssignExt(p) \/ AssignLinks(p) \/ LinksFull(p) \/ LinksInterrupted(p)
    BY <1>2 DEF Step, Begin, WaitInterrupted, StartCache, Starts, CacheLock, CacheBeaten,
       CacheRecache, CacheExt, StartAssign, StartCompiled, AssignCell, StartRedefine,
       Extend, DefineLock, DefineRecache, DefineNothing, DefineFull, DefineExt, Define, At
  <2>2. CASE LinksFull(p)
    BY <2>2, RevertRepairs DEF LinksFull, HeapFull, At
  <2>3. CASE LinksInterrupted(p)
    <3>1. {} \in SUBSET Alive(exts[loc[p].ext].refs["operator"])
      OBVIOUS
    <3> QED
      BY <2>3, <3>1, RevertRepairs DEF LinksInterrupted, At
  <2> QED
    BY <2>1, <2>2, <2>3, AssignExtRepairs, AssignLinksRepairs
<1> QED
  BY <1>1, <1>2

LEMMA CurrentStep ==
  ASSUME ChangesAlone, OneAssigns \/ NothingDefined, IInv, ScopeInv, CloneInv, CurrentInv,
         NEW p \in Procs, Step(p)
  PROVE  CurrentInv'
<1>1. \A q \in Procs : Changing(q)
  BY DEF CurrentInv
<1>2. \A q \in Procs : Changing(q)'
  BY <1>1, OwnChanging, OthersChanging
<1> QED
  BY <1>2, StaleStep DEF CurrentInv

\* When nothing happens, or links are lost.
LEMMA CurrentQuiet ==
  ASSUME IInv, CurrentInv, IInv', UNCHANGED <<cell, exts, pc, op, loc>>,
         \A r \in Refs : r \in Live' => r \in Live /\ link'[r] = link[r],
         \A p \in Procs : op[p].kind = "compiled" => link'[op[p].ref] = link[op[p].ref]
  PROVE  CurrentInv'
<1>1. cell' = cell /\ exts' = exts /\ pc' = pc /\ op' = op /\ loc' = loc
  OBVIOUS
<1>2. \A f \in Frames : f \in Bound' <=> f \in Bound
  BY <1>1 DEF Bound, Binds
<1>3. \A e \in Envs : Visible(e)' = Visible(e)
  BY <1>2, SameVisible
<1>4. \A e \in Envs : Binds(e)' <=> Binds(e)
  BY <1>1 DEF Binds
<1>5. ASSUME NEW p \in Procs, NEW i, Target(p, i)
      PROVE  Target(p, i)'
  BY <1>1, <1>3, <1>4, <1>5 DEF Target
<1>6. ASSUME NEW p \in Procs
      PROVE  Changing(p)'
  <2>1. Changing(p)
    BY DEF CurrentInv
  <2> QED
    BY <1>1, <1>3, <1>5, <2>1 DEF Changing, Matters
<1>7. StaleInv'
  <2> SUFFICES ASSUME NEW r \in Refs, NEW i \in DOMAIN exts, Stale(r)', link'[r].ext = i
      PROVE  \E c \in Procs : Repairs(c, i)'
    BY <1>1 DEF StaleInv
  <2>1. Stale(r) /\ link[r].ext = i
    BY <1>1 DEF Stale
  <2>2. PICK c \in Procs : Repairs(c, i)
    BY <2>1 DEF CurrentInv, StaleInv
  <2>3. Repairs(c, i)'
    BY <1>1, <1>5, <2>2 DEF Repairs, Matters
  <2> QED
    BY <2>3
<1> QED
  BY <1>6, <1>7 DEF CurrentInv

LEMMA CurrentCollect ==
  ASSUME IInv, CurrentInv, NEW r \in Refs, Collect(r)
  PROVE  CurrentInv'
<1>1. UNCHANGED <<cell, exts, pc, op, loc>>
  BY DEF Collect, own
<1>2. \A s \in Refs : s \in Live' => s \in Live /\ link'[s] = link[s]
  BY DEF Collect, Set, Live, IInv, Typed
<1>3. ASSUME NEW p \in Procs, op[p].kind = "compiled"
      PROVE  link'[op[p].ref] = link[op[p].ref]
  <2>1. pc[p] # "idle"
    BY <1>3 DEF IInv, Roles, NoOp
  <2>2. op[p].ref \in Refs /\ op[p].ref # r
    BY <1>3, <2>1, OpFacts DEF IInv, Collect
  <2> QED
    BY <2>2 DEF Collect, Set, IInv, Typed
<1> QED
  BY <1>1, <1>2, <1>3, CollectKept, CurrentQuiet

LEMMA CurrentStutter ==
  ASSUME IInv, CurrentInv, UNCHANGED vars
  PROVE  CurrentInv'
<1>1. UNCHANGED <<cell, exts, link, pc, op, loc>>
  BY DEF vars, shared, own
<1>2. \A s \in Refs : s \in Live' => s \in Live /\ link'[s] = link[s]
  BY <1>1 DEF Live
<1> QED
  BY <1>1, <1>2, StutterKept, CurrentQuiet

LEMMA CurrentInitially == Init => CurrentInv
BY DEF Init, CurrentInv, StaleInv, Stale, Live, Changing

\* If only one processor assigns and defines, the others cache no operators, and
\* compiled code assigns in one place or nothing is defined: a link that is not
\* current has a processor that will make it again.
THEOREM CurrentInvariance ==
  ASSUME ChangesApart, ChangesAlone, OneAssigns \/ NothingDefined
  PROVE  Spec => [](IInv /\ ScopeInv /\ CloneInv /\ CurrentInv)
<1>1. Init => IInv /\ ScopeInv /\ CloneInv /\ CurrentInv
  BY InitialInvariant, ScopeInitially, ClonesInitially, CurrentInitially
<1>2. ASSUME IInv, CloneInv, UNCHANGED vars
      PROVE  CloneInv'
  BY <1>2, StutterKept, ValueClones DEF vars, shared
<1>3. IInv /\ ScopeInv /\ CloneInv /\ CurrentInv /\ [Next]_vars
         => (IInv /\ ScopeInv /\ CloneInv /\ CurrentInv)'
  <2>1. ASSUME IInv, ScopeInv, CloneInv, CurrentInv, NEW p \in Procs, Step(p)
        PROVE  (IInv /\ ScopeInv /\ CloneInv /\ CurrentInv)'
    BY <2>1, StepKept, ScopeStep, ClonesStep, CurrentStep
  <2>2. ASSUME IInv, ScopeInv, CloneInv, CurrentInv, NEW r \in Refs, Collect(r)
        PROVE  (IInv /\ ScopeInv /\ CloneInv /\ CurrentInv)'
    BY <2>2, CollectKept, ScopeCollect, ClonesCollect, CurrentCollect
  <2>3. ASSUME IInv, ScopeInv, CloneInv, CurrentInv, UNCHANGED vars
        PROVE  (IInv /\ ScopeInv /\ CloneInv /\ CurrentInv)'
    BY <1>2, <2>3, StutterKept, ScopeStutter, CurrentStutter
  <2> QED
    BY <2>1, <2>2, <2>3 DEF Next, AllDone
<1> QED
  BY <1>1, <1>3, PTL DEF Spec

\* A direct link calls the procedure that is the value of its variable, whenever
\* no assignment or definition is under way (update_uuo_links, compiler_cache,
\* compiler_recache), with full heaps and interrupts at any point.
THEOREM OperatorsAreCurrentAlways ==
  ASSUME ChangesApart, ChangesAlone, OneAssigns \/ NothingDefined
  PROVE  Spec => []OperatorsAreCurrent
<1>1. IInv /\ CurrentInv => OperatorsAreCurrent
  <2> SUFFICES ASSUME IInv, CurrentInv, \A p \in Procs : op[p].kind \in {"none", "cache"},
                      NEW r \in Refs, Stale(r)
      PROVE  FALSE
    BY DEF OperatorsAreCurrent, Stale, Live
  <2>1. link[r].ext \in DOMAIN exts
    BY LinkedByKind DEF Stale
  <2>2. PICK p \in Procs : Repairs(p, link[r].ext)
    BY <2>1 DEF CurrentInv, StaleInv
  <2> QED
    BY <2>2, WhoChanges DEF Changes
<1> QED
  BY <1>1, CurrentInvariance, PTL
=============================================================================
