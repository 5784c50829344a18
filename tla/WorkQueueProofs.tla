---------------------------- MODULE WorkQueueProofs ---------------------------
(***************************************************************************)
(* What is proved of the work queue, for every number of processors and    *)
(* tasks and any number of collections: no task is lost that is needed,    *)
(* Work_Queue_Length is exact (modulo 2^16, and exactly while there are    *)
(* fewer than 2^15 tasks), and the queue is what PriorityQueue promises.   *)
(***************************************************************************)
EXTENDS WorkQueue, TLAPS, FiniteSetTheorems, SequenceTheorems
-----------------------------------------------------------------------------
(* Where the processors are *)

\* TypeOK, but for the sizes of the integers, which the rest of the invariant
\* gives, and for what a PUT-WORK puts (PlaceInv).
Typed == /\ workLock \in BOOLEAN
         /\ workLength \in Int
         /\ chain \in Seq(Nodes)
         /\ node \in [Nodes -> [lock : BOOLEAN, prio : Int, items : Seq(Tasks)]]
         /\ pc \in [Procs -> Labels]
         /\ task \in [Procs -> Tasks \cup {NoTask}]
         /\ again \in [Procs -> Seq(Tasks)]
         /\ at \in [Procs -> Nodes \cup {NULL}]
         /\ hand \in [Procs -> SUBSET Tasks]
         /\ master \in Procs \cup {"none"}
         /\ taken \in Seq(Nodes)
         /\ drained \in Seq(Tasks \cup {NoTask})
         /\ needed \subseteq Tasks
         /\ puts \in 0 .. MaxPuts
         /\ full \in 0 .. MaxFull

\* Who has Work_Queue_Lock, who has the lock of a queue, and who looks at one.
HasWork == {"putFind", "putLockNode", "putUnlockWork", "getFind", "getCount"}
HasNode == {"putUnlockWork", "putLink", "getCount", "getPop"}
AtNode  == {"putLockNode"} \cup HasNode

\* The locks exclude.  A lock may be set that nobody has: a processor that left
\* Put_Work for the collector has left it behind.
LockInv ==
    /\ \A p \in Procs : /\ pc[p] \in HasWork => workLock
                        /\ pc[p] \in HasNode => node[at[p]].lock
    /\ \A p, q \in Procs :
          /\ pc[p] \in HasWork /\ pc[q] \in HasWork => p = q
          /\ pc[p] \in HasNode /\ pc[q] \in HasNode /\ at[p] = at[q] => p = q

PlaceAt(p) ==
    /\ task[p] # NoTask <=> pc[p] \in Putting
    /\ pc[p] \in AtNode => at[p] \in ToSet(chain)
    /\ pc[p] = "getFind" => at[p] \in ToSet(chain) \cup {NULL}
    /\ pc[p] \in {"putLockNode", "putUnlockWork", "putLink"} =>
          node[at[p]].prio = Priority(task[p])
    /\ pc[p] \in {"getCount", "getPop"} => node[at[p]].items # << >>
PlaceInv == \A p \in Procs : PlaceAt(p)

-----------------------------------------------------------------------------
(* The chain *)

\* Highest priority first, and one queue for each.
Sorted == \A i, j \in DOMAIN chain :
             i < j => node[chain[i]].prio > node[chain[j]].prio

\* While the master drains, the others wait; each queue is drained once.
DrainInv ==
    /\ \A p \in Procs : pc[p] = "drain" =>
          /\ chain = << >> /\ workLength = 0
          /\ \A q \in Procs \ {p} : pc[q] = "parked"
    /\ taken # << >> => \E p \in Procs : pc[p] = "drain"
    /\ \A i, j \in DOMAIN taken : taken[i] = taken[j] => i = j

\* A processor that walks down the chain for work has found the queues it has
\* passed empty, and nobody can put work there before it has found some.
Passed(p, n) == at[p] = NULL \/ node[n].prio > node[at[p]].prio
WalkInv == \A p \in Procs : pc[p] = "getFind" =>
    \A n \in ToSet(chain) :
        Passed(p, n) => node[n].items = << >> /\ ~node[n].lock

ChainInv == Typed /\ LockInv /\ PlaceInv /\ Sorted /\ DrainInv /\ WalkInv

-----------------------------------------------------------------------------
(* The tasks *)

\* The tasks of a queue that is linked; the others do not count.
Held(n) == IF n \in Linked THEN node[n].items ELSE << >>

InHand(t)    == \E p \in Procs : t \in hand[p]
InTask(t)    == \E p \in Procs : task[p] = t
InAgain(t)   == \E p \in Procs : t \in ToSet(again[p])
InDrained(t) == t \in ToSet(drained)
InQueue(t)   == \E n \in Nodes : t \in ToSet(Held(n))

\* A task is with processors, in the list or in queues, if anybody needs it ...
OneKind(t) ==
    \/ InHand(t) /\ ~InTask(t) /\ ~InAgain(t) /\ ~InDrained(t) /\ ~InQueue(t)
    \/ ~InHand(t) /\ InTask(t) /\ ~InAgain(t) /\ ~InDrained(t) /\ ~InQueue(t)
    \/ ~InHand(t) /\ ~InTask(t) /\ InAgain(t) /\ ~InDrained(t) /\ ~InQueue(t)
    \/ ~InHand(t) /\ ~InTask(t) /\ ~InAgain(t) /\ InDrained(t) /\ ~InQueue(t)
    \/ ~InHand(t) /\ ~InTask(t) /\ ~InAgain(t) /\ ~InDrained(t) /\ InQueue(t)
    \/ /\ ~InHand(t) /\ ~InTask(t) /\ ~InAgain(t) /\ ~InDrained(t) /\ ~InQueue(t)
       /\ t \notin needed

\* ... and at one place of these.
Once(s, t) == \A i, j \in DOMAIN s : s[i] = t /\ s[j] = t => i = j

HandOnce(t)    == \A p, q \in Procs : t \in hand[p] /\ t \in hand[q] => p = q
TaskOnce(t)    == \A p, q \in Procs : task[p] = t /\ task[q] = t => p = q
AgainOnce(t)   == /\ \A p, q \in Procs :
                        t \in ToSet(again[p]) /\ t \in ToSet(again[q]) => p = q
                  /\ \A p \in Procs : Once(again[p], t)
DrainedOnce(t) == Once(drained, t)
QueuedOnce(t)  == /\ \A m, n \in Nodes :
                        t \in ToSet(Held(m)) /\ t \in ToSet(Held(n)) => m = n
                  /\ \A n \in Nodes : Once(Held(n), t)

OnePlace(t) == /\ OneKind(t) /\ HandOnce(t) /\ TaskOnce(t) /\ AgainOnce(t)
               /\ DrainedOnce(t) /\ QueuedOnce(t)
TaskInv == \A t \in Tasks : OnePlace(t)

-----------------------------------------------------------------------------
(* The length *)

Counting  == {"putFind", "putLockNode", "putUnlockWork", "putLink", "full", "parkedFull"}

LengthInv == IsFiniteSet(Slots) /\ LengthIsExact

\* The priorities of the queues are short integers.
ShortInv == \A n \in Nodes : node[n].prio \in Shorts

\* Who has left PUT-WORK for the collector is to call it again.
AgainInv == \A p \in Procs : pc[p] \in {"full", "parkedFull"} => again[p] # << >>

IInv == ChainInv /\ TaskInv /\ LengthInv /\ ShortInv /\ AgainInv

-----------------------------------------------------------------------------
(* Short integers *)

\* A remainder is less than what it is a remainder of.
LEMMA ModRange ==
  ASSUME NEW z \in Int, NEW n \in Int, 0 < n
  PROVE  z % n \in Int /\ 0 <= z % n /\ z % n < n
OBVIOUS

\* Counting up, then taking the low 16 bits: cutting before changes nothing.
LEMMA ModCounts ==
  ASSUME NEW z \in Int
  PROVE  ((z % 65536) + 1) % 65536 = (z + 1) % 65536
OBVIOUS

\* The same counting down.
LEMMA ModCountsDown ==
  ASSUME NEW z \in Int
  PROVE  ((z % 65536) - 1) % 65536 = (z - 1) % 65536
OBVIOUS

\* What fits in 16 bits is its own remainder.
LEMMA ModSmall ==
  ASSUME NEW y \in Int, 0 <= y, y < 65536
  PROVE  y % 65536 = y
OBVIOUS

\* What a short integer is, in terms of a remainder.
LEMMA ShortIs ==
  ASSUME NEW x \in Int, NEW z \in Int, z = x + 32768
  PROVE  Short(x) = (z % 65536) - 32768
BY DEF Short

\* A short integer is one.
LEMMA ShortTypes ==
  ASSUME NEW x \in Int
  PROVE  Short(x) \in Shorts /\ Short(x) \in Int
<1>1. PICK z \in Int : z = x + 32768
  OBVIOUS
<1>2. PICK r \in Int : r = z % 65536 /\ 0 <= r /\ r < 65536
  <2>1. 65536 \in Int /\ 0 < 65536
    OBVIOUS
  <2> QED
    BY <2>1, ModRange
<1>3. Short(x) = r - 32768
  BY <1>1, <1>2, ShortIs
<1>4. r - 32768 \in -32768 .. 32767 /\ r - 32768 \in Int
  BY <1>2
<1> QED
  BY <1>3, <1>4 DEF Shorts

\* Counting with short integers gives the low bits of the count.
LEMMA ShortCounts ==
  ASSUME NEW x \in Int
  PROVE  Short(Short(x) + 1) = Short(x + 1) /\ Short(Short(x) - 1) = Short(x - 1)
<1>1. PICK z \in Int : z = x + 32768
  OBVIOUS
<1>2. z % 65536 \in Int
  BY ModRange
<1>3. PICK r \in Int : r = z % 65536
  BY <1>2
<1>4. PICK s \in Int : s = Short(x)
  BY ShortTypes
<1>5. r = s + 32768
  BY <1>1, <1>3, <1>4, ShortIs
<1>6. r + 1 = (s + 1) + 32768 /\ r - 1 = (s - 1) + 32768
  BY <1>5
<1>7. z + 1 = (x + 1) + 32768 /\ z - 1 = (x - 1) + 32768
  BY <1>1
<1>8. (r + 1) % 65536 = (z + 1) % 65536
  BY <1>3, ModCounts
<1>9. (r - 1) % 65536 = (z - 1) % 65536
  BY <1>3, ModCountsDown
<1>10. Short(s + 1) = Short(x + 1)
  <2>1. Short(s + 1) = ((r + 1) % 65536) - 32768
    BY <1>6, ShortIs
  <2>2. Short(x + 1) = ((z + 1) % 65536) - 32768
    BY <1>7, ShortIs
  <2> QED
    BY <2>1, <2>2, <1>8
<1>11. Short(s - 1) = Short(x - 1)
  <2>1. Short(s - 1) = ((r - 1) % 65536) - 32768
    BY <1>6, ShortIs
  <2>2. Short(x - 1) = ((z - 1) % 65536) - 32768
    BY <1>7, ShortIs
  <2> QED
    BY <2>1, <2>2, <1>9
<1> QED
  BY <1>4, <1>10, <1>11

\* A number that fits is not cut.
LEMMA Small ==
  ASSUME NEW x \in Nat, x < 32768
  PROVE  Short(x) = x
<1>1. PICK z \in Int : z = x + 32768 /\ 0 <= z /\ z < 65536
  OBVIOUS
<1>2. z % 65536 = z
  BY <1>1, ModSmall
<1>3. Short(x) = z - 32768
  BY <1>1, <1>2, ShortIs
<1> QED
  BY <1>1, <1>3

LEMMA PriorityIsInt ==
  ASSUME NEW t \in Tasks
  PROVE  Priority(t) \in Shorts /\ Priority(t) \in Int
<1>1. Prio[t] \in Int
  BY TasksAssumption
<1> QED
  BY <1>1, ShortTypes DEF Priority

-----------------------------------------------------------------------------
(* Sequences and least numbers *)

\* The list when its weak pairs have been broken.
LEMMA Broken ==
  ASSUME NEW s \in Seq(Tasks \cup {NoTask}), NEW kept \in SUBSET Tasks, NEW r,
         r = [i \in DOMAIN s |-> IF s[i] \in kept THEN s[i] ELSE NoTask]
  PROVE  /\ r \in Seq(Tasks \cup {NoTask}) /\ DOMAIN r = DOMAIN s
         /\ \A i \in DOMAIN s : r[i] = IF s[i] \in kept THEN s[i] ELSE NoTask
<1>1. DOMAIN s = 1 .. Len(s) /\ Len(s) \in Nat
  OBVIOUS
<1>2. r \in [1 .. Len(s) -> Tasks \cup {NoTask}]
  BY <1>1
<1> QED
  BY <1>1, <1>2

\* Every set of natural numbers has a least one.
LEMMA LeastNumber ==
  ASSUME NEW S \in SUBSET Nat, S # {}
  PROVE  \E n \in S : \A m \in S : n <= m
<1>1. PICK n \in S : \A m \in S : <<m, n>> \notin OpToRel(<, Nat)
  BY WFMin, NatLessThanWellFounded, Zenon
<1>2. \A m \in S : ~(m < n)
  BY <1>1, Zenon DEF OpToRel
<1> QED
  BY <1>2

LEMMA Joined ==
  ASSUME NEW S, NEW a \in Seq(S), NEW b \in Seq(S), NEW e \in S
  PROVE  /\ a \o <<e>> \o b \in Seq(S)
         /\ Len(a \o <<e>> \o b) = Len(a) + 1 + Len(b)
         /\ \A j \in 1 .. Len(a) + 1 + Len(b) : (a \o <<e>> \o b)[j] =
               IF j <= Len(a) THEN a[j]
               ELSE IF j = Len(a) + 1 THEN e ELSE b[j - Len(a) - 1]
<1>0. a \o <<e>> \in Seq(S)
  OBVIOUS
<1>1. PICK c \in Seq(S) : c = a \o <<e>>
  BY <1>0
<1>2. Len(c) = Len(a) + 1
  BY <1>1
<1>3. \A j \in 1 .. Len(c) : c[j] = IF j <= Len(a) THEN a[j] ELSE e
  BY <1>1
<1>4. c \o b \in Seq(S)
  OBVIOUS
<1>5. Len(c \o b) = Len(c) + Len(b)
  OBVIOUS
<1>6. \A j \in 1 .. Len(c) + Len(b) :
         (c \o b)[j] = IF j <= Len(c) THEN c[j] ELSE b[j - Len(c)]
  OBVIOUS
<1>7. Len(a) \in Nat /\ Len(b) \in Nat
  OBVIOUS
<1>8. \A j \in 1 .. Len(a) + 1 + Len(b) : (c \o b)[j] =
         IF j <= Len(a) THEN a[j]
         ELSE IF j = Len(a) + 1 THEN e ELSE b[j - Len(a) - 1]
  BY <1>2, <1>3, <1>6, <1>7
<1> QED
  BY <1>1, <1>2, <1>4, <1>5, <1>8

LEMMA Insertion ==
  ASSUME NEW S, NEW s \in Seq(S), NEW e \in S, NEW i \in 1 .. Len(s) + 1
  PROVE  /\ InsertAt(s, i, e) \in Seq(S)
         /\ Len(InsertAt(s, i, e)) = Len(s) + 1
         /\ \A j \in 1 .. Len(s) + 1 : InsertAt(s, i, e)[j] =
               IF j < i THEN s[j] ELSE IF j = i THEN e ELSE s[j - 1]
<1> Len(s) \in Nat
  OBVIOUS
<1>0. SubSeq(s, 1, i - 1) \in Seq(S) /\ SubSeq(s, i, Len(s)) \in Seq(S)
  OBVIOUS
<1>1. PICK a \in Seq(S) : a = SubSeq(s, 1, i - 1)
  BY <1>0
<1>2. PICK b \in Seq(S) : b = SubSeq(s, i, Len(s))
  BY <1>0
<1>3. PICK t : t = a \o <<e>> \o b
  OBVIOUS
<1>4. InsertAt(s, i, e) = t
  BY <1>1, <1>2, <1>3 DEF InsertAt
<1>5. /\ t \in Seq(S) /\ Len(t) = Len(a) + 1 + Len(b)
      /\ \A j \in 1 .. Len(a) + 1 + Len(b) : t[j] =
            IF j <= Len(a) THEN a[j]
            ELSE IF j = Len(a) + 1 THEN e ELSE b[j - Len(a) - 1]
  BY <1>3, Joined
<1>6. Len(a) = i - 1 /\ Len(b) = Len(s) + 1 - i
  BY <1>1, <1>2
<1>7. ASSUME NEW j \in 1 .. Len(s) + 1
      PROVE  t[j] = IF j < i THEN s[j] ELSE IF j = i THEN e ELSE s[j - 1]
  <2>1. /\ j \in 1 .. Len(a) + 1 + Len(b)
        /\ j <= Len(a) <=> j < i
        /\ j = Len(a) + 1 <=> j = i
        /\ j - Len(a) - 1 = j - i
    BY <1>6
  <2>2. t[j] = IF j < i THEN a[j] ELSE IF j = i THEN e ELSE b[j - i]
    BY <1>5, <2>1
  <2>3. j < i => a[j] = s[j]
    BY <1>1
  <2>4. j > i => b[j - i] = s[i + (j - i) - 1]
    BY <1>2
  <2>5. i + (j - i) - 1 = j - 1
    OBVIOUS
  <2> QED
    BY <2>2, <2>3, <2>4, <2>5
<1> QED
  BY <1>4, <1>5, <1>6, <1>7

LEMMA InsertedSet ==
  ASSUME NEW S, NEW s \in Seq(S), NEW e \in S, NEW i \in 1 .. Len(s) + 1
  PROVE  ToSet(InsertAt(s, i, e)) = ToSet(s) \cup {e}
<1> Len(s) \in Nat
  OBVIOUS
<1>1. PICK t \in Seq(S) : /\ t = InsertAt(s, i, e) /\ Len(t) = Len(s) + 1
                          /\ \A j \in 1 .. Len(s) + 1 : t[j] =
                                IF j < i THEN s[j] ELSE IF j = i THEN e ELSE s[j - 1]
  BY Insertion
<1>2. ToSet(t) \subseteq ToSet(s) \cup {e}
  <2>1. ASSUME NEW j \in 1 .. Len(s) + 1
        PROVE  t[j] \in ToSet(s) \cup {e}
    <3>1. CASE j < i
      <4>1. t[j] = s[j] /\ j \in 1 .. Len(s)
        BY <1>1, <3>1
      <4> QED
        BY <4>1 DEF ToSet
    <3>2. CASE j > i
      <4>1. t[j] = s[j - 1] /\ j - 1 \in 1 .. Len(s)
        BY <1>1, <3>2
      <4> QED
        BY <4>1 DEF ToSet
    <3>3. CASE j = i
      BY <1>1, <3>3
    <3> QED
      BY <3>1, <3>2, <3>3
  <2> QED
    BY <1>1, <2>1 DEF ToSet
<1>3. ASSUME NEW j \in 1 .. Len(s)
      PROVE  s[j] \in ToSet(t)
  <2>1. CASE j < i
    <3>1. t[j] = s[j] /\ j \in 1 .. Len(t)
      BY <1>1, <2>1
    <3> QED
      BY <3>1 DEF ToSet
  <2>2. CASE j >= i
    <3>1. t[j + 1] = s[j] /\ j + 1 \in 1 .. Len(t)
      BY <1>1, <2>2
    <3> QED
      BY <3>1 DEF ToSet
  <2> QED
    BY <2>1, <2>2
<1>4. e \in ToSet(t)
  <2>1. t[i] = e /\ i \in 1 .. Len(t)
    BY <1>1
  <2> QED
    BY <2>1 DEF ToSet
<1>5. ToSet(s) \subseteq ToSet(t)
  BY <1>3 DEF ToSet
<1> QED
  BY <1>1, <1>2, <1>4, <1>5

\* A queue of priority pr is put, or found, at the first place where the chain
\* does not hold a higher one.
LEMMA StopsThere ==
  ASSUME chain \in Seq(Nodes), NEW pr \in Int,
         \A n \in Nodes : node[n].prio \in Int
  PROVE  LET i == StopsAt(pr) IN
         /\ i \in 1 .. Len(chain) + 1
         /\ i <= Len(chain) => node[chain[i]].prio <= pr
         /\ \A j \in 1 .. i - 1 : node[chain[j]].prio > pr
<1> DEFINE stops == {i \in 1 .. Len(chain) + 1 :
                        i <= Len(chain) => node[chain[i]].prio <= pr}
<1>1. Len(chain) + 1 \in stops /\ stops \in SUBSET Nat
  OBVIOUS
<1>2. PICK i \in stops : \A j \in stops : i <= j
  BY <1>1, LeastNumber
<1>3. \A j \in 1 .. i - 1 : node[chain[j]].prio > pr
  BY <1>2
<1> QED
  BY <1>2, <1>3 DEF StopsAt

-----------------------------------------------------------------------------
(* The steps of a processor *)

StepOf(p) == \/ \E t \in Tasks : StartPut(p, t)
             \/ RestartPut(p) \/ PutLockWork(p) \/ PutFindExisting(p)
             \/ PutFindNew(p) \/ PutFindFull(p) \/ PutLockNode(p)
             \/ PutUnlockWork(p) \/ PutLink(p) \/ PutLinkFull(p)
             \/ StartGet(p) \/ GetLockWork(p) \/ GetNothing(p) \/ GetSkip(p)
             \/ GetChoose(p) \/ GetCount(p) \/ GetPop(p)
             \/ Park(p) \/ Drain(p) \/ DrainOne(p) \/ DrainEnd(p) \/ RestoreOne(p)
             \/ RestoreNone(p) \/ PutError(p) \/ \E t \in Tasks : Forget(p, t)

LEMMA NextSteps == Next <=> \E p \in Procs : StepOf(p)
BY DEF Next, Proceed, Acquire, StepOf

\* A processor that is neither parked nor drains runs while nobody drains.
LEMMA NoDrain ==
  ASSUME DrainInv, NEW p \in Procs, pc[p] \notin {"parked", "drain"}
  PROVE  taken = << >> /\ \A q \in Procs : pc[q] # "drain"
BY DEF DrainInv

LEMMA Prepended ==
  ASSUME NEW S, NEW s \in Seq(S), NEW e \in S
  PROVE  /\ <<e>> \o s \in Seq(S) /\ Len(<<e>> \o s) = Len(s) + 1
         /\ (<<e>> \o s)[1] = e
         /\ \A i \in 1 .. Len(s) : (<<e>> \o s)[i + 1] = s[i]
OBVIOUS

\* The next queue of the chain.
LEMMA NextIn ==
  ASSUME chain \in Seq(Nodes), NEW i \in 1 .. Len(chain),
         \A j \in 1 .. Len(chain) : chain[j] = chain[i] => j = i
  PROVE  NextNode(chain[i]) = IF i = Len(chain) THEN NULL ELSE chain[i + 1]
BY DEF NextNode

LEMMA Injective ==
  ASSUME Typed, Sorted
  PROVE  \A i, j \in DOMAIN chain : chain[i] = chain[j] => i = j
<1>1. \A n \in Nodes : node[n].prio \in Int
  BY DEF Typed
<1>2. chain \in Seq(Nodes) /\ DOMAIN chain = 1 .. Len(chain)
  BY DEF Typed
<1> TAKE i, j \in DOMAIN chain
<1>3. i \in Nat /\ j \in Nat /\ chain[i] \in Nodes /\ chain[j] \in Nodes
  BY <1>2
<1>4. /\ i < j => node[chain[i]].prio > node[chain[j]].prio
      /\ j < i => node[chain[j]].prio > node[chain[i]].prio
  BY DEF Sorted
<1> QED
  BY <1>1, <1>3, <1>4

LEMMA SkipTo ==
  ASSUME Typed, Sorted, NEW n \in ToSet(chain)
  PROVE  \E i \in 1 .. Len(chain) :
            /\ n = chain[i]
            /\ NextNode(n) = IF i = Len(chain) THEN NULL ELSE chain[i + 1]
<1>1. chain \in Seq(Nodes) /\ DOMAIN chain = 1 .. Len(chain)
  BY DEF Typed
<1>2. PICK i \in 1 .. Len(chain) : n = chain[i]
  BY <1>1 DEF ToSet
<1>3. \A j \in 1 .. Len(chain) : chain[j] = chain[i] => j = i
  BY <1>1, Injective
<1> QED
  BY <1>1, <1>2, <1>3, NextIn

\* Where Find_Right_Queue stops.
LEMMA StopsIn ==
  ASSUME Typed, NEW pr \in Int
  PROVE  /\ StopsAt(pr) \in 1 .. Len(chain) + 1
         /\ StopsAt(pr) <= Len(chain) => node[chain[StopsAt(pr)]].prio <= pr
         /\ \A j \in 1 .. StopsAt(pr) - 1 : node[chain[j]].prio > pr
<1>1. chain \in Seq(Nodes) /\ \A n \in Nodes : node[n].prio \in Int
  BY DEF Typed
<1> QED
  BY <1>1, StopsThere

\* What linking and unlinking an item does to a queue.
LEMMA ItemsChange ==
  ASSUME Typed, NEW n \in Nodes, NEW s \in Seq(Tasks),
         node' = [node EXCEPT ![n].items = s, ![n].lock = FALSE]
  PROVE  /\ node' \in [Nodes -> [lock : BOOLEAN, prio : Int, items : Seq(Tasks)]]
         /\ node'[n] = [lock |-> FALSE, prio |-> node[n].prio, items |-> s]
         /\ \A m \in Nodes \ {n} : node'[m] = node[m]
<1>1. node[n] \in [lock : BOOLEAN, prio : Int, items : Seq(Tasks)]
  BY DEF Typed
<1>2. \A m \in Nodes \ {n} : node'[m] = node[m]
  BY DEF Typed
<1>3. node'[n] = [[node[n] EXCEPT !.items = s] EXCEPT !.lock = FALSE]
  BY DEF Typed
<1>4. node'[n] = [lock |-> FALSE, prio |-> node[n].prio, items |-> s]
  BY <1>1, <1>3
<1>5. node'[n] \in [lock : BOOLEAN, prio : Int, items : Seq(Tasks)]
  <2>1. PICK pr \in Int : pr = node[n].prio
    BY <1>1
  <2>2. [lock |-> FALSE, prio |-> pr, items |-> s] \in
           [lock : BOOLEAN, prio : Int, items : Seq(Tasks)]
    OBVIOUS
  <2> QED
    BY <1>4, <2>1, <2>2
<1>6. node' = [m \in Nodes |-> node'[m]]
  BY DEF Typed
<1>7. \A m \in Nodes : node'[m] \in [lock : BOOLEAN, prio : Int, items : Seq(Tasks)]
  BY <1>2, <1>5 DEF Typed
<1>8. node' \in [Nodes -> [lock : BOOLEAN, prio : Int, items : Seq(Tasks)]]
  BY <1>6, <1>7
<1> QED
  BY <1>2, <1>4, <1>8

LEMMA LockTyped ==
  ASSUME Typed, NEW n \in Nodes, NEW b \in BOOLEAN,
         node' = [node EXCEPT ![n].lock = b]
  PROVE  node' \in [Nodes -> [lock : BOOLEAN, prio : Int, items : Seq(Tasks)]]
<1>1. node[n] \in [lock : BOOLEAN, prio : Int, items : Seq(Tasks)]
  BY DEF Typed
<1>2. PICK r \in [lock : BOOLEAN, prio : Int, items : Seq(Tasks)] :
         r = [node[n] EXCEPT !.lock = b]
  BY <1>1
<1>3. node' = [node EXCEPT ![n] = r]
  BY <1>2 DEF Typed
<1> QED
  BY <1>3 DEF Typed

\* The types.
LEMMA StepTypes ==
  ASSUME Typed, PlaceInv, Sorted, DrainInv, NEW p \in Procs, StepOf(p)
  PROVE  Typed'
<1> USE TasksAssumption, BoundsAssumption DEF Typed, Labels, shared, local, gc,
           Goto, Step, PlaceInv, PlaceAt
<1>1. CASE \E t \in Tasks : StartPut(p, t)
  BY <1>1 DEF StartPut, Running
<1>2. CASE RestartPut(p)
  BY <1>2 DEF RestartPut, Running
<1>3. CASE PutLockWork(p)
  <2>1. workLength' \in Int
    BY <1>3, ShortTypes DEF PutLockWork
  <2> QED
    BY <1>3, <2>1 DEF PutLockWork
<1>4. CASE PutFindExisting(p)
  <2>1. task[p] \in Tasks /\ Priority(task[p]) \in Int
    BY <1>4, PriorityIsInt DEF PutFindExisting, Putting
  <2>2. StopsAt(Priority(task[p])) \in 1 .. Len(chain)
    BY <1>4, <2>1, StopsIn DEF PutFindExisting, Existing
  <2>3. chain[StopsAt(Priority(task[p]))] \in Nodes
    BY <2>2
  <2> QED
    BY <1>4, <2>3 DEF PutFindExisting
<1>5. CASE PutFindNew(p)
  <2>1. task[p] \in Tasks /\ Priority(task[p]) \in Int
    BY <1>5, PriorityIsInt DEF PutFindNew, Putting
  <2>2. StopsAt(Priority(task[p])) \in 1 .. Len(chain) + 1
    BY <2>1, StopsIn
  <2>3. PICK n \in Nodes \ ToSet(chain) :
           /\ node' = [node EXCEPT ![n] = [NewNode EXCEPT !.prio = Priority(task[p])]]
           /\ chain' = InsertAt(chain, StopsAt(Priority(task[p])), n)
           /\ at' = [at EXCEPT ![p] = n]
    BY <1>5 DEF PutFindNew
  <2>4. chain' \in Seq(Nodes)
    BY <2>2, <2>3, Insertion
  <2>5. [NewNode EXCEPT !.prio = Priority(task[p])] \in
           [lock : BOOLEAN, prio : Int, items : Seq(Tasks)]
    <3>1. << >> \in Seq(Tasks)
      OBVIOUS
    <3> QED
      BY <2>1, <3>1 DEF NewNode
  <2> QED
    BY <1>5, <2>3, <2>4, <2>5 DEF PutFindNew
<1>6. CASE PutFindFull(p)
  <2>1. /\ task[p] \in Tasks
        /\ full < MaxFull /\ full' = full + 1 /\ pc' = [pc EXCEPT ![p] = "full"]
        /\ again' = [again EXCEPT ![p] = <<task[p]>> \o @]
        /\ task' = [task EXCEPT ![p] = NoTask]
        /\ at' = [at EXCEPT ![p] = NULL]
        /\ master' = IF master = "none" THEN p ELSE master
        /\ UNCHANGED <<shared, hand, taken, drained, needed, puts>>
    <3>1. task[p] \in Tasks
      BY <1>6 DEF PutFindFull, Putting
    <3> QED
      BY <1>6, <3>1 DEF PutFindFull, HeapFull
  <2>2. <<task[p]>> \o again[p] \in Seq(Tasks)
    BY <2>1, Prepended
  <2>3. again' \in [Procs -> Seq(Tasks)]
    <3>1. again[p] \in Seq(Tasks)
      OBVIOUS
    <3> QED
      BY <2>1, <2>2, <3>1
  <2> QED
    BY <2>1, <2>3
<1>7. CASE PutLockNode(p)
  <2>1. at[p] \in Nodes
    BY <1>7 DEF PutLockNode, AtNode, ToSet
  <2>2. node' \in [Nodes -> [lock : BOOLEAN, prio : Int, items : Seq(Tasks)]]
    BY <1>7, <2>1, LockTyped DEF PutLockNode
  <2> QED
    BY <1>7, <2>2 DEF PutLockNode
<1>8. CASE PutUnlockWork(p)
  BY <1>8 DEF PutUnlockWork
<1>9. CASE PutLink(p)
  <2>1. task[p] \in Tasks /\ at[p] \in Nodes
    BY <1>9 DEF PutLink, Putting, AtNode, HasNode, ToSet
  <2>2. Append(node[at[p]].items, task[p]) \in Seq(Tasks)
    BY <2>1
  <2>3. node' \in [Nodes -> [lock : BOOLEAN, prio : Int, items : Seq(Tasks)]]
    BY <1>9, <2>1, <2>2, ItemsChange DEF PutLink
  <2> QED
    BY <1>9, <2>3 DEF PutLink
<1>10. CASE PutLinkFull(p)
  <2>1. /\ task[p] \in Tasks
        /\ full < MaxFull /\ full' = full + 1 /\ pc' = [pc EXCEPT ![p] = "full"]
        /\ again' = [again EXCEPT ![p] = <<task[p]>> \o @]
        /\ task' = [task EXCEPT ![p] = NoTask]
        /\ at' = [at EXCEPT ![p] = NULL]
        /\ master' = IF master = "none" THEN p ELSE master
        /\ UNCHANGED <<shared, hand, taken, drained, needed, puts>>
    <3>1. task[p] \in Tasks
      BY <1>10 DEF PutLinkFull, Putting
    <3> QED
      BY <1>10, <3>1 DEF PutLinkFull, HeapFull
  <2>2. <<task[p]>> \o again[p] \in Seq(Tasks)
    BY <2>1, Prepended
  <2>3. again' \in [Procs -> Seq(Tasks)]
    <3>1. again[p] \in Seq(Tasks)
      OBVIOUS
    <3> QED
      BY <2>1, <2>2, <3>1
  <2> QED
    BY <2>1, <2>3
<1>11. CASE StartGet(p)
  BY <1>11 DEF StartGet, Running
<1>12. CASE GetLockWork(p)
  BY <1>12 DEF GetLockWork
<1>13. CASE GetNothing(p)
  BY <1>13 DEF GetNothing
<1>14. CASE GetSkip(p)
  <2>1. at[p] \in ToSet(chain)
    BY <1>14 DEF GetSkip
  <2>2. NextNode(at[p]) \in Nodes \cup {NULL}
    <3>1. \A i \in 1 .. Len(chain) : chain[i] \in Nodes
      OBVIOUS
    <3>2. PICK i \in 1 .. Len(chain) :
             NextNode(at[p]) = IF i = Len(chain) THEN NULL ELSE chain[i + 1]
      BY <2>1, SkipTo
    <3> QED
      BY <3>1, <3>2
  <2> QED
    BY <1>14, <2>2 DEF GetSkip
<1>15. CASE GetChoose(p)
  <2>1. at[p] \in Nodes
    BY <1>15 DEF GetChoose, NULL
  <2>2. node' \in [Nodes -> [lock : BOOLEAN, prio : Int, items : Seq(Tasks)]]
    BY <1>15, <2>1, LockTyped DEF GetChoose
  <2> QED
    BY <1>15, <2>2 DEF GetChoose
<1>16. CASE GetCount(p)
  <2>1. workLength' \in Int
    BY <1>16, ShortTypes DEF GetCount
  <2> QED
    BY <1>16, <2>1 DEF GetCount
<1>17. CASE GetPop(p)
  <2>1. at[p] \in Nodes /\ node[at[p]].items # << >>
    BY <1>17 DEF GetPop, AtNode, HasNode, ToSet
  <2>2. Head(node[at[p]].items) \in Tasks /\ Tail(node[at[p]].items) \in Seq(Tasks)
    BY <2>1
  <2>3. node' \in [Nodes -> [lock : BOOLEAN, prio : Int, items : Seq(Tasks)]]
    BY <1>17, <2>1, <2>2, ItemsChange DEF GetPop
  <2>4. hand' \in [Procs -> SUBSET Tasks]
    BY <1>17, <2>2 DEF GetPop
  <2> QED
    BY <1>17, <2>3, <2>4 DEF GetPop
<1>18. CASE Park(p)
  BY <1>18 DEF Park
<1>19. CASE Drain(p)
  BY <1>19 DEF Drain
<1>20. CASE DrainOne(p)
  <2>1. Head(taken) \in Nodes /\ Tail(taken) \in Seq(Nodes)
    BY <1>20 DEF DrainOne
  <2>2. node[Head(taken)].items \in Seq(Tasks \cup {NoTask})
    BY <2>1
  <2>3. node[Head(taken)].items \o drained \in Seq(Tasks \cup {NoTask})
    BY <2>2
  <2> QED
    BY <1>20, <2>1, <2>3 DEF DrainOne
<1>21. CASE DrainEnd(p)
  <2>1. drained' \in Seq(Tasks \cup {NoTask})
    BY <1>21, Broken DEF DrainEnd
  <2> QED
    BY <1>21, <2>1 DEF DrainEnd
<1>22. CASE RestoreOne(p) \/ RestoreNone(p)
  <2>1. /\ Head(drained) \in Tasks \cup {NoTask}
        /\ Tail(drained) \in Seq(Tasks \cup {NoTask})
    BY <1>22 DEF RestoreOne, RestoreNone, NextUnit
  <2>2. /\ drained' = Tail(drained) /\ master' \in {"none", p}
        /\ UNCHANGED <<shared, again, at, hand, taken, needed, puts, full>>
    BY <1>22 DEF RestoreOne, RestoreNone, NextUnit
  <2>3. \/ pc' = [pc EXCEPT ![p] = "putLockWork"] /\ task' = [task EXCEPT ![p] = Head(drained)]
        \/ UNCHANGED <<pc, task>>
    BY <1>22 DEF RestoreOne, RestoreNone
  <2>4. pc' \in [Procs -> Labels] /\ task' \in [Procs -> Tasks \cup {NoTask}]
    BY <2>1, <2>3
  <2> QED
    BY <2>1, <2>2, <2>4
<1>23. CASE PutError(p)
  <2>1. hand' \in [Procs -> SUBSET Tasks]
    BY <1>23 DEF PutError, Putting
  <2> QED
    BY <1>23, <2>1 DEF PutError
<1>24. CASE \E t \in Tasks : Forget(p, t)
  BY <1>24 DEF Forget, Running
<1> QED
  BY <1>1, <1>2, <1>3, <1>4, <1>5, <1>6, <1>7, <1>8, <1>9, <1>10, <1>11,
     <1>12, <1>13, <1>14, <1>15, <1>16, <1>17, <1>18, <1>19, <1>20, <1>21,
     <1>22, <1>23, <1>24 DEF StepOf

-----------------------------------------------------------------------------
(* What the steps that write into queues do *)

LEMMA LockChange ==
  ASSUME Typed, NEW n \in Nodes, NEW b \in BOOLEAN,
         node' = [node EXCEPT ![n].lock = b]
  PROVE  /\ node'[n].lock = b
         /\ node'[n].prio = node[n].prio /\ node'[n].items = node[n].items
         /\ \A m \in Nodes \ {n} : node'[m] = node[m]
<1>1. node[n] \in [lock : BOOLEAN, prio : Int, items : Seq(Tasks)]
  BY DEF Typed
<1>2. \A m \in Nodes \ {n} : node'[m] = node[m]
  BY DEF Typed
<1>3. node'[n] = [node[n] EXCEPT !.lock = b]
  BY DEF Typed
<1> QED
  BY <1>1, <1>2, <1>3

NodeLocked(p) ==
    /\ pc[p] = "putLockNode" /\ pc' = [pc EXCEPT ![p] = "putUnlockWork"]
    /\ at[p] \in ToSet(chain) /\ at[p] \in Nodes /\ ~node[at[p]].lock
    /\ node'[at[p]].lock /\ node'[at[p]].prio = node[at[p]].prio
    /\ node'[at[p]].items = node[at[p]].items
    /\ \A m \in Nodes \ {at[p]} : node'[m] = node[m]
    /\ UNCHANGED <<workLock, workLength, chain, local, gc, puts, full>>

LEMMA LockNodeDoes ==
  ASSUME Typed, PlaceInv, NEW p \in Procs, PutLockNode(p)
  PROVE  NodeLocked(p)
<1>1. at[p] \in ToSet(chain) /\ at[p] \in Nodes
  BY DEF PutLockNode, Step, PlaceInv, PlaceAt, AtNode, Typed, ToSet
<1>2. node' = [node EXCEPT ![at[p]].lock = TRUE]
  BY DEF PutLockNode
<1> QED
  BY <1>1, <1>2, LockChange DEF PutLockNode, Step, Goto, NodeLocked

Chosen(p) ==
    /\ pc[p] = "getFind" /\ pc' = [pc EXCEPT ![p] = "getCount"]
    /\ at[p] \in ToSet(chain) /\ at[p] \in Nodes /\ ~node[at[p]].lock
    /\ node[at[p]].items # << >>
    /\ node'[at[p]].lock /\ node'[at[p]].prio = node[at[p]].prio
    /\ node'[at[p]].items = node[at[p]].items
    /\ \A m \in Nodes \ {at[p]} : node'[m] = node[m]
    /\ UNCHANGED <<workLock, workLength, chain, local, gc, puts, full>>

LEMMA ChooseDoes ==
  ASSUME Typed, PlaceInv, NEW p \in Procs, GetChoose(p)
  PROVE  Chosen(p)
<1>1. at[p] \in ToSet(chain) /\ at[p] \in Nodes
  BY DEF GetChoose, Step, PlaceInv, PlaceAt, Typed, ToSet
<1>2. node' = [node EXCEPT ![at[p]].lock = TRUE]
  BY DEF GetChoose
<1> QED
  BY <1>1, <1>2, LockChange DEF GetChoose, Step, Goto, Chosen

TaskLinked(p) ==
    /\ pc[p] = "putLink" /\ pc' = [pc EXCEPT ![p] = "idle"]
    /\ at[p] \in ToSet(chain) /\ at[p] \in Nodes /\ task[p] \in Tasks
    /\ ~node'[at[p]].lock /\ node'[at[p]].prio = node[at[p]].prio
    /\ node'[at[p]].items = Append(node[at[p]].items, task[p])
    /\ \A m \in Nodes \ {at[p]} : node'[m] = node[m]
    /\ task' = [task EXCEPT ![p] = NoTask] /\ at' = [at EXCEPT ![p] = NULL]
    /\ UNCHANGED <<workLock, workLength, chain, again, hand, gc, puts, full>>

LEMMA LinkDoes ==
  ASSUME Typed, PlaceInv, NEW p \in Procs, PutLink(p)
  PROVE  TaskLinked(p)
<1>1. at[p] \in ToSet(chain) /\ at[p] \in Nodes /\ task[p] \in Tasks
  BY DEF PutLink, Step, PlaceInv, PlaceAt, AtNode, HasNode, Putting, Typed, ToSet
<1>2. Append(node[at[p]].items, task[p]) \in Seq(Tasks)
  BY <1>1 DEF Typed
<1>3. node' = [node EXCEPT ![at[p]].items = Append(@, task[p]),
                           ![at[p]].lock = FALSE]
  BY DEF PutLink
<1>4. /\ node'[at[p]] = [lock |-> FALSE, prio |-> node[at[p]].prio,
                         items |-> Append(node[at[p]].items, task[p])]
      /\ \A m \in Nodes \ {at[p]} : node'[m] = node[m]
  BY <1>1, <1>2, <1>3, ItemsChange
<1>5. /\ pc[p] = "putLink" /\ pc' = [pc EXCEPT ![p] = "idle"]
      /\ task' = [task EXCEPT ![p] = NoTask] /\ at' = [at EXCEPT ![p] = NULL]
      /\ UNCHANGED <<workLock, workLength, chain, again, hand, gc, puts, full>>
  BY DEF PutLink, Step, Goto
<1> QED
  BY <1>1, <1>4, <1>5 DEF TaskLinked

TaskPopped(p) ==
    /\ pc[p] = "getPop" /\ pc' = [pc EXCEPT ![p] = "idle"]
    /\ at[p] \in ToSet(chain) /\ at[p] \in Nodes
    /\ node[at[p]].items # << >>
    /\ ~node'[at[p]].lock /\ node'[at[p]].prio = node[at[p]].prio
    /\ node'[at[p]].items = Tail(node[at[p]].items)
    /\ \A m \in Nodes \ {at[p]} : node'[m] = node[m]
    /\ hand' = [hand EXCEPT ![p] = @ \cup {Head(node[at[p]].items)}]
    /\ at' = [at EXCEPT ![p] = NULL]
    /\ UNCHANGED <<workLock, workLength, chain, task, again, gc, puts, full>>

LEMMA PopDoes ==
  ASSUME Typed, PlaceInv, NEW p \in Procs, GetPop(p)
  PROVE  TaskPopped(p)
<1>1. at[p] \in ToSet(chain) /\ at[p] \in Nodes /\ node[at[p]].items # << >>
  BY DEF GetPop, Step, PlaceInv, PlaceAt, AtNode, HasNode, Typed, ToSet
<1>2. Tail(node[at[p]].items) \in Seq(Tasks)
  BY <1>1 DEF Typed
<1>3. node' = [node EXCEPT ![at[p]].items = Tail(@), ![at[p]].lock = FALSE]
  BY DEF GetPop
<1>4. /\ node'[at[p]] = [lock |-> FALSE, prio |-> node[at[p]].prio,
                         items |-> Tail(node[at[p]].items)]
      /\ \A m \in Nodes \ {at[p]} : node'[m] = node[m]
  BY <1>1, <1>2, <1>3, ItemsChange
<1>5. /\ pc[p] = "getPop" /\ pc' = [pc EXCEPT ![p] = "idle"]
      /\ hand' = [hand EXCEPT ![p] = @ \cup {Head(node[at[p]].items)}]
      /\ at' = [at EXCEPT ![p] = NULL]
      /\ UNCHANGED <<workLock, workLength, chain, task, again, gc, puts, full>>
  BY DEF GetPop, Step, Goto
<1> QED
  BY <1>1, <1>4, <1>5 DEF TaskPopped

QueueMade(p) ==
    \E n \in Nodes \ ToSet(chain), i \in 1 .. Len(chain) + 1 :
    /\ pc[p] = "putFind" /\ pc' = [pc EXCEPT ![p] = "putLockNode"]
    /\ task[p] \in Tasks /\ Priority(task[p]) \in Int
    /\ i <= Len(chain) => node[chain[i]].prio < Priority(task[p])
    /\ \A j \in 1 .. i - 1 : node[chain[j]].prio > Priority(task[p])
    /\ node'[n].prio = Priority(task[p]) /\ node'[n].items = << >>
    /\ ~node'[n].lock
    /\ \A m \in Nodes \ {n} : node'[m] = node[m]
    /\ chain' = InsertAt(chain, i, n) /\ ToSet(chain') = ToSet(chain) \cup {n}
    /\ at' = [at EXCEPT ![p] = n]
    /\ UNCHANGED <<workLock, workLength, task, again, hand, gc, puts, full>>

LEMMA FindNewDoes ==
  ASSUME Typed, PlaceInv, NEW p \in Procs, PutFindNew(p)
  PROVE  QueueMade(p)
<1>1. task[p] \in Tasks /\ Priority(task[p]) \in Int
  BY PriorityIsInt DEF PutFindNew, Step, PlaceInv, PlaceAt, Putting, Typed
<1>2. chain \in Seq(Nodes) /\ \A n \in Nodes : node[n].prio \in Int
  BY DEF Typed
<1>3. PICK i \in 1 .. Len(chain) + 1 :
         /\ i = StopsAt(Priority(task[p]))
         /\ i <= Len(chain) => node[chain[i]].prio <= Priority(task[p])
         /\ \A j \in 1 .. i - 1 : node[chain[j]].prio > Priority(task[p])
  BY <1>1, StopsIn
<1>4. ~(i <= Len(chain) /\ node[chain[i]].prio = Priority(task[p]))
  BY <1>3 DEF PutFindNew, Existing
<1>5. i <= Len(chain) => node[chain[i]].prio < Priority(task[p])
  <2>1. i <= Len(chain) => chain[i] \in Nodes
    BY <1>2
  <2> QED
    BY <1>1, <1>2, <1>3, <1>4, <2>1
<1>6. PICK n \in Nodes \ ToSet(chain) :
         /\ node' = [node EXCEPT ![n] = [NewNode EXCEPT !.prio = Priority(task[p])]]
         /\ chain' = InsertAt(chain, i, n)
         /\ at' = [at EXCEPT ![p] = n]
  BY <1>3 DEF PutFindNew
<1>7. PICK r : r = [NewNode EXCEPT !.prio = Priority(task[p])]
  OBVIOUS
<1>8. node'[n] = r /\ \A m \in Nodes \ {n} : node'[m] = node[m]
  BY <1>6, <1>7 DEF Typed
<1>9. ToSet(chain') = ToSet(chain) \cup {n}
  BY <1>2, <1>6, InsertedSet
<1>10. /\ pc[p] = "putFind" /\ pc' = [pc EXCEPT ![p] = "putLockNode"]
       /\ UNCHANGED <<workLock, workLength, task, again, hand, gc, puts, full>>
  BY DEF PutFindNew, Step, Goto
<1>11. r.prio = Priority(task[p]) /\ r.items = << >> /\ ~r.lock
  BY <1>7 DEF NewNode
<1> QED
  BY <1>1, <1>3, <1>5, <1>6, <1>8, <1>9, <1>10, <1>11 DEF QueueMade

PutGivenUp(p) ==
    /\ pc[p] \in {"putFind", "putLink"} /\ pc' = [pc EXCEPT ![p] = "full"]
    /\ task[p] \in Tasks /\ again' = [again EXCEPT ![p] = <<task[p]>> \o @]
    /\ task' = [task EXCEPT ![p] = NoTask] /\ at' = [at EXCEPT ![p] = NULL]
    /\ drained = << >> /\ UNCHANGED <<shared, hand, taken, drained, needed, puts>>

LEMMA FullDoes ==
  ASSUME Typed, PlaceInv, NEW p \in Procs, PutFindFull(p) \/ PutLinkFull(p)
  PROVE  PutGivenUp(p)
BY DEF PutFindFull, PutLinkFull, HeapFull, Goto, PlaceInv, PlaceAt, Putting, Typed,
       PutGivenUp

QueueFound(p) ==
    /\ pc[p] = "putFind" /\ pc' = [pc EXCEPT ![p] = "putLockNode"]
    /\ \E n \in ToSet(chain) : /\ node[n].prio = Priority(task[p])
                               /\ at' = [at EXCEPT ![p] = n]
    /\ UNCHANGED <<shared, task, again, hand, gc, puts, full>>

LEMMA ExistingDoes ==
  ASSUME Typed, PlaceInv, NEW p \in Procs, PutFindExisting(p)
  PROVE  QueueFound(p)
<1>1. task[p] \in Tasks /\ Priority(task[p]) \in Int
  BY PriorityIsInt DEF PutFindExisting, Step, PlaceInv, PlaceAt, Putting, Typed
<1>2. PICK i \in 1 .. Len(chain) : /\ i = StopsAt(Priority(task[p]))
                                  /\ node[chain[i]].prio = Priority(task[p])
  <2>1. StopsAt(Priority(task[p])) \in 1 .. Len(chain) + 1
    BY <1>1, StopsIn
  <2>2. Len(chain) \in Nat
    BY DEF Typed
  <2> QED
    BY <2>1, <2>2 DEF PutFindExisting, Existing
<1>3. chain[i] \in ToSet(chain)
  BY <1>2 DEF Typed, ToSet
<1> QED
  BY <1>2, <1>3 DEF PutFindExisting, Step, Goto, QueueFound

\* A step, with these instead of the actions.
Does(p) == \/ \E t \in Tasks : StartPut(p, t)
           \/ RestartPut(p) \/ PutLockWork(p) \/ QueueFound(p)
           \/ QueueMade(p) \/ PutGivenUp(p) \/ NodeLocked(p)
           \/ PutUnlockWork(p) \/ TaskLinked(p)
           \/ StartGet(p) \/ GetLockWork(p) \/ GetNothing(p) \/ GetSkip(p)
           \/ Chosen(p) \/ GetCount(p) \/ TaskPopped(p)
           \/ Park(p) \/ Drain(p) \/ DrainOne(p) \/ DrainEnd(p) \/ RestoreOne(p)
           \/ RestoreNone(p) \/ PutError(p) \/ \E t \in Tasks : Forget(p, t)

LEMMA StepDoes ==
  ASSUME Typed, PlaceInv, NEW p \in Procs, StepOf(p)
  PROVE  Does(p)
BY ExistingDoes, FindNewDoes, FullDoes, LockNodeDoes, LinkDoes, ChooseDoes, PopDoes
   DEF StepOf, Does

-----------------------------------------------------------------------------
(* The locks *)

LEMMA StepLock ==
  ASSUME Typed, LockInv, PlaceInv, DrainInv, NEW p \in Procs, Does(p)
  PROVE  LockInv'
<1> ToSet(chain) \subseteq Nodes
  BY DEF Typed, ToSet
<1> USE DEF Typed, LockInv, PlaceInv, PlaceAt, Labels, Putting, HasWork, HasNode, AtNode,
           shared, local, gc, Goto, Step
<1>1. CASE \E t \in Tasks : StartPut(p, t)
  BY <1>1 DEF StartPut, Running
<1>2. CASE RestartPut(p)
  BY <1>2 DEF RestartPut, Running
<1>3. CASE PutLockWork(p)
  BY <1>3 DEF PutLockWork
<1>4. CASE QueueFound(p)
  BY <1>4 DEF QueueFound
<1>5. CASE QueueMade(p)
  <2>1. PICK n \in Nodes \ ToSet(chain) :
           /\ \A m \in Nodes \ {n} : node'[m] = node[m]
           /\ at' = [at EXCEPT ![p] = n]
    BY <1>5 DEF QueueMade
  <2>2. /\ pc[p] = "putFind" /\ UNCHANGED workLock
        /\ pc' = [pc EXCEPT ![p] = "putLockNode"]
    BY <1>5 DEF QueueMade
  <2>3. \A q \in Procs \ {p} : pc[q] \in HasNode => at[q] \in Nodes \ {n}
    BY <2>1
  <2> QED
    BY <2>1, <2>2, <2>3
<1>6. CASE PutGivenUp(p)
  BY <1>6 DEF PutGivenUp
<1>7. CASE NodeLocked(p)
  <2>1. \A q \in Procs : pc[q] \in HasNode => at[q] # at[p] /\ at[q] \in Nodes
    BY <1>7 DEF NodeLocked
  <2>2. /\ UNCHANGED workLock /\ at' = at /\ node'[at[p]].lock
        /\ pc[p] \in {"putLockNode", "getFind"} /\ pc[p] \in HasWork
        /\ \A q \in Procs \ {p} : pc'[q] = pc[q]
        /\ pc'[p] \in {"putUnlockWork", "getCount"}
        /\ \A m \in Nodes \ {at[p]} : node'[m] = node[m]
    BY <1>7 DEF NodeLocked
  <2>3. \A q \in Procs : pc'[q] \in HasNode => node'[at'[q]].lock
    BY <2>1, <2>2
  <2>4. \A q \in Procs : pc'[q] \in HasWork => pc[q] \in HasWork
    BY <2>2
  <2>5. \A q, r \in Procs :
           pc'[q] \in HasNode /\ pc'[r] \in HasNode /\ at'[q] = at'[r] => q = r
    <3>1. \A q \in Procs \ {p} : pc'[q] \in HasNode => at'[q] # at'[p]
      BY <2>1, <2>2
    <3>2. \A q \in Procs \ {p} : pc'[q] = pc[q] /\ at'[q] = at[q]
      BY <2>2
    <3>3. \A q, r \in Procs : pc[q] \in HasNode /\ pc[r] \in HasNode /\ at[q] = at[r]
                                => q = r
      OBVIOUS
    <3> TAKE q, r \in Procs
    <3>4. CASE q # p /\ r # p
      BY <3>2, <3>3, <3>4
    <3>5. CASE q = p \/ r = p
      BY <3>1, <3>5
    <3> QED
      BY <3>4, <3>5
  <2> QED
    BY <2>2, <2>3, <2>4, <2>5
<1>8. CASE PutUnlockWork(p)
  BY <1>8 DEF PutUnlockWork
<1>9. CASE TaskLinked(p)
  BY <1>9 DEF TaskLinked
<1>10. CASE StartGet(p)
  BY <1>10 DEF StartGet, Running
<1>11. CASE GetLockWork(p)
  BY <1>11 DEF GetLockWork
<1>12. CASE GetNothing(p)
  BY <1>12 DEF GetNothing
<1>13. CASE GetSkip(p)
  BY <1>13 DEF GetSkip
<1>14. CASE Chosen(p)
  <2>1. \A q \in Procs : pc[q] \in HasNode => at[q] # at[p] /\ at[q] \in Nodes
    BY <1>14 DEF Chosen
  <2>2. /\ UNCHANGED workLock /\ at' = at /\ node'[at[p]].lock
        /\ pc[p] \in {"putLockNode", "getFind"} /\ pc[p] \in HasWork
        /\ \A q \in Procs \ {p} : pc'[q] = pc[q]
        /\ pc'[p] \in {"putUnlockWork", "getCount"}
        /\ \A m \in Nodes \ {at[p]} : node'[m] = node[m]
    BY <1>14 DEF Chosen
  <2>3. \A q \in Procs : pc'[q] \in HasNode => node'[at'[q]].lock
    BY <2>1, <2>2
  <2>4. \A q \in Procs : pc'[q] \in HasWork => pc[q] \in HasWork
    BY <2>2
  <2>5. \A q, r \in Procs :
           pc'[q] \in HasNode /\ pc'[r] \in HasNode /\ at'[q] = at'[r] => q = r
    <3>1. \A q \in Procs \ {p} : pc'[q] \in HasNode => at'[q] # at'[p]
      BY <2>1, <2>2
    <3>2. \A q \in Procs \ {p} : pc'[q] = pc[q] /\ at'[q] = at[q]
      BY <2>2
    <3>3. \A q, r \in Procs : pc[q] \in HasNode /\ pc[r] \in HasNode /\ at[q] = at[r]
                                => q = r
      OBVIOUS
    <3> TAKE q, r \in Procs
    <3>4. CASE q # p /\ r # p
      BY <3>2, <3>3, <3>4
    <3>5. CASE q = p \/ r = p
      BY <3>1, <3>5
    <3> QED
      BY <3>4, <3>5
  <2> QED
    BY <2>2, <2>3, <2>4, <2>5
<1>15. CASE GetCount(p)
  BY <1>15 DEF GetCount
<1>16. CASE TaskPopped(p)
  BY <1>16 DEF TaskPopped
<1>17. CASE Park(p)
  BY <1>17 DEF Park
<1>18. CASE Drain(p)
  BY <1>18 DEF Drain
<1>19. CASE DrainOne(p)
  BY <1>19 DEF DrainOne
<1>20. CASE DrainEnd(p)
  BY <1>20 DEF DrainEnd
<1>21. CASE RestoreOne(p) \/ RestoreNone(p)
  BY <1>21 DEF RestoreOne, RestoreNone, NextUnit
<1>22. CASE PutError(p)
  BY <1>22 DEF PutError
<1>23. CASE \E t \in Tasks : Forget(p, t)
  BY <1>23 DEF Forget, Running
<1> QED
  BY <1>1, <1>2, <1>3, <1>4, <1>5, <1>6, <1>7, <1>8, <1>9, <1>10, <1>11,
     <1>12, <1>13, <1>14, <1>15, <1>16, <1>17, <1>18, <1>19, <1>20, <1>21,
     <1>22, <1>23 DEF Does

LEMMA ChainFacts ==
  ASSUME Typed
  PROVE  /\ chain \in Seq(Nodes) /\ DOMAIN chain = 1 .. Len(chain) /\ Len(chain) \in Nat
         /\ \A i \in 1 .. Len(chain) : /\ chain[i] \in Nodes /\ chain[i] # NULL
                                       /\ chain[i] \in ToSet(chain)
                                       /\ node[chain[i]].prio \in Int
         /\ \A n \in ToSet(chain) : \E i \in 1 .. Len(chain) : n = chain[i]
         /\ chain # << >> => 1 \in 1 .. Len(chain) /\ Head(chain) = chain[1]
<1>1. chain \in Seq(Nodes) /\ \A n \in Nodes : node[n].prio \in Int
  BY DEF Typed
<1>2. /\ DOMAIN chain = 1 .. Len(chain) /\ Len(chain) \in Nat
      /\ \A i \in 1 .. Len(chain) : chain[i] \in Nodes
      /\ chain # << >> => 1 \in 1 .. Len(chain) /\ Head(chain) = chain[1]
  BY <1>1
<1>3. \A n \in Nodes : n # NULL
  BY DEF Nodes, NULL
<1> QED
  BY <1>1, <1>2, <1>3 DEF ToSet

LEMMA Tailed ==
  ASSUME NEW S, NEW s \in Seq(S), s # << >>
  PROVE  /\ Tail(s) \in Seq(S) /\ Len(Tail(s)) = Len(s) - 1
         /\ DOMAIN Tail(s) = 1 .. Len(s) - 1
         /\ \A i \in 1 .. Len(s) - 1 : Tail(s)[i] = s[i + 1]
OBVIOUS

LEMMA MadeSorted ==
  ASSUME Typed, Sorted, NEW p \in Procs, QueueMade(p)
  PROVE  Sorted'
<1>1. PICK n \in Nodes \ ToSet(chain), i \in 1 .. Len(chain) + 1 :
         /\ Priority(task[p]) \in Int
         /\ i <= Len(chain) => node[chain[i]].prio < Priority(task[p])
         /\ \A j \in 1 .. i - 1 : node[chain[j]].prio > Priority(task[p])
         /\ node'[n].prio = Priority(task[p])
         /\ \A m \in Nodes \ {n} : node'[m] = node[m]
         /\ chain' = InsertAt(chain, i, n)
  BY DEF QueueMade
<1>2. /\ chain' \in Seq(Nodes) /\ Len(chain') = Len(chain) + 1
      /\ \A j \in 1 .. Len(chain) + 1 : chain'[j] =
            IF j < i THEN chain[j] ELSE IF j = i THEN n ELSE chain[j - 1]
  <2>1. chain \in Seq(Nodes)
    BY ChainFacts
  <2>2. n \in Nodes /\ chain' = InsertAt(chain, i, n)
    BY <1>1
  <2>3. /\ InsertAt(chain, i, n) \in Seq(Nodes)
        /\ Len(InsertAt(chain, i, n)) = Len(chain) + 1
        /\ \A j \in 1 .. Len(chain) + 1 : InsertAt(chain, i, n)[j] =
              IF j < i THEN chain[j] ELSE IF j = i THEN n ELSE chain[j - 1]
    BY <2>1, <2>2, Insertion, SMTT(30)
  <2> QED
    BY <2>2, <2>3, Zenon
<1>3. \A j \in 1 .. Len(chain) : /\ chain[j] \in Nodes \ {n}
                                 /\ node'[chain[j]].prio = node[chain[j]].prio
                                 /\ node[chain[j]].prio \in Int
  BY <1>1, ChainFacts
<1>4. \A j, k \in 1 .. Len(chain) : j < k => node[chain[j]].prio > node[chain[k]].prio
  BY ChainFacts DEF Sorted
<1>l. Len(chain) \in Nat
  BY ChainFacts
<1>5. \A j \in 1 .. Len(chain) : /\ j < i => node[chain[j]].prio > Priority(task[p])
                                 /\ j >= i => node[chain[j]].prio < Priority(task[p])
  <2> TAKE j \in 1 .. Len(chain)
  <2>1. j < i => j \in 1 .. i - 1
    BY <1>l
  <2>2. j >= i => i \in 1 .. Len(chain) /\ (j = i \/ i < j)
    BY <1>l
  <2> QED
    BY <1>1, <1>3, <1>4, <2>1, <2>2
<1>6. ASSUME NEW j \in 1 .. Len(chain) + 1
      PROVE  \/ j < i /\ j \in 1 .. Len(chain) /\ chain'[j] = chain[j]
             \/ j = i /\ chain'[j] = n
             \/ j > i /\ j - 1 \in 1 .. Len(chain) /\ chain'[j] = chain[j - 1]
  BY <1>2, <1>l
<1>7. ASSUME NEW j \in 1 .. Len(chain) + 1, NEW k \in 1 .. Len(chain) + 1, j < k
      PROVE  node'[chain'[j]].prio > node'[chain'[k]].prio
  <2>1. CASE k < i
    BY <1>3, <1>4, <1>6, <1>7, <2>1
  <2>2. CASE k = i
    BY <1>1, <1>3, <1>5, <1>6, <1>7, <2>2
  <2>3. CASE k > i /\ j < i
    <3>1. k - 1 \in 1 .. Len(chain) /\ j \in 1 .. Len(chain) /\ j < k - 1
      BY <1>l, <2>3
    <3> QED
      <4>1. chain'[j] = chain[j] /\ chain'[k] = chain[k - 1]
        BY <1>6, <2>3
      <4> QED
        BY <1>3, <1>4, <3>1, <4>1
  <2>4. CASE k > i /\ j = i
    <3>1. k - 1 \in 1 .. Len(chain) /\ k - 1 >= i
      BY <1>l, <2>4
    <3> QED
      BY <1>1, <1>3, <1>5, <1>6, <2>4, <3>1
  <2>5. CASE k > i /\ j > i
    <3>1. /\ k - 1 \in 1 .. Len(chain) /\ j - 1 \in 1 .. Len(chain)
          /\ j - 1 < k - 1
      BY <1>l, <1>7, <2>5
    <3>2. chain'[j] = chain[j - 1] /\ chain'[k] = chain[k - 1]
      BY <1>6, <2>5
    <3> QED
      BY <1>3, <1>4, <3>1, <3>2
  <2> QED
    BY <2>1, <2>2, <2>3, <2>4, <2>5
<1> QED
  BY <1>2, <1>7 DEF Sorted

\* Nobody has passed a queue of the chain when he begins to look for work, ...
LEMMA StartWalk ==
  ASSUME Typed, Sorted, NEW p \in Procs, GetLockWork(p), NEW n \in ToSet(chain)
  PROVE  ~Passed(p, n)'
<1>1. PICK i \in 1 .. Len(chain) : n = chain[i]
  BY ChainFacts
<1>2. 1 \in 1 .. Len(chain) /\ Head(chain) = chain[1]
  BY <1>1, ChainFacts
<1>3. i = 1 \/ node[chain[1]].prio > node[n].prio
  BY <1>1, <1>2, ChainFacts DEF Sorted
<1>4. chain[1] # NULL /\ node[chain[1]].prio \in Int /\ node[n].prio \in Int
  BY <1>1, <1>2, ChainFacts
<1>5. at'[p] = chain[1] /\ node' = node
  <2>1. chain # << >>
    BY <1>1
  <2> QED
    BY <1>2, <2>1 DEF GetLockWork, Typed
<1> QED
  BY <1>1, <1>3, <1>4, <1>5 DEF Passed

\* ... and then he passes one queue at a time.
LEMMA SkipWalk ==
  ASSUME Typed, Sorted, PlaceInv, NEW p \in Procs, GetSkip(p),
         NEW n \in ToSet(chain), Passed(p, n)'
  PROVE  n = at[p] \/ Passed(p, n)
<1>1. /\ at[p] \in ToSet(chain) /\ at'[p] = NextNode(at[p]) /\ node' = node
  BY DEF GetSkip, PlaceInv, PlaceAt, Typed, shared
<1>2. PICK i \in 1 .. Len(chain) : /\ at[p] = chain[i]
         /\ NextNode(at[p]) = IF i = Len(chain) THEN NULL ELSE chain[i + 1]
  BY <1>1, SkipTo
<1>3. PICK j \in 1 .. Len(chain) : n = chain[j]
  BY ChainFacts
<1>4. Len(chain) \in Nat
  BY ChainFacts
<1>5. j <= i
  <2>1. CASE i = Len(chain)
    BY <1>4, <2>1
  <2>2. CASE i # Len(chain)
    <3>1. i + 1 \in 1 .. Len(chain)
      BY <1>4, <2>2
    <3>2. at'[p] = chain[i + 1] /\ chain[i + 1] # NULL
      BY <1>1, <1>2, <2>2, <3>1, ChainFacts
    <3>3. node[chain[j]].prio > node[chain[i + 1]].prio
      BY <1>1, <1>3, <3>2 DEF Passed
    <3>4. i + 1 < j => node[chain[i + 1]].prio > node[chain[j]].prio
      BY <3>1, ChainFacts DEF Sorted
    <3>5. node[chain[j]].prio \in Int /\ node[chain[i + 1]].prio \in Int
      BY <3>1, ChainFacts
    <3>6. i + 1 # j
      BY <3>3, <3>5
    <3> QED
      BY <3>3, <3>4, <3>5, <3>6, <1>4
  <2> QED
    BY <2>1, <2>2
<1>6. j < i => node[chain[j]].prio > node[chain[i]].prio
  BY ChainFacts DEF Sorted
<1> QED
  BY <1>2, <1>3, <1>4, <1>5, <1>6 DEF Passed

LEMMA PlaceStays ==
  ASSUME PlaceInv, NEW q \in Procs, pc'[q] = pc[q], task'[q] = task[q], at'[q] = at[q],
         ToSet(chain) \subseteq ToSet(chain'),
         pc[q] \in AtNode => node'[at[q]].prio = node[at[q]].prio,
         pc[q] \in {"getCount", "getPop"} => node'[at[q]].items = node[at[q]].items
  PROVE  PlaceAt(q)'
BY DEF PlaceInv, PlaceAt, AtNode, HasNode

\* A step of p, while it has no lock of q, leaves q its queue.
LEMMA OthersStay ==
  ASSUME Typed, LockInv, PlaceInv, NEW p \in Procs, NEW q \in Procs \ {p},
         Does(p), ~Drain(p), ~DrainEnd(p)
  PROVE  PlaceAt(q)'
<1>1. pc'[q] = pc[q] /\ task'[q] = task[q] /\ at'[q] = at[q]
  BY DEF Does, StartPut, RestartPut, PutLockWork, QueueFound, QueueMade, PutGivenUp,
         NodeLocked, PutUnlockWork, TaskLinked, StartGet, GetLockWork, GetNothing,
         GetSkip, Chosen, GetCount, TaskPopped, Park, DrainOne, RestoreOne,
         RestoreNone, NextUnit, PutError, Forget, Running, Step, Goto, local, Typed
<1>2. at[q] \in ToSet(chain) => at[q] \in Nodes
  BY DEF Typed, ToSet
<1>3. pc[q] \in AtNode => at[q] \in ToSet(chain) /\ at[q] \in Nodes
  BY <1>2 DEF PlaceInv, PlaceAt
<1>4. CASE UNCHANGED <<chain, node>>
  BY <1>1, <1>4, PlaceStays
<1>5. CASE NodeLocked(p) \/ Chosen(p)
  <2>1. chain' = chain /\ \A m \in Nodes : /\ node'[m].prio = node[m].prio
                                           /\ node'[m].items = node[m].items
    BY <1>5 DEF NodeLocked, Chosen
  <2>2. pc[q] \in {"getCount", "getPop"} => pc[q] \in AtNode
    BY DEF AtNode, HasNode
  <2> QED
    BY <1>1, <1>3, <2>1, <2>2, PlaceStays
<1>6. CASE TaskLinked(p) \/ TaskPopped(p)
  <2>1. /\ pc[p] \in HasNode /\ chain' = chain
        /\ \A m \in Nodes : node'[m].prio = node[m].prio
        /\ \A m \in Nodes \ {at[p]} : node'[m] = node[m]
    BY <1>6 DEF TaskLinked, TaskPopped, HasNode
  <2>2. pc[q] \in {"getCount", "getPop"} => pc[q] \in AtNode /\ pc[q] \in HasNode
    BY DEF AtNode, HasNode
  <2>3. pc[q] \in HasNode => at[q] # at[p]
    BY <2>1 DEF LockInv
  <2> QED
    BY <1>1, <1>3, <2>1, <2>2, <2>3, PlaceStays
<1>7. CASE QueueMade(p)
  <2>1. PICK n \in Nodes \ ToSet(chain) :
           /\ \A m \in Nodes \ {n} : node'[m] = node[m]
           /\ ToSet(chain') = ToSet(chain) \cup {n}
    BY <1>7 DEF QueueMade
  <2>2. pc[q] \in {"getCount", "getPop"} => pc[q] \in AtNode
    BY DEF AtNode, HasNode
  <2> QED
    BY <1>1, <1>3, <2>1, <2>2, PlaceStays
<1> QED
  BY <1>4, <1>5, <1>6, <1>7
     DEF Does, StartPut, RestartPut, PutLockWork, QueueFound, PutGivenUp,
         PutUnlockWork, StartGet, GetLockWork, GetNothing, GetSkip, GetCount,
         Park, DrainOne, RestoreOne, RestoreNone, NextUnit, PutError, Forget, shared

LEMMA StepPlace ==
  ASSUME Typed, LockInv, PlaceInv, Sorted, DrainInv, NEW p \in Procs, Does(p)
  PROVE  PlaceInv'
<1>1. CASE Drain(p) \/ DrainEnd(p)
  <2>1. \A q \in Procs : pc[q] \in {"parked", "parkedFull", "drain"}
    BY <1>1 DEF Drain, DrainEnd, DrainInv
  <2>2. \A q \in Procs : pc'[q] \in {"parked", "drain", "idle"} /\ task'[q] = task[q]
    BY <1>1 DEF Drain, DrainEnd, local
  <2> QED
    BY <2>1, <2>2 DEF PlaceInv, PlaceAt, Putting, AtNode, HasNode
<1>2. CASE ~Drain(p) /\ ~DrainEnd(p)
  <2>1. \A q \in Procs \ {p} : PlaceAt(q)'
    BY <1>2, OthersStay
  <2>0. /\ task[p] # NoTask <=> pc[p] \in Putting
        /\ NoTask \notin Tasks
    BY TasksAssumption DEF PlaceInv, PlaceAt
  <2>2. ASSUME /\ pc'[p] \in {"idle", "getLockWork", "full", "parked", "parkedFull"}
               /\ task'[p] = NoTask
       PROVE  PlaceAt(p)'
    BY <2>2 DEF PlaceAt, Putting, AtNode, HasNode
  <2>3. ASSUME pc'[p] \in {"putLockWork", "putFind"} /\ task'[p] \in Tasks
       PROVE  PlaceAt(p)'
    BY <2>0, <2>3 DEF PlaceAt, Putting, AtNode, HasNode
  <2>4. ASSUME /\ pc'[p] \in {"putLockNode", "putUnlockWork", "putLink"}
               /\ task'[p] \in Tasks /\ at'[p] \in ToSet(chain')
               /\ node'[at'[p]].prio = Priority(task'[p])
       PROVE  PlaceAt(p)'
    BY <2>0, <2>4 DEF PlaceAt, Putting, AtNode, HasNode
  <2>5. ASSUME /\ pc'[p] = "getFind" /\ task'[p] = NoTask
               /\ at'[p] \in ToSet(chain') \cup {NULL}
       PROVE  PlaceAt(p)'
    BY <2>5 DEF PlaceAt, Putting, AtNode, HasNode
  <2>6. ASSUME /\ pc'[p] \in {"getCount", "getPop"} /\ task'[p] = NoTask
               /\ at'[p] \in ToSet(chain') /\ node'[at'[p]].items # << >>
       PROVE  PlaceAt(p)'
    BY <2>6 DEF PlaceAt, Putting, AtNode, HasNode
  <2>7. PlaceAt(p)'
    <3>1. CASE (\E t \in Tasks : StartPut(p, t)) \/ PutLockWork(p)
      BY <2>0, <2>3, <3>1 DEF StartPut, PutLockWork, Step, Goto, local, Typed, Putting
    <3>2. CASE RestartPut(p) \/ RestoreOne(p)
      <4>1. task'[p] \in Tasks /\ pc'[p] = "putLockWork"
        BY <3>2, <2>0 DEF RestartPut, RestoreOne, NextUnit, Goto, Typed
      <4> QED
        BY <2>3, <4>1
    <3>3. CASE QueueFound(p)
      BY <2>0, <2>4, <3>3 DEF QueueFound, Typed, Putting, shared
    <3>4. CASE QueueMade(p)
      BY <2>4, <3>4 DEF QueueMade, Typed
    <3>5. CASE PutGivenUp(p) \/ TaskLinked(p)
      BY <2>2, <3>5 DEF PutGivenUp, TaskLinked, Typed
    <3>6. CASE NodeLocked(p)
      <4>1. /\ pc[p] = "putLockNode" /\ pc'[p] = "putUnlockWork" /\ chain' = chain
            /\ task'[p] = task[p] /\ at'[p] = at[p]
            /\ node'[at[p]].prio = node[at[p]].prio
        BY <3>6 DEF NodeLocked, local, Typed
      <4>2. task[p] \in Tasks /\ at[p] \in ToSet(chain) /\ node[at[p]].prio = Priority(task[p])
        BY <2>0, <4>1 DEF Typed, PlaceInv, PlaceAt, Putting, AtNode
      <4> QED
        BY <2>4, <4>1, <4>2
    <3>7. CASE PutUnlockWork(p)
      <4>1. /\ pc[p] = "putUnlockWork" /\ pc'[p] = "putLink" /\ UNCHANGED <<chain, node>>
            /\ task'[p] = task[p] /\ at'[p] = at[p]
        BY <3>7 DEF PutUnlockWork, Step, Goto, local, Typed
      <4>2. task[p] \in Tasks /\ at[p] \in ToSet(chain) /\ node[at[p]].prio = Priority(task[p])
        BY <2>0, <4>1 DEF Typed, PlaceInv, PlaceAt, Putting, AtNode, HasNode
      <4> QED
        BY <2>4, <4>1, <4>2
    <3>8. CASE StartGet(p) \/ GetNothing(p) \/ TaskPopped(p) \/ Park(p)
      <4>1. /\ pc[p] \notin Putting /\ task'[p] = task[p]
            /\ pc'[p] \in {"idle", "getLockWork", "parked", "parkedFull"}
        BY <3>8 DEF StartGet, GetNothing, TaskPopped, Park, Running, Step, Goto, local,
                    Typed, Putting
      <4> QED
        BY <2>0, <2>2, <4>1
    <3>9. CASE GetLockWork(p)
      <4>1. /\ pc[p] = "getLockWork" /\ pc'[p] = "getFind" /\ chain' = chain
            /\ task'[p] = task[p]
            /\ at'[p] = IF chain = << >> THEN NULL ELSE Head(chain)
        BY <3>9 DEF GetLockWork, Step, Goto, Typed
      <4>2. chain # << >> => Head(chain) \in ToSet(chain)
        BY ChainFacts
      <4>3. task[p] = NoTask
        BY <2>0, <4>1 DEF Putting
      <4> QED
        BY <2>5, <4>1, <4>2, <4>3
    <3>10. CASE GetSkip(p)
      <4>1. /\ pc[p] = "getFind" /\ pc'[p] = "getFind" /\ chain' = chain
            /\ task'[p] = task[p] /\ at'[p] = NextNode(at[p]) /\ at[p] # NULL
        BY <3>10 DEF GetSkip, Typed, shared
      <4>2. at[p] \in ToSet(chain)
        BY <4>1 DEF PlaceInv, PlaceAt
      <4>3. PICK i \in 1 .. Len(chain) :
               NextNode(at[p]) = IF i = Len(chain) THEN NULL ELSE chain[i + 1]
        BY <4>2, SkipTo
      <4>4. Len(chain) \in Nat
        BY ChainFacts
      <4>5. i # Len(chain) => i + 1 \in 1 .. Len(chain)
        BY <4>4
      <4>6. NextNode(at[p]) \in ToSet(chain) \cup {NULL}
        BY <4>3, <4>5, ChainFacts
      <4>7. task[p] = NoTask
        BY <2>0, <4>1 DEF Putting
      <4> QED
        BY <2>5, <4>1, <4>6, <4>7
    <3>11. CASE Chosen(p)
      <4>1. /\ pc[p] = "getFind" /\ pc'[p] = "getCount" /\ chain' = chain
            /\ task'[p] = task[p] /\ at'[p] = at[p] /\ at[p] \in ToSet(chain)
            /\ node'[at[p]].items # << >>
        BY <3>11 DEF Chosen, local, Typed
      <4>2. task[p] = NoTask
        BY <2>0, <4>1 DEF Putting
      <4> QED
        BY <2>6, <4>1, <4>2
    <3>12. CASE GetCount(p)
      <4>1. /\ pc[p] = "getCount" /\ pc'[p] = "getPop" /\ UNCHANGED <<chain, node>>
            /\ task'[p] = task[p] /\ at'[p] = at[p]
        BY <3>12 DEF GetCount, Step, Goto, local, Typed
      <4>2. /\ task[p] = NoTask /\ at[p] \in ToSet(chain) /\ node[at[p]].items # << >>
        BY <2>0, <4>1 DEF Putting, PlaceInv, PlaceAt, AtNode, HasNode
      <4> QED
        BY <2>6, <4>1, <4>2
    <3>13. CASE DrainOne(p)
      <4>1. /\ pc[p] = "drain" /\ UNCHANGED <<pc, task>>
        BY <3>13 DEF DrainOne, local
      <4> QED
        BY <2>0, <4>1 DEF PlaceAt, Putting, AtNode, HasNode
    <3>14. CASE RestoreNone(p) \/ PutError(p) \/ \E t \in Tasks : Forget(p, t)
      <4>1. pc'[p] = "idle" /\ task'[p] = NoTask
        BY <2>0, <3>14 DEF RestoreNone, NextUnit, PutError, Forget, Running, Step, Goto,
                           local, Typed, Putting
      <4> QED
        BY <2>2, <4>1
    <3> QED
      BY <1>2, <3>1, <3>2, <3>3, <3>4, <3>5, <3>6, <3>7, <3>8, <3>9, <3>10, <3>11,
         <3>12, <3>13, <3>14 DEF Does
  <2> QED
    BY <2>1, <2>7 DEF PlaceInv
<1> QED
  BY <1>1, <1>2

LEMMA SamePriorities ==
  ASSUME Typed, Sorted, chain' = chain, \A m \in Nodes : node'[m].prio = node[m].prio
  PROVE  Sorted'
<1>1. \A i \in DOMAIN chain : chain[i] \in Nodes
  BY DEF Typed
<1> QED
  BY <1>1 DEF Sorted

LEMMA StepSorted ==
  ASSUME Typed, LockInv, PlaceInv, Sorted, DrainInv, NEW p \in Procs, Does(p)
  PROVE  Sorted'
<1>0. ASSUME chain' = chain, \A m \in Nodes : node'[m].prio = node[m].prio
      PROVE  Sorted'
  BY <1>0, SamePriorities
<1>m. QueueMade(p) => Sorted'
  BY MadeSorted
<1> ToSet(chain) \subseteq Nodes
  BY DEF Typed, ToSet
<1> USE DEF Typed, LockInv, PlaceInv, PlaceAt, Labels, Putting, HasWork, HasNode, AtNode,
           shared, local, gc, Goto, Step, Sorted
<1>1. CASE \E t \in Tasks : StartPut(p, t)
  BY <1>1 DEF StartPut, Running
<1>2. CASE RestartPut(p)
  BY <1>2 DEF RestartPut, Running
<1>3. CASE PutLockWork(p)
  BY <1>3 DEF PutLockWork
<1>4. CASE QueueFound(p)
  BY <1>4 DEF QueueFound
<1>5. CASE QueueMade(p)
  BY <1>5, <1>m
<1>6. CASE PutGivenUp(p)
  BY <1>6 DEF PutGivenUp
<1>7. CASE NodeLocked(p)
  <2>1. chain' = chain /\ \A m \in Nodes : node'[m].prio = node[m].prio
    BY <1>7 DEF NodeLocked
  <2> QED
    BY <1>0, <2>1
<1>8. CASE PutUnlockWork(p)
  BY <1>8 DEF PutUnlockWork
<1>9. CASE TaskLinked(p)
  <2>1. chain' = chain /\ \A m \in Nodes : node'[m].prio = node[m].prio
    BY <1>9 DEF TaskLinked
  <2> QED
    BY <1>0, <2>1
<1>10. CASE StartGet(p)
  BY <1>10 DEF StartGet, Running
<1>11. CASE GetLockWork(p)
  BY <1>11 DEF GetLockWork
<1>12. CASE GetNothing(p)
  BY <1>12 DEF GetNothing
<1>13. CASE GetSkip(p)
  BY <1>13 DEF GetSkip
<1>14. CASE Chosen(p)
  <2>1. chain' = chain /\ \A m \in Nodes : node'[m].prio = node[m].prio
    BY <1>14 DEF Chosen
  <2> QED
    BY <1>0, <2>1
<1>15. CASE GetCount(p)
  BY <1>15 DEF GetCount
<1>16. CASE TaskPopped(p)
  <2>1. chain' = chain /\ \A m \in Nodes : node'[m].prio = node[m].prio
    BY <1>16 DEF TaskPopped
  <2> QED
    BY <1>0, <2>1
<1>17. CASE Park(p)
  BY <1>17 DEF Park
<1>18. CASE Drain(p)
  BY <1>18 DEF Drain
<1>19. CASE DrainOne(p)
  BY <1>19 DEF DrainOne
<1>20. CASE DrainEnd(p)
  BY <1>20 DEF DrainEnd
<1>21. CASE RestoreOne(p) \/ RestoreNone(p)
  BY <1>21 DEF RestoreOne, RestoreNone, NextUnit
<1>22. CASE PutError(p)
  BY <1>22 DEF PutError
<1>23. CASE \E t \in Tasks : Forget(p, t)
  BY <1>23 DEF Forget, Running
<1> QED
  BY <1>1, <1>2, <1>3, <1>4, <1>5, <1>6, <1>7, <1>8, <1>9, <1>10, <1>11,
     <1>12, <1>13, <1>14, <1>15, <1>16, <1>17, <1>18, <1>19, <1>20, <1>21,
     <1>22, <1>23 DEF Does

LEMMA StepDrain ==
  ASSUME Typed, LockInv, PlaceInv, Sorted, DrainInv, NEW p \in Procs, Does(p)
  PROVE  DrainInv'
<1>0. \A i, j \in DOMAIN chain : chain[i] = chain[j] => i = j
  BY Injective
<1> ToSet(chain) \subseteq Nodes
  BY DEF Typed, ToSet
<1> USE DEF Typed, LockInv, PlaceInv, PlaceAt, Labels, Putting, HasWork, HasNode, AtNode,
           shared, local, gc, Goto, Step, DrainInv
<1>1. CASE \E t \in Tasks : StartPut(p, t)
  BY <1>1 DEF StartPut, Running
<1>2. CASE RestartPut(p)
  BY <1>2 DEF RestartPut, Running
<1>3. CASE PutLockWork(p)
  BY <1>3 DEF PutLockWork
<1>4. CASE QueueFound(p)
  BY <1>4 DEF QueueFound
<1>5. CASE QueueMade(p)
  BY <1>5 DEF QueueMade
<1>6. CASE PutGivenUp(p)
  BY <1>6 DEF PutGivenUp
<1>7. CASE NodeLocked(p)
  BY <1>7 DEF NodeLocked
<1>8. CASE PutUnlockWork(p)
  BY <1>8 DEF PutUnlockWork
<1>9. CASE TaskLinked(p)
  BY <1>9 DEF TaskLinked
<1>10. CASE StartGet(p)
  BY <1>10 DEF StartGet, Running
<1>11. CASE GetLockWork(p)
  BY <1>11 DEF GetLockWork
<1>12. CASE GetNothing(p)
  BY <1>12 DEF GetNothing
<1>13. CASE GetSkip(p)
  BY <1>13 DEF GetSkip
<1>14. CASE Chosen(p)
  BY <1>14 DEF Chosen
<1>15. CASE GetCount(p)
  BY <1>15 DEF GetCount
<1>16. CASE TaskPopped(p)
  BY <1>16 DEF TaskPopped
<1>17. CASE Park(p)
  BY <1>17 DEF Park
<1>18. CASE Drain(p)
  <2>1. /\ taken' = chain /\ chain' = << >> /\ workLength' = 0
        /\ \A q \in Procs : pc[q] \in {"parked", "parkedFull"}
        /\ pc' = [q \in Procs |-> IF q = p THEN "drain" ELSE "parked"]
    BY <1>18 DEF Drain
  <2> QED
    BY <1>0, <2>1
<1>19. CASE DrainOne(p)
  <2>1. taken \in Seq(Nodes) /\ taken # << >> /\ taken' = Tail(taken)
    BY <1>19 DEF DrainOne
  <2>2. /\ \A i \in 1 .. Len(taken) - 1 : taken'[i] = taken[i + 1]
        /\ DOMAIN taken' = 1 .. Len(taken) - 1
    BY <2>1, Tailed
  <2>3. ASSUME NEW i \in 1 .. Len(taken) - 1, NEW j \in 1 .. Len(taken) - 1,
               taken'[i] = taken'[j]
        PROVE  i = j
    <3>0. DOMAIN taken = 1 .. Len(taken) /\ Len(taken) \in Nat
      BY <2>1
    <3>1. i + 1 \in DOMAIN taken /\ j + 1 \in DOMAIN taken
      BY <3>0
    <3>2. taken[i + 1] = taken[j + 1]
      BY <2>2, <2>3
    <3> QED
      BY <3>1, <3>2
  <2>4. pc[p] = "drain" /\ UNCHANGED <<chain, workLength, pc>>
    BY <1>19 DEF DrainOne
  <2> QED
    BY <2>2, <2>3, <2>4
<1>20. CASE DrainEnd(p)
  BY <1>20 DEF DrainEnd
<1>21. CASE RestoreOne(p) \/ RestoreNone(p)
  BY <1>21 DEF RestoreOne, RestoreNone, NextUnit
<1>22. CASE PutError(p)
  BY <1>22 DEF PutError
<1>23. CASE \E t \in Tasks : Forget(p, t)
  BY <1>23 DEF Forget, Running
<1> QED
  BY <1>1, <1>2, <1>3, <1>4, <1>5, <1>6, <1>7, <1>8, <1>9, <1>10, <1>11,
     <1>12, <1>13, <1>14, <1>15, <1>16, <1>17, <1>18, <1>19, <1>20, <1>21,
     <1>22, <1>23 DEF Does

LEMMA StepWalk ==
  ASSUME Typed, LockInv, PlaceInv, Sorted, DrainInv, WalkInv, NEW p \in Procs, Does(p)
  PROVE  WalkInv'
<1>a. GetLockWork(p) => \A n \in ToSet(chain) : ~Passed(p, n)'
  BY StartWalk
<1>b. GetSkip(p) => \A n \in ToSet(chain) : Passed(p, n)' => n = at[p] \/ Passed(p, n)
  BY SkipWalk
<1> ToSet(chain) \subseteq Nodes
  BY DEF Typed, ToSet
<1> USE DEF Typed, LockInv, PlaceInv, PlaceAt, Labels, Putting, HasWork, HasNode, AtNode,
           shared, local, gc, Goto, Step, WalkInv, Passed, NULL
<1>1. CASE \E t \in Tasks : StartPut(p, t)
  BY <1>1 DEF StartPut, Running
<1>2. CASE RestartPut(p)
  BY <1>2 DEF RestartPut, Running
<1>3. CASE PutLockWork(p)
  BY <1>3 DEF PutLockWork
<1>4. CASE QueueFound(p)
  BY <1>4 DEF QueueFound
<1>5. CASE QueueMade(p)
  BY <1>5 DEF QueueMade
<1>6. CASE PutGivenUp(p)
  BY <1>6 DEF PutGivenUp
<1>7. CASE NodeLocked(p)
  BY <1>7 DEF NodeLocked
<1>8. CASE PutUnlockWork(p)
  BY <1>8 DEF PutUnlockWork
<1>9. CASE TaskLinked(p)
  <2>1. \A q \in Procs : pc[q] = "getFind" => ~Passed(q, at[p]) /\ q # p
    BY <1>9 DEF TaskLinked, Passed
  <2>2. \A m \in Nodes : node'[m].prio = node[m].prio
    BY <1>9 DEF TaskLinked
  <2>3. \A m \in Nodes \ {at[p]} : node'[m] = node[m]
    BY <1>9 DEF TaskLinked
  <2>4. /\ pc' = [pc EXCEPT ![p] = "idle"] /\ chain' = chain
        /\ at' = [at EXCEPT ![p] = NULL]
    BY <1>9 DEF TaskLinked
  <2>5. \A q \in Procs : \A n \in ToSet(chain) : pc'[q] = "getFind" =>
           /\ pc[q] = "getFind"
           /\ Passed(q, n)' => Passed(q, n) /\ n # at[p]
    BY <2>1, <2>2, <2>4 DEF Passed
  <2> QED
    BY <2>3, <2>4, <2>5
<1>10. CASE StartGet(p)
  BY <1>10 DEF StartGet, Running
<1>11. CASE GetLockWork(p)
  <2>1. /\ pc[p] = "getLockWork" /\ pc' = [pc EXCEPT ![p] = "getFind"] /\ ~workLock
        /\ UNCHANGED <<chain, node>>
    BY <1>11 DEF GetLockWork
  <2>2. \A n \in ToSet(chain) : ~Passed(p, n)'
    BY <1>11, <1>a
  <2>3. \A q \in Procs \ {p} : pc'[q] # "getFind"
    BY <2>1
  <2> QED
    BY <2>1, <2>2, <2>3
<1>12. CASE GetNothing(p)
  BY <1>12 DEF GetNothing
<1>13. CASE GetSkip(p)
  <2>1. /\ pc[p] = "getFind" /\ ~node[at[p]].lock /\ node[at[p]].items = << >>
        /\ UNCHANGED <<chain, node, pc>>
    BY <1>13 DEF GetSkip
  <2>2. \A n \in ToSet(chain) : Passed(p, n)' => n = at[p] \/ Passed(p, n)
    BY <1>13, <1>b
  <2>3. \A q \in Procs \ {p} : pc'[q] # "getFind"
    BY <2>1
  <2> QED
    BY <2>1, <2>2, <2>3
<1>14. CASE Chosen(p)
  BY <1>14 DEF Chosen
<1>15. CASE GetCount(p)
  BY <1>15 DEF GetCount
<1>16. CASE TaskPopped(p)
  <2>1. \A q \in Procs : pc[q] = "getFind" => ~Passed(q, at[p]) /\ q # p
    BY <1>16 DEF TaskPopped, Passed
  <2>2. \A m \in Nodes : node'[m].prio = node[m].prio
    BY <1>16 DEF TaskPopped
  <2>3. \A m \in Nodes \ {at[p]} : node'[m] = node[m]
    BY <1>16 DEF TaskPopped
  <2>4. /\ pc' = [pc EXCEPT ![p] = "idle"] /\ chain' = chain
        /\ at' = [at EXCEPT ![p] = NULL]
    BY <1>16 DEF TaskPopped
  <2>5. \A q \in Procs : \A n \in ToSet(chain) : pc'[q] = "getFind" =>
           /\ pc[q] = "getFind"
           /\ Passed(q, n)' => Passed(q, n) /\ n # at[p]
    BY <2>1, <2>2, <2>4 DEF Passed
  <2> QED
    BY <2>3, <2>4, <2>5
<1>17. CASE Park(p)
  BY <1>17 DEF Park
<1>18. CASE Drain(p)
  BY <1>18 DEF Drain
<1>19. CASE DrainOne(p)
  BY <1>19 DEF DrainOne
<1>20. CASE DrainEnd(p)
  BY <1>20 DEF DrainEnd
<1>21. CASE RestoreOne(p) \/ RestoreNone(p)
  BY <1>21 DEF RestoreOne, RestoreNone, NextUnit
<1>22. CASE PutError(p)
  BY <1>22 DEF PutError
<1>23. CASE \E t \in Tasks : Forget(p, t)
  BY <1>23 DEF Forget, Running
<1> QED
  BY <1>1, <1>2, <1>3, <1>4, <1>5, <1>6, <1>7, <1>8, <1>9, <1>10, <1>11,
     <1>12, <1>13, <1>14, <1>15, <1>16, <1>17, <1>18, <1>19, <1>20, <1>21,
     <1>22, <1>23 DEF Does

-----------------------------------------------------------------------------
(* Where the tasks are: sequences *)

LEMMA PrependOnce ==
  ASSUME NEW S, NEW s \in Seq(S), NEW e \in S
  PROVE  /\ ToSet(<<e>> \o s) = {e} \cup ToSet(s)
         /\ \A t : t # e /\ Once(s, t) => Once(<<e>> \o s, t)
         /\ e \notin ToSet(s) => Once(<<e>> \o s, e)
<1>1. PICK r \in Seq(S) : r = <<e>> \o s
  BY Prepended
<1>2. /\ DOMAIN s = 1 .. Len(s) /\ Len(s) \in Nat /\ DOMAIN r = 1 .. Len(s) + 1
      /\ r[1] = e /\ \A i \in 1 .. Len(s) : r[i + 1] = s[i]
  BY <1>1, Prepended
<1>3. \A i \in DOMAIN r : i = 1 \/ (i - 1 \in DOMAIN s /\ r[i] = s[i - 1])
  BY <1>2
<1>4. \A i \in DOMAIN s : i + 1 \in DOMAIN r /\ r[i + 1] = s[i]
  BY <1>2
<1>5. 1 \in DOMAIN r /\ \A i \in DOMAIN r : i \in Nat
  BY <1>2
<1>6. ToSet(r) = {e} \cup ToSet(s)
  BY <1>2, <1>3, <1>4, <1>5 DEF ToSet
<1>7. ASSUME NEW t, t # e, Once(s, t)
      PROVE  Once(r, t)
  BY <1>2, <1>3, <1>5, <1>7 DEF Once
<1>8. ASSUME e \notin ToSet(s)
      PROVE  Once(r, e)
  <2>1. \A i \in DOMAIN s : s[i] # e
    BY <1>8 DEF ToSet
  <2> QED
    BY <1>3, <2>1 DEF Once
<1> QED
  BY <1>1, <1>6, <1>7, <1>8

LEMMA AppendOnce ==
  ASSUME NEW S, NEW s \in Seq(S), NEW e \in S
  PROVE  /\ ToSet(Append(s, e)) = {e} \cup ToSet(s)
         /\ \A t : t # e /\ Once(s, t) => Once(Append(s, e), t)
         /\ e \notin ToSet(s) => Once(Append(s, e), e)
<1>0. Append(s, e) \in Seq(S)
  OBVIOUS
<1>1. PICK r \in Seq(S) : r = Append(s, e)
  BY <1>0
<1>2. /\ DOMAIN s = 1 .. Len(s) /\ Len(s) \in Nat /\ DOMAIN r = 1 .. Len(s) + 1
      /\ r[Len(s) + 1] = e /\ \A i \in 1 .. Len(s) : r[i] = s[i]
  BY <1>1
<1>3. \A i \in DOMAIN r : i = Len(s) + 1 \/ (i \in DOMAIN s /\ r[i] = s[i])
  BY <1>2
<1>4. \A i \in DOMAIN s : i \in DOMAIN r /\ r[i] = s[i]
  BY <1>2
<1>5. Len(s) + 1 \in DOMAIN r
  BY <1>2
<1>6. ToSet(r) = {e} \cup ToSet(s)
  BY <1>2, <1>3, <1>4, <1>5 DEF ToSet
<1>7. ASSUME NEW t, t # e, Once(s, t)
      PROVE  Once(r, t)
  BY <1>2, <1>3, <1>5, <1>7 DEF Once
<1>8. ASSUME e \notin ToSet(s)
      PROVE  Once(r, e)
  <2>1. \A i \in DOMAIN s : s[i] # e
    BY <1>8 DEF ToSet
  <2> QED
    BY <1>3, <2>1 DEF Once
<1> QED
  BY <1>1, <1>6, <1>7, <1>8

LEMMA TailOnce ==
  ASSUME NEW S, NEW s \in Seq(S), s # << >>
  PROVE  /\ Head(s) \in S /\ ToSet(s) = {Head(s)} \cup ToSet(Tail(s))
         /\ \A t : Once(s, t) => Once(Tail(s), t)
         /\ Once(s, Head(s)) => Head(s) \notin ToSet(Tail(s))
<1>1. PICK r \in Seq(S) : r = Tail(s)
  BY Tailed
<1>2. /\ DOMAIN s = 1 .. Len(s) /\ Len(s) \in Nat /\ Len(s) # 0
      /\ Head(s) = s[1] /\ Head(s) \in S
  OBVIOUS
<1>3. DOMAIN r = 1 .. Len(s) - 1 /\ \A i \in 1 .. Len(s) - 1 : r[i] = s[i + 1]
  BY <1>1, Tailed
<1>4. \A i \in DOMAIN r : i \in Nat /\ i # 0 /\ i + 1 \in DOMAIN s /\ r[i] = s[i + 1]
  BY <1>2, <1>3
<1>5. \A i \in DOMAIN s : i = 1 \/ (i - 1 \in DOMAIN r /\ s[i] = r[i - 1])
  BY <1>2, <1>3
<1>6. 1 \in DOMAIN s
  BY <1>2
<1>7. ToSet(s) = {Head(s)} \cup ToSet(r)
  BY <1>2, <1>4, <1>5, <1>6 DEF ToSet
<1>8. ASSUME NEW t, Once(s, t)
      PROVE  Once(r, t)
  <2> SUFFICES ASSUME NEW i \in DOMAIN r, NEW j \in DOMAIN r, r[i] = t, r[j] = t
               PROVE  i = j
    BY DEF Once
  <2>1. i + 1 = j + 1
    BY <1>4, <1>8 DEF Once
  <2> QED
    BY <1>4, <2>1
<1>9. ASSUME Once(s, Head(s)), Head(s) \in ToSet(r)
      PROVE  FALSE
  <2>1. PICK i \in DOMAIN r : r[i] = Head(s)
    BY <1>9 DEF ToSet
  <2>2. i + 1 = 1
    BY <1>2, <1>4, <1>6, <1>9, <2>1 DEF Once
  <2> QED
    BY <1>4, <2>2
<1> QED
  BY <1>1, <1>2, <1>7, <1>8, <1>9

LEMMA ConcatOnce ==
  ASSUME NEW S, NEW a \in Seq(S), NEW b \in Seq(S)
  PROVE  /\ ToSet(a \o b) = ToSet(a) \cup ToSet(b)
         /\ \A t : Once(a, t) /\ Once(b, t) /\ ~(t \in ToSet(a) /\ t \in ToSet(b))
                   => Once(a \o b, t)
<1>0. a \o b \in Seq(S)
  OBVIOUS
<1>1. PICK r \in Seq(S) : r = a \o b
  BY <1>0
<1>2. /\ DOMAIN a = 1 .. Len(a) /\ Len(a) \in Nat /\ DOMAIN b = 1 .. Len(b)
      /\ Len(b) \in Nat
  OBVIOUS
<1>3. DOMAIN r = 1 .. Len(a) + Len(b)
  BY <1>1
<1>4. \A i \in 1 .. Len(a) + Len(b) : r[i] = IF i <= Len(a) THEN a[i] ELSE b[i - Len(a)]
  BY <1>1
<1>5. \A i \in DOMAIN a : i \in DOMAIN r /\ r[i] = a[i]
  BY <1>2, <1>3, <1>4
<1>6. \A i \in DOMAIN b : i + Len(a) \in DOMAIN r /\ r[i + Len(a)] = b[i]
  <2> TAKE i \in DOMAIN b
  <2>1. /\ i + Len(a) \in 1 .. Len(a) + Len(b) /\ ~(i + Len(a) <= Len(a))
        /\ i + Len(a) - Len(a) = i
    BY <1>2
  <2>2. r[i + Len(a)] = b[i + Len(a) - Len(a)]
    BY <1>4, <2>1
  <2> QED
    BY <1>3, <2>1, <2>2
<1>7. \A i \in DOMAIN r : \/ i \in DOMAIN a /\ r[i] = a[i]
                          \/ i - Len(a) \in DOMAIN b /\ r[i] = b[i - Len(a)]
  BY <1>2, <1>3, <1>4
<1>8. ToSet(r) = ToSet(a) \cup ToSet(b)
  <2>1. ToSet(r) \subseteq ToSet(a) \cup ToSet(b)
    BY <1>7 DEF ToSet
  <2>2. ToSet(a) \subseteq ToSet(r)
    BY <1>5 DEF ToSet
  <2>3. ToSet(b) \subseteq ToSet(r)
    BY <1>6 DEF ToSet
  <2> QED
    BY <2>1, <2>2, <2>3
<1>9. ASSUME NEW t, Once(a, t), Once(b, t), ~(t \in ToSet(a) /\ t \in ToSet(b))
      PROVE  Once(r, t)
  <2> SUFFICES ASSUME NEW i \in DOMAIN r, NEW j \in DOMAIN r, r[i] = t, r[j] = t
               PROVE  i = j
    BY DEF Once
  <2>1. CASE i \in DOMAIN a /\ r[i] = a[i] /\ j \in DOMAIN a /\ r[j] = a[j]
    BY <1>9, <2>1 DEF Once
  <2>2. CASE /\ i - Len(a) \in DOMAIN b /\ r[i] = b[i - Len(a)]
             /\ j - Len(a) \in DOMAIN b /\ r[j] = b[j - Len(a)]
    <3>1. i - Len(a) = j - Len(a)
      BY <1>9, <2>2 DEF Once
    <3> QED
      BY <1>2, <1>3, <3>1
  <2>3. ASSUME NEW k \in DOMAIN a, NEW l \in DOMAIN b, a[k] = t, b[l] = t
        PROVE  FALSE
    BY <1>9, <2>3 DEF ToSet
  <2> QED
    BY <1>7, <2>1, <2>2, <2>3
<1>10. \A t : Once(a, t) /\ Once(b, t) /\ ~(t \in ToSet(a) /\ t \in ToSet(b))
              => Once(r, t)
  BY <1>9
<1>11. r = a \o b
  BY <1>1
<1> QED
  BY <1>8, <1>10, <1>11

-----------------------------------------------------------------------------
(* Where the tasks are: one comes, one goes *)

LEMMA HandLeaves ==
  ASSUME Typed, NEW p \in Procs, NEW e \in hand[p],
         hand' = [hand EXCEPT ![p] = @ \ {e}]
  PROVE  /\ InHand(e)
         /\ \A t : HandOnce(t) => (InHand(t)' <=> InHand(t) /\ t # e)
         /\ \A t : HandOnce(t) => HandOnce(t)'
<1>1. /\ hand'[p] = hand[p] \ {e} /\ \A q \in Procs \ {p} : hand'[q] = hand[q]
  BY DEF Typed
<1> QED
  BY <1>1 DEF InHand, HandOnce

LEMMA HandEnters ==
  ASSUME Typed, NEW p \in Procs, NEW e, hand' = [hand EXCEPT ![p] = @ \cup {e}]
  PROVE  /\ \A t : InHand(t)' <=> InHand(t) \/ t = e
         /\ \A t : HandOnce(t) /\ (t = e => ~InHand(t)) => HandOnce(t)'
<1>1. /\ hand'[p] = hand[p] \cup {e} /\ \A q \in Procs \ {p} : hand'[q] = hand[q]
  BY DEF Typed
<1> QED
  BY <1>1 DEF InHand, HandOnce

LEMMA TaskLeaves ==
  ASSUME Typed, NEW p \in Procs, NEW e \in Tasks, task[p] = e,
         task' = [task EXCEPT ![p] = NoTask]
  PROVE  /\ InTask(e)
         /\ \A t \in Tasks : TaskOnce(t) => (InTask(t)' <=> InTask(t) /\ t # e)
         /\ \A t \in Tasks : TaskOnce(t) => TaskOnce(t)'
<1>1. task'[p] = NoTask /\ \A q \in Procs \ {p} : task'[q] = task[q]
  BY DEF Typed
<1>2. NoTask \notin Tasks
  BY TasksAssumption
<1> QED
  BY <1>1, <1>2 DEF InTask, TaskOnce

LEMMA TaskEnters ==
  ASSUME Typed, NEW p \in Procs, NEW e \in Tasks, task[p] = NoTask,
         task' = [task EXCEPT ![p] = e]
  PROVE  /\ \A t \in Tasks : InTask(t)' <=> InTask(t) \/ t = e
         /\ \A t \in Tasks : TaskOnce(t) /\ (t = e => ~InTask(t)) => TaskOnce(t)'
<1>1. task'[p] = e /\ \A q \in Procs \ {p} : task'[q] = task[q]
  BY DEF Typed
<1>2. NoTask \notin Tasks
  BY TasksAssumption
<1> QED
  BY <1>1, <1>2 DEF InTask, TaskOnce

LEMMA AgainLeaves ==
  ASSUME Typed, NEW p \in Procs, again[p] # << >>,
         again' = [again EXCEPT ![p] = Tail(@)]
  PROVE  /\ Head(again[p]) \in Tasks /\ InAgain(Head(again[p]))
         /\ \A t : AgainOnce(t) => (InAgain(t)' <=> InAgain(t) /\ t # Head(again[p]))
         /\ \A t : AgainOnce(t) => AgainOnce(t)'
<1>1. PICK s \in Seq(Tasks) : s = again[p]
  BY DEF Typed
<1>2. again'[p] = Tail(s) /\ \A q \in Procs \ {p} : again'[q] = again[q]
  BY <1>1 DEF Typed
<1>3. PICK e, r : e = Head(s) /\ r = Tail(s)
  OBVIOUS
<1>4. /\ e \in Tasks /\ ToSet(s) = {e} \cup ToSet(r)
      /\ \A t : Once(s, t) => Once(r, t)
      /\ Once(s, e) => e \notin ToSet(r)
  BY <1>1, <1>3, TailOnce
<1>5. /\ again[p] = s /\ again'[p] = r /\ Head(again[p]) = e
  BY <1>1, <1>2, <1>3
<1>6. e \in Tasks /\ InAgain(e)
  BY <1>1, <1>4 DEF InAgain
<1>7. \A t : AgainOnce(t) => (InAgain(t)' <=> InAgain(t) /\ t # e)
  BY <1>2, <1>4, <1>5 DEF InAgain, AgainOnce
<1>8. \A t : AgainOnce(t) => AgainOnce(t)'
  BY <1>2, <1>4, <1>5 DEF AgainOnce
<1> QED
  BY <1>5, <1>6, <1>7, <1>8

LEMMA AgainEnters ==
  ASSUME Typed, NEW p \in Procs, NEW e \in Tasks,
         again' = [again EXCEPT ![p] = <<e>> \o @]
  PROVE  /\ \A t : InAgain(t)' <=> InAgain(t) \/ t = e
         /\ \A t : AgainOnce(t) /\ (t = e => ~InAgain(t)) => AgainOnce(t)'
<1>1. PICK s \in Seq(Tasks) : s = again[p]
  BY DEF Typed
<1>2. PICK r : r = <<e>> \o s
  OBVIOUS
<1>3. again'[p] = r /\ \A q \in Procs \ {p} : again'[q] = again[q]
  BY <1>1, <1>2 DEF Typed
<1>4. /\ ToSet(r) = {e} \cup ToSet(s)
      /\ \A t : t # e /\ Once(s, t) => Once(r, t)
      /\ e \notin ToSet(s) => Once(r, e)
  BY <1>2, PrependOnce
<1>5. \A t : InAgain(t)' <=> InAgain(t) \/ t = e
  BY <1>1, <1>3, <1>4 DEF InAgain
<1>6. \A t : AgainOnce(t) /\ (t = e => ~InAgain(t)) => AgainOnce(t)'
  BY <1>1, <1>3, <1>4 DEF InAgain, AgainOnce
<1> QED
  BY <1>5, <1>6

LEMMA DrainedLeaves ==
  ASSUME Typed, drained # << >>, drained' = Tail(drained)
  PROVE  /\ Head(drained) \in Tasks \cup {NoTask} /\ InDrained(Head(drained))
         /\ \A t : InDrained(t) => InDrained(t)' \/ t = Head(drained)
         /\ \A t : DrainedOnce(t) => (InDrained(t)' <=> InDrained(t) /\ t # Head(drained))
         /\ \A t : DrainedOnce(t) => DrainedOnce(t)'
         /\ \A t \in Tasks : InDrained(t)' => InDrained(t)
<1>1. drained \in Seq(Tasks \cup {NoTask})
  BY DEF Typed
<1> QED
  BY <1>1, TailOnce DEF InDrained, DrainedOnce

\* Weak pairs that lose their tasks.
LEMMA DrainedBreaks ==
  ASSUME Typed, NEW kept \in SUBSET Tasks,
         drained' = [i \in DOMAIN drained |->
                        IF drained[i] \in kept THEN drained[i] ELSE NoTask]
  PROVE  \A t \in Tasks : /\ InDrained(t)' <=> InDrained(t) /\ t \in kept
                          /\ DrainedOnce(t) => DrainedOnce(t)'
<1>1. /\ DOMAIN drained' = DOMAIN drained
      /\ \A i \in DOMAIN drained :
            drained'[i] = IF drained[i] \in kept THEN drained[i] ELSE NoTask
  BY Broken DEF Typed
<1>2. NoTask \notin Tasks
  BY TasksAssumption
<1> QED
  BY <1>1, <1>2 DEF InDrained, DrainedOnce, Once, ToSet

LEMMA QueueEnters ==
  ASSUME NEW n \in Nodes, NEW e \in Tasks, Held(n) \in Seq(Tasks),
         Held(n)' = Append(Held(n), e), \A m \in Nodes \ {n} : Held(m)' = Held(m)
  PROVE  /\ \A t : InQueue(t)' <=> InQueue(t) \/ t = e
         /\ \A t : QueuedOnce(t) /\ (t = e => ~InQueue(t)) => QueuedOnce(t)'
<1>s. PICK s \in Seq(Tasks) : s = Held(n)
  OBVIOUS
<1>r. PICK r : r = Append(s, e)
  OBVIOUS
<1>1. s = Held(n) /\ r = Append(s, e)
  BY <1>s, <1>r
<1>2. /\ ToSet(r) = {e} \cup ToSet(s)
      /\ \A t : t # e /\ Once(s, t) => Once(r, t)
      /\ e \notin ToSet(s) => Once(r, e)
  BY <1>1, AppendOnce
<1>3. Held(n) = s /\ Held(n)' = r
  BY <1>1
<1>4. \A t : InQueue(t)' <=> InQueue(t) \/ t = e
  BY <1>2, <1>3 DEF InQueue
<1>5. \A t : QueuedOnce(t) /\ (t = e => ~InQueue(t)) => QueuedOnce(t)'
  BY <1>2, <1>3 DEF InQueue, QueuedOnce
<1> QED
  BY <1>4, <1>5

LEMMA QueueLeaves ==
  ASSUME NEW n \in Nodes, Held(n) \in Seq(Tasks), Held(n) # << >>,
         Held(n)' = Tail(Held(n)), \A m \in Nodes \ {n} : Held(m)' = Held(m)
  PROVE  /\ Head(Held(n)) \in Tasks /\ InQueue(Head(Held(n)))
         /\ \A t : QueuedOnce(t) => (InQueue(t)' <=> InQueue(t) /\ t # Head(Held(n)))
         /\ \A t : QueuedOnce(t) => QueuedOnce(t)'
<1>s. PICK s \in Seq(Tasks) : s = Held(n)
  OBVIOUS
<1>r. PICK e, r : r = Tail(s) /\ e = Head(s)
  OBVIOUS
<1>1. s = Held(n) /\ r = Tail(s) /\ e = Head(s)
  BY <1>s, <1>r
<1>2. /\ e \in Tasks /\ ToSet(s) = {e} \cup ToSet(r)
      /\ \A t : Once(s, t) => Once(r, t)
      /\ Once(s, e) => e \notin ToSet(r)
  BY <1>1, TailOnce
<1>3. Held(n) = s /\ Held(n)' = r /\ Head(Held(n)) = e
  BY <1>1
<1>4. InQueue(e)
  BY <1>2, <1>3 DEF InQueue
<1>5. \A t : QueuedOnce(t) => (InQueue(t)' <=> InQueue(t) /\ t # e)
  BY <1>2, <1>3 DEF InQueue, QueuedOnce
<1>6. \A t : QueuedOnce(t) => QueuedOnce(t)'
  BY <1>2, <1>3 DEF QueuedOnce
<1> QED
  BY <1>2, <1>3, <1>4, <1>5, <1>6

\* A whole queue goes to the list.
LEMMA QueueDrained ==
  ASSUME Typed, NEW n \in Nodes, Held(n) \in Seq(Tasks), Held(n)' = << >>,
         \A m \in Nodes \ {n} : Held(m)' = Held(m),
         drained' = Held(n) \o drained,
         NEW t, QueuedOnce(t), DrainedOnce(t), ~(InQueue(t) /\ InDrained(t))
  PROVE  /\ InQueue(t)' <=> InQueue(t) /\ t \notin ToSet(Held(n))
         /\ InDrained(t)' <=> InDrained(t) \/ t \in ToSet(Held(n))
         /\ t \in ToSet(Held(n)) => InQueue(t)
         /\ QueuedOnce(t)' /\ DrainedOnce(t)'
<1>1. PICK s \in Seq(Tasks) : s = Held(n)
  OBVIOUS
<1>2. drained \in Seq(Tasks \cup {NoTask}) /\ DOMAIN << >> = {}
  BY DEF Typed
<1>0. s \in Seq(Tasks \cup {NoTask})
  OBVIOUS
<1>3. Held(n) = s /\ ToSet(Held(n)') = {} /\ Once(Held(n)', t)
  BY <1>1, <1>2 DEF ToSet, Once
<1>4. InQueue(t)' <=> InQueue(t) /\ t \notin ToSet(s)
  BY <1>3 DEF InQueue, QueuedOnce
<1>5. QueuedOnce(t)'
  BY <1>3 DEF QueuedOnce
<1>6. t \in ToSet(s) => InQueue(t)
  BY <1>3 DEF InQueue
<1>7. Once(s, t)
  BY <1>3 DEF QueuedOnce
<1>8. drained' = s \o drained
  BY <1>1
<1>9. ToSet(drained') = ToSet(s) \cup ToSet(drained)
  BY <1>0, <1>2, <1>8, ConcatOnce
<1>10. Once(drained', t)
  BY <1>0, <1>2, <1>6, <1>7, <1>8, ConcatOnce DEF DrainedOnce, InDrained
<1> QED
  BY <1>3, <1>4, <1>5, <1>6, <1>9, <1>10 DEF InDrained, DrainedOnce

\* What keeps its place.
LEMMA Kept ==
  /\ hand' = hand =>
        \A t : (InHand(t)' <=> InHand(t)) /\ (HandOnce(t) => HandOnce(t)')
  /\ task' = task =>
        \A t : (InTask(t)' <=> InTask(t)) /\ (TaskOnce(t) => TaskOnce(t)')
  /\ again' = again =>
        \A t : (InAgain(t)' <=> InAgain(t)) /\ (AgainOnce(t) => AgainOnce(t)')
  /\ drained' = drained =>
        \A t : (InDrained(t)' <=> InDrained(t)) /\ (DrainedOnce(t) => DrainedOnce(t)')
  /\ (\A n \in Nodes : Held(n)' = Held(n)) =>
        \A t : (InQueue(t)' <=> InQueue(t)) /\ (QueuedOnce(t) => QueuedOnce(t)')
<1>1. hand' = hand =>
        \A t : (InHand(t)' <=> InHand(t)) /\ (HandOnce(t) => HandOnce(t)')
  BY DEF InHand, HandOnce
<1>2. task' = task =>
        \A t : (InTask(t)' <=> InTask(t)) /\ (TaskOnce(t) => TaskOnce(t)')
  BY DEF InTask, TaskOnce
<1>3. again' = again =>
        \A t : (InAgain(t)' <=> InAgain(t)) /\ (AgainOnce(t) => AgainOnce(t)')
  BY DEF InAgain, AgainOnce
<1>4. drained' = drained =>
        \A t : (InDrained(t)' <=> InDrained(t)) /\ (DrainedOnce(t) => DrainedOnce(t)')
  BY DEF InDrained, DrainedOnce
<1>5. (\A n \in Nodes : Held(n)' = Held(n)) =>
        \A t : (InQueue(t)' <=> InQueue(t)) /\ (QueuedOnce(t) => QueuedOnce(t)')
  BY DEF InQueue, QueuedOnce
<1> QED
  BY <1>1, <1>2, <1>3, <1>4, <1>5

LEMMA NothingMoves ==
  ASSUME TaskInv, UNCHANGED <<hand, task, again, drained>>, needed' \subseteq needed,
         \A n \in Nodes : Held(n)' = Held(n)
  PROVE  TaskInv'
BY Kept DEF TaskInv, OnePlace, OneKind

LEMMA HeldTasks ==
  ASSUME Typed
  PROVE  \A n \in Nodes : Held(n) \in Seq(Tasks)
BY DEF Typed, Held

\* The queues that keep their tasks.
LEMMA HeldKept ==
  ASSUME Typed, DrainInv, NEW p \in Procs,
         \/ UNCHANGED <<chain, node, taken>>
         \/ UNCHANGED <<chain, taken>> /\ (\A n \in Nodes : node'[n].items = node[n].items)
         \/ QueueMade(p) \/ Drain(p)
  PROVE  \A n \in Nodes : Held(n)' = Held(n)
<1>1. CASE UNCHANGED <<chain, node, taken>>
  BY <1>1 DEF Held, Linked
<1>2. CASE UNCHANGED <<chain, taken>> /\ (\A n \in Nodes : node'[n].items = node[n].items)
  BY <1>2 DEF Held, Linked
<1>3. CASE QueueMade(p)
  <2>1. PICK n \in Nodes \ ToSet(chain) :
           /\ node'[n].items = << >> /\ \A m \in Nodes \ {n} : node'[m] = node[m]
           /\ ToSet(chain') = ToSet(chain) \cup {n}
    BY <1>3 DEF QueueMade
  <2>2. taken = << >> /\ taken' = << >>
    BY <1>3, NoDrain DEF QueueMade, gc
  <2>3. ToSet(<< >>) = {}
    BY DEF ToSet
  <2>4. Linked = ToSet(chain) /\ Linked' = ToSet(chain) \cup {n}
    BY <2>1, <2>2, <2>3 DEF Linked
  <2> QED
    BY <2>1, <2>4 DEF Held
<1>4. CASE Drain(p)
  <2>1. /\ chain' = << >> /\ taken' = chain /\ node' = node
        /\ \A q \in Procs : pc[q] # "drain"
    BY <1>4 DEF Drain
  <2>2. taken = << >>
    BY <2>1 DEF DrainInv
  <2>3. Linked' = Linked
    BY <2>1, <2>2 DEF Linked
  <2> QED
    BY <2>1, <2>3 DEF Held
<1> QED
  BY <1>1, <1>2, <1>3, <1>4

\* From a hand to a PUT-WORK.
LEMMA TasksStart ==
  ASSUME Typed, PlaceInv, DrainInv, TaskInv, NEW p \in Procs, NEW e \in Tasks, StartPut(p, e)
  PROVE  TaskInv'
<1>1. /\ e \in hand[p] /\ task[p] = NoTask
      /\ hand' = [hand EXCEPT ![p] = @ \ {e}] /\ task' = [task EXCEPT ![p] = e]
      /\ UNCHANGED <<again, drained, chain, node, taken, needed>>
  BY DEF StartPut, Running, PlaceInv, PlaceAt, Putting, shared, gc
<1>2. /\ InHand(e)
      /\ \A t \in Tasks : HandOnce(t) => (InHand(t)' <=> InHand(t) /\ t # e)
      /\ \A t \in Tasks : HandOnce(t) => HandOnce(t)'
  BY <1>1, HandLeaves
<1>3. /\ \A t \in Tasks : InTask(t)' <=> InTask(t) \/ t = e
      /\ \A t \in Tasks : TaskOnce(t) /\ (t = e => ~InTask(t)) => TaskOnce(t)'
  BY <1>1, TaskEnters
<1>4. /\ \A t : (InAgain(t)' <=> InAgain(t)) /\ (AgainOnce(t) => AgainOnce(t)')
      /\ \A t : (InDrained(t)' <=> InDrained(t)) /\ (DrainedOnce(t) => DrainedOnce(t)')
      /\ \A t : (InQueue(t)' <=> InQueue(t)) /\ (QueuedOnce(t) => QueuedOnce(t)')
  BY <1>1, Kept, HeldKept
<1> SUFFICES ASSUME NEW t \in Tasks PROVE OnePlace(t)'
  BY DEF TaskInv
<1>5. OnePlace(t)
  BY DEF TaskInv
<1> QED
  BY <1>1, <1>2, <1>3, <1>4, <1>5 DEF OnePlace, OneKind

\* From an interrupted PUT-WORK to its repetition.
LEMMA TasksRestart ==
  ASSUME Typed, PlaceInv, DrainInv, TaskInv, NEW p \in Procs, RestartPut(p)
  PROVE  TaskInv'
<1>0. PICK e : e = Head(again[p])
  OBVIOUS
<1>1. /\ again[p] # << >> /\ task[p] = NoTask
      /\ again' = [again EXCEPT ![p] = Tail(@)] /\ task' = [task EXCEPT ![p] = e]
      /\ UNCHANGED <<hand, drained, chain, node, taken, needed>>
  BY <1>0 DEF RestartPut, Running, PlaceInv, PlaceAt, Putting, shared, gc
<1>e. e \in Tasks
  BY <1>0, <1>1, AgainLeaves
<1>2. /\ InAgain(e)
      /\ \A t \in Tasks : AgainOnce(t) => (InAgain(t)' <=> InAgain(t) /\ t # e)
      /\ \A t \in Tasks : AgainOnce(t) => AgainOnce(t)'
  BY <1>0, <1>1, AgainLeaves
<1>3. /\ \A t \in Tasks : InTask(t)' <=> InTask(t) \/ t = e
      /\ \A t \in Tasks : TaskOnce(t) /\ (t = e => ~InTask(t)) => TaskOnce(t)'
  BY <1>1, <1>e, TaskEnters
<1>4. /\ \A t : (InHand(t)' <=> InHand(t)) /\ (HandOnce(t) => HandOnce(t)')
      /\ \A t : (InDrained(t)' <=> InDrained(t)) /\ (DrainedOnce(t) => DrainedOnce(t)')
      /\ \A t : (InQueue(t)' <=> InQueue(t)) /\ (QueuedOnce(t) => QueuedOnce(t)')
  BY <1>1, Kept, HeldKept
<1> SUFFICES ASSUME NEW t \in Tasks PROVE OnePlace(t)'
  BY DEF TaskInv
<1>5. OnePlace(t)
  BY DEF TaskInv
<1> QED
  BY <1>1, <1>2, <1>3, <1>4, <1>5 DEF OnePlace, OneKind

\* From a PUT-WORK to those that are interrupted.
LEMMA TasksGivenUp ==
  ASSUME Typed, PlaceInv, DrainInv, TaskInv, NEW p \in Procs, PutGivenUp(p)
  PROVE  TaskInv'
<1>0. PICK e \in Tasks : e = task[p]
  BY DEF PutGivenUp
<1>1. /\ again' = [again EXCEPT ![p] = <<e>> \o @]
      /\ task' = [task EXCEPT ![p] = NoTask]
      /\ UNCHANGED <<hand, drained, chain, node, taken, needed>>
  BY <1>0 DEF PutGivenUp, shared
<1>2. /\ InTask(e)
      /\ \A t \in Tasks : TaskOnce(t) => (InTask(t)' <=> InTask(t) /\ t # e)
      /\ \A t \in Tasks : TaskOnce(t) => TaskOnce(t)'
  BY <1>0, <1>1, TaskLeaves
<1>3. /\ \A t \in Tasks : InAgain(t)' <=> InAgain(t) \/ t = e
      /\ \A t \in Tasks : AgainOnce(t) /\ (t = e => ~InAgain(t)) => AgainOnce(t)'
  BY <1>1, AgainEnters
<1>4. /\ \A t : (InHand(t)' <=> InHand(t)) /\ (HandOnce(t) => HandOnce(t)')
      /\ \A t : (InDrained(t)' <=> InDrained(t)) /\ (DrainedOnce(t) => DrainedOnce(t)')
      /\ \A t : (InQueue(t)' <=> InQueue(t)) /\ (QueuedOnce(t) => QueuedOnce(t)')
  BY <1>1, Kept, HeldKept
<1> SUFFICES ASSUME NEW t \in Tasks PROVE OnePlace(t)'
  BY DEF TaskInv
<1>5. OnePlace(t)
  BY DEF TaskInv
<1> QED
  BY <1>1, <1>2, <1>3, <1>4, <1>5 DEF OnePlace, OneKind

\* From a PUT-WORK to a queue.
LEMMA TasksLinked ==
  ASSUME Typed, PlaceInv, DrainInv, TaskInv, NEW p \in Procs, TaskLinked(p)
  PROVE  TaskInv'
<1>0. PICK e \in Tasks, n \in Nodes : e = task[p] /\ n = at[p]
  BY DEF TaskLinked
<1>1. /\ n \in ToSet(chain) /\ node'[n].items = Append(node[n].items, e)
      /\ \A m \in Nodes \ {n} : node'[m] = node[m]
      /\ task' = [task EXCEPT ![p] = NoTask]
      /\ UNCHANGED <<hand, again, drained, chain, taken, needed>>
  BY <1>0 DEF TaskLinked, gc
<1>h. /\ Held(n) \in Seq(Tasks) /\ Held(n)' = Append(Held(n), e)
      /\ \A m \in Nodes \ {n} : Held(m)' = Held(m)
  BY <1>1, HeldTasks DEF Held, Linked
<1>2. /\ InTask(e)
      /\ \A t \in Tasks : TaskOnce(t) => (InTask(t)' <=> InTask(t) /\ t # e)
      /\ \A t \in Tasks : TaskOnce(t) => TaskOnce(t)'
  BY <1>0, <1>1, TaskLeaves
<1>3. /\ \A t \in Tasks : InQueue(t)' <=> InQueue(t) \/ t = e
      /\ \A t \in Tasks : QueuedOnce(t) /\ (t = e => ~InQueue(t)) => QueuedOnce(t)'
  BY <1>h, QueueEnters
<1>4. /\ \A t : (InHand(t)' <=> InHand(t)) /\ (HandOnce(t) => HandOnce(t)')
      /\ \A t : (InAgain(t)' <=> InAgain(t)) /\ (AgainOnce(t) => AgainOnce(t)')
      /\ \A t : (InDrained(t)' <=> InDrained(t)) /\ (DrainedOnce(t) => DrainedOnce(t)')
  BY <1>1, Kept
<1> SUFFICES ASSUME NEW t \in Tasks PROVE OnePlace(t)'
  BY DEF TaskInv
<1>5. OnePlace(t)
  BY DEF TaskInv
<1> QED
  BY <1>1, <1>2, <1>3, <1>4, <1>5 DEF OnePlace, OneKind

\* From a queue to a hand.
LEMMA TasksPopped ==
  ASSUME Typed, PlaceInv, DrainInv, TaskInv, NEW p \in Procs, TaskPopped(p)
  PROVE  TaskInv'
<1>0. PICK n \in Nodes : n = at[p]
  BY DEF TaskPopped
<1>e. PICK e : e = Head(node[n].items)
  OBVIOUS
<1>1. /\ n \in ToSet(chain) /\ node'[n].items = Tail(node[n].items)
      /\ node[n].items # << >>
      /\ \A m \in Nodes \ {n} : node'[m] = node[m]
      /\ hand' = [hand EXCEPT ![p] = @ \cup {e}]
      /\ UNCHANGED <<task, again, drained, chain, taken, needed>>
  BY <1>0, <1>e DEF TaskPopped, gc
<1>h. /\ Held(n) \in Seq(Tasks) /\ Held(n)' = Tail(Held(n)) /\ Held(n) # << >>
      /\ e = Head(Held(n)) /\ \A m \in Nodes \ {n} : Held(m)' = Held(m)
  BY <1>1, <1>e, HeldTasks DEF Held, Linked
<1>2. /\ InQueue(e)
      /\ \A t \in Tasks : QueuedOnce(t) => (InQueue(t)' <=> InQueue(t) /\ t # e)
      /\ \A t \in Tasks : QueuedOnce(t) => QueuedOnce(t)'
  <2>1. e = Head(Held(n))
    BY <1>h
  <2>2. /\ InQueue(Head(Held(n)))
        /\ \A t : QueuedOnce(t) => (InQueue(t)' <=> InQueue(t) /\ t # Head(Held(n)))
        /\ \A t : QueuedOnce(t) => QueuedOnce(t)'
    BY <1>h, QueueLeaves
  <2> QED
    BY <2>1, <2>2
<1>3. /\ \A t \in Tasks : InHand(t)' <=> InHand(t) \/ t = e
      /\ \A t \in Tasks : HandOnce(t) /\ (t = e => ~InHand(t)) => HandOnce(t)'
  BY <1>1, HandEnters
<1>4. /\ \A t : (InTask(t)' <=> InTask(t)) /\ (TaskOnce(t) => TaskOnce(t)')
      /\ \A t : (InAgain(t)' <=> InAgain(t)) /\ (AgainOnce(t) => AgainOnce(t)')
      /\ \A t : (InDrained(t)' <=> InDrained(t)) /\ (DrainedOnce(t) => DrainedOnce(t)')
  BY <1>1, Kept
<1> SUFFICES ASSUME NEW t \in Tasks PROVE OnePlace(t)'
  BY DEF TaskInv
<1>5. OnePlace(t)
  BY DEF TaskInv
<1> QED
  BY <1>1, <1>2, <1>3, <1>4, <1>5 DEF OnePlace, OneKind

\* From the list to a PUT-WORK of the master.
LEMMA TasksRestored ==
  ASSUME Typed, PlaceInv, DrainInv, TaskInv, NEW p \in Procs, RestoreOne(p)
  PROVE  TaskInv'
<1>0. PICK e : e = Head(drained)
  OBVIOUS
<1>1. /\ drained # << >> /\ task[p] = NoTask
      /\ drained' = Tail(drained) /\ task' = [task EXCEPT ![p] = e]
      /\ UNCHANGED <<hand, again, chain, node, taken, needed>>
  BY <1>0 DEF RestoreOne, NextUnit, PlaceInv, PlaceAt, Putting, shared
<1>e. e \in Tasks
  BY <1>0, <1>1, DrainedLeaves DEF RestoreOne
<1>2. /\ InDrained(e)
      /\ \A t \in Tasks : DrainedOnce(t) => (InDrained(t)' <=> InDrained(t) /\ t # e)
      /\ \A t \in Tasks : DrainedOnce(t) => DrainedOnce(t)'
  BY <1>0, <1>1, DrainedLeaves
<1>3. /\ \A t \in Tasks : InTask(t)' <=> InTask(t) \/ t = e
      /\ \A t \in Tasks : TaskOnce(t) /\ (t = e => ~InTask(t)) => TaskOnce(t)'
  BY <1>1, <1>e, TaskEnters
<1>4. /\ \A t : (InHand(t)' <=> InHand(t)) /\ (HandOnce(t) => HandOnce(t)')
      /\ \A t : (InAgain(t)' <=> InAgain(t)) /\ (AgainOnce(t) => AgainOnce(t)')
      /\ \A t : (InQueue(t)' <=> InQueue(t)) /\ (QueuedOnce(t) => QueuedOnce(t)')
  BY <1>1, Kept, HeldKept
<1> SUFFICES ASSUME NEW t \in Tasks PROVE OnePlace(t)'
  BY DEF TaskInv
<1>5. OnePlace(t)
  BY DEF TaskInv
<1> QED
  BY <1>1, <1>2, <1>3, <1>4, <1>5 DEF OnePlace, OneKind

\* From a PUT-WORK back to the hand.
LEMMA TasksRefused ==
  ASSUME Typed, PlaceInv, DrainInv, TaskInv, NEW p \in Procs, PutError(p)
  PROVE  TaskInv'
<1>0. PICK e \in Tasks : e = task[p]
  BY DEF PutError, Step, PlaceInv, PlaceAt, Putting, Typed
<1>1. /\ hand' = [hand EXCEPT ![p] = @ \cup {e}]
      /\ task' = [task EXCEPT ![p] = NoTask]
      /\ UNCHANGED <<again, drained, chain, node, taken, needed>>
  BY <1>0 DEF PutError, shared, gc
<1>2. /\ InTask(e)
      /\ \A t \in Tasks : TaskOnce(t) => (InTask(t)' <=> InTask(t) /\ t # e)
      /\ \A t \in Tasks : TaskOnce(t) => TaskOnce(t)'
  BY <1>0, <1>1, TaskLeaves
<1>3. /\ \A t \in Tasks : InHand(t)' <=> InHand(t) \/ t = e
      /\ \A t \in Tasks : HandOnce(t) /\ (t = e => ~InHand(t)) => HandOnce(t)'
  BY <1>1, HandEnters
<1>4. /\ \A t : (InAgain(t)' <=> InAgain(t)) /\ (AgainOnce(t) => AgainOnce(t)')
      /\ \A t : (InDrained(t)' <=> InDrained(t)) /\ (DrainedOnce(t) => DrainedOnce(t)')
      /\ \A t : (InQueue(t)' <=> InQueue(t)) /\ (QueuedOnce(t) => QueuedOnce(t)')
  BY <1>1, Kept, HeldKept
<1> SUFFICES ASSUME NEW t \in Tasks PROVE OnePlace(t)'
  BY DEF TaskInv
<1>5. OnePlace(t)
  BY DEF TaskInv
<1> QED
  BY <1>1, <1>2, <1>3, <1>4, <1>5 DEF OnePlace, OneKind

\* An empty weak pair of the list is skipped.
LEMMA TasksSkipped ==
  ASSUME Typed, PlaceInv, DrainInv, TaskInv, NEW p \in Procs, RestoreNone(p)
  PROVE  TaskInv'
<1>1. /\ drained # << >> /\ drained' = Tail(drained) /\ Head(drained) = NoTask
      /\ UNCHANGED <<hand, again, task, chain, node, taken, needed>>
  BY DEF RestoreNone, NextUnit, shared
<1>2. /\ \A t \in Tasks : DrainedOnce(t) => (InDrained(t)' <=> InDrained(t))
      /\ \A t \in Tasks : DrainedOnce(t) => DrainedOnce(t)'
  BY <1>1, DrainedLeaves, TasksAssumption
<1>3. /\ \A t : (InHand(t)' <=> InHand(t)) /\ (HandOnce(t) => HandOnce(t)')
      /\ \A t : (InTask(t)' <=> InTask(t)) /\ (TaskOnce(t) => TaskOnce(t)')
      /\ \A t : (InAgain(t)' <=> InAgain(t)) /\ (AgainOnce(t) => AgainOnce(t)')
      /\ \A t : (InQueue(t)' <=> InQueue(t)) /\ (QueuedOnce(t) => QueuedOnce(t)')
  BY <1>1, Kept, HeldKept
<1> QED
  BY <1>1, <1>2, <1>3 DEF TaskInv, OnePlace, OneKind

\* The collection drops tasks of the list, but none that is needed.
LEMMA TasksDropped ==
  ASSUME Typed, PlaceInv, DrainInv, TaskInv, NEW p \in Procs, DrainEnd(p)
  PROVE  TaskInv'
<1>1. PICK kept \in SUBSET Tasks :
         /\ needed \subseteq kept
         /\ drained' = [i \in DOMAIN drained |->
                           IF drained[i] \in kept THEN drained[i] ELSE NoTask]
  BY DEF DrainEnd
<1>2. UNCHANGED <<hand, again, task, chain, node, taken, needed>>
  BY DEF DrainEnd, shared, local
<1>3. \A t \in Tasks : /\ InDrained(t)' <=> InDrained(t) /\ t \in kept
                       /\ DrainedOnce(t) => DrainedOnce(t)'
  BY <1>1, DrainedBreaks
<1>4. /\ \A t : (InHand(t)' <=> InHand(t)) /\ (HandOnce(t) => HandOnce(t)')
      /\ \A t : (InTask(t)' <=> InTask(t)) /\ (TaskOnce(t) => TaskOnce(t)')
      /\ \A t : (InAgain(t)' <=> InAgain(t)) /\ (AgainOnce(t) => AgainOnce(t)')
      /\ \A t : (InQueue(t)' <=> InQueue(t)) /\ (QueuedOnce(t) => QueuedOnce(t)')
  BY <1>2, Kept, HeldKept
<1> QED
  BY <1>1, <1>2, <1>3, <1>4 DEF TaskInv, OnePlace, OneKind

\* From a queue to the list.
LEMMA TasksDrained ==
  ASSUME Typed, PlaceInv, DrainInv, TaskInv, NEW p \in Procs, DrainOne(p)
  PROVE  TaskInv'
<1>1. /\ taken # << >> /\ taken' = Tail(taken) /\ pc[p] = "drain"
      /\ drained' = node[Head(taken)].items \o drained
      /\ UNCHANGED <<chain, node, hand, task, again, needed>>
  BY DEF DrainOne, shared, local
<1>2. chain = << >> /\ taken \in Seq(Nodes) /\ \A t : Once(taken, t)
  BY <1>1 DEF DrainInv, Typed, Once
<1>3. PICK n : n = Head(taken)
  OBVIOUS
<1>4. /\ n \in Nodes /\ ToSet(taken) = {n} \cup ToSet(taken')
      /\ n \notin ToSet(taken')
  BY <1>1, <1>2, <1>3, TailOnce
<1>5. ToSet(<< >>) = {}
  BY DEF ToSet
<1>6. Linked = ToSet(taken) /\ Linked' = ToSet(taken')
  BY <1>1, <1>2, <1>5 DEF Linked
<1>7. /\ Held(n) = node[n].items /\ Held(n)' = << >>
      /\ \A m \in Nodes \ {n} : Held(m)' = Held(m)
  BY <1>1, <1>4, <1>6 DEF Held
<1>8. Held(n) \in Seq(Tasks) /\ drained' = Held(n) \o drained
  BY <1>1, <1>3, <1>4, <1>7, HeldTasks
<1>9. /\ \A t : (InHand(t)' <=> InHand(t)) /\ (HandOnce(t) => HandOnce(t)')
      /\ \A t : (InTask(t)' <=> InTask(t)) /\ (TaskOnce(t) => TaskOnce(t)')
      /\ \A t : (InAgain(t)' <=> InAgain(t)) /\ (AgainOnce(t) => AgainOnce(t)')
  BY <1>1, Kept
<1> SUFFICES ASSUME NEW t \in Tasks PROVE OnePlace(t)'
  BY DEF TaskInv
<1>10. OnePlace(t)
  BY DEF TaskInv
<1>11. /\ InQueue(t)' <=> InQueue(t) /\ t \notin ToSet(Held(n))
       /\ InDrained(t)' <=> InDrained(t) \/ t \in ToSet(Held(n))
       /\ t \in ToSet(Held(n)) => InQueue(t)
       /\ QueuedOnce(t)' /\ DrainedOnce(t)'
  <2>1. QueuedOnce(t) /\ DrainedOnce(t) /\ ~(InQueue(t) /\ InDrained(t))
    BY <1>10 DEF OnePlace, OneKind
  <2> QED
    BY <1>4, <1>7, <1>8, <2>1, QueueDrained
<1> QED
  BY <1>1, <1>9, <1>10, <1>11 DEF OnePlace, OneKind

LEMMA StepTasks ==
  ASSUME Typed, PlaceInv, DrainInv, TaskInv, NEW p \in Procs, Does(p)
  PROVE  TaskInv'
<1>1. CASE \E t \in Tasks : StartPut(p, t)
  BY <1>1, TasksStart
<1>2. CASE \/ RestartPut(p) \/ PutGivenUp(p) \/ TaskLinked(p) \/ TaskPopped(p)
           \/ RestoreOne(p) \/ RestoreNone(p) \/ PutError(p)
           \/ DrainOne(p) \/ DrainEnd(p)
  BY <1>2, TasksRestart, TasksGivenUp, TasksLinked, TasksPopped, TasksRestored,
     TasksSkipped, TasksRefused, TasksDrained, TasksDropped
<1>3. CASE \/ PutLockWork(p) \/ QueueFound(p) \/ PutUnlockWork(p) \/ StartGet(p)
           \/ GetLockWork(p) \/ GetNothing(p) \/ GetSkip(p) \/ GetCount(p)
           \/ Park(p) \/ \E t \in Tasks : Forget(p, t)
  <2>1. /\ UNCHANGED <<chain, node, taken, hand, task, again, drained>>
        /\ needed' \subseteq needed
    BY <1>3 DEF PutLockWork, QueueFound, PutUnlockWork, StartGet, GetLockWork,
                GetNothing, GetSkip, GetCount, Park, Forget, shared, local, gc
  <2> QED
    BY <2>1, HeldKept, NothingMoves
<1>4. CASE NodeLocked(p) \/ Chosen(p)
  <2>1. /\ UNCHANGED <<chain, taken, hand, task, again, drained, needed>>
        /\ \A n \in Nodes : node'[n].items = node[n].items
    BY <1>4 DEF NodeLocked, Chosen, local, gc
  <2> QED
    BY <2>1, HeldKept, NothingMoves
<1>5. CASE QueueMade(p) \/ Drain(p)
  <2>1. UNCHANGED <<hand, task, again, drained, needed>>
    BY <1>5 DEF QueueMade, Drain, local, gc
  <2> QED
    BY <1>5, <2>1, HeldKept, NothingMoves
<1> QED
  BY <1>1, <1>2, <1>3, <1>4, <1>5 DEF Does

-----------------------------------------------------------------------------
(* The length *)

LEMMA ProcsFinite ==
  /\ IsFiniteSet(Announced) /\ IsFiniteSet(Popping)
  /\ Cardinality(Announced) \in Nat /\ Cardinality(Popping) \in Nat
<1>1. IsFiniteSet(Procs) /\ Announced \in SUBSET Procs /\ Popping \in SUBSET Procs
  BY ProcsAssumption DEF Announced, Popping
<1>2. IsFiniteSet(Announced) /\ IsFiniteSet(Popping)
  BY <1>1, FS_Subset
<1> QED
  BY <1>2, FS_CardinalityType

\* A queue that somebody pops from holds a task, and he alone pops from it.
LEMMA PoppingFits ==
  ASSUME Typed, LockInv, PlaceInv, IsFiniteSet(Slots)
  PROVE  Cardinality(Popping) <= Cardinality(Slots)
<1>1. Cardinality(Slots) \in Nat /\ Cardinality(Popping) \in Nat /\ IsFiniteSet(Popping)
  BY FS_CardinalityType, ProcsFinite
<1>2. ASSUME NEW p \in Popping
      PROVE  <<at[p], 1>> \in Slots
  <2>1. p \in Procs /\ pc[p] = "getPop"
    BY DEF Popping
  <2>2. at[p] \in ToSet(chain) /\ node[at[p]].items # << >>
    BY <2>1 DEF PlaceInv, PlaceAt, AtNode, HasNode
  <2>3. at[p] \in Nodes
    BY <2>2 DEF Typed, ToSet
  <2>4. node[at[p]].items \in Seq(Tasks)
    BY <2>3 DEF Typed
  <2>5. 1 \in DOMAIN node[at[p]].items
    BY <2>2, <2>4
  <2> QED
    BY <2>2, <2>5 DEF Slots
<1>3. ASSUME NEW p \in Popping, NEW q \in Popping, at[p] = at[q]
      PROVE  p = q
  BY <1>3 DEF Popping, LockInv, HasNode
<1> DEFINE f == [p \in Popping |-> <<at[p], 1>>]
<1>4. f \in [Popping -> Slots]
  BY <1>2
<1>5. \A p, q \in Popping : f[p] = f[q] => p = q
  BY <1>3
<1> HIDE DEF f
<1>6. ~(Cardinality(Slots) < Cardinality(Popping))
  BY <1>1, <1>4, <1>5, FS_PigeonHole
<1> QED
  BY <1>1, <1>6

LEMMA LengthIsNat ==
  ASSUME Typed, LockInv, PlaceInv, LengthInv
  PROVE  TrueLength \in Nat
<1>1. Cardinality(Popping) <= Cardinality(Slots) /\ Cardinality(Slots) \in Nat
  BY PoppingFits, FS_CardinalityType DEF LengthInv
<1> QED
  BY <1>1, ProcsFinite DEF TrueLength

\* The slots of the queues.
LEMMA SlotsChange ==
  ASSUME Typed, NEW n \in ToSet(chain), chain' = chain,
         \A m \in Nodes \ {n} : node'[m] = node[m]
  PROVE  \A x : x \in Slots' <=> \/ x \in Slots /\ x \notin {n} \X DOMAIN node[n].items
                                 \/ x \in {n} \X DOMAIN node'[n].items
<1>1. ToSet(chain) \subseteq Nodes
  BY DEF Typed, ToSet
<1> QED
  BY <1>1 DEF Slots

LEMMA SlotAdded ==
  ASSUME Typed, IsFiniteSet(Slots), NEW n \in ToSet(chain), chain' = chain,
         NEW e \in Tasks, node'[n].items = Append(node[n].items, e),
         \A m \in Nodes \ {n} : node'[m] = node[m]
  PROVE  IsFiniteSet(Slots') /\ Cardinality(Slots') = Cardinality(Slots) + 1
<1>1. n \in Nodes
  BY DEF Typed, ToSet
<1>2. PICK s \in Seq(Tasks) : s = node[n].items
  BY <1>1 DEF Typed
<1>3. /\ DOMAIN s = 1 .. Len(s) /\ Len(s) \in Nat
      /\ DOMAIN Append(s, e) = 1 .. Len(s) + 1
  OBVIOUS
<1>4. DOMAIN node'[n].items = DOMAIN s \cup {Len(s) + 1} /\ Len(s) + 1 \notin DOMAIN s
  BY <1>2, <1>3
<1>5. Slots' = Slots \cup {<<n, Len(s) + 1>>}
  <2>1. \A x : x \in Slots' <=> \/ x \in Slots /\ x \notin {n} \X DOMAIN s
                                \/ x \in {n} \X DOMAIN node'[n].items
    BY <1>2, SlotsChange
  <2>2. {n} \X DOMAIN s \subseteq Slots
    BY <1>2 DEF Slots
  <2>3. {n} \X (DOMAIN s \cup {Len(s) + 1}) = ({n} \X DOMAIN s) \cup {<<n, Len(s) + 1>>}
    OBVIOUS
  <2> QED
    BY <1>4, <2>1, <2>2, <2>3
<1>6. <<n, Len(s) + 1>> \notin Slots
  BY <1>2, <1>4 DEF Slots
<1> QED
  BY <1>5, <1>6, FS_AddElement

LEMMA SlotRemoved ==
  ASSUME Typed, IsFiniteSet(Slots), NEW n \in ToSet(chain), chain' = chain,
         node[n].items # << >>, node'[n].items = Tail(node[n].items),
         \A m \in Nodes \ {n} : node'[m] = node[m]
  PROVE  IsFiniteSet(Slots') /\ Cardinality(Slots') = Cardinality(Slots) - 1
<1>1. n \in Nodes
  BY DEF Typed, ToSet
<1>2. PICK s \in Seq(Tasks) : s = node[n].items
  BY <1>1 DEF Typed
<1>3. /\ DOMAIN s = 1 .. Len(s) /\ Len(s) \in Nat /\ Len(s) # 0
      /\ DOMAIN Tail(s) = 1 .. Len(s) - 1
  BY <1>2, Tailed
<1>4. DOMAIN node'[n].items = DOMAIN s \ {Len(s)} /\ Len(s) \in DOMAIN s
  BY <1>2, <1>3
<1>5. Slots' = Slots \ {<<n, Len(s)>>}
  <2>1. \A x : x \in Slots' <=> \/ x \in Slots /\ x \notin {n} \X DOMAIN s
                                \/ x \in {n} \X DOMAIN node'[n].items
    BY <1>2, SlotsChange
  <2>2. {n} \X DOMAIN s \subseteq Slots
    BY <1>2 DEF Slots
  <2>3. {n} \X (DOMAIN s \ {Len(s)}) = ({n} \X DOMAIN s) \ {<<n, Len(s)>>}
    OBVIOUS
  <2>4. <<n, Len(s)>> \in {n} \X DOMAIN s
    BY <1>4
  <2> QED
    BY <1>4, <2>1, <2>2, <2>3, <2>4
<1>6. <<n, Len(s)>> \in Slots
  BY <1>2, <1>4 DEF Slots
<1> QED
  BY <1>5, <1>6, FS_RemoveElement

\* Steps that count nothing.
LEMMA LengthKept ==
  ASSUME LengthInv, Slots' = Slots, Announced' = Announced, Popping' = Popping,
         workLength' = workLength
  PROVE  LengthInv'
BY DEF LengthInv, LengthIsExact, TrueLength

\* Who has announced a task, or is about to pop one.
LEMMA Counted ==
  ASSUME Typed, NEW p \in Procs, NEW l, pc' = [pc EXCEPT ![p] = l]
  PROVE  /\ (pc[p] \in Counting <=> l \in Counting) => Announced' = Announced
         /\ pc[p] \notin Counting /\ l \in Counting =>
               Announced' = Announced \cup {p} /\ p \notin Announced
         /\ pc[p] \in Counting /\ l \notin Counting =>
               Announced' = Announced \ {p} /\ p \in Announced
         /\ (pc[p] = "getPop" <=> l = "getPop") => Popping' = Popping
         /\ pc[p] # "getPop" /\ l = "getPop" =>
               Popping' = Popping \cup {p} /\ p \notin Popping
         /\ pc[p] = "getPop" /\ l # "getPop" =>
               Popping' = Popping \ {p} /\ p \in Popping
<1>1. pc'[p] = l /\ \A q \in Procs \ {p} : pc'[q] = pc[q]
  BY DEF Typed
<1> QED
  BY <1>1 DEF Announced, Popping, Counting

LEMMA StepLength ==
  ASSUME Typed, LockInv, PlaceInv, DrainInv, LengthInv, NEW p \in Procs, Does(p)
  PROVE  LengthInv'
<1>f. /\ IsFiniteSet(Slots) /\ Cardinality(Slots) \in Nat
      /\ IsFiniteSet(Announced) /\ IsFiniteSet(Popping)
      /\ Cardinality(Announced) \in Nat /\ Cardinality(Popping) \in Nat
      /\ workLength = Short(TrueLength)
  BY ProcsFinite, FS_CardinalityType DEF LengthInv, LengthIsExact
<1>t. TrueLength \in Int
  BY <1>f DEF TrueLength
<1>1. CASE PutLockWork(p)
  <2>1. /\ pc[p] = "putLockWork" /\ pc' = [pc EXCEPT ![p] = "putFind"]
        /\ workLength' = Short(workLength + 1) /\ UNCHANGED <<chain, node>>
    BY <1>1 DEF PutLockWork, Step, Goto
  <2>2. Announced' = Announced \cup {p} /\ Popping' = Popping /\ p \notin Announced
    BY <2>1, Counted DEF Counting
  <2>3. Slots' = Slots
    BY <2>1 DEF Slots
  <2>4. Cardinality(Announced') = Cardinality(Announced) + 1
    BY <1>f, <2>2, FS_AddElement
  <2>5. TrueLength' = TrueLength + 1
    BY <1>f, <2>2, <2>3, <2>4 DEF TrueLength
  <2>6. workLength' = Short(TrueLength + 1)
    BY <1>f, <1>t, <2>1, ShortCounts
  <2> QED
    BY <1>f, <2>3, <2>5, <2>6 DEF LengthInv, LengthIsExact
<1>2. CASE TaskLinked(p)
  <2>1. /\ pc[p] = "putLink" /\ pc' = [pc EXCEPT ![p] = "idle"]
        /\ workLength' = workLength
    BY <1>2 DEF TaskLinked
  <2>2. Announced' = Announced \ {p} /\ Popping' = Popping /\ p \in Announced
    <3>1. /\ pc[p] \in Counting /\ pc'[p] \notin Counting
          /\ pc[p] # "getPop" /\ pc'[p] # "getPop"
          /\ \A q \in Procs \ {p} : pc'[q] = pc[q]
      BY <2>1 DEF Counting, Typed
    <3> QED
      BY <3>1 DEF Announced, Popping, Counting
  <2>3. IsFiniteSet(Slots') /\ Cardinality(Slots') = Cardinality(Slots) + 1
    BY <1>2, <1>f, SlotAdded DEF TaskLinked
  <2>4. Cardinality(Announced') = Cardinality(Announced) - 1
    BY <1>f, <2>2, FS_RemoveElement
  <2>5. TrueLength' = TrueLength
    BY <1>f, <2>2, <2>3, <2>4 DEF TrueLength
  <2> QED
    BY <1>f, <2>1, <2>3, <2>5 DEF LengthInv, LengthIsExact
<1>3. CASE GetCount(p)
  <2>1. /\ pc[p] = "getCount" /\ pc' = [pc EXCEPT ![p] = "getPop"]
        /\ workLength' = Short(workLength - 1) /\ UNCHANGED <<chain, node>>
    BY <1>3 DEF GetCount, Step, Goto
  <2>2. Announced' = Announced /\ Popping' = Popping \cup {p} /\ p \notin Popping
    BY <2>1, Counted DEF Counting
  <2>3. Slots' = Slots
    BY <2>1 DEF Slots
  <2>4. Cardinality(Popping') = Cardinality(Popping) + 1
    BY <1>f, <2>2, FS_AddElement
  <2>5. TrueLength' = TrueLength - 1
    BY <1>f, <2>2, <2>3, <2>4 DEF TrueLength
  <2>6. workLength' = Short(TrueLength - 1)
    BY <1>f, <1>t, <2>1, ShortCounts
  <2> QED
    BY <1>f, <2>3, <2>5, <2>6 DEF LengthInv, LengthIsExact
<1>4. CASE TaskPopped(p)
  <2>1. /\ pc[p] = "getPop" /\ pc' = [pc EXCEPT ![p] = "idle"]
        /\ workLength' = workLength
    BY <1>4 DEF TaskPopped
  <2>2. Announced' = Announced /\ Popping' = Popping \ {p} /\ p \in Popping
    BY <2>1, Counted DEF Counting
  <2>3. IsFiniteSet(Slots') /\ Cardinality(Slots') = Cardinality(Slots) - 1
    BY <1>4, <1>f, SlotRemoved DEF TaskPopped
  <2>4. Cardinality(Popping') = Cardinality(Popping) - 1
    BY <1>f, <2>2, FS_RemoveElement
  <2>5. TrueLength' = TrueLength
    BY <1>f, <2>2, <2>3, <2>4 DEF TrueLength
  <2> QED
    BY <1>f, <2>1, <2>3, <2>5 DEF LengthInv, LengthIsExact
<1>5. CASE Drain(p)
  <2>1. /\ chain' = << >> /\ workLength' = 0
        /\ \A q \in Procs : pc'[q] \in {"drain", "parked"}
    BY <1>5 DEF Drain
  <2>2. Announced' = {} /\ Popping' = {}
    BY <2>1 DEF Announced, Popping, Counting
  <2>3. ToSet(<< >>) = {}
    BY DEF ToSet
  <2>4. Slots' = {}
    BY <2>1, <2>3 DEF Slots
  <2> QED
    BY <2>1, <2>2, <2>4, FS_EmptySet, Small DEF LengthInv, LengthIsExact, TrueLength
<1>6. CASE DrainEnd(p)
  <2>1. /\ pc[p] = "drain" /\ pc' = [q \in Procs |-> "idle"]
        /\ UNCHANGED <<chain, node, workLength>>
    BY <1>6 DEF DrainEnd, shared
  <2>2. \A q \in Procs : pc[q] \in {"drain", "parked"} /\ pc'[q] = "idle"
    BY <2>1 DEF DrainInv
  <2>3. Announced = {} /\ Popping = {} /\ Announced' = {} /\ Popping' = {}
    BY <2>2 DEF Announced, Popping, Counting
  <2> QED
    BY <2>1, <2>3, LengthKept DEF Slots
<1>7. CASE QueueMade(p)
  <2>1. PICK n \in Nodes \ ToSet(chain) :
           /\ node'[n].items = << >> /\ \A m \in Nodes \ {n} : node'[m] = node[m]
           /\ ToSet(chain') = ToSet(chain) \cup {n}
    BY <1>7 DEF QueueMade
  <2>2. /\ pc[p] = "putFind" /\ pc' = [pc EXCEPT ![p] = "putLockNode"]
        /\ workLength' = workLength
    BY <1>7 DEF QueueMade
  <2>3. DOMAIN << >> = {} /\ ToSet(chain) \subseteq Nodes
    BY DEF Typed, ToSet
  <2>4. Slots' = Slots
    BY <2>1, <2>3 DEF Slots
  <2>5. Announced' = Announced /\ Popping' = Popping
    BY <2>2, Counted DEF Counting
  <2> QED
    BY <2>2, <2>4, <2>5, LengthKept
<1>8. CASE \/ NodeLocked(p) \/ Chosen(p)
  <2>1. /\ \A m \in Nodes : node'[m].items = node[m].items
        /\ UNCHANGED <<chain, workLength>>
    BY <1>8 DEF NodeLocked, Chosen
  <2>2. ToSet(chain) \subseteq Nodes
    BY DEF Typed, ToSet
  <2>3. Slots' = Slots
    BY <2>1, <2>2 DEF Slots
  <2>4. Announced' = Announced /\ Popping' = Popping
    <3>1. CASE NodeLocked(p)
      BY <3>1, Counted DEF Counting, NodeLocked
    <3>2. CASE Chosen(p)
      <4>1. /\ pc[p] \notin Counting /\ pc'[p] \notin Counting
            /\ pc[p] # "getPop" /\ pc'[p] # "getPop"
            /\ \A q \in Procs \ {p} : pc'[q] = pc[q]
        BY <3>2 DEF Counting, Typed, Chosen
      <4> QED
        BY <4>1 DEF Announced, Popping, Counting
    <3> QED
      BY <1>8, <3>1, <3>2
  <2> QED
    BY <2>1, <2>3, <2>4, LengthKept
<1>9. CASE \/ \E t \in Tasks : StartPut(p, t)
           \/ RestartPut(p) \/ QueueFound(p) \/ PutGivenUp(p) \/ PutUnlockWork(p)
           \/ StartGet(p) \/ GetLockWork(p) \/ GetNothing(p) \/ GetSkip(p)
           \/ Park(p) \/ DrainOne(p) \/ RestoreOne(p) \/ RestoreNone(p) \/ PutError(p)
           \/ \E t \in Tasks : Forget(p, t)
  <2>1. UNCHANGED <<chain, node, workLength>>
    BY <1>9 DEF StartPut, RestartPut, QueueFound, PutGivenUp, PutUnlockWork, StartGet,
                GetLockWork, GetNothing, GetSkip, Park, DrainOne, RestoreOne,
                RestoreNone, NextUnit, PutError, Forget, shared
  <2>2. Slots' = Slots
    BY <2>1 DEF Slots
  <2>3. Announced' = Announced /\ Popping' = Popping
    <3>1. CASE \/ GetSkip(p) \/ DrainOne(p) \/ RestoreNone(p)
               \/ \E t \in Tasks : Forget(p, t)
      BY <3>1 DEF GetSkip, DrainOne, RestoreNone, Forget, Announced, Popping
    <3>2. CASE \/ QueueFound(p) \/ PutGivenUp(p) \/ PutUnlockWork(p)
      BY <3>2, Counted DEF QueueFound, PutGivenUp, PutUnlockWork, Step, Goto, Counting
    <3>3. CASE \/ \E t \in Tasks : StartPut(p, t)
               \/ RestartPut(p) \/ StartGet(p) \/ GetLockWork(p) \/ GetNothing(p)
               \/ RestoreOne(p) \/ PutError(p)
      <4>1. /\ pc[p] \notin Counting /\ pc'[p] \notin Counting
            /\ pc[p] # "getPop" /\ pc'[p] # "getPop"
        BY <3>3 DEF StartPut, RestartPut, StartGet, GetLockWork, GetNothing,
                    RestoreOne, NextUnit, PutError, Running, Step, Goto, Counting, Typed
      <4>2. \A q \in Procs \ {p} : pc'[q] = pc[q]
        BY <3>3 DEF StartPut, RestartPut, StartGet, GetLockWork, GetNothing,
                    RestoreOne, PutError, Running, Step, Goto, Typed
      <4> QED
        BY <4>1, <4>2 DEF Announced, Popping, Counting
    <3>4. CASE Park(p)
      <4>1. CASE pc[p] = "idle" /\ pc' = [pc EXCEPT ![p] = "parked"]
        <5>1. /\ pc[p] \notin Counting /\ pc'[p] \notin Counting
              /\ pc[p] # "getPop" /\ pc'[p] # "getPop"
              /\ \A q \in Procs \ {p} : pc'[q] = pc[q]
          BY <4>1 DEF Counting, Typed
        <5> QED
          BY <5>1 DEF Announced, Popping, Counting
      <4>2. CASE pc[p] = "full" /\ pc' = [pc EXCEPT ![p] = "parkedFull"]
        BY <4>2, Counted DEF Counting
      <4> QED
        BY <3>4, <4>1, <4>2 DEF Park, Goto
    <3> QED
      BY <1>9, <3>1, <3>2, <3>3, <3>4
  <2> QED
    BY <2>1, <2>2, <2>3, LengthKept
<1> QED
  BY <1>1, <1>2, <1>3, <1>4, <1>5, <1>6, <1>7, <1>8, <1>9 DEF Does

LEMMA StepShort ==
  ASSUME Typed, ShortInv, NEW p \in Procs, Does(p)
  PROVE  ShortInv'
<1>1. CASE NodeLocked(p) \/ TaskLinked(p) \/ Chosen(p) \/ TaskPopped(p)
  <2>1. \A n \in Nodes : node'[n].prio = node[n].prio
    BY <1>1 DEF NodeLocked, TaskLinked, Chosen, TaskPopped
  <2> QED
    BY <2>1 DEF ShortInv
<1>2. CASE QueueMade(p)
  <2>1. PICK n \in Nodes : /\ task[p] \in Tasks /\ node'[n].prio = Priority(task[p])
                          /\ \A m \in Nodes \ {n} : node'[m] = node[m]
    BY <1>2 DEF QueueMade
  <2> QED
    BY <2>1, PriorityIsInt DEF ShortInv
<1>3. CASE UNCHANGED node
  BY <1>3 DEF ShortInv
<1> QED
  BY <1>1, <1>2, <1>3
     DEF Does, StartPut, RestartPut, PutLockWork, QueueFound, PutGivenUp, PutUnlockWork,
         StartGet, GetLockWork, GetNothing, GetSkip, GetCount, Park, Drain, DrainOne,
         DrainEnd, RestoreOne, RestoreNone, NextUnit, PutError, Forget, shared

LEMMA StepAgain ==
  ASSUME Typed, AgainInv, NEW p \in Procs, Does(p)
  PROVE  AgainInv'
<1>1. CASE RestartPut(p)
  BY <1>1 DEF RestartPut, Running, Goto, AgainInv, Typed
<1>2. CASE PutGivenUp(p)
  <2>1. PICK e \in Tasks, s \in Seq(Tasks) : e = task[p] /\ s = again[p]
    BY <1>2 DEF PutGivenUp, Typed
  <2>0. again' = [again EXCEPT ![p] = <<e>> \o s]
    BY <1>2, <2>1 DEF PutGivenUp
  <2>2. again'[p] = <<e>> \o s /\ \A q \in Procs \ {p} : again'[q] = again[q]
    BY <2>0 DEF Typed
  <2>3. <<e>> \o s # << >>
    BY <2>1, Prepended
  <2>4. \A q \in Procs \ {p} : pc'[q] = pc[q]
    BY <1>2 DEF PutGivenUp, Typed
  <2> QED
    BY <2>2, <2>3, <2>4 DEF AgainInv
<1>3. CASE Drain(p) \/ DrainEnd(p)
  <2>1. \A q \in Procs : pc'[q] \in {"drain", "parked", "idle"}
    BY <1>3 DEF Drain, DrainEnd
  <2> QED
    BY <2>1 DEF AgainInv
<1>4. CASE /\ again' = again /\ \A q \in Procs : pc'[q] \in {"full", "parkedFull"} =>
                                              pc[q] \in {"full", "parkedFull"}
  BY <1>4 DEF AgainInv
<1>5. CASE Park(p)
  BY <1>4, <1>5 DEF Park, Goto, local, Typed
<1>6. CASE \/ \E t \in Tasks : StartPut(p, t)
           \/ PutLockWork(p) \/ QueueFound(p) \/ QueueMade(p) \/ NodeLocked(p)
           \/ PutUnlockWork(p) \/ TaskLinked(p) \/ PutError(p)
  BY <1>4, <1>6 DEF StartPut, PutLockWork, QueueFound, QueueMade, NodeLocked,
     PutUnlockWork, TaskLinked, PutError, Step, Goto, local, Typed
<1>7. CASE \/ StartGet(p) \/ GetLockWork(p) \/ GetNothing(p) \/ GetSkip(p) \/ Chosen(p)
           \/ GetCount(p) \/ TaskPopped(p) \/ DrainOne(p) \/ RestoreOne(p)
           \/ RestoreNone(p) \/ \E t \in Tasks : Forget(p, t)
  BY <1>4, <1>7 DEF StartGet, GetLockWork, GetNothing, GetSkip, Chosen, GetCount,
     TaskPopped, DrainOne, RestoreOne, RestoreNone, NextUnit, Forget, Step, Goto, local,
     Typed
<1> QED
  BY <1>1, <1>2, <1>3, <1>5, <1>6, <1>7 DEF Does

-----------------------------------------------------------------------------
(* The invariant *)

LEMMA InitInv == Init => IInv
<1> SUFFICES ASSUME Init PROVE IInv
  OBVIOUS
<1>0. \A s : s = << >> => DOMAIN s = {} /\ ToSet(s) = {} /\ \A t : Once(s, t)
  BY DEF ToSet, Once
<1>1. \A n \in Nodes : /\ node[n] \in [lock : BOOLEAN, prio : Int, items : Seq(Tasks)]
                       /\ node[n].items = << >>
  <2>1. << >> \in Seq(Tasks)
    OBVIOUS
  <2> QED
    BY <2>1 DEF Init, NewNode
<1>2. PICK p0 \in Procs : hand = [q \in Procs |-> IF q = p0 THEN Tasks ELSE {}]
  BY DEF Init
<1>3. Typed
  <2>1. hand \in [Procs -> SUBSET Tasks]
    BY <1>2
  <2>2. node \in [Nodes -> [lock : BOOLEAN, prio : Int, items : Seq(Tasks)]]
    BY <1>1 DEF Init
  <2>3. /\ chain \in Seq(Nodes) /\ taken \in Seq(Nodes)
        /\ drained \in Seq(Tasks \cup {NoTask}) /\ needed \subseteq Tasks
        /\ again \in [Procs -> Seq(Tasks)]
    BY DEF Init
  <2> QED
    <3>1. workLock \in BOOLEAN
      BY DEF Init
    <3>4. workLength \in Int /\ master \in Procs \cup {"none"}
      BY DEF Init
    <3>2. /\ pc \in [Procs -> Labels] /\ task \in [Procs -> Tasks \cup {NoTask}]
          /\ at \in [Procs -> Nodes \cup {NULL}]
      BY DEF Init, Labels
    <3>3. puts \in 0 .. MaxPuts /\ full \in 0 .. MaxFull
      BY BoundsAssumption DEF Init
    <3> QED
      BY <2>1, <2>2, <2>3, <3>1, <3>2, <3>3, <3>4 DEF Typed
<1>4. LockInv /\ PlaceInv /\ WalkInv
  BY DEF Init, LockInv, PlaceInv, PlaceAt, WalkInv, HasWork, HasNode, AtNode, Putting
<1>5. Sorted /\ DrainInv
  BY <1>0 DEF Init, Sorted, DrainInv
<1>6. TaskInv
  <2> SUFFICES ASSUME NEW t \in Tasks PROVE OnePlace(t)
    BY DEF TaskInv
  <2>1. InHand(t) /\ HandOnce(t)
    BY <1>2 DEF InHand, HandOnce
  <2>2. ~InTask(t) /\ TaskOnce(t)
    BY TasksAssumption DEF Init, InTask, TaskOnce
  <2>3. ~InAgain(t) /\ AgainOnce(t)
    BY <1>0 DEF Init, InAgain, AgainOnce
  <2>4. ~InDrained(t) /\ DrainedOnce(t)
    BY <1>0 DEF Init, InDrained, DrainedOnce
  <2>5. \A n \in Nodes : Held(n) = << >>
    BY <1>1 DEF Held
  <2>6. ~InQueue(t) /\ QueuedOnce(t)
    BY <1>0, <2>5 DEF InQueue, QueuedOnce
  <2> QED
    BY <2>1, <2>2, <2>3, <2>4, <2>6 DEF OnePlace, OneKind
<1>7. LengthInv
  <2>1. Slots = {}
    BY <1>0 DEF Init, Slots
  <2>2. Announced = {} /\ Popping = {}
    BY DEF Init, Announced, Popping, Counting
  <2> QED
    BY <2>1, <2>2, FS_EmptySet, Small DEF Init, LengthInv, LengthIsExact, TrueLength
<1>8. ShortInv /\ AgainInv
  <2>1. \A n \in Nodes : node[n].prio = 0
    BY DEF Init, NewNode
  <2>2. 0 \in Shorts
    BY DEF Shorts
  <2> QED
    BY <2>1, <2>2 DEF Init, ShortInv, AgainInv
<1> QED
  BY <1>3, <1>4, <1>5, <1>6, <1>7, <1>8 DEF IInv, ChainInv

LEMMA NextInv ==
  ASSUME IInv, NEW p \in Procs, StepOf(p)
  PROVE  IInv'
<1>1. Does(p)
  BY StepDoes DEF IInv, ChainInv
<1> QED
  BY <1>1, StepTypes, StepLock, StepPlace, StepSorted, StepDrain, StepWalk,
     StepTasks, StepLength, StepShort, StepAgain DEF IInv, ChainInv

LEMMA StutterInv == IInv /\ UNCHANGED vars => IInv'
<1> SUFFICES ASSUME IInv, UNCHANGED vars PROVE IInv'
  OBVIOUS
<1>1. Typed'
  BY DEF IInv, ChainInv, Typed, vars
<1>2. LockInv' /\ PlaceInv'
  BY DEF IInv, ChainInv, LockInv, PlaceInv, PlaceAt, vars
<1>3. Sorted' /\ DrainInv' /\ WalkInv'
  BY DEF IInv, ChainInv, Sorted, DrainInv, WalkInv, Passed, vars
<1>4. TaskInv'
  BY HeldKept, NothingMoves, <1>1 DEF IInv, ChainInv, vars, Held, Linked
<1>5. LengthInv'
  BY LengthKept DEF IInv, vars, Slots, Announced, Popping
<1>6. ShortInv' /\ AgainInv'
  BY DEF IInv, ShortInv, AgainInv, vars
<1> QED
  BY <1>1, <1>2, <1>3, <1>4, <1>5, <1>6 DEF IInv, ChainInv

LEMMA Inductive == IInv /\ [Next]_vars => IInv'
BY NextSteps, NextInv, StutterInv

\* The state of the queue and the tasks, in every state.
THEOREM Invariance == Spec => []IInv
BY InitInv, Inductive, PTL DEF Spec

(***************************************************************************)
(* Types: who is in PUT-WORK has a future to put, never what a broken weak *)
(* pair holds; the length and the priorities are short integers.           *)
(***************************************************************************)
THEOREM TypeCorrect == Spec => []TypeOK
<1>1. IInv => TypeOK
  <2> SUFFICES ASSUME IInv PROVE TypeOK
    OBVIOUS
  <2>1. workLength \in Shorts
    <3>1. TrueLength \in Int /\ workLength = Short(TrueLength)
      BY LengthIsNat DEF IInv, ChainInv, LengthInv, LengthIsExact
    <3> QED
      BY <3>1, ShortTypes
  <2>2. \A p \in Procs : pc[p] \in Putting => task[p] \in Tasks
    BY DEF IInv, ChainInv, Typed, PlaceInv, PlaceAt
  <2>3. node \in [Nodes -> [lock : BOOLEAN, prio : Shorts, items : Seq(Tasks)]]
    <3>1. ASSUME NEW n \in Nodes
          PROVE  node[n] \in [lock : BOOLEAN, prio : Shorts, items : Seq(Tasks)]
      <4>1. node[n].prio \in Shorts
        BY DEF IInv, ShortInv
      <4>2. node[n] \in [lock : BOOLEAN, prio : Int, items : Seq(Tasks)]
        BY DEF IInv, ChainInv, Typed
      <4> QED
        BY <4>1, <4>2
    <3>2. node = [n \in Nodes |-> node[n]]
      BY DEF IInv, ChainInv, Typed
    <3> QED
      BY <3>1, <3>2
  <2> QED
    BY <2>1, <2>2, <2>3 DEF IInv, ChainInv, Typed, TypeOK
<1> QED
  BY <1>1, Invariance, PTL

\* Where a task is, when it is with a processor, in the list or in a queue.
LEMMA OnlyPlace ==
  ASSUME Typed, DrainInv, NEW t \in Tasks, OnePlace(t)
  PROVE  (\E x : Where(t) = {x}) \/ (Where(t) = {} /\ t \notin needed)
<1> DEFINE H == {<<"hand", p, 0>> : p \in {q \in Procs : t \in hand[q]}}
           T == {<<"task", p, 0>> : p \in {q \in Procs : task[q] = t}}
           A == UNION {{"again"} \X {p} \X Indices(again[p], t) : p \in Procs}
           D == {"drained"} \X {0} \X Indices(drained, t)
           R == UNION {{"queued"} \X {n} \X Indices(node[n].items, t) : n \in Linked}
<1>1. Where(t) = H \cup T \cup A \cup D \cup R
  BY Zenon DEF Where
<1>2. Linked \subseteq Nodes
  BY DEF Typed, Linked, ToSet
<1>3. \A s : /\ t \notin ToSet(s) => Indices(s, t) = {}
             /\ t \in ToSet(s) => \E i \in DOMAIN s : i \in Indices(s, t)
             /\ Once(s, t) => \A i, j \in Indices(s, t) : i = j
  BY DEF ToSet, Indices, Once
<1>4. ASSUME ~InHand(t) PROVE H = {}
  BY <1>4 DEF InHand
<1>5. ASSUME ~InTask(t) PROVE T = {}
  BY <1>5 DEF InTask
<1>6. ASSUME ~InAgain(t) PROVE A = {}
  BY <1>3, <1>6 DEF InAgain
<1>7. ASSUME ~InDrained(t) PROVE D = {}
  BY <1>3, <1>7 DEF InDrained
<1>8. ASSUME ~InQueue(t) PROVE R = {}
  BY <1>2, <1>3, <1>8 DEF InQueue, Held
<1>9. ASSUME InHand(t) PROVE \E x : H = {x}
  <2>1. PICK p \in Procs : t \in hand[p]
    BY <1>9 DEF InHand
  <2>2. {q \in Procs : t \in hand[q]} = {p}
    BY <2>1 DEF OnePlace, HandOnce
  <2>3. H = {<<"hand", p, 0>>}
    BY <2>2
  <2> QED
    BY <2>3
<1>10. ASSUME InTask(t) PROVE \E x : T = {x}
  <2>1. PICK p \in Procs : task[p] = t
    BY <1>10 DEF InTask
  <2>2. {q \in Procs : task[q] = t} = {p}
    BY <2>1 DEF OnePlace, TaskOnce
  <2>3. T = {<<"task", p, 0>>}
    BY <2>2
  <2> QED
    BY <2>3
<1>11. ASSUME InAgain(t) PROVE \E x : A = {x}
  <2>1. PICK p \in Procs : t \in ToSet(again[p])
    BY <1>11 DEF InAgain
  <2>2. PICK i : i \in Indices(again[p], t)
    BY <1>3, <2>1
  <2>3. Once(again[p], t)
    BY DEF OnePlace, AgainOnce
  <2>4. Indices(again[p], t) = {i}
    BY <1>3, <2>2, <2>3
  <2>5. \A q \in Procs \ {p} : Indices(again[q], t) = {}
    BY <1>3, <2>1 DEF OnePlace, AgainOnce
  <2>6. A = {<<"again", p, i>>}
    BY <2>4, <2>5
  <2> QED
    BY <2>6
<1>12. ASSUME InDrained(t) PROVE \E x : D = {x}
  <2>1. PICK i : i \in Indices(drained, t)
    BY <1>3, <1>12 DEF InDrained
  <2>2. Indices(drained, t) = {i}
    BY <1>3, <2>1 DEF OnePlace, DrainedOnce
  <2>3. D = {<<"drained", 0, i>>}
    BY <2>2
  <2> QED
    BY <2>3
<1>13. ASSUME InQueue(t) PROVE \E x : R = {x}
  <2>1. PICK n \in Nodes : t \in ToSet(Held(n))
    BY <1>13 DEF InQueue
  <2>2. n \in Linked /\ Held(n) = node[n].items
    <3>1. ToSet(<< >>) = {}
      BY DEF ToSet
    <3> QED
      BY <2>1, <3>1 DEF Held
  <2>3. PICK i : i \in Indices(node[n].items, t)
    BY <1>3, <2>1, <2>2
  <2>4. Once(node[n].items, t)
    BY <2>2 DEF OnePlace, QueuedOnce
  <2>5. Indices(node[n].items, t) = {i}
    BY <1>3, <2>3, <2>4
  <2>6. \A m \in Linked \ {n} : Indices(node[m].items, t) = {}
    <3>1. \A m \in Linked \ {n} : t \notin ToSet(Held(m)) /\ Held(m) = node[m].items
      BY <1>2, <2>1 DEF OnePlace, QueuedOnce, Held
    <3> QED
      BY <1>3, <3>1
  <2>7. R = {<<"queued", n, i>>}
    BY <2>2, <2>5, <2>6
  <2> QED
    BY <2>7
<1> HIDE DEF H, T, A, D, R
<1> QED
  BY <1>1, <1>4, <1>5, <1>6, <1>7, <1>8, <1>9, <1>10, <1>11, <1>12, <1>13
     DEF OnePlace, OneKind

(***************************************************************************)
(* No task is lost that the program refers to and none is handed out       *)
(* twice, whatever puts, gets, full heaps and collections are under way.   *)
(***************************************************************************)
THEOREM NothingLostAlways == Spec => []NothingLost
<1>1. IInv => NothingLost
  <2> SUFFICES ASSUME IInv, NEW t \in Tasks
               PROVE  Cardinality(Where(t)) <= 1 /\ (t \in needed => Where(t) # {})
    BY DEF NothingLost
  <2>1. (\E x : Where(t) = {x}) \/ (Where(t) = {} /\ t \notin needed)
    BY OnlyPlace DEF IInv, ChainInv, TaskInv
  <2>2. \A x : Cardinality({x}) = 1
    BY FS_Singleton
  <2>3. Cardinality({}) = 0
    BY FS_EmptySet
  <2>4. CASE \E x : Where(t) = {x}
    BY <2>2, <2>4
  <2>5. CASE Where(t) = {} /\ t \notin needed
    BY <2>3, <2>5
  <2> QED
    BY <2>1, <2>4, <2>5
<1> QED
  BY <1>1, Invariance, PTL

(***************************************************************************)
(* Work_Queue_Length counts what is queued or announced.                   *)
(***************************************************************************)
THEOREM LengthIsExactAlways == Spec => []LengthIsExact
<1>1. IInv => LengthIsExact
  BY DEF IInv, LengthInv
<1> QED
  BY <1>1, Invariance, PTL

\* One value for each member of a set, of which no two are the same.
LEMMA Injected ==
  ASSUME NEW S, IsFiniteSet(S), NEW T, IsFiniteSet(T), NEW f \in [S -> T],
         \A x, y \in S : f[x] = f[y] => x = y
  PROVE  Cardinality(S) <= Cardinality(T)
<1>1. Cardinality(S) \in Nat /\ Cardinality(T) \in Nat
  BY FS_CardinalityType
<1>2. ~(Cardinality(T) < Cardinality(S))
  BY FS_PigeonHole
<1> QED
  BY <1>1, <1>2

\* Every slot holds a task, and everybody who has announced one has it.
LEMMA TasksSuffice ==
  ASSUME IInv
  PROVE  TrueLength <= Cardinality(Tasks)
<1> USE DEF IInv, ChainInv
<1> DEFINE inSlot(x) == node[x[1]].items[x[2]]
           with(p)   == IF task[p] # NoTask THEN task[p] ELSE Head(again[p])
           inSlots   == {inSlot(x) : x \in Slots}
           announced == {with(p) : p \in Announced}
<1>1. ASSUME NEW x \in Slots
      PROVE  /\ x[1] \in Nodes /\ x[2] \in DOMAIN Held(x[1])
             /\ inSlot(x) = Held(x[1])[x[2]] /\ inSlot(x) \in Tasks /\ x = <<x[1], x[2]>>
             /\ InQueue(inSlot(x))
  <2>0. PICK n \in ToSet(chain) : \E i \in DOMAIN node[n].items : x = <<n, i>>
    BY DEF Slots
  <2>1. PICK i \in DOMAIN node[n].items : x = <<n, i>>
    BY <2>0
  <2>2. n \in Nodes /\ Held(n) = node[n].items /\ Held(n) \in Seq(Tasks)
    BY HeldTasks DEF Held, Linked, Typed, ToSet
  <2>3. Held(n)[i] \in Tasks /\ Held(n)[i] \in ToSet(Held(n))
    BY <2>1, <2>2 DEF ToSet
  <2> QED
    BY <2>1, <2>2, <2>3 DEF InQueue
<1>2. ASSUME NEW x \in Slots, NEW y \in Slots, inSlot(x) = inSlot(y)
      PROVE  x = y
  <2>1. PICK t \in Tasks : t = inSlot(x)
    BY <1>1
  <2>2. QueuedOnce(t)
    BY DEF TaskInv, OnePlace
  <2>3. t \in ToSet(Held(x[1])) /\ t \in ToSet(Held(y[1]))
    BY <1>1, <1>2, <2>1 DEF ToSet
  <2>4. x[1] = y[1]
    BY <1>1, <2>2, <2>3 DEF QueuedOnce
  <2>5. x[2] = y[2]
    BY <1>1, <1>2, <2>1, <2>2, <2>4 DEF QueuedOnce, Once
  <2> QED
    BY <1>1, <2>4, <2>5
<1>3. ASSUME NEW p \in Announced
      PROVE  /\ p \in Procs /\ with(p) \in Tasks
             /\ \/ task[p] = with(p) /\ InTask(with(p))
                \/ with(p) \in ToSet(again[p]) /\ InAgain(with(p))
  <2>1. CASE pc[p] \in Putting
    <3>1. p \in Procs /\ task[p] # NoTask /\ task[p] \in Tasks
      BY <2>1 DEF Announced, PlaceInv, PlaceAt, Typed
    <3> QED
      BY <3>1 DEF InTask
  <2>2. CASE pc[p] \notin Putting
    <3>1. p \in Procs /\ task[p] = NoTask /\ again[p] # << >> /\ again[p] \in Seq(Tasks)
      BY <2>2 DEF Announced, Putting, PlaceInv, PlaceAt, AgainInv, Typed
    <3>2. Head(again[p]) \in Tasks /\ Head(again[p]) \in ToSet(again[p])
      BY <3>1, TailOnce
    <3> QED
      BY <3>1, <3>2 DEF InAgain
  <2> QED
    BY <2>1, <2>2
<1>4. ASSUME NEW p \in Announced, NEW q \in Announced, with(p) = with(q)
      PROVE  p = q
  <2>1. PICK t \in Tasks : t = with(p)
    BY <1>3
  <2>2. OneKind(t) /\ TaskOnce(t) /\ AgainOnce(t)
    BY DEF TaskInv, OnePlace
  <2>3. ~(InTask(t) /\ InAgain(t))
    BY <2>2 DEF OneKind
  <2>4. \/ task[p] = t /\ task[q] = t
        \/ t \in ToSet(again[p]) /\ t \in ToSet(again[q])
    BY <1>3, <1>4, <2>1, <2>3
  <2>5. p \in Procs /\ q \in Procs
    BY <1>3
  <2> QED
    BY <2>2, <2>4, <2>5 DEF TaskOnce, AgainOnce
<1>5. inSlots \cap announced = {}
  <2> SUFFICES ASSUME NEW x \in Slots, NEW p \in Announced, inSlot(x) = with(p)
               PROVE  FALSE
    OBVIOUS
  <2>1. PICK t \in Tasks : t = inSlot(x)
    BY <1>1
  <2>2. InQueue(t) /\ (InTask(t) \/ InAgain(t))
    BY <1>1, <1>3, <2>1
  <2> QED
    BY <2>2 DEF TaskInv, OnePlace, OneKind
<1>6. inSlots \subseteq Tasks /\ announced \subseteq Tasks /\ IsFiniteSet(Tasks)
  BY <1>1, <1>3, TasksAssumption
<1>7. IsFiniteSet(Slots) /\ Cardinality(Slots) \in Nat
  BY FS_CardinalityType DEF LengthInv
<1>8. IsFiniteSet(inSlots) /\ IsFiniteSet(announced)
  BY <1>6, FS_Subset
<1>9. Cardinality(Slots) <= Cardinality(inSlots)
  <2> DEFINE f == [x \in Slots |-> inSlot(x)]
  <2>1. f \in [Slots -> inSlots] /\ \A x, y \in Slots : f[x] = f[y] => x = y
    BY <1>2
  <2> HIDE DEF f, inSlots
  <2> QED
    BY <1>7, <1>8, <2>1, Injected
<1>10. Cardinality(Announced) <= Cardinality(announced)
  <2> DEFINE g == [p \in Announced |-> with(p)]
  <2>1. g \in [Announced -> announced] /\ \A p, q \in Announced : g[p] = g[q] => p = q
    BY <1>4
  <2> HIDE DEF g, announced
  <2> QED
    BY <1>8, <2>1, Injected, ProcsFinite
<1> HIDE DEF inSlots, announced
<1>11. /\ Cardinality(inSlots) \in Nat /\ Cardinality(announced) \in Nat
       /\ Cardinality(inSlots \cup announced) =
             Cardinality(inSlots) + Cardinality(announced)
  <2>1. Cardinality(inSlots \cup announced) =
           Cardinality(inSlots) + Cardinality(announced) - Cardinality(inSlots \cap announced)
    BY <1>8, FS_Union
  <2>2. Cardinality(inSlots) \in Nat /\ Cardinality(announced) \in Nat
    BY <1>8, FS_CardinalityType
  <2>3. Cardinality(inSlots \cap announced) = 0
    BY <1>5, FS_EmptySet
  <2> QED
    BY <2>1, <2>2, <2>3
<1>12. Cardinality(inSlots \cup announced) <= Cardinality(Tasks)
       /\ Cardinality(Tasks) \in Nat
  BY <1>6, FS_Subset, FS_CardinalityType
<1> QED
  BY <1>7, <1>9, <1>10, <1>11, <1>12, ProcsFinite DEF TrueLength

(***************************************************************************)
(* While there are fewer than 2^15 tasks Work_Queue_Length never wraps     *)
(* around: it is the number of tasks itself.                               *)
(***************************************************************************)
THEOREM LengthIsTrue ==
  ASSUME Cardinality(Tasks) < 32768
  PROVE  Spec => [](workLength = TrueLength /\ workLength \in Nat)
<1>1. IInv => workLength = TrueLength /\ workLength \in Nat
  <2> SUFFICES ASSUME IInv PROVE workLength = TrueLength /\ workLength \in Nat
    OBVIOUS
  <2>1. TrueLength \in Nat /\ workLength = Short(TrueLength)
    BY LengthIsNat DEF IInv, ChainInv, LengthInv, LengthIsExact
  <2>2. TrueLength <= Cardinality(Tasks) /\ Cardinality(Tasks) \in Nat
    BY TasksSuffice, TasksAssumption, FS_CardinalityType
  <2>3. TrueLength < 32768
    BY <2>1, <2>2
  <2> QED
    BY <2>1, <2>3, Small
<1> QED
  BY <1>1, Invariance, PTL

-----------------------------------------------------------------------------
(* The priority queue *)

\* The queue of priority pr, and what it shows of its tasks.
At(pr)   == {m \in ToSet(chain) : node[m].prio = pr}
Shown(n) == IF Claimed(n) THEN Tail(node[n].items) ELSE node[n].items
Queue    == [pr \in Priorities |-> Visible(pr)]

LEMMA VisibleIs ==
  /\ \A pr : At(pr) = {} => Visible(pr) = << >>
  /\ \A pr, n : At(pr) = {n} => Visible(pr) = Shown(n)
<1>1. ASSUME NEW pr, At(pr) = {}
      PROVE  Visible(pr) = << >>
  BY <1>1 DEF Visible, At
<1>2. ASSUME NEW pr, NEW n, At(pr) = {n}
      PROVE  Visible(pr) = Shown(n)
  <2>1. (CHOOSE m \in {n} : TRUE) = n
    OBVIOUS
  <2> QED
    BY <1>2, <2>1 DEF Visible, At, Shown
<1> QED
  BY <1>1, <1>2

LEMMA VisibleNext ==
  /\ \A pr : At(pr)' = {} => Visible(pr)' = << >>
  /\ \A pr, n : At(pr)' = {n} => Visible(pr)' = Shown(n)'
<1>1. ASSUME NEW pr, At(pr)' = {}
      PROVE  Visible(pr)' = << >>
  BY <1>1 DEF Visible, At
<1>2. ASSUME NEW pr, NEW n, At(pr)' = {n}
      PROVE  Visible(pr)' = Shown(n)'
  <2>1. (CHOOSE m \in {n} : TRUE) = n
    OBVIOUS
  <2> QED
    BY <1>2, <2>1 DEF Visible, At, Shown
<1> QED
  BY <1>1, <1>2

LEMMA AtMostOne ==
  ASSUME Typed, Sorted, NEW pr
  PROVE  \/ At(pr) = {}
         \/ \E n \in ToSet(chain) : At(pr) = {n} /\ node[n].prio = pr
<1>1. ASSUME NEW m \in ToSet(chain), NEW n \in ToSet(chain), node[m].prio = node[n].prio
      PROVE  m = n
  <2>1. PICK i, j \in 1 .. Len(chain) : m = chain[i] /\ n = chain[j]
    BY ChainFacts
  <2>2. /\ i < j => node[chain[i]].prio > node[chain[j]].prio
        /\ j < i => node[chain[j]].prio > node[chain[i]].prio
    BY ChainFacts DEF Sorted
  <2>3. i \in Nat /\ j \in Nat /\ node[chain[i]].prio \in Int
    BY ChainFacts
  <2> QED
    BY <1>1, <2>1, <2>2, <2>3
<1> QED
  BY <1>1 DEF At

\* Steps after which every queue shows what it showed before.
LEMMA QueueKept ==
  ASSUME Typed, Sorted, NEW pr, At(pr)' = At(pr),
         \A n \in ToSet(chain) : Shown(n)' = Shown(n)
  PROVE  Visible(pr)' = Visible(pr)
BY AtMostOne, VisibleIs, VisibleNext

\* Who has the lock of a queue has chosen from it, or nobody has.
LEMMA LockedQueue ==
  ASSUME LockInv, NEW n
  PROVE  /\ Claimed(n) => node[n].lock
         /\ \A p \in Procs : /\ pc[p] \in HasNode /\ at[p] = n
                             /\ pc[p] \notin {"getCount", "getPop"}
                             => ~Claimed(n)
BY DEF LockInv, HasNode, Claimed

\* Put_Work appends.
LEMMA LinkPuts ==
  ASSUME Typed, LockInv, PlaceInv, Sorted, NEW p \in Procs, TaskLinked(p)
  PROVE  Q!Put(task[p])
<1>1. PICK n \in Nodes, t \in Tasks : n = at[p] /\ t = task[p]
  BY DEF TaskLinked
<1>2. /\ pc[p] = "putLink" /\ pc' = [pc EXCEPT ![p] = "idle"]
      /\ n \in ToSet(chain) /\ node[n].prio = Priority(t) /\ chain' = chain
      /\ at' = [at EXCEPT ![p] = NULL] /\ node'[n].prio = node[n].prio
      /\ node'[n].items = Append(node[n].items, t)
      /\ \A m \in Nodes \ {n} : node'[m] = node[m]
  BY <1>1 DEF TaskLinked, PlaceInv, PlaceAt
<1>3. \A m : Claimed(m)' <=> Claimed(m)
  BY <1>2 DEF Claimed, Typed
<1>4. ~Claimed(n)
  BY <1>1, <1>2, LockedQueue DEF HasNode
<1>5. ToSet(chain) \subseteq Nodes
  BY DEF Typed, ToSet
<1>6. \A pr : At(pr)' = At(pr)
  BY <1>2, <1>5 DEF At
<1>7. Shown(n)' = Append(Shown(n), t)
  BY <1>2, <1>3, <1>4 DEF Shown
<1>8. \A m \in ToSet(chain) \ {n} : Shown(m)' = Shown(m)
  BY <1>2, <1>3, <1>5 DEF Shown
<1>9. At(Priority(t)) = {n}
  <2>1. n \in At(Priority(t))
    BY <1>2 DEF At
  <2> QED
    BY <2>1, AtMostOne
<1>10. Visible(Priority(t))' = Append(Visible(Priority(t)), t)
  BY <1>6, <1>7, <1>9, VisibleIs, VisibleNext
<1>11. ASSUME NEW pr \in Priorities, pr # Priority(t)
       PROVE  Visible(pr)' = Visible(pr)
  <2>1. n \notin At(pr) /\ At(pr) \subseteq ToSet(chain)
    BY <1>2, <1>11 DEF At
  <2> QED
    BY <1>6, <1>8, <2>1, AtMostOne, VisibleIs, VisibleNext
<1>12. Priority(t) \in Priorities
  BY DEF Priorities
<1> QED
  BY <1>1, <1>10, <1>11, <1>12 DEF Q!Put, Q!Priorities

\* Get_Work takes the first task of the highest priority that has one.
LEMMA ChooseTakes ==
  ASSUME Typed, LockInv, PlaceInv, Sorted, WalkInv, NEW p \in Procs, Chosen(p)
  PROVE  (\E pr \in Priorities : Q!Take(pr)) \/ UNCHANGED Queue
<1>1. PICK n \in Nodes : n = at[p]
  BY DEF Chosen
<1>2. PICK pr \in Int : pr = node[n].prio
  BY DEF Typed
<1>3. /\ pc[p] = "getFind" /\ pc' = [pc EXCEPT ![p] = "getCount"]
      /\ n \in ToSet(chain) /\ ~node[n].lock /\ node[n].items # << >>
      /\ chain' = chain /\ at' = at
      /\ \A m \in Nodes : node'[m].prio = node[m].prio /\ node'[m].items = node[m].items
  BY <1>1 DEF Chosen, local
<1>4. ~Claimed(n) /\ \A m : Claimed(m)' <=> Claimed(m) \/ m = n
  <2>1. ~Claimed(n)
    BY <1>3, LockedQueue
  <2>2. pc'[p] = "getCount" /\ \A q \in Procs \ {p} : pc'[q] = pc[q]
    BY <1>3 DEF Typed
  <2> QED
    BY <1>1, <1>3, <2>1, <2>2 DEF Claimed
<1>5. ToSet(chain) \subseteq Nodes
  BY DEF Typed, ToSet
<1>6. \A x : At(x)' = At(x)
  BY <1>3, <1>5 DEF At
<1>7. Shown(n) = node[n].items /\ Shown(n)' = Tail(Shown(n))
  BY <1>3, <1>4 DEF Shown
<1>8. \A m \in ToSet(chain) \ {n} : Shown(m)' = Shown(m)
  BY <1>3, <1>4, <1>5 DEF Shown
<1>9. At(pr) = {n}
  <2>1. n \in At(pr)
    BY <1>2, <1>3 DEF At
  <2> QED
    BY <2>1, AtMostOne
<1>10. Visible(pr) # << >> /\ Visible(pr)' = Tail(Visible(pr))
  BY <1>3, <1>6, <1>7, <1>9, VisibleIs, VisibleNext
<1>11. ASSUME NEW x, x # pr
       PROVE  Visible(x)' = Visible(x)
  <2>1. n \notin At(x) /\ At(x) \subseteq ToSet(chain)
    BY <1>2, <1>11 DEF At
  <2> QED
    BY <1>6, <1>8, <2>1, AtMostOne, VisibleIs, VisibleNext
<1>12. ASSUME NEW x \in Priorities, x > pr
       PROVE  Visible(x) = << >>
  <2>1. CASE At(x) = {}
    BY <2>1, VisibleIs
  <2>2. ASSUME NEW m \in ToSet(chain), At(x) = {m}, node[m].prio = x
        PROVE  Visible(x) = << >>
    <3>1. Passed(p, m)
      BY <1>1, <1>2, <1>12, <2>2 DEF Passed
    <3>2. node[m].items = << >> /\ ~node[m].lock
      BY <1>3, <2>2, <3>1 DEF WalkInv
    <3>3. ~Claimed(m)
      BY <3>2, LockedQueue
    <3> QED
      BY <2>2, <3>2, <3>3, VisibleIs DEF Shown
  <2> QED
    BY <2>1, <2>2, AtMostOne
<1>13. CASE pr \in Priorities
  BY <1>10, <1>11, <1>12, <1>13 DEF Q!Take, Q!Priorities, Priorities
<1>14. CASE pr \notin Priorities
  BY <1>11, <1>14 DEF Queue
<1> QED
  BY <1>13, <1>14

\* What was chosen is out of the queue when it is unlinked.
LEMMA PopKeeps ==
  ASSUME Typed, LockInv, PlaceInv, Sorted, NEW p \in Procs, TaskPopped(p), NEW pr
  PROVE  Visible(pr)' = Visible(pr)
<1>1. PICK n \in Nodes : n = at[p]
  BY DEF TaskPopped
<1>2. /\ pc[p] = "getPop" /\ pc' = [pc EXCEPT ![p] = "idle"]
      /\ n \in ToSet(chain) /\ chain' = chain
      /\ at' = [at EXCEPT ![p] = NULL] /\ node'[n].prio = node[n].prio
      /\ node'[n].items = Tail(node[n].items)
      /\ \A m \in Nodes \ {n} : node'[m] = node[m]
  BY <1>1 DEF TaskPopped
<1>3. /\ pc'[p] = "idle"
      /\ \A q \in Procs \ {p} : pc'[q] = pc[q] /\ at'[q] = at[q]
  BY <1>2 DEF Typed
<1>4. Claimed(n) /\ ~Claimed(n)'
  <2>1. Claimed(n)
    BY <1>1, <1>2 DEF Claimed
  <2>2. \A q \in Procs \ {p} : pc[q] \in HasNode => at[q] # n
    BY <1>1, <1>2 DEF LockInv, HasNode
  <2> QED
    BY <1>3, <2>1, <2>2 DEF Claimed, HasNode
<1>5. \A m : m # n => (Claimed(m)' <=> Claimed(m))
  BY <1>1, <1>2, <1>3 DEF Claimed
<1>6. ToSet(chain) \subseteq Nodes
  BY DEF Typed, ToSet
<1>7. At(pr)' = At(pr)
  BY <1>2, <1>6 DEF At
<1>8. \A m \in ToSet(chain) : Shown(m)' = Shown(m)
  BY <1>2, <1>4, <1>5, <1>6 DEF Shown
<1> QED
  BY <1>7, <1>8, QueueKept

\* A new queue shows no more than no queue.
LEMMA NewShowsNothing ==
  ASSUME Typed, LockInv, PlaceInv, Sorted, NEW p \in Procs, QueueMade(p), NEW pr
  PROVE  Visible(pr)' = Visible(pr)
<1>1. PICK n \in Nodes \ ToSet(chain), i \in 1 .. Len(chain) + 1 :
         /\ pc[p] = "putFind" /\ pc' = [pc EXCEPT ![p] = "putLockNode"]
         /\ Priority(task[p]) \in Int
         /\ i <= Len(chain) => node[chain[i]].prio < Priority(task[p])
         /\ \A j \in 1 .. i - 1 : node[chain[j]].prio > Priority(task[p])
         /\ node'[n].prio = Priority(task[p]) /\ node'[n].items = << >>
         /\ \A m \in Nodes \ {n} : node'[m] = node[m]
         /\ ToSet(chain') = ToSet(chain) \cup {n}
         /\ at' = [at EXCEPT ![p] = n]
  BY DEF QueueMade
<1>2. /\ pc'[p] = "putLockNode"
      /\ \A q \in Procs \ {p} : pc'[q] = pc[q] /\ at'[q] = at[q]
  BY <1>1 DEF Typed
<1>3. \A m : Claimed(m)' <=> Claimed(m)
  BY <1>1, <1>2 DEF Claimed
<1>4. ~Claimed(n)
  BY <1>1 DEF Claimed, PlaceInv, PlaceAt, AtNode, HasNode
<1>5. ToSet(chain) \subseteq Nodes
  BY DEF Typed, ToSet
<1>6. \A m \in ToSet(chain) : Shown(m)' = Shown(m)
  BY <1>1, <1>3, <1>5 DEF Shown
<1>7. Shown(n)' = << >>
  BY <1>1, <1>3, <1>4 DEF Shown
<1>8. CASE pr = Priority(task[p])
  <2>1. ASSUME NEW m \in ToSet(chain), node[m].prio = pr
        PROVE  FALSE
    <3>1. PICK j \in 1 .. Len(chain) : m = chain[j] /\ node[chain[j]].prio \in Int
      BY ChainFacts
    <3>2. Len(chain) \in Nat
      BY ChainFacts
    <3>3. CASE j < i
      <4>1. j \in 1 .. i - 1
        BY <3>2, <3>3
      <4> QED
        BY <1>1, <1>8, <2>1, <3>1, <4>1
    <3>4. CASE j >= i
      <4>1. i <= Len(chain) /\ i \in 1 .. Len(chain)
        BY <3>2, <3>4
      <4>2. j = i \/ node[chain[i]].prio > node[chain[j]].prio
        BY <3>4, <4>1, ChainFacts DEF Sorted
      <4>3. node[chain[i]].prio \in Int
        BY <4>1, ChainFacts
      <4> QED
        BY <1>1, <1>8, <2>1, <3>1, <4>1, <4>2, <4>3
    <3> QED
      BY <3>2, <3>3, <3>4
  <2>2. At(pr) = {}
    BY <2>1 DEF At
  <2>3. At(pr)' = {n}
    <3>1. \A m \in ToSet(chain) : node'[m].prio # pr
      BY <1>1, <1>5, <2>1
    <3> QED
      BY <1>1, <1>8, <3>1 DEF At
  <2> QED
    BY <1>7, <2>2, <2>3, VisibleIs, VisibleNext
<1>9. CASE pr # Priority(task[p])
  <2>1. At(pr)' = At(pr)
    BY <1>1, <1>5, <1>9 DEF At
  <2> QED
    BY <1>6, <2>1, QueueKept
<1> QED
  BY <1>8, <1>9

LEMMA StepRefines ==
  ASSUME Typed, LockInv, PlaceInv, Sorted, DrainInv, WalkInv, NEW p \in Procs, Does(p)
  PROVE  Q!Next \/ UNCHANGED Queue
<1>s. ASSUME \A pr : Visible(pr)' = Visible(pr)
      PROVE  UNCHANGED Queue
  BY <1>s DEF Queue
<1>1. CASE TaskLinked(p)
  <2>1. task[p] \in Tasks
    BY <1>1 DEF TaskLinked
  <2> QED
    BY <1>1, <2>1, LinkPuts DEF Q!Next
<1>2. CASE Chosen(p)
  BY <1>2, ChooseTakes DEF Q!Next, Q!Priorities, Priorities
<1>3. CASE TaskPopped(p) \/ QueueMade(p)
  BY <1>3, <1>s, PopKeeps, NewShowsNothing
<1>4. CASE Drain(p)
  <2>1. chain' = << >>
    BY <1>4 DEF Drain
  <2>2. \A pr : At(pr)' = {}
    BY <2>1 DEF At, ToSet
  <2>3. \A pr : Visible(pr)' = << >>
    BY <2>2, VisibleNext
  <2> QED
    BY <2>3 DEF Q!Next, Q!Flush, Q!Priorities, Priorities
<1>5. CASE NodeLocked(p)
  <2>1. /\ pc[p] = "putLockNode" /\ pc'[p] = "putUnlockWork"
        /\ \A q \in Procs \ {p} : pc'[q] = pc[q]
        /\ chain' = chain /\ at' = at
        /\ \A m \in Nodes : node'[m].prio = node[m].prio /\ node'[m].items = node[m].items
    BY <1>5 DEF NodeLocked, local, Typed
  <2>2. \A m : Claimed(m)' <=> Claimed(m)
    BY <2>1 DEF Claimed
  <2>3. ToSet(chain) \subseteq Nodes
    BY DEF Typed, ToSet
  <2>4. \A pr : At(pr)' = At(pr)
    BY <2>1, <2>3 DEF At
  <2>5. \A m \in ToSet(chain) : Shown(m)' = Shown(m)
    BY <2>1, <2>2, <2>3 DEF Shown
  <2> QED
    BY <1>s, <2>4, <2>5, QueueKept
<1>6. CASE \/ \E t \in Tasks : StartPut(p, t)
           \/ RestartPut(p) \/ PutLockWork(p) \/ QueueFound(p) \/ PutGivenUp(p)
           \/ PutUnlockWork(p) \/ StartGet(p) \/ GetLockWork(p) \/ GetNothing(p)
           \/ GetSkip(p) \/ GetCount(p) \/ Park(p) \/ DrainOne(p) \/ DrainEnd(p)
           \/ RestoreOne(p) \/ RestoreNone(p) \/ PutError(p)
           \/ \E t \in Tasks : Forget(p, t)
  <2>1. UNCHANGED <<chain, node>>
    BY <1>6 DEF StartPut, RestartPut, PutLockWork, QueueFound, PutGivenUp, PutUnlockWork,
                StartGet, GetLockWork, GetNothing, GetSkip, GetCount, Park, DrainOne,
                DrainEnd, RestoreOne, RestoreNone, NextUnit, PutError, Forget, shared
  <2>2. \A m : Claimed(m)' <=> Claimed(m)
    <3>1. CASE DrainEnd(p)
      <4>1. pc[p] = "drain" /\ \A q \in Procs : pc'[q] = "idle"
        BY <3>1 DEF DrainEnd
      <4> QED
        BY <4>1 DEF Claimed, DrainInv
    <3>2. CASE GetCount(p)
      <4>1. /\ pc[p] = "getCount" /\ pc'[p] = "getPop" /\ at' = at
            /\ \A q \in Procs \ {p} : pc'[q] = pc[q]
        BY <3>2 DEF GetCount, Step, Goto, local, Typed
      <4> QED
        BY <4>1 DEF Claimed
    <3>3. CASE \/ \E t \in Tasks : StartPut(p, t)
               \/ RestartPut(p) \/ PutLockWork(p) \/ QueueFound(p) \/ PutGivenUp(p)
               \/ PutUnlockWork(p) \/ StartGet(p) \/ GetLockWork(p) \/ GetNothing(p)
               \/ GetSkip(p) \/ Park(p) \/ DrainOne(p) \/ RestoreOne(p)
               \/ RestoreNone(p) \/ PutError(p) \/ \E t \in Tasks : Forget(p, t)
      <4>1. /\ pc[p] \notin {"getCount", "getPop"} /\ pc'[p] \notin {"getCount", "getPop"}
            /\ \A q \in Procs \ {p} : pc'[q] = pc[q]
        BY <3>3 DEF StartPut, RestartPut, PutLockWork, QueueFound, PutGivenUp,
                    PutUnlockWork, StartGet, GetLockWork, GetNothing, GetSkip, Park,
                    DrainOne, RestoreOne, RestoreNone, NextUnit, PutError, Forget,
                    Running, Step, Goto, Typed
      <4>2. \A q \in Procs \ {p} : at'[q] = at[q]
        BY <3>3 DEF StartPut, RestartPut, PutLockWork, QueueFound, PutGivenUp,
                    PutUnlockWork, StartGet, GetLockWork, GetNothing, GetSkip, Park,
                    DrainOne, RestoreOne, RestoreNone, NextUnit, PutError, Forget,
                    local, Typed
      <4> QED
        BY <4>1, <4>2 DEF Claimed
    <3> QED
      BY <1>6, <3>1, <3>2, <3>3
  <2>3. \A pr : At(pr)' = At(pr)
    BY <2>1 DEF At
  <2>4. \A m \in ToSet(chain) : Shown(m)' = Shown(m)
    BY <2>1, <2>2 DEF Shown
  <2> QED
    BY <1>s, <2>3, <2>4, QueueKept
<1> QED
  BY <1>1, <1>2, <1>3, <1>4, <1>5, <1>6 DEF Does

(***************************************************************************)
(* The work queue is a priority queue: Get_Work takes the oldest task of   *)
(* the highest priority there is when it locks a queue, Put_Work appends,  *)
(* and a collection flushes it.                                            *)
(***************************************************************************)
THEOREM PriorityQueueImplemented == Spec => ImplementsPriorityQueue
<1>1. Init => Q!Init
  <2> SUFFICES ASSUME Init PROVE Q!Init
    OBVIOUS
  <2>1. \A pr : At(pr) = {}
    BY DEF Init, At, ToSet
  <2>2. \A pr : Visible(pr) = << >>
    BY <2>1, VisibleIs
  <2> QED
    BY <2>2 DEF Q!Init, Q!Priorities, Priorities
<1>2. IInv /\ [Next]_vars => [Q!Next]_Queue
  <2> SUFFICES ASSUME IInv, [Next]_vars PROVE Q!Next \/ UNCHANGED Queue
    OBVIOUS
  <2>1. CASE Next
    <3>1. PICK p \in Procs : StepOf(p)
      BY <2>1, NextSteps
    <3>2. Does(p)
      BY <3>1, StepDoes DEF IInv, ChainInv
    <3> QED
      BY <3>2, StepRefines DEF IInv, ChainInv
  <2>2. CASE UNCHANGED vars
    BY <2>2 DEF vars, Queue, Visible, Claimed
  <2> QED
    BY <2>1, <2>2
<1>3. IInv /\ [Next]_vars => [Q!Next]_([pr \in Priorities |-> Visible(pr)])
  BY <1>2 DEF Queue
<1> QED
  BY <1>1, <1>3, Invariance, PTL DEF Spec, Q!Spec, ImplementsPriorityQueue

=============================================================================
