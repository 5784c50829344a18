------------------------------ MODULE Collection ------------------------------
(***************************************************************************)
(* A garbage collection by all the processors together (test-and-gc in     *)
(* runtime/bf-gc.scm, and uc/bf-gc.c as the Makefile builds it, with       *)
(* USE_SINGLE_HEAP).  One processor is the master; GLOBAL-INTERRUPT has    *)
(* the others run gc-slave.  Everybody copies what it finds into heaplets  *)
(* of its own; full heaplets go to a shared queue for anyone to scan.      *)
(*                                                                         *)
(* The synchronizers are those of module Barrier, a new one for each use,  *)
(* where interrupts are off.  An object is copied at once: GCLoop holds    *)
(* the lock bits of its first word meanwhile, and longer only while it     *)
(* gets a heaplet for a vector.  Memory suffices.  The words point where   *)
(* they do when determined futures have been spliced out; which futures    *)
(* are determined does not change in a collection.                         *)
(***************************************************************************)
EXTENDS Integers, Sequences, FiniteSets, SequencesExt, Folds

CONSTANTS Procs,      \* the processors
          Obj,        \* the objects in the heap
          None,       \* a word that is no pointer
          Fields,     \* Fields[o]: the words of o that GCLoop scans
          WeakCar,    \* WeakCar[o]: what the weak pair o points to, or None
          Roots,      \* Roots[p]: the words of the fixed areas p scans
          Size,       \* Size[o]: how many words o has, its header included
          Vectors,    \* the objects that gcloop_vector copies
          Quantum,    \* GC_QUANTUM
          Buffer,     \* HEAPLET_BUFFER_SIZE
          MaxIndex,   \* Max_Index
          QueueMax,   \* queue_max
          MaxRounds   \* how many collections there are

ASSUME SizesAssumption == /\ IsFiniteSet(Procs) /\ Procs # {} /\ IsFiniteSet(Obj)
                          /\ MaxIndex \in Nat /\ QueueMax \in Nat
                          /\ MaxRounds \in Nat
ASSUME HeapAssumption ==
    /\ None \notin Obj
    /\ Fields \in [Obj -> Seq(Obj \cup {None})]
    /\ Vectors \subseteq Obj
    /\ Size \in [Obj -> Nat \ {0}]
    /\ WeakCar \in [Obj -> Obj \cup {None}]
    /\ Roots \in [Procs -> Seq(Obj)]

\* A quad, the largest object of a fixed size, has four words.
ASSUME RoomAssumption == /\ Quantum \in Nat /\ Buffer \in Nat
                         /\ 1 < Buffer /\ Buffer < Quantum
                         /\ \A o \in Obj \ Vectors : Size[o] < Buffer

N == Cardinality(Procs)

VARIABLES round,        \* how many collections have been started
          master,       \* master[r]: who got GLOBAL-INTERRUPT for collection r
          came,         \* came[p]: the collection p is in, or the last it was in
          pc,
          arrived,      \* arrived[r][b]: who has come to synchronizer b
          heapletIndex, \* Heaplet_Index
          flipCount, consingDone, copyReady, slaveDone, endReady,
          gcComplete,
          queue,        \* the heaplets in Work_Queue, used as a stack
          busy,         \* queue_busy_count
          idle,         \* idle[p]: idlep in Scan_Heap
          words,        \* words[h]: <<o, f>> if it is the field f of object o
          scan,         \* scan[h]: how many of them are before Heaplet_Scan
          cons,         \* cons[p]: Current_Cons_Heaplet
          left,         \* left[p]: the words from current_free to its end
          area, pos,    \* what p scans, and how far it is
          locked,       \* locked[p]: the vector that p gets a heaplet for
          chain,        \* chain[p]: the weak pairs on Weak_Chain
          copied,       \* the objects that are forwarded
          scanned,      \* how often each word has been scanned
          broken        \* the weak pairs whose car has become NIL

mode    == <<round, master, came, arrived>>
counts  == <<flipCount, consingDone, copyReady, slaveDone, endReady, gcComplete>>
shared  == <<queue, busy, idle>>
room    == <<heapletIndex, cons, left, locked>>
heap    == <<room, words, scan, area, pos, copied, scanned>>
weak    == <<chain, broken>>
vars    == <<mode, pc, counts, shared, heap, weak>>

Rounds   == 1 .. MaxRounds
Barriers == {"start", "sync", "resources", "after"}
Fixed    == -1                                   \* the area of Roots
Heaplets == 0 .. MaxIndex                        \* get_consing_partition
Words    == UNION {{<<o, f>> : f \in DOMAIN Fields[o]} : o \in Obj}

WordsOf(o) == [f \in DOMAIN Fields[o] |-> <<o, f>>]

Labels == Barriers \cup
          {"program", "prepare", "setup", "flip", "flipped",
           "partition", "loop", "scan", "overflow", "consed", "weak", "copyReady",
           "move", "moved", "grab", "grabbed", "complete", "slaves", "daemons"}

TypeOK == /\ round \in 0 .. MaxRounds
          /\ master \in [Rounds -> Procs \cup {None}]
          /\ came \in [Procs -> 0 .. MaxRounds]
          /\ pc \in [Procs -> Labels]
          /\ arrived \in [Rounds -> [Barriers -> SUBSET Procs]]
          /\ heapletIndex \in 0 .. MaxIndex + 1
          /\ {flipCount, consingDone, copyReady, slaveDone, endReady, busy}
                \subseteq 0 .. N
          /\ gcComplete \in BOOLEAN
          /\ queue \in Seq(Heaplets) /\ Len(queue) <= QueueMax
          /\ idle \in [Procs -> BOOLEAN]
          /\ words \in [Heaplets -> Seq(Words)]
          /\ scan \in [Heaplets -> Nat]
          /\ cons \in [Procs -> Heaplets]
          /\ left \in [Procs -> Nat \ {0}]
          /\ area \in [Procs -> Heaplets \cup {Fixed}]
          /\ pos \in [Procs -> Nat]
          /\ locked \in [Procs -> Obj \cup {None}]
          /\ chain \in [Procs -> SUBSET Obj]
          /\ copied \subseteq Obj
          /\ scanned \in [Words -> Nat]
          /\ broken \subseteq Obj

\* The counts are those of reset_shared_data.
Init == /\ round = 0
        /\ master = [r \in Rounds |-> None]
        /\ came = [p \in Procs |-> 0]
        /\ pc = [p \in Procs |-> "program"]
        /\ arrived = [r \in Rounds |-> [b \in Barriers |-> {}]]
        /\ heapletIndex = 0
        /\ flipCount = N /\ consingDone = N /\ copyReady = N
        /\ slaveDone = N /\ endReady = N
        /\ gcComplete = FALSE
        /\ queue = << >> /\ busy = 0
        /\ idle = [p \in Procs |-> FALSE]
        /\ words = [h \in Heaplets |-> << >>]
        /\ scan = [h \in Heaplets |-> 0]
        /\ cons = [p \in Procs |-> 0]
        /\ left = [p \in Procs |-> Quantum]
        /\ area = [p \in Procs |-> Fixed]
        /\ pos = [p \in Procs |-> 0]
        /\ locked = [p \in Procs |-> None]
        /\ chain = [p \in Procs |-> {}]
        /\ copied = {} /\ broken = {}
        /\ scanned = [w \in Words |-> 0]

-----------------------------------------------------------------------------

Set(f, p, x) == [f EXCEPT ![p] = x]
Step(p, from, to) == pc[p] = from /\ pc' = Set(pc, p, to)
IsMaster(p) == master[came[p]] = p
One(b) == IF b THEN 1 ELSE 0

-----------------------------------------------------------------------------
(* The rendezvous *)

\* GLOBAL-INTERRUPT returns TRUE to one processor ...
StartMaster(p) ==
    /\ Step(p, "program", "start")
    /\ came[p] = round
    /\ round < MaxRounds
    /\ round' = round + 1
    /\ came' = Set(came, p, round + 1)
    /\ master' = Set(master, round + 1, p)
    /\ UNCHANGED <<arrived, counts, shared, heap, weak>>

\* ... and the others begin gc-slave.
StartSlave(p) ==
    /\ Step(p, "program", "start")
    /\ came[p] < round
    /\ came' = Set(came, p, round)
    /\ UNCHANGED <<round, master, arrived, counts, shared, heap, weak>>

Arrive(p) ==
    /\ pc[p] \in Barriers
    /\ p \notin arrived[came[p]][pc[p]]
    /\ arrived' = [arrived EXCEPT ![came[p]][pc[p]] = @ \cup {p}]
    /\ UNCHANGED <<round, master, came, pc, counts, shared, heap, weak>>

\* What p does after a synchronizer: test-and-gc, gc-slave.
Following(p, b) ==
    CASE b = "start"     -> IF IsMaster(p) THEN "prepare" ELSE "sync"
      [] b = "sync"      -> "resources"
      [] b = "resources" -> IF IsMaster(p) THEN "setup" ELSE "flip"
      [] b = "after"     -> "program"

Pass(p) ==
    /\ pc[p] \in Barriers
    /\ arrived[came[p]][pc[p]] = Procs
    /\ pc' = Set(pc, p, Following(p, pc[p]))
    /\ UNCHANGED <<mode, counts, shared, heap, weak>>

\* A bug: Slave_Done_Count keeps the value of the last collection.
PrepareNotSlaveDone(p) ==
    /\ Step(p, "prepare", "sync")
    /\ heapletIndex' = 0
    /\ gcComplete' = FALSE
    /\ flipCount' = N /\ consingDone' = N /\ copyReady' = N /\ endReady' = N
    /\ copied' = {} /\ broken' = {}
    /\ scanned' = [w \in Words |-> 0]
    /\ UNCHANGED <<mode, slaveDone, shared, words, scan, cons, left, area, pos,
                   locked, chain>>

\* MASTER-GC-BEFORE-SYNC; from here on nothing is forwarded.
Prepare(p) ==
    /\ Step(p, "prepare", "sync")
    /\ heapletIndex' = 0
    /\ gcComplete' = FALSE
    /\ flipCount' = N /\ consingDone' = N /\ copyReady' = N
    /\ slaveDone' = N /\ endReady' = N
    /\ copied' = {} /\ broken' = {}
    /\ scanned' = [w \in Words |-> 0]
    /\ UNCHANGED <<mode, shared, words, scan, cons, left, area, pos, locked,
                   chain>>

\* Finish_GC by the master: Initialize_Heaplet_Queue.
Setup(p) ==
    /\ Step(p, "setup", "flip")
    /\ busy' = N
    /\ UNCHANGED <<mode, counts, queue, idle, heap, weak>>

Flip(p) ==
    /\ Step(p, "flip", "flipped")
    /\ flipCount' = flipCount - 1
    /\ chain' = Set(chain, p, {})
    /\ UNCHANGED <<mode, consingDone, copyReady, slaveDone, endReady, gcComplete,
                   shared, heap, broken>>

\* A bug: nobody waits for the others to flip.
FlippedAtOnce(p) ==
    /\ Step(p, "flipped", "partition")
    /\ UNCHANGED <<mode, counts, shared, heap, weak>>

Flipped(p) ==
    /\ Step(p, "flipped", "partition")
    /\ flipCount = 0
    /\ UNCHANGED <<mode, counts, shared, heap, weak>>

-----------------------------------------------------------------------------
(* Copying *)

\* get_consing_partition: without an index it terminates the program.
NewHeaplet(p, desired) ==
    /\ heapletIndex <= MaxIndex
    /\ cons' = Set(cons, p, heapletIndex)
    /\ left' = Set(left, p, IF desired < Quantum - Buffer THEN Quantum
                            ELSE desired + Buffer)
    /\ words' = Set(words, heapletIndex, << >>)
    /\ scan' = Set(scan, heapletIndex, 0)
    /\ heapletIndex' = heapletIndex + 1

\* GC: a heaplet to copy into, then the constant space, the stack and the code.
Partition(p) ==
    /\ Step(p, "partition", "scan")
    /\ NewHeaplet(p, 0)
    /\ area' = Set(area, p, Fixed)
    /\ pos' = Set(pos, p, 0)
    /\ idle' = Set(idle, p, FALSE)
    /\ UNCHANGED <<mode, counts, queue, busy, locked, copied, scanned, weak>>

Content(p) == IF area[p] = Fixed THEN Roots[p] ELSE words[area[p]]

\* What the word at Scan points to, and what it is, for the properties.
Target(p) == IF area[p] = Fixed THEN Roots[p][pos[p] + 1]
             ELSE LET word == words[area[p]][pos[p] + 1] IN Fields[word[1]][word[2]]
Scanned(p) == scanned' =
    IF area[p] = Fixed THEN scanned
    ELSE [scanned EXCEPT ![words[area[p]][pos[p] + 1]] = @ + 1]

\* GCLoop at a word that needs no copy: it is relocated where it is.
Relocate(p) ==
    /\ pc[p] = "scan"
    /\ pos[p] < Len(Content(p))
    /\ Target(p) \in copied \cup {None}
    /\ pos' = Set(pos, p, pos[p] + 1)
    /\ Scanned(p)
    /\ UNCHANGED <<mode, pc, counts, shared, room, words, scan, area, copied,
                   weak>>

\* The word at Scan points to an object that is not forwarded, and that no
\* other processor has locked.
Unmoved(p) == /\ pos[p] < Len(Content(p))
              /\ Target(p) \notin copied \cup {None}
              /\ \A q \in Procs \ {p} : locked[q] # Target(p)

\* gcloop_vector leaves a word free for the broken heart that stops the scan;
\* the other objects have the buffer.
Fits(p, t) == t \in Vectors => left[p] > Size[t]

Copy(p) ==
    LET t == Target(p)
        h == cons[p] IN
    /\ pc[p] = "scan"
    /\ Unmoved(p)
    /\ Fits(p, t)
    /\ locked' = Set(locked, p, None)
    /\ copied' = copied \cup {t}
    /\ words' = [words EXCEPT ![h] = @ \o WordsOf(t)]
    /\ left' = Set(left, p, left[p] - Size[t])
    /\ chain' = Set(chain, p, chain[p] \cup
                                 (IF WeakCar[t] = None THEN {} ELSE {t}))
    /\ pos' = Set(pos, p, pos[p] + 1)
    /\ Scanned(p)
    /\ pc' = Set(pc, p, IF left'[p] <= Buffer THEN "overflow" ELSE "scan")
    /\ UNCHANGED <<mode, counts, shared, heapletIndex, scan, cons, area, broken>>

\* The vector is locked while p gets another heaplet.
VectorOverflow(p) ==
    /\ Step(p, "scan", "overflow")
    /\ Unmoved(p)
    /\ ~Fits(p, Target(p))
    /\ locked' = Set(locked, p, Target(p))
    /\ UNCHANGED <<mode, counts, shared, heapletIndex, words, scan, cons, left,
                   area, pos, copied, scanned, weak>>

\* The length of the vector that p wants to copy.
Wanted(p) == IF locked[p] = None THEN 0 ELSE Size[locked[p]] - 1

\* get_new_consing_partition: the old heaplet is queued, unless p is scanning
\* it; the result of Push_To_Heaplet_Queue is not looked at.
Overflow(p) ==
    /\ Step(p, "overflow", "scan")
    /\ NewHeaplet(p, Wanted(p))
    /\ queue' = IF area[p] # cons[p] /\ Len(queue) < QueueMax
                THEN Append(queue, cons[p]) ELSE queue
    /\ UNCHANGED <<mode, counts, busy, idle, area, pos, locked, copied, scanned,
                   weak>>

\* The end of an area: Heaplet_Scan follows in a heaplet of p's own.
ScanEnd(p) ==
    /\ Step(p, "scan", "loop")
    /\ pos[p] = Len(Content(p))
    /\ scan' = IF area[p] = Fixed THEN scan ELSE Set(scan, area[p], pos[p])
    /\ UNCHANGED <<mode, counts, shared, room, words, area, pos, copied,
                   scanned, weak>>

\* Scan_Heap: the heaplet that p copies into comes first.
ScanOwn(p) ==
    LET h == cons[p] IN
    /\ Step(p, "loop", "scan")
    /\ scan[h] # Len(words[h])
    /\ area' = Set(area, p, h)
    /\ pos' = Set(pos, p, scan[h])
    /\ UNCHANGED <<mode, counts, shared, room, words, scan, copied, scanned,
                   weak>>

OwnIsScanned(p) == scan[cons[p]] = Len(words[cons[p]])

\* A bug: a processor that is given something stays idle.
PopHeapletIdle(p) ==
    LET h == Last(queue) IN
    /\ Step(p, "loop", "scan")
    /\ OwnIsScanned(p)
    /\ queue # << >>
    /\ queue' = Front(queue)
    /\ area' = Set(area, p, h)
    /\ pos' = Set(pos, p, scan[h])
    /\ scan' = Set(scan, h, Len(words[h]))
    /\ UNCHANGED <<mode, counts, busy, idle, room, words, copied, scanned,
                   weak>>

\* Pop_From_Heaplet_Queue gives a heaplet; Heaplet_Scan is moved at once.
PopHeaplet(p) ==
    LET h == Last(queue) IN
    /\ Step(p, "loop", "scan")
    /\ OwnIsScanned(p)
    /\ queue # << >>
    /\ queue' = Front(queue)
    /\ idle' = Set(idle, p, FALSE)
    /\ busy' = busy + One(idle[p])
    /\ area' = Set(area, p, h)
    /\ pos' = Set(pos, p, scan[h])
    /\ scan' = Set(scan, h, Len(words[h]))
    /\ UNCHANGED <<mode, counts, room, words, copied, scanned, weak>>

\* A bug: an empty queue is taken for the end.
PopNothingDone(p) ==
    /\ Step(p, "loop", "consed")
    /\ OwnIsScanned(p)
    /\ queue = << >>
    /\ idle' = Set(idle, p, TRUE)
    /\ busy' = busy - One(~idle[p])
    /\ UNCHANGED <<mode, counts, queue, heap, weak>>

\* The queue is empty: p is idle, and all is done if all are.
PopNothing(p) ==
    /\ pc[p] = "loop"
    /\ OwnIsScanned(p)
    /\ queue = << >>
    /\ idle' = Set(idle, p, TRUE)
    /\ busy' = busy - One(~idle[p])
    /\ pc' = Set(pc, p, IF busy' = 0 THEN "consed" ELSE "loop")
    /\ UNCHANGED <<mode, counts, queue, heap, weak>>

-----------------------------------------------------------------------------
(* The end of GC *)

ConsingDone(p) ==
    /\ Step(p, "consed", "weak")
    /\ consingDone' = consingDone - 1
    /\ UNCHANGED <<mode, flipCount, copyReady, slaveDone, endReady, gcComplete,
                   shared, heap, weak>>

\* Fix_Weak_Chain
FixWeak(p) ==
    /\ Step(p, "weak", "copyReady")
    /\ broken' = broken \cup {o \in chain[p] : WeakCar[o] \notin copied}
    /\ chain' = Set(chain, p, {})
    /\ UNCHANGED <<mode, counts, shared, heap>>

CopyReady(p) ==
    /\ Step(p, "copyReady", "move")
    /\ copyReady' = copyReady - 1
    /\ UNCHANGED <<mode, flipCount, consingDone, slaveDone, endReady, gcComplete,
                   shared, heap, weak>>

\* A bug: p does not wait for the others before it moves its heap.
MoveAtOnce(p) ==
    /\ Step(p, "move", "moved")
    /\ UNCHANGED <<mode, counts, shared, heap, weak>>

\* The new heap of p is moved over the old one.
Move(p) ==
    /\ Step(p, "move", "moved")
    /\ copyReady = 0
    /\ UNCHANGED <<mode, counts, shared, heap, weak>>

SlaveDone(p) ==
    /\ Step(p, "moved", "grab")
    /\ slaveDone' = slaveDone - 1
    /\ UNCHANGED <<mode, flipCount, consingDone, copyReady, endReady, gcComplete,
                   shared, heap, weak>>

\* Grab_Heap_Space_After_GC, once the others have left the heap of p.
Grab(p) ==
    /\ Step(p, "grab", "grabbed")
    /\ consingDone = 0
    /\ UNCHANGED <<mode, counts, shared, heap, weak>>

EndReady(p) ==
    /\ Step(p, "grabbed", IF IsMaster(p) THEN "slaves" ELSE "complete")
    /\ endReady' = endReady - 1
    /\ UNCHANGED <<mode, flipCount, consingDone, copyReady, slaveDone, gcComplete,
                   shared, heap, weak>>

\* A bug: the daemons do not wait for the slaves.
StartDaemonsAtOnce(p) ==
    /\ Step(p, "slaves", "daemons")
    /\ UNCHANGED <<mode, counts, shared, heap, weak>>

\* The master waits for the slaves, and runs the daemons.
StartDaemons(p) ==
    /\ Step(p, "slaves", "daemons")
    /\ slaveDone = 0
    /\ UNCHANGED <<mode, counts, shared, heap, weak>>

FinishMaster(p) ==
    /\ Step(p, "daemons", "after")
    /\ endReady = 0
    /\ gcComplete' = TRUE
    /\ UNCHANGED <<mode, flipCount, consingDone, copyReady, slaveDone, endReady,
                   shared, heap, weak>>

Complete(p) ==
    /\ Step(p, "complete", "after")
    /\ gcComplete
    /\ UNCHANGED <<mode, counts, shared, heap, weak>>

-----------------------------------------------------------------------------

Proceed(p) == \/ StartSlave(p) \/ Arrive(p) \/ Pass(p)
              \/ Prepare(p) \/ Setup(p) \/ Flip(p) \/ Flipped(p)
              \/ Partition(p) \/ Relocate(p) \/ Copy(p)
              \/ VectorOverflow(p) \/ Overflow(p)
              \/ ScanEnd(p) \/ ScanOwn(p) \/ PopHeaplet(p) \/ PopNothing(p)
              \/ ConsingDone(p) \/ FixWeak(p) \/ CopyReady(p) \/ Move(p)
              \/ SlaveDone(p) \/ Grab(p) \/ EndReady(p) \/ StartDaemons(p)
              \/ FinishMaster(p) \/ Complete(p)

Next == \/ \E p \in Procs : Proceed(p) \/ StartMaster(p)
        \* no more collections
        \/ /\ round = MaxRounds
           /\ \A p \in Procs : pc[p] = "program" /\ came[p] = round
           /\ UNCHANGED vars

Spec == Init /\ [][Next]_vars

\* Every processor runs, and the slaves take the interrupt.
FairSpec == Spec /\ \A p \in Procs : WF_vars(Proceed(p))

-----------------------------------------------------------------------------

\* The objects that the program can still get at: the smallest set that has
\* what the roots point to and all that its own members point to.
IsClosed(S) == /\ \A p \in Procs : \A i \in DOMAIN Roots[p] : Roots[p][i] \in S
               /\ \A o \in S : \A f \in DOMAIN Fields[o] :
                     Fields[o][f] \in S \cup {None}
Reachable == {o \in Obj : \A S \in SUBSET Obj : IsClosed(S) => o \in S}

\* p has not left Scan_Heap yet, in the collection that is under way.
StillConsing(p) == came[p] < round \/
    pc[p] \in {"start", "prepare", "sync", "resources", "setup", "flip", "flipped",
               "partition", "loop", "scan", "overflow"}
StillFixing(p) == StillConsing(p) \/ pc[p] \in {"consed", "weak"}
StillMoving(p) == StillFixing(p) \/ pc[p] \in {"copyReady", "move"}

InRound(p) == round # 0 /\ came[p] = round

(***************************************************************************)
(* Nobody leaves Scan_Heap before all that is reachable is copied and      *)
(* every copied word has been scanned: queue_busy_count detects the end.   *)
(* Every word is scanned once only: two processors never scan one heaplet. *)
(***************************************************************************)
AllIsScanned ==
    /\ \A w \in Words : scanned[w] <= 1
    /\ (\E p \in Procs : InRound(p) /\ ~StillConsing(p)) =>
          /\ copied = Reachable
          /\ \A o \in Reachable : \A w \in ToSet(WordsOf(o)) : scanned[w] = 1

(***************************************************************************)
(* "The total number of heaplets is smaller than the length of the queue,  *)
(* so it should never fill up": there is room for a heaplet to be queued.  *)
(***************************************************************************)
QueueNeverFillsUp == \A p \in Procs :
    pc[p] = "overflow" /\ area[p] # cons[p] => Len(queue) < QueueMax

(***************************************************************************)
(* A weak pair loses what it points to if and only if that is not          *)
(* reachable, whoever has copied it and when.                              *)
(***************************************************************************)
WeakPairsAreRight ==
    (\A p \in Procs : InRound(p) /\ ~StillFixing(p)) =>
        broken = {o \in Reachable : WeakCar[o] \notin Reachable \cup {None}}

(***************************************************************************)
(* "We can't copy until everyone else has finished fixing their weak       *)
(* conses": the move of a heap overwrites the broken hearts that           *)
(* Fix_Weak_Chain follows.                                                 *)
(***************************************************************************)
MovesComeLast == \A p \in Procs : InRound(p) /\ ~StillMoving(p) =>
    \A q \in Procs : ~StillFixing(q)

(***************************************************************************)
(* Scheme code runs again (the daemons on the master, then the program)    *)
(* only when the heaps of all the processors have been moved.              *)
(***************************************************************************)
SchemeSeesTheNewHeap == \A p \in Procs :
    InRound(p) /\ pc[p] \in {"daemons", "after", "program"} =>
        \A q \in Procs : ~StillMoving(q)

\* p needs a heaplet and terminates the program.
OutOfIndices(p) == pc[p] \in {"partition", "overflow"} /\ heapletIndex > MaxIndex

(***************************************************************************)
(* Every collection that is started ends, for everybody, unless the        *)
(* program is terminated for want of a heaplet index.                      *)
(***************************************************************************)
CollectionsEnd == [](\A p \in Procs : ~OutOfIndices(p)) =>
    \A r \in Rounds : \A p \in Procs :
        round = r ~> came[p] >= r /\ pc[p] = "program"

=============================================================================
