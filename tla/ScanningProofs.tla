---------------------------- MODULE ScanningProofs ----------------------------
(***************************************************************************)
(* What is proved of the copying and scanning of objects, for every heap,  *)
(* every number of processors and any distribution of the work: nothing    *)
(* that is reachable is left out when the processors agree that all is     *)
(* done, and the weak pairs that lose their car are the right ones.        *)
(***************************************************************************)
EXTENDS CollectionProofs

-----------------------------------------------------------------------------
(* Heaplets *)

\* p has a heaplet to copy into; it is scanning; it is scanning h.
Active(p) == Past(p, PastPartition)
Scanning(p) == InRound(p) /\ pc[p] \in {"scan", "overflow"}
Scans(p, h) == Scanning(p) /\ area[p] = h
Used == 0 .. heapletIndex - 1

\* Every heaplet belongs to one processor, that copies into it or scans it, or
\* to the queue, or it has been scanned.
OneOwner ==
    /\ \A p \in Procs : Active(p) => cons[p] \in Used
    /\ \A p, q \in Procs : Active(p) /\ Active(q) /\ cons[p] = cons[q] => p = q
    /\ \A p \in Procs : Scanning(p) => area[p] \in Used \cup {Fixed}
    /\ \A p, q \in Procs : p # q /\ Scanning(p) =>
          /\ Scanning(q) /\ area[q] = area[p] => area[p] = Fixed
          /\ Active(q) => area[p] # cons[q]
    /\ \A i \in DOMAIN queue :
          /\ queue[i] \in Used
          /\ \A j \in DOMAIN queue : queue[i] = queue[j] => i = j
          /\ \A p \in Procs : /\ Active(p) => queue[i] # cons[p]
                              /\ Scanning(p) => queue[i] # area[p]

\* The heaplets have the words of the objects that are copied, once each.
WordsAreOnce ==
    /\ \A h \in Used : \A i \in DOMAIN words[h] : \E o \in copied :
          \E f \in DOMAIN Fields[o] : words[h][i] = <<o, f>>
    /\ \A h, k \in Used : \A i \in DOMAIN words[h], j \in DOMAIN words[k] :
          words[h][i] = words[k][j] => h = k /\ i = j
    /\ \A o \in copied : \A f \in DOMAIN Fields[o] :
          \E h \in Used : \E i \in DOMAIN words[h] : words[h][i] = <<o, f>>

\* The words before the scan pointer have been scanned, those after it not.
ScannedTo(h) ==
    /\ scan[h] <= Len(words[h])
    /\ \A p \in Procs : Scans(p, h) =>
          /\ pos[p] <= Len(words[h])
          /\ \A i \in DOMAIN words[h] : scanned[words[h][i]] = One(i <= pos[p])
    /\ (\A p \in Procs : ~Scans(p, h)) =>
          \A i \in DOMAIN words[h] : scanned[words[h][i]] = One(i <= scan[h])
ScannedBelow == \A h \in Used : ScannedTo(h)

\* A heaplet that has words to scan is not forgotten.
NoneForgotten == \A h \in Used :
    \/ scan[h] = Len(words[h])
    \/ \E p \in Procs : Scans(p, h) \/ (Active(p) /\ cons[p] = h)
    \/ \E i \in DOMAIN queue : queue[i] = h

\* What has been scanned points to what has been copied.
TargetsAreCopied ==
    /\ \A w \in Words :
          /\ scanned[w] # 0 => Fields[w[1]][w[2]] \in copied \cup {None}
          /\ w[1] \notin copied => scanned[w] = 0
    /\ \A p \in Procs : Active(p) => \A i \in DOMAIN Roots[p] :
          (Scans(p, Fixed) /\ i > pos[p]) \/ Roots[p][i] \in copied
    /\ \A p \in Procs : Scans(p, Fixed) => pos[p] <= Len(Roots[p])

\* What is not reachable is not copied.
OnlyReachable == \A S \in SUBSET Obj : IsClosed(S) => copied \subseteq S

HeapInv == /\ OneOwner /\ WordsAreOnce /\ ScannedBelow
           /\ TargetsAreCopied /\ OnlyReachable

-----------------------------------------------------------------------------
(* The end of scanning *)

Busy(p) == ~(Active(p) /\ idle[p])
BusyOnes == {p \in Procs : Busy(p)}

\* queue_busy_count counts those who may still find something to scan.
BusyCounts ==
    /\ busy = IF SetUp THEN Cardinality(BusyOnes) ELSE 0
    /\ busy = 0 => queue = << >>
    /\ \A p \in Procs : /\ Past(p, PastScan) => busy = 0
                        /\ Active(p) /\ idle[p] =>
                              pc[p] \in {"loop"} \cup PastScan /\ OwnIsScanned(p)

-----------------------------------------------------------------------------
(* Weak pairs *)

\* A weak pair that is copied is on the chain of the one who copied it, until
\* its car is known.
WeakInv ==
    /\ \A p \in Procs :
          chain[p] # {} => Active(p) /\ ~Past(p, PastWeak)
    /\ Prepared =>
          /\ \A p \in Procs : chain[p] \subseteq {o \in copied : WeakCar[o] # None}
          /\ \A o \in copied : \/ WeakCar[o] \in copied \cup {None} \/ o \in broken
                               \/ \E p \in Procs : o \in chain[p]
          /\ broken \subseteq {o \in copied : WeakCar[o] \notin copied \cup {None}}
          /\ broken # {} => SetUp /\ busy = 0

HeapTypes == /\ heapletIndex \in 0 .. MaxIndex + 1
             /\ queue \in Seq(Heaplets) /\ Len(queue) <= QueueMax
             /\ idle \in [Procs -> BOOLEAN]
             /\ words \in [Heaplets -> Seq(Words)]
             /\ scan \in [Heaplets -> Nat]
             /\ cons \in [Procs -> Heaplets]
             /\ left \in [Procs -> Nat \ {0}]
             /\ locked \in [Procs -> Obj \cup {None}]
             /\ area \in [Procs -> Heaplets \cup {Fixed}]
             /\ pos \in [Procs -> Nat]
             /\ chain \in [Procs -> SUBSET Obj]
             /\ copied \subseteq Obj
             /\ scanned \in [Words -> Nat]
             /\ broken \subseteq Obj

CountersFit == {flipCount, consingDone, copyReady, slaveDone, endReady}
                  \subseteq 0 .. N
CounterTypes == CountersFit /\ gcComplete \in BOOLEAN

\* Who is about to copy has more left in its heaplet than the buffer.
MoreThanBuffer == \A p \in Procs : pc[p] \in {"scan", "loop"} => left[p] > Buffer

ScannedOnce == \A w \in Words : scanned[w] <= 1

ScanInv == /\ HeapTypes /\ MoreThanBuffer /\ ScannedOnce
           /\ (Prepared => HeapInv) /\ BusyCounts /\ WeakInv
FullInv == ScanInv /\ (Prepared => NoneForgotten)

-----------------------------------------------------------------------------
(* Places *)

\* Where the heap is touched.
LEMMA PlaceFacts ==
  ASSUME PhaseInv, NEW p \in Procs
  PROVE  /\ pc[p] \notin {"program", "after"} => InRound(p)
         /\ pc[p] \in {"scan", "overflow", "loop"} => Active(p)
         /\ Scanning(p) <=> pc[p] \in {"scan", "overflow"}
         /\ pc[p] = "partition" => ~Active(p)
         /\ Active(p) \/ pc[p] = "partition" => Prepared /\ SetUp
<1>1. pc[p] \notin {"program", "after"} => InRound(p)
  <2> SUFFICES ASSUME pc[p] \notin {"program", "after"} PROVE InRound(p)
    OBVIOUS
  <2>1. came[p] \in 0 .. MaxRounds /\ round \in 0 .. MaxRounds
    BY DEF PhaseInv, PhaseTypes
  <2>2. came[p] <= round /\ ~(came[p] < round) /\ came[p] # 0
    BY DEF PhaseInv, Rendezvous
  <2> QED
    BY <2>1, <2>2, SizesAssumption DEF InRound
<1>2. Past(p, PastFlipped) => Prepared /\ SetUp
  <2> SUFFICES ASSUME Past(p, PastFlipped) PROVE Prepared /\ SetUp
    OBVIOUS
  <2>1. round # 0 /\ master[round] \in Procs
    BY DEF PhaseInv, OneMaster, Past, InRound
  <2>2. Past(master[round], PastFlip)
    BY <2>1 DEF PhaseInv, GatesHold
  <2>3. Past(master[round], PastPrepare) /\ Past(master[round], PastSetup)
    BY <2>2 DEF Past, PastFlip, PastSetup, PastResources, PastSync, PastPrepare
  <2> QED
    BY <2>1, <2>3 DEF Prepared, SetUp
<1>3. Active(p) => Past(p, PastFlipped)
  BY DEF Active, Past, PastFlipped
<1> HIDE DEF Past
<1>4. pc[p] = "partition" => Past(p, PastFlipped)
  BY <1>1 DEF Past, PastFlipped
<1>5. /\ pc[p] \in {"scan", "overflow", "loop"} => Active(p)
      /\ Scanning(p) <=> pc[p] \in {"scan", "overflow"}
      /\ pc[p] = "partition" => ~Active(p)
  BY <1>1
  DEF Active, Scanning, Past, PastPartition, PastScan, PastConsed,
      PastWeak, PastCopyReady, PastMove, PastMoved, PastGrabbed, PastSlaves,
      PastDaemons, PastAfter
<1> QED
  BY <1>1, <1>2, <1>3, <1>4, <1>5

\* What belongs to the others.
OthersKeep(p) == \A q \in Procs \ {p} :
    /\ Active(q)' <=> Active(q)
    /\ Scanning(q)' <=> Scanning(q)
    /\ cons'[q] = cons[q] /\ area'[q] = area[q] /\ pos'[q] = pos[q]
    /\ idle'[q] = idle[q] /\ chain'[q] = chain[q]

\* A step changes the scanning state of no other processor.
LEMMA StepOthersKeep ==
  ASSUME PhaseInv, HeapTypes, NEW p \in Procs, StepOf(p), ~StartMaster(p)
  PROVE  OthersKeep(p)
<1>1. OthersStay(p)
  BY StepOthersStay DEF PhaseInv
<1>2. \A q \in Procs \ {p} : /\ Active(q)' <=> Active(q)
                             /\ Scanning(q)' <=> Scanning(q)
  BY <1>1 DEF OthersStay, Active, Scanning, Past, InRound
<1>3. \A q \in Procs \ {p} :
        /\ cons'[q] = cons[q] /\ area'[q] = area[q] /\ pos'[q] = pos[q]
        /\ idle'[q] = idle[q] /\ chain'[q] = chain[q]
  BY DEF StepOf, HeapTypes, Set, shared, room, heap, weak, NewHeaplet,
         StartSlave, Arrive, Pass, Prepare, Setup, Flip, Flipped, Partition,
         Relocate, Copy, VectorOverflow, Overflow, ScanEnd, ScanOwn, PopHeaplet,
         PopNothing,
         ConsingDone, FixWeak, CopyReady, Move, SlaveDone, Grab, EndReady,
         StartDaemons, FinishMaster, Complete
<1> QED
  BY <1>2, <1>3 DEF OthersKeep

-----------------------------------------------------------------------------
(* Types *)

\* Who takes a heaplet finds an index for it.
LEMMA IndexForHeaplet ==
  ASSUME HeapTypes, NEW p \in Procs, Partition(p) \/ Overflow(p)
  PROVE  heapletIndex \in Heaplets
<1>1. heapletIndex <= MaxIndex
  BY DEF Partition, Overflow, NewHeaplet
<1> QED
  BY <1>1, SizesAssumption DEF HeapTypes, Heaplets

\* There is an entry in the array for each heaplet that is taken.
LEMMA UsedHeaplets ==
  ASSUME HeapTypes
  PROVE  Used \subseteq Heaplets
BY SizesAssumption DEF HeapTypes, Used, Heaplets

\* The words of an object, and what they point to.
LEMMA WordsOfFacts ==
  ASSUME NEW o \in Obj
  PROVE  /\ WordsOf(o) \in Seq(Words)
         /\ Len(WordsOf(o)) = Len(Fields[o])
         /\ DOMAIN WordsOf(o) = DOMAIN Fields[o]
         /\ \A f \in DOMAIN Fields[o] : WordsOf(o)[f] = <<o, f>>
         /\ \A f \in DOMAIN Fields[o] : <<o, f>> \in Words
<1>1. Fields[o] \in Seq(Obj \cup {None})
  BY HeapAssumption
<1>2. \A f \in DOMAIN Fields[o] : <<o, f>> \in Words
  BY DEF Words
<1>3. DOMAIN Fields[o] = 1 .. Len(Fields[o]) /\ Len(Fields[o]) \in Nat
  BY <1>1
<1> QED
  BY <1>2, <1>3 DEF WordsOf

\* A word is a place of an object, and what it holds is an object or nothing.
LEMMA WordFacts ==
  ASSUME NEW w \in Words
  PROVE  /\ w[1] \in Obj /\ w[2] \in DOMAIN Fields[w[1]]
         /\ w = <<w[1], w[2]>>
         /\ Fields[w[1]][w[2]] \in Obj \cup {None}
<1>1. PICK o \in Obj : w \in {<<o, f>> : f \in DOMAIN Fields[o]}
  BY DEF Words
<1>2. PICK f \in DOMAIN Fields[o] : w = <<o, f>>
  BY <1>1
<1>3. Fields[o][f] \in Obj \cup {None}
  BY HeapAssumption
<1> QED
  BY <1>2, <1>3

\* What a scan pointer points to before the end of the area.
LEMMA TargetFacts ==
  ASSUME HeapTypes, NEW p \in Procs, pos[p] < Len(Content(p))
  PROVE  /\ Target(p) \in Obj \cup {None}
         /\ area[p] # Fixed => words[area[p]][pos[p] + 1] \in Words
<1>1. pos[p] \in Nat /\ area[p] \in Heaplets \cup {Fixed}
  BY DEF HeapTypes
<1>2. CASE area[p] = Fixed
  BY <1>1, <1>2, HeapAssumption DEF Content, Target
<1>3. CASE area[p] # Fixed
  <2>1. words[area[p]] \in Seq(Words)
    BY <1>1, <1>3 DEF HeapTypes
  <2>2. words[area[p]][pos[p] + 1] \in Words
    BY <1>1, <1>3, <2>1 DEF Content
  <2> QED
    BY <1>3, <2>2, WordFacts DEF Target
<1> QED
  BY <1>2, <1>3

\* Marking a word as scanned keeps the marks in range.
LEMMA ScannedTypes ==
  ASSUME HeapTypes, NEW p \in Procs, pos[p] < Len(Content(p)), Scanned(p)
  PROVE  scanned' \in [Words -> Nat]
<1>1. scanned \in [Words -> Nat]
  BY DEF HeapTypes
<1>2. CASE area[p] = Fixed
  BY <1>1, <1>2 DEF Scanned
<1>3. CASE area[p] # Fixed
  <2>1. words[area[p]][pos[p] + 1] \in Words
    BY <1>3, TargetFacts
  <2> QED
    BY <1>1, <1>3, <2>1 DEF Scanned
<1> QED
  BY <1>2, <1>3

\* How much there is in a new heaplet.
LEMMA NewHeapletLeft ==
  ASSUME HeapTypes, NEW p \in Procs, Partition(p) \/ Overflow(p)
  PROVE  left' \in [Procs -> Nat \ {0}] /\ left'[p] > Buffer
<1>1. Wanted(p) \in Nat
  BY HeapAssumption DEF HeapTypes, Wanted
<1>2. ASSUME NEW desired \in Nat, NewHeaplet(p, desired)
      PROVE  left' \in [Procs -> Nat \ {0}] /\ left'[p] > Buffer
  BY <1>2, RoomAssumption DEF NewHeaplet, Set, HeapTypes
<1> QED
  BY <1>1, <1>2 DEF Partition, Overflow

\* What is copied leaves a word at least.
LEMMA CopyLeft ==
  ASSUME HeapTypes, MoreThanBuffer, NEW p \in Procs, Copy(p)
  PROVE  left' \in [Procs -> Nat \ {0}]
<1> DEFINE t == Target(p)
<1>1. t \in Obj /\ left[p] > Buffer /\ (t \in Vectors => left[p] > Size[t])
  BY TargetFacts DEF Copy, Unmoved, Fits, MoreThanBuffer
<1>2. left' = [left EXCEPT ![p] = left[p] - Size[t]]
  BY DEF Copy, Set
<1>3. Size[t] \in Nat /\ (t \notin Vectors => Size[t] < Buffer)
  BY <1>1, HeapAssumption, RoomAssumption
<1> HIDE DEF t
<1> QED
  BY <1>1, <1>2, <1>3, RoomAssumption DEF HeapTypes

\* The heap, the queue and the scan pointers stay in their ranges.
LEMMA StepHeapTypes ==
  ASSUME PhaseInv, HeapTypes, MoreThanBuffer, NEW p \in Procs, StepOf(p)
  PROVE  HeapTypes'
<1> USE SizesAssumption
    DEF HeapTypes, Step, Set, shared, room, heap, weak
<1>1. CASE StartMaster(p)
  BY <1>1 DEF StartMaster
<1>2. CASE StartSlave(p)
  BY <1>2 DEF StartSlave
<1>3. CASE Arrive(p)
  BY <1>3 DEF Arrive
<1>4. CASE Pass(p)
  BY <1>4 DEF Pass, Following
<1>5. CASE Prepare(p)
  BY <1>5 DEF Prepare
<1>6. CASE Setup(p)
  BY <1>6 DEF Setup
<1>7. CASE Flip(p)
  BY <1>7 DEF Flip
<1>8. CASE Flipped(p)
  BY <1>8 DEF Flipped
<1>9. CASE Partition(p)
  <2>1. heapletIndex \in Heaplets
    BY <1>9, IndexForHeaplet
  <2>2. heapletIndex + 1 \in 0 .. MaxIndex + 1
    BY <2>1 DEF Heaplets
  <2>3. left' \in [Procs -> Nat \ {0}]
    BY <1>9, NewHeapletLeft
  <2> QED
    BY <1>9, <2>1, <2>2, <2>3 DEF Partition, NewHeaplet
<1>10. CASE Relocate(p)
  <2>1. scanned' \in [Words -> Nat]
    BY <1>10, ScannedTypes DEF Relocate
  <2>2. pos' \in [Procs -> Nat]
    BY <1>10 DEF Relocate
  <2> QED
    BY <1>10, <2>1, <2>2 DEF Relocate
<1>11. CASE Copy(p)
  <2>1. scanned' \in [Words -> Nat]
    BY <1>11, ScannedTypes DEF Copy, Unmoved
  <2>2. Target(p) \in Obj
    BY <1>11, TargetFacts DEF Copy, Unmoved
  <2>3. WordsOf(Target(p)) \in Seq(Words)
    BY <2>2, WordsOfFacts
  <2>4. words' \in [Heaplets -> Seq(Words)]
    BY <1>11, <2>3 DEF Copy
  <2>5. chain' \in [Procs -> SUBSET Obj] /\ copied' \subseteq Obj
    BY <1>11, <2>2 DEF Copy
  <2>6. pos' \in [Procs -> Nat] /\ locked' \in [Procs -> Obj \cup {None}]
    BY <1>11 DEF Copy
  <2>7. left' \in [Procs -> Nat \ {0}]
    BY <1>11, CopyLeft
  <2> HIDE DEF Set
  <2> QED
    BY <1>11, <2>1, <2>4, <2>5, <2>6, <2>7 DEF Copy
<1>12. CASE Overflow(p)
  <2>1. heapletIndex \in Heaplets
    BY <1>12, IndexForHeaplet
  <2>2. heapletIndex + 1 \in 0 .. MaxIndex + 1
    BY <2>1 DEF Heaplets
  <2>3. left' \in [Procs -> Nat \ {0}]
    BY <1>12, NewHeapletLeft
  <2> QED
    BY <1>12, <2>1, <2>2, <2>3 DEF Overflow, NewHeaplet
<1>13. CASE ScanEnd(p)
  <2>1. CASE area[p] = Fixed
    BY <1>13, <2>1 DEF ScanEnd
  <2>2. CASE area[p] # Fixed
    BY <1>13, <2>2 DEF ScanEnd
  <2> QED
    BY <2>1, <2>2
<1>14. CASE ScanOwn(p)
  BY <1>14 DEF ScanOwn
<1>15. CASE PopHeaplet(p)
  <2>0. queue \in Seq(Heaplets) /\ Len(queue) \in 1 .. QueueMax
    BY <1>15 DEF PopHeaplet
  <2>1. /\ Last(queue) \in Heaplets
        /\ Front(queue) \in Seq(Heaplets) /\ Len(Front(queue)) <= QueueMax
    <3> HIDE DEF HeapTypes
    <3> QED
      BY <2>0 DEF Last, Front
  <2> DEFINE h == Last(queue)
  <2>2. queue' \in Seq(Heaplets) /\ Len(queue') <= QueueMax
    BY <1>15, <2>1 DEF PopHeaplet
  <2>3. /\ words' = words /\ words[h] \in Seq(Words)
        /\ scan' = [scan EXCEPT ![h] = Len(words[h])]
    BY <1>15, <2>1 DEF PopHeaplet
  <2>4. scan' \in [Heaplets -> Nat]
    BY <2>1, <2>3
  <2>5. pos' = [pos EXCEPT ![p] = scan[h]] /\ area' = [area EXCEPT ![p] = h]
    BY <1>15 DEF PopHeaplet
  <2>6. pos' \in [Procs -> Nat] /\ area' \in [Procs -> Heaplets \cup {Fixed}]
    BY <2>1, <2>5
  <2>7. idle' \in [Procs -> BOOLEAN]
    BY <1>15 DEF PopHeaplet
  <2> HIDE DEF h
  <2> QED
    BY <1>15, <2>2, <2>3, <2>4, <2>6, <2>7 DEF PopHeaplet
<1>16. CASE PopNothing(p)
  BY <1>16 DEF PopNothing
<1>17. CASE ConsingDone(p)
  BY <1>17 DEF ConsingDone
<1>18. CASE FixWeak(p)
  BY <1>18 DEF FixWeak
<1>19. CASE CopyReady(p)
  BY <1>19 DEF CopyReady
<1>20. CASE Move(p)
  BY <1>20 DEF Move
<1>21. CASE SlaveDone(p)
  BY <1>21 DEF SlaveDone
<1>22. CASE Grab(p)
  BY <1>22 DEF Grab
<1>23. CASE EndReady(p)
  BY <1>23 DEF EndReady
<1>24. CASE StartDaemons(p)
  BY <1>24 DEF StartDaemons
<1>25. CASE FinishMaster(p)
  BY <1>25 DEF FinishMaster
<1>26. CASE Complete(p)
  BY <1>26 DEF Complete
<1>27. CASE VectorOverflow(p)
  <2>1. Target(p) \in Obj
    BY <1>27, TargetFacts DEF VectorOverflow, Unmoved
  <2> QED
    BY <1>27, <2>1 DEF VectorOverflow
<1> QED
  BY <1>1, <1>2, <1>3, <1>4, <1>5, <1>6, <1>7, <1>8, <1>9, <1>10, <1>11,
     <1>12, <1>13, <1>14, <1>15, <1>16, <1>17, <1>18, <1>19, <1>20, <1>21,
     <1>22, <1>23, <1>24, <1>25, <1>26, <1>27 DEF StepOf

-----------------------------------------------------------------------------
(* Steps that leave the heap alone *)

QuietStep(p) ==
    \/ StartSlave(p) \/ Arrive(p) \/ Pass(p) \/ Setup(p) \/ Flip(p)
    \/ Flipped(p) \/ VectorOverflow(p) \/ PopNothing(p) \/ ConsingDone(p) \/ FixWeak(p)
    \/ CopyReady(p) \/ Move(p) \/ SlaveDone(p) \/ Grab(p) \/ EndReady(p)
    \/ StartDaemons(p) \/ FinishMaster(p) \/ Complete(p)

Quiet == /\ UNCHANGED <<heapletIndex, words, scan, cons, area, pos, copied,
                        scanned, queue>>
         /\ \A q \in Procs : /\ Active(q)' <=> Active(q)
                             /\ Scanning(q)' <=> Scanning(q)

\* The places after Partition_Heap, written out.
LEMMA PastPartitionIs ==
  PastPartition = {"loop", "scan", "overflow", "consed", "weak", "copyReady",
                   "move", "moved", "grab", "grabbed", "slaves", "complete",
                   "daemons", "after", "program"}
BY DEF PastPartition, PastScan, PastConsed, PastWeak, PastCopyReady, PastMove,
       PastMoved, PastGrabbed, PastSlaves, PastDaemons, PastAfter

\* Where a step goes that touches no heaplet: it neither enters nor leaves the
\* scan of one.
LEMMA QuietMoves ==
  ASSUME PhaseTypes, Rendezvous, NEW p \in Procs, QuietStep(p)
  PROVE  /\ round' = round
         /\ \/ ~InRound(p) /\ pc'[p] = "start"
            \/ /\ came' = came
               /\ pc[p] \in PastPartition <=> pc'[p] \in PastPartition
               /\ pc[p] \in {"scan", "overflow"} <=> pc'[p] \in {"scan", "overflow"}
         /\ UNCHANGED <<heapletIndex, words, scan, cons, area, pos, copied,
                        scanned, queue>>
<1> USE SizesAssumption, PastPartitionIs
    DEF PhaseTypes, Rendezvous, Step, Set, Barriers, mode, room, heap, shared
<1>1. CASE StartSlave(p)
  BY <1>1 DEF StartSlave, InRound
<1>2. CASE Arrive(p)
  BY <1>2 DEF Arrive
<1>3. CASE Pass(p)
  BY <1>3 DEF Pass, Following
<1>4. CASE Setup(p)
  BY <1>4 DEF Setup
<1>5. CASE Flip(p)
  BY <1>5 DEF Flip
<1>6. CASE Flipped(p)
  BY <1>6 DEF Flipped
<1>7. CASE PopNothing(p)
  BY <1>7 DEF PopNothing
<1>8. CASE ConsingDone(p)
  BY <1>8 DEF ConsingDone
<1>9. CASE FixWeak(p)
  BY <1>9 DEF FixWeak
<1>10. CASE CopyReady(p)
  BY <1>10 DEF CopyReady
<1>11. CASE Move(p)
  BY <1>11 DEF Move
<1>12. CASE SlaveDone(p)
  BY <1>12 DEF SlaveDone
<1>13. CASE Grab(p)
  BY <1>13 DEF Grab
<1>14. CASE EndReady(p)
  BY <1>14 DEF EndReady
<1>15. CASE StartDaemons(p)
  BY <1>15 DEF StartDaemons
<1>16. CASE FinishMaster(p)
  BY <1>16 DEF FinishMaster
<1>17. CASE Complete(p)
  BY <1>17 DEF Complete
<1>18. CASE VectorOverflow(p)
  BY <1>18 DEF VectorOverflow
<1> QED
  BY <1>1, <1>2, <1>3, <1>4, <1>5, <1>6, <1>7, <1>8, <1>9, <1>10, <1>11,
     <1>12, <1>13, <1>14, <1>15, <1>16, <1>17, <1>18 DEF QuietStep

\* Such a step keeps the heap, and who is active or scanning.
LEMMA QuietSteps ==
  ASSUME PhaseInv, HeapTypes, NEW p \in Procs, QuietStep(p)
  PROVE  Quiet
<1>1. /\ StepOf(p) /\ ~StartMaster(p)
      /\ round' = round
      /\ \/ ~InRound(p) /\ pc'[p] = "start"
         \/ /\ came' = came
            /\ pc[p] \in PastPartition <=> pc'[p] \in PastPartition
            /\ pc[p] \in {"scan", "overflow"} <=> pc'[p] \in {"scan", "overflow"}
      /\ UNCHANGED <<heapletIndex, words, scan, cons, area, pos, copied,
                     scanned, queue>>
  <2>1. StepOf(p)
    BY DEF QuietStep, StepOf
  <2>2. ~StartMaster(p)
    BY QuietMoves, SizesAssumption DEF StartMaster, PhaseInv, PhaseTypes
  <2> QED
    BY <2>1, <2>2, QuietMoves DEF PhaseInv
<1>2. OthersKeep(p)
  BY <1>1, StepOthersKeep
<1>3. /\ Active(p)' <=> Active(p)
      /\ Scanning(p)' <=> Scanning(p)
  BY <1>1, PastPartitionIs DEF Active, Scanning, Past, InRound
<1> QED
  BY <1>1, <1>2, <1>3 DEF Quiet, OthersKeep

\* The places after the master has prepared, and after it has set up.
LEMMA PastPrepareIs ==
  /\ PastSetup = {"flip", "flipped", "partition"} \cup PastPartition
  /\ PastPrepare = {"sync", "resources", "setup"} \cup PastSetup
BY DEF PastPrepare, PastSync, PastResources, PastSetup, PastFlip, PastFlipped

\* Only the master's own steps make a collection prepared, and set up.
LEMMA StepNotPrepare ==
  ASSUME PhaseInv, NEW p \in Procs, StepOf(p), ~StartMaster(p)
  PROVE  /\ Prepared' => Prepared \/ Prepare(p)
         /\ SetUp' => SetUp \/ Setup(p)
<1>. /\ PhaseTypes /\ OneMaster
     /\ InRound(p) => (pc[p] \in {"prepare", "setup"} => p = master[round])
  BY DEF PhaseInv, OneMaster
<1>1. OthersStay(p)
  BY StepOthersStay
<1>2. /\ p = master[round] /\ Past(p, PastPrepare)' /\ ~Past(p, PastPrepare)
            => Prepare(p)
      /\ p = master[round] /\ Past(p, PastSetup)' /\ ~Past(p, PastSetup)
            => Setup(p)
  <2>. SUFFICES ASSUME p = master[round], round' = round
                PROVE  /\ Past(p, PastPrepare)' /\ ~Past(p, PastPrepare)
                             => Prepare(p)
                       /\ Past(p, PastSetup)' /\ ~Past(p, PastSetup)
                             => Setup(p)
    BY <1>1 DEF OthersStay
  <2> USE PastPrepareIs, PastPartitionIs
      DEF PhaseTypes, Past, InRound, Step, Set, Barriers, IsMaster
  <2>1. CASE StartMaster(p)
    BY <2>1
  <2>2. CASE StartSlave(p)
    BY <2>2 DEF StartSlave
  <2>3. CASE Arrive(p)
    BY <2>3 DEF Arrive, mode
  <2>4. CASE Pass(p)
    BY <2>4 DEF Pass, Following, mode
  <2>5. CASE Prepare(p)
    BY <2>5, PastPrepareIs DEF Prepare, mode
  <2>6. CASE Setup(p)
    BY <2>6 DEF Setup, mode
  <2>7. CASE Flip(p)
    BY <2>7 DEF Flip, mode
  <2>8. CASE Flipped(p)
    BY <2>8 DEF Flipped, mode
  <2>9. CASE Partition(p)
    BY <2>9 DEF Partition, NewHeaplet, mode
  <2>10. CASE Relocate(p)
    BY <2>10 DEF Relocate, mode
  <2>11. CASE Copy(p)
    BY <2>11 DEF Copy, mode
  <2>12. CASE Overflow(p)
    BY <2>12 DEF Overflow, NewHeaplet, mode
  <2>13. CASE ScanEnd(p)
    BY <2>13 DEF ScanEnd, mode
  <2>14. CASE ScanOwn(p)
    BY <2>14 DEF ScanOwn, mode
  <2>15. CASE PopHeaplet(p)
    BY <2>15 DEF PopHeaplet, mode
  <2>16. CASE PopNothing(p)
    BY <2>16 DEF PopNothing, mode
  <2>17. CASE ConsingDone(p)
    BY <2>17 DEF ConsingDone, mode
  <2>18. CASE FixWeak(p)
    BY <2>18 DEF FixWeak, mode
  <2>19. CASE CopyReady(p)
    BY <2>19 DEF CopyReady, mode
  <2>20. CASE Move(p)
    BY <2>20 DEF Move, mode
  <2>21. CASE SlaveDone(p)
    BY <2>21 DEF SlaveDone, mode
  <2>22. CASE Grab(p)
    BY <2>22 DEF Grab, mode
  <2>23. CASE EndReady(p)
    BY <2>23 DEF EndReady, mode
  <2>24. CASE StartDaemons(p)
    BY <2>24 DEF StartDaemons, mode
  <2>25. CASE FinishMaster(p)
    BY <2>25 DEF FinishMaster, mode
  <2>26. CASE Complete(p)
    BY <2>26 DEF Complete, mode
  <2>27. CASE VectorOverflow(p)
    BY <2>27 DEF VectorOverflow, mode
  <2> QED
    BY <2>1, <2>2, <2>3, <2>4, <2>5, <2>6, <2>7, <2>8, <2>9, <2>10, <2>11,
       <2>12, <2>13, <2>14, <2>15, <2>16, <2>17, <2>18, <2>19, <2>20, <2>21,
       <2>22, <2>23, <2>24, <2>25, <2>26, <2>27 DEF StepOf
<1>3. round # 0 => master[round] \in Procs
  BY DEF OneMaster
<1>4. \A q \in Procs \ {p}, L \in {PastPrepare, PastSetup} :
        Past(q, L)' <=> Past(q, L)
  BY <1>1, OthersPast
<1> QED
  BY <1>1, <1>2, <1>3, <1>4 DEF Prepared, SetUp, OthersStay, Past, InRound

\* Before a collection is prepared nobody has a heaplet, nor has anybody
\* when one has just been started.
LEMMA NobodyActive ==
  ASSUME PhaseInv, ~Prepared
  PROVE  \A p \in Procs : ~Active(p) /\ ~Scanning(p)
<1>1. \A p \in Procs : Active(p) => Prepared
  BY PlaceFacts
<1>2. \A p \in Procs : Scanning(p) => Active(p)
  BY PastPartitionIs DEF Scanning, Active, Past
<1> QED
  BY <1>1, <1>2

\* A new collection begins with nothing prepared, and nobody in the heap.
LEMMA StartedAnew ==
  ASSUME PhaseInv, NEW p \in Procs, StartMaster(p)
  PROVE  /\ ~Prepared' /\ ~SetUp'
         /\ \A q \in Procs : ~Active(q)' /\ ~Scanning(q)'
<1>1. /\ round' = round + 1 /\ pc'[p] = "start" /\ master'[round'] = p
      /\ \A q \in Procs \ {p} : came'[q] # round'
  BY SizesAssumption
  DEF PhaseInv, PhaseTypes, Rendezvous, StartMaster, Step, Set, Rounds
<1> QED
  BY <1>1, PastPartitionIs, PastPrepareIs
  DEF Prepared, SetUp, Active, Scanning, Past, InRound

\* When the master prepares the heap nobody is in it.
LEMMA PreparedAnew ==
  ASSUME PhaseInv, HeapTypes, NEW p \in Procs, Prepare(p)
  PROVE  \A q \in Procs : /\ ~Active(q) /\ ~Scanning(q)
                          /\ ~Active(q)' /\ ~Scanning(q)'
<1>1. pc[p] = "prepare" /\ pc'[p] = "sync"
  BY DEF PhaseInv, PhaseTypes, Prepare, Step, Set
<1>2. ~Prepared
  <2>1. InRound(p) /\ p = master[round]
    BY <1>1, PlaceFacts DEF PhaseInv, OneMaster
  <2> QED
    BY <1>1, <2>1, PastPrepareIs, PastPartitionIs DEF Prepared, Past
<1>3. OthersKeep(p)
  <2>1. StepOf(p) /\ ~StartMaster(p)
    BY <1>1 DEF StepOf, StartMaster, Step
  <2> QED
    BY <2>1, StepOthersKeep
<1>4. ~Active(p)' /\ ~Scanning(p)'
  BY <1>1, PastPartitionIs DEF Active, Scanning, Past
<1> QED
  BY <1>2, <1>3, <1>4, NobodyActive DEF OthersKeep

\* When the master has prepared it, it is prepared.
LEMMA PreparedNow ==
  ASSUME PhaseInv, NEW p \in Procs, Prepare(p)
  PROVE  Prepared'
<1>1. /\ pc[p] = "prepare" /\ pc'[p] = "sync"
      /\ round' = round /\ master' = master /\ came' = came
  BY DEF PhaseInv, PhaseTypes, Prepare, Step, Set, mode
<1>2. InRound(p) /\ p = master[round]
  BY <1>1, PlaceFacts DEF PhaseInv, OneMaster
<1> QED
  BY <1>1, <1>2, PastPrepareIs DEF Prepared, Past, InRound

\* A copying processor where it is before and after its step.
LEMMA HeapMoves ==
  ASSUME PhaseInv, HeapTypes, NEW p \in Procs,
         \/ Partition(p) \/ Relocate(p) \/ Copy(p) \/ Overflow(p)
         \/ ScanEnd(p) \/ ScanOwn(p) \/ PopHeaplet(p)
  PROVE  /\ OthersKeep(p) /\ Prepared /\ Prepared' /\ Active(p)'
         /\ Active(p) <=> ~Partition(p)
         /\ Scanning(p) <=> Relocate(p) \/ Copy(p) \/ Overflow(p) \/ ScanEnd(p)
         /\ Scanning(p)' <=> ~ScanEnd(p)
<1> USE DEF Partition, Relocate, Copy, Overflow, ScanEnd, ScanOwn, PopHeaplet,
            Step, Set
<1>1. StepOf(p) /\ ~StartMaster(p)
  <2>1. ~StartMaster(p)
    BY DEF StartMaster
  <2> QED
    BY <2>1 DEF StepOf
<1>2. /\ pc[p] = IF Partition(p) THEN "partition"
                 ELSE IF Overflow(p) THEN "overflow"
                 ELSE IF ScanOwn(p) \/ PopHeaplet(p) THEN "loop" ELSE "scan"
      /\ pc'[p] \in IF ScanEnd(p) THEN {"loop"}
                    ELSE IF Copy(p) THEN {"overflow", "scan"} ELSE {"scan"}
      /\ round' = round /\ came' = came /\ master' = master
      /\ ScanEnd(p) => ~Relocate(p) /\ ~Copy(p)
  BY DEF PhaseInv, PhaseTypes, Unmoved, mode
<1>. OthersKeep(p)
  BY <1>1, StepOthersKeep
<1>3. InRound(p) /\ InRound(p)'
  BY <1>2, PlaceFacts DEF InRound
<1>4. Prepared /\ SetUp
  BY <1>2, PlaceFacts
<1>5. Prepared'
  <2>1. OthersStay(p)
    BY <1>1, StepOthersStay DEF PhaseInv
  <2>2. round # 0 /\ master[round] \in Procs
    BY <1>4 DEF PhaseInv, OneMaster, Prepared
  <2>3. Past(p, PastPrepare)'
    BY <1>2, <1>3, PastPrepareIs, PastPartitionIs DEF Past
  <2>4. \A q \in Procs \ {p} : Past(q, PastPrepare)' <=> Past(q, PastPrepare)
    BY <2>1, OthersPast
  <2> QED
    BY <1>2, <1>4, <2>2, <2>3, <2>4 DEF Prepared, Past, InRound
<1>6. /\ Active(p) <=> pc[p] # "partition"
      /\ Active(p)'
      /\ Scanning(p) <=> pc[p] \in {"scan", "overflow"}
      /\ Scanning(p)' <=> pc'[p] \in {"scan", "overflow"}
  BY <1>2, <1>3, PastPartitionIs DEF Active, Scanning, Past
<1> QED
  BY <1>2, <1>4, <1>5, <1>6

\* The steps that touch heaplets, and the others.
LEMMA KindsOfStep ==
  ASSUME NEW p \in Procs, StepOf(p)
  PROVE  \/ StartMaster(p) \/ Prepare(p) \/ QuietStep(p)
         \/ Partition(p) \/ Relocate(p) \/ Copy(p) \/ Overflow(p)
         \/ ScanEnd(p) \/ ScanOwn(p) \/ PopHeaplet(p)
BY DEF StepOf, QuietStep

\* A quiet step does not prepare the heap either.
LEMMA QuietKeeps ==
  ASSUME PhaseInv, HeapTypes, NEW p \in Procs, QuietStep(p)
  PROVE  Quiet /\ (Prepared' => Prepared)
<1>1. ~StartMaster(p) /\ ~Prepare(p)
  <2>1. ~StartMaster(p)
    BY QuietMoves, SizesAssumption DEF StartMaster, PhaseInv, PhaseTypes
  <2>2. ~Prepare(p)
    <3>1. SUFFICES ASSUME Prepare(p) PROVE FALSE
      OBVIOUS
    <3>2. pc[p] = "prepare" /\ pc'[p] = "sync"
      BY <3>1 DEF Prepare, Step, Set, PhaseInv, PhaseTypes
    <3> QED
      BY <3>2
      DEF QuietStep, PhaseInv, PhaseTypes, Step, Set, Barriers,
          StartSlave, Arrive, Pass, Setup, Flip, Flipped, VectorOverflow,
          PopNothing, ConsingDone, FixWeak, CopyReady, Move, SlaveDone, Grab,
          EndReady, StartDaemons, FinishMaster, Complete
  <2> QED
    BY <2>1, <2>2
<1>2. StepOf(p)
  BY DEF QuietStep, StepOf
<1> QED
  BY <1>1, <1>2, QuietSteps, StepNotPrepare

\* Nobody goes on to copy with less than the buffer.
LEMMA StepMore ==
  ASSUME PhaseInv, HeapTypes, MoreThanBuffer, NEW p \in Procs, StepOf(p)
  PROVE  MoreThanBuffer'
<1>0. \/ /\ Partition(p) \/ Overflow(p)
         /\ left'[p] > Buffer
      \/ pc'[p] \in {"scan", "loop"} => left'[p] > Buffer
  <2> USE DEF PhaseInv, PhaseTypes, MoreThanBuffer, Step, Set, mode, room, heap
  <2>1. CASE Partition(p) \/ Overflow(p)
    BY <2>1, NewHeapletLeft
  <2>2. CASE Copy(p)
    <3>1. left'[p] \in Nat
      BY <2>2, CopyLeft
    <3>2. Buffer \in Nat /\ pc' = [pc EXCEPT ![p] =
                              IF left'[p] <= Buffer THEN "overflow" ELSE "scan"]
      BY <2>2, RoomAssumption DEF Copy
    <3> HIDE DEF MoreThanBuffer
    <3> QED
      BY <3>1, <3>2
  <2>3. CASE Relocate(p) \/ ScanEnd(p) \/ ScanOwn(p) \/ PopHeaplet(p)
    BY <2>3 DEF Relocate, ScanEnd, ScanOwn, PopHeaplet
  <2>4. CASE StartMaster(p) \/ Prepare(p)
    BY <2>4 DEF StartMaster, Prepare
  <2>5. CASE StartSlave(p) \/ Arrive(p) \/ Setup(p) \/ Flip(p) \/ Flipped(p)
    BY <2>5 DEF StartSlave, Arrive, Setup, Flip, Flipped, Barriers
  <2>6. CASE Pass(p)
    BY <2>6 DEF Pass, Following, Barriers
  <2>7. CASE VectorOverflow(p) \/ PopNothing(p) \/ ConsingDone(p) \/ FixWeak(p)
    BY <2>7 DEF VectorOverflow, PopNothing, ConsingDone, FixWeak
  <2>8. CASE CopyReady(p) \/ Move(p) \/ SlaveDone(p) \/ Grab(p) \/ EndReady(p)
    BY <2>8 DEF CopyReady, Move, SlaveDone, Grab, EndReady
  <2>9. CASE StartDaemons(p) \/ FinishMaster(p) \/ Complete(p)
    BY <2>9 DEF StartDaemons, FinishMaster, Complete
  <2> QED
    BY <2>1, <2>2, <2>3, <2>4, <2>5, <2>6, <2>7, <2>8, <2>9 DEF StepOf
<1>1. \A q \in Procs \ {p} : pc'[q] = pc[q] /\ left'[q] = left[q]
  BY DEF StepOf, PhaseInv, PhaseTypes, HeapTypes, Step, Set, mode, room, heap,
     NewHeaplet, StartMaster, StartSlave, Arrive, Pass, Prepare, Setup, Flip,
     Flipped, Partition, Relocate, Copy, VectorOverflow, Overflow, ScanEnd,
     ScanOwn, PopHeaplet, PopNothing, ConsingDone, FixWeak, CopyReady, Move,
     SlaveDone, Grab, EndReady, StartDaemons, FinishMaster, Complete
<1> QED
  BY <1>0, <1>1 DEF MoreThanBuffer

-----------------------------------------------------------------------------
(* The heap *)

\* A quiet step keeps what is said of the heap.
LEMMA QuietHeap ==
  ASSUME HeapTypes, HeapInv, Quiet
  PROVE  HeapInv' /\ (NoneForgotten => NoneForgotten')
<1> USE DEF Quiet, Used
<1>1. OneOwner'
  BY DEF HeapInv, OneOwner
<1>2. WordsAreOnce'
  BY DEF HeapInv, WordsAreOnce
<1>3. \A q \in Procs : \A h : Scans(q, h)' <=> Scans(q, h)
  BY DEF Scans
<1>4. ScannedBelow'
  BY <1>3 DEF HeapInv, ScannedBelow, ScannedTo
<1>5. NoneForgotten => NoneForgotten'
  BY <1>3 DEF HeapInv, NoneForgotten
<1>6. TargetsAreCopied'
  BY <1>3 DEF HeapInv, TargetsAreCopied
<1>7. OnlyReachable'
  BY DEF HeapInv, OnlyReachable
<1> QED
  BY <1>1, <1>2, <1>4, <1>5, <1>6, <1>7 DEF HeapInv

\* An empty heap is as it should be.
LEMMA PreparedHeap ==
  ASSUME PhaseInv, HeapTypes, queue = << >>, NEW p \in Procs, Prepare(p)
  PROVE  HeapInv' /\ NoneForgotten'
<1>1. /\ \A q \in Procs : ~Active(q)' /\ ~Scanning(q)'
      /\ heapletIndex' = 0 /\ queue' = << >> /\ copied' = {}
      /\ scanned' = [w \in Words |-> 0]
  BY PreparedAnew DEF Prepare, shared
<1>2. Used' = {}
  BY <1>1 DEF Used
<1>3. \A q \in Procs : \A h : ~Scans(q, h)'
  BY <1>1 DEF Scans
<1>4. OneOwner' /\ WordsAreOnce' /\ OnlyReachable'
  BY <1>1, <1>2 DEF OneOwner, WordsAreOnce, OnlyReachable
<1>5. ScannedBelow' /\ NoneForgotten'
  BY <1>2 DEF ScannedBelow, NoneForgotten
<1>6. TargetsAreCopied'
  BY <1>1, <1>3 DEF TargetsAreCopied
<1> QED
  BY <1>4, <1>5, <1>6 DEF HeapInv

\* A new heaplet is nobody else's, and empty.
LEMMA PartitionHeap ==
  ASSUME PhaseInv, HeapTypes, HeapInv,
         NEW p \in Procs, Partition(p)
  PROVE  HeapInv' /\ (NoneForgotten => NoneForgotten')
<1>. OneOwner /\ WordsAreOnce /\ ScannedBelow
     /\ TargetsAreCopied /\ OnlyReachable
  BY DEF HeapInv
<1>1. /\ heapletIndex \in Heaplets /\ heapletIndex \in Nat
      /\ cons'[p] = heapletIndex /\ area'[p] = Fixed /\ pos'[p] = 0
      /\ words'[heapletIndex] = << >> /\ scan'[heapletIndex] = 0
      /\ \A k \in Used : words'[k] = words[k] /\ scan'[k] = scan[k]
      /\ Used' = Used \cup {heapletIndex} /\ heapletIndex \notin Used
      /\ Fixed \notin Used'
      /\ UNCHANGED <<queue, copied, scanned>>
  <2>1. heapletIndex \in Heaplets
    BY IndexForHeaplet DEF Partition, Step
  <2> QED
    BY <2>1 DEF Partition, NewHeaplet, Set, HeapTypes, Used, Heaplets, Fixed
<1>2. /\ OthersKeep(p) /\ ~Active(p) /\ ~Scanning(p)
      /\ Active(p)' /\ Scanning(p)'
  BY HeapMoves DEF Partition, Relocate, Copy, Overflow, ScanEnd, Step
<1>3. \A q \in Procs : \A h : Scans(q, h)' <=>
           IF q = p THEN h = Fixed ELSE Scans(q, h)
  BY <1>1, <1>2 DEF Scans, OthersKeep
<1>4. \A q \in Procs \ {p} : /\ Active(q)' <=> Active(q)
                             /\ Scanning(q)' <=> Scanning(q)
                             /\ cons'[q] = cons[q] /\ area'[q] = area[q]
                             /\ pos'[q] = pos[q]
  BY <1>2 DEF OthersKeep
<1>5. \A h : ~Scans(p, h)
  BY <1>2 DEF Scans
<1>10. OneOwner'
  BY <1>1, <1>2, <1>4 DEF OneOwner
<1>11. WordsAreOnce'
  BY <1>1 DEF WordsAreOnce
<1>12. ScannedBelow'
  <2>1. ASSUME NEW h \in Used PROVE ScannedTo(h)'
    <3>1. \A q \in Procs : Scans(q, h)' <=> Scans(q, h)
      BY <1>1, <1>3, <1>5
    <3>2. \A q \in Procs : Scans(q, h) => pos'[q] = pos[q]
      BY <1>4, <1>5
    <3> QED
      BY <1>1, <3>1, <3>2 DEF ScannedBelow, ScannedTo
  <2>2. ASSUME NEW h, h = heapletIndex PROVE ScannedTo(h)'
    <3>1. \A q \in Procs : Scanning(q) => area[q] # h
      BY <1>1, <2>2 DEF OneOwner
    <3>2. \A q \in Procs : ~Scans(q, h)'
      BY <1>1, <1>3, <2>2, <3>1 DEF Scans
    <3>3. DOMAIN words'[h] = {} /\ Len(words'[h]) = 0 /\ scan'[h] = 0
      BY <1>1, <2>2
    <3> QED
      BY <3>2, <3>3 DEF ScannedTo
  <2> QED
    BY <1>1, <2>1, <2>2 DEF ScannedBelow
<1>13. NoneForgotten => NoneForgotten'
  BY <1>1, <1>2, <1>3, <1>4, <1>5 DEF NoneForgotten
<1>14. TargetsAreCopied'
  <2>1. \A i \in DOMAIN Roots[p] : i > pos'[p]
    BY <1>1, HeapAssumption
  <2>2. \A q \in Procs \ {p} : /\ Scans(q, Fixed)' <=> Scans(q, Fixed)
                               /\ pos'[q] = pos[q]
    BY <1>3, <1>4
  <2>3. Scans(p, Fixed)' /\ pos'[p] <= Len(Roots[p])
    BY <1>1, <1>3, HeapAssumption
  <2> QED
    BY <1>1, <1>4, <2>1, <2>2, <2>3 DEF TargetsAreCopied
<1>15. OnlyReachable'
  BY <1>1 DEF OnlyReachable
<1> QED
  BY <1>10, <1>11, <1>12, <1>13, <1>14, <1>15 DEF HeapInv

\* What a step of the scan adds to a heaplet.
WordAdded(p, k, i) ==
    /\ k = cons[p] /\ Target(p) \in copied' \ copied
    /\ i - Len(words[k]) \in DOMAIN Fields[Target(p)]
    /\ words'[k][i] = <<Target(p), i - Len(words[k])>>

\* A step of the scan appends to the heaplet of its processor the words of the
\* object it copies, and nothing else changes.
LEMMA WordsAdded ==
  ASSUME PhaseInv, HeapTypes, HeapInv, NEW p \in Procs, Relocate(p) \/ Copy(p)
  PROVE  /\ copied \subseteq copied' /\ copied' \subseteq copied \cup {Target(p)}
         /\ Target(p) \in copied' \cup {None}
         /\ \A k \in Used :
               /\ Len(words[k]) \in Nat /\ Len(words'[k]) \in Nat
               /\ Len(words[k]) <= Len(words'[k])
               /\ DOMAIN words[k] = 1 .. Len(words[k])
               /\ DOMAIN words'[k] = 1 .. Len(words'[k])
               /\ \A i \in DOMAIN words[k] : words'[k][i] = words[k][i]
               /\ \A i \in DOMAIN words'[k] \ DOMAIN words[k] : WordAdded(p, k, i)
               /\ k # cons[p] => words'[k] = words[k]
         /\ \A f \in DOMAIN Fields[Target(p)] : Target(p) \notin copied =>
               \/ Target(p) \notin copied'
               \/ \E i \in DOMAIN words'[cons[p]] :
                     words'[cons[p]][i] = <<Target(p), f>>
<1>1. Used \subseteq Heaplets /\ \A k \in Used : words[k] \in Seq(Words)
  <2>1. Used \subseteq Heaplets
    BY UsedHeaplets
  <2> QED
    BY <2>1 DEF HeapTypes
<1>2. CASE Relocate(p)
  BY <1>1, <1>2 DEF Relocate
<1>3. CASE Copy(p)
  <2>1. cons[p] \in Heaplets /\ Target(p) \in Obj /\ Target(p) \notin copied
        /\ copied' = copied \cup {Target(p)}
        /\ words' = [words EXCEPT ![cons[p]] = @ \o WordsOf(Target(p))]
    BY <1>3, TargetFacts DEF Copy, Unmoved, HeapTypes
  <2> DEFINE s == words[cons[p]]
             e == WordsOf(Target(p))
             F == Fields[Target(p)]
  <2>2. /\ e \in Seq(Words) /\ s \in Seq(Words) /\ Len(e) = Len(F)
        /\ DOMAIN e = DOMAIN F
        /\ \A f \in DOMAIN F : e[f] = <<Target(p), f>>
    BY <2>1, WordsOfFacts DEF HeapTypes
  <2>3. /\ words'[cons[p]] = s \o e
        /\ \A k \in Used \ {cons[p]} : words'[k] = words[k]
    BY <1>1, <2>1 DEF HeapTypes
  <2> HIDE DEF s, e, F
  <2>4. /\ Len(s) \in Nat /\ Len(e) \in Nat /\ Len(s \o e) = Len(s) + Len(e)
        /\ DOMAIN s = 1 .. Len(s) /\ DOMAIN e = 1 .. Len(e)
        /\ DOMAIN (s \o e) = 1 .. Len(s) + Len(e)
        /\ \A i \in 1 .. Len(s) : (s \o e)[i] = s[i]
        /\ \A i \in 1 .. Len(s) + Len(e) :
              i > Len(s) => (s \o e)[i] = e[i - Len(s)]
        /\ \A f \in 1 .. Len(e) : (s \o e)[Len(s) + f] = e[f]
    <3>1. /\ Len(s) \in Nat /\ Len(e) \in Nat /\ Len(s \o e) = Len(s) + Len(e)
          /\ s \o e \in Seq(Words)
          /\ DOMAIN s = 1 .. Len(s) /\ DOMAIN e = 1 .. Len(e)
      <4>1. s \in Seq(Words) /\ e \in Seq(Words)
        BY <2>2
      <4> QED
        BY <4>1
    <3>2. DOMAIN (s \o e) = 1 .. Len(s) + Len(e)
      BY <3>1
    <3>3. \A i \in 1 .. Len(s) + Len(e) :
             (s \o e)[i] = IF i <= Len(s) THEN s[i] ELSE e[i - Len(s)]
      BY <2>2, <3>1
    <3>4. \A f \in 1 .. Len(e) : (s \o e)[Len(s) + f] = e[f]
      <4>1. TAKE f \in 1 .. Len(e)
      <4>2. /\ Len(s) + f \in 1 .. Len(s) + Len(e)
            /\ ~(Len(s) + f <= Len(s)) /\ (Len(s) + f) - Len(s) = f
        BY <3>1
      <4> QED
        BY <3>3, <4>2
    <3> QED
      BY <3>1, <3>2, <3>3, <3>4
  <2>5. \A k \in Used \ {cons[p]} :
               /\ Len(words[k]) \in Nat /\ Len(words'[k]) \in Nat
               /\ Len(words[k]) <= Len(words'[k])
               /\ DOMAIN words[k] = 1 .. Len(words[k])
               /\ DOMAIN words'[k] = 1 .. Len(words'[k])
               /\ \A i \in DOMAIN words[k] : words'[k][i] = words[k][i]
               /\ \A i \in DOMAIN words'[k] \ DOMAIN words[k] : WordAdded(p, k, i)
    BY <1>1, <2>3
  <2>6. ASSUME NEW i \in DOMAIN (s \o e) \ DOMAIN s PROVE WordAdded(p, cons[p], i)
    <3>1. i \in Int /\ i > Len(s) /\ i <= Len(s) + Len(e)
          /\ i - Len(s) \in DOMAIN e
      BY <2>4, <2>6
    <3>2. words'[cons[p]][i] = <<Target(p), i - Len(s)>>
      BY <2>2, <2>3, <2>4, <3>1
    <3> QED
      BY <2>1, <2>2, <3>1, <3>2 DEF WordAdded, s, F
  <2>7. /\ Len(words[cons[p]]) \in Nat /\ Len(words'[cons[p]]) \in Nat
        /\ Len(words[cons[p]]) <= Len(words'[cons[p]])
        /\ DOMAIN words[cons[p]] = 1 .. Len(words[cons[p]])
        /\ DOMAIN words'[cons[p]] = 1 .. Len(words'[cons[p]])
        /\ \A i \in DOMAIN words[cons[p]] : words'[cons[p]][i] = words[cons[p]][i]
        /\ \A i \in DOMAIN words'[cons[p]] \ DOMAIN words[cons[p]] :
              WordAdded(p, cons[p], i)
    <3>1. s = words[cons[p]]
      BY DEF s
    <3>2. \A i \in DOMAIN words'[cons[p]] \ DOMAIN words[cons[p]] :
              WordAdded(p, cons[p], i)
      BY <2>3, <2>6, <3>1
    <3> QED
      BY <2>3, <2>4, <3>1, <3>2
  <2>8. ASSUME NEW f \in DOMAIN F
        PROVE  \E i \in DOMAIN words'[cons[p]] : words'[cons[p]][i] = <<Target(p), f>>
    <3>1. Len(s) + f \in 1 .. Len(s) + Len(e) /\ (s \o e)[Len(s) + f] = e[f]
      BY <2>2, <2>4
    <3> QED
      BY <2>2, <2>3, <2>4, <3>1
  <2> QED
    BY <2>1, <2>3, <2>5, <2>7, <2>8 DEF F
<1> QED
  BY <1>2, <1>3

\* A word is scanned, and what it points to is copied if it has not been.
LEMMA WordHeap ==
  ASSUME PhaseInv, HeapTypes, HeapInv, NEW p \in Procs, Relocate(p) \/ Copy(p)
  PROVE  HeapInv' /\ (NoneForgotten => NoneForgotten')
<1>. OneOwner /\ WordsAreOnce /\ ScannedBelow
     /\ TargetsAreCopied /\ OnlyReachable
  BY DEF HeapInv
<1>1. /\ pos[p] \in Nat /\ pos[p] < Len(Content(p)) /\ pos'[p] = pos[p] + 1
      /\ area[p] \in Used \cup {Fixed} /\ Fixed \notin Used
      /\ \A q \in Procs : area'[q] = area[q] /\ cons'[q] = cons[q]
      /\ \A h : scan'[h] = scan[h]
      /\ UNCHANGED <<queue, heapletIndex>>
      /\ area[p] = Fixed => scanned' = scanned
      /\ \A k \in Used : words[k] \in Seq(Words) /\ scan[k] \in Nat
  <2>1. area[p] \in Used \cup {Fixed} /\ Fixed \notin Used
    <3>1. Scanning(p)
      BY HeapMoves
    <3> QED
      BY <3>1 DEF OneOwner, HeapTypes, Used, Fixed
  <2>2. Used \subseteq Heaplets
    BY UsedHeaplets
  <2> QED
    BY <2>1, <2>2 DEF Relocate, Copy, Unmoved, Set, HeapTypes, Scanned, shared, room
<1>2. OthersKeep(p) /\ Active(p) /\ Active(p)' /\ Scanning(p) /\ Scanning(p)'
  <2>1. ~Partition(p) /\ ~ScanEnd(p)
    <3>1. ~Partition(p)
      BY DEF Partition, Relocate, Copy, Step
    <3>2. ASSUME pos[p] = Len(Content(p)) PROVE FALSE
      BY <1>1, <3>2
    <3> QED
      BY <3>1, <3>2 DEF ScanEnd
  <2>2. Relocate(p) \/ Copy(p)
    OBVIOUS
  <2> QED
    BY <2>1, <2>2, HeapMoves
<1>3. \A q \in Procs : \A h : Scans(q, h)' <=> Scans(q, h)
  BY <1>1, <1>2 DEF Scans, OthersKeep
<1>4. \A q \in Procs : /\ Active(q)' <=> Active(q)
                       /\ Scanning(q)' <=> Scanning(q)
                       /\ q # p => pos'[q] = pos[q]
  BY <1>2 DEF OthersKeep
<1>5. \A h : Scans(p, h) <=> h = area[p]
  BY <1>2 DEF Scans
<1>6. \A q \in Procs \ {p} : Scans(q, area[p]) => area[p] = Fixed
  BY <1>2 DEF OneOwner, Scans
<1>7. Target(p) \in copied' \cup {None}
  BY DEF Relocate, Copy
<1>8. ASSUME area[p] # Fixed, NEW w, w = words[area[p]][pos[p] + 1]
      PROVE  /\ w \in Words /\ w[1] \in copied
             /\ pos[p] + 1 \in DOMAIN words[area[p]]
             /\ scanned[w] = 0 /\ scanned' = [scanned EXCEPT ![w] = 1]
             /\ Fields[w[1]][w[2]] = Target(p)
  <2>1. pos[p] + 1 \in DOMAIN words[area[p]] /\ area[p] \in Used
    BY <1>1, <1>8 DEF Content
  <2>2. w \in Words
    BY <1>1, <1>8, TargetFacts
  <2>3. PICK o \in copied : \E f \in DOMAIN Fields[o] : w = <<o, f>>
    BY <1>8, <2>1 DEF WordsAreOnce
  <2>4. scanned[w] = One(pos[p] + 1 <= pos[p])
    BY <1>5, <1>8, <2>1 DEF ScannedBelow, ScannedTo
  <2>5. scanned[w] = 0
    BY <1>1, <2>4 DEF One
  <2>6. scanned' = [scanned EXCEPT ![w] = 1]
    BY <1>8, <2>2, <2>5 DEF Relocate, Copy, Scanned, HeapTypes
  <2> QED
    BY <1>8, <2>1, <2>2, <2>3, <2>5, <2>6 DEF Target
<1>9. \A h \in Used : \A i \in DOMAIN words[h] :
        scanned'[words[h][i]] =
          IF h = area[p] /\ i = pos[p] + 1 THEN 1 ELSE scanned[words[h][i]]
  <2> SUFFICES ASSUME NEW h \in Used, NEW i \in DOMAIN words[h]
               PROVE  scanned'[words[h][i]] =
                        IF h = area[p] /\ i = pos[p] + 1 THEN 1
                        ELSE scanned[words[h][i]]
    OBVIOUS
  <2>1. words[h][i] \in Words
    BY <1>1
  <2>2. CASE area[p] = Fixed
    BY <1>1, <2>2
  <2>3. CASE area[p] # Fixed
    <3>1. words[h][i] = words[area[p]][pos[p] + 1] =>
            h = area[p] /\ i = pos[p] + 1
      BY <1>1, <1>8, <2>3 DEF WordsAreOnce
    <3>2. scanned \in [Words -> Nat]
      BY DEF HeapTypes
    <3> QED
      BY <1>8, <2>1, <2>3, <3>1, <3>2
  <2> QED
    BY <2>2, <2>3
<1>0. /\ copied \subseteq copied' /\ copied' \subseteq copied \cup {Target(p)}
      /\ \A k \in Used :
            /\ Len(words[k]) \in Nat /\ Len(words'[k]) \in Nat
            /\ Len(words[k]) <= Len(words'[k])
            /\ DOMAIN words[k] = 1 .. Len(words[k])
            /\ DOMAIN words'[k] = 1 .. Len(words'[k])
            /\ \A i \in DOMAIN words[k] : words'[k][i] = words[k][i]
            /\ \A i \in DOMAIN words'[k] \ DOMAIN words[k] : WordAdded(p, k, i)
            /\ k # cons[p] => words'[k] = words[k]
  BY WordsAdded
<1>. Used' = Used
  BY <1>1 DEF Used
<1>10. OneOwner'
  BY <1>1, <1>4 DEF OneOwner
<1>11. WordsAreOnce'
  <2>1. ASSUME NEW h \in Used, NEW i \in DOMAIN words'[h]
        PROVE  \E o \in copied' : \E f \in DOMAIN Fields[o] : words'[h][i] = <<o, f>>
    <3>1. CASE i \in DOMAIN words[h]
      BY <1>0, <3>1 DEF WordsAreOnce
    <3>2. CASE i \notin DOMAIN words[h]
      BY <1>0, <3>2 DEF WordAdded
    <3> QED
      BY <3>1, <3>2
  <2>2. ASSUME NEW h \in Used, NEW k \in Used, NEW i \in DOMAIN words'[h],
               NEW j \in DOMAIN words'[k], words'[h][i] = words'[k][j]
        PROVE  h = k /\ i = j
    <3>1. CASE i \in DOMAIN words[h] /\ j \in DOMAIN words[k]
      BY <1>0, <2>2, <3>1 DEF WordsAreOnce
    <3>2. CASE i \notin DOMAIN words[h] /\ j \notin DOMAIN words[k]
      <4>1. /\ h = cons[p] /\ k = cons[p]
            /\ words'[h][i] = <<Target(p), i - Len(words[h])>>
            /\ words'[k][j] = <<Target(p), j - Len(words[k])>>
        BY <1>0, <3>2 DEF WordAdded
      <4>2. i - Len(words[h]) = j - Len(words[h])
        BY <2>2, <4>1
      <4>3. i \in Int /\ j \in Int /\ Len(words[h]) \in Int
        BY <1>0
      <4> QED
        BY <4>1, <4>2, <4>3
    <3>3. CASE i \in DOMAIN words[h] /\ j \notin DOMAIN words[k]
      BY <1>0, <2>2, <3>3 DEF WordsAreOnce, WordAdded
    <3>4. CASE i \notin DOMAIN words[h] /\ j \in DOMAIN words[k]
      BY <1>0, <2>2, <3>4 DEF WordsAreOnce, WordAdded
    <3> QED
      BY <3>1, <3>2, <3>3, <3>4
  <2>3. ASSUME NEW o \in copied', NEW f \in DOMAIN Fields[o]
        PROVE  \E h \in Used : \E i \in DOMAIN words'[h] : words'[h][i] = <<o, f>>
    <3>1. CASE o \in copied
      <4>1. PICK h \in Used : \E i \in DOMAIN words[h] : words[h][i] = <<o, f>>
        BY <3>1 DEF WordsAreOnce
      <4> QED
        BY <1>0, <4>1
    <3>2. CASE o \notin copied
      <4>1. o = Target(p) /\ cons[p] \in Used
        BY <1>0, <1>2, <3>2 DEF OneOwner
      <4>2. \E i \in DOMAIN words'[cons[p]] : words'[cons[p]][i] = <<o, f>>
        BY <3>2, <4>1, WordsAdded
      <4> QED
        BY <4>1, <4>2
    <3> QED
      BY <3>1, <3>2
  <2> QED
    BY <2>1, <2>2, <2>3 DEF WordsAreOnce
<1>12. ScannedBelow'
  <2>0. ASSUME NEW k \in Used, NEW i \in DOMAIN words'[k] \ DOMAIN words[k]
        PROVE  scanned'[words'[k][i]] = 0 /\ i > Len(words[k]) /\ k = cons[p]
    <3>1. PICK f \in DOMAIN Fields[Target(p)] : /\ Target(p) \in copied' \ copied
                                  /\ words'[k][i] = <<Target(p), f>>
      BY <1>0 DEF WordAdded
    <3>2. Target(p) \in Obj
      BY <3>1, TargetFacts, HeapAssumption DEF Relocate, Copy, Unmoved
    <3>3. <<Target(p), f>> \in Words
      BY <3>1, <3>2, WordsOfFacts
    <3>4. scanned[<<Target(p), f>>] = 0
      BY <3>1, <3>3 DEF TargetsAreCopied
    <3>5. scanned'[<<Target(p), f>>] = 0
      <4>1. CASE area[p] = Fixed
        BY <1>1, <3>4, <4>1
      <4>2. CASE area[p] # Fixed
        BY <1>8, <3>1, <3>3, <3>4, <4>2 DEF HeapTypes
      <4> QED
        BY <4>1, <4>2
    <3> QED
      BY <1>0, <3>1, <3>5 DEF WordAdded
  <2>1. ASSUME NEW h \in Used PROVE ScannedTo(h)'
    <3>1. CASE h = area[p]
      <4>1. \A q \in Procs : Scans(q, h)' <=> q = p
        BY <1>1, <1>3, <1>5, <1>6, <3>1
      <4>2. pos'[p] <= Len(words[h])
        BY <1>1, <3>1 DEF Content
      <4>3. \A i \in DOMAIN words[h] : scanned[words[h][i]] = One(i <= pos[p])
        BY <1>5, <3>1 DEF ScannedBelow, ScannedTo
      <4>4. \A i \in DOMAIN words[h] : scanned'[words'[h][i]] = One(i <= pos'[p])
        <5> SUFFICES ASSUME NEW i \in DOMAIN words[h]
                     PROVE  scanned'[words'[h][i]] = One(i <= pos'[p])
          OBVIOUS
        <5>1. i \in Nat /\ words'[h][i] = words[h][i]
          BY <1>0
        <5>2. CASE i = pos[p] + 1
          BY <1>1, <1>9, <3>1, <5>1, <5>2 DEF One
        <5>3. CASE i # pos[p] + 1
          <6>1. (i <= pos[p]) = (i <= pos'[p])
            BY <1>1, <5>1, <5>3
          <6> QED
            BY <1>9, <4>3, <5>1, <5>3, <6>1
        <5> QED
          BY <5>2, <5>3
      <4>5. \A i \in DOMAIN words'[h] \ DOMAIN words[h] :
               scanned'[words'[h][i]] = One(i <= pos'[p])
        BY <1>0, <1>1, <2>0, <4>2 DEF One
      <4>6. scan[h] <= Len(words'[h]) /\ pos'[p] <= Len(words'[h])
        BY <1>0, <1>1, <4>2 DEF ScannedBelow, ScannedTo
      <4> QED
        BY <1>1, <4>1, <4>4, <4>5, <4>6 DEF ScannedTo
    <3>2. CASE h # area[p] /\ h # cons[p]
      <4>1. \A q \in Procs : /\ Scans(q, h)' <=> Scans(q, h)
                             /\ Scans(q, h) => pos'[q] = pos[q]
        BY <1>3, <1>4, <1>5, <3>2
      <4> QED
        BY <1>0, <1>1, <1>9, <3>2, <4>1 DEF ScannedBelow, ScannedTo
    <3>3. CASE h # area[p] /\ h = cons[p]
      <4>1. \A q \in Procs : ~Scans(q, h) /\ ~Scans(q, h)'
        <5>1. ~Scans(p, h)
          BY <1>5, <3>3
        <5>2. \A q \in Procs \ {p} : ~Scans(q, h)
          BY <1>2, <3>3 DEF OneOwner, Scans
        <5> QED
          BY <1>3, <5>1, <5>2
      <4>2. \A i \in DOMAIN words[h] : scanned'[words'[h][i]] = One(i <= scan[h])
        BY <1>0, <1>9, <3>3, <4>1 DEF ScannedBelow, ScannedTo
      <4>3. scan[h] <= Len(words[h]) /\ scan[h] \in Nat
        BY <1>1 DEF ScannedBelow, ScannedTo
      <4>4. \A i \in DOMAIN words'[h] \ DOMAIN words[h] :
               scanned'[words'[h][i]] = One(i <= scan[h])
        BY <1>0, <2>0, <4>3 DEF One
      <4> QED
        BY <1>0, <1>1, <4>1, <4>2, <4>3, <4>4 DEF ScannedTo
    <3> QED
      BY <3>1, <3>2, <3>3
  <2> QED
    BY <2>1 DEF ScannedBelow
<1>13. NoneForgotten => NoneForgotten'
  <2> SUFFICES ASSUME NoneForgotten PROVE NoneForgotten'
    OBVIOUS
  <2> SUFFICES ASSUME NEW h \in Used, h # cons[p]
               PROVE  \/ scan'[h] = Len(words'[h])
                      \/ \E q \in Procs :
                            Scans(q, h)' \/ (Active(q)' /\ cons'[q] = h)
                      \/ \E i \in DOMAIN queue' : queue'[i] = h
    BY <1>1, <1>2 DEF NoneForgotten
  <2> QED
    BY <1>0, <1>1, <1>3, <1>4 DEF NoneForgotten
<1>14. TargetsAreCopied'
  <2>1. ASSUME NEW w \in Words
        PROVE  /\ scanned'[w] # 0 => Fields[w[1]][w[2]] \in copied' \cup {None}
               /\ w[1] \notin copied' => scanned'[w] = 0
    <3>1. CASE area[p] = Fixed
      BY <1>0, <1>1, <3>1 DEF TargetsAreCopied
    <3>2. CASE area[p] # Fixed
      <4>1. PICK v \in Words : /\ v[1] \in copied
                               /\ scanned' = [scanned EXCEPT ![v] = 1]
                               /\ Fields[v[1]][v[2]] \in copied' \cup {None}
        BY <1>7, <1>8, <3>2
      <4>2. CASE w = v
        BY <1>0, <4>1, <4>2
      <4>3. CASE w # v
        <5>1. scanned'[w] = scanned[w]
          BY <4>1, <4>3 DEF HeapTypes
        <5> QED
          BY <1>0, <5>1 DEF TargetsAreCopied
      <4> QED
        BY <4>2, <4>3
    <3> QED
      BY <3>1, <3>2
  <2>2. ASSUME NEW q \in Procs, Active(q), NEW i \in DOMAIN Roots[q]
        PROVE  (Scans(q, Fixed) /\ i > pos'[q]) \/ Roots[q][i] \in copied'
    <3>1. (Scans(q, Fixed) /\ i > pos[q]) \/ Roots[q][i] \in copied'
      BY <1>0, <2>2 DEF TargetsAreCopied
    <3>2. CASE q # p
      BY <1>4, <3>1, <3>2
    <3>3. CASE q = p /\ i = pos[p] + 1 /\ area[p] = Fixed
      <4>1. Roots[p][i] = Target(p) /\ Roots[p][i] # None
        BY <3>3, HeapAssumption DEF Target
      <4> QED
        BY <1>7, <3>3, <4>1
    <3>4. CASE q = p /\ ~(i = pos[p] + 1 /\ area[p] = Fixed)
      <4>1. i \in Nat
        BY <3>4, HeapAssumption
      <4>2. area[p] = Fixed /\ i > pos[p] => i > pos'[p]
        BY <1>1, <3>4, <4>1
      <4> QED
        BY <1>5, <3>1, <3>4, <4>2
    <3> QED
      BY <3>2, <3>3, <3>4
  <2>3. ASSUME NEW q \in Procs, Scans(q, Fixed)
        PROVE  pos'[q] <= Len(Roots[q])
    <3>1. CASE q = p
      BY <1>1, <1>5, <2>3, <3>1, HeapAssumption DEF Content
    <3>2. CASE q # p
      BY <1>4, <2>3, <3>2 DEF TargetsAreCopied
    <3> QED
      BY <3>1, <3>2
  <2> QED
    BY <1>3, <1>4, <2>1, <2>2, <2>3 DEF TargetsAreCopied
<1>15. OnlyReachable'
  <2> SUFFICES ASSUME NEW S \in SUBSET Obj, IsClosed(S),
                      Target(p) \in copied' \ copied
               PROVE  Target(p) \in S
    BY <1>0 DEF OnlyReachable
  <2>1. copied \subseteq S
    BY DEF OnlyReachable
  <2>2. Target(p) \in S \cup {None}
    <3>1. CASE area[p] = Fixed
      BY <1>1, <3>1, HeapAssumption DEF Content, Target, IsClosed
    <3>2. CASE area[p] # Fixed
      BY <1>8, <2>1, <3>2, WordFacts DEF IsClosed
    <3> QED
      BY <3>1, <3>2
  <2>3. Target(p) # None
    BY DEF Relocate, Copy, Unmoved
  <2> QED
    BY <2>2, <2>3
<1> QED
  BY <1>10, <1>11, <1>12, <1>13, <1>14, <1>15 DEF HeapInv

\* A full heaplet is queued, or p has it already.
LEMMA OverflowHeap ==
  ASSUME PhaseInv, HeapTypes, HeapInv, NEW p \in Procs,
         Overflow(p)
  PROVE  HeapInv' /\ (QueueNeverFillsUp /\ NoneForgotten => NoneForgotten')
<1>. OneOwner /\ WordsAreOnce /\ ScannedBelow
     /\ TargetsAreCopied /\ OnlyReachable
  BY DEF HeapInv
<1>1. /\ heapletIndex \in Heaplets /\ heapletIndex \in Nat
      /\ cons'[p] = heapletIndex /\ area' = area /\ pos' = pos
      /\ words'[heapletIndex] = << >> /\ scan'[heapletIndex] = 0
      /\ \A k \in Used : words'[k] = words[k] /\ scan'[k] = scan[k]
      /\ Used' = Used \cup {heapletIndex} /\ heapletIndex \notin Used
      /\ Fixed \notin Used'
      /\ UNCHANGED <<copied, scanned>>
      /\ pc[p] = "overflow"
  <2>1. heapletIndex \in Heaplets
    BY IndexForHeaplet DEF Overflow, Step
  <2> QED
    BY <2>1 DEF Overflow, NewHeaplet, Set, HeapTypes, Used, Heaplets, Fixed, Step
<1>2. /\ OthersKeep(p) /\ Active(p) /\ Scanning(p)
      /\ Active(p)' /\ Scanning(p)'
  <2>1. ~Partition(p) /\ ~ScanEnd(p)
    BY <1>1 DEF Partition, ScanEnd, Step
  <2> QED
    BY <2>1, HeapMoves
<1>3. \A q \in Procs : \A h : Scans(q, h)' <=> Scans(q, h)
  BY <1>1, <1>2 DEF Scans, OthersKeep
<1>4. \A q \in Procs \ {p} : /\ Active(q)' <=> Active(q)
                             /\ Scanning(q)' <=> Scanning(q)
                             /\ cons'[q] = cons[q] /\ area'[q] = area[q]
                             /\ pos'[q] = pos[q]
  BY <1>2 DEF OthersKeep
<1>5. /\ cons[p] \in Used /\ area[p] \in Used \cup {Fixed}
      /\ queue \in Seq(Heaplets)
      /\ \/ queue' = queue
         \/ area[p] # cons[p] /\ queue' = Append(queue, cons[p])
      /\ area[p] # cons[p] /\ QueueNeverFillsUp =>
            queue' = Append(queue, cons[p])
  BY <1>1, <1>2 DEF Overflow, QueueNeverFillsUp, OneOwner, HeapTypes
<1>6. /\ \A i \in DOMAIN queue : i \in DOMAIN queue' /\ queue'[i] = queue[i]
      /\ \A i \in DOMAIN queue' \ DOMAIN queue :
            /\ i = Len(queue) + 1 /\ queue'[i] = cons[p]
            /\ area[p] # cons[p]
      /\ area[p] # cons[p] /\ QueueNeverFillsUp =>
            \E i \in DOMAIN queue' : queue'[i] = cons[p]
  <2>1. CASE queue' = queue /\ queue' # Append(queue, cons[p])
    BY <1>5, <2>1
  <2>2. CASE area[p] # cons[p] /\ queue' = Append(queue, cons[p])
    <3>1. /\ Len(queue) \in Nat /\ DOMAIN queue = 1 .. Len(queue)
          /\ DOMAIN queue' = 1 .. (Len(queue) + 1)
          /\ \A i \in 1 .. Len(queue) : queue'[i] = queue[i]
          /\ queue'[Len(queue) + 1] = cons[p]
      <4>1. /\ queue \in Seq(Heaplets) /\ cons[p] \in Heaplets
            /\ queue' = Append(queue, cons[p])
        BY <1>5, <2>2 DEF HeapTypes
      <4>2. Len(queue) \in Nat /\ DOMAIN queue = 1 .. Len(queue)
        BY <4>1
      <4>3. Len(queue') = Len(queue) + 1 /\ DOMAIN queue' = 1 .. Len(queue')
        BY <4>1
      <4> QED
        BY <4>1, <4>2, <4>3
    <3> QED
      BY <2>2, <3>1
  <2>3. CASE area[p] = cons[p]
    BY <1>5, <2>3
  <2> QED
    BY <1>5, <2>1, <2>2, <2>3

<1>10. OneOwner'
  <2>1. /\ \A q \in Procs : Active(q)' => cons'[q] \in Used'
        /\ \A q, r \in Procs :
              Active(q)' /\ Active(r)' /\ cons'[q] = cons'[r] => q = r
    BY <1>1, <1>2, <1>4 DEF OneOwner
  <2>2. \A q \in Procs : Scanning(q)' => area'[q] \in Used' \cup {Fixed}
    BY <1>1, <1>2, <1>4 DEF OneOwner
  <2>3. \A q, r \in Procs : q # r /\ Scanning(q)' =>
          /\ Scanning(r)' /\ area'[r] = area'[q] => area'[q] = Fixed
          /\ Active(r)' => area'[q] # cons'[r]
    BY <1>1, <1>2, <1>4 DEF OneOwner
  <2>4. \A i \in DOMAIN queue' :
          /\ queue'[i] \in Used'
          /\ \A j \in DOMAIN queue' : queue'[i] = queue'[j] => i = j
    BY <1>1, <1>2, <1>5, <1>6 DEF OneOwner
  <2>5. ASSUME NEW i \in DOMAIN queue', NEW q \in Procs
        PROVE  /\ Active(q)' => queue'[i] # cons'[q]
               /\ Scanning(q)' => queue'[i] # area'[q]
    <3>1. CASE i \in DOMAIN queue
      BY <1>1, <1>2, <1>4, <1>6, <3>1 DEF OneOwner
    <3>2. CASE i \notin DOMAIN queue
      BY <1>1, <1>2, <1>4, <1>5, <1>6, <3>2 DEF OneOwner
    <3> QED
      BY <3>1, <3>2
  <2> QED
    BY <2>1, <2>2, <2>3, <2>4, <2>5 DEF OneOwner
<1>11. WordsAreOnce'
  BY <1>1 DEF WordsAreOnce
<1>12. ScannedBelow'
  <2>1. ASSUME NEW h \in Used PROVE ScannedTo(h)'
    BY <1>1, <1>3 DEF ScannedBelow, ScannedTo
  <2>2. ASSUME NEW h, h = heapletIndex PROVE ScannedTo(h)'
    <3>1. \A q \in Procs : Scanning(q) => area[q] # h
      BY <1>1, <2>2 DEF OneOwner
    <3>2. \A q \in Procs : ~Scans(q, h)'
      BY <1>3, <3>1 DEF Scans
    <3>3. DOMAIN words'[h] = {} /\ Len(words'[h]) = 0 /\ scan'[h] = 0
      BY <1>1, <2>2
    <3> QED
      BY <3>2, <3>3 DEF ScannedTo
  <2> QED
    BY <1>1, <2>1, <2>2 DEF ScannedBelow
<1>13. QueueNeverFillsUp /\ NoneForgotten => NoneForgotten'
  <2> SUFFICES ASSUME QueueNeverFillsUp, NoneForgotten PROVE NoneForgotten'
    OBVIOUS
  <2> SUFFICES ASSUME NEW h \in Used
               PROVE  \/ scan'[h] = Len(words'[h])
                      \/ \E q \in Procs :
                            Scans(q, h)' \/ (Active(q)' /\ cons'[q] = h)
                      \/ \E i \in DOMAIN queue' : queue'[i] = h
    BY <1>1 DEF NoneForgotten
  <2>1. CASE h = cons[p]
    BY <1>2, <1>3, <1>6, <2>1 DEF Scans
  <2>2. CASE h # cons[p]
    BY <1>1, <1>3, <1>4, <1>6, <2>2 DEF NoneForgotten
  <2> QED
    BY <2>1, <2>2
<1>14. TargetsAreCopied'
  BY <1>1, <1>2, <1>3, <1>4 DEF TargetsAreCopied
<1>15. OnlyReachable'
  BY <1>1 DEF OnlyReachable
<1> QED
  BY <1>10, <1>11, <1>12, <1>13, <1>14, <1>15 DEF HeapInv

\* What p has scanned to the end needs no owner.
LEMMA ScanEndHeap ==
  ASSUME PhaseInv, HeapTypes, HeapInv, NEW p \in Procs, ScanEnd(p)
  PROVE  HeapInv' /\ (NoneForgotten => NoneForgotten')
<1>. OneOwner /\ WordsAreOnce /\ ScannedBelow
     /\ TargetsAreCopied /\ OnlyReachable
  BY DEF HeapInv
<1>. /\ Used \subseteq Heaplets /\ Fixed \notin Used
     /\ \A k \in Used : words[k] \in Seq(Words) /\ scan[k] \in Nat
  <2>1. Used \subseteq Heaplets
    BY UsedHeaplets
  <2> QED
    BY <2>1 DEF HeapTypes, Used, Fixed
<1>1. /\ UNCHANGED <<queue, heapletIndex, words, cons, area, pos, copied,
                     scanned>>
      /\ Used' = Used /\ pos[p] = Len(Content(p))
      /\ \A h \in Used : scan'[h] = IF h = area[p] THEN pos[p] ELSE scan[h]
  BY DEF ScanEnd, shared, room, Used, HeapTypes, Set
<1>2. OthersKeep(p) /\ Active(p) /\ Active(p)' /\ Scanning(p) /\ ~Scanning(p)'
  <2>1. ~Partition(p)
    BY DEF Partition, ScanEnd, Step
  <2> QED
    BY <2>1, HeapMoves
<1>3. \A q \in Procs : \A h : Scans(q, h)' <=> q # p /\ Scans(q, h)
  BY <1>1, <1>2 DEF Scans, OthersKeep
<1>4. \A q \in Procs \ {p} : /\ Active(q)' <=> Active(q)
                             /\ Scanning(q)' <=> Scanning(q)
                             /\ cons'[q] = cons[q] /\ area'[q] = area[q]
                             /\ pos'[q] = pos[q]
  BY <1>2 DEF OthersKeep
<1>5. \A h : Scans(p, h) <=> h = area[p]
  BY <1>2 DEF Scans
<1>6. \A q \in Procs \ {p} : Scans(q, area[p]) => area[p] = Fixed
  BY <1>2 DEF OneOwner, Scans
<1>7. area[p] # Fixed => pos[p] = Len(words[area[p]])
  BY <1>1 DEF Content
<1>8. area[p] = Fixed => pos[p] = Len(Roots[p])
  BY <1>1 DEF Content

<1>10. OneOwner'
  BY <1>1, <1>2, <1>4 DEF OneOwner
<1>11. WordsAreOnce'
  BY <1>1 DEF WordsAreOnce
<1>12. ScannedBelow'
  <2>1. ASSUME NEW h \in Used PROVE ScannedTo(h)'
    <3>1. CASE h = area[p]
      <4>1. \A q \in Procs : ~Scans(q, h)'
        BY <1>3, <1>6, <3>1
      <4>2. \A i \in DOMAIN words[h] : scanned[words[h][i]] = One(i <= pos[p])
        BY <1>5, <3>1 DEF ScannedBelow, ScannedTo
      <4> QED
        BY <1>1, <1>7, <3>1, <4>1, <4>2 DEF ScannedTo
    <3>2. CASE h # area[p]
      BY <1>1, <1>3, <1>5, <3>2 DEF ScannedBelow, ScannedTo
    <3> QED
      BY <3>1, <3>2
  <2> QED
    BY <1>1, <2>1 DEF ScannedBelow
<1>13. NoneForgotten => NoneForgotten'
  <2> SUFFICES ASSUME NoneForgotten PROVE NoneForgotten'
    OBVIOUS
  <2> SUFFICES ASSUME NEW h \in Used, h # area[p]
               PROVE  \/ scan'[h] = Len(words'[h])
                      \/ \E q \in Procs :
                            Scans(q, h)' \/ (Active(q)' /\ cons'[q] = h)
                      \/ \E i \in DOMAIN queue' : queue'[i] = h
    BY <1>1, <1>7 DEF NoneForgotten
  <2> QED
    BY <1>1, <1>2, <1>3, <1>4, <1>5 DEF NoneForgotten
<1>14. TargetsAreCopied'
  <2>1. \A i \in DOMAIN Roots[p] : Roots[p][i] \in copied
    <3>1. \A i \in DOMAIN Roots[p] : ~(Scans(p, Fixed) /\ i > pos[p])
      BY <1>5, <1>8, HeapAssumption
    <3> QED
      BY <1>2, <3>1 DEF TargetsAreCopied
  <2> QED
    BY <1>1, <1>3, <1>4, <2>1 DEF TargetsAreCopied
<1>15. OnlyReachable'
  BY <1>1 DEF OnlyReachable
<1> QED
  BY <1>10, <1>11, <1>12, <1>13, <1>14, <1>15 DEF HeapInv

\* p goes on with the heaplet it copies into.
LEMMA ScanOwnHeap ==
  ASSUME PhaseInv, HeapTypes, HeapInv, NEW p \in Procs, ScanOwn(p)
  PROVE  HeapInv' /\ (NoneForgotten => NoneForgotten')
<1>. OneOwner /\ WordsAreOnce /\ ScannedBelow
     /\ TargetsAreCopied /\ OnlyReachable
  BY DEF HeapInv
<1>. /\ Used \subseteq Heaplets /\ Fixed \notin Used
     /\ \A k \in Used : words[k] \in Seq(Words) /\ scan[k] \in Nat
  <2>1. Used \subseteq Heaplets
    BY UsedHeaplets
  <2> QED
    BY <2>1 DEF HeapTypes, Used, Fixed
<1>1. /\ UNCHANGED <<queue, heapletIndex, words, scan, cons, copied, scanned>>
      /\ Used' = Used /\ area'[p] = cons[p] /\ pos'[p] = scan[cons[p]]
  BY DEF ScanOwn, shared, room, Used, HeapTypes, Set
<1>2. OthersKeep(p) /\ Active(p) /\ Active(p)' /\ ~Scanning(p) /\ Scanning(p)'
  <2>1. /\ ~Partition(p) /\ ~ScanEnd(p) /\ ~Relocate(p) /\ ~Copy(p)
        /\ ~Overflow(p)
    BY DEF Partition, ScanOwn, ScanEnd, Relocate, Copy, Overflow, Step
  <2> QED
    BY <2>1, HeapMoves
<1>3. \A q \in Procs : \A h : Scans(q, h)' <=>
          IF q = p THEN h = cons[p] ELSE Scans(q, h)
  BY <1>1, <1>2 DEF Scans, OthersKeep
<1>4. \A q \in Procs \ {p} : /\ Active(q)' <=> Active(q)
                             /\ Scanning(q)' <=> Scanning(q)
                             /\ cons'[q] = cons[q] /\ area'[q] = area[q]
                             /\ pos'[q] = pos[q]
  BY <1>2 DEF OthersKeep
<1>5. \A h : ~Scans(p, h)
  BY <1>2 DEF Scans
<1>6. /\ cons[p] \in Used
      /\ \A q \in Procs \ {p} : ~Scans(q, cons[p])
  BY <1>2 DEF OneOwner, Scans

<1>10. OneOwner'
  BY <1>1, <1>2, <1>4, <1>6 DEF OneOwner
<1>11. WordsAreOnce'
  BY <1>1 DEF WordsAreOnce
<1>12. ScannedBelow'
  <2>1. ASSUME NEW h \in Used PROVE ScannedTo(h)'
    <3>1. CASE h = cons[p]
      <4>1. \A q \in Procs : ~Scans(q, h) /\ (Scans(q, h)' <=> q = p)
        BY <1>3, <1>5, <1>6, <3>1
      <4> QED
        BY <1>1, <3>1, <4>1 DEF ScannedBelow, ScannedTo
    <3>2. CASE h # cons[p]
      <4>1. \A q \in Procs : /\ Scans(q, h)' <=> Scans(q, h)
                             /\ Scans(q, h) => pos'[q] = pos[q]
        BY <1>3, <1>4, <1>5, <3>2
      <4> QED
        BY <1>1, <4>1 DEF ScannedBelow, ScannedTo
    <3> QED
      BY <3>1, <3>2
  <2> QED
    BY <1>1, <2>1 DEF ScannedBelow
<1>13. NoneForgotten => NoneForgotten'
  BY <1>1, <1>2, <1>3, <1>4, <1>5 DEF NoneForgotten
<1>14. TargetsAreCopied'
  <2>1. \A q \in Procs : /\ Scans(q, Fixed)' <=> Scans(q, Fixed)
                         /\ Scans(q, Fixed) => pos'[q] = pos[q]
    BY <1>3, <1>4, <1>5, <1>6
  <2> QED
    BY <1>1, <1>2, <1>4, <2>1 DEF TargetsAreCopied
<1>15. OnlyReachable'
  BY <1>1 DEF OnlyReachable
<1> QED
  BY <1>10, <1>11, <1>12, <1>13, <1>14, <1>15 DEF HeapInv

\* A heaplet from the queue has one owner, as before.
LEMMA PopHeapletHeap ==
  ASSUME PhaseInv, HeapTypes, HeapInv, NEW p \in Procs, PopHeaplet(p)
  PROVE  HeapInv' /\ (NoneForgotten => NoneForgotten')
<1>. OneOwner /\ WordsAreOnce /\ ScannedBelow
     /\ TargetsAreCopied /\ OnlyReachable
  BY DEF HeapInv
<1>. /\ Used \subseteq Heaplets /\ Fixed \notin Used
     /\ \A k \in Used : words[k] \in Seq(Words) /\ scan[k] \in Nat
  <2>1. Used \subseteq Heaplets
    BY UsedHeaplets
  <2> QED
    BY <2>1 DEF HeapTypes, Used, Fixed
<1> DEFINE n == Len(queue)
           h0 == queue[n]
<1>0. /\ n \in Nat /\ n \in DOMAIN queue /\ DOMAIN queue = 1 .. n
      /\ Last(queue) = h0 /\ h0 \in Used
      /\ DOMAIN queue' = 1 .. (n - 1)
      /\ \A i \in DOMAIN queue' : queue'[i] = queue[i]
  <2>1. queue \in Seq(Heaplets) /\ queue # << >> /\ queue' = Front(queue)
    BY DEF PopHeaplet, HeapTypes
  <2>2. n \in Nat \ {0} /\ DOMAIN queue = 1 .. n
    BY <2>1
  <2>3. h0 \in Used
    BY <2>2 DEF OneOwner
  <2> QED
    BY <2>1, <2>2, <2>3 DEF Last, Front
<1>1. /\ UNCHANGED <<heapletIndex, words, cons, copied, scanned>>
      /\ Used' = Used /\ area'[p] = h0 /\ pos'[p] = scan[h0]
      /\ \A h \in Used : scan'[h] = IF h = h0 THEN Len(words[h0]) ELSE scan[h]
  BY <1>0 DEF PopHeaplet, shared, room, Used, HeapTypes, Set
<1> HIDE DEF n, h0
<1>2. OthersKeep(p) /\ Active(p) /\ Active(p)' /\ ~Scanning(p) /\ Scanning(p)'
  <2>1. /\ ~Partition(p) /\ ~ScanEnd(p) /\ ~Relocate(p) /\ ~Copy(p)
        /\ ~Overflow(p)
    BY DEF Partition, PopHeaplet, ScanEnd, Relocate, Copy, Overflow, Step
  <2> QED
    BY <2>1, HeapMoves
<1>3. \A q \in Procs : \A h : Scans(q, h)' <=>
          IF q = p THEN h = h0 ELSE Scans(q, h)
  BY <1>1, <1>2 DEF Scans, OthersKeep
<1>4. \A q \in Procs \ {p} : /\ Active(q)' <=> Active(q)
                             /\ Scanning(q)' <=> Scanning(q)
                             /\ cons'[q] = cons[q] /\ area'[q] = area[q]
                             /\ pos'[q] = pos[q]
  BY <1>2 DEF OthersKeep
<1>5. \A h : ~Scans(p, h)
  BY <1>2 DEF Scans
<1>6. /\ \A q \in Procs : ~Scans(q, h0) /\ (Active(q) => cons[q] # h0)
      /\ \A i \in DOMAIN queue' : queue'[i] # h0
  BY <1>0 DEF OneOwner, Scans, h0

<1>10. OneOwner'
  <2>1. /\ \A q \in Procs : Active(q)' => cons'[q] \in Used'
        /\ \A q, r \in Procs :
              Active(q)' /\ Active(r)' /\ cons'[q] = cons'[r] => q = r
    BY <1>1, <1>2, <1>4 DEF OneOwner
  <2>2. \A q \in Procs : Scanning(q)' => area'[q] \in Used' \cup {Fixed}
    BY <1>0, <1>1, <1>2, <1>4 DEF OneOwner
  <2>3. \A q, r \in Procs : q # r /\ Scanning(q)' =>
          /\ Scanning(r)' /\ area'[r] = area'[q] => area'[q] = Fixed
          /\ Active(r)' => area'[q] # cons'[r]
    <3>1. \A q \in Procs \ {p} : Scanning(q)' => area'[q] # h0
      BY <1>4, <1>6 DEF Scans
    <3> QED
      BY <1>1, <1>2, <1>4, <1>6, <3>1 DEF OneOwner
  <2>4. \A i \in DOMAIN queue' :
          /\ queue'[i] \in Used'
          /\ \A j \in DOMAIN queue' : queue'[i] = queue'[j] => i = j
    BY <1>0, <1>1 DEF OneOwner
  <2>5. \A i \in DOMAIN queue', q \in Procs :
               /\ Active(q)' => queue'[i] # cons'[q]
               /\ Scanning(q)' => queue'[i] # area'[q]
    BY <1>0, <1>1, <1>2, <1>4, <1>6 DEF OneOwner
  <2> QED
    BY <2>1, <2>2, <2>3, <2>4, <2>5 DEF OneOwner
<1>11. WordsAreOnce'
  BY <1>1 DEF WordsAreOnce
<1>12. ScannedBelow'
  <2>1. ASSUME NEW h \in Used PROVE ScannedTo(h)'
    <3>1. CASE h = h0
      <4>1. \A q \in Procs : ~Scans(q, h) /\ (Scans(q, h)' <=> q = p)
        BY <1>3, <1>6, <3>1
      <4> QED
        BY <1>1, <3>1, <4>1 DEF ScannedBelow, ScannedTo
    <3>2. CASE h # h0
      <4>1. \A q \in Procs : /\ Scans(q, h)' <=> Scans(q, h)
                             /\ Scans(q, h) => pos'[q] = pos[q]
        BY <1>3, <1>4, <1>5, <3>2
      <4> QED
        BY <1>1, <3>2, <4>1 DEF ScannedBelow, ScannedTo
    <3> QED
      BY <3>1, <3>2
  <2> QED
    BY <1>1, <2>1 DEF ScannedBelow
<1>13. NoneForgotten => NoneForgotten'
  <2> SUFFICES ASSUME NoneForgotten PROVE NoneForgotten'
    OBVIOUS
  <2> SUFFICES ASSUME NEW h \in Used, h # h0
               PROVE  \/ scan'[h] = Len(words'[h])
                      \/ \E q \in Procs :
                            Scans(q, h)' \/ (Active(q)' /\ cons'[q] = h)
                      \/ \E i \in DOMAIN queue' : queue'[i] = h
    BY <1>1, <1>3 DEF NoneForgotten
  <2>1. \A i \in DOMAIN queue : queue[i] = h =>
           i \in DOMAIN queue' /\ queue'[i] = h
    BY <1>0 DEF h0
  <2> QED
    BY <1>1, <1>2, <1>3, <1>4, <1>5, <2>1 DEF NoneForgotten
<1>14. TargetsAreCopied'
  <2>1. \A q \in Procs : /\ Scans(q, Fixed)' <=> Scans(q, Fixed)
                         /\ Scans(q, Fixed) => pos'[q] = pos[q]
    BY <1>0, <1>3, <1>4, <1>5
  <2> QED
    BY <1>1, <1>2, <1>4, <2>1 DEF TargetsAreCopied
<1>15. OnlyReachable'
  BY <1>1 DEF OnlyReachable
<1> QED
  BY <1>10, <1>11, <1>12, <1>13, <1>14, <1>15 DEF HeapInv

-----------------------------------------------------------------------------
(* The end of scanning *)

\* The places after Partition_Heap are those of Scan_Heap and those after it.
LEMMA PastScanIs ==
  /\ PastPartition = {"loop", "scan", "overflow"} \cup PastScan
  /\ PastScan = {"consed", "weak", "copyReady", "move", "moved", "grab",
                 "grabbed", "slaves", "complete", "daemons", "after", "program"}
  /\ PastScan = {"consed", "weak"} \cup PastWeak
BY DEF PastPartition, PastScan, PastConsed, PastWeak, PastCopyReady, PastMove,
       PastMoved, PastGrabbed, PastSlaves, PastDaemons, PastAfter

\* The places after the weak pairs have been fixed, written out.
LEMMA PastWeakIs ==
  PastWeak = {"copyReady", "move", "moved", "grab", "grabbed", "slaves",
              "complete", "daemons", "after", "program"}
BY DEF PastWeak, PastCopyReady, PastMove, PastMoved, PastGrabbed, PastSlaves,
       PastDaemons, PastAfter

\* Who has come past a point stays past it, and what is past Scan_Heap has left
\* it by PopNothing.
LEMMA StepStaysPast ==
  ASSUME PhaseInv, NEW p \in Procs, StepOf(p), ~StartMaster(p)
  PROVE  /\ Past(p, PastSetup) => Past(p, PastSetup)'
         /\ Past(p, PastPartition) => Past(p, PastPartition)'
         /\ Past(p, PastScan) => Past(p, PastScan)'
         /\ Past(p, PastScan)' => Past(p, PastScan) \/ PopNothing(p)
         /\ Past(p, PastWeak)' => Past(p, PastWeak) \/ FixWeak(p)
<1> USE SizesAssumption, PastPrepareIs, PastPartitionIs, PastScanIs,
        PastWeakIs
    DEF PhaseInv, PhaseTypes, Rendezvous, Past, InRound, Step, Set, Barriers,
        IsMaster, mode
<1>1. CASE StartMaster(p)
  BY <1>1
<1>2. CASE StartSlave(p)
  BY <1>2 DEF StartSlave
<1>3. CASE Arrive(p)
  BY <1>3 DEF Arrive
<1>4. CASE Pass(p)
  BY <1>4 DEF Pass, Following
<1>5. CASE Prepare(p)
  BY <1>5 DEF Prepare
<1>6. CASE Setup(p)
  BY <1>6 DEF Setup
<1>7. CASE Flip(p)
  BY <1>7 DEF Flip
<1>8. CASE Flipped(p)
  BY <1>8 DEF Flipped
<1>9. CASE Partition(p)
  BY <1>9 DEF Partition, NewHeaplet
<1>10. CASE Relocate(p)
  BY <1>10 DEF Relocate
<1>11. CASE Copy(p)
  BY <1>11 DEF Copy
<1>12. CASE Overflow(p)
  BY <1>12 DEF Overflow, NewHeaplet
<1>13. CASE ScanEnd(p)
  BY <1>13 DEF ScanEnd
<1>14. CASE ScanOwn(p)
  BY <1>14 DEF ScanOwn
<1>15. CASE PopHeaplet(p)
  BY <1>15 DEF PopHeaplet
<1>16. CASE PopNothing(p)
  BY <1>16 DEF PopNothing
<1>17. CASE ConsingDone(p)
  BY <1>17 DEF ConsingDone
<1>18. CASE FixWeak(p)
  BY <1>18 DEF FixWeak
<1>19. CASE CopyReady(p)
  BY <1>19 DEF CopyReady
<1>20. CASE Move(p)
  BY <1>20 DEF Move
<1>21. CASE SlaveDone(p)
  BY <1>21 DEF SlaveDone
<1>22. CASE Grab(p)
  BY <1>22 DEF Grab
<1>23. CASE EndReady(p)
  BY <1>23 DEF EndReady
<1>24. CASE StartDaemons(p)
  BY <1>24 DEF StartDaemons
<1>25. CASE FinishMaster(p)
  BY <1>25 DEF FinishMaster
<1>26. CASE Complete(p)
  BY <1>26 DEF Complete
<1>27. CASE VectorOverflow(p)
  BY <1>27 DEF VectorOverflow
<1> QED
  BY <1>1, <1>2, <1>3, <1>4, <1>5, <1>6, <1>7, <1>8, <1>9, <1>10, <1>11,
     <1>12, <1>13, <1>14, <1>15, <1>16, <1>17, <1>18, <1>19, <1>20, <1>21,
     <1>22, <1>23, <1>24, <1>25, <1>26, <1>27 DEF StepOf

\* A collection that is set up stays so until the next.
LEMMA SetUpStays ==
  ASSUME PhaseInv, NEW p \in Procs, StepOf(p), ~StartMaster(p), ~Setup(p)
  PROVE  SetUp' <=> SetUp
<1>1. OthersStay(p)
  BY StepOthersStay DEF PhaseInv
<1>2. \A q \in Procs \ {p} : Past(q, PastSetup)' <=> Past(q, PastSetup)
  BY <1>1, OthersPast
<1>3. round # 0 => master[round] \in Procs
  BY DEF PhaseInv, OneMaster
<1>4. SetUp => SetUp'
  BY <1>1, <1>2, <1>3, StepStaysPast DEF OthersStay, SetUp, Past, InRound
<1> QED
  BY <1>4, StepNotPrepare

\* A step that makes nobody busy or idle.
LEMMA BusyStays ==
  ASSUME PhaseInv, BusyCounts, NEW p \in Procs, StepOf(p),
         ~StartMaster(p), ~Setup(p), ~PopNothing(p),
         busy' = busy, BusyOnes' = BusyOnes, busy = 0 => queue' = << >>,
         \A q \in Procs \ {p} :
            /\ Active(q)' <=> Active(q)
            /\ idle'[q] = idle[q]
            /\ Active(q) /\ idle[q] => OwnIsScanned(q)',
         Active(p)' /\ idle'[p] => /\ pc'[p] \in {"loop"} \cup PastScan
                                   /\ OwnIsScanned(p)'
  PROVE  BusyCounts'
<1>1. OthersStay(p)
  BY StepOthersStay DEF PhaseInv
<1>2. \A q \in Procs \ {p} : /\ Past(q, PastScan)' <=> Past(q, PastScan)
                             /\ pc'[q] = pc[q]
  BY <1>1, OthersPast DEF OthersStay
<1>3. busy' = IF SetUp' THEN Cardinality(BusyOnes') ELSE 0
  BY SetUpStays DEF BusyCounts
<1>4. \A q \in Procs : Past(q, PastScan)' => busy' = 0
  BY <1>2, StepStaysPast DEF BusyCounts
<1>5. \A q \in Procs : Active(q)' /\ idle'[q] =>
         pc'[q] \in {"loop"} \cup PastScan /\ OwnIsScanned(q)'
  BY <1>2 DEF BusyCounts
<1> QED
  BY <1>3, <1>4, <1>5 DEF BusyCounts

\* While the heap is set up, queue_busy_count is the number of those that are not
\* idle; who scans is not idle.
LEMMA IdleFacts ==
  ASSUME PhaseInv, HeapTypes, BusyCounts
  PROVE  /\ IsFiniteSet(BusyOnes) /\ Cardinality(BusyOnes) \in Nat
         /\ SetUp => busy = Cardinality(BusyOnes)
         /\ ~SetUp => busy = 0
         /\ \A q \in Procs : q \in BusyOnes <=> ~Active(q) \/ ~idle[q]
         /\ \A q \in Procs : Scanning(q) => q \in BusyOnes
<1>1. IsFiniteSet(BusyOnes)
  BY SizesAssumption, FS_Subset DEF BusyOnes
<1>2. \A q \in Procs : q \in BusyOnes <=> ~Active(q) \/ ~idle[q]
  BY DEF BusyOnes, Busy
<1>3. \A q \in Procs : Scanning(q) => q \in BusyOnes
  BY <1>2, PastScanIs DEF BusyCounts, Scanning
<1> QED
  BY <1>1, <1>2, <1>3, FS_CardinalityType DEF BusyCounts

\* queue_busy_count stays right, and is zero only when the queue is empty and
\* everybody has scanned what they have copied into.
LEMMA StepBusy ==
  ASSUME PhaseInv, HeapTypes, Prepared => HeapInv, BusyCounts,
         NEW p \in Procs, StepOf(p)
  PROVE  BusyCounts'
<1>1. ~StartMaster(p) => OthersKeep(p)
  BY StepOthersKeep
<1>2. CASE StartMaster(p)
  <2>1. busy = 0
    <3>1. pc[p] = "program" /\ came[p] = round
      BY <1>2 DEF StartMaster, Step
    <3>2. CASE round = 0
      BY <3>2, IdleFacts DEF SetUp
    <3>3. CASE round # 0
      BY <3>1, <3>3, PastScanIs DEF Past, InRound, BusyCounts
    <3> QED
      BY <3>2, <3>3
  <2>2. busy' = busy /\ queue' = queue
    BY <1>2 DEF StartMaster, shared
  <2>3. \A q \in Procs : ~Past(q, PastScan)'
    BY <1>2, StartedAnew, PastScanIs DEF Active, Past
  <2> QED
    BY <1>2, <2>1, <2>2, <2>3, StartedAnew DEF BusyCounts
<1>3. CASE Setup(p)
  <2>1. p = master[round] /\ pc[p] = "setup" /\ pc'[p] = "flip" /\ InRound(p)
    BY <1>3, PlaceFacts DEF Setup, Step, Set, PhaseInv, PhaseTypes, OneMaster
  <2>2. ~SetUp
    BY <2>1, PastPrepareIs, PastPartitionIs DEF SetUp, Past
  <2>3. \A q \in Procs : ~Active(q)
    BY <2>2, PlaceFacts
  <2>4. \A q \in Procs : ~Active(q)'
    <3>1. QuietStep(p)
      BY <1>3 DEF QuietStep
    <3> QED
      BY <2>3, <3>1, QuietKeeps DEF Quiet
  <2>5. SetUp'
    BY <1>3, <2>1, PastPrepareIs
    DEF SetUp, Past, InRound, Setup, mode
  <2>6. busy' = N /\ queue' = queue /\ queue = << >>
    BY <1>3, <2>2 DEF Setup, BusyCounts
  <2>7. BusyOnes' = Procs
    BY <2>4 DEF BusyOnes, Busy
  <2>8. \A q \in Procs : ~Past(q, PastScan)'
    BY <2>4, PastScanIs DEF Active, Past
  <2> QED
    BY <2>4, <2>5, <2>6, <2>7, <2>8 DEF BusyCounts, N
<1>4. CASE PopNothing(p)
  <2>1. /\ pc[p] = "loop" /\ ~StartMaster(p) /\ ~Setup(p)
        /\ busy' = busy - One(~idle[p])
        /\ idle' = [idle EXCEPT ![p] = TRUE]
        /\ pc' = [pc EXCEPT ![p] = IF busy' = 0 THEN "consed" ELSE "loop"]
        /\ UNCHANGED <<queue, words, scan, cons>>
        /\ queue = << >> /\ OwnIsScanned(p)
    BY <1>4 DEF PopNothing, Set, StartMaster, Setup, Step, room, heap
  <2>2. Active(p) /\ SetUp /\ SetUp'
    BY <2>1, PlaceFacts, SetUpStays
  <2>3. Quiet
    <3>1. QuietStep(p)
      BY <1>4 DEF QuietStep
    <3> QED
      BY <3>1, QuietKeeps
  <2>4. BusyOnes' = BusyOnes \ {p}
    BY <2>1, <2>2, <2>3 DEF BusyOnes, Busy, Quiet, HeapTypes
  <2>5. busy' = Cardinality(BusyOnes')
    <3>1. CASE idle[p]
      <4>1. BusyOnes' = BusyOnes
        BY <2>2, <2>4, <3>1 DEF BusyOnes, Busy
      <4> QED
        BY <2>1, <2>2, <3>1, <4>1, IdleFacts DEF One
    <3>2. CASE ~idle[p]
      <4>1. p \in BusyOnes
        BY <3>2, IdleFacts
      <4>2. Cardinality(BusyOnes') = Cardinality(BusyOnes) - 1
        BY <2>4, <4>1, IdleFacts, FS_RemoveElement
      <4> QED
        BY <2>1, <2>2, <3>2, <4>2, IdleFacts DEF One
    <3> QED
      BY <3>1, <3>2
  <2>6. \A q \in Procs \ {p} : /\ Past(q, PastScan)' <=> Past(q, PastScan)
                               /\ pc'[q] = pc[q] /\ idle'[q] = idle[q]
    BY <1>1, <2>1, StepOthersStay, OthersPast
    DEF PhaseInv, OthersStay, OthersKeep
  <2>7. \A q \in Procs : Past(q, PastScan)' => busy' = 0
    <3>1. ASSUME NEW q \in Procs, Past(q, PastScan) PROVE busy' = 0
      <4>1. busy = 0
        BY <3>1 DEF BusyCounts
      <4>2. BusyOnes = {}
        BY <2>2, <4>1, IdleFacts, FS_EmptySet
      <4>3. BusyOnes' = {}
        BY <2>4, <4>2
      <4> QED
        BY <2>5, <4>3, FS_EmptySet
    <3>2. Past(p, PastScan)' => busy' = 0
      BY <2>1, PastScanIs DEF Past, PhaseInv, PhaseTypes
    <3> QED
      BY <2>6, <3>1, <3>2
  <2>8. \A q \in Procs : Active(q)' /\ idle'[q] =>
           pc'[q] \in {"loop"} \cup PastScan /\ OwnIsScanned(q)'
    <3>1. OwnIsScanned(p)' /\ pc'[p] \in {"loop"} \cup PastScan
      BY <2>1, PastScanIs DEF OwnIsScanned, PhaseInv, PhaseTypes
    <3>2. \A q \in Procs : OwnIsScanned(q)' <=> OwnIsScanned(q)
      BY <2>1 DEF OwnIsScanned
    <3> QED
      BY <2>3, <2>6, <3>1, <3>2 DEF BusyCounts, Quiet
  <2> QED
    BY <2>1, <2>2, <2>5, <2>7, <2>8 DEF BusyCounts
<1>5. CASE QuietStep(p) /\ ~Setup(p) /\ ~PopNothing(p)
  <2>1. Quiet
    BY <1>5, QuietKeeps
  <2>2. idle' = idle /\ busy' = busy /\ ~StartMaster(p)
    <3>1. ~StartMaster(p)
      BY <1>5, QuietMoves, SizesAssumption DEF StartMaster, PhaseInv, PhaseTypes
    <3> QED
      BY <1>5, <3>1 DEF QuietStep, shared, VectorOverflow, StartSlave, Arrive, Pass, Flip,
         Flipped, ConsingDone, FixWeak, CopyReady, Move, SlaveDone, Grab,
         EndReady, StartDaemons, FinishMaster, Complete
  <2>3. BusyOnes' = BusyOnes
    BY <2>1, <2>2 DEF BusyOnes, Busy, Quiet
  <2>4. \A q \in Procs : OwnIsScanned(q)' <=> OwnIsScanned(q)
    BY <2>1 DEF Quiet, OwnIsScanned
  <2>5. Active(p) /\ idle[p] => pc'[p] \in {"loop"} \cup PastScan
    <3>1. CASE pc[p] = "loop"
      <4>1. FALSE
        BY <1>5, <3>1 DEF QuietStep, VectorOverflow, StartSlave, Arrive, Pass, Flip, Flipped,
           ConsingDone, FixWeak, CopyReady, Move, SlaveDone, Grab, EndReady,
           StartDaemons, FinishMaster, Complete, Step, Barriers
      <4> QED
        BY <4>1
    <3>2. CASE pc[p] # "loop"
      BY <2>2, <3>2, StepStaysPast DEF BusyCounts, Active, Past
    <3> QED
      BY <3>1, <3>2
  <2> QED
    BY <1>5, <2>1, <2>2, <2>3, <2>4, <2>5, BusyStays DEF Quiet, BusyCounts
<1>6. CASE Prepare(p)
  <2>1. \A q \in Procs : ~Active(q) /\ ~Active(q)'
    BY <1>6, PreparedAnew
  <2>2. busy' = busy /\ queue' = queue
    BY <1>6 DEF Prepare, shared
  <2>3. BusyOnes' = BusyOnes
    BY <2>1 DEF BusyOnes, Busy
  <2>4. ~StartMaster(p) /\ ~Setup(p) /\ ~PopNothing(p)
    BY <1>6 DEF Prepare, StartMaster, Setup, PopNothing, Step
  <2> QED
    BY <1>1, <2>1, <2>2, <2>3, <2>4, BusyStays DEF OthersKeep, BusyCounts
<1>7. ASSUME \/ Partition(p) \/ Relocate(p) \/ Copy(p) \/ Overflow(p)
             \/ ScanEnd(p) \/ ScanOwn(p) \/ PopHeaplet(p)
      PROVE  /\ HeapInv /\ OthersKeep(p) /\ Active(p)'
             /\ ~StartMaster(p) /\ ~Setup(p) /\ ~PopNothing(p)
  <2>1. ~StartMaster(p) /\ ~Setup(p) /\ ~PopNothing(p)
    BY <1>7 DEF StartMaster, Setup, PopNothing, Partition, Relocate, Copy,
                Overflow, ScanEnd, ScanOwn, PopHeaplet, Step, OwnIsScanned
  <2>2. Prepared /\ Active(p)'
    BY <1>7, HeapMoves
  <2> QED
    BY <1>1, <2>1, <2>2
<1>8. ASSUME NEW q \in Procs \ {p}, Active(q), idle[q], HeapInv
      PROVE  /\ cons[q] \in Used /\ scan[cons[q]] = Len(words[cons[q]])
             /\ Active(p) => cons[q] # cons[p]
             /\ Scanning(p) => cons[q] # area[p]
             /\ \A i \in DOMAIN queue : queue[i] # cons[q]
  BY <1>8 DEF BusyCounts, OwnIsScanned, HeapInv, OneOwner
<1>9. CASE Partition(p)
  <2>1. ~Active(p) /\ idle'[p] = FALSE /\ busy' = busy /\ queue' = queue
    BY <1>9, HeapMoves DEF Partition, HeapTypes, Set
  <2>2. BusyOnes' = BusyOnes
    BY <1>7, <1>9, <2>1 DEF BusyOnes, Busy, OthersKeep
  <2>3. /\ heapletIndex \notin Used
        /\ \A k \in Used : words'[k] = words[k] /\ scan'[k] = scan[k]
    <3>1. heapletIndex \in Heaplets /\ heapletIndex \notin Used
      BY <1>9, IndexForHeaplet DEF Used, Heaplets
    <3> QED
      BY <1>9, <3>1 DEF Partition, NewHeaplet, Set, HeapTypes, Used
  <2>4. \A q \in Procs \ {p} : Active(q) /\ idle[q] => OwnIsScanned(q)'
    BY <1>7, <1>8, <1>9, <2>3 DEF OwnIsScanned, OthersKeep
  <2> QED
    BY <1>7, <1>9, <2>1, <2>2, <2>4, BusyStays DEF OthersKeep, BusyCounts
<1>10. CASE Relocate(p) \/ Copy(p)
  <2>1. /\ ~idle[p] /\ idle' = idle /\ busy' = busy /\ queue' = queue
        /\ Active(p) /\ Scanning(p)
    <3>1. Scanning(p) /\ Active(p)
      BY <1>10, PlaceFacts DEF Relocate, Copy
    <3> QED
      BY <1>10, <3>1, IdleFacts DEF Relocate, Copy, shared
  <2>2. BusyOnes' = BusyOnes
    BY <1>7, <1>10, <2>1 DEF BusyOnes, Busy, OthersKeep
  <2>3. \A q \in Procs \ {p} : Active(q) /\ idle[q] => OwnIsScanned(q)'
    <3> SUFFICES ASSUME NEW q \in Procs \ {p}, Active(q), idle[q]
                 PROVE  OwnIsScanned(q)'
      OBVIOUS
    <3>1. /\ cons[q] \in Used /\ scan[cons[q]] = Len(words[cons[q]])
          /\ cons[q] # cons[p]
      BY <1>7, <1>8, <1>10, <2>1
    <3>2. words'[cons[q]] = words[cons[q]]
      BY <1>7, <1>10, <3>1, WordsAdded
    <3>3. scan' = scan /\ cons'[q] = cons[q]
      BY <1>10 DEF Relocate, Copy, room
    <3> QED
      BY <3>1, <3>2, <3>3 DEF OwnIsScanned
  <2> QED
    BY <1>7, <1>10, <2>1, <2>2, <2>3, BusyStays DEF OthersKeep, BusyCounts
<1>11. CASE Overflow(p)
  <2>1. Scanning(p) /\ Active(p) /\ SetUp
    BY <1>11, PlaceFacts DEF Overflow, Step
  <2>2. ~idle[p] /\ idle' = idle /\ busy' = busy /\ busy # 0
    <3>1. p \in BusyOnes
      BY <2>1, IdleFacts
    <3>2. Cardinality(BusyOnes) # 0
      BY <3>1, IdleFacts, FS_EmptySet
    <3> QED
      BY <1>11, <2>1, <3>1, <3>2, IdleFacts DEF Overflow
  <2>3. BusyOnes' = BusyOnes
    BY <1>7, <1>11, <2>1, <2>2 DEF BusyOnes, Busy, OthersKeep
  <2>4. /\ heapletIndex \notin Used
        /\ \A k \in Used : words'[k] = words[k] /\ scan'[k] = scan[k]
    <3>1. heapletIndex \in Heaplets /\ heapletIndex \notin Used
      BY <1>11, IndexForHeaplet DEF Used, Heaplets
    <3> QED
      BY <1>11, <3>1 DEF Overflow, NewHeaplet, Set, HeapTypes, Used
  <2>5. \A q \in Procs \ {p} : Active(q) /\ idle[q] => OwnIsScanned(q)'
    BY <1>7, <1>8, <1>11, <2>4 DEF OwnIsScanned, OthersKeep
  <2> QED
    BY <1>7, <1>11, <2>2, <2>3, <2>5, BusyStays DEF OthersKeep
<1>12. CASE ScanEnd(p)
  <2>1. /\ ~idle[p] /\ idle' = idle /\ busy' = busy /\ queue' = queue
        /\ Active(p) /\ Scanning(p)
    <3>1. Scanning(p) /\ Active(p)
      BY <1>12, PlaceFacts DEF ScanEnd, Step
    <3> QED
      BY <1>12, <3>1, IdleFacts DEF ScanEnd, shared
  <2>2. BusyOnes' = BusyOnes
    BY <1>7, <1>12, <2>1 DEF BusyOnes, Busy, OthersKeep
  <2>3. /\ words' = words /\ cons' = cons
        /\ \A k : k # area[p] => scan'[k] = scan[k]
    BY <1>12 DEF ScanEnd, room, Set, HeapTypes
  <2>4. \A q \in Procs \ {p} : Active(q) /\ idle[q] => OwnIsScanned(q)'
    BY <1>7, <1>8, <1>12, <2>1, <2>3 DEF OwnIsScanned
  <2> QED
    BY <1>7, <1>12, <2>1, <2>2, <2>4, BusyStays DEF OthersKeep, BusyCounts
<1>13. CASE ScanOwn(p)
  <2>1. /\ idle' = idle /\ busy' = busy /\ queue' = queue
        /\ words' = words /\ cons' = cons /\ scan' = scan /\ Active(p)
        /\ scan[cons[p]] # Len(words[cons[p]])
    BY <1>13, PlaceFacts DEF ScanOwn, shared, room, Step
  <2>2. ~idle[p]
    BY <2>1 DEF BusyCounts, OwnIsScanned
  <2>3. BusyOnes' = BusyOnes
    BY <1>7, <1>13, <2>1 DEF BusyOnes, Busy, OthersKeep
  <2>4. \A q \in Procs \ {p} : Active(q) /\ idle[q] => OwnIsScanned(q)'
    BY <1>7, <1>8, <1>13, <2>1 DEF OwnIsScanned
  <2> QED
    BY <1>7, <1>13, <2>1, <2>2, <2>3, <2>4, BusyStays DEF OthersKeep, BusyCounts
<1>14. CASE PopHeaplet(p)
  <2>1. /\ Active(p) /\ SetUp /\ queue # << >>
        /\ idle' = [idle EXCEPT ![p] = FALSE] /\ busy' = busy + One(idle[p])
        /\ words' = words /\ cons' = cons
    BY <1>14, PlaceFacts DEF PopHeaplet, room, Step, Set
  <2>2. /\ Len(queue) \in DOMAIN queue
        /\ \A k : k # queue[Len(queue)] => scan'[k] = scan[k]
    BY <1>14, <2>1 DEF PopHeaplet, Last, Set, HeapTypes
  <2>3. busy # 0 /\ busy = Cardinality(BusyOnes)
    BY <2>1, IdleFacts DEF BusyCounts
  <2>4. BusyOnes' = BusyOnes \cup {p}
    BY <1>7, <1>14, <2>1 DEF BusyOnes, Busy, OthersKeep, HeapTypes
  <2>5. busy' = Cardinality(BusyOnes') /\ busy' # 0
    <3>1. CASE idle[p]
      <4>1. p \notin BusyOnes
        BY <2>1, <3>1, IdleFacts
      <4>2. Cardinality(BusyOnes') = Cardinality(BusyOnes) + 1
        BY <2>4, <4>1, IdleFacts, FS_AddElement
      <4> QED
        BY <2>1, <2>3, <3>1, <4>2, IdleFacts DEF One
    <3>2. CASE ~idle[p]
      <4>1. BusyOnes' = BusyOnes
        BY <2>4, <3>2, IdleFacts
      <4> QED
        BY <2>1, <2>3, <3>2, <4>1, IdleFacts DEF One
    <3> QED
      BY <3>1, <3>2
  <2>6. SetUp'
    BY <1>7, <1>14, <2>1, SetUpStays
  <2>7. \A q \in Procs : ~Past(q, PastScan)'
    <3>1. \A q \in Procs : ~Past(q, PastScan)
      BY <2>3 DEF BusyCounts
    <3>2. OthersStay(p)
      BY <1>7, <1>14, StepOthersStay DEF PhaseInv
    <3> QED
      BY <1>7, <1>14, <3>1, <3>2, OthersPast, StepStaysPast
  <2>8. ASSUME NEW q \in Procs, Active(q)', idle'[q]
        PROVE  pc'[q] \in {"loop"} \cup PastScan /\ OwnIsScanned(q)'
    <3>1. q # p
      BY <2>1, <2>8 DEF HeapTypes
    <3>2. Active(q) /\ idle[q]
      BY <1>7, <1>14, <2>8, <3>1 DEF OthersKeep
    <3>3. OthersStay(p)
      BY <1>7, <1>14, StepOthersStay DEF PhaseInv
    <3> QED
      BY <1>7, <1>8, <1>14, <2>1, <2>2, <3>1, <3>2, <3>3
      DEF OthersStay, BusyCounts, OwnIsScanned
  <2> QED
    BY <2>5, <2>6, <2>7, <2>8 DEF BusyCounts
<1> QED
  BY <1>2, <1>3, <1>4, <1>5, <1>6, <1>9, <1>10, <1>11, <1>12, <1>13, <1>14,
     KindsOfStep

-----------------------------------------------------------------------------
(* Weak pairs *)

\* Nobody leaves the heap before the next collection, and FixWeak alone takes a
\* processor past the weak pairs.
LEMMA PlacesStay ==
  ASSUME PhaseInv, NEW p \in Procs, StepOf(p), ~StartMaster(p)
  PROVE  \A q \in Procs : /\ Active(q) => Active(q)'
                          /\ ~FixWeak(p) \/ q # p =>
                                (Past(q, PastWeak)' => Past(q, PastWeak))
<1>1. OthersStay(p)
  BY StepOthersStay DEF PhaseInv
<1> QED
  BY <1>1, OthersPast, StepStaysPast DEF Active

\* A step that changes neither chains nor objects keeps what is said of them.
LEMMA WeakStays ==
  ASSUME PhaseInv, WeakInv, NEW p \in Procs, StepOf(p),
         ~StartMaster(p), ~FixWeak(p), ~Prepare(p),
         UNCHANGED <<chain, broken, copied>>,
         Prepared' /\ broken # {} => SetUp' /\ busy' = 0
  PROVE  WeakInv'
<1>1. Prepared' => Prepared
  BY StepNotPrepare
<1> QED
  BY <1>1, PlacesStay DEF WeakInv

\* The weak pairs chained or broken stay the right ones: who fixes its chain does
\* so when no object will be copied any more.
LEMMA StepWeak ==
  ASSUME PhaseInv, HeapTypes, Prepared => HeapInv, BusyCounts,
         WeakInv, NEW p \in Procs, StepOf(p)
  PROVE  WeakInv'
<1>1. CASE StartMaster(p)
  <2>1. \A q \in Procs : chain[q] = {}
    <3>1. CASE round = 0
      BY <3>1 DEF WeakInv, Active, Past, InRound
    <3>2. CASE round # 0
      <4>1. Past(p, PastSlaves)
        BY <1>1, <3>2
        DEF StartMaster, Step, Past, InRound, PastSlaves, PastDaemons, PastAfter
      <4>2. \A q \in Procs : Past(q, PastMoved)
        BY <4>1 DEF PhaseInv, GatesHold
      <4>3. \A q \in Procs : Past(q, PastWeak)
        BY <4>2 DEF Past, PastWeak, PastCopyReady, PastMove
      <4> QED
        BY <4>3 DEF WeakInv
    <3> QED
      BY <3>1, <3>2
  <2>2. chain' = chain /\ ~Prepared'
    BY <1>1, StartedAnew DEF StartMaster, weak
  <2> QED
    BY <2>1, <2>2 DEF WeakInv
<1>2. CASE Prepare(p)
  <2>1. \A q \in Procs : chain[q] = {}
    BY <1>2, PreparedAnew DEF WeakInv
  <2>2. chain' = chain /\ copied' = {} /\ broken' = {}
    BY <1>2 DEF Prepare
  <2> QED
    BY <2>1, <2>2 DEF WeakInv
<1>3. CASE FixWeak(p)
  <2>1. /\ pc[p] = "weak" /\ ~StartMaster(p) /\ ~Setup(p) /\ ~Prepare(p)
        /\ broken' = broken \cup {o \in chain[p] : WeakCar[o] \notin copied}
        /\ chain' = [chain EXCEPT ![p] = {}]
        /\ copied' = copied /\ busy' = busy
    BY <1>3 DEF FixWeak, Step, StartMaster, Setup, Prepare, Set, heap, shared
  <2>2. Active(p) /\ Past(p, PastScan) /\ Prepared
    <3>1. InRound(p)
      BY <2>1, PlaceFacts
    <3>2. Active(p) /\ Past(p, PastScan)
      BY <2>1, <3>1, PastScanIs DEF Active, Past
    <3> QED
      BY <3>2, PlaceFacts
  <2>3. SetUp' /\ busy' = 0
    BY <2>1, <2>2, PlaceFacts, SetUpStays DEF BusyCounts
  <2>4. chain'[p] = {} /\ \A q \in Procs \ {p} : chain'[q] = chain[q]
    BY <2>1 DEF HeapTypes
  <2>5. \A q \in Procs :
          chain'[q] # {} => Active(q)' /\ ~Past(q, PastWeak)'
    BY <2>1, <2>4, PlacesStay DEF WeakInv
  <2>6. /\ \A q \in Procs : chain'[q] \subseteq {o \in copied : WeakCar[o] # None}
        /\ \A o \in copied : \/ WeakCar[o] \in copied \cup {None}
                             \/ o \in broken'
                             \/ \E q \in Procs : o \in chain'[q]
        /\ broken' \subseteq {o \in copied : WeakCar[o] \notin copied \cup {None}}
    <3>1. chain[p] \subseteq {o \in copied : WeakCar[o] # None}
      BY <2>2 DEF WeakInv
    <3>2. \A o \in copied : \/ WeakCar[o] \in copied \cup {None}
                            \/ o \in broken'
                            \/ \E q \in Procs : o \in chain'[q]
      BY <2>1, <2>2, <2>4 DEF WeakInv
    <3>3. broken' \subseteq {o \in copied : WeakCar[o] \notin copied \cup {None}}
      BY <2>1, <2>2, <3>1 DEF WeakInv
    <3> QED
      BY <2>2, <2>4, <3>2, <3>3 DEF WeakInv
  <2> QED
    BY <2>1, <2>3, <2>5, <2>6 DEF WeakInv
<1>4. CASE Copy(p)
  <2>1. pc[p] = "scan" /\ ~StartMaster(p) /\ ~FixWeak(p) /\ ~Prepare(p)
    BY <1>4 DEF Copy, StartMaster, FixWeak, Prepare, Step
  <2>2. Scanning(p) /\ Active(p) /\ Prepared /\ SetUp
    BY <2>1, PlaceFacts
  <2>3. broken = {} /\ broken' = {}
    <3>1. busy # 0
      BY <2>2, IdleFacts, FS_EmptySet
    <3> QED
      BY <1>4, <2>2, <3>1 DEF WeakInv, Copy
  <2>4. PICK t : /\ t = Target(p) /\ t \in Obj \ copied
                 /\ copied' = copied \cup {t}
                 /\ chain' = [chain EXCEPT ![p] = chain[p] \cup
                                 (IF WeakCar[t] = None THEN {} ELSE {t})]
    BY <1>4, TargetFacts DEF Copy, Unmoved, Set
  <2>5. /\ chain'[p] = chain[p] \cup (IF WeakCar[t] = None THEN {} ELSE {t})
        /\ \A q \in Procs \ {p} : chain'[q] = chain[q]
    BY <2>4 DEF HeapTypes
  <2>6. \A q \in Procs :
          chain'[q] # {} => Active(q)' /\ ~Past(q, PastWeak)'
    <3>1. ~Past(p, PastWeak)
      BY <2>1, PastWeakIs DEF Past
    <3> QED
      BY <2>1, <2>2, <2>5, <3>1, PlacesStay DEF WeakInv
  <2>7. \A q \in Procs : chain'[q] \subseteq {o \in copied' : WeakCar[o] # None}
    BY <2>2, <2>4, <2>5 DEF WeakInv
  <2>8. \A o \in copied' : \/ WeakCar[o] \in copied' \cup {None}
                           \/ \E q \in Procs : o \in chain'[q]
    <3>1. ASSUME NEW o \in copied
          PROVE  \/ WeakCar[o] \in copied' \cup {None}
                 \/ \E q \in Procs : o \in chain'[q]
      <4>1. \/ WeakCar[o] \in copied \cup {None}
            \/ \E q \in Procs : o \in chain[q]
        BY <2>2, <2>3 DEF WeakInv
      <4> QED
        BY <2>4, <2>5, <4>1
    <3>2. WeakCar[t] = None \/ \E q \in Procs : t \in chain'[q]
      BY <2>5
    <3> QED
      BY <2>4, <3>1, <3>2
  <2> QED
    BY <2>3, <2>6, <2>7, <2>8 DEF WeakInv
<1>5. ASSUME ~StartMaster(p), ~Prepare(p), ~FixWeak(p), ~Copy(p)
      PROVE  WeakInv'
  <2>1. UNCHANGED <<broken, copied, chain>>
    <3>1. CASE Flip(p)
      <4>1. pc[p] = "flip" /\ chain' = [chain EXCEPT ![p] = {}]
        BY <3>1 DEF Flip, Step, Set
      <4>2. chain[p] = {}
        BY <4>1, PastPartitionIs DEF WeakInv, Active, Past
      <4>3. chain' = chain
        BY <4>1, <4>2 DEF HeapTypes
      <4> QED
        BY <3>1, <4>3 DEF Flip, heap
    <3>2. CASE ~Flip(p)
      BY <1>5, <3>2 DEF StepOf, VectorOverflow, heap, weak, StartSlave, Arrive, Pass, Setup,
         Flipped, Partition, Relocate, Overflow, ScanEnd, ScanOwn, PopHeaplet,
         PopNothing, ConsingDone, CopyReady, Move, SlaveDone, Grab, EndReady,
         StartDaemons, FinishMaster, Complete
    <3> QED
      BY <3>1, <3>2
  <2>2. Prepared' /\ broken # {} => SetUp' /\ busy' = 0
    <3> SUFFICES ASSUME Prepared', broken # {} PROVE SetUp' /\ busy' = 0
      OBVIOUS
    <3>1. SetUp /\ busy = 0 /\ queue = << >>
      BY <1>5, StepNotPrepare DEF WeakInv, BusyCounts
    <3>2. ~Setup(p)
      <4>1. pc[p] = "setup" => p = master[round] /\ InRound(p)
        BY PlaceFacts DEF PhaseInv, OneMaster
      <4> QED
        BY <3>1, <4>1, PastPrepareIs, PastPartitionIs
        DEF Setup, Step, SetUp, Past
    <3>3. SetUp'
      BY <1>5, <3>1, <3>2, SetUpStays
    <3>4. CASE PopNothing(p)
      <4>1. idle[p]
        BY <3>1, IdleFacts, FS_EmptySet
      <4>2. busy' = busy - One(~idle[p])
        BY <3>4 DEF PopNothing
      <4>3. One(~idle[p]) = 0
        BY <4>1 DEF One
      <4> QED
        BY <3>1, <3>3, <4>2, <4>3
    <3>5. CASE ~PopNothing(p)
      <4>1. ~PopHeaplet(p)
        BY <3>1 DEF PopHeaplet
      <4>2. busy' = busy
        BY <1>5, <3>2, <3>5, <4>1 DEF StepOf, shared, VectorOverflow, StartSlave, Arrive,
           Pass, Flip, Flipped, Partition, Relocate, Overflow, ScanEnd,
           ScanOwn, ConsingDone, CopyReady, Move, SlaveDone, Grab, EndReady,
           StartDaemons, FinishMaster, Complete
      <4> QED
        BY <3>1, <3>3, <4>2
    <3> QED
      BY <3>4, <3>5
  <2> QED
    BY <1>5, <2>1, <2>2, WeakStays
<1> QED
  BY <1>1, <1>2, <1>3, <1>4, <1>5

-----------------------------------------------------------------------------
(* The counters *)

\* A state of a collection that has been prepared has its counters in range.
LEMMA CountersInRange == PhaseInv /\ Prepared => CountersFit
<1> SUFFICES ASSUME PhaseInv, Prepared PROVE CountersFit
  OBVIOUS
<1>1. ASSUME NEW L PROVE Cardinality(Left(L)) \in 0 .. N
  <2>1. Left(L) \subseteq Procs
    BY DEF Left
  <2>2. Cardinality(Left(L)) \in Nat /\ Cardinality(Left(L)) <= N /\ N \in Nat
    BY <2>1, SizesAssumption, FS_Subset, FS_CardinalityType DEF N
  <2> QED
    BY <2>2
<1> QED
  BY <1>1 DEF PhaseInv, CountersCount, CountersFit

\* No counter is decremented below zero: each counts processors that have not
\* passed a point.
LEMMA StepCounterTypes ==
  ASSUME PhaseInv, PhaseInv', CounterTypes, NEW p \in Procs, StepOf(p)
  PROVE  CounterTypes'
<1>1. gcComplete' \in BOOLEAN
  BY DEF CounterTypes, counts, StepOf, VectorOverflow, StartMaster, StartSlave, Arrive, Pass,
     Prepare, Setup, Flip, Flipped, Partition, Relocate, Copy, Overflow,
     ScanEnd, ScanOwn, PopHeaplet, PopNothing, ConsingDone, FixWeak,
     CopyReady, Move, SlaveDone, Grab, EndReady, StartDaemons, FinishMaster,
     Complete
<1>2. Prepared' => CountersFit'
  BY CountersInRange, PTL
<1>3. ~Prepared' =>
        UNCHANGED <<flipCount, consingDone, copyReady, slaveDone, endReady>>
  <2> SUFFICES ASSUME ~Prepared'
               PROVE  UNCHANGED <<flipCount, consingDone, copyReady, slaveDone,
                                  endReady>>
    OBVIOUS
  <2>1. ASSUME \/ Prepare(p) \/ Flip(p) \/ ConsingDone(p) \/ CopyReady(p)
               \/ SlaveDone(p) \/ EndReady(p)
        PROVE  FALSE
    <3>1. /\ round' = round /\ master' = master /\ came' = came
          /\ pc[p] \notin {"program", "after"}
          /\ pc'[p] \in PastPrepare
          /\ pc[p] # "prepare" => pc[p] \in PastSync
          /\ pc[p] = "prepare" => Prepare(p)
      BY <2>1, PastPrepareIs, PastPartitionIs
      DEF Prepare, Flip, ConsingDone, CopyReady, SlaveDone, EndReady, Step, Set,
          mode, PhaseInv, PhaseTypes, PastSync, PastResources, PastSetup
    <3>2. InRound(p)
      BY <3>1, PlaceFacts
    <3>3. CASE pc[p] = "prepare"
      <4>1. p = master[round]
        BY <3>2, <3>3 DEF PhaseInv, OneMaster
      <4> QED
        BY <3>1, <3>2, <4>1 DEF Prepared, Past, InRound
    <3>4. CASE pc[p] # "prepare"
      <4>1. Prepared
        BY <3>1, <3>2, <3>4, AfterSync DEF PhaseInv, Past
      <4>2. OthersStay(p)
        <5>1. StepOf(p) /\ ~StartMaster(p)
          BY <3>1 DEF StartMaster, Step
        <5> QED
          BY <5>1, StepOthersStay DEF PhaseInv
      <4>3. \A q \in Procs \ {p} : Past(q, PastPrepare)' <=> Past(q, PastPrepare)
        BY <4>2, OthersPast
      <4>4. round # 0 /\ master[round] \in Procs
        BY <4>1 DEF Prepared, PhaseInv, OneMaster
      <4>5. Past(p, PastPrepare)'
        BY <3>1, <3>2 DEF Past, InRound
      <4> QED
        BY <3>1, <4>1, <4>3, <4>4, <4>5 DEF Prepared, Past, InRound
    <3> QED
      BY <3>3, <3>4
  <2> QED
    BY <2>1 DEF counts, StepOf, VectorOverflow, StartMaster, StartSlave, Arrive, Pass, Setup,
       Flipped, Partition, Relocate, Copy, Overflow, ScanEnd, ScanOwn,
       PopHeaplet, PopNothing, FixWeak, Move, Grab, StartDaemons,
       FinishMaster, Complete
<1> QED
  BY <1>1, <1>2, <1>3 DEF CounterTypes, CountersFit

-----------------------------------------------------------------------------
(* The invariant *)

\* A word has been scanned once if it is before the scan pointer of its heaplet.
LEMMA OnceAtMost == HeapTypes /\ HeapInv => ScannedOnce
<1> SUFFICES ASSUME HeapTypes, HeapInv, NEW w \in Words PROVE scanned[w] <= 1
  BY DEF ScannedOnce
<1>1. /\ w[1] \in Obj /\ w[2] \in DOMAIN Fields[w[1]] /\ w = <<w[1], w[2]>>
  BY WordFacts
<1>2. CASE w[1] \notin copied
  BY <1>2 DEF HeapInv, TargetsAreCopied
<1>3. CASE w[1] \in copied
  <2>1. PICK h \in Used : \E i \in DOMAIN words[h] : words[h][i] = w
    BY <1>1, <1>3 DEF HeapInv, WordsAreOnce
  <2>2. scanned[w] \in {0, 1}
    BY <2>1 DEF HeapInv, ScannedBelow, ScannedTo, One
  <2> QED
    BY <2>2
<1> QED
  BY <1>2, <1>3

\* Every step keeps the heap as it should be, and none but an overflow into a
\* full queue forgets a heaplet.
LEMMA StepHeap ==
  ASSUME PhaseInv, HeapTypes, Prepared => HeapInv, BusyCounts,
         NEW p \in Procs, StepOf(p), Prepared'
  PROVE  /\ HeapInv'
         /\ (Prepared => NoneForgotten) /\ QueueNeverFillsUp => NoneForgotten'
<1>1. CASE StartMaster(p)
  BY <1>1, StartedAnew
<1>2. CASE Prepare(p)
  <2>1. queue = << >>
    <3>1. \A q \in Procs : ~Active(q)
      BY <1>2, PreparedAnew
    <3>2. ~SetUp
      <4>1. pc[p] = "prepare" /\ p = master[round]
        BY <1>2, PlaceFacts DEF Prepare, Step, PhaseInv, OneMaster
      <4> QED
        BY <4>1, PastPrepareIs, PastPartitionIs DEF SetUp, Past
    <3> QED
      BY <3>2 DEF BusyCounts
  <2> QED
    BY <1>2, <2>1, PreparedHeap
<1>3. CASE QuietStep(p)
  BY <1>3, QuietKeeps, QuietHeap
<1>4. CASE \/ Partition(p) \/ Relocate(p) \/ Copy(p) \/ Overflow(p)
           \/ ScanEnd(p) \/ ScanOwn(p) \/ PopHeaplet(p)
  <2>1. HeapInv /\ Prepared
    BY <1>4, HeapMoves
  <2> QED
    BY <1>4, <2>1, PartitionHeap, WordHeap, OverflowHeap, ScanEndHeap,
       ScanOwnHeap, PopHeapletHeap
<1> QED
  BY <1>1, <1>2, <1>3, <1>4, KindsOfStep

\* Nothing is prepared at the start.
LEMMA InitScanInv == Init => ScanInv /\ CounterTypes /\ NoneForgotten
<1> SUFFICES ASSUME Init PROVE ScanInv /\ CounterTypes /\ NoneForgotten
  OBVIOUS
<1>1. N \in Nat \ {0} /\ Cardinality(Obj) \in Nat
  <2>1. N \in Nat /\ Cardinality(Obj) \in Nat
    BY SizesAssumption, FS_CardinalityType DEF N
  <2>2. N # 0
    BY SizesAssumption, FS_EmptySet DEF N
  <2> QED
    BY <2>1, <2>2
<1>2. ~Prepared /\ ~SetUp /\ Used = {} /\ \A p \in Procs : ~Active(p)
  BY DEF Init, Prepared, SetUp, Used, Active, Past, InRound
<1>3. HeapTypes
  BY SizesAssumption, RoomAssumption DEF Init, HeapTypes, Heaplets
<1>4. CounterTypes /\ ScannedOnce
  <2>1. CountersFit
    BY <1>1 DEF Init, CountersFit
  <2>2. \A w \in Words : scanned[w] <= 1
    <3>1. \A w \in Words : scanned[w] = 0
      BY DEF Init
    <3> QED
      BY <3>1
  <2>3. gcComplete \in BOOLEAN
    BY DEF Init
  <2> QED
    BY <2>1, <2>2, <2>3 DEF CounterTypes, ScannedOnce
<1>5. BusyCounts /\ WeakInv
  BY <1>2, PastScanIs DEF Init, BusyCounts, WeakInv, Active, Past
<1>6. MoreThanBuffer
  BY DEF Init, MoreThanBuffer
<1> QED
  BY <1>2, <1>3, <1>4, <1>5, <1>6 DEF ScanInv, NoneForgotten

\* Every step keeps the whole invariant.
LEMMA NextScanInv ==
  ASSUME PhaseInv, ScanInv, CounterTypes, [Next]_vars
  PROVE  /\ ScanInv' /\ CounterTypes'
         /\ (Prepared => NoneForgotten) /\ QueueNeverFillsUp =>
               (Prepared' => NoneForgotten')
<1>1. CASE UNCHANGED vars
  <2>1. UNCHANGED <<mode, pc, counts, shared, heap, weak>>
    BY <1>1 DEF vars
  <2> USE <2>1 DEF mode, counts, shared, room, heap, weak
  <2>2. \A q \in Procs : /\ Active(q)' <=> Active(q)
                         /\ Scanning(q)' <=> Scanning(q)
                         /\ \A L : Past(q, L)' <=> Past(q, L)
    BY DEF Active, Scanning, Past, InRound
  <2>3. Quiet
    BY <2>2 DEF Quiet
  <2>4. (Prepared' <=> Prepared) /\ (SetUp' <=> SetUp)
    BY DEF Prepared, SetUp, Past, InRound
  <2>5. HeapTypes' /\ CounterTypes' /\ ScannedOnce'
    BY DEF ScanInv, HeapTypes, CounterTypes, CountersFit, ScannedOnce
  <2>6. MoreThanBuffer'
    BY DEF ScanInv, MoreThanBuffer
  <2>7. BusyCounts'
    BY <2>2, <2>4 DEF ScanInv, BusyCounts, BusyOnes, Busy, OwnIsScanned
  <2>8. WeakInv'
    BY <2>2, <2>4 DEF ScanInv, WeakInv
  <2> HIDE <2>1
  <2>9. Prepared' => HeapInv' /\ (NoneForgotten => NoneForgotten')
    BY <2>3, <2>4, QuietHeap DEF ScanInv
  <2> QED
    BY <2>4, <2>5, <2>6, <2>7, <2>8, <2>9 DEF ScanInv
<1>2. CASE ~UNCHANGED vars
  <2>1. PICK p \in Procs : StepOf(p)
    BY <1>2, StepKinds
  <2>. /\ HeapTypes /\ MoreThanBuffer /\ ScannedOnce /\ (Prepared => HeapInv)
       /\ BusyCounts /\ WeakInv
    BY DEF ScanInv
  <2>2. PhaseInv'
    BY NextPhaseInv
  <2>3. HeapTypes' /\ MoreThanBuffer' /\ BusyCounts' /\ WeakInv' /\ CounterTypes'
    BY <2>1, <2>2, StepHeapTypes, StepMore, StepBusy, StepWeak,
       StepCounterTypes
  <2>4. Prepared' => HeapInv' /\ ((Prepared => NoneForgotten)
                                    /\ QueueNeverFillsUp => NoneForgotten')
    BY <2>1, StepHeap
  <2>5. HeapTypes' /\ HeapInv' => ScannedOnce'
    BY OnceAtMost, PTL
  <2>6. ~Prepared' => scanned' = scanned
    <3>1. ASSUME ~Prepared', scanned' # scanned PROVE FALSE
      <4>1. Prepare(p) \/ Relocate(p) \/ Copy(p)
        BY <2>1, <3>1 DEF heap, StepOf, VectorOverflow, StartMaster, StartSlave, Arrive, Pass,
           Setup, Flip, Flipped, Partition, Overflow, ScanEnd, ScanOwn,
           PopHeaplet, PopNothing, ConsingDone, FixWeak, CopyReady, Move,
           SlaveDone, Grab, EndReady, StartDaemons, FinishMaster, Complete
      <4>2. Prepare(p)
        BY <3>1, <4>1, HeapMoves
      <4> QED
        BY <3>1, <4>2, PreparedNow
    <3> QED
      BY <3>1
  <2>7. ScannedOnce'
    BY <2>3, <2>4, <2>5, <2>6 DEF ScannedOnce
  <2> QED
    BY <2>3, <2>4, <2>7 DEF ScanInv
<1> QED
  BY <1>1, <1>2

\* The invariant, of every execution.
LEMMA ScanInvAlways == Spec => [](PhaseInv /\ ScanInv /\ CounterTypes)
<1>1. Init => PhaseInv /\ ScanInv /\ CounterTypes
  BY InitPhaseInv, InitScanInv
<1>2. PhaseInv /\ ScanInv /\ CounterTypes /\ [Next]_vars
         => (PhaseInv /\ ScanInv /\ CounterTypes)'
  BY NextPhaseInv, NextScanInv
<1> QED
  BY <1>1, <1>2, PTL DEF Spec

-----------------------------------------------------------------------------
(* How many heaplets there can be *)

\* Who is to take a heaplet that is not its first; and the vectors that have
\* been copied, or are locked.
Full == {p \in Procs : pc[p] = "overflow"}
LockedOnes == {locked[p] : p \in Procs} \ {None}
SeenVectors == (copied \cap Vectors) \cup LockedOnes

\* A locked vector is the next object that its processor copies; it fits when
\* that has its heaplet.
LocksHold == \A p \in Procs : locked[p] # None =>
    /\ pc[p] \in {"scan", "overflow"}
    /\ locked[p] \in Vectors \ copied
    /\ pos[p] < Len(Content(p)) /\ Target(p) = locked[p]
    /\ pc[p] = "scan" => Fits(p, locked[p])
    /\ \A q \in Procs \ {p} : locked[q] # locked[p]

\* A processor takes a heaplet when it becomes active, after it has copied an
\* object, and before it copies a vector: a vector may cost two.
IndicesCount == Prepared =>
    heapletIndex + Cardinality(Full)
       <= Cardinality({p \in Procs : Active(p)}) + Cardinality(copied)
             + Cardinality(SeenVectors)

IndexInv == LocksHold /\ IndicesCount

\* The area that p scans is the same after a step of another, up to its pointer.
SameArea(q) == Content(q)' = Content(q) /\ Target(q)' = Target(q)

\* Nobody appends to what another processor scans.
LEMMA AreasStay ==
  ASSUME PhaseInv, HeapTypes, Prepared => HeapInv, NEW p \in Procs, StepOf(p),
         NEW q \in Procs, Scanning(q), ~StartMaster(p), ~Prepare(p),
         q = p => Overflow(p) \/ VectorOverflow(p)
  PROVE  /\ SameArea(q) /\ pos'[q] = pos[q]
         /\ q # p => pc'[q] = pc[q] /\ left'[q] = left[q] /\ locked'[q] = locked[q]
<1>1. Prepared /\ HeapInv
  <2>1. Active(q)
    BY PastPartitionIs DEF Active, Scanning, Past
  <2> QED
    BY <2>1, PlaceFacts
<1>2. area'[q] = area[q] /\ pos'[q] = pos[q]
  <2>1. CASE q = p
    BY <2>1 DEF Overflow, VectorOverflow
  <2>2. CASE q # p
    BY <2>2, StepOthersKeep DEF OthersKeep
  <2> QED
    BY <2>1, <2>2
<1>3. area[q] # Fixed => words'[area[q]] = words[area[q]]
  <2> SUFFICES ASSUME area[q] # Fixed PROVE words'[area[q]] = words[area[q]]
    OBVIOUS
  <2>1. area[q] \in Used
    BY <1>1 DEF HeapInv, OneOwner
  <2>2. CASE Partition(p) \/ Overflow(p)
    <3>1. words' = [words EXCEPT ![heapletIndex] = << >>]
      BY <2>2 DEF Partition, Overflow, NewHeaplet, Set
    <3>2. heapletIndex \notin Used
      BY <2>2, IndexForHeaplet DEF Used, Heaplets
    <3> QED
      BY <2>1, <3>1, <3>2 DEF HeapTypes
  <2>3. CASE Copy(p)
    <3>1. q # p
      BY <2>3 DEF Copy, Overflow, VectorOverflow, Step, Unmoved, Fits
    <3>2. Active(p)
      BY <2>3, PlaceFacts DEF Copy
    <3>3. area[q] # cons[p]
      BY <1>1, <3>1, <3>2 DEF HeapInv, OneOwner
    <3> QED
      BY <2>3, <3>3 DEF Copy, HeapTypes
  <2>4. CASE ~Partition(p) /\ ~Overflow(p) /\ ~Copy(p)
    BY <2>4 DEF StepOf, heap, StartSlave, Arrive, Pass, Setup, Flip, Flipped,
       Relocate, VectorOverflow, ScanEnd, ScanOwn, PopHeaplet, PopNothing,
       ConsingDone, FixWeak, CopyReady, Move, SlaveDone, Grab, EndReady,
       StartDaemons, FinishMaster, Complete
  <2> QED
    BY <2>2, <2>3, <2>4
<1>4. SameArea(q)
  BY <1>2, <1>3 DEF SameArea, Content, Target
<1>5. q # p => pc'[q] = pc[q] /\ left'[q] = left[q] /\ locked'[q] = locked[q]
  <2> SUFFICES ASSUME q # p
               PROVE  pc'[q] = pc[q] /\ left'[q] = left[q] /\ locked'[q] = locked[q]
    OBVIOUS
  <2>1. pc'[q] = pc[q]
    BY StepOthersStay DEF OthersStay, PhaseInv
  <2>2. left'[q] = left[q] /\ locked'[q] = locked[q]
    BY DEF StepOf, HeapTypes, Set, room, heap, NewHeaplet, StartSlave, Arrive,
       Pass, Setup, Flip, Flipped, Partition, Relocate, Copy, VectorOverflow,
       Overflow, ScanEnd, ScanOwn, PopHeaplet, PopNothing, ConsingDone,
       FixWeak, CopyReady, Move, SlaveDone, Grab, EndReady, StartDaemons,
       FinishMaster, Complete
  <2> QED
    BY <2>1, <2>2
<1> QED
  BY <1>2, <1>4, <1>5

\* Nobody but who copies or takes a heaplet has a vector locked, and a lock is
\* released by the copy.
LEMMA LockMoves ==
  ASSUME PhaseInv, HeapTypes, LocksHold, NEW p \in Procs, StepOf(p)
  PROVE  \/ /\ locked' = locked /\ copied' = copied
            /\ locked[p] = None \/ Overflow(p)
         \/ /\ VectorOverflow(p) /\ locked[p] = None
            /\ locked' = [locked EXCEPT ![p] = Target(p)] /\ copied' = copied
            /\ Target(p) \in Vectors \ copied
         \/ /\ Copy(p) /\ locked[p] \in {None, Target(p)}
            /\ locked' = [locked EXCEPT ![p] = None]
            /\ copied' = copied \cup {Target(p)}
         \/ Prepare(p) \/ StartMaster(p)
<1> USE DEF Set
<1>1. CASE VectorOverflow(p)
  <2>1. /\ Unmoved(p) /\ ~Fits(p, Target(p)) /\ pc[p] = "scan"
        /\ locked' = [locked EXCEPT ![p] = Target(p)] /\ copied' = copied
    BY <1>1 DEF VectorOverflow, Step
  <2>2. Target(p) \in Vectors \ copied
    BY <2>1 DEF Unmoved, Fits
  <2>3. locked[p] = None
    BY <2>1 DEF LocksHold
  <2> QED
    BY <1>1, <2>1, <2>2, <2>3
<1>2. CASE Copy(p)
  BY <1>2 DEF Copy, LocksHold
<1>3. CASE Overflow(p)
  BY <1>3 DEF Overflow
<1>4. CASE Relocate(p)
  BY <1>4 DEF Relocate, LocksHold, room
<1>5. CASE ScanEnd(p)
  <2>1. pos[p] = Len(Content(p)) /\ pos[p] \in Nat
    BY <1>5 DEF ScanEnd, HeapTypes
  <2>2. locked[p] = None
    BY <2>1 DEF LocksHold
  <2> QED
    BY <1>5, <2>2 DEF ScanEnd, room
<1>6. CASE Partition(p) \/ ScanOwn(p) \/ PopHeaplet(p) \/ PopNothing(p)
  BY <1>6 DEF Partition, ScanOwn, PopHeaplet, PopNothing, LocksHold, Step, room,
     heap
<1>7. CASE \/ StartSlave(p) \/ Arrive(p) \/ Pass(p) \/ Setup(p) \/ Flip(p)
           \/ Flipped(p) \/ ConsingDone(p) \/ FixWeak(p) \/ CopyReady(p)
           \/ Move(p) \/ SlaveDone(p) \/ Grab(p) \/ EndReady(p)
           \/ StartDaemons(p) \/ FinishMaster(p) \/ Complete(p)
  BY <1>7 DEF StartSlave, Arrive, Pass, Setup, Flip, Flipped, ConsingDone,
     FixWeak, CopyReady, Move, SlaveDone, Grab, EndReady, StartDaemons,
     FinishMaster, Complete, LocksHold, Step, Barriers, room, heap
<1> QED
  BY <1>1, <1>2, <1>3, <1>4, <1>5, <1>6, <1>7 DEF StepOf

\* A heaplet that is taken for a vector has room for it.
LEMMA VectorFits ==
  ASSUME HeapTypes, NEW p \in Procs, Overflow(p), locked[p] # None
  PROVE  left'[p] > Size[locked[p]]
<1> DEFINE s == Size[locked[p]]
<1>1. s \in Nat /\ s >= 1 /\ Wanted(p) = s - 1
  BY HeapAssumption DEF HeapTypes, Wanted
<1>2. left'[p] = IF s - 1 < Quantum - Buffer THEN Quantum ELSE s - 1 + Buffer
  BY <1>1 DEF Overflow, NewHeaplet, Set, HeapTypes
<1> HIDE DEF s
<1> QED
  BY <1>1, <1>2, RoomAssumption DEF s

\* The locks are held by those who will copy.
LEMMA StepLocks ==
  ASSUME PhaseInv, ScanInv, LocksHold, NEW p \in Procs, StepOf(p)
  PROVE  LocksHold'
<1>. HeapTypes /\ (Prepared => HeapInv)
  BY DEF ScanInv
<1>1. \A q \in Procs : locked[q] # None => Scanning(q)
  BY PlaceFacts DEF LocksHold
<1>2. CASE StartMaster(p) \/ Prepare(p)
  <2>1. \A q \in Procs : locked[q] = None
    <3>1. CASE Prepare(p)
      BY <1>1, <3>1, PreparedAnew
    <3>2. CASE StartMaster(p)
      <4>1. pc[p] = "program" /\ came[p] = round
        BY <3>2 DEF StartMaster, Step
      <4>2. CASE round = 0
        BY <1>1, <4>2 DEF Scanning, InRound
      <4>3. CASE round # 0
        <5>1. Past(p, PastSlaves)
          BY <4>1, <4>3 DEF Past, InRound, PastSlaves, PastDaemons, PastAfter
        <5>2. \A q \in Procs : Past(q, PastMoved)
          BY <5>1 DEF PhaseInv, GatesHold
        <5> QED
          BY <1>1, <5>2 DEF Scanning, Past, PastMoved, PastGrabbed, PastSlaves,
                            PastDaemons, PastAfter
      <4> QED
        BY <4>2, <4>3
    <3> QED
      BY <1>2, <3>1, <3>2
  <2>2. locked' = locked
    BY <1>2 DEF StartMaster, Prepare, room, heap
  <2> QED
    BY <2>1, <2>2 DEF LocksHold
<1>3. CASE ~StartMaster(p) /\ ~Prepare(p)
  <2> SUFFICES ASSUME NEW q \in Procs, locked'[q] # None
               PROVE  /\ pc'[q] \in {"scan", "overflow"}
                      /\ locked'[q] \in Vectors \ copied'
                      /\ pos'[q] < Len(Content(q)') /\ Target(q)' = locked'[q]
                      /\ pc'[q] = "scan" =>
                           (locked'[q] \in Vectors => left'[q] > Size[locked'[q]])
                      /\ \A r \in Procs \ {q} : locked'[r] # locked'[q]
    BY DEF LocksHold, Fits
  <2>1. CASE locked' = locked /\ copied' = copied /\ (locked[p] = None \/ Overflow(p))
    <3>1. Scanning(q)
      BY <1>1, <2>1
    <3>2. q = p => Overflow(p)
      BY <2>1
    <3>3. SameArea(q) /\ pos'[q] = pos[q]
      BY <1>3, <3>1, <3>2, AreasStay
    <3>4. pc'[q] \in {"scan", "overflow"}
      <4>1. CASE q = p
        BY <3>2, <4>1 DEF Overflow, Step, Set, PhaseInv, PhaseTypes
      <4>2. CASE q # p
        BY <1>3, <2>1, <3>1, <4>2, AreasStay DEF LocksHold
      <4> QED
        BY <4>1, <4>2
    <3>5. pc'[q] = "scan" =>
             (locked'[q] \in Vectors => left'[q] > Size[locked'[q]])
      <4>1. CASE q = p
        BY <2>1, <3>2, <4>1, VectorFits
      <4>2. CASE q # p
        BY <1>3, <2>1, <3>1, <4>2, AreasStay DEF LocksHold, Fits
      <4> QED
        BY <4>1, <4>2
    <3> QED
      BY <2>1, <3>3, <3>4, <3>5 DEF LocksHold, SameArea
  <2>2. CASE /\ VectorOverflow(p) /\ locked[p] = None
             /\ locked' = [locked EXCEPT ![p] = Target(p)] /\ copied' = copied
             /\ Target(p) \in Vectors \ copied
    <3>1. /\ pc[p] = "scan" /\ pc'[p] = "overflow" /\ pos[p] < Len(Content(p))
          /\ \A r \in Procs \ {p} : locked[r] # Target(p)
      BY <2>2 DEF VectorOverflow, Unmoved, Step, Set, PhaseInv, PhaseTypes
    <3>2. locked'[p] = Target(p) /\ \A r \in Procs \ {p} : locked'[r] = locked[r]
      BY <2>2 DEF HeapTypes
    <3>3. Scanning(q)
      BY <1>1, <3>1, <3>2, PlaceFacts
    <3>4. SameArea(q) /\ pos'[q] = pos[q]
      BY <1>3, <2>2, <3>3, AreasStay
    <3>5. CASE q = p
      BY <2>2, <3>1, <3>2, <3>4, <3>5 DEF SameArea
    <3>6. CASE q # p
      <4>1. pc'[q] = pc[q] /\ left'[q] = left[q]
        BY <1>3, <3>3, <3>6, AreasStay
      <4> QED
        BY <2>2, <3>1, <3>2, <3>4, <3>6, <4>1 DEF LocksHold, Fits, SameArea
    <3> QED
      BY <3>5, <3>6
  <2>3. CASE /\ Copy(p) /\ locked[p] \in {None, Target(p)}
             /\ locked' = [locked EXCEPT ![p] = None]
             /\ copied' = copied \cup {Target(p)}
    <3>1. \A r \in Procs \ {p} : locked[r] # Target(p)
      BY <2>3 DEF Copy, Unmoved
    <3>2. locked'[p] = None /\ \A r \in Procs \ {p} : locked'[r] = locked[r]
      BY <2>3 DEF HeapTypes
    <3>3. q # p /\ Scanning(q)
      BY <1>1, <3>2
    <3>4. /\ SameArea(q) /\ pos'[q] = pos[q]
          /\ pc'[q] = pc[q] /\ left'[q] = left[q]
      BY <1>3, <3>3, AreasStay
    <3> QED
      BY <2>3, <3>1, <3>2, <3>3, <3>4 DEF LocksHold, Fits, SameArea
  <2> QED
    BY <1>3, <2>1, <2>2, <2>3, LockMoves
<1> QED
  BY <1>2, <1>3

\* The sets that are counted are finite.
LEMMA CountedFinite ==
  ASSUME HeapTypes, LocksHold
  PROVE  /\ IsFiniteSet(Full) /\ Cardinality(Full) \in Nat
         /\ IsFiniteSet({p \in Procs : Active(p)})
         /\ Cardinality({p \in Procs : Active(p)}) \in Nat
         /\ IsFiniteSet(copied) /\ Cardinality(copied) \in Nat
         /\ SeenVectors \subseteq Vectors /\ IsFiniteSet(SeenVectors)
         /\ Cardinality(SeenVectors) \in Nat
<1>1. IsFiniteSet(Full) /\ IsFiniteSet({p \in Procs : Active(p)})
  BY SizesAssumption, FS_Subset DEF Full
<1>2. IsFiniteSet(copied) /\ IsFiniteSet(Vectors)
  BY SizesAssumption, HeapAssumption, FS_Subset DEF HeapTypes
<1>3. SeenVectors \subseteq Vectors
  BY DEF SeenVectors, LockedOnes, LocksHold
<1>4. IsFiniteSet(SeenVectors)
  BY <1>2, <1>3, FS_Subset
<1> QED
  BY <1>1, <1>2, <1>3, <1>4, FS_CardinalityType

\* Every heaplet that is taken is accounted for.
LEMMA StepIndices ==
  ASSUME PhaseInv, ScanInv, ScanInv', IndexInv, LocksHold', NEW p \in Procs,
         StepOf(p)
  PROVE  IndicesCount'
<1> DEFINE A == {q \in Procs : Active(q)}
<1>. HeapTypes /\ HeapTypes' /\ LocksHold
  BY DEF ScanInv, IndexInv
<1>1. /\ IsFiniteSet(Full) /\ Cardinality(Full) \in Nat
      /\ IsFiniteSet(A) /\ Cardinality(A) \in Nat
      /\ IsFiniteSet(copied) /\ Cardinality(copied) \in Nat
      /\ IsFiniteSet(SeenVectors) /\ Cardinality(SeenVectors) \in Nat
      /\ heapletIndex \in Int
  BY CountedFinite DEF HeapTypes
<1>2. Prepared => heapletIndex + Cardinality(Full)
                    <= Cardinality(A) + Cardinality(copied)
                          + Cardinality(SeenVectors)
  BY DEF IndexInv, IndicesCount
<1>3. SUFFICES Prepared' => heapletIndex' + Cardinality(Full')
                              <= Cardinality(A') + Cardinality(copied')
                                    + Cardinality(SeenVectors')
  BY DEF IndicesCount
<1>4. CASE StartMaster(p)
  BY <1>4, StartedAnew
<1>5. CASE Prepare(p)
  <2>1. A' = {}
    BY <1>5, PreparedAnew
  <2>2. \A q \in Procs : pc'[q] # "overflow" /\ locked'[q] = None
    <3>1. \A q \in Procs : ~Scanning(q)
      BY <1>5, PreparedAnew
    <3>2. \A q \in Procs : pc[q] # "overflow" /\ locked[q] = None
      BY <3>1, PlaceFacts DEF LocksHold
    <3> QED
      BY <1>5, <3>2 DEF Prepare, Step, Set, PhaseInv, PhaseTypes
  <2>3. Full' = {} /\ heapletIndex' = 0 /\ copied' = {} /\ SeenVectors' = {}
    BY <1>5, <2>2 DEF Prepare, Full, SeenVectors, LockedOnes
  <2> HIDE DEF A
  <2> QED
    BY <2>1, <2>3, FS_EmptySet
<1>6. ASSUME ~StartMaster(p), ~Prepare(p), Prepared' PROVE Prepared
  BY <1>6, StepNotPrepare
<1>7. ASSUME ~StartMaster(p)
      PROVE  \A q \in Procs \ {p} : pc'[q] = pc[q]
  BY <1>7, StepOthersStay DEF PhaseInv, OthersStay
<1>8. ASSUME locked' = locked, copied' = copied
      PROVE  SeenVectors' = SeenVectors
  BY <1>8 DEF SeenVectors, LockedOnes
<1>9. CASE VectorOverflow(p)
  <2>1. /\ pc[p] = "scan" /\ pc'[p] = "overflow"
        /\ ~StartMaster(p) /\ ~Prepare(p) /\ heapletIndex' = heapletIndex
    BY <1>9 DEF VectorOverflow, Step, Set, StartMaster, Prepare, PhaseInv,
                PhaseTypes
  <2>2. Full' = Full \cup {p} /\ p \notin Full
    BY <1>7, <2>1 DEF Full
  <2>3. A' = A
    BY <1>9, QuietKeeps DEF Quiet, QuietStep
  <2>4. /\ locked[p] = None /\ locked' = [locked EXCEPT ![p] = Target(p)]
        /\ copied' = copied /\ Target(p) \in Vectors \ copied
        /\ \A q \in Procs \ {p} : locked[q] # Target(p)
    <3>1. ~Copy(p)
      BY <1>9 DEF VectorOverflow, Copy
    <3>2. ~Overflow(p)
      BY <2>1 DEF Overflow, Step
    <3>3. locked' = [locked EXCEPT ![p] = Target(p)]
      BY <1>9 DEF VectorOverflow, Set
    <3>4. Unmoved(p) /\ ~Fits(p, Target(p)) /\ copied' = copied
      BY <1>9 DEF VectorOverflow
    <3>5. locked[p] = None
      BY <2>1, <3>4 DEF LocksHold
    <3> QED
      BY <3>3, <3>4, <3>5 DEF Unmoved, Fits
  <2>5. SeenVectors' = SeenVectors \cup {Target(p)} /\ Target(p) \notin SeenVectors
    <3>1. \A q \in Procs : locked'[q] = IF q = p THEN Target(p) ELSE locked[q]
      BY <2>4 DEF HeapTypes
    <3>2. Target(p) # None
      BY <2>4, HeapAssumption
    <3>3. LockedOnes' = LockedOnes \cup {Target(p)} /\ Target(p) \notin LockedOnes
      BY <2>4, <3>1, <3>2 DEF LockedOnes
    <3> QED
      BY <2>4, <3>3 DEF SeenVectors
  <2> HIDE DEF A
  <2>6. Cardinality(Full') = Cardinality(Full) + 1
    BY <1>1, <2>2, FS_AddElement
  <2>7. Cardinality(SeenVectors') = Cardinality(SeenVectors) + 1
    BY <1>1, <2>5, FS_AddElement
  <2> QED
    BY <1>1, <1>2, <1>6, <2>1, <2>3, <2>4, <2>6, <2>7
<1>10. CASE Copy(p)
  <2>1. /\ pc[p] = "scan" /\ ~StartMaster(p) /\ ~Prepare(p)
        /\ heapletIndex' = heapletIndex
    BY <1>10 DEF Copy, Step, StartMaster, Prepare
  <2>2. Full' \subseteq Full \cup {p} /\ p \notin Full
    BY <1>7, <2>1 DEF Full
  <2>3. A' = A
    BY <1>10, HeapMoves DEF OthersKeep, Partition, Copy, Step
  <2>4. /\ locked[p] \in {None, Target(p)} /\ locked' = [locked EXCEPT ![p] = None]
        /\ copied' = copied \cup {Target(p)} /\ Target(p) \notin copied
    BY <1>10 DEF Copy, LocksHold, Unmoved, Set
  <2>5. SeenVectors \subseteq SeenVectors'
    <3>1. \A q \in Procs : locked'[q] = IF q = p THEN None ELSE locked[q]
      BY <2>4 DEF HeapTypes
    <3>2. locked[p] # None => Target(p) \in copied' \cap Vectors
      BY <2>4 DEF LocksHold
    <3>3. LockedOnes \subseteq LockedOnes' \cup (copied' \cap Vectors)
      BY <2>4, <3>1, <3>2 DEF LockedOnes
    <3> QED
      BY <2>4, <3>3 DEF SeenVectors
  <2> HIDE DEF A
  <2>6. /\ Cardinality(Full') \in Nat
        /\ Cardinality(Full') <= Cardinality(Full) + 1
    <3>1. /\ Cardinality(Full \cup {p}) = Cardinality(Full) + 1
          /\ IsFiniteSet(Full \cup {p})
      BY <1>1, <2>2, FS_AddElement
    <3> QED
      BY <2>2, <3>1, FS_Subset, FS_CardinalityType
  <2>7. Cardinality(copied') = Cardinality(copied) + 1
    BY <1>1, <2>4, FS_AddElement
  <2>8. /\ Cardinality(SeenVectors') \in Nat
        /\ Cardinality(SeenVectors) <= Cardinality(SeenVectors')
    <3>1. SeenVectors' \subseteq Vectors
      BY DEF SeenVectors, LockedOnes, LocksHold
    <3>2. IsFiniteSet(SeenVectors') /\ Cardinality(SeenVectors') \in Nat
      BY <3>1, HeapAssumption, SizesAssumption, FS_Subset, FS_CardinalityType
    <3> QED
      BY <2>5, <3>2, FS_Subset
  <2> QED
    BY <1>1, <1>2, <1>6, <2>1, <2>3, <2>6, <2>7, <2>8
<1>11. CASE Overflow(p)
  <2>1. /\ pc[p] = "overflow" /\ pc'[p] = "scan" /\ ~StartMaster(p) /\ ~Prepare(p)
        /\ heapletIndex' = heapletIndex + 1
        /\ locked' = locked /\ copied' = copied
    BY <1>11 DEF Overflow, NewHeaplet, Step, Set, StartMaster, Prepare, PhaseInv,
                 PhaseTypes
  <2>2. Full' = Full \ {p} /\ p \in Full
    BY <1>7, <2>1 DEF Full
  <2>3. A' = A
    BY <1>11, <2>1, HeapMoves DEF OthersKeep, Partition, Step
  <2> HIDE DEF A
  <2>4. Cardinality(Full') = Cardinality(Full) - 1
    BY <1>1, <2>2, FS_RemoveElement
  <2> QED
    BY <1>1, <1>2, <1>6, <1>8, <2>1, <2>3, <2>4
<1>12. CASE Partition(p)
  <2>1. /\ pc[p] = "partition" /\ pc'[p] = "scan" /\ ~StartMaster(p) /\ ~Prepare(p)
        /\ heapletIndex' = heapletIndex + 1
        /\ locked' = locked /\ copied' = copied
    BY <1>12 DEF Partition, NewHeaplet, Step, Set, StartMaster, Prepare, PhaseInv,
                 PhaseTypes
  <2>2. Full' = Full
    BY <1>7, <2>1 DEF Full
  <2>3. A' = A \cup {p} /\ p \notin A
    BY <1>12, HeapMoves DEF OthersKeep
  <2> HIDE DEF A
  <2>4. Cardinality(A') = Cardinality(A) + 1
    BY <1>1, <2>3, FS_AddElement
  <2> QED
    BY <1>1, <1>2, <1>6, <1>8, <2>1, <2>2, <2>4
<1>13. CASE \/ Relocate(p) \/ ScanEnd(p) \/ ScanOwn(p) \/ PopHeaplet(p)
            \/ QuietStep(p) /\ ~VectorOverflow(p)
  <2>1. /\ pc[p] # "overflow" /\ pc'[p] # "overflow" /\ ~StartMaster(p)
        /\ ~Prepare(p) /\ ~Copy(p) /\ ~Overflow(p) /\ ~Partition(p)
        /\ ~VectorOverflow(p) /\ heapletIndex' = heapletIndex
    <3>1. CASE Relocate(p) \/ ScanEnd(p) \/ ScanOwn(p) \/ PopHeaplet(p)
      BY <3>1, SizesAssumption
      DEF Relocate, ScanEnd, ScanOwn, PopHeaplet, Step, Set, StartMaster, Prepare,
          Copy, Overflow, Partition, VectorOverflow, Unmoved, room, PhaseInv,
          PhaseTypes, HeapTypes
    <3>2. CASE QuietStep(p) /\ ~VectorOverflow(p)
      BY <3>2, SizesAssumption
      DEF QuietStep, StartSlave, Arrive, Pass, Following, Setup, Flip, Flipped,
          PopNothing, ConsingDone, FixWeak, CopyReady, Move, SlaveDone, Grab,
          EndReady, StartDaemons, FinishMaster, Complete, Step, Set, Barriers,
          StartMaster, Prepare, Copy, Overflow, Partition, room, heap, PhaseInv,
          PhaseTypes
    <3> QED
      BY <1>13, <3>1, <3>2
  <2>2. Full' = Full
    BY <1>7, <2>1 DEF Full
  <2>3. A' = A
    <3>1. CASE QuietStep(p)
      BY <3>1, QuietKeeps DEF Quiet
    <3>2. CASE Relocate(p) \/ ScanEnd(p) \/ ScanOwn(p) \/ PopHeaplet(p)
      BY <2>1, <3>2, HeapMoves DEF OthersKeep
    <3> QED
      BY <1>13, <3>1, <3>2
  <2>4. locked' = locked /\ copied' = copied
    BY <2>1, LockMoves
  <2> HIDE DEF A
  <2> QED
    BY <1>1, <1>2, <1>6, <1>8, <2>1, <2>2, <2>3, <2>4
<1> QED
  BY <1>4, <1>5, <1>9, <1>10, <1>11, <1>12, <1>13, KindsOfStep

\* The invariant of the indices, of every execution.
LEMMA IndexInvAlways ==
  Spec => [](PhaseInv /\ ScanInv /\ CounterTypes /\ IndexInv)
<1>1. Init => IndexInv
  <2> SUFFICES ASSUME Init PROVE IndexInv
    OBVIOUS
  <2>1. LocksHold /\ ~Prepared
    BY DEF Init, LocksHold, Prepared
  <2> QED
    BY <2>1 DEF IndexInv, IndicesCount
<1>2. PhaseInv /\ ScanInv /\ ScanInv' /\ IndexInv /\ [Next]_vars => IndexInv'
  <2> SUFFICES ASSUME PhaseInv, ScanInv, ScanInv', IndexInv, [Next]_vars
               PROVE  IndexInv'
    OBVIOUS
  <2>1. CASE UNCHANGED vars
    <3>1. UNCHANGED <<mode, pc, heap>>
      BY <2>1 DEF vars
    <3> USE <3>1 DEF mode, room, heap
    <3>2. LocksHold'
      BY DEF IndexInv, LocksHold, Content, Target, Fits
    <3>3. IndicesCount'
      BY DEF IndexInv, IndicesCount, Prepared, Full, Active, Past, InRound,
             SeenVectors, LockedOnes
    <3> QED
      BY <3>2, <3>3 DEF IndexInv
  <2>2. ASSUME NEW p \in Procs, StepOf(p) PROVE IndexInv'
    <3>1. LocksHold'
      BY <2>2, StepLocks DEF IndexInv
    <3> QED
      BY <2>2, <3>1, StepIndices DEF IndexInv
  <2> QED
    BY <2>1, <2>2, StepKinds
<1> QED
  BY <1>1, <1>2, ScanInvAlways, PTL DEF Spec

-----------------------------------------------------------------------------
(* The theorems *)

\* No counter is decremented below zero and no step reads or writes out of the
\* queue or before the scan pointers; and every heaplet keeps a word free for the
\* broken heart that stops the scan, whatever is copied into it: vectors are
\* tested against its end and the buffer has room for the other objects.
THEOREM TypeCorrect == Spec => []TypeOK
<1>1. PhaseInv /\ ScanInv /\ CounterTypes => TypeOK
  <2> SUFFICES ASSUME PhaseInv, ScanInv, CounterTypes PROVE TypeOK
    OBVIOUS
  <2>1. HeapTypes
    BY DEF ScanInv
  <2>2. busy \in 0 .. N
    <3>1. N \in Nat /\ Cardinality(BusyOnes) <= N
      BY SizesAssumption, FS_Subset, FS_CardinalityType DEF N, BusyOnes
    <3> QED
      BY <2>1, <3>1, IdleFacts DEF ScanInv
  <2> QED
    BY <2>1, <2>2
    DEF TypeOK, PhaseInv, PhaseTypes, HeapTypes, CounterTypes, CountersFit
<1> QED
  BY <1>1, ScanInvAlways, PTL

\* No word of the heap is ever scanned twice in one collection.
THEOREM ScannedOnceAlways == Spec => []ScannedOnce
<1>1. ScanInv => ScannedOnce
  BY DEF ScanInv
<1> QED
  BY <1>1, ScanInvAlways, PTL

\* What the end of Scan_Heap means, when no heaplet has been dropped: all are
\* idle, nobody has anything to scan, and what is copied is what is reachable.
LEMMA EndOfScan ==
  ASSUME PhaseInv, ScanInv, Prepared => NoneForgotten,
         NEW p \in Procs, InRound(p), ~StillConsing(p)
  PROVE  /\ copied = Reachable /\ Prepared
         /\ \A o \in copied : \A f \in DOMAIN Fields[o] : scanned[<<o, f>>] = 1
<1>. HeapTypes /\ BusyCounts /\ (Prepared => HeapInv)
  BY DEF ScanInv
<1>1. Past(p, PastScan)
  BY PastScanIs DEF InRound, StillConsing, PhaseInv, PhaseTypes, Labels,
                    Barriers, Past
<1>2. Prepared /\ SetUp /\ busy = 0 /\ queue = << >>
  <2>1. Active(p)
    BY <1>1, PastScanIs DEF Active, Past
  <2> QED
    BY <1>1, <2>1, PlaceFacts DEF BusyCounts
<1>3. \A q \in Procs : Active(q) /\ ~Scanning(q) /\ OwnIsScanned(q)
  <2>1. BusyOnes = {}
    BY <1>2, IdleFacts, FS_EmptySet
  <2> QED
    BY <2>1, IdleFacts DEF BusyCounts
<1>. /\ OneOwner /\ WordsAreOnce /\ ScannedBelow /\ NoneForgotten
     /\ TargetsAreCopied /\ OnlyReachable
  BY <1>2 DEF HeapInv
<1>4. \A h \in Used : scan[h] = Len(words[h])
  BY <1>2, <1>3 DEF NoneForgotten, Scans, OwnIsScanned
<1>5. \A h \in Used : \A i \in DOMAIN words[h] : scanned[words[h][i]] = 1
  <2> SUFFICES ASSUME NEW h \in Used, NEW i \in DOMAIN words[h]
               PROVE  scanned[words[h][i]] = 1
    OBVIOUS
  <2>1. scanned[words[h][i]] = One(i <= scan[h])
    BY <1>3 DEF ScannedBelow, ScannedTo, Scans
  <2>2. Used \subseteq Heaplets
    BY UsedHeaplets
  <2>3. words[h] \in Seq(Words)
    BY <2>2 DEF HeapTypes
  <2>4. i <= Len(words[h])
    BY <2>3
  <2> QED
    BY <1>4, <2>1, <2>4 DEF One
<1>6. \A o \in copied : \A f \in DOMAIN Fields[o] : scanned[<<o, f>>] = 1
  BY <1>5 DEF WordsAreOnce
<1>7. IsClosed(copied)
  <2>1. \A q \in Procs : \A i \in DOMAIN Roots[q] : Roots[q][i] \in copied
    BY <1>3 DEF TargetsAreCopied, Scans
  <2>2. ASSUME NEW o \in copied, NEW f \in DOMAIN Fields[o]
        PROVE  Fields[o][f] \in copied \cup {None}
    <3>1. <<o, f>> \in Words /\ scanned[<<o, f>>] = 1
      BY <1>6, WordsOfFacts DEF HeapTypes
    <3>2. scanned[<<o, f>>] # 0
      BY <3>1
    <3> DEFINE v == <<o, f>>
    <3>3. Fields[v[1]][v[2]] \in copied \cup {None}
      BY <3>1, <3>2 DEF TargetsAreCopied
    <3> QED
      BY <3>3
  <2> QED
    BY <2>1, <2>2 DEF IsClosed
<1>8. copied = Reachable
  BY <1>7 DEF Reachable, OnlyReachable, HeapTypes
<1> QED
  BY <1>2, <1>6, <1>8

\* And that no heaplet is forgotten, of those that never find the queue full.
LEMMA FullInvAlways ==
  Spec /\ []QueueNeverFillsUp => [](PhaseInv /\ FullInv /\ CounterTypes)
<1>1. Init => PhaseInv /\ FullInv /\ CounterTypes
  BY InitPhaseInv, InitScanInv DEF FullInv
<1>2. PhaseInv /\ FullInv /\ CounterTypes /\ QueueNeverFillsUp /\ [Next]_vars
         => (PhaseInv /\ FullInv /\ CounterTypes)'
  BY NextPhaseInv, NextScanInv DEF FullInv
<1> QED
  BY <1>1, <1>2, PTL DEF Spec

\* Everything is scanned when somebody stops copying.
LEMMA AllIsScannedThen == PhaseInv /\ FullInv => AllIsScanned
<1> SUFFICES ASSUME PhaseInv, FullInv PROVE AllIsScanned
  OBVIOUS
<1>. ScanInv /\ (Prepared => NoneForgotten)
  BY DEF FullInv
<1>1. ASSUME NEW p \in Procs, InRound(p), ~StillConsing(p)
      PROVE  /\ copied = Reachable
             /\ \A o \in Reachable : \A w \in ToSet(WordsOf(o)) : scanned[w] = 1
  <2>1. copied = Reachable
    BY <1>1, EndOfScan
  <2>2. ASSUME NEW o \in Reachable, NEW w \in ToSet(WordsOf(o))
        PROVE  scanned[w] = 1
    <3>1. o \in Obj
      BY DEF Reachable
    <3>2. PICK f \in DOMAIN Fields[o] : w = <<o, f>>
      BY <3>1, WordsOfFacts DEF ToSet
    <3> QED
      BY <1>1, <2>1, <3>2, EndOfScan
  <2> QED
    BY <2>1, <2>2
<1> QED
  BY <1>1 DEF AllIsScanned, ScanInv, ScannedOnce

\* The pairs that are broken when all chains are fixed are the right ones.
LEMMA WeakPairsThen == PhaseInv /\ FullInv => WeakPairsAreRight
<1> SUFFICES ASSUME PhaseInv, FullInv,
                    \A p \in Procs : InRound(p) /\ ~StillFixing(p)
             PROVE  broken = {o \in Reachable :
                                 WeakCar[o] \notin Reachable \cup {None}}
  BY DEF WeakPairsAreRight
<1>. ScanInv /\ (Prepared => NoneForgotten) /\ WeakInv
  BY DEF FullInv, ScanInv
<1>1. PICK p \in Procs : TRUE
  BY SizesAssumption
<1>2. copied = Reachable /\ Prepared
  BY EndOfScan DEF StillFixing
<1>3. \A q \in Procs : chain[q] = {}
  <2>1. \A q \in Procs : Past(q, PastWeak)
    BY PastWeakIs DEF StillFixing, StillConsing, PhaseInv, PhaseTypes, Labels,
                      Barriers, Past, InRound
  <2> QED
    BY <2>1 DEF WeakInv
<1> QED
  BY <1>2, <1>3 DEF WeakInv

\* While no heaplet is dropped, the end that queue_busy_count detects is the
\* end: nobody leaves Scan_Heap before all that is reachable, and nothing else, has
\* been copied and every word of it scanned once.
THEOREM AllIsScannedAlways == Spec /\ []QueueNeverFillsUp => []AllIsScanned
BY FullInvAlways, AllIsScannedThen, PTL

\* And the weak pairs that have lost their car are those whose car is garbage.
THEOREM WeakPairsAreRightAlways ==
  Spec /\ []QueueNeverFillsUp => []WeakPairsAreRight
BY FullInvAlways, WeakPairsThen, PTL

\* A queue that has an entry for every index a heaplet may have is never full.
LEMMA RoomInQueue ==
  ASSUME MaxIndex < QueueMax
  PROVE  PhaseInv /\ ScanInv => QueueNeverFillsUp
<1> SUFFICES ASSUME PhaseInv, ScanInv, NEW p \in Procs, pc[p] = "overflow"
             PROVE  Len(queue) < QueueMax
  BY DEF QueueNeverFillsUp
<1>1. HeapTypes /\ OneOwner /\ Active(p)
  BY PlaceFacts DEF ScanInv, HeapInv
<1>2. MaxIndex \in Nat
  BY SizesAssumption
<1> DEFINE T == Heaplets \ {cons[p]}
<1>3. cons[p] \in Heaplets /\ queue \in Seq(Heaplets)
  BY <1>1 DEF HeapTypes
<1>4. IsFiniteSet(Heaplets) /\ Cardinality(Heaplets) = MaxIndex + 1
  <2>1. 0 \in Int /\ MaxIndex \in Int /\ MaxIndex >= 0
    BY <1>2
  <2>2. /\ IsFiniteSet(0 .. MaxIndex)
        /\ Cardinality(0 .. MaxIndex) =
              IF 0 > MaxIndex THEN 0 ELSE MaxIndex - 0 + 1
    BY ONLY <2>1, FS_Interval
  <2> QED
    BY <2>1, <2>2 DEF Heaplets
<1>5. IsFiniteSet(T) /\ Cardinality(T) = MaxIndex
  <2> HIDE DEF T
  <2>1. T = Heaplets \ {cons[p]}
    BY DEF T
  <2>2. IsFiniteSet(T) /\ Cardinality(T) = Cardinality(Heaplets) - 1
    BY <1>3, <1>4, <2>1, FS_RemoveElement
  <2> QED
    BY <1>2, <1>4, <2>2
<1>6. Len(queue) \in Nat /\ DOMAIN queue = 1 .. Len(queue)
  BY <1>3
<1>7. queue \in Injection(1 .. Len(queue), T)
  <2>1. \A i \in 1 .. Len(queue) : queue[i] \in Heaplets /\ queue[i] # cons[p]
    BY <1>1, <1>3, <1>6 DEF OneOwner
  <2>2. queue = [i \in 1 .. Len(queue) |-> queue[i]]
    BY <1>3
  <2>3. queue \in [1 .. Len(queue) -> T]
    BY <2>1, <2>2
  <2>4. \A i, j \in DOMAIN queue : queue[i] = queue[j] => i = j
    BY <1>1 DEF OneOwner
  <2> QED
    BY <2>3, <2>4 DEF Injection, IsInjective
<1> HIDE DEF T
<1>8. Cardinality(1 .. Len(queue)) <= Cardinality(T)
  BY <1>5, <1>7, FS_Injection
<1>9. Cardinality(1 .. Len(queue)) = Len(queue)
  <2> DEFINE n == Len(queue)
  <2>1. 1 \in Int /\ n \in Int /\ (IF 1 > n THEN 0 ELSE n - 1 + 1) = n
    BY <1>6
  <2>2. Cardinality(1 .. n) = IF 1 > n THEN 0 ELSE n - 1 + 1
    BY ONLY <2>1, FS_Interval
  <2> QED
    BY <2>1, <2>2
<1> QED
  BY <1>2, <1>5, <1>6, <1>8, <1>9, SizesAssumption

\* The comment in Push_To_Heaplet_Queue is right about its premise: "the total
\* number of heaplets is smaller than the length of the queue, so it should never
\* fill up".  No heaplet is dropped by a queue that has room for as many as
\* get_consing_partition may hand out, be they full or abandoned empty.
THEOREM QueueIsLongEnough ==
  ASSUME MaxIndex < QueueMax
  PROVE  Spec => []QueueNeverFillsUp
<1>1. PhaseInv /\ ScanInv => QueueNeverFillsUp
  BY RoomInQueue
<1> QED
  BY <1>1, ScanInvAlways, PTL

\* Nobody is out of indices, and so no collection ends the program, if there is
\* an index for the first heaplet of each processor, one for each object and one
\* more for each vector: a vector may cost the heaplet that is abandoned before it,
\* empty or not, and the one that it fills.
THEOREM IndicesSuffice ==
  ASSUME N + Cardinality(Obj) + Cardinality(Vectors) <= MaxIndex + 1
  PROVE  Spec => [](\A p \in Procs : ~OutOfIndices(p))
<1>1. PhaseInv /\ ScanInv /\ IndexInv => \A p \in Procs : ~OutOfIndices(p)
  <2> SUFFICES ASSUME PhaseInv, ScanInv, IndexInv, NEW p \in Procs,
                      pc[p] \in {"partition", "overflow"}
               PROVE  heapletIndex <= MaxIndex
    BY SizesAssumption DEF OutOfIndices, ScanInv, HeapTypes
  <2> DEFINE A == {q \in Procs : Active(q)}
  <2>0. HeapTypes /\ LocksHold
    BY DEF ScanInv, IndexInv
  <2>1. heapletIndex + Cardinality(Full)
           <= Cardinality(A) + Cardinality(copied) + Cardinality(SeenVectors)
    <3>1. Prepared
      BY PlaceFacts
    <3> QED
      BY <3>1 DEF IndexInv, IndicesCount
  <2>2. /\ IsFiniteSet(Full) /\ Cardinality(Full) \in Nat
        /\ Cardinality(A) \in Nat /\ Cardinality(A) <= N /\ N \in Nat
        /\ Cardinality(copied) \in Nat /\ Cardinality(Obj) \in Nat
        /\ Cardinality(copied) <= Cardinality(Obj)
        /\ Cardinality(SeenVectors) \in Nat /\ Cardinality(Vectors) \in Nat
        /\ Cardinality(SeenVectors) <= Cardinality(Vectors)
    <3>1. IsFiniteSet(Procs) /\ IsFiniteSet(Obj) /\ IsFiniteSet(Vectors)
      BY SizesAssumption, HeapAssumption, FS_Subset
    <3>2. A \subseteq Procs /\ copied \subseteq Obj /\ SeenVectors \subseteq Vectors
      BY <2>0, CountedFinite DEF HeapTypes
    <3>3. /\ Cardinality(A) <= N /\ Cardinality(copied) <= Cardinality(Obj)
          /\ Cardinality(SeenVectors) <= Cardinality(Vectors)
      BY <3>1, <3>2, FS_Subset DEF N
    <3> QED
      BY <2>0, <3>1, <3>3, CountedFinite, FS_CardinalityType DEF N
  <2>3. Cardinality(A) < N \/ Cardinality(Full) > 0
    <3>1. CASE pc[p] = "partition"
      <4>1. p \notin A
        BY <3>1, PlaceFacts
      <4>2. Cardinality(A) # N
        BY <4>1, SizesAssumption, FS_Subset DEF N
      <4> HIDE DEF A
      <4> QED
        BY <2>2, <4>2
    <3>2. CASE pc[p] = "overflow"
      <4>1. Full # {}
        BY <3>2 DEF Full
      <4>2. Cardinality(Full) # 0
        BY <2>2, <4>1, FS_EmptySet
      <4> HIDE DEF A
      <4> QED
        BY <2>2, <4>2
    <3> QED
      BY <3>1, <3>2
  <2>4. heapletIndex \in Nat /\ MaxIndex \in Nat
    BY SizesAssumption DEF ScanInv, HeapTypes
  <2> HIDE DEF A
  <2> QED
    BY <2>1, <2>2, <2>3, <2>4
<1> QED
  BY <1>1, IndexInvAlways, PTL

===============================================================================
