---------------------------- MODULE CollectionProofs --------------------------
(***************************************************************************)
(* What is proved of a garbage collection for every number of processors,  *)
(* every heap and any number of collections: the order of its phases.      *)
(*                                                                         *)
(* The counters that Finish_GC spins on count the processors that have not *)
(* come past a step, once the master has reset them; the barriers make     *)
(* sure that it has.  What has been scanned is the subject of module       *)
(* ScanningProofs.                                                         *)
(***************************************************************************)
EXTENDS Collection, TLAPS, FiniteSetTheorems

-----------------------------------------------------------------------------
(* Where a processor is in the collection *)

\* The labels past each step, from the end of a collection to its beginning.
PastAfter     == {"program"}
PastDaemons   == {"after"} \cup PastAfter
PastSlaves    == {"daemons"} \cup PastDaemons
PastGrabbed   == {"slaves", "complete"} \cup PastSlaves
PastMoved     == {"grab", "grabbed"} \cup PastGrabbed
PastMove      == {"moved"} \cup PastMoved
PastCopyReady == {"move"} \cup PastMove
PastWeak      == {"copyReady"} \cup PastCopyReady
PastConsed    == {"weak"} \cup PastWeak
PastScan      == {"consed"} \cup PastConsed
PastPartition == {"loop", "scan", "overflow"} \cup PastScan
PastFlipped   == {"partition"} \cup PastPartition
PastFlip      == {"flipped"} \cup PastFlipped
PastSetup     == {"flip"} \cup PastFlip
PastResources == {"setup"} \cup PastSetup
PastSync      == {"resources"} \cup PastResources
PastPrepare   == {"sync"} \cup PastSync
PastStart     == {"prepare"} \cup PastPrepare

PastBarrier == [b \in Barriers |->
    CASE b = "start" -> PastStart [] b = "sync" -> PastSync
      [] b = "resources" -> PastResources [] b = "after" -> PastAfter]

\* p is past a step of the collection that is under way, or has just ended.
Past(p, L) == InRound(p) /\ pc[p] \in L
Left(L) == {p \in Procs : ~Past(p, L)}

Prepared == round # 0 /\ Past(master[round], PastPrepare)
SetUp    == round # 0 /\ Past(master[round], PastSetup)

-----------------------------------------------------------------------------
(* The phases *)

\* Who is behind has all of the last collection behind it.
Rendezvous == \A p \in Procs :
    /\ came[p] <= round
    /\ came[p] < round =>
          \/ pc[p] = "program"
          \/ pc[p] = "after" /\ came[p] # 0 /\ arrived[came[p]]["after"] = Procs
    /\ came[p] = 0 => pc[p] = "program"

\* Nobody passes a barrier before all have come to it.
BarriersHold ==
    /\ \A r \in Rounds : r > round => \A b \in Barriers : arrived[r][b] = {}
    /\ round # 0 => \A b \in Barriers, p \in Procs :
          /\ p \in arrived[round][b] => Past(p, {b} \cup PastBarrier[b])
          /\ Past(p, PastBarrier[b]) => arrived[round][b] = Procs

\* Some labels are for the master.
OneMaster ==
    /\ round # 0 => master[round] \in Procs /\ came[master[round]] = round
    /\ \A p \in Procs : InRound(p) =>
          /\ pc[p] \in {"prepare", "setup", "slaves", "daemons"} =>
                p = master[round]
          /\ pc[p] = "complete" => p # master[round]

\* The counters count.
CountersCount == Prepared =>
    /\ flipCount = Cardinality(Left(PastFlip))
    /\ consingDone = Cardinality(Left(PastConsed))
    /\ copyReady = Cardinality(Left(PastCopyReady))
    /\ slaveDone = Cardinality(Left(PastMoved))
    /\ endReady = Cardinality(Left(PastGrabbed))

\* Who has come past a gate knows where the others are.
GatesHold ==
    /\ \A p, q \in Procs :
          /\ Past(p, PastFlipped) => Past(q, PastFlip)
          /\ Past(p, PastMove)    => Past(q, PastCopyReady)
          /\ Past(p, PastSlaves)  => Past(q, PastMoved)
    /\ Prepared /\ gcComplete => Past(master[round], PastDaemons)

PhaseTypes == /\ round \in 0 .. MaxRounds
              /\ master \in [Rounds -> Procs \cup {None}]
              /\ came \in [Procs -> 0 .. MaxRounds]
              /\ pc \in [Procs -> Labels]
              /\ arrived \in [Rounds -> [Barriers -> SUBSET Procs]]

PhaseInv == PhaseTypes /\ Rendezvous /\ BarriersHold /\ OneMaster
            /\ CountersCount /\ GatesHold

-----------------------------------------------------------------------------
(* The steps *)

StepOf(p) == \/ StartMaster(p) \/ StartSlave(p) \/ Arrive(p) \/ Pass(p)
             \/ Prepare(p) \/ Setup(p) \/ Flip(p) \/ Flipped(p)
             \/ Partition(p) \/ Relocate(p) \/ Copy(p) \/ VectorOverflow(p)
             \/ Overflow(p)
             \/ ScanEnd(p) \/ ScanOwn(p) \/ PopHeaplet(p) \/ PopNothing(p)
             \/ ConsingDone(p) \/ FixWeak(p) \/ CopyReady(p) \/ Move(p)
             \/ SlaveDone(p) \/ Grab(p) \/ EndReady(p) \/ StartDaemons(p)
             \/ FinishMaster(p) \/ Complete(p)

\* A step of the whole is the step of one processor.
LEMMA StepKinds ==
  ASSUME [Next]_vars
  PROVE  UNCHANGED vars \/ \E p \in Procs : StepOf(p)
BY DEF Next, Proceed, StepOf

\* Every step keeps the part of the types that the phases need.
LEMMA StepTypes ==
  ASSUME PhaseTypes, Rendezvous, NEW p \in Procs, StepOf(p)
  PROVE  PhaseTypes'
<1> USE SizesAssumption
    DEF PhaseTypes, Rendezvous, Step, Set, Labels, Barriers, Rounds, mode
<1>1. CASE StartMaster(p)
  BY <1>1 DEF StartMaster
<1>2. CASE StartSlave(p)
  BY <1>2 DEF StartSlave
<1>3. CASE Arrive(p)
  BY <1>3 DEF Arrive
<1>4. CASE Pass(p)
  BY <1>4 DEF Pass, Following
<1>5. CASE Prepare(p)
  BY <1>5 DEF Prepare
<1>6. CASE Setup(p)
  BY <1>6 DEF Setup
<1>7. CASE Flip(p)
  BY <1>7 DEF Flip
<1>8. CASE Flipped(p)
  BY <1>8 DEF Flipped
<1>9. CASE Partition(p)
  BY <1>9 DEF Partition, NewHeaplet
<1>10. CASE Relocate(p)
  BY <1>10 DEF Relocate
<1>11. CASE Copy(p)
  BY <1>11 DEF Copy
<1>12. CASE Overflow(p)
  BY <1>12 DEF Overflow, NewHeaplet
<1>13. CASE ScanEnd(p)
  BY <1>13 DEF ScanEnd
<1>14. CASE ScanOwn(p)
  BY <1>14 DEF ScanOwn
<1>15. CASE PopHeaplet(p)
  BY <1>15 DEF PopHeaplet
<1>16. CASE PopNothing(p)
  BY <1>16 DEF PopNothing
<1>17. CASE ConsingDone(p)
  BY <1>17 DEF ConsingDone
<1>18. CASE FixWeak(p)
  BY <1>18 DEF FixWeak
<1>19. CASE CopyReady(p)
  BY <1>19 DEF CopyReady
<1>20. CASE Move(p)
  BY <1>20 DEF Move
<1>21. CASE SlaveDone(p)
  BY <1>21 DEF SlaveDone
<1>22. CASE Grab(p)
  BY <1>22 DEF Grab
<1>23. CASE EndReady(p)
  BY <1>23 DEF EndReady
<1>24. CASE StartDaemons(p)
  BY <1>24 DEF StartDaemons
<1>25. CASE FinishMaster(p)
  BY <1>25 DEF FinishMaster
<1>26. CASE Complete(p)
  BY <1>26 DEF Complete
<1>27. CASE VectorOverflow(p)
  BY <1>27 DEF VectorOverflow
<1> QED
  BY <1>1, <1>2, <1>3, <1>4, <1>5, <1>6, <1>7, <1>8, <1>9, <1>10, <1>11,
     <1>12, <1>13, <1>14, <1>15, <1>16, <1>17, <1>18, <1>19, <1>20, <1>21,
     <1>22, <1>23, <1>24, <1>25, <1>26, <1>27 DEF StepOf

\* Nobody enters a collection before the last one has let everybody go.
LEMMA StepRendezvous ==
  ASSUME PhaseTypes, Rendezvous, BarriersHold, NEW p \in Procs, StepOf(p)
  PROVE  Rendezvous'
<1> USE DEF PhaseTypes, Rendezvous, Step, Set, Labels, Barriers, Rounds, mode
<1>1. CASE StartMaster(p)
  <2>1. \A q \in Procs \ {p} :
          pc'[q] = pc[q] /\ came'[q] = came[q] /\ came[q] < round'
    BY <1>1 DEF StartMaster
  <2>2. /\ pc'[p] = "start" /\ came'[p] = round' /\ round' = round + 1
        /\ arrived' = arrived
    BY <1>1 DEF StartMaster
  <2>3. CASE round = 0
    BY <2>1, <2>2, <2>3
  <2>4. CASE round # 0
    <3>1. Past(p, PastBarrier["after"])
      BY <1>1, <2>4 DEF StartMaster, Past, InRound, PastBarrier, PastAfter
    <3>2. arrived[round]["after"] = Procs
      BY <2>4, <3>1 DEF BarriersHold
    <3>3. \A q \in Procs : Past(q, {"after"} \cup PastBarrier["after"])
      BY <2>4, <3>2 DEF BarriersHold
    <3>4. \A q \in Procs : came[q] = round /\ pc[q] \in {"after", "program"}
      BY <3>3 DEF Past, InRound, PastBarrier, PastAfter
    <3> QED
      BY <2>1, <2>2, <2>4, <3>2, <3>4
  <2> QED
    BY <2>3, <2>4
<1>2. CASE StartSlave(p)
  BY <1>2 DEF StartSlave
<1>3. CASE Arrive(p)
  BY <1>3 DEF Arrive
<1>4. CASE Pass(p)
  BY <1>4 DEF Pass, Following
<1>5. CASE Prepare(p)
  BY <1>5 DEF Prepare
<1>6. CASE Setup(p)
  BY <1>6 DEF Setup
<1>7. CASE Flip(p)
  BY <1>7 DEF Flip
<1>8. CASE Flipped(p)
  BY <1>8 DEF Flipped
<1>9. CASE Partition(p)
  BY <1>9 DEF Partition, NewHeaplet
<1>10. CASE Relocate(p)
  BY <1>10 DEF Relocate
<1>11. CASE Copy(p)
  BY <1>11 DEF Copy
<1>12. CASE Overflow(p)
  BY <1>12 DEF Overflow, NewHeaplet
<1>13. CASE ScanEnd(p)
  BY <1>13 DEF ScanEnd
<1>14. CASE ScanOwn(p)
  BY <1>14 DEF ScanOwn
<1>15. CASE PopHeaplet(p)
  BY <1>15 DEF PopHeaplet
<1>16. CASE PopNothing(p)
  BY <1>16 DEF PopNothing
<1>17. CASE ConsingDone(p)
  BY <1>17 DEF ConsingDone
<1>18. CASE FixWeak(p)
  BY <1>18 DEF FixWeak
<1>19. CASE CopyReady(p)
  BY <1>19 DEF CopyReady
<1>20. CASE Move(p)
  BY <1>20 DEF Move
<1>21. CASE SlaveDone(p)
  BY <1>21 DEF SlaveDone
<1>22. CASE Grab(p)
  BY <1>22 DEF Grab
<1>23. CASE EndReady(p)
  BY <1>23 DEF EndReady
<1>24. CASE StartDaemons(p)
  BY <1>24 DEF StartDaemons
<1>25. CASE FinishMaster(p)
  BY <1>25 DEF FinishMaster
<1>26. CASE Complete(p)
  BY <1>26 DEF Complete
<1>27. CASE VectorOverflow(p)
  BY <1>27 DEF VectorOverflow
<1> QED
  BY <1>1, <1>2, <1>3, <1>4, <1>5, <1>6, <1>7, <1>8, <1>9, <1>10, <1>11,
     <1>12, <1>13, <1>14, <1>15, <1>16, <1>17, <1>18, <1>19, <1>20, <1>21,
     <1>22, <1>23, <1>24, <1>25, <1>26, <1>27 DEF StepOf

\* The one who got GLOBAL-INTERRUPT stays the master.
LEMMA StepOneMaster ==
  ASSUME PhaseTypes, Rendezvous, OneMaster, NEW p \in Procs, StepOf(p)
  PROVE  OneMaster'
<1> USE SizesAssumption
    DEF PhaseTypes, Rendezvous, OneMaster, IsMaster, InRound, Step, Set, Labels,
        Barriers, Rounds, mode
<1>1. CASE StartMaster(p)
  <2>1. \A q \in Procs \ {p} :
          pc'[q] = pc[q] /\ came'[q] = came[q] /\ came[q] < round'
    BY <1>1 DEF StartMaster
  <2>2. pc'[p] = "start" /\ came'[p] = round' /\ master'[round'] = p
    BY <1>1 DEF StartMaster
  <2> QED
    BY <2>1, <2>2
<1>2. CASE StartSlave(p)
  BY <1>2 DEF StartSlave
<1>3. CASE Arrive(p)
  BY <1>3 DEF Arrive
<1>4. CASE Pass(p)
  BY <1>4 DEF Pass, Following
<1>5. CASE Prepare(p)
  BY <1>5 DEF Prepare
<1>6. CASE Setup(p)
  BY <1>6 DEF Setup
<1>7. CASE Flip(p)
  BY <1>7 DEF Flip
<1>8. CASE Flipped(p)
  BY <1>8 DEF Flipped
<1>9. CASE Partition(p)
  BY <1>9 DEF Partition, NewHeaplet
<1>10. CASE Relocate(p)
  BY <1>10 DEF Relocate
<1>11. CASE Copy(p)
  BY <1>11 DEF Copy
<1>12. CASE Overflow(p)
  BY <1>12 DEF Overflow, NewHeaplet
<1>13. CASE ScanEnd(p)
  BY <1>13 DEF ScanEnd
<1>14. CASE ScanOwn(p)
  BY <1>14 DEF ScanOwn
<1>15. CASE PopHeaplet(p)
  BY <1>15 DEF PopHeaplet
<1>16. CASE PopNothing(p)
  BY <1>16 DEF PopNothing
<1>17. CASE ConsingDone(p)
  BY <1>17 DEF ConsingDone
<1>18. CASE FixWeak(p)
  BY <1>18 DEF FixWeak
<1>19. CASE CopyReady(p)
  BY <1>19 DEF CopyReady
<1>20. CASE Move(p)
  BY <1>20 DEF Move
<1>21. CASE SlaveDone(p)
  BY <1>21 DEF SlaveDone
<1>22. CASE Grab(p)
  BY <1>22 DEF Grab
<1>23. CASE EndReady(p)
  BY <1>23 DEF EndReady
<1>24. CASE StartDaemons(p)
  BY <1>24 DEF StartDaemons
<1>25. CASE FinishMaster(p)
  BY <1>25 DEF FinishMaster
<1>26. CASE Complete(p)
  BY <1>26 DEF Complete
<1>27. CASE VectorOverflow(p)
  BY <1>27 DEF VectorOverflow
<1> QED
  BY <1>1, <1>2, <1>3, <1>4, <1>5, <1>6, <1>7, <1>8, <1>9, <1>10, <1>11,
     <1>12, <1>13, <1>14, <1>15, <1>16, <1>17, <1>18, <1>19, <1>20, <1>21,
     <1>22, <1>23, <1>24, <1>25, <1>26, <1>27 DEF StepOf

\* The synchronizers let nobody pass before all have come.
LEMMA StepBarriers ==
  ASSUME PhaseTypes, Rendezvous, OneMaster, BarriersHold, NEW p \in Procs,
         StepOf(p)
  PROVE  BarriersHold'
<1> USE DEF PhaseTypes, Rendezvous, BarriersHold, OneMaster, IsMaster, Past,
            InRound, PastBarrier, Barriers, Rounds, Labels, Step, Set, mode,
            PastAfter, PastDaemons, PastSlaves, PastGrabbed, PastMoved,
            PastMove, PastCopyReady, PastWeak, PastConsed, PastScan,
            PastPartition, PastFlipped, PastFlip, PastSetup, PastResources,
            PastSync, PastPrepare, PastStart
<1>1. CASE StartMaster(p)
  <2>1. /\ round' = round + 1 /\ round' \in Rounds /\ arrived' = arrived
        /\ pc'[p] = "start"
        /\ \A q \in Procs \ {p} : came'[q] < round'
    BY <1>1, SizesAssumption DEF StartMaster
  <2>2. \A b \in Barriers : arrived'[round'][b] = {}
    BY <2>1
  <2> QED
    BY <2>1, <2>2
<1>2. CASE StartSlave(p)
  BY <1>2 DEF StartSlave
<1>3. CASE Arrive(p)
  BY <1>3 DEF Arrive
<1>4. CASE Pass(p)
  BY <1>4 DEF Pass, Following
<1>5. CASE Prepare(p)
  BY <1>5 DEF Prepare
<1>6. CASE Setup(p)
  BY <1>6 DEF Setup
<1>7. CASE Flip(p)
  BY <1>7 DEF Flip
<1>8. CASE Flipped(p)
  BY <1>8 DEF Flipped
<1>9. CASE Partition(p)
  BY <1>9 DEF Partition, NewHeaplet
<1>10. CASE Relocate(p)
  BY <1>10 DEF Relocate
<1>11. CASE Copy(p)
  BY <1>11 DEF Copy
<1>12. CASE Overflow(p)
  BY <1>12 DEF Overflow, NewHeaplet
<1>13. CASE ScanEnd(p)
  BY <1>13 DEF ScanEnd
<1>14. CASE ScanOwn(p)
  BY <1>14 DEF ScanOwn
<1>15. CASE PopHeaplet(p)
  BY <1>15 DEF PopHeaplet
<1>16. CASE PopNothing(p)
  BY <1>16 DEF PopNothing
<1>17. CASE ConsingDone(p)
  BY <1>17 DEF ConsingDone
<1>18. CASE FixWeak(p)
  BY <1>18 DEF FixWeak
<1>19. CASE CopyReady(p)
  BY <1>19 DEF CopyReady
<1>20. CASE Move(p)
  BY <1>20 DEF Move
<1>21. CASE SlaveDone(p)
  BY <1>21 DEF SlaveDone
<1>22. CASE Grab(p)
  BY <1>22 DEF Grab
<1>23. CASE EndReady(p)
  BY <1>23 DEF EndReady
<1>24. CASE StartDaemons(p)
  BY <1>24 DEF StartDaemons
<1>25. CASE FinishMaster(p)
  BY <1>25 DEF FinishMaster
<1>26. CASE Complete(p)
  BY <1>26 DEF Complete
<1>27. CASE VectorOverflow(p)
  BY <1>27 DEF VectorOverflow
<1> QED
  BY <1>1, <1>2, <1>3, <1>4, <1>5, <1>6, <1>7, <1>8, <1>9, <1>10, <1>11,
     <1>12, <1>13, <1>14, <1>15, <1>16, <1>17, <1>18, <1>19, <1>20, <1>21,
     <1>22, <1>23, <1>24, <1>25, <1>26, <1>27 DEF StepOf

-----------------------------------------------------------------------------
(* The counters and the gates *)

\* Who is past the synchronizer knows that the master has reset the counters.
LEMMA AfterSync ==
  ASSUME PhaseTypes, BarriersHold, OneMaster, NEW p \in Procs, Past(p, PastSync)
  PROVE  Prepared
<1>1. round # 0 /\ "sync" \in Barriers /\ PastBarrier["sync"] = PastSync
  BY DEF Past, InRound, Barriers, PastBarrier
<1>2. arrived[round]["sync"] = Procs
  BY <1>1 DEF BarriersHold
<1>3. master[round] \in Procs
  BY <1>1 DEF OneMaster
<1>4. Past(master[round], {"sync"} \cup PastSync)
  BY <1>1, <1>2, <1>3 DEF BarriersHold
<1> QED
  BY <1>1, <1>4 DEF Prepared, PastPrepare

\* Who is counted.
LEMMA LeftFinite ==
  ASSUME NEW L
  PROVE  /\ Cardinality(Left(L)) \in Nat
         /\ Cardinality(Left(L)) = 0 => \A p \in Procs : Past(p, L)
<1>1. IsFiniteSet(Left(L))
  BY SizesAssumption, FS_Subset DEF Left
<1>2. Cardinality(Left(L)) = 0 => Left(L) = {}
  BY <1>1, FS_EmptySet
<1> QED
  BY <1>1, <1>2, FS_CardinalityType DEF Left

\* One processor less is left behind when p crosses a counted step.
LEMMA LeftLess ==
  ASSUME NEW L, NEW p \in Procs, ~Past(p, L), Past(p, L)',
         \A q \in Procs \ {p} : Past(q, L)' <=> Past(q, L)
  PROVE  Cardinality(Left(L)') = Cardinality(Left(L)) - 1
<1>1. Left(L)' = Left(L) \ {p} /\ p \in Left(L)
  BY DEF Left
<1>2. IsFiniteSet(Left(L))
  BY SizesAssumption, FS_Subset DEF Left
<1> QED
  BY <1>1, <1>2, FS_RemoveElement

\* A step of p that starts no collection leaves the others where they are.
OthersStay(p) == /\ round' = round /\ master' = master
                 /\ \A q \in Procs \ {p} : pc'[q] = pc[q] /\ came'[q] = came[q]

\* The others are past what they were past.
LEMMA OthersPast ==
  ASSUME NEW p \in Procs, OthersStay(p), NEW L, NEW q \in Procs \ {p}
  PROVE  Past(q, L)' <=> Past(q, L)
BY DEF OthersStay, Past, InRound

\* A step moves one processor only, if it starts no collection.
LEMMA StepOthersStay ==
  ASSUME PhaseTypes, NEW p \in Procs, StepOf(p), ~StartMaster(p)
  PROVE  OthersStay(p)
<1> USE DEF PhaseTypes, OthersStay, Step, Set, mode
<1>1. CASE StartMaster(p)
  BY <1>1
<1>2. CASE StartSlave(p)
  BY <1>2 DEF StartSlave
<1>3. CASE Arrive(p)
  BY <1>3 DEF Arrive
<1>4. CASE Pass(p)
  BY <1>4 DEF Pass, Following
<1>5. CASE Prepare(p)
  BY <1>5 DEF Prepare
<1>6. CASE Setup(p)
  BY <1>6 DEF Setup
<1>7. CASE Flip(p)
  BY <1>7 DEF Flip
<1>8. CASE Flipped(p)
  BY <1>8 DEF Flipped
<1>9. CASE Partition(p)
  BY <1>9 DEF Partition, NewHeaplet
<1>10. CASE Relocate(p)
  BY <1>10 DEF Relocate
<1>11. CASE Copy(p)
  BY <1>11 DEF Copy
<1>12. CASE Overflow(p)
  BY <1>12 DEF Overflow, NewHeaplet
<1>13. CASE ScanEnd(p)
  BY <1>13 DEF ScanEnd
<1>14. CASE ScanOwn(p)
  BY <1>14 DEF ScanOwn
<1>15. CASE PopHeaplet(p)
  BY <1>15 DEF PopHeaplet
<1>16. CASE PopNothing(p)
  BY <1>16 DEF PopNothing
<1>17. CASE ConsingDone(p)
  BY <1>17 DEF ConsingDone
<1>18. CASE FixWeak(p)
  BY <1>18 DEF FixWeak
<1>19. CASE CopyReady(p)
  BY <1>19 DEF CopyReady
<1>20. CASE Move(p)
  BY <1>20 DEF Move
<1>21. CASE SlaveDone(p)
  BY <1>21 DEF SlaveDone
<1>22. CASE Grab(p)
  BY <1>22 DEF Grab
<1>23. CASE EndReady(p)
  BY <1>23 DEF EndReady
<1>24. CASE StartDaemons(p)
  BY <1>24 DEF StartDaemons
<1>25. CASE FinishMaster(p)
  BY <1>25 DEF FinishMaster
<1>26. CASE Complete(p)
  BY <1>26 DEF Complete
<1>27. CASE VectorOverflow(p)
  BY <1>27 DEF VectorOverflow
<1> QED
  BY <1>1, <1>2, <1>3, <1>4, <1>5, <1>6, <1>7, <1>8, <1>9, <1>10, <1>11,
     <1>12, <1>13, <1>14, <1>15, <1>16, <1>17, <1>18, <1>19, <1>20, <1>21,
     <1>22, <1>23, <1>24, <1>25, <1>26, <1>27 DEF StepOf

\* The five counts are kept by a step that takes p past none of the steps they
\* count.
CrossesNone(p) == /\ Past(p, PastFlip)'      <=> Past(p, PastFlip)
                  /\ Past(p, PastConsed)'    <=> Past(p, PastConsed)
                  /\ Past(p, PastCopyReady)' <=> Past(p, PastCopyReady)
                  /\ Past(p, PastMoved)'     <=> Past(p, PastMoved)
                  /\ Past(p, PastGrabbed)'   <=> Past(p, PastGrabbed)

\* p is not the master that resets the counters.
NotPrepare(p) == Past(p, PastPrepare)' =>
                    Past(p, PastPrepare) \/ p # master[round]

\* The counters are reset at the beginning of a collection only.
LEMMA StillPrepared ==
  ASSUME OneMaster, NEW p \in Procs, OthersStay(p), NotPrepare(p), Prepared'
  PROVE  Prepared
<1>1. round # 0 /\ master[round] \in Procs
  BY DEF OthersStay, Prepared, OneMaster
<1>2. Past(master[round], PastPrepare)'
  BY DEF OthersStay, Prepared
<1>3. CASE master[round] = p
  <2>1. Past(p, PastPrepare)'
    BY <1>2, <1>3 DEF OthersStay, Past, InRound
  <2> QED
    BY <1>1, <1>3, <2>1 DEF NotPrepare, Prepared
<1>4. CASE master[round] # p
  <2>1. \A q \in Procs \ {p} : Past(q, PastPrepare)' <=> Past(q, PastPrepare)
    BY OthersPast
  <2>2. PICK q \in Procs \ {p} : q = master[round]
    BY <1>1, <1>4
  <2>3. Past(q, PastPrepare)'
    BY <1>2, <2>2 DEF OthersStay, Past, InRound
  <2> QED
    BY <1>1, <2>1, <2>2, <2>3 DEF Prepared
<1> QED
  BY <1>3, <1>4

\* A step that crosses no counted step leaves the counters right.
LEMMA CountsStay ==
  ASSUME CountersCount, OneMaster,
         UNCHANGED <<flipCount, consingDone, copyReady, slaveDone, endReady>>,
         NEW p \in Procs, OthersStay(p), NotPrepare(p), CrossesNone(p)
  PROVE  CountersCount'
<1>1. /\ Left(PastFlip)' = Left(PastFlip)
      /\ Left(PastConsed)' = Left(PastConsed)
      /\ Left(PastCopyReady)' = Left(PastCopyReady)
      /\ Left(PastMoved)' = Left(PastMoved)
      /\ Left(PastGrabbed)' = Left(PastGrabbed)
  BY OthersPast DEF Left, CrossesNone
<1> QED
  BY <1>1, StillPrepared DEF CountersCount

\* Every step changes the counter of the step it crosses, and no other.
LEMMA StepCounters ==
  ASSUME PhaseInv, NEW p \in Procs, StepOf(p)
  PROVE  CountersCount'
<1>. /\ CountersCount /\ PhaseTypes /\ OneMaster /\ BarriersHold
     /\ came[p] <= round /\ (came[p] = 0 => pc[p] = "program")
     /\ pc[p] \notin {"program", "after"} => InRound(p)
     /\ InRound(p) =>
          /\ pc[p] \in {"prepare", "setup", "slaves", "daemons"} =>
                p = master[round]
          /\ pc[p] = "complete" => p # master[round]
  BY DEF PhaseInv, PhaseTypes, Rendezvous, OneMaster, InRound
<1>. \A q \in Procs \ {p} : OthersStay(p) =>
       /\ Past(q, PastFlip)'      <=> Past(q, PastFlip)
       /\ Past(q, PastConsed)'    <=> Past(q, PastConsed)
       /\ Past(q, PastCopyReady)' <=> Past(q, PastCopyReady)
       /\ Past(q, PastMoved)'     <=> Past(q, PastMoved)
       /\ Past(q, PastGrabbed)'   <=> Past(q, PastGrabbed)
  BY OthersPast
<1>. ~StartMaster(p) => OthersStay(p)
  BY StepOthersStay
<1>. Past(p, PastSync) => Prepared
  BY AfterSync
<1> USE SizesAssumption
    DEF PhaseTypes, IsMaster, Past, InRound, Barriers, Rounds, Labels, Step,
        Set, mode, counts, CrossesNone, NotPrepare, OthersStay,
        PastAfter, PastDaemons, PastSlaves, PastGrabbed, PastMoved, PastMove,
        PastCopyReady, PastWeak, PastConsed, PastScan, PastPartition,
        PastFlipped, PastFlip, PastSetup, PastResources, PastSync, PastPrepare,
        PastStart
<1>1. CASE StartMaster(p)
  <2>1. ~Prepared'
    BY <1>1 DEF StartMaster, Prepared
  <2> QED
    BY <2>1 DEF CountersCount
<1>2. CASE StartSlave(p)
  <2>1. UNCHANGED <<flipCount, consingDone, copyReady, slaveDone, endReady>>
    BY <1>2 DEF StartSlave
  <2>2. OthersStay(p) /\ NotPrepare(p) /\ CrossesNone(p)
    BY <1>2 DEF StartSlave
  <2> QED
    BY <2>1, <2>2, CountsStay
<1>3. CASE Arrive(p)
  <2>1. UNCHANGED <<flipCount, consingDone, copyReady, slaveDone, endReady>>
    BY <1>3 DEF Arrive
  <2>2. OthersStay(p) /\ NotPrepare(p) /\ CrossesNone(p)
    BY <1>3 DEF Arrive
  <2> QED
    BY <2>1, <2>2, CountsStay
<1>4. CASE Pass(p)
  <2>1. UNCHANGED <<flipCount, consingDone, copyReady, slaveDone, endReady>>
    BY <1>4 DEF Pass
  <2>2. OthersStay(p) /\ NotPrepare(p) /\ CrossesNone(p)
    BY <1>4 DEF Pass, Following
  <2> QED
    BY <2>1, <2>2, CountsStay
<1>5. CASE Prepare(p)
  <2>1. p = master[round] /\ ~Prepared
    BY <1>5 DEF Prepare, Prepared
  <2>2. \A q \in Procs : ~Past(q, PastSync)
    BY <2>1, AfterSync
  <2>3. Left(PastFlip)' = Procs /\ Left(PastConsed)' = Procs
        /\ Left(PastCopyReady)' = Procs /\ Left(PastMoved)' = Procs
        /\ Left(PastGrabbed)' = Procs
    BY <1>5, <2>2 DEF Prepare, Left
  <2> QED
    BY <1>5, <2>3 DEF Prepare, CountersCount, N
<1>6. CASE Setup(p)
  <2>1. UNCHANGED <<flipCount, consingDone, copyReady, slaveDone, endReady>>
    BY <1>6 DEF Setup
  <2>2. OthersStay(p) /\ NotPrepare(p) /\ CrossesNone(p)
    BY <1>6 DEF Setup
  <2> QED
    BY <2>1, <2>2, CountsStay
<1>7. CASE Flip(p)
  <2>1. /\ ~Past(p, PastFlip) /\ Past(p, PastFlip)'
        /\ Past(p, PastSync) /\ OthersStay(p)
    BY <1>7 DEF Flip
  <2> HIDE DEF Past, OthersStay
  <2>2. Cardinality(Left(PastFlip)') = Cardinality(Left(PastFlip)) - 1
    BY <2>1, LeftLess
  <2> USE DEF Past, OthersStay
  <2>3. /\ Past(p, PastConsed)' <=> Past(p, PastConsed)
        /\ Past(p, PastCopyReady)' <=> Past(p, PastCopyReady)
        /\ Past(p, PastMoved)' <=> Past(p, PastMoved)
        /\ Past(p, PastGrabbed)' <=> Past(p, PastGrabbed)
    BY <1>7 DEF Flip
  <2>4. /\ Left(PastConsed)' = Left(PastConsed)
        /\ Left(PastCopyReady)' = Left(PastCopyReady)
        /\ Left(PastMoved)' = Left(PastMoved)
        /\ Left(PastGrabbed)' = Left(PastGrabbed)
    BY <2>1, <2>3 DEF Left
  <2> HIDE DEF Past, OthersStay
  <2> QED
    BY <1>7, <2>1, <2>2, <2>4 DEF Flip, CountersCount
<1>8. CASE Flipped(p)
  <2>1. UNCHANGED <<flipCount, consingDone, copyReady, slaveDone, endReady>>
    BY <1>8 DEF Flipped
  <2>2. OthersStay(p) /\ NotPrepare(p) /\ CrossesNone(p)
    BY <1>8 DEF Flipped
  <2> QED
    BY <2>1, <2>2, CountsStay
<1>9. CASE Partition(p)
  <2>1. UNCHANGED <<flipCount, consingDone, copyReady, slaveDone, endReady>>
    BY <1>9 DEF Partition
  <2>2. OthersStay(p) /\ NotPrepare(p) /\ CrossesNone(p)
    BY <1>9 DEF Partition, NewHeaplet
  <2> QED
    BY <2>1, <2>2, CountsStay
<1>10. CASE Relocate(p)
  <2>1. UNCHANGED <<flipCount, consingDone, copyReady, slaveDone, endReady>>
    BY <1>10 DEF Relocate
  <2>2. OthersStay(p) /\ NotPrepare(p) /\ CrossesNone(p)
    BY <1>10 DEF Relocate
  <2> QED
    BY <2>1, <2>2, CountsStay
<1>11. CASE Copy(p)
  <2>1. UNCHANGED <<flipCount, consingDone, copyReady, slaveDone, endReady>>
    BY <1>11 DEF Copy
  <2>2. OthersStay(p) /\ NotPrepare(p) /\ CrossesNone(p)
    BY <1>11 DEF Copy
  <2> QED
    BY <2>1, <2>2, CountsStay
<1>12. CASE Overflow(p)
  <2>1. UNCHANGED <<flipCount, consingDone, copyReady, slaveDone, endReady>>
    BY <1>12 DEF Overflow
  <2>2. OthersStay(p) /\ NotPrepare(p) /\ CrossesNone(p)
    BY <1>12 DEF Overflow, NewHeaplet
  <2> QED
    BY <2>1, <2>2, CountsStay
<1>13. CASE ScanEnd(p)
  <2>1. UNCHANGED <<flipCount, consingDone, copyReady, slaveDone, endReady>>
    BY <1>13 DEF ScanEnd
  <2>2. OthersStay(p) /\ NotPrepare(p) /\ CrossesNone(p)
    BY <1>13 DEF ScanEnd
  <2> QED
    BY <2>1, <2>2, CountsStay
<1>14. CASE ScanOwn(p)
  <2>1. UNCHANGED <<flipCount, consingDone, copyReady, slaveDone, endReady>>
    BY <1>14 DEF ScanOwn
  <2>2. OthersStay(p) /\ NotPrepare(p) /\ CrossesNone(p)
    BY <1>14 DEF ScanOwn
  <2> QED
    BY <2>1, <2>2, CountsStay
<1>15. CASE PopHeaplet(p)
  <2>1. UNCHANGED <<flipCount, consingDone, copyReady, slaveDone, endReady>>
    BY <1>15 DEF PopHeaplet
  <2>2. OthersStay(p) /\ NotPrepare(p) /\ CrossesNone(p)
    BY <1>15 DEF PopHeaplet
  <2> QED
    BY <2>1, <2>2, CountsStay
<1>16. CASE PopNothing(p)
  <2>1. UNCHANGED <<flipCount, consingDone, copyReady, slaveDone, endReady>>
    BY <1>16 DEF PopNothing
  <2>2. OthersStay(p) /\ NotPrepare(p) /\ CrossesNone(p)
    BY <1>16 DEF PopNothing
  <2> QED
    BY <2>1, <2>2, CountsStay
<1>17. CASE ConsingDone(p)
  <2>1. /\ ~Past(p, PastConsed) /\ Past(p, PastConsed)'
        /\ Past(p, PastSync) /\ OthersStay(p)
    BY <1>17 DEF ConsingDone
  <2> HIDE DEF Past, OthersStay
  <2>2. Cardinality(Left(PastConsed)') = Cardinality(Left(PastConsed)) - 1
    BY <2>1, LeftLess
  <2> USE DEF Past, OthersStay
  <2>3. /\ Past(p, PastFlip)' <=> Past(p, PastFlip)
        /\ Past(p, PastCopyReady)' <=> Past(p, PastCopyReady)
        /\ Past(p, PastMoved)' <=> Past(p, PastMoved)
        /\ Past(p, PastGrabbed)' <=> Past(p, PastGrabbed)
    BY <1>17 DEF ConsingDone
  <2>4. /\ Left(PastFlip)' = Left(PastFlip)
        /\ Left(PastCopyReady)' = Left(PastCopyReady)
        /\ Left(PastMoved)' = Left(PastMoved)
        /\ Left(PastGrabbed)' = Left(PastGrabbed)
    BY <2>1, <2>3 DEF Left
  <2> HIDE DEF Past, OthersStay
  <2> QED
    BY <1>17, <2>1, <2>2, <2>4 DEF ConsingDone, CountersCount
<1>18. CASE FixWeak(p)
  <2>1. UNCHANGED <<flipCount, consingDone, copyReady, slaveDone, endReady>>
    BY <1>18 DEF FixWeak
  <2>2. OthersStay(p) /\ NotPrepare(p) /\ CrossesNone(p)
    BY <1>18 DEF FixWeak
  <2> QED
    BY <2>1, <2>2, CountsStay
<1>19. CASE CopyReady(p)
  <2>1. /\ ~Past(p, PastCopyReady) /\ Past(p, PastCopyReady)'
        /\ Past(p, PastSync) /\ OthersStay(p)
    BY <1>19 DEF CopyReady
  <2> HIDE DEF Past, OthersStay
  <2>2. Cardinality(Left(PastCopyReady)') = Cardinality(Left(PastCopyReady)) - 1
    BY <2>1, LeftLess
  <2> USE DEF Past, OthersStay
  <2>3. /\ Past(p, PastFlip)' <=> Past(p, PastFlip)
        /\ Past(p, PastConsed)' <=> Past(p, PastConsed)
        /\ Past(p, PastMoved)' <=> Past(p, PastMoved)
        /\ Past(p, PastGrabbed)' <=> Past(p, PastGrabbed)
    BY <1>19 DEF CopyReady
  <2>4. /\ Left(PastFlip)' = Left(PastFlip)
        /\ Left(PastConsed)' = Left(PastConsed)
        /\ Left(PastMoved)' = Left(PastMoved)
        /\ Left(PastGrabbed)' = Left(PastGrabbed)
    BY <2>1, <2>3 DEF Left
  <2> HIDE DEF Past, OthersStay
  <2> QED
    BY <1>19, <2>1, <2>2, <2>4 DEF CopyReady, CountersCount
<1>20. CASE Move(p)
  <2>1. UNCHANGED <<flipCount, consingDone, copyReady, slaveDone, endReady>>
    BY <1>20 DEF Move
  <2>2. OthersStay(p) /\ NotPrepare(p) /\ CrossesNone(p)
    BY <1>20 DEF Move
  <2> QED
    BY <2>1, <2>2, CountsStay
<1>21. CASE SlaveDone(p)
  <2>1. /\ ~Past(p, PastMoved) /\ Past(p, PastMoved)'
        /\ Past(p, PastSync) /\ OthersStay(p)
    BY <1>21 DEF SlaveDone
  <2> HIDE DEF Past, OthersStay
  <2>2. Cardinality(Left(PastMoved)') = Cardinality(Left(PastMoved)) - 1
    BY <2>1, LeftLess
  <2> USE DEF Past, OthersStay
  <2>3. /\ Past(p, PastFlip)' <=> Past(p, PastFlip)
        /\ Past(p, PastConsed)' <=> Past(p, PastConsed)
        /\ Past(p, PastCopyReady)' <=> Past(p, PastCopyReady)
        /\ Past(p, PastGrabbed)' <=> Past(p, PastGrabbed)
    BY <1>21 DEF SlaveDone
  <2>4. /\ Left(PastFlip)' = Left(PastFlip)
        /\ Left(PastConsed)' = Left(PastConsed)
        /\ Left(PastCopyReady)' = Left(PastCopyReady)
        /\ Left(PastGrabbed)' = Left(PastGrabbed)
    BY <2>1, <2>3 DEF Left
  <2> HIDE DEF Past, OthersStay
  <2> QED
    BY <1>21, <2>1, <2>2, <2>4 DEF SlaveDone, CountersCount
<1>22. CASE Grab(p)
  <2>1. UNCHANGED <<flipCount, consingDone, copyReady, slaveDone, endReady>>
    BY <1>22 DEF Grab
  <2>2. OthersStay(p) /\ NotPrepare(p) /\ CrossesNone(p)
    BY <1>22 DEF Grab
  <2> QED
    BY <2>1, <2>2, CountsStay
<1>23. CASE EndReady(p)
  <2>1. /\ ~Past(p, PastGrabbed) /\ Past(p, PastGrabbed)'
        /\ Past(p, PastSync) /\ OthersStay(p)
    BY <1>23 DEF EndReady
  <2> HIDE DEF Past, OthersStay
  <2>2. Cardinality(Left(PastGrabbed)') = Cardinality(Left(PastGrabbed)) - 1
    BY <2>1, LeftLess
  <2> USE DEF Past, OthersStay
  <2>3. /\ Past(p, PastFlip)' <=> Past(p, PastFlip)
        /\ Past(p, PastConsed)' <=> Past(p, PastConsed)
        /\ Past(p, PastCopyReady)' <=> Past(p, PastCopyReady)
        /\ Past(p, PastMoved)' <=> Past(p, PastMoved)
    BY <1>23 DEF EndReady
  <2>4. /\ Left(PastFlip)' = Left(PastFlip)
        /\ Left(PastConsed)' = Left(PastConsed)
        /\ Left(PastCopyReady)' = Left(PastCopyReady)
        /\ Left(PastMoved)' = Left(PastMoved)
    BY <2>1, <2>3 DEF Left
  <2> HIDE DEF Past, OthersStay
  <2> QED
    BY <1>23, <2>1, <2>2, <2>4 DEF EndReady, CountersCount
<1>24. CASE StartDaemons(p)
  <2>1. UNCHANGED <<flipCount, consingDone, copyReady, slaveDone, endReady>>
    BY <1>24 DEF StartDaemons
  <2>2. OthersStay(p) /\ NotPrepare(p) /\ CrossesNone(p)
    BY <1>24 DEF StartDaemons
  <2> QED
    BY <2>1, <2>2, CountsStay
<1>25. CASE FinishMaster(p)
  <2>1. /\ UNCHANGED <<flipCount, consingDone, copyReady, slaveDone, endReady>>
        /\ OthersStay(p) /\ NotPrepare(p) /\ CrossesNone(p)
    BY <1>25 DEF FinishMaster
  <2> QED
    BY <2>1, CountsStay
<1>26. CASE Complete(p)
  <2>1. UNCHANGED <<flipCount, consingDone, copyReady, slaveDone, endReady>>
    BY <1>26 DEF Complete
  <2>2. OthersStay(p) /\ NotPrepare(p) /\ CrossesNone(p)
    BY <1>26 DEF Complete
  <2> QED
    BY <2>1, <2>2, CountsStay
<1>27. CASE VectorOverflow(p)
  <2>1. UNCHANGED <<flipCount, consingDone, copyReady, slaveDone, endReady>>
    BY <1>27 DEF VectorOverflow
  <2>2. OthersStay(p) /\ NotPrepare(p) /\ CrossesNone(p)
    BY <1>27 DEF VectorOverflow
  <2> QED
    BY <2>1, <2>2, CountsStay
<1> QED
  BY <1>1, <1>2, <1>3, <1>4, <1>5, <1>6, <1>7, <1>8, <1>9, <1>10, <1>11,
     <1>12, <1>13, <1>14, <1>15, <1>16, <1>17, <1>18, <1>19, <1>20, <1>21,
     <1>22, <1>23, <1>24, <1>25, <1>26, <1>27 DEF StepOf

\* A counter that is zero has been crossed by everybody.
LEMMA StepGates ==
  ASSUME PhaseInv, NEW p \in Procs, StepOf(p)
  PROVE  GatesHold'
<1>. /\ Past(p, PastSync) => Prepared
     /\ GatesHold
  BY AfterSync DEF PhaseInv
<1>. Prepared => /\ flipCount = 0 => \A q \in Procs : Past(q, PastFlip)
                 /\ copyReady = 0 => \A q \in Procs : Past(q, PastCopyReady)
                 /\ slaveDone = 0 => \A q \in Procs : Past(q, PastMoved)
  BY LeftFinite DEF PhaseInv, CountersCount
<1> USE SizesAssumption
    DEF PhaseInv, PhaseTypes, Rendezvous, OneMaster, GatesHold, IsMaster, Past,
        InRound, Prepared, Barriers, Rounds, Labels, Step, Set, mode, counts,
        PastAfter, PastDaemons, PastSlaves, PastGrabbed, PastMoved, PastMove,
        PastCopyReady, PastWeak, PastConsed, PastScan, PastPartition,
        PastFlipped, PastFlip, PastSetup, PastResources, PastSync, PastPrepare,
        PastStart
<1>1. CASE StartMaster(p)
  BY <1>1 DEF StartMaster
<1>2. CASE StartSlave(p)
  BY <1>2 DEF StartSlave
<1>3. CASE Arrive(p)
  BY <1>3 DEF Arrive
<1>4. CASE Pass(p)
  BY <1>4 DEF Pass, Following
<1>5. CASE Prepare(p)
  BY <1>5 DEF Prepare
<1>6. CASE Setup(p)
  BY <1>6 DEF Setup
<1>7. CASE Flip(p)
  BY <1>7 DEF Flip
<1>8. CASE Flipped(p)
  BY <1>8 DEF Flipped
<1>9. CASE Partition(p)
  BY <1>9 DEF Partition, NewHeaplet
<1>10. CASE Relocate(p)
  BY <1>10 DEF Relocate
<1>11. CASE Copy(p)
  BY <1>11 DEF Copy
<1>12. CASE Overflow(p)
  BY <1>12 DEF Overflow, NewHeaplet
<1>13. CASE ScanEnd(p)
  BY <1>13 DEF ScanEnd
<1>14. CASE ScanOwn(p)
  BY <1>14 DEF ScanOwn
<1>15. CASE PopHeaplet(p)
  BY <1>15 DEF PopHeaplet
<1>16. CASE PopNothing(p)
  BY <1>16 DEF PopNothing
<1>17. CASE ConsingDone(p)
  BY <1>17 DEF ConsingDone
<1>18. CASE FixWeak(p)
  BY <1>18 DEF FixWeak
<1>19. CASE CopyReady(p)
  BY <1>19 DEF CopyReady
<1>20. CASE Move(p)
  BY <1>20 DEF Move
<1>21. CASE SlaveDone(p)
  BY <1>21 DEF SlaveDone
<1>22. CASE Grab(p)
  BY <1>22 DEF Grab
<1>23. CASE EndReady(p)
  BY <1>23 DEF EndReady
<1>24. CASE StartDaemons(p)
  BY <1>24 DEF StartDaemons
<1>25. CASE FinishMaster(p)
  BY <1>25 DEF FinishMaster
<1>26. CASE Complete(p)
  BY <1>26 DEF Complete
<1>27. CASE VectorOverflow(p)
  BY <1>27 DEF VectorOverflow
<1> QED
  BY <1>1, <1>2, <1>3, <1>4, <1>5, <1>6, <1>7, <1>8, <1>9, <1>10, <1>11,
     <1>12, <1>13, <1>14, <1>15, <1>16, <1>17, <1>18, <1>19, <1>20, <1>21,
     <1>22, <1>23, <1>24, <1>25, <1>26, <1>27 DEF StepOf

-----------------------------------------------------------------------------
(* The theorems about the phases *)

\* The phases hold before the first collection.
LEMMA InitPhaseInv == Init => PhaseInv
<1> SUFFICES ASSUME Init PROVE PhaseInv
  OBVIOUS
<1> USE SizesAssumption DEF Init
<1>1. PhaseTypes
  BY DEF PhaseTypes, Labels
<1>2. Rendezvous /\ OneMaster
  BY DEF Rendezvous, OneMaster, InRound
<1>3. BarriersHold
  BY DEF BarriersHold, Rounds
<1>4. CountersCount /\ GatesHold
  BY DEF CountersCount, GatesHold, Prepared, Past, InRound
<1> QED
  BY <1>1, <1>2, <1>3, <1>4 DEF PhaseInv

\* The invariant of the phases is inductive.
LEMMA NextPhaseInv == PhaseInv /\ [Next]_vars => PhaseInv'
<1> SUFFICES ASSUME PhaseInv, [Next]_vars PROVE PhaseInv'
  OBVIOUS
<1>1. CASE UNCHANGED vars
  <2>1. UNCHANGED <<round, master, came, pc, arrived, counts>>
    BY <1>1 DEF vars, mode
  <2>2. PhaseTypes' /\ Rendezvous' /\ OneMaster'
    BY <2>1 DEF PhaseInv, PhaseTypes, Rendezvous, OneMaster, InRound
  <2>3. BarriersHold'
    BY <2>1 DEF PhaseInv, BarriersHold, Past, InRound
  <2>4. CountersCount'
    BY <2>1 DEF PhaseInv, CountersCount, counts, Left, Past, InRound, Prepared
  <2>5. GatesHold'
    <3>1. \A p, q \in Procs :
            /\ Past(p, PastFlipped)' => Past(q, PastFlip)'
            /\ Past(p, PastMove)'    => Past(q, PastCopyReady)'
            /\ Past(p, PastSlaves)'  => Past(q, PastMoved)'
      BY <2>1 DEF PhaseInv, GatesHold, Past, InRound
    <3>2. Prepared' /\ gcComplete' => Past(master[round], PastDaemons)'
      BY <2>1 DEF PhaseInv, GatesHold, counts, Past, InRound, Prepared
    <3> QED
      BY <3>1, <3>2 DEF GatesHold
  <2> QED
    BY <2>2, <2>3, <2>4, <2>5 DEF PhaseInv
<1>2. ASSUME NEW p \in Procs, StepOf(p) PROVE PhaseInv'
  <2>1. PhaseTypes' /\ Rendezvous'
    BY <1>2, StepTypes, StepRendezvous DEF PhaseInv
  <2>2. OneMaster' /\ BarriersHold'
    BY <1>2, StepOneMaster, StepBarriers DEF PhaseInv
  <2>3. CountersCount' /\ GatesHold'
    BY <1>2, StepCounters, StepGates
  <2> QED
    BY <2>1, <2>2, <2>3 DEF PhaseInv
<1> QED
  BY <1>1, <1>2, StepKinds

\* The invariant of the phases holds always.
LEMMA Phases == Spec => []PhaseInv
BY InitPhaseInv, NextPhaseInv, PTL DEF Spec

\* The heap of a processor is moved over the old one only when nobody follows
\* broken hearts there any more: Copy_Ready_Count holds it back until all have
\* fixed their weak pairs.
THEOREM MovesComeLastAlways == Spec => []MovesComeLast
<1>1. PhaseInv => MovesComeLast
  <2> SUFFICES ASSUME PhaseInv, NEW p \in Procs, InRound(p), ~StillMoving(p),
                      NEW q \in Procs
               PROVE  ~StillFixing(q)
    BY DEF MovesComeLast
  <2>1. pc[p] \in PastMove
    BY DEF PhaseInv, PhaseTypes, Labels, Barriers, StillMoving, StillFixing,
           StillConsing, PastMove, PastMoved, PastGrabbed, PastSlaves,
           PastDaemons, PastAfter
  <2>2. Past(q, PastCopyReady)
    BY <2>1 DEF PhaseInv, GatesHold, Past
  <2> QED
    BY <2>2 DEF PhaseInv, PhaseTypes, StillFixing, StillConsing, Past, InRound,
                PastCopyReady, PastMove, PastMoved, PastGrabbed, PastSlaves,
                PastDaemons, PastAfter
<1> QED
  BY <1>1, Phases, PTL

\* The daemons, and then the program, find the heaps of all the processors
\* moved: Slave_Done_Count and GC_Complete hold them back.
THEOREM SchemeSeesTheNewHeapAlways == Spec => []SchemeSeesTheNewHeap
<1>1. PhaseInv => SchemeSeesTheNewHeap
  <2> SUFFICES ASSUME PhaseInv, NEW p \in Procs, InRound(p),
                      pc[p] \in {"daemons", "after", "program"},
                      NEW q \in Procs
               PROVE  ~StillMoving(q)
    BY DEF SchemeSeesTheNewHeap
  <2>1. Past(p, PastSlaves)
    BY DEF Past, PastSlaves, PastDaemons, PastAfter
  <2>2. Past(q, PastMoved)
    BY <2>1 DEF PhaseInv, GatesHold
  <2> QED
    BY <2>2 DEF PhaseInv, PhaseTypes, StillMoving, StillFixing, StillConsing,
                Past, InRound, PastMoved, PastGrabbed, PastSlaves, PastDaemons,
                PastAfter
<1> QED
  BY <1>1, Phases, PTL

===============================================================================
