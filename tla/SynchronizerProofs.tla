--------------------------- MODULE SynchronizerProofs ---------------------------
(***************************************************************************)
(* Proofs about Synchronizer: for any width of the cell, any number of     *)
(* processors its count can hold, and any number of interrupts.            *)
(***************************************************************************)
EXTENDS Synchronizer, FiniteSetTheorems, TLAPS

(***************************************************************************)
(* The inductive invariant.  It splits the life of the cell in two: while  *)
(* it is closed the count is exact and nobody is past the opening store;   *)
(* once it is open everybody is counted and nobody can back out.  The lock *)
(* bit belongs to one processor.                                           *)
(***************************************************************************)
ClosedInv == ~IsOpen =>
    /\ Count(cell) = Cardinality(Missing)
    /\ \A p \in Procs : pc[p] \notin {"opened", "tooLate", "done"}

OpenInv == IsOpen =>
    \A p \in Procs : Counted(p) /\ pc[p] \notin {"open", "backOut"}

OpenerInv == \A p \in Procs : pc[p] = "open" => Count(cell) = 0

LockInv == /\ \A p, q \in Procs : HasLock(p) /\ HasLock(q) => p = q
           /\ \A p \in Procs : HasLock(p) => Locked(cell)
           /\ Locked(cell) => \E p \in Procs : HasLock(p)

ValueInv == /\ \A p \in Procs : value[p] = "TRUTH" => pc[p] = "done"
            /\ \A p, q \in Procs : value[p] = "TRUTH" => pc[q] # "opened"
            /\ OneOpener

Inv == /\ TypeOK /\ ClosedInv /\ OpenInv /\ OpenerInv /\ LockInv /\ ValueInv

-----------------------------------------------------------------------------

\* What the atomic instructions do to the two parts of the word.
LEMMA WordFacts ==
    ASSUME NEW w \in WORDS
    PROVE  /\ Count(w) \in 0 .. COMPLETE
           /\ AtomDecrement(w) \in WORDS
           /\ AtomIncrement(w) \in WORDS
           /\ AtomLock(w) \in WORDS
           /\ AtomUnlock(w) \in WORDS
           /\ Count(w) >= 1 => /\ Count(AtomDecrement(w)) = Count(w) - 1
                               /\ Locked(AtomDecrement(w)) <=> Locked(w)
           /\ Count(w) < COMPLETE => /\ Count(AtomIncrement(w)) = Count(w) + 1
                                     /\ Locked(AtomIncrement(w)) <=> Locked(w)
           /\ Count(AtomLock(w)) = Count(w) /\ Locked(AtomLock(w))
           /\ Count(AtomUnlock(w)) = Count(w) /\ ~Locked(AtomUnlock(w))
           /\ ~Locked(w) => Count(w) = w
  <1> USE CompleteAssumption DEF WORDS, MAXWORD, LOCK, Count, Locked
  <1>2. AtomDecrement(w) \in WORDS /\ AtomIncrement(w) \in WORDS
    BY DEF AtomDecrement, AtomIncrement
  <1>3. AtomLock(w) \in WORDS /\ AtomUnlock(w) \in WORDS
    BY DEF AtomLock, AtomUnlock
  <1>4. Count(w) >= 1 => /\ Count(AtomDecrement(w)) = Count(w) - 1
                         /\ Locked(AtomDecrement(w)) <=> Locked(w)
    BY DEF AtomDecrement
  <1>5. Count(w) < COMPLETE => /\ Count(AtomIncrement(w)) = Count(w) + 1
                               /\ Locked(AtomIncrement(w)) <=> Locked(w)
    BY DEF AtomIncrement
  <1>6. Count(AtomLock(w)) = Count(w) /\ Locked(AtomLock(w))
    BY DEF AtomLock
  <1>7. Count(AtomUnlock(w)) = Count(w) /\ ~Locked(AtomUnlock(w))
    BY DEF AtomUnlock
  <1>8. Count(w) \in 0 .. COMPLETE /\ (~Locked(w) => Count(w) = w)
    OBVIOUS
  <1> HIDE DEF WORDS, MAXWORD, LOCK, Count, Locked
  <1> QED
    BY <1>2, <1>3, <1>4, <1>5, <1>6, <1>7, <1>8

LEMMA MissingFacts ==
    /\ IsFiniteSet(Missing)
    /\ Cardinality(Missing) \in 0 .. N
    /\ Cardinality(Missing) = 0 => Missing = {}
  <1>1. Missing \subseteq Procs
    BY DEF Missing
  <1>2. IsFiniteSet(Missing) /\ Cardinality(Missing) <= N
    BY <1>1, ProcsAssumption, FS_Subset DEF N
  <1>3. Cardinality(Missing) \in Nat
    BY <1>2, FS_CardinalityType
  <1> QED
    BY <1>2, <1>3, FS_EmptySet, ProcsAssumption DEF N

\* The initial count is a proper one: all processors are missing.
LEMMA InitInv == Init => Inv
  <1> SUFFICES ASSUME Init PROVE Inv
    OBVIOUS
  <1>1. N \in 1 .. COMPLETE - 1
    BY ProcsAssumption DEF N
  <1>2. ~Locked(cell) /\ Count(cell) = N /\ cell \in WORDS /\ ~IsOpen
    BY <1>1, CompleteAssumption DEF Init, Locked, Count, LOCK, MAXWORD, WORDS, IsOpen
  <1>3. Missing = Procs
    BY DEF Init, Missing, Counted
  <1>4. TypeOK
    BY <1>2 DEF Init, TypeOK, Labels
  <1> QED
    BY <1>2, <1>3, <1>4
    DEF Init, Inv, ClosedInv, OpenInv, OpenerInv, LockInv, ValueInv, OneOpener,
        HasLock, N

-----------------------------------------------------------------------------

\* A step of p that does not change whether p is counted leaves Missing alone.
LEMMA SameMissing ==
    ASSUME TypeOK, NEW p \in Procs, NEW to \in Labels, Goto(p, to),
           Counted(p) <=> to \notin {"call", "unlockBackOut", "interrupt"}
    PROVE  Missing' = Missing
  BY DEF TypeOK, Goto, Missing, Counted

LEMMA TypeStep ==
    ASSUME TypeOK, NEW p \in Procs, Proceed(p)
    PROVE  TypeOK'
  <1>1. AtomDecrement(cell) \in WORDS /\ AtomIncrement(cell) \in WORDS
    BY WordFacts DEF TypeOK
  <1>2. AtomLock(cell) \in WORDS /\ AtomUnlock(cell) \in WORDS
    BY WordFacts DEF TypeOK
  <1>3. MAXWORD \in WORDS /\ COMPLETE \in WORDS
    BY CompleteAssumption DEF WORDS, MAXWORD, LOCK
  <1> USE DEF TypeOK, Labels, Goto, Step, Return
  <1>4. CASE Arrive(p)
    BY <1>1, <1>4 DEF Arrive
  <1>5. CASE LockLast(p)
    BY <1>2, <1>5 DEF LockLast
  <1>6. CASE StoreCompleteLocked(p)
    BY <1>3, <1>6 DEF StoreCompleteLocked
  <1>7. CASE StoreComplete(p)
    BY <1>3, <1>7 DEF StoreComplete
  <1>8. CASE UnlockLast(p)
    BY <1>2, <1>8 DEF UnlockLast
  <1>9. CASE TestInterrupts(p)
    BY <1>9 DEF TestInterrupts
  <1>10. CASE PollOpen(p)
    BY <1>10 DEF PollOpen
  <1>11. CASE PollClosed(p)
    BY <1>11 DEF PollClosed
  <1>12. CASE LockInterrupt(p)
    BY <1>2, <1>12 DEF LockInterrupt
  <1>13. CASE StoreTooLate(p)
    BY <1>3, <1>13 DEF StoreTooLate
  <1>14. CASE BackOut(p)
    BY <1>1, <1>14 DEF BackOut
  <1>15. CASE UnlockBackOut(p)
    BY <1>2, <1>15 DEF UnlockBackOut
  <1>16. CASE UnlockWait(p)
    BY <1>2, <1>16 DEF UnlockWait
  <1>17. CASE Handle(p)
    BY <1>17 DEF Handle
  <1> QED
    BY <1>4, <1>5, <1>6, <1>7, <1>8, <1>9, <1>10, <1>11, <1>12, <1>13, <1>14,
       <1>15, <1>16, <1>17 DEF Proceed, Acquire

-----------------------------------------------------------------------------

Rest == ClosedInv /\ OpenInv /\ OpenerInv /\ LockInv /\ ValueInv

\* The two steps that change the set of missing processors.
LEMMA ArriveStep ==
    ASSUME Inv, NEW p \in Procs, Arrive(p)
    PROVE  Rest'
  <1>1. pc[p] = "call" /\ ~Counted(p) /\ ~IsOpen /\ p \in Missing
    BY DEF Arrive, Counted, Inv, OpenInv, Missing
  <1>2. Missing' = Missing \ {p}
    BY DEF Arrive, Goto, Missing, Counted, Inv, TypeOK
  <1>3. Cardinality(Missing') = Cardinality(Missing) - 1
    BY <1>1, <1>2, MissingFacts, FS_RemoveElement
  <1>4. Count(cell) = Cardinality(Missing) /\ Count(cell) \in 1 .. N
    BY <1>1, <1>3, MissingFacts, FS_RemoveElement, FS_EmptySet
    DEF Inv, ClosedInv
  <1>5. /\ Count(cell') = Count(cell) - 1
        /\ Locked(cell') <=> Locked(cell)
    BY <1>4, WordFacts DEF Arrive, Inv, TypeOK
  <1>6. ~IsOpen'
    BY <1>4, <1>5, ProcsAssumption, CompleteAssumption DEF IsOpen
  <1>7. \A q \in Procs : /\ pc'[q] = pc[q] \/ (q = p /\ pc'[q] \in {"last", "wait"})
                         /\ HasLock(q)' <=> HasLock(q)
    BY DEF Arrive, Goto, HasLock, Inv, TypeOK
  <1>8. \A q \in Procs : pc[q] # "open"
    BY <1>4 DEF Inv, OpenerInv
  <1>9. ClosedInv' /\ OpenInv'
    BY <1>1, <1>3, <1>4, <1>5, <1>6, <1>7 DEF Inv, ClosedInv, OpenInv
  <1>10. OpenerInv' /\ LockInv'
    BY <1>5, <1>7, <1>8 DEF Inv, OpenerInv, LockInv
  <1>11. ValueInv'
    BY <1>1, <1>7 DEF Inv, ValueInv, OneOpener, Arrive
  <1> QED
    BY <1>9, <1>10, <1>11 DEF Rest

LEMMA BackOutStep ==
    ASSUME Inv, NEW p \in Procs, BackOut(p)
    PROVE  Rest'
  <1>1. pc[p] = "backOut" /\ Counted(p) /\ ~IsOpen /\ HasLock(p)
    BY DEF BackOut, Step, Counted, HasLock, Inv, OpenInv
  <1>2. Missing' = Missing \cup {p} /\ p \notin Missing
    BY <1>1 DEF BackOut, Step, Goto, Missing, Counted, Inv, TypeOK
  <1>3. Cardinality(Missing') = Cardinality(Missing) + 1
    BY <1>2, MissingFacts, FS_AddElement
  <1>4. Missing' \subseteq Procs
    BY DEF Missing
  <1>5. Cardinality(Missing') <= N
    BY <1>4, ProcsAssumption, FS_Subset DEF N
  <1>6. Count(cell) = Cardinality(Missing) /\ Count(cell) \in 0 .. N - 1
    BY <1>1, <1>3, <1>5, MissingFacts, ProcsAssumption, CompleteAssumption
    DEF Inv, ClosedInv
  <1>7. /\ Count(cell') = Count(cell) + 1
        /\ Locked(cell') <=> Locked(cell)
    BY <1>6, WordFacts, ProcsAssumption, CompleteAssumption
    DEF BackOut, Inv, TypeOK
  <1>8. ~IsOpen'
    BY <1>6, <1>7, ProcsAssumption, CompleteAssumption DEF IsOpen
  <1>9. \A q \in Procs : /\ q # p => pc'[q] = pc[q]
                         /\ pc'[p] = "unlockBackOut"
                         /\ HasLock(q)' <=> HasLock(q)
    BY DEF BackOut, Step, Goto, HasLock, Inv, TypeOK
  <1>10. \A q \in Procs : pc[q] # "open"
    BY <1>1 DEF Inv, LockInv, HasLock
  <1>11. ClosedInv' /\ OpenInv'
    BY <1>1, <1>3, <1>6, <1>7, <1>8, <1>9 DEF Inv, ClosedInv, OpenInv
  <1>12. OpenerInv' /\ LockInv'
    BY <1>7, <1>9, <1>10 DEF Inv, OpenerInv, LockInv
  <1>13. ValueInv'
    BY <1>1, <1>9 DEF Inv, ValueInv, OneOpener, BackOut
  <1> QED
    BY <1>11, <1>12, <1>13 DEF Rest

\* The steps that take the lock.
LEMMA AcquireStep ==
    ASSUME Inv, NEW p \in Procs, Acquire(p)
    PROVE  Rest'
  <1>1. ~Locked(cell) /\ Count(cell) = cell /\ cell' = AtomLock(cell)
    BY WordFacts DEF Acquire, LockLast, LockInterrupt, Inv, TypeOK
  <1>2. Count(cell') = Count(cell) /\ Locked(cell')
    BY <1>1, WordFacts DEF Inv, TypeOK
  <1>3. IsOpen' <=> IsOpen
    BY <1>2 DEF IsOpen
  <1>4. \A q \in Procs : ~HasLock(q)
    BY <1>1 DEF Inv, LockInv
  <1>5. PICK to \in {"open", "unlockLast", "tooLate", "unlockWait", "backOut"} :
            /\ pc' = [pc EXCEPT ![p] = to]
            /\ to = "open" => Count(cell) = 0
            /\ to = "tooLate" <=> Count(cell) = COMPLETE /\ pc[p] = "lockInterrupt"
            /\ to = "backOut" => Count(cell) # COMPLETE
    <2>1. CASE LockLast(p) /\ cell = 0
      BY <1>1, <2>1 DEF LockLast, Goto
    <2>2. CASE LockLast(p) /\ cell # 0
      BY <1>1, <2>2 DEF LockLast, Goto
    <2>3. CASE LockInterrupt(p) /\ cell = COMPLETE
      <3>1. pc' = [pc EXCEPT ![p] = "tooLate"]
        BY <2>3 DEF LockInterrupt, Goto
      <3> QED
        BY <1>1, <2>3, <3>1 DEF LockInterrupt
    <2>4. CASE LockInterrupt(p) /\ cell # COMPLETE /\ cell = 0
      <3>1. pc' = [pc EXCEPT ![p] = "unlockWait"]
        BY <2>4 DEF LockInterrupt, Goto
      <3> QED
        BY <1>1, <2>4, <3>1 DEF LockInterrupt
    <2>5. CASE LockInterrupt(p) /\ cell # COMPLETE /\ cell # 0
      <3>1. pc' = [pc EXCEPT ![p] = "backOut"]
        BY <2>5 DEF LockInterrupt, Goto
      <3> QED
        BY <1>1, <2>5, <3>1 DEF LockInterrupt
    <2> QED
      BY <2>1, <2>2, <2>3, <2>4, <2>5 DEF Acquire
  <1>6. Counted(p) /\ Counted(p)' /\ pc[p] \notin {"opened", "tooLate", "done"}
    BY <1>5 DEF Acquire, LockLast, LockInterrupt, Counted, Inv, TypeOK
  <1>7. Missing' = Missing
    BY <1>5, <1>6 DEF Missing, Counted, Inv, TypeOK
  <1>8. \A q \in Procs : IF q = p THEN pc'[q] = to ELSE pc'[q] = pc[q]
    BY <1>5 DEF Inv, TypeOK
  <1>9. COMPLETE # 0
    BY ProcsAssumption, CompleteAssumption
  <1>10. ClosedInv'
    BY <1>2, <1>3, <1>5, <1>7, <1>8 DEF Inv, ClosedInv, IsOpen
  <1>11. OpenInv'
    BY <1>3, <1>5, <1>6, <1>8, <1>9 DEF Inv, OpenInv, IsOpen, Counted
  <1>12. OpenerInv'
    BY <1>2, <1>5, <1>8 DEF Inv, OpenerInv
  <1>13. LockInv'
    BY <1>2, <1>4, <1>8 DEF LockInv, HasLock
  <1>14. ValueInv'
    BY <1>5, <1>6, <1>8 DEF Inv, ValueInv, OneOpener, Acquire, LockLast,
                            LockInterrupt
  <1> QED
    BY <1>10, <1>11, <1>12, <1>13, <1>14 DEF Rest

\* The store of 0xFFFF, which opens the barrier.
LEMMA OpenStep ==
    ASSUME Inv, NEW p \in Procs, StoreCompleteLocked(p)
    PROVE  Rest'
  <1>1. pc[p] = "open" /\ HasLock(p) /\ Count(cell) = 0
    BY DEF StoreCompleteLocked, Step, HasLock, Inv, OpenerInv
  <1>2. ~IsOpen
    BY <1>1, ProcsAssumption, CompleteAssumption DEF IsOpen
  <1>3. Missing = {}
    BY <1>1, <1>2, MissingFacts DEF Inv, ClosedInv
  <1>4. Count(cell') = COMPLETE /\ Locked(cell') /\ IsOpen'
    BY CompleteAssumption
    DEF StoreCompleteLocked, Count, Locked, MAXWORD, LOCK, IsOpen
  <1>5. \A q \in Procs : IF q = p THEN pc'[q] = "opened"
                         ELSE pc'[q] = pc[q] /\ ~HasLock(q)
    BY <1>1 DEF StoreCompleteLocked, Step, Goto, Inv, TypeOK, LockInv
  <1>6. \A q \in Procs : Counted(q) /\ pc[q] # "done"
    BY <1>2, <1>3 DEF Missing, Inv, ClosedInv
  <1>7. ClosedInv' /\ OpenInv'
    BY <1>4, <1>5, <1>6 DEF ClosedInv, OpenInv, Counted, HasLock
  <1>8. OpenerInv' /\ LockInv'
    BY <1>4, <1>5 DEF OpenerInv, LockInv, HasLock
  <1>9. ValueInv'
    BY <1>5, <1>6 DEF Inv, ValueInv, OneOpener, StoreCompleteLocked
  <1> QED
    BY <1>7, <1>8, <1>9 DEF Rest

\* The steps that give up the lock, and keep the count and who is counted.
LEMMA ReleaseStep ==
    ASSUME Inv, NEW p \in Procs,
           \/ StoreComplete(p) \/ UnlockLast(p) \/ StoreTooLate(p)
           \/ UnlockBackOut(p) \/ UnlockWait(p)
    PROVE  Rest'
  <1>1. HasLock(p) /\ pc[p] \notin {"open", "backOut"}
    BY DEF StoreComplete, UnlockLast, StoreTooLate, UnlockBackOut, UnlockWait,
           Step, HasLock
  <1>2. PICK to \in {"wait", "interrupt", "poll", "done"} :
            /\ pc' = [pc EXCEPT ![p] = to]
            /\ to = "interrupt" <=> pc[p] = "unlockBackOut"
            /\ to = "done" <=> pc[p] \in {"opened", "tooLate"}
    BY DEF StoreComplete, UnlockLast, StoreTooLate, UnlockBackOut, UnlockWait,
           Step, Goto, Return
  <1>3. pc[p] \in {"opened", "tooLate"} => IsOpen
    BY DEF Inv, ClosedInv
  <1>4. /\ Count(cell') = Count(cell)
        /\ ~Locked(cell')
        /\ IsOpen' <=> IsOpen
    <2>1. Count(COMPLETE) = COMPLETE /\ ~Locked(COMPLETE)
      BY CompleteAssumption DEF Count, Locked, LOCK
    <2>2. CASE StoreComplete(p) \/ StoreTooLate(p)
      BY <1>3, <2>1, <2>2 DEF StoreComplete, StoreTooLate, IsOpen
    <2>3. CASE ~(StoreComplete(p) \/ StoreTooLate(p))
      BY <2>3, WordFacts DEF UnlockLast, UnlockBackOut, UnlockWait, Inv, TypeOK,
                             IsOpen
    <2> QED
      BY <2>2, <2>3
  <1>5. \A q \in Procs : IF q = p THEN pc'[q] = to
                         ELSE pc'[q] = pc[q] /\ ~HasLock(q)
    BY <1>1, <1>2 DEF Inv, TypeOK, LockInv
  <1>6. /\ Missing' = Missing
        /\ \A q \in Procs : Counted(q)' <=> Counted(q)
    BY <1>1, <1>2, <1>5 DEF Missing, Counted, HasLock
  <1>7. ClosedInv' /\ OpenInv'
    BY <1>1, <1>2, <1>3, <1>4, <1>5, <1>6 DEF Inv, ClosedInv, OpenInv
  <1>8. OpenerInv' /\ LockInv'
    BY <1>2, <1>4, <1>5 DEF Inv, OpenerInv, LockInv, HasLock
  <1>9. ValueInv'
    <2>1. CASE StoreComplete(p)
      <3>1. pc[p] = "opened" /\ to = "done"
        BY <1>2, <2>1 DEF StoreComplete
      <3>2. \A q \in Procs : value[q] # "TRUTH"
        BY <3>1 DEF Inv, ValueInv
      <3>3. \A q \in Procs : value'[q] = "TRUTH" <=> q = p
        BY <2>1, <3>2 DEF StoreComplete, Return, Inv, TypeOK
      <3>4. \A q \in Procs : pc'[q] # "opened"
        BY <1>2, <1>5 DEF HasLock
      <3> QED
        BY <1>5, <3>1, <3>3, <3>4 DEF ValueInv, OneOpener
    <2>2. CASE ~StoreComplete(p)
      <3>1. \A q \in Procs : value'[q] = "TRUTH" => q # p /\ value[q] = "TRUTH"
        BY <1>1, <2>2 DEF UnlockLast, StoreTooLate, UnlockBackOut, UnlockWait,
                          Step, Return, Inv, TypeOK, ValueInv
      <3> QED
        BY <1>2, <1>5, <3>1 DEF Inv, ValueInv, OneOpener
    <2> QED
      BY <2>1, <2>2
  <1> QED
    BY <1>7, <1>8, <1>9 DEF Rest

\* The steps that only read the cell, and the interrupt handler.
LEMMA ReadStep ==
    ASSUME Inv, NEW p \in Procs,
           TestInterrupts(p) \/ PollOpen(p) \/ PollClosed(p) \/ Handle(p)
    PROVE  Rest'
  <1>1. cell' = cell /\ (IsOpen' <=> IsOpen)
    BY DEF TestInterrupts, PollOpen, PollClosed, Handle, IsOpen
  <1>2. PICK to \in {"lockInterrupt", "poll", "done", "wait", "call"} :
            /\ pc' = [pc EXCEPT ![p] = to]
            /\ to = "done" => IsOpen
            /\ to = "call" <=> pc[p] = "interrupt"
            /\ pc[p] \in {"wait", "poll", "interrupt"}
    BY DEF TestInterrupts, PollOpen, PollClosed, Handle, Step, Goto, Return,
           IsOpen
  <1>3. \A q \in Procs : IF q = p THEN pc'[q] = to ELSE pc'[q] = pc[q]
    BY <1>2 DEF Inv, TypeOK
  <1>4. /\ Missing' = Missing
        /\ \A q \in Procs : Counted(q)' <=> Counted(q)
        /\ \A q \in Procs : HasLock(q)' <=> HasLock(q)
    BY <1>2, <1>3 DEF Missing, Counted, HasLock
  <1>5. ClosedInv' /\ OpenInv'
    BY <1>1, <1>2, <1>3, <1>4 DEF Inv, ClosedInv, OpenInv
  <1>6. OpenerInv' /\ LockInv'
    BY <1>1, <1>2, <1>3, <1>4 DEF Inv, OpenerInv, LockInv
  <1>7. \A q \in Procs : value'[q] = "TRUTH" => q # p /\ value[q] = "TRUTH"
    BY <1>2 DEF TestInterrupts, PollOpen, PollClosed, Handle, Return, Inv,
                TypeOK, ValueInv
  <1>8. ValueInv'
    BY <1>2, <1>3, <1>7 DEF Inv, ValueInv, OneOpener
  <1> QED
    BY <1>5, <1>6, <1>8 DEF Rest

-----------------------------------------------------------------------------

\* The environment, and a machine that has finished.
LEMMA OtherStep ==
    ASSUME Inv, \/ \E p \in Procs : RaiseInterrupt(p)
                \/ UNCHANGED vars
    PROVE  Inv'
  <1>1. /\ cell' = cell /\ pc' = pc /\ value' = value
        /\ pending' \in [Procs -> BOOLEAN] /\ raised' \in [Procs -> Nat]
    <2>1. CASE \E p \in Procs : RaiseInterrupt(p)
      BY <2>1 DEF Inv, TypeOK, RaiseInterrupt
    <2>2. CASE UNCHANGED vars
      BY <2>2 DEF Inv, TypeOK, vars
    <2> QED
      BY <2>1, <2>2
  <1> QED
    BY <1>1 DEF Inv, TypeOK, ClosedInv, OpenInv, OpenerInv, LockInv, ValueInv,
                OneOpener, IsOpen, Missing, Counted, HasLock

THEOREM StepInv == Inv /\ [Next]_vars => Inv'
  <1> SUFFICES ASSUME Inv, [Next]_vars PROVE Inv'
    OBVIOUS
  <1>1. ASSUME NEW p \in Procs, Proceed(p) PROVE Inv'
    <2>1. TypeOK'
      BY <1>1, TypeStep DEF Inv
    <2>2. Rest'
      BY <1>1, ArriveStep, AcquireStep, OpenStep, ReleaseStep, ReadStep,
         BackOutStep DEF Proceed
    <2> QED
      BY <2>1, <2>2 DEF Inv, Rest
  <1>2. CASE UNCHANGED vars
    BY <1>2, OtherStep
  <1> QED
    BY <1>1, <1>2, OtherStep DEF Next, Finished

-----------------------------------------------------------------------------

(***************************************************************************)
(* The invariant holds throughout, whatever the interrupts do.             *)
(***************************************************************************)
THEOREM Invariance == Spec => []Inv
  BY InitInv, StepInv, PTL DEF Spec

(***************************************************************************)
(* The cell is a word and every processor is at a line of the primitive.   *)
(***************************************************************************)
THEOREM TypeCorrect == Spec => []TypeOK
  <1>1. Inv => TypeOK
    BY DEF Inv
  <1> QED
    BY <1>1, Invariance, PTL

(***************************************************************************)
(* No processor gets past the synchronizer before all have arrived.        *)
(***************************************************************************)
THEOREM NoEarlyReleaseHolds == Spec => []NoEarlyRelease
  <1>1. Inv => NoEarlyRelease
    BY DEF Inv, ClosedInv, OpenInv, NoEarlyRelease
  <1> QED
    BY <1>1, Invariance, PTL

(***************************************************************************)
(* No plain store of the cell runs against an atomic update of it.         *)
(***************************************************************************)
THEOREM StoresAreSafeHolds == Spec => []StoresAreSafe
  <1>1. ASSUME Inv PROVE StoresAreSafe
    <2> SUFFICES ASSUME NEW p \in Procs, pc[p] \in {"open", "opened", "tooLate"},
                        NEW q \in Procs \ {p}
                 PROVE  Counted(q) /\ ~HasLock(q)
      BY DEF StoresAreSafe, Counted, HasLock
    <2>1. ~HasLock(q)
      BY <1>1 DEF Inv, LockInv, HasLock
    <2>2. CASE IsOpen
      BY <1>1, <2>1, <2>2 DEF Inv, OpenInv
    <2>3. CASE ~IsOpen
      <3>1. pc[p] = "open" /\ Count(cell) = 0
        BY <1>1, <2>3 DEF Inv, ClosedInv, OpenerInv
      <3>2. Missing = {}
        BY <1>1, <2>3, <3>1, MissingFacts DEF Inv, ClosedInv
      <3> QED
        BY <2>1, <3>2 DEF Missing
    <2> QED
      BY <2>1, <2>2, <2>3
  <1> QED
    BY <1>1, Invariance, PTL

(***************************************************************************)
(* The count of a closed cell is the number of missing processors.         *)
(***************************************************************************)
THEOREM CountIsMissingHolds == Spec => []CountIsMissing
  <1>1. Inv => CountIsMissing
    BY DEF Inv, ClosedInv, CountIsMissing
  <1> QED
    BY <1>1, Invariance, PTL

(***************************************************************************)
(* The lock bit is set exactly while one processor owns the lock: however  *)
(* many arrive and back out, the count never runs into the lock.           *)
(***************************************************************************)
THEOREM LockIsOwnedAlways == Spec => []LockIsOwned
  <1>1. Inv => LockIsOwned
    BY DEF Inv, LockInv, LockIsOwned
  <1> QED
    BY <1>1, Invariance, PTL

(***************************************************************************)
(* Only one processor is told that it opened the barrier.                  *)
(***************************************************************************)
THEOREM OneOpenerHolds == Spec => []OneOpener
  <1>1. Inv => OneOpener
    BY DEF Inv, ValueInv
  <1> QED
    BY <1>1, Invariance, PTL

-----------------------------------------------------------------------------

Map == [p \in Procs |-> PlaceOf(p)]

\* A step of p that is not one of the four the barrier sees: no place changes.
LEMMA QuietStep ==
    ASSUME Inv, NEW p \in Procs, NEW to \in Labels, Goto(p, to),
           PlaceOf(p) = (IF to = "done" THEN "through"
                         ELSE IF to \in {"call", "unlockBackOut", "interrupt"}
                              THEN "outside" ELSE "waiting")
    PROVE  Map' = Map
  BY DEF Inv, TypeOK, Goto, Map, PlaceOf, Counted

LEMMA BarrierStep ==
    ASSUME Inv, Inv', NEW p \in Procs, Proceed(p)
    PROVE  [B!Next]_(B!vars)
  <1> USE DEF Inv, TypeOK
  <1>1. CASE Arrive(p)
    <2>1. pc[p] = "call" /\ ~IsOpen
      BY <1>1 DEF Arrive, OpenInv, Counted
    <2>2. pc' = [pc EXCEPT ![p] = pc'[p]] /\ pc'[p] \in {"last", "wait"}
      BY <1>1 DEF Arrive, Goto
    <2>3. Map' = [Map EXCEPT ![p] = "waiting"] /\ Map[p] = "outside"
      BY <2>1, <2>2 DEF Map, PlaceOf, Counted
    <2>4. ~IsOpen'
      <3>1. Count(cell) = Cardinality(Missing) /\ p \in Missing
        BY <2>1 DEF ClosedInv, Missing, Counted
      <3>2. Count(cell) \in 1 .. N
        BY <3>1, MissingFacts, ProcsAssumption, CompleteAssumption
      <3>3. Count(cell') = Count(cell) - 1
        BY <1>1, <3>2, WordFacts DEF Arrive
      <3> QED
        BY <3>2, <3>3, ProcsAssumption, CompleteAssumption DEF IsOpen
    <2>5. IsOpen' = IsOpen
      BY <2>1, <2>4 DEF IsOpen
    <2> QED
      BY <2>1, <2>3, <2>5 DEF B!Next, B!Enter, Map
  <1>2. CASE BackOut(p)
    <2>1. pc[p] = "backOut" /\ ~IsOpen /\ pc' = [pc EXCEPT ![p] = "unlockBackOut"]
      BY <1>2 DEF BackOut, Step, Goto, OpenInv
    <2>2. ~IsOpen'
      BY <2>1 DEF OpenInv, Counted
    <2>3. Map' = [Map EXCEPT ![p] = "outside"] /\ Map[p] = "waiting"
      BY <2>1 DEF Map, PlaceOf, Counted
    <2>4. IsOpen' = IsOpen
      BY <2>1, <2>2 DEF IsOpen
    <2> QED
      BY <2>1, <2>3, <2>4 DEF B!Next, B!BackOut, Map
  <1>3. CASE StoreCompleteLocked(p)
    <2>1. pc[p] = "open" /\ pc' = [pc EXCEPT ![p] = "opened"] /\ Count(cell) = 0
      BY <1>3 DEF StoreCompleteLocked, Step, Goto, OpenerInv
    <2>2. ~IsOpen /\ IsOpen'
      BY <1>3, <2>1, ProcsAssumption, CompleteAssumption
      DEF IsOpen, StoreCompleteLocked, Count, MAXWORD, LOCK
    <2>3. Missing = {}
      BY <2>1, <2>2, MissingFacts DEF ClosedInv
    <2>4. \A q \in Procs : Map[q] = "waiting"
      BY <2>2, <2>3 DEF ClosedInv, Missing, Map, PlaceOf
    <2>5. Map' = Map
      BY <2>1 DEF Map, PlaceOf, Counted
    <2> QED
      BY <2>2, <2>4, <2>5 DEF B!Next, B!Open, Map
  <1>4. CASE StoreComplete(p) \/ StoreTooLate(p) \/ PollOpen(p)
    <2>1. /\ pc[p] \in {"opened", "tooLate", "poll"}
          /\ pc' = [pc EXCEPT ![p] = "done"]
      BY <1>4 DEF StoreComplete, StoreTooLate, PollOpen, Return, Goto
    <2>2. IsOpen /\ IsOpen'
      BY <1>4, <2>1 DEF PollOpen, IsOpen, ClosedInv, StoreComplete, StoreTooLate
    <2>3. Map' = [Map EXCEPT ![p] = "through"] /\ Map[p] = "waiting"
      BY <2>1 DEF Map, PlaceOf, Counted
    <2> QED
      BY <2>2, <2>3 DEF B!Next, B!Pass, Map
  <1>5. CASE Acquire(p) \/ UnlockLast(p) \/ UnlockBackOut(p) \/ UnlockWait(p)
    <2>1. IsOpen' <=> IsOpen
      BY <1>5, WordFacts DEF Acquire, LockLast, LockInterrupt, UnlockLast,
                             UnlockBackOut, UnlockWait, IsOpen
    <2>2. pc' = [pc EXCEPT ![p] = pc'[p]] /\ pc'[p] \in Labels
      BY <1>5 DEF Acquire, LockLast, LockInterrupt, UnlockLast, UnlockBackOut,
                  UnlockWait, Step, Goto
    <2>3. \/ /\ pc[p] \in {"last", "lockInterrupt", "unlockLast", "unlockWait"}
             /\ pc'[p] \in {"open", "unlockLast", "tooLate", "backOut",
                            "unlockWait", "wait", "poll"}
          \/ pc[p] = "unlockBackOut" /\ pc'[p] = "interrupt"
      BY <1>5 DEF Acquire, LockLast, LockInterrupt, UnlockLast, UnlockBackOut,
                  UnlockWait, Step, Goto
    <2>4. Map' = Map
      BY <2>2, <2>3, QuietStep DEF Goto, PlaceOf, Counted
    <2> QED
      BY <2>1, <2>4 DEF B!vars, Map
  <1>6. CASE TestInterrupts(p) \/ PollClosed(p) \/ Handle(p)
    <2>1. cell' = cell /\ (IsOpen' <=> IsOpen)
      BY <1>6 DEF TestInterrupts, PollClosed, Handle, IsOpen
    <2>2. pc' = [pc EXCEPT ![p] = pc'[p]] /\ pc'[p] \in Labels
      BY <1>6 DEF TestInterrupts, PollClosed, Handle, Step, Goto
    <2>3. \/ /\ pc[p] \in {"wait", "poll"}
             /\ pc'[p] \in {"lockInterrupt", "poll", "wait"}
          \/ pc[p] = "interrupt" /\ pc'[p] = "call"
      BY <1>6 DEF TestInterrupts, PollClosed, Handle, Step, Goto
    <2>4. Map' = Map
      BY <2>2, <2>3, QuietStep DEF Goto, PlaceOf, Counted
    <2> QED
      BY <2>1, <2>4 DEF B!vars, Map
  <1> QED
    BY <1>1, <1>2, <1>3, <1>4, <1>5, <1>6 DEF Proceed

(***************************************************************************)
(* AWAIT-SYNCHRONY implements the barrier.                                 *)
(***************************************************************************)
THEOREM BarrierImplemented == Spec => ImplementsBarrier
  <1>1. Init => B!Init
    <2> SUFFICES ASSUME Init PROVE B!Init
      OBVIOUS
    <2>1. ~IsOpen
      BY ProcsAssumption, CompleteAssumption DEF Init, IsOpen, Count, LOCK
    <2>2. \A p \in Procs : PlaceOf(p) = "outside"
      BY DEF Init, PlaceOf, Counted
    <2> QED
      BY <2>1, <2>2 DEF B!Init
  <1>2. Inv /\ Inv' /\ [Next]_vars => [B!Next]_(B!vars)
    <2> SUFFICES ASSUME Inv, Inv', [Next]_vars PROVE [B!Next]_(B!vars)
      OBVIOUS
    <2>1. CASE \E p \in Procs : Proceed(p)
      BY <2>1, BarrierStep
    <2>2. CASE (\E p \in Procs : RaiseInterrupt(p)) \/ UNCHANGED vars
      <3>1. pc' = pc /\ cell' = cell
        BY <2>2 DEF RaiseInterrupt, vars
      <3> QED
        BY <3>1 DEF B!vars, PlaceOf, Counted, IsOpen
    <2> QED
      BY <2>1, <2>2 DEF Next, Finished
  <1> QED
    BY <1>1, <1>2, Invariance, PTL DEF Spec, B!Spec, ImplementsBarrier

=============================================================================
