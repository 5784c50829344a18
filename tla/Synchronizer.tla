----------------------------- MODULE Synchronizer -----------------------------
(***************************************************************************)
(* The rendezvous of the garbage collector and of pause-everything: the    *)
(* cell that make-synchronizer builds, and the AWAIT-SYNCHRONY primitive   *)
(* every processor calls on it (uc/bf-prims.c).                            *)
(*                                                                         *)
(* The cell is one 16-bit word: bit 15 is a spin lock, the other bits      *)
(* count the processors still missing, and the count COMPLETE says the     *)
(* barrier has opened.  Every step below is one access of the cell, or one *)
(* read of the interrupt register, of one processor.                       *)
(***************************************************************************)
EXTENDS Naturals, FiniteSets

CONSTANTS Procs,          \* the processors; N-INTERPRETERS of them
          COMPLETE,       \* all the count bits set: 0x7FFF in the 16-bit cell
          MaxInterrupts   \* how often each is interrupted (bounds the environment)

ASSUME CompleteAssumption == COMPLETE \in Nat

LOCK    == COMPLETE + 1        \* 0x8000
MAXWORD == COMPLETE + LOCK     \* 0xFFFF
WORDS   == 0 .. MAXWORD

N == Cardinality(Procs)

\* The initial count must not look like the COMPLETE flag.
ASSUME ProcsAssumption == /\ IsFiniteSet(Procs)
                          /\ N \in 1 .. COMPLETE - 1

ASSUME InterruptsAssumption == MaxInterrupts \in Nat

VARIABLES cell,      \* the 16-bit word in the cdr of the synchronizer
          pc,        \* what each processor does next
          pending,   \* pending[p]: (IntEnb & IntCode) # 0 on processor p
          raised,    \* how many interrupts p has got so far
          value      \* what AWAIT-SYNCHRONY returned to p

vars == <<cell, pc, pending, raised, value>>

\* Bits of the word, and the atomic instructions of the Butterfly on it.
Locked(w) == w >= LOCK
Count(w)  == IF w >= LOCK THEN w - LOCK ELSE w

AtomDecrement(w) == IF w = 0 THEN MAXWORD ELSE w - 1
AtomIncrement(w) == IF w = MAXWORD THEN 0 ELSE w + 1
AtomLock(w)      == IF w >= LOCK THEN w ELSE w + LOCK
AtomUnlock(w)    == Count(w)

Labels == {"call",          \* about to execute the primitive (again)
           "last",          \* saw 1: spins for the lock
           "open",          \* has the lock on a zero count: store 0xFFFF
           "opened",        \* store 0x7FFF
           "unlockLast",    \* has the lock on another count
           "wait",          \* top of the waiting loop: tests the interrupts
           "poll",          \* tests the count
           "lockInterrupt", \* interrupted: spins for the lock
           "tooLate",       \* has the lock on a COMPLETE count
           "backOut",       \* has the lock, takes its arrival back
           "unlockBackOut", \* has taken its arrival back
           "unlockWait",    \* has the lock on a zero count: must wait
           "interrupt",     \* runs the interrupt handler
           "done"}          \* AWAIT-SYNCHRONY has returned

TypeOK == /\ cell \in WORDS
          /\ pc \in [Procs -> Labels]
          /\ pending \in [Procs -> BOOLEAN]
          /\ raised \in [Procs -> Nat]
          /\ value \in [Procs -> {"none", "TRUTH", "NIL"}]

Init == /\ cell = N
        /\ pc = [p \in Procs |-> "call"]
        /\ pending = [p \in Procs |-> FALSE]
        /\ raised = [p \in Procs |-> 0]
        /\ value = [p \in Procs |-> "none"]

-----------------------------------------------------------------------------

Goto(p, label) == pc' = [pc EXCEPT ![p] = label]

Step(p, from, to) == pc[p] = from /\ Goto(p, to)

Return(p, result) == /\ Goto(p, "done")
                     /\ value' = [value EXCEPT ![p] = result]

\* Mutant of Arrive: the old count is tested as if it were the new one.
ArriveTestsZero(p) ==
    /\ pc[p] = "call"
    /\ cell' = AtomDecrement(cell)
    /\ Goto(p, IF Count(cell) = 0 THEN "last" ELSE "wait")
    /\ UNCHANGED <<pending, raised, value>>

\* old_count = atomadd(count_pointer, -1)
Arrive(p) ==
    /\ pc[p] = "call"
    /\ cell' = AtomDecrement(cell)
    /\ Goto(p, IF Count(cell) = 1 THEN "last" ELSE "wait")
    /\ UNCHANGED <<pending, raised, value>>

\* Mutant of LockLast: the count is not tested again under the lock.
LockLastNoRecheck(p) ==
    /\ pc[p] = "last"
    /\ ~Locked(cell)
    /\ cell' = AtomLock(cell)
    /\ Goto(p, "open")
    /\ UNCHANGED <<pending, raised, value>>

\* Mutant of LockLast: the zero count is tested without waiting for the lock.
LockLastNoSpin(p) ==
    /\ pc[p] = "last"
    /\ cell' = AtomLock(cell)
    /\ Goto(p, IF Count(cell) = 0 THEN "open" ELSE "unlockLast")
    /\ UNCHANGED <<pending, raised, value>>

\* The first spin loop: old_bits = atomior(count_pointer, 0x8000).
LockLast(p) ==
    /\ pc[p] = "last"
    /\ ~Locked(cell)
    /\ cell' = AtomLock(cell)
    /\ Goto(p, IF cell = 0 THEN "open" ELSE "unlockLast")
    /\ UNCHANGED <<pending, raised, value>>

StoreCompleteLocked(p) ==
    /\ Step(p, "open", "opened")
    /\ cell' = MAXWORD
    /\ UNCHANGED <<pending, raised, value>>

StoreComplete(p) ==
    /\ pc[p] = "opened"
    /\ cell' = COMPLETE
    /\ Return(p, "TRUTH")
    /\ UNCHANGED <<pending, raised>>

UnlockLast(p) ==
    /\ Step(p, "unlockLast", "wait")
    /\ cell' = AtomUnlock(cell)
    /\ UNCHANGED <<pending, raised, value>>

\* The waiting loop: first the interrupts, then the count.
TestInterrupts(p) ==
    /\ Step(p, "wait", IF pending[p] THEN "lockInterrupt" ELSE "poll")
    /\ UNCHANGED <<cell, pending, raised, value>>

PollOpen(p) ==
    /\ pc[p] = "poll"
    /\ Count(cell) = COMPLETE
    /\ Return(p, "NIL")
    /\ UNCHANGED <<cell, pending, raised>>

PollClosed(p) ==
    /\ Step(p, "poll", "wait")
    /\ Count(cell) # COMPLETE
    /\ UNCHANGED <<cell, pending, raised, value>>

\* Mutant of LockInterrupt: backs out without owning the lock.
LockInterruptNoSpin(p) ==
    /\ pc[p] = "lockInterrupt"
    /\ cell' = AtomLock(cell)
    /\ Goto(p, IF Count(cell) = COMPLETE THEN "tooLate"
               ELSE IF Count(cell) # 0 THEN "backOut" ELSE "unlockWait")
    /\ UNCHANGED <<pending, raised, value>>

\* Mutant of LockInterrupt: an interrupt that comes too late is still served.
LockInterruptLate(p) ==
    /\ pc[p] = "lockInterrupt"
    /\ ~Locked(cell)
    /\ cell' = AtomLock(cell)
    /\ Goto(p, IF cell # 0 THEN "backOut" ELSE "unlockWait")
    /\ UNCHANGED <<pending, raised, value>>

\* The second spin loop, on the way to the interrupt handler.
LockInterrupt(p) ==
    /\ pc[p] = "lockInterrupt"
    /\ ~Locked(cell)
    /\ cell' = AtomLock(cell)
    /\ Goto(p, IF cell = COMPLETE THEN "tooLate"
               ELSE IF cell # 0 THEN "backOut" ELSE "unlockWait")
    /\ UNCHANGED <<pending, raised, value>>

StoreTooLate(p) ==
    /\ pc[p] = "tooLate"
    /\ cell' = COMPLETE
    /\ Return(p, "NIL")
    /\ UNCHANGED <<pending, raised>>

\* Mutant of BackOut: the arrival is not taken back.
BackOutNoAdd(p) ==
    /\ Step(p, "backOut", "unlockBackOut")
    /\ UNCHANGED <<cell, pending, raised, value>>

\* atomadd(count_pointer, 1)
BackOut(p) ==
    /\ Step(p, "backOut", "unlockBackOut")
    /\ cell' = AtomIncrement(cell)
    /\ UNCHANGED <<pending, raised, value>>

\* atomand(count_pointer, 0x7FFF); Primitive_Interrupt()
UnlockBackOut(p) ==
    /\ Step(p, "unlockBackOut", "interrupt")
    /\ cell' = AtomUnlock(cell)
    /\ UNCHANGED <<pending, raised, value>>

UnlockWait(p) ==
    /\ Step(p, "unlockWait", "poll")
    /\ cell' = AtomUnlock(cell)
    /\ UNCHANGED <<pending, raised, value>>

\* The handler clears the interrupt and returns into the primitive, which
\* starts again from its first line.
Handle(p) ==
    /\ Step(p, "interrupt", "call")
    /\ pending' = [pending EXCEPT ![p] = FALSE]
    /\ UNCHANGED <<cell, raised, value>>

\* The environment: a global interrupt, a timer, a character.
RaiseInterrupt(p) ==
    /\ ~pending[p]
    /\ pc[p] # "done"
    /\ raised[p] < MaxInterrupts
    /\ pending' = [pending EXCEPT ![p] = TRUE]
    /\ raised' = [raised EXCEPT ![p] = @ + 1]
    /\ UNCHANGED <<cell, pc, value>>

Acquire(p) == LockLast(p) \/ LockInterrupt(p)

Proceed(p) == \/ Arrive(p) \/ Acquire(p)
              \/ StoreCompleteLocked(p) \/ StoreComplete(p) \/ UnlockLast(p)
              \/ TestInterrupts(p) \/ PollOpen(p) \/ PollClosed(p)
              \/ StoreTooLate(p) \/ BackOut(p) \/ UnlockBackOut(p)
              \/ UnlockWait(p) \/ Handle(p)

AllDone == \A p \in Procs : pc[p] = "done"

\* Every processor has returned: the synchronizer is garbage.
Finished == AllDone /\ UNCHANGED vars

Next == \/ \E p \in Procs : Proceed(p) \/ RaiseInterrupt(p)
        \/ Finished

Spec == Init /\ [][Next]_vars

\* A processor that can step does; one that spins for the lock bit gets it if
\* it is free again and again (the switch serves the memory requests of the
\* processors in turn).
FairSpec == /\ Spec
            /\ \A p \in Procs : WF_vars(Proceed(p)) /\ SF_vars(Acquire(p))

-----------------------------------------------------------------------------

\* The processors whose arrival is counted in the cell.
Counted(p) == pc[p] \notin {"call", "unlockBackOut", "interrupt"}

Missing == {p \in Procs : ~Counted(p)}

HasLock(p) == pc[p] \in {"open", "opened", "unlockLast", "tooLate", "backOut",
                         "unlockBackOut", "unlockWait"}

IsOpen == Count(cell) = COMPLETE

(***************************************************************************)
(* Nobody proceeds past AWAIT-SYNCHRONY (say, into the flip of the heaps)  *)
(* while a processor has yet to arrive or is serving an interrupt, however *)
(* many of them backed out and came back.                                  *)
(***************************************************************************)
NoEarlyRelease ==
    \A p \in Procs : pc[p] = "done" => \A q \in Procs : Counted(q)

(***************************************************************************)
(* The cell is stored to, not atomically updated, only when no processor   *)
(* is about to add to or subtract from it: the plain stores of 0xFFFF and  *)
(* 0x7FFF lose no arrival and no back-out.                                 *)
(***************************************************************************)
StoresAreSafe ==
    \A p \in Procs : pc[p] \in {"open", "opened", "tooLate"} =>
        \A q \in Procs \ {p} : pc[q] \notin {"call", "backOut", "unlockBackOut",
                                              "interrupt", "open", "opened"}

(***************************************************************************)
(* The comment's claim that the count is the number of missing processors  *)
(* survives every interleaving of arrivals and back-outs.                  *)
(***************************************************************************)
CountIsMissing == ~IsOpen => Count(cell) = Cardinality(Missing)

(***************************************************************************)
(* Bit 15 is a lock and nothing else: it is set exactly while one          *)
(* processor is between its atomior and its unlocking, never by a count    *)
(* that runs below zero or up into it, and a plain store clears it for     *)
(* nobody but who has set it.                                              *)
(***************************************************************************)
LockIsOwned ==
    /\ Locked(cell) <=> \E p \in Procs : HasLock(p)
    /\ \A p, q \in Procs : HasLock(p) /\ HasLock(q) => p = q

(***************************************************************************)
(* Two processors may both see the count 1 (one of them after another      *)
(* backed out); still only one of them is told it opened the barrier.      *)
(***************************************************************************)
OneOpener == \A p, q \in Procs :
    value[p] = "TRUTH" /\ value[q] = "TRUTH" => p = q

(***************************************************************************)
(* Back-out never strands anybody: once the interrupts stop every          *)
(* processor returns, one of them with TRUTH, and the lock is free.        *)
(***************************************************************************)
EveryoneReturns ==
    <>[](AllDone /\ cell = COMPLETE /\ \E p \in Procs : value[p] = "TRUTH")

-----------------------------------------------------------------------------

PlaceOf(p) == IF pc[p] = "done" THEN "through"
              ELSE IF Counted(p) THEN "waiting" ELSE "outside"

B == INSTANCE Barrier WITH place <- [p \in Procs |-> PlaceOf(p)],
                           open <- IsOpen

(***************************************************************************)
(* AWAIT-SYNCHRONY implements the barrier: spins, retries and lock traffic *)
(* are stutters, opening is the single store of 0xFFFF.                    *)
(***************************************************************************)
ImplementsBarrier == B!Spec

=============================================================================
