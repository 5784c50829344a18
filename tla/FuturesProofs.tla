----------------------------- MODULE FuturesProofs -----------------------------
(***************************************************************************)
(* What is proved of the futures for every number of processors, every     *)
(* set of futures and every program.                                       *)
(*                                                                         *)
(* The locks come first: who holds the lock of a future is read off the    *)
(* places of the processors.  Then the token of a task: at any time at     *)
(* most one entry of the work queue or one processor carries a task, and   *)
(* none does while the task is UNBORN, DELAYED or WAITING.  Everything     *)
(* about the scheduler follows from where the token may go.                *)
(***************************************************************************)
EXTENDS Futures, TLAPS, FiniteSetTheorems

-----------------------------------------------------------------------------
(* Types *)

\* Where a processor has no task, and where the other registers are in use.
Idling == {"getWork", "runLock", "runSet", "preemptSetRunnable", "preemptPut"}

Awaiting == {"awaitLock", "awaitTest", "awaitSetRunnable", "awaitPut",
             "awaitLockSelf", "awaitSave", "awaitUnlock"}

Waking == {"wakeMark", "wakeSetRunnable", "wakePut"}

WithArg == {"runLock", "runSet", "spawnPut", "detLock", "detTest", "detStatus",
            "detFlag", "wakeLock", "preemptSetRunnable", "preemptPut"}
           \cup Awaiting \cup Waking

Places == \A p \in Procs :
    /\ IF pc[p] \in Idling THEN current[p] = None ELSE current[p] \in F
    /\ pc[p] \in WithArg => arg[p] \in F
    /\ pc[p] \in Waking => list[p] # << >>
    /\ pc[p] \in Awaiting => arg[p] # current[p]

Typed == TypeOK /\ Places

-----------------------------------------------------------------------------
(* Locks *)

\* LocksExclude without counting.
HeldByOne == \A f \in F :
    /\ lock[f] <=> \E p \in Procs : Holds(p, f)
    /\ \A p, q \in Procs : Holds(p, f) /\ Holds(q, f) => p = q

-----------------------------------------------------------------------------
(* The token of a task *)

\* p is about to make an entry of the work queue for f, or has just got one.
Ticket(p, f) ==
    \/ pc[p] \in {"spawnPut", "awaitPut", "preemptPut", "runLock", "runSet"}
          /\ arg[p] = f
    \/ pc[p] \in {"wakeSetRunnable", "wakePut"} /\ Head(list[p]) = f
    \/ pc[p] = "yieldPut" /\ current[p] = f

\* It is up to p alone to go on with f: p has a ticket for it, runs it, or has
\* saved it in order to put it back on the queue.
Carries(p, f) ==
    \/ Ticket(p, f)
    \/ pc[p] = "preemptSetRunnable" /\ arg[p] = f
    \/ current[p] = f /\ pc[p] \notin {"awaitUnlock", "leave", "yieldUnlock"}

\* A task that somebody else may start or wake.
AtRest == {"UNBORN", "DELAYED", "WAITING"}

\* The token of f is its entry on the work queue or the processor that carries
\* it; there is at most one, and none while f is at rest.
OneToken == \A f \in F :
    /\ \A p, q \in Procs : Carries(p, f) /\ Carries(q, f) => p = q
    /\ work[f] \in {0, 1}
    /\ work[f] = 1 => \A p \in Procs : ~Carries(p, f)
    /\ status[f] \in AtRest => work[f] = 0 /\ \A p \in Procs : ~Carries(p, f)

\* The task that p puts on the queue is not the one that it runs, a future
\* that p is going to start is still DELAYED, and the slots of the task that p
\* runs say so.
OwnTask(p) ==
    /\ pc[p] = "spawnPut" => arg[p] # current[p]
    /\ pc[p] \in {"wakeSetRunnable", "wakePut"} => Head(list[p]) # current[p]
    /\ pc[p] = "awaitSetRunnable" => status[arg[p]] = "DELAYED"
    /\ Runs(p) => /\ status[current[p]] \in {"RUNNING", "DETERMINED"}
                  /\ process[current[p]] = p

TokenInv == OneToken /\ \A p \in Procs : OwnTask(p)

-----------------------------------------------------------------------------
(* Waiters *)

\* Who queues on a future finds it undetermined until it has done so, and who
\* determines one has taken all its waiters.
Queues(p) ==
    /\ pc[p] \in {"awaitSetRunnable", "awaitPut", "awaitLockSelf", "awaitSave"}
          => ~determined[arg[p]]
    /\ pc[p] \in {"detStatus", "detFlag"} => waiters[arg[p]] = << >>

Registered(f) == /\ ~determined[waitingOn[f]]
                 /\ f \in ToSet(waiters[waitingOn[f]])

Finds(p, f) == /\ pc[p] \in {"detStatus", "detFlag", "wakeLock", "wakeMark",
                             "wakeSetRunnable", "wakePut"}
               /\ arg[p] = waitingOn[f]
               /\ f \in ToSet(list[p])

WaitInv == /\ \A p \in Procs : Queues(p)
           /\ \A f \in F : status[f] = "WAITING" =>
                 /\ waitingOn[f] \in F
                 /\ Registered(f) \/ \E p \in Procs : Finds(p, f)

-----------------------------------------------------------------------------
(* Programs in which a task is determined by nobody but itself *)

OnlySelfDetermined == \A f \in F : Determines[f] \cap Tasks = {}

\* The other futures have no code to run; the tasks that are RUNNABLE have a
\* ticket; the state of a task that does not run is saved.
QueuedTask(f) ==
    /\ f \notin Tasks => /\ status[f] \in {"CREATED", "DETERMINED"}
                         /\ work[f] = 0
                         /\ \A p \in Procs : ~Carries(p, f)
    /\ status[f] = "RUNNABLE" <=> work[f] = 1 \/ \E p \in Procs : Ticket(p, f)
    /\ status[f] \notin {"RUNNING", "DETERMINED"} => process[f] = "code"

OwnQueued(p) ==
    /\ pc[p] \in {"detLock", "detTest", "detStatus"} =>
          arg[p] = current[p] \/ arg[p] \notin Tasks
    /\ pc[p] \in {"preemptUnlock", "preemptLeave"} =>
          status[current[p]] = "SUSPENDED"
    /\ pc[p] = "preemptSetRunnable" => status[arg[p]] = "SUSPENDED"
    /\ Runs(p) /\ status[current[p]] = "DETERMINED" =>
          /\ pc[p] \in {"detFlag", "wakeLock", "wakeMark", "wakeSetRunnable",
                        "wakePut"}
          /\ arg[p] = current[p]

QueuedInv == /\ \A f \in F : QueuedTask(f)
             /\ \A p \in Procs : OwnQueued(p)

-----------------------------------------------------------------------------
(* The steps of one processor *)

StepOf(p) == \/ GetWork(p) \/ RunLock(p) \/ Run(p) \/ RunSkip(p)
             \/ Spawn(p) \/ SpawnPut(p) \/ SpawnDelayed(p)
             \/ Touch(p) \/ AwaitLock(p) \/ AwaitKnown(p) \/ AwaitUnknown(p)
             \/ AwaitSetRunnable(p) \/ AwaitPut(p) \/ AwaitLockSelf(p)
             \/ AwaitSave(p) \/ AwaitUnlock(p) \/ Leave(p)
             \/ Finish(p) \/ DetermineOther(p) \/ DetLock(p) \/ DetValue(p)
             \/ DetStatus(p) \/ DetFlag(p) \/ DetTwice(p)
             \/ WakeLock(p) \/ WakeMark(p) \/ WakeSkip(p)
             \/ WakeSetRunnable(p) \/ WakePut(p) \/ WakePutFull(p)
             \/ WakeDone(p)
             \/ Preempt(p) \/ PreemptLock(p) \/ PreemptSave(p)
             \/ PreemptUnlock(p) \/ PreemptLeave(p)
             \/ PreemptSetRunnable(p) \/ PreemptPut(p)
             \/ Yield(p) \/ YieldLock(p) \/ YieldSave(p) \/ YieldPut(p)
             \/ YieldUnlock(p)

\* A step that changes nothing but what belongs to the garbage collector.
StepOfCollector == UNCHANGED <<slots, work, local, preempted, full>>

\* Every step is one of these.
LEMMA StepKinds ==
  ASSUME [Next]_vars
  PROVE  StepOfCollector \/ \E p \in Procs : StepOf(p)
BY DEF Next, Proceed, Acquire, StepOf, StepOfCollector, Park,
       RequestCollection, Collect, vars, local, bounds, slots

\* A step of p does not touch the registers of the others.
OthersStay(p) == \A q \in Procs \ {p} :
    pc'[q] = pc[q] /\ arg'[q] = arg[q] /\ current'[q] = current[q]
    /\ list'[q] = list[q]

LEMMA StepOthersStay ==
  ASSUME Typed, NEW p \in Procs, StepOf(p)
  PROVE  OthersStay(p)
<1>1. \A q \in Procs \ {p} : pc'[q] = pc[q] /\ arg'[q] = arg[q]
  BY DEF StepOf, Typed, TypeOK, Step, Goto, Set, local, bounds, slots,
         GetWork, RunLock, Run, RunSkip, Spawn, SpawnPut, SpawnDelayed, Touch,
         AwaitLock, AwaitKnown, AwaitUnknown, AwaitSetRunnable, AwaitPut,
         AwaitLockSelf, AwaitSave, AwaitUnlock, Leave, Finish, DetermineOther,
         DetLock, DetValue, DetStatus, DetFlag, DetTwice, AfterDetermine,
         WakeLock, WakeMark, WakeSkip, WakeSetRunnable, WakePut, WakePutFull,
         WakeDone, Preempt, PreemptLock, PreemptSave, PreemptUnlock, PreemptLeave, PreemptSetRunnable,
         PreemptPut, Yield, YieldLock, YieldSave, YieldPut, YieldUnlock
<1>2. \A q \in Procs \ {p} : current'[q] = current[q] /\ list'[q] = list[q]
  BY DEF StepOf, Typed, TypeOK, Step, Goto, Set, local, bounds, slots,
         GetWork, RunLock, Run, RunSkip, Spawn, SpawnPut, SpawnDelayed, Touch,
         AwaitLock, AwaitKnown, AwaitUnknown, AwaitSetRunnable, AwaitPut,
         AwaitLockSelf, AwaitSave, AwaitUnlock, Leave, Finish, DetermineOther,
         DetLock, DetValue, DetStatus, DetFlag, DetTwice, AfterDetermine,
         WakeLock, WakeMark, WakeSkip, WakeSetRunnable, WakePut, WakePutFull,
         WakeDone, Preempt, PreemptLock, PreemptSave, PreemptUnlock, PreemptLeave, PreemptSetRunnable,
         PreemptPut, Yield, YieldLock, YieldSave, YieldPut, YieldUnlock
<1> QED
  BY <1>1, <1>2 DEF OthersStay

-----------------------------------------------------------------------------
(* Types and places are preserved *)

\* Every step keeps the types, and what a place says of the registers.
LEMMA TypedStep == Typed /\ [Next]_vars => Typed'
<1> SUFFICES ASSUME Typed, [Next]_vars PROVE Typed'
  OBVIOUS
<1> USE ShapeAssumption, BoundsAssumption
    DEF Typed, TypeOK, Places, Idling, WithArg, Awaiting, Waking, Labels,
        Statuses, Step, Goto, Set, Locks, Unlocks, PutWork, slots, local,
        bounds, gc
<1>1. ASSUME NEW p \in Procs, GetWork(p) PROVE Typed'
  <2>1. PICK f \in F : /\ work' = [work EXCEPT ![f] = @ - 1] /\ work[f] > 0
                       /\ arg' = [arg EXCEPT ![p] = f]
    BY <1>1 DEF GetWork
  <2>2. work' \in [F -> Nat]
    BY <2>1
  <2>3. Places'
    BY <1>1, <2>1 DEF GetWork
  <2>4. TypeOK'
    BY <1>1, <2>1, <2>2 DEF GetWork
  <2> QED
    BY <2>3, <2>4
<1>2. ASSUME NEW p \in Procs, RunLock(p) PROVE Typed'
  BY <1>2 DEF RunLock
<1>3. ASSUME NEW p \in Procs, Run(p) PROVE Typed'
  BY <1>3 DEF Run
<1>4. ASSUME NEW p \in Procs, RunSkip(p) PROVE Typed'
  BY <1>4 DEF RunSkip
<1>5. ASSUME NEW p \in Procs, Spawn(p) PROVE Typed'
  <2>1. PICK f \in Spawns[current[p]] \ Delayed :
          /\ status' = [status EXCEPT ![f] = "RUNNABLE"]
          /\ arg' = [arg EXCEPT ![p] = f]
    BY <1>5 DEF Spawn
  <2>2. f \in F
    BY <1>5 DEF Spawn
  <2>3. Places'
    BY <1>5, <2>1, <2>2 DEF Spawn
  <2>4. status' \in [F -> Statuses] /\ arg' \in [Procs -> F \cup {None}]
    BY <2>1, <2>2
  <2>5. TypeOK'
    BY <1>5, <2>4 DEF Spawn
  <2> QED
    BY <2>3, <2>5
<1>6. ASSUME NEW p \in Procs, SpawnPut(p) PROVE Typed'
  <2>1. arg[p] \in F
    BY <1>6 DEF SpawnPut
  <2>2. work' \in [F -> Nat]
    BY <1>6, <2>1 DEF SpawnPut
  <2>3. Places'
    BY <1>6 DEF SpawnPut
  <2>4. TypeOK'
    BY <1>6, <2>1, <2>2 DEF SpawnPut
  <2> QED
    BY <2>3, <2>4
<1>7. ASSUME NEW p \in Procs, SpawnDelayed(p) PROVE Typed'
  BY <1>7 DEF SpawnDelayed
<1>8. ASSUME NEW p \in Procs, Touch(p) PROVE Typed'
  <2>1. PICK x \in Touches[current[p]] : arg' = [arg EXCEPT ![p] = x]
    BY <1>8 DEF Touch
  <2>2. x \in F /\ x # current[p]
    BY <1>8 DEF Touch
  <2> QED
    BY <1>8, <2>1, <2>2 DEF Touch
<1>9. ASSUME NEW p \in Procs, AwaitLock(p) PROVE Typed'
  BY <1>9 DEF AwaitLock
<1>10. ASSUME NEW p \in Procs, AwaitKnown(p) PROVE Typed'
  BY <1>10 DEF AwaitKnown
<1>11. ASSUME NEW p \in Procs, AwaitUnknown(p) PROVE Typed'
  BY <1>11 DEF AwaitUnknown
<1>12. ASSUME NEW p \in Procs, AwaitSetRunnable(p) PROVE Typed'
  BY <1>12 DEF AwaitSetRunnable
<1>13. ASSUME NEW p \in Procs, AwaitPut(p) PROVE Typed'
  <2>1. arg[p] \in F
    BY <1>13 DEF AwaitPut
  <2>2. work' \in [F -> Nat]
    BY <1>13, <2>1 DEF AwaitPut
  <2>3. Places'
    BY <1>13 DEF AwaitPut
  <2>4. TypeOK'
    BY <1>13, <2>1, <2>2 DEF AwaitPut
  <2> QED
    BY <2>3, <2>4
<1>14. ASSUME NEW p \in Procs, AwaitLockSelf(p) PROVE Typed'
  BY <1>14 DEF AwaitLockSelf
<1>15. ASSUME NEW p \in Procs, AwaitSave(p) PROVE Typed'
  <2>1. arg[p] \in F /\ current[p] \in F
    BY <1>15 DEF AwaitSave
  <2>2. Append(waiters[arg[p]], current[p]) \in Seq(F)
    BY <2>1
  <2>3. waiters' = [waiters EXCEPT ![arg[p]] = Append(@, current[p])]
    BY <1>15 DEF AwaitSave
  <2>4. waiters' \in [F -> Seq(F)]
    BY <2>1, <2>2, <2>3
  <2> QED
    BY <1>15, <2>1, <2>4 DEF AwaitSave
<1>16. ASSUME NEW p \in Procs, AwaitUnlock(p) PROVE Typed'
  BY <1>16 DEF AwaitUnlock
<1>17. ASSUME NEW p \in Procs, Leave(p) PROVE Typed'
  BY <1>17 DEF Leave
<1>18. ASSUME NEW p \in Procs, Finish(p) PROVE Typed'
  BY <1>18 DEF Finish
<1>19. ASSUME NEW p \in Procs, DetermineOther(p) PROVE Typed'
  <2>1. PICK x \in Determines[current[p]] : arg' = [arg EXCEPT ![p] = x]
    BY <1>19 DEF DetermineOther
  <2>2. x \in F
    BY <1>19 DEF DetermineOther
  <2> QED
    BY <1>19, <2>1, <2>2 DEF DetermineOther
<1>20. ASSUME NEW p \in Procs, DetLock(p) PROVE Typed'
  BY <1>20 DEF DetLock
<1>21. ASSUME NEW p \in Procs, DetValue(p) PROVE Typed'
  BY <1>21 DEF DetValue, Final
<1>22. ASSUME NEW p \in Procs, DetStatus(p) PROVE Typed'
  BY <1>22 DEF DetStatus
<1>23. ASSUME NEW p \in Procs, DetFlag(p) PROVE Typed'
  BY <1>23 DEF DetFlag, Keep
<1>24. ASSUME NEW p \in Procs, DetTwice(p) PROVE Typed'
  BY <1>24 DEF DetTwice, Final, AfterDetermine
<1>25. ASSUME NEW p \in Procs, WakeLock(p) PROVE Typed'
  BY <1>25 DEF WakeLock
<1>26. ASSUME NEW p \in Procs, WakeMark(p) PROVE Typed'
  BY <1>26 DEF WakeMark
<1>27. ASSUME NEW p \in Procs, WakeSkip(p) PROVE Typed'
  <2>1. Head(list[p]) \in F /\ Tail(list[p]) \in Seq(F)
    BY <1>27 DEF WakeSkip
  <2>2. lock' \in [F -> BOOLEAN] /\ list' \in [Procs -> Seq(F)]
    BY <1>27, <2>1 DEF WakeSkip
  <2>3. Places'
    BY <1>27 DEF WakeSkip
  <2>4. TypeOK'
    BY <1>27, <2>2 DEF WakeSkip
  <2> QED
    BY <2>3, <2>4
<1>28. ASSUME NEW p \in Procs, WakeSetRunnable(p) PROVE Typed'
  BY <1>28 DEF WakeSetRunnable
<1>29. ASSUME NEW p \in Procs, WakePut(p) PROVE Typed'
  <2>1. Head(list[p]) \in F /\ Tail(list[p]) \in Seq(F)
    BY <1>29 DEF WakePut
  <2>2. work' \in [F -> Nat] /\ list' \in [Procs -> Seq(F)]
    BY <1>29, <2>1 DEF WakePut
  <2>3. Places'
    BY <1>29 DEF WakePut
  <2>4. TypeOK'
    BY <1>29, <2>2 DEF WakePut
  <2> QED
    BY <2>3, <2>4
<1>30. ASSUME NEW p \in Procs, WakePutFull(p) PROVE Typed'
  BY <1>30 DEF WakePutFull
<1>31. ASSUME NEW p \in Procs, WakeDone(p) PROVE Typed'
  BY <1>31 DEF WakeDone, AfterDetermine
<1>32. ASSUME NEW p \in Procs, Preempt(p) PROVE Typed'
  BY <1>32 DEF Preempt
<1>33. ASSUME NEW p \in Procs, PreemptLock(p) PROVE Typed'
  BY <1>33 DEF PreemptLock
<1>34. ASSUME NEW p \in Procs, PreemptSave(p) PROVE Typed'
  BY <1>34 DEF PreemptSave
<1>34a. ASSUME NEW p \in Procs, PreemptUnlock(p) PROVE Typed'
  BY <1>34a DEF PreemptUnlock
<1>34b. ASSUME NEW p \in Procs, PreemptLeave(p) PROVE Typed'
  BY <1>34b DEF PreemptLeave
<1>35. ASSUME NEW p \in Procs, PreemptSetRunnable(p) PROVE Typed'
  BY <1>35 DEF PreemptSetRunnable
<1>36. ASSUME NEW p \in Procs, PreemptPut(p) PROVE Typed'
  BY <1>36 DEF PreemptPut
<1>37. ASSUME NEW p \in Procs, Yield(p) PROVE Typed'
  BY <1>37 DEF Yield
<1>38. ASSUME NEW p \in Procs, YieldLock(p) PROVE Typed'
  BY <1>38 DEF YieldLock
<1>39. ASSUME NEW p \in Procs, YieldSave(p) PROVE Typed'
  BY <1>39 DEF YieldSave
<1>40. ASSUME NEW p \in Procs, YieldPut(p) PROVE Typed'
  <2>1. current[p] \in F
    BY <1>40 DEF YieldPut
  <2>2. work' \in [F -> Nat]
    BY <1>40, <2>1 DEF YieldPut
  <2>3. Places'
    BY <1>40 DEF YieldPut
  <2>4. TypeOK'
    BY <1>40, <2>1, <2>2 DEF YieldPut
  <2> QED
    BY <2>3, <2>4
<1>41. ASSUME NEW p \in Procs, YieldUnlock(p) PROVE Typed'
  BY <1>41 DEF YieldUnlock
<1>42. ASSUME NEW p \in Procs, Park(p) PROVE Typed'
  BY <1>42 DEF Park
<1>43. CASE RequestCollection
  BY <1>43 DEF RequestCollection
<1>44. CASE Collect
  BY <1>44 DEF Collect
<1>45. CASE UNCHANGED vars
  BY <1>45 DEF vars
<1> QED
  BY <1>1, <1>2, <1>3, <1>4, <1>5, <1>6, <1>7, <1>8, <1>9, <1>10, <1>11,
     <1>12, <1>13, <1>14, <1>15, <1>16, <1>17, <1>18, <1>19, <1>20, <1>21,
     <1>22, <1>23, <1>24, <1>25, <1>26, <1>27, <1>28, <1>29, <1>30, <1>31,
     <1>32, <1>33, <1>34, <1>34a, <1>34b, <1>35, <1>36, <1>37, <1>38, <1>39,
     <1>40, <1>41,
     <1>42, <1>43, <1>44, <1>45
  DEF Next, Proceed, Acquire

-----------------------------------------------------------------------------
(* The locks exclude *)

\* The three things that a step of p may do with the lock of a future.
KeepsLocks(p) == lock' = lock /\ \A f \in F : Holds(p, f)' <=> Holds(p, f)

Takes(p, g) == /\ ~lock[g] /\ lock' = [lock EXCEPT ![g] = TRUE]
               /\ \A f \in F : Holds(p, f)' <=> Holds(p, f) \/ f = g

Releases(p, g) == /\ Holds(p, g) /\ lock' = [lock EXCEPT ![g] = FALSE]
                  /\ \A f \in F : Holds(p, f)' <=> Holds(p, f) /\ f # g

LockMove(p) == KeepsLocks(p) \/ \E g \in F : Takes(p, g) \/ Releases(p, g)

\* A step that does one of them keeps the locks exclusive.
LEMMA LockMovesExclude ==
  ASSUME Typed, HeldByOne, NEW p \in Procs, OthersStay(p), LockMove(p)
  PROVE  HeldByOne'
<1>1. \A q \in Procs \ {p}, f \in F : Holds(q, f)' <=> Holds(q, f)
  BY DEF OthersStay, Holds
<1>2. lock \in [F -> BOOLEAN]
  BY DEF Typed, TypeOK
<1>3. CASE KeepsLocks(p)
  BY <1>1, <1>3 DEF KeepsLocks, HeldByOne
<1>4. ASSUME NEW g \in F, Takes(p, g) PROVE HeldByOne'
  BY <1>1, <1>2, <1>4 DEF Takes, HeldByOne
<1>5. ASSUME NEW g \in F, Releases(p, g) PROVE HeldByOne'
  BY <1>1, <1>2, <1>5 DEF Releases, HeldByOne
<1> QED
  BY <1>3, <1>4, <1>5 DEF LockMove

\* Every step does.
LEMMA StepLockMove ==
  ASSUME Typed, NEW p \in Procs, StepOf(p)
  PROVE  LockMove(p)
<1> USE DEF Typed, TypeOK, Places, Idling, WithArg, Awaiting, Waking, Step,
            Goto, Set, Locks, Unlocks, slots, local, Holds
<1>1. CASE GetWork(p)
  BY <1>1 DEF LockMove, KeepsLocks, GetWork
<1>2. CASE Spawn(p)
  BY <1>2 DEF LockMove, KeepsLocks, Spawn
<1>3. CASE SpawnPut(p)
  BY <1>3 DEF LockMove, KeepsLocks, SpawnPut, PutWork
<1>4. CASE SpawnDelayed(p)
  BY <1>4 DEF LockMove, KeepsLocks, SpawnDelayed
<1>5. CASE Touch(p)
  BY <1>5 DEF LockMove, KeepsLocks, Touch
<1>6. CASE AwaitUnknown(p)
  BY <1>6 DEF LockMove, KeepsLocks, AwaitUnknown
<1>7. CASE AwaitSetRunnable(p)
  BY <1>7 DEF LockMove, KeepsLocks, AwaitSetRunnable
<1>8. CASE AwaitPut(p)
  BY <1>8 DEF LockMove, KeepsLocks, AwaitPut, PutWork
<1>9. CASE Leave(p)
  BY <1>9 DEF LockMove, KeepsLocks, Leave
<1>10. CASE Finish(p)
  BY <1>10 DEF LockMove, KeepsLocks, Finish
<1>11. CASE DetermineOther(p)
  BY <1>11 DEF LockMove, KeepsLocks, DetermineOther
<1>12. CASE DetValue(p)
  BY <1>12 DEF LockMove, KeepsLocks, DetValue
<1>13. CASE DetStatus(p)
  BY <1>13 DEF LockMove, KeepsLocks, DetStatus
<1>14. CASE WakeSetRunnable(p)
  BY <1>14 DEF LockMove, KeepsLocks, WakeSetRunnable
<1>15. CASE WakePut(p)
  BY <1>15 DEF LockMove, KeepsLocks, WakePut, PutWork
<1>16. CASE WakePutFull(p)
  BY <1>16 DEF LockMove, KeepsLocks, WakePutFull
<1>17. CASE WakeDone(p)
  BY <1>17 DEF LockMove, KeepsLocks, WakeDone, AfterDetermine
<1>18. CASE Preempt(p)
  BY <1>18 DEF LockMove, KeepsLocks, Preempt
<1>19. CASE PreemptSetRunnable(p)
  BY <1>19 DEF LockMove, KeepsLocks, PreemptSetRunnable
<1>20. CASE PreemptPut(p)
  BY <1>20 DEF LockMove, KeepsLocks, PreemptPut, PutWork
<1>21. CASE Yield(p)
  BY <1>21 DEF LockMove, KeepsLocks, Yield
<1>22. CASE YieldSave(p)
  BY <1>22 DEF LockMove, KeepsLocks, YieldSave
<1>23. CASE YieldPut(p)
  BY <1>23 DEF LockMove, KeepsLocks, YieldPut, PutWork
<1>24. CASE RunLock(p)
  <2>1. Takes(p, arg[p]) /\ arg[p] \in F
    BY <1>24 DEF Takes, RunLock
  <2> QED
    BY <2>1 DEF LockMove, Takes
<1>25. CASE AwaitLock(p)
  <2>1. Takes(p, arg[p]) /\ arg[p] \in F
    BY <1>25 DEF Takes, AwaitLock
  <2> QED
    BY <2>1 DEF LockMove, Takes
<1>26. CASE AwaitLockSelf(p)
  <2>1. Takes(p, current[p]) /\ current[p] \in F
    BY <1>26 DEF Takes, AwaitLockSelf
  <2> QED
    BY <2>1 DEF LockMove, Takes
<1>27. CASE DetLock(p)
  <2>1. Takes(p, arg[p]) /\ arg[p] \in F
    BY <1>27 DEF Takes, DetLock
  <2> QED
    BY <2>1 DEF LockMove, Takes
<1>28. CASE WakeLock(p)
  <2>1. Takes(p, Head(list[p])) /\ Head(list[p]) \in F
    BY <1>28 DEF Takes, WakeLock
  <2> QED
    BY <2>1 DEF LockMove, Takes
<1>29. CASE PreemptLock(p)
  <2>1. Takes(p, current[p]) /\ current[p] \in F
    BY <1>29 DEF Takes, PreemptLock
  <2> QED
    BY <2>1 DEF LockMove, Takes
<1>30. CASE YieldLock(p)
  <2>1. Takes(p, current[p]) /\ current[p] \in F
    BY <1>30 DEF Takes, YieldLock
  <2> QED
    BY <2>1 DEF LockMove, Takes
<1>31. CASE Run(p)
  <2>1. Releases(p, arg[p]) /\ arg[p] \in F
    BY <1>31 DEF Releases, Run
  <2> QED
    BY <2>1 DEF LockMove, Releases
<1>32. CASE RunSkip(p)
  <2>1. Releases(p, arg[p]) /\ arg[p] \in F
    BY <1>32 DEF Releases, RunSkip
  <2> QED
    BY <2>1 DEF LockMove, Releases
<1>33. CASE AwaitKnown(p)
  <2>1. Releases(p, arg[p]) /\ arg[p] \in F
    BY <1>33 DEF Releases, AwaitKnown
  <2> QED
    BY <2>1 DEF LockMove, Releases
<1>34. CASE AwaitSave(p)
  <2>1. Releases(p, current[p]) /\ current[p] \in F
    BY <1>34 DEF Releases, AwaitSave
  <2> QED
    BY <2>1 DEF LockMove, Releases
<1>35. CASE AwaitUnlock(p)
  <2>1. Releases(p, arg[p]) /\ arg[p] \in F
    BY <1>35 DEF Releases, AwaitUnlock
  <2> QED
    BY <2>1 DEF LockMove, Releases
<1>36. CASE DetFlag(p)
  <2>1. Releases(p, arg[p]) /\ arg[p] \in F
    BY <1>36 DEF Releases, DetFlag
  <2> QED
    BY <2>1 DEF LockMove, Releases
<1>37. CASE DetTwice(p)
  <2>1. Releases(p, arg[p]) /\ arg[p] \in F
    BY <1>37 DEF Releases, DetTwice, AfterDetermine
  <2> QED
    BY <2>1 DEF LockMove, Releases
<1>38. CASE WakeMark(p)
  <2>1. Releases(p, Head(list[p])) /\ Head(list[p]) \in F
    BY <1>38 DEF Releases, WakeMark
  <2> QED
    BY <2>1 DEF LockMove, Releases
<1>39. CASE WakeSkip(p)
  <2>1. Releases(p, Head(list[p])) /\ Head(list[p]) \in F
    BY <1>39 DEF Releases, WakeSkip
  <2> QED
    BY <2>1 DEF LockMove, Releases
<1>40. CASE PreemptUnlock(p)
  <2>1. Releases(p, current[p]) /\ current[p] \in F
    BY <1>40 DEF Releases, PreemptUnlock
  <2> QED
    BY <2>1 DEF LockMove, Releases
<1>42. CASE PreemptSave(p)
  BY <1>42 DEF LockMove, KeepsLocks, PreemptSave
<1>43. CASE PreemptLeave(p)
  BY <1>43 DEF LockMove, KeepsLocks, PreemptLeave
<1>41. CASE YieldUnlock(p)
  <2>1. Releases(p, current[p]) /\ current[p] \in F
    BY <1>41 DEF Releases, YieldUnlock
  <2> QED
    BY <2>1 DEF LockMove, Releases
<1> QED
  BY <1>1, <1>2, <1>3, <1>4, <1>5, <1>6, <1>7, <1>8, <1>9, <1>10, <1>11,
     <1>12, <1>13, <1>14, <1>15, <1>16, <1>17, <1>18, <1>19, <1>20, <1>21,
     <1>22, <1>23, <1>24, <1>25, <1>26, <1>27, <1>28, <1>29, <1>30, <1>31,
     <1>32, <1>33, <1>34, <1>35, <1>36, <1>37, <1>38, <1>39, <1>40, <1>41,
     <1>42, <1>43 DEF StepOf

-----------------------------------------------------------------------------
(* The token of a task *)

\* What a step of p may do with the tokens: p keeps or drops what it carries,
\* gets a token from a task at rest or from the work queue, puts one on the
\* work queue, or gives one up when its task comes to rest.
KeepsTokens(p) == /\ work' = work
                  /\ \A f \in F : Carries(p, f)' => Carries(p, f)
                  /\ \A f \in F : status'[f] \in AtRest => status[f] \in AtRest

StartsTask(p, g) == /\ status[g] \in AtRest /\ status'[g] \notin AtRest
                    /\ work' = work
                    /\ \A f \in F : Carries(p, f)' => Carries(p, f) \/ f = g
                    /\ \A f \in F \ {g} : status'[f] = status[f]

GetsEntry(p, g) == /\ work[g] > 0 /\ work' = [work EXCEPT ![g] = @ - 1]
                   /\ status' = status
                   /\ \A f \in F : Carries(p, f)' => Carries(p, f) \/ f = g

PutsEntry(p, g) == /\ Carries(p, g) /\ work' = [work EXCEPT ![g] = @ + 1]
                   /\ status' = status
                   /\ \A f \in F : Carries(p, f)' => Carries(p, f) /\ f # g

RestsTask(p, g) == /\ Carries(p, g) /\ work' = work
                   /\ \A f \in F : Carries(p, f)' => Carries(p, f) /\ f # g
                   /\ \A f \in F \ {g} : status'[f] = status[f]

TokenMove(p) == \/ KeepsTokens(p)
                \/ \E g \in F : \/ StartsTask(p, g) \/ GetsEntry(p, g)
                                \/ PutsEntry(p, g) \/ RestsTask(p, g)

\* A step of one of these kinds leaves every task with one token at most.
LEMMA TokenMovesKeepOne ==
  ASSUME Typed, OneToken, NEW p \in Procs, OthersStay(p), TokenMove(p)
  PROVE  OneToken'
<1>1. \A q \in Procs \ {p}, f \in F : Carries(q, f)' <=> Carries(q, f)
  BY DEF OthersStay, Carries, Ticket
<1>2. work \in [F -> Nat]
  BY DEF Typed, TypeOK
<1>3. CASE KeepsTokens(p)
  BY <1>1, <1>3 DEF OneToken, KeepsTokens
<1>4. ASSUME NEW g \in F, StartsTask(p, g) PROVE OneToken'
  BY <1>1, <1>4 DEF OneToken, StartsTask
<1>5. ASSUME NEW g \in F, GetsEntry(p, g) PROVE OneToken'
  <2>1. work[g] = 1 /\ work'[g] = 0 /\ \A f \in F \ {g} : work'[f] = work[f]
    BY <1>2, <1>5 DEF OneToken, GetsEntry
  <2> QED
    BY <1>1, <1>5, <2>1 DEF OneToken, GetsEntry
<1>6. ASSUME NEW g \in F, PutsEntry(p, g) PROVE OneToken'
  <2>1. work[g] = 0 /\ work'[g] = 1 /\ \A f \in F \ {g} : work'[f] = work[f]
    BY <1>2, <1>6 DEF OneToken, PutsEntry
  <2> QED
    BY <1>1, <1>6, <2>1 DEF OneToken, PutsEntry
<1>7. ASSUME NEW g \in F, RestsTask(p, g) PROVE OneToken'
  <2>1. work[g] = 0
    BY <1>2, <1>7 DEF OneToken, RestsTask
  <2> QED
    BY <1>1, <1>7, <2>1 DEF OneToken, RestsTask
<1> QED
  BY <1>3, <1>4, <1>5, <1>6, <1>7 DEF TokenMove

\* Every step is of one of these kinds.
LEMMA StepTokenMove ==
  ASSUME Typed, NEW p \in Procs, OwnTask(p), StepOf(p)
  PROVE  TokenMove(p)
<1> USE ShapeAssumption
    DEF Typed, TypeOK, Places, Idling, WithArg, Awaiting, Waking, Step, Goto,
            Set, slots, local, OwnTask, Carries, Ticket, AtRest
<1>1. CASE GetWork(p)
  <2>1. PICK f \in F : /\ work[f] > 0
                       /\ work' = [work EXCEPT ![f] = @ - 1]
                       /\ arg' = [arg EXCEPT ![p] = f]
    BY <1>1 DEF GetWork
  <2>2. GetsEntry(p, f)
    BY <1>1, <2>1 DEF GetsEntry, GetWork
  <2> QED
    BY <2>2 DEF TokenMove
<1>2. CASE RunLock(p)
  BY <1>2 DEF RunLock, TokenMove, KeepsTokens
<1>3. CASE Run(p)
  BY <1>3 DEF Run, TokenMove, KeepsTokens
<1>4. CASE RunSkip(p)
  BY <1>4 DEF RunSkip, TokenMove, KeepsTokens
<1>5. CASE Spawn(p)
  <2>1. PICK f \in Spawns[current[p]] \ Delayed :
          /\ status[f] = "UNBORN"
          /\ status' = [status EXCEPT ![f] = "RUNNABLE"]
          /\ arg' = [arg EXCEPT ![p] = f]
    BY <1>5 DEF Spawn
  <2>2. f \in F
    BY <1>5 DEF Spawn
  <2>3. StartsTask(p, f)
    BY <1>5, <2>1, <2>2 DEF StartsTask, Spawn
  <2> QED
    BY <2>2, <2>3 DEF TokenMove
<1>6. CASE SpawnPut(p)
  <2>1. arg[p] \in F /\ PutsEntry(p, arg[p])
    BY <1>6 DEF PutsEntry, SpawnPut, PutWork
  <2> QED
    BY <2>1 DEF TokenMove, PutsEntry
<1>7. CASE SpawnDelayed(p)
  BY <1>7 DEF SpawnDelayed, TokenMove, KeepsTokens
<1>8. CASE Touch(p)
  BY <1>8 DEF Touch, TokenMove, KeepsTokens
<1>9. CASE AwaitLock(p)
  BY <1>9 DEF AwaitLock, TokenMove, KeepsTokens
<1>10. CASE AwaitKnown(p)
  BY <1>10 DEF AwaitKnown, TokenMove, KeepsTokens
<1>11. CASE AwaitUnknown(p)
  BY <1>11 DEF AwaitUnknown, TokenMove, KeepsTokens
<1>12. CASE AwaitSetRunnable(p)
  <2>1. arg[p] \in F /\ StartsTask(p, arg[p])
    BY <1>12 DEF StartsTask, AwaitSetRunnable
  <2> QED
    BY <2>1 DEF TokenMove, StartsTask
<1>13. CASE AwaitPut(p)
  <2>1. arg[p] \in F /\ PutsEntry(p, arg[p])
    BY <1>13 DEF PutsEntry, AwaitPut, PutWork
  <2> QED
    BY <2>1 DEF TokenMove, PutsEntry
<1>14. CASE AwaitLockSelf(p)
  BY <1>14 DEF AwaitLockSelf, TokenMove, KeepsTokens
<1>15. CASE AwaitSave(p)
  <2>1. current[p] \in F /\ RestsTask(p, current[p])
    BY <1>15 DEF RestsTask, AwaitSave
  <2> QED
    BY <2>1 DEF TokenMove, RestsTask
<1>16. CASE AwaitUnlock(p)
  BY <1>16 DEF AwaitUnlock, TokenMove, KeepsTokens
<1>17. CASE Leave(p)
  BY <1>17 DEF Leave, TokenMove, KeepsTokens
<1>18. CASE Finish(p)
  BY <1>18 DEF Finish, TokenMove, KeepsTokens
<1>19. CASE DetermineOther(p)
  BY <1>19 DEF DetermineOther, TokenMove, KeepsTokens
<1>20. CASE DetLock(p)
  BY <1>20 DEF DetLock, TokenMove, KeepsTokens
<1>21. CASE DetValue(p)
  BY <1>21 DEF DetValue, Final, TokenMove, KeepsTokens
<1>22. CASE DetStatus(p)
  BY <1>22 DEF DetStatus, TokenMove, KeepsTokens
<1>23. CASE DetFlag(p)
  BY <1>23 DEF DetFlag, TokenMove, KeepsTokens
<1>24. CASE DetTwice(p)
  BY <1>24 DEF DetTwice, Final, AfterDetermine, TokenMove, KeepsTokens
<1>25. CASE WakeLock(p)
  BY <1>25 DEF WakeLock, TokenMove, KeepsTokens
<1>26. CASE WakeMark(p)
  <2>1. Head(list[p]) \in F /\ StartsTask(p, Head(list[p]))
    BY <1>26 DEF StartsTask, WakeMark
  <2> QED
    BY <2>1 DEF TokenMove, StartsTask
<1>27. CASE WakeSkip(p)
  BY <1>27 DEF WakeSkip, TokenMove, KeepsTokens
<1>28. CASE WakeSetRunnable(p)
  BY <1>28 DEF WakeSetRunnable, TokenMove, KeepsTokens
<1>29. CASE WakePut(p)
  <2> DEFINE t == Head(list[p])
  <2>1. t \in F /\ PutsEntry(p, t)
    BY <1>29 DEF PutsEntry, WakePut, PutWork
  <2> HIDE DEF t
  <2> QED
    BY <2>1 DEF TokenMove, PutsEntry
<1>30. CASE WakePutFull(p)
  BY <1>30 DEF WakePutFull, TokenMove, KeepsTokens
<1>31. CASE WakeDone(p)
  BY <1>31 DEF WakeDone, AfterDetermine, TokenMove, KeepsTokens
<1>32. CASE Preempt(p)
  BY <1>32 DEF Preempt, TokenMove, KeepsTokens
<1>33. CASE PreemptLock(p)
  BY <1>33 DEF PreemptLock, TokenMove, KeepsTokens
<1>34. CASE PreemptSave(p)
  BY <1>34 DEF PreemptSave, TokenMove, KeepsTokens
<1>34a. CASE PreemptUnlock(p)
  BY <1>34a DEF PreemptUnlock, TokenMove, KeepsTokens
<1>34b. CASE PreemptLeave(p)
  BY <1>34b DEF PreemptLeave, TokenMove, KeepsTokens
<1>35. CASE PreemptSetRunnable(p)
  BY <1>35 DEF PreemptSetRunnable, TokenMove, KeepsTokens
<1>36. CASE PreemptPut(p)
  <2>1. arg[p] \in F /\ PutsEntry(p, arg[p])
    BY <1>36 DEF PutsEntry, PreemptPut, PutWork
  <2> QED
    BY <2>1 DEF TokenMove, PutsEntry
<1>37. CASE Yield(p)
  BY <1>37 DEF Yield, TokenMove, KeepsTokens
<1>38. CASE YieldLock(p)
  BY <1>38 DEF YieldLock, TokenMove, KeepsTokens
<1>39. CASE YieldSave(p)
  BY <1>39 DEF YieldSave, TokenMove, KeepsTokens
<1>40. CASE YieldPut(p)
  <2>1. current[p] \in F /\ PutsEntry(p, current[p])
    BY <1>40 DEF PutsEntry, YieldPut, PutWork
  <2> QED
    BY <2>1 DEF TokenMove, PutsEntry
<1>41. CASE YieldUnlock(p)
  BY <1>41 DEF YieldUnlock, TokenMove, KeepsTokens
<1> QED
  BY <1>1, <1>2, <1>3, <1>4, <1>5, <1>6, <1>7, <1>8, <1>9, <1>10, <1>11,
     <1>12, <1>13, <1>14, <1>15, <1>16, <1>17, <1>18, <1>19, <1>20, <1>21,
     <1>22, <1>23, <1>24, <1>25, <1>26, <1>27, <1>28, <1>29, <1>30, <1>31,
     <1>32, <1>33, <1>34, <1>34a, <1>34b, <1>35, <1>36, <1>37, <1>38, <1>39,
     <1>40, <1>41
     DEF StepOf

-----------------------------------------------------------------------------
(* The slots of the task that a processor runs *)

\* What a step of p may write: the slots of a task that it carries, the status
\* of a future whose lock it holds, if it was at rest or gets DETERMINED, and
\* the status of a task that nobody has seen.
Writes(p) == \A f \in F :
    /\ process'[f] # process[f] => Carries(p, f)
    /\ status'[f] # status[f] =>
          \/ Carries(p, f)
          \/ Holds(p, f) /\ (status[f] \in AtRest \/ status'[f] = "DETERMINED")
          \/ status[f] = "UNBORN"

\* Such a step does not spoil what the others rely on.
LEMMA WritesSpareOthers ==
  ASSUME Typed, HeldByOne, OneToken, NEW p \in Procs, OthersStay(p), Writes(p),
         NEW q \in Procs \ {p}, OwnTask(q)
  PROVE  OwnTask(q)'
<1>1. pc'[q] = pc[q] /\ arg'[q] = arg[q] /\ current'[q] = current[q]
      /\ list'[q] = list[q]
  BY DEF OthersStay
<1>2. ASSUME pc[q] = "awaitSetRunnable"
      PROVE  status'[arg[q]] = "DELAYED"
  <2>1. arg[q] \in F /\ Holds(q, arg[q]) /\ status[arg[q]] = "DELAYED"
    BY <1>2 DEF Typed, Places, WithArg, Awaiting, Holds, OwnTask
  <2>2. ~Holds(p, arg[q]) /\ ~Carries(p, arg[q])
    BY <2>1 DEF HeldByOne, OneToken, AtRest
  <2> QED
    BY <2>1, <2>2 DEF Writes
<1>3. ASSUME Runs(q)
      PROVE  /\ status'[current[q]] \in {"RUNNING", "DETERMINED"}
             /\ process'[current[q]] = q
  <2>1. current[q] \in F /\ Carries(q, current[q])
    BY <1>3 DEF Typed, TypeOK, Runs, Carries
  <2>2. ~Carries(p, current[q]) /\ status[current[q]] \notin AtRest
    BY <2>1 DEF OneToken
  <2> QED
    BY <1>3, <2>1, <2>2 DEF Writes, OwnTask, AtRest
<1>4. Runs(q)' <=> Runs(q)
  BY <1>1 DEF Runs
<1> QED
  BY <1>1, <1>2, <1>3, <1>4 DEF OwnTask

\* Every step writes no more than that.
LEMMA StepWrites ==
  ASSUME Typed, NEW p \in Procs, OwnTask(p), StepOf(p)
  PROVE  Writes(p)
<1> USE ShapeAssumption
    DEF Typed, TypeOK, Places, Idling, WithArg, Awaiting, Waking, Step, Goto,
        Set, slots, local, OwnTask, Writes, Carries, Ticket, Holds, AtRest
<1>1. CASE GetWork(p)
  BY <1>1 DEF GetWork
<1>2. CASE RunLock(p)
  BY <1>2 DEF RunLock
<1>3. CASE Run(p)
  BY <1>3 DEF Run
<1>4. CASE RunSkip(p)
  BY <1>4 DEF RunSkip
<1>5. CASE Spawn(p)
  BY <1>5 DEF Spawn
<1>6. CASE SpawnPut(p)
  BY <1>6 DEF SpawnPut, PutWork
<1>7. CASE SpawnDelayed(p)
  BY <1>7 DEF SpawnDelayed
<1>8. CASE Touch(p)
  BY <1>8 DEF Touch
<1>9. CASE AwaitLock(p)
  BY <1>9 DEF AwaitLock
<1>10. CASE AwaitKnown(p)
  BY <1>10 DEF AwaitKnown
<1>11. CASE AwaitUnknown(p)
  BY <1>11 DEF AwaitUnknown
<1>12. CASE AwaitSetRunnable(p)
  BY <1>12 DEF AwaitSetRunnable
<1>13. CASE AwaitPut(p)
  BY <1>13 DEF AwaitPut, PutWork
<1>14. CASE AwaitLockSelf(p)
  BY <1>14 DEF AwaitLockSelf
<1>15. CASE AwaitSave(p)
  BY <1>15 DEF AwaitSave
<1>16. CASE AwaitUnlock(p)
  BY <1>16 DEF AwaitUnlock
<1>17. CASE Leave(p)
  BY <1>17 DEF Leave
<1>18. CASE Finish(p)
  BY <1>18 DEF Finish
<1>19. CASE DetermineOther(p)
  BY <1>19 DEF DetermineOther
<1>20. CASE DetLock(p)
  BY <1>20 DEF DetLock
<1>21. CASE DetValue(p)
  BY <1>21 DEF DetValue, Final
<1>22. CASE DetStatus(p)
  BY <1>22 DEF DetStatus
<1>23. CASE DetFlag(p)
  BY <1>23 DEF DetFlag
<1>24. CASE DetTwice(p)
  BY <1>24 DEF DetTwice, Final, AfterDetermine
<1>25. CASE WakeLock(p)
  BY <1>25 DEF WakeLock
<1>26. CASE WakeMark(p)
  BY <1>26 DEF WakeMark
<1>27. CASE WakeSkip(p)
  BY <1>27 DEF WakeSkip
<1>28. CASE WakeSetRunnable(p)
  BY <1>28 DEF WakeSetRunnable
<1>29. CASE WakePut(p)
  BY <1>29 DEF WakePut, PutWork
<1>30. CASE WakePutFull(p)
  BY <1>30 DEF WakePutFull
<1>31. CASE WakeDone(p)
  BY <1>31 DEF WakeDone, AfterDetermine
<1>32. CASE Preempt(p)
  BY <1>32 DEF Preempt
<1>33. CASE PreemptLock(p)
  BY <1>33 DEF PreemptLock
<1>34. CASE PreemptSave(p)
  BY <1>34 DEF PreemptSave
<1>34a. CASE PreemptUnlock(p)
  BY <1>34a DEF PreemptUnlock
<1>34b. CASE PreemptLeave(p)
  BY <1>34b DEF PreemptLeave
<1>35. CASE PreemptSetRunnable(p)
  BY <1>35 DEF PreemptSetRunnable
<1>36. CASE PreemptPut(p)
  BY <1>36 DEF PreemptPut, PutWork
<1>37. CASE Yield(p)
  BY <1>37 DEF Yield
<1>38. CASE YieldLock(p)
  BY <1>38 DEF YieldLock
<1>39. CASE YieldSave(p)
  BY <1>39 DEF YieldSave
<1>40. CASE YieldPut(p)
  BY <1>40 DEF YieldPut, PutWork
<1>41. CASE YieldUnlock(p)
  BY <1>41 DEF YieldUnlock
<1> QED
  BY <1>1, <1>2, <1>3, <1>4, <1>5, <1>6, <1>7, <1>8, <1>9, <1>10, <1>11,
     <1>12, <1>13, <1>14, <1>15, <1>16, <1>17, <1>18, <1>19, <1>20, <1>21,
     <1>22, <1>23, <1>24, <1>25, <1>26, <1>27, <1>28, <1>29, <1>30, <1>31,
     <1>32, <1>33, <1>34, <1>34a, <1>34b, <1>35, <1>36, <1>37, <1>38, <1>39,
     <1>40, <1>41
     DEF StepOf

\* A step of p leaves its own task in order.
LEMMA StepOwnTask ==
  ASSUME Typed, OneToken, NEW p \in Procs, OwnTask(p), StepOf(p)
  PROVE  OwnTask(p)'
<1> USE ShapeAssumption
    DEF Typed, TypeOK, Places, Idling, WithArg, Awaiting, Waking, Step, Goto,
        Set, slots, local, OwnTask, Runs
<1>1. CASE GetWork(p)
  BY <1>1 DEF GetWork
<1>2. CASE RunLock(p)
  BY <1>2 DEF RunLock
<1>3. CASE Run(p)
  BY <1>3 DEF Run
<1>4. CASE RunSkip(p)
  BY <1>4 DEF RunSkip
<1>5. CASE Spawn(p)
  <2>1. PICK f \in Spawns[current[p]] \ Delayed :
          /\ status[f] = "UNBORN"
          /\ status' = [status EXCEPT ![f] = "RUNNABLE"]
          /\ arg' = [arg EXCEPT ![p] = f]
    BY <1>5 DEF Spawn
  <2>2. f \in F /\ Carries(p, current[p])
    BY <1>5 DEF Spawn, Carries
  <2>3. f # current[p]
    BY <2>1, <2>2 DEF OneToken, AtRest
  <2> QED
    BY <1>5, <2>1, <2>2, <2>3 DEF Spawn
<1>6. CASE SpawnPut(p)
  BY <1>6 DEF SpawnPut, PutWork
<1>7. CASE SpawnDelayed(p)
  BY <1>7 DEF SpawnDelayed
<1>8. CASE Touch(p)
  BY <1>8 DEF Touch
<1>9. CASE AwaitLock(p)
  BY <1>9 DEF AwaitLock
<1>10. CASE AwaitKnown(p)
  BY <1>10 DEF AwaitKnown
<1>11. CASE AwaitUnknown(p)
  BY <1>11 DEF AwaitUnknown
<1>12. CASE AwaitSetRunnable(p)
  BY <1>12 DEF AwaitSetRunnable
<1>13. CASE AwaitPut(p)
  BY <1>13 DEF AwaitPut, PutWork
<1>14. CASE AwaitLockSelf(p)
  BY <1>14 DEF AwaitLockSelf
<1>15. CASE AwaitSave(p)
  BY <1>15 DEF AwaitSave
<1>16. CASE AwaitUnlock(p)
  BY <1>16 DEF AwaitUnlock
<1>17. CASE Leave(p)
  BY <1>17 DEF Leave
<1>18. CASE Finish(p)
  BY <1>18 DEF Finish
<1>19. CASE DetermineOther(p)
  BY <1>19 DEF DetermineOther
<1>20. CASE DetLock(p)
  BY <1>20 DEF DetLock
<1>21. CASE DetValue(p)
  BY <1>21 DEF DetValue, Final
<1>22. CASE DetStatus(p)
  BY <1>22 DEF DetStatus
<1>23. CASE DetFlag(p)
  BY <1>23 DEF DetFlag
<1>24. CASE DetTwice(p)
  BY <1>24 DEF DetTwice, Final, AfterDetermine
<1>25. CASE WakeLock(p)
  BY <1>25 DEF WakeLock
<1>26. CASE WakeMark(p)
  <2>1. Head(list[p]) \in F /\ Carries(p, current[p])
    BY <1>26 DEF WakeMark, Carries
  <2>2. Head(list[p]) # current[p]
    BY <1>26, <2>1 DEF OneToken, AtRest, WakeMark
  <2> QED
    BY <1>26, <2>1, <2>2 DEF WakeMark
<1>27. CASE WakeSkip(p)
  BY <1>27 DEF WakeSkip
<1>28. CASE WakeSetRunnable(p)
  BY <1>28 DEF WakeSetRunnable
<1>29. CASE WakePut(p)
  BY <1>29 DEF WakePut, PutWork
<1>30. CASE WakePutFull(p)
  BY <1>30 DEF WakePutFull
<1>31. CASE WakeDone(p)
  BY <1>31 DEF WakeDone, AfterDetermine
<1>32. CASE Preempt(p)
  BY <1>32 DEF Preempt
<1>33. CASE PreemptLock(p)
  BY <1>33 DEF PreemptLock
<1>34. CASE PreemptSave(p)
  BY <1>34 DEF PreemptSave
<1>34a. CASE PreemptUnlock(p)
  BY <1>34a DEF PreemptUnlock
<1>34b. CASE PreemptLeave(p)
  BY <1>34b DEF PreemptLeave
<1>35. CASE PreemptSetRunnable(p)
  BY <1>35 DEF PreemptSetRunnable
<1>36. CASE PreemptPut(p)
  BY <1>36 DEF PreemptPut, PutWork
<1>37. CASE Yield(p)
  BY <1>37 DEF Yield
<1>38. CASE YieldLock(p)
  BY <1>38 DEF YieldLock
<1>39. CASE YieldSave(p)
  BY <1>39 DEF YieldSave
<1>40. CASE YieldPut(p)
  BY <1>40 DEF YieldPut, PutWork
<1>41. CASE YieldUnlock(p)
  BY <1>41 DEF YieldUnlock
<1> QED
  BY <1>1, <1>2, <1>3, <1>4, <1>5, <1>6, <1>7, <1>8, <1>9, <1>10, <1>11,
     <1>12, <1>13, <1>14, <1>15, <1>16, <1>17, <1>18, <1>19, <1>20, <1>21,
     <1>22, <1>23, <1>24, <1>25, <1>26, <1>27, <1>28, <1>29, <1>30, <1>31,
     <1>32, <1>33, <1>34, <1>34a, <1>34b, <1>35, <1>36, <1>37, <1>38, <1>39,
     <1>40, <1>41
     DEF StepOf

-----------------------------------------------------------------------------
(* Waiting and waking do not miss each other *)

\* Who is in an empty queue, in one that has grown by one, and in one that has
\* lost its head.
LEMMA InEmpty == ASSUME NEW x PROVE x \notin ToSet(<< >>)
BY DEF ToSet

LEMMA InAppend ==
  ASSUME NEW S, NEW s \in Seq(S), NEW y \in S
  PROVE  ToSet(Append(s, y)) = ToSet(s) \cup {y}
<1>1. \A i \in DOMAIN s : i \in DOMAIN Append(s, y) /\ Append(s, y)[i] = s[i]
  OBVIOUS
<1>2. DOMAIN Append(s, y) = DOMAIN s \cup {Len(s) + 1}
  OBVIOUS
<1>3. Append(s, y)[Len(s) + 1] = y
  OBVIOUS
<1> QED
  BY <1>1, <1>2, <1>3 DEF ToSet

LEMMA InTail ==
  ASSUME NEW S, NEW s \in Seq(S), s # << >>, NEW x \in ToSet(s), x # Head(s)
  PROVE  x \in ToSet(Tail(s))
<1>1. PICK i \in 1 .. Len(s) : x = s[i]
  BY DEF ToSet
<1>2. i # 1
  BY <1>1
<1>3. i - 1 \in DOMAIN Tail(s) /\ Tail(s)[i - 1] = s[i]
  BY <1>1, <1>2
<1> QED
  BY <1>1, <1>3 DEF ToSet

\* What a step of p may do to those who wait: they stay found, by p or in the
\* queue of the future, and whoever begins to wait is put into that queue.
WaitMove(p) == \A f \in F : status'[f] = "WAITING" =>
    /\ waitingOn'[f] \in F
    /\ \/ Registered(f)'
       \/ /\ status[f] = "WAITING" /\ waitingOn'[f] = waitingOn[f]
          /\ Finds(p, f) => Finds(p, f)'
          /\ Registered(f) => Finds(p, f)'

\* It determines a future, and touches its queue, under the lock of it.
WaitWrites(p) == \A f \in F :
    determined'[f] # determined[f] \/ waiters'[f] # waiters[f] => Holds(p, f)

\* A step that does no more loses no waiter.
LEMMA WaitMovesKeep ==
  ASSUME Typed, HeldByOne, WaitInv, NEW p \in Procs, OthersStay(p),
         WaitMove(p), WaitWrites(p), Queues(p)'
  PROVE  WaitInv'
<1>1. ASSUME NEW q \in Procs \ {p}
      PROVE  Queues(q)'
  <2>1. pc'[q] = pc[q] /\ arg'[q] = arg[q] /\ Queues(q)
    BY DEF OthersStay, WaitInv
  <2>2. ASSUME pc[q] \in {"awaitSetRunnable", "awaitPut", "awaitLockSelf",
                          "awaitSave", "detStatus", "detFlag"}
        PROVE  /\ determined'[arg[q]] = determined[arg[q]]
               /\ waiters'[arg[q]] = waiters[arg[q]]
    <3>1. arg[q] \in F /\ Holds(q, arg[q])
      BY <2>2 DEF Typed, Places, WithArg, Awaiting, Holds
    <3>2. ~Holds(p, arg[q])
      BY <3>1 DEF HeldByOne
    <3> QED
      BY <3>1, <3>2 DEF WaitWrites
  <2> QED
    BY <2>1, <2>2 DEF Queues
<1>2. ASSUME NEW f \in F, status'[f] = "WAITING"
      PROVE  /\ waitingOn'[f] \in F
             /\ Registered(f)' \/ \E q \in Procs : Finds(q, f)'
  <2>1. CASE Registered(f)'
    BY <1>2, <2>1 DEF WaitMove
  <2>2. CASE ~Registered(f)'
    <3>1. /\ status[f] = "WAITING" /\ waitingOn'[f] = waitingOn[f]
          /\ Finds(p, f) => Finds(p, f)'
          /\ Registered(f) => Finds(p, f)'
      BY <1>2, <2>2 DEF WaitMove
    <3>2. \A q \in Procs \ {p} : Finds(q, f) => Finds(q, f)'
      BY <3>1 DEF OthersStay, Finds
    <3> QED
      BY <1>2, <3>1, <3>2 DEF WaitInv, WaitMove
  <2> QED
    BY <2>1, <2>2
<1> QED
  BY <1>1, <1>2 DEF WaitInv

\* Every step touches determined and the queues only under the lock.
LEMMA StepWaitWrites ==
  ASSUME Typed, NEW p \in Procs, StepOf(p)
  PROVE  WaitWrites(p)
<1> USE DEF Typed, TypeOK, Places, Idling, WithArg, Awaiting, Step, Goto, Set,
            slots, WaitWrites, Holds
<1>1. CASE GetWork(p)
  BY <1>1 DEF GetWork
<1>2. CASE RunLock(p)
  BY <1>2 DEF RunLock
<1>3. CASE Run(p)
  BY <1>3 DEF Run
<1>4. CASE RunSkip(p)
  BY <1>4 DEF RunSkip
<1>5. CASE Spawn(p)
  BY <1>5 DEF Spawn
<1>6. CASE SpawnPut(p)
  BY <1>6 DEF SpawnPut, PutWork
<1>7. CASE SpawnDelayed(p)
  BY <1>7 DEF SpawnDelayed
<1>8. CASE Touch(p)
  BY <1>8 DEF Touch
<1>9. CASE AwaitLock(p)
  BY <1>9 DEF AwaitLock
<1>10. CASE AwaitKnown(p)
  BY <1>10 DEF AwaitKnown
<1>11. CASE AwaitUnknown(p)
  BY <1>11 DEF AwaitUnknown
<1>12. CASE AwaitSetRunnable(p)
  BY <1>12 DEF AwaitSetRunnable
<1>13. CASE AwaitPut(p)
  BY <1>13 DEF AwaitPut, PutWork
<1>14. CASE AwaitLockSelf(p)
  BY <1>14 DEF AwaitLockSelf
<1>15. CASE AwaitSave(p)
  BY <1>15 DEF AwaitSave
<1>16. CASE AwaitUnlock(p)
  BY <1>16 DEF AwaitUnlock
<1>17. CASE Leave(p)
  BY <1>17 DEF Leave
<1>18. CASE Finish(p)
  BY <1>18 DEF Finish
<1>19. CASE DetermineOther(p)
  BY <1>19 DEF DetermineOther
<1>20. CASE DetLock(p)
  BY <1>20 DEF DetLock
<1>21. CASE DetValue(p)
  BY <1>21 DEF DetValue, Final
<1>22. CASE DetStatus(p)
  BY <1>22 DEF DetStatus
<1>23. CASE DetFlag(p)
  BY <1>23 DEF DetFlag
<1>24. CASE DetTwice(p)
  BY <1>24 DEF DetTwice, Final, AfterDetermine
<1>25. CASE WakeLock(p)
  BY <1>25 DEF WakeLock
<1>26. CASE WakeMark(p)
  BY <1>26 DEF WakeMark
<1>27. CASE WakeSkip(p)
  BY <1>27 DEF WakeSkip
<1>28. CASE WakeSetRunnable(p)
  BY <1>28 DEF WakeSetRunnable
<1>29. CASE WakePut(p)
  BY <1>29 DEF WakePut, PutWork
<1>30. CASE WakePutFull(p)
  BY <1>30 DEF WakePutFull
<1>31. CASE WakeDone(p)
  BY <1>31 DEF WakeDone, AfterDetermine
<1>32. CASE Preempt(p)
  BY <1>32 DEF Preempt
<1>33. CASE PreemptLock(p)
  BY <1>33 DEF PreemptLock
<1>34. CASE PreemptSave(p)
  BY <1>34 DEF PreemptSave
<1>34a. CASE PreemptUnlock(p)
  BY <1>34a DEF PreemptUnlock
<1>34b. CASE PreemptLeave(p)
  BY <1>34b DEF PreemptLeave
<1>35. CASE PreemptSetRunnable(p)
  BY <1>35 DEF PreemptSetRunnable
<1>36. CASE PreemptPut(p)
  BY <1>36 DEF PreemptPut, PutWork
<1>37. CASE Yield(p)
  BY <1>37 DEF Yield
<1>38. CASE YieldLock(p)
  BY <1>38 DEF YieldLock
<1>39. CASE YieldSave(p)
  BY <1>39 DEF YieldSave
<1>40. CASE YieldPut(p)
  BY <1>40 DEF YieldPut, PutWork
<1>41. CASE YieldUnlock(p)
  BY <1>41 DEF YieldUnlock
<1> QED
  BY <1>1, <1>2, <1>3, <1>4, <1>5, <1>6, <1>7, <1>8, <1>9, <1>10, <1>11,
     <1>12, <1>13, <1>14, <1>15, <1>16, <1>17, <1>18, <1>19, <1>20, <1>21,
     <1>22, <1>23, <1>24, <1>25, <1>26, <1>27, <1>28, <1>29, <1>30, <1>31,
     <1>32, <1>33, <1>34, <1>34a, <1>34b, <1>35, <1>36, <1>37, <1>38, <1>39,
     <1>40, <1>41
     DEF StepOf

\* Every step of p keeps what p relies on when it queues or determines.
LEMMA StepQueues ==
  ASSUME Typed, NEW p \in Procs, Queues(p), StepOf(p)
  PROVE  Queues(p)'
<1> USE DEF Typed, TypeOK, Places, Idling, WithArg, Awaiting, Step, Goto, Set,
            slots, local, Queues
<1>1. CASE GetWork(p)
  BY <1>1 DEF GetWork
<1>2. CASE RunLock(p)
  BY <1>2 DEF RunLock
<1>3. CASE Run(p)
  BY <1>3 DEF Run
<1>4. CASE RunSkip(p)
  BY <1>4 DEF RunSkip
<1>5. CASE Spawn(p)
  BY <1>5 DEF Spawn
<1>6. CASE SpawnPut(p)
  BY <1>6 DEF SpawnPut, PutWork
<1>7. CASE SpawnDelayed(p)
  BY <1>7 DEF SpawnDelayed
<1>8. CASE Touch(p)
  BY <1>8 DEF Touch
<1>9. CASE AwaitLock(p)
  BY <1>9 DEF AwaitLock
<1>10. CASE AwaitKnown(p)
  BY <1>10 DEF AwaitKnown
<1>11. CASE AwaitUnknown(p)
  BY <1>11 DEF AwaitUnknown
<1>12. CASE AwaitSetRunnable(p)
  BY <1>12 DEF AwaitSetRunnable
<1>13. CASE AwaitPut(p)
  BY <1>13 DEF AwaitPut, PutWork
<1>14. CASE AwaitLockSelf(p)
  BY <1>14 DEF AwaitLockSelf
<1>15. CASE AwaitSave(p)
  BY <1>15 DEF AwaitSave
<1>16. CASE AwaitUnlock(p)
  BY <1>16 DEF AwaitUnlock
<1>17. CASE Leave(p)
  BY <1>17 DEF Leave
<1>18. CASE Finish(p)
  BY <1>18 DEF Finish
<1>19. CASE DetermineOther(p)
  BY <1>19 DEF DetermineOther
<1>20. CASE DetLock(p)
  BY <1>20 DEF DetLock
<1>21. CASE DetValue(p)
  BY <1>21 DEF DetValue, Final
<1>22. CASE DetStatus(p)
  BY <1>22 DEF DetStatus
<1>23. CASE DetFlag(p)
  BY <1>23 DEF DetFlag
<1>24. CASE DetTwice(p)
  BY <1>24 DEF DetTwice, Final, AfterDetermine
<1>25. CASE WakeLock(p)
  BY <1>25 DEF WakeLock
<1>26. CASE WakeMark(p)
  BY <1>26 DEF WakeMark
<1>27. CASE WakeSkip(p)
  BY <1>27 DEF WakeSkip
<1>28. CASE WakeSetRunnable(p)
  BY <1>28 DEF WakeSetRunnable
<1>29. CASE WakePut(p)
  BY <1>29 DEF WakePut, PutWork
<1>30. CASE WakePutFull(p)
  BY <1>30 DEF WakePutFull
<1>31. CASE WakeDone(p)
  BY <1>31 DEF WakeDone, AfterDetermine
<1>32. CASE Preempt(p)
  BY <1>32 DEF Preempt
<1>33. CASE PreemptLock(p)
  BY <1>33 DEF PreemptLock
<1>34. CASE PreemptSave(p)
  BY <1>34 DEF PreemptSave
<1>34a. CASE PreemptUnlock(p)
  BY <1>34a DEF PreemptUnlock
<1>34b. CASE PreemptLeave(p)
  BY <1>34b DEF PreemptLeave
<1>35. CASE PreemptSetRunnable(p)
  BY <1>35 DEF PreemptSetRunnable
<1>36. CASE PreemptPut(p)
  BY <1>36 DEF PreemptPut, PutWork
<1>37. CASE Yield(p)
  BY <1>37 DEF Yield
<1>38. CASE YieldLock(p)
  BY <1>38 DEF YieldLock
<1>39. CASE YieldSave(p)
  BY <1>39 DEF YieldSave
<1>40. CASE YieldPut(p)
  BY <1>40 DEF YieldPut, PutWork
<1>41. CASE YieldUnlock(p)
  BY <1>41 DEF YieldUnlock
<1> QED
  BY <1>1, <1>2, <1>3, <1>4, <1>5, <1>6, <1>7, <1>8, <1>9, <1>10, <1>11,
     <1>12, <1>13, <1>14, <1>15, <1>16, <1>17, <1>18, <1>19, <1>20, <1>21,
     <1>22, <1>23, <1>24, <1>25, <1>26, <1>27, <1>28, <1>29, <1>30, <1>31,
     <1>32, <1>33, <1>34, <1>34a, <1>34b, <1>35, <1>36, <1>37, <1>38, <1>39,
     <1>40, <1>41
     DEF StepOf

\* Every step keeps the waiters found, unless a waker forgets the rest of its
\* list because the heap is full.
LEMMA StepWaitMove ==
  ASSUME MaxFull = 0, Typed, OneToken, WaitInv, NEW p \in Procs, StepOf(p)
  PROVE  WaitMove(p)
<1> USE DEF Typed, TypeOK, Places, Idling, WithArg, Awaiting, Waking, Step,
            Goto, Set, slots, local, WaitMove, WaitInv, Registered, Finds
<1>1. CASE GetWork(p)
  BY <1>1 DEF GetWork
<1>2. CASE RunLock(p)
  BY <1>2 DEF RunLock
<1>3. CASE Run(p)
  BY <1>3 DEF Run
<1>4. CASE RunSkip(p)
  BY <1>4 DEF RunSkip
<1>5. CASE Spawn(p)
  BY <1>5 DEF Spawn
<1>6. CASE SpawnPut(p)
  BY <1>6 DEF SpawnPut, PutWork
<1>7. CASE SpawnDelayed(p)
  BY <1>7 DEF SpawnDelayed
<1>8. CASE Touch(p)
  BY <1>8 DEF Touch
<1>9. CASE AwaitLock(p)
  BY <1>9 DEF AwaitLock
<1>10. CASE AwaitKnown(p)
  BY <1>10 DEF AwaitKnown
<1>11. CASE AwaitUnknown(p)
  BY <1>11 DEF AwaitUnknown
<1>12. CASE AwaitSetRunnable(p)
  BY <1>12 DEF AwaitSetRunnable
<1>13. CASE AwaitPut(p)
  BY <1>13 DEF AwaitPut, PutWork
<1>14. CASE AwaitLockSelf(p)
  BY <1>14 DEF AwaitLockSelf
<1>15. CASE AwaitSave(p)
  <2>1. arg[p] \in F /\ current[p] \in F /\ arg[p] # current[p]
    BY <1>15 DEF AwaitSave
  <2>2. ~determined[arg[p]]
    BY <1>15 DEF AwaitSave, Queues
  <2>3. ToSet(waiters'[arg[p]]) = ToSet(waiters[arg[p]]) \cup {current[p]}
    <3>1. waiters[arg[p]] \in Seq(F)
      BY <2>1
    <3>2. waiters'[arg[p]] = Append(waiters[arg[p]], current[p])
      BY <1>15, <2>1 DEF AwaitSave
    <3> QED
      BY <2>1, <3>1, <3>2, InAppend
  <2>4. \A g \in F \ {arg[p]} : waiters'[g] = waiters[g]
    BY <1>15, <2>1 DEF AwaitSave
  <2>5. waitingOn'[current[p]] = arg[p]
    BY <1>15, <2>1 DEF AwaitSave
  <2>6. \A f \in F : f = current[p] => Registered(f)'
    BY <1>15, <2>1, <2>2, <2>3, <2>5 DEF AwaitSave
  <2>7. \A f \in F \ {current[p]} :
           status'[f] = status[f] /\ waitingOn'[f] = waitingOn[f]
    BY <1>15, <2>1 DEF AwaitSave
  <2>8. ASSUME NEW f \in F \ {current[p]}, status[f] = "WAITING"
        PROVE  /\ Registered(f) => Registered(f)'
               /\ ~Finds(p, f)
    BY <1>15, <2>1, <2>3, <2>4, <2>7, <2>8 DEF AwaitSave
  <2>9. ASSUME NEW f \in F \ {current[p]}, status'[f] = "WAITING"
        PROVE  /\ status[f] = "WAITING" /\ waitingOn'[f] = waitingOn[f]
               /\ waitingOn[f] \in F
    BY <2>7, <2>9
  <2> HIDE DEF Registered, Finds
  <2>10. ASSUME NEW f \in F, status'[f] = "WAITING"
         PROVE  /\ waitingOn'[f] \in F
                /\ \/ Registered(f)'
                   \/ /\ status[f] = "WAITING" /\ waitingOn'[f] = waitingOn[f]
                      /\ Finds(p, f) => Finds(p, f)'
                      /\ Registered(f) => Finds(p, f)'
    <3>1. CASE f = current[p]
      BY <2>1, <2>5, <2>6, <3>1
    <3>2. CASE f # current[p]
      BY <2>8, <2>9, <2>10, <3>2
    <3> QED
      BY <3>1, <3>2
  <2> QED
    BY <2>10
<1>16. CASE AwaitUnlock(p)
  BY <1>16 DEF AwaitUnlock
<1>17. CASE Leave(p)
  BY <1>17 DEF Leave
<1>18. CASE Finish(p)
  BY <1>18 DEF Finish
<1>19. CASE DetermineOther(p)
  BY <1>19 DEF DetermineOther
<1>20. CASE DetLock(p)
  BY <1>20 DEF DetLock
<1>21. CASE DetValue(p)
  BY <1>21 DEF DetValue, Final
<1>22. CASE DetStatus(p)
  BY <1>22 DEF DetStatus
<1>23. CASE DetFlag(p)
  <2>1. arg[p] \in F /\ waiters[arg[p]] = << >>
    BY <1>23 DEF DetFlag, Queues
  <2>2. \A f \in F : Registered(f) => waitingOn[f] # arg[p]
    BY <2>1, InEmpty
  <2> QED
    BY <1>23, <2>1, <2>2 DEF DetFlag
<1>24. CASE DetTwice(p)
  BY <1>24 DEF DetTwice, Final, AfterDetermine
<1>25. CASE WakeLock(p)
  BY <1>25 DEF WakeLock
<1>26. CASE WakeMark(p)
  BY <1>26 DEF WakeMark
<1>27. CASE WakeSkip(p)
  <2>1. /\ list[p] \in Seq(F) /\ list[p] # << >>
        /\ list' = [list EXCEPT ![p] = Tail(@)]
    BY <1>27 DEF WakeSkip
  <2>2. ASSUME NEW f \in F, status[f] = "WAITING", Finds(p, f)
        PROVE  Finds(p, f)'
    <3>1. f # Head(list[p])
      BY <1>27, <2>2 DEF WakeSkip
    <3>2. f \in ToSet(Tail(list[p]))
      BY <2>1, <2>2, <3>1, InTail
    <3> QED
      BY <1>27, <2>1, <2>2, <3>2 DEF WakeSkip
  <2> QED
    BY <1>27, <2>2 DEF WakeSkip
<1>28. CASE WakeSetRunnable(p)
  BY <1>28 DEF WakeSetRunnable
<1>29. CASE WakePut(p)
  <2>1. /\ list[p] \in Seq(F) /\ list[p] # << >>
        /\ list' = [list EXCEPT ![p] = Tail(@)]
    BY <1>29 DEF WakePut
  <2>2. ASSUME NEW f \in F, status[f] = "WAITING", Finds(p, f)
        PROVE  Finds(p, f)'
    <3>1. f # Head(list[p])
      BY <1>29, <2>2 DEF WakePut, OneToken, AtRest, Carries, Ticket
    <3>2. f \in ToSet(Tail(list[p]))
      BY <2>1, <2>2, <3>1, InTail
    <3> QED
      BY <1>29, <2>1, <2>2, <3>2 DEF WakePut
  <2> QED
    BY <1>29, <2>2 DEF WakePut
<1>30. CASE WakePutFull(p)
  BY <1>30 DEF WakePutFull
<1>31. CASE WakeDone(p)
  <2>1. \A f \in F : ~Finds(p, f)
    BY <1>31, InEmpty DEF WakeDone
  <2> QED
    BY <1>31, <2>1 DEF WakeDone, AfterDetermine
<1>32. CASE Preempt(p)
  BY <1>32 DEF Preempt
<1>33. CASE PreemptLock(p)
  BY <1>33 DEF PreemptLock
<1>34. CASE PreemptSave(p)
  BY <1>34 DEF PreemptSave
<1>34a. CASE PreemptUnlock(p)
  BY <1>34a DEF PreemptUnlock
<1>34b. CASE PreemptLeave(p)
  BY <1>34b DEF PreemptLeave
<1>35. CASE PreemptSetRunnable(p)
  BY <1>35 DEF PreemptSetRunnable
<1>36. CASE PreemptPut(p)
  BY <1>36 DEF PreemptPut, PutWork
<1>37. CASE Yield(p)
  BY <1>37 DEF Yield
<1>38. CASE YieldLock(p)
  BY <1>38 DEF YieldLock
<1>39. CASE YieldSave(p)
  BY <1>39 DEF YieldSave
<1>40. CASE YieldPut(p)
  BY <1>40 DEF YieldPut, PutWork
<1>41. CASE YieldUnlock(p)
  BY <1>41 DEF YieldUnlock
<1> QED
  BY <1>1, <1>2, <1>3, <1>4, <1>5, <1>6, <1>7, <1>8, <1>9, <1>10, <1>11,
     <1>12, <1>13, <1>14, <1>15, <1>16, <1>17, <1>18, <1>19, <1>20, <1>21,
     <1>22, <1>23, <1>24, <1>25, <1>26, <1>27, <1>28, <1>29, <1>30, <1>31,
     <1>32, <1>33, <1>34, <1>34a, <1>34b, <1>35, <1>36, <1>37, <1>38, <1>39,
     <1>40, <1>41
     DEF StepOf

-----------------------------------------------------------------------------
(* A RUNNABLE task is queued exactly once *)

\* What a step of p may do to f: nothing but move the ticket between p and the
\* queue; change a task that it carries or that was at rest, and then it has
\* the ticket if it made the task RUNNABLE; determine a future of no task.
QueuedMove(p, f) ==
    IF f \in Tasks
    THEN \/ /\ status'[f] = status[f] /\ process'[f] = process[f]
            /\ work'[f] = 1 \/ Ticket(p, f)' <=> work[f] = 1 \/ Ticket(p, f)
         \/ /\ Carries(p, f) \/ status[f] \in AtRest
            /\ status[f] # "DETERMINED"
            /\ work'[f] = work[f]
            /\ status'[f] = "RUNNABLE" <=> Ticket(p, f)'
            /\ status'[f] \in {"RUNNING", "DETERMINED"} \/ process'[f] = "code"
    ELSE /\ status'[f] \in {status[f], "DETERMINED"}
         /\ process'[f] = process[f] /\ work'[f] = 0
         /\ ~Carries(p, f)'

\* A step that does no more keeps the tickets and RUNNABLE together.
LEMMA QueuedMovesKeep ==
  ASSUME Typed, OneToken, QueuedInv, NEW p \in Procs, OthersStay(p),
         \A f \in F : QueuedMove(p, f), OwnQueued(p)'
  PROVE  QueuedInv'
<1>1. \A q \in Procs \ {p}, f \in F :
         (Carries(q, f)' <=> Carries(q, f)) /\ (Ticket(q, f)' <=> Ticket(q, f))
  BY DEF OthersStay, Carries, Ticket
<1>2. \A q \in Procs, f \in F : Ticket(q, f) => Carries(q, f)
  BY DEF Carries
<1>3. ASSUME NEW f \in F PROVE QueuedTask(f)'
  <2>1. QueuedTask(f) /\ QueuedMove(p, f)
    BY DEF QueuedInv
  <2>2. CASE f \notin Tasks
    <3>1. \A q \in Procs : ~Carries(q, f)' /\ ~Ticket(q, f)'
      BY <1>1, <1>2, <2>1, <2>2 DEF QueuedTask, QueuedMove, Carries
    <3> QED
      BY <2>1, <2>2, <3>1 DEF QueuedTask, QueuedMove
  <2>3. CASE /\ f \in Tasks
             /\ status'[f] = status[f] /\ process'[f] = process[f]
             /\ work'[f] = 1 \/ Ticket(p, f)' <=> work[f] = 1 \/ Ticket(p, f)
    BY <1>1, <2>1, <2>3 DEF QueuedTask
  <2>4. CASE /\ f \in Tasks
             /\ Carries(p, f) \/ status[f] \in AtRest
             /\ work'[f] = work[f]
             /\ status'[f] = "RUNNABLE" <=> Ticket(p, f)'
             /\ status'[f] \in {"RUNNING", "DETERMINED"} \/ process'[f] = "code"
    <3>1. work[f] = 0 /\ \A q \in Procs \ {p} : ~Carries(q, f)
      BY <2>4 DEF OneToken
    <3>2. \A q \in Procs \ {p} : ~Ticket(q, f)'
      BY <1>1, <1>2, <3>1
    <3> QED
      BY <2>4, <3>1, <3>2 DEF QueuedTask
  <2> QED
    BY <2>1, <2>2, <2>3, <2>4 DEF QueuedMove
<1>4. ASSUME NEW q \in Procs \ {p} PROVE OwnQueued(q)'
  <2>1. pc'[q] = pc[q] /\ arg'[q] = arg[q] /\ current'[q] = current[q]
        /\ OwnQueued(q)
    BY DEF OthersStay, QueuedInv
  <2>2. ASSUME pc[q] = "preemptSetRunnable"
        PROVE  status'[arg[q]] = status[arg[q]]
    <3>1. arg[q] \in F /\ Carries(q, arg[q]) /\ status[arg[q]] = "SUSPENDED"
      BY <2>1, <2>2 DEF Typed, Places, WithArg, Carries, OwnQueued
    <3>2. ~Carries(p, arg[q]) /\ arg[q] \in Tasks
      BY <3>1 DEF OneToken, QueuedInv, QueuedTask
    <3> QED
      BY <3>1, <3>2 DEF QueuedMove, AtRest
  <2>3. ASSUME pc[q] \in {"preemptUnlock", "preemptLeave"}
        PROVE  status'[current[q]] = status[current[q]]
    <3>1. current[q] \in F /\ Carries(q, current[q])
          /\ status[current[q]] = "SUSPENDED"
      BY <2>1, <2>3 DEF Typed, Places, Idling, Carries, OwnQueued
    <3>2. ~Carries(p, current[q]) /\ current[q] \in Tasks
      BY <3>1 DEF OneToken, QueuedInv, QueuedTask
    <3> QED
      BY <3>1, <3>2 DEF QueuedMove, AtRest
  <2>4. ASSUME Runs(q), status'[current[q]] = "DETERMINED"
        PROVE  status[current[q]] = "DETERMINED"
    <3>1. current[q] \in F /\ Carries(q, current[q])
      BY <2>4 DEF Typed, TypeOK, Runs, Carries
    <3>2. /\ ~Carries(p, current[q]) /\ status[current[q]] \notin AtRest
          /\ current[q] \in Tasks
      BY <3>1 DEF OneToken, QueuedInv, QueuedTask
    <3> QED
      BY <2>4, <3>1, <3>2 DEF QueuedMove
  <2> QED
    BY <2>1, <2>2, <2>3, <2>4 DEF OwnQueued, Runs
<1> QED
  BY <1>3, <1>4 DEF QueuedInv

\* Every step of p keeps what p relies on when it determines or suspends.
LEMMA StepOwnQueued ==
  ASSUME OnlySelfDetermined, MaxFull = 0,
         Typed, QueuedInv, NEW p \in Procs, StepOf(p)
  PROVE  OwnQueued(p)'
<1>. OwnQueued(p) /\ (Runs(p) => current[p] \in Tasks)
  BY DEF QueuedInv, QueuedTask, Carries, Typed, TypeOK, Runs
<1> USE ShapeAssumption
    DEF Typed, TypeOK, Places, Idling, WithArg, Awaiting, Step, Goto, Set,
        slots, local, OwnQueued, Runs, OnlySelfDetermined
<1>1. CASE GetWork(p)
  BY <1>1 DEF GetWork
<1>2. CASE RunLock(p)
  BY <1>2 DEF RunLock
<1>3. CASE Run(p)
  BY <1>3 DEF Run
<1>4. CASE RunSkip(p)
  BY <1>4 DEF RunSkip
<1>5. CASE Spawn(p)
  BY <1>5 DEF Spawn
<1>6. CASE SpawnPut(p)
  BY <1>6 DEF SpawnPut, PutWork
<1>7. CASE SpawnDelayed(p)
  BY <1>7 DEF SpawnDelayed
<1>8. CASE Touch(p)
  BY <1>8 DEF Touch
<1>9. CASE AwaitLock(p)
  BY <1>9 DEF AwaitLock
<1>10. CASE AwaitKnown(p)
  BY <1>10 DEF AwaitKnown
<1>11. CASE AwaitUnknown(p)
  BY <1>11 DEF AwaitUnknown
<1>12. CASE AwaitSetRunnable(p)
  BY <1>12 DEF AwaitSetRunnable
<1>13. CASE AwaitPut(p)
  BY <1>13 DEF AwaitPut, PutWork
<1>14. CASE AwaitLockSelf(p)
  BY <1>14 DEF AwaitLockSelf
<1>15. CASE AwaitSave(p)
  BY <1>15 DEF AwaitSave
<1>16. CASE AwaitUnlock(p)
  BY <1>16 DEF AwaitUnlock
<1>17. CASE Leave(p)
  BY <1>17 DEF Leave
<1>18. CASE Finish(p)
  BY <1>18 DEF Finish
<1>19. CASE DetermineOther(p)
  <2>1. PICK g \in Determines[current[p]] : arg' = [arg EXCEPT ![p] = g]
    BY <1>19 DEF DetermineOther
  <2>2. g \in F /\ g \notin Tasks
    BY <1>19 DEF DetermineOther
  <2> QED
    BY <1>19, <2>1, <2>2 DEF DetermineOther
<1>20. CASE DetLock(p)
  BY <1>20 DEF DetLock
<1>21. CASE DetValue(p)
  BY <1>21 DEF DetValue, Final
<1>22. CASE DetStatus(p)
  BY <1>22 DEF DetStatus
<1>23. CASE DetFlag(p)
  BY <1>23 DEF DetFlag
<1>24. CASE DetTwice(p)
  BY <1>24 DEF DetTwice, Final, AfterDetermine
<1>25. CASE WakeLock(p)
  BY <1>25 DEF WakeLock
<1>26. CASE WakeMark(p)
  BY <1>26 DEF WakeMark
<1>27. CASE WakeSkip(p)
  BY <1>27 DEF WakeSkip
<1>28. CASE WakeSetRunnable(p)
  BY <1>28 DEF WakeSetRunnable
<1>29. CASE WakePut(p)
  BY <1>29 DEF WakePut, PutWork
<1>30. CASE WakePutFull(p)
  BY <1>30 DEF WakePutFull
<1>31. CASE WakeDone(p)
  BY <1>31 DEF WakeDone, AfterDetermine
<1>32. CASE Preempt(p)
  BY <1>32 DEF Preempt
<1>33. CASE PreemptLock(p)
  BY <1>33 DEF PreemptLock
<1>34. CASE PreemptSave(p)
  BY <1>34 DEF PreemptSave
<1>34a. CASE PreemptUnlock(p)
  BY <1>34a DEF PreemptUnlock
<1>34b. CASE PreemptLeave(p)
  BY <1>34b DEF PreemptLeave
<1>35. CASE PreemptSetRunnable(p)
  BY <1>35 DEF PreemptSetRunnable
<1>36. CASE PreemptPut(p)
  BY <1>36 DEF PreemptPut, PutWork
<1>37. CASE Yield(p)
  BY <1>37 DEF Yield
<1>38. CASE YieldLock(p)
  BY <1>38 DEF YieldLock
<1>39. CASE YieldSave(p)
  BY <1>39 DEF YieldSave
<1>40. CASE YieldPut(p)
  BY <1>40 DEF YieldPut, PutWork
<1>41. CASE YieldUnlock(p)
  BY <1>41 DEF YieldUnlock
<1> QED
  BY <1>1, <1>2, <1>3, <1>4, <1>5, <1>6, <1>7, <1>8, <1>9, <1>10, <1>11,
     <1>12, <1>13, <1>14, <1>15, <1>16, <1>17, <1>18, <1>19, <1>20, <1>21,
     <1>22, <1>23, <1>24, <1>25, <1>26, <1>27, <1>28, <1>29, <1>30, <1>31,
     <1>32, <1>33, <1>34, <1>34a, <1>34b, <1>35, <1>36, <1>37, <1>38, <1>39,
     <1>40, <1>41
     DEF StepOf

\* Every step does no more, unless a task is determined by another one or a
\* waker finds the heap full.
LEMMA StepQueuedMove ==
  ASSUME OnlySelfDetermined, MaxFull = 0,
         Typed, TokenInv, QueuedInv, NEW p \in Procs, StepOf(p), NEW f \in F
  PROVE  QueuedMove(p, f)
<1>. /\ f \notin Tasks => /\ status[f] \in {"CREATED", "DETERMINED"}
                          /\ work[f] = 0 /\ ~Carries(p, f)
     /\ work[f] = 1 \/ Ticket(p, f) => status[f] = "RUNNABLE"
     /\ status[f] \notin {"RUNNING", "DETERMINED"} => process[f] = "code"
  BY DEF QueuedInv, QueuedTask
<1>. /\ Carries(p, f) \/ status[f] \in AtRest => work[f] = 0
     /\ status[f] \in AtRest => ~Carries(p, f)
     /\ work[f] \in {0, 1} /\ OwnTask(p) /\ OwnQueued(p)
  BY DEF TokenInv, OneToken, QueuedInv
<1> USE ShapeAssumption
    DEF Typed, TypeOK, Places, Idling, WithArg, Awaiting, Waking, Step, Goto,
        Set, slots, local, OwnTask, OwnQueued, Carries, Ticket, AtRest,
        Runs, QueuedMove
<1>1. CASE GetWork(p)
  BY <1>1 DEF GetWork
<1>2. CASE RunLock(p)
  BY <1>2 DEF RunLock
<1>3. CASE Run(p)
  BY <1>3 DEF Run
<1>4. CASE RunSkip(p)
  BY <1>4 DEF RunSkip
<1>5. CASE Spawn(p)
  BY <1>5 DEF Spawn
<1>6. CASE SpawnPut(p)
  BY <1>6 DEF SpawnPut, PutWork
<1>7. CASE SpawnDelayed(p)
  BY <1>7 DEF SpawnDelayed
<1>8. CASE Touch(p)
  BY <1>8 DEF Touch
<1>9. CASE AwaitLock(p)
  BY <1>9 DEF AwaitLock
<1>10. CASE AwaitKnown(p)
  BY <1>10 DEF AwaitKnown
<1>11. CASE AwaitUnknown(p)
  BY <1>11 DEF AwaitUnknown
<1>12. CASE AwaitSetRunnable(p)
  BY <1>12 DEF AwaitSetRunnable
<1>13. CASE AwaitPut(p)
  BY <1>13 DEF AwaitPut, PutWork
<1>14. CASE AwaitLockSelf(p)
  BY <1>14 DEF AwaitLockSelf
<1>15. CASE AwaitSave(p)
  BY <1>15 DEF AwaitSave
<1>16. CASE AwaitUnlock(p)
  BY <1>16 DEF AwaitUnlock
<1>17. CASE Leave(p)
  BY <1>17 DEF Leave
<1>18. CASE Finish(p)
  BY <1>18 DEF Finish
<1>19. CASE DetermineOther(p)
  BY <1>19 DEF DetermineOther
<1>20. CASE DetLock(p)
  BY <1>20 DEF DetLock
<1>21. CASE DetValue(p)
  BY <1>21 DEF DetValue, Final
<1>22. CASE DetStatus(p)
  BY <1>22 DEF DetStatus
<1>23. CASE DetFlag(p)
  BY <1>23 DEF DetFlag
<1>24. CASE DetTwice(p)
  BY <1>24 DEF DetTwice, Final, AfterDetermine
<1>25. CASE WakeLock(p)
  BY <1>25 DEF WakeLock
<1>26. CASE WakeMark(p)
  BY <1>26 DEF WakeMark
<1>27. CASE WakeSkip(p)
  BY <1>27 DEF WakeSkip
<1>28. CASE WakeSetRunnable(p)
  BY <1>28 DEF WakeSetRunnable
<1>29. CASE WakePut(p)
  BY <1>29 DEF WakePut, PutWork
<1>30. CASE WakePutFull(p)
  BY <1>30 DEF WakePutFull
<1>31. CASE WakeDone(p)
  BY <1>31 DEF WakeDone, AfterDetermine
<1>32. CASE Preempt(p)
  BY <1>32 DEF Preempt
<1>33. CASE PreemptLock(p)
  BY <1>33 DEF PreemptLock
<1>34. CASE PreemptSave(p)
  BY <1>34 DEF PreemptSave
<1>34a. CASE PreemptUnlock(p)
  BY <1>34a DEF PreemptUnlock
<1>34b. CASE PreemptLeave(p)
  BY <1>34b DEF PreemptLeave
<1>35. CASE PreemptSetRunnable(p)
  BY <1>35 DEF PreemptSetRunnable
<1>36. CASE PreemptPut(p)
  BY <1>36 DEF PreemptPut, PutWork
<1>37. CASE Yield(p)
  BY <1>37 DEF Yield
<1>38. CASE YieldLock(p)
  BY <1>38 DEF YieldLock
<1>39. CASE YieldSave(p)
  BY <1>39 DEF YieldSave
<1>40. CASE YieldPut(p)
  BY <1>40 DEF YieldPut, PutWork
<1>41. CASE YieldUnlock(p)
  BY <1>41 DEF YieldUnlock
<1> QED
  BY <1>1, <1>2, <1>3, <1>4, <1>5, <1>6, <1>7, <1>8, <1>9, <1>10, <1>11,
     <1>12, <1>13, <1>14, <1>15, <1>16, <1>17, <1>18, <1>19, <1>20, <1>21,
     <1>22, <1>23, <1>24, <1>25, <1>26, <1>27, <1>28, <1>29, <1>30, <1>31,
     <1>32, <1>33, <1>34, <1>34a, <1>34b, <1>35, <1>36, <1>37, <1>38, <1>39,
     <1>40, <1>41
     DEF StepOf

-----------------------------------------------------------------------------
(* The invariants, from the initial state on *)

\* What holds of every program.
IInv == Typed /\ HeldByOne /\ TokenInv

\* The invariant holds at first ...
LEMMA InitIInv == Init => IInv
<1> SUFFICES ASSUME Init PROVE IInv
  OBVIOUS
<1> USE ShapeAssumption, BoundsAssumption DEF Init
<1>1. Typed
  <2>1. << >> \in Seq(F)
    OBVIOUS
  <2>2. /\ waiters \in [F -> Seq(F)] /\ list \in [Procs -> Seq(F)]
        /\ status \in [F -> Statuses] /\ pc \in [Procs -> Labels]
    BY <2>1 DEF Statuses, Labels
  <2>3. work \in [F -> Nat] /\ process \in [F -> {"code"} \cup Procs]
    OBVIOUS
  <2>4. /\ preempted \in 0 .. MaxPreempt /\ full \in 0 .. MaxFull
        /\ collections \in 0 .. MaxCollect /\ parked \in SUBSET Procs
    OBVIOUS
  <2>5. /\ lock \in [F -> BOOLEAN] /\ determined \in [F -> BOOLEAN]
        /\ valued \in [F -> BOOLEAN] /\ collecting \in BOOLEAN
        /\ waitingOn \in [F -> F \cup {None}]
        /\ current \in [Procs -> F \cup {None}]
        /\ arg \in [Procs -> F \cup {None}]
    OBVIOUS
  <2>6. TypeOK
    BY <2>2, <2>3, <2>4, <2>5 DEF TypeOK
  <2>7. Places
    BY DEF Places, Idling, WithArg, Awaiting, Waking
  <2> QED
    BY <2>6, <2>7 DEF Typed
<1>2. \A p \in Procs, f \in F : ~Holds(p, f) /\ ~Carries(p, f)
  BY DEF Holds, Carries, Ticket
<1>3. HeldByOne
  BY <1>2 DEF HeldByOne
<1>4. OneToken
  BY <1>2 DEF OneToken, AtRest
<1>5. \A p \in Procs : OwnTask(p)
  BY DEF OwnTask, Runs
<1> QED
  BY <1>1, <1>3, <1>4, <1>5 DEF IInv, TokenInv

\* A step of a processor, with what the lemmas above say about it.
LEMMA StepIInv ==
  ASSUME IInv, NEW p \in Procs, StepOf(p), Typed'
  PROVE  IInv'
<1>1. OthersStay(p) /\ LockMove(p)
  BY StepOthersStay, StepLockMove DEF IInv
<1>2. HeldByOne'
  BY <1>1, LockMovesExclude DEF IInv
<1>3. OwnTask(p) /\ OneToken
  BY DEF IInv, TokenInv
<1>4. TokenMove(p) /\ Writes(p) /\ OwnTask(p)'
  BY <1>3, StepTokenMove, StepWrites, StepOwnTask DEF IInv
<1>5. OneToken'
  BY <1>1, <1>3, <1>4, TokenMovesKeepOne DEF IInv
<1>6. \A q \in Procs \ {p} : OwnTask(q)'
  BY <1>1, <1>3, <1>4, WritesSpareOthers DEF IInv, TokenInv
<1> QED
  BY <1>2, <1>4, <1>5, <1>6 DEF IInv, TokenInv

\* ... and every step keeps it.
LEMMA NextIInv == IInv /\ [Next]_vars => IInv'
<1> SUFFICES ASSUME IInv, [Next]_vars PROVE IInv'
  OBVIOUS
<1>1. Typed'
  BY TypedStep DEF IInv
<1>2. CASE StepOfCollector
  <2>1. \A p \in Procs, f \in F : /\ Holds(p, f)' <=> Holds(p, f)
                                  /\ Carries(p, f)' <=> Carries(p, f)
    BY <1>2 DEF StepOfCollector, slots, local, Holds, Carries, Ticket
  <2>2. HeldByOne' /\ OneToken'
    BY <1>2, <2>1
    DEF StepOfCollector, slots, IInv, TokenInv, HeldByOne, OneToken
  <2>3. \A p \in Procs : OwnTask(p)'
    BY <1>2
    DEF StepOfCollector, slots, local, IInv, TokenInv, OwnTask, Runs
  <2> QED
    BY <1>1, <2>2, <2>3 DEF IInv, TokenInv
<1>3. ASSUME NEW p \in Procs, StepOf(p) PROVE IInv'
  BY <1>1, <1>3, StepIInv
<1> QED
  BY <1>2, <1>3, StepKinds

\* So it holds always.
LEMMA Invariance == Spec => []IInv
BY InitIInv, NextIInv, PTL DEF Spec

\* Where the heap is never full ...
LEMMA WaitInvariance ==
  ASSUME MaxFull = 0
  PROVE  Spec => []WaitInv
<1>1. Init => WaitInv
  BY DEF Init, WaitInv, Queues
<1>2. IInv /\ WaitInv /\ [Next]_vars => WaitInv'
  <2> SUFFICES ASSUME IInv, WaitInv, [Next]_vars PROVE WaitInv'
    OBVIOUS
  <2>1. CASE StepOfCollector
    <3>1. \A f \in F : /\ Registered(f)' <=> Registered(f)
                       /\ \A p \in Procs : Finds(p, f)' <=> Finds(p, f)
      BY <2>1 DEF StepOfCollector, slots, local, Registered, Finds
    <3>2. \A p \in Procs : Queues(p)' <=> Queues(p)
      BY <2>1 DEF StepOfCollector, slots, local, Queues
    <3>3. status' = status /\ waitingOn' = waitingOn
      BY <2>1 DEF StepOfCollector, slots
    <3>4. ASSUME NEW f \in F, status'[f] = "WAITING"
          PROVE  /\ waitingOn'[f] \in F
                 /\ Registered(f)' \/ \E p \in Procs : Finds(p, f)'
      <4>1. status[f] = "WAITING" /\ waitingOn[f] \in F
        BY <3>3, <3>4 DEF WaitInv
      <4>2. Registered(f) \/ \E p \in Procs : Finds(p, f)
        BY <4>1 DEF WaitInv
      <4>3. waitingOn'[f] \in F
        BY <3>3, <4>1
      <4>4. Registered(f)' \/ \E p \in Procs : Finds(p, f)'
        BY <3>1, <4>2
      <4> QED
        BY <4>3, <4>4
    <3>5. \A p \in Procs : Queues(p)'
      BY <3>2 DEF WaitInv
    <3> QED
      BY <3>4, <3>5 DEF WaitInv
  <2>2. ASSUME NEW p \in Procs, StepOf(p) PROVE WaitInv'
    <3>1. OthersStay(p) /\ WaitWrites(p)
      BY <2>2, StepOthersStay, StepWaitWrites DEF IInv
    <3>2. Queues(p)'
      BY <2>2, StepQueues DEF IInv, WaitInv
    <3>3. WaitMove(p)
      BY <2>2, StepWaitMove DEF IInv, TokenInv
    <3> QED
      BY <3>1, <3>2, <3>3, WaitMovesKeep DEF IInv
  <2> QED
    BY <2>1, <2>2, StepKinds
<1> QED
  BY <1>1, <1>2, Invariance, PTL DEF Spec

\* ... and where moreover nobody else determines a task.
LEMMA QueuedInvariance ==
  ASSUME MaxFull = 0, OnlySelfDetermined
  PROVE  Spec => []QueuedInv
<1>1. Init => QueuedInv
  <2> SUFFICES ASSUME Init PROVE QueuedInv
    OBVIOUS
  <2>1. \A p \in Procs, f \in F : ~Carries(p, f) /\ ~Ticket(p, f)
    BY ShapeAssumption DEF Init, Carries, Ticket
  <2>2. \A f \in F : QueuedTask(f)
    BY <2>1, ShapeAssumption DEF Init, QueuedTask, Tasks
  <2>3. \A p \in Procs : OwnQueued(p)
    BY DEF Init, OwnQueued, Runs
  <2> QED
    BY <2>2, <2>3 DEF QueuedInv
<1>2. IInv /\ QueuedInv /\ [Next]_vars => QueuedInv'
  <2> SUFFICES ASSUME IInv, QueuedInv, [Next]_vars PROVE QueuedInv'
    OBVIOUS
  <2>1. CASE StepOfCollector
    <3>1. \A p \in Procs, f \in F : /\ Carries(p, f)' <=> Carries(p, f)
                                    /\ Ticket(p, f)' <=> Ticket(p, f)
      BY <2>1 DEF StepOfCollector, slots, local, Carries, Ticket
    <3>2. \A p \in Procs : OwnQueued(p)' <=> OwnQueued(p)
      BY <2>1 DEF StepOfCollector, slots, local, OwnQueued, Runs
    <3>3. \A f \in F : QueuedTask(f)' <=> QueuedTask(f)
      BY <2>1, <3>1 DEF StepOfCollector, slots, QueuedTask
    <3> QED
      BY <3>2, <3>3 DEF QueuedInv
  <2>2. ASSUME NEW p \in Procs, StepOf(p) PROVE QueuedInv'
    <3>1. OthersStay(p)
      BY <2>2, StepOthersStay DEF IInv
    <3>2. OwnQueued(p)'
      BY <2>2, StepOwnQueued DEF IInv
    <3>3. \A f \in F : QueuedMove(p, f)
      BY <2>2, StepQueuedMove DEF IInv
    <3> QED
      BY <3>1, <3>2, <3>3, QueuedMovesKeep DEF IInv, TokenInv
  <2> QED
    BY <2>1, <2>2, StepKinds
<1> QED
  BY <1>1, <1>2, Invariance, PTL DEF Spec

-----------------------------------------------------------------------------
(* The theorems *)

\* All variables keep their types.
THEOREM TypeCorrect == Spec => []TypeOK
<1>1. IInv => TypeOK
  BY DEF IInv, Typed
<1> QED
  BY <1>1, Invariance, PTL

\* Lock_The_Future excludes, and a lock that is set has exactly one holder,
\* whatever the tasks do and however often the heap gets full.
THEOREM LocksExcludeAlways == Spec => []LocksExclude
<1>1. IInv => LocksExclude
  <2> SUFFICES ASSUME IInv, NEW f \in F
               PROVE  Cardinality({p \in Procs : Holds(p, f)}) =
                      IF lock[f] THEN 1 ELSE 0
    BY DEF LocksExclude
  <2>1. CASE lock[f]
    <3>1. PICK p \in Procs : Holds(p, f)
      BY <2>1 DEF IInv, HeldByOne
    <3>2. {q \in Procs : Holds(q, f)} = {p}
      BY <3>1 DEF IInv, HeldByOne
    <3> QED
      BY <2>1, <3>2, FS_Singleton
  <2>2. CASE ~lock[f]
    <3>1. {q \in Procs : Holds(q, f)} = {}
      BY <2>2 DEF IInv, HeldByOne
    <3> QED
      BY <2>2, <3>1, FS_EmptySet
  <2> QED
    BY <2>1, <2>2
<1> QED
  BY <1>1, Invariance, PTL

\* A task runs on one processor at a time, which its slots name, even when
\* other tasks determine it while it runs or waits, and when wakers are
\* interrupted by a full heap.
THEOREM OneRunnerAlways == Spec => []OneRunner
<1>1. IInv => OneRunner
  <2> SUFFICES ASSUME IInv, NEW p \in Procs, Runs(p)
               PROVE  /\ \A q \in Procs \ {p} :
                            ~(Runs(q) /\ current[q] = current[p])
                      /\ status[current[p]] \in {"RUNNING", "DETERMINED"}
                      /\ process[current[p]] = p
    BY DEF OneRunner
  <2>1. current[p] \in F /\ Carries(p, current[p])
    BY DEF IInv, Typed, TypeOK, Runs, Carries
  <2>2. ASSUME NEW q \in Procs, Runs(q), current[q] = current[p]
        PROVE  q = p
    <3>1. Carries(q, current[p])
      BY <2>2 DEF Runs, Carries
    <3> QED
      BY <2>1, <3>1 DEF IInv, TokenInv, OneToken
  <2> QED
    BY <2>2 DEF IInv, TokenInv, OwnTask
<1> QED
  BY <1>1, Invariance, PTL

\* How many tickets a task has, from who has them.
LEMMA CountTickets ==
  ASSUME IInv, NEW f \in F
  PROVE  Tickets(f) = IF work[f] = 1 \/ \E p \in Procs : Ticket(p, f)
                      THEN 1 ELSE 0
<1>1. Tickets(f) = work[f] + Cardinality({p \in Procs : Ticket(p, f)})
  BY DEF Tickets, Ticket
<1>2. \A p \in Procs : Ticket(p, f) => Carries(p, f)
  BY DEF Carries
<1>3. work[f] \in {0, 1}
  BY DEF IInv, TokenInv, OneToken
<1>4. CASE \E p \in Procs : Ticket(p, f)
  <2>1. PICK p \in Procs : Ticket(p, f)
    BY <1>4
  <2>2. {q \in Procs : Ticket(q, f)} = {p} /\ work[f] = 0
    BY <1>2, <1>3, <2>1 DEF IInv, TokenInv, OneToken
  <2> QED
    BY <1>1, <1>4, <2>2, FS_Singleton
<1>5. CASE ~ \E p \in Procs : Ticket(p, f)
  <2>1. {q \in Procs : Ticket(q, f)} = {}
    BY <1>5
  <2> QED
    BY <1>1, <1>3, <1>5, <2>1, FS_EmptySet
<1> QED
  BY <1>4, <1>5

\* No task is scheduled twice: at most one entry of the work queue, or one that
\* is on its way there or from there, is for it, in every program.
THEOREM NeverScheduledTwice == Spec => [](\A f \in F : Tickets(f) \in {0, 1})
<1>1. IInv => \A f \in F : Tickets(f) \in {0, 1}
  BY CountTickets
<1> QED
  BY <1>1, Invariance, PTL

\* %AWAIT-FUTURE and %DETERMINE! do not miss each other, as long as no waker
\* finds the heap full.
THEOREM NoLostWakeupAlways ==
  ASSUME MaxFull = 0
  PROVE  Spec => []NoLostWakeup
<1>1. WaitInv => NoLostWakeup
  BY DEF WaitInv, NoLostWakeup, Registered, Finds
<1> QED
  BY <1>1, WaitInvariance, PTL

\* A RUNNABLE task is queued exactly once and with its state saved, as long as
\* no waker finds the heap full and no task is determined by another one.
THEOREM RunnableQueuedOnceAlways ==
  ASSUME MaxFull = 0, OnlySelfDetermined
  PROVE  Spec => []RunnableQueuedOnce
<1>1. IInv /\ QueuedInv => RunnableQueuedOnce
  <2> SUFFICES ASSUME IInv, QueuedInv, NEW f \in F
               PROVE  /\ Tickets(f) = IF status[f] = "RUNNABLE" THEN 1 ELSE 0
                      /\ status[f] = "RUNNABLE" => process[f] = "code"
    BY DEF RunnableQueuedOnce
  <2> QED
    BY CountTickets DEF QueuedInv, QueuedTask
<1> QED
  BY <1>1, Invariance, QueuedInvariance, PTL

\* Under the same conditions Enqueue_The_Task is right that it is safe to store
\* RUNNABLE into the status: no determined task is revived.
THEOREM StoresRunnableSafelyAlways ==
  ASSUME MaxFull = 0, OnlySelfDetermined
  PROVE  Spec => StoresRunnableSafely
<1>1. IInv /\ QueuedInv /\ [Next]_vars =>
        [\A f \in F : status[f] = "DETERMINED" => status'[f] # "RUNNABLE"]_vars
  <2> SUFFICES ASSUME IInv, QueuedInv, [Next]_vars, NEW f \in F,
                      status[f] = "DETERMINED"
               PROVE  status'[f] # "RUNNABLE"
    OBVIOUS
  <2>1. CASE StepOfCollector
    BY <2>1 DEF StepOfCollector, slots
  <2>2. ASSUME NEW p \in Procs, StepOf(p) PROVE status'[f] # "RUNNABLE"
    <3>1. QueuedMove(p, f)
      BY <2>2, StepQueuedMove DEF IInv
    <3> QED
      BY <3>1 DEF QueuedMove
  <2> QED
    BY <2>1, <2>2, StepKinds
<1> QED
  BY <1>1, Invariance, QueuedInvariance, PTL DEF Spec, StoresRunnableSafely

================================================================================
