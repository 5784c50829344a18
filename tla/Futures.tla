-------------------------------- MODULE Futures --------------------------------
(***************************************************************************)
(* Futures and the tasks that compute them: spawning, waiting for a value, *)
(* determining it, waking the waiters, preemption, and the scheduler's     *)
(* choice of a task to run (uc/ffuture.c, uc/futures.h and                 *)
(* runtime/future.scm).                                                    *)
(*                                                                         *)
(* A future is a vector in the heap with a spin lock in one of its slots.  *)
(* The work queue is a bag of tasks here: module WorkQueue is about its    *)
(* locks and its order.  What the tasks compute is given by the shape of   *)
(* the program: whom each spawns first, and then touches and determines in *)
(* any order.                                                              *)
(***************************************************************************)
EXTENDS Integers, Sequences, FiniteSets, SequencesExt

CONSTANTS Procs,        \* the processors
          F,            \* the futures
          Root,         \* the initial process
          None,         \* no future
          Spawns,       \* Spawns[f]: the tasks that f spawns
          Delayed,      \* the tasks that are spawned with the DELAYED option
          Touches,      \* Touches[f]: the futures whose value f needs
          Determines,   \* Determines[f]: the other futures that f determines
          Keeps,        \* Keeps[f]: those it determines with a KEEP? argument
          MaxPreempt,   \* how many times a task is taken off its processor, or
                        \* gives it up, without waiting for a value
          MaxFull,      \* how many times %DETERMINE! finds the heap full
          MaxCollect    \* how many garbage collections there are

ASSUME ShapeAssumption == /\ Root \in F /\ None \notin F
                          /\ Spawns \in [F -> SUBSET F]
                          /\ Delayed \subseteq F
                          /\ Touches \in [F -> SUBSET F]
                          /\ Determines \in [F -> SUBSET F]
                          /\ Keeps \in [F -> SUBSET F]
                          /\ \A f \in F : f \notin Touches[f]
ASSUME BoundsAssumption == MaxPreempt \in Nat /\ MaxFull \in Nat
                          /\ MaxCollect \in Nat

VARIABLES lock,        \* lock[f]: FUTURE_LOCK
          determined,  \* determined[f]: FUTURE_IS_DETERMINED # NIL
          kept,        \* kept[f]: and # TRUTH, it is a KEEP? argument
          status,      \* status[f]: FUTURE_STATUS
          process,     \* process[f]: FUTURE_PROCESS, code or who runs it
          waiters,     \* waiters[f]: FUTURE_QUEUE
          valued,      \* valued[f]: the value has been stored over the queue
          waitingOn,   \* waitingOn[f]: FUTURE_WAITING_ON
          work,        \* work[f]: how many entries the work queue has for f
          current,     \* current[p]: the entry of p in the future vector
          pc,          \* what each processor does next
          arg,         \* the future it does it to
          list,        \* the waiters it has yet to wake
          collecting,  \* a collection has been asked for
          parked,      \* the processors that wait for it in the handler
          preempted, full, collections

slots == <<lock, determined, kept, status, process, waiters, valued,
           waitingOn>>
local == <<current, pc, arg, list>>
gc == <<collecting, parked, collections>>
bounds == <<preempted, full, gc>>
vars == <<slots, work, local, bounds>>

Statuses == {"UNBORN", "RUNNABLE", "CREATED", "DETERMINED", "WAITING",
             "RUNNING", "DELAYED", "SUSPENDED"}

Labels == {"getWork",                       \* %RESCHEDULE
           "runLock", "runSet",             \* Run_A_Future
           "program",                       \* runs the code of the task
           "spawnPut",                      \* %SPAWN-PROCESS
           "awaitLock", "awaitTest", "awaitSetRunnable", "awaitPut",
           "awaitLockSelf", "awaitSave", "awaitUnlock",   \* %AWAIT-FUTURE
           "detLock", "detTest", "detStatus", "detFlag",  \* %DETERMINE!
           "wakeLock", "wakeMark", "wakeSetRunnable", "wakePut",
           "preemptLock", "preemptSave", "preemptUnlock", "preemptLeave",
           "preemptSetRunnable", "preemptPut",
           "yieldLock", "yieldSave", "yieldPut", "yieldUnlock", \* reschedule
           "leave"}                         \* Rescheduler_Common

\* Tasks have code to run; the other futures are determined by somebody.
Tasks == {Root} \cup UNION {Spawns[f] : f \in F}

TypeOK == /\ lock \in [F -> BOOLEAN]
          /\ determined \in [F -> BOOLEAN]
          /\ kept \in [F -> BOOLEAN]
          /\ status \in [F -> Statuses]
          /\ process \in [F -> {"code"} \cup Procs]
          /\ waiters \in [F -> Seq(F)]
          /\ valued \in [F -> BOOLEAN]
          /\ waitingOn \in [F -> F \cup {None}]
          /\ work \in [F -> Nat]
          /\ current \in [Procs -> F \cup {None}]
          /\ pc \in [Procs -> Labels]
          /\ arg \in [Procs -> F \cup {None}]
          /\ list \in [Procs -> Seq(F)]
          /\ preempted \in 0 .. MaxPreempt
          /\ full \in 0 .. MaxFull
          /\ collecting \in BOOLEAN
          /\ parked \in SUBSET Procs
          /\ collections \in 0 .. MaxCollect

Init == /\ lock = [f \in F |-> FALSE]
        /\ determined = [f \in F |-> FALSE]
        /\ kept = [f \in F |-> FALSE]
        /\ status = [f \in F |-> IF f = Root THEN "RUNNABLE"
                                 ELSE IF f \in Tasks THEN "UNBORN"
                                 ELSE "CREATED"]
        /\ process = [f \in F |-> "code"]
        /\ waiters = [f \in F |-> << >>]
        /\ valued = [f \in F |-> FALSE]
        /\ waitingOn = [f \in F |-> None]
        /\ work = [f \in F |-> IF f = Root THEN 1 ELSE 0]
        /\ current = [p \in Procs |-> None]
        /\ pc = [p \in Procs |-> "getWork"]
        /\ arg = [p \in Procs |-> None]
        /\ list = [p \in Procs |-> << >>]
        /\ preempted = 0
        /\ full = 0
        /\ collecting = FALSE
        /\ parked = {}
        /\ collections = 0

-----------------------------------------------------------------------------

Goto(p, label) == pc' = [pc EXCEPT ![p] = label]
Step(p, from, to) == pc[p] = from /\ Goto(p, to)
Set(var, f, value) == [var EXCEPT ![f] = value]

\* p takes the lock of f: atomior on FUTURE_LOCK returned 0.
Locks(f) == ~lock[f] /\ lock' = Set(lock, f, TRUE)
Unlocks(f) == lock' = Set(lock, f, FALSE)

PutWork(f) == work' = [work EXCEPT ![f] = @ + 1]

-----------------------------------------------------------------------------
(* The scheduler: %RESCHEDULE takes some task from the work queue *)

\* A bug: the queue is not tested for being empty.
GetWorkUntested(p) ==
    /\ Step(p, "getWork", "runLock")
    /\ \E f \in F : /\ work' = [work EXCEPT ![f] = @ - 1]
                    /\ arg' = Set(arg, p, f)
    /\ UNCHANGED <<slots, current, list, bounds>>

GetWork(p) ==
    /\ Step(p, "getWork", "runLock")
    /\ \E f \in F : /\ work[f] > 0
                    /\ work' = [work EXCEPT ![f] = @ - 1]
                    /\ arg' = Set(arg, p, f)
    /\ UNCHANGED <<slots, current, list, bounds>>

RunLock(p) ==
    /\ Step(p, "runLock", "runSet")
    /\ Locks(arg[p])
    /\ UNCHANGED <<determined, kept, status, process, waiters, valued,
                   waitingOn, work, current, arg, list, bounds>>

\* A task that is not RUNNABLE any more is skipped.
Run(p) ==
    /\ Step(p, "runSet", "program")
    /\ status[arg[p]] = "RUNNABLE"
    /\ status' = Set(status, arg[p], "RUNNING")
    /\ process' = Set(process, arg[p], p)
    /\ current' = Set(current, p, arg[p])
    /\ Unlocks(arg[p])
    /\ arg' = Set(arg, p, None)
    /\ UNCHANGED <<determined, kept, waiters, valued, waitingOn, work, list,
                   bounds>>

RunSkip(p) ==
    /\ Step(p, "runSet", "getWork")
    /\ status[arg[p]] # "RUNNABLE"
    /\ Unlocks(arg[p])
    /\ arg' = Set(arg, p, None)
    /\ UNCHANGED <<determined, kept, status, process, waiters, valued,
                   waitingOn, work, current, list, bounds>>

-----------------------------------------------------------------------------
(* %SPAWN-PROCESS: nobody else knows the new future yet *)

\* Enqueue_The_Task: stores RUNNABLE, then puts the task on the work queue.
Spawn(p) ==
    /\ Step(p, "program", "spawnPut")
    /\ \E f \in Spawns[current[p]] \ Delayed :
          /\ status[f] = "UNBORN"
          /\ status' = Set(status, f, "RUNNABLE")
          /\ arg' = Set(arg, p, f)
    /\ UNCHANGED <<lock, determined, kept, process, waiters, valued,
                   waitingOn, work, current, list, bounds>>

SpawnPut(p) ==
    /\ Step(p, "spawnPut", "program")
    /\ PutWork(arg[p])
    /\ arg' = Set(arg, p, None)
    /\ UNCHANGED <<slots, current, list, bounds>>

\* With the DELAYED option it runs when it is first touched.
SpawnDelayed(p) ==
    /\ pc[p] = "program"
    /\ \E f \in Spawns[current[p]] \cap Delayed :
          /\ status[f] = "UNBORN"
          /\ status' = Set(status, f, "DELAYED")
    /\ UNCHANGED <<lock, determined, kept, process, waiters, valued,
                   waitingOn, work, local, bounds>>

-----------------------------------------------------------------------------
(* %AWAIT-FUTURE: the current task touches a future without a value *)

HasSpawned(f) == \A g \in Spawns[f] : status[g] # "UNBORN"

Touch(p) ==
    /\ Step(p, "program", "awaitLock")
    /\ HasSpawned(current[p])
    /\ \E x \in Touches[current[p]] :
          /\ status[x] # "UNBORN"
          /\ ~determined[x]
          /\ arg' = Set(arg, p, x)
    /\ UNCHANGED <<slots, work, current, list, bounds>>

\* A bug: the future is tested and queued on without its lock.
AwaitWithoutLock(p) ==
    /\ Step(p, "awaitLock", "awaitTest")
    /\ UNCHANGED <<slots, work, current, arg, list, bounds>>

AwaitLock(p) ==
    /\ Step(p, "awaitLock", "awaitTest")
    /\ Locks(arg[p])
    /\ UNCHANGED <<determined, kept, status, process, waiters, valued,
                   waitingOn, work, current, arg, list, bounds>>

\* It got its value in the meantime.
AwaitKnown(p) ==
    /\ Step(p, "awaitTest", "program")
    /\ determined[arg[p]]
    /\ Unlocks(arg[p])
    /\ arg' = Set(arg, p, None)
    /\ UNCHANGED <<determined, kept, status, process, waiters, valued,
                   waitingOn, work, current, list, bounds>>

\* A bug: a future that runs is taken for one that must be started.
AwaitRestarts(p) ==
    /\ Step(p, "awaitTest", IF status[arg[p]] \in {"DELAYED", "RUNNING"}
                            THEN "awaitSetRunnable" ELSE "awaitLockSelf")
    /\ ~determined[arg[p]]
    /\ UNCHANGED <<slots, work, current, arg, list, bounds>>

\* A bug: the future is not tested again under its lock.
AwaitUntested(p) ==
    /\ Step(p, "awaitTest", IF status[arg[p]] = "DELAYED"
                            THEN "awaitSetRunnable" ELSE "awaitLockSelf")
    /\ UNCHANGED <<slots, work, current, arg, list, bounds>>

AwaitUnknown(p) ==
    /\ Step(p, "awaitTest", IF status[arg[p]] = "DELAYED"
                            THEN "awaitSetRunnable" ELSE "awaitLockSelf")
    /\ ~determined[arg[p]]
    /\ UNCHANGED <<slots, work, current, arg, list, bounds>>

\* A bug: the future stays DELAYED.
AwaitSetNothing(p) ==
    /\ Step(p, "awaitSetRunnable", "awaitPut")
    /\ UNCHANGED <<slots, work, current, arg, list, bounds>>

AwaitSetRunnable(p) ==
    /\ Step(p, "awaitSetRunnable", "awaitPut")
    /\ status' = Set(status, arg[p], "RUNNABLE")
    /\ UNCHANGED <<lock, determined, kept, process, waiters, valued,
                   waitingOn, work, current, arg, list, bounds>>

AwaitPut(p) ==
    /\ Step(p, "awaitPut", "awaitLockSelf")
    /\ PutWork(arg[p])
    /\ UNCHANGED <<slots, current, arg, list, bounds>>

AwaitLockSelf(p) ==
    /\ Step(p, "awaitLockSelf", "awaitSave")
    /\ Locks(current[p])
    /\ UNCHANGED <<determined, kept, status, process, waiters, valued,
                   waitingOn, work, current, arg, list, bounds>>

\* Saves the state of the task, and gives up the lock of the task ...
AwaitSave(p) ==
    LET self == current[p] IN
    /\ Step(p, "awaitSave", "awaitUnlock")
    /\ process' = Set(process, self, "code")
    /\ status' = Set(status, self, "WAITING")
    /\ waitingOn' = Set(waitingOn, self, arg[p])
    /\ waiters' = [waiters EXCEPT ![arg[p]] = Append(@, self)]
    /\ Unlocks(self)
    /\ UNCHANGED <<determined, kept, valued, work, current, arg, list,
                   bounds>>

\* A bug: the future it waits for stays locked.
AwaitUnlockNothing(p) ==
    /\ Step(p, "awaitUnlock", "leave")
    /\ arg' = Set(arg, p, None)
    /\ UNCHANGED <<slots, work, current, list, bounds>>

\* ... then of the future it waits for.
AwaitUnlock(p) ==
    /\ Step(p, "awaitUnlock", "leave")
    /\ Unlocks(arg[p])
    /\ arg' = Set(arg, p, None)
    /\ UNCHANGED <<determined, kept, status, process, waiters, valued,
                   waitingOn, work, current, list, bounds>>

\* Rescheduler_Common stores WORK_WAIT in the future vector.
Leave(p) ==
    /\ Step(p, "leave", "getWork")
    /\ current' = Set(current, p, None)
    /\ UNCHANGED <<slots, work, arg, list, bounds>>

-----------------------------------------------------------------------------
(* %DETERMINE!, and Do_Determine_Self when the task's code returns *)

\* The task has done all it has to do.
Finish(p) ==
    LET self == current[p] IN
    /\ Step(p, "program", "detLock")
    /\ HasSpawned(self)
    /\ \A x \in Touches[self] \cup Determines[self] : determined[x]
    /\ arg' = Set(arg, p, self)
    /\ UNCHANGED <<slots, work, current, list, bounds>>

DetermineOther(p) ==
    /\ Step(p, "program", "detLock")
    /\ HasSpawned(current[p])
    /\ \E x \in Determines[current[p]] : /\ status[x] # "UNBORN"
                                         /\ ~determined[x]
                                         /\ arg' = Set(arg, p, x)
    /\ UNCHANGED <<slots, work, current, list, bounds>>

DetLock(p) ==
    /\ Step(p, "detLock", "detTest")
    /\ Locks(arg[p])
    /\ UNCHANGED <<determined, kept, status, process, waiters, valued,
                   waitingOn, work, current, arg, list, bounds>>

\* Back to the program, or to the scheduler when it was its own value.
AfterDetermine(p) ==
    /\ Goto(p, IF arg[p] = current[p] THEN "leave" ELSE "program")
    /\ arg' = Set(arg, p, None)

\* The KEEP? argument of %DETERMINE!; Do_Determine_Self has none.
Keep(p) == arg[p] # current[p] /\ arg[p] \in Keeps[current[p]]

\* A value that is kept in its future may be replaced by another one.
Final(f) == determined[f] /\ ~kept[f]

\* The value is stored over the queue of waiters, then the status, and last
\* the flag that those who touch the future test without its lock.  Only the
\* first value has waiters.
DetValue(p) ==
    /\ Step(p, "detTest", "detStatus")
    /\ ~Final(arg[p])
    /\ list' = Set(list, p, IF determined[arg[p]] THEN << >>
                            ELSE waiters[arg[p]])
    /\ waiters' = Set(waiters, arg[p], << >>)
    /\ valued' = Set(valued, arg[p], TRUE)
    /\ UNCHANGED <<lock, determined, kept, status, process, waitingOn, work,
                   current, arg, bounds>>

DetStatus(p) ==
    /\ Step(p, "detStatus", "detFlag")
    /\ status' = Set(status, arg[p], "DETERMINED")
    /\ UNCHANGED <<lock, determined, kept, process, waiters, valued,
                   waitingOn, work, current, arg, list, bounds>>

DetFlag(p) ==
    /\ Step(p, "detFlag", "wakeLock")
    /\ determined' = Set(determined, arg[p], TRUE)
    /\ kept' = Set(kept, arg[p], kept[arg[p]] \/ Keep(p))
    /\ Unlocks(arg[p])
    /\ UNCHANGED <<status, process, waiters, valued, waitingOn, work, current,
                   arg, list, bounds>>

\* A bug: the error leaves the lock set.
DetTwiceLocked(p) ==
    /\ pc[p] = "detTest"
    /\ Final(arg[p])
    /\ AfterDetermine(p)
    /\ UNCHANGED <<slots, work, current, list, bounds>>

\* Somebody else has determined it for good: an error.
DetTwice(p) ==
    /\ pc[p] = "detTest"
    /\ Final(arg[p])
    /\ Unlocks(arg[p])
    /\ AfterDetermine(p)
    /\ UNCHANGED <<determined, kept, status, process, waiters, valued,
                   waitingOn, work, current, list, bounds>>

-----------------------------------------------------------------------------
(* Wake_Up_List *)

WakeLock(p) ==
    /\ Step(p, "wakeLock", "wakeMark")
    /\ list[p] # << >>
    /\ Locks(Head(list[p]))
    /\ UNCHANGED <<determined, kept, status, process, waiters, valued,
                   waitingOn, work, current, arg, list, bounds>>

WakeMark(p) ==
    LET t == Head(list[p]) IN
    /\ Step(p, "wakeMark", "wakeSetRunnable")
    /\ status[t] = "WAITING" /\ waitingOn[t] = arg[p]
    /\ status' = Set(status, t, "RUNNABLE")
    /\ Unlocks(t)
    /\ UNCHANGED <<determined, kept, process, waiters, valued, waitingOn,
                   work, current, arg, list, bounds>>

WakeSkip(p) ==
    LET t == Head(list[p]) IN
    /\ Step(p, "wakeMark", "wakeLock")
    /\ ~(status[t] = "WAITING" /\ waitingOn[t] = arg[p])
    /\ Unlocks(t)
    /\ list' = [list EXCEPT ![p] = Tail(@)]
    /\ UNCHANGED <<determined, kept, status, process, waiters, valued,
                   waitingOn, work, current, arg, bounds>>

\* Enqueue_The_Task again, without the lock of the task.
WakeSetRunnable(p) ==
    /\ Step(p, "wakeSetRunnable", "wakePut")
    /\ status' = Set(status, Head(list[p]), "RUNNABLE")
    /\ UNCHANGED <<lock, determined, kept, process, waiters, valued,
                   waitingOn, work, current, arg, list, bounds>>

WakePut(p) ==
    /\ Step(p, "wakePut", "wakeLock")
    /\ PutWork(Head(list[p]))
    /\ list' = [list EXCEPT ![p] = Tail(@)]
    /\ UNCHANGED <<slots, current, arg, bounds>>

\* Put_Work finds no room for a cell, and leaves %DETERMINE! for the garbage
\* collector; when the primitive starts again the future is determined.  (When
\* it is Do_Determine_Self that leaves, what starts again is undefined; the
\* primitives %SPAWN-PROCESS and %AWAIT-FUTURE have made sure of the room
\* before they begin, and PUT-WORK starts again with nothing changed here.)
WakePutFull(p) ==
    /\ Step(p, "wakePut", "detLock")
    /\ arg[p] # current[p]
    /\ full < MaxFull
    /\ full' = full + 1
    /\ list' = Set(list, p, << >>)
    /\ UNCHANGED <<slots, work, current, arg, preempted, gc>>

WakeDone(p) ==
    /\ pc[p] = "wakeLock"
    /\ list[p] = << >>
    /\ AfterDetermine(p)
    /\ UNCHANGED <<slots, work, current, list, bounds>>

-----------------------------------------------------------------------------
(* The timer interrupt: saving-state *)

Preempt(p) ==
    /\ Step(p, "program", "preemptLock")
    /\ preempted < MaxPreempt
    /\ preempted' = preempted + 1
    /\ UNCHANGED <<slots, work, current, arg, list, full, gc>>

PreemptLock(p) ==
    /\ Step(p, "preemptLock", "preemptSave")
    /\ Locks(current[p])
    /\ UNCHANGED <<determined, kept, status, process, waiters, valued,
                   waitingOn, work, current, arg, list, bounds>>

\* suspending-execution
PreemptSave(p) ==
    /\ Step(p, "preemptSave", "preemptUnlock")
    /\ process' = Set(process, current[p], "code")
    /\ status' = Set(status, current[p], "SUSPENDED")
    /\ UNCHANGED <<lock, determined, kept, waiters, valued, waitingOn, work,
                   current, arg, list, bounds>>

PreemptUnlock(p) ==
    /\ Step(p, "preemptUnlock", "preemptLeave")
    /\ Unlocks(current[p])
    /\ UNCHANGED <<determined, kept, status, process, waiters, valued,
                   waitingOn, work, current, arg, list, bounds>>

\* set-current-future! 'STATE-SAVED
PreemptLeave(p) ==
    /\ Step(p, "preemptLeave", "preemptSetRunnable")
    /\ current' = Set(current, p, None)
    /\ arg' = Set(arg, p, current[p])
    /\ UNCHANGED <<slots, work, list, bounds>>

\* more-work, without the lock of the task
PreemptSetRunnable(p) ==
    /\ Step(p, "preemptSetRunnable", "preemptPut")
    /\ status' = Set(status, arg[p], "RUNNABLE")
    /\ UNCHANGED <<lock, determined, kept, process, waiters, valued,
                   waitingOn, work, current, arg, list, bounds>>

PreemptPut(p) ==
    /\ Step(p, "preemptPut", "getWork")
    /\ PutWork(arg[p])
    /\ arg' = Set(arg, p, None)
    /\ UNCHANGED <<slots, current, list, bounds>>

-----------------------------------------------------------------------------
(* reschedule: the task gives up its processor, under the lock of the task *)

Yield(p) ==
    /\ Step(p, "program", "yieldLock")
    /\ preempted < MaxPreempt
    /\ preempted' = preempted + 1
    /\ UNCHANGED <<slots, work, current, arg, list, full, gc>>

YieldLock(p) ==
    /\ Step(p, "yieldLock", "yieldSave")
    /\ Locks(current[p])
    /\ UNCHANGED <<determined, kept, status, process, waiters, valued,
                   waitingOn, work, current, arg, list, bounds>>

YieldSave(p) ==
    /\ Step(p, "yieldSave", "yieldPut")
    /\ process' = Set(process, current[p], "code")
    /\ status' = Set(status, current[p], "RUNNABLE")
    /\ UNCHANGED <<lock, determined, kept, waiters, valued, waitingOn, work,
                   current, arg, list, bounds>>

YieldPut(p) ==
    /\ Step(p, "yieldPut", "yieldUnlock")
    /\ PutWork(current[p])
    /\ UNCHANGED <<slots, current, arg, list, bounds>>

YieldUnlock(p) ==
    /\ Step(p, "yieldUnlock", "leave")
    /\ Unlocks(current[p])
    /\ UNCHANGED <<determined, kept, status, process, waiters, valued,
                   waitingOn, work, current, arg, list, bounds>>

-----------------------------------------------------------------------------

(* The garbage collector, which needs all the processors *)

RequestCollection ==
    /\ collections < MaxCollect
    /\ ~collecting
    /\ collections' = collections + 1
    /\ collecting' = TRUE
    /\ UNCHANGED <<slots, work, local, preempted, full, parked>>

\* Get_Work and Scheme code take the global interrupt, the latter also with
\* the lock of a future (INTERRUPT-MASK-GC-OK); the other primitives do not
\* look at their interrupts.
Interruptible(p) ==
    pc[p] \in {"getWork", "program", "preemptLock", "preemptSave",
              "preemptUnlock", "preemptLeave", "preemptSetRunnable",
              "preemptPut", "yieldLock", "yieldSave", "yieldPut",
              "yieldUnlock"}

Park(p) ==
    /\ collecting
    /\ Interruptible(p)
    /\ parked' = parked \cup {p}
    /\ UNCHANGED <<slots, work, local, preempted, full, collecting,
                   collections>>

Collect ==
    /\ parked = Procs
    /\ parked' = {}
    /\ collecting' = FALSE
    /\ UNCHANGED <<slots, work, local, preempted, full, collections>>

-----------------------------------------------------------------------------

Acquire(p) == /\ p \notin parked
              /\ \/ RunLock(p) \/ AwaitLock(p) \/ AwaitLockSelf(p) \/ DetLock(p)
                 \/ WakeLock(p) \/ PreemptLock(p) \/ YieldLock(p)

Proceed(p) == /\ p \notin parked
              /\ \/ Acquire(p) \/ GetWork(p) \/ Run(p) \/ RunSkip(p)
                 \/ Spawn(p) \/ SpawnPut(p) \/ SpawnDelayed(p)
                 \/ Touch(p) \/ AwaitKnown(p) \/ AwaitUnknown(p)
                 \/ AwaitSetRunnable(p) \/ AwaitPut(p)
                 \/ AwaitSave(p) \/ AwaitUnlock(p) \/ Leave(p)
                 \/ Finish(p) \/ DetermineOther(p) \/ DetValue(p)
                 \/ DetStatus(p) \/ DetFlag(p) \/ DetTwice(p)
                 \/ WakeMark(p) \/ WakeSkip(p) \/ WakeSetRunnable(p)
                 \/ WakePut(p) \/ WakeDone(p)
                 \/ PreemptSave(p) \/ PreemptUnlock(p) \/ PreemptLeave(p)
                 \/ PreemptSetRunnable(p) \/ PreemptPut(p)
                 \/ YieldSave(p) \/ YieldPut(p) \/ YieldUnlock(p)
                 \/ Park(p)

Spinning(p) == \/ pc[p] \in {"runLock", "awaitLock", "awaitLockSelf", "detLock",
                             "preemptLock", "yieldLock"}
               \/ pc[p] = "wakeLock" /\ list[p] # << >>

\* Get_Work goes on asking, and Lock_The_Future goes on spinning.
Idle(p) == pc[p] = "getWork" \/ Spinning(p)

Next == \/ \E p \in Procs :
              \/ Proceed(p)
              \/ p \notin parked /\ (Preempt(p) \/ Yield(p) \/ WakePutFull(p))
              \/ p \notin parked /\ Idle(p) /\ UNCHANGED vars
        \/ RequestCollection \/ Collect

Spec == Init /\ [][Next]_vars

\* The processors run; a lock that is free again and again is got; a task
\* that could be taken again and again from the queue is.
FairSpec == /\ Spec
            /\ \A p \in Procs : WF_vars(Proceed(p)) /\ SF_vars(Acquire(p))
            /\ WF_vars(Collect)

-----------------------------------------------------------------------------

\* The steps that p makes with the lock of f held.
Holds(p, f) ==
    \/ pc[p] \in {"runSet", "detTest", "detStatus", "detFlag", "awaitTest",
                  "awaitSetRunnable", "awaitPut", "awaitLockSelf", "awaitSave",
                  "awaitUnlock"} /\ arg[p] = f
    \/ pc[p] \in {"awaitSave", "preemptSave", "preemptUnlock", "yieldSave",
                  "yieldPut", "yieldUnlock"} /\ current[p] = f
    \/ pc[p] = "wakeMark" /\ Head(list[p]) = f

(***************************************************************************)
(* The lock of a future excludes: at most one processor is between         *)
(* Lock_The_Future and Unlock_The_Future, and a lock that is set has a     *)
(* holder who will release it.                                             *)
(***************************************************************************)
LocksExclude == \A f \in F :
    Cardinality({p \in Procs : Holds(p, f)}) = IF lock[f] THEN 1 ELSE 0

\* p runs the code of its current task, or a primitive on its behalf.
Runs(p) == current[p] # None
           /\ ~(pc[p] \in {"awaitUnlock", "leave", "preemptUnlock",
                           "preemptLeave", "yieldPut", "yieldUnlock"})

(***************************************************************************)
(* A task runs on one processor at a time, and its own slots say so: a     *)
(* saved state is not resumed twice, and is not resumed before it is       *)
(* complete.                                                               *)
(***************************************************************************)
OneRunner == \A p \in Procs : Runs(p) =>
    /\ \A q \in Procs \ {p} : ~(Runs(q) /\ current[q] = current[p])
    /\ status[current[p]] \in {"RUNNING", "DETERMINED"}
    /\ process[current[p]] = p

\* What will make some processor run f: an entry of the work queue, one that
\* is about to be made, or one that somebody has just got.
Tickets(f) == work[f] + Cardinality({p \in Procs :
    \/ pc[p] \in {"spawnPut", "awaitPut", "preemptPut", "runLock", "runSet"}
          /\ arg[p] = f
    \/ pc[p] \in {"wakeSetRunnable", "wakePut"} /\ Head(list[p]) = f
    \/ pc[p] = "yieldPut" /\ current[p] = f})

(***************************************************************************)
(* A RUNNABLE task is on the work queue exactly once (or on its way there  *)
(* or from there) with the code to resume it, and no other task is: tasks  *)
(* are neither forgotten nor scheduled twice.                              *)
(***************************************************************************)
RunnableQueuedOnce == \A f \in F :
    /\ Tickets(f) = IF status[f] = "RUNNABLE" THEN 1 ELSE 0
    /\ status[f] = "RUNNABLE" => process[f] = "code"

(***************************************************************************)
(* A task that is WAITING will be found by the one who determines the      *)
(* future: %AWAIT-FUTURE and %DETERMINE! do not miss each other.           *)
(***************************************************************************)
NoLostWakeup == \A f \in F : status[f] = "WAITING" =>
    \/ ~determined[waitingOn[f]] /\ f \in ToSet(waiters[waitingOn[f]])
    \/ \E p \in Procs : /\ pc[p] \in {"detStatus", "detFlag", "wakeLock",
                                     "wakeMark", "wakeSetRunnable", "wakePut"}
                        /\ arg[p] = waitingOn[f]
                        /\ f \in ToSet(list[p])

(***************************************************************************)
(* Enqueue_The_Task assumes that the future is "locked or otherwise safe   *)
(* to store 'RUNNABLE into": it does not revive a determined one.          *)
(***************************************************************************)
StoresRunnableSafely ==
    [][\A f \in F : status[f] = "DETERMINED" => status'[f] # "RUNNABLE"]_vars

\* No processor goes to a garbage collection, which Scheme code may do, with
\* the lock of a future.  The code does not see to it, and one that spins on
\* that lock never gets to the collection: then all of them hang.
NoHolderParks == \A p \in parked, f \in F : ~Holds(p, f)

\* No tasks wait for each other in a circle.  When they do, each may hold the
\* lock of the future it touches and spin on its own: AWAIT-FUTURE takes both.
NoCircle == \A S \in SUBSET F \ {{}} : \E f \in S : Touches[f] \cap S = {}

(***************************************************************************)
(* LOCK-FUTURE! "hangs as long as necessary for the lock to take": whoever *)
(* spins on the lock of a future gets it, collections or not, as long as   *)
(* no processor takes such a lock with it to a collection and no tasks     *)
(* wait for each other in a circle.                                        *)
(***************************************************************************)
LockTakes == NoCircle /\ []NoHolderParks =>
    \A p \in Procs : Spinning(p) ~> ~Spinning(p)

(***************************************************************************)
(* Every task that has been put to work is determined in the end, so that  *)
(* whoever waits for it goes on, under the same conditions and in programs *)
(* in which some task determines each future that another one touches.     *)
(***************************************************************************)
TasksFinish == NoCircle /\ []NoHolderParks =>
    \A f \in Tasks : status[f] = "RUNNABLE" ~> status[f] = "DETERMINED"

=====================
