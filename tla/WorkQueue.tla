------------------------------- MODULE WorkQueue -------------------------------
(***************************************************************************)
(* The work queue of the scheduler (uc/ffuture.c: Put_Work, Get_Work and   *)
(* what they call; DRAIN-WORK-QUEUE! of uc/bf-prims.c; its use by the      *)
(* garbage collector in runtime/bf-gc.scm).                                *)
(*                                                                         *)
(* It is a chain of queues, one per priority, highest first.  One spin     *)
(* lock protects the chain, another one each queue; they are taken hand    *)
(* over hand, and nobody looks at its interrupts while it spins.  Queues   *)
(* and list cells are allocated in the heap, so that a processor may find  *)
(* the heap full in the middle of Put_Work: it then leaves for the garbage *)
(* collector with the locks it holds, and calls PUT-WORK again later.  The *)
(* cells are weak pairs: a task that nothing else refers to is not kept.   *)
(***************************************************************************)
EXTENDS Integers, Sequences, FiniteSets, SequencesExt

CONSTANTS Procs,      \* the processors
          Tasks,      \* the futures that are scheduled
          Prio,       \* Prio[t]: the FUTURE_PRIORITY of t
          Unfit,      \* the tasks whose FUTURE_PRIORITY is no integer of 32 bits
          Optional,   \* the tasks whose value the program may stop to wait for
          NoTask,     \* no future: what a weak pair has lost its car to
          MaxPuts,    \* how many times work is put (bounds the program)
          MaxFull     \* how many times Put_Work finds the heap full

ASSUME TasksAssumption == /\ NoTask \notin Tasks
                          /\ Prio \in [Tasks -> Int]
                          /\ Unfit \subseteq Tasks /\ Optional \subseteq Tasks
                          /\ IsFiniteSet(Tasks)
ASSUME ProcsAssumption == IsFiniteSet(Procs) /\ "none" \notin Procs
ASSUME BoundsAssumption == MaxPuts \in Nat /\ MaxFull \in Nat

\* A short int, and what is stored into one of 16 bits.
Shorts   == -32768 .. 32767
Short(x) == ((x + 32768) % 65536) - 32768

\* the_priority = The_Priority
Priority(t) == Short(Prio[t])
Priorities  == {Priority(t) : t \in Tasks}

\* Names for the queues of the chain: one per priority is enough.
Nodes == 1 .. Cardinality(Priorities)
NULL  == 0

VARIABLES workLock,   \* Work_Queue_Lock
          workLength, \* Work_Queue_Length
          chain,      \* The_New_Improved_Work_Queue: the queues, linked by next
          node,       \* node[n]: the struct priority_queue n
          pc,         \* what each processor does next
          task,       \* the task a processor is putting
          again,      \* the tasks of PUT-WORKs that collections interrupted
          at,         \* the queue a processor is looking at
          hand,       \* the tasks a processor may put: those it has got
          master,     \* the processor that collects garbage, or "none"
          taken,      \* the queues DRAIN-WORK-QUEUE! has still to look at
          drained,    \* the list it makes, and the master puts back
          needed,     \* the undetermined tasks the program still refers to
          puts, full  \* counters of the bounded events

vars == <<workLock, workLength, chain, node, pc, task, again, at, hand,
          master, taken, drained, needed, puts, full>>

shared == <<workLock, workLength, chain, node>>
local  == <<task, again, at, hand>>
gc     == <<master, taken, drained, needed>>

Labels == {"idle",          \* between two primitives: takes its interrupts here
           "putLockWork", "putFind", "putLockNode", "putUnlockWork", "putLink",
           "getLockWork", "getFind", "getCount", "getPop",
           "full",          \* left Put_Work for the garbage collector
           "parked",        \* waits at the collector's synchronizer
           "parkedFull",    \* so does one that left Put_Work
           "drain"}         \* in DRAIN-WORK-QUEUE!

Putting == {"putLockWork", "putFind", "putLockNode", "putUnlockWork", "putLink"}

NewNode == [lock |-> FALSE, prio |-> 0, items |-> << >>]

TypeOK == /\ workLock \in BOOLEAN
          /\ workLength \in Shorts
          /\ chain \in Seq(Nodes)
          /\ node \in [Nodes -> [lock : BOOLEAN, prio : Shorts,
                                 items : Seq(Tasks)]]
          /\ pc \in [Procs -> Labels]
          /\ task \in [Procs -> Tasks \cup {NoTask}]
          /\ \A p \in Procs : pc[p] \in Putting => task[p] \in Tasks
          /\ again \in [Procs -> Seq(Tasks)]
          /\ at \in [Procs -> Nodes \cup {NULL}]
          /\ hand \in [Procs -> SUBSET Tasks]
          /\ master \in Procs \cup {"none"}
          /\ taken \in Seq(Nodes)
          /\ drained \in Seq(Tasks \cup {NoTask})
          /\ needed \subseteq Tasks
          /\ puts \in 0 .. MaxPuts
          /\ full \in 0 .. MaxFull

Init == /\ workLock = FALSE
        /\ workLength = 0
        /\ chain = << >>
        /\ node = [n \in Nodes |-> NewNode]
        /\ pc = [p \in Procs |-> "idle"]
        /\ task = [p \in Procs |-> NoTask]
        /\ again = [p \in Procs |-> << >>]
        /\ at = [p \in Procs |-> NULL]
        \* One processor has spawned all the tasks.
        /\ \E p \in Procs : hand = [q \in Procs |-> IF q = p THEN Tasks ELSE {}]
        /\ master = "none"
        /\ taken = << >>
        /\ drained = << >>
        /\ needed = Tasks
        /\ puts = 0
        /\ full = 0

Goto(p, label) == pc' = [pc EXCEPT ![p] = label]
Step(p, from, to) == pc[p] = from /\ Goto(p, to)

\* A collection has been asked for, and its interrupt is on the way.
Collecting == master # "none" /\ drained = << >>

\* p runs the program: it is not in the handler of the collector's interrupt.
Running(p) == pc[p] = "idle" /\ ~Collecting /\ p # master

-----------------------------------------------------------------------------
(* PUT-WORK *)

\* A call from the program.
StartPut(p, t) ==
    /\ Running(p) /\ again[p] = << >>
    /\ Goto(p, "putLockWork")
    /\ t \in hand[p]
    /\ puts < MaxPuts
    /\ puts' = puts + 1
    /\ hand' = [hand EXCEPT ![p] = @ \ {t}]
    /\ task' = [task EXCEPT ![p] = t]
    /\ UNCHANGED <<shared, again, at, gc, full>>

\* A call that a collection interrupted starts from the beginning, the last one
\* first: a master may be interrupted again while it puts the work back.
RestartPut(p) ==
    /\ Running(p) /\ again[p] # << >>
    /\ Goto(p, "putLockWork")
    /\ task' = [task EXCEPT ![p] = Head(again[p])]
    /\ again' = [again EXCEPT ![p] = Tail(@)]
    /\ UNCHANGED <<shared, at, hand, gc, puts, full>>

\* Primitive_Error: no priority can be read, and the caller keeps the task.
PutError(p) ==
    /\ Step(p, "putLockWork", "idle")
    /\ task[p] \in Unfit
    /\ hand' = [hand EXCEPT ![p] = @ \cup {task[p]}]
    /\ task' = [task EXCEPT ![p] = NoTask]
    /\ UNCHANGED <<shared, again, at, gc, puts, full>>

PutLockWork(p) ==
    /\ Step(p, "putLockWork", "putFind")
    /\ task[p] \notin Unfit
    /\ ~workLock
    /\ workLock' = TRUE
    /\ workLength' = Short(workLength + 1)
    /\ UNCHANGED <<chain, node, local, gc, puts, full>>

\* Find_Right_Queue walks the chain to the first queue whose priority is not
\* higher, or to the end.
StopsAt(pr) ==
    CHOOSE i \in 1 .. Len(chain) + 1 :
        /\ i <= Len(chain) => node[chain[i]].prio <= pr
        /\ \A j \in 1 .. i - 1 : node[chain[j]].prio > pr

Existing(pr) == LET i == StopsAt(pr)
                IN i <= Len(chain) /\ node[chain[i]].prio = pr

PutFindExisting(p) ==
    /\ Step(p, "putFind", "putLockNode")
    /\ Existing(Priority(task[p]))
    /\ at' = [at EXCEPT ![p] = chain[StopsAt(Priority(task[p]))]]
    /\ UNCHANGED <<shared, task, again, hand, gc, puts, full>>

\* Allocate_Priority_Queue, when there is room for the new queue.
PutFindNew(p) ==
    /\ Step(p, "putFind", "putLockNode")
    /\ ~Existing(Priority(task[p]))
    /\ \E n \in Nodes \ ToSet(chain) :
          /\ node' = [node EXCEPT ![n] = [NewNode EXCEPT !.prio = Priority(task[p])]]
          /\ chain' = InsertAt(chain, StopsAt(Priority(task[p])), n)
          /\ at' = [at EXCEPT ![p] = n]
    /\ UNCHANGED <<workLock, workLength, task, again, hand, gc, puts, full>>

\* Primitive_GC_If_Needed leaves the primitive.  The processor becomes the
\* master of a collection, unless there is one already; while one is putting
\* the work back the heap has room.
HeapFull(p) ==
    /\ full < MaxFull
    /\ drained = << >>
    /\ full' = full + 1
    /\ Goto(p, "full")
    /\ again' = [again EXCEPT ![p] = <<task[p]>> \o @]
    /\ task' = [task EXCEPT ![p] = NoTask]
    /\ at' = [at EXCEPT ![p] = NULL]
    /\ master' = IF master = "none" THEN p ELSE master
    /\ UNCHANGED <<shared, hand, taken, drained, needed, puts>>

\* ... in Allocate_Priority_Queue, with Work_Queue_Lock held
PutFindFull(p) == /\ pc[p] = "putFind"
                  /\ ~Existing(Priority(task[p]))
                  /\ HeapFull(p)

PutLockNode(p) ==
    /\ Step(p, "putLockNode", "putUnlockWork")
    /\ ~node[at[p]].lock
    /\ node' = [node EXCEPT ![at[p]].lock = TRUE]
    /\ UNCHANGED <<workLock, workLength, chain, local, gc, puts, full>>

PutUnlockWork(p) ==
    /\ Step(p, "putUnlockWork", "putLink")
    /\ workLock' = FALSE
    /\ UNCHANGED <<workLength, chain, node, local, gc, puts, full>>

\* A bug: the new cell becomes the head.
PutLinkHead(p) ==
    /\ Step(p, "putLink", "idle")
    /\ node' = [node EXCEPT ![at[p]].items = <<task[p]>> \o @,
                            ![at[p]].lock = FALSE]
    /\ task' = [task EXCEPT ![p] = NoTask]
    /\ at' = [at EXCEPT ![p] = NULL]
    /\ UNCHANGED <<workLock, workLength, chain, again, hand, gc, puts, full>>

\* Links the new cell at the tail, and unlocks the queue.
PutLink(p) ==
    /\ Step(p, "putLink", "idle")
    /\ node' = [node EXCEPT ![at[p]].items = Append(@, task[p]),
                            ![at[p]].lock = FALSE]
    /\ task' = [task EXCEPT ![p] = NoTask]
    /\ at' = [at EXCEPT ![p] = NULL]
    /\ UNCHANGED <<workLock, workLength, chain, again, hand, gc, puts, full>>

\* ... or finds no room for it, with queue_lock held
PutLinkFull(p) == pc[p] = "putLink" /\ HeapFull(p)

-----------------------------------------------------------------------------
(* GET-WORK: one turn of its loop, which looks at the interrupts first *)

StartGet(p) ==
    /\ Running(p) /\ again[p] = << >>
    /\ Goto(p, "getLockWork")
    /\ UNCHANGED <<shared, local, gc, puts, full>>

GetLockWork(p) ==
    /\ Step(p, "getLockWork", "getFind")
    /\ ~workLock
    /\ workLock' = TRUE
    /\ at' = [at EXCEPT ![p] = IF chain = << >> THEN NULL ELSE Head(chain)]
    /\ UNCHANGED <<workLength, chain, node, task, again, hand, gc, puts, full>>

\* A bug: the next link of a queue is not set.
Unlinked(n) == NULL

NextNode(n) == LET i == CHOOSE j \in 1 .. Len(chain) : chain[j] = n
               IN IF i = Len(chain) THEN NULL ELSE chain[i + 1]

\* Find_For_Get falls off the end of the chain; the compiled code returns NULL.
GetNothing(p) ==
    /\ Step(p, "getFind", "idle")
    /\ at[p] = NULL
    /\ workLock' = FALSE
    /\ UNCHANGED <<workLength, chain, node, local, gc, puts, full>>

\* It locks an empty queue, unlocks it and goes on to the next one ...
GetSkip(p) ==
    /\ pc[p] = "getFind"
    /\ at[p] # NULL
    /\ ~node[at[p]].lock
    /\ node[at[p]].items = << >>
    /\ at' = [at EXCEPT ![p] = NextNode(at[p])]
    /\ UNCHANGED <<shared, pc, task, again, hand, gc, puts, full>>

\* ... and keeps the lock of the first one that is not empty.
GetChoose(p) ==
    /\ Step(p, "getFind", "getCount")
    /\ at[p] # NULL
    /\ ~node[at[p]].lock
    /\ node[at[p]].items # << >>
    /\ node' = [node EXCEPT ![at[p]].lock = TRUE]
    /\ UNCHANGED <<workLock, workLength, chain, local, gc, puts, full>>

\* A bug: the length is not brought up to date.
GetUncounted(p) ==
    /\ Step(p, "getCount", "getPop")
    /\ workLock' = FALSE
    /\ UNCHANGED <<workLength, chain, node, local, gc, puts, full>>

GetCount(p) ==
    /\ Step(p, "getCount", "getPop")
    /\ workLength' = Short(workLength - 1)
    /\ workLock' = FALSE
    /\ UNCHANGED <<chain, node, local, gc, puts, full>>

GetPop(p) ==
    /\ Step(p, "getPop", "idle")
    /\ hand' = [hand EXCEPT ![p] = @ \cup {Head(node[at[p]].items)}]
    /\ node' = [node EXCEPT ![at[p]].items = Tail(@),
                            ![at[p]].lock = FALSE]
    /\ at' = [at EXCEPT ![p] = NULL]
    /\ UNCHANGED <<workLock, workLength, chain, task, again, gc, puts, full>>

-----------------------------------------------------------------------------
(* The garbage collection, as far as it concerns the work queue *)

\* A processor takes the global interrupt and waits at the synchronizers.
Park(p) ==
    /\ Collecting
    /\ pc[p] \in {"idle", "full"}
    /\ Goto(p, IF pc[p] = "idle" THEN "parked" ELSE "parkedFull")
    /\ UNCHANGED <<shared, local, gc, puts, full>>

\* DRAIN-WORK-QUEUE! takes the chain away, with Work_Queue_Lock but without any
\* queue_lock ...
Drain(p) ==
    /\ p = master
    /\ \A q \in Procs : pc[q] \in {"parked", "parkedFull"}
    /\ ~workLock
    /\ taken' = chain
    /\ chain' = << >>
    /\ workLength' = 0
    /\ pc' = [q \in Procs |-> IF q = p THEN "drain" ELSE "parked"]
    /\ UNCHANGED <<workLock, node, local, master, drained, needed, puts, full>>

\* A bug: each queue replaces what the earlier ones gave.
DrainLast(p) ==
    /\ pc[p] = "drain" /\ taken # << >>
    /\ taken' = Tail(taken)
    /\ drained' = node[Head(taken)].items
    /\ UNCHANGED <<shared, pc, local, master, needed, puts, full>>

\* ... and puts the items of each queue before those of the earlier ones: the
\* list is in reverse priority order.
DrainOne(p) ==
    /\ pc[p] = "drain" /\ taken # << >>
    /\ taken' = Tail(taken)
    /\ drained' = node[Head(taken)].items \o drained
    /\ UNCHANGED <<shared, pc, local, master, needed, puts, full>>

\* The collection.  The list is one of weak pairs: those whose tasks nothing
\* else refers to lose them, and so do those whose tasks have been determined
\* and are replaced by their values.  When it is over all go on.
DrainEnd(p) ==
    /\ pc[p] = "drain" /\ taken = << >>
    /\ pc' = [q \in Procs |-> "idle"]
    /\ \E kept \in SUBSET Tasks :
          /\ needed \subseteq kept
          /\ drained' = [i \in DOMAIN drained |->
                            IF drained[i] \in kept THEN drained[i] ELSE NoTask]
    /\ master' = IF drained = << >> THEN "none" ELSE master
    /\ UNCHANGED <<shared, local, taken, needed, puts, full>>

\* The master goes down the list before it goes on with its own program; the
\* others are running already.
NextUnit(p) ==
    /\ p = master
    /\ pc[p] = "idle"
    /\ drained # << >>
    /\ drained' = Tail(drained)
    /\ master' = IF Tail(drained) = << >> THEN "none" ELSE p
    /\ UNCHANGED <<shared, again, at, hand, taken, needed, puts, full>>

\* A bug: whatever is in the list is put back.
RestoreUntested(p) ==
    /\ NextUnit(p)
    /\ Goto(p, "putLockWork")
    /\ task' = [task EXCEPT ![p] = Head(drained)]

\* It puts the futures back ...
RestoreOne(p) ==
    /\ NextUnit(p)
    /\ Head(drained) # NoTask
    /\ Goto(p, "putLockWork")
    /\ task' = [task EXCEPT ![p] = Head(drained)]

\* ... and nothing else.
RestoreNone(p) ==
    /\ NextUnit(p)
    /\ Head(drained) = NoTask
    /\ UNCHANGED <<pc, task>>

\* The program drops its last reference to t, or somebody determines t.
Forget(p, t) ==
    /\ Running(p)
    /\ t \in Optional \cap needed
    /\ needed' = needed \ {t}
    /\ UNCHANGED <<shared, pc, local, master, taken, drained, puts, full>>

-----------------------------------------------------------------------------

Acquire(p) == PutLockWork(p) \/ PutLockNode(p) \/ GetLockWork(p)
              \/ GetSkip(p) \/ GetChoose(p)

Proceed(p) == \/ Acquire(p) \/ RestartPut(p) \/ PutError(p)
              \/ PutFindExisting(p) \/ PutFindNew(p) \/ PutUnlockWork(p)
              \/ PutLink(p)
              \/ GetNothing(p) \/ GetCount(p) \/ GetPop(p)
              \/ Park(p) \/ Drain(p) \/ DrainOne(p) \/ DrainEnd(p)
              \/ RestoreOne(p) \/ RestoreNone(p)

Next == \E p \in Procs :
            \/ Proceed(p)
            \/ StartGet(p)
            \/ PutFindFull(p) \/ PutLinkFull(p)
            \/ \E t \in Tasks : StartPut(p, t) \/ Forget(p, t)

Spec == Init /\ [][Next]_vars

\* The processors run, idle ones keep asking for work, and a spin lock that is
\* free again and again is got in the end.
FairSpec == /\ Spec
            /\ \A p \in Procs : /\ WF_vars(Proceed(p))
                                /\ SF_vars(Acquire(p))
                                /\ WF_vars(StartGet(p))

-----------------------------------------------------------------------------

Queued(t) == \E n \in ToSet(chain) : t \in ToSet(node[n].items)

\* The queues of the chain, and those that DRAIN-WORK-QUEUE! has taken away.
Linked == ToSet(chain) \cup ToSet(taken)

Indices(s, t) == {i \in DOMAIN s : s[i] = t}

\* Where t is: with a processor, that may put it, is putting it or is to put it
\* again, in the list of the master, or in a queue.
Where(t) ==       {<<"hand", p, 0>> : p \in {q \in Procs : t \in hand[q]}}
             \cup {<<"task", p, 0>> : p \in {q \in Procs : task[q] = t}}
             \cup (UNION {{"again"} \X {p} \X Indices(again[p], t) : p \in Procs})
             \cup {"drained"} \X {0} \X Indices(drained, t)
             \cup (UNION {{"queued"} \X {n} \X Indices(node[n].items, t) : n \in Linked})

(***************************************************************************)
(* A task is never lost while the program refers to it, and never handed   *)
(* out twice: it is in one place, whatever puts, gets and collections are  *)
(* under way.  A collection may drop one that is not needed any more.      *)
(***************************************************************************)
NothingLost == \A t \in Tasks : /\ Cardinality(Where(t)) <= 1
                                /\ t \in needed => Where(t) # {}

Slots     == UNION {{n} \X DOMAIN node[n].items : n \in ToSet(chain)}
Announced == {p \in Procs : pc[p] \in {"putFind", "putLockNode", "putUnlockWork",
                                       "putLink", "full", "parkedFull"}}
Popping   == {p \in Procs : pc[p] = "getPop"}

\* The queued tasks, with those announced and not yet linked (PUT-WORK calls
\* that a full heap interrupted among them, until the drain) and without those
\* that somebody is about to unlink.
TrueLength == Cardinality(Slots) + Cardinality(Announced) - Cardinality(Popping)

(***************************************************************************)
(* Work_Queue_Length has the low 16 bits of that, although it is changed   *)
(* under another lock than the queues: no put, get or abort is miscounted. *)
(***************************************************************************)
LengthIsExact == workLength = Short(TrueLength)

(***************************************************************************)
(* Get_Work "hangs until work is available": a task that is queued is got. *)
(***************************************************************************)
QueuedIsTaken == \A t \in Tasks : Queued(t) ~> ~Queued(t)

(***************************************************************************)
(* The same as long as Put_Work finds room in the heap: nobody starves at  *)
(* a spin lock of the chain, and none is left set.                         *)
(***************************************************************************)
QueuedIsTakenWithRoom == [](full = 0) => QueuedIsTaken

(***************************************************************************)
(* "The master will drain the work queue between here ... and here": a     *)
(* collection that has been asked for gets as far as DRAIN-WORK-QUEUE!     *)
(***************************************************************************)
MasterDrains == Collecting ~> \E p \in Procs : pc[p] = "drain"

-----------------------------------------------------------------------------

\* A task that a processor has chosen is out of the queue.
Claimed(n) == \E p \in Procs : pc[p] \in {"getCount", "getPop"} /\ at[p] = n

Visible(pr) ==
    LET n == {m \in ToSet(chain) : node[m].prio = pr}
    IN IF n = {} THEN << >>
       ELSE LET m == CHOOSE m \in n : TRUE
            IN IF Claimed(m) THEN Tail(node[m].items) ELSE node[m].items

Q == INSTANCE PriorityQueue WITH queue <- [pr \in Priorities |-> Visible(pr)],
                                 Prio  <- [t \in Tasks |-> Priority(t)]

(***************************************************************************)
(* Get_Work takes the oldest task of the highest priority there is at the  *)
(* moment it locks a queue, and Put_Work appends; priorities are compared  *)
(* as the short integers that Put_Work makes of them.                      *)
(***************************************************************************)
ImplementsPriorityQueue == Q!Spec

=============================================================================
