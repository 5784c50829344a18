# A specification of the parallel core of Butterfly Lisp

The repository is a parallel Scheme / Common Lisp system for the BBN Butterfly, a
machine of up to a few hundred processors with shared memory. `mach/uc` is the
"microcode" in C (interpreter, primitives, garbage collector, scheduler), and
`mach/runtime` the Scheme code that is loaded into it. `mach/sf`, `mach/cl`,
`mach/zcomp`, `mach/demo` and `mach/tests` are the integrator, the Common Lisp
layer, the native compiler, demos and tests. All paths below are under
`src/bbn_cl/`.

This directory models the part that decides whether the machine works at all: how
its processors meet, interrupt each other, share out work, wait for each other's
values, share variables and collect garbage together. Most of the rest of the
microcode is sequential code over data, and better served by tests.

The source has conditional parts. The models are of the build that
`mach/uc/Makefile` makes: `butterfly` defined, `USE_SINGLE_HEAP` defined.

## 1. Inventory

### 1.1 Synchronizers (`uc/bf-prims.c` 185-265, AWAIT-SYNCHRONY)

- *State*: one 16-bit half of the cdr of a pair. Bit 15 is a spin lock, the others
  count the processors that have not come; 0x7FFF means "open".
- *Operations*: AWAIT-SYNCHRONY, called by every processor once. A processor that
  gets an interrupt while it waits takes its arrival back, serves the interrupt,
  and calls the primitive again.
- *Interactions*: the garbage collector uses four per collection,
  pause-everything three. The interrupt register of each processor.
- *Hard*: atomic instructions and plain stores on one word; two processors that
  both see "I am the last"; backing out while the barrier opens.
- *Correct if*: nobody passes before everybody has come, nobody is left
  behind, no arrival or back-out is lost, exactly one is told it was the last, and
  the count is never taken for the flag or the lock.

### 1.2 Global interrupts (`uc/bf-interco.c`, `uc/unix.c`, `uc/utils.c`)

- *State*: `Global_Int_Lock`, a handler per level, `Signal_Lock` (a lock bit and a
  count of acknowledgements), `Signal_Data`, and `IntCode`/`IntEnb` of each
  processor.
- *Operations*: GLOBAL-INTERRUPT (level, WORK, TEST): lock, TEST, store WORK,
  signal all the others, await their acknowledgements, unlock. The signal
  handler acknowledges and sets an interrupt bit; the interrupt fetches WORK from
  the table when it is taken.
- *Interactions*: collector (level 0), pause-everything (level 1), tests and
  libraries (2, 3). Any allocation may call for a collection.
- *Hard*: processors that call at once with different levels, interrupts within
  interrupts, a handler overwritten while somebody still needs it, the collector
  moving the table of handlers.
- *Correct if*: each of the other processors begins WORK once; whoever waits for
  the lock gets it; every rendezvous ends.

### 1.3 Garbage collection (`runtime/bf-gc.scm`, `uc/bf-gc.c`, `uc/bf-gcloop.m4`)

- *State*: counters in shared memory (`GC_Flip_Count`, `GC_Consing_Done_Count`,
  ...), the array of heaplets and the index of the next one, the queue of heaplets
  to scan with its count of busy processors, a chain of weak pairs per processor.
- *Operations*: rendezvous, flip, scan and copy, detect the end, fix weak pairs,
  move the heap, take a share of the free space, daemons on the master, resume.
- *Interactions*: synchronizers and global interrupts; drains and restores the
  work queue; saves the pending handlers.
- *Hard*: distributed termination (a queue that is empty is not the end), own and
  queued heaplets, phases that overlap between processors, counters that the next
  collection resets, limits (queue, heaplets, memory).
- *Correct if*: what is reachable, and nothing else, is copied, and each copied word
  is scanned once; weak pairs lose just what is garbage; no processor runs Scheme
  code before all heaps have been moved; all come back.

### 1.4 Work queue (`uc/ffuture.c` 730-995, `uc/bf-prims.c` 66-175)

- *State*: `The_New_Improved_Work_Queue`, a chain of queues in order of priority with
  a lock each; `Work_Queue_Lock`; `Work_Queue_Length`.
- *Operations*: PUT-WORK, GET-WORK, DRAIN-WORK-QUEUE!.
- *Interactions*: scheduler and futures put and get; the collector drains the queue
  and puts the tasks back; a full heap aborts PUT-WORK.
- *Hard*: two kinds of locks, taken hand over hand, the abort with locks held; 16 bits for
  length and priorities; a list of weak pairs, that a collection may break, to restore from.
- *Correct if*: it is a priority queue, FIFO in each priority; nothing that is needed is lost
  and nothing got twice; what is queued is got; a collection comes to an end.

### 1.5 Futures and scheduler (`uc/ffuture.c`, `uc/futures.h`, `runtime/future.scm`)

- *State*: per future a lock, a flag, value or queue of waiters, status, process
  (saved state or the processor that runs it), what it waits for; per processor
  the current future.
- *Operations*: spawn (at once or DELAYED), touch/await, determine and wake, run,
  preempt, reschedule; pause-everything, within-process; inheritance of priorities.
- *Interactions*: work queue, timer interrupts, collector, I/O servers (they
  determine futures).
- *Hard*: await against determine; a task that others can find before its processor
  has left it; a task determined by somebody else; locks held by Scheme code.
- *Correct if*: a task runs on one processor at a time, a runnable task is queued
  once, a waiting one is known to whoever will wake it, a determined future is
  final, and every task is finished.

### 1.6 Variables (`uc/lookup.c`, `uc/lookup.h`, `uc/interpret.c`)

- *State*: environment frames with formal parameters and a growing vector of auxiliary
  bindings; the variable objects of the code, two words that remember the path by which a
  name was found; traps in value cells (unassigned, unbound, dangerous). For compiled code,
  extensions that stand for a binding, lists of the blocks that refer to them, a clone for
  assignments, direct links to procedures.
- *Operations*: reference, assignment, definition; caching of a reference of compiled code,
  recaching of references when a definition comes between, updating of direct links.
- *Interactions*: cell locks (`uc/bf-interco.c` 42-145) and `Compiler_Recache_Lock`; the
  collector empties the weak pairs of blocks of code that are garbage; a full heap or an
  interrupt restarts an operation in the middle.
- *Hard*: two words stored one after the other and read without a lock; definitions that
  shadow what others have found already; locks exchanged for others half-way; several
  redundant copies (links, lists, clone, extension) of the same fact.
- *Correct if*: who follows a path, a cache or a direct link gets the binding, and the
  value, that a full search would find.

### 1.7 The other parts

| part | where | state and operations | status |
|---|---|---|---|
| priority inheritance | `uc/ffuture.c` | walks WAITING_ON chains, relocks as it goes | planned |
| pause-everything, within-process | `runtime/future.scm` 548-690 | stops every task, three synchronizers | planned |
| heap allocation | `uc/bf-memmag.c` | table of free chunks under Memory_Lock | planned |
| cell locks | `uc/bf-interco.c` 42-145 | a lock for a region of memory, 100000 retries | as guards of `VariableCaches`; the retries are not modelled |
| copying one object | `uc/bf-gcloop.m4` | lock bit of the first word, broken heart | planned (one atomic step now) |
| FIFO queue | `uc/bf-queue.c` | a ring under a lock, not used by the Butterfly build but for the heaplets, which have their own operations | not planned |
| purify, code space, fasdump | `uc/bf-purify.c`, `codeman.c`, `fasdump.c`, `fasload.c` | special collections, file formats | not planned |
| symbols, fluid bindings | `uc/intern.c`, `uc/fhooks.c` | a table under a lock; data of one processor | not planned |
| interpreter | `uc/interpret.c` | evaluator; its interrupt test is part of `GlobalInterrupt`, variables and assignments of `Variables` | the rest is not planned |
| I/O, files, terminals | `uc/fileser.c`, `bf-io.c`, `servers.c`, `runtime/input.scm` | operating system calls | not planned |
| start and shutdown | `uc/butterfly.c`, `parallel.c`, `boot.c` | initial states only | not planned |
| arithmetic, strings, vectors | `uc/bignum.c`, ... | data | not planned |
| resources, SPMD, events, hash | `runtime/*.scm` | libraries above futures | not planned |
| CL, sf, zcomp, demos, tests | `mach/...` | Lisp programs and compilers | not planned |

`PROJECT.json` lists the same parts with their sources, and under `hazards` what in
this code is hard to test, each at its line and with the properties that cover it.

## 2. Modules

```
                 Barrier                                PriorityQueue
                    ^  refinement (proved)                    ^  refinement (proved)
             Synchronizer                                 WorkQueue
                    |
   the barrier is used as an abstraction by        Futures (work queue as a bag)
     GlobalInterrupt      Collection

   Variables  (frames and variable objects)
   VariableCaches  (caches of compiled code; takes the lookup of Variables as one step)
```

| module | stands for | about |
|---|---|---|
| `Barrier` | what a synchronizer promises | enter, back out, open, pass |
| `Synchronizer` | AWAIT-SYNCHRONY | one action per access of the cell |
| `SynchronizerProofs` | | theorems about the two |
| `WorkQueueProofs`, `FuturesProofs`, `GlobalInterruptProofs`, `CollectionProofs`, `VariablesProofs`, `VariableCachesProofs` | | theorems about the module so named |
| `ScanningProofs` | | theorems about the copying and scanning in `Collection` |
| `GlobalInterrupt` | GLOBAL-INTERRUPT, signals, interrupts | a stack of frames per processor |
| `Collection` | test-and-gc and gc-slave | heap as a graph, heaplets as sequences of words |
| `PriorityQueue` | what the work queue promises | put, take, flush |
| `WorkQueue` | PUT-WORK, GET-WORK, DRAIN-WORK-QUEUE! | chain and locks |
| `Futures` | tasks and futures | slots of a future, place of each processor |
| `Variables` | references, assignments, definitions of interpreted code | words of frames and variable objects |
| `VariableCaches` | caches of compiled code for one variable | extensions, links, cell locks and the recache lock |
| `MC...` | | values for the constants; one or more `.cfg` each |

**Conventions.** `pc[p]` is the place of processor `p` in the primitive it executes,
named for what comes next. An action is one access of shared memory, or a stretch of
code that touches only what a lock held by `p` protects or what belongs to `p`.
A spin lock is a guard: an action that takes a lock waits until the lock is free.
Operators whose comment begins with "A bug:" or "Mutant of" are wrong versions of the
definition that follows them; no specification uses them. They record which
mistake each property is there to catch.

### How state and actions correspond to the code

*Synchronizer.* `cell` is the 16-bit word, arithmetic wraps at 16 bits
(`AtomDecrement`, `AtomIncrement`), bit 15 is `LOCK`, and `COMPLETE` is 0x7FFF. Each
`atomadd`, `atomior`, `atomand`, each store and each read is an action. `pending` is
`(IntEnb & IntCode) != 0`, `Handle` the interrupt handler and the return into the
primitive, which starts again.

*GlobalInterrupt.* `stack[p]` has what `p` does on top and what was interrupted below:
the program, GLOBAL-INTERRUPT (`lock`, `locked`, `test`, `signal`, `acks`, `unlock`),
the time before the WORK of a level is fetched, WORK, and the synchronizer.
`Deliver` is the signal handler: it reads `Signal_Data`, decrements `Signal_Lock` and sets
the interrupt bit. `SpinInterrupted` and `LockedInterrupted` are the interrupts that the
primitive takes itself, whatever the mask. TEST is a Scheme procedure: it may return
either truth value at the levels `Conditional`, and it may be interrupted or find the
heap full; what `ProgramsGoOn` says depends on its doing neither (`TestsRunAlone`). The collector masks its own level and all lower ones: `runtime/bf-gc.scm:80`
gives INTERRUPT-MASK-GLOBAL-GC the value 1, which is the bit of INT_Stack_Overflow and not
that of INT_Global_GC (2, `uc/interrupt.h:41-42`), so that the model, like the code and
unlike the comment at `bf-gc.scm:149-150`, keeps that interrupt masked.

*Collection.* `Fields[o]` are the words of an object that are scanned, `WeakCar[o]` the
word of a weak pair that is not, `Roots[p]` the fixed areas that `p` scans (constant
space, stack, code). A heaplet is the sequence of the words copied into it, `scan[h]` its
Heaplet_Scan; `left[p]` are the words between current_free and its end. `Copy` forwards an object
and appends its words to the heaplet of `p`. A heaplet is left when there are no more words in it
than the buffer, after a copy, or when a vector does not fit, before it (`VectorOverflow`, with the
vector locked); it may be empty then. `Overflow` gets another one, as large as the vector needs
(`NewHeaplet`), and queues the one that is left, except when `p` is scanning it;
`PopHeaplet` and `PopNothing` are the two ways out of `Pop_From_Heaplet_Queue`, under
the lock of the queue. The actions from `Prepare` to `Complete` carry the names of the
counters they work on.

*WorkQueue.* `chain` is the linked list, `node[n]` a `struct priority_queue`. What is done
with `Work_Queue_Lock` held and touches nothing else is one action (`PutFindExisting`
is the whole walk of Find_Right_Queue; `GetSkip` and `GetChoose` are single steps of
Find_For_Get, because they lock other queues). `PutFindFull` and `PutLinkFull` are
`Primitive_GC_If_Needed`, that leaves the primitive. `again[p]` are the calls that it has left,
the last one first: a master that puts the work back and finds the heap full goes to another
collection before it comes back to its own call. `Park`, `Drain` and the actions after it are the
collection as far as the queue is concerned. `Drain` takes the chain away, `DrainOne` looks at one
queue of it (`taken` has the others), and `DrainEnd` lets all go on. The list that is made of the
queues is one of weak pairs (`bf-prims.c:164`), and the collector takes the car from those whose
task nothing else refers to, or has been determined and is replaced by its value: `DrainEnd` keeps
the tasks that the program needs, and any of the others. `RestoreOne` puts a task back, `RestoreNone`
goes past a pair without one. `Forget` is the program that stops needing a task. Priorities and the
length are short integers: `Priority(t)` is what is left of `Prio[t]` in 16 bits, and `PutError` the
priority that is no integer at all.

*Futures.* One variable per slot of a future. The program is given by whom each task
spawns, touches and determines, in any order; a task finishes when it has done it all.
`Run`, `RunSkip` are Run_A_Future; `Await...` %AWAIT-FUTURE; `Det...` and `Wake...`
%DETERMINE! with Wake_Up_List, where `Keep(p)` says whether the value comes with a KEEP? argument and
may be replaced by another one (`kept`); `Preempt...` the timer interrupt (saving-state);
`Yield...` `reschedule`. `Interruptible` says where a processor can be sent to a collection: in
Scheme code and in Get_Work, not in a primitive that spins on the lock of a future.

*Variables.* `hunk[l, n]` has the two words of the variable object for the name `n` in the
lambda `l` (an occurrence shares it with all frames of the lambda), `cell` what is in the
value cells (words of frames, cdrs of auxiliary bindings, symbols), a trap being a pair of
"dangerous" and the value behind it. `ReadType`, `ReadOffset`, `Verify`, `FetchValue` and
`StoreValue` are the macro `lookup` with `lookup_end` and `assignment_end`; `SearchFrame`,
`StoreType`, `StoreOffset`, `DeepFetch`, `DeepStore`, `Uncompile` are deep_lookup and what
follows it; `Extend...`, `Ensure...`, `Search...`, `Add...` are extend_frame, which
climbs the frames by calling itself and adds the bindings on the way back; `Definition` and
`Redefine` are the two ways it ends. `Restart` is a full heap at each of its tests. The
history variable `seen` collects the bindings a name has meant while a call ran, and `apart` says
whether definitions have been apart so far: no two of one name at the same time in frames of
which one is inside of the other.

*VariableCaches.* One variable name. `cell[e]` is its value cell in environment `e`, with the
extension that has taken the cell over; `exts[i]` an extension with its value, its three
lists of references and whether it has a clone; `link[r]` what the block of code of
reference `r` holds. `holder` are the cell locks by region, where every extension is in the
constant space and shares one lock, `recache` is Compiler_Recache_Lock. `Cache...` is
compiler_cache_reference, `Assign...` and `Links...` assignment_end, deep_assignment_end and
recache_uuo_links, `Extend` ... `Define` extend_frame, compiler_recache and definition. A step
ends where the code gives a lock up or may wait for another one. `Collect` is the collector,
which empties the weak pair of a block that is garbage.

## 3. Runs

Times are for two TLC workers.

| run | configuration | states | what it asks |
|---|---|---|---|
| `synchronizer` | 3 processors, 16 bits, 2 interrupts each | 42607, 7 s | the barrier: early release, lost updates, the lock bit, two openers, stranded waiters, refinement of `Barrier` |
| `work_queue` | 2 processors, 4 tasks (two priorities equal in 16 bits, one lower, one refused), 3 puts, the heap full once | 634382, 137 s | nothing needed is lost, length, refinement of `PriorityQueue`, progress while there is room |
| `work_queue_full` | 2 tasks of 2 priorities | *violation* | a full heap in Put_Work: the collection does not get to the drain |
| `futures` | 2 processors, root + 2 tasks (one delayed) + 1 input, 2 preemptions or yields, 1 collection | 127435, 55 s | queued once, no lost wakeup, locks are got, all tasks finish |
| `futures_race` | tasks determine one that may run or wait, for good or to be replaced; heap full once, 2 preemptions, 2 collections | 561668, 13 s | locks and "one runner" when programs do what the scheduler does not expect |
| `global_interrupt` | 2 processors, 3 calls, levels 0, 2, 3; 0 and 3 meet; the heap may be full at any point | 104253, 16 s | WORK is begun once, acknowledgements, handlers in a collection, all come back |
| `global_interrupt_hang` | 2 processors, TEST may find the heap full | *violation* | a processor waits for a lock it holds |
| `collection` | 2 processors, 6 objects, 2 of them vectors, 2 collections in a row | 136863, 23 s | all reachable words scanned once, weak pairs, order of phases, end |
| `variables` | 2 processors, 3 frames, 2 names, 2 calls each, the heap full once | 448781, 97 s | remembered paths, shadowing, one binding for a name, what calls find |
| `variables_torn` | 2 processors, one reference each | *violation* | type and offset of a variable object do not belong together |
| `caches` | 5 operations by one processor, 2 by the other one, 4 references, 3 environments, the heap full once | 1483794, 50 s | links follow scope and value, assignments trap, lists are complete |
| `caches_clone` | caching and one definition by one processor | *violation* | an assignment that does not see the operators |

Every property that passes has a mutant in `PROJECT.json`: the smallest plausible bug in
the modelled code (a guard dropped, a reset forgotten, a wait skipped) for which TLC
finds the property violated in the same configuration. So each bound is large
enough for the case a property is about to happen.

### Bounds

- *Synchronizer*: three processors are needed for one to back out, another to see the
  count 1, and a third to arrive in between. Two interrupts for a processor that comes back
  and backs out again. The proofs lift both.
- *WorkQueue*: the priorities are 5 and 65536 + 5, which come to the same queue in 16 bits and show the
  order within it, and 40000, which is negative then and shows the order between queues; a fourth
  task has no priority that can be read. One abort by a full heap, during any of the puts, including
  those that follow a drain. Three puts by the program, so that all of the three tasks are queued at once;
  the puts that restore the queue are not counted. One task may become garbage, or be
  determined, at any time.
- *Futures*: a task that waits, one that is delayed, one that determines what both wait
  for, and more tasks than processors. Two preemptions catch a task in two places of its
  life. `MaxFull` and `MaxCollect` bound the environment: one collection lets a processor leave with or
  without a lock while another one spins, and two are enough for the second to find a half-done
  operation of the first. `futures_race` has a value that is kept and then replaced.
- *GlobalInterrupt*: a second call is what can overwrite the handler, the acknowledgement
  count and the signal data of the first; a third one can come from the WORK or the TEST of another,
  while somebody waits. Level 2 is a WORK that meets nobody. Three processors, where
  the two callers have a third one that is signalled by both, and four calls were checked once
  with the same result and are not kept, as they take longer: three processors with two calls
  (137698 states), three processors with three calls and levels 0 and 3 (188752), two
  processors with four calls (1429183).
- *Collection*: the heap has a cycle, an object reached from two others, a weak pair that
  loses its car and one that does not, found by different processors. A heaplet has 6 words and a
  buffer of 3. Of the two vectors one fits into a new heaplet but not into one that has been begun, and
  the other one needs a heaplet of its own size, for which an empty one may be left. Two collections,
  because the counters are reused. `MaxIndex = 9` gives ten indices: one for each processor and
  object, and one more for each vector, which is what theorem `IndicesSuffice` asks for.
- *Variables*: two frames of one lambda inside of another frame are the least that make a
  path wrong in one environment and right in another. `Chunk = 1` makes the second auxiliary
  binding of a frame grow its vector. One of the two processors both refers and assigns
  while the other one defines, so that a definition falls between any two steps of a call;
  both put a binding of `x` into the same frame, and both define `y`, in nested frames too. What
  happens after two definitions of `y` have overlapped is explored, but three of the properties say
  nothing of it (`apart`): see Known problems.
- *VariableCaches*: two operators, an assignment and a lookup are what a clone needs to come
  and go; five operations are enough to cache, define, cache again, assign and define once
  more. The second processor caches a reference in the global environment, below which no
  definition comes between; what it may not do is in Known problems. The symbol is in the heap
  of one processor and both frames are in that of another, so that two cells share a lock and
  a third one does not.

Symmetry of the processors is used in `futures_race` only, which checks no liveness and singles
out no processor.

### Fairness

- A processor that can step does (`WF` of `Proceed(p)`): each processor runs its own process
  and none is stopped for good. Nothing is assumed about when interrupts, timers,
  preemptions, full heaps or calls of the program happen, nor that they do, with one
  exception: `Park` and `Deliver` are fair, because a signal that has been sent arrives.
- A spin lock that is free again and again is got (`SF` of the acquiring steps): the
  switch of the Butterfly serves atomic requests for a memory in turn, so that no
  processor loses each time. In `Collection` the only lock that is held over a step is that of a vector, which nobody takes twice, and `WF` is enough.
- `Variables` and `VariableCaches` state safety only. Whether a lookup ends at all depends on
  programs that stop defining, and a wait for a lock on interrupts that come.
- Idle processors keep asking for work (`WF` of `StartGet`): the scheduler's loop does.

`CHECK_DEADLOCK` is off for `WorkQueue` only: processors that wait for a lock which an
aborted Put_Work has left behind are stopped for good, and in `work_queue` that state
must not hide the others. Elsewhere an idle or spinning processor has a step that changes
nothing, and a processor that waits for an event that cannot come is a deadlock.

## 4. What the violations show

1. `work_queue_full`: Put_Work calls `Primitive_GC_If_Needed` with `Work_Queue_Lock` or the
   lock of a priority set (`ffuture.c:812`, `775`). When the heap is full, the primitive is
   left for the collector and the lock stays. If it is `Work_Queue_Lock`, all meet for the collection
   and the master spins in DRAIN-WORK-QUEUE! (`bf-prims.c:152`). If it is the lock of a priority, a Get_Work
   or Put_Work that comes to it before it takes the collector's interrupt spins on it, and the
   others wait for it at the first synchronizer; if there is none, the drain discards queue and lock and all is
   well. `MasterDrains` is the comment at `bf-gc.scm:110`: a collection gets as far as the drain.
2. `global_interrupt_hang`: TEST is applied with `Global_Int_Lock` held and
   interrupts enabled; a collection wanted by TEST waits for the same lock. `CallersGetTheLock` is the
   comment at `bf-interco.c:175-178`: receiving interrupts while it waits keeps a caller from a deadlock.
3. `variables_torn`: deep_lookup stores type and offset of a variable object one after the
   other (`lookup.c:169-170`), and `verify` (`lookup.h:109-115`) compares the type code alone.
   A processor that comes in between verifies the new type with the old offset NIL, and takes word 0 of the frame, which is the header of its vector, for the value of the variable.
4. `caches_clone`: compiler_cache_reference gives the existing assignments a clone only when
   it makes the clone (`lookup.c:1801-1827`). A definition that moves the last operator away
   leaves the clone behind; an assignment that is cached next gets no clone, and the operator
   after it finds one and changes nothing. Compiled code then assigns without the operators
   noticing, and they keep calling the old procedure.

Each needs a heap that is full at a particular place, a collection at a particular time, two
processors at the same two words, or a particular sequence of definitions. The passing runs
do not say that the code is right in all other cases: some of their properties have a
condition (`LockTakes`, `TasksFinish`, `ProgramsGoOn`, `QueuedIsTakenWithRoom`, `CollectionsEnd`, and those about
`apart` in `Variables`), and those of `VariableCaches` are checked for calls that leave two interleavings
out. What happens without the condition is in the next section.

### Known problems without a run

These were met while modelling. They are reproduced by the modules with the constants named
here; no configuration is kept for them.

- *Futures*: `StoresRunnableSafely` fails with the constants of `futures_race`: Wake_Up_List
  unlocks a task and then stores RUNNABLE into it (`ffuture.c:380-382`), and a task determined
  in between looks runnable again. The comment at `ffuture.c:180` warns of just that.
- *Futures*: without `[]NoHolderParks`, `LockTakes` and `TasksFinish` fail with the constants of `futures`
  (`MaxPreempt = 1` is enough): Scheme code may hold the lock of a future (`with-future-locked`) and go
  to a collection, and primitives that spin on the lock do not look at interrupts. The collection waits for
  the one that spins, and that one for the holder, which waits for the collection. "Hangs as long as
  necessary for the lock to take" (LOCK-FUTURE!) is then for ever.
- *Futures*: without `NoCircle`, `LockTakes` fails for two tasks that touch each other. %AWAIT-FUTURE takes the lock of the future
  and, holding it, that of its own task (`ffuture.c:418`, `430`); when both do so at once each spins
  on what the other one holds. Such a program has no result anyway, but instead of two tasks that
  wait there are two processors that take no interrupts, and the machine stops.
- *Futures*: Do_Determine_Self that finds the heap full leaves the interpreter in the middle of a return;
  the model lets only %DETERMINE! be left there (`WakePutFull`).
- *GlobalInterrupt*: without `[]TestsRunAlone`, `ProgramsGoOn` fails in two more ways than the one of
  `global_interrupt_hang`, with the constants of `global_interrupt`. TEST runs with `Global_Int_Lock` held and the
  interrupts of the caller enabled. (1) WORK of level 3 interrupts TEST of a call of level 2, finds the heap
  full, and its call for the collector spins on the lock that its own processor holds. (2) WORK of level 3
  interrupts TEST and waits at its synchronizer for the caller of level 3, who wants the lock for a
  collection before it gets there. Nothing in `bf-interco.c` keeps a program from such a TEST.
- *Collection*: `QueueNeverFillsUp` fails when `QueueMax` is less than the number of heaplets that wait at a time
  (`QueueMax = 2` with the constants of `collection`). A comment (`bf-gc.c:555-557`) says the heaplets
  are fewer than the places in the queue, and the result of the push is ignored; with the
  default sizes (4096 entries, `butterfly.c:200`; 8192 heaplets, `butterfly.h:81`) the queue is
  the shorter one, and the heaplet that does not fit is never scanned.
- *Collection*: the test for the last heaplet lets an index pass that is equal to the size of the array
  (`bf-gc.c:405`, `1081`), and its heaplet is behind the end of `GC_Data_Area`. The model has that
  heaplet like the others; what it overwrites is not modelled.
- *Variables*: without `apart`, `ShadowedIsDangerous`, `PathsAreCurrent` and `CallsFindTheirBinding` fail with the constants of `variables`,
  even with a heap that is never full. Two processors define the same name in nested frames.
  The outer one fills a placeholder that the inner one has gone past on its way up, and nothing marks
  the new outer binding as shadowed, although the comment of extend_frame says that "It takes care of dangerizing any bindings being shadowed by this" one (`lookup.c:982`);
  a remembered path goes on to it past the inner one.
- *Variables*: with more definitions during one reference, the search may pass a frame before
  the binding is made there and reach the outer one after it has been shadowed. A search takes
  no snapshot; `CallsFindTheirBinding` therefore claims the binding only when it was the same
  all the time.
- *VariableCaches*, `Ops <- AssignRace`: the value for a direct link is read from the cell
  (`lookup.c:1660`), whose lock is then given up for that of the new extension; an assignment in
  between is missed and `OperatorsAreCurrent` fails.
- *VariableCaches*, `Ops <- DefineRace`: a definition that has found the shadowed cell without
  caches gives its locks up (`lookup.c:2312-2317`) before it stores; a reference cached in
  between stays with the outer binding, and `CachesFollowScope` fails.
- *VariableCaches*: a full heap in the middle of update_uuo_links puts the value back but
  leaves the links that have been made (`lookup.c:2571`, `LinksFull`): until the assignment is
  tried again, they call a procedure that is not the value. `OperatorsAreCurrent` therefore
  speaks of the times when no assignment or definition is under way.
- *VariableCaches*: a caching processor holds Compiler_Recache_Lock and waits for the lock of
  the extension (`lookup.c:1781`), an assignment holds that lock and waits for
  Compiler_Recache_Lock, although the comments at 670-671 and 1400-1411 promise one order. The
  assignment backs out when an interrupt is pending (`LinksInterrupted`), or the other
  processor gives up after 100000 attempts and goes on without the lock, so that this is a
  delay and not a deadlock.

## 5. What is proved

Each module of proofs EXTENDS the module it is about. The theorems hold for every value of
the constants that the named assumptions allow, and for `Spec`, that is, without fairness.

| module | theorem | says | needs |
|---|---|---|---|
| `SynchronizerProofs` | `Invariance` | the inductive invariant `Inv` | |
| | `TypeCorrect` | `TypeOK`; the cell stays in 16 bits | |
| | `NoEarlyReleaseHolds` | nobody passes before all are counted | |
| | `StoresAreSafeHolds` | the plain stores lose no update | |
| | `CountIsMissingHolds` | while closed, the count is the number of those missing | |
| | `LockIsOwnedAlways` | bit 15 is set if and only if one processor has the lock | |
| | `OneOpenerHolds` | one processor at most is told TRUTH | |
| | `BarrierImplemented` | every behaviour is one of `Barrier` | |
| `WorkQueueProofs` | `Invariance` | the inductive invariant `IInv` | |
| | `TypeCorrect` | `TypeOK`; a future is put, never what a broken weak pair holds | |
| | `NothingLostAlways` | a task is in one place at most, and in one while it is needed | |
| | `LengthIsExactAlways` | Work_Queue_Length is what is queued and announced, in 16 bits | |
| | `LengthIsTrue` | it is that number itself, and not negative | fewer than 2^15 tasks |
| | `PriorityQueueImplemented` | every behaviour is one of `PriorityQueue`, for priorities of 16 bits | |
| `FuturesProofs` | `TypeCorrect` | `TypeOK` | |
| | `LocksExcludeAlways` | a future that is locked has one holder, another one none | |
| | `OneRunnerAlways` | a task is run by one processor, and its slots say which | |
| | `NeverScheduledTwice` | a task is on the queue or with a processor, at most once | |
| | `NoLostWakeupAlways` | a waiting task is found by whoever determines what it waits for | a heap that is never full |
| | `RunnableQueuedOnceAlways` | a task is RUNNABLE if and only if it is scheduled, once | the same, and tasks that only determine themselves |
| | `StoresRunnableSafelyAlways` | no step makes a determined task RUNNABLE | the same two |
| `GlobalInterruptProofs` | `TypeCorrect` | `TypeOK` | |
| | `AcksAreCountedAlways` | Signal_Lock counts the signals on their way | |
| | `WorkIsForcedAlways` | everybody but the caller begins the WORK of a rendezvous once | |
| | `HandlersSurviveAlways` | a collection that comes together finds no handler in use that it does not save | |
| `CollectionProofs` | `MovesComeLastAlways` | no object is moved while references are being fixed | |
| | `SchemeSeesTheNewHeapAlways` | daemons and programs run after the last move | |
| `ScanningProofs` | `TypeCorrect` | `TypeOK` of `Collection`; a heaplet keeps a word for the broken heart that stops the scan | |
| | `ScannedOnceAlways` | no word is scanned twice | |
| | `AllIsScannedAlways` | at the end of scanning all that is reachable is copied and scanned | no heaplet dropped |
| | `WeakPairsAreRightAlways` | the cars that are broken are those of garbage | no heaplet dropped |
| | `QueueIsLongEnough` | no heaplet is dropped | a queue with a place for every index |
| | `IndicesSuffice` | nobody is out of heaplet indices | one for each processor and object, one more for each vector |
| `VariablesProofs` | `Invariance` | the inductive invariant `IInv` | |
| | `TypeCorrect` | `TypeOK` | |
| | `OneBindingEachAlways` | a frame never gets two bindings of a name | |
| | `DeepCallsFindTheirBindingAlways` | a search without a variable object finds what its name meant all the time | |
| | `ShadowedIsDangerousAlways` | what DEFINE shadows is dangerous, while definitions have been apart | |
| | `PathsAreCurrentAlways` | a variable object leads to the visible binding or to a dangerous one, likewise | |
| | `NoTornReadsAlways` | no type is read with the offset of another path | parameters apart |
| | `CallsFindTheirBindingAlways` | every reference or assignment finds what its name meant all the time, likewise | parameters apart |
| `VariableCachesProofs` | `Invariance` | the inductive invariant `IInv` | |
| | `TypeCorrect` | `TypeOK`; links lead to extensions that exist | |
| | `ReferencesAreListedAlways` | a link is in the lists of its extension, and of no other one | |
| | `LocksAreReturnedAlways` | between two calls, and after one was broken off, a processor has no lock | |
| | `CachesFollowScopeAlways` | a link leads to the binding that is visible from its environment | changes apart |
| | `AssignmentsSeeOperatorsAlways` | where operators are linked, compiled assignments trap | one assigns |
| | `OperatorsAreCurrentAlways` | a direct link calls the value of its variable | changes apart, changes alone, one assigns |

*Hypotheses.* They are where the code needs them. Without them the properties fail:
a waker that finds the heap full forgets its list (`MaxFull = 0` in
`NoLostWakeupAlways`), a task determined by another one may be made RUNNABLE after that
(`OnlySelfDetermined`), and a heaplet that finds the queue full is never scanned
(`[]QueueNeverFillsUp`). `QueueIsLongEnough` is what the comment at `bf-gc.c:555-557` claims,
with the premise that makes it true; the default sizes do not satisfy it, and the run
`collection` does (`MaxIndex = 9`, `QueueMax = 10`). It makes no assumption about how many heaplets a heap
takes: those that are abandoned before a vector count like the others. That is the subject of
`IndicesSuffice`, whose premise the run meets exactly. The three theorems about what DEFINE shadows
need no hypothesis, because the properties say themselves that they are about behaviours in which
definitions have been apart so far (`apart`, `DefinitionsApart`): no two processors
defining one name at once in different frames of which one is inside of the other.
"Parameters apart" (`ParametersApart`) is that no two processors look the same
parameter up with the same variable object, which holds for the calls of `variables`; without it
`variables_torn` violates `CallsFindTheirBinding`.
`UntornCallsFindTheirBindingAlways` has `[]NoTornReads`, what the proof needs, instead.
In `VariableCaches`, "changes apart" (`ChangesApart`) is that nothing a processor defines is seen
from where another one caches or defines; "changes alone" (`ChangesAlone`) that where one processor assigns or
defines, the others do not and cache no operators; "one assigns" (`OneAssigns \/ NothingDefined`)
that compiled code assigns the variable in one place, or nothing is defined. All three hold for
the calls of `caches`. Each is needed: TLC violates `CachesFollowScope` with `Ops <- DefineRace`,
`OperatorsAreCurrent` with `Ops <- AssignRace` (Known problems), and
`AssignmentsSeeOperators` in `caches_clone`, with one processor. Full heaps, interrupts and collected
blocks are at any point in all theorems.

*Assumptions on constants.* `Synchronizer`: `COMPLETE` is a natural number, the processors are
finitely many and fewer. `WorkQueue`: finitely many processors and tasks, any integers for
priorities, any number of puts and of full heaps; a task that has lost its weak pair is none of the tasks. `Futures`: the shape of a program (`ShapeAssumption`) and bounds in Nat;
processors and futures may be infinitely many where nothing is counted. `GlobalInterrupt`:
finitely many processors, levels among 0 to 3 (there are four global interrupts), any number of
calls. `Collection`: finitely many processors and objects; an object that is no vector is smaller than the
buffer at the end of a heaplet, and that smaller than a heaplet (`RoomAssumption`). How large vectors
are, and how many indices and places in the queue there are, is left open.
`Variables`: what a chain of frames is, parameters of a lambda with different names, finitely many
names (`EnvironmentAssumption`); frames of one lambda are inside of frames of the same lambdas
(`LexicalAssumption`), without which the depth in a variable object, shared by the frames of a
lambda, would mean nothing; only Lex_Ref and Lex_Set come with a variable object, and programs
do not store the object that marks an unbound variable (`CallAssumption`); `LockAssumption`.
Processors, frames, calls and full heaps may be any number.
`VariableCaches`: the environments above a frame are those above its parent
(`CacheAssumption`), the global one has a cell for the name (every symbol has), the mark of a
missing cell is no value and that of a free lock no processor (`LockAssumption`); no program has
the mark of an unbound variable in hand, and frames have it only from `lookup.c`, which
makes it dangerous (`MarkerAssumption`; UNBOUND_OBJECT itself is only put into the global value of
a symbol, `intern.c:236`); compiled code assigns through the links of its assignments
(`CompiledAssumption`).

### The arguments

*Synchronizer.* None of the safety properties is inductive by itself. That nobody is released early
depends on the count being exact; the count is exact as long as nobody stores over it;
the stores are safe because the count is zero and stays zero while the lock is held,
as only a lock holder adds to it. `Inv` says all of this at once, and is split by
whether the cell is open:

- `ClosedInv`: the count is the number of processors outside, and nobody is past a closed cell.
- `OpenInv`: everybody is counted, and nobody is about to back out or to open again.
- `OpenerInv`: the one that is about to open has seen a zero count and still has it.
- `LockInv`: the bit is set if and only if the lock has an owner, and then it has one.
- `ValueInv`: TRUTH has been returned to one processor only, after its store.

The steps of the primitive fall into groups that need the same facts (arrive, back out,
acquire, open, release, read), with a lemma each. `WordFacts` is the arithmetic of
the word: an addition to the count below its limit does not touch the lock bit. `MissingFacts`
and `SameMissing` are about the set of those outside and its cardinality. The refinement shows that a step
maps to `Enter`, `BackOut`, `Open` or `Pass`, or leaves `place` and `open` alone.

*WorkQueue.* `LockInv` says who has which lock; a lock may be set that nobody has, as an aborted
Put_Work leaves it, and nothing else depends on locks being free. `Sorted`: the priorities of the chain decrease
strictly, so that the queue Find_Right_Queue stops at is the one for its priority. With
`WalkInv` the walk of Find_For_Get has seen an empty queue wherever it has been, and while it has
Work_Queue_Lock nobody can begin to link a task into one of those; a task that was on its way when
the walk began is linked under the lock of its queue, which the walk waits for. Therefore the
queue that Get_Work keeps is the first that is not empty (`GetChoose` maps to the abstract take, `PutLink`
to the put, `Drain` to the flush, all else to stuttering). `TaskInv` gives each task at most one of the
places in `Where`, and one if it is needed; who is in PUT-WORK puts a task, because `RestoreOne` tests
for it. `ShortInv` keeps the priorities of the chain in 16 bits: the chain is sorted by what
Put_Work has stored, and so is the abstract queue.
`LengthInv` is `LengthIsExact`, modulo 2^16. That the length is not negative (`LengthIsTrue`) needs
that two processors never unlink from one queue, so that there are as many queued tasks as there
are processors about to unlink one, and that there are fewer tasks than would wrap it around.

*Futures.* `HeldByOne` reads the holder of a lock off the places of the processors. `TokenInv` gives
each task a token, which is its entry on the work queue or the processor that carries it:
there is one at most, and none while the task is UNBORN, DELAYED or WAITING. Each step takes
locks in one of a few ways (`LockMove`), moves tokens in one of a few ways (`TokenMove`) and
writes the slots of futures it may write (`Writes`); that the invariant is kept is then shown for
the ways and not for the forty actions. `WaitInv` and `QueuedInv` add what holds without full
heaps and foreign determination.

*GlobalInterrupt.* The invariant is about each depth of each stack. `StackInv` says what an
interrupt or a nested call may lie on, `LockInv` that one frame in all stacks owns the lock, `AcksInv`
what is counted, `CallInv` and `StackCalls` who knows of a call, `RendezvousInv` that every
processor is due to begin the WORK of a rendezvous, has begun it or is past it. The step that could go
wrong is a second caller that stores its handler over that of the first. Lemma
`AllHaveMet`: whoever may store one has been through every rendezvous of its level, so that it has
been opened and nobody is due (`NobodyIsDue`). `CollectInv` says the same of a collection and all
levels, and gives `HandlersSurviveAlways`.

*Collection.* `PhaseInv` has the counters of Finish_GC: each counts those that have not come past its
step (`CountersCount`), once the master has set it up; the barriers make sure that it has
(`BarriersHold`). Who has seen a zero count is past a gate, and stays there (`GatesHold`).
`ScanInv` adds the heaplets: each belongs to one processor or to the queue or has been scanned
(`OneOwner`), each object is in one of them once, what has been scanned points to what has been
copied (`TargetsAreCopied`), and `busy` counts those who may still find something
(`BusyCounts`). With `NoneForgotten`, that needs the room in the queue, a zero count means that all is scanned.
`IndexInv` is the count behind `IndicesSuffice`: a heaplet that was taken belongs to a processor that
has begun, follows an object that has been copied, or was taken before a vector that has been seen,
and no vector is seen by two (`LocksHold`).

*Variables.* `PendInv` and `MadeInv` follow extend_frame up the frames and down again: at each frame it
has counted the bindings and found none of the name among them (`Examined`), and `Changed` sends it back
when there are more, so that it never adds a second one. `HunkInv` says that a path leads past
frames without such a parameter, in all frames of the lambda, to the word of one if the two words
belong together, which they do when nobody has the lock (`HolderInv`). Bindings are only added
(`BindingsKept`), so a path stays one. `FoundInv` is about the history: a search that has seen its
name mean one cell only has not gone past it (`NotPassed`).

`LadderInv` is why shadowing is noticed. Above each auxiliary binding, or placeholder for one, the next
frame has something for the name that is dangerous (`Ladder`), a parameter or again a placeholder, up to
the binding that is seen from there (lemma `Climb`). extend_frame builds this ladder from the top
down: it comes down to a frame only after it has left something dangerous above (`ComesDown`). One
step takes danger away, the definition that fills its own placeholder (`Undangers`); it is harmless
if nothing below has been added, which is the case as long as `DefinitionsApart` keeps others
from adding something there. `PathCellIsRight` then compares a path with the search: it ends at the
same frame, or before at a placeholder, or behind it, above an auxiliary binding. `UntornInv` says that
a variable object that leads to a parameter is left alone while its words are read.

*VariableCaches.* All processors do anything at any time. What a step does to the lists and links
is one of four things: it drops entries of collected blocks (`Kept`), adds a reference (`Filed`),
moves some to a new extension (`Refiled`), or is the collector (`Lost`). The lists stay right
through each if the reference that is filed is not in a list yet. The code tests that when it takes
Compiler_Recache_Lock and relies on it two locks later: `CacheInv` holds because only the
processors at `cExt` and `dExt` have that lock (`RecacheInv`), and all other steps leave a
reference that is not cached alone. `LocInv` is what a call remembers across the locks it gives up: the
cell it has found stays a cell, the extension stays one. `HandleInv` says that a processor has
just the cell locks it has handles for, also when two cells share one.

Three invariants are added to that one. `ScopeInv` is for `CachesFollowScope`. What is visible changes only
when a placeholder of a frame gets a value; a step leaves the cells alone, gives one an extension,
or makes such a binding (`Moves`). At that time the frame has to be `Clear`: no link in use leads
past it to the outer binding. It is, either because the step is that of compiler_recache that
moves those links, all and no others, or because the outer binding had no extension when
it was looked at, and so no links. The code looks before it gives its locks up; `DefiningInv` and
`CachingInv` carry what it has seen over the gap, which `ChangesApart` allows.

`CloneInv` is for `AssignmentsSeeOperators`: an extension with operators and assignments has a clone,
and all its assignments are linked to that. The difficult part is a clone that
has outlived its operators; it stays right as long as no assignment is still to be cached.

`CurrentInv` is for `OperatorsAreCurrent`. That property is far from inductive, as links are not
current in the middle of update_uuo_links, nor after a full heap has broken it off and
put the old value back. A stale link has a processor that `Repairs` it: one that is
making the links of this extension, or one that is on its way to (again), and whose value makes a
difference (`Matters`), so that it will not leave early. `RepairGoesOn` shows that this processor
does not lose its way, `RepairStays` that the others do not take it away.

### What is only model-checked

- Liveness (`EveryoneReturns`, `QueuedIsTakenWithRoom`, `TasksFinish`, `LockTakes`, `ProgramsGoOn`,
  `CollectionsEnd`): the prover has no rule for fairness.

Every invariant of a passing run is stated by a theorem. Those with a hypothesis are not true without it, as said
above; what TLC finds then is in section 4.

## 6. Abstractions

- Memory is sequentially consistent: the Butterfly has no caches of shared data, and its
  atomic operations are done at the memory. The two stores of `Synchronizer` that are
  not atomic operations are still single 16-bit stores.
- `GlobalInterrupt` and `Collection` use the abstract barrier. That is what
  `BarrierImplemented` is for.
- `GlobalInterrupt` sends the signals in one step; a processor may get its signal
  at any time after that, in any order, so that the loop adds nothing but the time between
  the first and the last `kill`.
- `Collection`: an object is copied in one step (`GCLoop` holds the lock bits of its
  first word while it copies; it is a step of its own that a vector is locked and does not fit).
  Memory suffices: running out of it ends the program. So does running out of heaplet
  indices, which stops the processor (`OutOfIndices`). Addresses, relocation and the partition of the constant space are left
  out; whether an object has been forwarded is the set `copied`. GCLoop also puts the value of a determined and
  unlocked future in the place of a pointer to it (`bf-gcloop.m4` 737-748). As no future is determined
  or unlocked while the collection runs, which words are replaced is settled before it begins, and `Fields` and `Roots` are
  the words after that.
- `WorkQueue`: allocation succeeds or finds the heap full; the names of the queues of
  the chain are reused. After a collection the heap has room until the master has begun the last
  put of the tasks it had drained.
- `Variables`: the frames and their lambdas are given; a frame's vector and the pairs in it are
  not changed once they can be seen, so that a search of one frame is one step. Compiled code
  is left out (`Recache` finds nothing). Fluid bindings are left out.
- `VariableCaches`: a lookup is one step, as is what DEFINE does to the frames (`Extend`); both
  are taken apart in `Variables`. The locks of the two cells of compiler_recache are taken in
  one step: the code takes them in the order of their addresses. Lock_Cell does not give up.
  Links (`make_uuo_link` and its relatives, in assembly language) and the copying of
  extensions to the constant space (`codeman.c`) are external, and there is room in the
  constant space. The build defines DEFINITION_RECACHES_EAGERLY.
- `Futures`: all tasks have one priority, and the work queue is a bag: `WorkQueue` is about
  its order and its locks. Values are "there", "not there", or
  there and to be replaced. The tests for the status PAUSED, which only pause-everything stores,
  are left out.

## 7. Plan

Done so far, in this order: `Barrier`, `Synchronizer` and its proofs; `WorkQueue`;
`Futures`; `GlobalInterrupt`; `Collection`; `Variables`; `VariableCaches`; the proofs about
`Futures`, `Collection`, `GlobalInterrupt`, `WorkQueue`, `VariableCaches` and `Variables`.

Next, models:

1. `HeapAllocation` (`uc/bf-memmag.c`): chunks of the heap given to processors, the extension
   of a chunk by its neighbour, INT_GC and GC-NEEDED?. Chunks never overlap; a
   processor that was refused is the one that asks for a collection.
2. `PauseEverything` (`runtime/future.scm` 548-690): a composition of `Barrier` with the
   tasks of `Futures`; every task is returned once, none runs; within-process.
3. `PriorityInheritance` (`Inherit_Increasing`, `Inherit_Decreasing`): an extension of
   `Futures` with priorities.
4. `CellLock` (Lock_Cell and its retries) and `ObjectCopy` (the instructions of GCLoop, shown
   to implement the atomic `Copy`).

Runs for those will share modules and configurations with what is here, where the
question allows it.

Next, proofs: the invariants of those modules, each in a module of its own.

## 8. Running the checks

```
tlc -workers 2 -config MCCollection.cfg MCCollection
for m in Synchronizer WorkQueue Futures GlobalInterrupt Collection Scanning Variables VariableCaches
do tlapm ${m}Proofs.tla; done
```
