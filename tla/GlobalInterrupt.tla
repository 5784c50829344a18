---------------------------- MODULE GlobalInterrupt ----------------------------
(***************************************************************************)
(* GLOBAL-INTERRUPT: one processor has the others execute some WORK        *)
(* (uc/bf-interco.c; the signal that carries the request, uc/unix.c; the   *)
(* interrupt that serves it, uc/utils.c and uc/butterfly.h).               *)
(*                                                                         *)
(* The callers in the runtime use it for a rendezvous: WORK, and the       *)
(* caller after the call, wait at a synchronizer for each other.  The      *)
(* synchronizer is the abstract one of module Barrier, which module        *)
(* Synchronizer implements.  Interrupts nest, so that a processor has a    *)
(* stack of things it is doing.                                            *)
(***************************************************************************)
EXTENDS Integers, Sequences, FiniteSets, SequencesExt

CONSTANTS Procs,       \* the processors
          Levels,      \* the levels in use, of 0 .. 3; 0 is for the collector
          Rendezvous,  \* the levels whose WORK waits at a synchronizer
          Conditional, \* the levels whose TEST may be false
          Allocates,   \* the labels at which the heap may be found full
          MaxCalls     \* how many calls of GLOBAL-INTERRUPT there are

ASSUME LevelsAssumption == /\ Levels \subseteq 0 .. 3
                           /\ Rendezvous \subseteq Levels
                           /\ Conditional \subseteq Levels
                           /\ Allocates \subseteq
                                 {"program", "called", "work", "test"}
ASSUME ProcsAssumption == IsFiniteSet(Procs)
ASSUME BoundsAssumption == MaxCalls \in Nat

N == Cardinality(Procs)

\* A call of GLOBAL-INTERRUPT is known by its number.
Calls  == 1 .. MaxCalls
NoCall == 0

VARIABLES intLock,   \* Global_Int_Lock
          handlers,  \* Global_Interrupt_Handlers: whose WORK, for each level
          sigLock,   \* Signal_Lock without its bit 15; 0 when that is off too
          sigData,   \* Signal_Data: the level
          signal,    \* signal[p]: SIGUSR1 is on its way to p
          code,      \* code[p]: the global interrupts in IntCode of p
          stack,     \* stack[p]: what p does, the interrupted things below
          level,     \* level[c]: the level of call c
          sent,      \* the calls whose signal has been sent
          begun,     \* begun[c][p]: how often p has begun the WORK of c
          arrived,   \* arrived[c]: who is counted by the synchronizer of c
          opened,    \* opened[c]: that synchronizer has opened
          calls

sync == <<arrived, opened>>
send == <<intLock, handlers, sigLock, sigData, signal>>
vars == <<send, code, stack, level, sent, begun, sync, calls>>

Labels == {"program",                          \* at the bottom
           "lock", "locked", "test",           \* Send_Global_Interrupt
           "signal", "acks", "unlock",         \* Global_Int_Part_2
           "called",                           \* it has returned TRUE
           "fetch", "work",                    \* the interrupt, and its WORK
           "await", "waiting"}                 \* at the synchronizer

Frame == [at : Labels, call : Calls \cup {NoCall}, level : Levels \cup {-1},
          enb : SUBSET Levels]

TypeOK == /\ intLock \in BOOLEAN
          /\ handlers \in [Levels -> Calls \cup {NoCall}]
          /\ sigLock \in 0 .. N
          /\ sigData \in Levels \cup {-1}
          /\ signal \in [Procs -> BOOLEAN]
          /\ code \in [Procs -> SUBSET Levels]
          /\ stack \in [Procs -> Seq(Frame)]
          /\ level \in [Calls -> Levels \cup {-1}]
          /\ sent \in SUBSET Calls
          /\ begun \in [Calls -> [Procs -> Nat]]
          /\ arrived \in [Calls -> SUBSET Procs]
          /\ opened \in [Calls -> BOOLEAN]
          /\ calls \in 0 .. MaxCalls

Program == [at |-> "program", call |-> NoCall, level |-> -1, enb |-> Levels]

Init == /\ intLock = FALSE
        /\ handlers = [l \in Levels |-> NoCall]
        /\ sigLock = 0
        /\ sigData = -1
        /\ signal = [p \in Procs |-> FALSE]
        /\ code = [p \in Procs |-> {}]
        /\ stack = [p \in Procs |-> <<Program>>]
        /\ level = [c \in Calls |-> -1]
        /\ sent = {}
        /\ begun = [c \in Calls |-> [p \in Procs |-> 0]]
        /\ arrived = [c \in Calls |-> {}]
        /\ opened = [c \in Calls |-> FALSE]
        /\ calls = 0

-----------------------------------------------------------------------------

Top(p) == Head(stack[p])
At(p, label) == Top(p).at = label

\* The top of the stack of p goes on at label, is pushed or is popped.
Goto(p, label)  == stack' = [stack EXCEPT ![p][1].at = label]
Push(p, frame)  == stack' = [stack EXCEPT ![p] = <<frame>> \o @]
Pop(p)          == stack' = [stack EXCEPT ![p] = Tail(@)]
Step(p, from, to) == At(p, from) /\ Goto(p, to)

\* INT_Mask bits: a lower level has a lower bit, and a higher priority.
AtMost(l) == {k \in Levels : k <= l}
Below(l)  == {k \in Levels : k < l}

Pending(p, mask) == code[p] \cap mask
Highest(set) == CHOOSE l \in set : \A k \in set : l <= k

-----------------------------------------------------------------------------
(* The signal, and the interrupt it requests *)

\* Special_Handler: Get_Signal_Data acknowledges, REQUEST_INTERRUPT.
Deliver(p) ==
    /\ signal[p]
    /\ signal' = [signal EXCEPT ![p] = FALSE]
    /\ code' = [code EXCEPT ![p] = @ \cup {sigData}]
    /\ sigLock' = sigLock - 1
    /\ UNCHANGED <<intLock, handlers, sigData, stack, level, sent, begun, sync,
                   calls>>

\* Setup_Interrupt for the interrupts of mask, on top of the stack under: the
\* bit is cleared first, the handler is fetched after that.
Interrupt(p, mask, under) ==
    LET l == Highest(Pending(p, mask)) IN
    /\ Pending(p, mask) # {}
    /\ code' = [code EXCEPT ![p] = @ \ {l}]
    /\ stack' = [stack EXCEPT ![p] =
          <<[at |-> "fetch", call |-> NoCall, level |-> l, enb |-> Below(l)]>>
              \o under]

\* Where Scheme code runs, an enabled interrupt is taken sooner or later; the
\* program may have masked it for a while.
TakeInterrupt(p) ==
    /\ Top(p).at \in {"program", "test", "called", "work", "await"}
    /\ Interrupt(p, Top(p).enb, stack[p])
    /\ UNCHANGED <<send, level, sent, begun, sync, calls>>

Fetch(p) ==
    LET c == handlers[Top(p).level] IN
    /\ At(p, "fetch")
    /\ stack' = [stack EXCEPT ![p][1].at = "work", ![p][1].call = c]
    /\ begun' = [begun EXCEPT ![c][p] = @ + 1]
    /\ UNCHANGED <<send, code, level, sent, sync, calls>>

-----------------------------------------------------------------------------
(* The program *)

\* Any allocation may call for the collector, in WORK and TEST too; the other
\* calls are the program's.  The collector masks its own level and all others.
Call(p, l) ==
    /\ calls < MaxCalls
    /\ IF l = 0 THEN Top(p).at \in Allocates /\ 0 \in Top(p).enb
       ELSE At(p, "program")
    /\ calls' = calls + 1
    /\ level' = [level EXCEPT ![calls + 1] = l]
    /\ Push(p, [at |-> "lock", call |-> calls + 1, level |-> l,
                enb |-> IF l = 0 THEN {} ELSE Top(p).enb])
    /\ UNCHANGED <<send, code, sent, begun, sync>>

-----------------------------------------------------------------------------
(* GLOBAL-INTERRUPT *)

\* atomior(&SHARED_DATA->Global_Int_Lock, 0x8000) == 0
Lock(p) ==
    /\ Step(p, "lock", "locked")
    /\ ~intLock
    /\ intLock' = TRUE
    /\ UNCHANGED <<handlers, sigLock, sigData, signal, code, level, sent, begun,
                   sync, calls>>

\* Interrupts of this level and higher ones are taken here, enabled or not;
\* the primitive then starts again.
SpinInterrupted(p) ==
    /\ At(p, "lock")
    /\ intLock
    /\ Interrupt(p, AtMost(Top(p).level), stack[p])
    /\ UNCHANGED <<send, level, sent, begun, sync, calls>>

LockedInterrupted(p) ==
    /\ At(p, "locked")
    /\ intLock' = FALSE
    /\ Interrupt(p, AtMost(Top(p).level),
                 <<[Top(p) EXCEPT !.at = "lock"]>> \o Tail(stack[p]))
    /\ UNCHANGED <<handlers, sigLock, sigData, signal, level, sent, begun, sync,
                   calls>>

\* A bug: the pending interrupts are not looked at under the lock.
StoreHandlerUntested(p) ==
    /\ Step(p, "locked", "test")
    /\ handlers' = [handlers EXCEPT ![Top(p).level] = Top(p).call]
    /\ UNCHANGED <<intLock, sigLock, sigData, signal, code, level, sent, begun,
                   sync, calls>>

StoreHandler(p) ==
    /\ Step(p, "locked", "test")
    /\ Pending(p, AtMost(Top(p).level)) = {}
    /\ handlers' = [handlers EXCEPT ![Top(p).level] = Top(p).call]
    /\ UNCHANGED <<intLock, sigLock, sigData, signal, code, level, sent, begun,
                   sync, calls>>

TestTrue(p) ==
    /\ Step(p, "test", "signal")
    /\ UNCHANGED <<send, code, level, sent, begun, sync, calls>>

TestFalse(p) ==
    /\ At(p, "test")
    /\ Top(p).level \in Conditional
    /\ intLock' = FALSE
    /\ Pop(p)
    /\ UNCHANGED <<handlers, sigLock, sigData, signal, code, level, sent, begun,
                   sync, calls>>

\* A bug: the sender is counted as if it had to acknowledge too few.
SignalOneShort(p) ==
    /\ Step(p, "signal", "acks")
    /\ sigLock = 0
    /\ sigLock' = N - 1
    /\ sigData' = Top(p).level
    /\ signal' = [q \in Procs |-> q # p]
    /\ sent' = sent \cup {Top(p).call}
    /\ UNCHANGED <<intLock, handlers, code, level, begun, sync, calls>>

\* Send_Signal_Info to all the others
Signal(p) ==
    /\ Step(p, "signal", "acks")
    /\ sigLock = 0
    /\ sigLock' = N
    /\ sigData' = Top(p).level
    /\ signal' = [q \in Procs |-> q # p]
    /\ sent' = sent \cup {Top(p).call}
    /\ UNCHANGED <<intLock, handlers, code, level, begun, sync, calls>>

\* A bug: it does not wait for the acknowledgements.
AcknowledgedAtOnce(p) ==
    /\ Step(p, "acks", "unlock")
    /\ sigLock' = 0
    /\ UNCHANGED <<intLock, handlers, sigData, signal, code, level, sent, begun,
                   sync, calls>>

Acknowledged(p) ==
    /\ Step(p, "acks", "unlock")
    /\ sigLock = 1
    /\ sigLock' = 0
    /\ UNCHANGED <<intLock, handlers, sigData, signal, code, level, sent, begun,
                   sync, calls>>

\* A bug: Global_Int_Lock stays set.
UnlockNothing(p) ==
    /\ Step(p, "unlock", "called")
    /\ UNCHANGED <<send, code, level, sent, begun, sync, calls>>

Unlock(p) ==
    /\ Step(p, "unlock", "called")
    /\ intLock' = FALSE
    /\ UNCHANGED <<handlers, sigLock, sigData, signal, code, level, sent, begun,
                   sync, calls>>

-----------------------------------------------------------------------------
(* The caller after the call, and WORK: they meet, or go on at once *)

Meets(p) == Top(p).level \in Rendezvous

Meet(p) ==
    /\ Top(p).at \in {"called", "work"}
    /\ Meets(p)
    /\ Goto(p, "await")
    /\ UNCHANGED <<send, code, level, sent, begun, sync, calls>>

Return(p) ==
    /\ Top(p).at \in {"called", "work"}
    /\ ~Meets(p)
    /\ Pop(p)
    /\ UNCHANGED <<send, code, level, sent, begun, sync, calls>>

\* Barrier!Enter, and Barrier!Open by the last one
Arrive(p) ==
    LET c == Top(p).call IN
    /\ Step(p, "await", "waiting")
    /\ arrived' = [arrived EXCEPT ![c] = @ \cup {p}]
    /\ opened' = [opened EXCEPT ![c] = @ \/ arrived[c] \cup {p} = Procs]
    /\ UNCHANGED <<send, code, level, sent, begun, calls>>

\* Barrier!BackOut, to take an interrupt
BackOut(p) ==
    LET c == Top(p).call IN
    /\ At(p, "waiting")
    /\ ~opened[c]
    /\ arrived' = [arrived EXCEPT ![c] = @ \ {p}]
    /\ Interrupt(p, Top(p).enb,
                 <<[Top(p) EXCEPT !.at = "await"]>> \o Tail(stack[p]))
    /\ UNCHANGED <<send, level, sent, begun, opened, calls>>

\* Barrier!Pass
Pass(p) ==
    /\ At(p, "waiting")
    /\ opened[Top(p).call]
    /\ Pop(p)
    /\ UNCHANGED <<send, code, level, sent, begun, sync, calls>>

-----------------------------------------------------------------------------

Proceed(p) == \/ Lock(p) \/ SpinInterrupted(p) \/ LockedInterrupted(p)
              \/ StoreHandler(p) \/ TestTrue(p) \/ TestFalse(p)
              \/ Signal(p) \/ Acknowledged(p) \/ Unlock(p)
              \/ Meet(p) \/ Return(p) \/ Arrive(p) \/ BackOut(p) \/ Pass(p)
              \/ TakeInterrupt(p) \/ Fetch(p)

Next == \E p \in Procs :
            \/ Proceed(p) \/ Deliver(p)
            \/ \E l \in Levels : Call(p, l)
            \* an idle program, a spinning or a waiting primitive
            \/ Top(p).at \in {"program", "lock", "acks", "waiting"}
                  /\ UNCHANGED vars

Spec == Init /\ [][Next]_vars

\* The processors run and take their interrupts, signals arrive, and a lock
\* that is free again and again is got.
FairSpec == /\ Spec
            /\ \A p \in Procs : /\ WF_vars(Proceed(p)) /\ WF_vars(Deliver(p))
                                /\ SF_vars(Lock(p))

-----------------------------------------------------------------------------

Count(set) == Cardinality(set)
One(b) == IF b THEN 1 ELSE 0

\* p is due to begin the WORK of c: the signal, the interrupt bit or the
\* handler that is about to be fetched say so, and the handler is the one of c.
Due(c, p) == /\ handlers[level[c]] = c
             /\ \/ signal[p] /\ sigData = level[c]
                \/ level[c] \in code[p]
                \/ At(p, "fetch") /\ Top(p).level = level[c]

(***************************************************************************)
(* "Force all other processors to begin executing WORK": every processor   *)
(* but the caller begins it, and only once, or still has it before it: no  *)
(* later call at the same level overwrites a handler that somebody needs.  *)
(* That is so because WORK is a rendezvous; another WORK may be lost.      *)
(***************************************************************************)
WorkIsForced == \A c \in sent : level[c] \in Rendezvous =>
    \E caller \in Procs :
        /\ begun[c][caller] = 0 /\ ~Due(c, caller)
        /\ \A p \in Procs \ {caller} : begun[c][p] + One(Due(c, p)) = 1

(***************************************************************************)
(* While a caller waits, Signal_Lock counts the processors that have not   *)
(* acknowledged, and itself; nobody has a signal on its way otherwise, so  *)
(* that Signal_Data is never changed before it is read.                    *)
(***************************************************************************)
AcksAreCounted ==
    LET missing == {p \in Procs : signal[p]} IN
    /\ sigLock = IF \E p \in Procs : At(p, "acks") THEN 1 + Count(missing)
                 ELSE 0
    /\ missing # {} => \E p \in Procs : At(p, "acks") /\ Top(p).level = sigData

(***************************************************************************)
(* When the processors have met to collect, a handler that somebody still  *)
(* needs is known from an interrupt bit: only those are saved and moved    *)
(* (Save_Global_Interrupt_Handlers).  Nobody has been interrupted between  *)
(* the store of a handler and its last signal, or is about to fetch one.   *)
(***************************************************************************)
OnlyBitsAreNeeded == \A p \in Procs :
    /\ ~signal[p]
    /\ \A i \in DOMAIN stack[p] :
           ~(stack[p][i].at \in {"test", "signal", "acks", "fetch"})
HandlersSurvive ==
    [][\A c \in Calls : level[c] = 0 /\ ~opened[c] /\ opened'[c]
           => OnlyBitsAreNeeded]_vars

(***************************************************************************)
(* GLOBAL-INTERRUPT takes interrupts while it waits for its lock, "to      *)
(* prevent a deadlock situation": whoever waits for the lock gets it.      *)
(***************************************************************************)
CallersGetTheLock == \A p \in Procs : At(p, "lock") ~> At(p, "locked")

\* TEST runs with the lock held.  Nobody takes an interrupt there, nor calls
\* for the collector.
TestsRunAlone == \A p \in Procs : \A i \in 2 .. Len(stack[p]) :
                     stack[p][i].at # "test"

(***************************************************************************)
(* If every TEST runs to its end undisturbed, every rendezvous ends and    *)
(* every processor comes back to its program, whatever interrupts it takes *)
(* in between.  Without the condition it does not hold, and the code does  *)
(* not enforce it: a TEST that calls for the collector waits for its own   *)
(* lock, and so does WORK that interrupts TEST; and WORK that waits there  *)
(* for the others waits for one that wants the lock.                       *)
(***************************************************************************)
ProgramsGoOn == []TestsRunAlone => \A p \in Procs : []<>At(p, "program")

=============================================================================
