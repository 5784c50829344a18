------------------------ MODULE GlobalInterruptProofs -------------------------
(***************************************************************************)
(* What is proved of GLOBAL-INTERRUPT, for any number of processors, calls *)
(* and levels: the acknowledgements are counted right, the WORK of a       *)
(* rendezvous is begun by every processor once, and the collector saves    *)
(* all handlers that are still needed.                                     *)
(***************************************************************************)
EXTENDS GlobalInterrupt, TLAPS, FiniteSetTheorems

-----------------------------------------------------------------------------
(* The stacks *)

\* What p does at a depth of its stack, the program being at depth 1.
Depth(p)    == Len(stack[p])
Doing(p, d) == stack[p][Depth(p) + 1 - d]

Owning  == {"locked", "test", "signal", "acks", "unlock"}
Asking  == {"lock"} \cup Owning
Unasked == {"lock", "locked", "test", "signal"}   \* nobody knows of the call
Resting == {"program", "lock", "test", "called", "work", "await"}

\* What an interrupt or a nested call may lie on, and what calls are made by.
\* The collector is interrupted only while it waits for the lock, and calls at
\* the other levels are made by programs that do nothing else.
PlaceInv(p, d) ==
    LET f == Doing(p, d) IN
    /\ f.at = "program" <=> d = 1
    /\ d < Depth(p) => f.at \in Resting
    /\ d = 1 => f = Program
    /\ d > 1 => f.level \in Levels
    /\ f.at = "fetch" => f.call = NoCall
    /\ f.at \notin {"program", "fetch"} =>
          f.call \in 1 .. calls /\ level[f.call] = f.level
    /\ f.level = 0 => f.enb = {}
    /\ f.level = 0 /\ d < Depth(p) =>
          /\ d = Depth(p) - 1 /\ f.at = "lock"
          /\ Top(p).level = 0 /\ Top(p).at \notin Asking
    /\ f.at \in Asking /\ f.level # 0 => d = 2
    /\ f.at \in {"await", "waiting"} => f.level \in Rendezvous

StackInv == \A p \in Procs : /\ Depth(p) > 0
                             /\ \A d \in 1 .. Depth(p) : PlaceInv(p, d)

-----------------------------------------------------------------------------
(* The lock and the acknowledgements *)

\* p has Global_Int_Lock.
Owns(p, d) == Doing(p, d).at \in Owning

LockInv ==
    /\ intLock <=> \E p \in Procs : \E d \in 1 .. Depth(p) : Owns(p, d)
    /\ \A p, q \in Procs : \A d \in 1 .. Depth(p), e \in 1 .. Depth(q) :
          Owns(p, d) /\ Owns(q, e) => p = q /\ d = e

AcksInv ==
    /\ AcksAreCounted
    /\ \A p \in Procs : At(p, "acks") => ~signal[p] /\ sigData = Top(p).level

-----------------------------------------------------------------------------
(* Calls *)

\* An interrupt of level l is on its way to p, or about to fetch its WORK.
Signalled(p, l) == signal[p] /\ sigData = l
Fetching(p, l)  == At(p, "fetch") /\ Top(p).level = l
Requested(p, l) == Signalled(p, l) \/ l \in code[p] \/ Fetching(p, l)

CallInv ==
    /\ sent \subseteq 1 .. calls
    /\ \A c \in Calls : level[c] \in Levels <=> c <= calls
    /\ \A l \in Levels : handlers[l] # NoCall =>
          handlers[l] \in 1 .. calls /\ level[handlers[l]] = l
    /\ \A p \in Procs : \A l \in Levels : Requested(p, l) => handlers[l] # NoCall

\* Who knows of a call.
PlaceCalls(p, d) ==
    LET f == Doing(p, d) IN
    /\ f.at \in Unasked => f.call \notin sent
    /\ f.at \in {"acks", "unlock"} => f.call \in sent
    /\ f.at \in {"called", "work", "await", "waiting"} /\ f.level \in Rendezvous
          => f.call \in sent
    /\ f.at \in {"test", "signal"} => handlers[f.level] = f.call

StackCalls ==
    /\ \A p \in Procs : \A d \in 1 .. Depth(p) : PlaceCalls(p, d)
    /\ \A p, q \in Procs : \A d \in 1 .. Depth(p), e \in 1 .. Depth(q) :
          /\ Doing(p, d).at \in Unasked /\ Doing(q, e).call = Doing(p, d).call
          /\ Doing(p, d).level \in Rendezvous \/ Doing(q, e).at \in Unasked
       => p = q /\ d = e

-----------------------------------------------------------------------------
(* The rendezvous *)

Takes(p, c) == \E d \in 1 .. Depth(p) : Doing(p, d).call = c
Meeting(c)  == c \in sent /\ level[c] \in Rendezvous

\* Every processor but one has been asked to begin the WORK of c, once.
Forced(c) == \E caller \in Procs :
    /\ begun[c][caller] = 0 /\ ~Due(c, caller)
    /\ \A p \in Procs \ {caller} : begun[c][p] + One(Due(c, p)) = 1

\* It is due to begin it, has begun it or has been there; the synchronizer
\* counts those that wait, and everybody when it is open.
MeetingInv(c) ==
    /\ Forced(c)
    /\ opened[c] => arrived[c] = Procs
    /\ \A p \in Procs :
          /\ p \in arrived[c] => opened[c] \/ (At(p, "waiting") /\ Top(p).call = c)
          /\ p \in arrived[c] \/ Due(c, p) \/ Takes(p, c)
          /\ Due(c, p) => p \notin arrived[c] /\ ~Takes(p, c)

\* Before that nobody has begun it or is at the synchronizer.
QuietCall(c) == /\ \A p \in Procs : begun[c][p] = 0
                /\ arrived[c] = {} /\ ~opened[c]

\* A request is for a WORK that is due, and there is one of a level only.
RequestInv(p, l) ==
    /\ Requested(p, l) => handlers[l] \in sent
    /\ ~(Signalled(p, l) /\ l \in code[p])
    /\ ~(Signalled(p, l) /\ Fetching(p, l))
    /\ ~(l \in code[p] /\ Fetching(p, l))

RendezvousInv ==
    /\ \A c \in Calls : Meeting(c) => MeetingInv(c)
    /\ \A c \in Calls \ sent : level[c] \in Rendezvous \cup {-1} => QuietCall(c)
    /\ \A p \in Procs : \A l \in Rendezvous : RequestInv(p, l)

\* While a collection comes together nobody is between the TEST and the last
\* acknowledgement of another call.
CollectInv == \A c \in Calls : Meeting(c) /\ level[c] = 0 /\ ~opened[c] =>
    \A p \in Procs : \A d \in 1 .. Depth(p) :
        Doing(p, d).at \in {"test", "signal", "acks"} => Doing(p, d).call = c

-----------------------------------------------------------------------------
(* Steps on stacks *)

\* The other stacks stay, and the n lowest places of that of p.
Stays(p, n) == /\ \A q \in Procs \ {p} : stack'[q] = stack[q]
               /\ \A d \in 1 .. n : Doing(p, d)' = Doing(p, d)

\* f replaces what is on top, g replaces it and f is pushed upon it, or it is
\* popped.
Replaces(p, f)  == /\ Stays(p, Depth(p) - 1)
                   /\ Depth(p)' = Depth(p) /\ Top(p)' = f
Covers(p, g, f) == /\ Stays(p, Depth(p) - 1)
                   /\ \A d : d = Depth(p) => Doing(p, d)' = g
                   /\ Depth(p)' = Depth(p) + 1 /\ Top(p)' = f
Pops(p)         == Stays(p, Depth(p) - 1) /\ Depth(p)' = Depth(p) - 1

StackTypes == stack \in [Procs -> Seq(Frame)] /\ \A p \in Procs : Depth(p) > 0

\* The top is at the greatest depth.
LEMMA TopIs ==
  ASSUME StackTypes, NEW p \in Procs
  PROVE  /\ Depth(p) \in Nat \ {0} /\ Top(p) = Doing(p, Depth(p))
         /\ Top(p) = stack[p][1] /\ Top(p) \in Frame
         /\ \A d \in 1 .. Depth(p) : Doing(p, d) \in Frame
<1>1. stack[p] \in Seq(Frame) /\ Depth(p) > 0
  BY DEF StackTypes
<1> QED
  BY <1>1 DEF Top, Doing, Depth

\* Sequences with a new head.
LEMMA NewHeads ==
  ASSUME NEW S, NEW s \in Seq(S), Len(s) > 0, NEW f \in S, NEW g \in S
  PROVE  /\ [s EXCEPT ![1] = f] \in Seq(S)
         /\ Len([s EXCEPT ![1] = f]) = Len(s) /\ [s EXCEPT ![1] = f][1] = f
         /\ \A i \in 2 .. Len(s) : [s EXCEPT ![1] = f][i] = s[i]
         /\ <<f>> \o s \in Seq(S)
         /\ Len(<<f>> \o s) = Len(s) + 1 /\ (<<f>> \o s)[1] = f
         /\ \A i \in 1 .. Len(s) : (<<f>> \o s)[i + 1] = s[i]
         /\ <<f>> \o (<<g>> \o Tail(s)) \in Seq(S)
         /\ Len(<<f>> \o (<<g>> \o Tail(s))) = Len(s) + 1
         /\ (<<f>> \o (<<g>> \o Tail(s)))[1] = f
         /\ (<<f>> \o (<<g>> \o Tail(s)))[2] = g
         /\ \A i \in 2 .. Len(s) : (<<f>> \o (<<g>> \o Tail(s)))[i + 1] = s[i]
         /\ Tail(s) \in Seq(S) /\ Len(Tail(s)) = Len(s) - 1
         /\ \A i \in 2 .. Len(s) : Tail(s)[i - 1] = s[i]
<1>1. /\ Tail(s) \in Seq(S) /\ Len(Tail(s)) = Len(s) - 1
      /\ \A i \in 1 .. Len(s) - 1 : Tail(s)[i] = s[i + 1]
  OBVIOUS
<1>2. \A i \in 2 .. Len(s) : i - 1 \in 1 .. Len(s) - 1 /\ i - 1 + 1 = i
  OBVIOUS
<1>3. \A i \in 2 .. Len(s) : Tail(s)[i - 1] = s[i]
  BY <1>1, <1>2
<1>4. /\ [s EXCEPT ![1] = f] \in Seq(S)
      /\ Len([s EXCEPT ![1] = f]) = Len(s) /\ [s EXCEPT ![1] = f][1] = f
      /\ \A i \in 2 .. Len(s) : [s EXCEPT ![1] = f][i] = s[i]
  OBVIOUS
<1>5. \A t \in Seq(S), h \in S :
         /\ <<h>> \o t \in Seq(S)
         /\ Len(<<h>> \o t) = Len(t) + 1 /\ (<<h>> \o t)[1] = h
         /\ \A i \in 1 .. Len(t) : (<<h>> \o t)[i + 1] = t[i]
  OBVIOUS
<1>6. <<g>> \o Tail(s) \in Seq(S) /\ Len(<<g>> \o Tail(s)) = Len(s)
      /\ (<<g>> \o Tail(s))[1] = g
      /\ \A i \in 2 .. Len(s) : (<<g>> \o Tail(s))[i] = s[i]
  <2>1. /\ <<g>> \o Tail(s) \in Seq(S) /\ Len(<<g>> \o Tail(s)) = Len(Tail(s)) + 1
        /\ (<<g>> \o Tail(s))[1] = g
        /\ \A i \in 1 .. Len(Tail(s)) : (<<g>> \o Tail(s))[i + 1] = Tail(s)[i]
    BY <1>1, <1>5
  <2> QED
    BY <1>1, <1>2, <2>1
<1> DEFINE u == <<g>> \o Tail(s)
<1>7. /\ <<f>> \o u \in Seq(S) /\ Len(<<f>> \o u) = Len(s) + 1
      /\ (<<f>> \o u)[1] = f
      /\ \A i \in 1 .. Len(s) : (<<f>> \o u)[i + 1] = u[i]
  BY <1>5, <1>6
<1>8. (<<f>> \o u)[2] = g /\ \A i \in 2 .. Len(s) : (<<f>> \o u)[i + 1] = s[i]
  <2>1. 1 \in 1 .. Len(s) /\ 1 + 1 = 2
    OBVIOUS
  <2>2. (<<f>> \o u)[2] = u[1]
    BY <1>7, <2>1
  <2> QED
    BY <1>6, <1>7, <2>2
<1> QED
  BY <1>1, <1>3, <1>4, <1>5, <1>7, <1>8

\* What the steps do to the stack of p.
LEMMA StackSteps ==
  ASSUME StackTypes, NEW p \in Procs, NEW f \in Frame, NEW g \in Frame
  PROVE  /\ stack' = [stack EXCEPT ![p] = [stack[p] EXCEPT ![1] = f]]
               => Replaces(p, f) /\ stack' \in [Procs -> Seq(Frame)]
         /\ stack' = [stack EXCEPT ![p] = <<f>> \o stack[p]]
               => Covers(p, Top(p), f) /\ stack' \in [Procs -> Seq(Frame)]
         /\ stack' = [stack EXCEPT ![p] = <<f>> \o (<<g>> \o Tail(stack[p]))]
               => Covers(p, g, f) /\ stack' \in [Procs -> Seq(Frame)]
         /\ stack' = [stack EXCEPT ![p] = Tail(stack[p])]
               => Pops(p) /\ stack' \in [Procs -> Seq(Frame)]
<1>1. stack \in [Procs -> Seq(Frame)] /\ stack[p] \in Seq(Frame) /\ Len(stack[p]) > 0
  BY DEF StackTypes, Depth
<1> DEFINE s == stack[p]
           n == Len(stack[p])
<1>2. n \in Nat /\ n > 0 /\ Top(p) = s[1]
  BY <1>1 DEF Top
<1>. \A q \in Procs \ {p} : \A t : [stack EXCEPT ![p] = t][q] = stack[q]
  BY <1>1
<1>3. ASSUME stack' = [stack EXCEPT ![p] = [s EXCEPT ![1] = f]]
      PROVE  Replaces(p, f) /\ stack' \in [Procs -> Seq(Frame)]
  <2>1. /\ stack'[p] \in Seq(Frame) /\ Len(stack'[p]) = n /\ stack'[p][1] = f
        /\ \A i \in 2 .. n : stack'[p][i] = s[i]
    BY <1>1, <1>3, NewHeads
  <2>2. \A d \in 1 .. n - 1 : n + 1 - d \in 2 .. n
    BY <1>2
  <2> QED
    BY <1>1, <1>2, <1>3, <2>1, <2>2 DEF Replaces, Stays, Doing, Depth, Top
<1>4. ASSUME stack' = [stack EXCEPT ![p] = <<f>> \o s]
      PROVE  Covers(p, Top(p), f) /\ stack' \in [Procs -> Seq(Frame)]
  <2>1. /\ stack'[p] \in Seq(Frame) /\ Len(stack'[p]) = n + 1
        /\ stack'[p][1] = f /\ \A i \in 1 .. n : stack'[p][i + 1] = s[i]
    BY <1>1, <1>4, NewHeads
  <2>2. \A d \in 1 .. n : Doing(p, d)' = Doing(p, d)
    <3>1. \A d \in 1 .. n : n + 1 - d \in 1 .. n /\ n + 1 + 1 - d = (n + 1 - d) + 1
      BY <1>2
    <3> QED
      BY <2>1, <3>1 DEF Doing, Depth
  <2>3. Doing(p, n) = Top(p)
    BY <1>1, <1>2 DEF Doing, Depth
  <2> QED
    BY <1>1, <1>2, <1>4, <2>1, <2>2, <2>3 DEF Covers, Stays, Depth, Top
<1>5. ASSUME stack' = [stack EXCEPT ![p] = <<f>> \o (<<g>> \o Tail(s))]
      PROVE  Covers(p, g, f) /\ stack' \in [Procs -> Seq(Frame)]
  <2>1. /\ stack'[p] \in Seq(Frame) /\ Len(stack'[p]) = n + 1
        /\ stack'[p][1] = f /\ stack'[p][2] = g
        /\ \A i \in 2 .. n : stack'[p][i + 1] = s[i]
    <3>1. stack'[p] = <<f>> \o (<<g>> \o Tail(s))
      BY <1>1, <1>5
    <3> QED
      BY <1>1, <3>1, NewHeads
  <2>2. \A d \in 1 .. n - 1 : Doing(p, d)' = Doing(p, d)
    <3>1. \A d \in 1 .. n - 1 :
             n + 1 - d \in 2 .. n /\ n + 1 + 1 - d = (n + 1 - d) + 1
      BY <1>2
    <3> QED
      BY <2>1, <3>1 DEF Doing, Depth
  <2>3. \A d : d = n => Doing(p, d)' = g
    <3>1. \A d : d = n => n + 1 + 1 - d = 2
      BY <1>2
    <3> QED
      BY <2>1, <3>1 DEF Doing, Depth
  <2> QED
    BY <1>1, <1>2, <1>5, <2>1, <2>2, <2>3 DEF Covers, Stays, Depth, Top
<1>6. ASSUME stack' = [stack EXCEPT ![p] = Tail(s)]
      PROVE  Pops(p) /\ stack' \in [Procs -> Seq(Frame)]
  <2>1. /\ stack'[p] \in Seq(Frame) /\ Len(stack'[p]) = n - 1
        /\ \A i \in 2 .. n : stack'[p][i - 1] = s[i]
    BY <1>1, <1>6, NewHeads
  <2>2. \A d \in 1 .. n - 1 : Doing(p, d)' = Doing(p, d)
    <3>1. \A d \in 1 .. n - 1 :
             n + 1 - d \in 2 .. n /\ n - 1 + 1 - d = (n + 1 - d) - 1
      BY <1>2
    <3> QED
      BY <2>1, <3>1 DEF Doing, Depth
  <2> QED
    BY <1>1, <1>2, <1>6, <2>1, <2>2 DEF Pops, Stays, Depth
<1> QED
  BY <1>3, <1>4, <1>5, <1>6
-----------------------------------------------------------------------------
(* What each action does to the stacks *)

With(f, label) == [f EXCEPT !.at = label]
Handling(l)    == [at |-> "fetch", call |-> NoCall, level |-> l, enb |-> Below(l)]
Working(f)     == [f EXCEPT !.at = "work", !.call = handlers[f.level]]
Calling(p, l)  == [at |-> "lock", call |-> calls + 1, level |-> l,
                   enb |-> IF l = 0 THEN {} ELSE Top(p).enb]

\* The highest of some levels is one of them.
LEMMA HighestIsThere ==
  ASSUME NEW S, S \subseteq Levels, S # {}
  PROVE  Highest(S) \in S
<1>1. S \subseteq 0 .. 3
  BY LevelsAssumption
<1>2. \E l \in S : \A k \in S : l <= k
  <2>1. CASE 0 \in S
    BY <1>1, <2>1
  <2>2. CASE 0 \notin S /\ 1 \in S
    BY <1>1, <2>2
  <2>3. CASE 0 \notin S /\ 1 \notin S /\ 2 \in S
    BY <1>1, <2>3
  <2>4. CASE 0 \notin S /\ 1 \notin S /\ 2 \notin S
    <3>1. PICK l \in S : TRUE
      OBVIOUS
    <3>2. \A k \in S : k = 3
      BY <1>1, <2>4
    <3> QED
      BY <3>1, <3>2
  <2> QED
    BY <2>1, <2>2, <2>3, <2>4
<1> QED
  BY <1>2 DEF Highest

\* An interrupt takes one of the pending levels.
Handles(p, mask, under) ==
    \E l \in Levels :
        /\ l \in code[p] /\ l \in mask
        /\ code' = [code EXCEPT ![p] = @ \ {l}]
        /\ stack' = [stack EXCEPT ![p] = <<Handling(l)>> \o under]

\* Setup_Interrupt takes the highest pending level, which is one of them.
LEMMA InterruptHandles ==
  ASSUME code \in [Procs -> SUBSET Levels], NEW p \in Procs, NEW mask, NEW under,
         Interrupt(p, mask, under)
  PROVE  Handles(p, mask, under)
<1>1. Pending(p, mask) \subseteq Levels /\ Pending(p, mask) # {}
  BY DEF Pending, Interrupt
<1>2. Highest(Pending(p, mask)) \in Pending(p, mask)
  BY <1>1, HighestIsThere
<1> QED
  BY <1>1, <1>2 DEF Handles, Interrupt, Handling, Pending

\* What With and Handling make of a frame.
LEMMA Frames ==
  ASSUME NEW f \in Frame
  PROVE  /\ \A label \in Labels :
               /\ With(f, label) \in Frame /\ With(f, label).at = label
               /\ With(f, label).call = f.call /\ With(f, label).level = f.level
               /\ With(f, label).enb = f.enb
         /\ \A l \in Levels :
               /\ Handling(l) \in Frame /\ Handling(l).at = "fetch"
               /\ Handling(l).call = NoCall /\ Handling(l).level = l
               /\ Handling(l).enb = Below(l)
  BY DEF With, Handling, Frame, Labels, Below

\* To go on at another label is to replace the top.
LEMMA Gotos ==
  ASSUME StackTypes, NEW p \in Procs, NEW label \in Labels, Goto(p, label)
  PROVE  /\ Replaces(p, With(Top(p), label)) /\ stack' \in [Procs -> Seq(Frame)]
<1>1. Top(p) = stack[p][1] /\ Top(p) \in Frame
  BY TopIs
<1>2. With(Top(p), label) \in Frame
  BY <1>1, Frames
<1>3. stack' = [stack EXCEPT ![p] = [stack[p] EXCEPT ![1] = With(Top(p), label)]]
  BY <1>1 DEF Goto, With
<1> QED
  BY <1>1, <1>2, <1>3, StackSteps

\* The interrupts, upon what p does or upon what it is put back to.
Interrupted(p, g, mask) ==
    \E l \in Levels : /\ l \in code[p] /\ l \in mask
                      /\ code' = [code EXCEPT ![p] = @ \ {l}]
                      /\ Covers(p, g, Handling(l))

\* An interrupt covers the top, which may have gone back to another label.
LEMMA Interrupts ==
  ASSUME StackTypes, code \in [Procs -> SUBSET Levels], NEW p \in Procs, NEW mask
  PROVE  /\ Interrupt(p, mask, stack[p])
               => Interrupted(p, Top(p), mask) /\ stack' \in [Procs -> Seq(Frame)]
         /\ \A label \in Labels :
               Interrupt(p, mask, <<[Top(p) EXCEPT !.at = label]>> \o Tail(stack[p]))
               => Interrupted(p, With(Top(p), label), mask)
                  /\ stack' \in [Procs -> Seq(Frame)]
<1>1. Top(p) \in Frame
  BY TopIs
<1>2. ASSUME Interrupt(p, mask, stack[p])
      PROVE  Interrupted(p, Top(p), mask) /\ stack' \in [Procs -> Seq(Frame)]
  <2>1. PICK l \in Levels :
           /\ l \in code[p] /\ l \in mask
           /\ code' = [code EXCEPT ![p] = @ \ {l}]
           /\ stack' = [stack EXCEPT ![p] = <<Handling(l)>> \o stack[p]]
    BY <1>2, InterruptHandles DEF Handles
  <2>2. Handling(l) \in Frame
    BY <1>1, Frames
  <2>3. Covers(p, Top(p), Handling(l)) /\ stack' \in [Procs -> Seq(Frame)]
    BY <1>1, <2>1, <2>2, StackSteps
  <2> QED
    BY <2>1, <2>3 DEF Interrupted
<1>3. ASSUME NEW label \in Labels,
             Interrupt(p, mask, <<[Top(p) EXCEPT !.at = label]>> \o Tail(stack[p]))
      PROVE  Interrupted(p, With(Top(p), label), mask)
             /\ stack' \in [Procs -> Seq(Frame)]
  <2>4. Interrupt(p, mask, <<With(Top(p), label)>> \o Tail(stack[p]))
    BY <1>3 DEF With
  <2>0. Handles(p, mask, <<With(Top(p), label)>> \o Tail(stack[p]))
    BY <2>4, InterruptHandles
  <2>1. PICK l \in Levels :
           /\ l \in code[p] /\ l \in mask
           /\ code' = [code EXCEPT ![p] = @ \ {l}]
           /\ stack' = [stack EXCEPT ![p] =
                 <<Handling(l)>> \o (<<With(Top(p), label)>> \o Tail(stack[p]))]
    BY <2>0 DEF Handles
  <2>2. Handling(l) \in Frame /\ With(Top(p), label) \in Frame
    BY <1>1, Frames
  <2>3. Covers(p, With(Top(p), label), Handling(l))
        /\ stack' \in [Procs -> Seq(Frame)]
    BY <2>1, <2>2, StackSteps
  <2> QED
    BY <2>1, <2>3 DEF Interrupted
<1> QED
  BY <1>2, <1>3

-----------------------------------------------------------------------------
(* What lies below what is kept *)

Extends == /\ calls \in Nat /\ calls' \in Nat /\ calls <= calls'
           /\ \A c \in 1 .. calls : level'[c] = level[c]

\* The other processors do as before.
LEMMA OthersStay ==
  ASSUME StackTypes, StackInv, stack' \in [Procs -> Seq(Frame)], Extends,
         NEW p \in Procs, NEW q \in Procs, stack'[q] = stack[q]
  PROVE  Depth(q)' > 0 /\ \A d \in 1 .. Depth(q)' : PlaceInv(q, d)'
<1>1. Depth(q)' = Depth(q) /\ Top(q)' = Top(q)
      /\ \A d \in 1 .. Depth(q) : Doing(q, d)' = Doing(q, d)
  BY DEF Depth, Top, Doing
<1>2. \A d \in 1 .. Depth(q) : PlaceInv(q, d)
  BY DEF StackInv
<1>3. ASSUME NEW d \in 1 .. Depth(q)
      PROVE  PlaceInv(q, d)'
  BY <1>1, <1>2, <1>3 DEF PlaceInv, Extends
<1> QED
  BY <1>1, <1>3 DEF StackInv

\* A top that is replaced as the actions do it keeps StackInv.
LEMMA ReplaceKeepsPlaces ==
  ASSUME StackTypes, StackInv, stack' \in [Procs -> Seq(Frame)],
         calls \in Nat, calls' = calls, level' = level,
         NEW p \in Procs, NEW f, Replaces(p, f),
         Top(p).at # "program", f.at \notin {"program", "fetch"},
         f.level = Top(p).level, f.enb = Top(p).enb,
         f.call \in 1 .. calls, level[f.call] = f.level,
         f.at \in Asking => Top(p).at \in Asking,
         f.at \in {"await", "waiting"} => f.level \in Rendezvous
  PROVE  StackInv'
<1>1. Extends
  BY DEF Extends
<1>2. \A q \in Procs \ {p} :
         Depth(q)' > 0 /\ \A d \in 1 .. Depth(q)' : PlaceInv(q, d)'
  BY <1>1, OthersStay DEF Replaces, Stays
<1> DEFINE n == Depth(p)
<1>3. /\ n \in Nat \ {0} /\ Top(p) = Doing(p, n) /\ Top(p) \in Frame
      /\ \A d \in 1 .. n : PlaceInv(p, d)
  BY TopIs DEF StackInv
<1>4. StackTypes'
  BY <1>2, <1>3 DEF StackTypes, Replaces
<1>5. Depth(p)' = n /\ Top(p)' = f /\ \A d \in 1 .. n - 1 : Doing(p, d)' = Doing(p, d)
  BY DEF Replaces, Stays
<1>6. \A d : d = n => Doing(p, d)' = f
  BY <1>3, <1>4, <1>5, TopIs DEF Top, Doing, Depth
<1>7. PlaceInv(p, n) /\ n > 1
  BY <1>3 DEF PlaceInv
<1>8. ASSUME NEW d \in 1 .. n - 1
      PROVE  PlaceInv(p, d)'
  <2>1. PlaceInv(p, d) /\ Doing(p, d)' = Doing(p, d)
    BY <1>3, <1>5
  <2> QED
    BY <1>3, <1>5, <2>1 DEF PlaceInv
<1>9. ASSUME NEW d, d = n
      PROVE  PlaceInv(p, d)'
  BY <1>3, <1>5, <1>6, <1>7, <1>9 DEF PlaceInv
<1>10. \A d \in 1 .. Depth(p)' : PlaceInv(p, d)'
  BY <1>3, <1>5, <1>8, <1>9
<1> QED
  BY <1>2, <1>3, <1>5, <1>10 DEF StackInv

\* So does an interrupt or a call upon what may be interrupted.
LEMMA CoverKeepsPlaces ==
  ASSUME StackTypes, StackInv, stack' \in [Procs -> Seq(Frame)], Extends,
         NEW p \in Procs, NEW g, NEW f, Covers(p, g, f),
         g.call = Top(p).call, g.level = Top(p).level, g.enb = Top(p).enb,
         g.at \in Resting,
         \/ g = Top(p) \/ (Top(p).at = "locked" /\ g.at = "lock")
         \/ (Top(p).at = "waiting" /\ g.at = "await"),
         f.at \in {"fetch", "lock"}, f.level \in Levels,
         f.level = 0 => f.enb = {}, f.at = "fetch" => f.call = NoCall,
         f.at = "lock" => f.call \in 1 .. calls' /\ level'[f.call] = f.level,
         f.at = "lock" /\ f.level # 0 => Top(p).at = "program",
         g.level = 0 => g.at = "lock" /\ f.at = "fetch" /\ f.level = 0
  PROVE  StackInv'
<1>2. \A q \in Procs \ {p} :
         Depth(q)' > 0 /\ \A d \in 1 .. Depth(q)' : PlaceInv(q, d)'
  BY OthersStay DEF Covers, Stays
<1> DEFINE n == Depth(p)
<1>3. /\ n \in Nat \ {0} /\ Top(p) = Doing(p, n) /\ Top(p) \in Frame
      /\ \A d \in 1 .. n : PlaceInv(p, d)
  BY TopIs DEF StackInv
<1>5. /\ Depth(p)' = n + 1 /\ Top(p)' = f
      /\ \A d \in 1 .. n - 1 : Doing(p, d)' = Doing(p, d)
      /\ \A d : d = n => Doing(p, d)' = g
  BY DEF Covers, Stays
<1>4. StackTypes'
  BY <1>2, <1>3, <1>5 DEF StackTypes
<1>6. \A d : d = n + 1 => Doing(p, d)' = f
  BY <1>3, <1>4, <1>5, TopIs DEF Top, Doing, Depth
<1>7. PlaceInv(p, n)
  BY <1>3
<1>8. ASSUME NEW d \in 1 .. n - 1
      PROVE  PlaceInv(p, d)'
  <2>1. PlaceInv(p, d) /\ Doing(p, d)' = Doing(p, d)
    BY <1>3, <1>5
  <2>2. Doing(p, d).level # 0
    \* what is kept is at "lock" above it, or is interrupted at another level
    BY <1>3, <1>7, <2>1 DEF PlaceInv, Resting, Asking, Owning
  <2> QED
    BY <1>3, <1>5, <2>1, <2>2 DEF PlaceInv, Extends
<1>9. ASSUME NEW d, d = n
      PROVE  PlaceInv(p, d)'
  <2>1. Doing(p, d)' = g /\ Depth(p)' = n + 1 /\ Top(p)' = f
    BY <1>5, <1>9
  <2>2. /\ Top(p).at = "program" <=> n = 1
        /\ n = 1 => Top(p) = Program
        /\ n > 1 => Top(p).level \in Levels
        /\ Top(p).at = "fetch" => Top(p).call = NoCall
        /\ Top(p).at \notin {"program", "fetch"} =>
              Top(p).call \in 1 .. calls /\ level[Top(p).call] = Top(p).level
        /\ Top(p).level = 0 => Top(p).enb = {}
        /\ Top(p).at \in Asking /\ Top(p).level # 0 => n = 2
        /\ Top(p).at \in {"await", "waiting"} => Top(p).level \in Rendezvous
    BY <1>3, <1>7 DEF PlaceInv
  <2>3. /\ g.at = "program" <=> n = 1
        /\ n = 1 => g = Program
        /\ g.at \notin {"program", "fetch"} =>
              g.call \in 1 .. calls' /\ level'[g.call] = g.level
        /\ g.at \in Asking /\ g.level # 0 => n = 2
        /\ g.at \in {"await", "waiting"} => g.level \in Rendezvous
    <3>1. CASE g = Top(p)
      BY <1>3, <2>2, <3>1 DEF Extends
    <3>2. CASE g # Top(p)
      BY <1>3, <2>2, <3>2 DEF Extends, Asking, Owning, Program
    <3> QED
      BY <3>1, <3>2
  <2>4. g.at # "fetch" /\ (f.at = "fetch" => f.at \notin Asking)
    BY DEF Resting, Asking, Owning
  <2>5. /\ d < n + 1 /\ d = n + 1 - 1 /\ g.enb = Top(p).enb
        /\ g.level = Top(p).level
    BY <1>3, <1>9
  <2>6. /\ g.level = 0 => g.at = "lock" /\ f.level = 0 /\ f.at \notin Asking
        /\ g.level = 0 => g.enb = {}
        /\ d > 1 => g.level \in Levels
    BY <1>9, <2>2, <2>4, <2>5
  <2> HIDE DEF n
  <2> QED
    BY <1>9, <2>1, <2>3, <2>4, <2>5, <2>6 DEF PlaceInv
<1>10. ASSUME NEW d, d = n + 1
       PROVE  PlaceInv(p, d)'
  BY <1>3, <1>5, <1>6, <1>7, <1>10 DEF PlaceInv, Extends, Resting, Asking, Owning
<1>11. \A d \in 1 .. Depth(p)' : PlaceInv(p, d)'
  BY <1>3, <1>5, <1>8, <1>9, <1>10
<1> QED
  BY <1>2, <1>3, <1>5, <1>11 DEF StackInv

\* And so does a return.
LEMMA PopKeepsPlaces ==
  ASSUME StackTypes, StackInv, stack' \in [Procs -> Seq(Frame)],
         calls \in Nat, calls' = calls, level' = level,
         NEW p \in Procs, Pops(p), Top(p).at # "program"
  PROVE  StackInv'
<1>1. Extends
  BY DEF Extends
<1>2. \A q \in Procs \ {p} :
         Depth(q)' > 0 /\ \A d \in 1 .. Depth(q)' : PlaceInv(q, d)'
  BY <1>1, OthersStay DEF Pops, Stays
<1> DEFINE n == Depth(p)
<1>3. /\ n \in Nat \ {0} /\ Top(p) = Doing(p, n) /\ Top(p) \in Frame
      /\ \A d \in 1 .. n : PlaceInv(p, d)
  BY TopIs DEF StackInv
<1>5. Depth(p)' = n - 1 /\ \A d \in 1 .. n - 1 : Doing(p, d)' = Doing(p, d)
  BY DEF Pops, Stays
<1>7. PlaceInv(p, n) /\ n > 1
  BY <1>3 DEF PlaceInv
<1>8. ASSUME NEW d \in 1 .. n - 1
      PROVE  PlaceInv(p, d)'
  <2>1. PlaceInv(p, d) /\ Doing(p, d)' = Doing(p, d)
    BY <1>3, <1>5
  <2>2. d < n - 1 => Doing(p, d).level # 0
    BY <1>3, <2>1 DEF PlaceInv
  <2> QED
    BY <1>3, <1>5, <2>1, <2>2 DEF PlaceInv
<1> QED
  BY <1>2, <1>3, <1>5, <1>7, <1>8 DEF StackInv

-----------------------------------------------------------------------------
(* The stacks in each action *)

CallTypes == /\ code \in [Procs -> SUBSET Levels]
             /\ level \in [Calls -> Levels \cup {-1}]
             /\ calls \in 0 .. MaxCalls
             /\ handlers \in [Levels -> Calls \cup {NoCall}]
             /\ signal \in [Procs -> BOOLEAN]

\* TypeOK and StackInv are what most of this needs.
LEMMA Types ==
  ASSUME TypeOK, StackInv
  PROVE  StackTypes /\ CallTypes /\ calls \in Nat
  BY BoundsAssumption DEF TypeOK, StackInv, StackTypes, CallTypes

Replaced(p, label) == Replaces(p, With(Top(p), label))

\* Which of these each action is.
LEMMA Actions ==
  ASSUME TypeOK, StackInv, NEW p \in Procs
  PROVE  /\ Lock(p) => Replaced(p, "locked")
         /\ StoreHandler(p) => Replaced(p, "test")
         /\ TestTrue(p) => Replaced(p, "signal")
         /\ Signal(p) => Replaced(p, "acks")
         /\ Acknowledged(p) => Replaced(p, "unlock")
         /\ Unlock(p) => Replaced(p, "called")
         /\ Meet(p) => Replaced(p, "await")
         /\ Arrive(p) => Replaced(p, "waiting")
         /\ TestFalse(p) \/ Return(p) \/ Pass(p) => Pops(p)
         /\ TakeInterrupt(p) => Interrupted(p, Top(p), Top(p).enb)
         /\ SpinInterrupted(p) => Interrupted(p, Top(p), AtMost(Top(p).level))
         /\ LockedInterrupted(p) =>
               Interrupted(p, With(Top(p), "lock"), AtMost(Top(p).level))
         /\ BackOut(p) => Interrupted(p, With(Top(p), "await"), Top(p).enb)
         /\ Proceed(p) /\ ~Fetch(p) => stack' \in [Procs -> Seq(Frame)]
<1>1. StackTypes /\ CallTypes
  BY Types
<1>2. /\ Lock(p) => Goto(p, "locked")
      /\ StoreHandler(p) => Goto(p, "test")
      /\ TestTrue(p) => Goto(p, "signal")
      /\ Signal(p) => Goto(p, "acks")
      /\ Acknowledged(p) => Goto(p, "unlock")
      /\ Unlock(p) => Goto(p, "called")
      /\ Meet(p) => Goto(p, "await")
      /\ Arrive(p) => Goto(p, "waiting")
  BY DEF Lock, StoreHandler, TestTrue, Signal, Acknowledged, Unlock, Meet, Arrive,
         Step
<1>3. \A label \in Labels : Goto(p, label) =>
         Replaced(p, label) /\ stack' \in [Procs -> Seq(Frame)]
  BY <1>1, Gotos DEF Replaced
<1>4. /\ {"locked", "test", "signal", "acks", "unlock", "called", "await",
          "waiting"} \subseteq Labels
      /\ "lock" \in Labels
  BY DEF Labels
<1>5. TestFalse(p) \/ Return(p) \/ Pass(p) =>
         Pops(p) /\ stack' \in [Procs -> Seq(Frame)]
  <2>1. TestFalse(p) \/ Return(p) \/ Pass(p) =>
           stack' = [stack EXCEPT ![p] = Tail(stack[p])]
    BY DEF TestFalse, Return, Pass, Pop
  <2>2. Top(p) \in Frame
    BY <1>1, TopIs
  <2> QED
    BY <1>1, <2>1, <2>2, StackSteps
<1>6. /\ TakeInterrupt(p) => Interrupt(p, Top(p).enb, stack[p])
      /\ SpinInterrupted(p) => Interrupt(p, AtMost(Top(p).level), stack[p])
      /\ LockedInterrupted(p) =>
            Interrupt(p, AtMost(Top(p).level),
                      <<[Top(p) EXCEPT !.at = "lock"]>> \o Tail(stack[p]))
      /\ BackOut(p) =>
            Interrupt(p, Top(p).enb,
                      <<[Top(p) EXCEPT !.at = "await"]>> \o Tail(stack[p]))
  BY DEF TakeInterrupt, SpinInterrupted, LockedInterrupted, BackOut
<1>7. \A mask :
         /\ Interrupt(p, mask, stack[p])
               => Interrupted(p, Top(p), mask) /\ stack' \in [Procs -> Seq(Frame)]
         /\ \A label \in Labels :
               Interrupt(p, mask, <<[Top(p) EXCEPT !.at = label]>> \o Tail(stack[p]))
               => Interrupted(p, With(Top(p), label), mask)
                  /\ stack' \in [Procs -> Seq(Frame)]
  BY <1>1, Interrupts DEF CallTypes
<1>8. /\ Lock(p) => Replaced(p, "locked") /\ stack' \in [Procs -> Seq(Frame)]
      /\ StoreHandler(p) => Replaced(p, "test") /\ stack' \in [Procs -> Seq(Frame)]
      /\ TestTrue(p) => Replaced(p, "signal") /\ stack' \in [Procs -> Seq(Frame)]
      /\ Signal(p) => Replaced(p, "acks") /\ stack' \in [Procs -> Seq(Frame)]
      /\ Acknowledged(p) => Replaced(p, "unlock") /\ stack' \in [Procs -> Seq(Frame)]
      /\ Unlock(p) => Replaced(p, "called") /\ stack' \in [Procs -> Seq(Frame)]
      /\ Meet(p) => Replaced(p, "await") /\ stack' \in [Procs -> Seq(Frame)]
      /\ Arrive(p) => Replaced(p, "waiting") /\ stack' \in [Procs -> Seq(Frame)]
  BY <1>2, <1>3, <1>4
<1>9. TakeInterrupt(p) => /\ Interrupted(p, Top(p), Top(p).enb)
                          /\ stack' \in [Procs -> Seq(Frame)]
  BY <1>6, <1>7
<1>10. SpinInterrupted(p) => /\ Interrupted(p, Top(p), AtMost(Top(p).level))
                             /\ stack' \in [Procs -> Seq(Frame)]
  BY <1>6, <1>7
<1>11. LockedInterrupted(p) =>
          /\ Interrupted(p, With(Top(p), "lock"), AtMost(Top(p).level))
          /\ stack' \in [Procs -> Seq(Frame)]
  BY <1>4, <1>6, <1>7
<1>12. BackOut(p) => /\ Interrupted(p, With(Top(p), "await"), Top(p).enb)
                     /\ stack' \in [Procs -> Seq(Frame)]
  BY <1>4, <1>6, <1>7
<1> QED
  BY <1>5, <1>8, <1>9, <1>10, <1>11, <1>12 DEF Proceed

\* A new call, and the handler that is fetched.
LEMMA CallsAndFetches ==
  ASSUME TypeOK, StackInv, CallInv, NEW p \in Procs
  PROVE  /\ \A l \in Levels : Call(p, l) =>
               /\ Covers(p, Top(p), Calling(p, l)) /\ Calling(p, l) \in Frame
               /\ stack' \in [Procs -> Seq(Frame)]
         /\ Fetch(p) =>
               /\ Replaces(p, Working(Top(p))) /\ Working(Top(p)) \in Frame
               /\ handlers[Top(p).level] \in 1 .. calls
               /\ level[handlers[Top(p).level]] = Top(p).level
               /\ stack' \in [Procs -> Seq(Frame)]
<1>1. StackTypes /\ CallTypes /\ Top(p) \in Frame /\ Top(p) = stack[p][1]
  BY Types, TopIs
<1>2. ASSUME NEW l \in Levels, Call(p, l)
      PROVE  /\ Covers(p, Top(p), Calling(p, l)) /\ Calling(p, l) \in Frame
             /\ stack' \in [Procs -> Seq(Frame)]
  <2>1. Calling(p, l) \in Frame
    BY <1>1, <1>2, BoundsAssumption DEF CallTypes, Calling, Frame, Labels, Calls, Call
  <2>2. stack' = [stack EXCEPT ![p] = <<Calling(p, l)>> \o stack[p]]
    BY <1>2 DEF Call, Push, Calling
  <2> QED
    BY <1>1, <2>1, <2>2, StackSteps
<1>3. ASSUME Fetch(p)
      PROVE  /\ Replaces(p, Working(Top(p))) /\ Working(Top(p)) \in Frame
             /\ handlers[Top(p).level] \in 1 .. calls
             /\ level[handlers[Top(p).level]] = Top(p).level
             /\ stack' \in [Procs -> Seq(Frame)]
  <2>1. Top(p).level \in Levels
    <3>1. Top(p).at = "fetch"
      BY <1>3 DEF Fetch, At
    <3>2. /\ Depth(p) \in Nat \ {0} /\ Top(p) = Doing(p, Depth(p))
          /\ PlaceInv(p, Depth(p))
      BY <1>1, TopIs DEF StackInv
    <3> QED
      BY <3>1, <3>2 DEF PlaceInv
  <2>2. handlers[Top(p).level] # NoCall
    BY <1>3, <2>1 DEF CallInv, Requested, Fetching, Fetch
  <2>3. /\ handlers[Top(p).level] \in 1 .. calls
        /\ level[handlers[Top(p).level]] = Top(p).level
        /\ handlers[Top(p).level] \in Calls
    BY <1>1, <2>1, <2>2 DEF CallInv, CallTypes
  <2>4. Working(Top(p)) \in Frame
    BY <1>1, <2>3 DEF Working, Frame, Labels
  <2>5. stack' = [stack EXCEPT ![p] = [stack[p] EXCEPT ![1] = Working(Top(p))]]
    BY <1>1, <1>3 DEF Fetch, Working
  <2> QED
    BY <1>1, <2>3, <2>4, <2>5, StackSteps
<1> QED
  BY <1>2, <1>3

-----------------------------------------------------------------------------
(* The stacks stay as they have to be *)

\* What is known of the top.
LEMMA Tops ==
  ASSUME TypeOK, StackInv, NEW p \in Procs
  PROVE  /\ Depth(p) \in Nat \ {0} /\ Top(p) \in Frame
         /\ Top(p) = Doing(p, Depth(p)) /\ PlaceInv(p, Depth(p))
         /\ Top(p).at = "program" <=> Depth(p) = 1
         /\ Depth(p) = 1 => Top(p) = Program
         /\ Depth(p) > 1 => Top(p).level \in Levels
         /\ Top(p).at \notin {"program", "fetch"} =>
               Top(p).call \in 1 .. calls /\ level[Top(p).call] = Top(p).level
         /\ Top(p).level = 0 => Top(p).enb = {}
         /\ Top(p).enb \subseteq Levels
<1>1. StackTypes
  BY Types
<1>2. /\ Depth(p) \in Nat \ {0} /\ Top(p) \in Frame
      /\ Top(p) = Doing(p, Depth(p)) /\ PlaceInv(p, Depth(p))
  BY <1>1, TopIs DEF StackInv
<1>3. Top(p).enb \subseteq Levels
  BY <1>2 DEF Frame
<1> QED
  BY <1>2, <1>3 DEF PlaceInv

\* Nothing is below the level of the collector.
LEMMA LowestLevel == Below(0) = {} /\ AtMost(0) \subseteq {0}
<1>1. \A k \in Levels : k \in 0 .. 3
  BY LevelsAssumption
<1>2. \A k \in Levels : ~(k < 0) /\ (k <= 0 => k = 0)
  BY <1>1
<1> QED
  BY <1>2 DEF Below, AtMost

\* Every step keeps StackInv.
LEMMA StackStep ==
  ASSUME TypeOK, StackInv, CallInv, [Next]_vars
  PROVE  StackInv' /\ stack' \in [Procs -> Seq(Frame)]
<1>1. StackTypes /\ CallTypes /\ calls \in Nat
  BY Types
<1>2. CASE UNCHANGED <<stack, level, calls>>
  <2>1. Extends
    BY <1>1, <1>2 DEF Extends
  <2>2. \A q \in Procs : Depth(q)' > 0 /\ \A d \in 1 .. Depth(q)' : PlaceInv(q, d)'
    BY <1>1, <1>2, <2>1, OthersStay DEF StackTypes
  <2> QED
    BY <1>1, <1>2, <2>2 DEF StackTypes, StackInv
<1>3. ASSUME NEW p \in Procs, Proceed(p), ~Fetch(p)
      PROVE  StackInv' /\ stack' \in [Procs -> Seq(Frame)]
  <2>1. stack' \in [Procs -> Seq(Frame)]
    BY <1>3, Actions
  <2>2. /\ calls' = calls /\ level' = level
    BY <1>3 DEF Proceed, Lock, SpinInterrupted, LockedInterrupted, StoreHandler,
                TestTrue, TestFalse, Signal, Acknowledged, Unlock, Meet, Return,
                Arrive, BackOut, Pass, TakeInterrupt
  <2>3. Extends
    BY <1>1, <2>2 DEF Extends
  <2>4. ASSUME NEW label \in Labels, Replaced(p, label),
               Top(p).at \notin {"program", "fetch"},
               label \notin {"program", "fetch"},
               label \in Asking => Top(p).at \in Asking,
               label \in {"await", "waiting"} => Top(p).level \in Rendezvous
        PROVE  StackInv'
    <3>1. Top(p) \in Frame
      BY Tops
    <3>2. LET f == With(Top(p), label) IN
          /\ f.at = label /\ f.level = Top(p).level /\ f.enb = Top(p).enb
          /\ f.call \in 1 .. calls /\ level[f.call] = f.level
      BY <2>4, <3>1, Frames, Tops
    <3> QED
      BY <1>1, <2>1, <2>2, <2>4, <3>2, ReplaceKeepsPlaces DEF Replaced
  <2>5. CASE Lock(p)
    <3>1. Replaced(p, "locked")
      BY <2>5, Actions
    <3>2. Top(p).at = "lock"
      BY <2>5 DEF Lock, Step, At
    <3> QED
      BY <2>1, <2>4, <3>1, <3>2 DEF Asking, Owning, Labels
  <2>6. CASE StoreHandler(p)
    <3>1. Replaced(p, "test")
      BY <2>6, Actions
    <3>2. Top(p).at = "locked"
      BY <2>6 DEF StoreHandler, Step, At
    <3> QED
      BY <2>1, <2>4, <3>1, <3>2 DEF Asking, Owning, Labels
  <2>7. CASE TestTrue(p)
    <3>1. Replaced(p, "signal")
      BY <2>7, Actions
    <3>2. Top(p).at = "test"
      BY <2>7 DEF TestTrue, Step, At
    <3> QED
      BY <2>1, <2>4, <3>1, <3>2 DEF Asking, Owning, Labels
  <2>8. CASE Signal(p)
    <3>1. Replaced(p, "acks")
      BY <2>8, Actions
    <3>2. Top(p).at = "signal"
      BY <2>8 DEF Signal, Step, At
    <3> QED
      BY <2>1, <2>4, <3>1, <3>2 DEF Asking, Owning, Labels
  <2>9. CASE Acknowledged(p)
    <3>1. Replaced(p, "unlock")
      BY <2>9, Actions
    <3>2. Top(p).at = "acks"
      BY <2>9 DEF Acknowledged, Step, At
    <3> QED
      BY <2>1, <2>4, <3>1, <3>2 DEF Asking, Owning, Labels
  <2>10. CASE Unlock(p)
    <3>1. Replaced(p, "called")
      BY <2>10, Actions
    <3>2. Top(p).at = "unlock"
      BY <2>10 DEF Unlock, Step, At
    <3> QED
      BY <2>1, <2>4, <3>1, <3>2 DEF Asking, Owning, Labels
  <2>11. CASE Meet(p)
    <3>1. Replaced(p, "await")
      BY <2>11, Actions
    <3>2. Top(p).at \in {"called", "work"} /\ Top(p).level \in Rendezvous
      BY <2>11 DEF Meet, Meets
    <3> QED
      BY <2>1, <2>4, <3>1, <3>2 DEF Asking, Owning, Labels
  <2>12. CASE Arrive(p)
    <3>1. Top(p).level \in Rendezvous /\ Top(p).at = "await"
      BY <2>12, Tops DEF Arrive, Step, At, PlaceInv
    <3>2. Replaced(p, "waiting")
      BY <2>12, Actions
    <3> QED
      BY <2>1, <2>4, <3>1, <3>2 DEF Asking, Owning, Labels
  <2>13. CASE TestFalse(p) \/ Return(p) \/ Pass(p)
    <3>1. Top(p).at # "program"
      BY <2>13 DEF TestFalse, Return, Pass, At
    <3>2. Pops(p)
      BY <2>13, Actions
    <3> QED
      BY <1>1, <2>1, <2>2, <3>1, <3>2, PopKeepsPlaces
  <2>14. ASSUME NEW g, NEW mask, Interrupted(p, g, mask),
                g.call = Top(p).call, g.level = Top(p).level, g.enb = Top(p).enb,
                g.at \in Resting,
                \/ g = Top(p) \/ (Top(p).at = "locked" /\ g.at = "lock")
                \/ (Top(p).at = "waiting" /\ g.at = "await"),
                g.level = 0 => g.at = "lock" /\ mask \subseteq {0}
         PROVE  StackInv'
    <3>1. PICK l \in Levels : l \in mask /\ Covers(p, g, Handling(l))
      BY <2>14 DEF Interrupted
    <3>2. Top(p) \in Frame
      BY Tops
    <3>3. /\ Handling(l).at = "fetch" /\ Handling(l).call = NoCall
          /\ Handling(l).level = l /\ Handling(l).enb = Below(l)
      BY <3>2, Frames
    <3>4. l = 0 => Below(l) = {}
      BY LowestLevel
    <3>5. g.level = 0 => g.at = "lock" /\ l = 0
      BY <2>1, <2>14, <3>1
    <3> QED
      BY <1>1, <2>1, <2>3, <2>14, <3>1, <3>3, <3>4, <3>5, CoverKeepsPlaces
  <2>15. CASE TakeInterrupt(p)
    <3>1. Interrupted(p, Top(p), Top(p).enb) /\ Top(p).at \in Resting
      BY <2>15, Actions DEF TakeInterrupt, Resting
    \* the collector has no interrupt enabled, nor has it a test
    <3>2. Top(p).enb # {} /\ Top(p).level # 0
      BY <3>1, Tops DEF Interrupted
    <3> QED
      BY <2>1, <2>14, <3>1, <3>2
  <2>16. CASE SpinInterrupted(p)
    <3>1. /\ Interrupted(p, Top(p), AtMost(Top(p).level)) /\ Top(p).at \in Resting
          /\ Top(p).at = "lock"
      BY <2>16, Actions DEF SpinInterrupted, Resting, At
    <3>2. Top(p).level = 0 => AtMost(Top(p).level) \subseteq {0}
      BY LowestLevel
    <3> QED
      BY <2>1, <2>14, <3>1, <3>2
  <2>17. CASE LockedInterrupted(p)
    <3>1. /\ Interrupted(p, With(Top(p), "lock"), AtMost(Top(p).level))
          /\ Top(p).at = "locked"
      BY <2>17, Actions DEF LockedInterrupted, At
    <3>2. Top(p).level = 0 => AtMost(Top(p).level) \subseteq {0}
      BY LowestLevel
    <3>3. LET g == With(Top(p), "lock") IN
          /\ g.call = Top(p).call /\ g.level = Top(p).level /\ g.enb = Top(p).enb
          /\ g.at = "lock" /\ g.at \in Resting
      BY Tops, Frames DEF Labels, Resting
    <3> QED
      BY <2>1, <2>14, <3>1, <3>2, <3>3
  <2>18. CASE BackOut(p)
    <3>1. Interrupted(p, With(Top(p), "await"), Top(p).enb) /\ Top(p).at = "waiting"
      BY <2>18, Actions DEF BackOut, At
    <3>2. Top(p).enb # {} /\ Top(p).level # 0
      BY <3>1, Tops DEF Interrupted
    <3>3. LET g == With(Top(p), "await") IN
          /\ g.call = Top(p).call /\ g.level = Top(p).level /\ g.enb = Top(p).enb
          /\ g.at = "await" /\ g.at \in Resting
      BY Tops, Frames DEF Labels, Resting
    <3> QED
      BY <2>1, <2>14, <3>1, <3>2, <3>3
  <2> QED
    BY <1>3, <2>1, <2>5, <2>6, <2>7, <2>8, <2>9, <2>10, <2>11, <2>12, <2>13, <2>15,
       <2>16, <2>17, <2>18 DEF Proceed
<1>4. ASSUME NEW p \in Procs, Fetch(p)
      PROVE  StackInv' /\ stack' \in [Procs -> Seq(Frame)]
  <2>1. /\ Replaces(p, Working(Top(p))) /\ Working(Top(p)) \in Frame
        /\ handlers[Top(p).level] \in 1 .. calls
        /\ level[handlers[Top(p).level]] = Top(p).level
        /\ stack' \in [Procs -> Seq(Frame)]
    BY <1>4, CallsAndFetches
  <2>2. LET f == Working(Top(p)) IN
        /\ f.at = "work" /\ f.call = handlers[Top(p).level]
        /\ f.level = Top(p).level /\ f.enb = Top(p).enb
    BY Tops DEF Working, Frame
  <2>3. calls' = calls /\ level' = level /\ Top(p).at = "fetch"
    BY <1>4 DEF Fetch, At
  <2>4. "work" \notin Asking
    BY DEF Asking, Owning
  <2> QED
    BY <1>1, <2>1, <2>2, <2>3, <2>4, ReplaceKeepsPlaces
<1>5. ASSUME NEW p \in Procs, NEW l \in Levels, Call(p, l)
      PROVE  StackInv' /\ stack' \in [Procs -> Seq(Frame)]
  <2>1. /\ Covers(p, Top(p), Calling(p, l)) /\ Calling(p, l) \in Frame
        /\ stack' \in [Procs -> Seq(Frame)]
    BY <1>5, CallsAndFetches
  <2>2. /\ calls' = calls + 1 /\ level' = [level EXCEPT ![calls + 1] = l]
        /\ calls + 1 \in Calls
        /\ IF l = 0 THEN Top(p).at \in Allocates /\ 0 \in Top(p).enb
           ELSE Top(p).at = "program"
    BY <1>1, <1>5, BoundsAssumption DEF Call, At, CallTypes, Calls
  <2>3. Extends /\ level'[calls + 1] = l
    BY <1>1, <2>2, BoundsAssumption DEF Extends, CallTypes
  <2>4. Top(p).level # 0 /\ Top(p).at \in Resting
    <3>1. /\ 0 \notin {} /\ Allocates \subseteq {"program", "called", "work", "test"}
          /\ Program.level # 0
      BY LevelsAssumption DEF Program
    <3>2. /\ Top(p).at = "program" => Top(p) = Program
          /\ Top(p).level = 0 => Top(p).enb = {}
      BY Tops
    <3> QED
      BY <2>2, <3>1, <3>2 DEF Resting
  <2>5. /\ Calling(p, l).at = "lock" /\ Calling(p, l).call = calls + 1
        /\ Calling(p, l).level = l /\ (l = 0 => Calling(p, l).enb = {})
        /\ calls + 1 \in 1 .. calls'
    BY <1>1, <2>2 DEF Calling
  <2> QED
    BY <1>1, <2>1, <2>2, <2>3, <2>4, <2>5, CoverKeepsPlaces
<1>6. ASSUME NEW p \in Procs, Deliver(p)
      PROVE  UNCHANGED <<stack, level, calls>>
  BY <1>6 DEF Deliver
<1> QED
  BY <1>2, <1>3, <1>4, <1>5, <1>6 DEF Next, vars

-----------------------------------------------------------------------------
(* The places after a step *)

\* All places after the top of p has been replaced.
LEMMA Replacing ==
  ASSUME StackTypes, StackTypes', NEW p \in Procs, NEW f, Replaces(p, f),
         NEW q \in Procs
  PROVE  /\ Depth(q)' = Depth(q) /\ Depth(q) \in Nat \ {0}
         /\ \A d \in 1 .. Depth(q) :
               Doing(q, d)' = IF q = p /\ d = Depth(p) THEN f ELSE Doing(q, d)
         /\ Top(q)' = IF q = p THEN f ELSE Top(q)
<1>1. Depth(p) \in Nat \ {0} /\ Depth(q) \in Nat \ {0}
  BY TopIs
<1>2. CASE q # p
  BY <1>1, <1>2 DEF Replaces, Stays, Depth, Top, Doing
<1>3. CASE q = p
  <2>1. Depth(p)' = Depth(p) /\ Top(p)' = f
        /\ \A d \in 1 .. Depth(p) - 1 : Doing(p, d)' = Doing(p, d)
    BY DEF Replaces, Stays
  <2>2. \A d : d = Depth(p) => Doing(p, d)' = f
    BY <1>1, <2>1, TopIs DEF Top, Doing, Depth
  <2>3. \A d \in 1 .. Depth(p) : d = Depth(p) \/ d \in 1 .. Depth(p) - 1
    BY <1>1
  <2>4. \A d \in 1 .. Depth(p) - 1 : d # Depth(p)
    BY <1>1
  <2> QED
    BY <1>1, <1>3, <2>1, <2>2, <2>3, <2>4
<1> QED
  BY <1>2, <1>3

\* All places after f has been pushed upon g.
LEMMA Covering ==
  ASSUME StackTypes, StackTypes', NEW p \in Procs, NEW f, NEW g, Covers(p, g, f),
         NEW q \in Procs
  PROVE  /\ Depth(q)' = IF q = p THEN Depth(p) + 1 ELSE Depth(q)
         /\ Depth(q) \in Nat \ {0}
         /\ \A d \in 1 .. Depth(q) :
               Doing(q, d)' = IF q = p /\ d = Depth(p) THEN g ELSE Doing(q, d)
         /\ \A d : q = p /\ d = Depth(p) + 1 => Doing(q, d)' = f
         /\ Top(q)' = IF q = p THEN f ELSE Top(q)
<1>1. Depth(p) \in Nat \ {0} /\ Depth(q) \in Nat \ {0}
  BY TopIs
<1>2. CASE q # p
  BY <1>1, <1>2 DEF Covers, Stays, Depth, Top, Doing
<1>3. CASE q = p
  <2>1. /\ Depth(p)' = Depth(p) + 1 /\ Top(p)' = f
        /\ \A d \in 1 .. Depth(p) - 1 : Doing(p, d)' = Doing(p, d)
        /\ \A d : d = Depth(p) => Doing(p, d)' = g
    BY DEF Covers, Stays
  <2>2. \A d : d = Depth(p) + 1 => Doing(p, d)' = f
    BY <1>1, <2>1, TopIs DEF Top, Doing, Depth
  <2>3. \A d \in 1 .. Depth(p) : d = Depth(p) \/ d \in 1 .. Depth(p) - 1
    BY <1>1
  <2>4. \A d \in 1 .. Depth(p) - 1 : d # Depth(p)
    BY <1>1
  <2> QED
    BY <1>1, <1>3, <2>1, <2>2, <2>3, <2>4
<1> QED
  BY <1>2, <1>3

\* All places after the top of p has been popped.
LEMMA Popping ==
  ASSUME StackTypes, NEW p \in Procs, Pops(p), NEW q \in Procs
  PROVE  /\ Depth(q)' = IF q = p THEN Depth(p) - 1 ELSE Depth(q)
         /\ Depth(q) \in Nat \ {0}
         /\ \A d \in 1 .. Depth(q)' :
               d \in 1 .. Depth(q) /\ Doing(q, d)' = Doing(q, d)
         /\ q # p => Top(q)' = Top(q)
<1>1. Depth(p) \in Nat \ {0} /\ Depth(q) \in Nat \ {0}
  BY TopIs
<1>2. CASE q # p
  BY <1>1, <1>2 DEF Pops, Stays, Depth, Top, Doing
<1>3. CASE q = p
  BY <1>1, <1>3 DEF Pops, Stays
<1> QED
  BY <1>2, <1>3

-----------------------------------------------------------------------------
(* Global_Int_Lock has one owner *)

Held(q, d) == d \in 1 .. Depth(q) /\ Owns(q, d)

\* Who has the lock when a top is replaced.
LEMMA HeldReplaced ==
  ASSUME StackTypes, StackTypes', NEW p \in Procs, NEW f, Replaces(p, f),
         NEW q \in Procs, NEW d
  PROVE  Held(q, d)' <=> IF q = p /\ d = Depth(p) THEN f.at \in Owning ELSE Held(q, d)
<1>1. /\ Depth(q)' = Depth(q) /\ Depth(q) \in Nat \ {0}
      /\ d \in 1 .. Depth(q) =>
            Doing(q, d)' = IF q = p /\ d = Depth(p) THEN f ELSE Doing(q, d)
  BY Replacing
<1> QED
  BY <1>1 DEF Held, Owns

\* Who has it when something is pushed that has it not.
LEMMA HeldCovered ==
  ASSUME StackTypes, StackTypes', NEW p \in Procs, NEW f, NEW g, Covers(p, g, f),
         f.at \notin Owning, NEW q \in Procs, NEW d
  PROVE  Held(q, d)' <=> IF q = p /\ d = Depth(p) THEN g.at \in Owning ELSE Held(q, d)
<1>1. /\ Depth(q)' = IF q = p THEN Depth(p) + 1 ELSE Depth(q)
      /\ Depth(q) \in Nat \ {0}
      /\ d \in 1 .. Depth(q) =>
            Doing(q, d)' = IF q = p /\ d = Depth(p) THEN g ELSE Doing(q, d)
      /\ q = p /\ d = Depth(p) + 1 => Doing(q, d)' = f
  BY Covering
<1> QED
  BY <1>1 DEF Held, Owns

\* Who has it when a top is popped.
LEMMA HeldPopped ==
  ASSUME StackTypes, NEW p \in Procs, Pops(p), NEW q \in Procs, NEW d
  PROVE  Held(q, d)' <=> Held(q, d) /\ ~(q = p /\ d = Depth(p))
<1>1. /\ Depth(q)' = IF q = p THEN Depth(p) - 1 ELSE Depth(q)
      /\ Depth(q) \in Nat \ {0}
      /\ d \in 1 .. Depth(q)' => Doing(q, d)' = Doing(q, d)
  BY Popping
<1> QED
  BY <1>1 DEF Held, Owns

Single == /\ intLock <=> \E q \in Procs : \E d : Held(q, d)
          /\ \A q, r \in Procs : \A d, e : Held(q, d) /\ Held(r, e) => q = r /\ d = e

\* LockInv, said of Held.
LEMMA LockIsHeld == LockInv <=> Single
  BY DEF LockInv, Single, Held

\* Every step keeps LockInv.
LEMMA LockStep ==
  ASSUME TypeOK, StackInv, CallInv, LockInv, StackInv',
         stack' \in [Procs -> Seq(Frame)], [Next]_vars
  PROVE  LockInv'
<1>1. StackTypes /\ StackTypes'
  BY Types DEF StackTypes, StackInv
<1>2. Single
  BY LockIsHeld
<1>3. SUFFICES Single'
  BY LockIsHeld, PTL
<1>4. ASSUME intLock' = intLock,
             \A q \in Procs : \A d : Held(q, d)' <=> Held(q, d)
      PROVE  Single'
  BY <1>2, <1>4 DEF Single
<1>5. ASSUME UNCHANGED <<stack, intLock>>
      PROVE  Single'
  <2>1. \A q \in Procs : \A d : Held(q, d)' <=> Held(q, d)
    BY <1>5 DEF Held, Owns, Doing, Depth
  <2> QED
    BY <1>4, <1>5, <2>1
<1>6. ASSUME NEW p \in Procs
      PROVE  /\ Depth(p) \in Nat \ {0}
             /\ Held(p, Depth(p)) <=> Top(p).at \in Owning
             /\ Top(p) \in Frame
  BY <1>1, TopIs DEF Held, Owns
<1>7. ASSUME NEW p \in Procs, NEW label \in Labels, Replaced(p, label)
      PROVE  \A q \in Procs : \A d : Held(q, d)' <=>
                IF q = p /\ d = Depth(p) THEN label \in Owning ELSE Held(q, d)
  <2>1. With(Top(p), label).at = label
    BY <1>6, Frames
  <2> QED
    BY <1>1, <1>7, <2>1, HeldReplaced DEF Replaced
<1>8. ASSUME NEW p \in Procs, NEW g, NEW mask, Interrupted(p, g, mask)
      PROVE  \A q \in Procs : \A d : Held(q, d)' <=>
                IF q = p /\ d = Depth(p) THEN g.at \in Owning ELSE Held(q, d)
  <2>1. PICK l \in Levels : Covers(p, g, Handling(l))
    BY <1>8 DEF Interrupted
  <2>2. Handling(l).at = "fetch"
    BY <1>6, Frames
  <2> QED
    BY <1>1, <2>1, <2>2, HeldCovered DEF Owning
<1>9. ASSUME NEW p \in Procs, Proceed(p), ~Fetch(p)
      PROVE  Single'
  <2>1. CASE Lock(p)
    <3>1. Replaced(p, "locked") /\ ~intLock /\ intLock'
      BY <2>1, Actions DEF Lock
    <3>2. \A q \in Procs : \A d : Held(q, d)' <=> q = p /\ d = Depth(p)
      BY <1>2, <1>7, <3>1 DEF Single, Owning, Labels
    <3>3. \E d : Held(p, d)'
      BY <3>2
    <3> QED
      BY <3>1, <3>2, <3>3 DEF Single
  <2>2. ASSUME NEW label \in Labels, Replaced(p, label), intLock' = intLock,
               label \in Owning <=> Top(p).at \in Owning
        PROVE  Single'
    BY <1>4, <1>6, <1>7, <2>2
  <2>3. ASSUME NEW g, NEW mask, Interrupted(p, g, mask), intLock' = intLock,
               g.at \in Owning <=> Top(p).at \in Owning
        PROVE  Single'
    BY <1>4, <1>6, <1>8, <2>3
  <2>4. ASSUME ~intLock', Top(p).at \in Owning,
               \A q \in Procs : \A d :
                  Held(q, d)' <=> Held(q, d) /\ ~(q = p /\ d = Depth(p))
        PROVE  Single'
    BY <1>2, <1>6, <2>4 DEF Single
  <2>5. CASE StoreHandler(p)
    <3>1. Replaced(p, "test")
      BY <2>5, Actions
    <3>2. Top(p).at = "locked" /\ intLock' = intLock
      BY <2>5 DEF StoreHandler, Step, At
    <3> QED
      BY <2>2, <3>1, <3>2 DEF Owning, Labels
  <2>6. CASE TestTrue(p)
    <3>1. Replaced(p, "signal")
      BY <2>6, Actions
    <3>2. Top(p).at = "test" /\ intLock' = intLock
      BY <2>6 DEF TestTrue, Step, At, send
    <3> QED
      BY <2>2, <3>1, <3>2 DEF Owning, Labels
  <2>7. CASE Signal(p)
    <3>1. Replaced(p, "acks")
      BY <2>7, Actions
    <3>2. Top(p).at = "signal" /\ intLock' = intLock
      BY <2>7 DEF Signal, Step, At
    <3> QED
      BY <2>2, <3>1, <3>2 DEF Owning, Labels
  <2>8. CASE Acknowledged(p)
    <3>1. Replaced(p, "unlock")
      BY <2>8, Actions
    <3>2. Top(p).at = "acks" /\ intLock' = intLock
      BY <2>8 DEF Acknowledged, Step, At
    <3> QED
      BY <2>2, <3>1, <3>2 DEF Owning, Labels
  <2>9. CASE Meet(p)
    <3>1. Replaced(p, "await")
      BY <2>9, Actions
    <3>2. Top(p).at \in {"called", "work"} /\ intLock' = intLock
      BY <2>9 DEF Meet, send
    <3> QED
      BY <2>2, <3>1, <3>2 DEF Owning, Labels
  <2>10. CASE Arrive(p)
    <3>1. Replaced(p, "waiting")
      BY <2>10, Actions
    <3>2. Top(p).at = "await" /\ intLock' = intLock
      BY <2>10 DEF Arrive, Step, At, send
    <3> QED
      BY <2>2, <3>1, <3>2 DEF Owning, Labels
  <2>11. CASE Unlock(p)
    <3>1. Replaced(p, "called")
      BY <2>11, Actions
    <3>2. Top(p).at = "unlock" /\ ~intLock'
      BY <2>11 DEF Unlock, Step, At
    <3> QED
      BY <1>7, <2>4, <3>1, <3>2 DEF Owning, Labels
  <2>12. CASE LockedInterrupted(p)
    <3>1. Interrupted(p, With(Top(p), "lock"), AtMost(Top(p).level))
      BY <2>12, Actions
    <3>2. /\ Top(p).at = "locked" /\ ~intLock'
          /\ With(Top(p), "lock").at = "lock"
      BY <1>6, <2>12, Frames DEF LockedInterrupted, At, Labels
    <3> QED
      BY <1>8, <2>4, <3>1, <3>2 DEF Owning
  <2>13. CASE TestFalse(p)
    <3>1. Pops(p)
      BY <2>13, Actions
    <3>2. Top(p).at = "test" /\ ~intLock'
      BY <2>13 DEF TestFalse, At
    <3>3. \A q \in Procs : \A d :
             Held(q, d)' <=> Held(q, d) /\ ~(q = p /\ d = Depth(p))
      BY <1>1, <3>1, HeldPopped
    <3> QED
      BY <2>4, <3>2, <3>3 DEF Owning
  <2>14. CASE Return(p) \/ Pass(p)
    <3>1. Pops(p)
      BY <2>14, Actions
    <3>2. Top(p).at \notin Owning /\ intLock' = intLock
      BY <2>14 DEF Return, Pass, At, Owning, send
    <3>3. \A q \in Procs : \A d :
             Held(q, d)' <=> Held(q, d) /\ ~(q = p /\ d = Depth(p))
      BY <1>1, <3>1, HeldPopped
    <3>4. ~Held(p, Depth(p))
      BY <1>6, <3>2
    <3> QED
      BY <1>4, <3>2, <3>3, <3>4
  <2>15. CASE TakeInterrupt(p) \/ SpinInterrupted(p)
    <3>1. \E mask : Interrupted(p, Top(p), mask)
      BY <2>15, Actions
    <3>2. intLock' = intLock
      BY <2>15 DEF TakeInterrupt, SpinInterrupted, send
    <3> QED
      BY <2>3, <3>1, <3>2
  <2>16. CASE BackOut(p)
    <3>1. Interrupted(p, With(Top(p), "await"), Top(p).enb)
      BY <2>16, Actions
    <3>2. /\ Top(p).at = "waiting" /\ intLock' = intLock
          /\ With(Top(p), "await").at = "await"
      BY <1>6, <2>16, Frames DEF BackOut, At, Labels, send
    <3> QED
      BY <2>3, <3>1, <3>2 DEF Owning
  <2> QED
    BY <1>9, <2>1, <2>5, <2>6, <2>7, <2>8, <2>9, <2>10, <2>11, <2>12, <2>13, <2>14,
       <2>15, <2>16 DEF Proceed
<1>10. ASSUME NEW p \in Procs, Fetch(p)
       PROVE  Single'
  <2>1. Replaces(p, Working(Top(p))) /\ Top(p).at = "fetch" /\ intLock' = intLock
    BY <1>10, CallsAndFetches DEF Fetch, At, send
  <2>2. Working(Top(p)).at = "work"
    BY <1>6 DEF Working, Frame
  <2>3. \A q \in Procs : \A d : Held(q, d)' <=>
           IF q = p /\ d = Depth(p) THEN FALSE ELSE Held(q, d)
    BY <1>1, <2>1, <2>2, HeldReplaced DEF Owning
  <2>4. ~Held(p, Depth(p))
    BY <1>6, <2>1 DEF Owning
  <2> QED
    BY <1>4, <2>1, <2>3, <2>4
<1>11. ASSUME NEW p \in Procs, NEW l \in Levels, Call(p, l)
       PROVE  Single'
  <2>1. Covers(p, Top(p), Calling(p, l)) /\ intLock' = intLock
    BY <1>11, CallsAndFetches DEF Call, send
  <2>2. Calling(p, l).at = "lock"
    BY DEF Calling
  <2>3. \A q \in Procs : \A d : Held(q, d)' <=>
           IF q = p /\ d = Depth(p) THEN Top(p).at \in Owning ELSE Held(q, d)
    BY <1>1, <2>1, <2>2, HeldCovered DEF Owning
  <2> QED
    BY <1>4, <1>6, <2>1, <2>3
<1>12. ASSUME NEW p \in Procs, Deliver(p)
       PROVE  Single'
  BY <1>5, <1>12 DEF Deliver
<1> QED
  BY <1>5, <1>9, <1>10, <1>11, <1>12 DEF Next, vars, send

-----------------------------------------------------------------------------
(* The acknowledgements are counted *)

\* Whoever has the lock, and whoever waits for acknowledgements, is the same.
LEMMA OneOwner ==
  ASSUME TypeOK, StackInv, LockInv, NEW p \in Procs, Top(p).at \in Owning,
         NEW q \in Procs, NEW d \in 1 .. Depth(q), Doing(q, d).at \in Owning
  PROVE  q = p /\ d = Depth(p)
<1>1. Depth(p) \in 1 .. Depth(p) /\ Doing(p, Depth(p)).at \in Owning
  BY Tops
<1> QED
  BY <1>1 DEF LockInv, Owns

\* While somebody owns the lock nobody else waits for acknowledgements.
LEMMA OneWaits ==
  ASSUME TypeOK, StackInv, LockInv, NEW p \in Procs, Top(p).at \in Owning,
         NEW q \in Procs, At(q, "acks")
  PROVE  q = p /\ Top(p).at = "acks"
<1>1. /\ Depth(q) \in 1 .. Depth(q) /\ Doing(q, Depth(q)).at \in Owning
      /\ Doing(q, Depth(q)).at = "acks" /\ Top(p) = Doing(p, Depth(p))
  BY Tops DEF At, Owning
<1> QED
  BY <1>1, OneOwner

\* What comes up when the top is popped.
LEMMA Popped ==
  ASSUME TypeOK, StackInv, StackTypes', NEW p \in Procs, Pops(p),
         Top(p).at # "program"
  PROVE  /\ Top(p)'.at \in Resting /\ Depth(p) > 1
         /\ Top(p)' = Doing(p, Depth(p) - 1)
<1>1. Depth(p) \in Nat \ {0} /\ Depth(p) > 1 /\ StackTypes
  BY Tops, Types
<1>2. /\ Depth(p)' = Depth(p) - 1
      /\ \A d \in 1 .. Depth(p) - 1 : Doing(p, d)' = Doing(p, d)
  BY DEF Pops, Stays
<1>3. Depth(p) - 1 \in 1 .. Depth(p) - 1 /\ Depth(p) - 1 < Depth(p)
      /\ Depth(p) - 1 \in 1 .. Depth(p)
  BY <1>1
<1>4. \A d : d = Depth(p)' => Top(p)' = Doing(p, d)'
  BY <1>1, <1>2, TopIs DEF Top, Doing, Depth
<1>5. Top(p)' = Doing(p, Depth(p) - 1)
  BY <1>2, <1>3, <1>4
<1>6. PlaceInv(p, Depth(p) - 1)
  BY <1>3 DEF StackInv
<1> QED
  BY <1>1, <1>3, <1>5, <1>6 DEF PlaceInv

Missing == {q \in Procs : signal[q]}

\* The processors that have not acknowledged can be counted.
LEMMA MissingIsFinite == /\ IsFiniteSet(Missing) /\ Cardinality(Missing) \in Nat
                         /\ IsFiniteSet(Missing') /\ Cardinality(Missing') \in Nat
<1>1. IsFiniteSet(Procs) /\ Missing \subseteq Procs /\ Missing' \subseteq Procs
  BY ProcsAssumption DEF Missing
<1> QED
  BY <1>1, FS_Subset, FS_CardinalityType

Counted == /\ sigLock = IF \E p \in Procs : At(p, "acks")
                        THEN 1 + Cardinality(Missing) ELSE 0
           /\ Missing # {} => \E p \in Procs : At(p, "acks") /\ Top(p).level = sigData
           /\ \A p \in Procs : At(p, "acks") => ~signal[p] /\ sigData = Top(p).level

\* AcksInv, said of Missing.
LEMMA AcksAre == AcksInv <=> Counted
  BY DEF AcksInv, Counted, AcksAreCounted, Missing, Count

\* Nobody has a signal on its way unless somebody waits for it.
LEMMA NoSignals ==
  ASSUME AcksInv, \A q \in Procs : ~At(q, "acks")
  PROVE  /\ Missing = {} /\ sigLock = 0 /\ \A q \in Procs : ~signal[q]
<1>1. Counted
  BY AcksAre
<1> QED
  BY <1>1 DEF Counted, Missing

\* Every step keeps AcksInv.
LEMMA AcksStep ==
  ASSUME TypeOK, StackInv, CallInv, LockInv, AcksInv, StackInv',
         stack' \in [Procs -> Seq(Frame)], [Next]_vars
  PROVE  AcksInv'
<1>1. StackTypes /\ StackTypes' /\ CallTypes
  BY Types DEF StackTypes, StackInv
<1>2. Counted
  BY AcksAre
<1>3. SUFFICES Counted'
  BY AcksAre, PTL
<1>4. ASSUME UNCHANGED <<sigLock, sigData, signal>>,
             \A q \in Procs : /\ At(q, "acks")' <=> At(q, "acks")
                              /\ At(q, "acks") => Top(q)' = Top(q)
      PROVE  Counted'
  <2>1. Missing' = Missing
    BY <1>4 DEF Missing
  <2> QED
    BY <1>2, <1>4, <2>1 DEF Counted
<1>5. CASE UNCHANGED <<stack, sigLock, sigData, signal>>
  <2>1. \A q \in Procs : Top(q)' = Top(q)
    BY <1>5 DEF Top
  <2> QED
    BY <1>4, <1>5, <2>1 DEF At
\* The tops do not come to "acks" or from it.
<1>6. ASSUME NEW p \in Procs, Top(p).at # "acks", Top(p)'.at # "acks",
             \A q \in Procs \ {p} : Top(q)' = Top(q),
             UNCHANGED <<sigLock, sigData, signal>>
      PROVE  Counted'
  BY <1>4, <1>6 DEF At
<1>7. ASSUME NEW p \in Procs, NEW label \in Labels, Replaced(p, label)
      PROVE  /\ \A q \in Procs \ {p} : Top(q)' = Top(q)
             /\ Top(p)' = With(Top(p), label) /\ Top(p)'.at = label
             /\ Top(p)'.level = Top(p).level
  <2>1. With(Top(p), label).at = label /\ With(Top(p), label).level = Top(p).level
    BY Tops, Frames
  <2> QED
    BY <1>1, <1>7, <2>1, Replacing DEF Replaced
<1>8. ASSUME NEW p \in Procs, NEW g, NEW mask, Interrupted(p, g, mask)
      PROVE  /\ \A q \in Procs \ {p} : Top(q)' = Top(q)
             /\ Top(p)'.at # "acks"
  <2>1. PICK l \in Levels : Covers(p, g, Handling(l))
    BY <1>8 DEF Interrupted
  <2>2. Handling(l).at = "fetch"
    BY Tops, Frames
  <2> QED
    BY <1>1, <2>1, <2>2, Covering
<1>9. ASSUME NEW p \in Procs, Proceed(p), ~Fetch(p)
      PROVE  Counted'
  <2>1. ASSUME NEW label \in Labels, Replaced(p, label), label # "acks",
               Top(p).at # "acks", UNCHANGED <<sigLock, sigData, signal>>
        PROVE  Counted'
    BY <1>6, <1>7, <2>1
  <2>2. ASSUME NEW g, NEW mask, Interrupted(p, g, mask), Top(p).at # "acks",
               UNCHANGED <<sigLock, sigData, signal>>
        PROVE  Counted'
    BY <1>6, <1>8, <2>2
  <2>3. CASE Lock(p)
    <3>1. Replaced(p, "locked")
      BY <2>3, Actions
    <3> QED
      BY <2>1, <2>3, <3>1 DEF Lock, Step, At, Labels
  <2>5. CASE StoreHandler(p)
    <3>1. Replaced(p, "test")
      BY <2>5, Actions
    <3> QED
      BY <2>1, <2>5, <3>1 DEF StoreHandler, Step, At, Labels
  <2>6. CASE TestTrue(p)
    <3>1. Replaced(p, "signal")
      BY <2>6, Actions
    <3> QED
      BY <2>1, <2>6, <3>1 DEF TestTrue, Step, At, Labels, send
  <2>7. CASE Signal(p)
    <3>1. /\ \A q \in Procs \ {p} : Top(q)' = Top(q)
          /\ Top(p)'.at = "acks" /\ Top(p)'.level = Top(p).level
      BY <1>7, <2>7, Actions DEF Labels
    <3>2. /\ Top(p).at = "signal" /\ sigLock' = N /\ sigData' = Top(p).level
          /\ signal' = [q \in Procs |-> q # p]
      BY <2>7 DEF Signal, Step, At
    <3>3. \A q \in Procs : ~At(q, "acks")
      BY <3>2, OneWaits DEF Owning
    <3>4. Missing' = Procs \ {p}
      BY <3>2 DEF Missing
    <3>5. N = 1 + Cardinality(Missing')
      <4>1. /\ IsFiniteSet(Procs) /\ Cardinality(Procs) \in Nat
            /\ Cardinality(Procs \ {p}) = Cardinality(Procs) - 1
        BY ProcsAssumption, FS_RemoveElement, FS_CardinalityType
      <4> QED
        BY <3>4, <4>1 DEF N
    <3>6. \A q \in Procs : At(q, "acks")' <=> q = p
      BY <3>1, <3>3 DEF At
    <3> QED
      BY <3>1, <3>2, <3>5, <3>6 DEF Counted
  <2>8. CASE Acknowledged(p)
    <3>1. /\ \A q \in Procs \ {p} : Top(q)' = Top(q)
          /\ Top(p)'.at = "unlock"
      BY <1>7, <2>8, Actions DEF Labels
    <3>2. /\ Top(p).at = "acks" /\ sigLock = 1 /\ sigLock' = 0 /\ signal' = signal
      BY <2>8 DEF Acknowledged, Step, At
    <3>3. \A q \in Procs \ {p} : ~At(q, "acks")
      BY <3>2, OneWaits DEF Owning
    <3>4. Missing' = {}
      <4>1. Missing' = Missing
        BY <3>2 DEF Missing
      <4>2. Cardinality(Missing) = 0
        BY <1>2, <3>2, MissingIsFinite DEF Counted, At
      <4> QED
        BY <4>1, <4>2, MissingIsFinite, FS_EmptySet
    <3>5. \A q \in Procs : ~At(q, "acks")'
      BY <3>1, <3>3 DEF At
    <3> QED
      BY <3>2, <3>4, <3>5 DEF Counted
  <2>9. CASE Meet(p)
    <3>1. Replaced(p, "await")
      BY <2>9, Actions
    <3> QED
      BY <2>1, <2>9, <3>1 DEF Meet, Labels, send
  <2>10. CASE Arrive(p)
    <3>1. Replaced(p, "waiting")
      BY <2>10, Actions
    <3> QED
      BY <2>1, <2>10, <3>1 DEF Arrive, Step, At, Labels, send
  <2>11. CASE Unlock(p)
    <3>1. Replaced(p, "called")
      BY <2>11, Actions
    <3> QED
      BY <2>1, <2>11, <3>1 DEF Unlock, Step, At, Labels
  <2>12. CASE TestFalse(p) \/ Return(p) \/ Pass(p)
    <3>1. /\ Top(p).at \notin {"acks", "program"}
          /\ UNCHANGED <<sigLock, sigData, signal>>
      BY <2>12 DEF TestFalse, Return, Pass, At, send
    <3>2. Pops(p)
      BY <2>12, Actions
    <3>3. /\ \A q \in Procs \ {p} : Top(q)' = Top(q)
          /\ Top(p)'.at \in Resting
      BY <1>1, <3>1, <3>2, Popping, Popped
    <3> QED
      BY <1>6, <3>1, <3>3 DEF Resting
  <2>13. CASE TakeInterrupt(p) \/ SpinInterrupted(p)
    <3>1. \E mask : Interrupted(p, Top(p), mask)
      BY <2>13, Actions
    <3>2. UNCHANGED <<sigLock, sigData, signal>> /\ Top(p).at # "acks"
      BY <2>13 DEF TakeInterrupt, SpinInterrupted, send, At
    <3> QED
      BY <2>2, <3>1, <3>2
  <2>14. CASE LockedInterrupted(p)
    <3>1. Interrupted(p, With(Top(p), "lock"), AtMost(Top(p).level))
      BY <2>14, Actions
    <3> QED
      BY <2>2, <2>14, <3>1 DEF LockedInterrupted, At
  <2>15. CASE BackOut(p)
    <3>1. Interrupted(p, With(Top(p), "await"), Top(p).enb)
      BY <2>15, Actions
    <3> QED
      BY <2>2, <2>15, <3>1 DEF BackOut, At, send
  <2> QED
    BY <1>9, <2>3, <2>5, <2>6, <2>7, <2>8, <2>9, <2>10, <2>11, <2>12, <2>13, <2>14,
       <2>15 DEF Proceed
<1>10. ASSUME NEW p \in Procs, Fetch(p)
       PROVE  Counted'
  <2>1. /\ Replaces(p, Working(Top(p))) /\ Top(p).at = "fetch"
        /\ UNCHANGED <<sigLock, sigData, signal>>
    BY <1>10, CallsAndFetches DEF Fetch, At, send
  <2>2. Working(Top(p)).at = "work"
    BY Tops DEF Working, Frame
  <2>3. /\ \A q \in Procs \ {p} : Top(q)' = Top(q)
        /\ Top(p)'.at = "work"
    BY <1>1, <2>1, <2>2, Replacing
  <2> QED
    BY <1>6, <2>1, <2>3
<1>11. ASSUME NEW p \in Procs, NEW l \in Levels, Call(p, l)
       PROVE  Counted'
  <2>1. /\ Covers(p, Top(p), Calling(p, l)) /\ UNCHANGED <<sigLock, sigData, signal>>
    BY <1>11, CallsAndFetches DEF Call, send
  <2>2. Calling(p, l).at = "lock"
    BY DEF Calling
  <2>3. /\ \A q \in Procs \ {p} : Top(q)' = Top(q)
        /\ Top(p)'.at = "lock"
    BY <1>1, <2>1, <2>2, Covering
  <2>4. Top(p).at # "acks"
    BY <1>11, LevelsAssumption DEF Call, At
  <2> QED
    BY <1>6, <2>1, <2>3, <2>4
<1>12. ASSUME NEW p \in Procs, Deliver(p)
       PROVE  Counted'
  <2>1. /\ stack' = stack /\ signal[p] /\ signal' = [signal EXCEPT ![p] = FALSE]
        /\ sigLock' = sigLock - 1 /\ sigData' = sigData
    BY <1>12 DEF Deliver
  <2>2. \A q \in Procs : Top(q)' = Top(q) /\ (At(q, "acks")' <=> At(q, "acks"))
    BY <2>1 DEF Top, At
  <2>3. p \in Missing /\ Missing' = Missing \ {p}
    BY <1>1, <2>1 DEF Missing, CallTypes
  <2>4. Cardinality(Missing') = Cardinality(Missing) - 1
    BY <2>3, MissingIsFinite, FS_RemoveElement
  <2>5. /\ \E q \in Procs : At(q, "acks") /\ Top(q).level = sigData
        /\ sigLock = 1 + Cardinality(Missing)
    BY <1>2, <2>3 DEF Counted
  <2>6. sigLock' = 1 + Cardinality(Missing')
    BY <2>1, <2>4, <2>5, MissingIsFinite
  <2>7. \A q \in Procs : At(q, "acks") => ~signal'[q] /\ sigData = Top(q).level
    BY <1>1, <1>2, <2>1 DEF Counted, CallTypes
  <2> QED
    BY <2>1, <2>2, <2>5, <2>6, <2>7 DEF Counted
<1> QED
  BY <1>5, <1>9, <1>10, <1>11, <1>12 DEF Next, vars, send

-----------------------------------------------------------------------------
(* The variables keep their types *)

\* Signal_Lock counts some of the processors, and never all of them and itself.
LEMMA LockCounts ==
  AcksInv => sigLock \in 0 .. N
<1> SUFFICES ASSUME AcksInv
             PROVE  sigLock \in 0 .. N
  OBVIOUS
<1>1. Counted /\ IsFiniteSet(Procs) /\ N \in Nat
  BY AcksAre, ProcsAssumption, FS_CardinalityType DEF N
<1>2. CASE \E p \in Procs : At(p, "acks")
  <2>1. PICK p \in Procs : At(p, "acks")
    BY <1>2
  <2>2. Missing \subseteq Procs \ {p}
    BY <1>1, <2>1 DEF Counted, Missing
  <2>3. IsFiniteSet(Procs \ {p}) /\ Cardinality(Procs \ {p}) = N - 1
    BY <1>1, FS_RemoveElement DEF N
  <2>4. Cardinality(Missing) <= N - 1
    BY <2>2, <2>3, FS_Subset
  <2> QED
    BY <1>1, <1>2, <2>4, MissingIsFinite DEF Counted
<1> QED
  BY <1>1, <1>2 DEF Counted

\* Every step keeps the types; AcksInv bounds Signal_Lock.
LEMMA TypeStep ==
  ASSUME TypeOK, StackInv, CallInv, LockInv, AcksInv, AcksInv',
         stack' \in [Procs -> Seq(Frame)], [Next]_vars
  PROVE  TypeOK'
<1>1. sigLock' \in 0 .. N
  <2>1. AcksInv' => (sigLock \in 0 .. N)'
    BY LockCounts, PTL
  <2> QED
    BY <2>1 DEF N
<1>2. /\ calls \in Nat /\ MaxCalls \in Nat
      /\ \A p \in Procs :
            Top(p).at \notin {"program", "fetch"} =>
               Top(p).call \in Calls /\ Top(p).level \in Levels
  <2>1. calls \in Nat /\ MaxCalls \in Nat /\ calls <= MaxCalls
    BY BoundsAssumption DEF TypeOK
  <2>2. \A c \in 1 .. calls : c \in Calls
    BY <2>1 DEF Calls
  <2> QED
    BY <2>1, <2>2, Tops
<1> USE DEF TypeOK
<1>3. CASE UNCHANGED vars
  BY <1>1, <1>3 DEF vars, send, sync
<1>4. ASSUME NEW p \in Procs, Proceed(p), ~Fetch(p)
      PROVE  TypeOK'
  <2>1. CASE Lock(p)
    BY <1>1, <2>1 DEF Lock, sync
  <2>2. CASE SpinInterrupted(p)
    BY <1>1, <2>2 DEF SpinInterrupted, send, sync, Interrupt
  <2>3. CASE LockedInterrupted(p)
    BY <1>1, <2>3 DEF LockedInterrupted, sync, Interrupt
  <2>4. CASE StoreHandler(p)
    <3>1. Top(p).call \in Calls /\ Top(p).level \in Levels
      BY <1>2, <2>4 DEF StoreHandler, Step, At
    <3> QED
      BY <1>1, <2>4, <3>1 DEF StoreHandler, sync
  <2>5. CASE TestTrue(p)
    BY <1>1, <2>5 DEF TestTrue, send, sync
  <2>6. CASE TestFalse(p)
    BY <1>1, <2>6 DEF TestFalse, sync
  <2>7. CASE Signal(p)
    <3>1. Top(p).call \in Calls /\ Top(p).level \in Levels
      BY <1>2, <2>7 DEF Signal, Step, At
    <3> QED
      BY <1>1, <2>7, <3>1 DEF Signal, sync
  <2>8. CASE Acknowledged(p)
    BY <1>1, <2>8 DEF Acknowledged, sync
  <2>9. CASE Unlock(p)
    BY <1>1, <2>9 DEF Unlock, sync
  <2>10. CASE Meet(p)
    BY <1>1, <2>10 DEF Meet, send, sync
  <2>11. CASE Return(p)
    BY <1>1, <2>11 DEF Return, send, sync
  <2>12. CASE Arrive(p)
    <3>1. Top(p).call \in Calls
      BY <1>2, <2>12 DEF Arrive, Step, At
    <3>2. /\ arrived' = [arrived EXCEPT ![Top(p).call] = @ \cup {p}]
          /\ opened' = [opened EXCEPT ![Top(p).call] =
                @ \/ arrived[Top(p).call] \cup {p} = Procs]
      BY <2>12 DEF Arrive
    <3>3. arrived' \in [Calls -> SUBSET Procs]
      BY <3>1, <3>2
    <3>4. opened' \in [Calls -> BOOLEAN]
      BY <3>1, <3>2
    <3> QED
      BY <1>1, <2>12, <3>3, <3>4 DEF Arrive, send
  <2>13. CASE BackOut(p)
    <3>1. arrived' \in [Calls -> SUBSET Procs]
      BY <2>13 DEF BackOut
    <3>2. code' \in [Procs -> SUBSET Levels]
      BY <2>13 DEF BackOut, Interrupt
    <3> QED
      BY <1>1, <2>13, <3>1, <3>2 DEF BackOut, send
  <2>14. CASE Pass(p)
    BY <1>1, <2>14 DEF Pass, send, sync
  <2>15. CASE TakeInterrupt(p)
    BY <1>1, <2>15 DEF TakeInterrupt, send, sync, Interrupt
  <2> QED
    BY <1>4, <2>1, <2>2, <2>3, <2>4, <2>5, <2>6, <2>7, <2>8, <2>9, <2>10, <2>11,
       <2>12, <2>13, <2>14, <2>15 DEF Proceed
<1>5. ASSUME NEW p \in Procs, Fetch(p)
      PROVE  TypeOK'
  <2>1. begun' = [begun EXCEPT ![handlers[Top(p).level]][p] = @ + 1]
    BY <1>5 DEF Fetch
  <2>2. begun' \in [Calls -> [Procs -> Nat]]
    <3> DEFINE c == handlers[Top(p).level]
               b == [begun[c] EXCEPT ![p] = begun[c][p] + 1]
    <3>1. c \in Calls
      BY <1>2, <1>5, CallsAndFetches DEF Calls
    <3>2. begun[c] \in [Procs -> Nat]
      BY <3>1
    <3>3. b \in [Procs -> Nat]
      BY <3>2
    <3>4. begun' = [begun EXCEPT ![c] = b]
      BY <2>1
    <3> HIDE DEF c, b
    <3> QED
      BY <3>1, <3>3, <3>4
  <2> QED
    BY <1>1, <1>5, <2>2 DEF Fetch, send, sync
<1>6. ASSUME NEW p \in Procs, NEW l \in Levels, Call(p, l)
      PROVE  TypeOK'
  <2>1. calls' \in 0 .. MaxCalls /\ level' \in [Calls -> Levels \cup {-1}]
    <3>1. /\ calls < MaxCalls /\ calls' = calls + 1
          /\ level' = [level EXCEPT ![calls + 1] = l]
      BY <1>6 DEF Call
    <3>2. calls + 1 \in 0 .. MaxCalls
      BY <1>2, <3>1
    <3>3. level' \in [Calls -> Levels \cup {-1}]
      BY <3>1
    <3> QED
      BY <3>1, <3>2, <3>3
  <2> QED
    BY <1>1, <1>6, <2>1 DEF Call, send, sync
<1>7. ASSUME NEW p \in Procs, Deliver(p)
      PROVE  TypeOK'
  <2>1. \E q \in Procs : At(q, "acks") /\ Top(q).level = sigData
    <3>1. p \in Missing
      BY <1>7 DEF Deliver, Missing
    <3> QED
      BY <3>1, AcksAre DEF Counted
  <2>2. sigData \in Levels
    <3>1. PICK q \in Procs : Top(q).at = "acks" /\ Top(q).level = sigData
      BY <2>1 DEF At
    <3>2. Top(q).level \in Levels
      BY <1>2, <3>1
    <3> QED
      BY <3>1, <3>2
  <2>3. code' \in [Procs -> SUBSET Levels] /\ signal' \in [Procs -> BOOLEAN]
    BY <1>7, <2>2 DEF Deliver
  <2> QED
    BY <1>1, <1>7, <2>3 DEF Deliver, sync
<1> QED
  BY <1>3, <1>4, <1>5, <1>6, <1>7 DEF Next

-----------------------------------------------------------------------------
(* Requests *)

Plain(p) == \/ Lock(p) \/ StoreHandler(p) \/ TestTrue(p) \/ TestFalse(p)
            \/ Acknowledged(p) \/ Unlock(p) \/ Meet(p) \/ Return(p)
            \/ Arrive(p) \/ Pass(p)
Interrupting(p) == \/ TakeInterrupt(p) \/ SpinInterrupted(p)
                   \/ LockedInterrupted(p) \/ BackOut(p)

\* They leave all requests alone.
SameRequests == /\ UNCHANGED <<signal, sigData, code>>
                /\ \A q \in Procs : \A k : Fetching(q, k)' <=> Fetching(q, k)

\* The plain steps and new calls request nothing.
LEMMA PlainRequests ==
  ASSUME TypeOK, StackInv, StackTypes', NEW p \in Procs,
         Plain(p) \/ \E l \in Levels : Call(p, l) /\ CallInv
  PROVE  SameRequests
<1>1. StackTypes
  BY Types
<1>2. ASSUME Top(p).at # "fetch", Top(p)'.at # "fetch",
             \A q \in Procs \ {p} : Top(q)' = Top(q)
      PROVE  \A q \in Procs : \A k : Fetching(q, k)' <=> Fetching(q, k)
  BY <1>2 DEF Fetching, At
<1>3. ASSUME NEW label \in Labels \ {"fetch"}, Replaced(p, label),
             Top(p).at # "fetch"
      PROVE  \A q \in Procs : \A k : Fetching(q, k)' <=> Fetching(q, k)
  <2>1. With(Top(p), label).at = label
    BY Tops, Frames
  <2>2. Top(p)'.at = label /\ \A q \in Procs \ {p} : Top(q)' = Top(q)
    BY <1>1, <1>3, <2>1, Replacing DEF Replaced
  <2> QED
    BY <1>2, <1>3, <2>2
<1>4. ASSUME Plain(p)
      PROVE  UNCHANGED <<signal, sigData, code>> /\ Top(p).at # "fetch"
  BY <1>4 DEF Plain, Lock, StoreHandler, TestTrue, TestFalse, Acknowledged, Unlock,
              Meet, Return, Arrive, Pass, Step, At, send
<1>5. ASSUME Plain(p)
      PROVE  \A q \in Procs : \A k : Fetching(q, k)' <=> Fetching(q, k)
  <2>1. CASE Lock(p)
    BY <1>3, <1>4, <1>5, <2>1, Actions DEF Labels
  <2>2. CASE StoreHandler(p)
    BY <1>3, <1>4, <1>5, <2>2, Actions DEF Labels
  <2>3. CASE TestTrue(p)
    BY <1>3, <1>4, <1>5, <2>3, Actions DEF Labels
  <2>4. CASE Acknowledged(p)
    BY <1>3, <1>4, <1>5, <2>4, Actions DEF Labels
  <2>5. CASE Unlock(p)
    BY <1>3, <1>4, <1>5, <2>5, Actions DEF Labels
  <2>6. CASE Meet(p)
    BY <1>3, <1>4, <1>5, <2>6, Actions DEF Labels
  <2>7. CASE Arrive(p)
    BY <1>3, <1>4, <1>5, <2>7, Actions DEF Labels
  <2>8. CASE TestFalse(p) \/ Return(p) \/ Pass(p)
    <3>1. Pops(p)
      BY <2>8, Actions
    <3>2. Top(p).at # "program"
      BY <2>8 DEF TestFalse, Return, Pass, At
    <3>3. Top(p)'.at \in Resting /\ \A q \in Procs \ {p} : Top(q)' = Top(q)
      BY <1>1, <3>1, <3>2, Popped, Popping
    <3> QED
      BY <1>2, <1>4, <1>5, <3>3 DEF Resting
  <2> QED
    BY <1>5, <2>1, <2>2, <2>3, <2>4, <2>5, <2>6, <2>7, <2>8 DEF Plain
<1>6. ASSUME NEW l \in Levels, Call(p, l), CallInv
      PROVE  /\ UNCHANGED <<signal, sigData, code>>
             /\ \A q \in Procs : \A k : Fetching(q, k)' <=> Fetching(q, k)
  <2>1. Covers(p, Top(p), Calling(p, l)) /\ UNCHANGED <<signal, sigData, code>>
    BY <1>6, CallsAndFetches DEF Call, send
  <2>2. Calling(p, l).at = "lock"
    BY DEF Calling
  <2>3. Top(p)'.at = "lock" /\ \A q \in Procs \ {p} : Top(q)' = Top(q)
    BY <1>1, <2>1, <2>2, Covering
  <2>4. Top(p).at # "fetch"
    BY <1>6, LevelsAssumption DEF Call, At
  <2> QED
    BY <1>2, <2>1, <2>3, <2>4
<1> QED
  BY <1>4, <1>5, <1>6 DEF SameRequests

\* A bit becomes a handler that is about to be fetched.
Moved(p, l) ==
    /\ UNCHANGED <<signal, sigData>>
    /\ l \in code[p] /\ code' = [code EXCEPT ![p] = @ \ {l}]
    /\ \A k : ~Fetching(p, k)
    /\ \A q \in Procs : \A k :
          Fetching(q, k)' <=> Fetching(q, k) \/ (q = p /\ k = l)

\* An interrupt moves a bit to a handler that is about to be fetched.
LEMMA InterruptRequests ==
  ASSUME TypeOK, StackInv, StackTypes', NEW p \in Procs, Interrupting(p)
  PROVE  \E l \in Levels : Moved(p, l)
<1>1. StackTypes
  BY Types
<1>2. \E g : \E mask : Interrupted(p, g, mask)
  BY Actions DEF Interrupting
<1>3. PICK l \in Levels : /\ l \in code[p] /\ code' = [code EXCEPT ![p] = @ \ {l}]
                          /\ \E g : Covers(p, g, Handling(l))
  BY <1>2 DEF Interrupted
<1>4. Handling(l).at = "fetch" /\ Handling(l).level = l
  BY Tops, Frames
<1>5. Top(p)' = Handling(l) /\ \A q \in Procs \ {p} : Top(q)' = Top(q)
  BY <1>1, <1>3, Covering
<1>6. UNCHANGED <<signal, sigData>> /\ Top(p).at # "fetch"
  BY DEF Interrupting, TakeInterrupt, SpinInterrupted, LockedInterrupted, BackOut,
         send, At
<1>7. \A q \in Procs : \A k :
         Fetching(q, k)' <=> Fetching(q, k) \/ (q = p /\ k = l)
  BY <1>4, <1>5, <1>6 DEF Fetching, At
<1> QED
  BY <1>3, <1>6, <1>7 DEF Moved, Fetching, At

\* The handler is fetched.
LEMMA FetchRequests ==
  ASSUME TypeOK, StackInv, CallInv, StackTypes', NEW p \in Procs, Fetch(p)
  PROVE  /\ UNCHANGED <<signal, sigData, code>>
         /\ Fetching(p, Top(p).level)
         /\ \A q \in Procs : \A k : Fetching(q, k)' <=> Fetching(q, k) /\ q # p
<1>1. StackTypes
  BY Types
<1>2. /\ Replaces(p, Working(Top(p))) /\ Top(p).at = "fetch"
      /\ UNCHANGED <<signal, sigData, code>>
  BY CallsAndFetches DEF Fetch, At, send
<1>3. Working(Top(p)).at = "work"
  BY Tops DEF Working, Frame
<1>4. Top(p)'.at = "work" /\ \A q \in Procs \ {p} : Top(q)' = Top(q)
  BY <1>1, <1>2, <1>3, Replacing
<1> QED
  BY <1>2, <1>4 DEF Fetching, At

\* The signal is sent, or becomes a bit.
LEMMA SignalRequests ==
  ASSUME TypeOK, StackInv, LockInv, AcksInv, StackTypes', NEW p \in Procs, Signal(p)
  PROVE  /\ \A q \in Procs : ~signal[q]
         /\ sigData' = Top(p).level /\ signal' = [q \in Procs |-> q # p]
         /\ UNCHANGED code
         /\ \A q \in Procs : \A k : Fetching(q, k)' <=> Fetching(q, k)
         /\ \A k : ~Fetching(p, k)
<1>1. StackTypes
  BY Types
<1>2. /\ Replaced(p, "acks") /\ Top(p).at = "signal" /\ UNCHANGED code
      /\ sigData' = Top(p).level /\ signal' = [q \in Procs |-> q # p]
  BY Actions DEF Signal, Step, At
<1>3. With(Top(p), "acks").at = "acks"
  BY Tops, Frames DEF Labels
<1>4. Top(p)'.at = "acks" /\ \A q \in Procs \ {p} : Top(q)' = Top(q)
  BY <1>1, <1>2, <1>3, Replacing DEF Replaced
<1>5. \A q \in Procs : ~At(q, "acks")
  BY <1>2, OneWaits DEF Owning
<1>6. \A q \in Procs : ~signal[q]
  BY <1>5, NoSignals
<1> QED
  BY <1>2, <1>4, <1>6 DEF Fetching, At

\* Special_Handler makes the signal a bit.
LEMMA DeliverRequests ==
  ASSUME TypeOK, StackInv, NEW p \in Procs, Deliver(p)
  PROVE  /\ signal[p] /\ sigData' = sigData
         /\ signal' = [signal EXCEPT ![p] = FALSE]
         /\ code' = [code EXCEPT ![p] = @ \cup {sigData}]
         /\ \A q \in Procs : \A k : Fetching(q, k)' <=> Fetching(q, k)
  BY DEF Deliver, Fetching, At, Top

-----------------------------------------------------------------------------
(* Calls and handlers *)

\* Every step keeps CallInv.
LEMMA CallStep ==
  ASSUME TypeOK, StackInv, LockInv, AcksInv, CallInv, StackCalls, StackTypes',
         [Next]_vars
  PROVE  CallInv'
<1>1. CallTypes /\ calls \in Nat
  BY Types
<1>2. /\ sent \subseteq 1 .. calls
      /\ \A c \in Calls : level[c] \in Levels <=> c <= calls
      /\ \A l \in Levels : handlers[l] # NoCall =>
            handlers[l] \in 1 .. calls /\ level[handlers[l]] = l
      /\ \A p \in Procs : \A l \in Levels : Requested(p, l) => handlers[l] # NoCall
  BY DEF CallInv
<1>3. ASSUME NEW p \in Procs, Top(p).at \in {"locked", "test", "signal"}
      PROVE  /\ Top(p).call \in 1 .. calls /\ level[Top(p).call] = Top(p).level
             /\ Top(p).level \in Levels
             /\ Top(p).at = "signal" => handlers[Top(p).level] = Top(p).call
  <2>1. Depth(p) \in 1 .. Depth(p) /\ Top(p) = Doing(p, Depth(p))
    BY Tops
  <2>2. PlaceCalls(p, Depth(p))
    BY <2>1 DEF StackCalls
  <2> QED
    BY <1>3, <2>1, <2>2, Tops DEF PlaceCalls
\* Nothing new is requested.
<1>4. ASSUME UNCHANGED <<handlers, level, sent, calls>>,
             \A q \in Procs : \A k \in Levels : Requested(q, k)' => Requested(q, k)
      PROVE  CallInv'
  BY <1>2, <1>4 DEF CallInv
<1>5. ASSUME SameRequests
      PROVE  \A q \in Procs : \A k : Requested(q, k)' <=> Requested(q, k)
  BY <1>5 DEF SameRequests, Requested, Signalled
<1>6. CASE UNCHANGED vars
  <2>1. SameRequests
    BY <1>6 DEF SameRequests, Fetching, At, Top, vars, send
  <2> QED
    BY <1>4, <1>5, <1>6, <2>1 DEF vars, send
<1>7. ASSUME NEW p \in Procs, Plain(p), ~StoreHandler(p)
      PROVE  CallInv'
  <2>1. UNCHANGED <<handlers, level, sent, calls>>
    BY <1>7 DEF Plain, Lock, TestTrue, TestFalse, Acknowledged, Unlock, Meet, Return,
                Arrive, Pass, send
  <2>2. SameRequests
    BY <1>7, PlainRequests
  <2> QED
    BY <1>4, <1>5, <2>1, <2>2
<1>8. ASSUME NEW p \in Procs, StoreHandler(p)
      PROVE  CallInv'
  <2>1. /\ Top(p).at = "locked" /\ UNCHANGED <<level, sent, calls>>
        /\ handlers' = [handlers EXCEPT ![Top(p).level] = Top(p).call]
    BY <1>8 DEF StoreHandler, Step, At
  <2>2. /\ Top(p).call \in 1 .. calls /\ level[Top(p).call] = Top(p).level
        /\ Top(p).level \in Levels /\ Top(p).call # NoCall
    BY <1>3, <2>1 DEF NoCall
  <2>3. \A l \in Levels :
           handlers'[l] = IF l = Top(p).level THEN Top(p).call ELSE handlers[l]
    BY <1>1, <2>1 DEF CallTypes
  <2>4. \A q \in Procs : \A k : Requested(q, k)' <=> Requested(q, k)
    BY <1>5, <1>8, PlainRequests DEF Plain
  <2> QED
    BY <1>2, <2>1, <2>2, <2>3, <2>4 DEF CallInv
<1>9. ASSUME NEW p \in Procs, Interrupting(p)
      PROVE  CallInv'
  <2>1. UNCHANGED <<handlers, level, sent, calls>>
    BY <1>9 DEF Interrupting, TakeInterrupt, SpinInterrupted, LockedInterrupted,
                BackOut, send
  <2>2. PICK l \in Levels : Moved(p, l)
    BY <1>9, InterruptRequests
  <2>3. \A q \in Procs : \A k \in Levels : Requested(q, k)' => Requested(q, k)
    BY <1>1, <2>2 DEF Moved, Requested, Signalled, CallTypes
  <2> QED
    BY <1>4, <2>1, <2>3
<1>10. ASSUME NEW p \in Procs, Fetch(p)
       PROVE  CallInv'
  <2>1. UNCHANGED <<handlers, level, sent, calls>>
    BY <1>10 DEF Fetch, send
  <2>2. \A q \in Procs : \A k \in Levels : Requested(q, k)' => Requested(q, k)
    BY <1>10, FetchRequests DEF Requested, Signalled
  <2> QED
    BY <1>4, <2>1, <2>2
<1>11. ASSUME NEW p \in Procs, NEW l \in Levels, Call(p, l)
       PROVE  CallInv'
  <2>1. /\ calls < MaxCalls /\ calls' = calls + 1 /\ UNCHANGED <<handlers, sent>>
        /\ level' = [level EXCEPT ![calls + 1] = l]
    BY <1>11 DEF Call, send
  <2>2. \A q \in Procs : \A k : Requested(q, k)' <=> Requested(q, k)
    BY <1>5, <1>11, PlainRequests
  <2>3. \A c \in Calls : level'[c] = IF c = calls + 1 THEN l ELSE level[c]
    BY <1>1, <2>1 DEF CallTypes
  <2>4. \A c \in Calls : level'[c] \in Levels <=> c <= calls'
    BY <1>1, <1>2, <2>1, <2>3 DEF Calls
  <2>5. \A c \in 1 .. calls : c \in 1 .. calls' /\ level'[c] = level[c]
    BY <1>1, <2>1, <2>3, BoundsAssumption DEF Calls
  <2> QED
    BY <1>2, <2>1, <2>2, <2>4, <2>5 DEF CallInv
<1>12. ASSUME NEW p \in Procs, Signal(p)
       PROVE  CallInv'
  <2>1. /\ Top(p).at = "signal" /\ UNCHANGED <<handlers, level, calls>>
        /\ sent' = sent \cup {Top(p).call}
    BY <1>12 DEF Signal, Step, At
  <2>2. /\ Top(p).call \in 1 .. calls /\ Top(p).level \in Levels
        /\ handlers[Top(p).level] = Top(p).call /\ Top(p).call # NoCall
    BY <1>3, <2>1 DEF NoCall
  <2>3. \A q \in Procs : \A k \in Levels :
           Requested(q, k)' => Requested(q, k) \/ k = Top(p).level
    BY <1>12, SignalRequests DEF Requested, Signalled
  <2> QED
    BY <1>2, <2>1, <2>2, <2>3 DEF CallInv
<1>13. ASSUME NEW p \in Procs, Deliver(p)
       PROVE  CallInv'
  <2>1. UNCHANGED <<handlers, level, sent, calls>>
    BY <1>13 DEF Deliver
  <2>2. \A q \in Procs : \A k \in Levels : Requested(q, k)' => Requested(q, k)
    BY <1>1, <1>13, DeliverRequests DEF Requested, Signalled, CallTypes
  <2> QED
    BY <1>4, <2>1, <2>2
<1>14. \A p \in Procs : Proceed(p) => \/ Plain(p) \/ Interrupting(p) \/ Signal(p)
                                      \/ Fetch(p)
  BY DEF Proceed, Plain, Interrupting
<1> QED
  BY <1>6, <1>7, <1>8, <1>9, <1>10, <1>11, <1>12, <1>13, <1>14 DEF Next

-----------------------------------------------------------------------------
(* Who knows of which call *)

Asked == {"acks", "unlock"}
Met   == {"called", "work", "await", "waiting"}

\* g is what f may go on to when the signals and handlers are left alone.
Follows(f, g) ==
    /\ g.call = f.call /\ g.level = f.level
    /\ g.at \in Unasked => f.at \in Unasked
    /\ g.at \in Asked => f.at \in Asked
    /\ g.at = "acks" => f.at = "acks"
    /\ g.at \in Met => f.at \in Asked \cup Met
    /\ g.at \in {"test", "signal"} => f.at \in {"test", "signal"}

FollowsAll ==
    \A q \in Procs : \A d \in 1 .. Depth(q)' :
        \/ d \in 1 .. Depth(q) /\ Follows(Doing(q, d), Doing(q, d)')
        \/ Doing(q, d)'.at = "fetch" /\ Doing(q, d)'.call = NoCall

\* What follows what was there keeps StackCalls.
LEMMA FollowKeeps ==
  ASSUME TypeOK, StackInv, StackCalls, UNCHANGED <<sent, handlers>>, FollowsAll
  PROVE  StackCalls'
<1>1. ASSUME NEW q \in Procs, NEW d \in 1 .. Depth(q)'
      PROVE  PlaceCalls(q, d)'
  <2>1. CASE d \in 1 .. Depth(q) /\ Follows(Doing(q, d), Doing(q, d)')
    <3>1. PlaceCalls(q, d)
      BY <2>1 DEF StackCalls
    <3> QED
      BY <2>1, <3>1 DEF PlaceCalls, Follows, Asked, Met
  <2>2. CASE Doing(q, d)'.at = "fetch"
    BY <2>2 DEF PlaceCalls, Unasked
  <2> QED
    BY <1>1, <2>1, <2>2 DEF FollowsAll
<1>2. ASSUME NEW q \in Procs, NEW r \in Procs,
             NEW d \in 1 .. Depth(q)', NEW e \in 1 .. Depth(r)',
             Doing(q, d)'.at \in Unasked, Doing(r, e)'.call = Doing(q, d)'.call,
             Doing(q, d)'.level \in Rendezvous \/ Doing(r, e)'.at \in Unasked
      PROVE  q = r /\ d = e
  <2>1. d \in 1 .. Depth(q) /\ Follows(Doing(q, d), Doing(q, d)')
    BY <1>2 DEF FollowsAll, Unasked
  <2>2. Doing(q, d).at \in Unasked /\ Doing(q, d).call = Doing(q, d)'.call
        /\ Doing(q, d).level = Doing(q, d)'.level
    BY <1>2, <2>1 DEF Follows
  <2>3. Doing(q, d).call \in 1 .. calls
    <3>1. PlaceInv(q, d)
      BY <2>1 DEF StackInv
    <3> QED
      BY <2>2, <3>1 DEF PlaceInv, Unasked
  <2>4. Doing(r, e)'.call # NoCall
    BY <1>2, <2>2, <2>3, Types DEF NoCall
  <2>5. e \in 1 .. Depth(r) /\ Follows(Doing(r, e), Doing(r, e)')
    BY <1>2, <2>4 DEF FollowsAll
  <2>6. /\ Doing(r, e).call = Doing(q, d).call
        /\ Doing(q, d).level \in Rendezvous \/ Doing(r, e).at \in Unasked
    BY <1>2, <2>2, <2>5 DEF Follows
  <2> QED
    BY <2>1, <2>2, <2>5, <2>6 DEF StackCalls
<1> QED
  BY <1>1, <1>2 DEF StackCalls

\* What is left alone follows itself.
LEMMA FollowsItself ==
  ASSUME NEW f
  PROVE  Follows(f, f)
  BY DEF Follows

\* A top that is replaced by what may follow it.
LEMMA ReplacedFollows ==
  ASSUME TypeOK, StackInv, StackTypes', NEW p \in Procs, NEW f, Replaces(p, f),
         Follows(Top(p), f)
  PROVE  FollowsAll
<1> SUFFICES ASSUME NEW q \in Procs, NEW d \in 1 .. Depth(q)'
             PROVE  d \in 1 .. Depth(q) /\ Follows(Doing(q, d), Doing(q, d)')
  BY DEF FollowsAll
<1>1. StackTypes /\ Top(p) = Doing(p, Depth(p))
  BY Types, Tops
<1>2. d \in 1 .. Depth(q)
      /\ Doing(q, d)' = IF q = p /\ d = Depth(p) THEN f ELSE Doing(q, d)
  BY <1>1, Replacing
<1> QED
  BY <1>1, <1>2, FollowsItself

\* All places when f is pushed upon what may follow the top.
LEMMA CoveredFollows ==
  ASSUME TypeOK, StackInv, StackTypes', NEW p \in Procs, NEW f, NEW g,
         Covers(p, g, f), Follows(Top(p), g), NEW q \in Procs,
         NEW d \in 1 .. Depth(q)'
  PROVE  \/ d \in 1 .. Depth(q) /\ Follows(Doing(q, d), Doing(q, d)')
         \/ q = p /\ d = Depth(p) + 1 /\ Doing(q, d)' = f
<1>1. StackTypes /\ Top(p) = Doing(p, Depth(p))
  BY Types, Tops
<1>2. /\ Depth(q)' = IF q = p THEN Depth(p) + 1 ELSE Depth(q)
      /\ Depth(q) \in Nat \ {0}
      /\ d \in 1 .. Depth(q) =>
            Doing(q, d)' = IF q = p /\ d = Depth(p) THEN g ELSE Doing(q, d)
      /\ q = p /\ d = Depth(p) + 1 => Doing(q, d)' = f
  BY <1>1, Covering
<1>3. CASE d \in 1 .. Depth(q)
  BY <1>1, <1>2, <1>3, FollowsItself
<1>4. CASE d \notin 1 .. Depth(q)
  BY <1>2, <1>4
<1> QED
  BY <1>3, <1>4

\* A top that is popped leaves the others.
LEMMA PoppedFollows ==
  ASSUME TypeOK, StackInv, NEW p \in Procs, Pops(p)
  PROVE  FollowsAll
<1> SUFFICES ASSUME NEW q \in Procs, NEW d \in 1 .. Depth(q)'
             PROVE  d \in 1 .. Depth(q) /\ Follows(Doing(q, d), Doing(q, d)')
  BY DEF FollowsAll
<1>1. StackTypes
  BY Types
<1>2. d \in 1 .. Depth(q) /\ Doing(q, d)' = Doing(q, d)
  BY <1>1, Popping
<1> QED
  BY <1>2, FollowsItself

\* The interrupts, and the handler that is fetched later.
LEMMA InterruptFollows ==
  ASSUME TypeOK, StackInv, StackTypes', NEW p \in Procs, Interrupting(p)
  PROVE  FollowsAll
<1>1. \E g : Follows(Top(p), g) /\ \E mask : Interrupted(p, g, mask)
  <2>1. CASE TakeInterrupt(p) \/ SpinInterrupted(p)
    BY <2>1, Actions, FollowsItself
  <2>2. CASE LockedInterrupted(p)
    <3>1. /\ With(Top(p), "lock").at = "lock" /\ Top(p).at = "locked"
          /\ With(Top(p), "lock").call = Top(p).call
          /\ With(Top(p), "lock").level = Top(p).level
      BY <2>2, Tops, Frames DEF Labels, LockedInterrupted, At
    <3>2. Follows(Top(p), With(Top(p), "lock"))
      BY <3>1 DEF Follows, Unasked, Asked, Met
    <3> QED
      BY <2>2, <3>2, Actions
  <2>3. CASE BackOut(p)
    <3>1. /\ With(Top(p), "await").at = "await" /\ Top(p).at = "waiting"
          /\ With(Top(p), "await").call = Top(p).call
          /\ With(Top(p), "await").level = Top(p).level
      BY <2>3, Tops, Frames DEF Labels, BackOut, At
    <3>2. Follows(Top(p), With(Top(p), "await"))
      BY <3>1 DEF Follows, Unasked, Asked, Met
    <3> QED
      BY <2>3, <3>2, Actions
  <2> QED
    BY <2>1, <2>2, <2>3 DEF Interrupting
<1>2. PICK g : Follows(Top(p), g) /\ \E l \in Levels : Covers(p, g, Handling(l))
  BY <1>1 DEF Interrupted
<1>3. PICK l \in Levels : Covers(p, g, Handling(l))
  BY <1>2
<1>4. Handling(l).at = "fetch" /\ Handling(l).call = NoCall
  BY Tops, Frames
<1> SUFFICES ASSUME NEW q \in Procs, NEW d \in 1 .. Depth(q)'
             PROVE  \/ d \in 1 .. Depth(q) /\ Follows(Doing(q, d), Doing(q, d)')
                    \/ Doing(q, d)'.at = "fetch" /\ Doing(q, d)'.call = NoCall
  BY DEF FollowsAll
<1> QED
  BY <1>2, <1>3, <1>4, CoveredFollows

\* No other frame has a WORK or a call to be known of.
LEMMA PlainFollows ==
  ASSUME TypeOK, StackInv, StackTypes', NEW p \in Procs, Plain(p),
         ~StoreHandler(p)
  PROVE  FollowsAll
<1>1. ASSUME NEW label \in Labels, Replaced(p, label),
             label \in Unasked => Top(p).at \in Unasked,
             label \in Asked => Top(p).at \in Asked, label # "acks",
             label \in Met => Top(p).at \in Asked \cup Met,
             label \in {"test", "signal"} => Top(p).at \in {"test", "signal"}
      PROVE  FollowsAll
  <2>1. LET f == With(Top(p), label) IN
        f.at = label /\ f.call = Top(p).call /\ f.level = Top(p).level
    BY Tops, Frames
  <2>2. Follows(Top(p), With(Top(p), label))
    BY <1>1, <2>1 DEF Follows
  <2> QED
    BY <1>1, <2>2, ReplacedFollows DEF Replaced
<1>2. CASE Lock(p)
  <2>1. Replaced(p, "locked") /\ Top(p).at = "lock"
    BY <1>2, Actions DEF Lock, Step, At
  <2> QED
    BY <1>1, <2>1 DEF Labels, Unasked, Asked, Met
<1>3. CASE TestTrue(p)
  <2>1. Replaced(p, "signal") /\ Top(p).at = "test"
    BY <1>3, Actions DEF TestTrue, Step, At
  <2> QED
    BY <1>1, <2>1 DEF Labels, Unasked, Asked, Met
<1>4. CASE Acknowledged(p)
  <2>1. Replaced(p, "unlock") /\ Top(p).at = "acks"
    BY <1>4, Actions DEF Acknowledged, Step, At
  <2> QED
    BY <1>1, <2>1 DEF Labels, Unasked, Asked, Met
<1>5. CASE Unlock(p)
  <2>1. Replaced(p, "called") /\ Top(p).at = "unlock"
    BY <1>5, Actions DEF Unlock, Step, At
  <2> QED
    BY <1>1, <2>1 DEF Labels, Unasked, Asked, Met
<1>6. CASE Meet(p)
  <2>1. Replaced(p, "await") /\ Top(p).at \in {"called", "work"}
    BY <1>6, Actions DEF Meet
  <2> QED
    BY <1>1, <2>1 DEF Labels, Unasked, Asked, Met
<1>7. CASE Arrive(p)
  <2>1. Replaced(p, "waiting") /\ Top(p).at = "await"
    BY <1>7, Actions DEF Arrive, Step, At
  <2> QED
    BY <1>1, <2>1 DEF Labels, Unasked, Asked, Met
<1>8. CASE TestFalse(p) \/ Return(p) \/ Pass(p)
  BY <1>8, Actions, PoppedFollows
<1> QED
  BY <1>2, <1>3, <1>4, <1>5, <1>6, <1>7, <1>8 DEF Plain

\* A frame's call is a call there has been.
LEMMA OldCalls ==
  ASSUME TypeOK, StackInv, NEW q \in Procs, NEW d \in 1 .. Depth(q)
  PROVE  /\ Doing(q, d).call \in 0 .. calls
         /\ Doing(q, d).at \in Unasked =>
               /\ Doing(q, d).call \in 1 .. calls
               /\ level[Doing(q, d).call] = Doing(q, d).level
<1>1. PlaceInv(q, d)
  BY DEF StackInv
<1>2. Program.call = 0
  BY DEF Program, NoCall
<1>3. calls \in Nat
  BY Types
<1> QED
  BY <1>1, <1>2, <1>3 DEF PlaceInv, Unasked, NoCall

\* Every step keeps StackCalls.
LEMMA StackCallsStep ==
  ASSUME TypeOK, StackInv, LockInv, CallInv, StackCalls, RendezvousInv, StackTypes',
         [Next]_vars
  PROVE  StackCalls'
<1>1. StackTypes /\ CallTypes /\ calls \in Nat
  BY Types
<1>2. ASSUME UNCHANGED <<stack, sent, handlers>>
      PROVE  StackCalls'
  <2>1. FollowsAll
    BY <1>2, FollowsItself DEF FollowsAll, Doing, Depth
  <2> QED
    BY <1>2, <2>1, FollowKeeps
<1>3. ASSUME NEW p \in Procs, (Plain(p) /\ ~StoreHandler(p)) \/ Interrupting(p)
      PROVE  StackCalls'
  <2>1. UNCHANGED <<sent, handlers>>
    BY <1>3 DEF Plain, Lock, TestTrue, TestFalse, Acknowledged, Unlock, Meet, Return,
                Arrive, Pass, send, Interrupting, TakeInterrupt, SpinInterrupted,
                LockedInterrupted, BackOut
  <2>2. FollowsAll
    BY <1>3, PlainFollows, InterruptFollows
  <2> QED
    BY <2>1, <2>2, FollowKeeps
<1>4. ASSUME NEW p \in Procs
      PROVE  /\ Depth(p) \in 1 .. Depth(p) /\ Top(p) = Doing(p, Depth(p))
             /\ PlaceCalls(p, Depth(p)) /\ PlaceInv(p, Depth(p))
  BY Tops DEF StackCalls
<1>5. ASSUME NEW p \in Procs, StoreHandler(p)
      PROVE  StackCalls'
  <2> DEFINE f == With(Top(p), "test")
  <2>1. /\ Top(p).at = "locked" /\ Replaces(p, f) /\ UNCHANGED <<sent, calls>>
        /\ handlers' = [handlers EXCEPT ![Top(p).level] = Top(p).call]
    BY <1>5, Actions DEF StoreHandler, Step, At, Replaced
  <2>2. f.at = "test" /\ f.call = Top(p).call /\ f.level = Top(p).level
    BY Tops, Frames DEF Labels
  <2>3. \A q \in Procs : \A d \in 1 .. Depth(q)' :
           /\ d \in 1 .. Depth(q)
           /\ Doing(q, d)' = IF q = p /\ d = Depth(p) THEN f ELSE Doing(q, d)
    BY <1>1, <2>1, Replacing
  <2> HIDE DEF f
  <2>4. /\ Top(p).call \notin sent /\ Top(p).level \in Levels
    BY <1>4, <2>1, Tops DEF PlaceCalls, Unasked
  <2>5. handlers'[Top(p).level] = Top(p).call
    BY <1>1, <2>1, <2>4 DEF CallTypes
  <2>6. ASSUME NEW q \in Procs, NEW d \in 1 .. Depth(q)'
        PROVE  PlaceCalls(q, d)'
    <3>1. CASE q = p /\ d = Depth(p)
      <4>1. Doing(q, d)' = f
        BY <2>3, <2>6, <3>1
      <4> QED
        BY <2>1, <2>2, <2>4, <2>5, <4>1 DEF PlaceCalls
    <3>2. CASE ~(q = p /\ d = Depth(p))
      <4>1. d \in 1 .. Depth(q) /\ Doing(q, d)' = Doing(q, d) /\ PlaceCalls(q, d)
        BY <2>3, <2>6, <3>2 DEF StackCalls
      <4>2. Doing(q, d).at \notin {"test", "signal"}
        BY <2>1, <3>2, <4>1, OneOwner DEF Owning
      <4> QED
        BY <2>1, <4>1, <4>2 DEF PlaceCalls
    <3> QED
      BY <3>1, <3>2
  <2>7. \A q \in Procs : \A d \in 1 .. Depth(q)' :
           /\ d \in 1 .. Depth(q)
           /\ Doing(q, d)'.call = Doing(q, d).call
           /\ Doing(q, d)'.level = Doing(q, d).level
           /\ Doing(q, d)'.at \in Unasked <=> Doing(q, d).at \in Unasked
    BY <1>4, <2>1, <2>2, <2>3 DEF Unasked
  <2> QED
    BY <2>6, <2>7 DEF StackCalls
<1>6. ASSUME NEW p \in Procs, Signal(p)
      PROVE  StackCalls'
  <2> DEFINE f == With(Top(p), "acks")
  <2>1. /\ Top(p).at = "signal" /\ Replaces(p, f) /\ UNCHANGED <<handlers, calls>>
        /\ sent' = sent \cup {Top(p).call}
    BY <1>6, Actions DEF Signal, Step, At, Replaced
  <2>2. f.at = "acks" /\ f.call = Top(p).call /\ f.level = Top(p).level
    BY Tops, Frames DEF Labels
  <2>3. \A q \in Procs : \A d \in 1 .. Depth(q)' :
           /\ d \in 1 .. Depth(q)
           /\ Doing(q, d)' = IF q = p /\ d = Depth(p) THEN f ELSE Doing(q, d)
    BY <1>1, <2>1, Replacing
  <2> HIDE DEF f
  <2>4. ASSUME NEW q \in Procs, NEW d \in 1 .. Depth(q)'
        PROVE  PlaceCalls(q, d)'
    <3>1. CASE q = p /\ d = Depth(p)
      <4>1. Doing(q, d)' = f
        BY <2>3, <2>4, <3>1
      <4> QED
        BY <2>1, <2>2, <4>1 DEF PlaceCalls, Unasked
    <3>2. CASE ~(q = p /\ d = Depth(p))
      <4>1. d \in 1 .. Depth(q) /\ Doing(q, d)' = Doing(q, d) /\ PlaceCalls(q, d)
        BY <2>3, <2>4, <3>2 DEF StackCalls
      <4>2. Doing(q, d).at \in Unasked => Doing(q, d).call # Top(p).call
        BY <1>4, <2>1, <3>2, <4>1 DEF StackCalls, Unasked
      <4> QED
        BY <2>1, <4>1, <4>2 DEF PlaceCalls
    <3> QED
      BY <3>1, <3>2
  <2>5. \A q \in Procs : \A d \in 1 .. Depth(q)' :
           /\ d \in 1 .. Depth(q)
           /\ Doing(q, d)'.call = Doing(q, d).call
           /\ Doing(q, d)'.level = Doing(q, d).level
           /\ Doing(q, d)'.at \in Unasked => Doing(q, d).at \in Unasked
    BY <1>4, <2>1, <2>2, <2>3 DEF Unasked
  <2> QED
    BY <2>4, <2>5 DEF StackCalls
<1>7. ASSUME NEW p \in Procs, Fetch(p)
      PROVE  StackCalls'
  <2> DEFINE f == Working(Top(p))
             l == Top(p).level
             c == handlers[l]
  <2>1. /\ Top(p).at = "fetch" /\ Replaces(p, f) /\ UNCHANGED <<handlers, sent>>
        /\ c \in 1 .. calls /\ level[c] = l
    BY <1>7, CallsAndFetches DEF Fetch, At, send
  <2>2. f.at = "work" /\ f.call = c /\ f.level = l
    BY Tops DEF Working, Frame
  <2>3. \A q \in Procs : \A d \in 1 .. Depth(q)' :
           /\ d \in 1 .. Depth(q)
           /\ Doing(q, d)' = IF q = p /\ d = Depth(p) THEN f ELSE Doing(q, d)
    BY <1>1, <2>1, Replacing
  <2>4. l \in Rendezvous => c \in sent
    BY <2>1 DEF RendezvousInv, RequestInv, Requested, Fetching, At
  <2> HIDE DEF f, l, c
  <2>5. ASSUME NEW q \in Procs, NEW d \in 1 .. Depth(q)'
        PROVE  PlaceCalls(q, d)'
    <3>1. CASE q = p /\ d = Depth(p)
      <4>1. Doing(q, d)' = f
        BY <2>3, <2>5, <3>1
      <4> QED
        BY <2>1, <2>2, <2>4, <4>1 DEF PlaceCalls, Unasked
    <3>2. CASE ~(q = p /\ d = Depth(p))
      <4>1. d \in 1 .. Depth(q) /\ Doing(q, d)' = Doing(q, d) /\ PlaceCalls(q, d)
        BY <2>3, <2>5, <3>2 DEF StackCalls
      <4> QED
        BY <2>1, <4>1 DEF PlaceCalls
    <3> QED
      BY <3>1, <3>2
  <2>6. ASSUME NEW q \in Procs, NEW r \in Procs,
               NEW d \in 1 .. Depth(q)', NEW e \in 1 .. Depth(r)',
               Doing(q, d)'.at \in Unasked, Doing(r, e)'.call = Doing(q, d)'.call,
               Doing(q, d)'.level \in Rendezvous \/ Doing(r, e)'.at \in Unasked
        PROVE  q = r /\ d = e
    <3>1. ~(q = p /\ d = Depth(p))
      BY <2>2, <2>3, <2>6 DEF Unasked
    <3>2. Doing(q, d)' = Doing(q, d) /\ d \in 1 .. Depth(q)
      BY <2>3, <3>1
    <3>3. Doing(q, d).call \notin sent /\ level[Doing(q, d).call] = Doing(q, d).level
      <4>1. PlaceCalls(q, d)
        BY <3>2 DEF StackCalls
      <4> QED
        BY <2>6, <3>2, <4>1, OldCalls DEF PlaceCalls
    <3>4. CASE r = p /\ e = Depth(p)
      <4>1. Doing(r, e)' = f
        BY <2>3, <3>4
      <4> QED
        BY <2>1, <2>2, <2>4, <2>6, <3>2, <3>3, <4>1 DEF Unasked
    <3>5. CASE ~(r = p /\ e = Depth(p))
      <4>1. Doing(r, e)' = Doing(r, e) /\ e \in 1 .. Depth(r)
        BY <2>3, <3>5
      <4> QED
        BY <2>6, <3>2, <4>1 DEF StackCalls
    <3> QED
      BY <3>4, <3>5
  <2> QED
    BY <2>5, <2>6 DEF StackCalls
<1>8. ASSUME NEW p \in Procs, NEW l \in Levels, Call(p, l)
      PROVE  StackCalls'
  <2> DEFINE f == Calling(p, l)
  <2>1. /\ Covers(p, Top(p), f) /\ UNCHANGED <<handlers, sent>>
        /\ f.at = "lock" /\ f.call = calls + 1
    BY <1>8, CallsAndFetches DEF Call, send, Calling
  <2> HIDE DEF f
  <2>2. ASSUME NEW q \in Procs, NEW d \in 1 .. Depth(q)'
        PROVE  \/ d \in 1 .. Depth(q) /\ Doing(q, d)' = Doing(q, d)
               \/ q = p /\ d = Depth(p) + 1 /\ Doing(q, d)' = f
    <3>1. /\ Depth(q)' = IF q = p THEN Depth(p) + 1 ELSE Depth(q)
          /\ Depth(q) \in Nat \ {0}
          /\ d \in 1 .. Depth(q) =>
                Doing(q, d)' = IF q = p /\ d = Depth(p) THEN Top(p) ELSE Doing(q, d)
          /\ q = p /\ d = Depth(p) + 1 => Doing(q, d)' = f
      BY <1>1, <2>1, Covering
    <3> QED
      BY <1>4, <3>1
  <2>3. calls + 1 \notin sent /\ \A c \in 0 .. calls : c # calls + 1
    BY <1>1 DEF CallInv
  <2>4. ASSUME NEW q \in Procs, NEW d \in 1 .. Depth(q)'
        PROVE  PlaceCalls(q, d)'
    <3>1. CASE Doing(q, d)' = f
      BY <2>1, <2>3, <3>1 DEF PlaceCalls, Unasked
    <3>2. CASE d \in 1 .. Depth(q) /\ Doing(q, d)' = Doing(q, d)
      <4>1. PlaceCalls(q, d)
        BY <3>2 DEF StackCalls
      <4> QED
        BY <2>1, <3>2, <4>1 DEF PlaceCalls
    <3> QED
      BY <2>2, <2>4, <3>1, <3>2
  <2>5. ASSUME NEW q \in Procs, NEW r \in Procs,
               NEW d \in 1 .. Depth(q)', NEW e \in 1 .. Depth(r)',
               Doing(q, d)'.at \in Unasked, Doing(r, e)'.call = Doing(q, d)'.call,
               Doing(q, d)'.level \in Rendezvous \/ Doing(r, e)'.at \in Unasked
        PROVE  q = r /\ d = e
    <3>1. CASE d \in 1 .. Depth(q) /\ Doing(q, d)' = Doing(q, d)
      <4>1. Doing(r, e)'.call # calls + 1
        BY <2>3, <2>5, <3>1, OldCalls
      <4>2. e \in 1 .. Depth(r) /\ Doing(r, e)' = Doing(r, e)
        BY <2>1, <2>2, <4>1
      <4> QED
        BY <2>5, <3>1, <4>2 DEF StackCalls
    <3>2. CASE q = p /\ d = Depth(p) + 1 /\ Doing(q, d)' = f
      <4>1. Doing(r, e)'.call = calls + 1
        BY <2>1, <2>5, <3>2
      <4>2. ~(e \in 1 .. Depth(r) /\ Doing(r, e)' = Doing(r, e))
        BY <2>3, <4>1, OldCalls
      <4> QED
        BY <2>2, <3>2, <4>2
    <3> QED
      BY <2>2, <3>1, <3>2
  <2> QED
    BY <2>4, <2>5 DEF StackCalls
<1>9. \A p \in Procs : Proceed(p) => \/ Plain(p) \/ Interrupting(p) \/ Signal(p)
                                     \/ Fetch(p)
  BY DEF Proceed, Plain, Interrupting
<1>10. ASSUME UNCHANGED vars \/ \E p \in Procs : Deliver(p)
       PROVE  StackCalls'
  BY <1>2, <1>10 DEF vars, send, Deliver
<1> QED
  BY <1>3, <1>5, <1>6, <1>7, <1>8, <1>9, <1>10 DEF Next

-----------------------------------------------------------------------------
(* Who takes part *)

\* Nobody begins to take part when all places follow those before.
LEMMA TakesGrow ==
  ASSUME FollowsAll, NEW c, c # NoCall, NEW q \in Procs, Takes(q, c)'
  PROVE  Takes(q, c)
<1>1. PICK d \in 1 .. Depth(q)' : Doing(q, d)'.call = c
  BY DEF Takes
<1>2. d \in 1 .. Depth(q) /\ Follows(Doing(q, d), Doing(q, d)')
  BY <1>1 DEF FollowsAll
<1> QED
  BY <1>1, <1>2 DEF Takes, Follows

\* Nobody ceases to, except with the top that is popped or replaced.
LEMMA TakesStay ==
  ASSUME TypeOK, StackInv, StackTypes', NEW p \in Procs, NEW q \in Procs, NEW c,
         Takes(q, c)
  PROVE  /\ \A f : Replaces(p, f) /\ f.call = Top(p).call => Takes(q, c)'
         /\ \A f, g : Covers(p, g, f) /\ g.call = Top(p).call => Takes(q, c)'
         /\ Pops(p) => Takes(q, c)' \/ (q = p /\ Top(p).call = c)
         /\ \A f : Replaces(p, f) => Takes(q, c)' \/ (q = p /\ Top(p).call = c)
<1>1. PICK d \in 1 .. Depth(q) : Doing(q, d).call = c
  BY DEF Takes
<1>2. StackTypes /\ Top(p) = Doing(p, Depth(p))
  BY Types, Tops
<1>3. ASSUME NEW f, Replaces(p, f)
      PROVE  /\ f.call = Top(p).call => Takes(q, c)'
             /\ Takes(q, c)' \/ (q = p /\ Top(p).call = c)
  <2>1. /\ d \in 1 .. Depth(q)'
        /\ Doing(q, d)' = IF q = p /\ d = Depth(p) THEN f ELSE Doing(q, d)
    BY <1>2, <1>3, Replacing
  <2>2. Doing(q, d)'.call = c => Takes(q, c)'
    BY <2>1 DEF Takes
  <2> QED
    BY <1>1, <1>2, <2>1, <2>2
<1>4. ASSUME NEW f, NEW g, Covers(p, g, f), g.call = Top(p).call
      PROVE  Takes(q, c)'
  <2>1. /\ d \in 1 .. Depth(q)'
        /\ Doing(q, d)' = IF q = p /\ d = Depth(p) THEN g ELSE Doing(q, d)
    <3>1. /\ Depth(q)' = IF q = p THEN Depth(p) + 1 ELSE Depth(q)
          /\ Depth(q) \in Nat \ {0}
          /\ Doing(q, d)' = IF q = p /\ d = Depth(p) THEN g ELSE Doing(q, d)
      BY <1>2, <1>4, Covering
    <3> QED
      BY <3>1
  <2>2. Doing(q, d)'.call = c
    BY <1>1, <1>2, <1>4, <2>1
  <2> QED
    BY <2>1, <2>2 DEF Takes
<1>5. ASSUME Pops(p)
      PROVE  Takes(q, c)' \/ (q = p /\ Top(p).call = c)
  <2>1. /\ Depth(q)' = IF q = p THEN Depth(p) - 1 ELSE Depth(q)
        /\ Depth(q) \in Nat \ {0}
        /\ d \in 1 .. Depth(q)' => Doing(q, d)' = Doing(q, d)
    BY <1>2, <1>5, Popping
  <2>2. CASE d \in 1 .. Depth(q)'
    BY <1>1, <2>1, <2>2 DEF Takes
  <2>3. CASE d \notin 1 .. Depth(q)'
    <3>1. q = p /\ d = Depth(p)
      BY <2>1, <2>3
    <3> QED
      BY <1>1, <1>2, <3>1
  <2> QED
    BY <2>2, <2>3
<1> QED
  BY <1>3, <1>4, <1>5

-----------------------------------------------------------------------------
(* A rendezvous that has come to pass *)

\* Who may store a handler finds that no rendezvous at its level, and no
\* collection, is still coming together.
LEMMA AllHaveMet ==
  ASSUME TypeOK, StackInv, LockInv, AcksInv, CallInv, StackCalls, RendezvousInv,
         NEW p \in Procs, At(p, "locked"), Pending(p, AtMost(Top(p).level)) = {},
         NEW c \in Calls, Meeting(c), level[c] \in {0, Top(p).level}
  PROVE  opened[c]
<1>1. MeetingInv(c) /\ c \in sent /\ level[c] \in Levels /\ c # NoCall
  <2>1. MeetingInv(c)
    BY DEF RendezvousInv
  <2>2. c # NoCall
    BY BoundsAssumption DEF NoCall, Calls
  <2>3. c \in sent /\ level[c] \in Levels
    BY LevelsAssumption DEF Meeting
  <2> QED
    BY <2>1, <2>2, <2>3
<1>2. /\ Top(p).level \in Levels /\ Top(p).call \notin sent
      /\ Depth(p) \in Nat \ {0} /\ Top(p) = Doing(p, Depth(p))
      /\ Depth(p) \in 1 .. Depth(p)
  <2>1. PlaceCalls(p, Depth(p))
    BY Tops DEF StackCalls
  <2> QED
    BY <2>1, Tops DEF At, PlaceCalls, Unasked
<1>3. level[c] <= Top(p).level
  <2>1. Top(p).level \in 0 .. 3
    BY <1>2, LevelsAssumption
  <2> QED
    BY <2>1
<1>4. ~Due(c, p)
  <2>1. ~signal[p]
    <3>1. \A q \in Procs : ~At(q, "acks")
      BY OneWaits DEF At, Owning
    <3> QED
      BY <3>1, NoSignals
  <2>2. level[c] \notin code[p]
    BY <1>1, <1>3 DEF Pending, AtMost
  <2> QED
    BY <2>1, <2>2 DEF Due, At
<1>5. ~Takes(p, c)
  <2> SUFFICES ASSUME NEW d \in 1 .. Depth(p), Doing(p, d).call = c
               PROVE  FALSE
    BY DEF Takes
  <2>1. d < Depth(p) /\ PlaceInv(p, d) /\ PlaceInv(p, Depth(p))
    <3>1. d # Depth(p)
      BY <1>1, <1>2
    <3> QED
      BY <1>2, <3>1 DEF StackInv
  <2>2. Doing(p, d).level = level[c] /\ d > 1
    BY <1>1, <2>1 DEF PlaceInv, Program
  <2>3. Top(p).at \in Asking /\ Top(p).at # "lock"
    BY DEF At, Asking, Owning
  \* the collector may be under interrupts of its level only
  <2>4. level[c] # 0
    BY <2>1, <2>2, <2>3 DEF PlaceInv
  \* the others ask at the bottom of the stack
  <2>5. Depth(p) = 2
    BY <1>2, <2>1, <2>3, <2>4 DEF PlaceInv
  <2> QED
    BY <1>2, <2>1, <2>2, <2>5
<1>6. p \in arrived[c]
  BY <1>1, <1>4, <1>5 DEF MeetingInv
<1> QED
  BY <1>1, <1>6 DEF MeetingInv, At

\* So nobody is to fetch the handler that is overwritten.
LEMMA NobodyIsDue ==
  ASSUME TypeOK, StackInv, LockInv, AcksInv, CallInv, StackCalls, RendezvousInv,
         NEW p \in Procs, At(p, "locked"), Pending(p, AtMost(Top(p).level)) = {},
         Top(p).level \in Rendezvous, NEW q \in Procs
  PROVE  ~Requested(q, Top(p).level)
<1> SUFFICES ASSUME Requested(q, Top(p).level)
             PROVE  FALSE
  OBVIOUS
<1> DEFINE l == Top(p).level
           c == handlers[l]
<1>1. c \in sent /\ c # NoCall /\ level[c] = l /\ c \in Calls /\ l \in Levels
  <2>1. l \in Levels
    BY LevelsAssumption
  <2>2. c \in sent /\ c # NoCall
    BY <2>1 DEF RendezvousInv, RequestInv, CallInv
  <2>3. c \in Calls
    BY <2>2 DEF TypeOK
  <2> QED
    BY <2>1, <2>2, <2>3 DEF CallInv
<1>2. Meeting(c) /\ opened[c] /\ MeetingInv(c)
  BY <1>1, AllHaveMet DEF Meeting, RendezvousInv
<1>3. Due(c, q)
  BY <1>1 DEF Due, Requested, Signalled, Fetching
<1> QED
  BY <1>2, <1>3 DEF MeetingInv

\* Being due is being requested, for the call whose handler it is.
LEMMA DueIs ==
  ASSUME NEW c, NEW q
  PROVE  Due(c, q) <=> handlers[level[c]] = c /\ Requested(q, level[c])
  BY DEF Due, Requested, Signalled, Fetching

-----------------------------------------------------------------------------
(* The rendezvous in each action *)

\* A rendezvous is kept when its requests and its counts are, and nobody leaves
\* who has not met.
LEMMA MeetingKept ==
  ASSUME NEW c, MeetingInv(c),
         begun'[c] = begun[c], arrived'[c] = arrived[c], opened'[c] = opened[c],
         \A q \in Procs :
            /\ Due(c, q)' <=> Due(c, q)
            /\ Takes(q, c) => Takes(q, c)' \/ q \in arrived[c]
            /\ Takes(q, c)' => Takes(q, c)
            /\ q \in arrived[c] /\ ~opened[c] => Top(q)' = Top(q)
  PROVE  MeetingInv(c)'
<1>1. Forced(c)'
  BY DEF MeetingInv, Forced, One
<1>2. opened'[c] => arrived'[c] = Procs
  BY DEF MeetingInv
<1>3. ASSUME NEW q \in Procs
      PROVE  /\ q \in arrived'[c] =>
                   opened'[c] \/ (At(q, "waiting")' /\ Top(q)'.call = c)
             /\ q \in arrived'[c] \/ Due(c, q)' \/ Takes(q, c)'
             /\ Due(c, q)' => q \notin arrived'[c] /\ ~Takes(q, c)'
  BY <1>3 DEF MeetingInv, At
<1> QED
  BY <1>1, <1>2, <1>3 DEF MeetingInv

\* What requests nothing new keeps RequestInv.
LEMMA RequestsKept ==
  ASSUME TypeOK, NEW q, NEW l, RequestInv(q, l), handlers' = handlers,
         sent \subseteq sent', Signalled(q, l)' => Signalled(q, l),
         l \in code'[q] => l \in code[q], Fetching(q, l)' => Fetching(q, l)
  PROVE  RequestInv(q, l)'
  BY DEF RequestInv, Requested

\* The steps that request nothing and begin, meet or ask for nothing new.
LEMMA PlainRendezvous ==
  ASSUME TypeOK, StackInv, CallInv, StackCalls, RendezvousInv, StackTypes',
         NEW p \in Procs, Plain(p), ~StoreHandler(p), ~Arrive(p)
  PROVE  RendezvousInv'
<1>1. UNCHANGED <<handlers, level, sent, begun, arrived, opened, calls>>
  BY DEF Plain, Lock, TestTrue, TestFalse, Acknowledged, Unlock, Meet, Return,
         Pass, send, sync
<1>2. SameRequests /\ FollowsAll
  BY PlainRequests, PlainFollows
<1>3. \A q : \A k : q \in Procs => (Requested(q, k)' <=> Requested(q, k))
  BY <1>2 DEF SameRequests, Requested, Signalled
<1>4. \A c \in Calls : \A q \in Procs : Due(c, q)' <=> Due(c, q)
  BY <1>1, <1>2 DEF Due, SameRequests, Fetching
<1>5. \A q \in Procs \ {p} : Top(q)' = Top(q)
  <2>1. Pops(p) \/ \E f : Replaces(p, f)
    BY Actions DEF Plain, Replaced
  <2> QED
    BY <2>1, Types, Popping, Replacing
<1>6. ASSUME NEW c \in Calls, Meeting(c)
      PROVE  MeetingInv(c)'
  <2>1. MeetingInv(c) /\ c # NoCall
    BY <1>6, BoundsAssumption DEF RendezvousInv, NoCall, Calls
  \* only who waits has arrived, and goes on when it is open
  <2>2. Pass(p) \/ Top(p).at # "waiting"
    BY DEF Plain, Lock, TestTrue, TestFalse, Acknowledged, Unlock, Meet, Return,
           Step, At
  <2>3. p \in arrived[c] => opened[c]
    BY <2>1, <2>2 DEF MeetingInv, Pass, At
  <2>4. ASSUME NEW q \in Procs, Takes(q, c)
        PROVE  Takes(q, c)' \/ q \in arrived[c]
    <3>1. CASE TestFalse(p)
      <4>1. Pops(p) /\ Top(p).at = "test"
        BY <3>1, Actions DEF TestFalse, At
      <4>2. Top(p).call \notin sent
        BY <4>1, Tops DEF StackCalls, PlaceCalls, Unasked
      <4> QED
        BY <1>6, <2>4, <4>1, <4>2, TakesStay DEF Meeting
    <3>2. CASE Return(p)
      <4>1. /\ Pops(p) /\ Top(p).at \in {"called", "work"}
            /\ Top(p).level \notin Rendezvous
        BY <3>2, Actions DEF Return, Meets
      <4>2. level[Top(p).call] = Top(p).level
        BY <4>1, Tops
      <4> QED
        BY <1>6, <2>4, <4>1, <4>2, TakesStay DEF Meeting
    <3>3. CASE Pass(p)
      <4>1. Pops(p) /\ opened[Top(p).call]
        BY <3>3, Actions DEF Pass
      <4> QED
        BY <2>1, <2>4, <4>1, TakesStay DEF MeetingInv
    <3>4. CASE ~TestFalse(p) /\ ~Return(p) /\ ~Pass(p)
      <4>1. \E label \in Labels : Replaced(p, label)
        <5>1. {"locked", "signal", "unlock", "called", "await"} \subseteq Labels
          BY DEF Labels
        <5> QED
          BY <3>4, <5>1, Actions DEF Plain
      <4>2. \E f : Replaces(p, f) /\ f.call = Top(p).call
        BY <4>1, Tops, Frames DEF Replaced
      <4> QED
        BY <2>4, <4>2, TakesStay
    <3> QED
      BY <3>1, <3>2, <3>3, <3>4
  <2>5. \A q \in Procs : Takes(q, c)' => Takes(q, c)
    BY <1>2, <2>1, TakesGrow
  <2> QED
    BY <1>1, <1>4, <1>5, <2>1, <2>3, <2>4, <2>5, MeetingKept
<1>7. \A c \in Calls : Meeting(c)' <=> Meeting(c)
  BY <1>1 DEF Meeting
<1>8. ASSUME NEW c \in Calls \ sent', level'[c] \in Rendezvous \cup {-1}
      PROVE  QuietCall(c)'
  BY <1>1, <1>8 DEF RendezvousInv, QuietCall
<1>9. ASSUME NEW q \in Procs, NEW l \in Rendezvous
      PROVE  RequestInv(q, l)'
  BY <1>1, <1>2, <1>9, RequestsKept DEF RendezvousInv, SameRequests, Signalled
<1> QED
  BY <1>6, <1>7, <1>8, <1>9 DEF RendezvousInv

\* An interrupt is taken, from the synchronizer too.
LEMMA InterruptRendezvous ==
  ASSUME TypeOK, StackInv, CallInv, StackCalls, RendezvousInv, StackTypes',
         NEW p \in Procs, Interrupting(p)
  PROVE  RendezvousInv'
<1>1. /\ UNCHANGED <<handlers, level, sent, begun, opened, calls>>
      /\ IF BackOut(p) THEN /\ Top(p).at = "waiting" /\ ~opened[Top(p).call]
                            /\ arrived' = [arrived EXCEPT ![Top(p).call] = @ \ {p}]
         ELSE arrived' = arrived /\ Top(p).at # "waiting"
  BY DEF Interrupting, TakeInterrupt, SpinInterrupted, LockedInterrupted, BackOut,
         send, sync, At
<1>2. FollowsAll
  BY InterruptFollows
<1>3. PICK l \in Levels : Moved(p, l)
  BY InterruptRequests
<1>4. \A q \in Procs : \A k \in Levels : Requested(q, k)' <=> Requested(q, k)
  BY <1>3 DEF Moved, Requested, Signalled, TypeOK
<1>5. PICK f, g : Covers(p, g, f) /\ g.call = Top(p).call
  <2>1. \A label \in Labels : With(Top(p), label).call = Top(p).call
    BY Tops, Frames
  <2>2. {"lock", "await"} \subseteq Labels
    BY DEF Labels
  <2>3. \E g : \E mask : Interrupted(p, g, mask) /\ g.call = Top(p).call
    BY <2>1, <2>2, Actions DEF Interrupting
  <2> QED
    BY <2>3 DEF Interrupted
<1>6. \A q \in Procs \ {p} : Top(q)' = Top(q)
  BY <1>5, Types, Covering
<1>7. \A c \in Calls : c # Top(p).call => arrived'[c] = arrived[c]
  BY <1>1 DEF TypeOK
<1>8. ASSUME NEW c \in Calls, Meeting(c)
      PROVE  MeetingInv(c)'
  <2>1. MeetingInv(c) /\ c # NoCall /\ level[c] \in Levels
    <3>1. MeetingInv(c) /\ level[c] \in Levels
      BY <1>8, LevelsAssumption DEF RendezvousInv, Meeting
    <3>2. c # NoCall
      BY BoundsAssumption DEF NoCall, Calls
    <3> QED
      BY <3>1, <3>2
  <2>2. \A q \in Procs : Due(c, q)' <=> Due(c, q)
    BY <1>1, <1>4, <2>1 DEF Due, Requested, Signalled, Fetching
  <2>3. \A q \in Procs : Takes(q, c)' <=> Takes(q, c)
    BY <1>2, <1>5, <2>1, TakesGrow, TakesStay
  <2>4. CASE BackOut(p) /\ c = Top(p).call
    <3>1. /\ ~opened[c] /\ ~opened'[c] /\ arrived'[c] = arrived[c] \ {p}
          /\ begun' = begun
      BY <1>1, <2>4 DEF TypeOK
    <3>2. Takes(p, c)
      BY <2>4, Tops DEF Takes
    <3>3. Forced(c)'
      BY <2>1, <2>2, <3>1 DEF MeetingInv, Forced, One
    <3>4. ASSUME NEW q \in Procs
          PROVE  /\ q \in arrived'[c] =>
                       opened'[c] \/ (At(q, "waiting")' /\ Top(q)'.call = c)
                 /\ q \in arrived'[c] \/ Due(c, q)' \/ Takes(q, c)'
                 /\ Due(c, q)' => q \notin arrived'[c] /\ ~Takes(q, c)'
      BY <1>6, <2>1, <2>2, <2>3, <3>1, <3>2 DEF MeetingInv, At
    <3> QED
      BY <3>1, <3>3, <3>4 DEF MeetingInv
  <2>5. CASE ~(BackOut(p) /\ c = Top(p).call)
    <3>1. arrived'[c] = arrived[c] /\ begun'[c] = begun[c] /\ opened'[c] = opened[c]
      BY <1>1, <1>7, <2>5
    <3>2. p \in arrived[c] => opened[c]
      BY <1>1, <2>1, <2>5 DEF MeetingInv, At
    <3> QED
      BY <1>6, <2>1, <2>2, <2>3, <3>1, <3>2, MeetingKept
  <2> QED
    BY <2>4, <2>5
<1>9. ASSUME NEW c \in Calls \ sent', level'[c] \in Rendezvous \cup {-1}
      PROVE  QuietCall(c)'
  <2>1. QuietCall(c) /\ begun' = begun /\ opened' = opened
    BY <1>1, <1>9 DEF RendezvousInv
  <2>2. arrived'[c] \subseteq arrived[c]
    BY <1>1 DEF TypeOK
  <2> QED
    BY <2>1, <2>2 DEF QuietCall
<1>10. ASSUME NEW q \in Procs, NEW k \in Rendezvous
       PROVE  RequestInv(q, k)'
  <2>1. k \in Levels /\ RequestInv(q, k)
    BY <1>10, LevelsAssumption DEF RendezvousInv
  <2>2. UNCHANGED <<handlers, sent>> /\ (Requested(q, k)' <=> Requested(q, k))
    BY <1>1, <1>4, <2>1
  <2>3. CASE q = p /\ k = l
    <3>1. /\ l \in code[p] /\ l \notin code'[p] /\ ~Fetching(p, k)
          /\ Signalled(p, k)' <=> Signalled(p, k)
      BY <1>3, <2>3 DEF Moved, Signalled, TypeOK
    <3> QED
      BY <2>1, <2>2, <2>3, <3>1 DEF RequestInv
  <2>4. CASE ~(q = p /\ k = l)
    <3>1. /\ Signalled(q, k)' <=> Signalled(q, k)
          /\ k \in code'[q] <=> k \in code[q]
          /\ Fetching(q, k)' <=> Fetching(q, k)
      BY <1>3, <2>4 DEF Moved, Signalled, TypeOK
    <3> QED
      BY <2>1, <2>2, <3>1 DEF RequestInv
  <2> QED
    BY <2>3, <2>4
<1>11. \A c \in Calls : Meeting(c)' <=> Meeting(c)
  BY <1>1 DEF Meeting
<1> QED
  BY <1>8, <1>9, <1>10, <1>11 DEF RendezvousInv

\* A processor comes to the synchronizer.
LEMMA ArriveRendezvous ==
  ASSUME TypeOK, StackInv, CallInv, StackCalls, RendezvousInv, StackTypes',
         NEW p \in Procs, Arrive(p)
  PROVE  RendezvousInv'
<1> DEFINE a == Top(p).call
<1>1. /\ UNCHANGED <<handlers, level, sent, begun, calls>>
      /\ Top(p).at = "await" /\ Plain(p) /\ ~StoreHandler(p)
      /\ arrived' = [arrived EXCEPT ![a] = @ \cup {p}]
      /\ opened' = [opened EXCEPT ![a] = @ \/ arrived[a] \cup {p} = Procs]
  BY DEF Arrive, StoreHandler, Step, At, send, Plain
<1>2. SameRequests /\ FollowsAll
  BY <1>1, PlainRequests, PlainFollows
<1>3. /\ a \in Calls /\ a \in sent /\ level[a] \in Rendezvous /\ Takes(p, a)
  <2>1. /\ a \in 1 .. calls /\ level[a] = Top(p).level /\ Depth(p) \in 1 .. Depth(p)
        /\ Top(p) = Doing(p, Depth(p)) /\ PlaceInv(p, Depth(p))
    BY <1>1, Tops
  <2>2. Top(p).level \in Rendezvous
    BY <1>1, <2>1 DEF PlaceInv
  <2>3. a \in sent
    <3>1. PlaceCalls(p, Depth(p))
      BY <2>1 DEF StackCalls
    <3> QED
      BY <1>1, <2>1, <2>2, <3>1 DEF PlaceCalls
  <2>4. a \in Calls
    BY <2>1, <2>3 DEF TypeOK
  <2> QED
    BY <2>1, <2>2, <2>3, <2>4 DEF Takes
<1>4. \A c \in Calls : \A q \in Procs : Due(c, q)' <=> Due(c, q)
  BY <1>1, <1>2 DEF Due, SameRequests, Fetching
<1>5. /\ \A q \in Procs \ {p} : Top(q)' = Top(q)
      /\ Top(p)'.at = "waiting" /\ Top(p)'.call = a
      /\ \E f : Replaces(p, f) /\ f.call = a
  <2>1. /\ Replaces(p, With(Top(p), "waiting")) /\ With(Top(p), "waiting").call = a
        /\ With(Top(p), "waiting").at = "waiting"
    BY Actions, Tops, Frames DEF Replaced, Labels
  <2> QED
    BY <2>1, Types, Replacing
<1>6. \A c \in Calls : \A q \in Procs : Takes(q, c)' <=> Takes(q, c)
  <2>1. \A c \in Calls : c # NoCall
    BY BoundsAssumption DEF NoCall, Calls
  <2> QED
    BY <1>2, <1>5, <2>1, TakesGrow, TakesStay
<1> HIDE DEF a
<1>7. /\ \A c \in Calls \ {a} : arrived'[c] = arrived[c] /\ opened'[c] = opened[c]
      /\ arrived'[a] = arrived[a] \cup {p}
      /\ opened'[a] = (opened[a] \/ arrived[a] \cup {p} = Procs)
  BY <1>1, <1>3 DEF TypeOK
<1>8. ASSUME NEW c \in Calls, Meeting(c)
      PROVE  MeetingInv(c)'
  <2>1. MeetingInv(c)
    BY <1>8 DEF RendezvousInv
  <2>2. CASE c = a
    <3>1. ~Due(c, p)
      BY <1>3, <2>1, <2>2 DEF MeetingInv
    <3>2. Forced(c)'
      BY <1>1, <1>4, <2>1 DEF MeetingInv, Forced, One
    <3>3. opened'[c] => arrived'[c] = Procs
      BY <1>7, <2>1, <2>2 DEF MeetingInv
    <3>4. ASSUME NEW q \in Procs
          PROVE  /\ q \in arrived'[c] =>
                       opened'[c] \/ (At(q, "waiting")' /\ Top(q)'.call = c)
                 /\ q \in arrived'[c] \/ Due(c, q)' \/ Takes(q, c)'
                 /\ Due(c, q)' => q \notin arrived'[c] /\ ~Takes(q, c)'
      BY <1>4, <1>5, <1>6, <1>7, <2>1, <2>2, <3>1 DEF MeetingInv, At
    <3> QED
      BY <3>2, <3>3, <3>4 DEF MeetingInv
  <2>3. CASE c # a
    <3>1. arrived'[c] = arrived[c] /\ begun'[c] = begun[c] /\ opened'[c] = opened[c]
      BY <1>1, <1>7, <2>3
    <3>2. p \in arrived[c] => opened[c]
      BY <1>1, <2>1 DEF MeetingInv, At
    <3> QED
      BY <1>4, <1>5, <1>6, <2>1, <3>1, <3>2, MeetingKept
  <2> QED
    BY <2>2, <2>3
<1>9. ASSUME NEW c \in Calls \ sent', level'[c] \in Rendezvous \cup {-1}
      PROVE  QuietCall(c)'
  BY <1>1, <1>3, <1>7, <1>9 DEF RendezvousInv, QuietCall
<1>10. ASSUME NEW q \in Procs, NEW l \in Rendezvous
       PROVE  RequestInv(q, l)'
  BY <1>1, <1>2, <1>10, RequestsKept DEF RendezvousInv, SameRequests, Signalled
<1>11. \A c \in Calls : Meeting(c)' <=> Meeting(c)
  BY <1>1 DEF Meeting
<1> QED
  BY <1>8, <1>9, <1>10, <1>11 DEF RendezvousInv

\* A top that is replaced by one of the same call.
LEMMA TakesSame ==
  ASSUME TypeOK, StackInv, StackTypes', NEW p \in Procs, NEW f, Replaces(p, f),
         NEW q \in Procs, NEW c,
         \/ f.call = Top(p).call
         \/ f.call # c /\ Top(p).call # c
         \/ q # p
  PROVE  Takes(q, c)' <=> Takes(q, c)
<1>1. StackTypes /\ Top(p) = Doing(p, Depth(p))
  BY Types, Tops
<1>2. /\ Depth(q)' = Depth(q)
      /\ \A d \in 1 .. Depth(q) :
            Doing(q, d)' = IF q = p /\ d = Depth(p) THEN f ELSE Doing(q, d)
  BY <1>1, Replacing
<1>3. \A d \in 1 .. Depth(q) : Doing(q, d)'.call = c <=> Doing(q, d).call = c
  BY <1>1, <1>2
<1> QED
  BY <1>2, <1>3 DEF Takes

\* A handler is stored: nobody needs the one before it.
LEMMA StoreRendezvous ==
  ASSUME TypeOK, StackInv, LockInv, AcksInv, CallInv, StackCalls, RendezvousInv,
         StackTypes', NEW p \in Procs, StoreHandler(p)
  PROVE  RendezvousInv'
<1> DEFINE l == Top(p).level
<1>1. /\ UNCHANGED <<level, sent, begun, arrived, opened, calls>>
      /\ At(p, "locked") /\ Pending(p, AtMost(l)) = {} /\ Plain(p)
      /\ handlers' = [handlers EXCEPT ![l] = Top(p).call]
  BY DEF StoreHandler, Step, sync, Plain
<1>2. SameRequests
  BY <1>1, PlainRequests
<1>3. \A q \in Procs : \A k : Requested(q, k)' <=> Requested(q, k)
  BY <1>2 DEF SameRequests, Requested, Signalled
<1>4. l \in Rendezvous => \A q \in Procs : ~Requested(q, l)
  BY <1>1, NobodyIsDue
<1>5. \A k \in Levels : k # l => handlers'[k] = handlers[k]
  BY <1>1 DEF TypeOK
<1>6. /\ Replaces(p, With(Top(p), "test")) /\ With(Top(p), "test").call = Top(p).call
  BY Actions, Tops, Frames DEF Replaced, Labels
<1>7. \A q \in Procs \ {p} : Top(q)' = Top(q)
  BY <1>6, Types, Replacing
<1> HIDE DEF l
<1>8. ASSUME NEW c \in Calls, Meeting(c)
      PROVE  MeetingInv(c)'
  <2>1. MeetingInv(c) /\ level[c] \in Rendezvous /\ level[c] \in Levels
    BY <1>8, LevelsAssumption DEF RendezvousInv, Meeting
  <2>2. ASSUME NEW q \in Procs
        PROVE  Due(c, q)' <=> Due(c, q)
    <3>1. Due(c, q) <=> handlers[level[c]] = c /\ Requested(q, level[c])
      BY DueIs
    <3>2. Due(c, q)' <=> handlers'[level[c]] = c /\ Requested(q, level[c])'
      BY <1>1 DEF Due, Requested, Signalled, Fetching
    <3>3. Requested(q, level[c])' <=> Requested(q, level[c])
      BY <1>1, <1>2 DEF SameRequests, Requested, Signalled
    <3> QED
      BY <1>4, <1>5, <2>1, <3>1, <3>2, <3>3
  <2>3. \A q \in Procs : Takes(q, c)' <=> Takes(q, c)
    BY <1>6, TakesSame
  <2>4. p \in arrived[c] => opened[c]
    BY <1>1, <2>1 DEF MeetingInv, At
  <2> QED
    BY <1>1, <1>7, <2>1, <2>2, <2>3, <2>4, MeetingKept
<1>9. ASSUME NEW c \in Calls \ sent', level'[c] \in Rendezvous \cup {-1}
      PROVE  QuietCall(c)'
  BY <1>1, <1>9 DEF RendezvousInv, QuietCall
<1>10. ASSUME NEW q \in Procs, NEW k \in Rendezvous
       PROVE  RequestInv(q, k)'
  <2>1. k \in Levels /\ RequestInv(q, k)
    BY <1>10, LevelsAssumption DEF RendezvousInv
  <2>2. CASE k = l
    <3>1. ~Requested(q, k)'
      BY <1>3, <1>4, <1>10, <2>2
    <3> QED
      BY <3>1 DEF RequestInv, Requested
  <2>3. CASE k # l
    BY <1>1, <1>2, <1>3, <1>5, <2>1, <2>3 DEF RequestInv, SameRequests, Signalled
  <2> QED
    BY <2>2, <2>3
<1>11. \A c \in Calls : Meeting(c)' <=> Meeting(c)
  BY <1>1 DEF Meeting
<1> QED
  BY <1>8, <1>9, <1>10, <1>11 DEF RendezvousInv

\* The signal is sent: everybody else is due to begin the WORK.
LEMMA SignalRendezvous ==
  ASSUME TypeOK, StackInv, LockInv, AcksInv, CallInv, StackCalls, RendezvousInv,
         StackTypes', NEW p \in Procs, Signal(p)
  PROVE  RendezvousInv'
<1>0. PICK l, a : l = Top(p).level /\ a = Top(p).call
  OBVIOUS
<1>1. /\ UNCHANGED <<handlers, level, begun, arrived, opened, calls>>
      /\ sent' = sent \cup {a} /\ Top(p).at = "signal"
  BY <1>0 DEF Signal, Step, At, sync
<1>2. /\ \A q \in Procs : ~signal[q]
      /\ sigData' = l /\ signal' = [q \in Procs |-> q # p]
      /\ UNCHANGED code
      /\ \A q \in Procs : \A k : Fetching(q, k)' <=> Fetching(q, k)
      /\ \A k : ~Fetching(p, k)
  BY <1>0, SignalRequests
<1>3. /\ Top(p) = Doing(p, Depth(p)) /\ Depth(p) \in 1 .. Depth(p)
      /\ a \in 1 .. calls /\ level[a] = l /\ l \in Levels
      /\ a \notin sent /\ handlers[l] = a /\ Takes(p, a)
  <2>1. /\ Top(p) = Doing(p, Depth(p)) /\ Depth(p) \in 1 .. Depth(p)
        /\ a \in 1 .. calls /\ level[a] = l /\ l \in Levels
    BY <1>0, <1>1, Tops
  <2>2. PlaceCalls(p, Depth(p))
    BY <2>1 DEF StackCalls
  <2> QED
    BY <1>0, <1>1, <2>1, <2>2 DEF PlaceCalls, Takes, Unasked
<1>4. /\ Replaces(p, With(Top(p), "acks"))
        /\ With(Top(p), "acks").call = Top(p).call
  BY Actions, Tops, Frames DEF Replaced, Labels
<1>5. \A q \in Procs \ {p} : Top(q)' = Top(q)
  BY <1>4, Types, Replacing
<1>6. \A q \in Procs : \A c : Takes(q, c)' <=> Takes(q, c)
  BY <1>4, TakesSame
<1>7. l \in Rendezvous => \A q \in Procs : ~Requested(q, l)
  BY <1>3 DEF RendezvousInv, RequestInv
<1>8. l \in Rendezvous => \A q \in Procs \ {p} : ~Takes(q, a)
  BY <1>0, <1>1, <1>3 DEF Takes, StackCalls, Unasked
<1>9. ASSUME NEW q \in Procs, NEW k \in Levels, k # l
      PROVE  /\ Signalled(q, k)' <=> Signalled(q, k)
             /\ Requested(q, k)' <=> Requested(q, k)
  BY <1>2, <1>9 DEF Requested, Signalled
<1>10. ASSUME NEW c \in Calls, Meeting(c), c # a
       PROVE  MeetingInv(c)'
  <2>1. MeetingInv(c) /\ level[c] \in Levels
    BY <1>10, LevelsAssumption DEF RendezvousInv, Meeting
  <2>2. ASSUME NEW q \in Procs
        PROVE  Due(c, q)' <=> Due(c, q)
    <3>1. CASE level[c] = l
      BY <1>1, <1>3, <1>10, <3>1 DEF Due
    <3>2. CASE level[c] # l
      BY <1>1, <1>2, <3>2 DEF Due, Fetching
    <3> QED
      BY <3>1, <3>2
  <2>3. p \in arrived[c] => opened[c]
    BY <1>1, <2>1 DEF MeetingInv, At
  <2> QED
    BY <1>1, <1>5, <1>6, <2>1, <2>2, <2>3, MeetingKept
<1>11. ASSUME l \in Rendezvous, a \in Calls
       PROVE  MeetingInv(a)'
  <2>1. QuietCall(a)
    BY <1>3, <1>11 DEF RendezvousInv
  <2>2. \A q \in Procs : Due(a, q)' <=> q # p
    <3>1. \A q \in Procs : signal'[q] <=> q # p
      BY <1>2
    <3>2. \A q \in Procs : l \notin code[q] /\ ~Fetching(q, l)
      BY <1>7, <1>11 DEF Requested
    <3>3. \A q \in Procs : l \notin code'[q] /\ ~Fetching(q, l)'
      BY <1>2, <3>2
    <3> QED
      BY <1>1, <1>2, <1>3, <3>1, <3>3 DEF Due, Fetching
  <2>3. Forced(a)'
    BY <1>1, <2>1, <2>2 DEF QuietCall, Forced, One
  <2> QED
    BY <1>1, <1>3, <1>6, <1>8, <1>11, <2>1, <2>2, <2>3 DEF MeetingInv, QuietCall
<1>12. \A c \in Calls : Meeting(c)' <=> Meeting(c) \/ (c = a /\ l \in Rendezvous)
  BY <1>1, <1>3 DEF Meeting
<1>13. ASSUME NEW c \in Calls \ sent', level'[c] \in Rendezvous \cup {-1}
       PROVE  QuietCall(c)'
  BY <1>1, <1>13 DEF RendezvousInv, QuietCall
<1>14. ASSUME NEW q \in Procs, NEW k \in Rendezvous
       PROVE  RequestInv(q, k)'
  <2>1. k \in Levels /\ RequestInv(q, k)
    BY <1>14, LevelsAssumption DEF RendezvousInv
  <2>2. CASE k = l
    <3>1. handlers'[k] \in sent'
      BY <1>1, <1>3, <2>2
    <3>2. k \notin code'[q] /\ ~Fetching(q, k)'
      BY <1>2, <1>7, <1>14, <2>2 DEF Requested
    <3> QED
      BY <3>1, <3>2 DEF RequestInv
  <2>3. CASE k # l
    BY <1>1, <1>2, <1>9, <2>1, <2>3 DEF RequestInv
  <2> QED
    BY <2>2, <2>3
<1>15. ASSUME NEW c \in Calls, Meeting(c)'
       PROVE  MeetingInv(c)'
  <2>1. CASE c = a
    BY <1>11, <1>12, <1>15, <1>1, <1>3, <2>1 DEF Meeting
  <2>2. CASE c # a
    BY <1>10, <1>12, <1>15, <2>2
  <2> QED
    BY <2>1, <2>2
<1> QED
  BY <1>13, <1>14, <1>15 DEF RendezvousInv

\* A handler is fetched and its WORK is begun.
LEMMA FetchRendezvous ==
  ASSUME TypeOK, StackInv, CallInv, StackCalls, RendezvousInv, StackTypes',
         NEW p \in Procs, Fetch(p)
  PROVE  RendezvousInv'
<1>0. PICK l, a : l = Top(p).level /\ a = handlers[l]
  OBVIOUS
<1>1. /\ UNCHANGED <<handlers, level, sent, arrived, opened, calls>>
      /\ Top(p).at = "fetch" /\ begun' = [begun EXCEPT ![a][p] = @ + 1]
  BY <1>0 DEF Fetch, At, sync, send
<1>2. /\ UNCHANGED <<signal, sigData, code>>
      /\ Fetching(p, l)
      /\ \A q \in Procs : \A k : Fetching(q, k)' <=> Fetching(q, k) /\ q # p
  BY <1>0, FetchRequests
<1>3. /\ Replaces(p, Working(Top(p))) /\ a \in 1 .. calls /\ level[a] = l
      /\ Working(Top(p)).call = a /\ Top(p).call = NoCall /\ l \in Levels
      /\ a \in Calls /\ a # NoCall
  <2>1. Replaces(p, Working(Top(p))) /\ a \in 1 .. calls /\ level[a] = l
    BY <1>0, CallsAndFetches
  <2>2. Working(Top(p)).call = a
    BY <1>0, Tops DEF Working, Frame
  <2>3. Top(p).call = NoCall /\ l \in Levels
    BY <1>0, <1>1, Tops DEF PlaceInv
  <2>4. a # NoCall
    BY <2>1, Types DEF NoCall
  <2> QED
    BY <1>0, <2>1, <2>2, <2>3, <2>4 DEF TypeOK
<1>4. \A q \in Procs \ {p} : Top(q)' = Top(q)
  BY <1>3, Types, Replacing
<1>5. \A q \in Procs : \A c : q # p \/ c \notin {a, NoCall} =>
         (Takes(q, c)' <=> Takes(q, c))
  BY <1>3, TakesSame
<1>6. Takes(p, a)'
  <2>1. /\ Depth(p)' = Depth(p) /\ Depth(p) \in 1 .. Depth(p)
        /\ \A d \in 1 .. Depth(p) : d = Depth(p) => Doing(p, d)' = Working(Top(p))
    BY <1>3, Types, Replacing
  <2>2. \E d \in 1 .. Depth(p) : Doing(p, d)'.call = a
    BY <1>3, <2>1
  <2> QED
    BY <2>1, <2>2 DEF Takes
<1>7. l \in Rendezvous => a \in sent /\ ~Signalled(p, l) /\ l \notin code[p]
  BY <1>0, <1>2 DEF RendezvousInv, RequestInv, Requested
<1>8. \A c \in Calls : begun'[c] = IF c = a THEN [begun[a] EXCEPT ![p] = @ + 1]
                                   ELSE begun[c]
  BY <1>1, <1>3 DEF TypeOK
<1>9. \A k : k # l => ~Fetching(p, k)
  BY <1>0 DEF Fetching
<1>10. ASSUME NEW c \in Calls, Meeting(c)
       PROVE  MeetingInv(c)'
  <2>1. MeetingInv(c) /\ level[c] \in Levels /\ level[c] \in Rendezvous
    BY <1>10, LevelsAssumption DEF RendezvousInv, Meeting
  <2>2. c # NoCall
    BY BoundsAssumption DEF NoCall, Calls
  <2>3. ASSUME NEW q \in Procs
        PROVE  Due(c, q)' <=> Due(c, q) /\ ~(c = a /\ q = p)
    <3>1. CASE level[c] # l \/ q # p
      BY <1>1, <1>2, <1>3, <1>9, <2>3, <3>1 DEF Due, Fetching
    <3>2. CASE level[c] = l /\ q = p
      <4>1. ~Requested(q, level[c])'
        BY <1>1, <1>2, <1>7, <2>1, <3>2 DEF Requested, Signalled
      <4>2. ~Due(c, q)'
        BY <1>1, <4>1 DEF Due, Requested, Signalled, Fetching
      <4>3. c # a => ~Due(c, q)
        BY <1>0, <3>2 DEF Due
      <4> QED
        BY <3>2, <4>2, <4>3
    <3> QED
      BY <3>1, <3>2
  <2>4. CASE c = a
    <3>1. Due(a, p)
      BY <1>0, <1>2, <1>3 DEF Due, Fetching, At
    <3>2. /\ \A q \in Procs : begun'[c][q] = IF q = p THEN begun[c][q] + 1
                                             ELSE begun[c][q]
          /\ \A q \in Procs : begun[c][q] \in Nat
      BY <1>8, <2>4 DEF TypeOK
    <3>3. Forced(c)'
      <4>1. PICK caller \in Procs :
               /\ begun[c][caller] = 0 /\ ~Due(c, caller)
               /\ \A q \in Procs \ {caller} : begun[c][q] + One(Due(c, q)) = 1
        BY <2>1 DEF MeetingInv, Forced
      <4>2. caller # p
        BY <2>4, <3>1, <4>1
      <4>3. begun[c][p] = 0
        BY <2>4, <3>1, <3>2, <4>1, <4>2 DEF One
      <4>4. begun'[c][caller] = 0 /\ ~Due(c, caller)'
        BY <2>3, <3>2, <4>1, <4>2
      <4>5. ASSUME NEW q \in Procs \ {caller}
            PROVE  begun'[c][q] + One(Due(c, q)') = 1
        BY <2>3, <2>4, <3>2, <4>1, <4>3 DEF One
      <4> QED
        BY <4>1, <4>4, <4>5 DEF Forced, One
    <3>4. p \notin arrived[c]
      BY <2>1, <2>4, <3>1 DEF MeetingInv
    <3>5. ASSUME NEW q \in Procs
          PROVE  /\ q \in arrived'[c] =>
                       opened'[c] \/ (At(q, "waiting")' /\ Top(q)'.call = c)
                 /\ q \in arrived'[c] \/ Due(c, q)' \/ Takes(q, c)'
                 /\ Due(c, q)' => q \notin arrived'[c] /\ ~Takes(q, c)'
      <4>1. CASE q = p
        BY <1>1, <1>6, <2>3, <2>4, <3>4, <4>1
      <4>2. CASE q # p
        BY <1>1, <1>4, <1>5, <2>1, <2>3, <4>2 DEF MeetingInv, At
      <4> QED
        BY <4>1, <4>2
    <3>6. opened'[c] => arrived'[c] = Procs
      BY <1>1, <2>1 DEF MeetingInv
    <3> QED
      BY <3>3, <3>5, <3>6 DEF MeetingInv
  <2>5. CASE c # a
    <3>1. /\ \A q \in Procs : Due(c, q)' <=> Due(c, q)
          /\ \A q \in Procs : Takes(q, c)' <=> Takes(q, c)
      BY <1>5, <2>2, <2>3, <2>5
    <3>2. begun'[c] = begun[c]
      BY <1>8, <2>5
    <3>3. p \in arrived[c] => opened[c]
      BY <1>1, <2>1 DEF MeetingInv, At
    <3> QED
      BY <1>1, <1>4, <2>1, <3>1, <3>2, <3>3, MeetingKept
  <2> QED
    BY <2>4, <2>5
<1>11. ASSUME NEW c \in Calls \ sent', level'[c] \in Rendezvous \cup {-1}
       PROVE  QuietCall(c)'
  <2>1. QuietCall(c)
    BY <1>1, <1>11 DEF RendezvousInv
  <2>2. c # a
    <3>1. l # -1
      BY <1>3, LevelsAssumption
    <3> QED
      BY <1>1, <1>3, <1>7, <1>11, <3>1
  <2> QED
    BY <1>1, <1>8, <2>1, <2>2 DEF QuietCall
<1>12. ASSUME NEW q \in Procs, NEW k \in Rendezvous
       PROVE  RequestInv(q, k)'
  BY <1>1, <1>2, <1>12, RequestsKept DEF RendezvousInv, Signalled
<1>13. \A c \in Calls : Meeting(c)' <=> Meeting(c)
  BY <1>1 DEF Meeting
<1> QED
  BY <1>10, <1>11, <1>12, <1>13 DEF RendezvousInv

\* A new call is not known of.
LEMMA CallRendezvous ==
  ASSUME TypeOK, StackInv, CallInv, StackCalls, RendezvousInv, StackTypes',
         NEW p \in Procs, NEW m \in Levels, Call(p, m)
  PROVE  RendezvousInv'
<1>1. /\ UNCHANGED <<handlers, sent, begun, arrived, opened>>
      /\ calls' = calls + 1 /\ level' = [level EXCEPT ![calls + 1] = m]
      /\ Top(p).at # "waiting" /\ calls \in Nat
  BY LevelsAssumption, Types DEF Call, sync, send, At
<1>2. SameRequests
  BY PlainRequests
<1>3. Covers(p, Top(p), Calling(p, m)) /\ Calling(p, m).call = calls + 1
  BY CallsAndFetches DEF Calling
<1>4. \A q \in Procs \ {p} : Top(q)' = Top(q)
  BY <1>3, Types, Covering
<1>5. \A c \in Calls : c # calls + 1 => level'[c] = level[c]
  BY <1>1 DEF TypeOK
<1>6. \A c \in sent : c \in Calls /\ c # calls + 1
  BY <1>1 DEF CallInv, TypeOK
<1>7. ASSUME NEW c \in Calls, Meeting(c)
      PROVE  MeetingInv(c)'
  <2>1. MeetingInv(c) /\ c \in sent
    BY <1>7 DEF RendezvousInv, Meeting
  <2>2. \A q \in Procs : Due(c, q)' <=> Due(c, q)
    BY <1>1, <1>2, <1>5, <1>6, <2>1 DEF Due, SameRequests, Fetching
  <2>3. ASSUME NEW q \in Procs
        PROVE  Takes(q, c)' <=> Takes(q, c)
    <3>1. Takes(q, c) => Takes(q, c)'
      BY <1>3, TakesStay
    <3>2. ASSUME Takes(q, c)'
          PROVE  Takes(q, c)
      <4>1. PICK d \in 1 .. Depth(q)' : Doing(q, d)'.call = c
        BY <3>2 DEF Takes
      <4>2. \/ d \in 1 .. Depth(q) /\ Follows(Doing(q, d), Doing(q, d)')
            \/ q = p /\ d = Depth(p) + 1 /\ Doing(q, d)' = Calling(p, m)
        BY <1>3, FollowsItself, CoveredFollows
      <4> QED
        BY <1>3, <1>6, <2>1, <4>1, <4>2 DEF Takes, Follows
    <3> QED
      BY <3>1, <3>2
  <2>4. p \in arrived[c] => opened[c]
    BY <1>1, <2>1 DEF MeetingInv, At
  <2> QED
    BY <1>1, <1>4, <2>1, <2>2, <2>3, <2>4, MeetingKept
<1>8. ASSUME NEW c \in Calls \ sent', level'[c] \in Rendezvous \cup {-1}
      PROVE  QuietCall(c)'
  <2>1. level[c] \in Rendezvous \cup {-1}
    <3>1. CASE c = calls + 1
      <4>1. level[c] \notin Levels
        BY <1>1, <3>1 DEF CallInv
      <4> QED
        BY <4>1 DEF TypeOK
    <3>2. CASE c # calls + 1
      BY <1>5, <1>8, <3>2
    <3> QED
      BY <3>1, <3>2
  <2> QED
    BY <1>1, <1>8, <2>1 DEF RendezvousInv, QuietCall
<1>9. ASSUME NEW q \in Procs, NEW l \in Rendezvous
      PROVE  RequestInv(q, l)'
  BY <1>1, <1>2, <1>9, RequestsKept DEF RendezvousInv, SameRequests, Signalled
<1>10. \A c \in Calls : Meeting(c)' <=> Meeting(c)
  BY <1>1, <1>5, <1>6 DEF Meeting
<1> QED
  BY <1>7, <1>8, <1>9, <1>10 DEF RendezvousInv

\* A signal becomes an interrupt bit.
LEMMA DeliverRendezvous ==
  ASSUME TypeOK, StackInv, CallInv, StackCalls, RendezvousInv,
         NEW p \in Procs, Deliver(p)
  PROVE  RendezvousInv'
<1>1. UNCHANGED <<handlers, level, sent, begun, arrived, opened, calls, stack>>
  BY DEF Deliver, sync
<1>2. /\ signal[p] /\ sigData' = sigData
      /\ signal' = [signal EXCEPT ![p] = FALSE]
      /\ code' = [code EXCEPT ![p] = @ \cup {sigData}]
      /\ \A q \in Procs : \A k : Fetching(q, k)' <=> Fetching(q, k)
  BY DeliverRequests
<1>3. ASSUME NEW q \in Procs, NEW k
      PROVE  Requested(q, k)' <=> Requested(q, k)
  BY <1>2 DEF Requested, Signalled, TypeOK
<1>4. ASSUME NEW c \in Calls, Meeting(c)
      PROVE  MeetingInv(c)'
  <2>1. MeetingInv(c)
    BY <1>4 DEF RendezvousInv
  <2>2. ASSUME NEW q \in Procs
        PROVE  Due(c, q)' <=> Due(c, q)
    BY <1>1, <1>2 DEF Due, Fetching, TypeOK
  <2>3. \A q \in Procs : (Takes(q, c)' <=> Takes(q, c)) /\ Top(q)' = Top(q)
    BY <1>1 DEF Takes, Top, Doing, Depth
  <2> QED
    BY <1>1, <2>1, <2>2, <2>3, MeetingKept
<1>5. ASSUME NEW c \in Calls \ sent', level'[c] \in Rendezvous \cup {-1}
      PROVE  QuietCall(c)'
  BY <1>1, <1>5 DEF RendezvousInv, QuietCall
<1>6. ASSUME NEW q \in Procs, NEW l \in Rendezvous
      PROVE  RequestInv(q, l)'
  <2>1. RequestInv(q, l)
    BY DEF RendezvousInv
  <2>2. CASE q = p /\ l = sigData
    <3>1. Signalled(q, l) /\ ~Signalled(q, l)' /\ ~Fetching(q, l)'
      BY <1>2, <2>1, <2>2 DEF Signalled, RequestInv, TypeOK
    <3>2. handlers'[l] \in sent'
      BY <1>1, <2>1, <3>1 DEF RequestInv, Requested
    <3> QED
      BY <3>1, <3>2 DEF RequestInv
  <2>3. CASE ~(q = p /\ l = sigData)
    BY <1>1, <1>2, <2>1, <2>3, RequestsKept DEF Signalled, TypeOK
  <2> QED
    BY <2>2, <2>3
<1>7. \A c \in Calls : Meeting(c)' <=> Meeting(c)
  BY <1>1 DEF Meeting
<1> QED
  BY <1>4, <1>5, <1>6, <1>7 DEF RendezvousInv

\* Every step keeps RendezvousInv.
LEMMA RendezvousStep ==
  ASSUME TypeOK, StackInv, LockInv, AcksInv, CallInv, StackCalls, RendezvousInv,
         StackTypes', [Next]_vars
  PROVE  RendezvousInv'
<1>1. CASE UNCHANGED vars
  <2>1. \A q : \A k : Requested(q, k)' <=> Requested(q, k)
    BY <1>1 DEF vars, send, Requested, Signalled, Fetching, At, Top
  <2>2. \A c : \A q : (Due(c, q)' <=> Due(c, q)) /\ (Takes(q, c)' <=> Takes(q, c))
    BY <1>1 DEF vars, send, Due, At, Top, Takes, Doing, Depth
  <2>3. \A q : Top(q)' = Top(q)
    BY <1>1 DEF vars, Top
  <2>4. UNCHANGED <<level, sent, handlers, begun, arrived, opened, signal, sigData,
                    code>>
    BY <1>1 DEF vars, send, sync
  <2>5. ASSUME NEW c \in Calls, Meeting(c)
        PROVE  MeetingInv(c)'
    BY <2>2, <2>3, <2>4, <2>5, MeetingKept DEF RendezvousInv
  <2>6. ASSUME NEW q \in Procs, NEW l \in Rendezvous
        PROVE  RequestInv(q, l)'
    <3>1. RequestInv(q, l) /\ (Fetching(q, l)' <=> Fetching(q, l))
      BY <2>3 DEF RendezvousInv, Fetching, At
    <3> QED
      BY <2>4, <3>1, RequestsKept DEF Signalled
  <2>7. ASSUME NEW c \in Calls \ sent', level'[c] \in Rendezvous \cup {-1}
        PROVE  QuietCall(c)'
    BY <2>4, <2>7 DEF RendezvousInv, QuietCall
  <2>8. \A c \in Calls : Meeting(c)' <=> Meeting(c)
    BY <2>4 DEF Meeting
  <2> QED
    BY <2>5, <2>6, <2>7, <2>8 DEF RendezvousInv
<1>2. ASSUME NEW p \in Procs, Proceed(p)
      PROVE  RendezvousInv'
  <2>1. CASE Arrive(p)
    BY <2>1, ArriveRendezvous
  <2>2. CASE StoreHandler(p)
    BY <2>2, StoreRendezvous
  <2>3. CASE Plain(p) /\ ~Arrive(p) /\ ~StoreHandler(p)
    BY <2>3, PlainRendezvous
  <2>4. CASE Interrupting(p)
    BY <2>4, InterruptRendezvous
  <2>5. CASE Signal(p)
    BY <2>5, SignalRendezvous
  <2>6. CASE Fetch(p)
    BY <2>6, FetchRendezvous
  <2> QED
    BY <1>2, <2>1, <2>2, <2>3, <2>4, <2>5, <2>6 DEF Proceed, Plain, Interrupting
<1> QED
  BY <1>1, <1>2, DeliverRendezvous, CallRendezvous DEF Next

-----------------------------------------------------------------------------
(* While a collection comes together *)

Between == {"test", "signal", "acks"}

\* Nobody comes between the TEST and the last acknowledgement.
LEMMA CollectKept ==
  ASSUME CollectInv, UNCHANGED <<sent, level>>,
         \A c \in Calls : opened[c] => opened'[c],
         \A q \in Procs : \A d \in 1 .. Depth(q)' :
            Doing(q, d)'.at \in Between =>
               /\ d \in 1 .. Depth(q) /\ Doing(q, d).at \in Between
               /\ Doing(q, d)'.call = Doing(q, d).call
  PROVE  CollectInv'
  BY DEF CollectInv, Meeting, Between

\* Such steps are those where all places follow those before.
LEMMA FollowsCollect ==
  ASSUME FollowsAll, NEW q \in Procs, NEW d \in 1 .. Depth(q)',
         Doing(q, d)'.at \in Between
  PROVE  /\ d \in 1 .. Depth(q) /\ Doing(q, d).at \in Between
         /\ Doing(q, d)'.call = Doing(q, d).call
<1>1. d \in 1 .. Depth(q) /\ Follows(Doing(q, d), Doing(q, d)')
  BY DEF FollowsAll, Between
<1> QED
  BY <1>1 DEF Follows, Between

\* Every step keeps CollectInv.
LEMMA CollectStep ==
  ASSUME TypeOK, StackInv, LockInv, AcksInv, CallInv, StackCalls, RendezvousInv,
         CollectInv, StackTypes', [Next]_vars
  PROVE  CollectInv'
<1>1. StackTypes
  BY Types
<1>2. ASSUME UNCHANGED <<stack, sent, level, opened>>
      PROVE  CollectInv'
  <2>1. \A q \in Procs : \A d \in 1 .. Depth(q)' :
           Doing(q, d)' = Doing(q, d) /\ d \in 1 .. Depth(q)
    BY <1>2 DEF Doing, Depth
  <2> QED
    BY <1>2, <2>1, CollectKept
<1>3. ASSUME NEW p \in Procs, (Plain(p) /\ ~StoreHandler(p)) \/ Interrupting(p)
      PROVE  CollectInv'
  <2>1. UNCHANGED <<sent, level>>
    BY <1>3 DEF Plain, Lock, TestTrue, TestFalse, Acknowledged, Unlock, Meet, Return,
                Arrive, Pass, Interrupting, TakeInterrupt, SpinInterrupted,
                LockedInterrupted, BackOut
  <2>2. \A c \in Calls : opened[c] => opened'[c]
    <3>1. CASE Arrive(p)
      BY <3>1 DEF Arrive, TypeOK
    <3>2. CASE ~Arrive(p)
      BY <1>3, <3>2 DEF Plain, Lock, TestTrue, TestFalse, Acknowledged, Unlock, Meet,
                Return, Pass, Interrupting, TakeInterrupt, SpinInterrupted,
                LockedInterrupted, BackOut, sync
    <3> QED
      BY <3>1, <3>2
  <2>3. FollowsAll
    BY <1>3, PlainFollows, InterruptFollows
  <2> QED
    BY <2>1, <2>2, <2>3, FollowsCollect, CollectKept
\* Who stores a handler would be between them, but no collection comes together.
<1>4. ASSUME NEW p \in Procs, StoreHandler(p)
      PROVE  CollectInv'
  <2>1. /\ UNCHANGED <<sent, level, opened>> /\ At(p, "locked")
        /\ Pending(p, AtMost(Top(p).level)) = {}
    BY <1>4 DEF StoreHandler, Step, sync
  <2>2. ASSUME NEW c \in Calls, Meeting(c), level[c] = 0
        PROVE  opened[c]
    BY <2>1, <2>2, AllHaveMet
  <2> QED
    BY <2>1, <2>2 DEF CollectInv, Meeting
\* Who sends a signal was there before.
<1>5. ASSUME NEW p \in Procs, Signal(p)
      PROVE  CollectInv'
  <2>1. /\ UNCHANGED <<level, opened>> /\ sent' = sent \cup {Top(p).call}
        /\ Top(p).at = "signal"
    BY <1>5 DEF Signal, Step, At, sync
  <2>2. /\ Top(p) = Doing(p, Depth(p)) /\ Depth(p) \in 1 .. Depth(p)
        /\ Top(p).call \notin sent
    <3>1. Top(p) = Doing(p, Depth(p)) /\ Depth(p) \in 1 .. Depth(p)
      BY Tops
    <3> QED
      BY <2>1, <3>1 DEF StackCalls, PlaceCalls, Unasked
  <2>3. /\ Replaces(p, With(Top(p), "acks"))
        /\ With(Top(p), "acks").call = Top(p).call
    BY <1>5, Actions, Tops, Frames DEF Replaced, Labels
  <2>4. \A q \in Procs : \A d \in 1 .. Depth(q)' :
           /\ d \in 1 .. Depth(q)
           /\ Doing(q, d)' = IF q = p /\ d = Depth(p) THEN With(Top(p), "acks")
                             ELSE Doing(q, d)
    BY <1>1, <2>3, Replacing
  <2> SUFFICES ASSUME NEW c \in Calls, Meeting(c)', level'[c] = 0, ~opened'[c],
                      NEW q \in Procs, NEW d \in 1 .. Depth(q)',
                      Doing(q, d)'.at \in Between
               PROVE  Doing(q, d)'.call = c
    BY DEF CollectInv, Between
  <2>5. CASE Meeting(c)
    <3>1. Top(p).call = c
      BY <2>1, <2>2, <2>5 DEF CollectInv
    <3> QED
      BY <2>2, <2>5, <3>1 DEF Meeting
  <2>6. CASE ~Meeting(c)
    <3>1. c = Top(p).call
      BY <2>1, <2>6 DEF Meeting
    <3>2. CASE q = p /\ d = Depth(p)
      BY <2>3, <2>4, <3>1, <3>2
    <3>3. CASE ~(q = p /\ d = Depth(p))
      <4>1. d \in 1 .. Depth(q) /\ Doing(q, d).at \in Owning
        BY <2>4, <3>3 DEF Between, Owning
      <4> QED
        BY <2>1, <3>3, <4>1, OneOwner DEF Owning
    <3> QED
      BY <3>2, <3>3
  <2> QED
    BY <2>5, <2>6
<1>6. ASSUME NEW p \in Procs, Fetch(p)
      PROVE  CollectInv'
  <2>1. Replaces(p, Working(Top(p))) /\ UNCHANGED <<sent, level, opened>>
    BY <1>6, CallsAndFetches DEF Fetch, sync
  <2>2. Working(Top(p)).at = "work"
    BY Tops DEF Working, Frame
  <2>3. \A q \in Procs : \A d \in 1 .. Depth(q)' :
           /\ d \in 1 .. Depth(q)
           /\ Doing(q, d)' = IF q = p /\ d = Depth(p) THEN Working(Top(p))
                             ELSE Doing(q, d)
    BY <1>1, <2>1, Replacing
  <2> QED
    BY <2>1, <2>2, <2>3, CollectKept DEF Between
<1>7. ASSUME NEW p \in Procs, NEW l \in Levels, Call(p, l)
      PROVE  CollectInv'
  <2>1. /\ Covers(p, Top(p), Calling(p, l)) /\ Calling(p, l).at = "lock"
        /\ UNCHANGED <<sent, opened>> /\ level' = [level EXCEPT ![calls + 1] = l]
    BY <1>7, CallsAndFetches DEF Call, sync, Calling
  <2>2. ASSUME NEW q \in Procs, NEW d \in 1 .. Depth(q)', Doing(q, d)'.at \in Between
        PROVE  /\ d \in 1 .. Depth(q) /\ Doing(q, d).at \in Between
               /\ Doing(q, d)'.call = Doing(q, d).call
    <3>1. \/ d \in 1 .. Depth(q) /\ Follows(Doing(q, d), Doing(q, d)')
          \/ Doing(q, d)' = Calling(p, l)
      BY <2>1, FollowsItself, CoveredFollows
    <3> QED
      BY <2>1, <2>2, <3>1 DEF Follows, Between
  <2>3. \A c \in Calls : Meeting(c)' <=> Meeting(c)
    <3>1. \A c \in Calls : c \in sent => c # calls + 1
      BY Types DEF CallInv
    <3> QED
      BY <2>1, <3>1 DEF Meeting, TypeOK
  <2>4. \A c \in Calls : Meeting(c) => level'[c] = level[c]
    <3>1. \A c \in Calls : c \in sent => c # calls + 1
      BY Types DEF CallInv
    <3> QED
      BY <2>1, <3>1 DEF Meeting, TypeOK
  <2> QED
    BY <2>1, <2>2, <2>3, <2>4 DEF CollectInv, Between
<1>8. ASSUME UNCHANGED vars \/ \E p \in Procs : Deliver(p)
      PROVE  CollectInv'
  BY <1>2, <1>8 DEF vars, Deliver, sync
<1>9. \A p \in Procs : Proceed(p) => \/ Plain(p) \/ Interrupting(p) \/ Signal(p)
                                     \/ Fetch(p)
  BY DEF Proceed, Plain, Interrupting
<1> QED
  BY <1>3, <1>4, <1>5, <1>6, <1>7, <1>8, <1>9 DEF Next

-----------------------------------------------------------------------------
(* The inductive invariant and the theorems *)

IInv == /\ TypeOK /\ StackInv /\ LockInv /\ AcksInv
        /\ CallInv /\ StackCalls /\ RendezvousInv /\ CollectInv

\* The invariant holds at first.
LEMMA InitIInv == Init => IInv
<1> SUFFICES ASSUME Init
             PROVE  IInv
  OBVIOUS
<1>1. IsFiniteSet(Procs) /\ N \in Nat
  BY ProcsAssumption, FS_CardinalityType DEF N
<1>2. Program \in Frame /\ Program.at = "program" /\ Program.call = NoCall
  BY DEF Program, Frame, Labels
<1>3. \A p \in Procs : stack[p] = <<Program>>
  BY DEF Init
<1>4. \A p \in Procs : Depth(p) = 1 /\ Top(p) = Program
  BY <1>3 DEF Depth, Top
<1>5. \A p \in Procs : \A d \in 1 .. Depth(p) : Doing(p, d) = Program /\ d = 1
  <2> SUFFICES ASSUME NEW p \in Procs, NEW d \in 1 .. Depth(p)
               PROVE  Doing(p, d) = Program /\ d = 1
    OBVIOUS
  <2>1. d = 1 /\ Depth(p) + 1 - d = 1
    BY <1>4
  <2>2. stack[p][1] = Program
    BY <1>3
  <2> QED
    BY <2>1, <2>2 DEF Doing
<1>6. TypeOK
  <2>1. stack \in [Procs -> Seq(Frame)]
    <3>1. <<Program>> \in Seq(Frame)
      BY <1>2
    <3> QED
      BY <3>1 DEF Init
  <2>2. calls \in 0 .. MaxCalls /\ sigLock \in 0 .. N
    BY <1>1, BoundsAssumption DEF Init
  <2> QED
    BY <2>1, <2>2 DEF Init, TypeOK
<1>7. StackInv
  <2>1. Program.level = -1 /\ Program.enb = Levels
    BY DEF Program
  <2> QED
    <3>1. -1 # 0
      OBVIOUS
    <3>2. Program.at \notin Asking \cup {"await", "waiting", "fetch"}
      BY <1>2 DEF Asking, Owning
    <3>3. ASSUME NEW p \in Procs, NEW d \in 1 .. Depth(p)
          PROVE  PlaceInv(p, d)
      <4>1. Doing(p, d) = Program /\ d = 1 /\ Depth(p) = 1
        BY <1>4, <1>5
      <4> QED
        BY <1>2, <2>1, <3>1, <3>2, <4>1 DEF PlaceInv
    <3> QED
      BY <1>4, <3>3 DEF StackInv
<1>8. LockInv
  BY <1>2, <1>5 DEF LockInv, Owns, Owning, Init
<1>9. AcksInv
  <2>1. \A p \in Procs : ~At(p, "acks") /\ ~signal[p]
    BY <1>2, <1>4 DEF At, Init
  <2>2. Missing = {} /\ sigLock = 0
    BY <2>1 DEF Missing, Init
  <2> QED
    BY <2>1, <2>2, AcksAre DEF Counted
<1>10. \A p \in Procs : \A l : ~Requested(p, l)
  BY <1>2, <1>4 DEF Requested, Signalled, Fetching, At, Init
<1>11. CallInv
  <2>1. \A c \in Calls : ~(c <= calls) /\ level[c] \notin Levels
    <3>1. -1 \notin Levels
      BY LevelsAssumption
    <3> QED
      BY <3>1, BoundsAssumption DEF Init, Calls
  <2>2. \A l \in Levels : handlers[l] = NoCall
    BY DEF Init
  <2> QED
    BY <1>10, <2>1, <2>2 DEF CallInv, Init
<1>12. StackCalls
  <2>1. Program.level \notin Rendezvous
    BY LevelsAssumption DEF Program
  <2> QED
    BY <1>2, <1>5, <2>1 DEF StackCalls, PlaceCalls, Unasked
<1>13. RendezvousInv
  <2>1. \A c \in Calls : ~Meeting(c) /\ QuietCall(c)
    BY DEF Meeting, QuietCall, Init
  <2>2. \A p \in Procs : \A l : RequestInv(p, l)
    BY <1>10 DEF RequestInv, Requested
  <2> QED
    BY <2>1, <2>2 DEF RendezvousInv
<1>14. CollectInv
  BY DEF CollectInv, Meeting, Init
<1> QED
  BY <1>6, <1>7, <1>8, <1>9, <1>11, <1>12, <1>13, <1>14 DEF IInv

\* It is kept by every step.
LEMMA NextIInv == IInv /\ [Next]_vars => IInv'
<1> SUFFICES ASSUME IInv, [Next]_vars
             PROVE  IInv'
  OBVIOUS
<1>1. /\ TypeOK /\ StackInv /\ LockInv /\ AcksInv
      /\ CallInv /\ StackCalls /\ RendezvousInv /\ CollectInv
  BY DEF IInv
<1>2. StackInv' /\ stack' \in [Procs -> Seq(Frame)]
  BY <1>1, StackStep
<1>3. StackTypes'
  BY <1>2 DEF StackTypes, StackInv
<1>4. LockInv' /\ AcksInv'
  BY <1>1, <1>2, LockStep, AcksStep
<1>5. TypeOK'
  BY <1>1, <1>2, <1>4, TypeStep
<1>6. CallInv' /\ StackCalls'
  BY <1>1, <1>3, CallStep, StackCallsStep
<1>7. RendezvousInv' /\ CollectInv'
  BY <1>1, <1>3, RendezvousStep, CollectStep
<1> QED
  BY <1>2, <1>4, <1>5, <1>6, <1>7 DEF IInv

\* So it holds always.
LEMMA IInvAlways == Spec => []IInv
  BY InitIInv, NextIInv, PTL DEF Spec

\* It says what the runs check.
LEMMA IInvMeans == IInv => TypeOK /\ AcksAreCounted /\ WorkIsForced
<1> SUFFICES ASSUME IInv
             PROVE  WorkIsForced
  BY DEF IInv, AcksInv
<1>1. \A c \in sent : c \in Calls
  BY DEF IInv, TypeOK
<1>2. \A c \in sent : level[c] \in Rendezvous => Forced(c)
  BY <1>1 DEF IInv, RendezvousInv, Meeting, MeetingInv
<1> QED
  BY <1>2 DEF WorkIsForced, Forced

\* All variables of GLOBAL-INTERRUPT keep their types; Signal_Lock never counts
\* more acknowledgements than there are processors.
THEOREM TypeCorrect == Spec => []TypeOK
  BY IInvAlways, IInvMeans, PTL

\* While a caller waits, Signal_Lock counts the signals on their way and itself,
\* and Signal_Data is what it has sent (Send_Signal_Info, Get_Signal_Data).
THEOREM AcksAreCountedAlways == Spec => []AcksAreCounted
  BY IInvAlways, IInvMeans, PTL

\* Every processor but the caller begins the WORK of a rendezvous once, or still
\* has it before it: no handler that is needed is overwritten.
THEOREM WorkIsForcedAlways == Spec => []WorkIsForced
  BY IInvAlways, IInvMeans, PTL

\* The synchronizer of a collection opens when all wait at it, and then nobody is
\* between the store of a handler and its last signal, or about to fetch one.
LEMMA OpensQuietly ==
  IInv /\ [Next]_vars =>
     \A c \in Calls : level[c] = 0 /\ ~opened[c] /\ opened'[c] => OnlyBitsAreNeeded
<1> SUFFICES ASSUME IInv, [Next]_vars, NEW c \in Calls,
                    level[c] = 0, ~opened[c], opened'[c]
             PROVE  OnlyBitsAreNeeded
  OBVIOUS
<1>1. /\ TypeOK /\ StackInv /\ LockInv /\ AcksInv
      /\ CallInv /\ StackCalls /\ RendezvousInv /\ CollectInv
  BY DEF IInv
<1>2. PICK p \in Procs : Arrive(p)
  <2>1. ~(UNCHANGED opened)
    OBVIOUS
  <2> QED
    BY <2>1 DEF Next, vars, sync, Deliver, Call, Proceed, Lock, SpinInterrupted,
           LockedInterrupted, StoreHandler, TestTrue, TestFalse, Signal,
           Acknowledged, Unlock, Meet, Return, BackOut, Pass, TakeInterrupt, Fetch
<1>3. /\ Top(p).at = "await" /\ c = Top(p).call /\ arrived[c] \cup {p} = Procs
      /\ Top(p) = Doing(p, Depth(p)) /\ Depth(p) \in 1 .. Depth(p)
      /\ PlaceInv(p, Depth(p))
  <2>1. Top(p).at = "await" /\ Top(p).call \in 1 .. calls
        /\ Top(p) = Doing(p, Depth(p)) /\ Depth(p) \in 1 .. Depth(p)
        /\ PlaceInv(p, Depth(p))
    BY <1>1, <1>2, Tops DEF Arrive, Step, At
  <2>2. opened' = [opened EXCEPT ![Top(p).call] =
                      @ \/ arrived[Top(p).call] \cup {p} = Procs]
    BY <1>2 DEF Arrive
  <2> QED
    BY <1>1, <2>1, <2>2 DEF TypeOK
<1>4. Meeting(c) /\ MeetingInv(c)
  <2>1. PlaceCalls(p, Depth(p))
    BY <1>1, <1>3 DEF StackCalls
  <2>2. level[c] \in Rendezvous /\ c \in sent
    BY <1>1, <1>3, <2>1, Tops DEF PlaceInv, PlaceCalls
  <2> QED
    BY <1>1, <2>2 DEF Meeting, RendezvousInv
<1>5. \A q \in Procs : Top(q).at \in {"await", "waiting"}
  BY <1>3, <1>4 DEF MeetingInv, At
<1>6. \A q \in Procs : ~signal[q]
  BY <1>1, <1>5, NoSignals DEF At
<1>7. ASSUME NEW q \in Procs, NEW d \in 1 .. Depth(q)
      PROVE  Doing(q, d).at \notin {"test", "signal", "acks", "fetch"}
  <2>1. CASE d = Depth(q)
    BY <1>1, <1>5, <2>1, Tops
  <2>2. CASE d # Depth(q)
    <3>1. d < Depth(q) /\ PlaceInv(q, d)
      BY <1>1, <1>7, <2>2, Tops DEF StackInv
    <3>2. Doing(q, d).at \in Resting
      BY <3>1 DEF PlaceInv
    \* only the TEST may be left, and of this call, which is asked for already
    <3>3. Doing(q, d).at # "test"
      <4>1. Doing(q, d).at = "test" => Doing(q, d).call = c
        BY <1>1, <1>4, <1>7 DEF CollectInv
      <4>2. PlaceCalls(q, d)
        BY <1>1, <1>7 DEF StackCalls
      <4> QED
        BY <1>4, <4>1, <4>2 DEF PlaceCalls, Unasked, Meeting
    <3> QED
      BY <3>2, <3>3 DEF Resting
  <2> QED
    BY <2>1, <2>2
<1>8. ASSUME NEW q \in Procs, NEW i \in DOMAIN stack[q]
      PROVE  ~(stack[q][i].at \in {"test", "signal", "acks", "fetch"})
  <2>1. i \in 1 .. Depth(q) /\ Depth(q) \in Nat
    <3>1. stack[q] \in Seq(Frame)
      BY <1>1 DEF TypeOK
    <3> QED
      BY <1>8, <3>1 DEF Depth
  <2>2. Depth(q) + 1 - i \in 1 .. Depth(q) /\ Depth(q) + 1 - (Depth(q) + 1 - i) = i
    BY <2>1
  <2>3. Doing(q, Depth(q) + 1 - i) = stack[q][i]
    BY <2>2 DEF Doing
  <2> QED
    BY <1>7, <2>2, <2>3
<1> QED
  BY <1>6, <1>8 DEF OnlyBitsAreNeeded

\* When the processors have met to collect, every handler that is still needed is
\* known from an interrupt bit, so that Save_Global_Interrupt_Handlers moves it.
THEOREM HandlersSurviveAlways == Spec => HandlersSurvive
<1>1. IInv /\ [Next]_vars =>
         [\A c \in Calls : level[c] = 0 /\ ~opened[c] /\ opened'[c]
             => OnlyBitsAreNeeded]_vars
  BY OpensQuietly
<1> QED
  BY <1>1, IInvAlways, PTL DEF Spec, HandlersSurvive

===============================================================================
