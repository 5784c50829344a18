----------------------------- MODULE PriorityQueue -----------------------------
(***************************************************************************)
(* What the work queue promises the scheduler: tasks of one priority come  *)
(* out in the order they went in, and a task comes out only when no task   *)
(* of a higher priority is queued.  The garbage collector may flush it.    *)
(***************************************************************************)
EXTENDS Integers, Sequences

CONSTANTS Tasks,        \* the futures that are scheduled
          Prio          \* Prio[t]: the priority of t, as the queue compares it

Priorities == {Prio[t] : t \in Tasks}

VARIABLE queue          \* queue[pr]: the tasks of that priority, oldest first

Init == queue = [pr \in Priorities |-> << >>]

Put(t) == queue' = [queue EXCEPT ![Prio[t]] = Append(@, t)]

Take(pr) == /\ queue[pr] # << >>
            /\ \A higher \in Priorities : higher > pr => queue[higher] = << >>
            /\ queue' = [queue EXCEPT ![pr] = Tail(@)]

Flush == queue' = [pr \in Priorities |-> << >>]

Next == \/ \E t \in Tasks : Put(t)
        \/ \E pr \in Priorities : Take(pr)
        \/ Flush

Spec == Init /\ [][Next]_queue

=============================================================================
