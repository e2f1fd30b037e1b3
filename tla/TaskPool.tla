------------------------------- MODULE TaskPool -------------------------------
(***************************************************************************)
(* What an executor promises its callers, and what CommandLifecycle takes  *)
(* it for: a bounded FIFO queue in front of a number of workers.  A task   *)
(* that is admitted is started in its turn, by a worker that is free, and  *)
(* once; closing the pool refuses further tasks and drops none.            *)
(***************************************************************************)
EXTENDS Naturals, Sequences, FiniteSets

CONSTANTS Tasks, Size, Capacity

VARIABLES
  pending,  \* the admitted tasks, in order
  running,  \* the tasks workers are busy with
  ended,    \* the tasks that ran
  refused,  \* the tasks that were not admitted
  closed    \* no task is admitted any more

vars == <<pending, running, ended, refused, closed>>

Known == {pending[i] : i \in 1..Len(pending)} \cup running \cup ended \cup refused

Init ==
  /\ pending = <<>> /\ running = {} /\ ended = {} /\ refused = {}
  /\ closed = FALSE

Admit(k) ==
  /\ k \notin Known /\ ~closed /\ Len(pending) < Capacity
  /\ pending' = Append(pending, k)
  /\ UNCHANGED <<running, ended, refused, closed>>

Refuse(k) ==
  /\ k \notin Known /\ (closed \/ Len(pending) = Capacity)
  /\ refused' = refused \cup {k}
  /\ UNCHANGED <<pending, running, ended, closed>>

Start ==
  /\ pending # <<>> /\ Cardinality(running) < Size
  /\ pending' = Tail(pending)
  /\ running' = running \cup {Head(pending)}
  /\ UNCHANGED <<ended, refused, closed>>

Finish(k) ==
  /\ k \in running
  /\ running' = running \ {k}
  /\ ended' = ended \cup {k}
  /\ UNCHANGED <<pending, refused, closed>>

Close ==
  /\ closed' = TRUE
  /\ UNCHANGED <<pending, running, ended, refused>>

Next ==
  \/ \E k \in Tasks : Admit(k) \/ Refuse(k) \/ Finish(k)
  \/ Start \/ Close

Safe == Init /\ [][Next]_vars

\* A free worker takes a task that is waiting, and tasks come to an end.
Spec == Safe /\ WF_vars(Start) /\ \A k \in Tasks : WF_vars(Finish(k))
===============================================================================
