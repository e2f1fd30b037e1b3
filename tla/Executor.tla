------------------------------- MODULE Executor -------------------------------
(***************************************************************************)
(* NonRealtimeExecutor and the common part of RealtimeExecutor             *)
(* (backend-cpp/src/runtime/executor.cpp): a queue under a mutex, worker   *)
(* threads that wait on a condition variable, callers that notify it after *)
(* they released the mutex, and a shutdown that joins the workers.         *)
(*                                                                         *)
(* A task stands for the one call of submit that brings it.  The three     *)
(* counters of stats() are left out: nothing depends on them.              *)
(***************************************************************************)
EXTENDS Naturals, Sequences, FiniteSets

CONSTANTS
  Tasks,     \* the tasks submitted
  Threads,   \* the workers
  Capacity,  \* queueCapacity_
  NoTask

ASSUME ExecutorAssumption ==
  /\ Capacity \in Nat \ {0}
  /\ NoTask \notin Tasks
  /\ Threads # {} /\ IsFiniteSet(Threads)

VARIABLES
  queue,     \* queue_
  stopping,  \* stopping_
  call,      \* where the submit of a task is
  at,        \* where a worker is; a blocked one is in the condition's wait set
  job,       \* its task
  stopper,   \* where shutdown is
  ended      \* history: the tasks that ran

execVars == <<queue, stopping, call, at, job, stopper, ended>>

Waiting == {t \in Threads : at[t] = "waiting"}
Polling == {t \in Threads : at[t] = "polling"}
Busy == {t \in Threads : at[t] = "running"}

TypeOK ==
  /\ queue \in Seq(Tasks)
  /\ stopping \in BOOLEAN
  /\ call \in [Tasks -> {"none", "admitted", "returned", "refused"}]
  /\ at \in [Threads -> {"polling", "waiting", "running", "exited"}]
  /\ job \in [Threads -> Tasks \cup {NoTask}]
  /\ stopper \in {"idle", "notifying", "joining", "joined"}
  /\ ended \subseteq Tasks

Init ==
  /\ queue = <<>>
  /\ stopping = FALSE
  /\ call = [k \in Tasks |-> "none"]
  /\ at = [t \in Threads |-> "polling"]
  /\ job = [t \in Threads |-> NoTask]
  /\ stopper = "idle"
  /\ ended = {}

\* The critical section of submit: admitted, or refused because the executor
\* stops or the queue is full.
Submit(k) ==
  /\ call[k] = "none"
  /\ \/ /\ ~stopping /\ Len(queue) < Capacity
        /\ queue' = Append(queue, k)
        /\ call' = [call EXCEPT ![k] = "admitted"]
     \/ /\ stopping \/ Len(queue) >= Capacity
        /\ call' = [call EXCEPT ![k] = "refused"]
        /\ UNCHANGED queue
  /\ UNCHANGED <<stopping, at, job, stopper, ended>>

\* Mutant of Notify: the wakeup is forgotten.
NotifyNobody(k) ==
  /\ call[k] = "admitted"
  /\ call' = [call EXCEPT ![k] = "returned"]
  /\ UNCHANGED <<queue, stopping, at, job, stopper, ended>>

\* notify_one, without the mutex: some blocked worker wakes, if there is one.
Notify(k) ==
  /\ call[k] = "admitted"
  /\ call' = [call EXCEPT ![k] = "returned"]
  /\ \/ Waiting = {} /\ UNCHANGED at
     \/ \E t \in Waiting : at' = [at EXCEPT ![t] = "polling"]
  /\ UNCHANGED <<queue, stopping, job, stopper, ended>>

\* Mutant of Poll: a worker that finds stopping_ set leaves the queue behind.
PollStopFirst(t) ==
  /\ at[t] = "polling"
  /\ \/ /\ queue # <<>> /\ ~stopping
        /\ at' = [at EXCEPT ![t] = "running"]
        /\ job' = [job EXCEPT ![t] = Head(queue)]
        /\ queue' = Tail(queue)
     \/ /\ queue = <<>> \/ stopping
        /\ at' = [at EXCEPT ![t] = IF stopping THEN "exited" ELSE "waiting"]
        /\ UNCHANGED <<queue, job>>
  /\ UNCHANGED <<stopping, call, stopper, ended>>

\* Mutant of Poll: a woken worker pops the queue without looking at it.
PollBlind(t) ==
  /\ at[t] = "polling"
  /\ \/ /\ queue # <<>>
        /\ at' = [at EXCEPT ![t] = "running"]
        /\ job' = [job EXCEPT ![t] = Head(queue)]
        /\ queue' = Tail(queue)
     \/ /\ queue = <<>>
        /\ at' = [at EXCEPT ![t] = IF stopping THEN "exited" ELSE "running"]
        /\ UNCHANGED <<queue, job>>
  /\ UNCHANGED <<stopping, call, stopper, ended>>

\* A worker with the mutex: it takes the oldest task; without one it ends when
\* the executor stops, and else blocks, which releases the mutex.
Poll(t) ==
  /\ at[t] = "polling"
  /\ \/ /\ queue # <<>>
        /\ at' = [at EXCEPT ![t] = "running"]
        /\ job' = [job EXCEPT ![t] = Head(queue)]
        /\ queue' = Tail(queue)
     \/ /\ queue = <<>>
        /\ at' = [at EXCEPT ![t] = IF stopping THEN "exited" ELSE "waiting"]
        /\ UNCHANGED <<queue, job>>
  /\ UNCHANGED <<stopping, call, stopper, ended>>

\* A condition variable may wake a thread for no reason.
WakeSpuriously(t) ==
  /\ t \in Waiting
  /\ at' = [at EXCEPT ![t] = "polling"]
  /\ UNCHANGED <<queue, stopping, call, job, stopper, ended>>

\* The task returns or throws; the worker swallows the exception.
Finish(t) ==
  /\ at[t] = "running"
  /\ at' = [at EXCEPT ![t] = "polling"]
  /\ job' = [job EXCEPT ![t] = NoTask]
  /\ ended' = ended \cup {job[t]}
  /\ UNCHANGED <<queue, stopping, call, stopper>>

\* shutdown: the flag under the mutex, notify_all without it, then the joins.
\* A later call finds stopping_ set and returns.
Shutdown ==
  /\ stopper = "idle"
  /\ stopping' = TRUE
  /\ stopper' = "notifying"
  /\ UNCHANGED <<queue, call, at, job, ended>>

\* Mutant of NotifyAll: one worker is woken, as by notify_one.
NotifyOne ==
  /\ stopper = "notifying"
  /\ stopper' = "joining"
  /\ \/ Waiting = {} /\ UNCHANGED at
     \/ \E t \in Waiting : at' = [at EXCEPT ![t] = "polling"]
  /\ UNCHANGED <<queue, stopping, call, job, ended>>

NotifyAll ==
  /\ stopper = "notifying"
  /\ stopper' = "joining"
  /\ at' = [t \in Threads |-> IF t \in Waiting THEN "polling" ELSE at[t]]
  /\ UNCHANGED <<queue, stopping, call, job, ended>>

Join ==
  /\ stopper = "joining"
  /\ \A t \in Threads : at[t] = "exited"
  /\ stopper' = "joined"
  /\ UNCHANGED <<queue, stopping, call, at, job, ended>>

Next ==
  \/ \E k \in Tasks : Submit(k) \/ Notify(k)
  \/ \E t \in Threads : Poll(t) \/ WakeSpuriously(t) \/ Finish(t)
  \/ Shutdown \/ NotifyAll \/ Join

\* Threads that hold no lock and wait for nothing run; tasks end.
Fairness ==
  /\ \A k \in Tasks : WF_execVars(Notify(k))
  /\ \A t \in Threads : WF_execVars(Poll(t)) /\ WF_execVars(Finish(t))
  /\ WF_execVars(NotifyAll) /\ WF_execVars(Join)

Spec == Init /\ [][Next]_execVars /\ Fairness

-------------------------------------------------------------------------------
(* Properties *)

Notifying == {k \in Tasks : call[k] = "admitted"}

\* No wakeup is lost: while a worker sleeps, every queued task is matched by a
\* notification under way or by a worker about to look, although callers notify
\* without the mutex and a notification that finds nobody asleep is void.
NoLostWakeup ==
  Waiting # {} => Len(queue) <= Cardinality(Notifying) + Cardinality(Polling)
                \/ stopping

\* The destructor relies on it ("Drain producer executors while all state and
\* the DeviceAdapter are still alive"): when shutdown returns, every task ever
\* admitted has run, and none is running.
ShutdownDrains ==
  stopper = "joined" =>
    /\ \A k \in Tasks : call[k] \in {"admitted", "returned"} => k \in ended
    /\ Busy = {}

\* shutdown returns.
ShutdownReturns == stopper = "notifying" ~> stopper = "joined"

\* The executor implements the pool, its liveness included.
Pool == INSTANCE TaskPool WITH
  Size <- Cardinality(Threads),
  pending <- queue,
  running <- {job[t] : t \in Busy},
  refused <- {k \in Tasks : call[k] = "refused"},
  closed <- stopping

ImplementsPool == Pool!Spec
===============================================================================
