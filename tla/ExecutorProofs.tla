---------------------------- MODULE ExecutorProofs ----------------------------
(***************************************************************************)
(* Typing of Executor, that shutdown drains it, that no wakeup is lost,    *)
(* and that its steps are those of TaskPool, for any number of tasks and   *)
(* workers and any queue capacity.                                         *)
(***************************************************************************)
EXTENDS Executor, FiniteSetTheorems, TLAPS

Executing(k) == \E t \in Threads : at[t] = "running" /\ job[t] = k

InQueue(k) == \E i \in 1..Len(queue) : queue[i] = k

\* A running worker has a task.
BusyInv == \A t \in Threads : at[t] = "running" => job[t] \in Tasks

\* An admitted task is queued, running or over ...
NoTaskLost ==
  \A k \in Tasks : call[k] \in {"admitted", "returned"}
                   => k \in ended \/ InQueue(k) \/ Executing(k)

\* ... a worker leaves nothing behind, and nothing comes after it ...
ExitInv == \A t \in Threads : at[t] = "exited" => stopping /\ queue = <<>>

\* ... and shutdown returns after the last of them.
StopInv ==
  /\ stopper # "idle" => stopping
  /\ stopper = "joined" => \A t \in Threads : at[t] = "exited"

DrainInv == TypeOK /\ BusyInv /\ NoTaskLost /\ ExitInv /\ StopInv

LEMMA InitDrain == Init => DrainInv
<1> SUFFICES ASSUME Init PROVE DrainInv
  OBVIOUS
<1> USE DEF Init
<1>1. <<>> \in Seq(Tasks)
  OBVIOUS
<1>2. TypeOK
  BY <1>1 DEF TypeOK
<1>3. BusyInv /\ ExitInv
  BY DEF BusyInv, ExitInv
<1>4. NoTaskLost
  BY DEF NoTaskLost
<1>5. StopInv
  BY DEF StopInv
<1> QED
  BY <1>2, <1>3, <1>4, <1>5 DEF DrainInv

\* The first task of a queue, and the others.
LEMMA HeadTail ==
  ASSUME NEW q \in Seq(Tasks), q # <<>>
  PROVE  /\ Head(q) \in Tasks /\ Tail(q) \in Seq(Tasks) /\ q[1] = Head(q)
         /\ Len(q) \in Nat \ {0} /\ Len(Tail(q)) = Len(q) - 1
         /\ \A i \in 1..Len(Tail(q)) : Tail(q)[i] = q[i + 1]
  OBVIOUS

LEMMA SubmitDrain ==
  ASSUME DrainInv, NEW k \in Tasks, Submit(k)
  PROVE  DrainInv'
<1> USE DEF DrainInv, TypeOK
<1>1. CASE /\ ~stopping /\ queue' = Append(queue, k)
           /\ call' = [call EXCEPT ![k] = "admitted"]
  <2> UNCHANGED <<stopping, at, job, stopper, ended>>
    BY DEF Submit
  <2>1. /\ queue' \in Seq(Tasks) /\ Len(queue') = Len(queue) + 1
        /\ Len(queue) \in Nat /\ queue'[Len(queue) + 1] = k
        /\ \A i \in 1..Len(queue) : queue'[i] = queue[i]
    BY <1>1
  <2>2. TypeOK' /\ BusyInv' /\ StopInv'
    BY <1>1, <2>1 DEF BusyInv, StopInv
  <2>3. InQueue(k)'
    <3>1. Len(queue) + 1 \in 1..Len(queue')
      BY <2>1
    <3> QED
      BY <2>1, <3>1 DEF InQueue
  <2>4. \A j \in Tasks : InQueue(j) => InQueue(j)'
    BY <2>1 DEF InQueue
  <2>5. NoTaskLost'
    BY <1>1, <2>3, <2>4 DEF NoTaskLost, Executing
  <2>6. ExitInv'
    BY <1>1 DEF ExitInv
  <2> QED
    BY <2>2, <2>5, <2>6
<1>2. CASE call' = [call EXCEPT ![k] = "refused"] /\ UNCHANGED queue
  BY <1>2 DEF Submit, BusyInv, NoTaskLost, InQueue, Executing, ExitInv, StopInv
<1> QED
  BY <1>1, <1>2 DEF Submit

LEMMA PollDrain ==
  ASSUME DrainInv, NEW t \in Threads, Poll(t)
  PROVE  DrainInv'
<1> USE DEF DrainInv, TypeOK
<1> at[t] = "polling" /\ UNCHANGED <<stopping, call, stopper, ended>>
  BY DEF Poll
<1>1. CASE /\ queue # <<>> /\ queue' = Tail(queue)
           /\ at' = [at EXCEPT ![t] = "running"]
           /\ job' = [job EXCEPT ![t] = Head(queue)]
  <2>1. /\ Head(queue) \in Tasks /\ Tail(queue) \in Seq(Tasks)
        /\ queue[1] = Head(queue)
        /\ Len(queue) \in Nat \ {0} /\ Len(queue') = Len(queue) - 1
        /\ \A i \in 1..Len(queue') : queue'[i] = queue[i + 1]
    BY <1>1, HeadTail
  <2>2. TypeOK' /\ BusyInv'
    BY <1>1, <2>1 DEF BusyInv
  <2>3. ExitInv' /\ StopInv'
    BY <1>1 DEF ExitInv, StopInv
  <2>4. ASSUME NEW k \in Tasks, InQueue(k)
        PROVE  InQueue(k)' \/ Executing(k)'
    <3>1. PICK i \in 1..Len(queue) : queue[i] = k
      BY <2>4 DEF InQueue
    <3>2. CASE i = 1
      BY <1>1, <2>1, <3>1, <3>2 DEF Executing
    <3>3. CASE i # 1
      <4>1. i - 1 \in 1..Len(queue') /\ (i - 1) + 1 = i
        BY <2>1, <3>3
      <4>2. queue'[i - 1] = queue[i]
        BY <2>1, <4>1
      <4> QED
        BY <3>1, <4>1, <4>2 DEF InQueue
    <3> QED
      BY <3>2, <3>3
  <2>5. \A k \in Tasks : Executing(k) => Executing(k)'
    BY <1>1 DEF Executing
  <2>6. NoTaskLost'
    BY <2>4, <2>5 DEF NoTaskLost
  <2> QED
    BY <2>2, <2>3, <2>6
<1>2. CASE /\ queue = <<>> /\ UNCHANGED <<queue, job>>
           /\ at' = [at EXCEPT ![t] = IF stopping THEN "exited" ELSE "waiting"]
  <2>1. TypeOK' /\ BusyInv' /\ ExitInv' /\ StopInv'
    BY <1>2 DEF BusyInv, ExitInv, StopInv
  <2>2. \A k \in Tasks : Executing(k) => Executing(k)'
    BY <1>2 DEF Executing
  <2>3. NoTaskLost'
    BY <1>2, <2>2 DEF NoTaskLost, InQueue
  <2> QED
    BY <2>1, <2>3
<1> QED
  BY <1>1, <1>2 DEF Poll

LEMMA FinishDrain ==
  ASSUME DrainInv, NEW t \in Threads, Finish(t)
  PROVE  DrainInv'
<1> USE DEF DrainInv, TypeOK, Finish
<1>1. job[t] \in Tasks
  BY DEF BusyInv
<1>2. TypeOK' /\ BusyInv' /\ ExitInv' /\ StopInv'
  BY <1>1, ExecutorAssumption DEF BusyInv, ExitInv, StopInv
<1>3. \A k \in Tasks : Executing(k) => Executing(k)' \/ k \in ended'
  BY DEF Executing
<1>4. NoTaskLost'
  BY <1>3 DEF NoTaskLost, InQueue
<1> QED
  BY <1>2, <1>4

\* Notifications, wakeups, and the steps of shutdown move no task.
LEMMA OthersDrain ==
  ASSUME DrainInv,
         \/ \E k \in Tasks : Notify(k)
         \/ \E t \in Threads : WakeSpuriously(t)
         \/ Shutdown \/ NotifyAll \/ Join \/ UNCHANGED execVars
  PROVE  DrainInv'
<1> USE DEF DrainInv, TypeOK, Waiting
<1>1. UNCHANGED <<queue, job, ended>>
  BY DEF Notify, WakeSpuriously, Shutdown, NotifyAll, Join, execVars
<1>2. /\ at' \in [Threads -> {"polling", "waiting", "running", "exited"}]
      /\ \A t \in Threads : \/ at'[t] = at[t]
                            \/ at[t] = "waiting" /\ at'[t] = "polling"
  BY DEF Notify, WakeSpuriously, Shutdown, NotifyAll, Join, execVars
<1>3. \A k \in Tasks : call'[k] \in {"admitted", "returned"}
                       => call[k] \in {"admitted", "returned"}
  BY DEF Notify, WakeSpuriously, Shutdown, NotifyAll, Join, execVars
<1>4. TypeOK'
  BY <1>1, <1>2 DEF Notify, WakeSpuriously, Shutdown, NotifyAll, Join, execVars
<1>5. BusyInv' /\ NoTaskLost'
  BY <1>1, <1>2, <1>3 DEF BusyInv, NoTaskLost, InQueue, Executing
<1>6. stopping => stopping'
  BY DEF Notify, WakeSpuriously, Shutdown, NotifyAll, Join, execVars
<1>7. ExitInv'
  BY <1>1, <1>2, <1>6 DEF ExitInv
<1>8. StopInv'
  BY <1>2 DEF StopInv, Notify, WakeSpuriously, Shutdown, NotifyAll, Join, execVars
<1> QED
  BY <1>4, <1>5, <1>7, <1>8

LEMMA StepDrain == DrainInv /\ [Next]_execVars => DrainInv'
<1> SUFFICES ASSUME DrainInv, [Next]_execVars PROVE DrainInv'
  OBVIOUS
<1>1. CASE \E k \in Tasks : Submit(k)
  BY <1>1, SubmitDrain
<1>2. CASE \E t \in Threads : Poll(t) \/ Finish(t)
  BY <1>2, PollDrain, FinishDrain
<1> QED
  BY <1>1, <1>2, OthersDrain DEF Next

LEMMA Drain == Spec => []DrainInv
  BY InitDrain, StepDrain, PTL DEF Spec

\* Every state of the executor has its type.
THEOREM ExecutorTypeCorrect == Spec => []TypeOK
<1>1. DrainInv => TypeOK
  BY DEF DrainInv
<1> QED
  BY Drain, <1>1, PTL

\* When shutdown returns, every admitted task has run (executor.cpp: shutdown
\* and the worker loop).
THEOREM ShutdownLosesNothing == Spec => []ShutdownDrains
<1>1. DrainInv => ShutdownDrains
  <2> SUFFICES ASSUME DrainInv, stopper = "joined" PROVE ShutdownDrains
    BY DEF ShutdownDrains
  <2>1. \A t \in Threads : at[t] = "exited"
    BY DEF DrainInv, StopInv
  <2>2. queue = <<>>
    BY <2>1, ExecutorAssumption DEF DrainInv, ExitInv
  <2> QED
    BY <2>1, <2>2 DEF ShutdownDrains, Busy, DrainInv, NoTaskLost, InQueue, Executing
<1> QED
  BY Drain, <1>1, PTL

-------------------------------------------------------------------------------
(* No wakeup is lost *)

\* The workers form a finite set, and so do the callers that will notify.
CountInv == IsFiniteSet(Notifying) /\ NoLostWakeup

\* A set that gains or loses an element of its own.
LEMMA Gains ==
  ASSUME NEW S, NEW T, NEW x, IsFiniteSet(S), x \notin S, T = S \cup {x}
  PROVE  IsFiniteSet(T) /\ Cardinality(T) = Cardinality(S) + 1 /\ Cardinality(S) \in Nat
BY FS_AddElement, FS_CardinalityType

LEMMA Loses ==
  ASSUME NEW S, NEW T, NEW x, IsFiniteSet(S), x \in S, T = S \ {x}
  PROVE  IsFiniteSet(T) /\ Cardinality(T) = Cardinality(S) - 1 /\ Cardinality(S) \in Nat \ {0}
<1>1. IsFiniteSet(T) /\ Cardinality(T) = Cardinality(S) - 1
  BY FS_RemoveElement
<1>2. Cardinality(S) \in Nat /\ Cardinality(S) # 0
  BY FS_CardinalityType, FS_EmptySet
<1> QED
  BY <1>1, <1>2

LEMMA FiniteThreads ==
  IsFiniteSet(Polling) /\ Cardinality(Polling) \in Nat
BY ExecutorAssumption, FS_Subset, FS_CardinalityType DEF Polling

\* A worker that begins, or ceases, to look at the queue.
LEMMA MoreLook ==
  ASSUME TypeOK, NEW t \in Threads, at[t] # "polling", at' = [at EXCEPT ![t] = "polling"]
  PROVE  Cardinality(Polling') = Cardinality(Polling) + 1
<1>1. t \notin Polling /\ Polling' = Polling \cup {t}
  BY DEF Polling, TypeOK
<1> QED
  BY <1>1, FiniteThreads, Gains

LEMMA FewerLook ==
  ASSUME TypeOK, NEW t \in Threads, at[t] = "polling", NEW w \in {"running", "waiting", "exited"},
         at' = [at EXCEPT ![t] = w]
  PROVE  Cardinality(Polling') = Cardinality(Polling) - 1 /\ Cardinality(Polling) \in Nat \ {0}
<1>1. t \in Polling /\ Polling' = Polling \ {t}
  BY DEF Polling, TypeOK
<1> QED
  BY <1>1, FiniteThreads, Loses

LEMMA SubmitCount ==
  ASSUME TypeOK, CountInv, NEW k \in Tasks, Submit(k)
  PROVE  CountInv'
<1>0. /\ UNCHANGED <<stopping, at>> /\ Waiting' = Waiting /\ Polling' = Polling
      /\ k \notin Notifying /\ IsFiniteSet(Notifying)
      /\ Len(queue) \in Nat /\ Cardinality(Polling) \in Nat /\ Cardinality(Notifying) \in Nat
  BY FiniteThreads, FS_CardinalityType DEF Submit, Waiting, Polling, Notifying, TypeOK, CountInv
<1>1. CASE queue' = Append(queue, k) /\ call' = [call EXCEPT ![k] = "admitted"]
  <2>1. Notifying' = Notifying \cup {k}
    BY <1>1 DEF Notifying, TypeOK
  <2>2. /\ IsFiniteSet(Notifying') /\ Cardinality(Notifying') = Cardinality(Notifying) + 1
    BY <1>0, <2>1, Gains
  <2>3. Len(queue') = Len(queue) + 1
    BY <1>1 DEF TypeOK
  <2> QED
    BY <1>0, <2>2, <2>3 DEF CountInv, NoLostWakeup
<1>2. CASE call' = [call EXCEPT ![k] = "refused"] /\ UNCHANGED queue
  <2>1. Notifying' = Notifying
    BY <1>0, <1>2 DEF Notifying, TypeOK
  <2> QED
    BY <1>0, <1>2, <2>1 DEF CountInv, NoLostWakeup
<1> QED
  BY <1>1, <1>2 DEF Submit

\* A notification that is over has woken a worker, unless none was asleep.
LEMMA NotifyCount ==
  ASSUME TypeOK, CountInv, NEW k \in Tasks, Notify(k)
  PROVE  CountInv'
<1>0. /\ UNCHANGED <<stopping, queue>> /\ k \in Notifying /\ Notifying' = Notifying \ {k}
      /\ IsFiniteSet(Notifying) /\ Len(queue) \in Nat /\ Cardinality(Polling) \in Nat
  BY FiniteThreads DEF Notify, Notifying, TypeOK, CountInv
<1>1. /\ IsFiniteSet(Notifying') /\ Cardinality(Notifying') = Cardinality(Notifying) - 1
      /\ Cardinality(Notifying) \in Nat \ {0}
  BY <1>0, Loses
<1>2. CASE Waiting = {} /\ UNCHANGED at
  BY <1>1, <1>2 DEF CountInv, NoLostWakeup, Waiting
<1>3. CASE \E t \in Waiting : at' = [at EXCEPT ![t] = "polling"]
  <2>1. PICK t \in Waiting : at' = [at EXCEPT ![t] = "polling"]
    BY <1>3
  <2>2. Cardinality(Polling') = Cardinality(Polling) + 1 /\ Waiting # {}
    BY <2>1, MoreLook DEF Waiting
  <2> QED
    BY <1>0, <1>1, <2>2 DEF CountInv, NoLostWakeup
<1> QED
  BY <1>2, <1>3 DEF Notify

\* A worker goes to sleep over an empty queue only.
LEMMA PollCount ==
  ASSUME TypeOK, CountInv, NEW t \in Threads, Poll(t)
  PROVE  CountInv'
<1>0. /\ UNCHANGED <<stopping, call>> /\ Notifying' = Notifying
      /\ IsFiniteSet(Notifying) /\ Cardinality(Notifying) \in Nat
  BY FS_CardinalityType DEF Poll, Notifying, CountInv
<1>1. CASE /\ queue # <<>> /\ queue' = Tail(queue)
           /\ at' = [at EXCEPT ![t] = "running"]
  <2>1. Cardinality(Polling') = Cardinality(Polling) - 1 /\ Cardinality(Polling) \in Nat \ {0}
    BY <1>1, FewerLook DEF Poll
  <2>2. Waiting' = Waiting
    BY <1>1 DEF Waiting, TypeOK, Poll
  <2>3. Len(queue) \in Nat \ {0} /\ Len(queue') = Len(queue) - 1
    BY <1>1, HeadTail DEF TypeOK
  <2> QED
    BY <1>0, <2>1, <2>2, <2>3 DEF CountInv, NoLostWakeup
<1>2. CASE queue = <<>> /\ UNCHANGED queue
  <2>1. Len(queue') = 0
    BY <1>2
  <2>2. IsFiniteSet(Polling') /\ Cardinality(Polling') \in Nat
    <3>1. Polling' \subseteq Threads
      BY DEF Polling
    <3> QED
      BY <3>1, ExecutorAssumption, FS_Subset, FS_CardinalityType
  <2> QED
    BY <1>0, <2>1, <2>2 DEF CountInv, NoLostWakeup
<1> QED
  BY <1>1, <1>2 DEF Poll

LEMMA OthersCount ==
  ASSUME TypeOK, CountInv,
         \/ \E t \in Threads : WakeSpuriously(t) \/ Finish(t)
         \/ Shutdown \/ NotifyAll \/ Join \/ UNCHANGED execVars
  PROVE  CountInv'
<1>0. /\ UNCHANGED <<queue, call>> /\ Notifying' = Notifying
      /\ IsFiniteSet(Notifying) /\ Cardinality(Notifying) \in Nat
      /\ Len(queue) \in Nat /\ Cardinality(Polling) \in Nat
  BY FiniteThreads, FS_CardinalityType
  DEF WakeSpuriously, Finish, Shutdown, NotifyAll, Join, execVars, Notifying, CountInv, TypeOK
<1>1. CASE \E t \in Threads : WakeSpuriously(t) \/ Finish(t)
  <2>1. PICK t \in Threads : WakeSpuriously(t) \/ Finish(t)
    BY <1>1
  <2>2. Cardinality(Polling') = Cardinality(Polling) + 1 /\ UNCHANGED stopping
    BY <2>1, MoreLook DEF WakeSpuriously, Finish, Waiting
  <2>3. Waiting' \subseteq Waiting
    BY <2>1 DEF WakeSpuriously, Finish, Waiting, TypeOK
  <2> QED
    BY <1>0, <2>2, <2>3 DEF CountInv, NoLostWakeup
<1>2. CASE Shutdown
  BY <1>0, <1>2 DEF Shutdown, CountInv, NoLostWakeup
<1>3. CASE NotifyAll
  <2>1. Waiting' = {}
    BY <1>3 DEF NotifyAll, Waiting, TypeOK
  <2> QED
    BY <1>0, <2>1 DEF CountInv, NoLostWakeup
<1>4. CASE Join \/ UNCHANGED execVars
  BY <1>0, <1>4 DEF Join, execVars, CountInv, NoLostWakeup, Waiting, Polling
<1> QED
  BY <1>1, <1>2, <1>3, <1>4

LEMMA InitCount == Init => CountInv
<1> SUFFICES ASSUME Init PROVE CountInv
  OBVIOUS
<1>1. Notifying = {} /\ Waiting = {}
  BY DEF Init, Notifying, Waiting
<1> QED
  BY <1>1, FS_EmptySet DEF CountInv, NoLostWakeup

\* While a worker sleeps, a queued task has a notification to come or a worker
\* about to look (submit notifies after it released the mutex).
THEOREM NoWakeupLost == Spec => []NoLostWakeup
<1>1. TypeOK /\ CountInv /\ [Next]_execVars => CountInv'
  BY SubmitCount, NotifyCount, PollCount, OthersCount DEF Next
<1>2. CountInv => NoLostWakeup
  BY DEF CountInv
<1> QED
  BY InitCount, ExecutorTypeCorrect, <1>1, <1>2, PTL DEF Spec

-------------------------------------------------------------------------------
(* The executor is a pool *)

Running == {job[t] : t \in Busy}

\* A task is in one place: in the queue once, or with one worker.
PlaceInv ==
  /\ Len(queue) <= Capacity
  /\ \A i, j \in 1..Len(queue) : queue[i] = queue[j] => i = j
  /\ \A t, u \in Busy : job[t] = job[u] => t = u
  /\ \A i \in 1..Len(queue) : queue[i] \notin Running
  /\ \A k \in Tasks : InQueue(k) \/ k \in Running \/ k \in ended
                      => call[k] \in {"admitted", "returned"}

LEMMA InitPlace == Init => PlaceInv
<1> SUFFICES ASSUME Init PROVE PlaceInv
  OBVIOUS
<1>1. queue = <<>> /\ Len(queue) = 0 /\ Busy = {} /\ Running = {} /\ ended = {}
  BY DEF Init, Busy, Running
<1> QED
  BY <1>1, ExecutorAssumption DEF PlaceInv, InQueue

LEMMA SubmitPlace ==
  ASSUME DrainInv, PlaceInv, NEW k \in Tasks, Submit(k)
  PROVE  PlaceInv'
<1>0. /\ UNCHANGED <<at, job, ended>> /\ Busy' = Busy /\ Running' = Running
      /\ ~InQueue(k) /\ k \notin Running /\ k \notin ended
      /\ Len(queue) \in Nat /\ queue \in Seq(Tasks) /\ call \in [Tasks -> {"none", "admitted", "returned", "refused"}]
  BY DEF Submit, PlaceInv, Busy, Running, DrainInv, TypeOK
<1>1. CASE /\ Len(queue) < Capacity /\ queue' = Append(queue, k)
           /\ call' = [call EXCEPT ![k] = "admitted"]
  <2>1. /\ Len(queue') = Len(queue) + 1 /\ queue'[Len(queue) + 1] = k
        /\ \A i \in 1..Len(queue) : queue'[i] = queue[i] /\ queue[i] # k
    BY <1>0, <1>1 DEF InQueue
  <2>2. Len(queue') <= Capacity
    BY <1>0, <1>1, <2>1, ExecutorAssumption
  <2>3. \A i \in 1..Len(queue') : i \in 1..Len(queue) \/ i = Len(queue) + 1
    BY <1>0, <2>1
  <2>4. \A i, j \in 1..Len(queue') : queue'[i] = queue'[j] => i = j
    BY <2>1, <2>3 DEF PlaceInv
  <2>5. \A i \in 1..Len(queue') : queue'[i] \notin Running
    BY <1>0, <2>1, <2>3 DEF PlaceInv
  <2>6. \A j \in Tasks : InQueue(j)' => InQueue(j) \/ j = k
    BY <2>1, <2>3 DEF InQueue
  <2>7. \A j \in Tasks : InQueue(j)' \/ j \in Running' \/ j \in ended'
                         => call'[j] \in {"admitted", "returned"}
    BY <1>0, <1>1, <2>6 DEF PlaceInv
  <2> QED
    BY <1>0, <2>2, <2>4, <2>5, <2>7 DEF PlaceInv
<1>2. CASE call' = [call EXCEPT ![k] = "refused"] /\ UNCHANGED queue
  BY <1>0, <1>2 DEF PlaceInv, InQueue
<1> QED
  BY <1>1, <1>2 DEF Submit

LEMMA PollPlace ==
  ASSUME DrainInv, PlaceInv, NEW t \in Threads, Poll(t)
  PROVE  PlaceInv'
<1>0. /\ at[t] = "polling" /\ UNCHANGED <<call, ended>> /\ t \notin Busy
      /\ at \in [Threads -> {"polling", "waiting", "running", "exited"}]
      /\ job \in [Threads -> Tasks \cup {NoTask}] /\ queue \in Seq(Tasks)
  BY DEF Poll, Busy, DrainInv, TypeOK
<1>1. CASE /\ queue # <<>> /\ queue' = Tail(queue)
           /\ at' = [at EXCEPT ![t] = "running"]
           /\ job' = [job EXCEPT ![t] = Head(queue)]
  <2>1. /\ queue[1] = Head(queue) /\ Head(queue) \in Tasks
        /\ Len(queue) \in Nat \ {0} /\ Len(queue') = Len(queue) - 1
        /\ \A i \in 1..Len(queue') : queue'[i] = queue[i + 1]
    BY <1>0, <1>1, HeadTail
  <2>2. /\ Busy' = Busy \cup {t} /\ job'[t] = Head(queue)
        /\ \A u \in Busy : job'[u] = job[u] /\ u # t
    BY <1>0, <1>1 DEF Busy
  <2>3. Running' = Running \cup {Head(queue)}
    BY <2>2 DEF Running
  <2>4. Head(queue) \notin Running /\ InQueue(Head(queue))
    BY <2>1 DEF PlaceInv, InQueue
  <2>5. Len(queue') <= Capacity
    BY <2>1, ExecutorAssumption DEF PlaceInv
  <2>6. \A i \in 1..Len(queue') : i + 1 \in 1..Len(queue) /\ i + 1 # 1 /\ i \in Nat
    BY <2>1
  <2>7. \A i, j \in 1..Len(queue') : queue'[i] = queue'[j] => i = j
    BY <2>1, <2>6 DEF PlaceInv
  <2>8. \A u, v \in Busy' : job'[u] = job'[v] => u = v
    BY <2>2, <2>4 DEF PlaceInv, Running
  <2>9. \A i \in 1..Len(queue') : queue'[i] \notin Running'
    <3> SUFFICES ASSUME NEW i \in 1..Len(queue') PROVE queue'[i] \notin Running'
      OBVIOUS
    <3>1. queue'[i] = queue[i + 1] /\ i + 1 \in 1..Len(queue) /\ i + 1 # 1 /\ 1 \in 1..Len(queue)
      BY <2>1, <2>6
    <3>2. queue[i + 1] # queue[1] /\ queue[i + 1] \notin Running
      BY <3>1 DEF PlaceInv
    <3> QED
      BY <2>1, <2>3, <3>1, <3>2
  <2>10. \A k \in Tasks : InQueue(k)' => InQueue(k)
    BY <2>1, <2>6 DEF InQueue
  <2> QED
    BY <1>0, <2>3, <2>4, <2>5, <2>7, <2>8, <2>9, <2>10 DEF PlaceInv
<1>2. CASE /\ UNCHANGED <<queue, job>> /\ at' = [at EXCEPT ![t] = IF stopping THEN "exited" ELSE "waiting"]
  <2>1. Busy' = Busy
    BY <1>0, <1>2 DEF Busy
  <2>2. Running' = Running
    BY <1>2, <2>1 DEF Running
  <2> QED
    BY <1>0, <1>2, <2>1, <2>2 DEF PlaceInv, InQueue
<1> QED
  BY <1>1, <1>2 DEF Poll

LEMMA FinishPlace ==
  ASSUME DrainInv, PlaceInv, NEW t \in Threads, Finish(t)
  PROVE  /\ PlaceInv' /\ job[t] \in Tasks /\ job[t] \in Running
         /\ Running' = Running \ {job[t]}
<1>0. /\ t \in Busy /\ UNCHANGED <<queue, call>> /\ ended' = ended \cup {job[t]}
      /\ job[t] \in Tasks /\ job[t] \in Running
      /\ at' = [at EXCEPT ![t] = "polling"] /\ job' = [job EXCEPT ![t] = NoTask]
      /\ at \in [Threads -> {"polling", "waiting", "running", "exited"}]
      /\ job \in [Threads -> Tasks \cup {NoTask}]
  BY DEF Finish, Busy, Running, DrainInv, TypeOK, BusyInv
<1>1. Busy' = Busy \ {t} /\ \A u \in Busy' : job'[u] = job[u]
  BY <1>0 DEF Busy
<1>2. Running' = Running \ {job[t]}
  BY <1>0, <1>1 DEF Running, PlaceInv
<1>3. PlaceInv'
  BY <1>0, <1>1, <1>2 DEF PlaceInv, InQueue
<1> QED
  BY <1>0, <1>2, <1>3

LEMMA OthersPlace ==
  ASSUME DrainInv, PlaceInv,
         \/ \E k \in Tasks : Notify(k)
         \/ \E t \in Threads : WakeSpuriously(t)
         \/ Shutdown \/ NotifyAll \/ Join \/ UNCHANGED execVars
  PROVE  /\ PlaceInv' /\ Running' = Running /\ UNCHANGED <<queue, ended>>
         /\ {k \in Tasks : call'[k] = "refused"} = {k \in Tasks : call[k] = "refused"}
<1> USE DEF Waiting
<1>1. UNCHANGED <<queue, job, ended>>
  BY DEF Notify, WakeSpuriously, Shutdown, NotifyAll, Join, execVars
<1>2. \A t \in Threads : at'[t] = "running" <=> at[t] = "running"
  BY DEF Notify, WakeSpuriously, Shutdown, NotifyAll, Join, execVars, DrainInv, TypeOK
<1>3. \A k \in Tasks : \/ call'[k] = call[k]
                       \/ call[k] = "admitted" /\ call'[k] = "returned"
  BY DEF Notify, WakeSpuriously, Shutdown, NotifyAll, Join, execVars, DrainInv, TypeOK
<1>4. Busy' = Busy
  BY <1>2 DEF Busy
<1>5. Running' = Running
  BY <1>1, <1>4 DEF Running
<1>6. PlaceInv'
  BY <1>1, <1>3, <1>4, <1>5 DEF PlaceInv, InQueue
<1> QED
  BY <1>1, <1>3, <1>5, <1>6

\* A worker that polls is not busy: the pool has a free one.
LEMMA FreeWorker ==
  ASSUME NEW t \in Threads, at[t] = "polling"
  PROVE  Cardinality(Running) < Cardinality(Threads)
<1> DEFINE f == [u \in Busy |-> job[u]]
<1>1. Busy \subseteq Threads \ {t} /\ IsFiniteSet(Threads) /\ t \in Threads
  BY ExecutorAssumption DEF Busy
<1>2. IsFiniteSet(Threads \ {t}) /\ Cardinality(Threads \ {t}) = Cardinality(Threads) - 1
      /\ Cardinality(Threads) \in Nat
  BY <1>1, FS_RemoveElement, FS_CardinalityType
<1>3. IsFiniteSet(Busy) /\ Cardinality(Busy) <= Cardinality(Threads \ {t})
  BY <1>1, <1>2, FS_Subset
<1>4. f \in Surjection(Busy, Running)
  BY DEF Surjection, Running
<1>5. IsFiniteSet(Running) /\ Cardinality(Running) <= Cardinality(Busy)
  BY <1>3, <1>4, FS_Surjection
<1>6. Cardinality(Running) \in Nat /\ Cardinality(Busy) \in Nat
  BY <1>3, <1>5, FS_CardinalityType
<1> QED
  BY <1>2, <1>3, <1>5, <1>6

LEMMA PlaceStep == DrainInv /\ PlaceInv /\ [Next]_execVars => PlaceInv'
BY SubmitPlace, PollPlace, FinishPlace, OthersPlace DEF Next

\* Known of the pool: the tasks whose submit is over.
LEMMA KnownIs ==
  ASSUME DrainInv, PlaceInv, NEW k \in Tasks, call[k] = "none"
  PROVE  k \notin Pool!Known
<1>1. ~InQueue(k) /\ k \notin Running /\ k \notin ended
  BY DEF PlaceInv
<1> QED
  BY <1>1 DEF Pool!Known, InQueue, Running

\* FiniteSets defines one Cardinality, here and in the pool.
LEMMA SameCardinality == ASSUME NEW S PROVE Pool!Cardinality(S) = Cardinality(S)
BY DEF Pool!Cardinality, Cardinality

\* Every step of the executor is one of the pool, or none.
LEMMA StepOfPool ==
  ASSUME DrainInv, PlaceInv, [Next]_execVars
  PROVE  [Pool!Next]_(Pool!vars)
<1>1. ASSUME NEW k \in Tasks, Submit(k) PROVE Pool!Next
  <2>1. /\ UNCHANGED <<at, job, ended, stopping>> /\ k \notin Pool!Known
        /\ {job'[t] : t \in Busy'} = {job[t] : t \in Busy}
        /\ Len(queue) <= Capacity /\ Len(queue) \in Nat /\ Capacity \in Nat
        /\ call \in [Tasks -> {"none", "admitted", "returned", "refused"}] /\ call[k] = "none"
    BY <1>1, KnownIs, ExecutorAssumption DEF Submit, Busy, PlaceInv, DrainInv, TypeOK
  <2>2. CASE /\ ~stopping /\ Len(queue) < Capacity /\ queue' = Append(queue, k)
             /\ call' = [call EXCEPT ![k] = "admitted"]
    <3>1. {j \in Tasks : call'[j] = "refused"} = {j \in Tasks : call[j] = "refused"}
      BY <2>1, <2>2
    <3> QED
      BY <2>1, <2>2, <3>1 DEF Pool!Next, Pool!Admit
  <2>3. CASE /\ stopping \/ Len(queue) >= Capacity
             /\ call' = [call EXCEPT ![k] = "refused"] /\ UNCHANGED queue
    <3>1. {j \in Tasks : call'[j] = "refused"} = {j \in Tasks : call[j] = "refused"} \cup {k}
      BY <2>1, <2>3
    <3>2. stopping \/ Len(queue) = Capacity
      BY <2>1, <2>3
    <3> QED
      BY <2>1, <2>3, <3>1, <3>2 DEF Pool!Next, Pool!Refuse
  <2> QED
    BY <1>1, <2>2, <2>3 DEF Submit
<1>2. ASSUME NEW t \in Threads, Poll(t) PROVE [Pool!Next]_(Pool!vars)
  <2>0. /\ at[t] = "polling" /\ t \notin Busy /\ UNCHANGED <<call, ended, stopping>>
        /\ at \in [Threads -> {"polling", "waiting", "running", "exited"}]
        /\ job \in [Threads -> Tasks \cup {NoTask}]
    BY <1>2 DEF Poll, Busy, DrainInv, TypeOK
  <2>1. CASE /\ queue # <<>> /\ queue' = Tail(queue)
             /\ at' = [at EXCEPT ![t] = "running"]
             /\ job' = [job EXCEPT ![t] = Head(queue)]
    <3>1. /\ Busy' = Busy \cup {t} /\ job'[t] = Head(queue)
          /\ \A u \in Busy : job'[u] = job[u]
      BY <2>0, <2>1 DEF Busy
    <3>2. {job'[u] : u \in Busy'} = {job[u] : u \in Busy} \cup {Head(queue)}
      BY <3>1
    <3>3. Cardinality({job[u] : u \in Busy}) < Cardinality(Threads)
      BY <2>0, FreeWorker DEF Running
    <3> QED
      BY <2>0, <2>1, <3>2, <3>3, SameCardinality DEF Pool!Next, Pool!Start
  <2>2. CASE /\ UNCHANGED <<queue, job>>
             /\ at' = [at EXCEPT ![t] = IF stopping THEN "exited" ELSE "waiting"]
    <3>1. Busy' = Busy
      BY <2>0, <2>2 DEF Busy
    <3> QED
      BY <2>0, <2>2, <3>1 DEF Pool!vars
  <2> QED
    BY <1>2, <2>1, <2>2 DEF Poll
<1>3. ASSUME NEW t \in Threads, Finish(t) PROVE Pool!Next
  <2>1. /\ job[t] \in Tasks /\ job[t] \in Running /\ Running' = Running \ {job[t]}
        /\ UNCHANGED <<queue, call, stopping>> /\ ended' = ended \cup {job[t]}
    BY <1>3, FinishPlace DEF Finish
  <2> QED
    BY <2>1 DEF Running, Pool!Next, Pool!Finish
<1>4. CASE Shutdown
  <2>1. stopping' = TRUE /\ Running' = Running /\ UNCHANGED <<queue, ended>>
        /\ {k \in Tasks : call'[k] = "refused"} = {k \in Tasks : call[k] = "refused"}
    BY <1>4, OthersPlace DEF Shutdown
  <2> QED
    BY <2>1 DEF Running, Pool!Next, Pool!Close
<1>5. CASE \/ \E k \in Tasks : Notify(k)
           \/ \E t \in Threads : WakeSpuriously(t)
           \/ NotifyAll \/ Join \/ UNCHANGED execVars
  <2>1. UNCHANGED stopping
    BY <1>5 DEF Notify, WakeSpuriously, NotifyAll, Join, execVars
  <2>2. Running' = Running /\ UNCHANGED <<queue, ended>>
        /\ {k \in Tasks : call'[k] = "refused"} = {k \in Tasks : call[k] = "refused"}
    BY <1>5, OthersPlace
  <2> QED
    BY <2>1, <2>2 DEF Running, Pool!vars
<1> QED
  BY <1>1, <1>2, <1>3, <1>4, <1>5 DEF Next

\* The executor's steps are those of the pool: tasks are started in their turn,
\* by a free worker, once, and none is dropped (the safety part of
\* ImplementsPool).
THEOREM PoolRefinement == Spec => Pool!Safe
<1>1. Init => Pool!Init
  <2> SUFFICES ASSUME Init PROVE Pool!Init
    OBVIOUS
  <2>1. Busy = {} /\ {k \in Tasks : call[k] = "refused"} = {}
    BY DEF Init, Busy
  <2> QED
    BY <2>1 DEF Init, Pool!Init
<1>2. DrainInv /\ PlaceInv /\ [Next]_execVars => [Pool!Next]_(Pool!vars)
  BY StepOfPool
<1> QED
  BY <1>1, <1>2, Drain, InitPlace, PlaceStep, PTL DEF Spec, Pool!Safe
===============================================================================
