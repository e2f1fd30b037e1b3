--------------------------- MODULE CommandLifecycle ---------------------------
(***************************************************************************)
(* The command pipeline of backend-cpp/src/application.cpp: the connection *)
(* threads that issue commands, the executors' workers that run them, the  *)
(* feedback observers, the reconciliation calls, and a crash, a graceful   *)
(* stop and a restart of the backend.                                      *)
(*                                                                         *)
(* An attempt is one call of issueCommand (no key) or issueCommandV2 (with *)
(* an idempotency key), followed, once admitted, by the task it submits.   *)
(* Every action is one critical section or one ledger call: a transition   *)
(* changes the cached command under commandsMutex_ and persists the copy   *)
(* it took after the mutex is released, and others run in between.         *)
(* Validation that changes no state is left out, as are timestamps: a      *)
(* deadline may have passed whenever the code reads the clock.             *)
(***************************************************************************)
EXTENDS CommandLedger

CONSTANTS
  Requests,        \* what a client may send: [cmd, key, act, hash]
  Classes,         \* execution classes, each with an executor of its own
  ClassOf,         \* the class the device registry gives an action
  Workers,         \* worker threads of a class
  QueueCap,        \* queue capacity of a class
  Ungranted,       \* classes whose required scheduling is missing
  FeedbackWorkers, \* threads of feedbackExecutor_
  FeedbackCap,     \* its queue capacity
  CacheMax,        \* max(2 * commandDashboardLimit, 500)
  Adapter,         \* execution contract the DeviceAdapter advertises
  FaultyWrites,    \* bound: the attempts whose ledger updates may fail
  MaxCrashes       \* bound: how often the process dies or is stopped

ASSUME LifecycleAssumption ==
  /\ Requests \subseteq [cmd : Commands, key : Keys \cup {None},
                         act : Actions, hash : Hashes]
  /\ None \notin Requests
  /\ ClassOf \in [Actions -> Classes]
  /\ Workers \in [Classes -> Nat] /\ QueueCap \in [Classes -> Nat]
  /\ FeedbackWorkers \in Nat /\ FeedbackCap \in Nat /\ CacheMax \in Nat
  /\ Adapter \in {"bounded", "isolated", "simulated", "unsafe"}
  /\ FaultyWrites \subseteq Attempts
  /\ MaxCrashes \in Nat

VARIABLES
  mem,          \* commands_: the cached commands
  pc,           \* where an attempt is
  req,          \* what it asks for
  seat,         \* the worker thread it occupies
  then,         \* where it goes on once its copy is persisted
  snap,         \* the copy of the command that is to be persisted
  cert,         \* the delivery certainty the adapter reported
  rv,           \* the reconciliation calls
  quarantined,  \* quarantined_ of the CommandService
  phase,        \* of the process
  crashes,      \* how often it died so far
  sent,         \* history: the attempts whose adapter call was made
  lapsed        \* history: the keys whose dedup row has expired

taskVars == <<pc, seat, then, snap>>
vars == <<ledgerVars, mem, taskVars, req, cert, rv, quarantined, phase,
          crashes, sent, lapsed>>

\* An attempt that has not been admitted, in a connection thread ...
Calling == {"ready", "checked"}
\* ... and one that is answered without having been admitted.
Answered == {"unavailable", "blocked", "replayed", "conflict", "exhausted",
             "raised", "dropped"}
\* An admitted attempt: "admitted" and a refused one's transition belong to
\* the connection thread, the others to an executor.
Live == {"admitted", "queued", "decide", "accepted", "executing", "clear",
         "returned", "timed", "applied", "awaiting", "observing", "writing",
         "evict"}
Over == {"done", "abandoned", "lost"}
Admitted == Live \cup Over
Labels == {"idle"} \cup Calling \cup Answered \cup Admitted

Certainty == {"NOT_SENT", "REJECTED", "POSSIBLY_APPLIED", "APPLIED"}

ReviewIdle == [pc |-> "idle", cmd |-> None, snap |-> Absent]

TypeOK ==
  /\ LedgerTypeOK
  /\ mem \in [Commands -> Record]
  /\ pc \in [Attempts -> Labels]
  /\ req \in [Attempts -> Requests \cup {None}]
  /\ seat \in [Attempts -> {"none", "work", "feedback"}]
  /\ then \in [Attempts -> {"none"} \cup Live]
  /\ snap \in [Attempts -> Record]
  /\ cert \in [Attempts -> Certainty \cup {"none"}]
  /\ rv \in [Reviews -> [pc : {"idle", "recorded", "writing", "done"},
                         cmd : Commands \cup {None}, snap : Record]]
  /\ quarantined \in BOOLEAN
  /\ phase \in {"up", "draining", "down", "recovering"}
  /\ crashes \in 0..MaxCrashes
  /\ sent \subseteq Attempts
  /\ lapsed \subseteq Keys

Init ==
  /\ LedgerInit
  /\ mem = [c \in Commands |-> Absent]
  /\ pc = [r \in Attempts |-> "idle"]
  /\ req = [r \in Attempts |-> None]
  /\ seat = [r \in Attempts |-> "none"]
  /\ then = [r \in Attempts |-> "none"]
  /\ snap = [r \in Attempts |-> Absent]
  /\ cert = [r \in Attempts |-> "none"]
  /\ rv = [x \in Reviews |-> ReviewIdle]
  /\ quarantined = FALSE
  /\ phase = "up"
  /\ crashes = 0
  /\ sent = {}
  /\ lapsed = {}

-------------------------------------------------------------------------------
(* Helpers *)

Up == phase \in {"up", "draining"}

Cmd(r) == req[r].cmd

\* pruneCommandCacheLocked: the cache after evicting settled commands.
Evictions(m) ==
  Pruned(m, IF Cardinality(Present(m)) > CacheMax
              THEN Cardinality(Present(m)) - CacheMax ELSE 0)

\* Attempt r moves on to p and holds no copy to persist.
Goto(r, p) ==
  /\ pc' = [pc EXCEPT ![r] = p]
  /\ UNCHANGED <<seat, then, snap>>

\* The task of r ends and its worker is free.
Leave(r, p) ==
  /\ pc' = [pc EXCEPT ![r] = p]
  /\ seat' = [seat EXCEPT ![r] = "none"]
  /\ then' = [then EXCEPT ![r] = "none"]
  /\ snap' = [snap EXCEPT ![r] = Absent]

\* r takes a copy of command rec in worker s; once it is persisted r is at p.
Write(r, s, rec, p) ==
  /\ pc' = [pc EXCEPT ![r] = "writing"]
  /\ seat' = [seat EXCEPT ![r] = s]
  /\ then' = [then EXCEPT ![r] = p]
  /\ snap' = [snap EXCEPT ![r] = rec]

\* transition: under commandsMutex_ the cached command takes state st, unless
\* it is terminal already: then the late observation becomes evidence only (a
\* branch no task ever takes: TaskHoldsCommand).
Transition(r, s, st, p) ==
  LET old == mem[Cmd(r)]
      new == [old EXCEPT !.rev = @ + 1,
                !.st = IF old.st \in Terminal THEN old.st ELSE st]
  IN /\ mem' = [mem EXCEPT ![Cmd(r)] = new]
     /\ Write(r, s, new, p)

Busy(s, cl) == {r \in Attempts : seat[r] = s /\ ClassOf[req[r].act] = cl}
Queued(p, cl) == {r \in Attempts : pc[r] = p /\ ClassOf[req[r].act] = cl}
Observers == {r \in Attempts : seat[r] = "feedback"}
Awaiting == {r \in Attempts : pc[r] = "awaiting"}

-------------------------------------------------------------------------------
(* A connection thread issues a command *)

WriteReady == Adapter # "unsafe" /\ ~quarantined

\* The request arrives and adapterWriteReady is read; v1 has no key and goes
\* straight to the admission.
Arrive(r) ==
  /\ phase = "up" /\ pc[r] = "idle"
  /\ \E q \in Requests :
       /\ req' = [req EXCEPT ![r] = q]
       /\ pc' = [pc EXCEPT ![r] = IF ~WriteReady THEN "unavailable"
                                  ELSE IF q.key = None THEN "checked"
                                  ELSE "ready"]
  /\ UNCHANGED <<ledgerVars, mem, seat, then, snap, cert, rv, quarantined,
                 phase, crashes, sent, lapsed>>

\* blockingUnknownFor, before commandsMutex_ is taken.
CheckUnresolved(r) ==
  /\ Up /\ pc[r] = "ready"
  /\ Goto(r, IF BlockingUnknown(req[r].act) THEN "blocked" ELSE "checked")
  /\ UNCHANGED <<ledgerVars, mem, req, cert, rv, quarantined, phase, crashes,
                 sent, lapsed>>

\* The command id is cached, or stored and now loaded into the cache: 200 with
\* that command, or 409 when the fingerprint differs.
ReplayCommand(r) ==
  /\ Up /\ pc[r] = "checked"
  /\ \/ mem[Cmd(r)].st # "ABSENT" /\ UNCHANGED mem
     \/ /\ mem[Cmd(r)].st = "ABSENT" /\ rows[Cmd(r)].st # "ABSENT"
        /\ mem' \in Evictions([mem EXCEPT ![Cmd(r)] = rows[Cmd(r)]])
  /\ Goto(r, "replayed")
  /\ UNCHANGED <<ledgerVars, req, cert, rv, quarantined, phase, crashes, sent,
                 lapsed>>

NewCommand(r) == Up /\ pc[r] = "checked"
                 /\ mem[Cmd(r)].st = "ABSENT" /\ rows[Cmd(r)].st = "ABSENT"

\* Mutant of Issued: the revision is never initialised.
IssuedUnversioned(r) == [st |-> "ISSUED", act |-> req[r].act, by |-> r, obs |-> {}]

\* initialCommand
Issued(r) == [st |-> "ISSUED", rev |-> 1, act |-> req[r].act, by |-> r, obs |-> {}]

AdmitUnkeyed(r) ==
  /\ NewCommand(r) /\ req[r].key = None
  /\ Insert(Cmd(r), Issued(r))
  /\ mem' \in Evictions([mem EXCEPT ![Cmd(r)] = Issued(r)])
  /\ Goto(r, "admitted")
  /\ UNCHANGED <<req, cert, rv, quarantined, phase, crashes, sent, lapsed>>

\* The keys whose seven days may be over by now.
Expirable == {k \in Lapsing : dedup[k].cmd # None}

AdmitKeyed(r, expired) ==
  /\ NewCommand(r) /\ req[r].key # None
  /\ Cleaned(expired)[req[r].key].cmd = None
  /\ \/ /\ InsertWithDedup(Cmd(r), Issued(r), req[r].key, req[r].hash, expired)
        /\ mem' \in Evictions([mem EXCEPT ![Cmd(r)] = Issued(r)])
        /\ lapsed' = lapsed \cup expired
        /\ Goto(r, "admitted")
     \/ /\ LedgerFull /\ Deletable(rows) = {}  \* CapacityExhausted, rolled back
        /\ Goto(r, "exhausted")
        /\ UNCHANGED <<ledgerVars, mem, lapsed>>
  /\ UNCHANGED <<req, cert, rv, quarantined, phase, crashes, sent>>

\* insertWithDedup returns DedupConflict or Duplicate.  For a duplicate the
\* stored copy of the first command replaces the cached one; the call throws
\* when the dedup row has expired since, or its command has been pruned.
ReplayKey(r, expired) ==
  LET first == dedup[req[r].key] IN
  /\ NewCommand(r) /\ req[r].key # None
  /\ req[r].key \notin expired /\ first.cmd # None
  /\ dedup' = Cleaned(expired) /\ lapsed' = lapsed \cup expired
  /\ \/ first.hash # req[r].hash /\ Goto(r, "conflict") /\ UNCHANGED mem
     \/ /\ first.hash = req[r].hash
        /\ rows[first.cmd].st = "ABSENT" \/ req[r].key \in Lapsing
        /\ Goto(r, "raised") /\ UNCHANGED mem
     \/ /\ first.hash = req[r].hash /\ rows[first.cmd].st # "ABSENT"
        /\ mem' = [mem EXCEPT ![first.cmd] = rows[first.cmd]]
        /\ Goto(r, "replayed")
  /\ UNCHANGED <<rows, recon, req, cert, rv, quarantined, phase, crashes, sent>>

\* Mutant of Submit: a refused task is forgotten.
SubmitOrForget(r) ==
  LET cl == ClassOf[req[r].act] IN
  /\ Up /\ pc[r] = "admitted"
  /\ Goto(r, IF Cardinality(Queued("queued", cl)) < QueueCap[cl] THEN "queued" ELSE "done")
  /\ UNCHANGED <<ledgerVars, mem, req, cert, rv, quarantined, phase, crashes,
                 sent, lapsed>>

\* The executor of the class admits the task, or is full: then the connection
\* thread itself rejects the command.
Submit(r) ==
  LET cl == ClassOf[req[r].act] IN
  /\ Up /\ pc[r] = "admitted"
  /\ \/ /\ Cardinality(Queued("queued", cl)) < QueueCap[cl]
        /\ Goto(r, "queued") /\ UNCHANGED mem
     \/ /\ Cardinality(Queued("queued", cl)) >= QueueCap[cl]
        /\ Transition(r, "none", "REJECTED", "evict")
  /\ UNCHANGED <<ledgerVars, req, cert, rv, quarantined, phase, crashes, sent,
                 lapsed>>

-------------------------------------------------------------------------------
(* A worker runs the task: runCommandLifecycle *)

Receive(r) ==
  LET cl == ClassOf[req[r].act] IN
  /\ Up /\ pc[r] = "queued"
  /\ Cardinality(Busy("work", cl)) < Workers[cl]
  /\ Transition(r, "work", "RECEIVED", "decide")
  /\ UNCHANGED <<ledgerVars, req, cert, rv, quarantined, phase, crashes, sent,
                 lapsed>>

\* Expired, without the realtime scheduling it requires, or accepted.
Decide(r) ==
  /\ Up /\ pc[r] = "decide"
  /\ \/ Transition(r, "work", "EXPIRED", "evict")
     \/ /\ ClassOf[req[r].act] \in Ungranted
        /\ Transition(r, "work", "REJECTED", "evict")
     \/ /\ ClassOf[req[r].act] \notin Ungranted
        /\ Transition(r, "work", "ACCEPTED", "accepted")
  /\ UNCHANGED <<ledgerVars, req, cert, rv, quarantined, phase, crashes, sent,
                 lapsed>>

Execute(r) ==
  /\ Up /\ pc[r] = "accepted"
  /\ Transition(r, "work", "EXECUTING", "executing")
  /\ UNCHANGED <<ledgerVars, req, cert, rv, quarantined, phase, crashes, sent,
                 lapsed>>

\* CommandService::execute reads the quarantine under its own mutex, then
\* calls the adapter outside of it.
CheckQuarantine(r) ==
  /\ Up /\ pc[r] = "executing"
  /\ Goto(r, IF quarantined THEN "returned" ELSE "clear")
  /\ cert' = IF quarantined THEN [cert EXCEPT ![r] = "NOT_SENT"] ELSE cert
  /\ UNCHANGED <<ledgerVars, mem, req, rv, quarantined, phase, crashes, sent,
                 lapsed>>

\* What an adapter that returns in time may report; an exception counts as
\* POSSIBLY_APPLIED, and so does every failure of the legacy simulation.
Reports == IF Adapter = "simulated" THEN {"POSSIBLY_APPLIED", "APPLIED"}
                                    ELSE Certainty

Deliver(r) ==
  /\ Up /\ pc[r] = "clear"
  /\ sent' = sent \cup {r}
  /\ \/ /\ \E d \in Reports : cert' = [cert EXCEPT ![r] = d]
        /\ UNCHANGED quarantined
     \/ /\ Adapter = "bounded"  \* the in-process contract overran its deadline
        /\ cert' = [cert EXCEPT ![r] = "POSSIBLY_APPLIED"]
        /\ quarantined' = TRUE
  /\ Goto(r, "returned")
  /\ UNCHANGED <<ledgerVars, mem, req, rv, phase, crashes, lapsed>>

\* Timing and certainty are added to the cached command, and a copy persisted.
RecordDelivery(r) ==
  /\ Up /\ pc[r] = "returned"
  /\ Write(r, "work", mem[Cmd(r)], "timed")
  /\ UNCHANGED <<ledgerVars, mem, req, cert, rv, quarantined, phase, crashes,
                 sent, lapsed>>

\* Mutant of Conclude: a write that may have been applied is called a failure.
ConcludeHopefully(r) ==
  /\ Up /\ pc[r] = "timed"
  /\ \/ cert[r] # "APPLIED" /\ Transition(r, "work", "FAILED", "evict")
     \/ cert[r] = "APPLIED" /\ Transition(r, "work", "APPLIED", "applied")
  /\ UNCHANGED <<ledgerVars, req, cert, rv, quarantined, phase, crashes, sent,
                 lapsed>>

Conclude(r) ==
  /\ Up /\ pc[r] = "timed"
  /\ \/ /\ cert[r] \in {"NOT_SENT", "REJECTED"}
        /\ Transition(r, "work", "FAILED", "evict")
     \/ /\ cert[r] = "POSSIBLY_APPLIED"
        /\ Transition(r, "work", "OUTCOME_UNKNOWN", "evict")
     \/ /\ cert[r] = "APPLIED"
        /\ Transition(r, "work", "APPLIED", "applied")
  /\ UNCHANGED <<ledgerVars, req, cert, rv, quarantined, phase, crashes, sent,
                 lapsed>>

ScheduleFeedback(r) ==
  /\ Up /\ pc[r] = "applied"
  /\ \/ /\ Cardinality(Awaiting) < FeedbackCap
        /\ Leave(r, "awaiting") /\ UNCHANGED mem
     \/ /\ Cardinality(Awaiting) >= FeedbackCap
        /\ Transition(r, "work", "OUTCOME_UNKNOWN", "evict")
  /\ UNCHANGED <<ledgerVars, req, cert, rv, quarantined, phase, crashes, sent,
                 lapsed>>

-------------------------------------------------------------------------------
(* A feedback observer: monitorCommandFeedback *)

StartObserving(r) ==
  /\ Up /\ pc[r] = "awaiting"
  /\ Cardinality(Observers) < FeedbackWorkers
  /\ pc' = [pc EXCEPT ![r] = "observing"]
  /\ seat' = [seat EXCEPT ![r] = "feedback"]
  /\ UNCHANGED <<ledgerVars, mem, then, snap, req, cert, rv, quarantined,
                 phase, crashes, sent, lapsed>>

\* Confirmed, failed, or unsupported, an exception or the deadline.
Observe(r) ==
  /\ Up /\ pc[r] = "observing"
  /\ \E st \in {"CONFIRMED", "FAILED", "OUTCOME_UNKNOWN"} :
       Transition(r, "feedback", st, "evict")
  /\ UNCHANGED <<ledgerVars, req, cert, rv, quarantined, phase, crashes, sent,
                 lapsed>>

-------------------------------------------------------------------------------
(* What every transition ends with *)

\* persistCommand of the copy, after commandsMutex_ was released.
Persist(r) ==
  /\ Up /\ pc[r] = "writing"
  /\ Update(Cmd(r), snap[r])
  /\ pc' = [pc EXCEPT ![r] = then[r]]
  /\ then' = [then EXCEPT ![r] = "none"]
  /\ snap' = [snap EXCEPT ![r] = Absent]
  /\ UNCHANGED <<mem, seat, req, cert, rv, quarantined, phase, crashes, sent,
                 lapsed>>

\* Mutant of PersistFails: the exception ends the worker thread.
PersistKillsWorker(r) ==
  /\ Up /\ pc[r] = "writing"
  /\ r \in FaultyWrites \/ rows[Cmd(r)].st = "ABSENT"
  /\ Goto(r, "abandoned")
  /\ UNCHANGED <<ledgerVars, mem, req, cert, rv, quarantined, phase, crashes,
                 sent, lapsed>>

\* The ledger throws; the executor swallows the exception and the task is gone.
PersistFails(r) ==
  /\ Up /\ pc[r] = "writing"
  /\ r \in FaultyWrites \/ rows[Cmd(r)].st = "ABSENT"
  /\ Leave(r, "abandoned")
  /\ UNCHANGED <<ledgerVars, mem, req, cert, rv, quarantined, phase, crashes,
                 sent, lapsed>>

\* A terminal transition prunes the cache last.
Evict(r) ==
  /\ Up /\ pc[r] = "evict"
  /\ mem' \in Evictions(mem)
  /\ Leave(r, "done")
  /\ UNCHANGED <<ledgerVars, req, cert, rv, quarantined, phase, crashes, sent,
                 lapsed>>

-------------------------------------------------------------------------------
(* Reconciliation: reconcileCommandV2 *)

\* commandV2: the cached command, else the stored one.
Visible(c) == IF mem[c].st # "ABSENT" THEN mem[c] ELSE rows[c]

\* The state is checked and the verdict appended.  One step: what changes in
\* between, AppendEvidence, which reads the cache again, sees as well.
RecordReview(x) ==
  /\ phase = "up" /\ rv[x].pc = "idle"
  /\ \E c \in Commands, verdict \in {"hold", "retry"} :
       /\ Visible(c).st = "OUTCOME_UNKNOWN"
       /\ recon' = [recon EXCEPT ![c] = verdict]
       /\ rv' = [rv EXCEPT ![x] = [pc |-> "recorded", cmd |-> c, snap |-> Absent]]
  /\ UNCHANGED <<rows, dedup, mem, taskVars, req, cert, quarantined, phase,
                 crashes, sent, lapsed>>

\* Mutant of AppendEvidence: the reconciliation rewrites the state.
AppendConclusion(x) ==
  LET c == rv[x].cmd
      new == [mem[c] EXCEPT !.rev = @ + 1, !.st = "FAILED"]
  IN
  /\ Up /\ rv[x].pc = "recorded" /\ mem[c].st # "ABSENT"
  /\ mem' = [mem EXCEPT ![c] = new]
  /\ rv' = [rv EXCEPT ![x].pc = "writing", ![x].snap = new]
  /\ UNCHANGED <<ledgerVars, taskVars, req, cert, quarantined, phase, crashes,
                 sent, lapsed>>

\* appendCommandEvidence: nothing when the command is not cached.
AppendEvidence(x) ==
  LET c == rv[x].cmd
      new == [mem[c] EXCEPT !.rev = @ + 1, !.obs = @ \cup {x}]
  IN
  /\ Up /\ rv[x].pc = "recorded"
  /\ \/ /\ mem[c].st = "ABSENT"
        /\ rv' = [rv EXCEPT ![x].pc = "done"] /\ UNCHANGED mem
     \/ /\ mem[c].st # "ABSENT"
        /\ mem' = [mem EXCEPT ![c] = new]
        /\ rv' = [rv EXCEPT ![x].pc = "writing", ![x].snap = new]
  /\ UNCHANGED <<ledgerVars, taskVars, req, cert, quarantined, phase, crashes,
                 sent, lapsed>>

PersistEvidence(x) ==
  /\ Up /\ rv[x].pc = "writing"
  /\ Update(rv[x].cmd, rv[x].snap)
  /\ rv' = [rv EXCEPT ![x].pc = "done", ![x].snap = Absent]
  /\ UNCHANGED <<mem, taskVars, req, cert, quarantined, phase, crashes, sent,
                 lapsed>>

-------------------------------------------------------------------------------
(* Crash, graceful stop, restart *)

\* Threads, queues, cache and quarantine are gone; the ledger stays.
Vanish ==
  /\ pc' = [r \in Attempts |-> IF pc[r] \in Calling THEN "dropped"
                               ELSE IF pc[r] \in Live THEN "lost" ELSE pc[r]]
  /\ seat' = [r \in Attempts |-> "none"]
  /\ then' = [r \in Attempts |-> "none"]
  /\ snap' = [r \in Attempts |-> Absent]
  /\ mem' = [c \in Commands |-> Absent]
  /\ rv' = [x \in Reviews |-> IF rv[x].pc = "idle" THEN rv[x]
                              ELSE [ReviewIdle EXCEPT !.pc = "done"]]
  /\ quarantined' = FALSE
  /\ phase' = "down"
  /\ UNCHANGED <<ledgerVars, req, cert, sent, lapsed>>

Crash ==
  /\ phase # "down" /\ crashes < MaxCrashes
  /\ crashes' = crashes + 1
  /\ Vanish

InCall == \/ \E r \in Attempts :
               \/ pc[r] \in Calling \cup {"admitted"}
               \/ pc[r] \in {"writing", "evict"} /\ seat[r] = "none"
          \/ \E x \in Reviews : rv[x].pc \in {"recorded", "writing"}

\* ~ApplicationService begins; we assume that no call is inside the service,
\* which the detached connection threads of http_server.cpp do not ensure ...
Stop ==
  /\ phase = "up" /\ ~InCall /\ crashes < MaxCrashes
  /\ crashes' = crashes + 1
  /\ phase' = "draining"
  /\ UNCHANGED <<ledgerVars, mem, taskVars, req, cert, rv, quarantined, sent,
                 lapsed>>

\* ... and ends when the workers, and then the observers, have drained.
Stopped ==
  /\ phase = "draining"
  /\ \A r \in Attempts : pc[r] \notin Live
  /\ Vanish
  /\ UNCHANGED crashes

\* restoreCommandLedger loads the recent rows ...
Restart ==
  /\ phase = "down"
  /\ \E S \in SUBSET Present(rows) :
       /\ Cardinality(S) = IF Cardinality(Present(rows)) < CacheMax
                             THEN Cardinality(Present(rows)) ELSE CacheMax
       /\ mem' = [c \in Commands |-> IF c \in S THEN rows[c] ELSE Absent]
  /\ phase' = "recovering"
  /\ UNCHANGED <<ledgerVars, taskVars, req, cert, rv, quarantined, crashes,
                 sent, lapsed>>

\* Mutant of Recover: the cache keeps what was loaded.
RecoverStored(c) ==
  /\ phase = "recovering" /\ c \in NonTerminal
  /\ Update(c, [rows[c] EXCEPT !.st = "OUTCOME_UNKNOWN", !.rev = @ + 1])
  /\ UNCHANGED <<mem, taskVars, req, cert, rv, quarantined, phase, crashes,
                 sent, lapsed>>

\* ... turns every non-terminal row, one by one, into an unknown outcome ...
Recover(c) ==
  LET new == [rows[c] EXCEPT !.st = "OUTCOME_UNKNOWN", !.rev = @ + 1] IN
  /\ phase = "recovering" /\ c \in NonTerminal
  /\ Update(c, new)
  /\ mem' = [mem EXCEPT ![c] = new]
  /\ UNCHANGED <<taskVars, req, cert, rv, quarantined, phase, crashes, sent,
                 lapsed>>

\* Mutant of Recovered: calls are taken before the rows are walked.
RecoveredEarly ==
  /\ phase = "recovering"
  /\ mem' \in Evictions(mem)
  /\ phase' = "up"
  /\ UNCHANGED <<ledgerVars, taskVars, req, cert, rv, quarantined, crashes,
                 sent, lapsed>>

\* ... and prunes the cache before the service takes calls.
Recovered ==
  /\ phase = "recovering" /\ NonTerminal = {}
  /\ mem' \in Evictions(mem)
  /\ phase' = "up"
  /\ UNCHANGED <<ledgerVars, taskVars, req, cert, rv, quarantined, crashes,
                 sent, lapsed>>

-------------------------------------------------------------------------------
Admission(r) ==
  \/ ReplayCommand(r) \/ AdmitUnkeyed(r)
  \/ \E expired \in SUBSET Expirable : AdmitKeyed(r, expired) \/ ReplayKey(r, expired)

Task(r) ==
  \/ Receive(r) \/ Decide(r) \/ Execute(r) \/ CheckQuarantine(r) \/ Deliver(r)
  \/ RecordDelivery(r) \/ Conclude(r) \/ ScheduleFeedback(r)
  \/ StartObserving(r) \/ Observe(r) \/ Evict(r)

Handle(r) == CheckUnresolved(r) \/ Admission(r) \/ Submit(r)

Review(x) == AppendEvidence(x) \/ PersistEvidence(x)

Recovery == Restart \/ (\E c \in Commands : Recover(c)) \/ Recovered

Next ==
  \/ \E r \in Attempts : Arrive(r) \/ Handle(r) \/ Task(r) \/ Persist(r) \/ PersistFails(r)
  \/ \E x \in Reviews : RecordReview(x) \/ Review(x)
  \/ Crash \/ Stop \/ Stopped \/ Recovery

Spec == Init /\ [][Next]_vars

\* Threads that can run do run, and a dead backend is started again.
Fairness ==
  /\ \A r \in Attempts : WF_vars(Handle(r)) /\ WF_vars(Task(r))
                         /\ WF_vars(Persist(r) \/ PersistFails(r))
  /\ \A x \in Reviews : WF_vars(Review(x))
  /\ WF_vars(Recovery) /\ WF_vars(Stopped)

FairSpec == Spec /\ Fairness

-------------------------------------------------------------------------------
(* Properties *)

\* Steps of a task before its adapter call.
Unsent == {"admitted", "queued", "decide", "accepted", "executing", "clear"}

\* Exactly-once writing (platform_command_b4.cpp, "idempotency key replayed
\* physical command"): as long as its dedup row lives, an idempotency key makes
\* at most one attempt call the adapter, across retries under new command ids,
\* crashes and restarts; and no task calls it twice.
KeySentOnce ==
  /\ \A r1, r2 \in sent :
       /\ req[r1].key = req[r2].key
       /\ req[r1].key \notin {None} \cup lapsed
       => r1 = r2
  /\ \A r \in sent : pc[r] \notin Unsent

\* A durable verdict never says more than the field did: REJECTED and EXPIRED
\* commands never reached the adapter, CONFIRMED ones were applied, and a write
\* that may have been applied ends in nothing but OUTCOME_UNKNOWN.
VerdictHonest ==
  \A r \in Attempts : req[r] # None /\ rows[Cmd(r)].by = r =>
    LET st == rows[Cmd(r)].st IN
    /\ st \in {"REJECTED", "EXPIRED"} => r \notin sent
    /\ st = "CONFIRMED" => r \in sent /\ cert[r] = "APPLIED"
    /\ st = "FAILED" => cert[r] \in {"NOT_SENT", "REJECTED", "APPLIED"}
    /\ cert[r] = "POSSIBLY_APPLIED" => st \notin Prunable

\* A task that still has a transition to make.
Pending(r) == \/ pc[r] \in Live \ {"writing", "evict"}
              \/ pc[r] = "writing" /\ then[r] # "evict"

\* commands_.at(commandId) and the ledger update of a transition never find the
\* command gone: neither the cache nor the ledger is pruned under a task.  Nor
\* is the command settled before its task is: no transition comes late.
TaskHoldsCommand ==
  \A r \in Attempts :
    /\ Pending(r) => mem[Cmd(r)].by = r /\ mem[Cmd(r)].st \notin Terminal
    /\ Pending(r) \/ pc[r] = "writing" => rows[Cmd(r)].by = r

\* restoreCommandLedger leaves nothing in doubt: once the service is up, a
\* command the ledger shows as running has a task that runs it, or lost it to a
\* failed write.
NoOrphans ==
  phase = "up" =>
    \A c \in NonTerminal : \E r \in Attempts :
      /\ req[r] # None /\ Cmd(r) = c
      /\ pc[r] \in Live \cup {"abandoned"}

\* No call and no task has command c in its hands.
Quiet(c) ==
  /\ \A r \in Attempts : pc[r] \in Live \cup {"abandoned"} => Cmd(r) # c
  /\ \A x \in Reviews : rv[x].pc \in {"recorded", "writing"} => rv[x].cmd # c

\* What the API shows of a command that is at rest and what the ledger holds
\* agree on whether its outcome is unknown: else a reconciliation is refused for
\* a command that blocks its action.  And they never show different verdicts.
\* (A settled verdict may be shown as still running: pruneCommandCacheLocked may
\* evict it before its copy is persisted, and a repeated call load the old row.)
ApiShowsVerdict ==
  phase = "up" => \A c \in Commands : Quiet(c) =>
    /\ Visible(c).st = "OUTCOME_UNKNOWN" <=> rows[c].st = "OUTCOME_UNKNOWN"
    /\ {Visible(c).st, rows[c].st} \subseteq Terminal => Visible(c).st = rows[c].st

\* With keyed commands only, the ledger never exceeds its capacity.
LedgerBounded == MaxRecords > 0 => Cardinality(Present(rows)) <= MaxRecords

\* A durable verdict is final: no later write of anyone, a reconciliation
\* included, turns it into another state of the same command.
VerdictFinal ==
  [][\A c \in Commands :
       rows[c].st \in Terminal /\ rows'[c].by = rows[c].by
       => rows'[c].st = rows[c].st]_vars

\* An unknown outcome leaves the ledger by no prune.
UnknownKept ==
  [][\A c \in Commands : rows[c].st = "OUTCOME_UNKNOWN"
                         => rows'[c].by = rows[c].by]_vars

\* Every call is answered and every task ends, whatever queue is full.
EveryTaskEnds ==
  \A r \in Attempts : pc[r] \in Calling \cup Live ~> pc[r] \in Answered \cup Over

\* A command does not stay in doubt: its row reaches a verdict, if need be
\* by the recovery of the next start, unless the ledger refused its task a write.
EveryCommandSettles ==
  \A c \in Commands :
    rows[c].st \in Running
    ~> \/ rows[c].st \notin Running
       \/ \E r \in Attempts : pc[r] = "abandoned" /\ Cmd(r) = c

\* "an unresolved prior command blocks the same device action until
\* reconciliation explicitly allows retry" (application.cpp:1176).
UnknownBlocksAdmission ==
  [][\A r \in Attempts :
       pc[r] = "checked" /\ pc'[r] = "admitted" /\ req[r].key # None
       => ~BlockingUnknown(req[r].act)]_vars

\* A retried idempotency key is answered with the command it made
\* (platform_command_b4.cpp:206), never with an exception.
KeyResolves == \A r \in Attempts : pc[r] # "raised"

\* The admissions, the dedup table and the adapter calls implement DeliverOnce.
Once == INSTANCE DeliverOnce WITH
  owner <- [k \in Keys |-> dedup[k].by],
  claims <- {<<r, req[r].key>> : r \in {a \in Attempts : pc[a] \in Admitted}},
  sent <- sent

DeliversOnce == Once!Spec
===============================================================================
