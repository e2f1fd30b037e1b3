------------------------ MODULE CommandLifecycleProofs ------------------------
(***************************************************************************)
(* Proofs about CommandLifecycle, for any commands, keys, attempts, queue  *)
(* sizes, capacities and any number of crashes.                            *)
(***************************************************************************)
EXTENDS CommandLifecycle, TLAPS

(* Typing *)

\* What the task helpers change.  The type invariant is not inductive without
\* the last two parts: a transition that is being persisted knows where it goes
\* on, and an attempt that has arrived has a request.
TaskInv ==
  /\ pc \in [Attempts -> Labels]
  /\ seat \in [Attempts -> {"none", "work", "feedback"}]
  /\ then \in [Attempts -> {"none"} \cup (Live \ {"writing"})]
  /\ snap \in [Attempts -> Record]
  /\ \A r \in Attempts : pc[r] = "writing" <=> then[r] # "none"
  /\ \A r \in Attempts : pc[r] # "idle" => req[r] # None

\* A review that is under way has a command.
ReviewInv ==
  \A x \in Reviews : rv[x].pc \in {"recorded", "writing"} => rv[x].cmd # None

TypeInv == TypeOK /\ TaskInv /\ ReviewInv

LEMMA AbsentIsRecord == Absent \in Record
  BY DEF Absent, Record

\* A revision of a command is well formed.
LEMMA RevisionType ==
  ASSUME NEW rec \in Record, NEW st \in Running \cup Terminal \cup {"ABSENT"},
         NEW obs \in SUBSET Reviews
  PROVE  /\ [rec EXCEPT !.rev = @ + 1, !.st = st] \in Record
         /\ [rec EXCEPT !.rev = @ + 1, !.obs = obs] \in Record
<1>1. rec.rev + 1 \in Nat
  BY DEF Record
<1> QED
  BY <1>1 DEF Record

\* A prune keeps an entry or clears it.
LEMMA PrunedEntries ==
  ASSUME NEW m, NEW n, NEW p \in Pruned(m, n), NEW c \in Commands
  PROVE  p[c] \in {m[c], Absent}
  BY DEF Pruned, Without

LEMMA PrunedType ==
  ASSUME NEW m \in [Commands -> Record], NEW n, NEW p \in Pruned(m, n)
  PROVE  p \in [Commands -> Record]
  BY AbsentIsRecord DEF Pruned, Without

LEMMA EvictionsType ==
  ASSUME NEW m \in [Commands -> Record], NEW p \in Evictions(m)
  PROVE  p \in [Commands -> Record]
  BY PrunedType DEF Evictions

\* An attempt under way asks for one of the requests.
LEMMA RequestType ==
  ASSUME TypeInv, NEW r \in Attempts, pc[r] # "idle"
  PROVE  /\ req[r] \in Requests
         /\ Cmd(r) \in Commands
         /\ req[r].key \in Keys \cup {None}
         /\ req[r].act \in Actions
         /\ req[r].hash \in Hashes
  BY LifecycleAssumption DEF TypeInv, TypeOK, TaskInv, Cmd

LEMMA IssuedType ==
  ASSUME TypeInv, NEW r \in Attempts, pc[r] # "idle"
  PROVE  Issued(r) \in Record
  BY RequestType DEF Issued, Record, Running

LEMMA GotoType ==
  ASSUME TaskInv, NEW r \in Attempts, pc[r] \notin {"idle", "writing"},
         NEW p \in Labels \ {"writing"}, Goto(r, p), UNCHANGED req
  PROVE  TaskInv'
  BY DEF TaskInv, Goto

LEMMA LeaveType ==
  ASSUME TaskInv, NEW r \in Attempts, pc[r] # "idle",
         NEW p \in Labels \ {"writing"}, Leave(r, p), UNCHANGED req
  PROVE  TaskInv'
  BY AbsentIsRecord DEF TaskInv, Leave

LEMMA WriteType ==
  ASSUME TaskInv, NEW r \in Attempts, pc[r] # "idle",
         NEW s \in {"none", "work", "feedback"}, NEW rec \in Record,
         NEW p \in Live \ {"writing"}, Write(r, s, rec, p), UNCHANGED req
  PROVE  TaskInv'
  BY DEF TaskInv, Write, Labels, Admitted, Live

LEMMA TransitionType ==
  ASSUME TypeInv, NEW r \in Attempts, pc[r] # "idle",
         NEW s \in {"none", "work", "feedback"},
         NEW st \in Running \cup Terminal, NEW p \in Live \ {"writing"},
         Transition(r, s, st, p), UNCHANGED req
  PROVE  TaskInv' /\ mem' \in [Commands -> Record]
<1> DEFINE old == mem[Cmd(r)]
           new == [old EXCEPT !.rev = @ + 1,
                     !.st = IF old.st \in Terminal THEN old.st ELSE st]
<1>1. old \in Record
  BY RequestType DEF TypeInv, TypeOK
<1>2. new \in Record
  <2>1. (IF old.st \in Terminal THEN old.st ELSE st) \in Running \cup Terminal
    OBVIOUS
  <2>2. old.obs \in SUBSET Reviews
    BY <1>1 DEF Record
  <2> HIDE DEF old
  <2> QED
    BY <1>1, <2>1, <2>2, RevisionType
<1>3. mem' = [mem EXCEPT ![Cmd(r)] = new] /\ Write(r, s, new, p)
  BY DEF Transition
<1>4. mem' \in [Commands -> Record]
  BY <1>2, <1>3, RequestType DEF TypeInv, TypeOK
<1>5. TaskInv'
  BY <1>2, <1>3, WriteType DEF TypeInv
<1> QED
  BY <1>4, <1>5

LEMMA InitType == Init => TypeInv
<1> SUFFICES ASSUME Init PROVE TypeInv
  OBVIOUS
<1>1. TaskInv
  BY AbsentIsRecord DEF Init, TaskInv, Labels
<1>2. LedgerTypeOK
  BY AbsentIsRecord DEF Init, LedgerInit, LedgerTypeOK, NoDedup
<1>3. rv \in [Reviews -> [pc : {"idle", "recorded", "writing", "done"},
                         cmd : Commands \cup {None}, snap : Record]]
      /\ ReviewInv
  BY AbsentIsRecord DEF Init, ReviewInv, ReviewIdle
<1>4. crashes \in 0..MaxCrashes
  BY LifecycleAssumption DEF Init
<1>5. /\ mem \in [Commands -> Record]
      /\ req \in [Attempts -> Requests \cup {None}]
      /\ cert \in [Attempts -> Certainty \cup {"none"}]
  BY AbsentIsRecord DEF Init
<1>6. TypeOK
  BY <1>1, <1>2, <1>3, <1>4, <1>5 DEF Init, TypeOK, TaskInv
<1> QED
  BY <1>1, <1>3, <1>6 DEF TypeInv

LEMMA CallType ==
  ASSUME TypeInv, NEW r \in Attempts, Arrive(r) \/ CheckUnresolved(r)
  PROVE  TypeInv'
<1>1. CASE Arrive(r)
  <2>1. PICK q \in Requests :
          /\ req' = [req EXCEPT ![r] = q]
          /\ pc' = [pc EXCEPT ![r] = IF ~WriteReady THEN "unavailable"
                                     ELSE IF q.key = None THEN "checked"
                                     ELSE "ready"]
    BY <1>1 DEF Arrive
  <2>2. UNCHANGED <<seat, then, snap>>
    BY <1>1 DEF Arrive
  <2>3. TaskInv'
    <3> DEFINE p == IF ~WriteReady THEN "unavailable"
                    ELSE IF q.key = None THEN "checked" ELSE "ready"
    <3>1. p \in Labels /\ p # "writing"
      BY DEF Labels, Calling, Answered
    <3>2. pc' = [pc EXCEPT ![r] = p]
      BY <2>1
    <3>3. q # None /\ pc[r] = "idle"
      BY <1>1, LifecycleAssumption DEF Arrive
    <3> HIDE DEF p
    <3> QED
      BY <2>1, <2>2, <3>1, <3>2, <3>3 DEF TypeInv, TaskInv, TypeOK
  <2>4. req' \in [Attempts -> Requests \cup {None}]
    BY <2>1 DEF TypeInv, TypeOK
  <2> QED
    BY <1>1, <2>3, <2>4
    DEF TypeInv, TypeOK, TaskInv, ReviewInv, LedgerTypeOK, Arrive, ledgerVars
<1>2. CASE CheckUnresolved(r)
  <2>1. TaskInv'
    BY <1>2, GotoType DEF TypeInv, Labels, Calling, Answered, CheckUnresolved
  <2> QED
    BY <1>2, <2>1 DEF TypeInv, TypeOK, TaskInv, ReviewInv, LedgerTypeOK,
                      CheckUnresolved, ledgerVars
<1> QED
  BY <1>1, <1>2

LEMMA CleanedType ==
  ASSUME LedgerTypeOK, NEW gone
  PROVE  Cleaned(gone) \in [Keys -> [cmd : Commands \cup {None},
                                     hash : Hashes \cup {None},
                                     by : Attempts \cup {None}]]
  BY DEF LedgerTypeOK, Cleaned, NoDedup

LEMMA UpdateType ==
  ASSUME LedgerTypeOK, NEW c \in Commands, NEW rec \in Record, Update(c, rec)
  PROVE  LedgerTypeOK'
  BY DEF LedgerTypeOK, Update

LEMMA InsertType ==
  ASSUME LedgerTypeOK, NEW c \in Commands, NEW rec \in Record, Insert(c, rec)
  PROVE  LedgerTypeOK'
<1> DEFINE m == [rows EXCEPT ![c] = rec]
<1>1. m \in [Commands -> Record]
  BY DEF LedgerTypeOK
<1>2. PICK n : rows' \in Pruned(m, n)
  BY DEF Insert
<1>3. rows' \in [Commands -> Record]
  BY <1>1, <1>2, PrunedType
<1> QED
  BY <1>3 DEF LedgerTypeOK, Insert

LEMMA InsertWithDedupType ==
  ASSUME LedgerTypeOK, NEW c \in Commands, NEW rec \in Record, rec.by \in Attempts,
         NEW k \in Keys, NEW h \in Hashes, NEW gone,
         InsertWithDedup(c, rec, k, h, gone)
  PROVE  LedgerTypeOK'
<1> DEFINE n == IF LedgerFull THEN 1 ELSE 0
<1>1. PICK m \in Pruned(rows, n) : rows' = [m EXCEPT ![c] = rec]
  BY DEF InsertWithDedup
<1>2. rows' \in [Commands -> Record]
  BY <1>1, PrunedType DEF LedgerTypeOK
<1>3. dedup' = [Cleaned(gone) EXCEPT ![k] = [cmd |-> c, hash |-> h, by |-> rec.by]]
  BY DEF InsertWithDedup
<1>4. dedup' \in [Keys -> [cmd : Commands \cup {None}, hash : Hashes \cup {None},
                           by : Attempts \cup {None}]]
  BY <1>3, CleanedType
<1> QED
  BY <1>2, <1>4 DEF LedgerTypeOK, InsertWithDedup

LEMMA ReplayCommandType ==
  ASSUME TypeInv, NEW r \in Attempts, ReplayCommand(r)
  PROVE  TypeInv'
<1>1. TaskInv'
  BY GotoType DEF TypeInv, Labels, Calling, Answered, ReplayCommand
<1>2. [mem EXCEPT ![Cmd(r)] = rows[Cmd(r)]] \in [Commands -> Record]
  BY RequestType DEF TypeInv, TypeOK, LedgerTypeOK, ReplayCommand
<1>3. mem' \in [Commands -> Record]
  BY <1>2, EvictionsType DEF TypeInv, TypeOK, ReplayCommand
<1> QED
  BY <1>1, <1>3 DEF TypeInv, TypeOK, TaskInv, ReviewInv, LedgerTypeOK,
                    ReplayCommand, ledgerVars

LEMMA AdmitUnkeyedType ==
  ASSUME TypeInv, NEW r \in Attempts, AdmitUnkeyed(r)
  PROVE  TypeInv'
<1>1. pc[r] = "checked" /\ Issued(r) \in Record /\ Cmd(r) \in Commands
  BY IssuedType, RequestType DEF AdmitUnkeyed, NewCommand
<1>2. TaskInv'
  BY <1>1, GotoType DEF TypeInv, Labels, Admitted, Live, AdmitUnkeyed
<1>3. LedgerTypeOK'
  BY <1>1, InsertType DEF TypeInv, TypeOK, AdmitUnkeyed
<1>4. [mem EXCEPT ![Cmd(r)] = Issued(r)] \in [Commands -> Record]
  BY <1>1 DEF TypeInv, TypeOK
<1>5. mem' \in [Commands -> Record]
  BY <1>4, EvictionsType DEF AdmitUnkeyed
<1> QED
  BY <1>2, <1>3, <1>5 DEF TypeInv, TypeOK, TaskInv, ReviewInv, AdmitUnkeyed

LEMMA AdmitKeyedType ==
  ASSUME TypeInv, NEW r \in Attempts, NEW expired \in SUBSET Expirable,
         AdmitKeyed(r, expired)
  PROVE  TypeInv'
<1>1. /\ pc[r] = "checked" /\ Issued(r) \in Record /\ Issued(r).by \in Attempts
      /\ Cmd(r) \in Commands /\ req[r].key \in Keys /\ req[r].hash \in Hashes
  BY IssuedType, RequestType DEF AdmitKeyed, NewCommand, Issued
<1>2. expired \subseteq Keys
  BY LedgerAssumption DEF Expirable
<1>3. CASE /\ InsertWithDedup(Cmd(r), Issued(r), req[r].key, req[r].hash, expired)
           /\ mem' \in Evictions([mem EXCEPT ![Cmd(r)] = Issued(r)])
           /\ lapsed' = lapsed \cup expired
           /\ Goto(r, "admitted")
  <2>1. TaskInv'
    BY <1>1, <1>3, GotoType DEF TypeInv, Labels, Admitted, Live, AdmitKeyed
  <2>2. LedgerTypeOK'
    BY <1>1, <1>3, InsertWithDedupType DEF TypeInv, TypeOK
  <2>3. [mem EXCEPT ![Cmd(r)] = Issued(r)] \in [Commands -> Record]
    BY <1>1 DEF TypeInv, TypeOK
  <2>4. mem' \in [Commands -> Record]
    BY <1>3, <2>3, EvictionsType
  <2> QED
    BY <1>2, <1>3, <2>1, <2>2, <2>4
    DEF TypeInv, TypeOK, TaskInv, ReviewInv, AdmitKeyed
<1>4. CASE Goto(r, "exhausted") /\ UNCHANGED <<ledgerVars, mem, lapsed>>
  <2>1. TaskInv'
    BY <1>1, <1>4, GotoType DEF TypeInv, Labels, Answered, AdmitKeyed
  <2> QED
    BY <1>4, <2>1 DEF TypeInv, TypeOK, TaskInv, ReviewInv, LedgerTypeOK,
                      AdmitKeyed, ledgerVars
<1> QED
  BY <1>3, <1>4 DEF AdmitKeyed

LEMMA ReplayKeyType ==
  ASSUME TypeInv, NEW r \in Attempts, NEW expired \in SUBSET Expirable,
         ReplayKey(r, expired)
  PROVE  TypeInv'
<1> DEFINE first == dedup[req[r].key]
<1>1. pc[r] = "checked" /\ req[r].key \in Keys
  BY RequestType DEF ReplayKey, NewCommand
<1>2. first.cmd \in Commands /\ rows[first.cmd] \in Record
  BY <1>1 DEF ReplayKey, TypeInv, TypeOK, LedgerTypeOK
<1>3. mem' \in [Commands -> Record]
  BY <1>2 DEF ReplayKey, TypeInv, TypeOK
<1>4. TaskInv'
  BY <1>1, GotoType DEF TypeInv, Labels, Answered, ReplayKey
<1>5. LedgerTypeOK'
  BY CleanedType DEF TypeInv, TypeOK, LedgerTypeOK, ReplayKey
<1>6. lapsed' \subseteq Keys
  BY LedgerAssumption DEF TypeInv, TypeOK, ReplayKey, Expirable
<1> QED
  BY <1>3, <1>4, <1>5, <1>6 DEF TypeInv, TypeOK, TaskInv, ReviewInv, ReplayKey

\* What a step of a task leaves alone.
LEMMA RestType ==
  ASSUME TypeInv, TaskInv', LedgerTypeOK', mem' \in [Commands -> Record],
         cert' \in [Attempts -> Certainty \cup {"none"}],
         quarantined' \in BOOLEAN, sent' \subseteq Attempts,
         UNCHANGED <<req, rv, phase, crashes, lapsed>>
  PROVE  TypeInv'
  BY DEF TypeInv, TypeOK, TaskInv, ReviewInv

LEMMA LedgerUnchangedType ==
  ASSUME LedgerTypeOK, UNCHANGED ledgerVars
  PROVE  LedgerTypeOK'
  BY DEF LedgerTypeOK, ledgerVars

LEMMA SubmitType ==
  ASSUME TypeInv, NEW r \in Attempts, Submit(r)
  PROVE  TypeInv'
<1>1. pc[r] # "idle"
  BY DEF Submit
<1>2. TaskInv' /\ mem' \in [Commands -> Record]
  <2>1. CASE Goto(r, "queued") /\ UNCHANGED mem
    BY <1>1, <2>1, GotoType DEF TypeInv, TypeOK, Labels, Admitted, Live, Submit
  <2>2. CASE Transition(r, "none", "REJECTED", "evict")
    <3>1. "REJECTED" \in Running \cup Terminal /\ "evict" \in Live \ {"writing"}
      BY DEF Terminal, Prunable, Live
    <3> QED
      BY <1>1, <2>2, <3>1, TransitionType DEF Submit
  <2> QED
    BY <2>1, <2>2 DEF Submit
<1> QED
  BY <1>2, RestType, LedgerUnchangedType DEF TypeInv, TypeOK, Submit

\* The states and labels that the transitions of a task name.
LEMMA NamedStates ==
  /\ {"RECEIVED", "EXPIRED", "REJECTED", "ACCEPTED", "EXECUTING", "FAILED",
      "OUTCOME_UNKNOWN", "APPLIED", "CONFIRMED"} \subseteq Running \cup Terminal
  /\ {"decide", "evict", "accepted", "executing", "applied", "timed"}
       \subseteq Live \ {"writing"}
  BY DEF Running, Terminal, Prunable, Live

\* The steps of a task that are transitions.
LEMMA TransitionsType ==
  ASSUME TypeInv, NEW r \in Attempts,
         Receive(r) \/ Decide(r) \/ Execute(r) \/ Conclude(r) \/ Observe(r)
  PROVE  TypeInv'
<1>1. pc[r] # "idle" /\ UNCHANGED <<ledgerVars, req, cert, rv, quarantined,
                                    phase, crashes, sent, lapsed>>
  BY DEF Receive, Decide, Execute, Conclude, Observe
<1>2. PICK s \in {"none", "work", "feedback"}, st \in Running \cup Terminal, p \in Live \ {"writing"} :
        Transition(r, s, st, p)
  <2>1. CASE Receive(r)
    BY <2>1, NamedStates DEF Receive
  <2>2. CASE Decide(r)
    BY <2>2, NamedStates DEF Decide
  <2>3. CASE Execute(r)
    BY <2>3, NamedStates DEF Execute
  <2>4. CASE Conclude(r)
    BY <2>4, NamedStates DEF Conclude
  <2>5. CASE Observe(r)
    BY <2>5, NamedStates DEF Observe
  <2> QED
    BY <2>1, <2>2, <2>3, <2>4, <2>5
<1>3. TaskInv' /\ mem' \in [Commands -> Record]
  BY <1>1, <1>2, TransitionType
<1> QED
  BY <1>1, <1>3, RestType, LedgerUnchangedType DEF TypeInv, TypeOK

LEMMA DeliveryType ==
  ASSUME TypeInv, NEW r \in Attempts, CheckQuarantine(r) \/ Deliver(r)
  PROVE  TypeInv'
<1>1. pc[r] # "idle" /\ UNCHANGED <<ledgerVars, mem, req, rv, phase, crashes, lapsed>>
  BY DEF CheckQuarantine, Deliver
<1>2. TaskInv'
  BY <1>1, GotoType
  DEF TypeInv, Labels, Admitted, Live, CheckQuarantine, Deliver
<1>3. cert' \in [Attempts -> Certainty \cup {"none"}]
  BY DEF TypeInv, TypeOK, CheckQuarantine, Deliver, Reports, Certainty
<1>4. quarantined' \in BOOLEAN /\ sent' \subseteq Attempts
  BY DEF TypeInv, TypeOK, CheckQuarantine, Deliver
<1> QED
  BY <1>1, <1>2, <1>3, <1>4, RestType, LedgerUnchangedType DEF TypeInv, TypeOK

LEMMA RecordDeliveryType ==
  ASSUME TypeInv, NEW r \in Attempts, RecordDelivery(r)
  PROVE  TypeInv'
<1>1. pc[r] # "idle" /\ mem[Cmd(r)] \in Record
  BY RequestType DEF TypeInv, TypeOK, RecordDelivery
<1>2. TaskInv'
  BY <1>1, NamedStates, WriteType DEF TypeInv, RecordDelivery
<1> QED
  BY <1>2, RestType, LedgerUnchangedType DEF TypeInv, TypeOK, RecordDelivery

LEMMA ScheduleFeedbackType ==
  ASSUME TypeInv, NEW r \in Attempts, ScheduleFeedback(r)
  PROVE  TypeInv'
<1>1. pc[r] # "idle"
  BY DEF ScheduleFeedback
<1>2. TaskInv' /\ mem' \in [Commands -> Record]
  <2>1. CASE Leave(r, "awaiting") /\ UNCHANGED mem
    BY <1>1, <2>1, LeaveType
    DEF TypeInv, TypeOK, Labels, Admitted, Live, ScheduleFeedback
  <2>2. CASE Transition(r, "work", "OUTCOME_UNKNOWN", "evict")
    BY <1>1, <2>2, NamedStates, TransitionType DEF ScheduleFeedback
  <2> QED
    BY <2>1, <2>2 DEF ScheduleFeedback
<1> QED
  BY <1>2, RestType, LedgerUnchangedType DEF TypeInv, TypeOK, ScheduleFeedback

LEMMA StartObservingType ==
  ASSUME TypeInv, NEW r \in Attempts, StartObserving(r)
  PROVE  TypeInv'
<1>1. TaskInv'
  BY DEF TypeInv, TaskInv, Labels, Admitted, Live, StartObserving
<1> QED
  BY <1>1, RestType, LedgerUnchangedType DEF TypeInv, TypeOK, StartObserving

LEMMA PersistType ==
  ASSUME TypeInv, NEW r \in Attempts, Persist(r)
  PROVE  TypeInv'
<1>1. pc[r] # "idle" /\ then[r] \in Live \ {"writing"} /\ snap[r] \in Record
  BY DEF TypeInv, TaskInv, Persist
<1>2. LedgerTypeOK'
  BY <1>1, RequestType, UpdateType DEF TypeInv, TypeOK, Persist
<1>3. then[r] \in Labels /\ then[r] # "writing"
  BY <1>1 DEF Labels, Admitted
<1>4. TaskInv'
  BY <1>1, <1>3, AbsentIsRecord DEF TypeInv, TaskInv, Persist
<1> QED
  BY <1>2, <1>4, RestType DEF TypeInv, TypeOK, Persist

LEMMA EndType ==
  ASSUME TypeInv, NEW r \in Attempts, PersistFails(r) \/ Evict(r)
  PROVE  TypeInv'
<1>1. pc[r] # "idle" /\ UNCHANGED <<ledgerVars, req, cert, rv, quarantined,
                                    phase, crashes, sent, lapsed>>
  BY DEF PersistFails, Evict
<1>2. TaskInv'
  BY <1>1, LeaveType DEF TypeInv, Labels, Admitted, Over, PersistFails, Evict
<1>3. mem' \in [Commands -> Record]
  BY EvictionsType DEF TypeInv, TypeOK, PersistFails, Evict
<1> QED
  BY <1>1, <1>2, <1>3, RestType, LedgerUnchangedType DEF TypeInv, TypeOK

LEMMA ReviewType ==
  ASSUME TypeInv, NEW x \in Reviews, RecordReview(x) \/ Review(x)
  PROVE  TypeInv'
<1>1. UNCHANGED <<taskVars, req, cert, quarantined, phase, crashes, sent, lapsed>>
  BY DEF RecordReview, Review, AppendEvidence, PersistEvidence
<1>2. TaskInv'
  BY <1>1 DEF TypeInv, TaskInv, taskVars
<1>3. SUFFICES /\ LedgerTypeOK' /\ mem' \in [Commands -> Record]
               /\ rv' \in [Reviews -> [pc : {"idle", "recorded", "writing", "done"},
                                       cmd : Commands \cup {None}, snap : Record]]
               /\ ReviewInv'
  BY <1>1, <1>2 DEF TypeInv, TypeOK, TaskInv
<1>4. CASE RecordReview(x)
  BY <1>4, AbsentIsRecord, LedgerAssumption
  DEF RecordReview, TypeInv, TypeOK, LedgerTypeOK, ReviewInv
<1>5. CASE AppendEvidence(x)
  <2> DEFINE c == rv[x].cmd
             new == [mem[c] EXCEPT !.rev = @ + 1, !.obs = @ \cup {x}]
  <2>1. c \in Commands
    BY <1>5 DEF AppendEvidence, TypeInv, TypeOK, ReviewInv
  <2>2. new \in Record
    <3>1. mem[c] \in Record
      BY <2>1 DEF TypeInv, TypeOK
    <3>2. mem[c].obs \cup {x} \in SUBSET Reviews /\ "ISSUED" \in Running
      BY <3>1 DEF Record, Running
    <3> QED
      BY <3>1, <3>2, RevisionType
  <2>3. LedgerTypeOK'
    BY <1>5 DEF AppendEvidence, TypeInv, TypeOK, LedgerTypeOK, ledgerVars
  <2>4. CASE rv' = [rv EXCEPT ![x].pc = "done"] /\ UNCHANGED mem
    BY <2>3, <2>4 DEF TypeInv, TypeOK, ReviewInv
  <2>5. CASE /\ mem' = [mem EXCEPT ![c] = new]
             /\ rv' = [rv EXCEPT ![x].pc = "writing", ![x].snap = new]
    <3> HIDE DEF new
    <3> QED
      BY <2>1, <2>2, <2>3, <2>5, LedgerAssumption DEF TypeInv, TypeOK, ReviewInv
  <2> QED
    BY <1>5, <2>4, <2>5 DEF AppendEvidence
<1>6. CASE PersistEvidence(x)
  <2>1. rv[x].cmd \in Commands /\ rv[x].snap \in Record
    BY <1>6 DEF PersistEvidence, TypeInv, TypeOK, ReviewInv
  <2>2. LedgerTypeOK'
    BY <1>6, <2>1, UpdateType DEF PersistEvidence, TypeInv, TypeOK
  <2> QED
    BY <1>6, <2>2, AbsentIsRecord DEF PersistEvidence, TypeInv, TypeOK, ReviewInv
<1> QED
  BY <1>4, <1>5, <1>6 DEF Review

LEMMA VanishType ==
  ASSUME TypeInv, Vanish, crashes' \in 0..MaxCrashes
  PROVE  TypeInv'
<1>1. TaskInv'
  BY AbsentIsRecord
  DEF TypeInv, TaskInv, Vanish, Labels, Calling, Answered, Admitted, Live, Over
<1>2. rv' \in [Reviews -> [pc : {"idle", "recorded", "writing", "done"},
                           cmd : Commands \cup {None}, snap : Record]]
      /\ ReviewInv'
  BY AbsentIsRecord DEF TypeInv, TypeOK, ReviewInv, Vanish, ReviewIdle
<1>3. LedgerTypeOK'
  BY LedgerUnchangedType DEF TypeInv, TypeOK, Vanish
<1> QED
  BY <1>1, <1>2, <1>3, AbsentIsRecord DEF TypeInv, TypeOK, TaskInv, Vanish

LEMMA RecoveryType ==
  ASSUME TypeInv, Stop \/ Recovery
  PROVE  TypeInv'
<1>1. UNCHANGED <<taskVars, req, cert, rv, quarantined, sent, lapsed>>
  BY DEF Stop, Recovery, Restart, Recover, Recovered
<1>2. TaskInv' /\ ReviewInv'
  BY <1>1 DEF TypeInv, TaskInv, ReviewInv, taskVars
<1>3. SUFFICES /\ LedgerTypeOK' /\ mem' \in [Commands -> Record]
               /\ phase' \in {"up", "draining", "down", "recovering"}
               /\ crashes' \in 0..MaxCrashes
  BY <1>1, <1>2 DEF TypeInv, TypeOK, TaskInv
<1>4. CASE Stop
  BY <1>4, LedgerUnchangedType, LifecycleAssumption DEF Stop, TypeInv, TypeOK
<1>5. CASE Restart
  <2>1. PICK S : mem' = [c \in Commands |-> IF c \in S THEN rows[c] ELSE Absent]
    BY <1>5 DEF Restart
  <2>2. mem' \in [Commands -> Record]
    BY <2>1, AbsentIsRecord DEF TypeInv, TypeOK, LedgerTypeOK
  <2> QED
    BY <1>5, <2>2, LedgerUnchangedType DEF Restart, TypeInv, TypeOK
<1>6. ASSUME NEW c \in Commands, Recover(c)
      PROVE  /\ LedgerTypeOK' /\ mem' \in [Commands -> Record]
             /\ UNCHANGED <<phase, crashes>>
  <2> DEFINE new == [rows[c] EXCEPT !.st = "OUTCOME_UNKNOWN", !.rev = @ + 1]
  <2>1. new \in Record
    <3>1. rows[c] \in Record
      BY DEF TypeInv, TypeOK, LedgerTypeOK
    <3> QED
      BY <3>1, NamedStates, RevisionType DEF Record
  <2>2. Update(c, new) /\ mem' = [mem EXCEPT ![c] = new] /\ UNCHANGED <<phase, crashes>>
    BY <1>6 DEF Recover
  <2> QED
    BY <2>1, <2>2, UpdateType DEF TypeInv, TypeOK
<1>7. CASE Recovered
  <2>1. mem' \in [Commands -> Record]
    BY <1>7, EvictionsType DEF Recovered, TypeInv, TypeOK
  <2> QED
    BY <1>7, <2>1, LedgerUnchangedType DEF Recovered, TypeInv, TypeOK
<1> QED
  BY <1>4, <1>5, <1>6, <1>7 DEF Recovery, TypeInv, TypeOK

LEMMA StepType == TypeInv /\ [Next]_vars => TypeInv'
<1> SUFFICES ASSUME TypeInv, [Next]_vars PROVE TypeInv'
  OBVIOUS
<1>1. CASE UNCHANGED vars
  BY <1>1 DEF vars, ledgerVars, taskVars, TypeInv, TypeOK, TaskInv, ReviewInv, LedgerTypeOK
<1>2. ASSUME NEW r \in Attempts, Arrive(r) \/ Handle(r)
      PROVE  TypeInv'
  <2>1. CASE Admission(r)
    BY <2>1, ReplayCommandType, AdmitUnkeyedType, AdmitKeyedType, ReplayKeyType
    DEF Admission
  <2> QED
    BY <1>2, <2>1, CallType, SubmitType DEF Handle
<1>3. ASSUME NEW r \in Attempts, Task(r) \/ Persist(r) \/ PersistFails(r)
      PROVE  TypeInv'
  BY <1>3, TransitionsType, DeliveryType, RecordDeliveryType, ScheduleFeedbackType,
     StartObservingType, PersistType, EndType DEF Task
<1>4. CASE Crash \/ Stopped
  <2>1. crashes' \in 0..MaxCrashes
    BY <1>4, LifecycleAssumption DEF Crash, Stopped, TypeInv, TypeOK
  <2> QED
    BY <1>4, <2>1, VanishType DEF Crash, Stopped
<1> QED
  BY <1>1, <1>2, <1>3, <1>4, ReviewType, RecoveryType DEF Next

\* The type invariant: whatever the clients send, however large the queues and
\* tables are and however often the process dies, every cached and every stored
\* command is well formed and every task is at one of its steps.
THEOREM TypeCorrect == Spec => []TypeOK
<1>1. Spec => []TypeInv
  BY InitType, StepType, PTL DEF Spec
<1>2. TypeInv => TypeOK
  BY DEF TypeInv
<1> QED
  BY <1>1, <1>2, PTL

-------------------------------------------------------------------------------
(* Exactly-once writing *)

IsAdmitted(r) == pc[r] \in Admitted

\* What makes KeySentOnce inductive: an attempt that called the adapter was
\* admitted and has no way back before the call, a key without a dedup row has
\* no owner, and an admitted attempt owns its key until the key lapses.
OnceInv ==
  /\ \A r \in sent : IsAdmitted(r) /\ pc[r] \notin Unsent /\ then[r] \notin Unsent
  /\ \A k \in Keys : dedup[k].cmd = None => dedup[k].by = None
  /\ \A r \in Attempts :
       IsAdmitted(r) /\ req[r].key \notin {None} \cup lapsed
       => dedup[req[r].key].by = r

\* A step that neither admits an attempt, nor touches a dedup row, nor calls
\* the adapter, and that sends no attempt back before its call.
QuietStep ==
  /\ UNCHANGED <<dedup, sent, lapsed>>
  /\ \A r \in Attempts : /\ IsAdmitted(r)' = IsAdmitted(r)
                         /\ IsAdmitted(r) => req'[r] = req[r]
  /\ \A r \in sent : pc'[r] \notin Unsent /\ then'[r] \notin Unsent

LEMMA QuietStepInv == TypeInv /\ OnceInv /\ QuietStep => OnceInv'
  BY DEF TypeInv, TypeOK, OnceInv, QuietStep

LEMMA LabelFacts ==
  /\ Unsent \subseteq Admitted
  /\ Admitted \cap ({"idle"} \cup Calling \cup Answered) = {}
  /\ {"returned", "timed", "applied", "awaiting", "observing", "writing",
      "evict", "done", "abandoned", "lost"} \subseteq Admitted \ Unsent
  /\ {"none", "lost", "dropped"} \cap Unsent = {}
  /\ Live \subseteq Admitted /\ "idle" \notin Admitted /\ "none" \notin Admitted
  BY DEF Unsent, Admitted, Live, Over, Calling, Answered

\* The steps an attempt makes without being admitted, reviewed or restarted.
LEMMA GotoQuiet ==
  ASSUME TypeInv, OnceInv, NEW r \in Attempts, NEW p,
         (p \in Admitted) = IsAdmitted(r), r \in sent => p \notin Unsent,
         Goto(r, p) \/ Leave(r, p), UNCHANGED <<dedup, sent, lapsed, req>>
  PROVE  QuietStep
  BY LabelFacts DEF TypeInv, TypeOK, TaskInv, OnceInv, QuietStep, IsAdmitted, Goto, Leave

LEMMA TransitionQuiet ==
  ASSUME TypeInv, OnceInv, NEW r \in Attempts, NEW s, NEW rec, NEW p,
         IsAdmitted(r), r \in sent => p \notin Unsent,
         Write(r, s, rec, p), UNCHANGED <<dedup, sent, lapsed, req>>
  PROVE  QuietStep
  BY LabelFacts DEF TypeInv, TypeOK, TaskInv, OnceInv, QuietStep, IsAdmitted, Write

LEMMA CallQuiet ==
  ASSUME TypeInv, OnceInv, NEW r \in Attempts,
         Arrive(r) \/ CheckUnresolved(r) \/ ReplayCommand(r)
  PROVE  QuietStep
<1>1. CASE Arrive(r)
  BY <1>1, LabelFacts
  DEF Arrive, QuietStep, IsAdmitted, OnceInv, TypeInv, TypeOK, TaskInv, ledgerVars,
      Calling, Answered
<1>2. CASE CheckUnresolved(r)
  BY <1>2, LabelFacts, GotoQuiet
  DEF CheckUnresolved, IsAdmitted, ledgerVars, Calling, Answered, OnceInv
<1>3. CASE ReplayCommand(r)
  BY <1>3, LabelFacts, GotoQuiet
  DEF ReplayCommand, IsAdmitted, ledgerVars, Calling, Answered, OnceInv
<1> QED
  BY <1>1, <1>2, <1>3

LEMMA SubmitQuiet ==
  ASSUME TypeInv, OnceInv, NEW r \in Attempts, Submit(r)
  PROVE  QuietStep
<1>1. IsAdmitted(r) /\ r \notin sent /\ UNCHANGED <<dedup, sent, lapsed, req>>
  BY LabelFacts DEF Submit, IsAdmitted, OnceInv, Unsent, ledgerVars
<1>2. PICK rec : Goto(r, "queued") \/ Write(r, "none", rec, "evict")
  BY DEF Submit, Transition
<1> QED
  BY <1>1, <1>2, LabelFacts, GotoQuiet, TransitionQuiet DEF Live

LEMMA TransitionsQuiet ==
  ASSUME TypeInv, OnceInv, NEW r \in Attempts,
         \/ Receive(r) \/ Decide(r) \/ Execute(r) \/ Conclude(r) \/ Observe(r)
         \/ RecordDelivery(r)
  PROVE  QuietStep
<1>1. IsAdmitted(r) /\ UNCHANGED <<dedup, sent, lapsed, req>>
  BY DEF Receive, Decide, Execute, Conclude, Observe, RecordDelivery, IsAdmitted,
         Admitted, Live, ledgerVars
<1>2. PICK s, rec, p : /\ Write(r, s, rec, p)
                       /\ r \in sent => p \notin Unsent
  <2>1. CASE Receive(r) \/ Decide(r) \/ Execute(r)
    <3>1. r \notin sent
      BY <2>1 DEF Receive, Decide, Execute, OnceInv, Unsent
    <3> QED
      BY <2>1, <3>1 DEF Receive, Decide, Execute, Transition
  <2>2. CASE Conclude(r) \/ Observe(r) \/ RecordDelivery(r)
    BY <2>2, LabelFacts DEF Conclude, Observe, RecordDelivery, Transition
  <2> QED
    BY <2>1, <2>2
<1> QED
  BY <1>1, <1>2, TransitionQuiet

LEMMA TaskQuiet ==
  ASSUME TypeInv, OnceInv, NEW r \in Attempts,
         \/ CheckQuarantine(r) \/ ScheduleFeedback(r) \/ StartObserving(r)
         \/ PersistFails(r) \/ Evict(r)
  PROVE  QuietStep
<1>1. IsAdmitted(r) /\ UNCHANGED <<dedup, sent, lapsed, req>>
  BY DEF CheckQuarantine, ScheduleFeedback, StartObserving, PersistFails, Evict,
         IsAdmitted, Admitted, Live, ledgerVars
<1>2. CASE CheckQuarantine(r)
  <2>1. r \notin sent
    BY <1>2 DEF CheckQuarantine, OnceInv, Unsent
  <2>2. PICK p \in {"returned", "clear"} : Goto(r, p)
    BY <1>2 DEF CheckQuarantine
  <2> QED
    BY <1>1, <2>1, <2>2, GotoQuiet DEF Admitted, Live
<1>3. CASE ScheduleFeedback(r)
  <2>1. PICK rec : Leave(r, "awaiting") \/ Write(r, "work", rec, "evict")
    BY <1>3 DEF ScheduleFeedback, Transition
  <2> QED
    BY <1>1, <2>1, LabelFacts, GotoQuiet, TransitionQuiet
<1>4. CASE StartObserving(r)
  BY <1>1, <1>4, LabelFacts
  DEF StartObserving, QuietStep, IsAdmitted, OnceInv, TypeInv, TypeOK, TaskInv
<1>5. CASE PersistFails(r) \/ Evict(r)
  BY <1>1, <1>5, LabelFacts, GotoQuiet DEF PersistFails, Evict
<1> QED
  BY <1>2, <1>3, <1>4, <1>5

LEMMA PersistQuiet ==
  ASSUME TypeInv, OnceInv, NEW r \in Attempts, Persist(r)
  PROVE  QuietStep
<1>1. then[r] \in Live /\ pc[r] = "writing"
  BY DEF TypeInv, TaskInv, Persist
<1>2. /\ UNCHANGED <<dedup, sent, lapsed, req>>
      /\ pc' = [pc EXCEPT ![r] = then[r]]
      /\ then' = [then EXCEPT ![r] = "none"]
  BY DEF Persist, Update
<1> QED
  BY <1>1, <1>2, LabelFacts
  DEF QuietStep, IsAdmitted, OnceInv, TypeInv, TypeOK, TaskInv

LEMMA ReviewQuiet ==
  ASSUME TypeInv, OnceInv, NEW x \in Reviews, RecordReview(x) \/ Review(x)
  PROVE  QuietStep
  BY DEF RecordReview, Review, AppendEvidence, PersistEvidence, Update, QuietStep,
         IsAdmitted, OnceInv, TypeInv, TypeOK, ledgerVars, taskVars

LEMMA ProcessQuiet ==
  ASSUME TypeInv, OnceInv, Crash \/ Stop \/ Stopped \/ Recovery
  PROVE  QuietStep
<1>1. CASE Stop \/ Recovery
  BY <1>1 DEF Stop, Recovery, Restart, Recover, Recovered, Update, QuietStep,
              IsAdmitted, OnceInv, TypeInv, TypeOK, ledgerVars, taskVars
<1>2. CASE Vanish
  <2>1. UNCHANGED <<dedup, sent, lapsed, req>>
    BY <1>2 DEF Vanish, ledgerVars
  <2>2. \A r \in Attempts :
          /\ pc'[r] \in Admitted <=> pc[r] \in Admitted
          /\ pc[r] \notin Unsent => pc'[r] \notin Unsent
          /\ then'[r] = "none"
    BY <1>2, LabelFacts DEF Vanish, TypeInv, TypeOK, Admitted, Over, Answered
  <2> QED
    BY <2>1, <2>2, LabelFacts DEF QuietStep, IsAdmitted, OnceInv, TypeInv, TypeOK
<1> QED
  BY <1>1, <1>2 DEF Crash, Stopped

\* The four kinds of steps that are not quiet, and what each does: a claim ...
Claims(r, gone) ==
  /\ pc[r] = "checked" /\ pc' = [pc EXCEPT ![r] = "admitted"]
  /\ req[r].key # None =>
       /\ req[r].key \in gone \/ dedup[req[r].key].cmd = None
       /\ \E c \in Commands, h \in Hashes :
            dedup' = [Cleaned(gone) EXCEPT ![req[r].key] =
                        [cmd |-> c, hash |-> h, by |-> r]]
  /\ req[r].key = None => dedup' = Cleaned(gone)
  /\ lapsed' = lapsed \cup gone
  /\ UNCHANGED <<req, then, sent>>

LEMMA AdmitUnkeyedClaims ==
  ASSUME TypeInv, NEW r \in Attempts, AdmitUnkeyed(r)
  PROVE  Claims(r, {})
<1>1. Cleaned({}) = dedup
  BY DEF Cleaned, TypeInv, TypeOK, LedgerTypeOK
<1> QED
  BY <1>1, LabelFacts
  DEF AdmitUnkeyed, NewCommand, Insert, Goto, Claims, IsAdmitted, Calling

LEMMA AdmitKeyedClaims ==
  ASSUME TypeInv, OnceInv, NEW r \in Attempts, NEW expired \in SUBSET Expirable,
         AdmitKeyed(r, expired)
  PROVE  Claims(r, expired) \/ QuietStep
<1>1. /\ pc[r] = "checked" /\ Cmd(r) \in Commands /\ req[r].key \in Keys
      /\ req[r].hash \in Hashes /\ Issued(r).by = r
  BY RequestType DEF AdmitKeyed, NewCommand, Issued
<1>2. req[r].key \in expired \/ dedup[req[r].key].cmd = None
  BY <1>1 DEF AdmitKeyed, Cleaned
<1>3. CASE /\ InsertWithDedup(Cmd(r), Issued(r), req[r].key, req[r].hash, expired)
           /\ mem' \in Evictions([mem EXCEPT ![Cmd(r)] = Issued(r)])
           /\ lapsed' = lapsed \cup expired
           /\ Goto(r, "admitted")
  <2>1. dedup' = [Cleaned(expired) EXCEPT ![req[r].key] =
                    [cmd |-> Cmd(r), hash |-> req[r].hash, by |-> r]]
    BY <1>1, <1>3 DEF InsertWithDedup
  <2>2. req[r].key # None
    BY DEF AdmitKeyed
  <2> QED
    BY <1>1, <1>2, <1>3, <2>1, <2>2 DEF AdmitKeyed, Goto, Claims
<1>4. CASE Goto(r, "exhausted") /\ UNCHANGED <<ledgerVars, mem, lapsed>>
  BY <1>1, <1>4, LabelFacts, GotoQuiet
  DEF AdmitKeyed, OnceInv, IsAdmitted, ledgerVars, Calling, Answered
<1> QED
  BY <1>3, <1>4 DEF AdmitKeyed

\* ... the expiry of dedup rows by an insertion that is refused ...
Lapses(r, gone) ==
  /\ dedup' = Cleaned(gone) /\ lapsed' = lapsed \cup gone
  /\ ~IsAdmitted(r) /\ \E p \in Answered : pc' = [pc EXCEPT ![r] = p]
  /\ UNCHANGED <<req, then, sent>>

LEMMA ReplayKeyLapses ==
  ASSUME NEW r \in Attempts, NEW expired, ReplayKey(r, expired)
  PROVE  Lapses(r, expired)
  BY LabelFacts
  DEF ReplayKey, NewCommand, Goto, Lapses, IsAdmitted, Calling, Answered

\* ... and an adapter call.
Sends(r) ==
  /\ IsAdmitted(r) /\ r \notin sent /\ sent' = sent \cup {r}
  /\ pc' = [pc EXCEPT ![r] = "returned"] /\ then[r] \notin Unsent
  /\ UNCHANGED <<dedup, lapsed, req, then>>

LEMMA DeliverSends ==
  ASSUME TypeInv, OnceInv, NEW r \in Attempts, Deliver(r)
  PROVE  Sends(r)
<1>1. pc[r] = "clear" /\ then[r] = "none"
  BY DEF Deliver, TypeInv, TaskInv
<1>2. IsAdmitted(r) /\ r \notin sent
  BY <1>1 DEF OnceInv, IsAdmitted, Admitted, Live, Unsent
<1> QED
  BY <1>1, <1>2, LabelFacts DEF Deliver, Goto, Sends, ledgerVars

LEMMA ClaimsInv ==
  ASSUME TypeInv, OnceInv, NEW r \in Attempts, NEW gone \in SUBSET Lapsing,
         Claims(r, gone)
  PROVE  OnceInv'
<1>1. \A k \in Keys : Cleaned(gone)[k] = IF k \in gone THEN NoDedup ELSE dedup[k]
  BY DEF Cleaned
<1>2. r \notin sent /\ ~IsAdmitted(r)
  BY LabelFacts DEF Claims, OnceInv, IsAdmitted, Calling
<1>3. \A q \in sent' : IsAdmitted(q)' /\ pc'[q] \notin Unsent /\ then'[q] \notin Unsent
  BY <1>2 DEF Claims, OnceInv, IsAdmitted, TypeInv, TypeOK
<1>4. \A k \in Keys : \/ dedup'[k] = Cleaned(gone)[k]
                      \/ /\ k = req[r].key /\ dedup'[k].by = r
                         /\ dedup'[k].cmd \in Commands
                         /\ k \in gone \/ dedup[k].cmd = None
  <2>1. CASE req[r].key = None
    BY <2>1 DEF Claims
  <2>2. CASE req[r].key # None
    <3>1. PICK c \in Commands, h \in Hashes :
            dedup' = [Cleaned(gone) EXCEPT ![req[r].key] =
                        [cmd |-> c, hash |-> h, by |-> r]]
      BY <2>2 DEF Claims
    <3>2. req[r].key \in gone \/ dedup[req[r].key].cmd = None
      BY <2>2 DEF Claims
    <3> QED
      BY <3>1, <3>2 DEF Cleaned
  <2> QED
    BY <2>1, <2>2
<1>5. \A k \in Keys : dedup'[k].cmd = None => dedup'[k].by = None
  BY <1>1, <1>4, LedgerAssumption DEF OnceInv, NoDedup
<1>6. ASSUME NEW a \in Attempts, IsAdmitted(a)', req[a].key \notin {None} \cup lapsed'
      PROVE  dedup'[req[a].key].by = a
  <2>1. req[a].key \in Keys
    <3>1. pc[a] # "idle"
      BY <1>6, LabelFacts DEF TypeInv, TypeOK, IsAdmitted, Claims
    <3> QED
      BY <1>6, <3>1, RequestType
  <2>2. CASE a = r
    <3>1. PICK c \in Commands, h \in Hashes :
            dedup' = [Cleaned(gone) EXCEPT ![req[r].key] =
                        [cmd |-> c, hash |-> h, by |-> r]]
      BY <1>6, <2>2 DEF Claims
    <3> QED
      BY <2>1, <2>2, <3>1 DEF Cleaned
  <2>3. CASE a # r
    <3>1. IsAdmitted(a)
      BY <1>6, <2>3 DEF IsAdmitted, Claims, TypeInv, TypeOK
    <3>2. dedup[req[a].key].by = a /\ req[a].key \notin gone
      BY <1>6, <3>1 DEF OnceInv, Claims
    <3>3. a # None
      BY LedgerAssumption
    <3> QED
      BY <1>1, <1>4, <2>1, <3>2, <3>3 DEF OnceInv
  <2> QED
    BY <2>2, <2>3
<1> QED
  BY <1>3, <1>5, <1>6 DEF OnceInv, Claims

LEMMA LapsesInv ==
  ASSUME TypeInv, OnceInv, NEW r \in Attempts, NEW gone \in SUBSET Lapsing,
         Lapses(r, gone)
  PROVE  OnceInv'
<1>1. \A k \in Keys : dedup'[k] = IF k \in gone THEN NoDedup ELSE dedup[k]
  BY DEF Lapses, Cleaned
<1>2. PICK p \in Answered : pc' = [pc EXCEPT ![r] = p]
  BY DEF Lapses
<1>3. ~IsAdmitted(r) /\ r \notin sent
  BY DEF Lapses, OnceInv
<1>4. \A a \in Attempts : IsAdmitted(a)' <=> IsAdmitted(a)
  BY <1>2, <1>3, LabelFacts DEF IsAdmitted, TypeInv, TypeOK
<1>5. \A a \in sent' : IsAdmitted(a)' /\ pc'[a] \notin Unsent /\ then'[a] \notin Unsent
  BY <1>2, <1>3, <1>4 DEF Lapses, OnceInv, TypeInv, TypeOK
<1>6. \A k \in Keys : dedup'[k].cmd = None => dedup'[k].by = None
  BY <1>1 DEF OnceInv, NoDedup
<1>7. ASSUME NEW a \in Attempts, IsAdmitted(a)', req'[a].key \notin {None} \cup lapsed'
      PROVE  dedup'[req'[a].key].by = a
  <2>1. req'[a].key \in Keys /\ req' = req
    BY <1>4, <1>7, LabelFacts, RequestType DEF IsAdmitted, Lapses
  <2> QED
    BY <1>1, <1>4, <1>7, <2>1 DEF Lapses, OnceInv
<1> QED
  BY <1>5, <1>6, <1>7 DEF OnceInv

LEMMA SendsInv ==
  ASSUME TypeInv, OnceInv, NEW r \in Attempts, Sends(r)
  PROVE  OnceInv'
<1>1. "returned" \in Admitted /\ "returned" \notin Unsent
  BY LabelFacts
<1>2. \A a \in Attempts : IsAdmitted(a)' <=> IsAdmitted(a)
  BY <1>1 DEF Sends, IsAdmitted, TypeInv, TypeOK
<1>3. \A a \in sent' : IsAdmitted(a)' /\ pc'[a] \notin Unsent /\ then'[a] \notin Unsent
  BY <1>1, <1>2 DEF Sends, OnceInv, TypeInv, TypeOK
<1> QED
  BY <1>2, <1>3 DEF Sends, OnceInv

\* Every step is quiet, a claim, a lapse or an adapter call.
LEMMA StepKinds ==
  ASSUME TypeInv, OnceInv, [Next]_vars
  PROVE  \/ QuietStep
         \/ \E r \in Attempts, gone \in SUBSET Lapsing : Claims(r, gone) \/ Lapses(r, gone)
         \/ \E r \in Attempts : Sends(r)
<1>1. CASE UNCHANGED vars
  BY <1>1 DEF vars, ledgerVars, taskVars, QuietStep, IsAdmitted, OnceInv
<1>2. Expirable \subseteq Lapsing
  BY DEF Expirable
<1>3. ASSUME NEW r \in Attempts, Admission(r)
      PROVE  \/ QuietStep
             \/ \E gone \in SUBSET Lapsing : Claims(r, gone) \/ Lapses(r, gone)
  <2>1. CASE ReplayCommand(r)
    BY <2>1, CallQuiet
  <2>2. CASE AdmitUnkeyed(r)
    BY <2>2, AdmitUnkeyedClaims
  <2>3. ASSUME NEW expired \in SUBSET Expirable, AdmitKeyed(r, expired)
        PROVE  QuietStep \/ Claims(r, expired)
    BY <2>3, AdmitKeyedClaims
  <2>4. ASSUME NEW expired \in SUBSET Expirable, ReplayKey(r, expired)
        PROVE  Lapses(r, expired)
    BY <2>4, ReplayKeyLapses
  <2> QED
    BY <1>2, <1>3, <2>1, <2>2, <2>3, <2>4 DEF Admission
<1>4. ASSUME NEW r \in Attempts, Arrive(r) \/ CheckUnresolved(r) \/ Submit(r)
      PROVE  QuietStep
  BY <1>4, CallQuiet, SubmitQuiet
<1>5. ASSUME NEW r \in Attempts, Task(r) \/ Persist(r) \/ PersistFails(r)
      PROVE  QuietStep \/ Sends(r)
  BY <1>5, TransitionsQuiet, TaskQuiet, PersistQuiet, DeliverSends DEF Task
<1>6. ASSUME NEW x \in Reviews, RecordReview(x) \/ Review(x)
      PROVE  QuietStep
  BY <1>6, ReviewQuiet
<1> QED
  BY <1>1, <1>3, <1>4, <1>5, <1>6, ProcessQuiet DEF Next, Handle

LEMMA OnceStep == TypeInv /\ OnceInv /\ [Next]_vars => OnceInv'
  BY StepKinds, QuietStepInv, ClaimsInv, LapsesInv, SendsInv

LEMMA OnceInit == Init => OnceInv
  BY LabelFacts DEF Init, LedgerInit, NoDedup, OnceInv, IsAdmitted

LEMMA OnceInvariant == Spec => [](TypeInv /\ OnceInv)
  BY InitType, StepType, OnceInit, OnceStep, PTL DEF Spec

LEMMA OnceInvImplies == TypeInv /\ OnceInv => KeySentOnce
<1> SUFFICES ASSUME TypeInv, OnceInv PROVE KeySentOnce
  OBVIOUS
<1>1. \A r \in sent : pc[r] \notin Unsent
  BY DEF OnceInv
<1>2. ASSUME NEW r1 \in sent, NEW r2 \in sent, req[r1].key = req[r2].key,
             req[r1].key \notin {None} \cup lapsed
      PROVE  r1 = r2
  <2>1. r1 \in Attempts /\ r2 \in Attempts
    BY DEF TypeInv, TypeOK
  <2> QED
    BY <1>2, <2>1 DEF OnceInv
<1> QED
  BY <1>1, <1>2 DEF KeySentOnce

\* Exactly-once writing: however often a key is retried, under whatever command
\* ids, and however often the process dies in between, one attempt at most
\* calls the adapter for it while its dedup row lives, and none calls it twice.
THEOREM WritesOnce == Spec => []KeySentOnce
  BY OnceInvariant, OnceInvImplies, PTL

\* The pipeline implements the abstract promise: its admissions, expiries and
\* adapter calls are the claims, lapses and sends of DeliverOnce, and every
\* other step, a crash and a restart included, is a stutter of it.
THEOREM Refinement == Spec => DeliversOnce
<1> DEFINE claims == {<<r, req[r].key>> : r \in {a \in Attempts : pc[a] \in Admitted}}
           owner == [k \in Keys |-> dedup[k].by]
<1>1. Init => Once!Init
  BY LabelFacts DEF Init, LedgerInit, NoDedup, Once!Init
<1>2. TypeInv /\ OnceInv /\ [Next]_vars => [Once!Next]_(Once!vars)
  <2> SUFFICES ASSUME TypeInv, OnceInv, [Next]_vars
               PROVE  [Once!Next]_(Once!vars)
    OBVIOUS
  <2>1. CASE QuietStep
    <3>1. claims' = claims
      BY <2>1 DEF QuietStep, IsAdmitted
    <3> QED
      BY <2>1, <3>1 DEF QuietStep, Once!vars
  <2>2. ASSUME NEW r \in Attempts, NEW gone \in SUBSET Lapsing, Claims(r, gone)
        PROVE  Once!Next
    <3> DEFINE k == req[r].key
    <3>1. pc[r] = "checked" /\ pc' = [pc EXCEPT ![r] = "admitted"] /\ req' = req
          /\ sent' = sent /\ pc \in [Attempts -> Labels]
      BY <2>2 DEF Claims, TypeInv, TypeOK
    <3>2. k \in Keys \cup {None} /\ "checked" \notin Admitted /\ "admitted" \in Admitted
      BY <3>1, RequestType, LabelFacts DEF Calling, Admitted, Live
    <3>3. \A q \in claims : q[1] # r
      BY <3>1, <3>2
    <3>4. claims' = claims \cup {<<r, k>>}
      BY <3>1, <3>2
    <3>5. Once!Forget(gone) = [j \in Keys |-> Cleaned(gone)[j].by]
      BY DEF Once!Forget, Cleaned, NoDedup
    <3>6. k # None => Once!Forget(gone)[k] = None
      BY <2>2, <3>2, <3>5 DEF Claims, Cleaned, NoDedup, OnceInv
    <3>7. owner' = IF k = None THEN Once!Forget(gone)
                   ELSE [Once!Forget(gone) EXCEPT ![k] = r]
      <4>1. CASE k = None
        BY <2>2, <3>5, <4>1 DEF Claims
      <4>2. CASE k # None
        <5>1. PICK c \in Commands, h \in Hashes :
                dedup' = [Cleaned(gone) EXCEPT ![k] =
                            [cmd |-> c, hash |-> h, by |-> r]]
          BY <2>2, <4>2 DEF Claims
        <5>2. \A j \in Keys : dedup'[j].by = IF j = k THEN r ELSE Cleaned(gone)[j].by
          BY <5>1 DEF Cleaned
        <5> QED
          BY <3>5, <4>2, <5>2
      <4> QED
        BY <4>1, <4>2
    <3>8. Once!Claim(r, k, gone)
      BY <3>1, <3>3, <3>4, <3>6, <3>7 DEF Once!Claim
    <3> QED
      BY <3>2, <3>8 DEF Once!Next
  <2>3. ASSUME NEW r \in Attempts, NEW gone \in SUBSET Lapsing, Lapses(r, gone)
        PROVE  Once!Next
    <3>1. PICK p \in Answered : pc' = [pc EXCEPT ![r] = p]
      BY <2>3 DEF Lapses
    <3>2. claims' = claims
      BY <2>3, <3>1, LabelFacts DEF Lapses, IsAdmitted, TypeInv, TypeOK
    <3>3. owner' = Once!Forget(gone)
      BY <2>3 DEF Lapses, Once!Forget, Cleaned, NoDedup
    <3>4. Once!Lapse(gone)
      BY <2>3, <3>2, <3>3 DEF Once!Lapse, Lapses
    <3> QED
      BY <3>4 DEF Once!Next
  <2>4. ASSUME NEW r \in Attempts, Sends(r)
        PROVE  Once!Next
    <3>1. claims' = claims
      BY <2>4, LabelFacts DEF Sends, IsAdmitted, TypeInv, TypeOK
    <3>2. <<r, req[r].key>> \in claims
      BY <2>4 DEF Sends, IsAdmitted
    <3>3. Once!Send(r)
      BY <2>4, <3>1, <3>2 DEF Once!Send, Sends
    <3> QED
      BY <3>3 DEF Once!Next
  <2> QED
    BY <2>1, <2>2, <2>3, <2>4, StepKinds
<1> QED
  BY <1>1, <1>2, OnceInvariant, PTL DEF Spec, DeliversOnce, Once!Spec
===============================================================================
