------------------------- MODULE CommandVerdictProofs -------------------------
(***************************************************************************)
(* Proofs about what CommandLifecycle records of its commands: what a      *)
(* verdict says, who may rewrite it, what the cache and the ledger hold of *)
(* a command a task has in its hands, and how many rows the ledger keeps.  *)
(***************************************************************************)
EXTENDS CommandLifecycleProofs, FiniteSetTheorems

(* The capacity of the ledger *)

\* The bound with what makes it inductive: the rows can be counted.
BoundInv ==
  MaxRecords > 0 => /\ IsFiniteSet(Present(rows))
                    /\ Cardinality(Present(rows)) <= MaxRecords

\* Replacing a row that is there adds none.
LEMMA UpdateBounded ==
  ASSUME BoundInv, NEW c \in Commands, NEW rec, Update(c, rec), LedgerTypeOK
  PROVE  BoundInv'
<1> SUFFICES ASSUME MaxRecords > 0
             PROVE  /\ IsFiniteSet(Present(rows)')
                    /\ Cardinality(Present(rows)') <= MaxRecords
  BY DEF BoundInv
<1>1. Present(rows)' \subseteq Present(rows)
  BY DEF Present, Update, LedgerTypeOK
<1>2. IsFiniteSet(Present(rows)') /\ Cardinality(Present(rows)') <= Cardinality(Present(rows))
  BY <1>1, FS_Subset DEF BoundInv
<1>3. Cardinality(Present(rows)') \in Nat /\ Cardinality(Present(rows)) \in Nat
  BY <1>2, FS_CardinalityType DEF BoundInv
<1> QED
  BY <1>2, <1>3, LedgerAssumption DEF BoundInv

\* A keyed insertion makes room first, or has it.
LEMMA InsertBounded ==
  ASSUME BoundInv, NEW c \in Commands, NEW rec, NEW k, NEW h, NEW gone,
         InsertWithDedup(c, rec, k, h, gone), LedgerTypeOK
  PROVE  BoundInv'
<1> SUFFICES ASSUME MaxRecords > 0
             PROVE  /\ IsFiniteSet(Present(rows)')
                    /\ Cardinality(Present(rows)') <= MaxRecords
  BY DEF BoundInv
<1> DEFINE P == Present(rows)
           D == Deletable(rows)
           room == IF LedgerFull THEN 1 ELSE 0
<1>1. /\ IsFiniteSet(P) /\ Cardinality(P) \in Nat /\ Cardinality(P) <= MaxRecords
      /\ MaxRecords \in Nat
  BY FS_CardinalityType, LedgerAssumption DEF BoundInv
<1>2. D \subseteq P
  BY DEF Deletable, Present, Prunable
<1>3. IsFiniteSet(D) /\ Cardinality(D) \in Nat /\ (Cardinality(D) = 0 <=> D = {})
  BY <1>1, <1>2, FS_Subset, FS_CardinalityType, FS_EmptySet
<1>4. PICK T \in SUBSET D :
        /\ Cardinality(T) = IF Cardinality(D) < room THEN Cardinality(D) ELSE room
        /\ rows' = [Without(rows, T) EXCEPT ![c] = rec]
  BY DEF InsertWithDedup, Pruned
<1>5. T \subseteq P /\ IsFiniteSet(T) /\ IsFiniteSet(P \ T)
  BY <1>1, <1>2, <1>3, FS_Subset
<1>6. Cardinality(P \ T) = Cardinality(P) - Cardinality(T) /\ Cardinality(P \ T) \in Nat
  <2>1. P \cap T = T
    BY <1>5
  <2> QED
    BY <1>1, <1>5, <2>1, FS_Difference, FS_CardinalityType
<1>7. Cardinality(P \ T) + 1 <= MaxRecords
  <2>1. CASE LedgerFull
    <3>1. D # {}
      BY <2>1 DEF InsertWithDedup
    <3>2. Cardinality(T) = 1
      BY <1>3, <1>4, <2>1, <3>1
    <3> QED
      BY <1>1, <1>6, <3>2
  <2>2. CASE ~LedgerFull
    <3>1. Cardinality(T) = 0
      BY <1>3, <1>4, <2>2
    <3> QED
      BY <1>1, <1>6, <2>2, <3>1 DEF LedgerFull
  <2> QED
    BY <2>1, <2>2
<1>8. Present(rows)' \subseteq (P \ T) \cup {c}
  BY <1>4 DEF Present, Without, Absent
<1>9. /\ IsFiniteSet((P \ T) \cup {c})
      /\ Cardinality((P \ T) \cup {c}) <= Cardinality(P \ T) + 1
  <2> DEFINE R == P \ T
  <2>1. IsFiniteSet(R) /\ Cardinality(R) \in Nat
    BY <1>5, <1>6
  <2> HIDE DEF R
  <2>2. IsFiniteSet(R \cup {c}) /\ Cardinality(R \cup {c}) <= Cardinality(R) + 1
    BY <2>1, FS_AddElement
  <2> QED
    BY <2>2 DEF R
<1>10. /\ IsFiniteSet(Present(rows)')
       /\ Cardinality(Present(rows)') <= Cardinality((P \ T) \cup {c})
  BY <1>8, <1>9, FS_Subset
<1>11. Cardinality(Present(rows)') \in Nat /\ Cardinality((P \ T) \cup {c}) \in Nat
  BY <1>9, <1>10, FS_CardinalityType
<1> QED
  BY <1>1, <1>6, <1>7, <1>9, <1>10, <1>11

AllKeyed == \A q \in Requests : q.key # None

LEMMA BoundStep ==
  ASSUME AllKeyed, TypeInv, BoundInv, [Next]_vars
  PROVE  BoundInv'
<1>1. CASE UNCHANGED rows
  BY <1>1 DEF BoundInv, Present
<1>2. LedgerTypeOK
  BY DEF TypeInv, TypeOK
<1>3. ASSUME NEW r \in Attempts, Admission(r)
      PROVE  BoundInv'
  <2>1. ~AdmitUnkeyed(r)
    BY RequestType DEF AdmitUnkeyed, NewCommand, AllKeyed
  <2>2. ASSUME NEW expired \in SUBSET Expirable, AdmitKeyed(r, expired)
        PROVE  BoundInv'
    <3>1. Cmd(r) \in Commands
      BY <2>2, RequestType DEF AdmitKeyed, NewCommand
    <3> QED
      BY <1>1, <1>2, <2>2, <3>1, InsertBounded DEF AdmitKeyed, ledgerVars
  <2> QED
    BY <1>1, <1>3, <2>1, <2>2 DEF Admission, ReplayCommand, ReplayKey, ledgerVars
<1>4. ASSUME NEW r \in Attempts, Persist(r)
      PROVE  BoundInv'
  BY <1>2, <1>4, RequestType, UpdateBounded DEF Persist
<1>5. ASSUME NEW x \in Reviews, PersistEvidence(x)
      PROVE  BoundInv'
  <2>1. rv[x].cmd \in Commands
    BY <1>5 DEF PersistEvidence, TypeInv, TypeOK, ReviewInv
  <2> QED
    BY <1>2, <1>5, <2>1, UpdateBounded DEF PersistEvidence
<1>6. ASSUME NEW c \in Commands, Recover(c)
      PROVE  BoundInv'
  BY <1>2, <1>6, UpdateBounded DEF Recover
<1>7. ASSUME NEW r \in Attempts,
             Arrive(r) \/ CheckUnresolved(r) \/ Submit(r) \/ Task(r) \/ PersistFails(r)
      PROVE  UNCHANGED rows
  BY <1>7 DEF Arrive, CheckUnresolved, Submit, Task, Receive, Decide, Execute,
     CheckQuarantine, Deliver, RecordDelivery, Conclude, ScheduleFeedback,
     StartObserving, Observe, Evict, PersistFails, ledgerVars
<1>8. ASSUME NEW x \in Reviews, RecordReview(x) \/ AppendEvidence(x)
      PROVE  UNCHANGED rows
  BY <1>8 DEF RecordReview, AppendEvidence, ledgerVars
<1>9. Crash \/ Stop \/ Stopped \/ Restart \/ Recovered => UNCHANGED rows
  BY DEF Crash, Stop, Stopped, Vanish, Restart, Recovered, ledgerVars
<1>10. UNCHANGED vars => UNCHANGED rows
  BY DEF vars, ledgerVars
<1> QED
  BY <1>1, <1>3, <1>4, <1>5, <1>6, <1>7, <1>8, <1>9, <1>10
  DEF Next, Handle, Review, Recovery

\* With keyed commands only, the ledger never holds more rows than its capacity,
\* however full it is of commands no prune may delete.
THEOREM CapacityKept == AllKeyed => (Spec => []LedgerBounded)
<1> SUFFICES ASSUME AllKeyed PROVE Spec => []LedgerBounded
  OBVIOUS
<1>1. Init => BoundInv
  <2> SUFFICES ASSUME Init PROVE BoundInv
    OBVIOUS
  <2>1. Present(rows) = {}
    BY DEF Init, LedgerInit, Present, Absent
  <2> QED
    BY <2>1, FS_EmptySet, LedgerAssumption DEF BoundInv
<1>2. TypeInv /\ BoundInv /\ [Next]_vars => BoundInv'
  BY BoundStep
<1>3. BoundInv => LedgerBounded
  BY DEF BoundInv, LedgerBounded
<1> QED
  BY <1>1, <1>2, <1>3, InitType, StepType, PTL DEF Spec

-------------------------------------------------------------------------------
(* Verdicts *)

\* Where r stands, or will once its copy is persisted.
At(r) == IF pc[r] = "writing" THEN then[r] ELSE pc[r]

\* Where a task has a transition before it, a "Pending" one.
ToGo == Live \ {"writing", "evict"}

\* The states a row has while it may still be rewritten.
Stands == Running \cup {"OUTCOME_UNKNOWN"}

\* What a verdict on r claims of the adapter call.
Honest(r, st) ==
  /\ st \in {"REJECTED", "EXPIRED"} => r \notin sent /\ cert[r] = "none"
  /\ st = "CONFIRMED" => r \in sent /\ cert[r] = "APPLIED"
  /\ st = "FAILED" => cert[r] \in {"NOT_SENT", "REJECTED", "APPLIED"}

\* A copy of command c, wherever it is, names the attempt that created it, and a
\* verdict is honest and comes when that attempt has nothing left to decide.
Good(c, rec) ==
  rec.st # "ABSENT" =>
    /\ rec.by \in Attempts /\ IsAdmitted(rec.by) /\ Cmd(rec.by) = c
    /\ rec.st \in Terminal => At(rec.by) \notin ToGo /\ Honest(rec.by, rec.st)

\* The certainty of a delivery is there from the delivery on.
CertOf(r) ==
  /\ cert[r] \in Certainty \ {"NOT_SENT"} => r \in sent
  /\ ~IsAdmitted(r) \/ At(r) \in Unsent => cert[r] = "none"
  /\ At(r) \in {"applied", "awaiting", "observing"} => cert[r] = "APPLIED"

\* The cache and the ledger are copies of one command, with one verdict at most.
RecordOf(c) ==
  /\ Good(c, mem[c]) /\ Good(c, rows[c])
  /\ mem[c].st # "ABSENT" /\ rows[c].st # "ABSENT" => mem[c].by = rows[c].by
  /\ mem[c].st \in Terminal /\ rows[c].st \in Terminal => mem[c].st = rows[c].st
  /\ mem[c].st = "OUTCOME_UNKNOWN" => rows[c].st \in Stands

\* A task with a transition to make has the running command in both; one that
\* persists its copy finds the row, and the verdict it made in the cache.
HoldOf(r) ==
  /\ At(r) \in ToGo => /\ mem[Cmd(r)].by = r /\ mem[Cmd(r)].st \in Running
                       /\ rows[Cmd(r)].by = r /\ rows[Cmd(r)].st \in Running
  /\ pc[r] = "writing" =>
       /\ rows[Cmd(r)].by = r /\ rows[Cmd(r)].st \in Stands
       /\ snap[r].by = r /\ Good(Cmd(r), snap[r])
       /\ then[r] = "evict" => snap[r].st \in Terminal
       /\ then[r] # "evict" => snap[r].st \in Running
       /\ rows[Cmd(r)].st = "OUTCOME_UNKNOWN" => snap[r].st = "OUTCOME_UNKNOWN"
       /\ mem[Cmd(r)].st \in Terminal => mem[Cmd(r)].st = snap[r].st

UnderReview(x) == rv[x].pc \in {"recorded", "writing"}

\* A command under review has no prunable verdict, and its task will make none.
ReviewOf(x) ==
  LET c == rv[x].cmd
      r == rows[c].by IN
  UnderReview(x) =>
    /\ c \in Commands /\ rows[c].st \in Stands
    /\ At(r) \notin ToGo
    /\ pc[r] = "writing" => snap[r].st = "OUTCOME_UNKNOWN"
    /\ mem[c].st \in Stands \cup {"ABSENT"}
    /\ rv[x].pc = "writing" => rv[x].snap.by = r /\ rv[x].snap.st \in Stands

\* Between a crash and the next start nothing runs and the cache holds stored
\* rows only.
PhaseInv ==
  ~Up =>
    /\ \A r \in Attempts : pc[r] \notin Calling \cup Live
    /\ \A x \in Reviews : ~UnderReview(x)
    /\ \A c \in Commands : mem[c].st = "ABSENT" \/ mem[c] = rows[c]

VerdictInv ==
  /\ \A r \in Attempts : CertOf(r) /\ HoldOf(r)
  /\ \A c \in Commands : RecordOf(c)
  /\ \A x \in Reviews : ReviewOf(x)
  /\ PhaseInv

Inv == TypeInv /\ OnceInv /\ VerdictInv

\* The disjoint sets of states and of labels.
LEMMA StateFacts ==
  /\ Running \cap Terminal = {} /\ Running \cap Prunable = {}
  /\ "ABSENT" \notin Running \cup Terminal
  /\ "OUTCOME_UNKNOWN" \in Terminal /\ "OUTCOME_UNKNOWN" \notin Prunable
  /\ "OUTCOME_UNKNOWN" \notin Running
  /\ Terminal = Prunable \cup {"OUTCOME_UNKNOWN"}
  /\ Stands = Running \cup {"OUTCOME_UNKNOWN"}
  BY DEF Running, Terminal, Prunable, Stands

LEMMA TaskLabels ==
  /\ ToGo \subseteq Admitted /\ "writing" \notin ToGo /\ "evict" \notin ToGo
  /\ ToGo \cap (Over \cup Calling \cup Answered \cup {"idle", "none"}) = {}
  /\ Live = ToGo \cup {"writing", "evict"}
  /\ Unsent \subseteq ToGo
  /\ {"applied", "awaiting", "observing", "timed", "returned"} \subseteq ToGo \ Unsent
  /\ Admitted = Live \cup Over
  BY DEF ToGo, Live, Admitted, Over, Calling, Answered, Unsent

\* Two tasks never have one command in their hands.
LEMMA Apart ==
  ASSUME VerdictInv, NEW r \in Attempts, NEW q \in Attempts, Cmd(r) = Cmd(q),
         At(r) \in ToGo \/ pc[r] = "writing", At(q) \in ToGo \/ pc[q] = "writing"
  PROVE  r = q
  BY DEF VerdictInv, HoldOf

-------------------------------------------------------------------------------
(* The kinds of steps *)

\* Nothing of another attempt changes.
Others(r) ==
  \A q \in Attempts \ {r} :
    /\ pc'[q] = pc[q] /\ then'[q] = then[q] /\ snap'[q] = snap[q]
    /\ cert'[q] = cert[q] /\ req'[q] = req[q] /\ (q \in sent' <=> q \in sent)

\* An entry is kept, or dropped when it may be.
Sheds(new, old) ==
  new = old \/ (new = Absent /\ old.st \notin Stands)

\* A call moves on without having been admitted; it may load the stored copy of
\* its own command, or of the one its key was used for first.
CallStep(r) ==
  /\ Up /\ Others(r) /\ pc[r] \notin Admitted /\ pc'[r] \notin Admitted
  /\ UNCHANGED <<rows, then, snap, cert, sent, rv, phase>>
  /\ \A c \in Commands :
       \/ Sheds(mem'[c], mem[c])
       \/ /\ mem'[c] = rows[c]
          /\ \/ mem[c].st = "ABSENT"
             \/ /\ req[r] \in Requests /\ req[r].key \in Keys
                /\ c = dedup[req[r].key].cmd /\ c # Cmd(r)

AdmitStep(r) ==
  /\ Up /\ Others(r) /\ pc[r] \notin Admitted /\ pc'[r] = "admitted"
  /\ UNCHANGED <<req, then, snap, cert, sent, rv, phase>>
  /\ Cmd(r) \in Commands
  /\ mem[Cmd(r)].st = "ABSENT" /\ rows[Cmd(r)].st = "ABSENT"
  /\ mem'[Cmd(r)] = Issued(r) /\ rows'[Cmd(r)] = Issued(r)
  /\ \A c \in Commands \ {Cmd(r)} : Sheds(mem'[c], mem[c]) /\ Sheds(rows'[c], rows[c])

\* A task moves on, and may put a new copy of its command in the cache.
TaskStep(r) ==
  /\ Up /\ Others(r) /\ pc[r] \in ToGo
  /\ UNCHANGED <<rows, req, rv, phase>>
  /\ \A c \in Commands \ {Cmd(r)} : mem'[c] = mem[c]
  /\ \/ pc'[r] \in ToGo /\ mem'[Cmd(r)] = mem[Cmd(r)]
     \/ /\ pc'[r] = "writing" /\ then'[r] \in ToGo \cup {"evict"}
        /\ snap'[r] = mem'[Cmd(r)] /\ snap'[r].by = r
        /\ then'[r] = "evict" => snap'[r].st \in Terminal
        /\ then'[r] # "evict" => snap'[r].st \in Running
  /\ CertOf(r)'
  /\ pc'[r] = "writing" /\ snap'[r].st \in Terminal => Honest(r, snap[r].st)'

PersistStep(r) ==
  /\ Up /\ Others(r) /\ pc[r] = "writing" /\ pc'[r] = then[r]
  /\ UNCHANGED <<mem, req, cert, sent, rv, phase>>
  /\ rows'[Cmd(r)] = snap[r]
  /\ \A c \in Commands \ {Cmd(r)} : rows'[c] = rows[c]

EndStep(r) ==
  /\ Up /\ Others(r) /\ pc[r] \in {"writing", "evict"} /\ pc'[r] \in Over
  /\ pc[r] = "writing" => pc'[r] = "abandoned"
  /\ UNCHANGED <<rows, req, cert, sent, rv, phase>>
  /\ \A c \in Commands : Sheds(mem'[c], mem[c])

\* An admitted attempt stays what it was, once it has nothing to decide.
LEMMA GoodKept ==
  ASSUME \A q \in Attempts : IsAdmitted(q) =>
           /\ IsAdmitted(q)' /\ Cmd(q)' = Cmd(q)
           /\ At(q) \notin ToGo => /\ At(q)' \notin ToGo /\ cert'[q] = cert[q]
                                   /\ q \in sent' <=> q \in sent
  PROVE  \A c \in Commands, rec \in Record : Good(c, rec) => Good(c, rec)'
  BY DEF Good, Honest

\* What the steps of one attempt leave of the others, and of the invariant.
LEMMA OthersKept ==
  ASSUME NEW r \in Attempts, Others(r), NEW q \in Attempts \ {r}
  PROVE  /\ At(q)' = At(q) /\ IsAdmitted(q)' = IsAdmitted(q) /\ Cmd(q)' = Cmd(q)
         /\ CertOf(q) => CertOf(q)'
  BY DEF Others, At, IsAdmitted, Cmd, CertOf

LEMMA HeldType ==
  ASSUME TypeInv, NEW r \in Attempts, IsAdmitted(r)
  PROVE  /\ Cmd(r) \in Commands /\ mem[Cmd(r)] \in Record /\ rows[Cmd(r)] \in Record
         /\ snap[r] \in Record
<1>1. pc[r] # "idle"
  BY LabelFacts DEF IsAdmitted
<1> QED
  BY <1>1, RequestType DEF TypeInv, TypeOK, LedgerTypeOK

LEMMA CopyTypes ==
  ASSUME TypeInv, NEW c \in Commands
  PROVE  mem[c] \in Record /\ rows[c] \in Record
  BY DEF TypeInv, TypeOK, LedgerTypeOK

LEMMA CallStepInv ==
  ASSUME Inv, TypeInv', NEW r \in Attempts, CallStep(r)
  PROVE  VerdictInv'
<1>1. /\ TypeInv /\ VerdictInv /\ Others(r) /\ Up /\ Up'
      /\ UNCHANGED <<rows, then, snap, cert, sent, rv, phase>>
  BY DEF Inv, CallStep, Up
<1>2. /\ ~IsAdmitted(r) /\ ~IsAdmitted(r)' /\ At(r) \notin ToGo /\ At(r)' \notin ToGo
      /\ pc[r] # "writing" /\ pc'[r] # "writing"
  BY TaskLabels, LabelFacts DEF CallStep, IsAdmitted, At
<1>3. \A c \in Commands : \/ Sheds(mem'[c], mem[c]) \/ mem'[c] = rows[c]
  BY DEF CallStep
<1>4. \A c \in Commands, rec \in Record : Good(c, rec) => Good(c, rec)'
  BY <1>1, <1>2, OthersKept, GoodKept
<1>5. ASSUME NEW q \in Attempts
      PROVE  CertOf(q)'
  <2>1. CASE q = r
    BY <1>1, <1>2, <2>1, TaskLabels DEF VerdictInv, CertOf
  <2> QED
    BY <1>1, <2>1, OthersKept DEF VerdictInv
<1>6. ASSUME NEW c \in Commands
      PROVE  RecordOf(c)'
  <2>1. RecordOf(c) /\ mem[c] \in Record /\ rows[c] \in Record
    BY <1>1, CopyTypes DEF VerdictInv
  <2>2. mem'[c] = Absent \/ mem'[c] = mem[c] \/ mem'[c] = rows[c]
    BY <1>3 DEF Sheds
  <2>3. Good(c, rows[c])' /\ Good(c, mem[c])'
    BY <1>1, <1>4, <2>1, <2>2 DEF RecordOf, Good, Absent
  <2> QED
    BY <1>1, <2>1, <2>2, <2>3, StateFacts DEF RecordOf, Absent
<1>7. ASSUME NEW q \in Attempts
      PROVE  HoldOf(q)'
  <2>1. CASE q = r
    BY <1>2, <2>1 DEF HoldOf
  <2>2. CASE q # r /\ (At(q) \in ToGo \/ pc[q] = "writing")
    <3>1. HoldOf(q) /\ IsAdmitted(q)
      BY <1>1, <2>2, TaskLabels, LabelFacts DEF VerdictInv, IsAdmitted, At
    <3>2. /\ Cmd(q) \in Commands /\ mem[Cmd(q)] \in Record /\ rows[Cmd(q)] \in Record
          /\ snap[q] \in Record
      BY <1>1, <3>1, HeldType
    <3>3. At(q)' = At(q) /\ Cmd(q)' = Cmd(q) /\ pc'[q] = pc[q]
      BY <1>1, <2>2, OthersKept DEF Others
    <3>4. pc[q] = "writing" => Good(Cmd(q), snap[q])'
      BY <1>1, <1>4, <3>1, <3>2, <3>3 DEF HoldOf, Good
    <3> QED
      BY <1>1, <1>3, <3>1, <3>2, <3>3, <3>4, StateFacts DEF HoldOf, Sheds, Absent
  <2>3. CASE q # r /\ ~(At(q) \in ToGo \/ pc[q] = "writing")
    <3>1. At(q)' = At(q) /\ pc'[q] = pc[q]
      BY <1>1, <2>3, OthersKept DEF Others
    <3> QED
      BY <2>3, <3>1 DEF HoldOf
  <2> QED
    BY <2>1, <2>2, <2>3
<1>8. ASSUME NEW x \in Reviews, UnderReview(x)
      PROVE  ReviewOf(x)'
  <2> DEFINE c == rv[x].cmd
             q == rows[c].by
  <2>1. ReviewOf(x) /\ c \in Commands /\ RecordOf(c)
    BY <1>1, <1>8 DEF VerdictInv, ReviewOf
  <2>2. q \in Attempts /\ IsAdmitted(q)
    BY <1>8, <2>1, StateFacts DEF ReviewOf, RecordOf, Good
  <2>3. q # r /\ At(q)' = At(q) /\ pc'[q] = pc[q] /\ snap'[q] = snap[q]
    BY <1>1, <1>2, <2>2, OthersKept DEF Others
  <2>4. mem'[c].st \in Stands \cup {"ABSENT"}
    BY <1>3, <1>8, <2>1 DEF ReviewOf, Sheds, Absent
  <2> QED
    BY <1>1, <1>8, <2>1, <2>3, <2>4 DEF ReviewOf, UnderReview
<1>9. PhaseInv'
  BY <1>1 DEF PhaseInv
<1> QED
  BY <1>1, <1>5, <1>6, <1>7, <1>8, <1>9 DEF VerdictInv, ReviewOf, UnderReview

\* Steps of one attempt that leave a command alone leave what is known of it.
LEMMA HoldKept ==
  ASSUME Inv, NEW r \in Attempts, Others(r),
         \A c \in Commands, rec \in Record : Good(c, rec) => Good(c, rec)',
         NEW q \in Attempts \ {r},
         At(q) \in ToGo \/ pc[q] = "writing" =>
           rows'[Cmd(q)] = rows[Cmd(q)] /\ Sheds(mem'[Cmd(q)], mem[Cmd(q)])
  PROVE  HoldOf(q)'
<1>1. At(q)' = At(q) /\ Cmd(q)' = Cmd(q) /\ pc'[q] = pc[q] /\ snap'[q] = snap[q]
      /\ then'[q] = then[q]
  BY OthersKept DEF Others
<1>2. CASE At(q) \in ToGo \/ pc[q] = "writing"
  <2>1. HoldOf(q) /\ IsAdmitted(q)
    BY <1>2, TaskLabels, LabelFacts DEF Inv, VerdictInv, IsAdmitted, At
  <2>2. Cmd(q) \in Commands /\ snap[q] \in Record
    BY <2>1, HeldType DEF Inv
  <2>3. pc[q] = "writing" => Good(Cmd(q), snap[q])'
    BY <1>1, <2>1, <2>2 DEF HoldOf, Good
  <2> QED
    BY <1>1, <1>2, <2>1, <2>3, StateFacts DEF HoldOf, Sheds, Absent
<1>3. CASE ~(At(q) \in ToGo \/ pc[q] = "writing")
  BY <1>1, <1>3 DEF HoldOf
<1> QED
  BY <1>2, <1>3

LEMMA RecordKept ==
  ASSUME Inv, NEW c \in Commands,
         \A rec \in Record : Good(c, rec) => Good(c, rec)',
         Sheds(mem'[c], mem[c]), Sheds(rows'[c], rows[c])
  PROVE  RecordOf(c)'
<1>1. RecordOf(c) /\ mem[c] \in Record /\ rows[c] \in Record
  BY CopyTypes DEF Inv, VerdictInv
<1>2. Good(c, rows[c])' /\ Good(c, mem[c])'
  BY <1>1 DEF RecordOf, Good, Sheds, Absent
<1> QED
  BY <1>1, <1>2, StateFacts DEF RecordOf, Sheds, Absent

\* The creator of a command that is present, and the reviews of it.
LEMMA Creator ==
  ASSUME Inv, NEW c \in Commands, rows[c].st # "ABSENT"
  PROVE  rows[c].by \in Attempts /\ IsAdmitted(rows[c].by) /\ Cmd(rows[c].by) = c
  BY DEF Inv, VerdictInv, RecordOf, Good

LEMMA ReviewKept ==
  ASSUME Inv, NEW r \in Attempts, Others(r), UNCHANGED rv, NEW x \in Reviews,
         UnderReview(x) =>
           /\ rows[rv[x].cmd].by # r
           /\ rows'[rv[x].cmd] = rows[rv[x].cmd]
           /\ Sheds(mem'[rv[x].cmd], mem[rv[x].cmd])
  PROVE  ReviewOf(x)'
<1> SUFFICES ASSUME UnderReview(x)
             PROVE  ReviewOf(x)'
  BY DEF ReviewOf, UnderReview
<1> DEFINE c == rv[x].cmd
           q == rows[c].by
<1>1. ReviewOf(x) /\ c \in Commands /\ rows[c].st \in Stands
  BY DEF Inv, VerdictInv, ReviewOf
<1>2. q \in Attempts \ {r}
  BY <1>1, Creator, StateFacts
<1>3. At(q)' = At(q) /\ pc'[q] = pc[q] /\ snap'[q] = snap[q]
  BY <1>2, OthersKept DEF Others
<1> QED
  BY <1>1, <1>3, StateFacts DEF ReviewOf, UnderReview, Sheds, Absent

LEMMA AdmitStepInv ==
  ASSUME Inv, TypeInv', NEW r \in Attempts, AdmitStep(r)
  PROVE  VerdictInv'
<1>1. /\ TypeInv /\ VerdictInv /\ Others(r) /\ Up /\ Up' /\ Cmd(r) \in Commands
      /\ UNCHANGED <<req, then, snap, cert, sent, rv, phase>>
  BY DEF Inv, AdmitStep, Up
<1>2. /\ ~IsAdmitted(r) /\ IsAdmitted(r)' /\ pc'[r] = "admitted" /\ At(r)' = "admitted"
      /\ At(r) \notin ToGo /\ pc[r] # "writing"
  BY TaskLabels, LabelFacts DEF AdmitStep, IsAdmitted, At, Admitted, Live
<1>3. \A c \in Commands \ {Cmd(r)} : Sheds(mem'[c], mem[c]) /\ Sheds(rows'[c], rows[c])
  BY DEF AdmitStep
<1>4. \A c \in Commands, rec \in Record : Good(c, rec) => Good(c, rec)'
  BY <1>1, <1>2, OthersKept, GoodKept DEF Others
<1>5. /\ mem'[Cmd(r)].by = r /\ mem'[Cmd(r)].st = "ISSUED"
      /\ rows'[Cmd(r)].by = r /\ rows'[Cmd(r)].st = "ISSUED" /\ Cmd(r)' = Cmd(r)
      /\ rows[Cmd(r)].st = "ABSENT"
  BY <1>1 DEF AdmitStep, Issued, Cmd
<1>6. "ISSUED" \in Running /\ "ISSUED" \notin Terminal /\ "admitted" \in Unsent
  BY StateFacts DEF Running, Unsent
<1>7. ASSUME NEW q \in Attempts
      PROVE  CertOf(q)'
  <2>1. CASE q = r
    <3>1. cert[r] = "none"
      BY <1>1, <1>2 DEF VerdictInv, CertOf
    <3> QED
      BY <1>1, <1>2, <2>1, <3>1, TaskLabels DEF CertOf, Certainty
  <2> QED
    BY <1>1, <2>1, OthersKept DEF VerdictInv
<1>8. ASSUME NEW c \in Commands
      PROVE  RecordOf(c)'
  <2>1. CASE c = Cmd(r)
    <3>1. Good(c, mem[c])' /\ Good(c, rows[c])'
      BY <1>2, <1>5, <1>6, <2>1 DEF Good
    <3> QED
      BY <1>5, <1>6, <2>1, <3>1, StateFacts DEF RecordOf
  <2>2. CASE c # Cmd(r)
    BY <1>3, <1>4, <2>2, RecordKept
  <2> QED
    BY <2>1, <2>2
<1>9. ASSUME NEW q \in Attempts
      PROVE  HoldOf(q)'
  <2>1. CASE q = r
    BY <1>2, <1>5, <1>6, <2>1 DEF HoldOf
  <2>2. CASE q # r
    <3>1. ASSUME At(q) \in ToGo \/ pc[q] = "writing"
          PROVE  rows'[Cmd(q)] = rows[Cmd(q)] /\ Sheds(mem'[Cmd(q)], mem[Cmd(q)])
      <4>1. HoldOf(q) /\ IsAdmitted(q)
        BY <1>1, <3>1, TaskLabels, LabelFacts DEF VerdictInv, IsAdmitted, At
      <4>2. Cmd(q) \in Commands /\ rows[Cmd(q)].st \in Stands
        BY <1>1, <3>1, <4>1, HeldType, StateFacts DEF HoldOf
      <4>3. Cmd(q) # Cmd(r)
        BY <1>5, <4>2, StateFacts
      <4> QED
        BY <1>3, <4>2, <4>3 DEF Sheds
    <3> QED
      BY <1>1, <1>4, <2>2, <3>1, HoldKept
  <2> QED
    BY <2>1, <2>2
<1>10. ASSUME NEW x \in Reviews
       PROVE  ReviewOf(x)'
  <2>1. ASSUME UnderReview(x)
        PROVE  /\ rows[rv[x].cmd].by # r
               /\ rows'[rv[x].cmd] = rows[rv[x].cmd]
               /\ Sheds(mem'[rv[x].cmd], mem[rv[x].cmd])
    <3>1. rv[x].cmd \in Commands /\ rows[rv[x].cmd].st \in Stands
      BY <1>1, <2>1 DEF VerdictInv, ReviewOf
    <3>2. rv[x].cmd # Cmd(r) /\ IsAdmitted(rows[rv[x].cmd].by)
      BY <1>5, <3>1, Creator, StateFacts
    <3> QED
      BY <1>2, <1>3, <3>1, <3>2 DEF Sheds
  <2> QED
    BY <1>1, <2>1, ReviewKept
<1>11. PhaseInv'
  BY <1>1 DEF PhaseInv
<1> QED
  BY <1>7, <1>8, <1>9, <1>10, <1>11 DEF VerdictInv

LEMMA EndStepInv ==
  ASSUME Inv, TypeInv', NEW r \in Attempts, EndStep(r)
  PROVE  VerdictInv'
<1>1. /\ TypeInv /\ VerdictInv /\ Others(r) /\ Up /\ Up'
      /\ UNCHANGED <<rows, req, cert, sent, rv, phase>>
      /\ \A c \in Commands : Sheds(mem'[c], mem[c])
  BY DEF Inv, EndStep, Up
<1>2. /\ IsAdmitted(r) /\ IsAdmitted(r)' /\ At(r)' \in Over /\ At(r)' \notin ToGo
      /\ pc'[r] # "writing"
  BY TaskLabels, LabelFacts DEF EndStep, IsAdmitted, At, Over
<1>3. \A c \in Commands, rec \in Record : Good(c, rec) => Good(c, rec)'
  BY <1>1, <1>2, OthersKept, GoodKept DEF Cmd
<1>4. ASSUME NEW q \in Attempts
      PROVE  CertOf(q)'
  <2>1. CASE q = r
    BY <1>1, <1>2, <2>1, TaskLabels DEF VerdictInv, CertOf
  <2> QED
    BY <1>1, <2>1, OthersKept DEF VerdictInv
<1>5. \A c \in Commands : RecordOf(c)'
  BY <1>1, <1>3, RecordKept DEF Sheds
<1>6. ASSUME NEW q \in Attempts
      PROVE  HoldOf(q)'
  <2>1. CASE q = r
    BY <1>2, <2>1 DEF HoldOf
  <2>2. CASE q # r
    <3>1. At(q) \in ToGo \/ pc[q] = "writing" => Cmd(q) \in Commands
      BY <1>1, HeldType, TaskLabels, LabelFacts DEF IsAdmitted, At
    <3> QED
      BY <1>1, <1>3, <2>2, <3>1, HoldKept
  <2> QED
    BY <2>1, <2>2
<1>7. ASSUME NEW x \in Reviews, UnderReview(x)
      PROVE  ReviewOf(x)'
  <2> DEFINE c == rv[x].cmd
             q == rows[c].by
  <2>1. ReviewOf(x) /\ c \in Commands /\ rows[c].st \in Stands
    BY <1>1, <1>7 DEF VerdictInv, ReviewOf
  <2>2. q \in Attempts
    BY <2>1, Creator, StateFacts
  <2>3. At(q)' \notin ToGo /\ (pc'[q] = "writing" => pc[q] = "writing" /\ snap'[q] = snap[q])
    BY <1>1, <1>2, <1>7, <2>1, <2>2, OthersKept DEF Others, ReviewOf
  <2>4. mem'[c].st \in Stands \cup {"ABSENT"}
    BY <1>1, <1>7, <2>1 DEF ReviewOf, Sheds, Absent
  <2> QED
    BY <1>1, <1>7, <2>1, <2>3, <2>4 DEF ReviewOf, UnderReview
<1>8. PhaseInv'
  BY <1>1 DEF PhaseInv
<1> QED
  BY <1>1, <1>4, <1>5, <1>6, <1>7, <1>8 DEF VerdictInv, ReviewOf, UnderReview

LEMMA TaskStepInv ==
  ASSUME Inv, TypeInv', NEW r \in Attempts, TaskStep(r)
  PROVE  VerdictInv'
<1>1. /\ TypeInv /\ VerdictInv /\ Others(r) /\ Up /\ Up' /\ pc[r] \in ToGo
      /\ UNCHANGED <<rows, req, rv, phase>>
      /\ \A c \in Commands \ {Cmd(r)} : mem'[c] = mem[c]
  BY DEF Inv, TaskStep, Up
<1>2. /\ IsAdmitted(r) /\ IsAdmitted(r)' /\ At(r) = pc[r] /\ pc[r] # "writing"
      /\ Cmd(r)' = Cmd(r)
  BY <1>1, TaskLabels DEF TaskStep, IsAdmitted, At, Cmd
<1>3. /\ Cmd(r) \in Commands /\ rows[Cmd(r)] \in Record /\ mem'[Cmd(r)] \in Record
      /\ rows[Cmd(r)].by = r /\ rows[Cmd(r)].st \in Running
      /\ mem[Cmd(r)].by = r /\ mem[Cmd(r)].st \in Running
  <2>1. Cmd(r) \in Commands /\ rows[Cmd(r)] \in Record
    BY <1>1, <1>2, HeldType
  <2> QED
    BY <1>1, <1>2, <2>1 DEF VerdictInv, HoldOf, TypeInv, TypeOK
<1>4. \A c \in Commands, rec \in Record :
        Good(c, rec) /\ ~(rec.by = r /\ rec.st \in Terminal) => Good(c, rec)'
  BY <1>1, <1>2, OthersKept DEF Good, Honest, Others
<1>5. \A c \in Commands, rec \in Record :
        Good(c, rec) /\ rec.st # "ABSENT" /\ rec.by = r => rec.st \notin Terminal
  BY <1>1, <1>2 DEF Good
<1>6. \A c \in Commands, rec \in Record : Good(c, rec) => Good(c, rec)'
  BY <1>4, <1>5, StateFacts
<1>7. ASSUME NEW q \in Attempts
      PROVE  CertOf(q)'
  <2>1. CASE q = r
    BY <2>1 DEF TaskStep
  <2> QED
    BY <1>1, <2>1, OthersKept DEF VerdictInv
<1>8. /\ mem'[Cmd(r)].by = r /\ mem'[Cmd(r)].st \in Running \cup Terminal
      /\ mem'[Cmd(r)].st \in Terminal =>
           pc'[r] = "writing" /\ then'[r] = "evict" /\ snap'[r] = mem'[Cmd(r)]
  BY <1>3, StateFacts, TaskLabels DEF TaskStep
<1>9. Good(Cmd(r), mem[Cmd(r)])'
  <2>1. mem'[Cmd(r)].st \in Terminal => At(r)' \notin ToGo
    BY <1>8, TaskLabels DEF At
  <2>2. mem'[Cmd(r)].st \in Terminal => Honest(r, mem[Cmd(r)].st)'
    BY <1>2, <1>8 DEF TaskStep, Honest
  <2> QED
    BY <1>2, <1>8, <2>1, <2>2, StateFacts DEF Good
<1>10. ASSUME NEW c \in Commands
       PROVE  RecordOf(c)'
  <2>1. CASE c = Cmd(r)
    <3>1. Good(c, rows[c])'
      BY <1>1, <1>3, <1>6, <2>1 DEF VerdictInv, RecordOf, Good
    <3> QED
      BY <1>1, <1>2, <1>3, <1>8, <1>9, <2>1, <3>1, StateFacts DEF RecordOf
  <2>2. CASE c # Cmd(r)
    BY <1>1, <1>6, <2>2, RecordKept DEF Sheds
  <2> QED
    BY <2>1, <2>2
<1>11. ASSUME NEW q \in Attempts
       PROVE  HoldOf(q)'
  <2>1. CASE q = r
    <3>1. CASE pc'[r] \in ToGo /\ mem'[Cmd(r)] = mem[Cmd(r)]
      BY <1>1, <1>2, <1>3, <2>1, <3>1, TaskLabels DEF HoldOf
    <3>2. CASE /\ pc'[r] = "writing" /\ then'[r] \in ToGo \cup {"evict"}
               /\ snap'[r] = mem'[Cmd(r)] /\ snap'[r].by = r
               /\ then'[r] = "evict" => snap'[r].st \in Terminal
               /\ then'[r] # "evict" => snap'[r].st \in Running
      <4>1. Good(Cmd(r), snap[r])'
        BY <1>2, <1>9, <3>2 DEF Good
      <4> QED
        BY <1>1, <1>2, <1>3, <2>1, <3>2, <4>1, TaskLabels, StateFacts DEF HoldOf, At
    <3> QED
      BY <3>1, <3>2 DEF TaskStep
  <2>2. CASE q # r
    <3>1. ASSUME At(q) \in ToGo \/ pc[q] = "writing"
          PROVE  rows'[Cmd(q)] = rows[Cmd(q)] /\ Sheds(mem'[Cmd(q)], mem[Cmd(q)])
      <4>1. Cmd(q) # Cmd(r)
        BY <1>1, <1>2, <2>2, <3>1, Apart
      <4>2. Cmd(q) \in Commands
        BY <1>1, <3>1, HeldType, TaskLabels, LabelFacts DEF IsAdmitted, At
      <4> QED
        BY <1>1, <4>1, <4>2 DEF Sheds
    <3> QED
      BY <1>1, <1>6, <2>2, <3>1, HoldKept
  <2> QED
    BY <2>1, <2>2
<1>12. ASSUME NEW x \in Reviews
       PROVE  ReviewOf(x)'
  <2>1. ASSUME UnderReview(x)
        PROVE  /\ rows[rv[x].cmd].by # r
               /\ rows'[rv[x].cmd] = rows[rv[x].cmd]
               /\ Sheds(mem'[rv[x].cmd], mem[rv[x].cmd])
    <3>1. /\ rv[x].cmd \in Commands /\ rows[rv[x].cmd].st \in Stands
          /\ At(rows[rv[x].cmd].by) \notin ToGo
      BY <1>1, <2>1 DEF VerdictInv, ReviewOf
    <3>2. rows[rv[x].cmd].by # r /\ rv[x].cmd # Cmd(r)
      BY <1>1, <1>2, <1>3, <3>1
    <3> QED
      BY <1>1, <3>1, <3>2 DEF Sheds
  <2> QED
    BY <1>1, <2>1, ReviewKept
<1>13. PhaseInv'
  BY <1>1 DEF PhaseInv
<1> QED
  BY <1>7, <1>10, <1>11, <1>12, <1>13 DEF VerdictInv

LEMMA PersistStepInv ==
  ASSUME Inv, TypeInv', NEW r \in Attempts, PersistStep(r)
  PROVE  VerdictInv'
<1>1. /\ TypeInv /\ VerdictInv /\ Others(r) /\ Up /\ Up' /\ pc[r] = "writing"
      /\ UNCHANGED <<mem, req, cert, sent, rv, phase>> /\ rows'[Cmd(r)] = snap[r]
      /\ \A c \in Commands \ {Cmd(r)} : rows'[c] = rows[c]
  BY DEF Inv, PersistStep, Up
<1>2. /\ IsAdmitted(r) /\ At(r) = then[r] /\ then[r] \in Live \ {"writing"}
      /\ Cmd(r)' = Cmd(r)
  BY <1>1, LabelFacts DEF IsAdmitted, At, Cmd, TypeInv, TaskInv
<1>3. pc'[r] = then[r] /\ IsAdmitted(r)' /\ At(r)' = then[r] /\ pc'[r] # "writing"
  BY <1>2, TaskLabels DEF PersistStep, IsAdmitted, At
<1>4. /\ Cmd(r) \in Commands /\ snap[r] \in Record /\ HoldOf(r) /\ RecordOf(Cmd(r))
      /\ rows[Cmd(r)] \in Record /\ mem[Cmd(r)] \in Record
  BY <1>1, <1>2, HeldType DEF VerdictInv
<1>5. \A c \in Commands, rec \in Record : Good(c, rec) => Good(c, rec)'
  BY <1>1, <1>2, <1>3, OthersKept, GoodKept DEF Others
<1>6. ASSUME NEW q \in Attempts
      PROVE  CertOf(q)'
  <2>1. CASE q = r
    BY <1>1, <1>2, <1>3, <2>1 DEF VerdictInv, CertOf
  <2> QED
    BY <1>1, <2>1, OthersKept DEF VerdictInv
<1>7. ASSUME NEW c \in Commands
      PROVE  RecordOf(c)'
  <2>1. CASE c = Cmd(r)
    <3>1. Good(c, rows[c])' /\ Good(c, mem[c])'
      BY <1>1, <1>4, <1>5, <2>1 DEF HoldOf, RecordOf, Good
    <3>2. mem[c].st # "ABSENT" => mem[c].by = r
      BY <1>1, <1>4, <2>1, StateFacts DEF HoldOf, RecordOf
    <3>3. mem[c].st \in Terminal => mem[c].st = snap[r].st
      BY <1>1, <1>4, <2>1 DEF HoldOf
    <3>4. snap[r].by = r
      BY <1>1, <1>4 DEF HoldOf
    <3> QED
      BY <1>1, <2>1, <3>1, <3>2, <3>3, <3>4, StateFacts DEF RecordOf
  <2>2. CASE c # Cmd(r)
    BY <1>1, <1>5, <2>2, RecordKept DEF Sheds
  <2> QED
    BY <2>1, <2>2
<1>8. ASSUME NEW q \in Attempts
      PROVE  HoldOf(q)'
  <2>1. CASE q = r
    <3>1. then[r] \in ToGo =>
            /\ mem[Cmd(r)].by = r /\ mem[Cmd(r)].st \in Running
            /\ snap[r].by = r /\ snap[r].st \in Running
      BY <1>1, <1>2, <1>4, TaskLabels DEF HoldOf
    <3> QED
      BY <1>1, <1>2, <1>3, <2>1, <3>1 DEF HoldOf
  <2>2. CASE q # r
    <3>1. ASSUME At(q) \in ToGo \/ pc[q] = "writing"
          PROVE  rows'[Cmd(q)] = rows[Cmd(q)] /\ Sheds(mem'[Cmd(q)], mem[Cmd(q)])
      <4>1. Cmd(q) # Cmd(r)
        BY <1>1, <2>2, <3>1, Apart
      <4>2. Cmd(q) \in Commands
        BY <1>1, <3>1, HeldType, TaskLabels, LabelFacts DEF IsAdmitted, At
      <4> QED
        BY <1>1, <4>1, <4>2 DEF Sheds
    <3> QED
      BY <1>1, <1>5, <2>2, <3>1, HoldKept
  <2> QED
    BY <2>1, <2>2
<1>9. ASSUME NEW x \in Reviews, UnderReview(x)
      PROVE  ReviewOf(x)'
  <2> DEFINE c == rv[x].cmd
             q == rows[c].by
  <2>1. ReviewOf(x) /\ c \in Commands /\ rows[c].st \in Stands
    BY <1>1, <1>9 DEF VerdictInv, ReviewOf
  <2>2. q \in Attempts /\ Cmd(q) = c
    BY <2>1, Creator, StateFacts
  <2>3. CASE c = Cmd(r)
    <3>1. q = r
      BY <1>1, <1>4, <2>3 DEF HoldOf
    <3>2. snap[r].st = "OUTCOME_UNKNOWN" /\ snap[r].by = r /\ then[r] \notin ToGo
      BY <1>1, <1>2, <1>4, <1>9, <2>1, <3>1 DEF HoldOf, ReviewOf
    <3> QED
      BY <1>1, <1>3, <1>9, <2>1, <2>3, <3>1, <3>2, StateFacts DEF ReviewOf, UnderReview
  <2>4. CASE c # Cmd(r)
    <3>1. q # r /\ rows'[c] = rows[c]
      BY <1>1, <2>1, <2>2, <2>4
    <3> QED
      BY <1>1, <3>1, ReviewKept DEF Sheds
  <2> QED
    BY <2>3, <2>4
<1>10. PhaseInv'
  BY <1>1 DEF PhaseInv
<1> QED
  BY <1>1, <1>6, <1>7, <1>8, <1>9, <1>10 DEF VerdictInv, ReviewOf, UnderReview

\* What a review or a start of the process leaves alone.
LEMMA AttemptsKept ==
  ASSUME Inv, UNCHANGED <<taskVars, req, cert, sent>>
  PROVE  /\ \A q \in Attempts : CertOf(q)' /\ At(q)' = At(q) /\ Cmd(q)' = Cmd(q)
                                /\ IsAdmitted(q)' = IsAdmitted(q)
         /\ \A c \in Commands, rec \in Record : Good(c, rec) => Good(c, rec)'
<1>1. \A q \in Attempts : CertOf(q)' /\ At(q)' = At(q) /\ Cmd(q)' = Cmd(q)
                           /\ IsAdmitted(q)' = IsAdmitted(q)
  BY DEF Inv, VerdictInv, CertOf, At, Cmd, IsAdmitted, taskVars
<1> QED
  BY <1>1, GoodKept

\* A task is unharmed by a write to its command that keeps what it relies on.
LEMMA HoldRest ==
  ASSUME Inv, UNCHANGED <<taskVars, req, cert, sent>>, NEW q \in Attempts,
         At(q) \in ToGo \/ pc[q] = "writing" =>
           /\ mem'[Cmd(q)].by = mem[Cmd(q)].by /\ mem'[Cmd(q)].st = mem[Cmd(q)].st
           /\ rows'[Cmd(q)].by = rows[Cmd(q)].by
           /\ \/ rows'[Cmd(q)].st = rows[Cmd(q)].st
              \/ /\ At(q) \notin ToGo /\ rows'[Cmd(q)].st \in Stands
                 /\ pc[q] = "writing" => snap[q].st = "OUTCOME_UNKNOWN"
  PROVE  HoldOf(q)'
<1>1. /\ At(q)' = At(q) /\ Cmd(q)' = Cmd(q) /\ HoldOf(q)
      /\ UNCHANGED <<pc, then, snap>>
  BY AttemptsKept DEF Inv, VerdictInv, taskVars
<1>2. pc[q] = "writing" => Good(Cmd(q), snap[q])'
  <2> SUFFICES ASSUME pc[q] = "writing" PROVE Good(Cmd(q), snap[q])'
    OBVIOUS
  <2>1. IsAdmitted(q)
    BY LabelFacts DEF IsAdmitted
  <2>2. Cmd(q) \in Commands /\ snap[q] \in Record
    BY <2>1, HeldType DEF Inv
  <2> QED
    BY <1>1, <2>2, AttemptsKept DEF HoldOf, Good
<1> QED
  BY <1>1, <1>2 DEF HoldOf

LEMMA RecordReviewInv ==
  ASSUME Inv, TypeInv', NEW x \in Reviews, RecordReview(x)
  PROVE  VerdictInv'
<1>1. /\ TypeInv /\ VerdictInv /\ Up /\ Up'
      /\ UNCHANGED <<rows, mem, taskVars, req, cert, sent, phase>>
  BY DEF Inv, RecordReview, Up
<1>2. PICK c \in Commands :
        /\ Visible(c).st = "OUTCOME_UNKNOWN"
        /\ rv' = [rv EXCEPT ![x] = [pc |-> "recorded", cmd |-> c, snap |-> Absent]]
  BY DEF RecordReview
<1>3. rv'[x].pc = "recorded" /\ rv'[x].cmd = c /\ \A y \in Reviews \ {x} : rv'[y] = rv[y]
  BY <1>1, <1>2 DEF TypeInv, TypeOK
<1>4. \A d \in Commands : RecordOf(d)'
  BY <1>1, AttemptsKept, RecordKept DEF Sheds
<1>5. \A q \in Attempts : CertOf(q)' /\ HoldOf(q)'
  BY <1>1, AttemptsKept, HoldRest
<1>6. ReviewOf(x)'
  <2> DEFINE q == rows[c].by
  <2>1. /\ RecordOf(c)
        /\ \/ mem[c].st = "OUTCOME_UNKNOWN"
           \/ mem[c].st = "ABSENT" /\ rows[c].st = "OUTCOME_UNKNOWN"
    <3>1. RecordOf(c)
      BY <1>1 DEF VerdictInv
    <3>2. CASE mem[c].st # "ABSENT"
      <4>1. Visible(c) = mem[c]
        BY <3>2 DEF Visible
      <4> QED
        BY <1>2, <3>1, <4>1
    <3>3. CASE mem[c].st = "ABSENT"
      BY <1>2, <3>1, <3>3 DEF Visible
    <3> QED
      BY <3>2, <3>3
  <2>2. rows[c].st \in Stands /\ mem[c].st \in Stands \cup {"ABSENT"}
    BY <2>1, StateFacts DEF RecordOf
  <2>3. q \in Attempts /\ Cmd(q) = c /\ HoldOf(q)
    BY <1>1, <2>2, Creator, StateFacts DEF VerdictInv
  <2>4. At(q) \notin ToGo
    BY <2>1, <2>2, <2>3, StateFacts DEF RecordOf, Good
  <2>5. pc[q] = "writing" => snap[q].st = "OUTCOME_UNKNOWN"
    BY <2>1, <2>3, StateFacts DEF HoldOf
  <2> QED
    BY <1>1, <1>3, <2>2, <2>4, <2>5 DEF ReviewOf, At, taskVars
<1>7. ASSUME NEW y \in Reviews \ {x}
      PROVE  ReviewOf(y)'
  BY <1>1, <1>3 DEF VerdictInv, ReviewOf, UnderReview, At, taskVars
<1>8. PhaseInv'
  BY <1>1 DEF PhaseInv
<1> QED
  BY <1>4, <1>5, <1>6, <1>7, <1>8 DEF VerdictInv

LEMMA AppendEvidenceInv ==
  ASSUME Inv, TypeInv', NEW x \in Reviews, AppendEvidence(x)
  PROVE  VerdictInv'
<1> DEFINE c == rv[x].cmd
           new == [mem[c] EXCEPT !.rev = @ + 1, !.obs = @ \cup {x}]
<1>1. /\ TypeInv /\ VerdictInv /\ Up /\ Up' /\ rv[x].pc = "recorded"
      /\ UNCHANGED <<rows, taskVars, req, cert, sent, phase>>
  BY DEF Inv, AppendEvidence, Up, ledgerVars
<1>2. c \in Commands /\ ReviewOf(x) /\ UnderReview(x) /\ RecordOf(c)
  BY <1>1 DEF VerdictInv, ReviewOf, UnderReview
<1>3. mem[c] \in Record /\ new.st = mem[c].st /\ new.by = mem[c].by
  BY <1>1, <1>2, CopyTypes DEF Record
<1>4. \/ mem' = mem /\ rv' = [rv EXCEPT ![x].pc = "done"]
      \/ /\ mem[c].st # "ABSENT" /\ mem' = [mem EXCEPT ![c] = new]
         /\ rv' = [rv EXCEPT ![x].pc = "writing", ![x].snap = new]
  BY DEF AppendEvidence
<1>5. \A d \in Commands : mem'[d].st = mem[d].st /\ mem'[d].by = mem[d].by
  <2> HIDE DEF new
  <2> QED
    BY <1>1, <1>2, <1>3, <1>4 DEF TypeInv, TypeOK
<1>6. \A y \in Reviews \ {x} : rv'[y] = rv[y]
  <2> HIDE DEF new
  <2> QED
    BY <1>1, <1>4 DEF TypeInv, TypeOK
<1>7. ASSUME NEW d \in Commands
      PROVE  RecordOf(d)'
  <2>1. RecordOf(d) /\ mem[d] \in Record /\ rows[d] \in Record
    BY <1>1, CopyTypes DEF VerdictInv
  <2>2. Good(d, rows[d])'
    BY <1>1, <2>1, AttemptsKept DEF RecordOf, Good
  <2>3. Good(d, mem[d])'
    <3> SUFFICES ASSUME mem'[d].st # "ABSENT"
                 PROVE  Good(d, mem[d])'
      BY DEF Good
    <3>1. mem'[d].st = mem[d].st /\ mem'[d].by = mem[d].by /\ Good(d, mem[d])
      BY <1>5, <2>1 DEF RecordOf
    <3>2. \A rec \in Record : rec.st = mem[d].st /\ rec.by = mem[d].by => Good(d, rec)
      BY <3>1 DEF Good
    <3>3. mem'[d] \in Record
      BY DEF TypeInv, TypeOK
    <3> QED
      BY <1>1, <3>1, <3>2, <3>3, AttemptsKept DEF Good
  <2> QED
    BY <1>1, <1>5, <2>1, <2>2, <2>3 DEF RecordOf
<1>8. ASSUME NEW q \in Attempts
      PROVE  CertOf(q)' /\ HoldOf(q)'
  <2>1. At(q) \in ToGo \/ pc[q] = "writing" => Cmd(q) \in Commands
    BY <1>1, HeldType, TaskLabels, LabelFacts DEF IsAdmitted, At
  <2> QED
    BY <1>1, <1>5, <2>1, AttemptsKept, HoldRest
<1>9. ASSUME NEW y \in Reviews
      PROVE  ReviewOf(y)'
  <2>1. CASE y # x
    BY <1>1, <1>5, <1>6, <2>1 DEF VerdictInv, ReviewOf, UnderReview, At, taskVars
  <2>2. CASE y = x /\ mem' = mem /\ rv' = [rv EXCEPT ![x].pc = "done"]
    <3>1. rv'[x].pc = "done"
      BY <1>1, <2>2 DEF TypeInv, TypeOK
    <3> QED
      BY <2>2, <3>1 DEF ReviewOf, UnderReview
  <2>3. CASE /\ y = x /\ mem[c].st # "ABSENT"
             /\ rv' = [rv EXCEPT ![x].pc = "writing", ![x].snap = new]
    <3>1. rv'[x].pc = "writing" /\ rv'[x].cmd = c /\ rv'[x].snap = new
      <4> HIDE DEF new
      <4> QED
        BY <1>1, <2>3 DEF TypeInv, TypeOK
    <3>2. new.by = rows[c].by /\ new.st \in Stands
      BY <1>2, <1>3, <2>3, StateFacts DEF RecordOf, ReviewOf
    <3> HIDE DEF new
    <3> QED
      BY <1>1, <1>2, <1>5, <2>3, <3>1, <3>2 DEF ReviewOf, UnderReview, At, taskVars
  <2> QED
    BY <1>4, <2>1, <2>2, <2>3
<1>10. PhaseInv'
  BY <1>1 DEF PhaseInv
<1> QED
  BY <1>7, <1>8, <1>9, <1>10 DEF VerdictInv

LEMMA PersistEvidenceInv ==
  ASSUME Inv, TypeInv', NEW x \in Reviews, PersistEvidence(x)
  PROVE  VerdictInv'
<1>1. /\ TypeInv /\ VerdictInv /\ Up /\ Up' /\ rv[x].pc = "writing"
      /\ UNCHANGED <<mem, taskVars, req, cert, sent, phase>>
      /\ rv' = [rv EXCEPT ![x].pc = "done", ![x].snap = Absent]
      /\ rows' = [rows EXCEPT ![rv[x].cmd] = rv[x].snap]
  BY DEF Inv, PersistEvidence, Update, Up
<1>2. PICK c \in Commands :
        /\ c = rv[x].cmd /\ ReviewOf(x) /\ UnderReview(x) /\ RecordOf(c)
        /\ rows[c].st \in Stands
  BY <1>1 DEF VerdictInv, ReviewOf, UnderReview
<1>3. PICK q \in Attempts : q = rows[c].by /\ IsAdmitted(q) /\ Cmd(q) = c
  BY <1>2, Creator, StateFacts
<1>4. /\ rows'[c].by = q /\ rows'[c].st \in Stands /\ At(q) \notin ToGo
      /\ pc[q] = "writing" => snap[q].st = "OUTCOME_UNKNOWN"
      /\ mem[c].st \in Stands \cup {"ABSENT"}
      /\ \A d \in Commands \ {c} : rows'[d] = rows[d]
  BY <1>1, <1>2, <1>3 DEF ReviewOf, TypeInv, TypeOK, LedgerTypeOK
<1>5. rv'[x].pc = "done" /\ \A y \in Reviews \ {x} : rv'[y] = rv[y]
  BY <1>1 DEF TypeInv, TypeOK
<1>6. ASSUME NEW d \in Commands
      PROVE  RecordOf(d)'
  <2>1. CASE d = c
    <3>1. rows'[d].st \notin {"REJECTED", "EXPIRED", "CONFIRMED", "FAILED"}
      BY <1>4, <2>1, StateFacts DEF Prunable
    <3>2. rows'[d].by = q /\ Cmd(q) = d /\ At(q)' \notin ToGo /\ IsAdmitted(q)' /\ Cmd(q)' = Cmd(q)
      BY <1>1, <1>4, <1>3, <2>1 DEF At, IsAdmitted, Cmd, taskVars
    <3>3. Good(d, rows[d])'
      BY <1>3, <3>1, <3>2 DEF Good, Honest
    <3>4. Good(d, mem[d])'
      BY <1>1, <1>2, <2>1, AttemptsKept, CopyTypes DEF RecordOf, Good
    <3>5. /\ mem[d].st # "ABSENT" => mem[d].by = q
          /\ mem[d].st \in Terminal => mem[d].st = "OUTCOME_UNKNOWN"
          /\ rows'[d].st \in Terminal => rows'[d].st = "OUTCOME_UNKNOWN"
          /\ rows'[d].st \in Stands
      BY <1>2, <1>4, <1>3, <2>1, StateFacts DEF RecordOf
    <3> QED
      BY <1>1, <3>2, <3>3, <3>4, <3>5 DEF RecordOf
  <2>2. CASE d # c
    BY <1>1, <1>4, <2>2, AttemptsKept, RecordKept DEF Sheds
  <2> QED
    BY <2>1, <2>2
<1>7. ASSUME NEW p \in Attempts
      PROVE  CertOf(p)' /\ HoldOf(p)'
  <2>1. CASE At(p) \in ToGo \/ pc[p] = "writing"
    <3>1. Cmd(p) \in Commands /\ HoldOf(p)
      BY <1>1, <2>1, HeldType, TaskLabels, LabelFacts DEF IsAdmitted, At, VerdictInv
    <3>2. CASE Cmd(p) = c
      <4>1. p = q
        BY <1>3, <2>1, <3>1, <3>2 DEF HoldOf
      <4> QED
        BY <1>1, <1>4, <1>3, <4>1, AttemptsKept, HoldRest
    <3>3. CASE Cmd(p) # c
      BY <1>1, <1>4, <3>1, <3>3, AttemptsKept, HoldRest
    <3> QED
      BY <3>2, <3>3
  <2> QED
    BY <1>1, <2>1, AttemptsKept, HoldRest
<1>8. ASSUME NEW y \in Reviews
      PROVE  ReviewOf(y)'
  <2>1. CASE y = x
    BY <1>5, <2>1 DEF ReviewOf, UnderReview
  <2>2. CASE y # x /\ ~UnderReview(y)
    BY <1>5, <2>2 DEF ReviewOf, UnderReview
  <2>3. CASE y # x /\ UnderReview(y)
    <3>1. rv'[y] = rv[y] /\ ReviewOf(y) /\ rv[y].cmd \in Commands
      BY <1>1, <1>5, <2>3 DEF VerdictInv, ReviewOf
    <3>2. CASE rv[y].cmd = c
      BY <1>1, <1>4, <1>3, <2>3, <3>1, <3>2 DEF ReviewOf, UnderReview, At, taskVars
    <3>3. CASE rv[y].cmd # c
      <4>1. rows'[rv[y].cmd] = rows[rv[y].cmd]
        BY <1>4, <3>1, <3>3
      <4> QED
        BY <1>1, <2>3, <3>1, <4>1 DEF ReviewOf, UnderReview, At, taskVars
    <3> QED
      BY <3>2, <3>3
  <2> QED
    BY <2>1, <2>2, <2>3
<1>9. PhaseInv'
  BY <1>1 DEF PhaseInv
<1> QED
  BY <1>6, <1>7, <1>8, <1>9 DEF VerdictInv

LEMMA VanishInv ==
  ASSUME Inv, TypeInv', Vanish
  PROVE  VerdictInv'
<1>1. /\ TypeInv /\ VerdictInv /\ ~Up' /\ UNCHANGED <<rows, req, cert, sent>>
      /\ \A c \in Commands : mem'[c] = Absent
  BY DEF Inv, Vanish, Up, ledgerVars
<1>2. \A q \in Attempts :
        /\ pc'[q] \notin Calling \cup Live /\ At(q)' \notin ToGo /\ At(q)' = pc'[q]
        /\ IsAdmitted(q)' = IsAdmitted(q) /\ Cmd(q)' = Cmd(q)
  <2>1. \A q \in Attempts :
          /\ pc[q] \in Calling => pc'[q] = "dropped"
          /\ pc[q] \in Live \ Calling => pc'[q] = "lost"
          /\ pc[q] \notin Calling \cup Live => pc'[q] = pc[q]
    BY DEF Vanish
  <2>2. /\ "dropped" \notin Calling \cup Admitted /\ "lost" \notin Calling \cup Live
        /\ "lost" \in Admitted /\ Calling \cap Admitted = {} /\ Live \subseteq Admitted
        /\ "writing" \in Live /\ ToGo \subseteq Live
    BY DEF Calling, Admitted, Live, Over, ToGo
  <2> QED
    BY <1>1, <2>1, <2>2 DEF At, IsAdmitted, Cmd
<1>3. \A c \in Commands, rec \in Record : Good(c, rec) => Good(c, rec)'
  BY <1>1, <1>2, GoodKept
<1>4. \A q \in Attempts : CertOf(q)'
  <2>1. \A q \in Attempts : At(q)' \notin ToGo /\ CertOf(q)
    BY <1>1, <1>2 DEF VerdictInv
  <2> QED
    BY <1>1, <1>2, <2>1, TaskLabels DEF CertOf
<1>5. ASSUME NEW c \in Commands
      PROVE  RecordOf(c)'
  <2>1. Good(c, rows[c])' /\ Good(c, mem[c])'
    BY <1>1, <1>3, CopyTypes DEF VerdictInv, RecordOf, Good, Absent
  <2> QED
    BY <1>1, <2>1, StateFacts DEF RecordOf, Absent
<1>6. \A q \in Attempts : HoldOf(q)'
  BY <1>2, TaskLabels DEF HoldOf
<1>7. \A x \in Reviews : ~UnderReview(x)'
  BY DEF Vanish, UnderReview, ReviewIdle
<1>8. PhaseInv'
  BY <1>1, <1>2, <1>7 DEF PhaseInv, Absent
<1> QED
  BY <1>4, <1>5, <1>6, <1>7, <1>8 DEF VerdictInv, ReviewOf

\* A start reads rows into an empty cache, rewrites them one by one and opens.
StartStep ==
  /\ ~Up /\ UNCHANGED <<taskVars, req, cert, sent, rv>>
  /\ \A c \in Commands :
       \/ rows'[c] = rows[c] /\ mem'[c].st = "ABSENT"
       \/ rows'[c] = rows[c] /\ mem'[c] = rows[c]
       \/ /\ rows[c].st \in Running /\ mem'[c] = rows'[c]
          /\ rows'[c].st = "OUTCOME_UNKNOWN" /\ rows'[c].by = rows[c].by

LEMMA StartStepInv ==
  ASSUME Inv, TypeInv', StartStep
  PROVE  VerdictInv'
<1>1. /\ TypeInv /\ VerdictInv /\ ~Up /\ UNCHANGED <<taskVars, req, cert, sent, rv>>
  BY DEF Inv, StartStep
<1>2. /\ \A q \in Attempts : pc[q] \notin Calling \cup Live
      /\ \A x \in Reviews : ~UnderReview(x)
  BY <1>1 DEF VerdictInv, PhaseInv
<1>3. \A q \in Attempts : At(q) \notin ToGo /\ pc[q] # "writing"
  BY <1>2, TaskLabels DEF At
<1>4. ASSUME NEW c \in Commands
      PROVE  RecordOf(c)'
  <2>1. Good(c, rows[c]) /\ rows[c] \in Record
    BY <1>1, CopyTypes DEF VerdictInv, RecordOf
  <2>2. CASE rows'[c] = rows[c] /\ (mem'[c].st = "ABSENT" \/ mem'[c] = rows[c])
    <3>1. Good(c, rows[c])' /\ Good(c, mem[c])'
      BY <1>1, <2>1, <2>2, AttemptsKept DEF Good
    <3> QED
      BY <2>2, <3>1, StateFacts DEF RecordOf
  <2>3. CASE /\ rows[c].st \in Running /\ mem'[c] = rows'[c]
             /\ rows'[c].st = "OUTCOME_UNKNOWN" /\ rows'[c].by = rows[c].by
    <3>1. PICK q \in Attempts : q = rows[c].by /\ IsAdmitted(q) /\ Cmd(q) = c
      BY <2>3, Creator, StateFacts
    <3>2. IsAdmitted(q)' /\ Cmd(q)' = c /\ At(q)' \notin ToGo
      BY <1>1, <1>3, <3>1, AttemptsKept
    <3>3. Good(c, rows[c])'
      BY <2>3, <3>1, <3>2 DEF Good, Honest
    <3>4. Good(c, mem[c])'
      BY <2>3, <3>1, <3>2 DEF Good, Honest
    <3> QED
      BY <2>3, <3>3, <3>4, StateFacts DEF RecordOf
  <2> QED
    BY <2>2, <2>3 DEF StartStep
<1>5. \A q \in Attempts : CertOf(q)' /\ HoldOf(q)'
  BY <1>1, <1>3, AttemptsKept DEF HoldOf, taskVars
<1>6. \A x \in Reviews : ~UnderReview(x)'
  BY <1>1, <1>2 DEF UnderReview
<1>7. PhaseInv'
  BY <1>1, <1>2, <1>6 DEF PhaseInv, StartStep, taskVars
<1> QED
  BY <1>4, <1>5, <1>6, <1>7 DEF VerdictInv, ReviewOf

\* A step that changes nothing the invariant speaks of, as a stop while no call
\* is inside.
IdleStep ==
  /\ UNCHANGED <<rows, mem, taskVars, req, cert, sent, rv>>
  /\ Up' = Up

LEMMA IdleStepInv ==
  ASSUME Inv, TypeInv', IdleStep
  PROVE  VerdictInv'
<1>1. \A c \in Commands : RecordOf(c)'
  BY AttemptsKept, RecordKept DEF IdleStep, Sheds
<1>2. \A q \in Attempts : CertOf(q)' /\ HoldOf(q)'
  BY AttemptsKept, HoldRest DEF IdleStep
<1>3. \A x \in Reviews : ReviewOf(x)'
  BY DEF Inv, VerdictInv, IdleStep, ReviewOf, UnderReview, At, taskVars
<1>4. PhaseInv'
  BY DEF Inv, VerdictInv, IdleStep, PhaseInv, UnderReview, taskVars
<1> QED
  BY <1>1, <1>2, <1>3, <1>4 DEF VerdictInv

-------------------------------------------------------------------------------
(* Which action is of which kind *)

LEMMA PrunedSheds ==
  ASSUME NEW m, NEW n, NEW p \in Pruned(m, n), NEW c \in Commands
  PROVE  Sheds(p[c], m[c])
  BY StateFacts DEF Pruned, Without, Deletable, Sheds

LEMMA EvictionsShed ==
  ASSUME NEW m, NEW p \in Evictions(m), NEW c \in Commands
  PROVE  Sheds(p[c], m[c])
  BY PrunedSheds DEF Evictions

LEMMA StepOthers ==
  ASSUME TypeInv, NEW r \in Attempts, NEW p, Goto(r, p) \/ Leave(r, p),
         UNCHANGED <<req, cert, sent>>
  PROVE  Others(r) /\ pc'[r] = p
  BY DEF Goto, Leave, Others, TypeInv, TypeOK

LEMMA WriteOthers ==
  ASSUME TypeInv, NEW r \in Attempts, NEW s, NEW rec, NEW p, Write(r, s, rec, p),
         UNCHANGED <<req, cert, sent>>
  PROVE  Others(r) /\ pc'[r] = "writing" /\ then'[r] = p /\ snap'[r] = rec
  BY DEF Write, Others, TypeInv, TypeOK

LEMMA CallLabels ==
  /\ Calling \cap Admitted = {} /\ Answered \cap Admitted = {} /\ "idle" \notin Admitted
  /\ {"ready", "checked", "unavailable", "blocked", "replayed", "conflict",
      "exhausted", "raised"} \subseteq Calling \cup Answered
  BY DEF Calling, Answered, Admitted, Live, Over

LEMMA CallKind ==
  ASSUME Inv, NEW r \in Attempts,
         Arrive(r) \/ CheckUnresolved(r) \/ ReplayCommand(r)
  PROVE  CallStep(r)
<1>1. CASE Arrive(r)
  <2>1. PICK q \in Requests :
          /\ req' = [req EXCEPT ![r] = q]
          /\ pc' = [pc EXCEPT ![r] = IF ~WriteReady THEN "unavailable"
                                     ELSE IF q.key = None THEN "checked"
                                     ELSE "ready"]
    BY <1>1 DEF Arrive
  <2>2. pc[r] = "idle" /\ Up /\ UNCHANGED <<rows, mem, then, snap, cert, sent, rv, phase>>
    BY <1>1 DEF Arrive, Up, ledgerVars
  <2>3. pc'[r] \in {"unavailable", "checked", "ready"}
    BY <2>1 DEF Inv, TypeInv, TypeOK
  <2>4. Others(r)
    BY <2>1, <2>2 DEF Others, Inv, TypeInv, TypeOK
  <2> QED
    BY <2>2, <2>3, <2>4, CallLabels DEF CallStep, Sheds
<1>2. CASE CheckUnresolved(r)
  <2>1. PICK p \in {"blocked", "checked"} : Goto(r, p)
    BY <1>2 DEF CheckUnresolved
  <2>2. /\ pc[r] = "ready" /\ Up
        /\ UNCHANGED <<rows, mem, then, snap, req, cert, sent, rv, phase>>
    BY <1>2 DEF CheckUnresolved, Goto, ledgerVars
  <2>3. Others(r) /\ pc'[r] = p
    BY <2>1, <2>2, StepOthers DEF Inv
  <2> QED
    BY <2>1, <2>2, <2>3, CallLabels DEF CallStep, Sheds
<1>3. CASE ReplayCommand(r)
  <2>1. /\ pc[r] = "checked" /\ Up /\ Goto(r, "replayed")
        /\ UNCHANGED <<rows, then, snap, req, cert, sent, rv, phase>>
    BY <1>3 DEF ReplayCommand, Goto, ledgerVars
  <2>2. Others(r) /\ pc'[r] = "replayed"
    BY <2>1, StepOthers DEF Inv
  <2>3. ASSUME NEW c \in Commands
        PROVE  Sheds(mem'[c], mem[c]) \/ (mem[c].st = "ABSENT" /\ mem'[c] = rows[c])
    <3>1. CASE UNCHANGED mem
      BY <3>1 DEF Sheds
    <3>2. CASE /\ mem[Cmd(r)].st = "ABSENT"
               /\ mem' \in Evictions([mem EXCEPT ![Cmd(r)] = rows[Cmd(r)]])
      <4> DEFINE m == [mem EXCEPT ![Cmd(r)] = rows[Cmd(r)]]
      <4>1. m[c] = IF c = Cmd(r) THEN rows[c] ELSE mem[c]
        BY DEF Inv, TypeInv, TypeOK
      <4>2. Sheds(mem'[c], m[c])
        BY <3>2, EvictionsShed
      <4> HIDE DEF m
      <4>3. CASE c = Cmd(r)
        BY <3>2, <4>1, <4>2, <4>3, StateFacts DEF Sheds
      <4>4. CASE c # Cmd(r)
        BY <4>1, <4>2, <4>4
      <4> QED
        BY <4>3, <4>4
    <3> QED
      BY <1>3, <3>1, <3>2 DEF ReplayCommand
  <2> QED
    BY <2>1, <2>2, <2>3, CallLabels DEF CallStep
<1> QED
  BY <1>1, <1>2, <1>3

LEMMA ReplayKeyKind ==
  ASSUME Inv, NEW r \in Attempts, NEW expired, ReplayKey(r, expired)
  PROVE  CallStep(r)
<1> DEFINE first == dedup[req[r].key]
<1>1. /\ pc[r] = "checked" /\ Up /\ rows[Cmd(r)].st = "ABSENT" /\ req[r].key # None
      /\ UNCHANGED <<rows, req, cert, sent, rv, phase>>
  BY DEF ReplayKey, NewCommand
<1>2. PICK p \in {"conflict", "raised", "replayed"} : Goto(r, p)
  BY DEF ReplayKey
<1>3. Others(r) /\ pc'[r] = p /\ UNCHANGED <<then, snap>>
  BY <1>1, <1>2, StepOthers DEF Inv, Goto
<1>4. req[r] \in Requests /\ req[r].key \in Keys
  BY <1>1, RequestType DEF Inv
<1>5. \/ UNCHANGED mem
      \/ rows[first.cmd].st # "ABSENT" /\ mem' = [mem EXCEPT ![first.cmd] = rows[first.cmd]]
  BY DEF ReplayKey
<1>6. ASSUME NEW c \in Commands
      PROVE  \/ mem'[c] = mem[c]
             \/ c = first.cmd /\ c # Cmd(r) /\ mem'[c] = rows[c]
  BY <1>1, <1>5 DEF Inv, TypeInv, TypeOK
<1> QED
  BY <1>1, <1>2, <1>3, <1>4, <1>6, CallLabels DEF CallStep, Sheds

LEMMA AdmitUnkeyedKind ==
  ASSUME Inv, NEW r \in Attempts, AdmitUnkeyed(r)
  PROVE  AdmitStep(r)
<1>1. /\ pc[r] = "checked" /\ Up /\ Goto(r, "admitted")
      /\ mem[Cmd(r)].st = "ABSENT" /\ rows[Cmd(r)].st = "ABSENT"
      /\ UNCHANGED <<req, cert, rv, phase, sent>>
  BY DEF AdmitUnkeyed, NewCommand
<1>2. /\ Others(r) /\ pc'[r] = "admitted" /\ UNCHANGED <<then, snap>>
      /\ Cmd(r) \in Commands
  BY <1>1, StepOthers, RequestType DEF Inv, Goto
<1>3. Issued(r).st = "ISSUED" /\ "ISSUED" \in Stands
  BY StateFacts DEF Issued, Running
<1>4. \A c \in Commands : Sheds(rows'[c], [rows EXCEPT ![Cmd(r)] = Issued(r)][c])
  BY PrunedSheds DEF AdmitUnkeyed, Insert
<1>5. \A c \in Commands : Sheds(mem'[c], [mem EXCEPT ![Cmd(r)] = Issued(r)][c])
  BY EvictionsShed DEF AdmitUnkeyed
<1>6. /\ [rows EXCEPT ![Cmd(r)] = Issued(r)][Cmd(r)] = Issued(r)
      /\ [mem EXCEPT ![Cmd(r)] = Issued(r)][Cmd(r)] = Issued(r)
      /\ \A c \in Commands \ {Cmd(r)} :
           /\ [rows EXCEPT ![Cmd(r)] = Issued(r)][c] = rows[c]
           /\ [mem EXCEPT ![Cmd(r)] = Issued(r)][c] = mem[c]
  BY <1>2 DEF Inv, TypeInv, TypeOK, LedgerTypeOK
<1>7. mem'[Cmd(r)] = Issued(r) /\ rows'[Cmd(r)] = Issued(r)
  BY <1>2, <1>3, <1>4, <1>5, <1>6 DEF Sheds
<1>8. \A c \in Commands \ {Cmd(r)} : Sheds(mem'[c], mem[c]) /\ Sheds(rows'[c], rows[c])
  BY <1>4, <1>5, <1>6
<1> QED
  BY <1>1, <1>2, <1>7, <1>8, CallLabels DEF AdmitStep

LEMMA AdmitKeyedKind ==
  ASSUME Inv, NEW r \in Attempts, NEW expired, AdmitKeyed(r, expired)
  PROVE  AdmitStep(r) \/ CallStep(r)
<1>1. /\ pc[r] = "checked" /\ Up
      /\ mem[Cmd(r)].st = "ABSENT" /\ rows[Cmd(r)].st = "ABSENT"
      /\ UNCHANGED <<req, cert, rv, phase, sent>> /\ Cmd(r) \in Commands
  BY RequestType DEF AdmitKeyed, NewCommand, Inv
<1>2. CASE /\ InsertWithDedup(Cmd(r), Issued(r), req[r].key, req[r].hash, expired)
           /\ mem' \in Evictions([mem EXCEPT ![Cmd(r)] = Issued(r)])
           /\ Goto(r, "admitted")
  <2>1. Others(r) /\ pc'[r] = "admitted" /\ UNCHANGED <<then, snap>>
    BY <1>1, <1>2, StepOthers DEF Inv, Goto
  <2>2. Issued(r).st = "ISSUED" /\ "ISSUED" \in Stands
    BY StateFacts DEF Issued, Running
  <2>3. PICK m \in Pruned(rows, IF LedgerFull THEN 1 ELSE 0) :
          rows' = [m EXCEPT ![Cmd(r)] = Issued(r)]
    BY <1>2 DEF InsertWithDedup
  <2>4. DOMAIN m = Commands /\ \A c \in Commands : Sheds(m[c], rows[c])
    BY PrunedSheds DEF Pruned, Without
  <2>5. rows'[Cmd(r)] = Issued(r) /\ \A c \in Commands \ {Cmd(r)} : Sheds(rows'[c], rows[c])
    BY <1>1, <2>3, <2>4
  <2>6. \A c \in Commands : Sheds(mem'[c], [mem EXCEPT ![Cmd(r)] = Issued(r)][c])
    BY <1>2, EvictionsShed
  <2>7. /\ [mem EXCEPT ![Cmd(r)] = Issued(r)][Cmd(r)] = Issued(r)
        /\ \A c \in Commands \ {Cmd(r)} : [mem EXCEPT ![Cmd(r)] = Issued(r)][c] = mem[c]
    BY <1>1 DEF Inv, TypeInv, TypeOK
  <2>8. mem'[Cmd(r)] = Issued(r) /\ \A c \in Commands \ {Cmd(r)} : Sheds(mem'[c], mem[c])
    BY <1>1, <2>2, <2>6, <2>7 DEF Sheds
  <2> QED
    BY <1>1, <2>1, <2>5, <2>8, CallLabels DEF AdmitStep
<1>3. CASE Goto(r, "exhausted") /\ UNCHANGED <<ledgerVars, mem>>
  <2>1. Others(r) /\ pc'[r] = "exhausted" /\ UNCHANGED <<then, snap, rows, mem>>
    BY <1>1, <1>3, StepOthers DEF Inv, Goto, ledgerVars
  <2> QED
    BY <1>1, <2>1, CallLabels DEF CallStep, Sheds
<1> QED
  BY <1>2, <1>3 DEF AdmitKeyed

\* What a task with a transition to make can rely on.
LEMMA Holding ==
  ASSUME Inv, NEW r \in Attempts, pc[r] \in ToGo
  PROVE  /\ IsAdmitted(r) /\ At(r) = pc[r] /\ CertOf(r) /\ Cmd(r) \in Commands
         /\ mem[Cmd(r)] \in Record /\ mem[Cmd(r)].by = r /\ mem[Cmd(r)].st \in Running
         /\ pc[r] \in Unsent => r \notin sent /\ cert[r] = "none"
<1>1. IsAdmitted(r) /\ At(r) = pc[r]
  BY TaskLabels DEF IsAdmitted, At
<1>2. CertOf(r) /\ HoldOf(r)
  BY DEF Inv, VerdictInv
<1> QED
  BY <1>1, <1>2, HeldType DEF Inv, OnceInv, HoldOf, CertOf

\* A transition of a task: the state is the new one, since the command is not
\* settled, and the copy is what the cache holds.
LEMMA TransitionKind ==
  ASSUME Inv, NEW r \in Attempts, Up, pc[r] \in ToGo, NEW s,
         NEW st \in Running \cup Terminal, NEW p \in ToGo \cup {"evict"},
         st \in Terminal <=> p = "evict", Transition(r, s, st, p),
         UNCHANGED <<ledgerVars, req, cert, sent, rv, phase>>,
         p \in Unsent => cert[r] = "none",
         p \in {"applied", "awaiting", "observing"} => cert[r] = "APPLIED",
         Honest(r, st)
  PROVE  TaskStep(r)
<1> DEFINE old == mem[Cmd(r)]
           new == [old EXCEPT !.rev = @ + 1,
                     !.st = IF old.st \in Terminal THEN old.st ELSE st]
<1>1. mem' = [mem EXCEPT ![Cmd(r)] = new] /\ Write(r, s, new, p)
  BY DEF Transition
<1>2. Cmd(r) \in Commands /\ CertOf(r) /\ old \in Record /\ old.by = r /\ old.st \in Running
  BY Holding
<1>3. new.by = r /\ new.st = st
  BY <1>2, StateFacts DEF Record
<1> HIDE DEF new
<1>4. Others(r) /\ pc'[r] = "writing" /\ then'[r] = p /\ snap'[r] = new
  BY <1>1, WriteOthers DEF Inv
<1>5. mem'[Cmd(r)] = new /\ \A c \in Commands \ {Cmd(r)} : mem'[c] = mem[c]
  BY <1>1, <1>2 DEF Inv, TypeInv, TypeOK
<1>6. CertOf(r)'
  BY <1>2, <1>4, LabelFacts DEF CertOf, At, IsAdmitted
<1>7. Honest(r, snap[r].st)'
  BY <1>3, <1>4 DEF Honest
<1> QED
  BY <1>3, <1>4, <1>5, <1>6, <1>7, StateFacts DEF TaskStep, ledgerVars

\* A task moves on without a transition.
LEMMA MoveKind ==
  ASSUME Inv, NEW r \in Attempts, Up, pc[r] \in ToGo, pc'[r] \in ToGo, Others(r),
         UNCHANGED <<rows, mem, req, rv, phase>>, r \in sent => r \in sent',
         cert'[r] \in Certainty \ {"NOT_SENT"} => r \in sent',
         pc'[r] \in Unsent => cert'[r] = "none",
         pc'[r] \in {"applied", "awaiting", "observing"} => cert'[r] = "APPLIED"
  PROVE  TaskStep(r)
<1>1. pc'[r] # "writing" /\ pc'[r] \in Admitted
  BY TaskLabels
<1>2. CertOf(r)'
  BY <1>1 DEF CertOf, At, IsAdmitted
<1> QED
  BY <1>1, <1>2 DEF TaskStep

LEMMA TaskStates ==
  /\ {"RECEIVED", "ACCEPTED", "EXECUTING", "APPLIED"} \subseteq Running
  /\ {"EXPIRED", "REJECTED", "FAILED", "OUTCOME_UNKNOWN", "CONFIRMED"} \subseteq Terminal
  /\ {"admitted", "queued", "decide", "accepted", "executing", "clear"} = Unsent
  /\ "timed" \notin Unsent /\ "evict" \notin Unsent
  BY DEF Running, Terminal, Prunable, Unsent

LEMMA SubmitKind ==
  ASSUME Inv, NEW r \in Attempts, Submit(r)
  PROVE  TaskStep(r)
<1>1. /\ Up /\ pc[r] = "admitted" /\ pc[r] \in ToGo
      /\ UNCHANGED <<ledgerVars, rows, req, cert, sent, rv, phase>>
  BY TaskStates, TaskLabels DEF Submit, ledgerVars
<1>2. r \notin sent /\ cert[r] = "none" /\ CertOf(r)
  BY <1>1, Holding, TaskStates
<1>3. CASE Goto(r, "queued") /\ UNCHANGED mem
  <2>1. Others(r) /\ pc'[r] = "queued"
    BY <1>1, <1>3, StepOthers DEF Inv
  <2> QED
    BY <1>1, <1>2, <1>3, <2>1, MoveKind, TaskStates, TaskLabels DEF Certainty
<1>4. CASE Transition(r, "none", "REJECTED", "evict")
  <2>1. Honest(r, "REJECTED")
    BY <1>2 DEF Honest
  <2> QED
    BY <1>1, <1>2, <1>4, <2>1, TransitionKind, TaskStates, TaskLabels
<1> QED
  BY <1>3, <1>4 DEF Submit

LEMMA EarlyKind ==
  ASSUME Inv, NEW r \in Attempts, Receive(r) \/ Decide(r) \/ Execute(r)
  PROVE  TaskStep(r)
<1>1. /\ Up /\ pc[r] \in {"queued", "decide", "accepted"}
      /\ UNCHANGED <<ledgerVars, req, cert, sent, rv, phase>>
  BY DEF Receive, Decide, Execute
<1>2. pc[r] \in ToGo /\ r \notin sent /\ cert[r] = "none"
  BY <1>1, Holding, TaskStates, TaskLabels
<1>3. PICK st, p : /\ Transition(r, "work", st, p)
                   /\ <<st, p>> \in {<<"RECEIVED", "decide">>, <<"EXPIRED", "evict">>,
                                     <<"REJECTED", "evict">>, <<"ACCEPTED", "accepted">>,
                                     <<"EXECUTING", "executing">>}
  BY DEF Receive, Decide, Execute
<1>4. /\ st \in Running \cup Terminal /\ p \in ToGo \cup {"evict"}
      /\ st \in Terminal <=> p = "evict"
      /\ p \notin {"applied", "awaiting", "observing"}
      /\ st \notin {"CONFIRMED", "FAILED"}
  BY <1>3, TaskStates, TaskLabels, StateFacts
<1>5. Honest(r, st)
  BY <1>2, <1>4 DEF Honest
<1> QED
  BY <1>1, <1>2, <1>3, <1>4, <1>5, TransitionKind

LEMMA LateKind ==
  ASSUME Inv, NEW r \in Attempts,
         \/ Conclude(r) \/ Observe(r)
         \/ ScheduleFeedback(r) /\ Transition(r, "work", "OUTCOME_UNKNOWN", "evict")
  PROVE  TaskStep(r)
<1>1. /\ Up /\ pc[r] \in {"timed", "observing", "applied"}
      /\ UNCHANGED <<ledgerVars, req, cert, sent, rv, phase>>
  BY DEF Conclude, Observe, ScheduleFeedback
<1>2. pc[r] \in ToGo /\ CertOf(r) /\ At(r) = pc[r]
  BY <1>1, Holding, TaskLabels
<1>3. PICK s, st, p :
        /\ Transition(r, s, st, p)
        /\ \/ st = "FAILED" /\ p = "evict" /\ cert[r] \in {"NOT_SENT", "REJECTED", "APPLIED"}
           \/ st = "OUTCOME_UNKNOWN" /\ p = "evict"
           \/ st = "APPLIED" /\ p = "applied" /\ cert[r] = "APPLIED"
           \/ st = "CONFIRMED" /\ p = "evict" /\ cert[r] = "APPLIED"
  <2>1. CASE Conclude(r)
    BY <2>1 DEF Conclude
  <2>2. CASE Observe(r)
    <3>1. cert[r] = "APPLIED"
      BY <1>2, <2>2 DEF Observe, CertOf
    <3>2. PICK st \in {"CONFIRMED", "FAILED", "OUTCOME_UNKNOWN"} :
            Transition(r, "feedback", st, "evict")
      BY <2>2 DEF Observe
    <3> QED
      BY <3>1, <3>2
  <2> QED
    BY <2>1, <2>2
<1>4. /\ st \in Running \cup Terminal /\ p \in ToGo \cup {"evict"} /\ p \notin Unsent
      /\ st \in Terminal <=> p = "evict"
      /\ p \in {"applied", "awaiting", "observing"} => cert[r] = "APPLIED"
  BY <1>3, TaskStates, TaskLabels, StateFacts
<1>5. Honest(r, st)
  BY <1>2, <1>3 DEF Honest, CertOf, Certainty
<1> QED
  BY <1>1, <1>2, <1>3, <1>4, <1>5, TransitionKind

LEMMA RecordDeliveryKind ==
  ASSUME Inv, NEW r \in Attempts, RecordDelivery(r)
  PROVE  TaskStep(r)
<1>1. /\ Up /\ pc[r] \in ToGo /\ UNCHANGED <<rows, mem, req, cert, sent, rv, phase>>
      /\ Write(r, "work", mem[Cmd(r)], "timed")
  BY TaskLabels DEF RecordDelivery, ledgerVars
<1>2. CertOf(r) /\ mem[Cmd(r)].by = r /\ mem[Cmd(r)].st \in Running
  BY <1>1, Holding
<1>3. Others(r) /\ pc'[r] = "writing" /\ then'[r] = "timed" /\ snap'[r] = mem[Cmd(r)]
  BY <1>1, WriteOthers DEF Inv
<1>4. CertOf(r)'
  BY <1>1, <1>2, <1>3, LabelFacts DEF CertOf, At, IsAdmitted
<1> QED
  BY <1>1, <1>2, <1>3, <1>4, TaskLabels, StateFacts DEF TaskStep

LEMMA MovesKind ==
  ASSUME Inv, NEW r \in Attempts,
         \/ CheckQuarantine(r) \/ Deliver(r) \/ StartObserving(r)
         \/ ScheduleFeedback(r) /\ Leave(r, "awaiting") /\ UNCHANGED mem
  PROVE  TaskStep(r)
<1>1. /\ Up /\ pc[r] \in {"executing", "clear", "awaiting", "applied"} /\ pc[r] \in ToGo
      /\ UNCHANGED <<rows, mem, req, rv, phase>>
  BY TaskStates, TaskLabels
  DEF CheckQuarantine, Deliver, StartObserving, ScheduleFeedback, ledgerVars
<1>2. CertOf(r) /\ At(r) = pc[r] /\ (pc[r] \in Unsent => r \notin sent /\ cert[r] = "none")
  BY <1>1, Holding
<1>3. CASE CheckQuarantine(r)
  <2>1. PICK p \in {"returned", "clear"} :
          /\ Goto(r, p) /\ sent' = sent
          /\ p = "clear" => cert' = cert
          /\ p = "returned" => cert' = [cert EXCEPT ![r] = "NOT_SENT"]
    BY <1>3 DEF CheckQuarantine
  <2>2. cert[r] = "none"
    BY <1>2, <1>3, TaskStates DEF CheckQuarantine
  <2>3. pc'[r] = p /\ Others(r)
    BY <1>1, <2>1 DEF Inv, TypeInv, TypeOK, Others, Goto
  <2>4. p = "clear" => cert'[r] = "none"
    BY <2>1, <2>2
  <2>5. p = "returned" => cert'[r] = "NOT_SENT"
    BY <2>1 DEF Inv, TypeInv, TypeOK
  <2> QED
    BY <1>1, <2>1, <2>3, <2>4, <2>5, MoveKind, TaskStates, TaskLabels DEF Certainty
<1>4. CASE Deliver(r)
  <2>1. Goto(r, "returned") /\ sent' = sent \cup {r} /\ \E d : cert' = [cert EXCEPT ![r] = d]
    BY <1>4 DEF Deliver
  <2>2. pc'[r] = "returned" /\ Others(r) /\ r \in sent'
    BY <1>1, <2>1 DEF Inv, TypeInv, TypeOK, Others, Goto
  <2> QED
    BY <1>1, <2>1, <2>2, MoveKind, TaskStates, TaskLabels
<1>5. CASE StartObserving(r)
  <2>1. /\ pc' = [pc EXCEPT ![r] = "observing"] /\ pc[r] = "awaiting"
        /\ UNCHANGED <<then, snap, req, cert, sent>>
    BY <1>5 DEF StartObserving
  <2>2. pc'[r] = "observing" /\ Others(r)
    BY <2>1 DEF Inv, TypeInv, TypeOK, Others
  <2>3. cert[r] = "APPLIED" /\ r \in sent
    BY <1>2, <2>1 DEF CertOf, Certainty
  <2> QED
    BY <1>1, <2>1, <2>2, <2>3, MoveKind, TaskStates, TaskLabels
<1>6. CASE ScheduleFeedback(r) /\ Leave(r, "awaiting") /\ UNCHANGED mem
  <2>1. pc[r] = "applied" /\ UNCHANGED <<req, cert, sent>>
    BY <1>6 DEF ScheduleFeedback
  <2>2. pc'[r] = "awaiting" /\ Others(r)
    BY <1>6, <2>1, StepOthers DEF Inv
  <2>3. cert[r] = "APPLIED" /\ r \in sent
    BY <1>2, <2>1 DEF CertOf, Certainty
  <2> QED
    BY <1>1, <2>1, <2>2, <2>3, MoveKind, TaskStates, TaskLabels
<1> QED
  BY <1>3, <1>4, <1>5, <1>6

LEMMA PersistKind ==
  ASSUME Inv, NEW r \in Attempts, Persist(r)
  PROVE  PersistStep(r)
<1>1. /\ Up /\ pc[r] = "writing" /\ rows' = [rows EXCEPT ![Cmd(r)] = snap[r]]
      /\ pc' = [pc EXCEPT ![r] = then[r]] /\ then' = [then EXCEPT ![r] = "none"]
      /\ snap' = [snap EXCEPT ![r] = Absent]
      /\ UNCHANGED <<mem, req, cert, sent, rv, phase>>
  BY DEF Persist, Update
<1>2. Cmd(r) \in Commands
  BY <1>1, RequestType DEF Inv
<1>3. Others(r) /\ pc'[r] = then[r]
  BY <1>1 DEF Others, Inv, TypeInv, TypeOK
<1>4. rows'[Cmd(r)] = snap[r] /\ \A c \in Commands \ {Cmd(r)} : rows'[c] = rows[c]
  BY <1>1, <1>2 DEF Inv, TypeInv, TypeOK, LedgerTypeOK
<1> QED
  BY <1>1, <1>3, <1>4 DEF PersistStep

LEMMA EndKind ==
  ASSUME Inv, NEW r \in Attempts, PersistFails(r) \/ Evict(r)
  PROVE  EndStep(r)
<1>1. Up /\ UNCHANGED <<rows, req, cert, sent, rv, phase>>
  BY DEF PersistFails, Evict, ledgerVars
<1>2. CASE PersistFails(r)
  <2>1. Others(r) /\ pc'[r] = "abandoned" /\ UNCHANGED mem
    BY <1>1, <1>2, StepOthers DEF PersistFails, Inv
  <2> QED
    BY <1>1, <1>2, <2>1 DEF PersistFails, EndStep, Sheds, Over
<1>3. CASE Evict(r)
  <2>1. Others(r) /\ pc'[r] = "done" /\ pc[r] = "evict"
    BY <1>1, <1>3, StepOthers DEF Evict, Inv
  <2>2. \A c \in Commands : Sheds(mem'[c], mem[c])
    BY <1>3, EvictionsShed DEF Evict
  <2> QED
    BY <1>1, <2>1, <2>2 DEF EndStep, Over
<1> QED
  BY <1>2, <1>3

LEMMA StartKind ==
  ASSUME Inv, Recovery
  PROVE  StartStep
<1>1. ~Up /\ \A c \in Commands : mem[c].st = "ABSENT" \/ mem[c] = rows[c]
  BY DEF Recovery, Restart, Recover, Recovered, Up, Inv, VerdictInv, PhaseInv
<1>2. UNCHANGED <<taskVars, req, cert, sent, rv>>
  BY DEF Recovery, Restart, Recover, Recovered
<1>3. CASE Restart
  BY <1>1, <1>2, <1>3 DEF Restart, StartStep, ledgerVars, Absent
<1>4. ASSUME NEW c \in Commands, Recover(c)
      PROVE  StartStep
  <2> DEFINE new == [rows[c] EXCEPT !.st = "OUTCOME_UNKNOWN", !.rev = @ + 1]
  <2>1. /\ rows[c].st \in Running /\ rows' = [rows EXCEPT ![c] = new]
        /\ mem' = [mem EXCEPT ![c] = new]
    BY <1>4 DEF Recover, Update, NonTerminal
  <2>2. new.st = "OUTCOME_UNKNOWN" /\ new.by = rows[c].by
    BY CopyTypes DEF Inv, Record
  <2> HIDE DEF new
  <2>3. rows'[c] = new /\ mem'[c] = new
    BY <2>1 DEF Inv, TypeInv, TypeOK, LedgerTypeOK
  <2>4. \A d \in Commands \ {c} : rows'[d] = rows[d] /\ mem'[d] = mem[d]
    BY <2>1 DEF Inv, TypeInv, TypeOK, LedgerTypeOK
  <2> QED
    BY <1>1, <1>2, <2>1, <2>2, <2>3, <2>4 DEF StartStep
<1>5. CASE Recovered
  <2>1. rows' = rows /\ \A c \in Commands : Sheds(mem'[c], mem[c])
    BY <1>5, EvictionsShed DEF Recovered, ledgerVars
  <2> QED
    BY <1>1, <1>2, <2>1 DEF StartStep, Sheds, Absent
<1> QED
  BY <1>3, <1>4, <1>5 DEF Recovery

LEMMA IdleKind ==
  ASSUME Stop \/ UNCHANGED vars
  PROVE  IdleStep
  BY DEF Stop, vars, ledgerVars, IdleStep, Up

\* Every step is of one of the kinds.
LEMMA VerdictKinds ==
  ASSUME Inv, [Next]_vars
  PROVE  \/ \E r \in Attempts : \/ CallStep(r) \/ AdmitStep(r) \/ TaskStep(r)
                               \/ PersistStep(r) \/ EndStep(r)
         \/ \E x \in Reviews : RecordReview(x) \/ AppendEvidence(x) \/ PersistEvidence(x)
         \/ Vanish \/ StartStep \/ IdleStep
<1>1. ASSUME NEW r \in Attempts, Arrive(r) \/ Handle(r)
      PROVE  CallStep(r) \/ AdmitStep(r) \/ TaskStep(r)
  BY <1>1, CallKind, ReplayKeyKind, AdmitUnkeyedKind, AdmitKeyedKind, SubmitKind
  DEF Handle, Admission
<1>2. ASSUME NEW r \in Attempts, ScheduleFeedback(r)
      PROVE  TaskStep(r)
  BY <1>2, LateKind, MovesKind DEF ScheduleFeedback
<1>3. ASSUME NEW r \in Attempts, Task(r) \/ Persist(r) \/ PersistFails(r)
      PROVE  TaskStep(r) \/ PersistStep(r) \/ EndStep(r)
  BY <1>2, <1>3, EarlyKind, LateKind, RecordDeliveryKind, MovesKind, PersistKind, EndKind
  DEF Task
<1>4. Crash \/ Stopped => Vanish
  BY DEF Crash, Stopped
<1> QED
  BY <1>1, <1>3, <1>4, StartKind, IdleKind DEF Next, Review

LEMMA VerdictStep ==
  ASSUME Inv, [Next]_vars
  PROVE  Inv'
<1>1. TypeInv' /\ OnceInv'
  BY StepType, OnceStep DEF Inv
<1>2. VerdictInv'
  BY <1>1, VerdictKinds, CallStepInv, AdmitStepInv, TaskStepInv, PersistStepInv,
     EndStepInv, RecordReviewInv, AppendEvidenceInv, PersistEvidenceInv, VanishInv,
     StartStepInv, IdleStepInv
<1> QED
  BY <1>1, <1>2 DEF Inv

LEMMA VerdictInit == Init => Inv
<1> SUFFICES ASSUME Init PROVE Inv
  OBVIOUS
<1>1. \A r \in Attempts : CertOf(r) /\ HoldOf(r)
  BY TaskLabels DEF Init, CertOf, HoldOf, At, Certainty
<1>2. \A c \in Commands : RecordOf(c)
  BY StateFacts DEF Init, LedgerInit, RecordOf, Good, Absent
<1>3. \A x \in Reviews : ReviewOf(x)
  BY DEF Init, ReviewOf, UnderReview, ReviewIdle
<1>4. PhaseInv
  BY DEF Init, PhaseInv, Up
<1> QED
  BY <1>1, <1>2, <1>3, <1>4, InitType, OnceInit DEF Inv, VerdictInv

LEMMA VerdictInvariant == Spec => []Inv
  BY VerdictInit, VerdictStep, PTL DEF Spec

\* A durable verdict never says more than the field did: whatever interleaves
\* between a transition and the write of its copy, reviews that write stale
\* copies included, and whenever the process dies.
THEOREM VerdictsHonest == Spec => []VerdictHonest
<1>1. Inv => VerdictHonest
  <2> SUFFICES ASSUME Inv, NEW r \in Attempts, req[r] # None, rows[Cmd(r)].by = r
               PROVE  LET st == rows[Cmd(r)].st IN
                      /\ st \in {"REJECTED", "EXPIRED"} => r \notin sent
                      /\ st = "CONFIRMED" => r \in sent /\ cert[r] = "APPLIED"
                      /\ st = "FAILED" => cert[r] \in {"NOT_SENT", "REJECTED", "APPLIED"}
                      /\ cert[r] = "POSSIBLY_APPLIED" => st \notin Prunable
    BY DEF VerdictHonest
  <2>1. Cmd(r) \in Commands
    BY LifecycleAssumption DEF Inv, TypeInv, TypeOK, Cmd
  <2>2. rows[Cmd(r)].st \in Prunable => Honest(r, rows[Cmd(r)].st)
    BY <2>1, StateFacts DEF Inv, VerdictInv, RecordOf, Good
  <2> QED
    BY <2>2 DEF Honest, Prunable
<1> QED
  BY <1>1, VerdictInvariant, PTL

\* commands_.at and the ledger's update never miss: as long as a task has a
\* transition to make or to persist, neither the cache nor the ledger loses its
\* command to a prune, to another attempt or to a verdict.
THEOREM CommandHeld == Spec => []TaskHoldsCommand
<1>1. Inv => TaskHoldsCommand
  <2> SUFFICES ASSUME Inv, NEW r \in Attempts
               PROVE  /\ Pending(r) => mem[Cmd(r)].by = r /\ mem[Cmd(r)].st \notin Terminal
                      /\ Pending(r) \/ pc[r] = "writing" => rows[Cmd(r)].by = r
    BY DEF TaskHoldsCommand
  <2>1. Pending(r) => At(r) \in ToGo
    BY TaskLabels DEF Pending, At, Inv, TypeInv, TaskInv, ToGo
  <2> QED
    BY <2>1, StateFacts DEF Inv, VerdictInv, HoldOf
<1> QED
  BY <1>1, VerdictInvariant, PTL

\* An unknown outcome leaves the ledger by no step: neither a prune that makes
\* room, nor a new command, nor the recovery of a start takes its row.
THEOREM UnknownStays == Spec => UnknownKept
<1> DEFINE Kept == \A c \in Commands : rows[c].st = "OUTCOME_UNKNOWN"
                                       => rows'[c].by = rows[c].by
<1>1. Inv /\ [Next]_vars => [Kept]_vars
  <2> SUFFICES ASSUME Inv, [Next]_vars, NEW c \in Commands, rows[c].st = "OUTCOME_UNKNOWN"
               PROVE  rows'[c].by = rows[c].by
    OBVIOUS
  <2>1. CASE UNCHANGED rows
    BY <2>1
  <2>2. ASSUME NEW r \in Attempts, AdmitStep(r)
        PROVE  rows'[c].by = rows[c].by
    BY <2>2, StateFacts DEF AdmitStep, Sheds
  <2>3. ASSUME NEW r \in Attempts, PersistStep(r)
        PROVE  rows'[c].by = rows[c].by
    <3>1. snap[r].by = r /\ rows[Cmd(r)].by = r
      BY <2>3 DEF PersistStep, Inv, VerdictInv, HoldOf
    <3> QED
      BY <2>3, <3>1 DEF PersistStep
  <2>4. ASSUME NEW x \in Reviews, PersistEvidence(x)
        PROVE  rows'[c].by = rows[c].by
    <3>1. rv[x].snap.by = rows[rv[x].cmd].by
      BY <2>4 DEF PersistEvidence, Inv, VerdictInv, ReviewOf, UnderReview
    <3>2. rows' = [rows EXCEPT ![rv[x].cmd] = rv[x].snap]
      BY <2>4 DEF PersistEvidence, Update
    <3> QED
      BY <3>1, <3>2 DEF Inv, TypeInv, TypeOK, LedgerTypeOK
  <2>5. CASE StartStep
    BY <2>5, StateFacts DEF StartStep
  <2>6. ASSUME NEW r \in Attempts, CallStep(r) \/ TaskStep(r) \/ EndStep(r)
        PROVE  UNCHANGED rows
    BY <2>6 DEF CallStep, TaskStep, EndStep
  <2>7. ASSUME NEW x \in Reviews, RecordReview(x) \/ AppendEvidence(x)
        PROVE  UNCHANGED rows
    BY <2>7 DEF RecordReview, AppendEvidence, ledgerVars
  <2>8. Vanish \/ IdleStep => UNCHANGED rows
    BY DEF Vanish, IdleStep, ledgerVars
  <2> QED
    BY <2>1, <2>2, <2>3, <2>4, <2>5, <2>6, <2>7, <2>8, VerdictKinds
<1> QED
  BY <1>1, VerdictInvariant, PTL DEF Spec, UnknownKept

-------------------------------------------------------------------------------
(* Clients that never reuse a key for another command id *)

\* What the HMI does: a new key for every new command.
KeysSteady ==
  \A q1, q2 \in Requests : q1.key # None /\ q1.key = q2.key => q1.cmd = q2.cmd

\* A dedup row names a command that was requested under its key.
DedupInv ==
  \A k \in Keys : dedup[k].cmd # None =>
    \E q \in Requests : q.key = k /\ q.cmd = dedup[k].cmd

\* A command under review stays unknown: no stale copy of an earlier state
\* replaces it in the cache, and the evidence is appended to that verdict.
EvidenceOf(x) ==
  UnderReview(x) =>
    /\ \/ mem[rv[x].cmd].st = "OUTCOME_UNKNOWN"
       \/ mem[rv[x].cmd].st = "ABSENT" /\ rows[rv[x].cmd].st = "OUTCOME_UNKNOWN"
    /\ rv[x].pc = "writing" => rv[x].snap.st = "OUTCOME_UNKNOWN"

\* An unknown outcome the ledger holds, or is about to, is no other in the cache.
ShownOf(c) == rows[c].st = "OUTCOME_UNKNOWN" => mem[c].st \in {"ABSENT", "OUTCOME_UNKNOWN"}

WrittenOf(r) == pc[r] = "writing" /\ snap[r].st = "OUTCOME_UNKNOWN"
                => mem[Cmd(r)].st = "OUTCOME_UNKNOWN"

SteadyInv ==
  /\ DedupInv
  /\ \A x \in Reviews : EvidenceOf(x)
  /\ \A c \in Commands : ShownOf(c)
  /\ \A r \in Attempts : WrittenOf(r)

\* A running row has a task that runs it, or that lost it to a failed write.
RunBy(c) ==
  rows[c].st \in Running =>
    \/ At(rows[c].by) \in ToGo
    \/ pc[rows[c].by] \in {"writing", "abandoned"}

OrphanInv == Up => \A c \in Commands : RunBy(c)

LEMMA DedupStep ==
  ASSUME TypeInv, DedupInv, [Next]_vars
  PROVE  DedupInv'
<1>1. CASE UNCHANGED dedup
  BY <1>1 DEF DedupInv
<1>2. ASSUME NEW gone, dedup' = Cleaned(gone)
      PROVE  DedupInv'
  BY <1>2 DEF DedupInv, Cleaned, NoDedup
<1>3. ASSUME NEW r \in Attempts, Admission(r)
      PROVE  DedupInv'
  <2>1. CASE ReplayCommand(r) \/ AdmitUnkeyed(r)
    BY <1>1, <2>1 DEF ReplayCommand, AdmitUnkeyed, Insert, ledgerVars
  <2>2. ASSUME NEW expired, ReplayKey(r, expired)
        PROVE  DedupInv'
    BY <1>2, <2>2 DEF ReplayKey
  <2>3. ASSUME NEW expired \in SUBSET Expirable, AdmitKeyed(r, expired)
        PROVE  DedupInv'
    <3>1. req[r] \in Requests
      BY <2>3, RequestType DEF AdmitKeyed, NewCommand
    <3>2. CASE InsertWithDedup(Cmd(r), Issued(r), req[r].key, req[r].hash, expired)
      <4>1. dedup' = [Cleaned(expired) EXCEPT
                        ![req[r].key] = [cmd |-> Cmd(r), hash |-> req[r].hash, by |-> Issued(r).by]]
        BY <3>2 DEF InsertWithDedup
      <4> QED
        BY <3>1, <4>1 DEF DedupInv, Cleaned, NoDedup, Cmd
    <3>3. CASE UNCHANGED ledgerVars
      BY <1>1, <3>3 DEF ledgerVars
    <3> QED
      BY <2>3, <3>2, <3>3 DEF AdmitKeyed
  <2> QED
    BY <1>3, <2>1, <2>2, <2>3 DEF Admission
<1>4. ASSUME NEW r \in Attempts,
             \/ Arrive(r) \/ CheckUnresolved(r) \/ Submit(r) \/ Task(r)
             \/ Persist(r) \/ PersistFails(r)
      PROVE  UNCHANGED dedup
  BY <1>4 DEF Arrive, CheckUnresolved, Submit, Task, Receive, Decide, Execute,
     CheckQuarantine, Deliver, RecordDelivery, Conclude, ScheduleFeedback,
     StartObserving, Observe, Evict, Persist, PersistFails, Update, ledgerVars
<1>5. ASSUME NEW x \in Reviews, RecordReview(x) \/ Review(x)
      PROVE  UNCHANGED dedup
  BY <1>5 DEF RecordReview, Review, AppendEvidence, PersistEvidence, Update, ledgerVars
<1>6. Crash \/ Stop \/ Stopped \/ Recovery => UNCHANGED dedup
  BY DEF Crash, Stop, Stopped, Vanish, Recovery, Restart, Recover, Recovered, Update,
         ledgerVars
<1>7. UNCHANGED vars => UNCHANGED dedup
  BY DEF vars, ledgerVars
<1> QED
  BY <1>1, <1>3, <1>4, <1>5, <1>6, <1>7 DEF Next, Handle

\* With steady keys a call loads nothing but a command that is not cached.
LEMMA SteadyCall ==
  ASSUME KeysSteady, DedupInv, NEW r \in Attempts, CallStep(r), NEW c \in Commands
  PROVE  Sheds(mem'[c], mem[c]) \/ (mem[c].st = "ABSENT" /\ mem'[c] = rows[c])
<1> SUFFICES ASSUME req[r] \in Requests, req[r].key \in Keys,
                    c = dedup[req[r].key].cmd, c # Cmd(r)
             PROVE  FALSE
  BY DEF CallStep
<1>1. PICK q \in Requests : q.key = req[r].key /\ q.cmd = c
  BY LedgerAssumption DEF DedupInv
<1>2. req[r].key # None
  BY LedgerAssumption
<1> QED
  BY <1>1, <1>2 DEF KeysSteady, Cmd

\* What a step leaves of the steady invariant that writes no unknown outcome, and
\* keeps, sheds or loads what is cached.
LEMMA SteadyRest ==
  ASSUME Inv, SteadyInv, NEW r \in Attempts, Others(r), UNCHANGED rv,
         ~(pc'[r] = "writing"),
         \A c \in Commands :
           \/ Sheds(mem'[c], mem[c])
           \/ mem[c].st = "ABSENT" /\ mem'[c] = rows[c],
         \A c \in Commands : rows[c].st \in Stands => rows'[c] = rows[c],
         \A c \in Commands : rows'[c].st = "OUTCOME_UNKNOWN" => rows'[c] = rows[c]
  PROVE  /\ \A x \in Reviews : EvidenceOf(x)'
         /\ \A c \in Commands : ShownOf(c)'
         /\ \A q \in Attempts : WrittenOf(q)'
<1>1. \A c \in Commands : ShownOf(c)'
  BY StateFacts DEF SteadyInv, ShownOf, Sheds, Absent
<1>2. ASSUME NEW x \in Reviews, UnderReview(x)
      PROVE  EvidenceOf(x)'
  <2>1. PICK c \in Commands : c = rv[x].cmd /\ rows[c].st \in Stands /\ EvidenceOf(x)
    BY <1>2 DEF Inv, VerdictInv, ReviewOf, SteadyInv
  <2>2. rows'[c] = rows[c]
    BY <2>1
  <2> QED
    BY <1>2, <2>1, <2>2, StateFacts DEF EvidenceOf, UnderReview, Sheds, Absent
<1>3. ASSUME NEW q \in Attempts
      PROVE  WrittenOf(q)'
  <2>1. CASE q = r
    BY <2>1 DEF WrittenOf
  <2>2. CASE q # r /\ pc[q] = "writing" /\ snap[q].st = "OUTCOME_UNKNOWN"
    <3>1. Cmd(q) \in Commands /\ mem[Cmd(q)].st = "OUTCOME_UNKNOWN"
      BY <2>2, RequestType DEF Inv, SteadyInv, WrittenOf
    <3>2. mem'[Cmd(q)].st = "OUTCOME_UNKNOWN"
      BY <3>1, StateFacts DEF Sheds
    <3> QED
      BY <2>2, <3>2 DEF WrittenOf, Others, Cmd
  <2>3. CASE q # r /\ ~(pc[q] = "writing" /\ snap[q].st = "OUTCOME_UNKNOWN")
    BY <2>3 DEF WrittenOf, Others
  <2> QED
    BY <2>1, <2>2, <2>3
<1> QED
  BY <1>1, <1>2, <1>3 DEF EvidenceOf, UnderReview

\* The steps of an attempt that neither make nor persist a verdict.
LEMMA SteadyCalls ==
  ASSUME KeysSteady, Inv, SteadyInv, NEW r \in Attempts,
         CallStep(r) \/ AdmitStep(r) \/ EndStep(r)
  PROVE  /\ \A x \in Reviews : EvidenceOf(x)'
         /\ \A c \in Commands : ShownOf(c)'
         /\ \A q \in Attempts : WrittenOf(q)'
<1>1. CASE CallStep(r)
  <2>1. pc'[r] # "writing" /\ Others(r) /\ UNCHANGED <<rows, rv>>
    BY <1>1, LabelFacts DEF CallStep
  <2>2. \A c \in Commands : \/ Sheds(mem'[c], mem[c])
                            \/ mem[c].st = "ABSENT" /\ mem'[c] = rows[c]
    BY <1>1, SteadyCall DEF SteadyInv
  <2> QED
    BY <2>1, <2>2, SteadyRest
<1>2. CASE EndStep(r)
  <2>1. /\ pc'[r] # "writing" /\ Others(r) /\ UNCHANGED <<rows, rv>>
        /\ \A c \in Commands : Sheds(mem'[c], mem[c])
    BY <1>2 DEF EndStep, Over
  <2> QED
    BY <2>1, SteadyRest
<1>3. CASE AdmitStep(r)
  <2> DEFINE a == Cmd(r)
  <2>1. /\ Others(r) /\ UNCHANGED <<req, then, snap, rv>> /\ pc'[r] = "admitted" /\ a \in Commands
        /\ mem[a].st = "ABSENT" /\ rows[a].st = "ABSENT"
        /\ mem'[a].st = "ISSUED" /\ rows'[a].st = "ISSUED"
        /\ \A c \in Commands \ {a} : Sheds(mem'[c], mem[c]) /\ Sheds(rows'[c], rows[c])
    BY <1>3 DEF AdmitStep, Issued
  <2>2. \A c \in Commands : ShownOf(c)'
    BY <2>1, StateFacts DEF SteadyInv, ShownOf, Sheds, Absent
  <2>3. ASSUME NEW x \in Reviews, UnderReview(x)
        PROVE  EvidenceOf(x)'
    <3>1. PICK c \in Commands : c = rv[x].cmd /\ rows[c].st \in Stands /\ EvidenceOf(x)
      BY <2>3 DEF Inv, VerdictInv, ReviewOf, SteadyInv
    <3>2. c # a
      BY <2>1, <3>1, StateFacts
    <3> QED
      BY <2>1, <2>3, <3>1, <3>2, StateFacts DEF EvidenceOf, UnderReview, Sheds, Absent
  <2>4. ASSUME NEW q \in Attempts
        PROVE  WrittenOf(q)'
    <3>1. CASE q = r
      BY <2>1, <3>1 DEF WrittenOf
    <3>2. CASE q # r /\ pc[q] = "writing" /\ snap[q].st = "OUTCOME_UNKNOWN"
      <4>1. Cmd(q) \in Commands /\ mem[Cmd(q)].st = "OUTCOME_UNKNOWN"
        BY <3>2, RequestType DEF Inv, SteadyInv, WrittenOf
      <4>2. mem'[Cmd(q)].st = "OUTCOME_UNKNOWN"
        BY <2>1, <4>1, StateFacts DEF Sheds
      <4> QED
        BY <3>2, <4>2, <2>1 DEF WrittenOf, Others, Cmd
    <3>3. CASE q # r /\ ~(pc[q] = "writing" /\ snap[q].st = "OUTCOME_UNKNOWN")
      BY <2>1, <3>3 DEF WrittenOf, Others
    <3> QED
      BY <3>1, <3>2, <3>3
  <2> QED
    BY <2>1, <2>2, <2>3, <2>4 DEF EvidenceOf, UnderReview
<1> QED
  BY <1>1, <1>2, <1>3

LEMMA SteadyTask ==
  ASSUME Inv, SteadyInv, NEW r \in Attempts, TaskStep(r)
  PROVE  /\ \A x \in Reviews : EvidenceOf(x)'
         /\ \A c \in Commands : ShownOf(c)'
         /\ \A q \in Attempts : WrittenOf(q)'
<1>1. /\ Others(r) /\ UNCHANGED <<rows, req, rv>> /\ pc[r] \in ToGo
      /\ \A c \in Commands \ {Cmd(r)} : mem'[c] = mem[c]
      /\ pc'[r] = "writing" => snap'[r] = mem'[Cmd(r)]
  BY TaskLabels DEF TaskStep
<1>2. Cmd(r) \in Commands /\ At(r) = pc[r] /\ rows[Cmd(r)].st \in Running /\ rows[Cmd(r)].by = r
  BY <1>1, Holding DEF Inv, VerdictInv, HoldOf
<1>3. \A c \in Commands : ShownOf(c)'
  BY <1>1, <1>2, StateFacts DEF SteadyInv, ShownOf
<1>4. ASSUME NEW x \in Reviews, UnderReview(x)
      PROVE  EvidenceOf(x)'
  <2>1. rv[x].cmd \in Commands /\ EvidenceOf(x) /\ At(rows[rv[x].cmd].by) \notin ToGo
    BY <1>4 DEF Inv, VerdictInv, ReviewOf, SteadyInv
  <2>2. mem'[rv[x].cmd] = mem[rv[x].cmd]
    BY <1>1, <1>2, <2>1
  <2> QED
    BY <1>1, <1>4, <2>1, <2>2 DEF EvidenceOf, UnderReview
<1>5. ASSUME NEW q \in Attempts
      PROVE  WrittenOf(q)'
  <2>1. CASE q = r
    BY <1>1, <2>1 DEF WrittenOf, Cmd
  <2>2. CASE q # r /\ pc[q] = "writing"
    <3>1. Cmd(q) # Cmd(r) /\ Cmd(q) \in Commands
      BY <1>1, <1>2, <2>2, Apart, RequestType DEF Inv
    <3> QED
      BY <1>1, <2>2, <3>1 DEF SteadyInv, WrittenOf, Others, Cmd
  <2>3. CASE q # r /\ pc[q] # "writing"
    BY <1>1, <2>3 DEF WrittenOf, Others
  <2> QED
    BY <2>1, <2>2, <2>3
<1> QED
  BY <1>1, <1>3, <1>4, <1>5 DEF EvidenceOf, UnderReview

LEMMA SteadyPersist ==
  ASSUME Inv, SteadyInv, NEW r \in Attempts, PersistStep(r)
  PROVE  /\ \A x \in Reviews : EvidenceOf(x)'
         /\ \A c \in Commands : ShownOf(c)'
         /\ \A q \in Attempts : WrittenOf(q)'
<1>1. /\ Others(r) /\ UNCHANGED <<mem, req, rv>> /\ pc[r] = "writing" /\ pc'[r] = then[r]
      /\ rows'[Cmd(r)] = snap[r] /\ \A c \in Commands \ {Cmd(r)} : rows'[c] = rows[c]
  BY DEF PersistStep
<1>2. pc'[r] # "writing" /\ Cmd(r) \in Commands /\ rows[Cmd(r)].by = r
  BY <1>1, RequestType DEF Inv, TypeInv, TaskInv, VerdictInv, HoldOf
<1>3. \A c \in Commands : ShownOf(c)'
  BY <1>1, <1>2 DEF SteadyInv, ShownOf, WrittenOf
<1>4. ASSUME NEW x \in Reviews, UnderReview(x)
      PROVE  EvidenceOf(x)'
  <2>1. /\ rv[x].cmd \in Commands /\ EvidenceOf(x)
        /\ rv[x].cmd = Cmd(r) => snap[r].st = "OUTCOME_UNKNOWN"
    BY <1>1, <1>2, <1>4 DEF Inv, VerdictInv, ReviewOf, SteadyInv
  <2> QED
    BY <1>1, <1>4, <2>1 DEF EvidenceOf, UnderReview
<1>5. \A q \in Attempts : WrittenOf(q)'
  BY <1>1, <1>2 DEF SteadyInv, WrittenOf, Others, Cmd
<1> QED
  BY <1>1, <1>3, <1>4, <1>5 DEF EvidenceOf, UnderReview

LEMMA SteadyReview ==
  ASSUME Inv, SteadyInv, NEW x \in Reviews,
         RecordReview(x) \/ AppendEvidence(x) \/ PersistEvidence(x)
  PROVE  /\ \A y \in Reviews : EvidenceOf(y)'
         /\ \A c \in Commands : ShownOf(c)'
         /\ \A q \in Attempts : WrittenOf(q)'
<1>1. UNCHANGED <<taskVars, req>> /\ TypeInv /\ VerdictInv
  BY DEF RecordReview, AppendEvidence, PersistEvidence, Inv
<1>2. CASE RecordReview(x)
  <2>1. PICK c \in Commands :
          /\ Visible(c).st = "OUTCOME_UNKNOWN"
          /\ rv' = [rv EXCEPT ![x] = [pc |-> "recorded", cmd |-> c, snap |-> Absent]]
    BY <1>2 DEF RecordReview
  <2>2. rv'[x].pc = "recorded" /\ rv'[x].cmd = c /\ \A y \in Reviews \ {x} : rv'[y] = rv[y]
    BY <1>1, <2>1 DEF TypeInv, TypeOK
  <2>3. UNCHANGED <<rows, mem>>
    BY <1>2 DEF RecordReview
  <2>4. \/ mem[c].st = "OUTCOME_UNKNOWN"
        \/ mem[c].st = "ABSENT" /\ rows[c].st = "OUTCOME_UNKNOWN"
    <3>1. CASE mem[c].st # "ABSENT"
      BY <2>1, <3>1 DEF Visible
    <3>2. CASE mem[c].st = "ABSENT"
      BY <2>1, <3>2 DEF Visible
    <3> QED
      BY <3>1, <3>2
  <2>5. \A y \in Reviews : EvidenceOf(y)'
    BY <2>2, <2>3, <2>4 DEF SteadyInv, EvidenceOf, UnderReview
  <2> QED
    BY <1>1, <2>3, <2>5 DEF SteadyInv, ShownOf, WrittenOf, Cmd, taskVars
<1>3. CASE AppendEvidence(x)
  <2> DEFINE c == rv[x].cmd
             new == [mem[c] EXCEPT !.rev = @ + 1, !.obs = @ \cup {x}]
  <2>1. c \in Commands /\ EvidenceOf(x) /\ UnderReview(x) /\ UNCHANGED rows
    BY <1>1, <1>3 DEF AppendEvidence, VerdictInv, ReviewOf, UnderReview, SteadyInv, ledgerVars
  <2>2. new.st = mem[c].st
    BY <1>1, <2>1, CopyTypes DEF Record
  <2>3. \/ mem' = mem /\ rv' = [rv EXCEPT ![x].pc = "done"]
        \/ /\ mem[c].st # "ABSENT" /\ mem' = [mem EXCEPT ![c] = new]
           /\ rv' = [rv EXCEPT ![x].pc = "writing", ![x].snap = new]
    BY <1>3 DEF AppendEvidence
  <2> HIDE DEF new
  <2>4. \A d \in Commands : mem'[d].st = mem[d].st
    BY <1>1, <2>1, <2>2, <2>3 DEF TypeInv, TypeOK
  <2>5. \A y \in Reviews \ {x} : rv'[y] = rv[y]
    BY <1>1, <2>3 DEF TypeInv, TypeOK
  <2>6. \/ rv'[x].pc = "done"
        \/ /\ rv'[x].cmd = c /\ rv'[x].snap = new /\ mem[c].st # "ABSENT"
    BY <1>1, <2>3 DEF TypeInv, TypeOK
  <2>7. ASSUME NEW y \in Reviews
        PROVE  EvidenceOf(y)'
    <3>1. CASE y = x
      BY <2>1, <2>2, <2>4, <2>6, <3>1 DEF EvidenceOf, UnderReview
    <3>2. CASE y # x
      <4>1. EvidenceOf(y) /\ (UnderReview(y) => rv[y].cmd \in Commands) /\ rv'[y] = rv[y]
        BY <1>1, <2>5, <3>2 DEF SteadyInv, VerdictInv, ReviewOf
      <4> QED
        BY <2>1, <2>4, <4>1 DEF EvidenceOf, UnderReview
    <3> QED
      BY <3>1, <3>2
  <2>8. ASSUME NEW q \in Attempts
        PROVE  WrittenOf(q)'
    <3>1. pc[q] = "writing" => Cmd(q) \in Commands
      BY <1>1, RequestType
    <3> QED
      BY <1>1, <2>4, <3>1 DEF SteadyInv, WrittenOf, Cmd, taskVars
  <2> QED
    BY <2>1, <2>4, <2>7, <2>8 DEF SteadyInv, ShownOf
<1>4. CASE PersistEvidence(x)
  <2>1. PICK c \in Commands : c = rv[x].cmd /\ EvidenceOf(x) /\ UnderReview(x)
    BY <1>1, <1>4 DEF PersistEvidence, VerdictInv, ReviewOf, UnderReview, SteadyInv
  <2>2. /\ rv[x].pc = "writing" /\ UNCHANGED mem /\ rows' = [rows EXCEPT ![c] = rv[x].snap]
        /\ rv' = [rv EXCEPT ![x].pc = "done", ![x].snap = Absent]
    BY <1>4, <2>1 DEF PersistEvidence, Update
  <2>3. rv'[x].pc = "done" /\ \A y \in Reviews \ {x} : rv'[y] = rv[y]
    BY <1>1, <2>2 DEF TypeInv, TypeOK
  <2>4. rows'[c].st = "OUTCOME_UNKNOWN" /\ \A d \in Commands \ {c} : rows'[d] = rows[d]
    BY <1>1, <2>1, <2>2 DEF EvidenceOf, TypeInv, TypeOK, LedgerTypeOK
  <2>5. mem[c].st \in {"ABSENT", "OUTCOME_UNKNOWN"}
    BY <2>1 DEF EvidenceOf
  <2>6. ASSUME NEW y \in Reviews
        PROVE  EvidenceOf(y)'
    <3>1. CASE y = x
      BY <2>3, <3>1 DEF EvidenceOf, UnderReview
    <3>2. CASE y # x
      <4>1. EvidenceOf(y) /\ (UnderReview(y) => rv[y].cmd \in Commands) /\ rv'[y] = rv[y]
        BY <1>1, <2>3, <3>2 DEF SteadyInv, VerdictInv, ReviewOf
      <4> QED
        BY <2>2, <2>4, <4>1 DEF EvidenceOf, UnderReview
    <3> QED
      BY <3>1, <3>2
  <2> QED
    BY <1>1, <2>2, <2>4, <2>5, <2>6 DEF SteadyInv, ShownOf, WrittenOf, Cmd, taskVars
<1> QED
  BY <1>2, <1>3, <1>4

LEMMA SteadyProcess ==
  ASSUME Inv, Inv', SteadyInv, Vanish \/ StartStep \/ IdleStep
  PROVE  /\ \A y \in Reviews : EvidenceOf(y)'
         /\ \A c \in Commands : ShownOf(c)'
         /\ \A q \in Attempts : WrittenOf(q)'
<1>1. CASE IdleStep
  BY <1>1 DEF IdleStep, SteadyInv, EvidenceOf, UnderReview, ShownOf, WrittenOf, Cmd, taskVars
<1>2. CASE Vanish
  <2>1. \A x \in Reviews : ~UnderReview(x)'
    BY <1>2 DEF Vanish, UnderReview, ReviewIdle
  <2>2. \A q \in Attempts : pc'[q] # "writing"
    BY <1>2 DEF Vanish, Live, Calling
  <2> QED
    BY <1>2, <2>1, <2>2 DEF Vanish, EvidenceOf, ShownOf, WrittenOf, Absent
<1>3. CASE StartStep
  <2>1. /\ \A x \in Reviews : ~UnderReview(x)
        /\ \A q \in Attempts : pc[q] # "writing"
    BY <1>3 DEF StartStep, Inv, VerdictInv, PhaseInv, Live
  <2>2. UNCHANGED <<pc, rv>>
    BY <1>3 DEF StartStep, taskVars
  <2> QED
    BY <1>3, <2>1, <2>2 DEF StartStep, EvidenceOf, UnderReview, ShownOf, WrittenOf
<1> QED
  BY <1>1, <1>2, <1>3

LEMMA SteadyStep ==
  ASSUME KeysSteady, Inv, Inv', SteadyInv, [Next]_vars
  PROVE  SteadyInv'
<1>1. DedupInv'
  BY DedupStep DEF Inv, SteadyInv
<1> QED
  BY <1>1, VerdictKinds, SteadyCalls, SteadyTask, SteadyPersist, SteadyReview, SteadyProcess
  DEF SteadyInv

LEMMA SteadyInit == Init => SteadyInv
<1> SUFFICES ASSUME Init PROVE SteadyInv
  OBVIOUS
<1>1. DedupInv
  BY DEF Init, LedgerInit, NoDedup, DedupInv
<1>2. \A x \in Reviews : EvidenceOf(x)
  BY DEF Init, EvidenceOf, UnderReview, ReviewIdle
<1>3. \A c \in Commands : ShownOf(c)
  BY DEF Init, LedgerInit, ShownOf, Absent
<1>4. \A r \in Attempts : WrittenOf(r)
  BY DEF Init, WrittenOf
<1> QED
  BY <1>1, <1>2, <1>3, <1>4 DEF SteadyInv

LEMMA SteadyInvariant == KeysSteady => (Spec => [](Inv /\ SteadyInv))
<1> SUFFICES ASSUME KeysSteady PROVE Spec => [](Inv /\ SteadyInv)
  OBVIOUS
<1>1. Init => Inv /\ SteadyInv
  BY VerdictInit, SteadyInit
<1>2. Inv /\ SteadyInv /\ [Next]_vars => (Inv /\ SteadyInv)'
  BY VerdictStep, SteadyStep
<1> QED
  BY <1>1, <1>2, PTL DEF Spec

-------------------------------------------------------------------------------
(* Final verdicts and orphans *)

\* A reconciliation never meets a stale copy: there is none, or keys are steady.
NoStaleReview == Reviews = {} \/ KeysSteady

EvidenceInv == \A x \in Reviews : EvidenceOf(x)

LEMMA EvidenceInvariant == NoStaleReview => (Spec => [](Inv /\ EvidenceInv))
<1>1. CASE KeysSteady
  <2>1. Spec => [](Inv /\ SteadyInv)
    BY <1>1, SteadyInvariant
  <2>2. Inv /\ SteadyInv => Inv /\ EvidenceInv
    BY DEF SteadyInv, EvidenceInv
  <2>3. Spec => [](Inv /\ EvidenceInv)
    BY <2>1, <2>2, PTL
  <2> QED
    BY <2>3
<1>2. CASE Reviews = {}
  <2>1. Inv => EvidenceInv
    BY <1>2 DEF EvidenceInv
  <2>2. Spec => [](Inv /\ EvidenceInv)
    BY <2>1, VerdictInvariant, PTL
  <2> QED
    BY <2>2
<1> QED
  BY <1>1, <1>2 DEF NoStaleReview

\* A durable verdict is final, as long as no client repeats a key under another
\* command id: with one that does, a reconciliation can write a stale copy back.
THEOREM VerdictsFinal == NoStaleReview => (Spec => VerdictFinal)
<1> SUFFICES ASSUME NoStaleReview PROVE Spec => VerdictFinal
  OBVIOUS
<1> DEFINE Final == \A c \in Commands :
                      rows[c].st \in Terminal /\ rows'[c].by = rows[c].by
                      => rows'[c].st = rows[c].st
<1>1. Inv /\ EvidenceInv /\ [Next]_vars => [Final]_vars
  <2> SUFFICES ASSUME Inv, EvidenceInv, [Next]_vars, NEW c \in Commands,
                      rows[c].st \in Terminal, rows'[c].by = rows[c].by
               PROVE  rows'[c].st = rows[c].st
    OBVIOUS
  <2>1. CASE UNCHANGED rows
    BY <2>1
  <2>2. rows[c].by \in Attempts /\ Absent.by \notin Attempts
    BY Creator, StateFacts, LedgerAssumption DEF Absent
  <2>3. ASSUME NEW r \in Attempts, AdmitStep(r)
        PROVE  rows'[c].st = rows[c].st
    <3>1. c # Cmd(r)
      BY <2>3, StateFacts DEF AdmitStep
    <3> QED
      BY <2>2, <2>3, <3>1 DEF AdmitStep, Sheds
  <2>4. ASSUME NEW r \in Attempts, PersistStep(r)
        PROVE  rows'[c].st = rows[c].st
    <3>1. CASE c = Cmd(r)
      <4>1. rows[c].st \in Stands /\ (rows[c].st = "OUTCOME_UNKNOWN" => snap[r].st = "OUTCOME_UNKNOWN")
        BY <2>4, <3>1 DEF PersistStep, Inv, VerdictInv, HoldOf
      <4> QED
        BY <2>4, <3>1, <4>1, StateFacts DEF PersistStep
    <3> QED
      BY <2>4, <3>1 DEF PersistStep
  <2>5. ASSUME NEW x \in Reviews, PersistEvidence(x)
        PROVE  rows'[c].st = rows[c].st
    <3>1. rows' = [rows EXCEPT ![rv[x].cmd] = rv[x].snap] /\ rv[x].pc = "writing"
      BY <2>5 DEF PersistEvidence, Update
    <3>2. CASE c = rv[x].cmd
      <4>1. rows[c].st \in Stands /\ rv[x].snap.st = "OUTCOME_UNKNOWN"
        BY <3>1, <3>2 DEF Inv, VerdictInv, ReviewOf, EvidenceInv, EvidenceOf, UnderReview
      <4> QED
        BY <3>1, <3>2, <4>1, StateFacts DEF Inv, TypeInv, TypeOK, LedgerTypeOK
    <3> QED
      BY <3>1, <3>2 DEF Inv, TypeInv, TypeOK, LedgerTypeOK
  <2>6. CASE StartStep
    BY <2>6, StateFacts DEF StartStep
  <2>7. ASSUME NEW r \in Attempts, CallStep(r) \/ TaskStep(r) \/ EndStep(r)
        PROVE  UNCHANGED rows
    BY <2>7 DEF CallStep, TaskStep, EndStep
  <2>8. ASSUME NEW x \in Reviews, RecordReview(x) \/ AppendEvidence(x)
        PROVE  UNCHANGED rows
    BY <2>8 DEF RecordReview, AppendEvidence, ledgerVars
  <2>9. Vanish \/ IdleStep => UNCHANGED rows
    BY DEF Vanish, IdleStep, ledgerVars
  <2> QED
    BY <2>1, <2>3, <2>4, <2>5, <2>6, <2>7, <2>8, <2>9, VerdictKinds
<1> QED
  BY <1>1, EvidenceInvariant, PTL DEF Spec, VerdictFinal

\* The recovery of a start opens the service only when no row is running.
LEMMA Opening ==
  ASSUME Inv, [Next]_vars, ~Up, Up'
  PROVE  \A c \in Commands : rows'[c].st \notin Running
<1>1. Recovered
  BY DEF Next, Arrive, Handle, CheckUnresolved, Admission, ReplayCommand, AdmitUnkeyed,
     AdmitKeyed, ReplayKey, NewCommand, Submit, Task, Receive, Decide, Execute,
     CheckQuarantine, Deliver, RecordDelivery, Conclude, ScheduleFeedback,
     StartObserving, Observe, Evict, Persist, PersistFails, RecordReview, Review,
     AppendEvidence, PersistEvidence, Crash, Stop, Stopped, Vanish, Recovery, Restart,
     Recover, Up, vars
<1> QED
  BY <1>1 DEF Recovered, NonTerminal, ledgerVars

LEMMA OrphanStep ==
  ASSUME Inv, EvidenceInv, OrphanInv, [Next]_vars
  PROVE  OrphanInv'
<1> SUFFICES ASSUME Up', NEW c \in Commands, rows'[c].st \in Running
             PROVE  RunBy(c)'
  BY DEF OrphanInv, RunBy
<1>1. Up
  BY Opening
<1>2. RunBy(c)
  BY <1>1 DEF OrphanInv
<1>3. ASSUME NEW r \in Attempts, Others(r), rows'[c] = rows[c], rows[c].by # r
      PROVE  RunBy(c)'
  <2>1. rows[c].by \in Attempts
    BY <1>3, Creator, StateFacts
  <2> QED
    BY <1>2, <1>3, <2>1 DEF RunBy, At, Others
<1>4. ASSUME NEW r \in Attempts, CallStep(r)
      PROVE  RunBy(c)'
  <2>1. Others(r) /\ rows'[c] = rows[c] /\ ~IsAdmitted(r)
    BY <1>4 DEF CallStep, IsAdmitted
  <2> QED
    BY <1>3, <2>1, Creator, StateFacts
<1>5. ASSUME NEW r \in Attempts, AdmitStep(r)
      PROVE  RunBy(c)'
  <2>1. CASE c = Cmd(r)
    BY <1>5, <2>1, TaskLabels, TaskStates DEF AdmitStep, Issued, RunBy, At
  <2>2. CASE c # Cmd(r)
    <3>1. rows'[c] = rows[c] /\ Others(r) /\ ~IsAdmitted(r)
      BY <1>5, <2>2, StateFacts DEF AdmitStep, Sheds, Absent, IsAdmitted
    <3> QED
      BY <1>3, <3>1, Creator, StateFacts
  <2> QED
    BY <2>1, <2>2
<1>6. ASSUME NEW r \in Attempts, TaskStep(r)
      PROVE  RunBy(c)'
  <2>1. Others(r) /\ rows' = rows /\ (pc'[r] = "writing" \/ pc'[r] \in ToGo)
    BY <1>6 DEF TaskStep
  <2>2. CASE rows[c].by = r
    BY <2>1, <2>2, TaskLabels DEF RunBy, At
  <2> QED
    BY <1>3, <2>1, <2>2
<1>7. ASSUME NEW r \in Attempts, PersistStep(r)
      PROVE  RunBy(c)'
  <2>1. /\ Others(r) /\ pc'[r] = then[r] /\ pc[r] = "writing" /\ rows'[Cmd(r)] = snap[r]
        /\ \A d \in Commands \ {Cmd(r)} : rows'[d] = rows[d]
    BY <1>7 DEF PersistStep
  <2>2. /\ then[r] \in ToGo \cup {"evict"} /\ snap[r].by = r /\ Cmd(r) \in Commands
        /\ then[r] = "evict" => snap[r].st \in Terminal
    BY <2>1, RequestType, TaskLabels DEF Inv, TypeInv, TaskInv, VerdictInv, HoldOf
  <2>3. CASE c = Cmd(r)
    BY <2>1, <2>2, <2>3, TaskLabels, StateFacts DEF RunBy, At
  <2>4. CASE c # Cmd(r)
    <3>1. rows'[c] = rows[c] /\ rows[c].by # r
      BY <2>1, <2>4, Creator, StateFacts
    <3> QED
      BY <1>3, <2>1, <3>1
  <2> QED
    BY <2>3, <2>4
<1>8. ASSUME NEW r \in Attempts, EndStep(r)
      PROVE  RunBy(c)'
  <2>1. /\ Others(r) /\ rows' = rows /\ pc[r] \in {"writing", "evict"}
        /\ pc[r] = "writing" => pc'[r] = "abandoned"
    BY <1>8 DEF EndStep
  <2>2. CASE rows[c].by = r
    BY <1>2, <2>1, <2>2, TaskLabels DEF RunBy, At
  <2> QED
    BY <1>3, <2>1, <2>2
<1>9. ASSUME NEW x \in Reviews, RecordReview(x) \/ AppendEvidence(x) \/ PersistEvidence(x)
      PROVE  RunBy(c)'
  <2>1. UNCHANGED taskVars
    BY <1>9 DEF RecordReview, AppendEvidence, PersistEvidence
  <2>2. rows'[c] = rows[c]
    <3>1. CASE PersistEvidence(x)
      <4>1. /\ rows' = [rows EXCEPT ![rv[x].cmd] = rv[x].snap] /\ rv[x].pc = "writing"
        BY <3>1 DEF PersistEvidence, Update
      <4>2. rv[x].snap.st = "OUTCOME_UNKNOWN"
        BY <4>1 DEF EvidenceInv, EvidenceOf, UnderReview
      <4>3. c # rv[x].cmd
        BY <4>1, <4>2, StateFacts DEF Inv, TypeInv, TypeOK, LedgerTypeOK
      <4> QED
        BY <4>1, <4>3 DEF Inv, TypeInv, TypeOK, LedgerTypeOK
    <3> QED
      BY <1>9, <3>1 DEF RecordReview, AppendEvidence, ledgerVars
  <2> QED
    BY <1>2, <2>1, <2>2 DEF RunBy, At, taskVars
<1>10. CASE IdleStep
  BY <1>2, <1>10 DEF IdleStep, RunBy, At, taskVars
<1>11. ~Vanish /\ ~StartStep
  BY <1>1 DEF Vanish, StartStep, Up
<1> QED
  BY <1>4, <1>5, <1>6, <1>7, <1>8, <1>9, <1>10, <1>11, VerdictKinds

LEMMA OrphanInit == Init => OrphanInv
  BY StateFacts DEF Init, LedgerInit, OrphanInv, RunBy, Absent

LEMMA OrphanInvariant == NoStaleReview => (Spec => [](Inv /\ EvidenceInv /\ OrphanInv))
<1> SUFFICES ASSUME NoStaleReview PROVE Spec => [](Inv /\ EvidenceInv /\ OrphanInv)
  OBVIOUS
<1>1. Spec => [](Inv /\ EvidenceInv)
  BY EvidenceInvariant
<1>2. Inv /\ EvidenceInv /\ OrphanInv /\ [Next]_vars => OrphanInv'
  BY OrphanStep
<1> QED
  BY <1>1, <1>2, OrphanInit, PTL DEF Spec

\* Nothing is left in doubt by a restart: once the service is up again, a row
\* that shows a command as running has a task that runs it, unless the ledger
\* refused that task a write.
THEOREM OrphansNone == NoStaleReview => (Spec => []NoOrphans)
<1> SUFFICES ASSUME NoStaleReview PROVE Spec => []NoOrphans
  OBVIOUS
<1>1. Inv /\ EvidenceInv /\ OrphanInv => NoOrphans
  <2> SUFFICES ASSUME Inv, OrphanInv, phase = "up", NEW c \in NonTerminal
               PROVE  \E r \in Attempts : /\ req[r] # None /\ Cmd(r) = c
                                         /\ pc[r] \in Live \cup {"abandoned"}
    BY DEF NoOrphans
  <2>1. c \in Commands /\ rows[c].st \in Running /\ RunBy(c)
    BY DEF NonTerminal, OrphanInv, Up
  <2>2. PICK r \in Attempts : r = rows[c].by /\ IsAdmitted(r) /\ Cmd(r) = c
    BY <2>1, Creator, StateFacts
  <2>3. pc[r] \in Live \cup {"abandoned"}
    BY <2>1, <2>2, TaskLabels DEF RunBy, At
  <2>4. req[r] # None
    BY <2>2, LabelFacts DEF Inv, TypeInv, TaskInv, IsAdmitted
  <2> QED
    BY <2>2, <2>3, <2>4
<1> QED
  BY <1>1, OrphanInvariant, PTL

\* With steady keys the API and the ledger agree, for a command at rest, on
\* whether its outcome is unknown, and never show different verdicts: neither an
\* eviction, nor a reload, nor the recovery hides a command that blocks its action.
THEOREM ApiTrue == KeysSteady => (Spec => []ApiShowsVerdict)
<1> SUFFICES ASSUME KeysSteady PROVE Spec => []ApiShowsVerdict
  OBVIOUS
<1>1. Inv /\ SteadyInv /\ OrphanInv => ApiShowsVerdict
  <2> SUFFICES ASSUME Inv, SteadyInv, OrphanInv, phase = "up", NEW c \in Commands, Quiet(c)
               PROVE  /\ Visible(c).st = "OUTCOME_UNKNOWN" <=> rows[c].st = "OUTCOME_UNKNOWN"
                      /\ {Visible(c).st, rows[c].st} \subseteq Terminal
                         => Visible(c).st = rows[c].st
    BY DEF ApiShowsVerdict
  <2>1. RecordOf(c) /\ ShownOf(c) /\ RunBy(c)
    BY DEF Inv, VerdictInv, SteadyInv, OrphanInv, Up
  <2>2. rows[c].st \notin Running
    <3> SUFFICES ASSUME rows[c].st \in Running PROVE FALSE
      OBVIOUS
    <3>1. PICK r \in Attempts : r = rows[c].by /\ IsAdmitted(r) /\ Cmd(r) = c
      BY Creator, StateFacts
    <3>2. pc[r] \in Live \cup {"abandoned"}
      BY <2>1, <3>1, TaskLabels DEF RunBy, At
    <3> QED
      BY <3>1, <3>2 DEF Quiet
  <2>3. CASE mem[c].st = "ABSENT"
    <3>1. Visible(c) = rows[c]
      BY <2>3 DEF Visible
    <3> QED
      BY <3>1
  <2>4. CASE mem[c].st # "ABSENT"
    <3>1. Visible(c) = mem[c]
      BY <2>4 DEF Visible
    <3>2. mem[c].st = "OUTCOME_UNKNOWN" <=> rows[c].st = "OUTCOME_UNKNOWN"
      BY <2>1, <2>2, <2>4, StateFacts DEF RecordOf, ShownOf
    <3> QED
      BY <2>1, <3>1, <3>2 DEF RecordOf
  <2> QED
    BY <2>3, <2>4
<1>2. Spec => [](Inv /\ SteadyInv)
  BY SteadyInvariant
<1>3. Spec => [](Inv /\ EvidenceInv /\ OrphanInv)
  BY OrphanInvariant DEF NoStaleReview
<1> QED
  BY <1>1, <1>2, <1>3, PTL
===============================================================================
