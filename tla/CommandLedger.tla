---------------------------- MODULE CommandLedger ----------------------------
(***************************************************************************)
(* The durable command ledger (backend-cpp/src/command_ledger.cpp): three  *)
(* SQLite tables, every method one critical section of the ledger's mutex  *)
(* and, for insertWithDedup, one transaction.                              *)
(*                                                                         *)
(* Timestamps are abstracted.  ORDER BY updated_at reads the wall clock,   *)
(* which may step, so "the oldest" row of a prune is any row the prune may *)
(* take; the seven days of a dedup row end at any insertion (the parameter *)
(* "expired" of the operators below) for the keys of Lapsing.              *)
(***************************************************************************)
EXTENDS Integers, FiniteSets

CONSTANTS
  Commands,    \* command ids
  Keys,        \* idempotency keys of the v2 API
  Actions,     \* a device and an action of it
  Hashes,      \* canonical requests: actor, device, action, reason, value
  Attempts,    \* calls of issueCommand / issueCommandV2
  Reviews,     \* calls of reconcileCommandV2
  None,        \* "no key", "no command", "no attempt"
  MaxRecords,  \* commandLedgerMaxRecords; 0 means unlimited
  Lapsing      \* bound: the keys whose dedup row may expire

ASSUME LedgerAssumption ==
  /\ None \notin Commands \cup Keys \cup Actions \cup Hashes \cup Attempts \cup Reviews
  /\ MaxRecords \in Nat
  /\ Lapsing \subseteq Keys

VARIABLES
  rows,   \* table commands
  dedup,  \* table command_dedup
  recon   \* table command_reconciliations: the verdict of the latest record

ledgerVars == <<rows, dedup, recon>>

Running == {"ISSUED", "RECEIVED", "ACCEPTED", "EXECUTING", "APPLIED"}

\* Mutant of Prunable: unknown outcomes are pruned like every other verdict.
PrunableUnknown == {"CONFIRMED", "FAILED", "REJECTED", "EXPIRED", "OUTCOME_UNKNOWN"}

\* The states pruneOne and pruneTerminalLocked may delete.
Prunable == {"CONFIRMED", "FAILED", "REJECTED", "EXPIRED"}

Terminal == Prunable \cup {"OUTCOME_UNKNOWN"}

\* "by" is the admission that created the row (previewId, issuedAt, operator
\* and key in the JSON); "obs" its observations array.
Record == [st : Running \cup Terminal \cup {"ABSENT"}, rev : Nat,
           act : Actions \cup {None}, by : Attempts \cup {None},
           obs : SUBSET Reviews]

Absent == [st |-> "ABSENT", rev |-> 0, act |-> None, by |-> None, obs |-> {}]

NoDedup == [cmd |-> None, hash |-> None, by |-> None]

Present(m) == {c \in Commands : m[c].st # "ABSENT"}

\* m without the entries of S.
Without(m, S) == [c \in Commands |-> IF c \in S THEN Absent ELSE m[c]]

\* Mutant of Deletable: a prune deletes by age alone.
DeletableByAge(m) == Present(m)

\* The entries of m a prune may delete, and the results of deleting n of them
\* or, when there are fewer, all.
Deletable(m) == {c \in Commands : m[c].st \in Prunable}

Pruned(m, n) ==
  {Without(m, S) : S \in {T \in SUBSET Deletable(m) :
     Cardinality(T) = IF Cardinality(Deletable(m)) < n
                        THEN Cardinality(Deletable(m)) ELSE n}}

LedgerTypeOK ==
  /\ rows \in [Commands -> Record]
  /\ dedup \in [Keys -> [cmd : Commands \cup {None}, hash : Hashes \cup {None},
                         by : Attempts \cup {None}]]
  /\ recon \in [Commands -> {"none", "hold", "retry"}]

LedgerInit ==
  /\ rows = [c \in Commands |-> Absent]
  /\ dedup = [k \in Keys |-> NoDedup]
  /\ recon = [c \in Commands |-> "none"]

\* DELETE FROM command_dedup WHERE expires_at<=issuedAt.
Cleaned(expired) == [k \in Keys |-> IF k \in expired THEN NoDedup ELSE dedup[k]]

\* Mutant of LedgerFull: off by one.
LedgerOverfull == MaxRecords > 0 /\ Cardinality(Present(rows)) > MaxRecords

LedgerFull == MaxRecords > 0 /\ Cardinality(Present(rows)) >= MaxRecords

\* Mutant of InsertWithDedup: the dedup row is forgotten.
InsertAlone(c, rec, k, hash, expired) ==
  /\ rows' = [rows EXCEPT ![c] = rec]
  /\ dedup' = Cleaned(expired)
  /\ UNCHANGED recon

\* insertWithDedup returning Inserted: one row makes room when the ledger is
\* full, then the command and its dedup row are written together.
InsertWithDedup(c, rec, k, hash, expired) ==
  /\ LedgerFull => Deletable(rows) # {}
  /\ \E m \in Pruned(rows, IF LedgerFull THEN 1 ELSE 0) :
       rows' = [m EXCEPT ![c] = rec]
  /\ dedup' = [Cleaned(expired) EXCEPT
                 ![k] = [cmd |-> c, hash |-> hash, by |-> rec.by]]
  /\ UNCHANGED recon

\* insert: INSERT OR IGNORE, then pruneTerminalLocked.
Insert(c, rec) ==
  LET m == [rows EXCEPT ![c] = rec]
      excess == Cardinality(Present(m)) - MaxRecords
  IN /\ rows' \in Pruned(m, IF MaxRecords > 0 /\ excess > 0 THEN excess ELSE 0)
     /\ UNCHANGED <<dedup, recon>>

\* update: replaces the row, or throws when there is none.
Update(c, rec) ==
  /\ rows[c].st # "ABSENT"
  /\ rows' = [rows EXCEPT ![c] = rec]
  /\ UNCHANGED <<dedup, recon>>

\* blockingUnknownFor: an unknown outcome of the same action whose latest
\* reconciliation does not allow a retry.
BlockingUnknown(act) ==
  \E c \in Commands : /\ rows[c].st = "OUTCOME_UNKNOWN"
                      /\ rows[c].act = act
                      /\ recon[c] # "retry"

\* nonTerminal: what the previous process left behind.
NonTerminal == {c \in Commands : rows[c].st \in Running}
=============================================================================
