------------------------------ MODULE Telemetry ------------------------------
(***************************************************************************)
(* From a reading to the history and to the API: the publisher normalizes  *)
(* a batch, merges it with the last snapshot, stores the samples that are  *)
(* new and due, and replaces the snapshot.  A sample is stored by two      *)
(* statements that are no transaction, the row and the cursor of its       *)
(* point; cursors are kept in memory too (telemetryCursors_), and a        *)
(* restart takes them from the table.  One device has one point here.      *)
(***************************************************************************)
EXTENDS Naturals, FiniteSets

CONSTANTS
  Points,      \* data points
  Period,      \* samplePeriodMs, in ticks
  Raw,         \* how devices report a sample: well formed, without a timestamp,
               \* with a value of the wrong type
  None,
  MaxTime,     \* bound on the clock
  MaxEpoch,    \* bound on source epochs
  MaxFaults    \* bound on failures of readings, statements and files, ends of the
               \* process and runs of the restore tool, all together

ASSUME TelemetryAssumption ==
  /\ Raw \subseteq {"good", "untimed", "mistyped"}
  /\ Period \in Nat \ {0}
  /\ {MaxTime, MaxEpoch, MaxFaults} \subseteq Nat

\* A sample of a device has no epoch (0) until it is normalized.
\* Its ts stands for the pair (sampleTs, seq) that orders samples: of two in
\* one tick the period lets only the first through.
Sample == [epoch : Nat, ts : Nat]
Quality == {"GOOD", "UNCERTAIN", "STALE", "BAD"}
Point == [sample : Sample, quality : Quality]

ASSUME NoneAssumption == None \notin Sample /\ None \notin Point

VARIABLES
  clock,
  source,    \* per point: is its device up, its last sample and the one before
  epoch,     \* the source epoch of a batch: the adapter's, or the service's for
             \* an adapter of API v1
  rows,      \* the table telemetry, per point, with what retention has deleted:
             \* nothing that is modelled here reads the rows of old
  durable,   \* the table telemetry_cursor
  cursor,    \* telemetryCursors_
  shown,     \* the telemetry of latestSnapshot_
  pub,       \* the publisher: its step, the points left to store, the one whose
             \* cursor is next, the snapshot it works on
  life,      \* the process: "up", then in its destructor "flagged" and "joining", "down"
  faults,
  loose      \* history: per point, the rows that no cursor stands for any more

telemetryVars == <<clock, source, epoch, rows, durable, cursor, shown, pub, life, faults, loose>>

Later(s, t) == t = None \/ s.ts > t.ts
Nothing == [p \in Points |-> None]
Idle == [pc |-> "read", todo |-> {}, at |-> None, view |-> Nothing]

TelemetryInit ==
  /\ clock = 1 /\ epoch = 1
  /\ source = [p \in Points |-> [up |-> TRUE, last |-> None, before |-> None]]
  /\ rows = [p \in Points |-> {}]
  /\ durable = Nothing /\ cursor = Nothing /\ shown = Nothing
  /\ pub = Idle
  /\ life = "up" /\ faults = 0
  /\ loose = [p \in Points |-> {}]

Fault == faults < MaxFaults /\ faults' = faults + 1

-----------------------------------------------------------------------------
(* The world: time, devices that produce samples, fail and come back, and  *)
(* an adapter that starts again with a new epoch and sequence.             *)

\* A device that is up takes a sample every tick; not every one is read.
Tick ==
  LET sample == [epoch |-> 0, ts |-> clock + 1]
  IN /\ clock < MaxTime /\ clock' = clock + 1
     /\ source' = [p \in Points |-> IF source[p].up
                     THEN [source[p] EXCEPT !.last = sample, !.before = source[p].last]
                     ELSE source[p]]
     /\ UNCHANGED <<epoch, rows, durable, cursor, shown, pub, life, faults, loose>>

Fail(p) ==
  /\ source[p].up /\ pub.pc = "read"
  /\ source' = [source EXCEPT ![p].up = FALSE]
  /\ UNCHANGED <<clock, epoch, rows, durable, cursor, shown, pub, life, faults, loose>>

AdapterRestarts ==
  /\ life = "up" /\ pub.pc = "read" /\ epoch < MaxEpoch
  /\ epoch' = epoch + 1
  /\ source' = [p \in Points |-> [source[p] EXCEPT !.last = None, !.before = None]]
  /\ UNCHANGED <<clock, rows, durable, cursor, shown, pub, life, faults, loose>>

-----------------------------------------------------------------------------
(* QualityService: what a raw point becomes.  A sample is at most a tick    *)
(* old when it is read, so that none is stale by its age.                  *)

\* Mutant of NormalizePoint: the quality that the device states is passed on.
NormalizeRaw(s, raw) ==
  [sample |-> [s EXCEPT !.epoch = epoch], quality |-> raw]

\* A point without a timestamp gets the time of its reading.
NormalizePoint(s, raw) ==
  [sample |-> [epoch |-> epoch, ts |-> IF raw = "untimed" THEN clock ELSE s.ts],
   quality |-> CASE raw = "good" -> "GOOD" [] raw = "untimed" -> "UNCERTAIN" [] OTHER -> "BAD"]

\* An adapter may repeat the sample before the last.
Readings(p) ==
  {NormalizePoint(s, raw) : s \in {source[p].last, source[p].before} \ {None}, raw \in Raw}

-----------------------------------------------------------------------------
(* AcquisitionService: the batch and the last snapshot.                    *)

\* Mutant of Merged: a failed device keeps the quality it was read with.
MergedAsWas(got, complete) ==
  [p \in Points |-> IF p \in complete /\ (complete = Points \/ got[p] # None) THEN got[p]
                    ELSE shown[p]]

\* A complete batch replaces everything.  A partial one leaves the points of
\* failed devices as they were, marked STALE, and those that a device did not
\* report as they were.
Merged(got, complete) ==
  [p \in Points |->
     IF complete = Points THEN got[p]
     ELSE IF p \notin complete
     THEN IF shown[p] = None THEN None ELSE [shown[p] EXCEPT !.quality = "STALE"]
     ELSE IF got[p] # None THEN got[p] ELSE shown[p]]

ReadBatch ==
  /\ life = "up" /\ pub.pc = "read"
  /\ \E complete \in SUBSET {p \in Points : source[p].up} :
       /\ IF \A p \in Points \ complete : ~source[p].up THEN UNCHANGED faults ELSE Fault
       /\ \E got \in [Points -> {None} \cup UNION {Readings(p) : p \in Points}] :
            /\ \A p \in Points :
                 IF p \in complete /\ source[p].last # None
                 THEN got[p] \in Readings(p) ELSE got[p] = None
            /\ LET view == Merged(got, complete)
               IN pub' = [pub EXCEPT !.pc = "persist", !.view = view,
                                     !.todo = {p \in Points : view[p] # None}]
  /\ UNCHANGED <<clock, source, epoch, rows, durable, cursor, shown, life, loose>>

\* The reading throws: degradedSnapshotForAcquisitionFailure copies the last
\* snapshot and marks every point.
ReadFails ==
  /\ life = "up" /\ pub.pc = "read"
  /\ IF \E p \in Points : ~source[p].up THEN UNCHANGED faults ELSE Fault
  /\ \E quality \in {"STALE", "BAD"} :
       pub' = [pub EXCEPT !.pc = "replace",
                 !.view = [p \in Points |-> IF shown[p] = None THEN None
                                            ELSE [shown[p] EXCEPT !.quality = quality]]]
  /\ UNCHANGED <<clock, source, epoch, rows, durable, cursor, shown, life, loose>>

-----------------------------------------------------------------------------
(* persistTelemetry and insertTelemetryLocked                              *)

\* A new epoch is a new sequence: it resets the cursor, stored or not.
CursorFor(p, s) == IF cursor[p] # None /\ cursor[p].epoch # s.epoch THEN None ELSE cursor[p]

\* Mutant of Due: every later sample is stored.
DueIfLater(s, c) == Later(s, c)

\* Late and repeated samples are skipped, and those before their period.
Due(s, c) == Later(s, c) /\ (c # None => s.ts - c.ts >= Period)

\* An exception ends the cycle: the last snapshot stays.
Abort == pub' = Idle

PersistPoint(p) ==
  LET s == pub.view[p].sample
      c == CursorFor(p, s)
  IN /\ life = "up" /\ pub.pc = "persist" /\ p \in pub.todo
     /\ cursor' = [cursor EXCEPT ![p] = c]
     /\ loose' = IF c = cursor[p] THEN loose ELSE [loose EXCEPT ![p] = rows[p]]
     /\ IF ~Due(s, c)
        THEN /\ pub' = [pub EXCEPT !.todo = @ \ {p}]
             /\ UNCHANGED <<rows, faults>>
        ELSE \/ /\ rows' = [rows EXCEPT ![p] = @ \cup {s}]
                /\ pub' = [pub EXCEPT !.pc = "cursor", !.at = p]
                /\ UNCHANGED faults
             \/ Fault /\ Abort /\ UNCHANGED rows
     /\ UNCHANGED <<clock, source, epoch, durable, shown, life>>

\* The second statement: the cursor is written only forwards within an epoch.
StoreCursor ==
  LET p == pub.at
      s == pub.view[p].sample
  IN /\ life = "up" /\ pub.pc = "cursor"
     /\ \/ /\ durable' = IF durable[p] # None /\ durable[p].epoch = s.epoch /\ ~Later(s, durable[p])
                         THEN durable ELSE [durable EXCEPT ![p] = s]
           /\ cursor' = [cursor EXCEPT ![p] = s]
           /\ pub' = [pub EXCEPT !.pc = "persist", !.at = None, !.todo = @ \ {p}]
           /\ UNCHANGED <<faults, loose>>
        \/ /\ Fault /\ Abort
           /\ loose' = [loose EXCEPT ![p] = @ \cup {s}]
           /\ UNCHANGED <<durable, cursor>>
     /\ UNCHANGED <<clock, source, epoch, rows, shown, life>>

\* The rest of the batch, alarms and rules: it may throw as well.
Persisted ==
  /\ life = "up" /\ pub.pc = "persist" /\ pub.todo = {}
  /\ \/ pub' = [pub EXCEPT !.pc = "replace"] /\ UNCHANGED faults
     \/ Fault /\ Abort
  /\ UNCHANGED <<clock, source, epoch, rows, durable, cursor, shown, life, loose>>

Replace ==
  /\ life = "up" /\ pub.pc = "replace"
  /\ shown' = pub.view
  /\ pub' = Idle
  /\ UNCHANGED <<clock, source, epoch, rows, durable, cursor, life, faults, loose>>

PublisherStep ==
  \/ ReadBatch \/ ReadFails \/ Persisted \/ StoreCursor \/ Replace
  \/ \E p \in Points : PersistPoint(p)

=============================================================================
