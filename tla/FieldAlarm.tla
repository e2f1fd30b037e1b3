----------------------------- MODULE FieldAlarm -----------------------------
(***************************************************************************)
(* The alarms of the ApplicationService: those that the field reports and  *)
(* the two that the platform raises about itself.  alarmStates_ (mem) is   *)
(* changed by the publisher thread and by acknowledgements under           *)
(* alarmMutex_; the historian (row) is told of it afterwards, for some     *)
(* alarms inside that mutex and for others outside; what the API shows     *)
(* (shown) is a third copy, which both replace.  Appends to the historian  *)
(* fail, devices drop out of a batch, the process dies and starts again.   *)
(***************************************************************************)
EXTENDS Naturals, FiniteSets

CONSTANTS
  FieldAlarms,  \* ids of the alarms that devices report
  Devices,
  DeviceOf,     \* the source device of each field alarm
  Steady,       \* field alarms whose source may report an old raise time again
  Acks,         \* acknowledgement calls
  Threshold,    \* acquisitionFailureAlarmThreshold
  NoAlarm,
  MaxRaises,    \* bounds on the raise times of each condition
  MaxFaults,    \* bound on failed readings, failed appends and full disks
  MaxRestarts   \* bound on process deaths

Acquisition == "system-acquisition-health"
Storage == "system-historian-storage"
AlarmIds == FieldAlarms \cup {Acquisition, Storage}

ASSUME AlarmAssumption ==
  /\ DeviceOf \in [FieldAlarms -> Devices]
  /\ FieldAlarms \cap {Acquisition, Storage} = {}
  /\ Threshold \in Nat \ {0}
  /\ MaxRaises \in [FieldAlarms -> Nat] /\ {MaxFaults, MaxRestarts} \subseteq Nat

\* An alarm as the three places keep it: occ is its occurrence, numbered as
\* makeOccurrenceId names them, raised the raise time last reported.
Alarm == [state : {"ACTIVE", "ACKNOWLEDGED", "CLEARED"}, occ : Nat, raised : Nat]
Report == {"absent", "ACTIVE", "CLEARED"}

ASSUME NoAlarmAssumption == NoAlarm \notin Alarm

VARIABLES
  field,     \* per field alarm: is its condition true, and its raise time
  mem,       \* alarmStates_
  row,       \* the historian's table alarm_current
  shown,     \* the alarms of latestSnapshot_
  health,    \* acquisitionState_, the consecutive failures, whether a reading
             \* ever succeeded; and (history) whether the alarm was restored
  pub,       \* the publisher: its step, the batch and the copies it works on
  acks,      \* the acknowledgement calls: their step and the copies they hold
  booting,   \* the constructor is running
  faults, restarts,
  issued,    \* occurrences that were named so far, per alarm
  astray     \* history: why a row may differ from memory

alarmVars == <<field, mem, row, shown, health, pub, acks, booting, faults, restarts, issued, astray>>

Open(x) == x # NoAlarm /\ x.state # "CLEARED"
Same(x, y) == \/ x = NoAlarm /\ y = NoAlarm
              \/ x # NoAlarm /\ y # NoAlarm /\ x.state = y.state /\ x.occ = y.occ

NoAlarms == [a \in AlarmIds |-> NoAlarm]
NoBatch == [complete |-> {}, raw |-> [a \in FieldAlarms |-> "absent"]]

AlarmInit ==
  /\ field = [a \in FieldAlarms |-> [active |-> FALSE, raised |-> 0]]
  /\ mem = NoAlarms /\ row = NoAlarms /\ shown = NoAlarms
  /\ health = [state |-> "INIT", fails |-> 0, read |-> FALSE, restored |-> FALSE]
  /\ \E kind \in {"batch", "v1"} :
       pub = [pc |-> "read", kind |-> kind, batch |-> NoBatch, note |-> NoAlarm,
              view |-> NoAlarms]
  /\ acks = [k \in Acks |-> [pc |-> "idle", alarm |-> Acquisition, copy |-> NoAlarm,
                             stored |-> FALSE, view |-> NoAlarms]]
  /\ booting = TRUE /\ faults = 0 /\ restarts = 0
  /\ issued = [a \in AlarmIds |-> 0]
  /\ astray = [a \in AlarmIds |-> {}]

Fault == faults < MaxFaults /\ faults' = faults + 1

-----------------------------------------------------------------------------
(* The world: a condition begins, at a raise time that is later than what  *)
(* the service has seen unless the source repeats an old one, or it ends.  *)
(* Only a reading looks at the field, so it changes only before one: what  *)
(* changes while a batch is dealt with is seen by the next reading.        *)

Begin(a) ==
  /\ pub.pc = "read" /\ ~field[a].active
  /\ \/ /\ field[a].raised < MaxRaises[a]
        /\ field' = [field EXCEPT ![a] = [active |-> TRUE, raised |-> @.raised + 1]]
     \/ /\ a \in Steady /\ field[a].raised > 0
        /\ field' = [field EXCEPT ![a].active = TRUE]
  /\ UNCHANGED <<mem, row, shown, health, pub, acks, booting, faults, restarts, issued, astray>>

End(a) ==
  /\ pub.pc = "read" /\ field[a].active
  /\ field' = [field EXCEPT ![a].active = FALSE]
  /\ UNCHANGED <<mem, row, shown, health, pub, acks, booting, faults, restarts, issued, astray>>

-----------------------------------------------------------------------------
(* The historian: appendAlarmEvent stores the event and the alarm's new    *)
(* row in one transaction, or throws.                                      *)

Store(a, alarm) ==
  /\ row' = [row EXCEPT ![a] = alarm]
  /\ astray' = [astray EXCEPT ![a] = IF Same(alarm, mem[a]) THEN {} ELSE @ \cup {"late"}]
  /\ UNCHANGED faults

StoreFails(a) ==
  /\ Fault
  /\ astray' = [astray EXCEPT ![a] = @ \cup {"missed"}]
  /\ UNCHANGED row

-----------------------------------------------------------------------------
(* The acquisition: reading a batch, and the platform's alarm about it.    *)

CycleOver ==
  /\ pub' = [pub EXCEPT !.pc = "read", !.batch = NoBatch, !.note = NoAlarm, !.view = NoAlarms]
  /\ booting' = FALSE

\* Mutant of CountFailure: only the number of failures alarms.
CountFailureLate ==
  \E age \in {"fresh", "stale", "offline"} :
    LET fails == health.fails + 1
        state == IF ~health.read \/ age = "offline" THEN "OFFLINE"
                 ELSE IF age = "stale" \/ fails >= Threshold THEN "STALE" ELSE "DEGRADED"
    IN /\ health' = [health EXCEPT !.state = state, !.fails = fails, !.restored = FALSE]
       /\ pub' = [pub EXCEPT !.pc = IF fails < Threshold THEN "degrade" ELSE "raise",
                             !.batch = NoBatch, !.view = NoAlarms]
       /\ UNCHANGED booting

\* recordAcquisitionFailure up to its alarm: how long ago the last reading
\* succeeded decides, unless there was none.
CountFailure ==
  \E age \in {"fresh", "stale", "offline"} :
    LET fails == health.fails + 1
        state == IF ~health.read \/ age = "offline" THEN "OFFLINE"
                 ELSE IF age = "stale" \/ fails >= Threshold THEN "STALE" ELSE "DEGRADED"
    IN /\ health' = [health EXCEPT !.state = state, !.fails = fails, !.restored = FALSE]
       /\ pub' = [pub EXCEPT !.pc = IF state = "DEGRADED" THEN "degrade" ELSE "raise",
                             !.batch = NoBatch, !.view = NoAlarms]
       /\ UNCHANGED booting

\* A source reports a condition that is over as CLEARED or not at all.
Reportable(a, complete) ==
  IF DeviceOf[a] \notin complete THEN {"absent"}
  ELSE IF field[a].active THEN {"ACTIVE"}
  ELSE IF field[a].raised > 0 THEN {"absent", "CLEARED"} ELSE {"absent"}

\* validateCompleteSnapshotOrThrow: a v1 snapshot may leave out no device that
\* has an open alarm.
Acceptable(complete) ==
  pub.kind = "batch" \/ \A a \in FieldAlarms : Open(mem[a]) => DeviceOf[a] \in complete

ReadBatch ==
  /\ pub.pc = "read"
  /\ \E complete \in SUBSET Devices, raw \in [FieldAlarms -> Report] :
       /\ Acceptable(complete)
       /\ \A a \in FieldAlarms : raw[a] \in Reportable(a, complete)
       /\ IF complete = Devices THEN UNCHANGED faults ELSE Fault
       /\ LET partial == pub.kind = "batch" /\ complete # Devices
              recovered == ~partial /\ health.state # "GOOD" /\ health.fails > 0
          IN /\ health' = IF partial
                          THEN [health EXCEPT !.state = "DEGRADED", !.read = TRUE]
                          ELSE [health EXCEPT !.state = "GOOD", !.read = TRUE, !.fails = 0]
             /\ pub' = [pub EXCEPT
                  !.pc = IF recovered THEN "recover" ELSE "reconcile",
                  !.batch = [complete |-> complete, raw |-> raw]]
  /\ UNCHANGED <<field, mem, row, shown, acks, booting, restarts, issued, astray>>

ReadFails ==
  /\ pub.pc = "read"
  /\ Fault
  /\ CountFailure
  /\ shown' = IF booting THEN NoAlarms ELSE shown
  /\ UNCHANGED <<field, mem, row, acks, restarts, issued, astray>>

\* Mutant of RaisedNow: the raise time is left out.
RaisedSometime(a) == [state |-> "ACTIVE", occ |-> issued[a] + 1]

\* A new occurrence of an alarm of the platform: its raise time is now.
RaisedNow(a) == [state |-> "ACTIVE", occ |-> issued[a] + 1, raised |-> issued[a] + 1]

\* The section of updateAcquisitionAlarm and updateStorageAlarm under
\* alarmMutex_: a change of state is recorded after it (pc "record..").
PlatformAlarm(a, unhealthy, recording, otherwise) ==
  LET next == IF unhealthy THEN RaisedNow(a) ELSE [mem[a] EXCEPT !.state = "CLEARED"]
      changes == unhealthy # Open(mem[a])
  IN /\ mem' = IF changes THEN [mem EXCEPT ![a] = next] ELSE mem
     /\ issued' = IF changes /\ unhealthy THEN [issued EXCEPT ![a] = @ + 1] ELSE issued
     /\ IF changes
        THEN pub' = [pub EXCEPT !.pc = recording, !.note = next] /\ UNCHANGED booting
        ELSE otherwise
     /\ UNCHANGED <<field, row, shown, acks, restarts, astray>>

GoTo(pc) == pub' = [pub EXCEPT !.pc = pc, !.note = NoAlarm] /\ UNCHANGED booting

RaiseOutage ==
  /\ pub.pc = "raise"
  /\ PlatformAlarm(Acquisition, TRUE, "recordOutage", GoTo("degrade"))
  /\ UNCHANGED <<health, faults>>

ClearOutage ==
  /\ pub.pc = "recover"
  /\ PlatformAlarm(Acquisition, FALSE, "recordRecovery", GoTo("reconcile"))
  /\ UNCHANGED <<health, faults>>

CheckStorage ==
  /\ pub.pc = "storage"
  /\ \E full \in BOOLEAN :
       /\ IF full THEN Fault ELSE UNCHANGED faults
       /\ PlatformAlarm(Storage, full, "recordStorage", CycleOver)
  /\ UNCHANGED health

\* The record of a platform alarm: what it throws is swallowed.
RecordPlatform ==
  /\ \E a \in {Acquisition, Storage} :
       /\ pub.pc \in IF a = Storage THEN {"recordStorage"} ELSE {"recordOutage", "recordRecovery"}
       /\ Store(a, pub.note) \/ StoreFails(a)
  /\ CASE pub.pc = "recordOutage" -> GoTo("degrade")
       [] pub.pc = "recordRecovery" -> GoTo("reconcile")
       [] OTHER -> CycleOver
  /\ UNCHANGED <<field, mem, shown, health, acks, restarts, issued>>

-----------------------------------------------------------------------------
(* The field: reconcileAlarms and what becomes of the cycle after it.      *)

Batch == pub.batch
FromReading(a, state, occ) == [state |-> state, occ |-> occ, raised |-> field[a].raised]

\* Mutant of Reconciled: acknowledged alarms are overwritten by the batch.
ReconciledAfresh(a) ==
  LET old == mem[a]
      state == Batch.raw[a]
  IN IF old = NoAlarm \/ (old.state = "CLEARED" /\ state = "ACTIVE" /\ field[a].raised > old.raised)
     THEN FromReading(a, state, issued[a] + 1)
     ELSE FromReading(a, state, old.occ)

\* Mutant of Reconciled: what was cleared stays so until it is raised later.
ReconciledOnce(a) ==
  LET old == mem[a]
      state == Batch.raw[a]
  IN IF old = NoAlarm \/ (old.state = "CLEARED" /\ state = "ACTIVE" /\ field[a].raised > old.raised)
     THEN FromReading(a, state, issued[a] + 1)
     ELSE IF old.state \in {"ACKNOWLEDGED", "CLEARED"} /\ state = "ACTIVE" THEN old
     ELSE FromReading(a, state, old.occ)

\* What an alarm of the batch becomes.  A cleared one that is reported again
\* is a new occurrence only if it was raised later; otherwise the old one is
\* active again.
Reconciled(a) ==
  LET old == mem[a]
      state == Batch.raw[a]
  IN IF old = NoAlarm THEN FromReading(a, state, issued[a] + 1)
     ELSE IF old.state = "CLEARED" /\ state = "ACTIVE" /\ field[a].raised > old.raised
     THEN FromReading(a, "ACTIVE", issued[a] + 1)
     ELSE IF old.state = "ACKNOWLEDGED" /\ state = "ACTIVE"
     THEN FromReading(a, "ACKNOWLEDGED", old.occ)
     ELSE FromReading(a, state, old.occ)

InBatch == {a \in FieldAlarms : Batch.raw[a] # "absent"}

\* Mutant of Changing: a batch that reports CLEARED itself leaves no event.
ChangingUnlessCleared ==
  {a \in InBatch :
     LET new == Reconciled(a) IN
       new.state = "ACTIVE" /\ (mem[a] = NoAlarm \/ new.occ # mem[a].occ)}

\* Alarms of the batch whose change is an event: RAISED or CLEARED.
Changing ==
  {a \in InBatch :
     LET new == Reconciled(a) IN
       \/ new.state = "CLEARED" /\ (mem[a] = NoAlarm \/ Open(mem[a]))
       \/ new.state = "ACTIVE" /\ (mem[a] = NoAlarm \/ new.occ # mem[a].occ)}

\* A cleared occurrence that is active again without an event.
Reopening ==
  {a \in InBatch \ Changing : mem[a] # NoAlarm /\ ~Open(mem[a]) /\ Batch.raw[a] = "ACTIVE"}

\* Mutant of Absent: whatever is absent has returned to normal.
AbsentAnywhere == {a \in FieldAlarms \ InBatch : Open(mem[a])}

\* Absence is return-to-normal only for a device that the batch completes.
Absent == {a \in FieldAlarms \ InBatch : Open(mem[a]) /\ DeviceOf[a] \in Batch.complete}

\* The alarms of the set are dealt with and, except for those of the failed
\* append, recorded.
Deal(done, failed) ==
  LET new(a) == IF a \in Absent THEN [mem[a] EXCEPT !.state = "CLEARED"] ELSE Reconciled(a)
      recorded == (done \cap (Changing \cup Absent)) \ failed
  IN /\ mem' = [a \in AlarmIds |-> IF a \in done THEN new(a) ELSE mem[a]]
     /\ issued' = [a \in AlarmIds |-> IF a \in done /\ new(a).occ > issued[a]
                                      THEN new(a).occ ELSE issued[a]]
     /\ row' = [a \in AlarmIds |-> IF a \in recorded THEN new(a) ELSE row[a]]
     /\ astray' = [a \in AlarmIds |->
                     IF a \in failed THEN astray[a] \cup {"missed"}
                     ELSE IF a \in recorded THEN {}
                     ELSE IF a \in done \cap Reopening THEN astray[a] \cup {"reopened"}
                     ELSE astray[a]]

Reconcile ==
  /\ pub.pc = "reconcile"
  /\ Deal(InBatch \cup Absent, {})
  /\ pub' = [pub EXCEPT !.pc = "replaceGood", !.batch = NoBatch, !.view = mem']
  /\ UNCHANGED <<field, shown, health, acks, booting, faults, restarts>>

\* An exception ends the cycle.  In the constructor it counts as a failure of
\* the acquisition and empties the snapshot.
Abort ==
  IF booting THEN shown' = NoAlarms /\ CountFailure
  ELSE CycleOver /\ UNCHANGED <<shown, health>>

\* The append for one alarm throws: those after it are skipped.  Alarms of the
\* batch come first, then those that are absent from it.
ReconcileFails ==
  /\ pub.pc = "reconcile"
  /\ Fault
  /\ \/ \E f \in Changing : \E before \in SUBSET (InBatch \ {f}) : Deal(before \cup {f}, {f})
     \/ \E f \in Absent : \E before \in SUBSET (Absent \ {f}) :
          Deal(InBatch \cup before \cup {f}, {f})
  /\ Abort
  /\ UNCHANGED <<field, acks, restarts>>

\* Telemetry, before it, or occurrences and rules, after it, throw.
CycleFails ==
  /\ pub.pc \in {"reconcile", "replaceGood"}
  /\ Fault
  /\ Abort
  /\ UNCHANGED <<field, mem, row, acks, restarts, issued, astray>>

\* degradedSnapshotForAcquisitionFailure copies the alarms under alarmMutex_.
Degrade ==
  /\ pub.pc = "degrade"
  /\ pub' = [pub EXCEPT !.pc = "replaceDegraded", !.view = mem]
  /\ UNCHANGED <<field, mem, row, shown, health, acks, booting, faults, restarts, issued, astray>>

\* replaceLatestSnapshot
Replace ==
  /\ pub.pc \in {"replaceGood", "replaceDegraded"}
  /\ shown' = pub.view
  /\ IF pub.pc = "replaceGood"
     THEN pub' = [pub EXCEPT !.pc = "storage", !.view = NoAlarms] /\ UNCHANGED booting
     ELSE CycleOver
  /\ UNCHANGED <<field, mem, row, health, acks, faults, restarts, issued, astray>>

PublisherStep ==
  \/ ReadBatch \/ ReadFails \/ RaiseOutage \/ ClearOutage \/ RecordPlatform
  \/ Reconcile \/ ReconcileFails \/ CycleFails \/ Degrade \/ Replace \/ CheckStorage

-----------------------------------------------------------------------------
(* Acknowledgements: the section under alarmMutex_, the record, and the    *)
(* read-modify-replace of the snapshot.                                    *)

Acknowledge(k) ==
  /\ acks[k].pc = "idle" /\ ~booting
  /\ \E a \in AlarmIds :
       /\ mem[a] # NoAlarm /\ mem[a].state = "ACTIVE"
       /\ mem' = [mem EXCEPT ![a].state = "ACKNOWLEDGED"]
       /\ acks' = [acks EXCEPT ![k].pc = "record", ![k].alarm = a, ![k].copy = mem'[a]]
  /\ UNCHANGED <<field, row, shown, health, pub, booting, faults, restarts, issued, astray>>

RecordAck(k) ==
  /\ acks[k].pc = "record"
  /\ \/ /\ Store(acks[k].alarm, acks[k].copy)
        /\ acks' = [acks EXCEPT ![k].pc = "read", ![k].stored = TRUE]
     \/ /\ StoreFails(acks[k].alarm)
        /\ acks' = [acks EXCEPT ![k].pc = "done"]
  /\ UNCHANGED <<field, mem, shown, health, pub, booting, restarts, issued>>

ReadView(k) ==
  /\ acks[k].pc = "read"
  /\ acks' = [acks EXCEPT ![k].pc = "replace", ![k].view = shown]
  /\ UNCHANGED <<field, mem, row, shown, health, pub, booting, faults, restarts, issued, astray>>

ReplaceView(k) ==
  /\ acks[k].pc = "replace"
  /\ shown' = [acks[k].view EXCEPT ![acks[k].alarm] = acks[k].copy]
  /\ acks' = [acks EXCEPT ![k].pc = "done", ![k].view = NoAlarms]
  /\ UNCHANGED <<field, mem, row, health, pub, booting, faults, restarts, issued, astray>>

AckStep(k) == RecordAck(k) \/ ReadView(k) \/ ReplaceView(k)

-----------------------------------------------------------------------------
(* The process dies between any two steps; the constructor then restores   *)
(* alarmStates_ with replayAlarmStates and reads a first batch.            *)

Restart ==
  /\ restarts < MaxRestarts /\ restarts' = restarts + 1
  /\ mem' = row
  /\ shown' = NoAlarms
  /\ health' = [state |-> "INIT", fails |-> 0, read |-> FALSE,
                restored |-> Open(row[Acquisition])]
  /\ pub' = [pub EXCEPT !.pc = "read", !.batch = NoBatch, !.note = NoAlarm, !.view = NoAlarms]
  /\ acks' = [k \in Acks |-> IF acks[k].pc = "idle" THEN acks[k]
                             ELSE [acks[k] EXCEPT !.pc = "done", !.view = NoAlarms]]
  /\ booting' = TRUE
  /\ astray' = [a \in AlarmIds |-> {}]
  /\ UNCHANGED <<field, row, faults, issued>>

AlarmNext ==
  \/ \E a \in FieldAlarms : Begin(a) \/ End(a)
  \/ PublisherStep
  \/ \E k \in Acks : Acknowledge(k) \/ AckStep(k)
  \/ Restart

AlarmSpec == AlarmInit /\ [][AlarmNext]_alarmVars

\* The publisher's thread and the threads that serve calls are scheduled.
FairAlarmSpec ==
  /\ AlarmSpec
  /\ WF_alarmVars(PublisherStep)
  /\ \A k \in Acks : WF_alarmVars(AckStep(k))

-----------------------------------------------------------------------------
(* Properties                                                              *)

PubSteps == {"read", "raise", "recordOutage", "recover", "recordRecovery", "degrade",
             "reconcile", "replaceGood", "replaceDegraded", "storage", "recordStorage"}
Alarms == [AlarmIds -> Alarm \cup {NoAlarm}]

\* Type correctness of the state.
AlarmTypeOK ==
  /\ field \in [FieldAlarms -> [active : BOOLEAN, raised : Nat]]
  /\ {mem, row, shown} \subseteq Alarms
  /\ health \in [state : {"INIT", "GOOD", "DEGRADED", "STALE", "OFFLINE"}, fails : Nat,
                 read : BOOLEAN, restored : BOOLEAN]
  /\ pub \in [pc : PubSteps, kind : {"batch", "v1"},
              batch : [complete : SUBSET Devices, raw : [FieldAlarms -> Report]],
              note : Alarm \cup {NoAlarm}, view : Alarms]
  /\ acks \in [Acks -> [pc : {"idle", "record", "read", "replace", "done"}, alarm : AlarmIds,
                        copy : Alarm \cup {NoAlarm}, stored : BOOLEAN, view : Alarms]]
  /\ booting \in BOOLEAN /\ faults \in Nat /\ restarts \in Nat
  /\ issued \in [AlarmIds -> Nat]
  /\ astray \in [AlarmIds -> SUBSET {"late", "missed", "reopened"}]

Recording(a) ==
  \/ \E k \in Acks : acks[k].pc = "record" /\ acks[k].alarm = a
  \/ a = Acquisition /\ pub.pc \in {"recordOutage", "recordRecovery"}
  \/ a = Storage /\ pub.pc = "recordStorage"

\* The historian's row of an alarm, which a restart brings back, agrees with
\* memory whenever nobody is about to record it, except for the three reasons
\* that the code leaves: an append that failed, which is not repeated; an
\* occurrence that was reopened without an event; and a record that was made
\* outside alarmMutex_ and came after a later one.
DurableFollows ==
  \A a \in AlarmIds : ~Recording(a) /\ astray[a] = {} => Same(row[a], mem[a])

\* An acknowledgement of a field alarm that was stored, and so answered with
\* success, lasts: as long as its occurrence is open, memory and row show it as
\* acknowledged, after a restart too (unless the occurrence was closed and
\* reopened), whatever other records fail or come late.
AckSurvives ==
  \A k \in Acks :
    LET a == acks[k].alarm IN
      acks[k].stored /\ a \in FieldAlarms /\ Open(mem[a])
        /\ mem[a].occ = acks[k].copy.occ /\ "reopened" \notin astray[a]
      => mem[a].state = "ACKNOWLEDGED" /\ row[a].state = "ACKNOWLEDGED"

\* A field alarm is cleared only by a batch that was read while its condition
\* was over: a failed device, a failed reading or a restart clears nothing that
\* is still true.
NoFalseClear ==
  [][\A a \in FieldAlarms :
       Open(mem[a]) /\ ~Open(mem'[a]) /\ restarts' = restarts => ~field[a].active]_alarmVars

\* Between two cycles, an outage of the acquisition is alarmed, and an alarm
\* about it that outlasts it is one that was restored at the start: the
\* service clears it only after failures that it counted itself.
OutageIsAlarmed ==
  pub.pc = "read" =>
    /\ health.state \in {"STALE", "OFFLINE"} => Open(mem[Acquisition])
    /\ health.state = "GOOD" /\ Open(mem[Acquisition]) => health.restored

FieldRests == <>[][UNCHANGED field]_alarmVars

\* Once the field comes to rest (faults, restarts and acknowledgements are
\* bounded), memory comes to agree with it and the API with memory, whatever
\* copies were replaced in which order.
ViewConverges ==
  FieldRests => <>[](/\ \A a \in FieldAlarms : Open(mem[a]) <=> field[a].active
                     /\ \A a \in AlarmIds : Same(shown[a], mem[a]))

=============================================================================
