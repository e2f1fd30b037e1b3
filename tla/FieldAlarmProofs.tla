---------------------------- MODULE FieldAlarmProofs ----------------------------
(***************************************************************************)
(* Typing of FieldAlarm and its safety properties, for any alarms, devices *)
(* and calls, and any number of faults and restarts.                       *)
(***************************************************************************)
EXTENDS FieldAlarm, TLAPS

\* A batch that is dealt with says of each alarm what the field would say now.
BatchInv ==
  pub.pc \in {"recover", "recordRecovery", "reconcile"} =>
    \A a \in FieldAlarms : pub.batch.raw[a] \in Reportable(a, pub.batch.complete)

\* Occurrences of field alarms are numbered as they are issued.
Issued(a, alarm) == alarm # NoAlarm => alarm.occ <= issued[a]

IssuedInv == \A a \in FieldAlarms : Issued(a, mem[a]) /\ Issued(a, row[a])

\* The occurrence that a call has acknowledged is open, and was not reopened.
Stands(k) ==
  LET a == acks[k].alarm IN
    Open(mem[a]) /\ mem[a].occ = acks[k].copy.occ /\ "reopened" \notin astray[a]

\* What memory and row say of it, from the acknowledgement on and from its
\* record on; the row says it even of an occurrence that memory has left.
AckInv ==
  \A k \in Acks :
    LET a == acks[k].alarm
        copy == acks[k].copy
    IN /\ acks[k].stored => acks[k].pc \in {"read", "replace", "done"}
       /\ a \in FieldAlarms /\ acks[k].pc # "idle" =>
            copy \in Alarm /\ copy.state = "ACKNOWLEDGED" /\ copy.occ <= issued[a]
       /\ a \in FieldAlarms /\ (acks[k].pc = "record" \/ acks[k].stored) /\ Stands(k) =>
            mem[a].state = "ACKNOWLEDGED"
       /\ a \in FieldAlarms /\ acks[k].stored /\ Stands(k) => row[a].state = "ACKNOWLEDGED"
       /\ a \in FieldAlarms /\ acks[k].stored /\ Open(row[a]) /\ row[a].occ = copy.occ =>
            row[a].state = "ACKNOWLEDGED"

\* An outage is alarmed unless that is the next step; an alarm that was not
\* restored has a failure counted, which lets the next success clear it.
OutageInv ==
  /\ pub.pc = "raise" => health.fails > 0 /\ health.state # "GOOD"
  /\ pub.pc = "recover" => health.state = "GOOD"
  /\ pub.pc # "raise" /\ health.state \in {"STALE", "OFFLINE"} => Open(mem[Acquisition])
  /\ pub.pc # "recover" /\ Open(mem[Acquisition]) /\ ~health.restored =>
       health.fails > 0 /\ health.state # "GOOD"

AlarmInv == AlarmTypeOK /\ BatchInv /\ DurableFollows /\ IssuedInv /\ AckInv /\ OutageInv

LEMMA Ids ==
  /\ Acquisition \in AlarmIds /\ Storage \in AlarmIds /\ FieldAlarms \subseteq AlarmIds
  /\ Acquisition \notin FieldAlarms /\ Storage \notin FieldAlarms /\ Acquisition # Storage
  /\ AlarmIds = FieldAlarms \cup {Acquisition, Storage}
BY AlarmAssumption DEF AlarmIds, Acquisition, Storage

LEMMA NoAlarmsType == NoAlarms \in Alarms /\ \A a \in AlarmIds : NoAlarms[a] = NoAlarm
BY DEF NoAlarms, Alarms

LEMMA NoBatchType ==
  NoBatch \in [complete : SUBSET Devices, raw : [FieldAlarms -> Report]]
BY DEF NoBatch, Report

-------------------------------------------------------------------------------
(* Typing *)

LEMMA InitType == AlarmInit => AlarmTypeOK
<1> SUFFICES ASSUME AlarmInit PROVE AlarmTypeOK
  OBVIOUS
<1> USE DEF AlarmInit
<1>1. {mem, row, shown} \subseteq Alarms
  BY NoAlarmsType
<1>2. pub \in [pc : PubSteps, kind : {"batch", "v1"},
               batch : [complete : SUBSET Devices, raw : [FieldAlarms -> Report]],
               note : Alarm \cup {NoAlarm}, view : Alarms]
  BY NoAlarmsType, NoBatchType DEF PubSteps
<1>3. acks \in [Acks -> [pc : {"idle", "record", "read", "replace", "done"}, alarm : AlarmIds,
                         copy : Alarm \cup {NoAlarm}, stored : BOOLEAN, view : Alarms]]
  BY NoAlarmsType, Ids
<1>4. field \in [FieldAlarms -> [active : BOOLEAN, raised : Nat]]
  OBVIOUS
<1>5. issued \in [AlarmIds -> Nat] /\ astray \in [AlarmIds -> SUBSET {"late", "missed", "reopened"}]
  OBVIOUS
<1>6. /\ health \in [state : {"INIT", "GOOD", "DEGRADED", "STALE", "OFFLINE"}, fails : Nat,
                     read : BOOLEAN, restored : BOOLEAN]
      /\ booting \in BOOLEAN /\ faults \in Nat /\ restarts \in Nat
  OBVIOUS
<1> QED
  BY <1>1, <1>2, <1>3, <1>4, <1>5, <1>6 DEF AlarmTypeOK

\* The world, and what only passes the publisher's step on.
LEMMA WorldType ==
  ASSUME AlarmTypeOK, NEW a \in FieldAlarms, Begin(a) \/ End(a)
  PROVE  AlarmTypeOK'
<1>1. field' \in [FieldAlarms -> [active : BOOLEAN, raised : Nat]]
  <2>1. field[a] \in [active : BOOLEAN, raised : Nat]
    BY DEF AlarmTypeOK
  <2>2. PICK x \in [active : BOOLEAN, raised : Nat] : field' = [field EXCEPT ![a] = x]
    <3>1. CASE field' = [field EXCEPT ![a] = [active |-> TRUE, raised |-> field[a].raised + 1]]
      <4>1. [active |-> TRUE, raised |-> field[a].raised + 1] \in [active : BOOLEAN, raised : Nat]
        BY <2>1
      <4> QED
        BY <3>1, <4>1
    <3>2. CASE field' = [field EXCEPT ![a].active = TRUE]
      BY <2>1, <3>2
    <3>3. CASE field' = [field EXCEPT ![a].active = FALSE]
      BY <2>1, <3>3
    <3> QED
      BY <3>1, <3>2, <3>3 DEF Begin, End
  <2> QED
    BY <2>2 DEF AlarmTypeOK
<1>2. UNCHANGED <<mem, row, shown, health, pub, acks, booting, faults, restarts, issued, astray>>
  BY DEF Begin, End
<1> QED
  BY <1>1, <1>2 DEF AlarmTypeOK

LEMMA CycleOverType ==
  ASSUME AlarmTypeOK, CycleOver
  PROVE  /\ pub' \in [pc : PubSteps, kind : {"batch", "v1"},
                      batch : [complete : SUBSET Devices, raw : [FieldAlarms -> Report]],
                      note : Alarm \cup {NoAlarm}, view : Alarms]
         /\ booting' \in BOOLEAN
BY NoAlarmsType, NoBatchType DEF CycleOver, AlarmTypeOK, PubSteps

LEMMA CountFailureType ==
  ASSUME AlarmTypeOK, CountFailure
  PROVE  /\ pub' \in [pc : PubSteps, kind : {"batch", "v1"},
                      batch : [complete : SUBSET Devices, raw : [FieldAlarms -> Report]],
                      note : Alarm \cup {NoAlarm}, view : Alarms]
         /\ health' \in [state : {"INIT", "GOOD", "DEGRADED", "STALE", "OFFLINE"}, fails : Nat,
                         read : BOOLEAN, restored : BOOLEAN]
         /\ booting' \in BOOLEAN
         /\ pub'.pc \in {"degrade", "raise"} /\ health'.state # "GOOD" /\ health'.fails > 0
         /\ pub'.pc = "degrade" => health'.state = "DEGRADED"
<1>1. PICK age \in {"fresh", "stale", "offline"}, state \in {"OFFLINE", "STALE", "DEGRADED"} :
        /\ health' = [health EXCEPT !.state = state, !.fails = @ + 1, !.restored = FALSE]
        /\ pub' = [pub EXCEPT !.pc = IF state = "DEGRADED" THEN "degrade" ELSE "raise",
                              !.batch = NoBatch, !.view = NoAlarms]
        /\ UNCHANGED booting
  BY DEF CountFailure
<1>2. /\ health'.fails > 0
      /\ health' \in [state : {"INIT", "GOOD", "DEGRADED", "STALE", "OFFLINE"}, fails : Nat,
                      read : BOOLEAN, restored : BOOLEAN]
      /\ health'.state = state
  <2>1. /\ health \in [state : {"INIT", "GOOD", "DEGRADED", "STALE", "OFFLINE"}, fails : Nat,
                       read : BOOLEAN, restored : BOOLEAN]
        /\ health.fails + 1 \in Nat /\ health.fails + 1 > 0
    BY DEF AlarmTypeOK
  <2> DEFINE fails == health.fails + 1
  <2>2. health' = [health EXCEPT !.state = state, !.fails = fails, !.restored = FALSE]
    BY <1>1
  <2>3. fails \in Nat /\ fails > 0
    BY <2>1
  <2> HIDE DEF fails
  <2> QED
    BY <2>1, <2>2, <2>3
<1>3. /\ pub' \in [pc : PubSteps, kind : {"batch", "v1"},
                   batch : [complete : SUBSET Devices, raw : [FieldAlarms -> Report]],
                   note : Alarm \cup {NoAlarm}, view : Alarms]
      /\ pub'.pc = IF state = "DEGRADED" THEN "degrade" ELSE "raise"
  BY <1>1, NoAlarmsType, NoBatchType DEF AlarmTypeOK, PubSteps
<1> QED
  BY <1>1, <1>2, <1>3 DEF AlarmTypeOK

LEMMA AbortType ==
  ASSUME AlarmTypeOK, Abort
  PROVE  /\ pub' \in [pc : PubSteps, kind : {"batch", "v1"},
                      batch : [complete : SUBSET Devices, raw : [FieldAlarms -> Report]],
                      note : Alarm \cup {NoAlarm}, view : Alarms]
         /\ health' \in [state : {"INIT", "GOOD", "DEGRADED", "STALE", "OFFLINE"}, fails : Nat,
                         read : BOOLEAN, restored : BOOLEAN]
         /\ booting' \in BOOLEAN /\ shown' \in Alarms
BY CycleOverType, CountFailureType, NoAlarmsType DEF Abort, AlarmTypeOK

LEMMA FaultType == AlarmTypeOK /\ (Fault \/ UNCHANGED faults) => faults' \in Nat
BY DEF Fault, AlarmTypeOK

LEMMA ReadBatchType ==
  ASSUME AlarmTypeOK, ReadBatch
  PROVE  AlarmTypeOK'
<1>1. PICK complete \in SUBSET Devices, raw \in [FieldAlarms -> Report], partial \in BOOLEAN,
           pc \in {"recover", "reconcile"} :
        /\ Fault \/ UNCHANGED faults
        /\ health' = IF partial THEN [health EXCEPT !.state = "DEGRADED", !.read = TRUE]
                     ELSE [health EXCEPT !.state = "GOOD", !.read = TRUE, !.fails = 0]
        /\ pub' = [pub EXCEPT !.pc = pc, !.batch = [complete |-> complete, raw |-> raw]]
  BY DEF ReadBatch
<1>2. faults' \in Nat
  BY <1>1, FaultType
<1>3. health' \in [state : {"INIT", "GOOD", "DEGRADED", "STALE", "OFFLINE"}, fails : Nat,
                   read : BOOLEAN, restored : BOOLEAN]
  BY <1>1 DEF AlarmTypeOK
<1>4. pub' \in [pc : PubSteps, kind : {"batch", "v1"},
                batch : [complete : SUBSET Devices, raw : [FieldAlarms -> Report]],
                note : Alarm \cup {NoAlarm}, view : Alarms]
  BY <1>1 DEF AlarmTypeOK, PubSteps
<1>5. UNCHANGED <<field, mem, row, shown, acks, booting, restarts, issued, astray>>
  BY DEF ReadBatch
<1> QED
  BY <1>2, <1>3, <1>4, <1>5 DEF AlarmTypeOK

\* The steps of the publisher that leave the alarms alone.
LEMMA CycleType ==
  ASSUME AlarmTypeOK, ReadFails \/ CycleFails \/ Degrade \/ Replace
  PROVE  AlarmTypeOK'
<1>1. UNCHANGED <<field, mem, row, acks, restarts, issued, astray>>
  BY DEF ReadFails, CycleFails, Degrade, Replace
<1>2. CASE ReadFails
  BY <1>1, <1>2, CountFailureType, FaultType, NoAlarmsType DEF ReadFails, AlarmTypeOK
<1>3. CASE CycleFails
  BY <1>1, <1>3, AbortType, FaultType DEF CycleFails, AlarmTypeOK
<1>4. CASE Degrade
  BY <1>1, <1>4 DEF Degrade, AlarmTypeOK, PubSteps
<1>5. CASE Replace
  <2>1. shown' \in Alarms /\ faults' \in Nat /\ UNCHANGED health
    BY <1>5 DEF Replace, AlarmTypeOK
  <2>2. CASE pub.pc = "replaceGood"
    <3>1. pub' = [pub EXCEPT !.pc = "storage", !.view = NoAlarms] /\ UNCHANGED booting
      BY <1>5, <2>2 DEF Replace
    <3>2. pub' \in [pc : PubSteps, kind : {"batch", "v1"},
                    batch : [complete : SUBSET Devices, raw : [FieldAlarms -> Report]],
                    note : Alarm \cup {NoAlarm}, view : Alarms]
      BY <3>1, NoAlarmsType DEF AlarmTypeOK, PubSteps
    <3> QED
      BY <1>1, <2>1, <3>1, <3>2 DEF AlarmTypeOK
  <2>3. CASE pub.pc # "replaceGood"
    BY <1>1, <1>5, <2>1, <2>3, CycleOverType DEF Replace, AlarmTypeOK
  <2> QED
    BY <2>2, <2>3
<1> QED
  BY <1>2, <1>3, <1>4, <1>5

\* What an alarm of the platform becomes under alarmMutex_: it is opened, or
\* closed, to be recorded next, or it stays.
Goes(a, unhealthy, recording) ==
  /\ IF unhealthy = Open(mem[a])
     THEN UNCHANGED <<mem, issued>>
     ELSE \E next \in Alarm :
            /\ mem' = [mem EXCEPT ![a] = next] /\ (unhealthy <=> next.state # "CLEARED")
            /\ issued' \in [AlarmIds -> Nat] /\ \A b \in FieldAlarms : issued'[b] = issued[b]
            /\ pub' = [pub EXCEPT !.pc = recording, !.note = next] /\ UNCHANGED booting
  /\ UNCHANGED <<field, row, shown, acks, restarts, astray>>

LEMMA PlatformAlarmGoes ==
  ASSUME AlarmTypeOK, NEW a \in {Acquisition, Storage}, NEW unhealthy \in BOOLEAN,
         NEW recording, NEW otherwise,
         PlatformAlarm(a, unhealthy, recording, otherwise)
  PROVE  Goes(a, unhealthy, recording)
<1> DEFINE next == IF unhealthy THEN RaisedNow(a) ELSE [mem[a] EXCEPT !.state = "CLEARED"]
<1>1. /\ a \in AlarmIds /\ a \notin FieldAlarms /\ mem[a] \in Alarm \cup {NoAlarm}
      /\ issued \in [AlarmIds -> Nat] /\ issued[a] \in Nat
  BY Ids DEF AlarmTypeOK, Alarms
<1>2. UNCHANGED <<field, row, shown, acks, restarts, astray>>
  BY DEF PlatformAlarm
<1>3. CASE unhealthy = Open(mem[a])
  BY <1>2, <1>3 DEF PlatformAlarm, Goes
<1>4. CASE unhealthy # Open(mem[a])
  <2>1. next \in Alarm /\ (unhealthy <=> next.state # "CLEARED")
    <3>1. CASE unhealthy
      <4>1. RaisedNow(a) \in Alarm /\ RaisedNow(a).state = "ACTIVE"
        BY <1>1 DEF RaisedNow, Alarm
      <4> QED
        BY <3>1, <4>1
    <3>2. CASE ~unhealthy
      <4>1. mem[a] \in Alarm
        BY <1>1, <1>4, <3>2 DEF Open
      <4>2. [mem[a] EXCEPT !.state = "CLEARED"] \in Alarm
        BY <4>1 DEF Alarm
      <4>3. [mem[a] EXCEPT !.state = "CLEARED"].state = "CLEARED"
        BY <4>1 DEF Alarm
      <4> QED
        BY <3>2, <4>2, <4>3
    <3> QED
      BY <3>1, <3>2
  <2>2. /\ mem' = [mem EXCEPT ![a] = next]
        /\ issued' = IF unhealthy THEN [issued EXCEPT ![a] = @ + 1] ELSE issued
        /\ pub' = [pub EXCEPT !.pc = recording, !.note = next] /\ UNCHANGED booting
    BY <1>4 DEF PlatformAlarm
  <2> HIDE DEF next
  <2>3. issued' \in [AlarmIds -> Nat] /\ \A b \in FieldAlarms : issued'[b] = issued[b]
    BY <1>1, <2>2, Ids
  <2> QED
    BY <1>2, <1>4, <2>1, <2>2, <2>3 DEF Goes
<1> QED
  BY <1>3, <1>4

\* The three steps that call it.
LEMMA PlatformSteps ==
  ASSUME AlarmTypeOK, RaiseOutage \/ ClearOutage \/ CheckStorage
  PROVE  /\ UNCHANGED health
         /\ \/ /\ pub.pc = "raise" /\ Goes(Acquisition, TRUE, "recordOutage") /\ UNCHANGED faults
               /\ Open(mem[Acquisition]) => GoTo("degrade")
            \/ /\ pub.pc = "recover" /\ Goes(Acquisition, FALSE, "recordRecovery") /\ UNCHANGED faults
               /\ ~Open(mem[Acquisition]) => GoTo("reconcile")
            \/ /\ pub.pc = "storage" /\ (Fault \/ UNCHANGED faults)
               /\ \E full \in BOOLEAN : /\ Goes(Storage, full, "recordStorage")
                                        /\ full = Open(mem[Storage]) => CycleOver
<1>1. Open(mem[Acquisition]) \in BOOLEAN
  BY DEF Open
<1>2. CASE RaiseOutage
  <2>1. PlatformAlarm(Acquisition, TRUE, "recordOutage", GoTo("degrade"))
    BY <1>2 DEF RaiseOutage
  <2>2. Open(mem[Acquisition]) => GoTo("degrade")
    BY <1>1, <2>1 DEF PlatformAlarm
  <2>3. Goes(Acquisition, TRUE, "recordOutage")
    BY <2>1, PlatformAlarmGoes
  <2> QED
    BY <1>2, <2>2, <2>3 DEF RaiseOutage
<1>3. CASE ClearOutage
  <2>1. PlatformAlarm(Acquisition, FALSE, "recordRecovery", GoTo("reconcile"))
    BY <1>3 DEF ClearOutage
  <2>2. ~Open(mem[Acquisition]) => GoTo("reconcile")
    BY <1>1, <2>1 DEF PlatformAlarm
  <2>3. Goes(Acquisition, FALSE, "recordRecovery")
    BY <2>1, PlatformAlarmGoes
  <2> QED
    BY <1>3, <2>2, <2>3 DEF ClearOutage
<1>4. CASE CheckStorage
  <2>1. PICK full \in BOOLEAN : /\ Fault \/ UNCHANGED faults
                               /\ PlatformAlarm(Storage, full, "recordStorage", CycleOver)
    BY <1>4 DEF CheckStorage
  <2>2. full = Open(mem[Storage]) => CycleOver
    BY <2>1 DEF PlatformAlarm
  <2>3. Goes(Storage, full, "recordStorage")
    BY <2>1, PlatformAlarmGoes
  <2> QED
    BY <1>4, <2>1, <2>2, <2>3 DEF CheckStorage
<1> QED
  BY <1>2, <1>3, <1>4

LEMMA GoesType ==
  ASSUME AlarmTypeOK, NEW a \in {Acquisition, Storage}, NEW unhealthy \in BOOLEAN,
         NEW recording \in PubSteps, Goes(a, unhealthy, recording),
         unhealthy = Open(mem[a]) => 
           /\ pub' \in [pc : PubSteps, kind : {"batch", "v1"},
                        batch : [complete : SUBSET Devices, raw : [FieldAlarms -> Report]],
                        note : Alarm \cup {NoAlarm}, view : Alarms]
           /\ booting' \in BOOLEAN,
         UNCHANGED health, faults' \in Nat
  PROVE  AlarmTypeOK'
<1>1. a \in AlarmIds
  BY Ids
<1>2. mem' \in Alarms /\ issued' \in [AlarmIds -> Nat]
  <2>1. CASE unhealthy = Open(mem[a])
    BY <2>1 DEF Goes, AlarmTypeOK
  <2>2. CASE unhealthy # Open(mem[a])
    <3>1. PICK next \in Alarm : mem' = [mem EXCEPT ![a] = next] /\ issued' \in [AlarmIds -> Nat]
      BY <2>2 DEF Goes
    <3> QED
      BY <1>1, <3>1 DEF AlarmTypeOK, Alarms
  <2> QED
    BY <2>1, <2>2
<1>3. /\ pub' \in [pc : PubSteps, kind : {"batch", "v1"},
                   batch : [complete : SUBSET Devices, raw : [FieldAlarms -> Report]],
                   note : Alarm \cup {NoAlarm}, view : Alarms]
      /\ booting' \in BOOLEAN
  <2>1. CASE unhealthy = Open(mem[a])
    BY <2>1
  <2>2. CASE unhealthy # Open(mem[a])
    BY <2>2 DEF Goes, AlarmTypeOK
  <2> QED
    BY <2>1, <2>2
<1>4. UNCHANGED <<field, row, shown, acks, restarts, astray>>
  BY DEF Goes
<1> QED
  BY <1>2, <1>3, <1>4 DEF AlarmTypeOK

LEMMA GoToType ==
  ASSUME AlarmTypeOK, NEW pc \in PubSteps, GoTo(pc)
  PROVE  /\ pub' \in [pc : PubSteps, kind : {"batch", "v1"},
                      batch : [complete : SUBSET Devices, raw : [FieldAlarms -> Report]],
                      note : Alarm \cup {NoAlarm}, view : Alarms]
         /\ booting' \in BOOLEAN
BY DEF GoTo, AlarmTypeOK

LEMMA PlatformType ==
  ASSUME AlarmTypeOK, RaiseOutage \/ ClearOutage \/ CheckStorage
  PROVE  AlarmTypeOK'
<1>1. {"recordOutage", "recordRecovery", "recordStorage", "degrade", "reconcile"} \subseteq PubSteps
  BY DEF PubSteps
<1>2. faults' \in Nat /\ UNCHANGED health
  BY PlatformSteps, FaultType DEF AlarmTypeOK
<1>3. CASE Goes(Acquisition, TRUE, "recordOutage") /\ (Open(mem[Acquisition]) => GoTo("degrade"))
  BY <1>1, <1>2, <1>3, GoToType, GoesType
<1>4. CASE Goes(Acquisition, FALSE, "recordRecovery") /\ (~Open(mem[Acquisition]) => GoTo("reconcile"))
  BY <1>1, <1>2, <1>4, GoToType, GoesType
<1>5. CASE \E full \in BOOLEAN : /\ Goes(Storage, full, "recordStorage")
                                 /\ full = Open(mem[Storage]) => CycleOver
  BY <1>1, <1>2, <1>5, CycleOverType, GoesType
<1> QED
  BY <1>3, <1>4, <1>5, PlatformSteps

LEMMA StoreType ==
  ASSUME AlarmTypeOK, NEW a \in AlarmIds, NEW alarm \in Alarm \cup {NoAlarm},
         Store(a, alarm) \/ StoreFails(a)
  PROVE  /\ row' \in Alarms /\ astray' \in [AlarmIds -> SUBSET {"late", "missed", "reopened"}]
         /\ faults' \in Nat
<1>1. CASE Store(a, alarm)
  BY <1>1 DEF Store, AlarmTypeOK, Alarms
<1>2. CASE StoreFails(a)
  BY <1>2, FaultType DEF StoreFails, AlarmTypeOK
<1> QED
  BY <1>1, <1>2

LEMMA RecordPlatformType ==
  ASSUME AlarmTypeOK, RecordPlatform
  PROVE  AlarmTypeOK'
<1>1. row' \in Alarms /\ astray' \in [AlarmIds -> SUBSET {"late", "missed", "reopened"}]
      /\ faults' \in Nat
  <2>1. pub.note \in Alarm \cup {NoAlarm}
    BY DEF AlarmTypeOK
  <2> QED
    BY <2>1, StoreType, Ids DEF RecordPlatform
<1>2. /\ pub' \in [pc : PubSteps, kind : {"batch", "v1"},
                   batch : [complete : SUBSET Devices, raw : [FieldAlarms -> Report]],
                   note : Alarm \cup {NoAlarm}, view : Alarms]
      /\ booting' \in BOOLEAN
  <2>1. "degrade" \in PubSteps /\ "reconcile" \in PubSteps
    BY DEF PubSteps
  <2>2. GoTo("degrade") \/ GoTo("reconcile") \/ CycleOver
    BY DEF RecordPlatform
  <2> QED
    BY <2>1, <2>2, GoToType, CycleOverType
<1>3. UNCHANGED <<field, mem, shown, health, acks, restarts, issued>>
  BY DEF RecordPlatform
<1> QED
  BY <1>1, <1>2, <1>3 DEF AlarmTypeOK

-------------------------------------------------------------------------------
(* What reconcileAlarms makes of each alarm *)

LEMMA FieldTypes ==
  ASSUME AlarmTypeOK, NEW a \in FieldAlarms
  PROVE  /\ a \in AlarmIds /\ mem[a] \in Alarm \cup {NoAlarm} /\ issued[a] \in Nat
         /\ field[a].raised \in Nat /\ field[a].active \in BOOLEAN
         /\ Batch.raw[a] \in {"absent", "ACTIVE", "CLEARED"}
<1>1. a \in AlarmIds
  BY Ids
<1>2. mem[a] \in Alarm \cup {NoAlarm} /\ issued[a] \in Nat
  BY <1>1 DEF AlarmTypeOK, Alarms
<1>3. field[a].raised \in Nat /\ field[a].active \in BOOLEAN
  BY DEF AlarmTypeOK
<1>4. Batch.raw \in [FieldAlarms -> Report]
  BY DEF Batch, AlarmTypeOK
<1> QED
  BY <1>1, <1>2, <1>3, <1>4 DEF Report

\* A reading's state, with the occurrence that is known or a new one.
LEMMA ReconciledIs ==
  ASSUME AlarmTypeOK, NEW a \in InBatch
  PROVE  /\ Reconciled(a) \in Alarm
         /\ Batch.raw[a] = "CLEARED" => Reconciled(a).state = "CLEARED"
         /\ Batch.raw[a] = "ACTIVE" => Reconciled(a).state # "CLEARED"
         /\ mem[a] = NoAlarm => Reconciled(a).occ = issued[a] + 1 /\ Reconciled(a).state = Batch.raw[a]
         /\ mem[a] # NoAlarm /\ Batch.raw[a] = "CLEARED" => Reconciled(a).occ = mem[a].occ
         /\ mem[a] # NoAlarm /\ Batch.raw[a] = "ACTIVE" =>
              \/ Open(mem[a]) /\ Reconciled(a).state = mem[a].state /\ Reconciled(a).occ = mem[a].occ
              \/ ~Open(mem[a]) /\ Reconciled(a).state = "ACTIVE"
                   /\ Reconciled(a).occ \in {mem[a].occ, issued[a] + 1}
<1>1. a \in FieldAlarms /\ Batch.raw[a] # "absent"
  BY DEF InBatch
<1>2. Batch.raw[a] \in {"ACTIVE", "CLEARED"}
  BY <1>1, FieldTypes
<1>3. \A state \in {"ACTIVE", "ACKNOWLEDGED", "CLEARED"}, occ \in Nat :
        /\ FromReading(a, state, occ) \in Alarm
        /\ FromReading(a, state, occ).state = state /\ FromReading(a, state, occ).occ = occ
  BY <1>1, FieldTypes DEF FromReading, Alarm
<1>4. issued[a] + 1 \in Nat
  BY <1>1, FieldTypes
<1>5. CASE mem[a] = NoAlarm
  <2>1. Reconciled(a) = FromReading(a, Batch.raw[a], issued[a] + 1)
    BY <1>5 DEF Reconciled
  <2> QED
    BY <1>2, <1>3, <1>4, <1>5, <2>1
<1>6. CASE mem[a] # NoAlarm
  <2>1. /\ mem[a] \in Alarm /\ mem[a].occ \in Nat
        /\ mem[a].state \in {"ACTIVE", "ACKNOWLEDGED", "CLEARED"}
    BY <1>1, <1>6, FieldTypes DEF Alarm
  <2>2. CASE Batch.raw[a] = "CLEARED"
    <3>1. Reconciled(a) = FromReading(a, "CLEARED", mem[a].occ)
      BY <1>6, <2>2 DEF Reconciled
    <3> QED
      BY <1>3, <1>6, <2>1, <2>2, <3>1
  <2>3. CASE Batch.raw[a] = "ACTIVE" /\ mem[a].state = "CLEARED"
    <3>1. \/ Reconciled(a) = FromReading(a, "ACTIVE", issued[a] + 1)
          \/ Reconciled(a) = FromReading(a, "ACTIVE", mem[a].occ)
      BY <1>6, <2>3 DEF Reconciled
    <3> QED
      BY <1>3, <1>4, <1>6, <2>1, <2>3, <3>1 DEF Open
  <2>4. CASE Batch.raw[a] = "ACTIVE" /\ mem[a].state # "CLEARED"
    <3>1. Reconciled(a) = FromReading(a, mem[a].state, mem[a].occ)
      BY <1>6, <2>1, <2>4 DEF Reconciled
    <3> QED
      BY <1>3, <1>6, <2>1, <2>4, <3>1 DEF Open
  <2> QED
    BY <1>2, <2>2, <2>3, <2>4
<1> QED
  BY <1>5, <1>6

\* A new occurrence, or the end of one that was open ...
Fresh(a) ==
  /\ mem'[a].state \in {"ACTIVE", "CLEARED"}
  /\ mem'[a].occ = issued[a] + 1 /\ issued'[a] = issued[a] + 1
  /\ ~Open(mem[a])

Closed(a) ==
  /\ Open(mem[a])
  /\ mem'[a].state = "CLEARED" /\ mem'[a].occ = mem[a].occ /\ issued'[a] = issued[a]

\* ... is recorded, or the append fails; what is as it was, or reopened, is not.
Dealt(a) ==
  \/ /\ mem'[a] = mem[a] /\ row'[a] = row[a]
     /\ issued'[a] = issued[a] /\ astray'[a] = astray[a]
  \/ /\ mem[a] # NoAlarm /\ mem'[a] \in Alarm
     /\ mem'[a].state = mem[a].state /\ mem'[a].occ = mem[a].occ
     /\ row'[a] = row[a] /\ issued'[a] = issued[a] /\ astray'[a] = astray[a]
  \/ /\ mem[a] # NoAlarm /\ ~Open(mem[a])
     /\ mem'[a] \in Alarm /\ mem'[a].state = "ACTIVE" /\ mem'[a].occ = mem[a].occ
     /\ row'[a] = row[a] /\ issued'[a] = issued[a] /\ "reopened" \in astray'[a]
  \/ /\ mem'[a] \in Alarm /\ (Fresh(a) \/ Closed(a))
     /\ \/ row'[a] = mem'[a] /\ astray'[a] = {}
        \/ row'[a] = row[a] /\ astray'[a] = astray[a] \cup {"missed"}

\* A batch, whole or cut short by a failed append, does one of the above to an alarm.
LEMMA DealtWith ==
  ASSUME AlarmTypeOK, IssuedInv,
         NEW done \in SUBSET (InBatch \cup Absent), NEW failed \in SUBSET (done \cap (Changing \cup Absent)),
         Deal(done, failed)
  PROVE  /\ \A a \in AlarmIds : Dealt(a)
         /\ mem' \in Alarms /\ row' \in Alarms /\ issued' \in [AlarmIds -> Nat]
         /\ astray' \in [AlarmIds -> SUBSET {"late", "missed", "reopened"}]
<1> DEFINE new(a) == IF a \in Absent THEN [mem[a] EXCEPT !.state = "CLEARED"] ELSE Reconciled(a)
           recorded == (done \cap (Changing \cup Absent)) \ failed
<1>1. /\ mem' = [a \in AlarmIds |-> IF a \in done THEN new(a) ELSE mem[a]]
      /\ issued' = [a \in AlarmIds |-> IF a \in done /\ new(a).occ > issued[a]
                                       THEN new(a).occ ELSE issued[a]]
      /\ row' = [a \in AlarmIds |-> IF a \in recorded THEN new(a) ELSE row[a]]
      /\ astray' = [a \in AlarmIds |->
                      IF a \in failed THEN astray[a] \cup {"missed"}
                      ELSE IF a \in recorded THEN {}
                      ELSE IF a \in done \cap Reopening THEN astray[a] \cup {"reopened"}
                      ELSE astray[a]]
  BY DEF Deal
<1>2. /\ InBatch \subseteq FieldAlarms /\ Absent \subseteq FieldAlarms /\ InBatch \cap Absent = {}
      /\ Changing \subseteq InBatch
  BY DEF InBatch, Absent, Changing
<1>3. \A a \in Absent : /\ new(a) \in Alarm /\ new(a).state = "CLEARED" /\ new(a).occ = mem[a].occ
                        /\ Open(mem[a]) /\ mem[a] \in Alarm /\ mem[a].occ \in Nat
  <2> TAKE a \in Absent
  <2>1. mem[a] \in Alarm /\ Open(mem[a])
    BY <1>2, FieldTypes DEF Absent, Open
  <2> QED
    BY <2>1 DEF Alarm
<1>4. \A a \in done : new(a) \in Alarm /\ new(a).occ \in Nat
  BY <1>2, <1>3, ReconciledIs DEF Alarm
<1>5. \A a \in done \ Absent : a \in InBatch /\ new(a) = Reconciled(a)
  OBVIOUS
<1> HIDE DEF new
<1>6. \A a \in AlarmIds : Dealt(a)
  <2> TAKE a \in AlarmIds
  <2>1. CASE a \notin done
    BY <1>1, <2>1 DEF Dealt
  <2>2. CASE a \in done
    <3>1. /\ a \in FieldAlarms /\ mem'[a] = new(a) /\ mem'[a] \in Alarm /\ issued[a] \in Nat
          /\ issued'[a] = IF new(a).occ > issued[a] THEN new(a).occ ELSE issued[a]
          /\ mem[a] # NoAlarm => mem[a] \in Alarm /\ mem[a].occ \in Nat /\ mem[a].occ <= issued[a]
      BY <1>1, <1>2, <1>4, <2>2, FieldTypes DEF IssuedInv, Issued, Alarm
    <3>2. CASE a \in Changing \cup Absent
      <4>1. \/ row'[a] = mem'[a] /\ astray'[a] = {}
            \/ row'[a] = row[a] /\ astray'[a] = astray[a] \cup {"missed"}
        BY <1>1, <2>2, <3>1, <3>2
      <4>2. CASE a \in Absent
        <5>1. /\ Open(mem[a]) /\ mem[a] # NoAlarm /\ mem'[a].state = "CLEARED"
              /\ mem'[a].occ = mem[a].occ
          BY <1>3, <3>1, <4>2 DEF Open
        <5>2. issued'[a] = issued[a]
          BY <1>3, <3>1, <4>2, <5>1
        <5> QED
          BY <3>1, <4>1, <5>1, <5>2 DEF Dealt, Closed
      <4>3. CASE a \in Changing
        <5>1. a \in InBatch /\ new(a) = Reconciled(a)
          BY <1>2, <1>5, <2>2, <4>3
        <5>2. Fresh(a) \/ Closed(a)
          <6>1. CASE mem[a] = NoAlarm
            BY <3>1, <5>1, <6>1, ReconciledIs, FieldTypes DEF Fresh, Open, InBatch
          <6>2. CASE mem[a] # NoAlarm /\ Batch.raw[a] = "CLEARED"
            BY <3>1, <4>3, <5>1, <6>2, ReconciledIs DEF Closed, Changing
          <6>3. CASE mem[a] # NoAlarm /\ Batch.raw[a] = "ACTIVE"
            BY <3>1, <4>3, <5>1, <6>3, ReconciledIs DEF Fresh, Changing
          <6> QED
            BY <3>1, <5>1, <6>1, <6>2, <6>3, FieldTypes DEF InBatch
        <5> QED
          BY <3>1, <4>1, <5>2 DEF Dealt
      <4> QED
        BY <3>2, <4>2, <4>3
    <3>3. CASE a \notin Changing \cup Absent
      <4>1. a \in InBatch /\ new(a) = Reconciled(a) /\ mem[a] # NoAlarm /\ row'[a] = row[a]
        <5>1. a \in InBatch /\ new(a) = Reconciled(a)
          BY <1>5, <2>2, <3>3
        <5>2. mem[a] # NoAlarm
          BY <3>1, <3>3, <5>1, ReconciledIs, FieldTypes DEF Changing, InBatch
        <5> QED
          BY <1>1, <3>3, <5>1, <5>2
      <4>2. CASE a \in Reopening
        <5>1. astray'[a] = astray[a] \cup {"reopened"}
          BY <1>1, <2>2, <3>3, <4>2
        <5>2. ~Open(mem[a]) /\ Batch.raw[a] = "ACTIVE"
          BY <4>2 DEF Reopening
        <5>3. mem'[a].state = "ACTIVE" /\ mem'[a].occ = mem[a].occ
          BY <3>1, <3>3, <4>1, <5>2, ReconciledIs DEF Changing
        <5> QED
          BY <3>1, <4>1, <5>1, <5>2, <5>3 DEF Dealt
      <4>3. CASE a \notin Reopening
        <5>1. astray'[a] = astray[a]
          BY <1>1, <2>2, <3>3, <4>3
        <5>2. mem'[a].state = mem[a].state /\ mem'[a].occ = mem[a].occ
          <6>1. CASE Batch.raw[a] = "CLEARED"
            <7>1. ~Open(mem[a])
              BY <3>3, <4>1, <6>1, ReconciledIs DEF Changing
            <7> QED
              BY <3>1, <4>1, <6>1, <7>1, ReconciledIs DEF Open
          <6>2. CASE Batch.raw[a] = "ACTIVE"
            <7>1. Open(mem[a])
              BY <3>1, <3>3, <4>1, <4>3, <6>2 DEF Reopening
            <7> QED
              BY <3>1, <4>1, <6>2, <7>1, ReconciledIs
          <6> QED
            BY <3>1, <4>1, <6>1, <6>2, FieldTypes DEF InBatch
        <5> QED
          BY <3>1, <4>1, <5>1, <5>2 DEF Dealt
      <4> QED
        BY <4>2, <4>3
    <3> QED
      BY <3>2, <3>3
  <2> QED
    BY <2>1, <2>2
<1>7. mem' \in Alarms /\ row' \in Alarms /\ issued' \in [AlarmIds -> Nat]
  BY <1>1, <1>4 DEF AlarmTypeOK, Alarms
<1>8. astray' \in [AlarmIds -> SUBSET {"late", "missed", "reopened"}]
  BY <1>1 DEF AlarmTypeOK
<1> QED
  BY <1>6, <1>7, <1>8

\* Both forms of the step deal with the alarms.
LEMMA ReconcileDeals ==
  ASSUME AlarmTypeOK, IssuedInv, Reconcile \/ ReconcileFails
  PROVE  /\ \A a \in AlarmIds : Dealt(a)
         /\ mem' \in Alarms /\ row' \in Alarms /\ issued' \in [AlarmIds -> Nat]
         /\ astray' \in [AlarmIds -> SUBSET {"late", "missed", "reopened"}]
         /\ pub.pc = "reconcile" /\ UNCHANGED <<field, acks, restarts>>
         /\ \A a \in AlarmIds \ FieldAlarms : mem'[a] = mem[a]
         /\ \A a \in FieldAlarms : \/ mem'[a] = mem[a]
                                   \/ a \in Absent
                                   \/ a \in InBatch /\ mem'[a] = Reconciled(a)
<1>1. InBatch \cap Absent = {} /\ Changing \subseteq InBatch
  BY DEF InBatch, Absent, Changing
<1>2. PICK done \in SUBSET (InBatch \cup Absent), failed \in SUBSET (Changing \cup Absent) :
        failed \subseteq done /\ Deal(done, failed)
  <2>1. CASE Reconcile
    BY <2>1 DEF Reconcile
  <2>2. CASE \E f \in Changing : \E before \in SUBSET (InBatch \ {f}) : Deal(before \cup {f}, {f})
    <3>1. PICK f \in Changing : \E before \in SUBSET (InBatch \ {f}) : Deal(before \cup {f}, {f})
      BY <2>2
    <3>2. PICK before \in SUBSET (InBatch \ {f}) : Deal(before \cup {f}, {f})
      BY <3>1
    <3>3. /\ before \cup {f} \in SUBSET (InBatch \cup Absent)
          /\ {f} \in SUBSET (Changing \cup Absent) /\ {f} \subseteq before \cup {f}
      BY <1>1
    <3> QED
      BY <3>2, <3>3
  <2>3. CASE \E f \in Absent : \E before \in SUBSET (Absent \ {f}) :
               Deal(InBatch \cup before \cup {f}, {f})
    <3>1. PICK f \in Absent : \E before \in SUBSET (Absent \ {f}) : Deal(InBatch \cup before \cup {f}, {f})
      BY <2>3
    <3>2. PICK before \in SUBSET (Absent \ {f}) : Deal(InBatch \cup before \cup {f}, {f})
      BY <3>1
    <3>3. /\ InBatch \cup before \cup {f} \in SUBSET (InBatch \cup Absent)
          /\ {f} \in SUBSET (Changing \cup Absent) /\ {f} \subseteq InBatch \cup before \cup {f}
      BY <1>1
    <3> QED
      BY <3>2, <3>3
  <2> QED
    BY <2>1, <2>2, <2>3 DEF ReconcileFails
<1>3. \A a \in AlarmIds \ FieldAlarms : mem'[a] = mem[a]
  BY <1>2 DEF Deal, InBatch, Absent
<1>4. pub.pc = "reconcile" /\ UNCHANGED <<field, acks, restarts>>
  BY DEF Reconcile, ReconcileFails
<1>5. \A a \in FieldAlarms : \/ mem'[a] = mem[a]
                             \/ a \in Absent
                             \/ a \in InBatch /\ mem'[a] = Reconciled(a)
  <2> TAKE a \in FieldAlarms
  <2> DEFINE new(b) == IF b \in Absent THEN [mem[b] EXCEPT !.state = "CLEARED"] ELSE Reconciled(b)
  <2>1. mem' = [b \in AlarmIds |-> IF b \in done THEN new(b) ELSE mem[b]]
    BY <1>2 DEF Deal
  <2>2. a \notin Absent => new(a) = Reconciled(a)
    OBVIOUS
  <2> HIDE DEF new
  <2>3. mem'[a] = IF a \in done THEN new(a) ELSE mem[a]
    BY <2>1, Ids
  <2> QED
    BY <1>2, <2>2, <2>3
<1> QED
  BY <1>2, <1>3, <1>4, <1>5, DealtWith

LEMMA ReconcileType ==
  ASSUME AlarmTypeOK, IssuedInv, Reconcile \/ ReconcileFails
  PROVE  AlarmTypeOK'
<1>1. CASE Reconcile
  <2>1. pub' \in [pc : PubSteps, kind : {"batch", "v1"},
                  batch : [complete : SUBSET Devices, raw : [FieldAlarms -> Report]],
                  note : Alarm \cup {NoAlarm}, view : Alarms]
    BY <1>1, ReconcileDeals, NoBatchType DEF Reconcile, AlarmTypeOK, PubSteps
  <2>2. UNCHANGED <<field, shown, health, acks, booting, faults, restarts>>
    BY <1>1 DEF Reconcile
  <2> QED
    BY <2>1, <2>2, ReconcileDeals DEF AlarmTypeOK
<1>2. CASE ReconcileFails
  <2>1. Abort /\ faults' \in Nat
    BY <1>2, FaultType DEF ReconcileFails
  <2> QED
    BY <2>1, AbortType, ReconcileDeals DEF AlarmTypeOK
<1> QED
  BY <1>1, <1>2

\* The steps of an acknowledgement.
Acked == [pc : {"idle", "record", "read", "replace", "done"}, alarm : AlarmIds,
          copy : Alarm \cup {NoAlarm}, stored : BOOLEAN, view : Alarms]

LEMMA AcknowledgeType ==
  ASSUME AlarmTypeOK, NEW k \in Acks, Acknowledge(k)
  PROVE  /\ AlarmTypeOK'
         /\ acks[k].pc = "idle" /\ acks'[k].pc = "record" /\ acks'[k].stored = acks[k].stored
         /\ \A j \in Acks \ {k} : acks'[j] = acks[j]
         /\ acks'[k].alarm \in AlarmIds /\ acks'[k].copy \in Alarm
         /\ acks'[k].copy.state = "ACKNOWLEDGED" /\ acks'[k].copy.occ = mem[acks'[k].alarm].occ
         /\ mem' = [mem EXCEPT ![acks'[k].alarm] = acks'[k].copy]
         /\ mem[acks'[k].alarm] \in Alarm /\ mem[acks'[k].alarm].state = "ACTIVE"
<1>1. PICK a \in AlarmIds :
        /\ mem[a] # NoAlarm /\ mem[a].state = "ACTIVE"
        /\ mem' = [mem EXCEPT ![a].state = "ACKNOWLEDGED"]
        /\ acks' = [acks EXCEPT ![k].pc = "record", ![k].alarm = a, ![k].copy = mem'[a]]
  BY DEF Acknowledge
<1> DEFINE copy == [mem[a] EXCEPT !.state = "ACKNOWLEDGED"]
<1>2. mem[a] \in Alarm
  BY <1>1 DEF AlarmTypeOK, Alarms
<1>3. copy \in Alarm /\ copy.state = "ACKNOWLEDGED" /\ copy.occ = mem[a].occ
  BY <1>2 DEF Alarm
<1>4. mem' = [mem EXCEPT ![a] = copy] /\ mem'[a] = copy
  BY <1>1 DEF AlarmTypeOK, Alarms
<1>5. mem' \in Alarms
  BY <1>3, <1>4 DEF AlarmTypeOK, Alarms
<1> HIDE DEF copy
<1>6. acks \in [Acks -> Acked]
  BY DEF AlarmTypeOK, Acked
<1>7. acks' = [acks EXCEPT ![k] = [acks[k] EXCEPT !.pc = "record", !.alarm = a, !.copy = copy]]
  BY <1>1, <1>4
<1>8. acks' \in [Acks -> Acked] /\ acks'[k].pc = "record" /\ acks'[k].alarm = a /\ acks'[k].copy = copy
      /\ acks'[k].stored = acks[k].stored
      /\ \A j \in Acks \ {k} : acks'[j] = acks[j]
  BY <1>3, <1>6, <1>7 DEF Acked
<1>9. acks[k].pc = "idle"
      /\ UNCHANGED <<field, row, shown, health, pub, booting, faults, restarts, issued, astray>>
  BY DEF Acknowledge
<1>10. AlarmTypeOK'
  BY <1>5, <1>8, <1>9 DEF AlarmTypeOK, Acked
<1> QED
  BY <1>1, <1>2, <1>3, <1>4, <1>8, <1>9, <1>10

LEMMA RecordAckType ==
  ASSUME AlarmTypeOK, NEW k \in Acks, RecordAck(k)
  PROVE  /\ AlarmTypeOK'
         /\ acks[k].pc = "record" /\ acks'[k].alarm = acks[k].alarm /\ acks'[k].copy = acks[k].copy
         /\ \A j \in Acks \ {k} : acks'[j] = acks[j]
         /\ \/ Store(acks[k].alarm, acks[k].copy) /\ acks'[k].pc = "read" /\ acks'[k].stored = TRUE
            \/ /\ StoreFails(acks[k].alarm) /\ acks'[k].pc = "done"
               /\ acks'[k].stored = acks[k].stored
<1>1. acks \in [Acks -> Acked] /\ acks[k] \in Acked
  BY DEF AlarmTypeOK, Acked
<1>2. acks[k].alarm \in AlarmIds /\ acks[k].copy \in Alarm \cup {NoAlarm}
  BY <1>1 DEF Acked
<1>3. /\ row' \in Alarms /\ astray' \in [AlarmIds -> SUBSET {"late", "missed", "reopened"}]
      /\ faults' \in Nat
  BY <1>2, StoreType DEF RecordAck
<1>4. /\ acks' \in [Acks -> Acked] /\ acks'[k].alarm = acks[k].alarm /\ acks'[k].copy = acks[k].copy
      /\ \A j \in Acks \ {k} : acks'[j] = acks[j]
      /\ \/ Store(acks[k].alarm, acks[k].copy) /\ acks'[k].pc = "read" /\ acks'[k].stored = TRUE
         \/ /\ StoreFails(acks[k].alarm) /\ acks'[k].pc = "done"
            /\ acks'[k].stored = acks[k].stored
  <2>1. CASE /\ Store(acks[k].alarm, acks[k].copy)
             /\ acks' = [acks EXCEPT ![k].pc = "read", ![k].stored = TRUE]
    BY <1>1, <2>1 DEF Acked
  <2>2. CASE /\ StoreFails(acks[k].alarm)
             /\ acks' = [acks EXCEPT ![k].pc = "done"]
    BY <1>1, <2>2 DEF Acked
  <2> QED
    BY <2>1, <2>2 DEF RecordAck
<1>5. acks[k].pc = "record" /\ UNCHANGED <<field, mem, shown, health, pub, booting, restarts, issued>>
  BY DEF RecordAck
<1> QED
  BY <1>3, <1>4, <1>5 DEF AlarmTypeOK, Acked

LEMMA ViewType ==
  ASSUME AlarmTypeOK, NEW k \in Acks, ReadView(k) \/ ReplaceView(k)
  PROVE  /\ AlarmTypeOK'
         /\ acks[k].pc \in {"read", "replace"} /\ acks'[k].pc \in {"replace", "done"}
         /\ acks'[k].alarm = acks[k].alarm /\ acks'[k].copy = acks[k].copy
         /\ acks'[k].stored = acks[k].stored
         /\ \A j \in Acks \ {k} : acks'[j] = acks[j]
         /\ UNCHANGED <<field, mem, row, health, pub, restarts, issued, astray>>
<1>1. acks \in [Acks -> Acked] /\ acks[k] \in Acked
  BY DEF AlarmTypeOK, Acked
<1>2. /\ acks' \in [Acks -> Acked] /\ acks'[k].pc \in {"replace", "done"}
      /\ acks'[k].alarm = acks[k].alarm /\ acks'[k].copy = acks[k].copy
      /\ acks'[k].stored = acks[k].stored
      /\ \A j \in Acks \ {k} : acks'[j] = acks[j]
  <2>1. CASE ReadView(k)
    <3>1. shown \in Alarms
      BY DEF AlarmTypeOK
    <3>2. acks' = [acks EXCEPT ![k].pc = "replace", ![k].view = shown]
      BY <2>1 DEF ReadView
    <3> QED
      BY <1>1, <3>1, <3>2 DEF Acked
  <2>2. CASE ReplaceView(k)
    <3>1. acks' = [acks EXCEPT ![k].pc = "done", ![k].view = NoAlarms]
      BY <2>2 DEF ReplaceView
    <3> QED
      BY <1>1, <3>1, NoAlarmsType DEF Acked
  <2> QED
    BY <2>1, <2>2
<1>3. shown' \in Alarms
  <2>1. CASE ReadView(k)
    BY <2>1 DEF ReadView, AlarmTypeOK
  <2>2. CASE ReplaceView(k)
    <3>1. /\ shown' = [acks[k].view EXCEPT ![acks[k].alarm] = acks[k].copy]
          /\ acks[k].view \in Alarms /\ acks[k].copy \in Alarm \cup {NoAlarm}
      BY <1>1, <2>2 DEF ReplaceView, Acked
    <3> QED
      BY <3>1 DEF Alarms
  <2> QED
    BY <2>1, <2>2
<1>4. acks[k].pc \in {"read", "replace"}
      /\ UNCHANGED <<field, mem, row, health, pub, booting, faults, restarts, issued, astray>>
  BY DEF ReadView, ReplaceView
<1> QED
  BY <1>2, <1>3, <1>4 DEF AlarmTypeOK, Acked

LEMMA RestartType ==
  ASSUME AlarmTypeOK, Restart
  PROVE  /\ AlarmTypeOK'
         /\ \A k \in Acks : \/ acks'[k] = acks[k] /\ acks[k].pc = "idle"
                            \/ /\ acks[k].pc # "idle" /\ acks'[k].pc = "done"
                               /\ acks'[k].alarm = acks[k].alarm /\ acks'[k].copy = acks[k].copy
                               /\ acks'[k].stored = acks[k].stored
         /\ mem' = row /\ UNCHANGED <<field, row, issued>> /\ restarts' = restarts + 1
         /\ pub'.pc = "read" /\ health'.state = "INIT" /\ health'.restored = Open(row[Acquisition])
         /\ \A a \in AlarmIds : astray'[a] = {}
<1>1. acks \in [Acks -> Acked]
  BY DEF AlarmTypeOK, Acked
<1>2. /\ acks' \in [Acks -> Acked]
      /\ \A k \in Acks : \/ acks'[k] = acks[k] /\ acks[k].pc = "idle"
                         \/ /\ acks[k].pc # "idle" /\ acks'[k].pc = "done"
                            /\ acks'[k].alarm = acks[k].alarm /\ acks'[k].copy = acks[k].copy
                            /\ acks'[k].stored = acks[k].stored
  <2>1. \A k \in Acks : [acks[k] EXCEPT !.pc = "done", !.view = NoAlarms] \in Acked
    BY <1>1, NoAlarmsType DEF Acked
  <2>2. acks' = [k \in Acks |-> IF acks[k].pc = "idle" THEN acks[k]
                               ELSE [acks[k] EXCEPT !.pc = "done", !.view = NoAlarms]]
    BY DEF Restart
  <2> QED
    BY <1>1, <2>1, <2>2 DEF Acked
<1>3. pub' = [pub EXCEPT !.pc = "read", !.batch = NoBatch, !.note = NoAlarm, !.view = NoAlarms]
  BY DEF Restart
<1>4. /\ pub' \in [pc : PubSteps, kind : {"batch", "v1"},
                   batch : [complete : SUBSET Devices, raw : [FieldAlarms -> Report]],
                   note : Alarm \cup {NoAlarm}, view : Alarms]
      /\ pub'.pc = "read"
  BY <1>3, NoAlarmsType, NoBatchType DEF AlarmTypeOK, PubSteps
<1>5. /\ health' \in [state : {"INIT", "GOOD", "DEGRADED", "STALE", "OFFLINE"}, fails : Nat,
                      read : BOOLEAN, restored : BOOLEAN]
      /\ health'.state = "INIT" /\ health'.restored = Open(row[Acquisition])
  <2>1. Open(row[Acquisition]) \in BOOLEAN
    BY DEF Open
  <2>2. health' = [state |-> "INIT", fails |-> 0, read |-> FALSE, restored |-> Open(row[Acquisition])]
    BY DEF Restart
  <2> QED
    BY <2>1, <2>2
<1>6. /\ mem' = row /\ shown' = NoAlarms /\ booting' = TRUE /\ restarts' = restarts + 1
      /\ astray' = [a \in AlarmIds |-> {}] /\ UNCHANGED <<field, row, faults, issued>>
  BY DEF Restart
<1>7. AlarmTypeOK'
  BY <1>2, <1>4, <1>5, <1>6, NoAlarmsType DEF AlarmTypeOK, Acked
<1> QED
  BY <1>2, <1>4, <1>5, <1>6, <1>7

\* Every step keeps the types; a batch needs the numbers to be ordered for it.
LEMMA StepType == AlarmTypeOK /\ IssuedInv /\ [AlarmNext]_alarmVars => AlarmTypeOK'
<1> SUFFICES ASSUME AlarmTypeOK, IssuedInv, [AlarmNext]_alarmVars PROVE AlarmTypeOK'
  OBVIOUS
<1>1. CASE \E a \in FieldAlarms : Begin(a) \/ End(a)
  BY <1>1, WorldType
<1>2. CASE PublisherStep
  BY <1>2, ReadBatchType, CycleType, PlatformType, RecordPlatformType, ReconcileType DEF PublisherStep
<1>3. CASE \E k \in Acks : Acknowledge(k) \/ AckStep(k)
  BY <1>3, AcknowledgeType, RecordAckType, ViewType DEF AckStep
<1>4. CASE Restart
  BY <1>4, RestartType
<1>5. CASE UNCHANGED alarmVars
  BY <1>5 DEF alarmVars, AlarmTypeOK
<1> QED
  BY <1>1, <1>2, <1>3, <1>4, <1>5 DEF AlarmNext

-------------------------------------------------------------------------------
(* The publisher's steps *)

LEMMA CycleOverMoves ==
  ASSUME AlarmTypeOK, CycleOver PROVE pub'.pc = "read"
BY DEF CycleOver, AlarmTypeOK

LEMMA GoToMoves ==
  ASSUME AlarmTypeOK, NEW pc, GoTo(pc) PROVE pub'.pc = pc /\ pub'.batch = pub.batch
BY DEF GoTo, AlarmTypeOK

LEMMA GoesMoves ==
  ASSUME AlarmTypeOK, NEW a, NEW unhealthy \in BOOLEAN, NEW recording, Goes(a, unhealthy, recording),
         unhealthy # Open(mem[a])
  PROVE  pub'.pc = recording /\ pub'.batch = pub.batch
BY DEF Goes, AlarmTypeOK

\* Where a platform alarm's step leads.
LEMMA PlatformMoves ==
  ASSUME AlarmTypeOK, RaiseOutage \/ ClearOutage \/ CheckStorage
  PROVE  /\ UNCHANGED <<field, row, shown, acks, restarts, astray, health>>
         /\ \A a \in FieldAlarms : mem'[a] = mem[a] /\ issued'[a] = issued[a]
         /\ \/ /\ pub.pc = "raise" /\ Open(mem'[Acquisition]) /\ mem'[Storage] = mem[Storage]
               /\ \/ pub'.pc = "recordOutage"
                  \/ pub'.pc = "degrade" /\ mem' = mem
            \/ /\ pub.pc = "recover" /\ ~Open(mem'[Acquisition]) /\ mem'[Storage] = mem[Storage]
               /\ pub'.batch = pub.batch
               /\ \/ pub'.pc = "recordRecovery"
                  \/ pub'.pc = "reconcile" /\ mem' = mem
            \/ /\ pub.pc = "storage" /\ mem'[Acquisition] = mem[Acquisition]
               /\ \/ pub'.pc = "recordStorage"
                  \/ pub'.pc = "read" /\ mem' = mem
<1> USE Ids
<1>1. mem \in Alarms
  BY DEF AlarmTypeOK
<1>2. ASSUME NEW a \in {Acquisition, Storage}, NEW unhealthy \in BOOLEAN, NEW recording,
             Goes(a, unhealthy, recording)
      PROVE  /\ UNCHANGED <<field, row, shown, acks, restarts, astray>>
             /\ \A b \in FieldAlarms : mem'[b] = mem[b] /\ issued'[b] = issued[b]
             /\ \A b \in {Acquisition, Storage} \ {a} : mem'[b] = mem[b]
             /\ unhealthy <=> Open(mem'[a])
             /\ unhealthy = Open(mem[a]) => mem' = mem
  <2>1. CASE unhealthy = Open(mem[a])
    BY <1>2, <2>1 DEF Goes
  <2>2. CASE unhealthy # Open(mem[a])
    <3>1. PICK next \in Alarm :
            /\ mem' = [mem EXCEPT ![a] = next] /\ (unhealthy <=> next.state # "CLEARED")
            /\ \A b \in FieldAlarms : issued'[b] = issued[b]
      BY <1>2, <2>2 DEF Goes
    <3>2. mem'[a] = next /\ next # NoAlarm
      BY <1>1, <3>1, NoAlarmAssumption DEF Alarms
    <3>3. \A b \in AlarmIds \ {a} : mem'[b] = mem[b]
      BY <1>1, <3>1 DEF Alarms
    <3>4. UNCHANGED <<field, row, shown, acks, restarts, astray>>
      BY <1>2 DEF Goes
    <3> QED
      BY <2>2, <3>1, <3>2, <3>3, <3>4 DEF Open
  <2> QED
    BY <2>1, <2>2
<1>3. UNCHANGED health
  BY PlatformSteps
<1>4. CASE /\ pub.pc = "raise" /\ Goes(Acquisition, TRUE, "recordOutage")
           /\ Open(mem[Acquisition]) => GoTo("degrade")
  <2>1. CASE Open(mem[Acquisition])
    BY <1>2, <1>3, <1>4, <2>1, GoToMoves
  <2>2. CASE ~Open(mem[Acquisition])
    BY <1>2, <1>3, <1>4, <2>2, GoesMoves
  <2> QED
    BY <2>1, <2>2
<1>5. CASE /\ pub.pc = "recover" /\ Goes(Acquisition, FALSE, "recordRecovery")
           /\ ~Open(mem[Acquisition]) => GoTo("reconcile")
  <2>1. CASE ~Open(mem[Acquisition])
    <3>1. Open(mem[Acquisition]) = FALSE
      BY <2>1 DEF Open
    <3> QED
      BY <1>2, <1>3, <1>5, <2>1, <3>1, GoToMoves
  <2>2. CASE Open(mem[Acquisition])
    BY <1>2, <1>3, <1>5, <2>2, GoesMoves
  <2> QED
    BY <2>1, <2>2
<1>6. CASE /\ pub.pc = "storage"
           /\ \E full \in BOOLEAN : /\ Goes(Storage, full, "recordStorage")
                                    /\ full = Open(mem[Storage]) => CycleOver
  <2>1. PICK full \in BOOLEAN : /\ Goes(Storage, full, "recordStorage")
                                /\ full = Open(mem[Storage]) => CycleOver
    BY <1>6
  <2>2. CASE full = Open(mem[Storage])
    BY <1>2, <1>3, <1>6, <2>1, <2>2, CycleOverMoves
  <2>3. CASE full # Open(mem[Storage])
    BY <1>2, <1>3, <1>6, <2>1, <2>3, GoesMoves
  <2> QED
    BY <2>2, <2>3
<1> QED
  BY <1>4, <1>5, <1>6, PlatformSteps

\* Where the record of it leads, and whose row it is.
LEMMA RecordMoves ==
  ASSUME AlarmTypeOK, RecordPlatform
  PROVE  /\ UNCHANGED <<field, mem, shown, health, acks, restarts, issued>>
         /\ \/ pub.pc = "recordOutage" /\ pub'.pc = "degrade"
            \/ pub.pc = "recordRecovery" /\ pub'.pc = "reconcile" /\ pub'.batch = pub.batch
            \/ pub.pc = "recordStorage" /\ pub'.pc = "read"
         /\ \E a \in {Acquisition, Storage} :
              /\ a = Storage <=> pub.pc = "recordStorage"
              /\ Store(a, pub.note) \/ StoreFails(a)
<1>1. PICK a \in {Acquisition, Storage} :
        /\ pub.pc \in IF a = Storage THEN {"recordStorage"} ELSE {"recordOutage", "recordRecovery"}
        /\ Store(a, pub.note) \/ StoreFails(a)
  BY DEF RecordPlatform
<1>2. CASE pub.pc = "recordOutage"
  BY <1>1, <1>2, GoToMoves DEF RecordPlatform
<1>3. CASE pub.pc = "recordRecovery"
  BY <1>1, <1>3, GoToMoves DEF RecordPlatform
<1>4. CASE pub.pc = "recordStorage"
  BY <1>1, <1>4, CycleOverMoves DEF RecordPlatform
<1> QED
  BY <1>1, <1>2, <1>3, <1>4

LEMMA AbortMoves ==
  ASSUME AlarmTypeOK, Abort
  PROVE  \/ pub'.pc = "read" /\ UNCHANGED health
         \/ /\ pub'.pc \in {"degrade", "raise"} /\ health'.state # "GOOD" /\ health'.fails > 0
            /\ pub'.pc = "degrade" => health'.state = "DEGRADED"
BY CycleOverMoves, CountFailureType DEF Abort

\* The other steps of a cycle leave memory and rows alone.
LEMMA CycleMoves ==
  ASSUME AlarmTypeOK, ReadFails \/ CycleFails \/ Degrade \/ Replace
  PROVE  /\ UNCHANGED <<field, mem, row, acks, restarts, issued, astray>>
         /\ pub.pc \in {"read", "reconcile", "degrade", "replaceGood", "replaceDegraded"}
         /\ \/ pub'.pc \in {"read", "replaceDegraded", "storage"} /\ UNCHANGED health
            \/ /\ pub'.pc \in {"degrade", "raise"} /\ health'.state # "GOOD" /\ health'.fails > 0
               /\ pub'.pc = "degrade" => health'.state = "DEGRADED"
<1>1. CASE ReadFails
  BY <1>1, CountFailureType DEF ReadFails
<1>2. CASE CycleFails
  BY <1>2, AbortMoves DEF CycleFails
<1>3. CASE Degrade
  BY <1>3 DEF Degrade, AlarmTypeOK
<1>4. CASE Replace
  <2>1. CASE pub.pc = "replaceGood"
    BY <1>4, <2>1 DEF Replace, AlarmTypeOK
  <2>2. CASE pub.pc # "replaceGood"
    BY <1>4, <2>2, CycleOverMoves DEF Replace
  <2> QED
    BY <2>1, <2>2
<1> QED
  BY <1>1, <1>2, <1>3, <1>4

LEMMA ReconcileMoves ==
  ASSUME AlarmTypeOK, Reconcile \/ ReconcileFails
  PROVE  \/ pub'.pc \in {"read", "replaceGood"} /\ UNCHANGED health
         \/ /\ pub'.pc \in {"degrade", "raise"} /\ health'.state # "GOOD" /\ health'.fails > 0
            /\ pub'.pc = "degrade" => health'.state = "DEGRADED"
<1>1. CASE Reconcile
  BY <1>1 DEF Reconcile, AlarmTypeOK
<1>2. CASE ReconcileFails
  BY <1>2, AbortMoves DEF ReconcileFails
<1> QED
  BY <1>1, <1>2

\* A reading fits the field, and says what is known of the acquisition.
LEMMA ReadMoves ==
  ASSUME AlarmTypeOK, ReadBatch
  PROVE  /\ UNCHANGED <<field, mem, row, shown, acks, restarts, issued, astray>>
         /\ pub.pc = "read" /\ pub'.pc \in {"recover", "reconcile"}
         /\ \A a \in FieldAlarms : pub'.batch.raw[a] \in Reportable(a, pub'.batch.complete)
         /\ health'.restored = health.restored
         /\ \/ health'.state = "DEGRADED" /\ health'.fails = health.fails /\ pub'.pc = "reconcile"
            \/ /\ health'.state = "GOOD" /\ health'.fails = 0
               /\ pub'.pc = "reconcile" => health.state = "GOOD" \/ health.fails = 0
<1>1. PICK complete \in SUBSET Devices : \E raw \in [FieldAlarms -> Report] :
        /\ \A a \in FieldAlarms : raw[a] \in Reportable(a, complete)
        /\ LET partial == pub.kind = "batch" /\ complete # Devices
               recovered == ~partial /\ health.state # "GOOD" /\ health.fails > 0
           IN /\ health' = IF partial
                           THEN [health EXCEPT !.state = "DEGRADED", !.read = TRUE]
                           ELSE [health EXCEPT !.state = "GOOD", !.read = TRUE, !.fails = 0]
              /\ pub' = [pub EXCEPT
                   !.pc = IF recovered THEN "recover" ELSE "reconcile",
                   !.batch = [complete |-> complete, raw |-> raw]]
  BY DEF ReadBatch
<1>2. PICK raw \in [FieldAlarms -> Report] :
        /\ \A a \in FieldAlarms : raw[a] \in Reportable(a, complete)
        /\ LET partial == pub.kind = "batch" /\ complete # Devices
               recovered == ~partial /\ health.state # "GOOD" /\ health.fails > 0
           IN /\ health' = IF partial
                           THEN [health EXCEPT !.state = "DEGRADED", !.read = TRUE]
                           ELSE [health EXCEPT !.state = "GOOD", !.read = TRUE, !.fails = 0]
              /\ pub' = [pub EXCEPT
                   !.pc = IF recovered THEN "recover" ELSE "reconcile",
                   !.batch = [complete |-> complete, raw |-> raw]]
  BY <1>1
<1> DEFINE partial == pub.kind = "batch" /\ complete # Devices
           recovered == ~partial /\ health.state # "GOOD" /\ health.fails > 0
<1>3. /\ pub'.batch = [complete |-> complete, raw |-> raw]
      /\ pub'.pc = IF recovered THEN "recover" ELSE "reconcile"
  BY <1>2 DEF AlarmTypeOK
<1>4. pub'.batch.raw = raw /\ pub'.batch.complete = complete
  BY <1>3
<1>5. /\ health'.restored = health.restored
      /\ partial => health'.state = "DEGRADED" /\ health'.fails = health.fails
      /\ ~partial => health'.state = "GOOD" /\ health'.fails = 0
  BY <1>2 DEF AlarmTypeOK
<1>6. health.fails \in Nat
  BY DEF AlarmTypeOK
<1>7. pub.pc = "read" /\ UNCHANGED <<field, mem, row, shown, acks, restarts, issued, astray>>
  BY DEF ReadBatch
<1> HIDE DEF partial
<1> QED
  BY <1>2, <1>3, <1>4, <1>5, <1>6, <1>7

-------------------------------------------------------------------------------
(* The invariant *)

LEMMA InitInv == AlarmInit => AlarmInv
<1> SUFFICES ASSUME AlarmInit PROVE AlarmInv
  OBVIOUS
<1>1. AlarmTypeOK
  BY InitType
<1>2. \A a \in AlarmIds : mem[a] = NoAlarm /\ row[a] = NoAlarm
  BY NoAlarmsType DEF AlarmInit
<1>3. DurableFollows /\ IssuedInv
  BY <1>2, Ids DEF DurableFollows, Same, IssuedInv, Issued
<1>4. pub.pc = "read" /\ health.state = "INIT"
  BY DEF AlarmInit
<1>5. BatchInv
  BY <1>4 DEF BatchInv
<1>6. OutageInv
  BY <1>2, <1>4, Ids DEF OutageInv, Open
<1>7. AckInv
  BY DEF AckInv, AlarmInit
<1> QED
  BY <1>1, <1>3, <1>5, <1>6, <1>7 DEF AlarmInv

\* The field rests while a batch is dealt with, so the batch stays true of it.
LEMMA BatchStep == AlarmTypeOK /\ BatchInv /\ AlarmNext => BatchInv'
<1> SUFFICES ASSUME AlarmTypeOK, BatchInv, AlarmNext PROVE BatchInv'
  OBVIOUS
<1>1. CASE \E a \in FieldAlarms : Begin(a) \/ End(a)
  BY <1>1 DEF Begin, End, BatchInv
<1>2. CASE ReadBatch
  BY <1>2, ReadMoves DEF BatchInv, Reportable
<1>3. CASE ReadFails \/ CycleFails \/ Degrade \/ Replace
  BY <1>3, CycleMoves DEF BatchInv
<1>4. CASE RaiseOutage \/ ClearOutage \/ CheckStorage
  BY <1>4, PlatformMoves DEF BatchInv, Reportable
<1>5. CASE RecordPlatform
  BY <1>5, RecordMoves DEF BatchInv, Reportable
<1>6. CASE Reconcile \/ ReconcileFails
  BY <1>6, ReconcileMoves DEF BatchInv
<1>7. CASE \E k \in Acks : Acknowledge(k) \/ AckStep(k)
  BY <1>7 DEF Acknowledge, AckStep, RecordAck, ReadView, ReplaceView, BatchInv, Reportable
<1>8. CASE Restart
  BY <1>8, RestartType DEF BatchInv
<1> QED
  BY <1>1, <1>2, <1>3, <1>4, <1>5, <1>6, <1>7, <1>8 DEF AlarmNext, PublisherStep

\* A state of the acquisition that is alarmed is set only on the way to its alarm.
LEMMA OutageStep == AlarmTypeOK /\ IssuedInv /\ OutageInv /\ AlarmNext => OutageInv'
<1> SUFFICES ASSUME AlarmTypeOK, IssuedInv, OutageInv, AlarmNext PROVE OutageInv'
  OBVIOUS
<1> USE DEF OutageInv
<1>0. health.fails \in Nat /\ mem \in Alarms
  BY DEF AlarmTypeOK
<1>1. CASE \E a \in FieldAlarms : Begin(a) \/ End(a)
  BY <1>1 DEF Begin, End
<1>2. CASE ReadBatch
  BY <1>0, <1>2, ReadMoves
<1>3. CASE ReadFails \/ CycleFails \/ Degrade \/ Replace
  BY <1>3, CycleMoves
<1>4. CASE RaiseOutage \/ ClearOutage \/ CheckStorage
  BY <1>4, PlatformMoves
<1>5. CASE RecordPlatform
  BY <1>5, RecordMoves
<1>6. CASE Reconcile \/ ReconcileFails
  <2>1. mem'[Acquisition] = mem[Acquisition] /\ pub.pc = "reconcile"
    BY <1>6, ReconcileDeals, Ids
  <2> QED
    BY <2>1, <1>6, ReconcileMoves
<1>7. CASE \E k \in Acks : Acknowledge(k) \/ AckStep(k)
  <2>1. UNCHANGED <<health, pub>>
    BY <1>7 DEF Acknowledge, AckStep, RecordAck, ReadView, ReplaceView
  <2>2. Open(mem'[Acquisition]) <=> Open(mem[Acquisition])
    <3>1. CASE UNCHANGED mem
      BY <3>1
    <3>2. ASSUME NEW k \in Acks, Acknowledge(k) PROVE Open(mem'[Acquisition]) <=> Open(mem[Acquisition])
      <4> DEFINE a == acks'[k].alarm
      <4>1. /\ a \in AlarmIds /\ mem' = [mem EXCEPT ![a] = acks'[k].copy]
            /\ acks'[k].copy \in Alarm /\ acks'[k].copy.state = "ACKNOWLEDGED"
            /\ mem[a] \in Alarm /\ mem[a].state = "ACTIVE"
        BY <3>2, AcknowledgeType
      <4> HIDE DEF a
      <4>2. Open(mem[a]) /\ Open(mem'[a])
        BY <1>0, <4>1, NoAlarmAssumption DEF Open, Alarms
      <4>3. a # Acquisition => mem'[Acquisition] = mem[Acquisition]
        BY <1>0, <4>1, Ids DEF Alarms
      <4> QED
        BY <4>2, <4>3
    <3> QED
      BY <1>7, <3>1, <3>2 DEF AckStep, RecordAck, ReadView, ReplaceView
  <2> QED
    BY <2>1, <2>2
<1>8. CASE Restart
  BY <1>8, RestartType
<1> QED
  BY <1>1, <1>2, <1>3, <1>4, <1>5, <1>6, <1>7, <1>8 DEF AlarmNext, PublisherStep

\* What an append leaves of a row that differs from memory is a reason.
LEMMA StoreFollows ==
  ASSUME AlarmTypeOK, NEW a \in AlarmIds, NEW alarm \in Alarm \cup {NoAlarm},
         Store(a, alarm) \/ StoreFails(a)
  PROVE  /\ astray'[a] = {} => Same(row'[a], mem[a])
         /\ \A b \in AlarmIds \ {a} : row'[b] = row[b] /\ astray'[b] = astray[b]
         /\ row'[a] = alarm \/ row'[a] = row[a]
<1>0. row \in Alarms /\ astray \in [AlarmIds -> SUBSET {"late", "missed", "reopened"}]
  BY DEF AlarmTypeOK
<1>1. CASE Store(a, alarm)
  BY <1>0, <1>1 DEF Store, Alarms
<1>2. CASE StoreFails(a)
  BY <1>0, <1>2 DEF StoreFails, Alarms
<1> QED
  BY <1>1, <1>2

\* A step that changes no row and only memory of what is to be recorded next.
LEMMA DurableUnlessRecording ==
  ASSUME DurableFollows, UNCHANGED <<row, astray>>,
         \A a \in AlarmIds : Recording(a) => Recording(a)',
         \A a \in AlarmIds : Recording(a)' \/ mem'[a] = mem[a]
  PROVE  DurableFollows'
BY DEF DurableFollows

\* Memory and row part only while a record is due, or for one of the three reasons.
LEMMA DurableStep == AlarmTypeOK /\ IssuedInv /\ DurableFollows /\ AlarmNext => DurableFollows'
<1> SUFFICES ASSUME AlarmTypeOK, IssuedInv, DurableFollows, AlarmNext PROVE DurableFollows'
  OBVIOUS
<1>0. mem \in Alarms
  BY DEF AlarmTypeOK
<1>1. CASE \E a \in FieldAlarms : Begin(a) \/ End(a)
  BY <1>1 DEF Begin, End, DurableFollows, Recording
<1>2. CASE ReadBatch
  BY <1>2, ReadMoves, DurableUnlessRecording DEF Recording
<1>3. CASE ReadFails \/ CycleFails \/ Degrade \/ Replace
  BY <1>3, CycleMoves, DurableUnlessRecording DEF Recording
<1>4. CASE RaiseOutage \/ ClearOutage \/ CheckStorage
  <2>1. \A a \in AlarmIds : Recording(a) => Recording(a)'
    BY <1>4, PlatformMoves DEF Recording
  <2>2. \A a \in AlarmIds : Recording(a)' \/ mem'[a] = mem[a]
    BY <1>4, PlatformMoves, Ids DEF Recording
  <2> QED
    BY <1>4, <2>1, <2>2, PlatformMoves, DurableUnlessRecording
<1>5. CASE RecordPlatform
  <2>1. PICK a \in {Acquisition, Storage} :
          /\ a = Storage <=> pub.pc = "recordStorage"
          /\ Store(a, pub.note) \/ StoreFails(a)
    BY <1>5, RecordMoves
  <2>2. a \in AlarmIds /\ pub.note \in Alarm \cup {NoAlarm}
    BY Ids DEF AlarmTypeOK
  <2>3. UNCHANGED <<mem, acks>>
        /\ pub.pc \in {"recordOutage", "recordRecovery", "recordStorage"}
    BY <1>5, RecordMoves
  <2>4. \A b \in AlarmIds \ {a} : Recording(b) => Recording(b)'
    BY <2>1, <2>3, Ids DEF Recording
  <2> QED
    BY <2>1, <2>2, <2>3, <2>4, StoreFollows DEF DurableFollows
<1>6. CASE Reconcile \/ ReconcileFails
  <2>1. pub.pc = "reconcile" /\ UNCHANGED acks /\ \A a \in AlarmIds : Dealt(a)
    BY <1>6, ReconcileDeals
  <2>2. \A a \in AlarmIds : Recording(a) => Recording(a)'
    BY <2>1 DEF Recording
  <2>3. ASSUME NEW a \in AlarmIds, ~Recording(a)', astray'[a] = {} PROVE Same(row'[a], mem'[a])
    <3>1. astray[a] = {} => Same(row[a], mem[a])
      BY <2>2, <2>3 DEF DurableFollows
    <3> QED
      BY <2>1, <2>3, <3>1, NoAlarmAssumption DEF Dealt, Same
  <2> QED
    BY <2>3 DEF DurableFollows
<1>7. CASE \E k \in Acks : Acknowledge(k)
  <2>1. PICK k \in Acks : Acknowledge(k)
    BY <1>7
  <2>2. \A a \in AlarmIds : Recording(a) => Recording(a)'
    <3>1. acks[k].pc # "record" /\ \A j \in Acks \ {k} : acks'[j] = acks[j]
      BY <2>1, AcknowledgeType
    <3>2. UNCHANGED pub
      BY <2>1 DEF Acknowledge
    <3> QED
      BY <3>1, <3>2 DEF Recording
  <2>3. \A a \in AlarmIds : Recording(a)' \/ mem'[a] = mem[a]
    BY <1>0, <2>1, AcknowledgeType DEF Recording, Alarms
  <2>4. UNCHANGED <<row, astray>>
    BY <2>1 DEF Acknowledge
  <2> QED
    BY <2>2, <2>3, <2>4, DurableUnlessRecording
<1>8. CASE \E k \in Acks : RecordAck(k)
  <2>1. PICK k \in Acks : RecordAck(k)
    BY <1>8
  <2> DEFINE a == acks[k].alarm
  <2>2. a \in AlarmIds /\ acks[k].copy \in Alarm \cup {NoAlarm}
    BY DEF AlarmTypeOK
  <2>3. Store(a, acks[k].copy) \/ StoreFails(a)
    BY <2>1, RecordAckType
  <2>4. UNCHANGED <<mem, pub>>
    BY <2>1 DEF RecordAck
  <2>5. \A b \in AlarmIds \ {a} : Recording(b) => Recording(b)'
    <3>1. \A j \in Acks \ {k} : acks'[j] = acks[j]
      BY <2>1, RecordAckType
    <3> QED
      BY <2>4, <3>1 DEF Recording
  <2> HIDE DEF a
  <2> QED
    BY <2>2, <2>3, <2>4, <2>5, StoreFollows DEF DurableFollows
<1>9. CASE \E k \in Acks : ReadView(k) \/ ReplaceView(k)
  BY <1>9, ViewType, DurableUnlessRecording DEF Recording
<1>10. CASE Restart
  <2>1. mem' = row /\ row' = row
    BY <1>10, RestartType
  <2> QED
    BY <2>1 DEF DurableFollows, Same
<1> QED
  BY <1>1, <1>2, <1>3, <1>4, <1>5, <1>6, <1>7, <1>8, <1>9, <1>10 DEF AlarmNext, PublisherStep, AckStep

\* Numbers of occurrences only grow, and memory and rows hold numbers that were
\* issued, or what they held before.
LEMMA IssuedStep ==
  ASSUME AlarmTypeOK, IssuedInv, AckInv, AlarmNext
  PROVE  IssuedInv' /\ \A a \in FieldAlarms : issued[a] <= issued'[a]
<1>0. /\ \A a \in FieldAlarms : issued[a] \in Nat /\ a \in AlarmIds
      /\ mem \in Alarms /\ row \in Alarms
  BY FieldTypes DEF AlarmTypeOK
<1>1. SUFFICES ASSUME NEW a \in FieldAlarms
               PROVE  /\ issued[a] <= issued'[a]
                      /\ mem'[a] # NoAlarm => mem'[a].occ <= issued'[a]
                      /\ row'[a] # NoAlarm => row'[a].occ <= issued'[a]
  BY DEF IssuedInv, Issued
<1>2. /\ mem[a] # NoAlarm => mem[a].occ <= issued[a]
      /\ row[a] # NoAlarm => row[a].occ <= issued[a]
  BY DEF IssuedInv, Issued
<1>3. CASE UNCHANGED <<mem, row, issued>>
  BY <1>0, <1>2, <1>3
<1>4. CASE mem'[a] = mem[a] /\ row'[a] = row[a] /\ issued'[a] = issued[a]
  BY <1>0, <1>2, <1>4
<1>5. CASE RaiseOutage \/ ClearOutage \/ CheckStorage
  BY <1>4, <1>5, PlatformMoves
<1>6. CASE RecordPlatform
  <2>1. PICK b \in {Acquisition, Storage} : Store(b, pub.note) \/ StoreFails(b)
    BY <1>6, RecordMoves
  <2>2. b \in AlarmIds /\ pub.note \in Alarm \cup {NoAlarm} /\ a # b
    BY Ids DEF AlarmTypeOK
  <2>3. row'[a] = row[a]
    BY <1>0, <2>1, <2>2, StoreFollows
  <2> QED
    BY <1>4, <1>6, <2>3, RecordMoves
<1>7. CASE Reconcile \/ ReconcileFails
  <2>1. Dealt(a) /\ issued'[a] \in Nat
    BY <1>0, <1>7, ReconcileDeals
  <2>2. CASE /\ mem'[a] # NoAlarm => mem'[a].occ = mem[a].occ /\ mem[a] # NoAlarm
             /\ issued'[a] = issued[a]
    <3>1. row'[a] = row[a] \/ row'[a] = mem'[a]
      BY <2>1 DEF Dealt
    <3> QED
      BY <1>0, <1>2, <2>2, <3>1
  <2>3. CASE mem'[a].occ = issued[a] + 1 /\ issued'[a] = issued[a] + 1
    <3>1. row'[a] = row[a] \/ row'[a] = mem'[a]
      BY <2>1 DEF Dealt
    <3>2. row[a] # NoAlarm => row[a].occ \in Nat
      BY <1>0 DEF Alarms, Alarm
    <3> QED
      BY <1>0, <1>2, <2>3, <3>1, <3>2
  <2>4. \/ /\ mem'[a] # NoAlarm => mem'[a].occ = mem[a].occ /\ mem[a] # NoAlarm
           /\ issued'[a] = issued[a]
        \/ mem'[a].occ = issued[a] + 1 /\ issued'[a] = issued[a] + 1
    BY <2>1 DEF Dealt, Fresh, Closed, Open
  <2> QED
    BY <2>2, <2>3, <2>4
<1>8. CASE \E k \in Acks : Acknowledge(k)
  <2>1. PICK k \in Acks : Acknowledge(k)
    BY <1>8
  <2>2. UNCHANGED <<row, issued>>
    BY <2>1 DEF Acknowledge
  <2> DEFINE b == acks'[k].alarm
             copy == acks'[k].copy
  <2>4. /\ mem' = [mem EXCEPT ![b] = copy]
        /\ b \in AlarmIds /\ copy.occ = mem[b].occ /\ mem[b] \in Alarm
    BY <2>1, AcknowledgeType
  <2> HIDE DEF b, copy
  <2>3. mem'[a] = mem[a] \/ (mem'[a].occ = mem[a].occ /\ mem[a] # NoAlarm)
    <3>1. CASE b = a
      <4>1. mem'[a] = copy
        BY <1>0, <2>4, <3>1 DEF Alarms
      <4>2. mem[a] # NoAlarm
        BY <2>4, <3>1, NoAlarmAssumption
      <4> QED
        BY <2>4, <3>1, <4>1, <4>2
    <3>2. CASE b # a
      <4>1. mem'[a] = mem[a]
        BY <1>0, <2>4, <3>2 DEF Alarms
      <4> QED
        BY <4>1
    <3> QED
      BY <3>1, <3>2
  <2> QED
    BY <1>0, <1>2, <2>2, <2>3
<1>9. CASE \E k \in Acks : RecordAck(k)
  <2>1. PICK k \in Acks : RecordAck(k)
    BY <1>9
  <2> DEFINE b == acks[k].alarm
  <2>2. b \in AlarmIds /\ acks[k].copy \in Alarm \cup {NoAlarm}
    BY DEF AlarmTypeOK
  <2>3. (Store(b, acks[k].copy) \/ StoreFails(b)) /\ acks[k].pc = "record"
    BY <2>1, RecordAckType
  <2>4. b = a => acks[k].copy.occ <= issued[a]
    BY <2>3 DEF AckInv
  <2>5. UNCHANGED <<mem, issued>>
    BY <2>1 DEF RecordAck
  <2>6. row'[a] = row[a] \/ (b = a /\ row'[a] = acks[k].copy)
    BY <1>0, <2>2, <2>3, StoreFollows
  <2> HIDE DEF b
  <2> QED
    BY <1>0, <1>2, <2>4, <2>5, <2>6
<1>10. CASE Restart
  BY <1>0, <1>2, <1>10, RestartType
<1>11. CASE \/ \E k \in Acks : ReadView(k) \/ ReplaceView(k)
            \/ \E b \in FieldAlarms : Begin(b) \/ End(b)
            \/ ReadBatch \/ ReadFails \/ CycleFails \/ Degrade \/ Replace
  <2>1. UNCHANGED <<mem, row, issued>>
    BY <1>11, ViewType, ReadMoves, CycleMoves DEF Begin, End
  <2> QED
    BY <1>3, <2>1
<1> QED
  BY <1>5, <1>6, <1>7, <1>8, <1>9, <1>10, <1>11 DEF AlarmNext, PublisherStep, AckStep

\* The invariant of one call, for a call, its alarm and the two copies of it.
Acknowledged(ack, m, r, st, n) ==
  /\ ack.stored => ack.pc \in {"read", "replace", "done"}
  /\ ack.pc # "idle" =>
       ack.copy \in Alarm /\ ack.copy.state = "ACKNOWLEDGED" /\ ack.copy.occ <= n
  /\ (ack.pc = "record" \/ ack.stored) /\ Open(m) /\ m.occ = ack.copy.occ /\ "reopened" \notin st =>
       m.state = "ACKNOWLEDGED"
  /\ ack.stored /\ Open(m) /\ m.occ = ack.copy.occ /\ "reopened" \notin st =>
       r.state = "ACKNOWLEDGED"
  /\ ack.stored /\ Open(r) /\ r.occ = ack.copy.occ => r.state = "ACKNOWLEDGED"

\* For calls about the platform's alarms only the first line is claimed.
LEMMA AckInvIs ==
  AckInv <=> \A k \in Acks :
    /\ acks[k].stored => acks[k].pc \in {"read", "replace", "done"}
    /\ acks[k].alarm \in FieldAlarms =>
         LET a == acks[k].alarm IN Acknowledged(acks[k], mem[a], row[a], astray[a], issued[a])
BY DEF AckInv, Acknowledged, Stands

\* A step that changes neither a call nor the alarm it is about.
LEMMA AckUnlessTouched ==
  ASSUME NEW k \in Acks, AckInv, acks'[k] = acks[k],
         LET a == acks[k].alarm IN
           a \in FieldAlarms => /\ mem'[a] = mem[a] /\ row'[a] = row[a] /\ astray'[a] = astray[a]
                                /\ issued'[a] = issued[a]
  PROVE  /\ acks'[k].stored => acks'[k].pc \in {"read", "replace", "done"}
         /\ acks'[k].alarm \in FieldAlarms =>
              LET a == acks'[k].alarm IN
                Acknowledged(acks'[k], mem'[a], row'[a], astray'[a], issued'[a])
<1>1. /\ acks[k].stored => acks[k].pc \in {"read", "replace", "done"}
      /\ acks[k].alarm \in FieldAlarms =>
           LET a == acks[k].alarm IN Acknowledged(acks[k], mem[a], row[a], astray[a], issued[a])
  BY AckInvIs
<1> QED
  BY <1>1

\* A batch leaves an occurrence that was acknowledged as it is, or ends it.
LEMMA DealtKeeps ==
  ASSUME NEW ack, NEW a \in FieldAlarms, Dealt(a), issued[a] \in Nat, issued'[a] \in Nat,
         issued[a] <= issued'[a], ack.copy \in Alarm => ack.copy.occ \in Nat,
         Acknowledged(ack, mem[a], row[a], astray[a], issued[a]),
         ack.stored => ack.pc # "idle"
  PROVE  Acknowledged(ack, mem'[a], row'[a], astray'[a], issued'[a])
<1>0. ack.pc # "idle" => ack.copy \in Alarm /\ ack.copy.occ \in Nat
                           /\ ack.copy.state = "ACKNOWLEDGED" /\ ack.copy.occ <= issued[a]
                           /\ ack.copy.occ <= issued'[a]
  BY DEF Acknowledged
<1>1. CASE mem'[a] = mem[a] /\ row'[a] = row[a] /\ astray'[a] = astray[a]
  BY <1>0, <1>1 DEF Acknowledged
<1>2. CASE /\ mem[a] # NoAlarm /\ mem'[a].state = mem[a].state /\ mem'[a].occ = mem[a].occ
           /\ row'[a] = row[a] /\ astray'[a] = astray[a]
  BY <1>0, <1>2 DEF Acknowledged, Open
<1>3. CASE row'[a] = row[a] /\ "reopened" \in astray'[a]
  BY <1>0, <1>3 DEF Acknowledged
<1>4. CASE /\ Fresh(a) \/ Closed(a)
           /\ row'[a] = mem'[a] \/ row'[a] = row[a]
  <2>1. ack.pc # "idle" => ~(Open(mem'[a]) /\ mem'[a].occ = ack.copy.occ)
    BY <1>0, <1>4 DEF Fresh, Closed, Open
  <2> QED
    BY <1>0, <1>4, <2>1 DEF Acknowledged
<1> QED
  BY <1>1, <1>2, <1>3, <1>4 DEF Dealt

\* Only an acknowledgement makes an open alarm ACKNOWLEDGED, only a batch makes it
\* ACTIVE again, and then it is a later occurrence or a reopened one.
LEMMA AckInvStep ==
  ASSUME AlarmTypeOK, IssuedInv, AckInv, AlarmNext
  PROVE  AckInv'
<1>0. AlarmTypeOK'
  BY StepType
<1>1. SUFFICES ASSUME NEW k \in Acks
               PROVE  /\ acks'[k].stored => acks'[k].pc \in {"read", "replace", "done"}
                      /\ acks'[k].alarm \in FieldAlarms =>
                           LET a == acks'[k].alarm IN
                             Acknowledged(acks'[k], mem'[a], row'[a], astray'[a], issued'[a])
  BY DEF AckInv, Acknowledged, Stands
<1> DEFINE a == acks[k].alarm
           copy == acks[k].copy
<1>2. /\ acks[k].stored => acks[k].pc \in {"read", "replace", "done"}
      /\ a \in FieldAlarms => Acknowledged(acks[k], mem[a], row[a], astray[a], issued[a])
  BY AckInvIs
<1>3. /\ a \in AlarmIds /\ copy \in Alarm \cup {NoAlarm}
      /\ acks[k].pc \in {"idle", "record", "read", "replace", "done"}
  BY DEF AlarmTypeOK
<1>4. a \in FieldAlarms => issued[a] \in Nat /\ issued'[a] \in Nat /\ issued[a] <= issued'[a]
  BY <1>0, <1>3, IssuedStep DEF AlarmTypeOK
<1>5. CASE RaiseOutage \/ ClearOutage \/ CheckStorage
  <2>1. UNCHANGED <<row, acks, astray>> /\ \A b \in FieldAlarms : mem'[b] = mem[b] /\ issued'[b] = issued[b]
    BY <1>5, PlatformMoves
  <2> QED
    BY <2>1, AckUnlessTouched
<1>6. CASE RecordPlatform
  <2>1. PICK b \in {Acquisition, Storage} : Store(b, pub.note) \/ StoreFails(b)
    BY <1>6, RecordMoves
  <2>2. b \in AlarmIds /\ pub.note \in Alarm \cup {NoAlarm} /\ \A c \in FieldAlarms : c \in AlarmIds \ {b}
    BY Ids DEF AlarmTypeOK
  <2>3. \A c \in FieldAlarms : row'[c] = row[c] /\ astray'[c] = astray[c]
    BY <2>1, <2>2, StoreFollows
  <2>4. UNCHANGED <<mem, acks, issued>>
    BY <1>6, RecordMoves
  <2> QED
    BY <2>3, <2>4, AckUnlessTouched
<1>7. CASE Reconcile \/ ReconcileFails
  <2>1. acks' = acks
    BY <1>7, ReconcileDeals
  <2>2. a \in FieldAlarms => Dealt(a)
    BY <1>3, <1>7, ReconcileDeals
  <2>3. copy \in Alarm => copy.occ \in Nat
    BY DEF Alarm
  <2>4. acks[k].stored => acks[k].pc # "idle"
    BY <1>2
  <2>5. a \in FieldAlarms => Acknowledged(acks[k], mem'[a], row'[a], astray'[a], issued'[a])
    BY <1>2, <1>4, <2>2, <2>3, <2>4, DealtKeeps
  <2> QED
    BY <1>2, <2>1, <2>5
<1>8. CASE \E j \in Acks : Acknowledge(j)
  <2>1. PICK j \in Acks : Acknowledge(j)
    BY <1>8
  <2>2. UNCHANGED <<row, issued, astray>>
    BY <2>1 DEF Acknowledge
  <2> DEFINE b == acks'[j].alarm
             new == acks'[j].copy
  <2>3. /\ mem' = [mem EXCEPT ![b] = new] /\ b \in AlarmIds /\ new \in Alarm
        /\ new.state = "ACKNOWLEDGED" /\ new.occ = mem[b].occ
        /\ mem[b] \in Alarm /\ mem[b].state = "ACTIVE"
        /\ acks[j].pc = "idle" /\ acks'[j].pc = "record" /\ acks'[j].stored = acks[j].stored
        /\ \A i \in Acks \ {j} : acks'[i] = acks[i]
    BY <2>1, AcknowledgeType
  <2>4. mem'[b] = new /\ \A c \in AlarmIds \ {b} : mem'[c] = mem[c]
    BY <2>3 DEF AlarmTypeOK, Alarms
  <2>5. CASE k = j
    <3>1. ~acks'[k].stored
      BY <1>2, <2>3, <2>5
    <3>2. b \in FieldAlarms => new.occ <= issued[b]
      BY <2>3, NoAlarmAssumption DEF IssuedInv, Issued
    <3> HIDE DEF b, new
    <3>3. b \in FieldAlarms => Acknowledged(acks'[k], mem'[b], row'[b], astray'[b], issued'[b])
      BY <2>2, <2>3, <2>4, <2>5, <3>1, <3>2 DEF Acknowledged, b, new
    <3> QED
      BY <2>5, <3>1, <3>3 DEF b
  <2>6. CASE k # j
    <3>1. acks'[k] = acks[k]
      BY <2>3, <2>6
    <3>2. CASE a = b /\ a \in FieldAlarms
      <4>1. /\ Open(mem[a]) /\ mem[a].state = "ACTIVE"
            /\ mem'[a].state = "ACKNOWLEDGED" /\ mem'[a].occ = mem[a].occ
        BY <2>3, <2>4, <3>2, NoAlarmAssumption DEF Open
      <4> QED
        BY <1>2, <2>2, <3>1, <3>2, <4>1 DEF Acknowledged
    <3>3. CASE a # b \/ a \notin FieldAlarms
      <4>1. a \in FieldAlarms => mem'[a] = mem[a]
        BY <1>3, <2>4, <3>3
      <4> QED
        BY <2>2, <3>1, <4>1, AckUnlessTouched
    <3> QED
      BY <3>2, <3>3
  <2> QED
    BY <2>5, <2>6
<1>9. CASE \E j \in Acks : RecordAck(j)
  <2>1. PICK j \in Acks : RecordAck(j)
    BY <1>9
  <2> DEFINE b == acks[j].alarm
             new == acks[j].copy
  <2>2. b \in AlarmIds /\ new \in Alarm \cup {NoAlarm}
    BY DEF AlarmTypeOK
  <2>3. /\ acks[j].pc = "record" /\ acks'[j].alarm = b /\ acks'[j].copy = new
        /\ \A i \in Acks \ {j} : acks'[i] = acks[i]
        /\ \/ Store(b, new) /\ acks'[j].pc = "read" /\ acks'[j].stored = TRUE
           \/ StoreFails(b) /\ acks'[j].pc = "done" /\ acks'[j].stored = acks[j].stored
    BY <2>1, RecordAckType
  <2>4. UNCHANGED <<mem, issued>>
    BY <2>1 DEF RecordAck
  <2>5. b \in FieldAlarms => new.state = "ACKNOWLEDGED"
    BY <2>3 DEF AckInv
  <2>6. \A c \in AlarmIds \ {b} : row'[c] = row[c] /\ astray'[c] = astray[c]
    BY <2>2, <2>3, StoreFollows
  <2>7. \/ row'[b] = new /\ astray'[b] = {} /\ Same(new, mem[b])
        \/ row'[b] = new /\ astray'[b] = astray[b] \cup {"late"}
        \/ row'[b] = row[b] /\ astray'[b] = astray[b] \cup {"missed"} /\ acks'[j].stored = acks[j].stored
             /\ acks'[j].pc = "done"
    BY <2>2, <2>3 DEF Store, StoreFails, AlarmTypeOK, Alarms
  <2>8. Same(new, mem[b]) /\ Open(mem[b]) => mem[b].state = new.state
    BY DEF Same, Open
  <2>9. CASE a = b /\ a \in FieldAlarms
    <3>1. acks'[k].alarm = a /\ acks'[k].copy = copy
          /\ (acks'[k].stored => acks[k].stored \/ acks[k].pc = "record")
          /\ (acks'[k].stored => acks'[k].pc \in {"read", "replace", "done"})
          /\ (acks[k].pc = "idle" => acks'[k].pc = "idle")
          /\ (acks'[k].pc = "record" => acks[k].pc = "record")
      <4>1. CASE k = j
        BY <1>2, <2>3, <4>1
      <4>2. CASE k # j
        BY <1>2, <2>3, <4>2
      <4> QED
        BY <4>1, <4>2
    <3>2. CASE /\ row'[a] = new /\ new.state = "ACKNOWLEDGED"
               /\ (astray'[a] = {} /\ Same(new, mem[a])) \/ astray'[a] = astray[a] \cup {"late"}
      <4>1. acks'[k].stored \/ acks'[k].pc = "record" => acks[k].stored \/ acks[k].pc = "record"
        BY <3>1
      <4>2. Open(mem[a]) /\ "reopened" \notin astray'[a] =>
              mem[a].state = "ACKNOWLEDGED" \/ "reopened" \notin astray[a]
        BY <2>8, <2>9, <3>2
      <4> QED
        BY <1>2, <2>4, <2>9, <3>1, <3>2, <4>1, <4>2 DEF Acknowledged
    <3>3. CASE /\ row'[a] = row[a] /\ astray'[a] = astray[a] \cup {"missed"}
               /\ acks'[j].stored = acks[j].stored
      <4>1. acks'[k].stored = acks[k].stored
        BY <2>3, <3>3
      <4>2. "reopened" \notin astray'[a] => "reopened" \notin astray[a]
        BY <3>3
      <4> QED
        BY <1>2, <2>4, <2>9, <3>1, <3>3, <4>1, <4>2 DEF Acknowledged
    <3> QED
      BY <2>5, <2>7, <2>9, <3>2, <3>3
  <2>10. CASE ~(a = b /\ a \in FieldAlarms)
    <3>1. CASE k = j
      BY <2>3, <2>10, <3>1
    <3>2. CASE k # j
      <4>1. acks'[k] = acks[k] /\ (a \in FieldAlarms => row'[a] = row[a] /\ astray'[a] = astray[a])
        BY <1>3, <2>3, <2>6, <2>10, <3>2
      <4> QED
        BY <2>4, <4>1, AckUnlessTouched
    <3> QED
      BY <3>1, <3>2
  <2> QED
    BY <2>9, <2>10
<1>10. CASE Restart
  <2>1. /\ \/ acks'[k] = acks[k] /\ acks[k].pc = "idle"
           \/ acks[k].pc # "idle" /\ acks'[k].pc = "done" /\ acks'[k].alarm = a
                /\ acks'[k].copy = copy /\ acks'[k].stored = acks[k].stored
        /\ mem' = row /\ row' = row /\ issued' = issued
    BY <1>10, RestartType
  <2> QED
    BY <1>2, <2>1 DEF Acknowledged
<1>11. CASE \E j \in Acks : ReadView(j) \/ ReplaceView(j)
  <2>1. PICK j \in Acks : ReadView(j) \/ ReplaceView(j)
    BY <1>11
  <2>2. UNCHANGED <<mem, row, issued, astray>>
    BY <2>1, ViewType
  <2>3. /\ acks[j].pc \in {"read", "replace"} /\ acks'[j].pc \in {"replace", "done"}
        /\ acks'[j].alarm = acks[j].alarm /\ acks'[j].copy = acks[j].copy
        /\ acks'[j].stored = acks[j].stored /\ \A i \in Acks \ {j} : acks'[i] = acks[i]
    BY <2>1, ViewType
  <2>4. CASE k = j
    BY <1>2, <2>2, <2>3, <2>4 DEF Acknowledged
  <2>5. CASE k # j
    BY <1>2, <2>2, <2>3, <2>5
  <2> QED
    BY <2>4, <2>5
<1>12. CASE \/ \E b \in FieldAlarms : Begin(b) \/ End(b)
            \/ ReadBatch \/ ReadFails \/ CycleFails \/ Degrade \/ Replace
  <2>1. UNCHANGED <<mem, row, issued, acks, astray>>
    BY <1>12, ReadMoves, CycleMoves DEF Begin, End
  <2> QED
    BY <2>1, AckUnlessTouched
<1> QED
  BY <1>5, <1>6, <1>7, <1>8, <1>9, <1>10, <1>11, <1>12 DEF AlarmNext, PublisherStep, AckStep

LEMMA StutterInv == AlarmInv /\ UNCHANGED alarmVars => AlarmInv'
<1> SUFFICES ASSUME AlarmInv, UNCHANGED alarmVars PROVE AlarmInv'
  OBVIOUS
<1> USE DEF alarmVars
<1>1. AlarmTypeOK'
  BY DEF AlarmInv, AlarmTypeOK
<1>2. BatchInv'
  BY DEF AlarmInv, BatchInv, Reportable
<1>3. DurableFollows'
  BY DEF AlarmInv, DurableFollows, Recording, Same
<1>4. IssuedInv'
  BY DEF AlarmInv, IssuedInv, Issued
<1>5. AckInv'
  BY DEF AlarmInv, AckInv, Stands, Open
<1>6. OutageInv'
  BY DEF AlarmInv, OutageInv, Open
<1> QED
  BY <1>1, <1>2, <1>3, <1>4, <1>5, <1>6 DEF AlarmInv

LEMMA StepInv == AlarmInv /\ [AlarmNext]_alarmVars => AlarmInv'
<1> SUFFICES ASSUME AlarmInv, AlarmNext PROVE AlarmInv'
  BY StutterInv
<1>1. AlarmTypeOK'
  BY StepType DEF AlarmInv
<1>2. BatchInv'
  BY BatchStep DEF AlarmInv
<1>3. DurableFollows'
  BY DurableStep DEF AlarmInv
<1>4. IssuedInv'
  BY IssuedStep DEF AlarmInv
<1>5. AckInv'
  BY AckInvStep DEF AlarmInv
<1>6. OutageInv'
  BY OutageStep DEF AlarmInv
<1> QED
  BY <1>1, <1>2, <1>3, <1>4, <1>5, <1>6 DEF AlarmInv

\* All parts together are inductive.
LEMMA Invariance == AlarmSpec => []AlarmInv
BY InitInv, StepInv, PTL DEF AlarmSpec

\* Type correctness: the publisher, the calls and the restarts keep the three
\* copies of every alarm well formed.
THEOREM AlarmTypeCorrect == AlarmSpec => []AlarmTypeOK
<1>1. AlarmInv => AlarmTypeOK
  BY DEF AlarmInv
<1> QED
  BY <1>1, Invariance, PTL

\* The historian's row of an alarm agrees with memory while nobody is about to
\* record it, but for failed appends, silent reopenings and late records.
THEOREM RowsFollow == AlarmSpec => []DurableFollows
<1>1. AlarmInv => DurableFollows
  BY DEF AlarmInv
<1> QED
  BY <1>1, Invariance, PTL

\* An acknowledgement of a field alarm that was answered with success lasts as
\* long as its occurrence is open, in memory and in the row, through restarts.
THEOREM AcknowledgementsSurvive == AlarmSpec => []AckSurvives
<1>1. AlarmInv => AckSurvives
  <2> SUFFICES ASSUME AlarmInv, NEW k \in Acks
               PROVE  LET a == acks[k].alarm IN
                        acks[k].stored /\ a \in FieldAlarms /\ Open(mem[a])
                          /\ mem[a].occ = acks[k].copy.occ /\ "reopened" \notin astray[a]
                        => mem[a].state = "ACKNOWLEDGED" /\ row[a].state = "ACKNOWLEDGED"
    BY DEF AckSurvives
  <2>1. acks[k].alarm \in FieldAlarms =>
          LET a == acks[k].alarm IN Acknowledged(acks[k], mem[a], row[a], astray[a], issued[a])
    BY AckInvIs DEF AlarmInv
  <2> QED
    BY <2>1 DEF Acknowledged
<1> QED
  BY <1>1, Invariance, PTL

\* Between two cycles an outage of the acquisition is alarmed, and an alarm that
\* outlasts the outage is one that was restored at the start of the process.
THEOREM OutagesAlarmed == AlarmSpec => []OutageIsAlarmed
<1>1. AlarmInv => OutageIsAlarmed
  BY DEF AlarmInv, OutageInv, OutageIsAlarmed
<1> QED
  BY <1>1, Invariance, PTL

\* A batch closes an alarm only as the field had it when the batch was read.
LEMMA ClosesWhatIsOver ==
  ASSUME AlarmTypeOK, IssuedInv, BatchInv, Reconcile \/ ReconcileFails,
         NEW a \in FieldAlarms, Open(mem[a]), ~Open(mem'[a])
  PROVE  ~field[a].active
<1>1. /\ pub.pc = "reconcile"
      /\ \/ a \in Absent
         \/ a \in InBatch /\ mem'[a] = Reconciled(a)
  <2>1. mem'[a] # mem[a]
    BY DEF Open
  <2> QED
    BY <2>1, ReconcileDeals
<1>2. Batch.raw[a] \in Reportable(a, Batch.complete)
  BY <1>1 DEF BatchInv, Batch
<1>3. CASE a \in Absent
  BY <1>2, <1>3 DEF Absent, InBatch, Reportable
<1>4. CASE a \in InBatch /\ mem'[a] = Reconciled(a)
  <2>1. Reconciled(a) \in Alarm /\ Reconciled(a) # NoAlarm
    BY <1>4, ReconciledIs, NoAlarmAssumption
  <2>2. Batch.raw[a] = "CLEARED"
    BY <1>4, <2>1, ReconciledIs, FieldTypes DEF InBatch, Open
  <2> QED
    BY <1>2, <1>4, <2>2 DEF InBatch, Reportable
<1> QED
  BY <1>1, <1>3, <1>4

\* A field alarm that this process has open is cleared only by a batch that was
\* read while its condition was over; no failure clears what is still true.
THEOREM NothingFalselyCleared == AlarmSpec => NoFalseClear
<1> DEFINE Honest == \A a \in FieldAlarms :
             Open(mem[a]) /\ ~Open(mem'[a]) /\ restarts' = restarts => ~field[a].active
<1>1. AlarmInv /\ [AlarmNext]_alarmVars => [Honest]_alarmVars
  <2> SUFFICES ASSUME AlarmInv, AlarmNext, NEW a \in FieldAlarms,
                      Open(mem[a]), ~Open(mem'[a]), restarts' = restarts
               PROVE  ~field[a].active
    OBVIOUS
  <2>0. /\ AlarmTypeOK /\ BatchInv /\ IssuedInv /\ AckInv
        /\ a \in AlarmIds /\ a \in AlarmIds \ {Acquisition, Storage} /\ restarts \in Nat
        /\ mem[a] \in Alarm \cup {NoAlarm}
    BY Ids DEF AlarmInv, AlarmTypeOK, Alarms
  <2>1. mem'[a] # mem[a]
    BY DEF Open
  <2>2. CASE Reconcile \/ ReconcileFails
    BY <2>0, <2>2, ClosesWhatIsOver
  <2>3. CASE RaiseOutage \/ ClearOutage \/ CheckStorage
    BY <2>0, <2>1, <2>3, PlatformMoves
  <2>4. CASE RecordPlatform
    BY <2>0, <2>1, <2>4, RecordMoves
  <2>5. CASE \E k \in Acks : Acknowledge(k)
    <3>1. PICK k \in Acks : Acknowledge(k)
      BY <2>5
    <3> DEFINE b == acks'[k].alarm
               copy == acks'[k].copy
    <3>2. /\ mem' = [mem EXCEPT ![b] = copy] /\ b \in AlarmIds
          /\ copy \in Alarm /\ copy.state = "ACKNOWLEDGED"
      BY <2>0, <3>1, AcknowledgeType
    <3> HIDE DEF b, copy
    <3>3. mem'[a] = mem[a] \/ mem'[a] = copy
      BY <2>0, <3>2 DEF AlarmTypeOK, Alarms
    <3>4. copy # NoAlarm
      BY <3>2, NoAlarmAssumption
    <3> QED
      BY <2>1, <3>2, <3>3, <3>4 DEF Open
  <2>6. CASE Restart
    BY <2>0, <2>6, RestartType
  <2>7. CASE \/ \E k \in Acks : RecordAck(k) \/ ReadView(k) \/ ReplaceView(k)
             \/ \E b \in FieldAlarms : Begin(b) \/ End(b)
             \/ ReadBatch \/ ReadFails \/ CycleFails \/ Degrade \/ Replace
    BY <2>0, <2>1, <2>7, ReadMoves, CycleMoves DEF Begin, End, RecordAck, ReadView, ReplaceView
  <2> QED
    BY <2>2, <2>3, <2>4, <2>5, <2>6, <2>7 DEF AlarmNext, PublisherStep, AckStep
<1> QED
  BY <1>1, Invariance, PTL DEF AlarmSpec, NoFalseClear

===============================================================================
