---------------------------- MODULE HistorianProofs ----------------------------
(***************************************************************************)
(* Typing and safety of Historian, for any points, periods, clocks, epochs *)
(* and any number of failures, ends of the process and restores.           *)
(***************************************************************************)
EXTENDS Historian, WellFoundedInduction, TLAPS

Contents == [rows : [Points -> SUBSET Sample], durable : [Points -> Sample \cup {None}]]
Views == [Points -> Point \cup {None}]
Sources == [up : BOOLEAN, last : Sample \cup {None}, before : Sample \cup {None}]
Files == [ts : Nat, state : {"partial", "damaged", "whole"}, of : Contents]

\* TypeOK, with the records whole.
TelemetryTypes ==
  /\ clock \in Nat /\ epoch \in Nat /\ faults \in Nat
  /\ source \in [Points -> Sources]
  /\ rows \in [Points -> SUBSET Sample] /\ loose \in [Points -> SUBSET Sample]
  /\ durable \in [Points -> Sample \cup {None}] /\ cursor \in [Points -> Sample \cup {None}]
  /\ shown \in Views
  /\ pub \in [pc : {"read", "persist", "cursor", "replace"}, todo : SUBSET Points,
              at : Points \cup {None}, view : Views]
  /\ life \in {"up", "flagged", "joining", "down"}

MaintenanceTypes ==
  /\ thread \in [pc : {"test", "about", "asleep", "open", "copy", "verify", "ended"}, now : Nat]
  /\ kept \in [backup : Nat, path : Nat \cup {None}, adopted : BOOLEAN]
  /\ backups \subseteq Files
  /\ disk \in [placed : BOOLEAN, file : Contents, aside : SUBSET Contents,
               copy : Contents \cup {None}]
  /\ tool \in [pc : {"idle", "log", "aside", "place"}, before : Contents, logged : BOOLEAN]

\* Only a running process has a cycle.  Between a row and its cursor, the row
\* is stored and later than the cursor in memory.
PubInv ==
  /\ \A p \in pub.todo : pub.view[p] # None
  /\ pub.pc = "read" => pub = Idle
  /\ life # "up" => pub = Idle
  /\ pub.pc = "cursor" =>
       /\ pub.at \in pub.todo
       /\ pub.view[pub.at].sample \in rows[pub.at]
       /\ LET s == pub.view[pub.at].sample
              c == cursor[pub.at]
          IN c # None => c.epoch = s.epoch /\ c.ts <= s.ts

\* The row whose cursor is next.
Underway(p, r) == pub.pc = "cursor" /\ pub.at = p /\ r = pub.view[p].sample

Covers(c, r) == c # None /\ c.epoch = r.epoch /\ r.ts <= c.ts

\* Every other row that is not loose is covered by the stored cursor and, while
\* the process runs, by the one in memory.
CoverInv ==
  \A p \in Points :
    /\ loose[p] \subseteq rows[p]
    /\ \A r \in rows[p] \ loose[p] :
         \/ Underway(p, r)
         \/ Covers(durable[p], r) /\ (life = "up" => Covers(cursor[p], r))

\* A backup that is being made is newer than the one that is kept.
BackupInv ==
  /\ kept.path # None => kept.path = kept.backup
  /\ thread.pc \in {"open", "copy", "verify"} /\ kept.path # None => kept.path < thread.now
  /\ thread.now <= clock /\ \A b \in backups : b.ts <= clock

\* The tool works on files that no process has open.
RestoreInv ==
  /\ tool.pc # "idle" \/ ~disk.placed => life = "down"
  /\ tool.pc # "idle" => disk.copy \in Contents
  /\ tool.pc = "log" /\ disk.placed /\ ~tool.logged => disk.file = Content

StorageInv ==
  /\ TelemetryTypes /\ MaintenanceTypes /\ PubInv /\ CoverInv
  /\ BackupInv /\ BackupSound /\ RestoreInv /\ RestoreKeeps

-------------------------------------------------------------------------------
(* Operators *)

LEMMA NothingType == Nothing \in [Points -> Sample \cup {None}] /\ Nothing \in Views
BY DEF Nothing, Views

LEMMA IdleType ==
  /\ Idle \in [pc : {"read", "persist", "cursor", "replace"}, todo : SUBSET Points,
               at : Points \cup {None}, view : Views]
  /\ Idle.pc = "read" /\ Idle.todo = {} /\ Idle.at = None
BY NothingType DEF Idle

LEMMA EmptyType ==
  /\ Empty \in Contents /\ Empty.rows = [p \in Points |-> {}] /\ Empty.durable = Nothing
  /\ Empty.rows \in [Points -> SUBSET Sample]
<1>1. [p \in Points |-> {}] \in [Points -> SUBSET Sample]
  OBVIOUS
<1> QED
  BY <1>1, NothingType DEF Empty, Contents

LEMMA ContentType ==
  ASSUME TelemetryTypes
  PROVE  Content \in Contents /\ Content.rows = rows /\ Content.durable = durable
BY DEF TelemetryTypes, Content, Contents

\* A point as it is shown, whatever its device reported.
LEMMA ReadingsType ==
  ASSUME TelemetryTypes, NEW p \in Points
  PROVE  Readings(p) \subseteq Point
<1> SUFFICES ASSUME NEW s \in {source[p].last, source[p].before} \ {None}, NEW raw \in Raw
             PROVE  NormalizePoint(s, raw) \in Point
  BY DEF Readings
<1>1. s \in Sample /\ clock \in Nat /\ epoch \in Nat
  BY DEF TelemetryTypes, Sources
<1>2. [epoch |-> epoch, ts |-> IF raw = "untimed" THEN clock ELSE s.ts] \in Sample
  BY <1>1 DEF Sample
<1>3. (CASE raw = "good" -> "GOOD" [] raw = "untimed" -> "UNCERTAIN" [] OTHER -> "BAD") \in Quality
  BY DEF Quality
<1> QED
  BY <1>2, <1>3 DEF NormalizePoint, Point

\* Another quality for a point.
LEMMA Requalified ==
  ASSUME NEW x \in Point, NEW q \in Quality
  PROVE  [x EXCEPT !.quality = q] \in Point
BY DEF Point

LEMMA MergedType ==
  ASSUME TelemetryTypes, NEW got \in Views, NEW complete
  PROVE  Merged(got, complete) \in Views
<1> SUFFICES ASSUME NEW p \in Points PROVE Merged(got, complete)[p] \in Point \cup {None}
  BY DEF Merged, Views
<1>1. shown[p] \in Point \cup {None} /\ got[p] \in Point \cup {None}
  BY DEF TelemetryTypes, Views
<1>2. shown[p] # None => [shown[p] EXCEPT !.quality = "STALE"] \in Point
  BY <1>1, Requalified DEF Quality
<1> QED
  BY <1>1, <1>2 DEF Merged

\* A backup's time is a number: there is a last one.
LEMMA Least ==
  ASSUME NEW T \in SUBSET Nat, T # {}
  PROVE  \E n \in T : \A m \in T : n <= m
<1>1. PICK n \in T : \A m \in T : <<m, n>> \notin OpToRel(<, Nat)
  BY NatLessThanWellFounded, WFMin
<1>2. \A m, k \in Nat : m < k => <<m, k>> \in OpToRel(<, Nat)
  BY DEF OpToRel
<1>3. \A m \in T : ~(m < n)
  BY <1>1, <1>2, Zenon
<1> QED
  BY <1>3

LEMMA LastFileIs ==
  ASSUME NEW last \in Nat, \A b \in backups : b.ts \in Nat /\ b.ts <= last, backups # {}
  PROVE  LastFile \in backups /\ \A b \in backups : b.ts <= LastFile.ts
<1> DEFINE T == {n \in Nat : \A b \in backups : b.ts <= n}
<1>1. PICK n \in T : \A m \in T : n <= m
  <2>1. last \in T /\ T \in SUBSET Nat
    OBVIOUS
  <2> HIDE DEF T
  <2> QED
    BY <2>1, Least
<1>2. \E b \in backups : b.ts = n
  <2> SUFFICES ASSUME \A b \in backups : b.ts # n PROVE FALSE
    OBVIOUS
  <2>1. n \in Nat /\ \A b \in backups : b.ts < n
    OBVIOUS
  <2>2. n - 1 \in Nat /\ \A b \in backups : b.ts <= n - 1
    BY <2>1
  <2>3. n - 1 \in T
    BY <2>2
  <2> HIDE DEF T
  <2> QED
    BY <1>1, <2>1, <2>3
<1>3. \E b \in backups : \A c \in backups : c.ts <= b.ts
  BY <1>2
<1> QED
  BY <1>3 DEF LastFile

-------------------------------------------------------------------------------
(* The world and the publisher *)

LEMMA WorldTypes ==
  ASSUME TelemetryTypes, Tick \/ AdapterRestarts \/ \E p \in Points : Fail(p)
  PROVE  /\ TelemetryTypes' /\ UNCHANGED <<rows, durable, cursor, shown, pub, life, loose>>
         /\ clock' >= clock
<1>1. /\ clock' \in Nat /\ epoch' \in Nat /\ faults' \in Nat /\ clock' >= clock
      /\ UNCHANGED <<rows, durable, cursor, shown, pub, life, loose>>
  <2>1. clock \in Nat /\ epoch \in Nat /\ faults \in Nat
    BY DEF TelemetryTypes
  <2>2. CASE Tick
    <3>1. clock' = clock + 1 /\ UNCHANGED <<epoch, rows, durable, cursor, shown, pub, life, faults, loose>>
      BY <2>2, Zenon DEF Tick
    <3> QED
      BY <2>1, <3>1
  <2>3. CASE AdapterRestarts
    <3>1. epoch' = epoch + 1 /\ UNCHANGED <<clock, rows, durable, cursor, shown, pub, life, faults, loose>>
      BY <2>3, Zenon DEF AdapterRestarts
    <3> QED
      BY <2>1, <3>1
  <2>4. CASE \E p \in Points : Fail(p)
    BY <2>1, <2>4 DEF Fail
  <2> QED
    BY <2>2, <2>3, <2>4
<1>2. source' \in [Points -> Sources]
  <2>1. CASE Tick
    <3>1. [epoch |-> 0, ts |-> clock + 1] \in Sample
      BY DEF Sample, TelemetryTypes
    <3> DEFINE sample == [epoch |-> 0, ts |-> clock + 1]
    <3> HIDE DEF sample
    <3>2. \A p \in Points : [source[p] EXCEPT !.last = sample, !.before = source[p].last] \in Sources
      BY <3>1 DEF TelemetryTypes, Sources, sample
    <3>3. source' = [p \in Points |-> IF source[p].up
                     THEN [source[p] EXCEPT !.last = sample, !.before = source[p].last]
                     ELSE source[p]]
      BY <2>1 DEF Tick, sample
    <3> QED
      BY <3>2, <3>3 DEF TelemetryTypes
  <2>2. CASE AdapterRestarts
    <3>1. \A p \in Points : [source[p] EXCEPT !.last = None, !.before = None] \in Sources
      BY DEF TelemetryTypes, Sources
    <3> QED
      BY <2>2, <3>1 DEF AdapterRestarts
  <2>3. ASSUME NEW p \in Points, Fail(p) PROVE source' \in [Points -> Sources]
    <3>1. [source[p] EXCEPT !.up = FALSE] \in Sources
      BY DEF TelemetryTypes, Sources
    <3> QED
      BY <2>3, <3>1 DEF Fail, TelemetryTypes
  <2> QED
    BY <2>1, <2>2, <2>3
<1> QED
  BY <1>1, <1>2 DEF TelemetryTypes

LEMMA FaultType == ASSUME TelemetryTypes, Fault PROVE faults' \in Nat
BY DEF TelemetryTypes, Fault

\* A cycle begins, or ends: no row, cursor or alarm is touched.
LEMMA CycleTypes ==
  ASSUME TelemetryTypes, PubInv, ReadBatch \/ ReadFails \/ Persisted \/ Replace
  PROVE  /\ TelemetryTypes' /\ UNCHANGED <<clock, rows, durable, cursor, life, loose>>
         /\ life = "up" /\ pub.pc # "cursor" /\ pub'.pc # "cursor"
         /\ (pub'.pc = "read" => pub' = Idle) /\ \A p \in pub'.todo : pub'.view[p] # None
<1>1. CASE ReadBatch
  <2>1. PICK complete \in SUBSET {p \in Points : source[p].up},
             got \in [Points -> {None} \cup UNION {Readings(p) : p \in Points}] :
          pub' = [pub EXCEPT !.pc = "persist", !.view = Merged(got, complete),
                             !.todo = {p \in Points : Merged(got, complete)[p] # None}]
    BY <1>1 DEF ReadBatch
  <2>2. got \in Views
    BY ReadingsType DEF Views
  <2> DEFINE view == Merged(got, complete)
  <2>3. view \in Views
    BY <2>2, MergedType
  <2> HIDE DEF view
  <2>4. pub' = [pub EXCEPT !.pc = "persist", !.view = view, !.todo = {p \in Points : view[p] # None}]
    BY <2>1 DEF view
  <2>5. /\ pub' \in [pc : {"read", "persist", "cursor", "replace"}, todo : SUBSET Points,
                     at : Points \cup {None}, view : Views]
        /\ pub'.pc = "persist" /\ pub'.view = view /\ pub'.todo = {p \in Points : view[p] # None}
    BY <2>3, <2>4 DEF TelemetryTypes
  <2>6. /\ UNCHANGED <<clock, source, epoch, rows, durable, cursor, shown, life, loose>>
        /\ life = "up" /\ pub.pc = "read" /\ faults' \in Nat
    BY <1>1, FaultType DEF ReadBatch, TelemetryTypes
  <2> QED
    BY <2>5, <2>6 DEF TelemetryTypes
<1>2. CASE ReadFails
  <2>1. PICK quality \in {"STALE", "BAD"} :
          pub' = [pub EXCEPT !.pc = "replace",
                    !.view = [p \in Points |-> IF shown[p] = None THEN None
                                               ELSE [shown[p] EXCEPT !.quality = quality]]]
    BY <1>2 DEF ReadFails
  <2> DEFINE view == [p \in Points |-> IF shown[p] = None THEN None
                                       ELSE [shown[p] EXCEPT !.quality = quality]]
  <2>2. view \in Views
    BY Requalified DEF Views, TelemetryTypes, Quality
  <2> HIDE DEF view
  <2>3. pub' = [pub EXCEPT !.pc = "replace", !.view = view]
    BY <2>1 DEF view
  <2>4. /\ UNCHANGED <<clock, source, epoch, rows, durable, cursor, shown, life, loose>>
        /\ life = "up" /\ pub.pc = "read" /\ pub.todo = {} /\ faults' \in Nat
    BY <1>2, FaultType, IdleType DEF ReadFails, PubInv, TelemetryTypes
  <2>5. /\ pub' \in [pc : {"read", "persist", "cursor", "replace"}, todo : SUBSET Points,
                     at : Points \cup {None}, view : Views]
        /\ pub'.pc = "replace" /\ pub'.todo = {}
    BY <2>2, <2>3, <2>4 DEF TelemetryTypes
  <2> QED
    BY <2>4, <2>5 DEF TelemetryTypes
<1>3. CASE Persisted
  <2>1. /\ UNCHANGED <<clock, source, epoch, rows, durable, cursor, shown, life, loose>>
        /\ life = "up" /\ pub.pc = "persist" /\ pub.todo = {} /\ faults' \in Nat
        /\ pub' = [pub EXCEPT !.pc = "replace"] \/ pub' = Idle
    BY <1>3, FaultType DEF Persisted, Abort, TelemetryTypes
  <2> QED
    BY <2>1, IdleType DEF TelemetryTypes
<1>4. CASE Replace
  BY <1>4, IdleType DEF Replace, TelemetryTypes
<1> QED
  BY <1>1, <1>2, <1>3, <1>4

\* What changes no row and no cursor, and passes between no row and its cursor.
LEMMA CoverKept ==
  ASSUME CoverInv, UNCHANGED <<rows, loose, durable>>, pub.pc # "cursor",
         life' = "up" => life = "up" /\ cursor' = cursor
  PROVE  CoverInv'
BY DEF CoverInv, Underway, Covers

LEMMA WorldInv ==
  ASSUME TelemetryTypes, PubInv, CoverInv, Tick \/ AdapterRestarts \/ \E p \in Points : Fail(p)
  PROVE  PubInv' /\ CoverInv'
<1>1. UNCHANGED <<rows, durable, cursor, shown, pub, life, loose>>
  BY WorldTypes
<1> QED
  BY <1>1 DEF PubInv, CoverInv, Underway, Covers

LEMMA CycleInv ==
  ASSUME TelemetryTypes, PubInv, CoverInv, ReadBatch \/ ReadFails \/ Persisted \/ Replace
  PROVE  PubInv' /\ CoverInv'
<1>1. /\ UNCHANGED <<clock, rows, durable, cursor, life, loose>>
      /\ life = "up" /\ pub.pc # "cursor" /\ pub'.pc # "cursor"
      /\ (pub'.pc = "read" => pub' = Idle) /\ \A p \in pub'.todo : pub'.view[p] # None
  BY CycleTypes
<1>2. PubInv'
  BY <1>1 DEF PubInv
<1> QED
  BY <1>1, <1>2, CoverKept

\* What persistTelemetry does to a point: skips it, or stores its sample, or fails.
LEMMA PersistIs ==
  ASSUME TelemetryTypes, PubInv, NEW p \in Points, PersistPoint(p)
  PROVE  LET s == pub.view[p].sample
             c == CursorFor(p, s)
         IN
         /\ s \in Sample /\ c \in Sample \cup {None} /\ (c # None => c.epoch = s.epoch)
         /\ life = "up" /\ pub.pc = "persist" /\ p \in pub.todo
         /\ cursor' = [cursor EXCEPT ![p] = c]
         /\ \/ c = cursor[p] /\ loose' = loose
            \/ c = None /\ loose' = [loose EXCEPT ![p] = rows[p]]
         /\ \/ UNCHANGED <<rows, faults>> /\ pub' = [pub EXCEPT !.todo = @ \ {p}]
            \/ /\ Due(s, c) /\ rows' = [rows EXCEPT ![p] = @ \cup {s}] /\ UNCHANGED faults
               /\ pub' = [pub EXCEPT !.pc = "cursor", !.at = p]
            \/ UNCHANGED rows /\ pub' = Idle /\ faults' \in Nat
         /\ UNCHANGED <<clock, source, epoch, durable, shown, life>>
<1> DEFINE s == pub.view[p].sample
           c == CursorFor(p, s)
<1>1. p \in pub.todo /\ pub.view[p] \in Point /\ s \in Sample
  BY DEF PersistPoint, PubInv, TelemetryTypes, Views, Point
<1>2. c = cursor[p] \/ c = None
  BY DEF CursorFor
<1>3. c \in Sample \cup {None} /\ (c # None => c.epoch = s.epoch)
  BY <1>2 DEF CursorFor, TelemetryTypes
<1> QED
  BY <1>1, <1>2, <1>3, FaultType DEF PersistPoint, Abort

LEMMA PersistTypes ==
  ASSUME TelemetryTypes, PubInv, NEW p \in Points, PersistPoint(p)
  PROVE  TelemetryTypes' /\ UNCHANGED <<clock, life>>
<1> DEFINE s == pub.view[p].sample
           c == CursorFor(p, s)
<1>1. /\ s \in Sample /\ c \in Sample \cup {None}
      /\ cursor' = [cursor EXCEPT ![p] = c]
      /\ \/ loose' = loose
         \/ loose' = [loose EXCEPT ![p] = rows[p]]
      /\ \/ UNCHANGED <<rows, faults>> /\ pub' = [pub EXCEPT !.todo = @ \ {p}]
         \/ /\ rows' = [rows EXCEPT ![p] = @ \cup {s}] /\ UNCHANGED faults
            /\ pub' = [pub EXCEPT !.pc = "cursor", !.at = p]
         \/ UNCHANGED rows /\ pub' = Idle /\ faults' \in Nat
      /\ UNCHANGED <<clock, source, epoch, durable, shown, life>>
  BY PersistIs
<1> HIDE DEF s, c
<1>2. /\ cursor' \in [Points -> Sample \cup {None}]
      /\ loose' \in [Points -> SUBSET Sample] /\ rows' \in [Points -> SUBSET Sample]
  BY <1>1 DEF TelemetryTypes
<1>3. pub' \in [pc : {"read", "persist", "cursor", "replace"}, todo : SUBSET Points,
                at : Points \cup {None}, view : Views]
  BY <1>1, IdleType DEF TelemetryTypes
<1> QED
  BY <1>1, <1>2, <1>3 DEF TelemetryTypes

\* A row is stored only when its sample is later than the cursor of its epoch.
LEMMA PersistInv ==
  ASSUME TelemetryTypes, PubInv, CoverInv, NEW p \in Points, PersistPoint(p)
  PROVE  PubInv' /\ CoverInv'
<1> DEFINE s == pub.view[p].sample
           c == CursorFor(p, s)
<1>1. /\ s \in Sample /\ c \in Sample \cup {None} /\ (c # None => c.epoch = s.epoch)
      /\ life = "up" /\ pub.pc = "persist" /\ p \in pub.todo
      /\ cursor' = [cursor EXCEPT ![p] = c]
      /\ \/ c = cursor[p] /\ loose' = loose
         \/ c = None /\ loose' = [loose EXCEPT ![p] = rows[p]]
      /\ \/ UNCHANGED <<rows, faults>> /\ pub' = [pub EXCEPT !.todo = @ \ {p}]
         \/ /\ Due(s, c) /\ rows' = [rows EXCEPT ![p] = @ \cup {s}] /\ UNCHANGED faults
            /\ pub' = [pub EXCEPT !.pc = "cursor", !.at = p]
         \/ UNCHANGED rows /\ pub' = Idle /\ faults' \in Nat
      /\ UNCHANGED <<clock, source, epoch, durable, shown, life>>
  BY PersistIs
<1>2. s = pub.view[p].sample
  OBVIOUS
<1> HIDE DEF s, c
<1>3. /\ cursor'[p] = c /\ \A q \in Points \ {p} : cursor'[q] = cursor[q]
      /\ \A q \in Points \ {p} : loose'[q] = loose[q] /\ rows'[q] = rows[q]
      /\ loose'[p] = loose[p] \/ loose'[p] = rows[p]
      /\ rows'[p] = rows[p] \/ (rows'[p] = rows[p] \cup {s} /\ pub'.pc = "cursor")
  BY <1>1 DEF TelemetryTypes
<1>4. \/ pub'.pc = "persist" /\ pub'.todo = pub.todo \ {p} /\ pub'.view = pub.view
      \/ /\ pub'.pc = "cursor" /\ pub'.at = p /\ pub'.todo = pub.todo /\ pub'.view = pub.view
         /\ rows'[p] = rows[p] \cup {s} /\ Due(s, c)
      \/ pub' = Idle
  BY <1>1, <1>3 DEF TelemetryTypes
<1>5. PubInv'
  <2>1. c # None /\ Due(s, c) => c.ts <= s.ts
    BY <1>1, TelemetryAssumption DEF Due, Later, Sample
  <2> QED
    BY <1>1, <1>2, <1>3, <1>4, <2>1, IdleType DEF PubInv
<1>6. ASSUME NEW q \in Points PROVE loose'[q] \subseteq rows'[q]
  BY <1>3 DEF CoverInv
<1>7. ASSUME NEW q \in Points, NEW r \in rows'[q] \ loose'[q]
      PROVE  Underway(q, r)' \/ (Covers(durable'[q], r) /\ Covers(cursor'[q], r))
  <2>1. CASE q # p
    BY <1>1, <1>3, <1>7, <2>1 DEF CoverInv, Underway
  <2>2. CASE q = p /\ r = s /\ pub'.pc = "cursor"
    BY <1>2, <1>4, <2>2, IdleType DEF Underway
  <2>3. CASE q = p /\ r \in rows[p]
    <3>1. loose'[p] = loose[p] /\ c = cursor[p]
      BY <1>1, <1>3, <1>7, <2>3 DEF TelemetryTypes
    <3> QED
      BY <1>1, <1>3, <1>7, <2>3, <3>1 DEF CoverInv, Underway
  <2> QED
    BY <1>3, <1>7, <2>1, <2>2, <2>3
<1> QED
  BY <1>1, <1>5, <1>6, <1>7 DEF CoverInv

LEMMA StoreCursorInv ==
  ASSUME TelemetryTypes, PubInv, CoverInv, StoreCursor
  PROVE  TelemetryTypes' /\ PubInv' /\ CoverInv' /\ UNCHANGED clock
<1> DEFINE p == pub.at
           s == pub.view[p].sample
<1>1. /\ p \in pub.todo /\ p \in Points /\ s \in rows[p] /\ s \in Sample
      /\ (cursor[p] # None => cursor[p].epoch = s.epoch /\ cursor[p].ts <= s.ts)
      /\ cursor[p] \in Sample \cup {None} /\ durable[p] \in Sample \cup {None}
  BY DEF StoreCursor, PubInv, TelemetryTypes
<1>2. /\ UNCHANGED <<clock, source, epoch, rows, shown, life>> /\ life = "up" /\ pub.pc = "cursor"
      /\ \/ /\ durable' = IF durable[p] # None /\ durable[p].epoch = s.epoch /\ ~Later(s, durable[p])
                          THEN durable ELSE [durable EXCEPT ![p] = s]
            /\ cursor' = [cursor EXCEPT ![p] = s]
            /\ pub' = [pub EXCEPT !.pc = "persist", !.at = None, !.todo = @ \ {p}]
            /\ UNCHANGED <<faults, loose>>
         \/ /\ pub' = Idle /\ faults' \in Nat
            /\ loose' = [loose EXCEPT ![p] = @ \cup {s}]
            /\ UNCHANGED <<durable, cursor>>
  BY FaultType DEF StoreCursor, Abort
<1>3. \A r : Underway(p, r) <=> r = s
  BY <1>2 DEF Underway
<1>4. \A q \in Points \ {p} : \A r : ~Underway(q, r)
  BY DEF Underway
<1> HIDE DEF p, s
<1>5. CASE /\ durable' = IF durable[p] # None /\ durable[p].epoch = s.epoch /\ ~Later(s, durable[p])
                         THEN durable ELSE [durable EXCEPT ![p] = s]
           /\ cursor' = [cursor EXCEPT ![p] = s]
           /\ pub' = [pub EXCEPT !.pc = "persist", !.at = None, !.todo = @ \ {p}]
           /\ UNCHANGED <<faults, loose>>
  <2>1. /\ cursor'[p] = s /\ \A q \in Points \ {p} : cursor'[q] = cursor[q] /\ durable'[q] = durable[q]
        /\ \/ durable'[p] = s
           \/ durable'[p] = durable[p] /\ durable[p] # None /\ durable[p].epoch = s.epoch /\ s.ts <= durable[p].ts
    BY <1>1, <1>5 DEF TelemetryTypes, Later, Sample
  <2>2. TelemetryTypes'
    BY <1>1, <1>2, <1>5 DEF TelemetryTypes
  <2>3. pub'.pc = "persist" /\ pub'.todo = pub.todo \ {p} /\ pub'.view = pub.view
    BY <1>5 DEF TelemetryTypes
  <2>4. PubInv'
    BY <1>2, <2>3 DEF PubInv
  <2>5. ASSUME NEW q \in Points, NEW r \in rows[q] \ loose[q]
        PROVE  Covers(durable'[q], r) /\ Covers(cursor'[q], r)
    <3>1. CASE q # p
      BY <1>2, <1>4, <2>1, <2>5, <3>1 DEF CoverInv
    <3>2. CASE q = p /\ r = s
      BY <1>1, <2>1, <3>2, NoneAssumption DEF Covers, Sample
    <3>3. CASE q = p /\ r # s
      <4>1. Covers(durable[p], r) /\ Covers(cursor[p], r)
        BY <1>2, <1>3, <2>5, <3>3 DEF CoverInv
      <4>2. r.epoch = s.epoch /\ r.ts <= s.ts
        <5>1. r \in Sample
          BY <2>5 DEF TelemetryTypes
        <5> QED
          BY <1>1, <4>1, <5>1 DEF Covers, Sample
      <4> QED
        BY <1>1, <2>1, <3>3, <4>1, <4>2, NoneAssumption DEF Covers
    <3> QED
      BY <3>1, <3>2, <3>3
  <2>6. CoverInv'
    BY <1>2, <1>5, <2>5 DEF CoverInv
  <2> QED
    BY <1>2, <2>2, <2>4, <2>6
<1>6. CASE /\ pub' = Idle /\ faults' \in Nat
           /\ loose' = [loose EXCEPT ![p] = @ \cup {s}]
           /\ UNCHANGED <<durable, cursor>>
  <2>1. loose'[p] = loose[p] \cup {s} /\ \A q \in Points \ {p} : loose'[q] = loose[q]
    BY <1>1, <1>6 DEF TelemetryTypes
  <2>2. TelemetryTypes'
    BY <1>1, <1>2, <1>6, IdleType DEF TelemetryTypes
  <2>3. PubInv'
    BY <1>6, IdleType DEF PubInv
  <2>4. CoverInv'
    BY <1>1, <1>2, <1>3, <1>4, <1>6, <2>1 DEF CoverInv
  <2> QED
    BY <1>2, <2>2, <2>3, <2>4
<1> QED
  BY <1>2, <1>5, <1>6

LEMMA PublisherInv ==
  ASSUME TelemetryTypes, PubInv, CoverInv, TelemetryStep
  PROVE  TelemetryTypes' /\ PubInv' /\ CoverInv' /\ clock' >= clock /\ life' = life
<1>1. clock \in Nat
  BY DEF TelemetryTypes
<1>2. CASE Tick \/ AdapterRestarts \/ \E p \in Points : Fail(p)
  BY <1>2, WorldTypes, WorldInv
<1>3. CASE ReadBatch \/ ReadFails \/ Persisted \/ Replace
  BY <1>1, <1>3, CycleTypes, CycleInv
<1>4. ASSUME NEW p \in Points, PersistPoint(p)
      PROVE  TelemetryTypes' /\ PubInv' /\ CoverInv' /\ clock' >= clock /\ life' = life
  BY <1>1, <1>4, PersistTypes, PersistInv
<1>5. CASE StoreCursor
  BY <1>1, <1>5, StoreCursorInv DEF StoreCursor
<1> QED
  BY <1>2, <1>3, <1>4, <1>5 DEF TelemetryStep, PublisherStep

-------------------------------------------------------------------------------
(* The maintenance thread *)

\* What a step of the thread leaves alone.
ThreadFrame ==
  /\ UNCHANGED <<clock, source, epoch, rows, durable, cursor, shown, pub, life, loose, disk, tool>>
  /\ faults' \in Nat

LEMMA ToType ==
  ASSUME MaintenanceTypes, NEW pc \in {"test", "about", "asleep", "open", "copy", "verify", "ended"},
         To(pc)
  PROVE  /\ thread' \in [pc : {"test", "about", "asleep", "open", "copy", "verify", "ended"}, now : Nat]
         /\ thread'.pc = pc /\ (pc \in {"copy", "verify"} => thread'.now = thread.now)
         /\ (pc \notin {"copy", "verify"} => thread'.now = 0)
BY DEF To, MaintenanceTypes

LEMMA KeptTypes ==
  ASSUME MaintenanceTypes
  PROVE  /\ kept.backup \in Nat /\ kept.path \in Nat \cup {None} /\ kept.adopted \in BOOLEAN
         /\ thread.now \in Nat /\ \A b \in backups : b \in Files /\ b.ts \in Nat
BY DEF MaintenanceTypes, Files

\* The thread waits, or finds that a backup is due.
LEMMA WaitInv ==
  ASSUME TelemetryTypes, MaintenanceTypes, BackupInv, BackupSound, Test \/ Sleep \/ Timeout
  PROVE  ThreadFrame /\ MaintenanceTypes' /\ BackupInv' /\ BackupSound'
<1>1. UNCHANGED <<kept, backups, disk, tool>> /\ UNCHANGED telemetryVars
  BY DEF Test, Sleep, Timeout
<1>2. clock \in Nat
  BY DEF TelemetryTypes
<1>3. /\ thread' \in [pc : {"test", "about", "asleep", "open", "copy", "verify", "ended"}, now : Nat]
      /\ \/ thread'.pc \in {"about", "ended", "asleep"} /\ thread'.now = 0
         \/ thread'.pc = "open" /\ thread'.now = clock /\ clock >= kept.backup + BackupEvery
  <2>1. CASE Test
    <3>1. To("about") \/ To("ended")
      BY <2>1 DEF Test
    <3> QED
      BY <3>1, ToType
  <2>2. CASE Sleep
    <3>1. To("asleep")
      BY <2>2 DEF Sleep
    <3> QED
      BY <3>1, ToType
  <2>3. CASE Timeout
    <3>1. \/ clock >= kept.backup + BackupEvery /\ thread' = [pc |-> "open", now |-> clock]
          \/ To("ended")
      BY <2>3 DEF Timeout
    <3> QED
      BY <1>2, <3>1, ToType
  <2> QED
    BY <2>1, <2>2, <2>3
<1>4. ThreadFrame
  BY <1>1 DEF ThreadFrame, telemetryVars, TelemetryTypes
<1>5. MaintenanceTypes'
  BY <1>1, <1>3 DEF MaintenanceTypes
<1>6. BackupInv'
  <2>1. kept.path # None => kept.path = kept.backup /\ kept.path \in Nat
    BY KeptTypes DEF BackupInv
  <2>2. thread'.pc \in {"open", "copy", "verify"} /\ kept.path # None => kept.path < thread'.now
    BY <1>2, <1>3, <2>1, KeptTypes, HistorianAssumption
  <2>3. thread'.now <= clock
    BY <1>2, <1>3
  <2> QED
    BY <1>1, <2>1, <2>2, <2>3 DEF BackupInv, telemetryVars
<1>7. BackupSound'
  BY <1>1 DEF BackupSound
<1> QED
  BY <1>4, <1>5, <1>6, <1>7

\* Files of another time stay while a backup is made, the kept one among them.
LEMMA MakingInv ==
  ASSUME TelemetryTypes, MaintenanceTypes, BackupInv, BackupSound, UNCHANGED <<clock, kept>>,
         thread.pc \in {"open", "copy"}, NEW pc \in {"copy", "verify", "test"}, To(pc),
         NEW made \in SUBSET Files, \A b \in made : b.ts = thread.now,
         backups' = Others \cup made
  PROVE  backups' \subseteq Files /\ BackupInv' /\ BackupSound'
<1>1. Others = {b \in backups : b.ts # thread.now}
  BY DEF Others, Fresh
<1>2. /\ \A b \in backups' : b \in backups \/ (b \in made /\ b.ts = thread.now)
      /\ \A b \in backups : b.ts # thread.now => b \in backups'
  BY <1>1
<1>3. thread'.now = thread.now \/ (thread'.pc = "test" /\ thread'.now = 0)
  BY ToType
<1>4. backups' \subseteq Files
  BY <1>2 DEF MaintenanceTypes
<1>5. clock \in Nat
  BY DEF TelemetryTypes
<1>6. BackupInv'
  BY <1>2, <1>3, <1>5 DEF BackupInv
<1>7. kept.path # None => kept.path # thread.now
  BY KeptTypes DEF BackupInv
<1>8. BackupSound'
  BY <1>2, <1>7 DEF BackupSound
<1> QED
  BY <1>4, <1>6, <1>8

LEMMA BackupStepInv ==
  ASSUME TelemetryTypes, MaintenanceTypes, BackupInv, BackupSound, OpenBackup \/ Copy \/ Verify
  PROVE  ThreadFrame /\ MaintenanceTypes' /\ BackupInv' /\ BackupSound'
<1>1. CASE OpenBackup /\ To("test") /\ backups' = backups
  <2>1. To("test") /\ UNCHANGED <<clock, kept, disk, tool>>
    BY <1>1 DEF OpenBackup
  <2>2. ThreadFrame
    BY <1>1, FaultType DEF OpenBackup, ThreadFrame, TelemetryTypes
  <2>3. MaintenanceTypes'
    BY <1>1, <2>1, ToType DEF MaintenanceTypes
  <2>4. BackupInv'
    BY <1>1, <2>1, ToType DEF BackupInv, TelemetryTypes
  <2> QED
    BY <1>1, <2>1, <2>2, <2>3, <2>4 DEF BackupSound
<1>2. CASE /\ OpenBackup /\ To("copy") /\ UNCHANGED faults
           /\ backups' = {b \in backups : b.ts # thread.now}
                           \cup {[ts |-> thread.now, state |-> "partial", of |-> Empty]}
  <2> DEFINE made == {[ts |-> thread.now, state |-> "partial", of |-> Empty]}
  <2>1. made \in SUBSET Files /\ \A b \in made : b.ts = thread.now
    BY EmptyType, KeptTypes DEF Files
  <2>2. To("copy") /\ UNCHANGED <<clock, kept, disk, tool, faults>> /\ thread.pc = "open"
    BY <1>2 DEF OpenBackup
  <2>3. backups' = Others \cup made
    BY <1>2 DEF Others, Fresh
  <2> HIDE DEF made
  <2>4. backups' \subseteq Files /\ BackupInv' /\ BackupSound'
    BY <2>1, <2>2, <2>3, MakingInv
  <2>5. ThreadFrame
    BY <1>2, <2>2 DEF OpenBackup, ThreadFrame, TelemetryTypes
  <2>6. MaintenanceTypes'
    BY <2>2, <2>4, ToType DEF MaintenanceTypes
  <2> QED
    BY <2>4, <2>5, <2>6
<1>3. CASE Copy
  <2>1. PICK made \in SUBSET Files, pc \in {"verify", "test"} :
          /\ \A b \in made : b.ts = thread.now
          /\ backups' = Others \cup made /\ To(pc) /\ (Fault \/ UNCHANGED faults)
    <3>1. CASE \E state \in {"whole", "damaged"} :
                 /\ IF state = "damaged" THEN Fault ELSE UNCHANGED faults
                 /\ backups' = Others \cup {[ts |-> thread.now, state |-> state, of |-> Content]}
                 /\ To("verify")
      <4>1. PICK state \in {"whole", "damaged"} :
              /\ IF state = "damaged" THEN Fault ELSE UNCHANGED faults
              /\ backups' = Others \cup {[ts |-> thread.now, state |-> state, of |-> Content]}
              /\ To("verify")
        BY <3>1
      <4> DEFINE b == [ts |-> thread.now, state |-> state, of |-> Content]
      <4>2. b \in Files /\ b.ts = thread.now
        BY ContentType, KeptTypes DEF Files
      <4> HIDE DEF b
      <4>3. backups' = Others \cup {b} /\ To("verify") /\ (Fault \/ UNCHANGED faults)
        BY <4>1 DEF b
      <4>4. {b} \in SUBSET Files /\ \A d \in {b} : d.ts = thread.now
        BY <4>2
      <4> QED
        BY <4>3, <4>4
    <3>2. CASE Fault /\ To("test") /\ backups' = Others
      <4>1. {} \in SUBSET Files /\ backups' = Others \cup {}
        BY <3>2
      <4> QED
        BY <3>2, <4>1
    <3> QED
      BY <1>3, <3>1, <3>2 DEF Copy
  <2>2. UNCHANGED <<clock, kept, disk, tool>> /\ thread.pc = "copy"
    BY <1>3 DEF Copy
  <2>3. backups' \subseteq Files /\ BackupInv' /\ BackupSound'
    BY <2>1, <2>2, MakingInv
  <2>4. ThreadFrame
    BY <1>3, <2>1, <2>2, FaultType DEF Copy, ThreadFrame, TelemetryTypes
  <2>5. MaintenanceTypes'
    BY <2>1, <2>2, <2>3, ToType DEF MaintenanceTypes
  <2> QED
    BY <2>3, <2>4, <2>5
<1>4. CASE Verify
  <2>1. To("test") /\ UNCHANGED telemetryVars /\ UNCHANGED <<disk, tool>> /\ thread.pc = "verify"
    BY <1>4 DEF Verify
  <2>2. thread'.pc = "test" /\ thread'.now = 0 /\ clock \in Nat /\ thread.now \in Nat
    BY <2>1, ToType, KeptTypes DEF TelemetryTypes
  <2>3. \/ /\ \E b \in backups : Verified(b)
           /\ kept' = [backup |-> thread.now, path |-> thread.now, adopted |-> FALSE]
           /\ backups' = backups
        \/ backups' = Others /\ kept' = kept
    BY <1>4 DEF Verify
  <2>4. ThreadFrame
    BY <2>1 DEF ThreadFrame, telemetryVars, TelemetryTypes
  <2>5. CASE /\ \E b \in backups : Verified(b)
             /\ kept' = [backup |-> thread.now, path |-> thread.now, adopted |-> FALSE]
             /\ backups' = backups
    <3>1. MaintenanceTypes'
      BY <2>1, <2>2, <2>5, ToType DEF MaintenanceTypes
    <3>2. BackupInv'
      BY <2>1, <2>2, <2>5 DEF BackupInv, telemetryVars
    <3>3. BackupSound'
      BY <2>5 DEF BackupSound, Verified, Fresh
    <3> QED
      BY <2>4, <3>1, <3>2, <3>3
  <2>6. CASE backups' = Others /\ kept' = kept
    <3>1. /\ \A b \in backups' : b \in backups
          /\ \A b \in backups : b.ts # thread.now => b \in backups'
      BY <2>6 DEF Others, Fresh
    <3>2. MaintenanceTypes'
      BY <2>1, <2>6, <3>1, ToType DEF MaintenanceTypes
    <3>3. BackupInv'
      BY <2>1, <2>2, <2>6, <3>1 DEF BackupInv, telemetryVars
    <3>4. kept.path # None => kept.path # thread.now
      BY <2>1, KeptTypes DEF BackupInv
    <3>5. BackupSound'
      BY <2>6, <3>1, <3>4 DEF BackupSound
    <3> QED
      BY <2>4, <3>2, <3>3, <3>5
  <2> QED
    BY <2>3, <2>5, <2>6
<1>5. OpenBackup =>
        \/ To("test") /\ backups' = backups
        \/ /\ To("copy") /\ UNCHANGED faults
           /\ backups' = {b \in backups : b.ts # thread.now}
                           \cup {[ts |-> thread.now, state |-> "partial", of |-> Empty]}
  BY Zenon DEF OpenBackup
<1> QED
  BY <1>1, <1>2, <1>3, <1>4, <1>5

LEMMA ThreadInv == ASSUME StorageInv, ThreadStep PROVE StorageInv'
<1>1. ThreadFrame /\ MaintenanceTypes' /\ BackupInv' /\ BackupSound'
  BY WaitInv, BackupStepInv DEF StorageInv, ThreadStep
<1>2. TelemetryTypes' /\ PubInv' /\ CoverInv' /\ RestoreInv' /\ RestoreKeeps'
  BY <1>1 DEF StorageInv, ThreadFrame, TelemetryTypes, PubInv, CoverInv, Underway, Covers,
              RestoreInv, RestoreKeeps, Content
<1> QED
  BY <1>1, <1>2 DEF StorageInv

-------------------------------------------------------------------------------
(* The ends and the starts of a process *)

LEMMA FlagInv == ASSUME StorageInv, Flag PROVE StorageInv'
<1>1. /\ TelemetryTypes /\ MaintenanceTypes /\ PubInv /\ CoverInv
      /\ BackupInv /\ BackupSound /\ RestoreInv /\ RestoreKeeps
  BY DEF StorageInv
<1>2. /\ life = "up" /\ pub.pc = "read" /\ life' = "flagged" /\ faults' \in Nat
      /\ UNCHANGED <<clock, source, epoch, rows, durable, cursor, shown, pub, loose,
                     thread, kept, backups, disk, tool>>
  BY <1>1, FaultType DEF Flag
<1>3. TelemetryTypes' /\ PubInv' /\ RestoreInv' /\ RestoreKeeps'
  BY <1>1, <1>2 DEF TelemetryTypes, PubInv, RestoreInv, RestoreKeeps, Content
<1>4. CoverInv'
  BY <1>1, <1>2, CoverKept
<1>5. MaintenanceTypes' /\ BackupInv' /\ BackupSound'
  BY <1>1, <1>2 DEF MaintenanceTypes, BackupInv, BackupSound
<1> QED
  BY <1>3, <1>4, <1>5 DEF StorageInv

LEMMA NotifyInv == ASSUME StorageInv, Notify PROVE StorageInv'
<1>1. /\ TelemetryTypes /\ MaintenanceTypes /\ PubInv /\ CoverInv
      /\ BackupInv /\ BackupSound /\ RestoreInv /\ RestoreKeeps
  BY DEF StorageInv
<1>2. /\ life = "flagged" /\ life' = "joining"
      /\ thread' = [pc |-> "ended", now |-> 0] \/ thread' = thread
      /\ UNCHANGED <<clock, source, epoch, rows, durable, cursor, shown, pub, faults, loose,
                     kept, backups, disk, tool>>
  BY DEF Notify
<1>3. TelemetryTypes' /\ PubInv' /\ RestoreInv' /\ RestoreKeeps'
  BY <1>1, <1>2 DEF TelemetryTypes, PubInv, RestoreInv, RestoreKeeps, Content
<1>4. CoverInv'
  <2>1. pub.pc # "cursor"
    BY <1>1, <1>2, IdleType DEF PubInv
  <2> QED
    BY <1>1, <1>2, <2>1, CoverKept
<1>5. MaintenanceTypes' /\ BackupSound'
  BY <1>1, <1>2 DEF MaintenanceTypes, BackupSound
<1>6. BackupInv'
  BY <1>1, <1>2 DEF BackupInv, TelemetryTypes
<1> QED
  BY <1>3, <1>4, <1>5, <1>6 DEF StorageInv

\* What the end of a process empties.
LEMMA GoneTypes ==
  ASSUME TelemetryTypes, MaintenanceTypes, RestoreInv, life # "down", Gone,
         faults' \in Nat, loose' \in [Points -> SUBSET Sample]
  PROVE  TelemetryTypes' /\ PubInv' /\ (tool.pc = "idle" /\ disk.placed)
<1>1. tool.pc = "idle" /\ disk.placed
  BY DEF RestoreInv, MaintenanceTypes
<1>2. TelemetryTypes'
  BY IdleType, NothingType DEF Gone, TelemetryTypes
<1>3. PubInv'
  BY IdleType DEF Gone, PubInv
<1> QED
  BY <1>1, <1>2, <1>3

LEMMA CloseInv == ASSUME StorageInv, Close PROVE StorageInv'
<1>1. /\ TelemetryTypes /\ MaintenanceTypes /\ PubInv /\ CoverInv
      /\ BackupInv /\ BackupSound /\ RestoreInv /\ RestoreKeeps
  BY DEF StorageInv
<1>2. /\ life = "joining" /\ Gone /\ UNCHANGED <<faults, loose, thread, kept>>
      /\ disk' = [disk EXCEPT !.file = Content]
      /\ life' = "down" /\ UNCHANGED <<clock, rows, durable, backups, tool>>
  BY DEF Close, Gone
<1>3. TelemetryTypes' /\ PubInv' /\ tool.pc = "idle" /\ disk.placed
  BY <1>1, <1>2, GoneTypes DEF TelemetryTypes
<1>4. CoverInv'
  <2>1. pub.pc # "cursor"
    BY <1>1, <1>2, IdleType DEF PubInv
  <2> QED
    BY <1>1, <1>2, <2>1, CoverKept
<1>5. /\ disk' \in [placed : BOOLEAN, file : Contents, aside : SUBSET Contents,
                    copy : Contents \cup {None}]
      /\ disk'.placed = disk.placed
  BY <1>1, <1>2, ContentType DEF MaintenanceTypes
<1>6. MaintenanceTypes' /\ BackupInv' /\ BackupSound'
  BY <1>1, <1>2, <1>5 DEF MaintenanceTypes, BackupInv, BackupSound
<1>7. RestoreInv' /\ RestoreKeeps'
  BY <1>2, <1>3, <1>5 DEF RestoreInv, RestoreKeeps
<1> QED
  BY <1>3, <1>4, <1>6, <1>7 DEF StorageInv

\* A row that dies before its cursor is loose.
LEMMA DieInv == ASSUME StorageInv, Die PROVE StorageInv'
<1>1. /\ TelemetryTypes /\ MaintenanceTypes /\ PubInv /\ CoverInv
      /\ BackupInv /\ BackupSound /\ RestoreInv /\ RestoreKeeps
  BY DEF StorageInv
<1>2. /\ life # "down" /\ Gone /\ faults' \in Nat /\ To("ended") /\ UNCHANGED <<kept, disk>>
      /\ loose' = IF pub.pc = "cursor"
                  THEN [loose EXCEPT ![pub.at] = @ \cup {pub.view[pub.at].sample}] ELSE loose
      /\ life' = "down" /\ pub' = Idle /\ UNCHANGED <<clock, rows, durable, backups, tool>>
  BY <1>1, FaultType DEF Die, Gone
<1>3. /\ loose' \in [Points -> SUBSET Sample]
      /\ \A p \in Points : loose'[p] \subseteq rows[p] /\ loose[p] \subseteq loose'[p]
      /\ \A p \in Points : \A r : Underway(p, r) => r \in loose'[p]
  <2>1. CASE pub.pc = "cursor"
    <3> DEFINE s == pub.view[pub.at].sample
    <3>1. /\ pub.at \in Points /\ s \in rows[pub.at] /\ s \in Sample
          /\ loose' = [loose EXCEPT ![pub.at] = @ \cup {s}]
      BY <1>1, <1>2, <2>1 DEF PubInv, TelemetryTypes
    <3>2. \A p \in Points : \A r : Underway(p, r) => p = pub.at /\ r = s
      BY DEF Underway
    <3> HIDE DEF s
    <3>3. /\ loose' \in [Points -> SUBSET Sample]
          /\ \A p \in Points : loose'[p] = IF p = pub.at THEN loose[p] \cup {s} ELSE loose[p]
      BY <1>1, <3>1 DEF TelemetryTypes
    <3> QED
      BY <1>1, <3>1, <3>2, <3>3 DEF CoverInv
  <2>2. CASE pub.pc # "cursor"
    BY <1>1, <1>2, <2>2 DEF TelemetryTypes, CoverInv, Underway
  <2> QED
    BY <2>1, <2>2
<1>4. TelemetryTypes' /\ PubInv' /\ tool.pc = "idle" /\ disk.placed
  BY <1>1, <1>2, <1>3, GoneTypes
<1>5. CoverInv'
  BY <1>1, <1>2, <1>3 DEF CoverInv
<1>6. thread'.pc = "ended" /\ thread'.now = 0 /\ MaintenanceTypes'
  BY <1>1, <1>2, ToType DEF MaintenanceTypes
<1>7. BackupInv' /\ BackupSound'
  BY <1>1, <1>2, <1>6 DEF BackupInv, BackupSound, TelemetryTypes
<1>8. RestoreInv' /\ RestoreKeeps'
  BY <1>2, <1>4 DEF RestoreInv, RestoreKeeps
<1> QED
  BY <1>4, <1>5, <1>6, <1>7, <1>8 DEF StorageInv

\* A point that has a cursor keeps it.
LEMMA SeededType ==
  ASSUME TelemetryTypes, NEW p \in Points
  PROVE  /\ Seeded(p) \subseteq Sample \cup {None}
         /\ durable[p] # None => Seeded(p) = {durable[p]}
BY DEF Seeded, TelemetryTypes

LEMMA StartInv == ASSUME StorageInv, Start PROVE StorageInv'
<1>1. /\ TelemetryTypes /\ MaintenanceTypes /\ PubInv /\ CoverInv
      /\ BackupInv /\ BackupSound /\ RestoreInv /\ RestoreKeeps
  BY DEF StorageInv
<1>2. /\ life = "down" /\ tool.pc = "idle" /\ life' = "up" /\ To("test")
      /\ cursor' = durable' /\ epoch' \in {epoch, epoch + 1}
      /\ disk' = [disk EXCEPT !.placed = TRUE]
      /\ UNCHANGED <<clock, source, rows, shown, pub, faults, loose, backups, tool>>
  BY DEF Start
<1>3. /\ durable' \in [Points -> Sample \cup {None}]
      /\ \A p \in Points : durable[p] # None => durable'[p] = durable[p]
  <2>1. durable' \in [Points -> UNION {Seeded(p) : p \in Points}] /\ \A p \in Points : durable'[p] \in Seeded(p)
    BY DEF Start
  <2> QED
    BY <1>1, <2>1, SeededType
<1>4. pub = Idle /\ pub.pc = "read" /\ pub.todo = {}
  BY <1>1, <1>2, IdleType DEF PubInv
<1>5. TelemetryTypes' /\ PubInv'
  BY <1>1, <1>2, <1>3, <1>4 DEF TelemetryTypes, PubInv
<1>6. CoverInv'
  BY <1>1, <1>2, <1>3, <1>4 DEF CoverInv, Underway, Covers
<1>7. thread'.pc = "test" /\ thread'.now = 0 /\ clock \in Nat
  BY <1>1, <1>2, ToType DEF TelemetryTypes
<1>8. /\ kept'.adopted = (backups # {})
      /\ kept'.path # None => kept'.path = kept'.backup
      /\ kept' \in [backup : Nat, path : Nat \cup {None}, adopted : BOOLEAN]
      /\ ~kept'.adopted => kept'.path = None
  <2>1. CASE backups = {}
    <3>1. kept' = [adopted |-> FALSE, backup |-> clock, path |-> None]
      BY <2>1 DEF Start
    <3> QED
      BY <1>7, <2>1, <3>1
  <2>2. CASE backups # {}
    <3>1. kept' = [adopted |-> TRUE, backup |-> LastFile.ts, path |-> LastFile.ts]
      BY <2>2 DEF Start
    <3>2. \A b \in backups : b.ts \in Nat /\ b.ts <= clock
      BY <1>1, KeptTypes DEF BackupInv
    <3>3. LastFile.ts \in Nat
      BY <1>7, <2>2, <3>2, LastFileIs
    <3> QED
      BY <2>2, <3>1, <3>3
  <2> QED
    BY <2>1, <2>2
<1>9. /\ disk' \in [placed : BOOLEAN, file : Contents, aside : SUBSET Contents,
                    copy : Contents \cup {None}]
      /\ disk'.placed
  BY <1>1, <1>2 DEF MaintenanceTypes
<1>10. MaintenanceTypes'
  BY <1>1, <1>2, <1>8, <1>9, ToType DEF MaintenanceTypes
<1>11. BackupInv' /\ BackupSound'
  BY <1>1, <1>2, <1>7, <1>8 DEF BackupInv, BackupSound
<1>12. RestoreInv' /\ RestoreKeeps'
  BY <1>2, <1>9 DEF RestoreInv, RestoreKeeps
<1> QED
  BY <1>5, <1>6, <1>10, <1>11, <1>12 DEF StorageInv

-------------------------------------------------------------------------------
(* The restore tool *)

\* A content is its rows and its cursors.
LEMMA ContentIs ==
  ASSUME NEW c \in Contents, TelemetryTypes', rows' = c.rows, durable' = c.durable
  PROVE  Content' = c
BY DEF Contents, Content

\* Rows that no cursor of their content stands for are loose, others covered.
LEMMA LooseInIs ==
  ASSUME NEW c \in Contents
  PROVE  /\ c.rows \in [Points -> SUBSET Sample] /\ c.durable \in [Points -> Sample \cup {None}]
         /\ LooseIn(c) \in [Points -> SUBSET Sample]
         /\ \A p \in Points : LooseIn(c)[p] \subseteq c.rows[p]
         /\ \A p \in Points : \A r \in c.rows[p] \ LooseIn(c)[p] : Covers(c.durable[p], r)
<1>1. c.rows \in [Points -> SUBSET Sample] /\ c.durable \in [Points -> Sample \cup {None}]
  BY DEF Contents
<1>2. /\ LooseIn(c) \in [Points -> SUBSET Sample]
      /\ \A p \in Points : LooseIn(c)[p] \subseteq c.rows[p]
  BY <1>1 DEF LooseIn
<1>3. ASSUME NEW p \in Points, NEW r \in c.rows[p] \ LooseIn(c)[p]
      PROVE  Covers(c.durable[p], r)
  <2>1. r \in Sample /\ c.durable[p] \in Sample \cup {None}
    BY <1>1
  <2>2. c.durable[p] # None /\ ~Later(r, c.durable[p]) /\ r.epoch = c.durable[p].epoch
    BY <1>3 DEF LooseIn
  <2> QED
    BY <2>1, <2>2 DEF Covers, Later, Sample
<1> QED
  BY <1>1, <1>2, <1>3

\* The tool puts a content in the place of the database's.
LEMMA ReplaceInv ==
  ASSUME StorageInv, life = "down", NEW c \in Contents,
         rows' = c.rows, durable' = c.durable, loose' = LooseIn(c),
         UNCHANGED <<clock, source, epoch, cursor, shown, pub, life, faults>>
  PROVE  TelemetryTypes' /\ PubInv' /\ CoverInv' /\ Content' = c
<1>1. TelemetryTypes /\ pub = Idle /\ pub.pc # "cursor"
  BY IdleType DEF StorageInv, PubInv
<1>2. TelemetryTypes'
  BY <1>1, LooseInIs DEF TelemetryTypes
<1>3. PubInv'
  BY <1>1, IdleType DEF PubInv
<1>4. CoverInv'
  BY LooseInIs DEF CoverInv
<1> QED
  BY <1>2, <1>3, <1>4, ContentIs

LEMMA RestoreTypes ==
  ASSUME MaintenanceTypes
  PROVE  /\ disk.file \in Contents /\ disk.copy \in Contents \cup {None}
         /\ disk.aside \in SUBSET Contents /\ disk.placed \in BOOLEAN
         /\ tool.before \in Contents /\ tool.logged \in BOOLEAN
         /\ tool.pc \in {"idle", "log", "aside", "place"}
BY DEF MaintenanceTypes

LEMMA RestoreCopyInv == ASSUME StorageInv, RestoreCopy PROVE StorageInv'
<1>1. /\ TelemetryTypes /\ MaintenanceTypes /\ PubInv /\ CoverInv
      /\ BackupInv /\ BackupSound /\ RestoreInv /\ RestoreKeeps
  BY DEF StorageInv
<1>2. /\ life = "down" /\ tool.pc = "idle" /\ faults' \in Nat
      /\ UNCHANGED <<clock, source, epoch, rows, durable, cursor, shown, pub, life, loose,
                     thread, kept, backups>>
  BY <1>1, FaultType DEF RestoreCopy
<1>3. PICK c \in Contents : disk' = [disk EXCEPT !.copy = c]
  BY <1>1 DEF RestoreCopy, MaintenanceTypes, Files
<1>4. /\ disk' \in [placed : BOOLEAN, file : Contents, aside : SUBSET Contents,
                    copy : Contents \cup {None}]
      /\ disk'.placed = disk.placed /\ disk'.file = disk.file /\ disk'.aside = disk.aside
      /\ disk'.copy = c
  BY <1>1, <1>3 DEF MaintenanceTypes
<1>5. /\ tool'.pc = "log"
      /\ disk.placed => tool'.before = Content /\ tool'.logged = (disk.file # Content)
      /\ ~disk.placed => tool'.before = tool.before /\ tool'.logged = tool.logged
      /\ tool' \in [pc : {"idle", "log", "aside", "place"}, before : Contents, logged : BOOLEAN]
  <2>1. CASE disk.placed
    <3>1. tool' = [pc |-> "log", before |-> Content, logged |-> disk.file # Content]
      BY <2>1 DEF RestoreCopy
    <3>2. (disk.file # Content) \in BOOLEAN
      OBVIOUS
    <3> QED
      BY <1>1, <2>1, <3>1, <3>2, ContentType
  <2>2. CASE ~disk.placed
    <3>1. tool' = [tool EXCEPT !.pc = "log"]
      BY <2>2 DEF RestoreCopy
    <3> QED
      BY <1>1, <2>2, <3>1 DEF MaintenanceTypes
  <2> QED
    BY <2>1, <2>2
<1>6. TelemetryTypes' /\ PubInv' /\ CoverInv'
  BY <1>1, <1>2 DEF TelemetryTypes, PubInv, CoverInv, Underway, Covers
<1>7. MaintenanceTypes' /\ BackupInv' /\ BackupSound'
  BY <1>1, <1>2, <1>4, <1>5 DEF MaintenanceTypes, BackupInv, BackupSound
<1>8. RestoreInv'
  BY <1>2, <1>4, <1>5 DEF RestoreInv, Content
<1>9. RestoreKeeps'
  BY <1>1, <1>2, <1>4, <1>5 DEF RestoreKeeps, Content
<1> QED
  BY <1>6, <1>7, <1>8, <1>9 DEF StorageInv

LEMMA RestoreLogInv == ASSUME StorageInv, RestoreLog PROVE StorageInv'
<1>1. /\ TelemetryTypes /\ MaintenanceTypes /\ PubInv /\ CoverInv
      /\ BackupInv /\ BackupSound /\ RestoreInv /\ RestoreKeeps
  BY DEF StorageInv
<1>2. /\ tool.pc = "log" /\ life = "down" /\ tool' = [tool EXCEPT !.pc = "aside"]
      /\ UNCHANGED <<clock, source, epoch, cursor, shown, pub, life, faults,
                     thread, kept, backups>>
  BY <1>1 DEF RestoreLog, RestoreInv
<1>3. PICK left \in {disk.file, Content} :
        /\ rows' = left.rows /\ durable' = left.durable
        /\ disk' = [disk EXCEPT !.file = left]
        /\ loose' = LooseIn(left)
  BY DEF RestoreLog
<1>4. left \in Contents
  BY <1>1, ContentType, RestoreTypes
<1>5. /\ disk' \in [placed : BOOLEAN, file : Contents, aside : SUBSET Contents,
                    copy : Contents \cup {None}]
      /\ disk'.placed = disk.placed /\ disk'.aside = disk.aside /\ disk'.copy = disk.copy
      /\ disk'.copy \in Contents
  BY <1>1, <1>2, <1>3, <1>4 DEF MaintenanceTypes, RestoreInv
<1>6. TelemetryTypes' /\ PubInv' /\ CoverInv' /\ Content' = left
  BY <1>2, <1>3, <1>4, ReplaceInv
<1>7. /\ tool' \in [pc : {"idle", "log", "aside", "place"}, before : Contents, logged : BOOLEAN]
      /\ tool'.pc = "aside" /\ tool'.before = tool.before /\ tool'.logged = tool.logged
  BY <1>1, <1>2 DEF MaintenanceTypes
<1>8. MaintenanceTypes' /\ BackupInv' /\ BackupSound'
  BY <1>1, <1>2, <1>5, <1>7 DEF MaintenanceTypes, BackupInv, BackupSound
<1>9. RestoreInv'
  BY <1>2, <1>5, <1>7 DEF RestoreInv
<1>10. disk.placed /\ ~tool.logged => left = Content
  BY <1>1, <1>2 DEF RestoreInv
<1>11. RestoreKeeps'
  BY <1>1, <1>2, <1>5, <1>6, <1>7, <1>10 DEF RestoreKeeps
<1> QED
  BY <1>6, <1>8, <1>9, <1>11 DEF StorageInv

LEMMA RestoreAsideInv == ASSUME StorageInv, RestoreAside PROVE StorageInv'
<1>1. /\ TelemetryTypes /\ MaintenanceTypes /\ PubInv /\ CoverInv
      /\ BackupInv /\ BackupSound /\ RestoreInv /\ RestoreKeeps
  BY DEF StorageInv
<1>2. /\ tool.pc = "aside" /\ life = "down"
      /\ UNCHANGED <<clock, source, epoch, cursor, shown, pub, life, faults,
                     thread, kept, backups>>
  BY <1>1 DEF RestoreAside, RestoreInv
<1>3. disk.copy \in Contents /\ Content \in Contents
  BY <1>1, <1>2, ContentType DEF RestoreInv
<1>4. CASE /\ disk' = IF disk.placed
                      THEN [disk EXCEPT !.placed = FALSE, !.file = Empty,
                                        !.aside = @ \cup SetAside(Content)]
                      ELSE disk
           /\ rows' = Empty.rows /\ durable' = Empty.durable /\ loose' = Empty.rows
           /\ tool' = [tool EXCEPT !.pc = "place"]
  <2>1. /\ disk' \in [placed : BOOLEAN, file : Contents, aside : SUBSET Contents,
                      copy : Contents \cup {None}]
        /\ disk'.copy = disk.copy /\ disk.aside \subseteq disk'.aside
        /\ disk.placed => Content \in disk'.aside
    <3>1. CASE disk.placed
      <4>1. disk' = [disk EXCEPT !.placed = FALSE, !.file = Empty, !.aside = @ \cup {Content}]
        BY <1>4, <3>1 DEF SetAside
      <4>2. disk.aside \cup {Content} \in SUBSET Contents
        BY <1>1, <1>3, RestoreTypes
      <4> QED
        BY <1>1, <1>3, <4>1, <4>2, EmptyType DEF MaintenanceTypes
    <3>2. CASE ~disk.placed
      BY <1>1, <1>4, <3>2 DEF MaintenanceTypes
    <3> QED
      BY <3>1, <3>2
  <2>2. /\ tool' \in [pc : {"idle", "log", "aside", "place"}, before : Contents, logged : BOOLEAN]
        /\ tool'.pc = "place" /\ tool'.before = tool.before /\ tool'.logged = tool.logged
    BY <1>1, <1>4 DEF MaintenanceTypes
  <2>3. \A p \in Points : rows'[p] = {} /\ loose'[p] = {}
    BY <1>4, EmptyType
  <2>4. TelemetryTypes'
    BY <1>1, <1>2, <1>4, EmptyType, NothingType DEF TelemetryTypes
  <2>5. PubInv'
    BY <1>1, <1>2, IdleType DEF PubInv
  <2>6. CoverInv'
    BY <2>3 DEF CoverInv
  <2>7. MaintenanceTypes' /\ BackupInv' /\ BackupSound'
    BY <1>1, <1>2, <2>1, <2>2 DEF MaintenanceTypes, BackupInv, BackupSound
  <2>8. RestoreInv'
    BY <1>2, <1>3, <2>1, <2>2 DEF RestoreInv
  <2>9. ~tool.logged => tool.before \in disk'.aside
    BY <1>1, <1>2, <2>1 DEF RestoreKeeps
  <2>10. RestoreKeeps'
    BY <2>2, <2>9 DEF RestoreKeeps
  <2> QED
    BY <2>4, <2>5, <2>6, <2>7, <2>8, <2>10 DEF StorageInv
<1>5. CASE /\ disk' = [disk EXCEPT !.copy = None]
           /\ tool' = [tool EXCEPT !.pc = "idle"] /\ UNCHANGED <<rows, durable, loose>>
  <2>1. /\ disk' \in [placed : BOOLEAN, file : Contents, aside : SUBSET Contents,
                      copy : Contents \cup {None}]
        /\ disk'.placed = disk.placed /\ disk'.aside = disk.aside
    BY <1>1, <1>5 DEF MaintenanceTypes
  <2>2. /\ tool' \in [pc : {"idle", "log", "aside", "place"}, before : Contents, logged : BOOLEAN]
        /\ tool'.pc = "idle" /\ tool'.before = tool.before /\ tool'.logged = tool.logged
    BY <1>1, <1>5 DEF MaintenanceTypes
  <2>3. TelemetryTypes' /\ PubInv' /\ CoverInv'
    BY <1>1, <1>2, <1>5 DEF TelemetryTypes, PubInv, CoverInv, Underway, Covers
  <2>4. MaintenanceTypes' /\ BackupInv' /\ BackupSound'
    BY <1>1, <1>2, <2>1, <2>2 DEF MaintenanceTypes, BackupInv, BackupSound
  <2>5. RestoreInv'
    BY <1>2, <2>2 DEF RestoreInv
  <2>6. RestoreKeeps'
    BY <1>1, <1>2, <2>1, <2>2 DEF RestoreKeeps
  <2> QED
    BY <2>3, <2>4, <2>5, <2>6 DEF StorageInv
<1> QED
  BY <1>4, <1>5, Zenon DEF RestoreAside

LEMMA RestorePlaceInv == ASSUME StorageInv, RestorePlace PROVE StorageInv'
<1>1. /\ TelemetryTypes /\ MaintenanceTypes /\ PubInv /\ CoverInv
      /\ BackupInv /\ BackupSound /\ RestoreInv /\ RestoreKeeps
  BY DEF StorageInv
<1>2. /\ tool.pc = "place" /\ life = "down" /\ tool' = [tool EXCEPT !.pc = "idle"]
      /\ UNCHANGED <<clock, source, epoch, cursor, shown, pub, life, faults,
                     thread, kept, backups>>
  BY <1>1 DEF RestorePlace, RestoreInv
<1>3. disk.copy \in Contents
  BY <1>1, <1>2 DEF RestoreInv
<1>4. /\ tool' \in [pc : {"idle", "log", "aside", "place"}, before : Contents, logged : BOOLEAN]
      /\ tool'.pc = "idle" /\ tool'.before = tool.before /\ tool'.logged = tool.logged
  BY <1>1, <1>2 DEF MaintenanceTypes
<1>5. CASE /\ rows' = disk.copy.rows /\ durable' = disk.copy.durable
           /\ loose' = LooseIn(disk.copy)
           /\ disk' = [disk EXCEPT !.placed = TRUE, !.file = disk.copy, !.copy = None]
  <2>1. /\ disk' \in [placed : BOOLEAN, file : Contents, aside : SUBSET Contents,
                      copy : Contents \cup {None}]
        /\ disk'.placed
    BY <1>1, <1>3, <1>5 DEF MaintenanceTypes
  <2>2. TelemetryTypes' /\ PubInv' /\ CoverInv'
    BY <1>2, <1>3, <1>5, ReplaceInv
  <2>3. MaintenanceTypes' /\ BackupInv' /\ BackupSound'
    BY <1>1, <1>2, <1>4, <2>1 DEF MaintenanceTypes, BackupInv, BackupSound
  <2>4. RestoreInv' /\ RestoreKeeps'
    BY <1>4, <2>1 DEF RestoreInv, RestoreKeeps
  <2> QED
    BY <2>2, <2>3, <2>4 DEF StorageInv
<1>6. CASE UNCHANGED <<rows, durable, loose, disk>>
  <2>1. TelemetryTypes' /\ PubInv' /\ CoverInv'
    BY <1>1, <1>2, <1>6 DEF TelemetryTypes, PubInv, CoverInv, Underway, Covers
  <2>2. MaintenanceTypes' /\ BackupInv' /\ BackupSound'
    BY <1>1, <1>2, <1>4, <1>6 DEF MaintenanceTypes, BackupInv, BackupSound
  <2>3. RestoreInv'
    BY <1>2, <1>4 DEF RestoreInv
  <2>4. RestoreKeeps'
    BY <1>1, <1>2, <1>4, <1>6 DEF RestoreKeeps
  <2> QED
    BY <2>1, <2>2, <2>3, <2>4 DEF StorageInv
<1> QED
  BY <1>5, <1>6 DEF RestorePlace

LEMMA ToolDiesInv == ASSUME StorageInv, ToolDies PROVE StorageInv'
<1>1. /\ TelemetryTypes /\ MaintenanceTypes /\ PubInv /\ CoverInv
      /\ BackupInv /\ BackupSound /\ RestoreInv /\ RestoreKeeps
  BY DEF StorageInv
<1>2. /\ tool.pc # "idle" /\ tool' = [tool EXCEPT !.pc = "idle"]
      /\ UNCHANGED telemetryVars /\ UNCHANGED <<thread, kept, backups, disk>>
  BY DEF ToolDies
<1>3. /\ tool' \in [pc : {"idle", "log", "aside", "place"}, before : Contents, logged : BOOLEAN]
      /\ tool'.pc = "idle" /\ tool'.before = tool.before /\ tool'.logged = tool.logged
  BY <1>1, <1>2 DEF MaintenanceTypes
<1>4. UNCHANGED <<clock, source, epoch, rows, durable, cursor, shown, pub, life, faults, loose>>
  BY <1>2 DEF telemetryVars
<1>5. TelemetryTypes' /\ PubInv' /\ CoverInv'
  BY <1>1, <1>4 DEF TelemetryTypes, PubInv, CoverInv, Underway, Covers
<1>6. MaintenanceTypes' /\ BackupInv' /\ BackupSound'
  BY <1>1, <1>2, <1>3, <1>4 DEF MaintenanceTypes, BackupInv, BackupSound
<1>7. RestoreInv' /\ RestoreKeeps'
  BY <1>1, <1>2, <1>3, <1>4 DEF RestoreInv, RestoreKeeps, Content
<1> QED
  BY <1>5, <1>6, <1>7 DEF StorageInv

-------------------------------------------------------------------------------
(* The invariant *)

LEMMA InitInv == Init => StorageInv
<1> SUFFICES ASSUME Init PROVE StorageInv
  OBVIOUS
<1>1. /\ clock = 1 /\ epoch = 1 /\ faults = 0 /\ life = "up" /\ pub = Idle
      /\ source = [p \in Points |-> [up |-> TRUE, last |-> None, before |-> None]]
      /\ rows = [p \in Points |-> {}] /\ loose = [p \in Points |-> {}]
      /\ durable = Nothing /\ cursor = Nothing /\ shown = Nothing
  BY DEF Init, TelemetryInit
<1>2. /\ thread = [pc |-> "test", now |-> 0]
      /\ kept = [backup |-> 1, path |-> None, adopted |-> FALSE] /\ backups = {}
      /\ disk = [placed |-> TRUE, file |-> Empty, aside |-> {}, copy |-> None]
      /\ tool = [pc |-> "idle", before |-> Empty, logged |-> FALSE]
  BY DEF Init
<1>3. rows \in [Points -> SUBSET Sample] /\ loose \in [Points -> SUBSET Sample]
  BY <1>1
<1>4. source \in [Points -> Sources]
  BY <1>1 DEF Sources
<1>5. TelemetryTypes
  BY <1>1, <1>3, <1>4, NothingType, IdleType DEF TelemetryTypes
<1>6. MaintenanceTypes
  BY <1>2, EmptyType DEF MaintenanceTypes
<1>7. PubInv /\ CoverInv
  BY <1>1, IdleType DEF PubInv, CoverInv
<1>8. BackupInv /\ BackupSound /\ RestoreInv /\ RestoreKeeps
  BY <1>1, <1>2 DEF BackupInv, BackupSound, RestoreInv, RestoreKeeps
<1> QED
  BY <1>5, <1>6, <1>7, <1>8 DEF StorageInv

LEMMA TelemetryStepInv == ASSUME StorageInv, TelemetryStep PROVE StorageInv'
<1>1. /\ TelemetryTypes /\ MaintenanceTypes /\ PubInv /\ CoverInv
      /\ BackupInv /\ BackupSound /\ RestoreInv /\ RestoreKeeps
  BY DEF StorageInv
<1>2. TelemetryTypes' /\ PubInv' /\ CoverInv' /\ clock' >= clock /\ life' = life
  BY <1>1, PublisherInv
<1>3. UNCHANGED <<thread, kept, backups, disk, tool>>
  BY DEF TelemetryStep, Aside, maintenanceVars
<1>4. clock \in Nat /\ clock' \in Nat
  BY <1>1, <1>2 DEF TelemetryTypes
<1>5. MaintenanceTypes' /\ BackupSound'
  BY <1>1, <1>3 DEF MaintenanceTypes, BackupSound
<1>6. BackupInv'
  BY <1>1, <1>2, <1>3, <1>4, KeptTypes DEF BackupInv
<1>7. (tool.pc = "idle" /\ disk.placed) \/ life = "down"
  BY <1>1 DEF RestoreInv
<1>8. CASE life = "down"
  <2>1. UNCHANGED <<rows, durable>>
    BY <1>8 DEF TelemetryStep, PublisherStep, Tick, AdapterRestarts, Fail, ReadBatch, ReadFails,
                Persisted, StoreCursor, Replace, PersistPoint
  <2> QED
    BY <1>1, <1>2, <1>3, <1>5, <1>6, <2>1 DEF StorageInv, RestoreInv, RestoreKeeps, Content
<1>9. CASE tool.pc = "idle" /\ disk.placed
  <2>1. RestoreInv' /\ RestoreKeeps'
    BY <1>3, <1>9 DEF RestoreInv, RestoreKeeps
  <2> QED
    BY <1>2, <1>5, <1>6, <2>1 DEF StorageInv
<1> QED
  BY <1>7, <1>8, <1>9

LEMMA StepInv == StorageInv /\ [Next]_vars => StorageInv'
<1> SUFFICES ASSUME StorageInv, [Next]_vars PROVE StorageInv'
  OBVIOUS
<1>1. CASE UNCHANGED vars
  <2>1. /\ UNCHANGED <<clock, source, epoch, rows, durable, cursor, shown, pub, life, faults, loose>>
        /\ UNCHANGED <<thread, kept, backups, disk, tool>>
    BY <1>1 DEF vars, telemetryVars, maintenanceVars
  <2> QED
    BY <2>1 DEF StorageInv, TelemetryTypes, MaintenanceTypes, PubInv, CoverInv, Underway, Covers,
                BackupInv, BackupSound, RestoreInv, RestoreKeeps, Content
<1>2. CASE Next
  BY <1>2, TelemetryStepInv, ThreadInv, FlagInv, NotifyInv, CloseInv, DieInv, StartInv,
     RestoreCopyInv, RestoreLogInv, RestoreAsideInv, RestorePlaceInv, ToolDiesInv
     DEF Next, DestructorStep
<1> QED
  BY <1>1, <1>2

LEMMA Invariance == Spec => []StorageInv
BY InitInv, StepInv, PTL DEF Spec

\* The store's variables have their types (the constructor's, the publisher's,
\* the thread's and the tool's fields) and only rows that are stored are loose.
THEOREM StoreTypeCorrect == Spec => []TypeOK
<1>1. StorageInv => TypeOK
  <2> SUFFICES ASSUME StorageInv PROVE TypeOK
    OBVIOUS
  <2>1. TelemetryTypes /\ MaintenanceTypes /\ CoverInv
    BY DEF StorageInv
  <2>2. source \in [Points -> [up : BOOLEAN, last : Sample \cup {None}, before : Sample \cup {None}]]
    BY <2>1 DEF TelemetryTypes, Sources
  <2>3. {shown, pub.view} \subseteq [Points -> Point \cup {None}]
    BY <2>1 DEF TelemetryTypes, Views
  <2>4. \A b \in backups : b.ts \in Nat /\ b.state \in {"partial", "damaged", "whole"}
    BY <2>1 DEF MaintenanceTypes, Files
  <2>5. \A p \in Points : rows[p] \subseteq Sample /\ loose[p] \subseteq rows[p]
    BY <2>1 DEF TelemetryTypes, CoverInv
  <2>6. /\ {clock, epoch, faults} \subseteq Nat
        /\ {durable, cursor} \subseteq [Points -> Sample \cup {None}]
        /\ pub.pc \in {"read", "persist", "cursor", "replace"} /\ pub.todo \subseteq Points
        /\ pub.at \in Points \cup {None}
        /\ life \in {"up", "flagged", "joining", "down"}
    BY <2>1 DEF TelemetryTypes
  <2>7. /\ thread.pc \in {"test", "about", "asleep", "open", "copy", "verify", "ended"}
        /\ kept \in [backup : Nat, path : Nat \cup {None}, adopted : BOOLEAN]
        /\ tool.pc \in {"idle", "log", "aside", "place"}
        /\ disk.placed \in BOOLEAN /\ tool.logged \in BOOLEAN
    BY <2>1 DEF MaintenanceTypes
  <2> QED
    BY <2>2, <2>3, <2>4, <2>5, <2>6, <2>7, Zenon DEF TypeOK
<1> QED
  BY <1>1, Invariance, PTL

\* createOnlineBackup names a file as the last backup only when it was verified
\* and stays: no later round, end of the process or start takes it away.
THEOREM KeptBackupVerified == Spec => []BackupSound
<1>1. StorageInv => BackupSound
  BY DEF StorageInv
<1> QED
  BY <1>1, Invariance, PTL

\* Wherever restoreBackup fails or is cut, and whatever restores follow it, the
\* last database in place is there or aside, unless its log held commits.
THEOREM RestoreLosesNothing == Spec => []RestoreKeeps
<1>1. StorageInv => RestoreKeeps
  BY DEF StorageInv
<1> QED
  BY <1>1, Invariance, PTL

\* persistTelemetry keeps a point's period within an epoch, next to every row
\* but those whose cursor was lost.
THEOREM SamplesApart == Spec => StoredApart
<1> DEFINE Apart == \A p \in Points : life' = "up" =>
             \A s \in rows'[p] \ rows[p], r \in rows[p] \ loose[p] :
               r.epoch = s.epoch => s.ts >= r.ts + Period
<1>1. StorageInv /\ [Next]_vars => [Apart]_vars
  <2> SUFFICES ASSUME StorageInv, Next, NEW q \in Points, life' = "up",
                      NEW s \in rows'[q] \ rows[q], NEW r \in rows[q] \ loose[q], r.epoch = s.epoch
               PROVE  s.ts >= r.ts + Period
    OBVIOUS
  <2>1. TelemetryTypes /\ PubInv /\ CoverInv /\ RestoreInv
    BY DEF StorageInv
  <2>2. rows' # rows
    OBVIOUS
  <2>3. PICK p \in Points : PersistPoint(p)
    <3>1. CASE TelemetryStep
      BY <2>2, <3>1 DEF TelemetryStep, PublisherStep, Tick, AdapterRestarts, Fail, ReadBatch,
                        ReadFails, Persisted, StoreCursor, Replace
    <3>2. CASE ThreadStep
      BY <2>2, <3>2 DEF ThreadStep, Test, Sleep, Timeout, OpenBackup, Copy, Verify, telemetryVars
    <3>3. CASE Flag \/ DestructorStep \/ Die \/ Start \/ RestoreCopy \/ ToolDies
      BY <2>2, <3>3 DEF Flag, DestructorStep, Notify, Close, Die, Gone, Start, RestoreCopy,
                        ToolDies, telemetryVars
    <3>4. CASE RestoreLog \/ RestoreAside \/ RestorePlace
      BY <2>1, <3>4 DEF RestoreLog, RestoreAside, RestorePlace, RestoreInv
    <3> QED
      BY <3>1, <3>2, <3>3, <3>4 DEF Next
  <2> DEFINE new == pub.view[p].sample
             c == CursorFor(p, new)
  <2>4. /\ new \in Sample /\ pub.pc = "persist" /\ life = "up"
        /\ rows' = [rows EXCEPT ![p] = @ \cup {new}] /\ Due(new, c)
    BY <2>1, <2>2, <2>3, PersistIs
  <2>5. q = p /\ s = new /\ r \in Sample
    <3> HIDE DEF new, c
    <3> QED
      BY <2>1, <2>4 DEF TelemetryTypes
  <2>6. Covers(cursor[p], r)
    BY <2>1, <2>4, <2>5 DEF CoverInv, Underway
  <2>7. c = cursor[p] /\ c # None /\ c \in Sample
    BY <2>1, <2>5, <2>6 DEF CursorFor, Covers, TelemetryTypes
  <2> HIDE DEF new, c
  <2>8. s.ts - c.ts >= Period /\ r.ts <= c.ts
    BY <2>4, <2>5, <2>6, <2>7 DEF Due, Covers
  <2> QED
    BY <2>4, <2>5, <2>7, <2>8, TelemetryAssumption DEF Sample
<1> QED
  BY <1>1, Invariance, PTL DEF Spec, StoredApart

===============================================================================
