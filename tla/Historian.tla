------------------------------ MODULE Historian ------------------------------
(***************************************************************************)
(* The rest of the HistorianStore's life around Telemetry: the thread that *)
(* prunes and backs up, the destructor that stops it, the death of the     *)
(* process, the constructor that takes up the files it finds, and the tool *)
(* that restores a backup while the backend is stopped.                    *)
(***************************************************************************)
EXTENDS Telemetry

CONSTANTS
  BackupEvery   \* backupIntervalHours, in ticks

\* Without an interval no backup is made.
ASSUME HistorianAssumption == BackupEvery \in Nat \ {0}

VARIABLES
  thread,    \* maintenanceThread_: its step and the time of its round
  kept,      \* lastBackupAt_ and lastBackupPath_ (a backup's time, or None), and
             \* (history) whether the path was adopted at the start
  backups,   \* the files of the backup directory, named by their time
  disk,      \* the database file: is it in place, what it holds without its log,
             \* what restores set aside, and the tool's copy
  tool       \* the restore tool's step, and (history) the database that was last in
             \* place when a restore began, and whether its log held commits

maintenanceVars == <<thread, kept, backups, disk, tool>>
vars == <<telemetryVars, maintenanceVars>>

Content == [rows |-> rows, durable |-> durable]
Empty == [rows |-> [p \in Points |-> {}], durable |-> Nothing]

Init ==
  /\ TelemetryInit
  /\ thread = [pc |-> "test", now |-> 0]
  /\ kept = [backup |-> 1, path |-> None, adopted |-> FALSE]
  /\ backups = {}
  /\ disk = [placed |-> TRUE, file |-> Empty, aside |-> {}, copy |-> None]
  /\ tool = [pc |-> "idle", before |-> Empty, logged |-> FALSE]

\* The steps of Telemetry are taken while the thread rests: its rounds read
\* the database in one snapshot and change nothing that they look at.
Aside ==
  /\ thread.pc \in {"asleep", "ended"}
  /\ UNCHANGED maintenanceVars

TelemetryStep ==
  /\ \/ Tick \/ AdapterRestarts \/ PublisherStep
     \/ \E p \in Points : Fail(p)
  /\ Aside

-----------------------------------------------------------------------------
(* maintenanceLoop: a round a minute, and a backup when it is due.         *)

To(pc) == thread' = [pc |-> pc, now |-> IF pc \in {"copy", "verify"} THEN thread.now ELSE 0]
Running == life = "up"

\* The loop's condition and wait_for's predicate are evaluated, and then the
\* thread sleeps: the destructor may set the flag and notify in between.
Test ==
  /\ thread.pc = "test"
  /\ To(IF Running THEN "about" ELSE "ended")
  /\ UNCHANGED <<telemetryVars, kept, backups, disk, tool>>

Sleep ==
  /\ thread.pc = "about" /\ To("asleep")
  /\ UNCHANGED <<telemetryVars, kept, backups, disk, tool>>

\* Mutant of Timeout: the wait has no time limit, only a notification or a
\* spurious wakeup, after which the predicate is false it.
TimeoutByChance ==
  /\ thread.pc = "asleep" /\ Running
  /\ thread' = [pc |-> "open", now |-> clock]
  /\ UNCHANGED <<telemetryVars, kept, backups, disk, tool>>

\* A round in which nothing is due changes nothing and is left out; one that
\* is under way during a cycle meets the row with or without its cursor.
Timeout ==
  /\ thread.pc = "asleep" /\ pub.pc \in {"read", "cursor"}
  /\ IF Running
     THEN clock >= kept.backup + BackupEvery /\ thread' = [pc |-> "open", now |-> clock]
     ELSE To("ended")
  /\ UNCHANGED <<telemetryVars, kept, backups, disk, tool>>

\* createOnlineBackup: the file is created under its final name, filled by a
\* connection of its own, verified and only then recorded.  When a step fails
\* (pruning, which comes first, or making the file) the next round tries again.
OpenBackup ==
  /\ thread.pc = "open"
  /\ \/ /\ backups' = {b \in backups : b.ts # thread.now}
                         \cup {[ts |-> thread.now, state |-> "partial", of |-> Empty]}
        /\ To("copy") /\ UNCHANGED faults
     \/ Fault /\ To("test") /\ UNCHANGED backups
  /\ UNCHANGED <<clock, source, epoch, rows, durable, cursor, shown, pub, life, loose,
                 kept, disk, tool>>

Fresh(b) == b.ts = thread.now
Others == {b \in backups : ~Fresh(b)}

Copy ==
  /\ thread.pc = "copy"
  /\ \/ \E state \in {"whole", "damaged"} :
          /\ IF state = "damaged" THEN Fault ELSE UNCHANGED faults
          /\ backups' = Others \cup {[ts |-> thread.now, state |-> state, of |-> Content]}
          /\ To("verify")
     \/ /\ Fault /\ To("test")
        /\ backups' = Others
  /\ UNCHANGED <<clock, source, epoch, rows, durable, cursor, shown, pub, life, loose,
                 kept, disk, tool>>

\* Mutant of Verified: a copy that was made is taken for good.
VerifiedBlind(b) == Fresh(b)

\* verifyDatabaseFile
Verified(b) == Fresh(b) /\ b.state = "whole"

Verify ==
  /\ thread.pc = "verify" /\ To("test")
  /\ IF \E b \in backups : Verified(b)
     THEN kept' = [backup |-> thread.now, path |-> thread.now, adopted |-> FALSE]
          /\ UNCHANGED backups
     ELSE backups' = Others /\ UNCHANGED kept
  /\ UNCHANGED <<telemetryVars, disk, tool>>

ThreadStep == Test \/ Sleep \/ Timeout \/ OpenBackup \/ Copy \/ Verify

-----------------------------------------------------------------------------
(* The end of a process: the publisher has been joined and the calls are   *)
(* over, then the destructor sets the flag, notifies (the mutex of the     *)
(* wait is not taken), joins the thread and closes the database, which     *)
(* empties its log.  Or the process dies.                                  *)

Flag ==
  /\ life = "up" /\ pub.pc = "read"
  /\ Fault
  /\ life' = "flagged"
  /\ UNCHANGED <<clock, source, epoch, rows, durable, cursor, shown, pub, loose,
                 thread, kept, backups, disk, tool>>

Notify ==
  /\ life = "flagged"
  /\ life' = "joining"
  /\ thread' = IF thread.pc = "asleep" THEN [pc |-> "ended", now |-> 0] ELSE thread
  /\ UNCHANGED <<clock, source, epoch, rows, durable, cursor, shown, pub, faults, loose,
                 kept, backups, disk, tool>>

Gone ==
  /\ life' = "down"
  /\ shown' = Nothing /\ cursor' = Nothing /\ pub' = Idle
  /\ UNCHANGED <<clock, source, epoch, rows, durable, backups, tool>>

Close ==
  /\ life = "joining" /\ thread.pc = "ended"
  /\ Gone
  /\ disk' = [disk EXCEPT !.file = Content]
  /\ UNCHANGED <<faults, loose, thread, kept>>

Die ==
  /\ life # "down" /\ Fault
  /\ Gone
  /\ loose' = IF pub.pc = "cursor" THEN [loose EXCEPT ![pub.at] = @ \cup {pub.view[pub.at].sample}]
             ELSE loose
  /\ To("ended")
  /\ UNCHANGED <<kept, disk>>

DestructorStep == Notify \/ Close

\* seedTelemetryCursorsLocked: a point with rows and no cursor gets the last
\* of an epoch.
Seeded(p) ==
  IF durable[p] # None \/ rows[p] = {} THEN {durable[p]}
  ELSE {r \in rows[p] : \A s \in rows[p] : s.epoch = r.epoch => ~Later(s, r)}

\* The newest file by its name is taken for the last backup.
LastFile == CHOOSE b \in backups : \A c \in backups : c.ts <= b.ts

\* The constructor.  A database that is not in place is created empty.  An
\* adapter of API v1 gets a new epoch, others may go on with theirs.
Start ==
  /\ life = "down" /\ tool.pc = "idle"
  /\ life' = "up"
  /\ durable' \in [Points -> UNION {Seeded(p) : p \in Points}]
  /\ \A p \in Points : durable'[p] \in Seeded(p)
  /\ cursor' = durable'
  /\ epoch' \in {epoch, epoch + 1} /\ epoch' <= MaxEpoch
  /\ kept' = [adopted |-> backups # {},
              backup |-> IF backups = {} THEN clock ELSE LastFile.ts,
              path |-> IF backups = {} THEN None ELSE LastFile.ts]
  /\ disk' = [disk EXCEPT !.placed = TRUE]
  /\ To("test")
  /\ UNCHANGED <<clock, source, rows, shown, pub, faults, loose, backups, tool>>

-----------------------------------------------------------------------------
(* restoreBackup, run by the maintenance tool while the backend is down:   *)
(* each step may fail, or the tool may die before it.                      *)

\* Mutant of SetAside: the database is replaced without being kept.
SetAsideNothing(victim) == {}

SetAside(victim) == {victim}

LooseIn(c) ==
  [p \in Points |-> {r \in c.rows[p] : c.durable[p] = None \/ Later(r, c.durable[p])
                                         \/ r.epoch # c.durable[p].epoch}]

RestoreCopy ==
  /\ life = "down" /\ tool.pc = "idle" /\ Fault
  /\ \E b \in backups :
       /\ b.state = "whole"
       /\ disk' = [disk EXCEPT !.copy = b.of]
  /\ tool' = IF disk.placed
             THEN [pc |-> "log", before |-> Content, logged |-> disk.file # Content]
             ELSE [tool EXCEPT !.pc = "log"]
  /\ UNCHANGED <<clock, source, epoch, rows, durable, cursor, shown, pub, life, loose,
                 thread, kept, backups>>

\* The log is deleted first: commits that no checkpoint had moved to the file
\* are lost.
RestoreLog ==
  /\ tool.pc = "log"
  /\ \E left \in {disk.file, Content} :
       /\ rows' = left.rows /\ durable' = left.durable
       /\ disk' = [disk EXCEPT !.file = left]
       /\ loose' = LooseIn(left)
  /\ tool' = [tool EXCEPT !.pc = "aside"]
  /\ UNCHANGED <<clock, source, epoch, cursor, shown, pub, life, faults,
                 thread, kept, backups>>

\* The database is renamed, if there is one; if that fails the copy goes.
RestoreAside ==
  /\ tool.pc = "aside"
  /\ \/ /\ disk' = IF disk.placed
                   THEN [disk EXCEPT !.placed = FALSE, !.file = Empty, !.aside = @ \cup SetAside(Content)]
                   ELSE disk
        /\ rows' = Empty.rows /\ durable' = Empty.durable /\ loose' = Empty.rows
        /\ tool' = [tool EXCEPT !.pc = "place"]
     \/ /\ disk' = [disk EXCEPT !.copy = None]
        /\ tool' = [tool EXCEPT !.pc = "idle"] /\ UNCHANGED <<rows, durable, loose>>
  /\ UNCHANGED <<clock, source, epoch, cursor, shown, pub, life, faults,
                 thread, kept, backups>>

RestorePlace ==
  /\ tool.pc = "place"
  /\ tool' = [tool EXCEPT !.pc = "idle"]
  /\ \/ /\ rows' = disk.copy.rows /\ durable' = disk.copy.durable
        /\ loose' = LooseIn(disk.copy)
        /\ disk' = [disk EXCEPT !.placed = TRUE, !.file = disk.copy, !.copy = None]
     \/ UNCHANGED <<rows, durable, loose, disk>>
  /\ UNCHANGED <<clock, source, epoch, cursor, shown, pub, life, faults, thread, kept, backups>>

ToolDies ==
  /\ tool.pc # "idle"
  /\ tool' = [tool EXCEPT !.pc = "idle"]
  /\ UNCHANGED <<telemetryVars, thread, kept, backups, disk>>

Next ==
  \/ TelemetryStep \/ ThreadStep
  \/ Flag \/ DestructorStep \/ Die \/ Start
  \/ RestoreCopy \/ RestoreLog \/ RestoreAside \/ RestorePlace \/ ToolDies

Spec == Init /\ [][Next]_vars

\* The publisher, the maintenance thread (its wait ends at its time limit) and
\* the thread that runs the destructor are scheduled, and calls return.
FairSpec ==
  /\ Spec
  /\ WF_vars(PublisherStep /\ Aside)
  /\ WF_vars(ThreadStep) /\ WF_vars(DestructorStep)

-----------------------------------------------------------------------------
(* Properties                                                              *)

TypeOK ==
  /\ {clock, epoch, faults} \subseteq Nat
  /\ source \in [Points -> [up : BOOLEAN, last : Sample \cup {None}, before : Sample \cup {None}]]
  /\ \A p \in Points : rows[p] \subseteq Sample /\ loose[p] \subseteq rows[p]
  /\ {durable, cursor} \subseteq [Points -> Sample \cup {None}]
  /\ {shown, pub.view} \subseteq [Points -> Point \cup {None}]
  /\ pub.pc \in {"read", "persist", "cursor", "replace"} /\ pub.todo \subseteq Points
  /\ pub.at \in Points \cup {None}
  /\ life \in {"up", "flagged", "joining", "down"}
  /\ thread.pc \in {"test", "about", "asleep", "open", "copy", "verify", "ended"}
  /\ kept \in [backup : Nat, path : Nat \cup {None}, adopted : BOOLEAN]
  /\ \A b \in backups : b.ts \in Nat /\ b.state \in {"partial", "damaged", "whole"}
  /\ tool.pc \in {"idle", "log", "aside", "place"}
  /\ disk.placed \in BOOLEAN /\ tool.logged \in BOOLEAN

\* A sample is stored at least its point's period after every sample of its
\* epoch that was ever stored, pruned ones included, whatever a device repeats
\* and whatever dies, restarts or is restored; except next to a row whose
\* cursor was lost because the two are written one after the other.
StoredApart ==
  [][\A p \in Points : life' = "up" =>
       \A s \in rows'[p] \ rows[p], r \in rows[p] \ loose[p] :
         r.epoch = s.epoch => s.ts >= r.ts + Period]_vars

\* A device that has failed for good is not shown with GOOD data for ever,
\* whatever the cycles after its failure meet.
FailureShown ==
  \A p \in Points :
    <>[](~source[p].up) => <>[](shown[p] # None => shown[p].quality # "GOOD")

\* The backup that the status names is one that was verified, or one that was
\* found at the start: the name alone decides then, and a file that a dying
\* process left unfinished is taken too.
BackupSound ==
  kept.path # None /\ ~kept.adopted =>
    \E b \in backups : b.ts = kept.path /\ b.state = "whole"

\* Wherever a restore fails or is cut, one that follows it included, the last
\* database that was in place is there or aside with all that was committed,
\* unless its log still held commits.
RestoreKeeps ==
  (tool.pc # "idle" \/ ~disk.placed) /\ ~tool.logged =>
    \/ disk.placed /\ Content = tool.before
    \/ tool.before \in disk.aside

\* The destructor returns, although its notification may come before the
\* thread sleeps.
CloseReturns == life = "flagged" ~> life = "down"

=============================================================================
