--------------------------- MODULE ConfigRevisions ---------------------------
(***************************************************************************)
(* ConfigService: numbered revisions of the site's configuration, the one  *)
(* that was published last and the one that is running.  Every operation   *)
(* is one transaction under the service's lock.  A revision that changes   *)
(* the devices is published without running and stays so: a restart        *)
(* recovers both marks as they were.                                       *)
(***************************************************************************)
EXTENDS Naturals, Sequences, FiniteSets

CONSTANTS
  Contents,      \* configurations: devices, and a rule on a point of a device
  Bootstrap,     \* the configuration made of the device registry
  MaxRevisions   \* bound on revisions

ASSUME ConfigAssumption ==
  /\ Bootstrap \in Contents
  /\ Bootstrap.ruleDevice \in Bootstrap.devices  \* its rules are made of its devices' metrics
  /\ MaxRevisions \in Nat

VARIABLES
  revisions,  \* config_revisions: revision number -> configuration
  published, running  \* config_state

configVars == <<revisions, published, running>>

ConfigInit ==
  /\ revisions = <<Bootstrap>>
  /\ published = 1 /\ running = 1

\* What validateSnapshotLocked refuses, by the example of a rule whose point
\* is on none of the devices.
Valid(content) == content.ruleDevice \in content.devices

\* Mutant of RequiresRestart: the change is measured against what was
\* published last.
RequiresRestartSincePublished(content) == content.devices # revisions[published].devices

RequiresRestart(content) == content.devices # revisions[running].devices

\* A new revision is the published one; it runs if the devices are unchanged.
Add(content) ==
  /\ Len(revisions) < MaxRevisions
  /\ Valid(content)
  /\ revisions' = Append(revisions, content)
  /\ published' = Len(revisions')
  /\ running' = IF RequiresRestart(content) THEN running ELSE published'

\* A draft on another base than the published revision is refused and stays a
\* draft.  Drafts can be made at any time, of any content, on any base, and no
\* other call looks at them: the one that is published is made here.
PublishDraft(base, content) ==
  /\ base = published
  /\ Add(content)

Rollback(revision) ==
  /\ revision \in DOMAIN revisions
  /\ Add(revisions[revision])

ConfigStep ==
  \/ \E base \in DOMAIN revisions, content \in Contents : PublishDraft(base, content)
  \/ \E revision \in DOMAIN revisions : Rollback(revision)

=============================================================================
