------------------------------ MODULE RuleAlarm ------------------------------
(***************************************************************************)
(* RuleService and AlarmService in the publisher's cycle: the rules of the *)
(* running revision are looked up with two calls, the samples evaluated in *)
(* memory, and a transition is observed by the durable store, whose        *)
(* occurrences open, change and return to normal.  There is one rule, so   *)
(* one alarm id; occurrences are numbered in the order of their raising,   *)
(* which is that of their ids because the samples of a point have          *)
(* increasing times.                                                       *)
(***************************************************************************)
EXTENDS ConfigRevisions

CONSTANTS
  Duration,        \* durationMs, in samples
  MaxOccurrences,  \* bound on occurrences
  MaxFaults        \* bound on failed transactions and crashes

ASSUME RuleAssumption == {Duration, MaxOccurrences, MaxFaults} \subseteq Nat

Devices == Bootstrap.devices   \* what the adapter was built with
\* Below recovery, between, above trigger; below the rule's quality gate, or
\* no number.
Samples == {"normal", "band", "high", "doubtful"}

VARIABLES
  field,        \* per device, the current sample of its point
  rules, label, \* RuleService::rules_ and configRevision_
  state,        \* RuleService::states_ of the rule
  cycle,        \* the publisher's step, what its two calls have read, its transition
  occurrences,  \* alarm_v2_occurrences
  lost,         \* history: the last transition was not observed
  faults

ruleVars == <<field, rules, label, state, cycle, occurrences, lost, faults>>

Fresh == [condition |-> "NORMAL", pending |-> 0]
Rest == [pc |-> "rest", rules |-> Bootstrap, label |-> 0, transition |-> "none"]

\* The constructor configures the service with what is running.
RuleInit ==
  /\ field = [d \in Devices |-> "normal"]
  /\ rules = Bootstrap /\ label = 1
  /\ state = Fresh /\ cycle = Rest
  /\ occurrences = <<>> /\ lost = FALSE /\ faults = 0

Fault == faults < MaxFaults /\ faults' = faults + 1

\* Samples are looked at in Evaluate only: they may as well change before.
FieldChanges(d, sample) ==
  /\ cycle.pc = "rest" /\ field[d] # sample
  /\ field' = [field EXCEPT ![d] = sample]
  /\ UNCHANGED <<rules, label, state, cycle, occurrences, lost, faults>>

\* configure(activeSnapshot(), runningConfigRevision()): which of the two
\* arguments is evaluated first is not specified.
ReadFirst ==
  /\ cycle.pc = "rest"
  /\ \/ cycle' = [cycle EXCEPT !.pc = "label", !.rules = revisions[running]]
     \/ cycle' = [cycle EXCEPT !.pc = "rules", !.label = running]
  /\ UNCHANGED <<field, rules, label, state, occurrences, lost, faults>>

ReadSecond ==
  /\ cycle.pc \in {"label", "rules"}
  /\ cycle' = IF cycle.pc = "label" THEN [cycle EXCEPT !.pc = "evaluate", !.label = running]
              ELSE [cycle EXCEPT !.pc = "evaluate", !.rules = revisions[running]]
  /\ UNCHANGED <<field, rules, label, state, occurrences, lost, faults>>

\* Mutant of Configured: every configuration is taken for a new one.
ConfiguredAlways == Fresh

\* A new revision forgets pending timers and conditions.
Configured == IF cycle.label = label THEN state ELSE Fresh

\* Mutant of Gated: an unknown condition is the sample's quality.
GatedByQuality(s) ==
  [condition |-> IF s.condition = "ACTIVE" THEN "BAD" ELSE s.condition, pending |-> 0]

\* On a doubtful sample a condition is unknown, and stays so.
Gated(s) ==
  [condition |-> IF s.condition = "ACTIVE" THEN "UNKNOWN" ELSE s.condition, pending |-> 0]

\* The hysteresis of a condition and the duration before it.
Judged(s, value) ==
  IF s.condition # "NORMAL"
  THEN [s EXCEPT !.condition = IF value = "normal" THEN "NORMAL" ELSE "ACTIVE"]
  ELSE IF value # "high" THEN [s EXCEPT !.pending = 0]
  ELSE IF s.pending >= Duration THEN [condition |-> "ACTIVE", pending |-> 0]
  ELSE [s EXCEPT !.pending = @ + 1]

\* A disabled rule forgets its state; a point without a sample changes nothing.
Evaluated(s, rule) ==
  IF ~rule.enabled THEN Fresh
  ELSE IF rule.ruleDevice \notin Devices THEN s
  ELSE IF field[rule.ruleDevice] = "doubtful" THEN Gated(s)
  ELSE Judged(s, field[rule.ruleDevice])

Evaluate ==
  LET rule == IF cycle.label = label THEN rules ELSE cycle.rules
      after == Evaluated(Configured, rule)
  IN /\ cycle.pc = "evaluate"
     /\ rules' = rule /\ label' = cycle.label
     /\ state' = after
     /\ IF rule.enabled /\ after.condition # Configured.condition
        THEN cycle' = [Rest EXCEPT !.pc = "observe", !.transition = after.condition] /\ UNCHANGED lost
        ELSE cycle' = Rest /\ lost' = (lost /\ after.condition = state.condition)
     /\ UNCHANGED <<field, occurrences, faults>>

\* Mutant of Open: only an active occurrence counts as open.
OpenIfActive == {k \in DOMAIN occurrences : occurrences[k].condition = "ACTIVE"}

Open == {k \in DOMAIN occurrences : occurrences[k].condition # "NORMAL"}

\* upsertConditionLocked: raise an occurrence, or change the one that is open.
Observed(condition) ==
  IF Open # {}
  THEN LET k == CHOOSE k \in Open : \A j \in Open : j <= k
       IN [occurrences EXCEPT ![k].condition = condition]
  ELSE IF condition = "NORMAL" THEN occurrences
  ELSE Append(occurrences, [condition |-> condition, acknowledged |-> FALSE])

\* The transaction; when it throws, the cycle ends and the transition is gone.
Observe ==
  /\ cycle.pc = "observe" /\ cycle' = Rest
  /\ \/ /\ Len(Observed(cycle.transition)) <= MaxOccurrences
        /\ occurrences' = Observed(cycle.transition)
        /\ lost' = FALSE /\ UNCHANGED faults
     \/ Fault /\ lost' = TRUE /\ UNCHANGED occurrences
  /\ UNCHANGED <<field, rules, label, state>>

\* An acknowledgement is allowed in every condition.
Acknowledge(k) ==
  /\ k \in DOMAIN occurrences /\ ~occurrences[k].acknowledged
  /\ occurrences' = [occurrences EXCEPT ![k].acknowledged = TRUE]
  /\ UNCHANGED <<field, rules, label, state, cycle, lost, faults>>

\* The process dies and starts: rule states are gone, occurrences are not.
Restart ==
  /\ Fault
  /\ rules' = revisions[running] /\ label' = running
  /\ state' = Fresh /\ cycle' = Rest /\ lost' = FALSE
  /\ UNCHANGED <<field, occurrences>>

CycleStep == ReadFirst \/ ReadSecond \/ Evaluate \/ Observe

=============================================================================
