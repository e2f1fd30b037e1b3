---------------------------- MODULE PlatformProofs ----------------------------
(***************************************************************************)
(* Typing of Platform and its three safety properties, for any             *)
(* configurations, devices, durations and bounds: one lemma per part of    *)
(* the composition, one invariant for all properties.                      *)
(***************************************************************************)
EXTENDS Platform, FiniteSetTheorems, TLAPS

Conditions == {"NORMAL", "ACTIVE", "UNKNOWN"}

Settled == [condition |-> "NORMAL", acknowledged |-> TRUE]

\* A valid configuration of the devices that the adapter was built with.
Sound(content) == content \in Contents /\ Valid(content) /\ content.devices = Devices

\* Every revision is valid; what runs, what was read and what is in force is
\* about the adapter's devices.
RevisionInv ==
  /\ revisions \in Seq(Contents) /\ {published, running, label} \subseteq DOMAIN revisions
  /\ \A n \in DOMAIN revisions : Valid(revisions[n])
  /\ Sound(revisions[running]) /\ Sound(rules) /\ Sound(cycle.rules)

\* The publisher's step: what it evaluates was read, what it observes is the
\* rule's condition.
CycleInv ==
  /\ cycle \in [pc : {"rest", "label", "rules", "evaluate", "observe"}, rules : Contents,
                label : Nat, transition : Conditions \cup {"none"}]
  /\ cycle.pc \in {"rules", "evaluate"} => cycle.label \in DOMAIN revisions
  /\ cycle.pc = "observe" => cycle.transition = state.condition /\ state.condition \in Conditions

StateInv ==
  /\ field \in [Devices -> Samples]
  /\ state \in [condition : Conditions, pending : 0..Duration]
  /\ lost \in BOOLEAN

\* One open occurrence at most, which the rule's condition is about.
StandInv ==
  /\ occurrences \in Seq([condition : Conditions, acknowledged : BOOLEAN])
  /\ \A j, k \in Open : j = k
  /\ cycle.pc # "observe" /\ state.condition # "NORMAL" /\ ~lost =>
       \E k \in Open : occurrences[k].condition = state.condition

\* From the check of a CLOSE on, the occurrence is settled.
IncidentInv ==
  /\ incident \in [of : 0..Len(occurrences),
                   status : {"OPEN", "IN_PROGRESS", "RESOLVED", "CLOSED"}]
  /\ closing \in BOOLEAN
  /\ closing \/ incident.status = "CLOSED" =>
       incident.of \in DOMAIN occurrences /\ occurrences[incident.of] = Settled

PlatformInv == RevisionInv /\ CycleInv /\ StateInv /\ StandInv /\ IncidentInv

LEMMA FreshType == Fresh \in [condition : Conditions, pending : 0..Duration]
<1>1. Duration \in Nat
  BY RuleAssumption
<1> QED
  BY <1>1 DEF Fresh, Conditions

\* A sequence's elements, and the sequence with one of them replaced.
LEMMA Element ==
  ASSUME NEW S, NEW s \in Seq(S), NEW k \in DOMAIN s
  PROVE  s[k] \in S
OBVIOUS

LEMMA Replaced ==
  ASSUME NEW S, NEW s \in Seq(S), NEW k \in DOMAIN s, NEW x \in S
  PROVE  /\ [s EXCEPT ![k] = x] \in Seq(S) /\ Len([s EXCEPT ![k] = x]) = Len(s)
         /\ DOMAIN [s EXCEPT ![k] = x] = DOMAIN s
OBVIOUS

LEMMA InitInv == Init => PlatformInv
<1> SUFFICES ASSUME Init PROVE PlatformInv
  OBVIOUS
<1> USE DEF Init, ConfigInit, RuleInit, Rest, Fresh
<1>1. revisions \in Seq(Contents) /\ DOMAIN revisions = {1} /\ revisions[1] = Bootstrap
  BY ConfigAssumption
<1>2. Sound(Bootstrap)
  BY ConfigAssumption DEF Sound, Valid, Devices
<1>3. RevisionInv
  BY <1>1, <1>2 DEF RevisionInv, Sound
<1>4. CycleInv /\ StateInv
  <2>2. CycleInv
    BY ConfigAssumption DEF CycleInv
  <2>3. StateInv
    <3>1. state = Fresh
      OBVIOUS
    <3>2. field \in [Devices -> Samples] /\ lost \in BOOLEAN
      BY DEF Samples
    <3> QED
      BY <3>1, <3>2, FreshType DEF StateInv
  <2> QED
    BY <2>2, <2>3
<1>5. StandInv /\ IncidentInv
  <2>1. /\ occurrences = <<>> /\ Len(occurrences) = 0 /\ DOMAIN occurrences = {}
        /\ occurrences \in Seq([condition : Conditions, acknowledged : BOOLEAN])
    OBVIOUS
  <2>2. StandInv
    BY <2>1 DEF StandInv, Open
  <2>3. IncidentInv
    <3>1. incident = [of |-> 0, status |-> "OPEN"] /\ closing = FALSE /\ 0 \in 0..Len(occurrences)
      BY <2>1
    <3>2. incident \in [of : 0..Len(occurrences),
                        status : {"OPEN", "IN_PROGRESS", "RESOLVED", "CLOSED"}]
      BY <3>1
    <3>3. closing \in BOOLEAN /\ ~closing
      BY <3>1
    <3>4. incident.status # "CLOSED"
      BY <3>1
    <3> QED
      BY <3>2, <3>3, <3>4 DEF IncidentInv
  <2> QED
    BY <2>2, <2>3
<1> QED
  BY <1>3, <1>4, <1>5 DEF PlatformInv

-------------------------------------------------------------------------------
(* The configuration *)

\* A new revision is valid; it runs only if its devices are the running one's.
LEMMA AddInv ==
  ASSUME RevisionInv, NEW content \in Contents, Add(content), UNCHANGED <<ruleVars, incidentVars>>
  PROVE  RevisionInv' /\ DOMAIN revisions \subseteq DOMAIN revisions'
<1> USE DEF RevisionInv, Add
<1>1. /\ revisions' \in Seq(Contents) /\ Len(revisions') = Len(revisions) + 1
      /\ Len(revisions) \in Nat /\ revisions'[Len(revisions')] = content
      /\ \A n \in DOMAIN revisions : n \in DOMAIN revisions' /\ revisions'[n] = revisions[n]
  OBVIOUS
<1>2. {published', running', label'} \subseteq DOMAIN revisions'
  BY <1>1 DEF ruleVars
<1>3. \A n \in DOMAIN revisions' : Valid(revisions'[n])
  BY <1>1
<1>4. Sound(revisions'[running'])
  <2>1. CASE RequiresRestart(content)
    BY <1>1, <2>1
  <2>2. CASE ~RequiresRestart(content)
    BY <1>1, <2>2 DEF Sound, RequiresRestart
  <2> QED
    BY <2>1, <2>2
<1> QED
  BY <1>1, <1>2, <1>3, <1>4 DEF ruleVars, Sound, Valid

LEMMA ConfigInv ==
  ASSUME PlatformInv, ConfigStep, UNCHANGED <<ruleVars, incidentVars>>
  PROVE  PlatformInv'
<1>1. PICK content \in Contents : Add(content)
  BY DEF ConfigStep, PublishDraft, Rollback, PlatformInv, RevisionInv
<1>2. RevisionInv' /\ DOMAIN revisions \subseteq DOMAIN revisions'
  BY <1>1, AddInv DEF PlatformInv
<1>3. CycleInv'
  BY <1>2 DEF PlatformInv, CycleInv, ruleVars
<1>4. StateInv' /\ StandInv' /\ IncidentInv'
  BY DEF PlatformInv, StateInv, StandInv, IncidentInv, Open, ruleVars, incidentVars
<1> QED
  BY <1>2, <1>3, <1>4 DEF PlatformInv

-------------------------------------------------------------------------------
(* The publisher's cycle *)

LEMMA ReadInv ==
  ASSUME PlatformInv, ReadFirst \/ ReadSecond, UNCHANGED <<configVars, incidentVars>>
  PROVE  PlatformInv'
<1> USE DEF ReadFirst, ReadSecond
<1>1. running \in DOMAIN revisions /\ running \in Nat /\ revisions[running] \in Contents
  BY DEF PlatformInv, RevisionInv
<1>2. cycle' \in [pc : {"label", "rules", "evaluate"}, rules : Contents, label : Nat,
                  transition : Conditions \cup {"none"}]
  BY <1>1 DEF PlatformInv, CycleInv
<1>3. cycle'.rules \in {cycle.rules, revisions[running]}
  BY DEF PlatformInv, CycleInv
<1>4. cycle'.pc \in {"rules", "evaluate"} => cycle'.label \in DOMAIN revisions
  BY <1>1 DEF PlatformInv, CycleInv
<1>5. RevisionInv'
  BY <1>3 DEF PlatformInv, RevisionInv, configVars, Sound, Valid
<1>6. CycleInv'
  BY <1>2, <1>4 DEF CycleInv, configVars
<1>7. StateInv' /\ IncidentInv'
  BY DEF PlatformInv, StateInv, IncidentInv, incidentVars
<1>8. StandInv'
  <2>1. cycle.pc # "observe"
    BY DEF PlatformInv, CycleInv
  <2> QED
    BY <2>1 DEF PlatformInv, StandInv, Open
<1> QED
  BY <1>5, <1>6, <1>7, <1>8 DEF PlatformInv

LEMMA ConfiguredType ==
  ASSUME PlatformInv
  PROVE  Configured \in [condition : Conditions, pending : 0..Duration]
BY RuleAssumption DEF PlatformInv, StateInv, Configured, Fresh, Conditions

LEMMA EvaluatedType ==
  ASSUME NEW s \in [condition : Conditions, pending : 0..Duration], NEW rule
  PROVE  Evaluated(s, rule) \in [condition : Conditions, pending : 0..Duration]
<1>1. Duration \in Nat
  BY RuleAssumption
<1>3. Gated(s) \in [condition : Conditions, pending : 0..Duration]
  BY <1>1 DEF Gated, Conditions
<1>4. \A value : Judged(s, value) \in [condition : Conditions, pending : 0..Duration]
  BY <1>1 DEF Judged, Conditions
<1> QED
  BY <1>3, <1>4, FreshType DEF Evaluated

\* Where no transition is to be observed, the condition is the one of before or
\* NORMAL; where one is, it is the condition.
LEMMA EvaluateInv ==
  ASSUME PlatformInv, Evaluate, UNCHANGED <<configVars, incidentVars>>
  PROVE  PlatformInv'
<1> DEFINE rule == IF cycle.label = label THEN rules ELSE cycle.rules
           after == Evaluated(Configured, rule)
<1>1. /\ cycle.pc = "evaluate" /\ rules' = rule /\ label' = cycle.label /\ state' = after
      /\ IF rule.enabled /\ after.condition # Configured.condition
         THEN cycle' = [Rest EXCEPT !.pc = "observe", !.transition = after.condition] /\ UNCHANGED lost
         ELSE cycle' = Rest /\ lost' = (lost /\ after.condition = state.condition)
      /\ UNCHANGED <<field, occurrences, faults>>
  BY DEF Evaluate
<1>2. after \in [condition : Conditions, pending : 0..Duration]
  BY ConfiguredType, EvaluatedType
<1>3. ~rule.enabled => after.condition = "NORMAL"
  BY DEF Evaluated, Fresh
<1> HIDE DEF rule, after
<1>4. Sound(rule)
  BY DEF rule, PlatformInv, RevisionInv
<1>5. Sound(Bootstrap)
  BY ConfigAssumption DEF Sound, Valid, Devices
<1>6. /\ cycle' \in {Rest, [Rest EXCEPT !.pc = "observe", !.transition = after.condition]}
      /\ cycle'.rules = Bootstrap
  <2>1. CASE rule.enabled /\ after.condition # Configured.condition
    BY <1>1, <2>1 DEF Rest
  <2>2. CASE ~(rule.enabled /\ after.condition # Configured.condition)
    BY <1>1, <2>2 DEF Rest
  <2> QED
    BY <2>1, <2>2
<1>7. RevisionInv'
  <2>1. label' \in DOMAIN revisions
    BY <1>1 DEF PlatformInv, CycleInv
  <2> QED
    BY <1>1, <1>4, <1>5, <1>6, <2>1 DEF PlatformInv, RevisionInv, configVars, Sound, Valid
<1>8. CycleInv'
  <2>1. CASE cycle' = Rest
    BY <2>1, ConfigAssumption DEF CycleInv, Rest
  <2>2. CASE cycle' = [Rest EXCEPT !.pc = "observe", !.transition = after.condition]
    BY <1>1, <1>2, <2>2, ConfigAssumption DEF CycleInv, Rest
  <2> QED
    BY <1>6, <2>1, <2>2
<1>9. StateInv' /\ IncidentInv'
  BY <1>1, <1>2 DEF PlatformInv, StateInv, IncidentInv, incidentVars
<1>10. StandInv'
  <2> SUFFICES ASSUME cycle'.pc # "observe", state'.condition # "NORMAL", ~lost'
               PROVE  \E k \in Open : occurrences[k].condition = state'.condition
    BY <1>1 DEF PlatformInv, StandInv, Open
  <2>1. rule.enabled /\ after.condition = Configured.condition /\ lost' = (lost /\ after.condition = state.condition)
    BY <1>1, <1>3 DEF Rest
  <2>2. Configured = state
    BY <1>1, <2>1 DEF Configured, Fresh
  <2>3. ~lost /\ state'.condition = state.condition
    BY <1>1, <2>1, <2>2 DEF PlatformInv, StateInv
  <2> QED
    BY <1>1, <2>3 DEF PlatformInv, StandInv
<1> QED
  BY <1>7, <1>8, <1>9, <1>10 DEF PlatformInv

\* The open occurrence changes, or one is raised when there is none; a settled
\* one is not open and stays as it is.
LEMMA ObservedStands ==
  ASSUME StandInv, NEW condition \in Conditions, occurrences' = Observed(condition)
  PROVE  /\ occurrences' \in Seq([condition : Conditions, acknowledged : BOOLEAN])
         /\ Len(occurrences') >= Len(occurrences)
         /\ \A j, k \in Open' : j = k
         /\ condition # "NORMAL" => \E k \in Open' : occurrences'[k].condition = condition
         /\ \A k \in DOMAIN occurrences : occurrences[k] = Settled => occurrences'[k] = Settled
<1> DEFINE Occurrence == [condition : Conditions, acknowledged : BOOLEAN]
<1> USE DEF StandInv
<1>1. CASE Open # {}
  <2>1. PICK k \in Open : Open = {k}
    BY <1>1
  <2>2. (CHOOSE i \in Open : \A j \in Open : j <= i) = k
    <3>1. k \in Nat
      BY <2>1 DEF Open
    <3> QED
      BY <2>1, <3>1
  <2>3. k \in DOMAIN occurrences /\ occurrences[k].condition # "NORMAL"
    BY <2>1 DEF Open
  <2>4. occurrences' = [occurrences EXCEPT ![k].condition = condition]
    BY <1>1, <2>2 DEF Observed
  <2>5. /\ occurrences' \in Seq(Occurrence) /\ Len(occurrences') = Len(occurrences)
        /\ DOMAIN occurrences' = DOMAIN occurrences /\ occurrences'[k].condition = condition
        /\ \A j \in DOMAIN occurrences : j # k => occurrences'[j] = occurrences[j]
    <3>1. occurrences \in Seq(Occurrence) /\ Len(occurrences) \in Nat
      OBVIOUS
    <3>2. occurrences[k] \in Occurrence
      BY <2>3, <3>1, Element
    <3>3. [occurrences[k] EXCEPT !.condition = condition] \in Occurrence
      BY <3>2
    <3>4. occurrences' = [occurrences EXCEPT ![k] = [occurrences[k] EXCEPT !.condition = condition]]
      BY <2>4
    <3>5. /\ occurrences' \in Seq(Occurrence) /\ Len(occurrences') = Len(occurrences)
          /\ DOMAIN occurrences' = DOMAIN occurrences
      BY <2>3, <3>1, <3>3, <3>4, Replaced
    <3>6. occurrences'[k] = [occurrences[k] EXCEPT !.condition = condition]
      BY <2>3, <3>4
    <3> QED
      BY <2>4, <3>2, <3>5, <3>6
  <2>6. Open' = IF condition = "NORMAL" THEN {} ELSE {k}
    BY <2>1, <2>3, <2>5 DEF Open
  <2>7. Len(occurrences) \in Nat
    OBVIOUS
  <2> QED
    BY <2>3, <2>5, <2>6, <2>7 DEF Settled
<1>2. CASE Open = {} /\ condition = "NORMAL"
  BY <1>2 DEF Observed, Open
<1>3. CASE Open = {} /\ condition # "NORMAL"
  <2> DEFINE new == Len(occurrences) + 1
  <2>1. occurrences' = Append(occurrences, [condition |-> condition, acknowledged |-> FALSE])
    BY <1>3 DEF Observed
  <2>2. /\ occurrences' \in Seq(Occurrence) /\ Len(occurrences') = new
        /\ DOMAIN occurrences' = DOMAIN occurrences \cup {new}
        /\ occurrences'[new].condition = condition /\ Len(occurrences) \in Nat
        /\ \A k \in DOMAIN occurrences : occurrences'[k] = occurrences[k]
    BY <2>1
  <2>3. Open' = {new}
    BY <1>3, <2>2 DEF Open
  <2> QED
    BY <1>3, <2>2, <2>3
<1> QED
  BY <1>1, <1>2, <1>3

\* What a step keeps that touches occurrences only, and no settled one.
LEMMA IncidentKept ==
  ASSUME IncidentInv, UNCHANGED incidentVars,
         occurrences \in Seq([condition : Conditions, acknowledged : BOOLEAN]),
         occurrences' \in Seq([condition : Conditions, acknowledged : BOOLEAN]),
         Len(occurrences') >= Len(occurrences),
         \A k \in DOMAIN occurrences : occurrences[k] = Settled => occurrences'[k] = Settled
  PROVE  IncidentInv'
<1>1. Len(occurrences) \in Nat /\ Len(occurrences') \in Nat
  OBVIOUS
<1>2. DOMAIN occurrences \subseteq DOMAIN occurrences'
  BY <1>1
<1> QED
  BY <1>1, <1>2 DEF IncidentInv, incidentVars

LEMMA ObserveInv ==
  ASSUME PlatformInv, Observe, UNCHANGED <<configVars, incidentVars>>
  PROVE  PlatformInv'
<1>1. cycle.pc = "observe" /\ cycle' = Rest /\ UNCHANGED <<field, rules, label, state>>
  BY DEF Observe
<1>2. cycle.transition \in Conditions /\ state.condition = cycle.transition
  BY <1>1 DEF PlatformInv, CycleInv
<1>3. Sound(Bootstrap)
  BY ConfigAssumption DEF Sound, Valid, Devices
<1>4. RevisionInv'
  BY <1>1, <1>3 DEF PlatformInv, RevisionInv, Rest, configVars, Sound, Valid
<1>5. CycleInv'
  BY <1>1, <1>3 DEF CycleInv, Rest, Sound
<1>6. StateInv'
  BY <1>1 DEF Observe, PlatformInv, StateInv
<1>7. CASE occurrences' = Observed(cycle.transition) /\ lost' = FALSE
  <2>1. StandInv'
    BY <1>1, <1>2, <1>7, ObservedStands DEF PlatformInv, StandInv
  <2>2. IncidentInv'
    BY <1>2, <1>7, <2>1, ObservedStands, IncidentKept DEF PlatformInv, StandInv
  <2> QED
    BY <1>4, <1>5, <1>6, <2>1, <2>2 DEF PlatformInv
<1>8. CASE UNCHANGED occurrences /\ lost' = TRUE
  <2>1. StandInv' /\ IncidentInv'
    BY <1>8 DEF PlatformInv, StandInv, IncidentInv, Open, incidentVars
  <2> QED
    BY <1>4, <1>5, <1>6, <2>1 DEF PlatformInv
<1> QED
  BY <1>7, <1>8 DEF Observe

-------------------------------------------------------------------------------
(* The field, acknowledgements and restarts *)

LEMMA FieldInv ==
  ASSUME PlatformInv, NEW d \in Devices, NEW sample \in Samples, FieldChanges(d, sample),
         UNCHANGED <<configVars, incidentVars>>
  PROVE  PlatformInv'
<1> USE DEF PlatformInv, FieldChanges
<1>1. RevisionInv' /\ CycleInv'
  BY DEF RevisionInv, CycleInv, configVars, Sound, Valid
<1>2. StateInv'
  BY DEF StateInv
<1>3. StandInv' /\ IncidentInv'
  BY DEF StandInv, IncidentInv, Open, incidentVars
<1> QED
  BY <1>1, <1>2, <1>3

LEMMA AcknowledgedType ==
  ASSUME occurrences \in Seq([condition : Conditions, acknowledged : BOOLEAN]),
         NEW k \in DOMAIN occurrences,
         occurrences' = [occurrences EXCEPT ![k].acknowledged = TRUE]
  PROVE  /\ occurrences' \in Seq([condition : Conditions, acknowledged : BOOLEAN])
         /\ DOMAIN occurrences' = DOMAIN occurrences /\ Len(occurrences') = Len(occurrences)
         /\ \A j \in DOMAIN occurrences : /\ occurrences'[j].condition = occurrences[j].condition
                                          /\ j # k => occurrences'[j] = occurrences[j]
<1> DEFINE Occurrence == [condition : Conditions, acknowledged : BOOLEAN]
           new == [occurrences[k] EXCEPT !.acknowledged = TRUE]
<1>1. occurrences[k] \in Occurrence
  BY Element
<1>2. new \in Occurrence /\ new.condition = occurrences[k].condition
  BY <1>1
<1>3. occurrences' = [occurrences EXCEPT ![k] = new]
  OBVIOUS
<1>4. /\ occurrences' \in Seq(Occurrence) /\ DOMAIN occurrences' = DOMAIN occurrences
      /\ Len(occurrences') = Len(occurrences)
  BY <1>2, <1>3, Replaced
<1> QED
  BY <1>2, <1>3, <1>4

LEMMA AcknowledgeInv ==
  ASSUME PlatformInv, NEW k \in 1..MaxOccurrences, Acknowledge(k),
         UNCHANGED <<configVars, incidentVars>>
  PROVE  PlatformInv'
<1> USE DEF PlatformInv, Acknowledge
<1>1. RevisionInv' /\ CycleInv' /\ StateInv'
  BY DEF RevisionInv, CycleInv, StateInv, configVars, Sound, Valid
<1>2. /\ occurrences' \in Seq([condition : Conditions, acknowledged : BOOLEAN])
      /\ DOMAIN occurrences' = DOMAIN occurrences /\ Len(occurrences') = Len(occurrences)
      /\ \A j \in DOMAIN occurrences : /\ occurrences'[j].condition = occurrences[j].condition
                                       /\ j # k => occurrences'[j] = occurrences[j]
  BY AcknowledgedType DEF StandInv
<1>3. Open' = Open
  BY <1>2 DEF Open
<1>4. StandInv'
  BY <1>2, <1>3 DEF StandInv, Open
<1>5. IncidentInv'
  <2>1. Len(occurrences') >= Len(occurrences)
    BY <1>2 DEF StandInv
  <2>2. occurrences[k] # Settled
    BY DEF Settled
  <2> QED
    BY <1>2, <2>1, <2>2, IncidentKept DEF StandInv
<1> QED
  BY <1>1, <1>4, <1>5

LEMMA RestartInv ==
  ASSUME PlatformInv, Restart, closing' = FALSE, UNCHANGED <<configVars, incident>>
  PROVE  PlatformInv'
<1> USE DEF PlatformInv, Restart
<1>1. Sound(Bootstrap)
  BY ConfigAssumption DEF Sound, Valid, Devices
<1>2. RevisionInv'
  BY <1>1 DEF RevisionInv, Rest, configVars, Sound, Valid
<1>3. CycleInv'
  BY <1>1 DEF CycleInv, Rest, Sound
<1>4. StateInv'
  BY FreshType DEF StateInv
<1>5. StandInv'
  BY DEF StandInv, Open, Fresh
<1>6. IncidentInv'
  BY DEF IncidentInv
<1> QED
  BY <1>2, <1>3, <1>4, <1>5, <1>6

-------------------------------------------------------------------------------
(* Incidents *)

LEMMA IncidentStepInv ==
  ASSUME PlatformInv, IncidentStep
  PROVE  PlatformInv'
<1>1. UNCHANGED <<configVars, ruleVars>>
  BY DEF IncidentStep, CreateIncident, Transition, CheckClose, Close
<1>2. RevisionInv' /\ CycleInv' /\ StateInv' /\ StandInv'
  BY <1>1 DEF PlatformInv, RevisionInv, CycleInv, StateInv, StandInv, Open, configVars, ruleVars,
              Sound, Valid
<1>3. occurrences' = occurrences /\ DOMAIN occurrences = 1..Len(occurrences) /\ Len(occurrences) \in Nat
  BY <1>1 DEF ruleVars, PlatformInv, StandInv
<1>4. IncidentInv'
  <2>1. ASSUME NEW k \in DOMAIN occurrences, CreateIncident(k) PROVE IncidentInv'
    BY <1>3, <2>1 DEF CreateIncident, PlatformInv, IncidentInv
  <2>2. CASE Transition
    BY <1>3, <2>2 DEF Transition, Steps, PlatformInv, IncidentInv
  <2>3. CASE CheckClose
    <3>1. incident.of \in DOMAIN occurrences
      BY <1>3, <2>3 DEF CheckClose, PlatformInv, IncidentInv
    <3>2. occurrences[incident.of] \in [condition : Conditions, acknowledged : BOOLEAN]
      <4>1. occurrences \in Seq([condition : Conditions, acknowledged : BOOLEAN])
        BY DEF PlatformInv, StandInv
      <4> QED
        BY <3>1, <4>1, Element
    <3>3. occurrences[incident.of] = Settled
      BY <2>3, <3>2 DEF CheckClose, Closable, Settled
    <3> QED
      BY <1>3, <2>3, <3>1, <3>3 DEF CheckClose, PlatformInv, IncidentInv
  <2>4. CASE Close
    BY <1>3, <2>4 DEF Close, PlatformInv, IncidentInv
  <2> QED
    BY <2>1, <2>2, <2>3, <2>4 DEF IncidentStep
<1> QED
  BY <1>2, <1>4 DEF PlatformInv

-------------------------------------------------------------------------------
(* The composition *)

LEMMA StepInv == PlatformInv /\ [Next]_vars => PlatformInv'
<1> SUFFICES ASSUME PlatformInv, [Next]_vars PROVE PlatformInv'
  OBVIOUS
<1>1. CASE ConfigStep /\ UNCHANGED <<ruleVars, incidentVars>>
  BY <1>1, ConfigInv
<1>2. CASE CycleStep /\ UNCHANGED <<configVars, incidentVars>>
  BY <1>2, ReadInv, EvaluateInv, ObserveInv DEF CycleStep
<1>3. CASE \E d \in Devices, sample \in Samples :
             FieldChanges(d, sample) /\ UNCHANGED <<configVars, incidentVars>>
  BY <1>3, FieldInv
<1>4. CASE \E k \in 1..MaxOccurrences : Acknowledge(k) /\ UNCHANGED <<configVars, incidentVars>>
  BY <1>4, AcknowledgeInv
<1>5. CASE IncidentStep
  BY <1>5, IncidentStepInv
<1>6. CASE Restart /\ closing' = FALSE /\ UNCHANGED <<configVars, incident>>
  BY <1>6, RestartInv
<1>7. CASE UNCHANGED vars
  BY <1>7 DEF vars, configVars, ruleVars, incidentVars, PlatformInv, RevisionInv, CycleInv, StateInv,
              StandInv, IncidentInv, Open, Sound, Valid
<1> QED
  BY <1>1, <1>2, <1>3, <1>4, <1>5, <1>6, <1>7 DEF Next

LEMMA Invariance == Spec => []PlatformInv
  BY InitInv, StepInv, PTL DEF Spec

\* Every state of the composition has its type.
THEOREM PlatformTypeCorrect == Spec => []TypeOK
<1>1. PlatformInv => TypeOK
  <2> SUFFICES ASSUME PlatformInv PROVE TypeOK
    OBVIOUS
  <2>1. revisions \in Seq(Contents) /\ {published, running, label} \subseteq DOMAIN revisions
        /\ rules \in Contents
    BY DEF PlatformInv, RevisionInv, Sound
  <2>2. cycle.pc \in {"rest", "label", "rules", "evaluate", "observe"}
    BY DEF PlatformInv, CycleInv
  <2> QED
    BY <2>1, <2>2 DEF TypeOK, PlatformInv, StateInv, StandInv, IncidentInv, Conditions
<1> QED
  BY Invariance, <1>1, PTL

\* The running revision and the rules in force are about the adapter's devices
\* (config_service.cpp: publishDraft and rollback, application.cpp:1871).
THEOREM RunsItsDevices == Spec => []RunningDevices
<1>1. PlatformInv => RunningDevices
  BY DEF PlatformInv, RevisionInv, Sound, Valid, RunningDevices
<1> QED
  BY Invariance, <1>1, PTL

\* A closed incident's occurrence is normal and acknowledged for ever
\* (application.cpp:594, incident_service.cpp: transition).
THEOREM ClosedStaysSettled == Spec => []ClosedIsSettled
<1>1. PlatformInv => ClosedIsSettled
  BY DEF PlatformInv, IncidentInv, ClosedIsSettled, Settled
<1> QED
  BY Invariance, <1>1, PTL

\* One open occurrence per alarm, with the rule's condition, unless the last
\* transition was lost (rule_service.cpp: evaluate, alarm_service.cpp:
\* upsertConditionLocked).
THEOREM OccurrencesStand == Spec => []OccurrenceStands
<1>1. PlatformInv => OccurrenceStands
  <2> SUFFICES ASSUME PlatformInv PROVE OccurrenceStands
    OBVIOUS
  <2>1. Cardinality(Open) <= 1
    <3>1. CASE Open = {}
      BY <3>1, FS_EmptySet
    <3>2. CASE Open # {}
      <4>1. PICK k \in Open : Open = {k}
        BY <3>2 DEF PlatformInv, StandInv
      <4> QED
        BY <4>1, FS_Singleton
    <3> QED
      BY <3>1, <3>2
  <2> QED
    BY <2>1 DEF OccurrenceStands, PlatformInv, StandInv
<1> QED
  BY Invariance, <1>1, PTL

===============================================================================
