------------------------------- MODULE Platform -------------------------------
(***************************************************************************)
(* IncidentService and the calls of ApplicationService around it, composed *)
(* with the configuration and with the rules and their alarm occurrences.  *)
(* One incident is followed, of one occurrence.  CLOSE is checked against  *)
(* the alarm store first and carried out afterwards, without a lock over   *)
(* both.                                                                   *)
(***************************************************************************)
EXTENDS RuleAlarm

VARIABLES
  incident,  \* the row of incidents: its occurrence, 0 before its creation, and status
  closing    \* a CLOSE has been checked and is to be carried out

incidentVars == <<incident, closing>>
vars == <<configVars, ruleVars, incidentVars>>

Init ==
  /\ ConfigInit /\ RuleInit
  /\ incident = [of |-> 0, status |-> "OPEN"] /\ closing = FALSE

\* The key of the occurrences is unique for ever: another call for the same
\* ones gets the incident, or fails once it is closed, and changes nothing.
CreateIncident(k) ==
  /\ k \in DOMAIN occurrences /\ incident.of = 0
  /\ incident' = [incident EXCEPT !.of = k]
  /\ UNCHANGED <<configVars, ruleVars, closing>>

\* START, RESOLVE and REOPEN; ASSIGN changes no status.
Steps ==
  {<<"OPEN", "IN_PROGRESS">>, <<"OPEN", "RESOLVED">>, <<"IN_PROGRESS", "RESOLVED">>,
   <<"RESOLVED", "IN_PROGRESS">>, <<"CLOSED", "IN_PROGRESS">>}

Transition ==
  /\ incident.of # 0
  /\ \E step \in Steps :
       incident.status = step[1] /\ incident' = [incident EXCEPT !.status = step[2]]
  /\ UNCHANGED <<configVars, ruleVars, closing>>

\* Mutant of Closable: the acknowledgement is not asked for.
ClosableIfNormal(k) == occurrences[k].condition = "NORMAL"

Closable(k) == occurrences[k].condition = "NORMAL" /\ occurrences[k].acknowledged

CheckClose ==
  /\ ~closing /\ incident.of # 0 /\ Closable(incident.of)
  /\ closing' = TRUE
  /\ UNCHANGED <<configVars, ruleVars, incident>>

\* The status is tested again; another revision than expected refuses too.
Close ==
  /\ closing /\ closing' = FALSE
  /\ \/ incident.status = "RESOLVED" /\ incident' = [incident EXCEPT !.status = "CLOSED"]
     \/ UNCHANGED incident
  /\ UNCHANGED <<configVars, ruleVars>>

IncidentStep ==
  \/ \E k \in DOMAIN occurrences : CreateIncident(k)
  \/ Transition \/ CheckClose \/ Close

Next ==
  \/ ConfigStep /\ UNCHANGED <<ruleVars, incidentVars>>
  \/ CycleStep /\ UNCHANGED <<configVars, incidentVars>>
  \/ \E d \in Devices, sample \in Samples :
       FieldChanges(d, sample) /\ UNCHANGED <<configVars, incidentVars>>
  \/ \E k \in 1..MaxOccurrences : Acknowledge(k) /\ UNCHANGED <<configVars, incidentVars>>
  \/ IncidentStep
  \/ Restart /\ closing' = FALSE /\ UNCHANGED <<configVars, incident>>

Spec == Init /\ [][Next]_vars

\* The publisher's thread is scheduled and its calls return.
FairSpec == Spec /\ WF_vars(CycleStep /\ UNCHANGED <<configVars, incidentVars>>)

-----------------------------------------------------------------------------
(* Properties                                                              *)

TypeOK ==
  /\ revisions \in Seq(Contents) /\ {published, running, label} \subseteq DOMAIN revisions
  /\ field \in [Devices -> Samples] /\ rules \in Contents
  /\ state \in [condition : {"NORMAL", "ACTIVE", "UNKNOWN"}, pending : 0..Duration]
  /\ cycle.pc \in {"rest", "label", "rules", "evaluate", "observe"}
  /\ occurrences \in Seq([condition : {"NORMAL", "ACTIVE", "UNKNOWN"}, acknowledged : BOOLEAN])
  /\ lost \in BOOLEAN
  /\ incident \in [of : 0..Len(occurrences), status : {"OPEN", "IN_PROGRESS", "RESOLVED", "CLOSED"}]
  /\ closing \in BOOLEAN

\* Whatever is published or rolled back, in any order and on any base, the
\* running revision is about the devices that the adapter was built with:
\* what its rules refer to is read.
RunningDevices ==
  /\ revisions[running].devices = Devices
  /\ rules.ruleDevice \in Devices

\* A closed incident's occurrence is normal and acknowledged, although CLOSE
\* is checked before the incident's lock is taken, and stays so.
ClosedIsSettled ==
  incident.status = "CLOSED" =>
    occurrences[incident.of] = [condition |-> "NORMAL", acknowledged |-> TRUE]

\* An alarm has one open occurrence at most, and a rule's condition is that of
\* the open occurrence, through doubt, restarts and new revisions, unless its
\* last transition was lost.
OccurrenceStands ==
  /\ Cardinality(Open) <= 1
  /\ cycle.pc # "observe" /\ state.condition # "NORMAL" /\ ~lost =>
       \E k \in Open : occurrences[k].condition = state.condition

\* The rules in force are labelled with a revision that they are not of: the
\* two calls of a cycle read on both sides of a publication.
Torn == label = running /\ rules # revisions[running]

Abnormal ==
  LET rule == revisions[running]
  IN rule.enabled /\ field[rule.ruleDevice] = "high"

\* A condition that lasts under the running rule has an open occurrence in the
\* end, unless its transition was lost or the rules in force are torn (or the
\* bound on occurrences is met).
ConditionRaised ==
  <>[]Abnormal => <>[](Open # {} \/ lost \/ Torn \/ Len(occurrences) = MaxOccurrences)

=============================================================================
