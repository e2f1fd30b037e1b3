------------------------------ MODULE CommandView ------------------------------
(****************************************************************************)
(* One command as the HMI that issues it shows it (stores/site.ts and       *)
(* applyCommandEvent of packages/domain): the answer to the POST, or to the *)
(* query that follows a POST without one, puts the command into the view;   *)
(* its command.status events pass through the queue of the backend's        *)
(* session for this client and come over the connection of RealtimeClient,  *)
(* to be applied when they follow from what is shown.  The backend keeps no *)
(* event for a client that is not connected, and never sends the            *)
(* dashboard.snapshot that the HMI would take.                              *)
(*                                                                          *)
(* Data source BACKEND and the /v2 calls: the sweep that makes commands     *)
(* EXPIRED or TIMEOUT leaves the backend's commands alone.  A transition    *)
(* and its event are one step: an answer that reads the command between     *)
(* them makes the event a duplicate.  What seq tells, revision tells.       *)
(* Later reloads of the command or of the dashboard are left out.  What     *)
(* else is in a session's queue is abstracted: telemetry and heartbeats     *)
(* give way to an event, other events may fill the queue at any time.       *)
(****************************************************************************)
EXTENDS RealtimeClient

VARIABLES
  log,       \* the command's states in the backend; the n-th is its revision n
  session,   \* the WebSocketSession behind the current socket, as the hub has it
  inflight,  \* revisions whose events are in its queue or on their way
  call,      \* the call of the page that waits for its answer
  answer,    \* the revision the answer carries; 0 while there is none
  view,      \* the state and revision shown
  missed     \* history: an event that the view needed can not come any more

viewVars == <<log, session, inflight, call, answer, view, missed>>
hmiVars == <<vars, viewVars>>

Hidden == [state |-> "NONE", revision |-> 0]
Shown == view # Hidden

HmiInit ==
  /\ Init
  /\ log = <<>> /\ session = "none" /\ inflight = <<>>
  /\ call = "none" /\ answer = 0
  /\ view = Hidden
  /\ missed = FALSE

-------------------------------------------------------------------------------
(* The table of the HMI, and what it does with an event *)

Unmet == {"REJECTED", "FAILED", "EXPIRED", "OUTCOME_UNKNOWN"}  \* terminal, but CONFIRMED

Allowed(st) ==
  CASE st = "ISSUED"    -> {"RECEIVED", "ACCEPTED"} \cup Unmet
    [] st = "RECEIVED"  -> {"ACCEPTED"} \cup Unmet
    [] st = "ACCEPTED"  -> {"EXECUTING", "APPLIED", "FAILED", "EXPIRED", "OUTCOME_UNKNOWN"}
    [] st = "EXECUTING" -> {"APPLIED", "FAILED", "EXPIRED", "OUTCOME_UNKNOWN"}
    [] st = "APPLIED"   -> {"CONFIRMED", "FAILED", "EXPIRED", "OUTCOME_UNKNOWN"}
    [] OTHER -> {}

\* A newer event of the state that is shown only renews the revision, of a
\* terminal state too.
applyCommandEvent(event) ==
  IF /\ event.revision > view.revision
     /\ event.state = view.state \/ event.state \in Allowed(view.state)
    THEN event
    ELSE view

-------------------------------------------------------------------------------
(* The backend *)

Later(st) ==
  CASE st = "ISSUED"    -> {"RECEIVED", "REJECTED"}
    [] st = "RECEIVED"  -> {"EXPIRED", "REJECTED", "ACCEPTED"}
    [] st = "ACCEPTED"  -> {"EXECUTING"}
    [] st = "EXECUTING" -> {"FAILED", "OUTCOME_UNKNOWN", "APPLIED"}
    [] st = "APPLIED"   -> {"CONFIRMED", "FAILED", "OUTCOME_UNKNOWN"}
    [] OTHER -> {}

\* The POST arrives, perhaps when the page has given it up.
Admit ==
  /\ log = <<>>
  /\ call # "none" \/ Shown
  /\ log' = <<"ISSUED">>
  /\ UNCHANGED <<vars, session, inflight, call, answer, view, missed>>

\* Mutant of Enqueue: an event that finds the queue full is dropped like
\* telemetry is.
EnqueueOrDrop(n) ==
  /\ UNCHANGED session
  /\ \/ session = "open" /\ inflight' = Append(inflight, n)
     \/ UNCHANGED inflight

\* enqueue, for every session that broadcast finds open: an event is never
\* dropped alone; when the queue is full of events the session is closed.
Enqueue(n) ==
  \/ session = "open" /\ inflight' = Append(inflight, n) /\ UNCHANGED session
  \/ session = "open" /\ session' = "closed" /\ UNCHANGED inflight
  \/ session # "open" /\ UNCHANGED <<session, inflight>>

\* transition emits an event once the command is changed and persisted.
Transition ==
  /\ log # <<>>
  /\ \E st \in Later(log[Len(log)]) : log' = Append(log, st)
  /\ Enqueue(Len(log'))
  /\ missed' = (missed \/ (Shown /\ session' # "open"))
  /\ UNCHANGED <<vars, call, answer, view>>

\* tryAdd, before the handshake is answered: events reach the session from then
\* on.
Register ==
  /\ socket # None /\ link[socket] = "connecting" /\ session = "none"
  /\ session' = "open"
  /\ UNCHANGED <<vars, log, inflight, call, answer, view, missed>>

\* A write fails, another event finds the queue full, or the server stops: the
\* hub skips the session; the writer may still send what is queued.
SessionEnds ==
  /\ session = "open" /\ session' = "closed"
  /\ UNCHANGED <<vars, log, inflight, call, answer, view, missed>>

\* The body of an answer is the command at that moment.
Answer ==
  /\ call # "none" /\ answer = 0 /\ log # <<>>
  /\ answer' = Len(log)
  /\ UNCHANGED <<vars, log, session, inflight, call, view, missed>>

-------------------------------------------------------------------------------
(* The page *)

issuePreviewedCommandV2 ==
  /\ monitored /\ log = <<>> /\ call = "none" /\ ~Shown
  /\ call' = "post"
  /\ UNCHANGED <<vars, log, session, inflight, answer, view, missed>>

\* The events after the answer's revision that are not on their way.
Upsert ==
  /\ answer # 0
  /\ view' = [state |-> log[answer], revision |-> answer]
  /\ missed' = \E n \in answer + 1..Len(log) : \A i \in 1..Len(inflight) : inflight[i] # n
  /\ call' = "none" /\ answer' = 0
  /\ UNCHANGED <<vars, log, session, inflight>>

\* The call fails or its answer is lost.  After a POST the command is queried
\* once; if that fails too, its outcome is shown as unknown.
Fail ==
  /\ call # "none" /\ answer' = 0
  /\ \/ call = "post" /\ call' = "query" /\ UNCHANGED <<view, missed>>
     \/ /\ call = "query" /\ call' = "none"
        /\ view' = [state |-> "OUTCOME_UNKNOWN", revision |-> 1]
        /\ missed' = TRUE
  /\ UNCHANGED <<vars, log, session, inflight>>

\* emitCommandEvent: what an event tells of the n-th transition.
Event(n) == [state |-> log[n], revision |-> n]

\* Events of a command that is not shown are ignored.
applyCommandStatus ==
  /\ inflight # <<>>
  /\ link[socket] = "open"
  /\ inflight' = Tail(inflight)
  /\ view' = IF Shown THEN applyCommandEvent(Event(Head(inflight))) ELSE view
  /\ UNCHANGED <<vars, log, session, call, answer, missed>>

\* The client keeps its connection.
Kept == socket' = socket /\ socket # None /\ link'[socket] \in Alive

\* The session's life: run accepts the handshake once it is registered, and ends
\* with the connection.
SessionStep ==
  session' = IF ~Kept THEN "none"
             ELSE IF link'[socket] = "open" /\ session = "none" THEN "open" ELSE session

\* What the client does; with its connection go the events that were on it.
ClientStep ==
  /\ Next
  /\ SessionStep
  /\ IF Kept
       THEN UNCHANGED <<inflight, missed>>
       ELSE /\ inflight' = <<>>
            /\ missed' = \/ missed
                         \/ Shown /\ \E i \in 1..Len(inflight) : inflight[i] > view.revision
  /\ UNCHANGED <<log, call, answer, view>>

HmiNext ==
  \/ ClientStep
  \/ Admit \/ Transition \/ Answer \/ Register \/ SessionEnds
  \/ issuePreviewedCommandV2 \/ Upsert \/ Fail \/ applyCommandStatus

HmiSpec == HmiInit /\ [][HmiNext]_hmiVars

FairHmi == HmiSpec /\ Fairness

-------------------------------------------------------------------------------
(* Properties *)

\* The HMI's table lets every command follow the backend, whose sessions are
\* closed rather than an event dropped: as long as no event meets a closed
\* session, goes with a connection, comes before the answer or meets a locally
\* unknown outcome, the state shown is the backend's at its revision, and every
\* later one is on its way (site.ts:265, http_server.cpp:290).
ViewFollows ==
  Shown /\ ~missed =>
    /\ view.state = log[view.revision]
    /\ \A n \in view.revision + 1..Len(log) : \E i \in 1..Len(inflight) : inflight[i] = n
===============================================================================
