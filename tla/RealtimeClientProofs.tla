-------------------------- MODULE RealtimeClientProofs --------------------------
(***************************************************************************)
(* Typing and safety of RealtimeClient for any sockets, delays and network *)
(* events under way; that CommandView only adds to it; and that the view   *)
(* of a command follows the backend.                                       *)
(***************************************************************************)
EXTENDS CommandView, TLAPS

TimerNames == {"reconnect", "stable", "silence"}
States == {"IDLE", "CONNECTING", "CONNECTED", "RECONNECTING",
           "WAITING_NETWORK", "DISCONNECTED", "ERROR"}
Links == Alive \cup {"closing", "closed"}

\* The current socket has not closed yet.
CurrentInv == socket # None => link[socket] # "closed"

\* The last network event that waits tells what navigator.onLine has become.
EventInv == events # <<>> => (events[Len(events)] <=> online)

\* Only a client between connect and disconnect does anything.
IdleInv ==
  /\ manualStop => ~monitored
  /\ ~monitored => state \in {"IDLE", "DISCONNECTED"} /\ socket = None /\ timers = {}

\* A client is shown as CONNECTED with a socket that it watches or closes, or
\* without one while it will retry.
GreenInv ==
  state = "CONNECTED" =>
    \/ socket = None /\ "reconnect" \in timers
    \/ socket # None /\ ("silence" \in timers \/ link[socket] = "closing")

ClientInv ==
  TypeOK /\ OneConnection /\ CurrentInv /\ EventInv /\ IdleInv /\ GreenInv /\ NeverStranded

\* The first element of a queue, and the others.
LEMMA HeadTail ==
  ASSUME NEW S, NEW q \in Seq(S), q # <<>>
  PROVE  /\ Head(q) \in S /\ Tail(q) \in Seq(S) /\ q[1] = Head(q)
         /\ Len(q) \in Nat \ {0} /\ Len(Tail(q)) = Len(q) - 1
         /\ \A i \in 1..Len(Tail(q)) : Tail(q)[i] = q[i + 1]
  OBVIOUS

LEMMA InitClient == Init => ClientInv
<1> SUFFICES ASSUME Init PROVE ClientInv
  OBVIOUS
<1>0. <<>> \in Seq(BOOLEAN) /\ Len(<<>>) = 0
  OBVIOUS
<1>1. TypeOK
  <2>1. 0 \in 0..DelayCap /\ 0 <= MaxEvents
    BY RealtimeClientAssumption
  <2>2. link \in [Sockets -> Alive \cup {"closing", "closed"}]
    BY DEF Init
  <2> QED
    BY <1>0, <2>1, <2>2 DEF Init, TypeOK
<1> QED
  BY <1>1 DEF Init, ClientInv, OneConnection, CurrentInv, EventInv, IdleInv, GreenInv,
              NeverStranded, Meant, Alive

-------------------------------------------------------------------------------
(* What the handlers have in common *)

\* The client's part of the invariant's typing.
Typed ==
  /\ state \in States /\ socket \in Sockets \cup {None}
  /\ timers \subseteq TimerNames /\ attempt \in 0..DelayCap
  /\ link \in [Sockets -> Links]

\* A socket that opens or closes: at most the current one is alive.
Single(cur, links) ==
  /\ \A s \in Sockets : links[s] \in Alive => s = cur
  /\ cur # None => links[cur] # "closed"

\* What openSocket leaves: a socket, a retry, or the reason for neither.
LEMMA Opened ==
  ASSUME NEW opening \in {"CONNECTING", "RECONNECTING"}, NEW cur \in Sockets \cup {None},
         NEW ts \in SUBSET TimerNames, NEW tries \in 0..DelayCap,
         NEW links \in [Sockets -> Links],
         state \in States, Single(cur, links),
         OpenSocket(opening, cur, ts, tries, links)
  PROVE  /\ Typed' /\ Single(socket', link')
         /\ \/ cur # None /\ state' = state /\ socket' = cur /\ timers' = ts /\ link' = links
            \/ cur = None /\ state = "CONNECTING" /\ state' = state /\ socket' = None
            \/ cur = None /\ ~online /\ state' = "WAITING_NETWORK" /\ socket' = None
            \/ state' = opening /\ socket' \in Sockets
            \/ /\ socket' = None /\ state' \in {opening, "RECONNECTING"}
               /\ manualStop' \/ "reconnect" \in timers'
<1> USE RealtimeClientAssumption DEF Single, Typed
<1>1. CASE cur # None \/ state = "CONNECTING" \/ ~online
  BY <1>1 DEF OpenSocket, States
<1>2. CASE cur = None /\ state # "CONNECTING" /\ online /\ urlValid
  <2>1. PICK s \in Sockets : /\ links[s] = "closed" /\ socket' = s
                             /\ link' = [links EXCEPT ![s] = "connecting"]
                             /\ state' = opening /\ timers' = ts /\ attempt' = tries
    BY <1>2 DEF OpenSocket
  <2>2. link' \in [Sockets -> Links] /\ link'[s] = "connecting"
        /\ \A t \in Sockets \ {s} : link'[t] = links[t]
    BY <2>1 DEF Links, Alive
  <2> QED
    BY <1>2, <2>1, <2>2 DEF States
<1>3. CASE cur = None /\ state # "CONNECTING" /\ online /\ ~urlValid
  <2>1. socket' = None /\ link' = links /\ ScheduleReconnect(opening, ts, tries)
    BY <1>3 DEF OpenSocket
  <2>2. attempt' \in 0..DelayCap
    <3>1. attempt' = tries \/ (attempt' = tries + 1 /\ tries < DelayCap)
      BY <2>1 DEF ScheduleReconnect
    <3> QED
      BY <3>1
  <2>3. /\ state' \in {opening, "RECONNECTING"} /\ timers' \in SUBSET TimerNames
        /\ manualStop' \/ "reconnect" \in timers'
    BY <1>3, <2>1 DEF ScheduleReconnect, TimerNames
  <2> QED
    BY <1>3, <2>1, <2>2, <2>3 DEF States
<1> QED
  BY <1>1, <1>2, <1>3 DEF OpenSocket

\* Closing tells the current socket to close: none is alive any more.
LEMMA ClosingIs ==
  ASSUME Typed, OneConnection, CurrentInv
  PROVE  /\ Closing \in [Sockets -> Links] /\ Single(None, Closing)
         /\ socket # None => Closing[socket] = "closing"
BY RealtimeClientAssumption DEF Typed, OneConnection, CurrentInv, Closing, Single, Links, Alive

\* The invariant without what only a network step can disturb.
LEMMA Assemble ==
  ASSUME ClientInv, Typed', Single(socket', link'), manualStop' \in BOOLEAN, monitored' \in BOOLEAN,
         IdleInv', GreenInv', NeverStranded', UNCHANGED <<urlValid, online, events>>
  PROVE  ClientInv'
<1>1. TypeOK'
  BY DEF ClientInv, TypeOK, Typed, States, TimerNames, Links
<1>2. OneConnection' /\ CurrentInv' /\ EventInv'
  BY DEF ClientInv, OneConnection, CurrentInv, EventInv, Single
<1> QED
  BY <1>1, <1>2 DEF ClientInv

LEMMA ClientTypes ==
  ASSUME ClientInv
  PROVE  /\ Typed /\ Single(socket, link)
         /\ manualStop \in BOOLEAN /\ monitored \in BOOLEAN /\ urlValid \in BOOLEAN
         /\ online \in BOOLEAN /\ events \in Seq(BOOLEAN) /\ Len(events) <= MaxEvents
BY DEF ClientInv, TypeOK, OneConnection, CurrentInv, Typed, Single, States, TimerNames, Links

-------------------------------------------------------------------------------
(* The calls of the page *)

LEMMA ConnectInv ==
  ASSUME ClientInv, ~monitored, connect
  PROVE  ClientInv'
<1>0. /\ Typed /\ Single(socket, link) /\ socket = None /\ state \in {"IDLE", "DISCONNECTED"}
      /\ manualStop' = FALSE /\ monitored' = TRUE /\ UNCHANGED <<urlValid, online, events>>
  BY ClientTypes DEF ClientInv, IdleInv, connect
<1> USE <1>0 DEF IdleInv, GreenInv, NeverStranded, Meant, Interrupted
<1>1. CASE online /\ OpenSocket("CONNECTING", socket, timers \ {"reconnect"}, attempt, link)
  <2>1. /\ Typed' /\ Single(socket', link')
        /\ \/ state' = "CONNECTING" /\ socket' \in Sockets
           \/ socket' = None /\ state' \in {"CONNECTING", "RECONNECTING"} /\ "reconnect" \in timers'
    BY <1>1, Opened DEF Typed
  <2> QED
    BY <2>1, Assemble, RealtimeClientAssumption
<1>2. CASE /\ ~online /\ state' = "WAITING_NETWORK" /\ timers' = timers \ {"reconnect"}
           /\ UNCHANGED <<socket, attempt, link>>
  <2>1. Typed' /\ Single(socket', link')
    BY <1>2 DEF Typed, Single, States
  <2> QED
    BY <1>2, <2>1, Assemble
<1> QED
  BY <1>1, <1>2 DEF connect

LEMMA ReconnectNowInv ==
  ASSUME ClientInv, monitored, reconnectNow
  PROVE  ClientInv'
<1>0. /\ Typed /\ Single(None, Closing) /\ Closing \in [Sockets -> Links]
      /\ ~manualStop /\ manualStop' = manualStop /\ monitored' = monitored
      /\ manualStop \in BOOLEAN /\ monitored \in BOOLEAN /\ UNCHANGED <<urlValid, online, events>>
  BY ClientTypes, ClosingIs DEF ClientInv, reconnectNow
<1> USE <1>0 DEF IdleInv, GreenInv, NeverStranded, Meant, Interrupted
<1>1. CASE online /\ OpenSocket("RECONNECTING", None, {}, 0, Closing)
  <2>1. 0 \in 0..DelayCap
    BY RealtimeClientAssumption
  <2>2. /\ Typed' /\ Single(socket', link')
        /\ \/ state' = "CONNECTING" /\ socket' = None
           \/ state' = "RECONNECTING" /\ socket' \in Sockets
           \/ socket' = None /\ state' = "RECONNECTING" /\ "reconnect" \in timers'
    BY <1>1, <2>1, Opened DEF Typed
  <2> QED
    BY <2>2, Assemble, RealtimeClientAssumption
<1>2. CASE /\ ~online /\ state' = "WAITING_NETWORK" /\ socket' = None /\ timers' = {}
           /\ attempt' = 0 /\ link' = Closing
  <2>1. Typed' /\ Single(socket', link')
    BY <1>2, RealtimeClientAssumption DEF Typed, States
  <2> QED
    BY <1>2, <2>1, Assemble
<1> QED
  BY <1>1, <1>2 DEF reconnectNow

LEMMA DisconnectInv ==
  ASSUME ClientInv, disconnect
  PROVE  ClientInv'
<1>1. Typed /\ Single(None, Closing) /\ Closing \in [Sockets -> Links]
  BY ClientTypes, ClosingIs DEF ClientInv
<1>2. Typed' /\ Single(socket', link')
  BY <1>1 DEF disconnect, Typed, States
<1> QED
  BY <1>2, Assemble DEF disconnect, IdleInv, GreenInv, NeverStranded, Meant

-------------------------------------------------------------------------------
(* Timers *)

\* A timer that is set belongs to a client that is meant to run.
LEMMA TimerSet ==
  ASSUME ClientInv, timers # {}
  PROVE  monitored /\ ~manualStop
BY DEF ClientInv, IdleInv

LEMMA RetryInv ==
  ASSUME ClientInv, Retry
  PROVE  ClientInv'
<1>0. /\ Typed /\ Single(socket, link) /\ monitored /\ ~manualStop /\ GreenInv
      /\ manualStop' = manualStop /\ monitored' = monitored
      /\ manualStop \in BOOLEAN /\ monitored \in BOOLEAN /\ UNCHANGED <<urlValid, online, events>>
  BY ClientTypes, TimerSet DEF ClientInv, Retry
<1>1. /\ Typed' /\ Single(socket', link')
      /\ \/ /\ socket # None /\ state' = state /\ socket' = socket
            /\ timers' = timers \ {"reconnect"} /\ link' = link
         \/ state' = "CONNECTING" /\ socket' = None
         \/ ~online /\ state' = "WAITING_NETWORK" /\ socket' = None
         \/ state' = "RECONNECTING" /\ socket' \in Sockets
         \/ socket' = None /\ state' = "RECONNECTING" /\ "reconnect" \in timers'
  BY <1>0, Opened DEF Typed, Retry
<1>2. IdleInv' /\ GreenInv'
  BY <1>0, <1>1, RealtimeClientAssumption DEF IdleInv, GreenInv
<1>3. NeverStranded'
  BY <1>0, <1>1, RealtimeClientAssumption DEF NeverStranded, Interrupted
<1> QED
  BY <1>0, <1>1, <1>2, <1>3, Assemble, ClientTypes

LEMMA StableResetInv ==
  ASSUME ClientInv, StableReset
  PROVE  ClientInv'
<1>1. Typed /\ Single(socket, link) /\ Typed' /\ Single(socket', link')
  BY ClientTypes, RealtimeClientAssumption DEF StableReset, Typed, Single
<1>2. IdleInv' /\ GreenInv' /\ NeverStranded'
  BY DEF StableReset, ClientInv, IdleInv, GreenInv, NeverStranded, Meant, Interrupted
<1> QED
  BY <1>1, <1>2, Assemble, ClientTypes DEF StableReset

LEMMA SilenceTimeoutInv ==
  ASSUME ClientInv, SilenceTimeout
  PROVE  ClientInv'
<1>1. Typed /\ Single(socket, link) /\ monitored /\ ~manualStop /\ Single(None, Closing)
      /\ Closing \in [Sockets -> Links] /\ (socket # None => Closing[socket] = "closing")
  BY ClientTypes, TimerSet, ClosingIs DEF ClientInv, SilenceTimeout
<1>2. Typed' /\ Single(socket', link')
  BY <1>1, RealtimeClientAssumption DEF SilenceTimeout, Typed, Single
<1>3. IdleInv' /\ GreenInv' /\ NeverStranded'
  BY <1>1 DEF SilenceTimeout, ClientInv, IdleInv, GreenInv, NeverStranded, Meant, Interrupted
<1> QED
  BY <1>2, <1>3, Assemble, ClientTypes DEF SilenceTimeout

-------------------------------------------------------------------------------
(* Events of a socket, and of the network *)

LEMMA OnOpenInv ==
  ASSUME ClientInv, NEW s \in Sockets, onopen(s)
  PROVE  ClientInv'
<1>1. Typed /\ Single(socket, link) /\ monitored /\ ~manualStop
  BY ClientTypes, RealtimeClientAssumption DEF ClientInv, IdleInv, onopen
<1>2. Typed' /\ Single(socket', link')
  BY <1>1 DEF onopen, Typed, Single, States, TimerNames, Links, Alive
<1>3. IdleInv' /\ GreenInv' /\ NeverStranded'
  BY <1>1, RealtimeClientAssumption DEF onopen, IdleInv, GreenInv, NeverStranded
<1> QED
  BY <1>2, <1>3, Assemble, ClientTypes DEF onopen

LEMMA OnCloseInv ==
  ASSUME ClientInv, NEW s \in Sockets, onclose(s)
  PROVE  ClientInv'
<1>0. /\ Typed /\ Single(socket, link) /\ IdleInv /\ GreenInv /\ NeverStranded
      /\ link' \in [Sockets -> Links] /\ link'[s] = "closed"
      /\ \A t \in Sockets \ {s} : link'[t] = link[t]
      /\ UNCHANGED <<manualStop, monitored, urlValid, online, events>>
  BY ClientTypes DEF ClientInv, onclose, Typed, Links
<1>1. CASE s # socket /\ UNCHANGED <<state, socket, timers, attempt>>
  <2>1. Typed' /\ Single(socket', link')
    BY <1>0, <1>1 DEF Typed, Single, Alive
  <2>2. IdleInv' /\ GreenInv' /\ NeverStranded'
    BY <1>0, <1>1 DEF IdleInv, GreenInv, NeverStranded, Meant, Interrupted, Typed
  <2> QED
    BY <1>0, <2>1, <2>2, Assemble, ClientTypes
<1>2. CASE s = socket /\ \E st \in {state, "ERROR"} : Lost(st)
  <2>1. PICK st \in {state, "ERROR"} : Lost(st)
    BY <1>2
  <2>2. monitored /\ ~manualStop
    BY <1>0, <1>2, RealtimeClientAssumption DEF IdleInv
  <2>3. attempt' \in 0..DelayCap
    <3>1. attempt' = attempt \/ (attempt' = attempt + 1 /\ attempt < DelayCap)
      BY <2>1 DEF Lost, ScheduleReconnect
    <3> QED
      BY <1>0, <3>1, RealtimeClientAssumption DEF Typed
  <2>4. /\ timers' \in SUBSET TimerNames /\ socket' = None
        /\ \/ ~online /\ state' = "WAITING_NETWORK"
           \/ "reconnect" \in timers' /\ state' \in {st, "RECONNECTING"}
    BY <1>0, <2>1, <2>2 DEF Lost, ScheduleReconnect, Typed, TimerNames
  <2>5. /\ Typed' /\ socket' = None
        /\ \/ ~online /\ state' = "WAITING_NETWORK"
           \/ "reconnect" \in timers'
    BY <1>0, <2>3, <2>4 DEF Typed, States
  <2>6. Single(socket', link')
    BY <1>0, <1>2, <2>5 DEF Single, Alive
  <2>7. IdleInv' /\ GreenInv' /\ NeverStranded'
    BY <1>0, <2>2, <2>5 DEF IdleInv, GreenInv, NeverStranded
  <2> QED
    BY <1>0, <2>5, <2>6, <2>7, Assemble, ClientTypes
<1> QED
  BY <1>1, <1>2 DEF onclose

LEMMA FlipInv ==
  ASSUME ClientInv, Flip
  PROVE  ClientInv'
<1>1. /\ events \in Seq(BOOLEAN) /\ Len(events) < MaxEvents /\ MaxEvents \in Nat
      /\ online \in BOOLEAN /\ online' = ~online /\ events' = Append(events, online')
  BY ClientTypes, RealtimeClientAssumption DEF Flip
<1>2. /\ events' \in Seq(BOOLEAN) /\ Len(events') <= MaxEvents
      /\ Len(events') \in 1..Len(events') /\ events'[Len(events')] = online'
  BY <1>1
<1>3. TypeOK'
  BY <1>1, <1>2 DEF Flip, clientVars, ClientInv, TypeOK
<1>4. OneConnection' /\ CurrentInv' /\ IdleInv' /\ GreenInv'
  BY DEF Flip, clientVars, ClientInv, OneConnection, CurrentInv, IdleInv, GreenInv
<1>5. EventInv' /\ NeverStranded'
  BY <1>1, <1>2 DEF EventInv, NeverStranded
<1> QED
  BY <1>3, <1>4, <1>5 DEF ClientInv

LEMMA NetworkEventInv ==
  ASSUME ClientInv, NetworkEvent
  PROVE  ClientInv'
<1>0. /\ Typed /\ Single(socket, link) /\ EventInv /\ IdleInv /\ GreenInv /\ NeverStranded
      /\ Single(None, Closing) /\ Closing \in [Sockets -> Links]
      /\ events \in Seq(BOOLEAN) /\ events # <<>> /\ events' = Tail(events)
      /\ Len(events) <= MaxEvents /\ MaxEvents \in Nat
      /\ manualStop \in BOOLEAN /\ monitored \in BOOLEAN /\ urlValid \in BOOLEAN /\ online \in BOOLEAN
      /\ UNCHANGED <<manualStop, monitored, urlValid, online>>
  BY ClientTypes, ClosingIs, RealtimeClientAssumption DEF ClientInv, NetworkEvent
<1>1. /\ events' \in Seq(BOOLEAN) /\ Len(events') <= MaxEvents
      /\ Head(events) = events[1] /\ Len(events) \in Nat \ {0} /\ Len(events') = Len(events) - 1
      /\ \A i \in 1..Len(events') : events'[i] = events[i + 1]
  BY <1>0, HeadTail
<1>2. EventInv'
  BY <1>0, <1>1 DEF EventInv
<1>3. \* A client that is online and hears that it is not will hear the contrary.
      ~Head(events) /\ online => \E i \in 1..Len(events') : events'[i]
  <2>1. CASE Len(events) = 1
    <3>1. Head(events) = events[Len(events)]
      BY <1>1, <2>1
    <3> QED
      BY <1>0, <3>1 DEF EventInv
  <2>2. CASE Len(events) # 1
    <3>1. Len(events') \in 1..Len(events') /\ events' # <<>>
      BY <1>1, <2>2
    <3> QED
      BY <1>0, <1>2, <3>1 DEF EventInv
  <2> QED
    BY <2>1, <2>2
<1>4. /\ Typed' /\ Single(socket', link')
      /\ \/ /\ UNCHANGED <<state, socket, timers, attempt, link>>
            /\ ~monitored \/ manualStop \/ socket # None
         \/ /\ monitored /\ ~manualStop /\ ~Head(events)
            /\ state' = "WAITING_NETWORK" /\ socket' = None
         \/ /\ monitored /\ ~manualStop
            /\ \/ state' = "CONNECTING" /\ socket' = None
               \/ ~online /\ state' = "WAITING_NETWORK" /\ socket' = None
               \/ state' = "RECONNECTING" /\ socket' \in Sockets
               \/ socket' = None /\ state' = "RECONNECTING" /\ "reconnect" \in timers'
  <2>1. CASE UNCHANGED <<state, socket, timers, attempt, link>> /\ (~monitored \/ manualStop \/ socket # None)
    BY <1>0, <2>1 DEF Typed, Single
  <2>2. CASE /\ monitored /\ ~Head(events)
             /\ timers' = {} /\ socket' = None /\ link' = Closing
             /\ state' = IF manualStop THEN state ELSE "WAITING_NETWORK"
             /\ UNCHANGED attempt
    BY <1>0, <2>2 DEF Typed, States, IdleInv
  <2>3. CASE /\ monitored /\ ~manualStop /\ socket = None
             /\ OpenSocket("RECONNECTING", None, timers, attempt, link)
    BY <1>0, <2>3, Opened DEF Typed
  <2> QED
    BY <1>0, <2>1, <2>2, <2>3 DEF NetworkEvent
<1>5. IdleInv' /\ GreenInv'
  BY <1>0, <1>4, RealtimeClientAssumption DEF IdleInv, GreenInv
<1>6. NeverStranded'
  BY <1>0, <1>3, <1>4, RealtimeClientAssumption DEF NeverStranded, Meant, Interrupted, IdleInv
<1>7. TypeOK'
  BY <1>0, <1>1, <1>4 DEF TypeOK, Typed, States, TimerNames, Links
<1>8. OneConnection' /\ CurrentInv'
  BY <1>4 DEF OneConnection, CurrentInv, Single
<1> QED
  BY <1>2, <1>5, <1>6, <1>7, <1>8 DEF ClientInv

-------------------------------------------------------------------------------
LEMMA StutterClient == ClientInv /\ UNCHANGED vars => ClientInv'
BY DEF vars, clientVars, ClientInv, TypeOK, OneConnection, CurrentInv, EventInv, IdleInv,
       GreenInv, NeverStranded, Meant, Interrupted

LEMMA ClientStepInv ==
  ASSUME ClientInv, [Next]_vars
  PROVE  ClientInv'
BY StutterClient, ConnectInv, ReconnectNowInv, DisconnectInv, RetryInv, StableResetInv,
   SilenceTimeoutInv, OnOpenInv, OnCloseInv, FlipInv, NetworkEventInv
DEF Next, Timer, SocketEvent

LEMMA ClientInvariance == Spec => []ClientInv
<1>1. ClientInv /\ [Next]_vars => ClientInv'
  BY ClientStepInv
<1> QED
  BY InitClient, <1>1, PTL DEF Spec

\* The client's state is well formed at every step.
THEOREM ClientTypeCorrect == Spec => []TypeOK
<1>1. ClientInv => TypeOK
  BY DEF ClientInv
<1> QED
  BY <1>1, ClientInvariance, PTL

\* No order of late close events, timers, calls and network events leaves two
\* connections that are not being closed.
THEOREM OneConnectionOnly == Spec => []OneConnection
<1>1. ClientInv => OneConnection
  BY DEF ClientInv
<1> QED
  BY <1>1, ClientInvariance, PTL

\* A client that is meant to run always has something to wait for, except after
\* reconnectNow while CONNECTING.
THEOREM NothingStrands == Spec => []NeverStranded
<1>1. ClientInv => NeverStranded
  BY DEF ClientInv
<1> QED
  BY <1>1, ClientInvariance, PTL

\* A client that is shown as CONNECTED watches its link, closes it or will retry.
THEOREM GreenWatched == Spec => []GreenIsWatched
<1>1. ClientInv => GreenIsWatched
  BY DEF ClientInv, GreenInv, GreenIsWatched
<1> QED
  BY <1>1, ClientInvariance, PTL

-------------------------------------------------------------------------------
(* The view of a command *)

Stages == {"ISSUED", "RECEIVED", "ACCEPTED", "EXECUTING", "APPLIED", "CONFIRMED"} \cup Unmet

\* Every command runs through the backend's table.
LogInv == \A i \in 1..Len(log) - 1 : log[i + 1] \in Later(log[i])

\* The events on their way are those of past transitions, in order.
QueueInv ==
  /\ \A i \in 1..Len(inflight) : inflight[i] \in 1..Len(log)
  /\ \A i, j \in 1..Len(inflight) : i < j => inflight[i] < inflight[j]

\* A view that has missed nothing shows a revision of the backend.
ShownInv == Shown /\ ~missed => view.revision \in 1..Len(log)

ViewInv ==
  /\ log \in Seq(Stages) /\ inflight \in Seq(Nat) /\ answer \in 0..Len(log)
  /\ LogInv /\ QueueInv /\ ShownInv /\ ViewFollows

\* The backend's table is part of the HMI's.
LEMMA LaterAllowed == ASSUME NEW st PROVE Later(st) \subseteq Allowed(st)
BY DEF Later, Allowed, Unmet

LEMMA LaterStages == ASSUME NEW st PROVE Later(st) \subseteq Stages
BY DEF Later, Stages, Unmet

LEMMA InitView == HmiInit => ViewInv
<1> SUFFICES ASSUME HmiInit PROVE ViewInv
  OBVIOUS
<1>1. /\ log = <<>> /\ inflight = <<>> /\ answer = 0 /\ ~Shown
      /\ log \in Seq(Stages) /\ inflight \in Seq(Nat) /\ Len(log) = 0 /\ Len(inflight) = 0
  BY DEF HmiInit, Shown
<1> QED
  BY <1>1 DEF ViewInv, LogInv, QueueInv, ShownInv, ViewFollows

LEMMA ViewTypes ==
  ASSUME ViewInv
  PROVE  /\ log \in Seq(Stages) /\ inflight \in Seq(Nat) /\ answer \in Nat
         /\ Len(log) \in Nat /\ Len(inflight) \in Nat
BY DEF ViewInv

\* What changes neither the log, the queue nor the view.
LEMMA BesideView ==
  ASSUME ViewInv, UNCHANGED <<log, inflight, view, missed>>, answer' \in 0..Len(log)
  PROVE  ViewInv'
BY DEF ViewInv, LogInv, QueueInv, ShownInv, ViewFollows, Shown

LEMMA AdmitView ==
  ASSUME ViewInv, Admit
  PROVE  ViewInv'
<1>1. /\ log = <<>> /\ log' = <<"ISSUED">> /\ UNCHANGED <<inflight, answer, view, missed>>
      /\ Len(log) = 0 /\ Len(log') = 1 /\ log' \in Seq(Stages)
  <2>1. "ISSUED" \in Stages
    BY DEF Stages
  <2> QED
    BY <2>1 DEF Admit
<1>2. inflight \in Seq(Nat) /\ answer = 0 /\ Len(inflight) = 0
  BY <1>1, ViewTypes DEF ViewInv, QueueInv
<1>3. ~(Shown /\ ~missed) /\ Shown' = Shown
  BY <1>1 DEF ViewInv, ShownInv, Shown
<1> QED
  BY <1>1, <1>2, <1>3 DEF ViewInv, LogInv, QueueInv, ShownInv, ViewFollows, Shown

\* A transition's event is queued, or something is missed.
LEMMA TransitionView ==
  ASSUME ViewInv, Transition
  PROVE  ViewInv'
<1>0. /\ log \in Seq(Stages) /\ inflight \in Seq(Nat) /\ Len(log) \in Nat \ {0} /\ Len(inflight) \in Nat
      /\ UNCHANGED <<answer, view>>
  BY ViewTypes DEF Transition
<1>1. PICK st \in Later(log[Len(log)]) : log' = Append(log, st)
  BY DEF Transition
<1>2. /\ log' \in Seq(Stages) /\ Len(log') = Len(log) + 1 /\ log'[Len(log')] = st
      /\ \A i \in 1..Len(log) : log'[i] = log[i]
  BY <1>0, <1>1, LaterStages
<1>3. \/ inflight' = Append(inflight, Len(log')) /\ session' = "open"
      \/ inflight' = inflight /\ session' # "open"
  BY DEF Transition, Enqueue
<1>4. /\ inflight' \in Seq(Nat)
      /\ \A i \in 1..Len(inflight) : inflight'[i] = inflight[i]
      /\ \/ Len(inflight') = Len(inflight)
         \/ Len(inflight') = Len(inflight) + 1 /\ inflight'[Len(inflight) + 1] = Len(log')
  <2>1. CASE inflight' = inflight
    BY <1>0, <2>1
  <2>2. CASE inflight' = Append(inflight, Len(log'))
    <3>1. Len(log') \in Nat
      BY <1>0, <1>2
    <3> QED
      BY <1>0, <2>2, <3>1
  <2> QED
    BY <1>3, <2>1, <2>2
<1>5. LogInv'
  BY <1>0, <1>1, <1>2 DEF ViewInv, LogInv
<1>6. QueueInv'
  <2>1. /\ \A i \in 1..Len(inflight) : inflight[i] \in 1..Len(log)
        /\ \A i, j \in 1..Len(inflight) : i < j => inflight[i] < inflight[j]
    BY DEF ViewInv, QueueInv
  <2>2. CASE Len(inflight') = Len(inflight)
    BY <1>0, <1>2, <1>4, <2>1, <2>2 DEF QueueInv
  <2>3. CASE Len(inflight') = Len(inflight) + 1 /\ inflight'[Len(inflight) + 1] = Len(log')
    <3>1. \A i \in 1..Len(inflight') :
            \/ i \in 1..Len(inflight) /\ inflight'[i] = inflight[i]
            \/ i = Len(inflight) + 1 /\ inflight'[i] = Len(log')
      BY <1>0, <1>4, <2>3
    <3>2. \A i \in 1..Len(inflight') : inflight'[i] \in 1..Len(log')
      BY <1>0, <1>2, <2>1, <3>1
    <3>3. ASSUME NEW i \in 1..Len(inflight'), NEW j \in 1..Len(inflight'), i < j
          PROVE  inflight'[i] < inflight'[j]
      <4>1. i \in 1..Len(inflight) /\ inflight'[i] = inflight[i] /\ inflight[i] \in 1..Len(log)
        BY <1>0, <2>1, <2>3, <3>1, <3>3
      <4>2. CASE j \in 1..Len(inflight) /\ inflight'[j] = inflight[j]
        BY <2>1, <3>3, <4>1, <4>2
      <4>3. CASE inflight'[j] = Len(log')
        BY <1>0, <1>2, <4>1, <4>3
      <4> QED
        BY <3>1, <4>2, <4>3
    <3> QED
      BY <3>2, <3>3 DEF QueueInv
  <2> QED
    BY <1>4, <2>2, <2>3
<1>7. ShownInv' /\ ViewFollows'
  <2> SUFFICES ASSUME Shown', ~missed'
               PROVE  view'.revision \in 1..Len(log') /\ ViewFollows'
    BY DEF ShownInv, ViewFollows
  <2>1. Shown /\ ~missed /\ session' = "open"
    BY <1>0 DEF Transition, Shown
  <2>2. inflight' = Append(inflight, Len(log')) /\ view.revision \in 1..Len(log)
    BY <1>3, <2>1 DEF ViewInv, ShownInv
  <2>3. Len(inflight') = Len(inflight) + 1 /\ inflight'[Len(inflight) + 1] = Len(log')
    BY <1>0, <1>2, <2>2
  <2>4. \A n \in view.revision + 1..Len(log') : \E i \in 1..Len(inflight') : inflight'[i] = n
    <3> SUFFICES ASSUME NEW n \in view.revision + 1..Len(log')
                 PROVE  \E i \in 1..Len(inflight') : inflight'[i] = n
      OBVIOUS
    <3>1. CASE n = Len(log')
      BY <1>0, <2>3, <3>1
    <3>2. CASE n # Len(log')
      <4>1. n \in view.revision + 1..Len(log)
        BY <1>0, <1>2, <2>2, <3>2
      <4>2. PICK i \in 1..Len(inflight) : inflight[i] = n
        BY <2>1, <4>1 DEF ViewInv, ViewFollows
      <4> QED
        BY <1>0, <1>4, <2>3, <4>2
    <3> QED
      BY <3>1, <3>2
  <2> QED
    BY <1>0, <1>2, <2>1, <2>2, <2>4 DEF ViewInv, ViewFollows
<1> QED
  BY <1>0, <1>2, <1>4, <1>5, <1>6, <1>7 DEF ViewInv

LEMMA UpsertView ==
  ASSUME ViewInv, Upsert
  PROVE  ViewInv'
<1>1. /\ answer \in 1..Len(log) /\ view' = [state |-> log[answer], revision |-> answer] /\ answer' = 0
      /\ missed' = \E n \in answer + 1..Len(log) : \A i \in 1..Len(inflight) : inflight[i] # n
      /\ UNCHANGED <<log, inflight>> /\ Len(log) \in Nat
  BY ViewTypes DEF ViewInv, Upsert
<1>2. view'.state = log[answer] /\ view'.revision = answer
  BY <1>1
<1>3. ShownInv' /\ ViewFollows'
  BY <1>1, <1>2 DEF ShownInv, ViewFollows
<1> QED
  BY <1>1, <1>3 DEF ViewInv, LogInv, QueueInv

\* The event that is applied is the next one, or one that the answer contained.
LEMMA ApplyView ==
  ASSUME ViewInv, applyCommandStatus
  PROVE  ViewInv'
<1>0. /\ log \in Seq(Stages) /\ inflight \in Seq(Nat) /\ inflight # <<>> /\ inflight' = Tail(inflight)
      /\ Len(log) \in Nat /\ UNCHANGED <<log, answer, missed>>
      /\ view' = IF Shown THEN applyCommandEvent(Event(Head(inflight))) ELSE view
  BY ViewTypes DEF applyCommandStatus
<1> DEFINE h == Head(inflight)
<1>1. /\ h = inflight[1] /\ Len(inflight) \in Nat \ {0} /\ Len(inflight') = Len(inflight) - 1
      /\ \A i \in 1..Len(inflight') : inflight'[i] = inflight[i + 1]
      /\ inflight' \in Seq(Nat)
  BY <1>0, HeadTail
<1>2. QueueInv' /\ h \in 1..Len(log)
  BY <1>0, <1>1 DEF ViewInv, QueueInv
<1>3. \A n \in 1..Len(log) : n # h /\ (\E i \in 1..Len(inflight) : inflight[i] = n)
        => \E i \in 1..Len(inflight') : inflight'[i] = n
  <2> SUFFICES ASSUME NEW n \in 1..Len(log), n # h, NEW i \in 1..Len(inflight), inflight[i] = n
               PROVE  \E m \in 1..Len(inflight') : inflight'[m] = n
    OBVIOUS
  <2>1. i # 1 /\ i - 1 \in 1..Len(inflight') /\ inflight'[i - 1] = n
    BY <1>1
  <2> QED
    BY <2>1
<1> HIDE DEF h
<1>4. Event(h) = [state |-> log[h], revision |-> h]
  BY DEF Event
<1>5. ShownInv' /\ ViewFollows'
  <2> SUFFICES ASSUME Shown', ~missed'
               PROVE  view'.revision \in 1..Len(log') /\ ViewFollows'
    BY DEF ShownInv, ViewFollows
  <2>1. Shown /\ ~missed
    BY <1>0 DEF Shown
  <2>2. /\ view.revision \in 1..Len(log) /\ view.state = log[view.revision]
        /\ \A n \in view.revision + 1..Len(log) : \E i \in 1..Len(inflight) : inflight[i] = n
    BY <2>1 DEF ViewInv, ShownInv, ViewFollows
  <2>3. view' = applyCommandEvent(Event(h))
    BY <1>0, <2>1 DEF h
  <2>4. CASE h <= view.revision
    <3>1. view' = view
      BY <1>2, <1>4, <2>2, <2>3, <2>4 DEF applyCommandEvent
    <3>2. ASSUME NEW n \in view.revision + 1..Len(log)
          PROVE  \E i \in 1..Len(inflight') : inflight'[i] = n
      <4>1. n \in 1..Len(log) /\ n # h
        BY <1>0, <1>2, <2>2, <2>4
      <4> QED
        BY <1>3, <2>2, <4>1
    <3> QED
      BY <1>0, <2>2, <3>1, <3>2 DEF ViewFollows
  <2>5. CASE h > view.revision
    <3>1. h = view.revision + 1
      <4>1. view.revision + 1 \in view.revision + 1..Len(log)
        BY <1>0, <1>2, <2>2, <2>5
      <4>2. PICK i \in 1..Len(inflight) : inflight[i] = view.revision + 1
        BY <2>2, <4>1
      <4>3. i = 1 \/ inflight[1] < inflight[i]
        <5>1. 1 \in 1..Len(inflight) /\ (i # 1 => 1 < i)
          BY <1>1
        <5> QED
          BY <5>1 DEF ViewInv, QueueInv
      <4> QED
        BY <1>1, <1>2, <2>2, <2>5, <4>2, <4>3
    <3>2. log[h] \in Allowed(view.state)
      <4>1. view.revision \in 1..Len(log) - 1
        BY <1>0, <1>2, <2>2, <3>1
      <4>2. log[view.revision + 1] \in Later(log[view.revision])
        BY <4>1 DEF ViewInv, LogInv
      <4> QED
        BY <2>2, <3>1, <4>2, LaterAllowed
    <3>3. view' = Event(h)
      BY <1>4, <2>3, <2>5, <3>2 DEF applyCommandEvent
    <3>4. view'.state = log[h] /\ view'.revision = h
      BY <1>4, <3>3
    <3>5. \A n \in h + 1..Len(log) : \E i \in 1..Len(inflight') : inflight'[i] = n
      <4> SUFFICES ASSUME NEW n \in h + 1..Len(log)
                   PROVE  \E i \in 1..Len(inflight') : inflight'[i] = n
        OBVIOUS
      <4>1. n \in 1..Len(log) /\ n # h /\ n \in view.revision + 1..Len(log)
        BY <1>0, <1>2, <2>2, <3>1
      <4> QED
        BY <1>3, <2>2, <4>1
    <3> QED
      BY <1>0, <1>2, <3>4, <3>5 DEF ViewFollows
  <2> QED
    BY <1>2, <2>2, <2>4, <2>5
<1> QED
  BY <1>0, <1>1, <1>2, <1>5 DEF ViewInv, LogInv

\* What goes with a connection is missed, unless the view has it already.
LEMMA ClientStepView ==
  ASSUME ViewInv, ClientStep
  PROVE  ViewInv'
<1>0. UNCHANGED <<log, answer, view>> /\ Len(log) \in Nat /\ Shown' = Shown
  BY ViewTypes DEF ClientStep, Shown
<1>1. CASE Kept
  BY <1>0, <1>1, BesideView DEF ClientStep, ViewInv
<1>2. CASE ~Kept
  <2>1. /\ inflight' = <<>> /\ inflight' \in Seq(Nat) /\ Len(inflight') = 0
        /\ missed' = \/ missed
                     \/ Shown /\ \E i \in 1..Len(inflight) : inflight[i] > view.revision
    BY <1>2 DEF ClientStep
  <2>2. QueueInv' /\ LogInv'
    BY <1>0, <2>1 DEF QueueInv, ViewInv, LogInv
  <2>3. ShownInv' /\ ViewFollows'
    <3> SUFFICES ASSUME Shown', ~missed'
                 PROVE  view'.revision \in 1..Len(log') /\ ViewFollows'
      BY DEF ShownInv, ViewFollows
    <3>1. Shown /\ ~missed /\ \A i \in 1..Len(inflight) : ~(inflight[i] > view.revision)
      BY <1>0, <2>1
    <3>2. /\ view.revision \in 1..Len(log) /\ view.state = log[view.revision]
          /\ \A n \in view.revision + 1..Len(log) : \E i \in 1..Len(inflight) : inflight[i] = n
      BY <3>1 DEF ViewInv, ShownInv, ViewFollows
    <3>3. \A n \in view.revision + 1..Len(log) : FALSE
      BY <1>0, <3>1, <3>2
    <3> QED
      BY <1>0, <3>2, <3>3 DEF ViewFollows
  <2> QED
    BY <1>0, <2>1, <2>2, <2>3 DEF ViewInv
<1> QED
  BY <1>1, <1>2

LEMMA FailView ==
  ASSUME ViewInv, Fail
  PROVE  ViewInv'
<1>1. answer' = 0 /\ UNCHANGED <<log, inflight>> /\ Len(log) \in Nat
  BY ViewTypes DEF Fail
<1>2. CASE UNCHANGED <<view, missed>>
  BY <1>1, <1>2, BesideView
<1>3. CASE missed' = TRUE
  BY <1>1, <1>3 DEF ViewInv, LogInv, QueueInv, ShownInv, ViewFollows
<1> QED
  BY <1>2, <1>3 DEF Fail

LEMMA ViewStepInv ==
  ASSUME ViewInv, [HmiNext]_hmiVars
  PROVE  ViewInv'
<1>1. CASE Answer
  BY <1>1, BesideView, ViewTypes DEF Answer
<1>2. CASE Register \/ SessionEnds \/ issuePreviewedCommandV2 \/ UNCHANGED hmiVars
  BY <1>2, BesideView DEF Register, SessionEnds, issuePreviewedCommandV2, hmiVars, viewVars, ViewInv
<1> QED
  BY <1>1, <1>2, AdmitView, TransitionView, UpsertView, ApplyView, ClientStepView, FailView
  DEF HmiNext

\* The command view changes nothing about the client: what holds of its
\* connection holds with a command on it.
THEOREM ViewLeavesClient == HmiSpec => Spec
<1>1. HmiInit => Init
  BY DEF HmiInit
<1>2. [HmiNext]_hmiVars => [Next]_vars
  BY DEF HmiNext, hmiVars, ClientStep, Admit, Transition, Answer, Register, SessionEnds,
         issuePreviewedCommandV2, Upsert, Fail, applyCommandStatus
<1> QED
  BY <1>1, <1>2, PTL DEF HmiSpec, Spec

\* The view follows the backend for as long as no event was missed, whatever the
\* connection, the queue and the answers do.
THEOREM ViewFollowsBackend == HmiSpec => []ViewFollows
<1>1. ViewInv /\ [HmiNext]_hmiVars => ViewInv'
  BY ViewStepInv
<1>2. ViewInv => ViewFollows
  BY DEF ViewInv
<1> QED
  BY InitView, <1>1, <1>2, PTL DEF HmiSpec

===============================================================================
