---------------------------- MODULE RealtimeClient ----------------------------
(***************************************************************************)
(* BrowserWebSocketClient (packages/api-client/src/realtime.ts): the HMI's *)
(* connection to the backend.  One event loop runs the handlers one at a   *)
(* time: the calls of the page, three timers, the events of every socket   *)
(* that has been opened, and the network events, which the browser queues: *)
(* navigator.onLine may have moved on when one is delivered.               *)
(*                                                                         *)
(* Time is abstracted: a timer that is set may fire whenever the loop is   *)
(* free.  A valid message only sets anew the silence timer, which is set   *)
(* already, so messages are left out; so are diagnostics and subscribers.  *)
(* The silence watchdog and the stability period are on, as in site.ts.    *)
(***************************************************************************)
EXTENDS Naturals, Sequences

CONSTANTS
  Sockets,    \* WebSocket objects; a closed one stands for a new one
  None,       \* no socket
  DelayCap,   \* attempts after which the reconnect delay no longer grows
  MaxEvents   \* bound: network events that wait for delivery

ASSUME RealtimeClientAssumption ==
  /\ None \notin Sockets
  /\ DelayCap \in Nat \ {0}
  /\ MaxEvents \in Nat

VARIABLES
  state,       \* _state
  socket,      \* the current socket
  timers,      \* the timers that are set
  manualStop,
  attempt,     \* counted up to DelayCap
  monitored,   \* the network monitor is subscribed to
  urlValid,    \* the WebSocket constructor accepts the URL
  link,        \* the browser's side of every socket
  online,      \* navigator.onLine
  events       \* online (TRUE) and offline (FALSE) events to be delivered

clientVars == <<state, socket, timers, manualStop, attempt, monitored>>
vars == <<clientVars, urlValid, link, online, events>>

Alive == {"connecting", "open"}

TypeOK ==
  /\ state \in {"IDLE", "CONNECTING", "CONNECTED", "RECONNECTING",
                "WAITING_NETWORK", "DISCONNECTED", "ERROR"}
  /\ socket \in Sockets \cup {None}
  /\ timers \subseteq {"reconnect", "stable", "silence"}
  /\ manualStop \in BOOLEAN
  /\ attempt \in 0..DelayCap
  /\ monitored \in BOOLEAN
  /\ link \in [Sockets -> Alive \cup {"closing", "closed"}]
  /\ urlValid \in BOOLEAN /\ online \in BOOLEAN
  /\ events \in Seq(BOOLEAN) /\ Len(events) <= MaxEvents

Init ==
  /\ state = "IDLE"
  /\ socket = None
  /\ timers = {}
  /\ manualStop = FALSE
  /\ attempt = 0
  /\ monitored = FALSE
  /\ link = [s \in Sockets |-> "closed"]
  /\ urlValid \in BOOLEAN /\ online \in BOOLEAN
  /\ events = <<>>

-------------------------------------------------------------------------------
(* What the handlers have in common: this.socket is cur, the timers ts are    *)
(* set and tries attempts have been made when they call it.                   *)

\* Mutant of ScheduleReconnect: the client gives up when the delay is longest.
ScheduleOrGiveUp(st, ts, tries) ==
  IF manualStop' \/ "reconnect" \in ts \/ tries = DelayCap
    THEN state' = st /\ timers' = ts /\ attempt' = tries
  ELSE IF ~online
    THEN state' = "WAITING_NETWORK" /\ timers' = ts /\ attempt' = tries
  ELSE /\ state' = "RECONNECTING"
       /\ timers' = ts \cup {"reconnect"}
       /\ attempt' = tries + 1

\* Mutant of ScheduleReconnect: Math.min is forgotten.
ScheduleUncapped(st, ts, tries) ==
  IF manualStop' \/ "reconnect" \in ts
    THEN state' = st /\ timers' = ts /\ attempt' = tries
  ELSE IF ~online
    THEN state' = "WAITING_NETWORK" /\ timers' = ts /\ attempt' = tries
  ELSE /\ state' = "RECONNECTING"
       /\ timers' = ts \cup {"reconnect"}
       /\ attempt' = tries + 1

ScheduleReconnect(st, ts, tries) ==
  IF manualStop' \/ "reconnect" \in ts
    THEN state' = st /\ timers' = ts /\ attempt' = tries
  ELSE IF ~online
    THEN state' = "WAITING_NETWORK" /\ timers' = ts /\ attempt' = tries
  ELSE /\ state' = "RECONNECTING"
       /\ timers' = ts \cup {"reconnect"}
       /\ attempt' = IF tries < DelayCap THEN tries + 1 ELSE tries

\* openSocket: there is one already or one is said to be CONNECTING; there is
\* no network; the WebSocket is made; its constructor throws.
OpenSocket(opening, cur, ts, tries, links) ==
  \/ /\ cur # None \/ state = "CONNECTING" \/ ~online
     /\ state' = IF cur = None /\ state # "CONNECTING" THEN "WAITING_NETWORK" ELSE state
     /\ socket' = cur /\ timers' = ts /\ attempt' = tries /\ link' = links
  \/ /\ cur = None /\ state # "CONNECTING" /\ online
     /\ \/ /\ urlValid
           /\ \E s \in Sockets :
                /\ links[s] = "closed"
                /\ socket' = s /\ link' = [links EXCEPT ![s] = "connecting"]
           /\ state' = opening /\ timers' = ts /\ attempt' = tries
        \/ /\ ~urlValid
           /\ socket' = None /\ link' = links
           /\ ScheduleReconnect(opening, ts, tries)

\* current?.close(...): the socket is told to close; its close event, which
\* comes later, finds that it is not the current one any more.
Closing == [s \in Sockets |-> IF s = socket THEN "closing" ELSE link[s]]

-------------------------------------------------------------------------------
(* Calls of the page *)

connect ==
  /\ manualStop' = FALSE /\ monitored' = TRUE
  /\ \/ /\ online
        /\ OpenSocket("CONNECTING", socket, timers \ {"reconnect"}, attempt, link)
     \/ /\ ~online
        /\ state' = "WAITING_NETWORK" /\ timers' = timers \ {"reconnect"}
        /\ UNCHANGED <<socket, attempt, link>>
  /\ UNCHANGED <<urlValid, online, events>>

reconnectNow ==
  /\ ~manualStop /\ UNCHANGED manualStop
  /\ \/ online /\ OpenSocket("RECONNECTING", None, {}, 0, Closing)
     \/ /\ ~online
        /\ state' = "WAITING_NETWORK" /\ socket' = None /\ timers' = {}
        /\ attempt' = 0 /\ link' = Closing
  /\ UNCHANGED <<monitored, urlValid, online, events>>

disconnect ==
  /\ manualStop' = TRUE /\ monitored' = FALSE
  /\ state' = "DISCONNECTED" /\ socket' = None /\ timers' = {}
  /\ link' = Closing
  /\ UNCHANGED <<attempt, urlValid, online, events>>

-------------------------------------------------------------------------------
(* Timers *)

Retry ==
  /\ "reconnect" \in timers /\ UNCHANGED manualStop
  /\ OpenSocket("RECONNECTING", socket, timers \ {"reconnect"}, attempt, link)
  /\ UNCHANGED <<monitored, urlValid, online, events>>

StableReset ==
  /\ "stable" \in timers
  /\ timers' = timers \ {"stable"}
  /\ attempt' = IF state = "CONNECTED" THEN 0 ELSE attempt
  /\ UNCHANGED <<state, socket, manualStop, monitored, urlValid, link, online, events>>

SilenceTimeout ==
  /\ "silence" \in timers
  /\ timers' = timers \ {"silence"}
  /\ link' = IF state = "CONNECTED" /\ ~manualStop THEN Closing ELSE link
  /\ UNCHANGED <<state, socket, manualStop, attempt, monitored, urlValid, online, events>>

-------------------------------------------------------------------------------
(* Events of a socket *)

\* Mutant of onopen: the watchdog is set before the state is CONNECTED.
OpenUnwatched(s) ==
  /\ link[s] = "connecting" /\ link' = [link EXCEPT ![s] = "open"]
  /\ \/ s # socket /\ UNCHANGED <<state, timers>>
     \/ s = socket /\ state' = "CONNECTED" /\ timers' = timers \cup {"stable"}
  /\ UNCHANGED <<socket, manualStop, attempt, monitored, urlValid, online, events>>

\* Only the socket that is not told to close opens; it is the current one.
onopen(s) ==
  /\ link[s] = "connecting" /\ s = socket
  /\ link' = [link EXCEPT ![s] = "open"]
  /\ state' = "CONNECTED" /\ timers' = timers \cup {"stable", "silence"}
  /\ UNCHANGED <<socket, manualStop, attempt, monitored, urlValid, online, events>>

\* The current socket is gone; st is ERROR when the browser reported a failure
\* just before (onerror; its close() then does nothing).
Lost(st) ==
  /\ socket' = None
  /\ \/ manualStop /\ state' = "DISCONNECTED"
        /\ timers' = timers \ {"stable", "silence"} /\ UNCHANGED attempt
     \/ ~manualStop /\ ~online /\ state' = "WAITING_NETWORK"
        /\ timers' = timers \ {"stable", "silence"} /\ UNCHANGED attempt
     \/ ~manualStop /\ online
        /\ ScheduleReconnect(st, timers \ {"stable", "silence"}, attempt)

\* Mutant of onclose: whichever socket closes is taken for the current one.
CloseAny(s) ==
  /\ link[s] # "closed" /\ link' = [link EXCEPT ![s] = "closed"]
  /\ UNCHANGED <<manualStop, monitored, urlValid, online, events>>
  /\ \E st \in {state, "ERROR"} : Lost(st)

\* A connection that is refused, breaks, is closed by the backend, or whose
\* closing by the client is complete.
onclose(s) ==
  /\ link[s] # "closed" /\ link' = [link EXCEPT ![s] = "closed"]
  /\ UNCHANGED <<manualStop, monitored, urlValid, online, events>>
  /\ \/ s # socket /\ UNCHANGED <<state, socket, timers, attempt>>
     \/ s = socket /\ \E st \in {state, "ERROR"} : Lost(st)

-------------------------------------------------------------------------------
(* The network *)

\* navigator.onLine changes and the browser queues the event.
Flip ==
  /\ Len(events) < MaxEvents
  /\ online' = ~online /\ events' = Append(events, ~online)
  /\ UNCHANGED <<clientVars, urlValid, link>>

NetworkEvent ==
  /\ events # <<>> /\ events' = Tail(events)
  /\ UNCHANGED <<manualStop, monitored, urlValid, online>>
  /\ \/ ~monitored /\ UNCHANGED <<state, socket, timers, attempt, link>>
     \/ /\ monitored /\ ~Head(events)
        /\ timers' = {} /\ socket' = None /\ link' = Closing
        /\ state' = IF manualStop THEN state ELSE "WAITING_NETWORK"
        /\ UNCHANGED attempt
     \/ /\ monitored /\ Head(events)
        /\ \/ /\ manualStop \/ socket # None
              /\ UNCHANGED <<state, socket, timers, attempt, link>>
           \/ /\ ~manualStop /\ socket = None
              /\ OpenSocket("RECONNECTING", None, timers, attempt, link)

-------------------------------------------------------------------------------
Timer == Retry \/ StableReset \/ SilenceTimeout

SocketEvent(s) == onopen(s) \/ onclose(s)

\* The page connects a client that is not connected (startRealtime makes a new
\* one), and calls the others only then.
Next ==
  \/ ~monitored /\ connect
  \/ monitored /\ (reconnectNow \/ disconnect)
  \/ Timer
  \/ \E s \in Sockets : SocketEvent(s)
  \/ Flip \/ NetworkEvent

Spec == Init /\ [][Next]_vars

\* The event loop runs what is due; a connection that is being made or closed
\* comes to an end; a backend that is asked again and again accepts at last.
Fairness ==
  /\ WF_vars(Retry) /\ WF_vars(NetworkEvent)
  /\ \A s \in Sockets : WF_vars(link[s] # "open" /\ SocketEvent(s))
  /\ SF_vars(\E s \in Sockets : onopen(s))

FairSpec == Spec /\ Fairness

-------------------------------------------------------------------------------
(* Properties *)

\* Between connect and disconnect.
Meant == monitored /\ ~manualStop

\* What reconnectNow leaves of a client that is CONNECTING: openSocket returns
\* early, and so does every later call of it (realtime.ts:246).
Interrupted == state = "CONNECTING" /\ socket = None

\* However late the events of abandoned sockets come: every connection that is
\* not being closed is the client's current one, so that the HMI never receives
\* the same messages over two.
OneConnection == \A s \in Sockets : link[s] \in Alive => s = socket

\* A client that is meant to run has a socket, will retry, or waits for a
\* network event that will come; only reconnectNow strands it (Interrupted).
NeverStranded ==
  Meant => \/ socket # None
           \/ "reconnect" \in timers
           \/ ~online \/ \E i \in 1..Len(events) : events[i]
           \/ Interrupted

\* "Invalid/binary frames must not keep a dead link green" (realtime.ts:237):
\* a client shown as CONNECTED watches its link for silence, is closing it, or
\* has lost it and will retry (when the lost link was opened by a network event
\* while a retry was due: scheduleReconnect then returns early).
GreenIsWatched ==
  state = "CONNECTED" => \/ "reconnect" \in timers
                         \/ /\ socket # None
                            /\ "silence" \in timers \/ link[socket] = "closing"

\* A client that is meant to run connects again and again once the network
\* stays up, whatever happened before.
Reconnects ==
  <>[](urlValid /\ online /\ Meant /\ ~Interrupted) => []<>(state = "CONNECTED")
===============================================================================
