----------------------------- MODULE Deployment -----------------------------
(***************************************************************************)
(* What compose.yml starts: the broker, and then the backend, whose        *)
(* requests, TCP sessions, streams, scheduled coroutines and monitor share *)
(* the event loop and the pool from lifespan's startup to its shutdown.    *)
(*                                                                         *)
(* uvicorn's part of the shutdown is modelled from its 0.46: it takes no   *)
(* more requests and waits for those it has, and for the coroutines of its *)
(* WebSockets, before the second half of lifespan runs.                    *)
(***************************************************************************)
EXTENDS UserSessions, TcpSessions, BrokerBootstrap

VARIABLE phase    \* how far lifespan is

Phases == {"off", "linked", "listening", "up", "draining", "closing", "unlinked", "down"}

vars == <<taskVars, userVars, frameVars, brokerVars, phase>>

TypeOK ==
    /\ TasksTypeOK /\ UsersTypeOK /\ FramesTypeOK /\ BrokerTypeOK
    /\ phase \in Phases

Init ==
    /\ TasksInit /\ UsersInit /\ FramesInit /\ BrokerInit
    /\ phase = "off"

-----------------------------------------------------------------------------
(* Startup and shutdown.                                                   *)

Phase(from, to) == phase = from /\ phase' = to

\* mqtt.start: connect raises unless the broker is there, with a certificate
\* of the CA for "mosquitto", which every certificate names.
MqttStart ==
    /\ Phase("off", "linked")
    /\ at = "serving" /\ crt.signed
    /\ UNCHANGED <<taskVars, userVars, frameVars, brokerVars>>

\* tcp_gw.start: sessions may begin.
TcpStart ==
    /\ Phase("linked", "listening")
    /\ UNCHANGED <<taskVars, userVars, frameVars, brokerVars>>

\* The Modbus gateway and its first reload, if enabled, whose connection is left
\* out; then the monitor, and uvicorn begins to accept.
GatewaysStart ==
    /\ Phase("listening", "up")
    /\ Begins(Monitor, "monitor", "sleeping")
    /\ UNCHANGED <<userVars, frameVars, brokerVars>>

\* SIGTERM.
Terminate ==
    /\ Phase("up", "draining")
    /\ UNCHANGED <<taskVars, userVars, frameVars, brokerVars>>

\* No request and no stream is left.  The monitor is cancelled, wherever it
\* is, and awaited; then tcp_gw.stop closes the listening socket.
Drained ==
    /\ Phase("draining", "closing")
    /\ \A t \in Tasks : op[t] \notin Http \cup {"stream"}
    /\ Ends(Monitor)
    /\ UNCHANGED <<userVars, frameVars, brokerVars>>

\* Mutant of SessionsClosed: wait_closed as it was before Python 3.12.
SessionsLeftOpen ==
    /\ Phase("closing", "unlinked")
    /\ UNCHANGED <<taskVars, userVars, frameVars, brokerVars>>

\* wait_closed is back, which waits for the sessions too; then mqtt.stop.
SessionsClosed ==
    /\ Phase("closing", "unlinked")
    /\ \A t \in Tasks : op[t] # "tcp"
    /\ UNCHANGED <<taskVars, userVars, frameVars, brokerVars>>

\* engine.dispose, and the loop cancels what is left.
Dispose ==
    /\ Phase("unlinked", "down")
    /\ op' = [t \in Runners |-> "none"]
    /\ step' = [t \in Runners |-> "idle"]
    /\ out' = {}
    /\ UNCHANGED <<userVars, frameVars, brokerVars>>

-----------------------------------------------------------------------------
(* Who comes in.                                                           *)

TakeRequest(t) ==
    /\ phase = "up"
    /\ \E o \in Http : Request(t, o)
    /\ UNCHANGED <<frameVars, brokerVars, phase>>

TakeClient(t) ==
    /\ phase \in {"listening", "up", "draining"}
    /\ AcceptClient(t)
    /\ UNCHANGED <<userVars, brokerVars, phase>>

\* websocket_stream: its session ends before the stream begins.
TakeStream(t) ==
    /\ phase = "up"
    /\ Begins(t, "stream", "asking")
    /\ UNCHANGED <<userVars, frameVars, brokerVars, phase>>

\* A callback on paho's thread schedules a coroutine.
Schedule(t) ==
    /\ phase \in {"linked", "listening", "up", "draining", "closing"}
    /\ Begins(t, "background", "asking")
    /\ UNCHANGED <<userVars, frameVars, brokerVars, phase>>

-----------------------------------------------------------------------------
(* What is neither a request nor a TCP session.                            *)

StreamLooksUp(t) ==
    /\ At(t, "stream", "asking")
    /\ CheckOut(t, "own")
    /\ Goes(t, "connected")

StreamOpens(t) ==
    /\ At(t, "stream", "connected")
    /\ CheckIn(t)
    /\ Goes(t, "waiting")

\* The next item finds the client gone, or uvicorn has closed the WebSocket.
StreamEnds(t) ==
    /\ At(t, "stream", "waiting")
    /\ Ends(t)

\* Inactive, unknown, or the database fails.
StreamRefused(t) ==
    /\ At(t, "stream", "connected")
    /\ Ends(t)

BackgroundConnects(t) ==
    /\ At(t, "background", "asking")
    /\ CheckOut(t, "own")
    /\ Goes(t, "connected")

BackgroundEnds(t) ==
    /\ At(t, "background", "connected")
    /\ Ends(t)

OtherTimesOut(t) ==
    /\ op[t] \in {"stream", "background"}
    /\ GivesUp(t)

\* The transactions of _monitor_offline_devices; a failure is logged, and the
\* loop goes on as after a success.
MonitorConnects ==
    /\ At(Monitor, "monitor", "sleeping")
    /\ CheckOut(Monitor, "own")
    /\ Goes(Monitor, "connected")

MonitorDone ==
    /\ At(Monitor, "monitor", "connected")
    /\ CheckIn(Monitor)
    /\ Goes(Monitor, "sleeping")

-----------------------------------------------------------------------------

LifespanNext == MqttStart \/ TcpStart \/ GatewaysStart \/ Drained \/ SessionsClosed \/ Dispose

RequestStep(t) == Handle(t) /\ UNCHANGED <<frameVars, brokerVars, phase>>
UpdateStep(t) == Update(t) /\ UNCHANGED <<frameVars, brokerVars, phase>>
FailStep(t) == Fail(t) /\ UNCHANGED <<frameVars, brokerVars, phase>>

SessionStep(t) == SessionHandles(t) /\ UNCHANGED <<userVars, brokerVars, phase>>
SessionEvent(t) == SessionHears(t) /\ UNCHANGED <<userVars, brokerVars, phase>>

OtherStep(t) ==
    /\ \/ StreamLooksUp(t) \/ StreamOpens(t) \/ OtherTimesOut(t)
       \/ BackgroundConnects(t) \/ BackgroundEnds(t)
    /\ UNCHANGED <<userVars, frameVars, brokerVars, phase>>

OtherEvent(t) ==
    /\ StreamEnds(t) \/ StreamRefused(t)
    /\ UNCHANGED <<userVars, frameVars, brokerVars, phase>>

MonitorStep ==
    /\ MonitorConnects \/ MonitorDone
    /\ UNCHANGED <<userVars, frameVars, brokerVars, phase>>

\* Bound: once the backend runs the broker is left alone; they share the link
\* only, whose drops are PublicationLog's.
BrokerStep ==
    /\ phase = "off"
    /\ BrokerNext
    /\ UNCHANGED <<taskVars, userVars, frameVars, phase>>

Next ==
    \/ BrokerStep \/ LifespanNext \/ Terminate \/ MonitorStep
    \/ \E t \in Tasks :
          \/ TakeRequest(t) \/ TakeClient(t) \/ TakeStream(t) \/ Schedule(t)
          \/ RequestStep(t) \/ UpdateStep(t) \/ FailStep(t)
          \/ SessionStep(t) \/ SessionEvent(t)
          \/ OtherStep(t) \/ OtherEvent(t)

Spec == Init /\ [][Next]_vars

\* The loop runs what is ready; timeouts are raised; PostgreSQL answers, and
\* hands a row's lock to those who wait in the order of their coming (hence
\* strong fairness, as others may take it in between); containers are restarted.
\* Nothing is asked of clients.
Fairness ==
    /\ WF_vars(TcpStart \/ GatewaysStart \/ Drained \/ SessionsClosed \/ Dispose)
    /\ WF_vars(phase = "off" /\ Bootstrap /\ UNCHANGED <<taskVars, userVars, frameVars, phase>>)
    /\ WF_vars(MonitorDone /\ UNCHANGED <<userVars, frameVars, brokerVars, phase>>)
    /\ \A t \in Tasks :
          /\ WF_vars(RequestStep(t)) /\ SF_vars(UpdateStep(t))
          /\ WF_vars(SessionStep(t)) /\ WF_vars(OtherStep(t))

FairSpec == Spec /\ Fairness

-----------------------------------------------------------------------------
(* Properties.                                                             *)

\* Whoever may publish or be published to is gone before the MQTT client is
\* stopped, and nothing but a scheduled coroutine is cut off at the end.
LinkOutlivesSessions ==
    \A t \in Runners :
        /\ op[t] = "tcp" => phase \in {"listening", "up", "draining", "closing"}
        /\ op[t] \in Http \cup {"stream", "monitor"} => phase \in {"up", "draining", "closing"}

\* Every request and every scheduled coroutine ends, although a request waits
\* for a second connection while it holds one, for a third while it holds two,
\* and for row locks: the pool's timeout breaks the circle.
RequestsAnswered ==
    \A t \in Tasks :
        op[t] \in Http \cup {"background"} ~> op[t] \notin Http \cup {"background"}

\* A session whose client keeps it busy, or does not read its answers, and a
\* stream for which no item comes, hold up a shutdown: nothing closes them.  (So
\* does a request whose body does not come, which is no request here yet.)
HeldUp ==
    /\ phase \in {"draining", "closing"}
    /\ \E t \in Tasks : Session(t, "answering") \/ At(t, "stream", "waiting")

\* But for these a shutdown comes to its end.
ShutdownEnds == (phase = "draining" ~> phase = "down") \/ []<>HeldUp
=============================================================================
