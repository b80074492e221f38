---------------------------- MODULE DeviceStream ----------------------------
(***************************************************************************)
(* The live stream /api/v1/ws.  A message reaches a WebSocket client over  *)
(* two threads and two hops:                                               *)
(*                                                                         *)
(*   - paho's thread (_on_message) or the event loop (to_forward, after    *)
(*     its commit) runs _broadcast_for_ws, which walks the registered      *)
(*     queues and schedules put_nowait on the loop for those allowed;      *)
(*   - the loop runs what was scheduled, in order, and the coroutine of    *)
(*     each client takes from its bounded queue and sends.                 *)
(*                                                                         *)
(* paho's thread may be preempted between two queues; the order in which   *)
(* it visits them, and the order of calls for different queues on the loop *)
(* are left open, as each call touches its own queue only.  What           *)
(* to_forward publishes (QoS 1) comes back from the broker, and may come   *)
(* back again in every later round: when the client resumes its session,   *)
(* the broker delivers once more what has no PUBACK yet (a round), and     *)
(* paho publishes once more what has none, which comes back anew (another  *)
(* round, with what is published later).  PUBACKs are not modelled: how    *)
(* far back a round goes is left open, and how many there are is bounded.  *)
(* One TCP session per device is modelled.                                 *)
(***************************************************************************)
EXTENDS Naturals, Sequences, Functions

CONSTANTS
    Devices, Users,
    Owner,        \* devices.user_id, which no route changes
    Streams,      \* WebSocket connections
    UserOf,       \* the user each one's token names
    MaxQueue,     \* asyncio.Queue(maxsize=50)
    MaxReadings,  \* bound: readings of a device
    MaxRounds     \* bound: rounds of deliveries by the broker

ASSUME StreamAssumption ==
    /\ Owner \in [Devices -> Users]
    /\ UserOf \in [Streams -> Users]
    /\ MaxQueue \in Nat \ {0}
    /\ MaxReadings \in Nat
    /\ MaxRounds \in Nat \ {0}

VARIABLES
    active,       \* devices.active
    published,    \* readings of each device handed to MQTT so far
    storing,      \* devices whose last reading to_forward is still storing
    round,        \* the round of deliveries the broker is in
    echoed,       \* the last reading of each device that came back in each
    stream,       \* each connection; its queue is in _ws_queues while "open"
    gone,         \* connections whose client has left
    allowed,      \* the device ids it may see, as listed when it connected
    casting,      \* the walk of paho's thread: the calls it has yet to schedule
    ready,        \* items of the put_nowait calls scheduled on the loop
    queue,        \* the queue of each connection
    sending,      \* the item its coroutine has taken and is sending
    sent          \* history: what each client was sent

sourceVars == <<active, published, storing, round, echoed>>
clientVars == <<stream, gone, allowed>>
vars == <<sourceVars, clientVars, casting, ready, queue, sending, sent>>

\* No round of the broker's: to_forward's own broadcast.
Own == 0
Rounds == Own..MaxRounds
Items == [device : Devices, n : 1..MaxReadings, round : Rounds]

TypeOK ==
    /\ active \in SUBSET Devices
    /\ published \in [Devices -> 0..MaxReadings]
    /\ storing \in SUBSET Devices
    /\ round \in Rounds \ {Own}
    /\ echoed \in [Devices -> [Rounds -> 0..MaxReadings]]
    /\ stream \in [Streams -> {"closed", "listed", "open", "ended"}]
    /\ gone \in SUBSET Streams
    /\ allowed \in [Streams -> SUBSET Devices]
    /\ casting \in SUBSET (Streams \X Items)
    /\ ready \in [Streams -> Seq(Items)]
    /\ queue \in [Streams -> Seq(Items)]
    /\ sending \in [Streams -> SUBSET Items]
    /\ sent \in [Streams -> Seq(Items)]

Init ==
    /\ active = Devices
    /\ published = [d \in Devices |-> 0]
    /\ storing = {}
    /\ round = 1
    /\ echoed = [d \in Devices |-> [r \in Rounds |-> 0]]
    /\ stream = [w \in Streams |-> "closed"]
    /\ gone = {}
    /\ allowed = [w \in Streams |-> {}]
    /\ casting = {}
    /\ ready = [w \in Streams |-> <<>>]
    /\ queue = [w \in Streams |-> <<>>]
    /\ sending = [w \in Streams |-> {}]
    /\ sent = [w \in Streams |-> <<>>]

-----------------------------------------------------------------------------
(* The connection                                                          *)

\* The token's user is found and its active devices are listed.
List(w) ==
    /\ stream[w] = "closed"
    /\ stream' = [stream EXCEPT ![w] = "listed"]
    /\ allowed' = [allowed EXCEPT ![w] = {d \in active : Owner[d] = UserOf[w]}]
    /\ UNCHANGED <<sourceVars, gone, casting, ready, queue, sending, sent>>

\* After the await of accept(): register_ws_queue.
Register(w) ==
    /\ stream[w] = "listed"
    /\ stream' = [stream EXCEPT ![w] = "open"]
    /\ UNCHANGED <<sourceVars, gone, allowed, casting, ready, queue, sending, sent>>

\* Mutant of Take: a LifoQueue.
TakeNewest(w) ==
    /\ stream[w] = "open"
    /\ queue[w] # <<>> /\ sending[w] = {}
    /\ sending' = [sending EXCEPT ![w] = {queue[w][Len(queue[w])]}]
    /\ queue' = [queue EXCEPT ![w] = SubSeq(@, 1, Len(@) - 1)]
    /\ UNCHANGED <<sourceVars, clientVars, casting, ready, sent>>

\* q.get(): the item leaves the queue.
Take(w) ==
    /\ stream[w] = "open"
    /\ queue[w] # <<>> /\ sending[w] = {}
    /\ sending' = [sending EXCEPT ![w] = {Head(queue[w])}]
    /\ queue' = [queue EXCEPT ![w] = Tail(@)]
    /\ UNCHANGED <<sourceVars, clientVars, casting, ready, sent>>

\* Mutant of Send: the loop ends after one item.
SendOne(w) ==
    /\ \E item \in sending[w] :
          sent' = IF w \in gone THEN sent ELSE [sent EXCEPT ![w] = Append(@, item)]
    /\ stream' = [stream EXCEPT ![w] = "ended"]
    /\ sending' = [sending EXCEPT ![w] = {}]
    /\ UNCHANGED <<sourceVars, gone, allowed, casting, ready, queue>>

\* send_text; if the client has left it raises, and the finally clause calls
\* remove_ws_queue.
Send(w) ==
    /\ sending[w] # {}
    /\ \/ /\ w \notin gone
          /\ \E item \in sending[w] : sent' = [sent EXCEPT ![w] = Append(@, item)]
          /\ UNCHANGED stream
       \/ /\ w \in gone
          /\ stream' = [stream EXCEPT ![w] = "ended"]
          /\ UNCHANGED sent
    /\ sending' = [sending EXCEPT ![w] = {}]
    /\ UNCHANGED <<sourceVars, gone, allowed, casting, ready, queue>>

\* The client goes away; a coroutine that waits in q.get() does not notice.
Leave(w) ==
    /\ stream[w] = "open" /\ w \notin gone
    /\ gone' = gone \cup {w}
    /\ UNCHANGED <<sourceVars, stream, allowed, casting, ready, queue, sending, sent>>

-----------------------------------------------------------------------------
(* Broadcast                                                               *)

\* Mutant of Recipients: the allowed ids are not looked at.
RecipientsAll(d) == {w \in Streams : stream[w] = "open"}

\* The registered queues that may see the device (_broadcast_for_ws).
Recipients(d) == {w \in Streams : stream[w] = "open" /\ d \in allowed[w]}

Item(d, m, r) == [device |-> d, n |-> m, round |-> r]

\* to_forward hands the next reading to MQTT, then stores it.
Forward(d) ==
    /\ published[d] < MaxReadings
    /\ d \notin storing
    /\ published' = [published EXCEPT ![d] = @ + 1]
    /\ storing' = storing \cup {d}
    /\ UNCHANGED <<active, round, echoed, clientVars, casting, ready, queue, sending, sent>>

\* Mutant of ForwardStored: it counts the reading that is to come, not its own.
ForwardStoredLate(d) ==
    /\ d \in storing
    /\ storing' = storing \ {d}
    /\ ready' = [w \in Streams |->
                    IF w \in Recipients(d)
                    THEN Append(ready[w], Item(d, published[d] + 1, Own))
                    ELSE ready[w]]
    /\ UNCHANGED <<active, published, round, echoed, clientVars, casting, queue, sending, sent>>

\* Committed: broadcast_message, on the loop.
ForwardStored(d) ==
    /\ d \in storing
    /\ storing' = storing \ {d}
    /\ ready' = [w \in Streams |->
                    IF w \in Recipients(d)
                    THEN Append(ready[w], Item(d, published[d], Own))
                    ELSE ready[w]]
    /\ UNCHANGED <<active, published, round, echoed, clientVars, casting, queue, sending, sent>>

\* Not stored: no broadcast.
ForwardFails(d) ==
    /\ d \in storing
    /\ storing' = storing \ {d}
    /\ UNCHANGED <<active, published, round, echoed, clientVars, casting, ready, queue,
                   sending, sent>>

\* The broker delivers in order and may lose some; paho's thread starts its
\* walk over a copy of the registry, and handles one message at a time.  Nothing
\* in _on_message tells a reading that comes again from a new one.
OnMessage(d) ==
    /\ casting = {}
    /\ \E m \in (echoed[d][round] + 1)..published[d] :
          /\ echoed' = [echoed EXCEPT ![d][round] = m]
          /\ casting' = Recipients(d) \X {Item(d, m, round)}
    /\ UNCHANGED <<active, published, storing, round, clientVars, ready, queue,
                   sending, sent>>

\* paho's thread reconnects, with clean_session=False and its subscriptions at
\* QoS 1, and readings that came before may come again: what the broker has to
\* deliver still, and then, a round of its own, what paho has to publish still.
Resume ==
    /\ casting = {}
    /\ round < MaxRounds
    /\ round' = round + 1
    /\ UNCHANGED <<active, published, storing, echoed, clientVars, casting, ready, queue,
                   sending, sent>>

\* call_soon_threadsafe for the next queue of the walk.
Cast(w) ==
    \E item \in Items :
        /\ <<w, item>> \in casting
        /\ ready' = [ready EXCEPT ![w] = Append(@, item)]
        /\ casting' = casting \ {<<w, item>>}
        /\ UNCHANGED <<sourceVars, clientVars, queue, sending, sent>>

\* Mutant of Put: the last place of the queue is never used.
PutOneLess(w) ==
    /\ ready[w] # <<>>
    /\ ready' = [ready EXCEPT ![w] = Tail(@)]
    /\ queue' = IF stream[w] = "open" /\ Len(queue[w]) + 1 < MaxQueue
                THEN [queue EXCEPT ![w] = Append(@, Head(ready[w]))]
                ELSE queue
    /\ UNCHANGED <<sourceVars, clientVars, casting, sending, sent>>

\* The loop runs put_nowait.  A full queue raises there, out of reach of the
\* except clause of _broadcast_for_ws: the item is dropped.  The queue of a
\* connection that has ended is read by nobody.
Put(w) ==
    /\ ready[w] # <<>>
    /\ ready' = [ready EXCEPT ![w] = Tail(@)]
    /\ queue' = IF stream[w] = "open" /\ Len(queue[w]) < MaxQueue
                THEN [queue EXCEPT ![w] = Append(@, Head(ready[w]))]
                ELSE queue
    /\ UNCHANGED <<sourceVars, clientVars, casting, sending, sent>>

\* PATCH of a device's active flag.
UpdateDevice(d) ==
    /\ active' = IF d \in active THEN active \ {d} ELSE active \cup {d}
    /\ UNCHANGED <<published, storing, round, echoed, clientVars, casting, ready, queue,
                   sending, sent>>

Next ==
    \/ \E w \in Streams : \/ List(w) \/ Register(w) \/ Leave(w)
                          \/ Cast(w) \/ Put(w) \/ Take(w) \/ Send(w)
    \/ \E d \in Devices : \/ Forward(d) \/ ForwardStored(d) \/ ForwardFails(d)
                          \/ OnMessage(d) \/ UpdateDevice(d)
    \/ Resume

Spec == Init /\ [][Next]_vars

\* Both threads run, and a send ends: the server's keep-alive pings close a
\* connection whose client no longer reads.
Fairness ==
    \A w \in Streams :
        /\ WF_vars(Cast(w)) /\ WF_vars(Put(w))
        /\ WF_vars(Take(w)) /\ WF_vars(Send(w))

FairSpec == Spec /\ Fairness

-----------------------------------------------------------------------------
(* Properties                                                              *)

\* README: "PLCs, registradores, mensagens, publicações e WebSockets herdam esse
\* isolamento": what waits for a client, or was sent to it, is of a device its
\* user owns.
StreamIsolation ==
    \A w \in Streams :
        \A item \in Range(ready[w]) \cup Range(queue[w]) \cup sending[w] \cup Range(sent[w]) :
            Owner[item.device] = UserOf[w]

\* Two items the client could compare: of one device, and both of the broker's
\* deliveries or both of to_forward's own broadcasts.
Alike(x, y) == x.device = y.device /\ (x.round = Own <=> y.round = Own)

Older(x, y) == x.round < y.round \/ (x.round = y.round /\ x.n < y.n)

\* A client gets the readings of a device in order: those to_forward broadcasts
\* itself at most once each, those the broker delivers at most once in each
\* round, and none of a round after one of a later round, whatever is dropped
\* and however the two threads interleave.
SentInOrder ==
    \A w \in Streams : \A i, j \in DOMAIN sent[w] :
        i < j /\ Alike(sent[w][i], sent[w][j]) => Older(sent[w][i], sent[w][j])

\* A client that stays connected is sent what was broadcast to it, or the item
\* was dropped at the full queue: nothing waits for ever.
StreamDrains ==
    \A w \in Streams :
        (ready[w] # <<>> \/ queue[w] # <<>>)
            ~> \/ ready[w] = <<>> /\ queue[w] = <<>> /\ sending[w] = {}
               \/ w \in gone

\* remove_ws_queue: "Chamado quando um cliente WebSocket desconecta."
GoneIsRemoved ==
    \A w \in Streams : w \in gone ~> stream[w] = "ended"

-----------------------------------------------------------------------------
(* The promise of the stream, as an abstract specification                 *)

\* What the walk of paho's thread has yet to schedule for a connection.
Casts(w) == {item \in Items : <<w, item>> \in casting}

\* A reading that to_forward is storing has not been announced by it.
Announced(d, r) ==
    IF r # Own THEN echoed[d][r]
    ELSE IF d \in storing THEN published[d] - 1 ELSE published[d]

toldBar == [d \in Devices |-> [r \in Rounds |-> Announced(d, r)]]
phaseBar == [w \in Streams |-> CASE stream[w] \in {"closed", "listed"} -> "new"
                                 [] stream[w] = "open" -> "open"
                                 [] stream[w] = "ended" -> "over"]
seesBar == [w \in Streams |-> IF phaseBar[w] = "new" THEN {} ELSE allowed[w]]
\* Wherever an item is between the walk and the socket, it is owed.
owedBar ==
    [w \in Streams |->
        IF stream[w] = "open"
        THEN Casts(w) \cup Range(ready[w]) \cup Range(queue[w]) \cup sending[w]
        ELSE {}]

Feed == INSTANCE StreamFeed WITH told <- toldBar, phase <- phaseBar,
                                 sees <- seesBar, owed <- owedBar, got <- sent

\* Two threads, the calls between them, bounded queues and coroutines that end
\* late implement feeds to which a reading is announced all at once.
FeedSpec == Feed!Spec
=============================================================================
