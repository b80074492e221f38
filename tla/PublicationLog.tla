--------------------------- MODULE PublicationLog ---------------------------
(***************************************************************************)
(* How the table `publications` comes to say that the broker confirmed a   *)
(* message.  Three actors share it:                                        *)
(*                                                                         *)
(*   - the event loop, where the REST handler publish_message or a TCP     *)
(*     session (ProtocolBridge.to_forward) calls CallbacksMQTTContrller    *)
(*     .publish, which hands the message to paho and schedules a task that *)
(*     INSERTs a row carrying paho's message id (mid);                     *)
(*   - paho's network thread, whose _on_publish callback schedules a task  *)
(*     that UPDATEs every row with the acknowledged mid;                   *)
(*   - PostgreSQL, where each task is a transaction of its own session     *)
(*     (READ COMMITTED), and a device deletion cascades.                   *)
(*                                                                         *)
(* A task is split at its awaits: statement, then commit.  The two tasks   *)
(* of one publication run on different pooled connections, so nothing      *)
(* orders the INSERT's commit before the UPDATE.                           *)
(***************************************************************************)
EXTENDS Naturals, FiniteSets

CONSTANTS
    Pubs,         \* calls of publish, over all lives of the process
    RestPubs,     \* those made by POST /api/v1/publish, the rest by to_forward
    Devices,      \* rows of table devices
    Target,       \* the device each publication is registered under
    MaxMid,       \* paho numbers messages 1..MaxMid, then wraps (65535)
    MaxRestarts   \* bound: restarts of the backend container

ASSUME PublicationAssumption ==
    /\ RestPubs \subseteq Pubs
    /\ Target \in [Pubs -> Devices]
    /\ MaxMid \in Nat \ {0}
    /\ MaxRestarts \in Nat

VARIABLES
    connected,    \* CallbacksMQTTContrller._connected
    lastMid,      \* paho's last message id; starts again at 0 with the process
    reused,       \* history: a mid may have been issued twice
    restarts,     \* restarts so far
    mid,          \* mid each publication was given, 0 before
    stage,        \* the handler and its _register_publication_async task
    message,      \* the message in paho
    confirm,      \* the _confirm_publication_async task of its acknowledgement
    hit,          \* rows the open UPDATE of that task matched, and locks
    row,          \* table publications: confirmed_in NULL is "awaiting"
    live          \* table devices

brokerVars == <<connected, lastMid, reused>>
tableVars == <<row, live>>
vars == <<connected, lastMid, reused, restarts, mid, stage, message, confirm,
          hit, row, live>>

Stages == {"new", "admitted", "authorized", "rejected", "scheduled",
           "inserted", "committed", "failed"}
\* "volatile": QoS 0, in the socket buffer; "held": QoS 1 or 2, kept by paho
\* until the broker answers.
Messages == {"none", "volatile", "held", "acked", "refused", "lost"}
Tasks == {"none", "scheduled", "updated", "committed", "failed"}
Rows == {"absent", "awaiting", "confirmed"}

TypeOK ==
    /\ connected \in BOOLEAN
    /\ lastMid \in 0..MaxMid
    /\ reused \in BOOLEAN
    /\ restarts \in 0..MaxRestarts
    /\ mid \in [Pubs -> 0..MaxMid]
    /\ stage \in [Pubs -> Stages]
    /\ message \in [Pubs -> Messages]
    /\ confirm \in [Pubs -> Tasks]
    /\ hit \in [Pubs -> SUBSET Pubs]
    /\ row \in [Pubs -> Rows]
    /\ live \in SUBSET Devices

Init ==
    /\ connected = FALSE
    /\ lastMid = 0
    /\ reused = FALSE
    /\ restarts = 0
    /\ mid = [p \in Pubs |-> 0]
    /\ stage = [p \in Pubs |-> "new"]
    /\ message = [p \in Pubs |-> "none"]
    /\ confirm = [p \in Pubs |-> "none"]
    /\ hit = [p \in Pubs |-> {}]
    /\ row = [p \in Pubs |-> "absent"]
    /\ live = Devices

-----------------------------------------------------------------------------
(* The event loop: handler and publish()                                   *)

\* publish_message reads mqtt.connected first: 503, or on to the await.
Admit(p) ==
    /\ p \in RestPubs
    /\ stage[p] = "new"
    /\ stage' = [stage EXCEPT ![p] = IF connected THEN "admitted" ELSE "rejected"]
    /\ UNCHANGED <<brokerVars, restarts, mid, message, confirm, hit, tableVars>>

\* search_device_by_topic: an owned active device lists the topic, or 404.
Authorize(p) ==
    /\ stage[p] = "admitted"
    /\ \/ Target[p] \in live /\ stage' = [stage EXCEPT ![p] = "authorized"]
       \/ stage' = [stage EXCEPT ![p] = "rejected"]
    /\ UNCHANGED <<brokerVars, restarts, mid, message, confirm, hit, tableVars>>

\* Mutant of NextMid: the id never wraps.
NextMidUnwrapped == lastMid + 1

\* paho's _mid_generate: the next message id.
NextMid == IF lastMid = MaxMid THEN 1 ELSE lastMid + 1

TakeMid ==
    /\ lastMid' = NextMid
    /\ reused' = (reused \/ lastMid = MaxMid)

\* What client.publish does with the message.  QoS 0 needs the link now; a
\* held message waits for it, unless its mid is still held by an older one
\* (MQTT_ERR_QUEUE_SIZE).  The caller looks at no return code.
Handed ==
    {IF connected THEN "volatile" ELSE "lost",
     IF \E q \in Pubs : message[q] = "held" /\ mid[q] = NextMid
     THEN "lost" ELSE "held"}

\* Mutant of Publish: a publication that could not be registered is published
\* again, under a second mid.
PublishAgain(p) ==
    /\ stage[p] \in {"authorized", "failed"} \/ (stage[p] = "new" /\ p \notin RestPubs)
    /\ TakeMid
    /\ mid' = [mid EXCEPT ![p] = NextMid]
    /\ \E m \in Handed : message' = [message EXCEPT ![p] = m]
    /\ stage' = [stage EXCEPT ![p] = "scheduled"]
    /\ UNCHANGED <<connected, restarts, confirm, hit, tableVars>>

\* publish(): no await between client.publish and the scheduling of the
\* register task, and connected is not read again.
Publish(p) ==
    /\ stage[p] = "authorized" \/ (stage[p] = "new" /\ p \notin RestPubs)
    /\ TakeMid
    /\ mid' = [mid EXCEPT ![p] = NextMid]
    /\ \E m \in Handed : message' = [message EXCEPT ![p] = m]
    /\ stage' = [stage EXCEPT ![p] = "scheduled"]
    /\ UNCHANGED <<connected, restarts, confirm, hit, tableVars>>

-----------------------------------------------------------------------------
(* _register_publication_async                                             *)

\* db.add and flush: the foreign key to devices holds, or the INSERT fails.
RegisterInsert(p) ==
    /\ stage[p] = "scheduled"
    /\ stage' = [stage EXCEPT ![p] = IF Target[p] \in live
                                     THEN "inserted" ELSE "failed"]
    /\ UNCHANGED <<brokerVars, restarts, mid, message, confirm, hit, tableVars>>

\* db.commit: the row becomes visible to other transactions.
RegisterCommit(p) ==
    /\ stage[p] = "inserted"
    /\ stage' = [stage EXCEPT ![p] = "committed"]
    /\ row' = [row EXCEPT ![p] = "awaiting"]
    /\ UNCHANGED <<brokerVars, restarts, mid, message, confirm, hit, live>>

\* Any exception: logged, rolled back, never retried.
RegisterFails(p) ==
    /\ stage[p] \in {"scheduled", "inserted"}
    /\ stage' = [stage EXCEPT ![p] = "failed"]
    /\ UNCHANGED <<brokerVars, restarts, mid, message, confirm, hit, tableVars>>

-----------------------------------------------------------------------------
(* _on_publish and _confirm_publication_async                              *)

\* PUBACK or PUBCOMP with 0x00 or 0x10, or a QoS 0 packet written out.
OnPublish(p) ==
    /\ connected
    /\ message[p] \in {"volatile", "held"}
    /\ message' = [message EXCEPT ![p] = "acked"]
    /\ confirm' = [confirm EXCEPT ![p] = "scheduled"]
    /\ UNCHANGED <<brokerVars, restarts, mid, stage, hit, tableVars>>

\* Mutant of OnPublishRefused: the reason code is not looked at.
OnPublishAnyReason(p) ==
    /\ connected
    /\ message[p] = "held"
    /\ message' = [message EXCEPT ![p] = "refused"]
    /\ confirm' = [confirm EXCEPT ![p] = "scheduled"]
    /\ UNCHANGED <<brokerVars, restarts, mid, stage, hit, tableVars>>

\* Any other reason code is logged and nothing else.
OnPublishRefused(p) ==
    /\ connected
    /\ message[p] = "held"
    /\ message' = [message EXCEPT ![p] = "refused"]
    /\ UNCHANGED <<brokerVars, restarts, mid, stage, confirm, hit, tableVars>>

\* Mutant of Matching: the UPDATE has no WHERE.
MatchingAll(m) == {q \in Pubs : row[q] # "absent"}

\* Rows the UPDATE ... WHERE mid = :mid sees: committed ones.
Matching(m) == {q \in Pubs : row[q] # "absent" /\ mid[q] = m}

\* Rows locked by an UPDATE that has not committed yet.
Locked == UNION {hit[q] : q \in Pubs}

ConfirmUpdate(p) ==
    /\ confirm[p] = "scheduled"
    /\ Matching(mid[p]) \cap Locked = {}
    /\ confirm' = [confirm EXCEPT ![p] = "updated"]
    /\ hit' = [hit EXCEPT ![p] = Matching(mid[p])]
    /\ UNCHANGED <<brokerVars, restarts, mid, stage, message, tableVars>>

\* Mutant of ConfirmCommit: the task ends without its commit.
ConfirmNotCommitted(p) ==
    /\ confirm[p] = "updated"
    /\ confirm' = [confirm EXCEPT ![p] = "committed"]
    /\ hit' = [hit EXCEPT ![p] = {}]
    /\ UNCHANGED <<brokerVars, restarts, mid, stage, message, tableVars>>

ConfirmCommit(p) ==
    /\ confirm[p] = "updated"
    /\ confirm' = [confirm EXCEPT ![p] = "committed"]
    /\ row' = [q \in Pubs |-> IF q \in hit[p] THEN "confirmed" ELSE row[q]]
    /\ hit' = [hit EXCEPT ![p] = {}]
    /\ UNCHANGED <<brokerVars, restarts, mid, stage, message, live>>

ConfirmFails(p) ==
    /\ confirm[p] \in {"scheduled", "updated"}
    /\ confirm' = [confirm EXCEPT ![p] = "failed"]
    /\ hit' = [hit EXCEPT ![p] = {}]
    /\ UNCHANGED <<brokerVars, restarts, mid, stage, message, tableVars>>

-----------------------------------------------------------------------------
(* The link, the device table and the process                              *)

\* CONNACK success; _subscribe_topics sends one SUBSCRIBE, which takes a mid.
OnConnect ==
    /\ ~connected
    /\ connected' = TRUE
    /\ TakeMid
    /\ UNCHANGED <<restarts, mid, stage, message, confirm, hit, tableVars>>

\* The link drops: paho forgets QoS 0 packets and keeps the held messages.
OnDisconnect ==
    /\ connected
    /\ connected' = FALSE
    /\ message' = [p \in Pubs |-> IF message[p] = "volatile" THEN "lost"
                                  ELSE message[p]]
    /\ UNCHANGED <<lastMid, reused, restarts, mid, stage, confirm, hit, tableVars>>

\* Mutant of DeleteDevice: no cascade.
DeleteDeviceOnly(d) ==
    /\ d \in live
    /\ \A p \in Pubs : Target[p] = d => stage[p] # "inserted" /\ p \notin Locked
    /\ live' = live \ {d}
    /\ UNCHANGED <<brokerVars, restarts, mid, stage, message, confirm, hit, row>>

\* DELETE of a device, with ON DELETE CASCADE on publications.device_id.  It
\* waits for the transactions that reference the device or its rows.
DeleteDevice(d) ==
    /\ d \in live
    /\ \A p \in Pubs : Target[p] = d => stage[p] # "inserted" /\ p \notin Locked
    /\ live' = live \ {d}
    /\ row' = [p \in Pubs |-> IF Target[p] = d THEN "absent" ELSE row[p]]
    /\ UNCHANGED <<brokerVars, restarts, mid, stage, message, confirm, hit>>

\* The process dies and the container is restarted: requests, tasks, open
\* transactions and paho's queue are gone, the tables stay.
Restart ==
    /\ restarts < MaxRestarts
    /\ restarts' = restarts + 1
    /\ connected' = FALSE
    /\ lastMid' = 0
    /\ reused' = (reused \/ lastMid > 0)
    /\ stage' = [p \in Pubs |->
                    CASE stage[p] \in {"admitted", "authorized"} -> "rejected"
                      [] stage[p] \in {"scheduled", "inserted"} -> "failed"
                      [] OTHER -> stage[p]]
    /\ message' = [p \in Pubs |-> IF message[p] \in {"volatile", "held"}
                                  THEN "lost" ELSE message[p]]
    /\ confirm' = [p \in Pubs |-> IF confirm[p] \in {"scheduled", "updated"}
                                  THEN "failed" ELSE confirm[p]]
    /\ hit' = [p \in Pubs |-> {}]
    /\ UNCHANGED <<mid, tableVars>>

Next ==
    \/ \E p \in Pubs :
         \/ Admit(p) \/ Authorize(p) \/ Publish(p)
         \/ RegisterInsert(p) \/ RegisterCommit(p) \/ RegisterFails(p)
         \/ OnPublish(p) \/ OnPublishRefused(p)
         \/ ConfirmUpdate(p) \/ ConfirmCommit(p) \/ ConfirmFails(p)
    \/ \E d \in Devices : DeleteDevice(d)
    \/ OnConnect \/ OnDisconnect \/ Restart

Spec == Init /\ [][Next]_vars

\* The event loop runs every scheduled task and PostgreSQL answers every
\* statement.  Nothing is assumed of the broker, the link or the clients.
TaskFairness ==
    \A p \in Pubs :
        /\ WF_vars(RegisterInsert(p)) /\ WF_vars(RegisterCommit(p))
        /\ WF_vars(ConfirmUpdate(p)) /\ WF_vars(ConfirmCommit(p))

FairSpec == Spec /\ TaskFairness

-----------------------------------------------------------------------------
(* Properties                                                              *)

\* A row is shown as confirmed only if the broker acknowledged a publication
\* that carried the row's mid: no failed reason code, lost packet or crash
\* stamps confirmed_in (_on_publish, confirm_publication).
ConfirmedHasAck ==
    \A p \in Pubs : row[p] = "confirmed" =>
        \E q \in Pubs : message[q] = "acked" /\ mid[q] = mid[p]

\* As long as paho has neither wrapped its ids nor been restarted, that
\* acknowledgement is the publication's own: `WHERE mid = :mid` singles out
\* one row through every reordering of the tasks.
ConfirmedIsOwnUntilReuse ==
    ~reused => \A p \in Pubs : row[p] = "confirmed" => message[p] = "acked"

\* No row survives its device: neither the INSERT racing a DELETE nor a
\* confirmation committed late leaves one behind (the cascade of
\* publications.device_id).
NoRowOutlivesDevice ==
    \A p \in Pubs : row[p] # "absent" => Target[p] \in live

\* A row that is already visible when its acknowledgement arrives does get
\* its confirmed_in, unless the task fails or the device goes.
VisibleRowIsConfirmed ==
    \A p \in Pubs :
        (row[p] = "awaiting" /\ confirm[p] = "scheduled")
            ~> (row[p] \in {"confirmed", "absent"} \/ confirm[p] = "failed")

\* list_publications: "`confirm_in` (null = aguardando PUBACK/PUBCOMP do
\* broker)": once the acknowledgement has been fully processed the row no
\* longer says that it is awaited.
NullMeansAwaiting ==
    \A p \in Pubs : row[p] = "awaiting" => confirm[p] # "committed"

\* publish_message: "a confirmação real chega no callback `on_publish`, que
\* atualiza o campo `confirm_in`": a row is confirmed by its own
\* acknowledgement.
ConfirmedMeansOwnAck ==
    \A p \in Pubs : row[p] = "confirmed" => message[p] = "acked"

-----------------------------------------------------------------------------
(* The promise of the table, as an abstract specification                  *)

\* A committed row that is gone again was purged with its device.
entryBar == [p \in Pubs |-> IF stage[p] = "committed" /\ row[p] = "absent"
                            THEN "purged" ELSE row[p]]
ackedBar == {p \in Pubs : message[p] = "acked"}

Ledger == INSTANCE PublicationLedger
              WITH entry <- entryBar, acked <- ackedBar, tag <- mid

\* The tasks, in any order and through any crash, implement the ledger.
LedgerSpec == Ledger!Spec
=============================================================================
