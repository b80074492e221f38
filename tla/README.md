# A verification of the IoT gateway backend

This directory holds TLA+ models of the backend in `app/`, the TLC runs that
check them on small instances, and proofs, checked by TLAPS, that their safety
properties hold for all instances. Paths and line numbers below are those of
this repository. `PROJECT.json` maps every definition to the lines it models.

## The system

A FastAPI process (one event loop) serves a REST API and a WebSocket stream,
accepts JSON frames over TCP from devices, speaks MQTT v5 to a Mosquitto broker
through paho (whose network thread runs the callbacks), and keeps everything in
PostgreSQL through SQLAlchemy's asyncio sessions.

| Component | State | Operations | Interacts with |
|---|---|---|---|
| MQTT client, publishing (`callbacks_mqtt_controller.py`, `message_controller.py`) | `_connected`; paho's message ids and queues; table `publications` | `publish`, `_register_publication_async`, `_on_publish`, `_confirm_publication_async`, `_on_connect`, `_on_disconnect` | called by `POST /publish` and `to_forward`; callbacks on paho's thread schedule tasks on the loop |
| MQTT client, receiving | table `received_messages` | `_on_message`, `_save_message_async` | the broker delivers, again after a resumed session; writes `devices.status` |
| TCP gateway (`tcp_gateway.py`) and bridge (`protocol_bridge.py`) | one session per connection, with the device it authenticated | authenticate, data, batch, ping, disconnect, idle timeout; `to_forward` | publishes by MQTT, stores, broadcasts |
| Device registry and presence (`device_controller.py`, `router_devices.py`, monitor in `main.py`) | table `devices`: owner, `active`, `api_key_hash`, `status`, `last_contact` | register, update, delete, renew, `update_status`, `update_offline_devices` | every other component reads it; deletion cascades |
| Live stream (`/api/v1/ws` in `main.py`, `_ws_queues`) | a bounded queue per connection, the ids it may see | connect, broadcast from either thread, send, leave | fed by `_on_message` and `to_forward` |
| PLC status probes (`plc_health.py`) | `_cache`, `_locks` | `check_plc` | `GET /plcs/status`, `GET /plcs/{id}/status`; the PLC itself |
| PLC and register maps (`plc_controller.py`, `router_plcs.py`) | tables `plcs`, `map_registers` | CRUD, bulk, CSV | triggers reloads of the Modbus map |
| Modbus gateway (`modbus_gateway.py`, `gateway_runtime.py`) | `map`, the datastore built at start | start, stop, reload, `setValues` | `to_forward` |
| Users and tokens (`user_controller.py`, `router_users.py`, `router_auth.py`, `auth/`) | tables `users`, `refresh_tokens` | register, login, refresh, logout, change of password, deactivation | every route authenticates |
| Database pool (`config/database.py`) | 5 + 10 pooled connections | acquire, release, time out | all of the above |
| Lifespan (`main.py`) | the running services | startup, shutdown | all gateways |
| Broker bootstrap (`mosquitto/docker-entrypoint-secure.sh`) | CA, server key and certificate | generate, renew | the broker |

What makes this code hard to get right is not in any one of its functions: two
threads, tasks that only meet in the database, transactions split by awaits,
a broker that delivers late, twice or not at all, and a process that may be
restarted between any two steps. The hazards are listed, each at its line, in
`PROJECT.json`.

What makes each part correct:

- publications: a row is confirmed only because the broker answered for it;
- reception: a message is stored under a device that exists; a device that is
  suspended or silent is not shown as online, one that just spoke not as offline;
- stream: a client sees its user's devices only, in the order of the broker's
  deliveries, and is sent what its queue could take;
- status probes: a PLC is probed by one request at a time, in the order of their
  coming, and what a request is told is fresh;
- PLC registry: rows never lose their parent; Modbus map: it ends up equal to the
  tables;
- users: a change of password leaves no older token valid, but for those that raced
  it; a token is revoked by its user; a deactivated account stays so;
- pool: who waits for a client holds no connection, who waits for a connection
  holds those of its own request only, and nobody waits for ever;
- TCP sessions: of an acknowledged batch every reading that has a metric is stored,
  a batch that fails leaves at most one reading published and not stored;
- lifespan: what others use outlives them, and a shutdown comes to its end;
- broker: it serves the certificate of its key and host, and comes up again
  wherever an earlier start was cut off.

## Modules

| Module | Models |
|---|---|
| `PublicationLog` | table `publications` and all who write it |
| `PublicationLedger` | what that table promises, without tasks and threads |
| `DeviceIngest` | both ways into `received_messages`, presence, device routes, monitor |
| `MessageStore` | what `devices` and `received_messages` promise, without transactions and locks |
| `DeviceStream` | from a message to the WebSocket clients |
| `StreamFeed` | what a stream promises its client, without threads, queues and coroutines |
| `PlcHealth` | `check_plc` with its cache and locks |
| `ModbusMap` | routes over `plcs` and `map_registers`, reloads, the gateway's map and datastore |
| `BackendTasks` | which task of the loop holds which pooled connection |
| `UserSessions` | tables `users` and `refresh_tokens`, and the requests over them; extends `BackendTasks` |
| `AccountBook` | what those tables promise, without requests and transactions |
| `TcpSessions` | sessions of the TCP gateway, frames and batches; extends `BackendTasks` |
| `BrokerBootstrap` | the entrypoint of the Mosquitto container |
| `Deployment` | composes the four: startup, the shared pool, streams, scheduled coroutines, the monitor, shutdown |
| `MC...` | an instance of each for TLC |
| `PublicationLogProofs`, `PublicationLedgerProofs`, `DeviceStreamProofs`, `ModbusMapProofs`, `DeploymentProofs`, `UserSessionsProofs`, `DeviceIngestProofs`, `PlcHealthProofs` | theorems |

Operators whose comment begins with "Mutant of" are no part of a
specification: each is an action or helper as a plausible mistake would have
it, and shows that a property notices.

### PublicationLog

`stage[p]` follows one call of `publish`: the handler (`new`, `admitted` after
the test of `mqtt.connected`, `authorized` after the device lookup) and the task
`_register_publication_async` (`scheduled`, `inserted`, `committed`, `failed`).
`confirm[p]` follows the task of its acknowledgement. Each await of a database
statement ends a step, so the two tasks interleave as two pooled connections
do; `hit[p]` holds the rows an open UPDATE has locked. `message[p]` is paho's
and the broker's part: QoS 0 is lost with the link, QoS 1 and 2 are held until
answered, and an answer may be a refusal. `lastMid` wraps at `MaxMid` and starts
again with the process; `_subscribe_topics` takes one too. `reused` and
`message` are the history the properties need. `DeleteDevice` is the cascade,
waiting for row locks as PostgreSQL does. `Restart` drops whatever lives in
memory.

`PublicationLedger` is the abstract specification: an entry is recorded once,
confirmed only under a tag the broker has answered, purged with its device and
never anything else. `LedgerSpec` is that specification under the refinement
mapping of `PublicationLog`: a task's awaits, threads and locks disappear, and a
committed row that is gone maps to `purged`.

### DeviceIngest

A reading takes the TCP way (`Forward`, then the transaction of `to_forward`:
INSERT, `update_status`, commit) or the MQTT way (`Send`, `OnMessage`, then the
transaction of `_save_message_async`: lookup, `update_status`, INSERT, commit,
or an INSERT with a NULL device). TCP readings come back through the broker as
the backend subscribes to what it publishes. A QoS 1 reading may be delivered
again (`Redelivered`): the client connects with a session expiry of 300 s and
paho asks for a clean session on its first connection only. That each reading
comes again once is a bound: the code makes a row of every copy, and a third would
meet the device's row as the second does. UPDATEs lock the
device's row until their transaction ends (`stamp` is what they have written),
INSERTs keep it from deletion, and everything shows at commit. Time is the age
of `last_contact`, up to `Timeout`, the age at which the monitor acts. The
monitor's UPDATE is two steps, as READ COMMITTED selects rows first and looks
again at those it had to wait for. `authKey` is the key a session authenticated
with.

`MessageStore` is its abstract specification: a copy of a reading is stored under
its device, stored without one or given up, once and for all, and storing it and
noting the contact of its device are one step. `StoreSpec` says that the
transactions, with their locks, their lookups a statement earlier and their
restarts, come to no more than that. The mapping leaves devices, presence and
tables as they are and calls a copy `settled` once its transaction is `done` or
`failed`.

### DeviceStream

The walk of paho's thread over the registry is `casting` (what it has yet to
hand to the loop); `ready` is what `call_soon_threadsafe` has scheduled, `queue`
the client's `asyncio.Queue`, `sending` the item its coroutine holds, `sent` what
the client got. `Put` is `put_nowait` on the loop, where a full queue raises and
the item is dropped. A reading is broadcast by `to_forward` and by each of its
deliveries by the broker, which are grouped in rounds: within one a device's
readings come in the order of their publication, some missing; `Resume` begins the
next, in which any of them may come once more. A resumed QoS 1 session may bring
two rounds, what the broker delivers again and what paho publishes again, and this
at each resumption: `MaxRounds` is a bound for TLC, the proofs hold for any number.
So what a client may rely on is the order within a round and that of the rounds,
not that a reading comes once; the round is part of the item (`Own` for the
broadcasts of `to_forward`). `ready` has no bound: while the loop is busy, paho's
thread schedules call after call, and only `queue` drops.

`StreamFeed` is its abstract specification: from one instant on, a reading is owed
to every open feed that may see its device; a feed delivers what it owes, the
older first, and forgets an item only when `MaxQueue` others wait, or when it
closes. `FeedSpec` maps what is on the way to a client at any of the four places
(`casting`, `ready`, `queue`, `sending`) to what its feed owes: paho's thread has
copied the registry by then, so that a client that registers while it walks owes
nothing, and one that leaves while it walks owes nothing any more.

### PlcHealth

`pc[r]` follows a request through the test before the lock, the wait, the test
under it and the probe. `seen[r]` is the local `cached`. The lock is a holder and
a FIFO queue, with the two ways of `asyncio.Lock`: taken at once when free and
nobody waits, else handed to the first waiter in a later turn.

### ModbusMap

A route looks its PLC up (`FindPlc`, step `found`) and writes after an await. The
write and its commit are one action: each is a single statement, whose WHERE,
foreign key or ON CONFLICT clause looks at the rows as they are then, and which
others see at its commit. Then `step[r]` follows the reload: `replying` while
the handler runs its last query, `scheduled` once the response carries the
background task, `read` between the SELECT and the assignment to `map`. `served`
is what `_build_context` made of the map at `Start`. A register is named by its
PLC and address (`type` is part of the address); `value` stands for what a PATCH
or an import changes. `version`, `change`, `readAt`, `mapAt`, `wanted` and `lost`
are history: they number the changes of what the map should hold, and say which
of them a request, a snapshot and the map carry. The gateway is modelled as
enabled; disabled, `reload_map_modbus` returns at once. An UPDATE that matches no
row changes nothing, and its reload is added but never run: the row that the
handler then answers with is `None`, which no response model takes, and a request
that fails runs no background task (`RequestFails`).

### BackendTasks

`op[t]` is what a task runs, `step[t]` how far it is, `out` the sessions that hold
one of the pool's connections. A session takes one at its first statement, not
when it is opened, and gives it back at its commit or its end. Every router has a
`get_db` of its own, so FastAPI does not share the session of `get_current_user`
with the route: an authenticated request holds the connection of its
authentication (`"auth"`) until it is over, and asks for a second (`"own"`). It is
over when its background task is: FastAPI (0.136.1 in `uv.lock`) runs that before
it closes the sessions of the request, so where the Modbus gateway is enabled a
route that adds a reload (`"write"`) asks for a connection for it (`"reload"`)
while it holds one, or two if it has read again after its commit. `GivesUp` is the
pool's timeout. A request is one whose body has come, and sending the response is
part of the handler's last step.

### UserSessions

One action per awaited statement. `WriteUser` takes the lock of the user's row
(`RowFree`), `SelectTokens` finds the tokens that an UPDATE of `refresh_tokens`
revokes (`rows`), `CommitLogin`, `CommitPatch` and `CommitRevocation` make visible
what was written. A login verifies the password in the step of its SELECT and
inserts its token later. `under`, `excused` and `missed` are history: the password a
token was issued under; the tokens of logins that raced a change of password,
because the change had committed when the token was inserted, or because it had
looked for tokens before and committed after; and what each change has missed so
far, which becomes excused if it commits and is forgotten if it fails. An access token is a user who ever had a refresh token: both are made
together, and access tokens carry no `exp`. `"read"` and `"write"` stand for the
authenticated routes of the other routers, without and with a reload. A task holds the lock of its user's row (`HoldsRow`)
from its UPDATE to its commit or its failure.

`AccountBook` is its abstract specification: each request that writes to the
tables does so in one step, in view of them as they are then, and a change of
password replaces it and revokes the user's tokens at once, but for those of
logins that raced it. `BookSpec` says that the statements of the requests come to
no more than that; the tables and the history are mapped to themselves, so a step
that only reads, waits or holds a lock is a stutter.

### TcpSessions

`frame` is the places of the readings of the frame in hand that have a metric,
`published` and `stored` those that have gone each way. A reading without a metric
is passed over in silence (`tcp_gateway.py:159-161`), and the ack counts those that
were stored, so a client that does not compare the counts takes a reading for
stored that was not. `answering` is the wait for `drain()`, which
the client decides; `greeting` and `reading` are waits that time out.

### BrokerBootstrap

The entrypoint file by file: `ca`, `key`, `crt` and the host `marker` are in a
volume, `at` is the line the container has come to. `openssl` empties a file
before it fills it, so each takes two steps, and `Stop` and `ChangeHost` may come
between any two. Of a certificate its host, whether it certifies the present key,
whether it is signed by the present CA and whether it is `fresh` for 30 days
count. `renewing` and `undone` are history.

### Deployment

`phase` is how far `lifespan` is: `off`, `linked` (mqtt.start has connected),
`listening` (the TCP gateway takes sessions; the connection of the first reload is
left out), `up`,
`draining` (uvicorn takes no more requests), `closing` (`tcp_gw.stop` waits),
`unlinked` (mqtt.stop is done), `down`. A task of `Tasks` is at one time a request,
a TCP session, a stream or a coroutine that paho's thread or a handler has
scheduled. What a reading or a message does to devices, publications and streams
is in the other modules; here it counts for its connection.

## Runs

| Run | Shows |
|---|---|
| `publications` | type, `ConfirmedHasAck`, `ConfirmedIsOwnUntilReuse`, `NoRowOutlivesDevice`, the ledger, and that a row visible in time is confirmed |
| `publications_null` | a row may stay unconfirmed after its acknowledgement was processed (finding) |
| `publications_ownack` | an acknowledgement may confirm another publication (finding) |
| `ingest` | type, `StoredUnderLiveDevice`, `InactiveNotRevived`, `OfflineOnlyWhenSilent`, `SilentGoesOffline`, the message store |
| `ingest_renewed` | the session of a renewed key goes on (finding) |
| `stream` | type, `StreamIsolation`, `SentInOrder`, `StreamDrains`, the feed |
| `stream_gone` | a client that left is not removed (finding) |
| `health` | type, `OneProbePerPlc`, `AnswerIsOwnOrRecent`, `NoOvertaking`, `EveryRequestAnswered` |
| `health_recheck` | a waiter probes although the cache is fresh (finding) |
| `modbus` | type, `NoOrphans`, `StaleHasCause`, `StaleMapHeals` |
| `modbus_datastore` | the datastore never follows the map (finding) |
| `deployment` | type, `OldPasswordTokensRaced`, `OnlyOwnerRevokes`, `DeactivationIsFinal`, `WritersTakeTurns`, the account book, `HoldsWhatItUses`, `RequestsAnswered`, `BatchAccounted`, `LinkOutlivesSessions`, `ShutdownEnds`, `ServedCertificateIsCurrent`, `BrokerComesUp` |

Runs without deadlock checking are those whose system may really stop: all
requests answered, all readings processed and the clock at its bound, or the
backend shut down.

### Bounds

- `publications`: two publications of two devices, one by REST and one by TCP;
  `MaxMid` 3, so that ids wrap with the SUBSCRIBE that also takes one;
  one restart (`MaxRestarts`). Confusing rows takes two of them, whatever the
  number of ids.
- `ingest`: one device, one TCP session, a TCP and an MQTT reading; with echo and
  one redelivery of each, four transactions meet on the row. `Timeout` 1, `MaxKeys` 1,
  `MaxRestarts` 1. Rows of different devices never meet in a statement.
- `stream`: one device, a client of its owner and one of another user, who connects
  before the first reading and stays, as nothing must reach it whatever it does;
  `MaxReadings` 2, their own broadcasts and `MaxRounds` 3 rounds make eight items
  for a queue of two (`MaxQueue`). Three rounds are the fewest in which one lies
  between two others.
- `health`: three requests of one PLC (one to hold, one to wait, one to come),
  one of them forced; `TTL` 2, `MaxTime` 3, `MaxVersion` 1. PLCs share nothing.
- `modbus`: one PLC with a register of two values, two requests; `MaxVersion` 4,
  three changes of the tables after the first state, one more than an older
  reload needs to overtake a newer one; `MaxRestarts` 1. Registers meet only in a
  bulk import, PLCs in the cascade of a device: the proofs cover any number.
- `deployment`: four tasks and the monitor over a pool of four (`PoolSize`). An
  authenticated request takes two connections, so with a pool of two, two of them
  could never meet at the tables: none would ever wait for a row's lock, and no
  login would race a change of password. With four, two requests run side by side
  through every pair of their statements, and four use the pool up with the
  connections of their authentication and wait for each other until the timeout.
  The third and fourth task are there for that: they only read, and come when the
  first two wait for a connection, or for the one a PATCH reads again with, so that
  it finds the pool used up. A `"write"` meets only others and `"read"`s: two of
  them take all four connections and wait for a third each. One user registers and
  makes all requests, a second one's token must stay as it is; two passwords, three
  tokens, `MaxBatch` 2, two hosts and `MaxTroubles` 3 (a stop, a change of host and
  back). `MCNext` names what else is left out: it lets the backend start from a
  broker without troubles, as it looks at nothing but whether it serves, and brings
  in what looks at no table of users only with few rows in them. No bound is put on
  an action that must happen, except which user a request is of, and that the second
  token is made
  after the first. The proofs take any number of tasks, users, tokens and
  connections.

### Fairness

- `TaskFairness` (publications): the loop runs scheduled tasks and PostgreSQL
  answers. Nothing is asked of broker, link or clients.
- `Fairness` (ingest): time passes; the monitor's loop goes on after any
  exception (`main.py:105-111`); PostgreSQL ends every transaction, one way or
  the other. Weak fairness is enough for the monitor because it only waits for
  rows it has selected; nothing is asked of devices or the broker.
- `Fairness` (stream): both threads run; a send ends, as the server's keep-alive
  pings close a dead connection. A waiting client that left is *not* made to
  notice: that is the finding.
- `LoopFairness` (health): the loop resumes what is ready; a probe ends by its
  timeout (`wait_for`, or pymodbus's own).
- `MapFairness` (modbus): the loop runs scheduled reloads and PostgreSQL answers or
  fails; the container is restarted (`compose.yml:6`). Nothing is asked of clients.
- `Fairness` (deployment): the loop runs what is ready, PostgreSQL answers, timeouts
  (the pool's, `AUTH_TIMEOUT`, `IDLE_TIMEOUT`) are raised, the broker's container is
  restarted (`compose.yml:72`). It is strong for `UpdateStep`, which waits for a
  row's lock: PostgreSQL queues those who wait, so none is passed over for ever.
  Nothing is asked of clients, whether to send, to read or to leave: where a
  shutdown depends on them, `ShutdownEnds` says so.

## Findings

1. **A confirmation may be lost** (`publications_null`). `publish` schedules the
   INSERT after handing the message to paho; the acknowledgement's UPDATE may run
   before that INSERT commits, matches nothing, and is never repeated. The row
   says "awaiting" for ever (`main.py:325`).
2. **A confirmation may hit another row** (`publications_ownack`). `WHERE mid = :mid`
   (`message_controller.py:114`) also matches rows of an earlier round of ids or
   an earlier life of the process.
3. **The recheck under the lock tests the wrong variable** (`health_recheck`):
   `cached` instead of `caches` (`plc_health.py:76-78`), so a burst of requests
   probes the PLC once each.
4. **A renewed key does not end sessions** (`ingest_renewed`): a TCP session keeps
   the device it authenticated.
5. **A client that leaves is not noticed** (`stream_gone`) until the next item is
   sent to it; its queue stays registered.
6. **The Modbus datastore is never rebuilt** (`modbus_datastore`): `lifespan` starts
   the gateway, which builds its datastore from an empty map, and loads the map
   after; `reload_map_modbus` only assigns `map`, though its docstring says that it
   rebuilds the datastore (`gateway_runtime.py:35`). No mapped register is ever
   served.

Seen while reading, without a run of their own: the probe cache does not
distinguish deep checks, so one may be answered by a result that read no
register (`router_plcs.py:122`); a device suspended while online keeps that status
(`device_controller.py:194`); the PATCH of a PLC
reloads nothing (`router_plcs.py:161-177`, the one excuse of `StaleHasCause` that
takes no failure or race); nothing stops a second PLC of a device, against
`router_plcs.py:70`; a bulk import leaves a suspended register suspended; commands
sent by REST come back and mark a silent device online; `_on_writing` is a coroutine called without await
(`modbus_gateway.py:55`); `delete_own_account` and `delete_all_registers` use names
that do not exist; `clean_expired_refresh_tokens` has no caller.

And around `Deployment`:

- A login that verified the old password before a change of password commits, and
  inserts its token after the UPDATE that revokes has looked, keeps a valid token,
  against `router_users.py:92`. `OldPasswordTokensRaced` shows that no other way leads there.
- Two changes of password that authenticated with the same current one both
  succeed; a PATCH under way when an account is deactivated may reactivate it.
- The PATCH of a user reads again after its commit: with the pool used up it
  answers 500 for what is done (`router_users.py:76`), and if another PATCH commits
  in between it answers with what that one has written. `WritersTakeTurns` is about
  the row, not about these answers.
- `chande_own_password` (`router_users.py:141`) is never reached: the path of
  `change_password` takes its requests.
- Access tokens have no `exp` (`user_auth.py:27-31`), against
  `ACCESS_EXPIRE_MIN`, which is only reported.
- With the pool used up for 30 s, `_save_message_async` fails and its message,
  acknowledged already, is gone; so is what is still scheduled when the engine is
  disposed of.
- A stream without messages and a TCP client that does not read hold up a
  shutdown until Docker's 10 s grace is over and the process is killed. So does a
  request whose body never comes, which is not modelled.
- A host that is changed and changed back is the one gap of the entrypoint: a
  renewal for host B that is cut off after the key, followed by a start for A,
  whose marker still matches, keeps the new key with A's old certificate, and
  mosquitto exits at each start; cut off after the certificate, it serves B's
  for A.

## Proofs

TLAPS checks, for every value of the constants that satisfies the named
assumptions (`PublicationAssumption`, `StreamAssumption`, `MapAssumption`,
`PoolAssumption`, `BatchAssumption`, `UserAssumption`, `BrokerAssumption`,
`IngestAssumption`, `HealthAssumption`):

- `PublicationLogProofs`: `Invariance`, an inductive invariant `Inv`, and from it
  `TypeCorrect`, `ConfirmationNeedsAck`, `ConfirmationIsOwn`, `CascadeIsComplete`.
  None of these is inductive alone. That a row is confirmed by an
  acknowledgement of its mid needs that a confirm task exists only for an
  acknowledged message, that an open UPDATE has locked rows of its own mid only,
  and that a visible row has a mid, which never changes. That it is its *own*
  needs, until `reused`, that all ids handed out are distinct and at most
  `lastMid`. That no row outlives its device needs that an INSERT not yet
  committed and the rows of an open UPDATE hold the device.
- `PublicationLedgerProofs`: `ImplementsLedger`. Initial states map to initial
  states; each action maps to one of the ledger's or to a stutter, under `Inv`.
  `LedgerSuffices` goes the other way: the ledger alone implies `ConfirmedHasAck`,
  so the abstraction has kept what a reader of the table relies on.
- `DeviceStreamProofs`: `Invariance`, then `StreamTypeCorrect`, `StreamsAreIsolated`,
  and `StreamsAreInOrder`. Isolation needs that what a connection
  may see, and what paho's walk is about to hand over, belongs to its user. Order
  needs it at each of the places a message passes (`casting`, `ready`, `queue`,
  `sending`, `sent`) and from each to the next (`OrderAt`), that paho's thread walks
  with one message at a time (`OneCast`), and that nothing broadcast is newer than
  what its round has told (`Known`), of which those to come have told nothing.
  `ImplementsFeed` says that it refines `StreamFeed`. An item that is dropped leaves
  `MaxQueue` others in the queue, which are all different because they are in order;
  and nothing is on its way to a client before it is registered, nor does its
  coroutine hold an item after its end (`QuietUnlessOpen`), or opening and closing
  would not be steps of a feed. `FeedSuffices`: the feed
  alone implies isolation and order of what is sent.
- `ModbusMapProofs`: `Invariance`, then `MapTypeCorrect`, `ReferencesAreWhole` and
  `StaleMapHasCause`. The last one needs an account of the last wanted change: a
  request still brings it, or the map shows it, or it was lost; and that a
  snapshot read after it is what the tables say until they change again.
- `DeploymentProofs`: every step of `Deployment` is a `Move` of one task (`Moves`),
  whichever of its modules makes it, so what a step does to `op`, `step` and `out`
  is looked at once. `ConnectionsAreUsed` (`HoldsWhatItUses`: a task has the connections
  its step needs; while it waits for a client it has none, and while it waits for one,
  those of its own request only) then needs that a task which runs nothing
  is idle, and that only authenticated requests hold an `"auth"` session
  (`TasksInv`); that the pool is finite and never overdrawn comes with it.
  `ShutdownInOrder` needs what each phase has already waited for (`PhasesInv`), and
  `BatchesAccounted` which readings are published and which stored at each step of a
  frame (`FramesInv`), which
  `Dispose` leaves alone because no session is there any more.
  For `CertificateIsCurrent`, what the last completed renewal left is not enough,
  as a start may be cut off anywhere; `BrokerInv` says of each line of the
  entrypoint what it finds, and `MarkerInv` what the marker is worth: the host of
  the certificate, until a renewal begins, and then that or the present one.
- `UserSessionsProofs`: `OldTokensAreRevoked`, `OwnersRevoke`, `DeactivationsAreFinal`
  and, with `DeploymentProofs`, `DeploymentTypes`. The first needs, of a change of
  password that has looked for tokens and not yet committed, that all its user's
  tokens are found, revoked, excused or missed (`RequestInv`), that tokens have users which
  exist (`TokensOwned`) and that logins do not share one (`TokensApart`). The row's
  lock is not needed: two changes at a time would still revoke the old tokens.
  It is for `WritersDoTakeTurns`, which needs that no two tasks hold one user's row
  (`RowsApart`): between one's UPDATE and its commit no other writes to the row.
  With `HoldsWhatItUses` the same fact gives `RowsAreHandedOn`: who waits for a row
  waits for one request that has its connection, so rows of users and connections
  make no circle of waits. (The locks of an UPDATE of several refresh tokens are not
  modelled; PostgreSQL breaks a circle among those.) `ImplementsBook` says that the requests refine `AccountBook`: the commit
  that changes a password is the step that counts, and `RequestInv` is what makes it
  revoke all it has to. A change that fails takes its excuses back, which the book
  allows for tokens of the present password only (`Forgive`); `MissedInv` says that a
  change has missed no others, but such as are excused anyway. `BookSuffices`: the book alone implies
  the same of its tables (`OldTokensExcused`), where what a change under way has missed
  counts as excused.
- `DeviceIngestProofs`: `RowsHaveDevices`, `IngestTypeCorrect`, `SuspendedStaysOffline`
  and `MonitorLooksAgain`. That no row is an orphan needs that a reading inserted and
  not yet committed refers to a registered device, and that a contact written and not
  yet committed is that of an active one: the key share lock of the insert and the
  row lock of the UPDATE keep the deletion away until the commit.
  `ImplementsStore` says that it refines `MessageStore`: the commit is the step that
  counts, and the same two facts make it one of the store's, whatever happened to
  the device since the transaction looked it up; in addition each way must take
  a reading once, and a session's never without its device (`CopiesOK`).
  `StoreSuffices`: the store alone implies `StoredUnderLiveDevice`.
- `PlcHealthProofs`: `HealthTypeCorrect`, `OneProbe`, `AnswersAreRecent` and
  `FirstComeFirstServed`. One probe per PLC needs that the lock is held by whoever
  probes and by nobody else; the order, that each waiting request has one place in
  its PLC's queue, and that the queue is sorted by arrival; recent answers, that the
  cache has one entry to answer with. Two more theorems say what `EveryRequestAnswered`
  rests on, as far as states and steps can: `WakeUpsAreKept`, whoever waits stands in
  its PLC's queue and the lock is free for the head of it or held by a request that
  probes (`NoLostWakeUp`); and `QueuesMoveUp`, who waits never moves back
  (`QueueMovesUp`).

Between them the theorems state every invariant, action property and refinement
that a passing run checks.

Only model-checked: liveness (`VisibleRowIsConfirmed`, `SilentGoesOffline`,
`StreamDrains`, `EveryRequestAnswered`, `StaleMapHeals`, `RequestsAnswered`,
`ShutdownEnds`, `BrokerComesUp`), which is out of the prover's reach.

## Abstractions, and what is not modelled

- Payloads, topics, names and user properties are left out; a topic that names no
  registered device is that of a device which is `absent`.
- `update_status` takes its timestamp and writes it in one step.
- One TCP session per device in `DeviceStream`.
- A user is never deleted: `delete_own_account` raises before it gets there, and
  `delete_user` has no other caller. No route changes a device's owner.
- Refresh tokens expire; that is one more way for `/refresh` to refuse (`Refuse`)
  and changes no row. Names and e-mails of users are left out.
- The connection of a stream or a coroutine is modelled, its statements are those
  of the other modules.
- A running broker looks at its certificate no more: what expires while it runs is
  renewed at its next start only.

Not modelled:

- Migrations run once, offline; request schemas check one request each and keep
  nothing; configuration is constants; device credentials are a hash and its
  comparison, `authenticate_device` has no caller.
- `setValues`, `_on_writing` and `read_and_forward` of the Modbus gateway: no mapped
  register is ever served (finding 6), so they never run on one.
- CSV export, `test_connection`, and the lookup of a PLC by device, which raises
  when there are two: they change no state.
