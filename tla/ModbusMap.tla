------------------------------ MODULE ModbusMap ------------------------------
(***************************************************************************)
(* The registry of PLCs and registers, and the map of the Modbus gateway   *)
(* made from it (with ENABLE_UNSCOPED_MODBUS_GATEWAY set, else no map is   *)
(* ever loaded).                                                           *)
(*                                                                         *)
(* A route first looks its PLC up (_plc_or_404), then, after an await,     *)
(* writes and commits: one statement, atomic and constrained by the        *)
(* schema, but free to find other rows than the lookup did.  Most routes   *)
(* then schedule reload_map_modbus, which runs once the response is out:   *)
(* it reads the tables and, when the answer reaches the loop, assigns      *)
(* modbus_gw.map.  Reloads of several requests overlap.                    *)
(*                                                                         *)
(* A register is its PLC and its address: `type` is part of the address    *)
(* and `value` stands for what a write may change (topic, unit, scale).    *)
(* Ids are never used twice, so a PLC that is gone does not come back.     *)
(***************************************************************************)
EXTENDS Naturals, FiniteSets

CONSTANTS
    Devices, Plcs, Addresses, Values,
    DeviceOf,     \* plcs.device_id, which no route changes
    Requests,     \* requests the server handles at a time
    NoPlc,        \* no PLC looked up
    MaxVersion,   \* bound: changes of what the map should hold
    MaxRestarts   \* bound: crashes and failed startups

ASSUME MapAssumption ==
    /\ DeviceOf \in [Plcs -> Devices]
    /\ NoPlc \notin Plcs
    /\ Values # {}
    /\ MaxVersion \in Nat \ {0}
    /\ MaxRestarts \in Nat

Keys == Plcs \X Addresses

VARIABLES
    device,       \* rows of devices
    plc,          \* rows of plcs
    register,     \* rows of map_registers
    value,        \* what they say
    phase,        \* the process: "down", "starting" (lifespan), "up"
    step,         \* how far each request is
    target,       \* the PLC it has looked up
    snapshot,     \* what its reload has read
    map,          \* modbus_gw.map
    served,       \* addresses of the datastore the Modbus server answers from
    restarts,
    version,      \* history: changes of the tables so far,
    change,       \*   the one a request has yet to bring to the map,
    readAt,       \*   the one its snapshot shows,
    mapAt,        \*   the one the map shows,
    wanted,       \*   the last one that a reload is to bring,
    lost          \*   the last one known to have been dropped on its way

tables == <<device, plc, register, value>>
gateway == <<map, served>>
history == <<version, change, readAt, mapAt, wanted, lost>>
vars == <<tables, gateway, history, phase, step, target, snapshot, restarts>>

Steps == {"idle", "found", "replying", "scheduled", "read"}

TypeOK ==
    /\ device \in SUBSET Devices
    /\ plc \in [Plcs -> {"none", "active", "inactive", "gone"}]
    /\ register \in [Keys -> {"absent", "active", "inactive"}]
    /\ value \in [Keys -> Values]
    /\ phase \in {"down", "starting", "up"}
    /\ step \in [Requests -> Steps]
    /\ target \in [Requests -> Plcs \cup {NoPlc}]
    /\ \A r \in Requests : step[r] = "found" => target[r] # NoPlc
    /\ snapshot \in [Requests -> SUBSET (Keys \X Values)]
    /\ map \in SUBSET (Keys \X Values)
    /\ served \in SUBSET Addresses
    /\ restarts \in 0..MaxRestarts
    /\ version \in 1..MaxVersion
    /\ change \in [Requests -> 0..MaxVersion]
    /\ readAt \in [Requests -> 0..MaxVersion]
    /\ mapAt \in 0..MaxVersion
    /\ wanted \in 0..MaxVersion
    /\ lost \in 0..MaxVersion

-----------------------------------------------------------------------------

Exists(p) == plc[p] \in {"active", "inactive"}

\* load_map_modbus: the active registers of the active PLCs.
Active ==
    {<<k, value[k]>> : k \in {q \in Keys : register[q] = "active" /\ plc[q[1]] = "active"}}

\* _build_context: the addresses a datastore made from a map answers for.
Datastore(m) == {entry[1][2] : entry \in m}

\* ON DELETE CASCADE from plcs to map_registers.
Without(gone) == [k \in Keys |-> IF k[1] \in gone THEN "absent" ELSE register[k]]

\* UPDATE plcs SET active: no row, no effect.
WithActive(p, s) == [plc EXCEPT ![p] = IF Exists(p) THEN s ELSE plc[p]]

Init ==
    /\ device = Devices
    /\ plc = [p \in Plcs |-> "none"]
    /\ register = [k \in Keys |-> "absent"]
    /\ value = [k \in Keys |-> CHOOSE v \in Values : TRUE]
    /\ phase = "down"
    /\ step = [r \in Requests |-> "idle"]
    /\ target = [r \in Requests |-> NoPlc]
    /\ snapshot = [r \in Requests |-> {}]
    /\ map = {}
    /\ served = {}
    /\ restarts = 0
    /\ version = 1
    /\ change = [r \in Requests |-> 0]
    /\ readAt = [r \in Requests |-> 0]
    /\ mapAt = 0
    /\ wanted = 1
    /\ lost = 0

-----------------------------------------------------------------------------
(* The life of the process.                                                *)

\* lifespan: modbus_gw.start() builds the datastore, from the map as it is.
Start ==
    /\ phase = "down"
    /\ phase' = "starting"
    /\ served' = Datastore(map)
    /\ UNCHANGED <<tables, map, history, step, target, snapshot, restarts>>

\* lifespan: the first reload, before any request is taken.
FirstReload ==
    /\ phase = "starting"
    /\ phase' = "up"
    /\ map' = Active
    /\ mapAt' = version
    /\ wanted' = version
    /\ lost' = 0
    /\ UNCHANGED <<tables, served, version, change, readAt, step, target, snapshot, restarts>>

\* A crash, or a startup that fails: what the process held is lost.
Restart ==
    /\ phase # "down"
    /\ restarts < MaxRestarts
    /\ restarts' = restarts + 1
    /\ phase' = "down"
    /\ map' = {}
    /\ served' = {}
    /\ mapAt' = 0
    /\ step' = [r \in Requests |-> "idle"]
    /\ target' = [r \in Requests |-> NoPlc]
    /\ snapshot' = [r \in Requests |-> {}]
    /\ change' = [r \in Requests |-> 0]
    /\ readAt' = [r \in Requests |-> 0]
    /\ UNCHANGED <<tables, version, wanted, lost>>

-----------------------------------------------------------------------------
(* Routes.                                                                 *)

\* r commits the tables as primed, and goes on to `next`: "idle" if its route
\* does not reload, "scheduled" if it does, "replying" if it runs one more
\* query before its response is made.  What a route other than the PATCH of a
\* PLC has changed is wanted in the map.
Commits(r, next) ==
    /\ version' = IF Active' = Active THEN version ELSE version + 1
    /\ version' <= MaxVersion
    /\ change' = [change EXCEPT ![r] = IF next = "idle" THEN 0 ELSE version']
    /\ step' = [step EXCEPT ![r] = next]
    /\ target' = [target EXCEPT ![r] = NoPlc]
    /\ UNCHANGED <<gateway, phase, snapshot, restarts, readAt, mapAt, lost>>

\* create_plc: nothing but the device is looked for.
CreatePlc(r, p) ==
    /\ phase = "up" /\ step[r] = "idle"
    /\ plc[p] = "none" /\ DeviceOf[p] \in device
    /\ plc' = [plc EXCEPT ![p] = "active"]
    /\ UNCHANGED <<device, register, value>>
    /\ Commits(r, "idle")
    /\ UNCHANGED wanted

\* delete_device: with its PLCs and their registers.
DeleteDevice(r, d) ==
    /\ phase = "up" /\ step[r] = "idle"
    /\ d \in device
    /\ device' = device \ {d}
    /\ plc' = [p \in Plcs |-> IF DeviceOf[p] = d THEN "gone" ELSE plc[p]]
    /\ register' = Without({p \in Plcs : DeviceOf[p] = d})
    /\ UNCHANGED value
    /\ Commits(r, "scheduled")
    /\ wanted' = version'

\* Mutant of FindPlc: a PLC that is not there raises no 404.
FindPlcUnchecked(r, p) ==
    /\ phase = "up" /\ step[r] = "idle"
    /\ step' = [step EXCEPT ![r] = "found"]
    /\ target' = [target EXCEPT ![r] = IF Exists(p) THEN p ELSE NoPlc]
    /\ UNCHANGED <<tables, gateway, history, phase, snapshot, restarts>>

\* _plc_or_404, the first await of the routes below.
FindPlc(r, p) ==
    /\ phase = "up" /\ step[r] = "idle"
    /\ Exists(p)
    /\ step' = [step EXCEPT ![r] = "found"]
    /\ target' = [target EXCEPT ![r] = p]
    /\ UNCHANGED <<tables, gateway, history, phase, snapshot, restarts>>

\* update_plc (PATCH), which may set `active` and does not reload.
UpdatePlc(r, s) ==
    /\ step[r] = "found"
    /\ plc' = WithActive(target[r], s)
    /\ UNCHANGED <<device, register, value>>
    /\ Commits(r, "idle")
    /\ UNCHANGED wanted

\* Mutant of RemovePlc: it does not ask for a reload.
RemovePlcQuietly(r) ==
    /\ step[r] = "found"
    /\ plc' = WithActive(target[r], "inactive")
    /\ UNCHANGED <<device, register, value>>
    /\ Commits(r, "idle")
    /\ wanted' = version'

\* remove_plc: the soft deletion.
RemovePlc(r) ==
    /\ step[r] = "found"
    /\ plc' = WithActive(target[r], "inactive")
    /\ UNCHANGED <<device, register, value>>
    /\ Commits(r, "scheduled")
    /\ wanted' = version'

\* remove_plc?permanent=true.
DeletePlc(r) ==
    /\ step[r] = "found"
    /\ plc' = WithActive(target[r], "gone")
    /\ register' = Without({target[r]})
    /\ UNCHANGED <<device, value>>
    /\ Commits(r, "scheduled")
    /\ wanted' = version'

\* Mutant of CreateRegister: it relies on the lookup alone.
CreateRegisterUnchecked(r, a, v) ==
    LET k == <<target[r], a>> IN
    /\ step[r] = "found"
    /\ register[k] = "absent"
    /\ register' = [register EXCEPT ![k] = "active"]
    /\ value' = [value EXCEPT ![k] = v]
    /\ UNCHANGED <<device, plc>>
    /\ Commits(r, "replying")
    /\ wanted' = version'

\* create_registers: ON CONFLICT DO NOTHING, then 409; the foreign key sees
\* to it that the PLC is still there.
CreateRegister(r, a, v) ==
    LET k == <<target[r], a>> IN
    /\ step[r] = "found"
    /\ Exists(target[r])
    /\ register[k] = "absent"
    /\ register' = [register EXCEPT ![k] = "active"]
    /\ value' = [value EXCEPT ![k] = v]
    /\ UNCHANGED <<device, plc>>
    /\ Commits(r, "replying")
    /\ wanted' = version'

\* bulk_create_registers: an upsert of all items, which leaves `active` of the
\* rows it meets as it is.
BulkCreateRegisters(r, items) ==
    LET hit(k) == k[1] = target[r] /\ k[2] \in DOMAIN items IN
    /\ step[r] = "found"
    /\ Exists(target[r])
    /\ register' = [k \in Keys |-> IF hit(k) /\ register[k] = "absent" THEN "active"
                                   ELSE register[k]]
    /\ value' = [k \in Keys |-> IF hit(k) THEN items[k[2]] ELSE value[k]]
    /\ UNCHANGED <<device, plc>>
    /\ Commits(r, "scheduled")
    /\ wanted' = version'

\* update_register: any of its fields, `active` among them, or none.  (Of a
\* register that is gone: RequestFails.)
UpdateRegister(r, a, s, v) ==
    LET k == <<target[r], a>> IN
    /\ step[r] = "found"
    /\ register[k] # "absent"
    /\ register' = [register EXCEPT ![k] = s]
    /\ value' = [value EXCEPT ![k] = v]
    /\ UNCHANGED <<device, plc>>
    /\ Commits(r, "replying")
    /\ wanted' = version'

\* delete_register.
DeleteRegister(r, a) ==
    LET k == <<target[r], a>> IN
    /\ step[r] = "found"
    /\ register[k] # "absent"
    /\ register' = [register EXCEPT ![k] = "absent"]
    /\ UNCHANGED <<device, plc, value>>
    /\ Commits(r, "scheduled")
    /\ wanted' = version'

\* 404, 409, a foreign key that is gone, a lost connection: nothing is written.
\* Nor is by the UPDATE of a register that was deleted after it was looked up;
\* the handler commits and adds its reload even so, but then finds no row, and
\* of None there is no MapRegisterOut: a 500, with which the reload is dropped.
RequestFails(r) ==
    /\ step[r] = "found"
    /\ step' = [step EXCEPT ![r] = "idle"]
    /\ target' = [target EXCEPT ![r] = NoPlc]
    /\ UNCHANGED <<tables, gateway, history, phase, snapshot, restarts>>

-----------------------------------------------------------------------------
(* From the commit to the map.                                             *)

Later(m, n) == IF m < n THEN n ELSE m

\* The handler's last query has its answer, the response goes out.  Whether the
\* row is still there is not asked here: if it is not, ReplyFails is what happens.
Reply(r) ==
    /\ step[r] = "replying"
    /\ step' = [step EXCEPT ![r] = "scheduled"]
    /\ UNCHANGED <<tables, gateway, history, phase, target, snapshot, restarts>>

\* r is done, and what it brought is dropped.
Drop(r) ==
    /\ step' = [step EXCEPT ![r] = "idle"]
    /\ change' = [change EXCEPT ![r] = 0]
    /\ readAt' = [readAt EXCEPT ![r] = 0]
    /\ snapshot' = [snapshot EXCEPT ![r] = {}]
    /\ UNCHANGED <<tables, served, phase, target, restarts, version, wanted>>

\* That query fails, or finds no row: the response is a 500, which carries no
\* background task.
ReplyFails(r) ==
    /\ step[r] = "replying"
    /\ lost' = Later(lost, change[r])
    /\ Drop(r)
    /\ UNCHANGED <<map, mapAt>>

\* load_map_modbus: one SELECT.
ReloadRead(r) ==
    /\ step[r] = "scheduled"
    /\ step' = [step EXCEPT ![r] = "read"]
    /\ snapshot' = [snapshot EXCEPT ![r] = Active]
    /\ readAt' = [readAt EXCEPT ![r] = version]
    /\ UNCHANGED <<tables, gateway, phase, target, restarts>>
    /\ UNCHANGED <<version, change, mapAt, wanted, lost>>

\* No connection, or no answer.
ReloadFails(r) ==
    /\ step[r] \in {"scheduled", "read"}
    /\ lost' = Later(lost, change[r])
    /\ Drop(r)
    /\ UNCHANGED <<map, mapAt>>

\* Mutant of ReloadAssign: an empty answer is taken for no answer.
ReloadAssignNonEmpty(r) ==
    /\ step[r] = "read"
    /\ map' = IF snapshot[r] = {} THEN map ELSE snapshot[r]
    /\ mapAt' = readAt[r]
    /\ lost' = IF readAt[r] < mapAt THEN Later(lost, mapAt) ELSE lost
    /\ Drop(r)

\* modbus_gw.map = [...], whoever else has assigned since the SELECT.
ReloadAssign(r) ==
    /\ step[r] = "read"
    /\ map' = snapshot[r]
    /\ mapAt' = readAt[r]
    /\ lost' = IF readAt[r] < mapAt THEN Later(lost, mapAt) ELSE lost
    /\ Drop(r)

Writes(r) ==
    \/ \E p \in Plcs : CreatePlc(r, p)
    \/ \E d \in Devices : DeleteDevice(r, d)
    \/ \E s \in {"active", "inactive"} : UpdatePlc(r, s)
    \/ RemovePlc(r)
    \/ DeletePlc(r)
    \/ \E a \in Addresses, v \in Values : CreateRegister(r, a, v)
    \/ \E A \in SUBSET Addresses \ {{}} :
          \E items \in [A -> Values] : BulkCreateRegisters(r, items)
    \/ \E a \in Addresses, s \in {"active", "inactive"}, v \in Values : UpdateRegister(r, a, s, v)
    \/ \E a \in Addresses : DeleteRegister(r, a)

Reload(r) ==
    \/ Reply(r) \/ ReplyFails(r)
    \/ ReloadRead(r) \/ ReloadAssign(r) \/ ReloadFails(r)

Next ==
    \/ Start \/ FirstReload \/ Restart
    \/ \E r \in Requests :
          \/ Writes(r)
          \/ \E p \in Plcs : FindPlc(r, p)
          \/ RequestFails(r)
          \/ Reload(r)

Spec == Init /\ [][Next]_vars

\* The loop runs what is scheduled and PostgreSQL answers; the container is
\* restarted (compose.yml: unless-stopped).
MapFairness ==
    /\ WF_vars(Start) /\ WF_vars(FirstReload)
    /\ \A r \in Requests : WF_vars(Reload(r))

FairSpec == Spec /\ MapFairness

-----------------------------------------------------------------------------
(* Properties.                                                             *)

\* No register outlives its PLC and no PLC its device, although a route looks
\* its PLC up in one step and writes in another.
NoOrphans ==
    /\ \A k \in Keys : register[k] # "absent" => Exists(k[1])
    /\ \A p \in Plcs : Exists(p) => DeviceOf[p] \in device

\* No reload is on its way.
Quiet == phase = "up" /\ \A r \in Requests : step[r] \in {"idle", "found"}

\* Once the reloads are through, a map that is not what the tables say has one
\* of three causes: the last change was a PATCH of a PLC, which reloads
\* nothing; the change was dropped, by a failure after its commit; or a reload
\* that had read earlier assigned later.
StaleHasCause == Quiet /\ map # Active => wanted < version \/ wanted <= lost

\* A map that is stale after a change by any other route catches up, but for
\* the two other causes: a register that was removed does not stay in it.
StaleMapHeals ==
    (map # Active /\ wanted = version)
        ~> (map = Active \/ wanted < version \/ wanted <= lost)

\* reload_map_modbus "reconstroi o datastore do ModbusGateway": the server
\* answers for the addresses of the map.  It does not.
DatastoreFollowsMap == Quiet => served = Datastore(map)
=============================================================================
