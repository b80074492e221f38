---------------------------- MODULE DeviceIngest ----------------------------
(***************************************************************************)
(* How readings reach the table received_messages and keep the presence    *)
(* (status, last_contact) of their device.                                 *)
(*                                                                         *)
(* A reading comes in through a TCP session (TCPSession, ProtocolBridge    *)
(* .to_forward), or from the broker (_on_message, _save_message_async).    *)
(* What to_forward or POST /publish sends to application/devices/# returns *)
(* through the broker, as the backend subscribes to it.  What the broker   *)
(* delivers with QoS 1 it delivers again if the link drops before the      *)
(* PUBACK is out: a reconnection resumes the session.  The REST routes     *)
(* register, suspend, delete and re-key devices meanwhile, and a monitor   *)
(* marks silent ones offline.                                              *)
(*                                                                         *)
(* Both ways are transactions of PostgreSQL, READ COMMITTED, split at      *)
(* their awaits.  An UPDATE locks the device's row until its transaction   *)
(* ends; an INSERT with a foreign key only keeps the row from deletion.    *)
(* Writes show at commit.  Time is kept as the age of last_contact.        *)
(***************************************************************************)
EXTENDS Naturals, FiniteSets

CONSTANTS
    Devices,      \* device ids, registered or not
    Sessions,     \* TCP connections, over all lives of the process
    Readings,     \* data items
    Tcp,          \* readings that come in a frame of a TCP session; others: by MQTT
    QoS1,         \* readings published with QoS 1
    SessionOf,    \* the session of each TCP reading
    DeviceOf,     \* the device whose topic each reading is published on
    Timeout,      \* update_offline_devices: age at which a contact is old
    MaxKeys,      \* bound: renewals of a device's api_key
    MaxRestarts   \* bound: restarts of the process

ASSUME IngestAssumption ==
    /\ Tcp \subseteq QoS1 /\ QoS1 \subseteq Readings
    /\ SessionOf \in [Tcp -> Sessions]
    /\ DeviceOf \in [Readings -> Devices]
    /\ \A r, q \in Tcp : SessionOf[r] = SessionOf[q] => DeviceOf[r] = DeviceOf[q]
    /\ Timeout \in Nat \ {0}
    /\ MaxKeys \in Nat
    /\ MaxRestarts \in Nat

VARIABLES
    dev,          \* rows of devices: absent, active, inactive, deleted
    key,          \* which api_key of the device is valid
    online,       \* status = 'online'
    age,          \* of last_contact; NULL is as old as can be
    session,      \* state of each connection
    authKey,      \* the api_key it authenticated with
    wire,         \* each reading at the broker
    job,          \* the transactions that store it: to_forward's, the save task's,
                  \* the save task's of its redelivery
    stamp,        \* age of the last_contact it has written; {} before
    stored,       \* rows received_messages with the device's id, by writer
    orphan,       \* readings stored with device_id NULL
    overdue,      \* devices the monitor's UPDATE has selected
    restarts

deviceVars == <<dev, key>>
presenceVars == <<online, age>>
sessionVars == <<session, authKey>>
tableVars == <<stored, orphan>>
vars == <<deviceVars, presenceVars, sessionVars, wire, job, stamp, tableVars,
          overdue, restarts>>

Saves == {"save", "resave"}
Jobs == {"forward"} \cup Saves
\* forward: published, inserted, complete; saves: scheduled, found, updated,
\* complete, or scheduled, unknown, nulled.  At the end: done, or failed.
Running == {"published", "inserted", "complete",
            "scheduled", "found", "updated", "unknown", "nulled"}
Phases == Running \cup {"none", "done", "failed"}

TypeOK ==
    /\ dev \in [Devices -> {"absent", "active", "inactive", "deleted"}]
    /\ key \in [Devices -> 0..MaxKeys]
    /\ online \in [Devices -> BOOLEAN]
    /\ age \in [Devices -> 0..Timeout]
    /\ session \in [Sessions -> {"closed", "open", "busy", "ended"}]
    /\ authKey \in [Sessions -> 0..MaxKeys]
    /\ wire \in [Readings -> {"none", "sent", "delivered", "settled"}]
    /\ job \in [Jobs -> [Readings -> Phases]]
    /\ stamp \in [Jobs -> [Readings -> SUBSET (0..Timeout)]]
    /\ stored \in [Readings -> SUBSET Jobs]
    /\ orphan \in SUBSET Readings
    /\ overdue \in SUBSET Devices
    /\ restarts \in 0..MaxRestarts

Init ==
    /\ dev = [d \in Devices |-> "absent"]
    /\ key = [d \in Devices |-> 0]
    /\ online = [d \in Devices |-> FALSE]
    /\ age = [d \in Devices |-> Timeout]
    /\ session = [s \in Sessions |-> "closed"]
    /\ authKey = [s \in Sessions |-> 0]
    /\ wire = [r \in Readings |-> "none"]
    /\ job = [k \in Jobs |-> [r \in Readings |-> "none"]]
    /\ stamp = [k \in Jobs |-> [r \in Readings |-> {}]]
    /\ stored = [r \in Readings |-> {}]
    /\ orphan = {}
    /\ overdue = {}
    /\ restarts = 0

-----------------------------------------------------------------------------
(* Sessions and the broker                                                 *)

\* ProtocolBridge.authenticate: an active device and its current key.
Authenticate(s, d) ==
    /\ session[s] = "closed"
    /\ \E r \in Tcp : SessionOf[r] = s /\ DeviceOf[r] = d
    /\ dev[d] = "active"
    /\ session' = [session EXCEPT ![s] = "open"]
    /\ authKey' = [authKey EXCEPT ![s] = key[d]]
    /\ UNCHANGED <<deviceVars, presenceVars, wire, job, stamp, tableVars, overdue, restarts>>

\* Idle timeout, disconnect frame, end of stream: between two frames.
SessionEnds(s) ==
    /\ session[s] = "open"
    /\ session' = [session EXCEPT ![s] = "ended"]
    /\ UNCHANGED <<deviceVars, presenceVars, authKey, wire, job, stamp, tableVars, overdue, restarts>>

\* A data frame, or a reading of a batch: to_forward first hands it to MQTT.
\* The device is not looked at again.
Forward(r) ==
    /\ r \in Tcp
    /\ session[SessionOf[r]] = "open"
    /\ job["forward"][r] = "none"
    /\ job' = [job EXCEPT !["forward"][r] = "published"]
    /\ session' = [session EXCEPT ![SessionOf[r]] = "busy"]
    /\ wire' = [wire EXCEPT ![r] = "sent"]
    /\ UNCHANGED <<deviceVars, presenceVars, authKey, stamp, tableVars, overdue, restarts>>

\* POST /publish asks for an active device first; a device that speaks MQTT
\* itself is asked nothing, registered or not.
Send(r) ==
    /\ r \notin Tcp
    /\ wire[r] = "none"
    /\ wire' = [wire EXCEPT ![r] = "sent"]
    /\ UNCHANGED <<deviceVars, presenceVars, sessionVars, job, stamp, tableVars, overdue, restarts>>

\* _on_message: the topic names the device; the save task is scheduled.  A
\* message that is lost on its way is one for which this never happens.
OnMessage(r) ==
    /\ wire[r] = "sent"
    /\ wire' = [wire EXCEPT ![r] = "delivered"]
    /\ job' = [job EXCEPT !["save"][r] = "scheduled"]
    /\ UNCHANGED <<deviceVars, presenceVars, sessionVars, stamp, tableVars, overdue, restarts>>

\* The link dropped before the PUBACK was out: the broker sends it again, and
\* nothing in _on_message tells.  Bound: a reading comes again once, although it
\* may at every resumption of the session; a save task of a third delivery would
\* do no other than that of the second.
Redelivered(r) ==
    /\ r \in QoS1
    /\ wire[r] = "delivered"
    /\ wire' = [wire EXCEPT ![r] = "settled"]
    /\ job' = [job EXCEPT !["resave"][r] = "scheduled"]
    /\ UNCHANGED <<deviceVars, presenceVars, sessionVars, stamp, tableVars, overdue, restarts>>

-----------------------------------------------------------------------------
(* The two transactions                                                    *)

Step(k, r, from, to) ==
    /\ job[k][r] = from
    /\ job' = [job EXCEPT ![k][r] = to]

Registered(d) == dev[d] \in {"active", "inactive"}

\* A row is locked by a transaction that has updated it and not ended.
RowLocked(d) ==
    \E k \in Jobs, r \in Readings : DeviceOf[r] = d /\ stamp[k][r] # {}

\* A row is referenced by an INSERT whose transaction has not ended.
RowReferenced(d) ==
    \E k \in Jobs, r \in Readings :
        DeviceOf[r] = d /\ job[k][r] \in {"inserted", "complete"}

\* search_device_internal in the save task.
Lookup(k, r) ==
    /\ k \in Saves
    /\ Step(k, r, "scheduled",
            IF dev[DeviceOf[r]] = "active" THEN "found" ELSE "unknown")
    /\ UNCHANGED <<deviceVars, presenceVars, sessionVars, wire, stamp, tableVars,
                   overdue, restarts>>

\* Mutants of UpdateStatus: the contact is stamped in a time zone behind the
\* monitor's, and devices.active is not asked for.
UpdateStatusLocalTime(k, r) ==
    /\ IF k \in Saves THEN Step(k, r, "found", "updated")
                     ELSE Step(k, r, "inserted", "complete")
    /\ ~RowLocked(DeviceOf[r])
    /\ stamp' = [stamp EXCEPT ![k][r] =
                    IF dev[DeviceOf[r]] = "active" THEN {Timeout + 1} ELSE {}]
    /\ UNCHANGED <<deviceVars, presenceVars, sessionVars, wire, tableVars,
                   overdue, restarts>>

UpdateStatusOfAny(k, r) ==
    /\ IF k \in Saves THEN Step(k, r, "found", "updated")
                     ELSE Step(k, r, "inserted", "complete")
    /\ ~RowLocked(DeviceOf[r])
    /\ stamp' = [stamp EXCEPT ![k][r] = {0}]
    /\ UNCHANGED <<deviceVars, presenceVars, sessionVars, wire, tableVars,
                   overdue, restarts>>

\* Mutant of UpdateStatus: update_status commits what it writes.
UpdateStatusCommits(k, r) ==
    LET d == DeviceOf[r] IN
    /\ IF k \in Saves THEN Step(k, r, "found", "updated")
                     ELSE Step(k, r, "inserted", "complete")
    /\ ~RowLocked(d)
    /\ online' = [online EXCEPT ![d] = @ \/ dev[d] = "active"]
    /\ age' = [age EXCEPT ![d] = IF dev[d] = "active" THEN 0 ELSE @]
    /\ UNCHANGED <<deviceVars, sessionVars, wire, stamp, tableVars, overdue, restarts>>

\* update_status(db, id, "online") writes to the row of an active device, once
\* it is free; the save task does so before its INSERT, to_forward after it.
UpdateStatus(k, r) ==
    /\ IF k \in Saves THEN Step(k, r, "found", "updated")
                     ELSE Step(k, r, "inserted", "complete")
    /\ ~RowLocked(DeviceOf[r])
    /\ stamp' = [stamp EXCEPT ![k][r] =
                    IF dev[DeviceOf[r]] = "active" THEN {0} ELSE {}]
    /\ UNCHANGED <<deviceVars, presenceVars, sessionVars, wire, tableVars,
                   overdue, restarts>>

\* Mutant of InsertMessage: no foreign key to devices.
InsertUnchecked(k, r) ==
    /\ IF k \in Saves THEN Step(k, r, "updated", "complete")
                     ELSE Step(k, r, "published", "inserted")
    /\ UNCHANGED <<deviceVars, presenceVars, sessionVars, wire, stamp, tableVars,
                   overdue, restarts>>

\* insert_message with a device id that the foreign key still finds.
InsertMessage(k, r) ==
    /\ Registered(DeviceOf[r])
    /\ IF k \in Saves THEN Step(k, r, "updated", "complete")
                     ELSE Step(k, r, "published", "inserted")
    /\ UNCHANGED <<deviceVars, presenceVars, sessionVars, wire, stamp, tableVars,
                   overdue, restarts>>

\* insert_message of the save task for an unknown or inactive device.
InsertUnidentified(k, r) ==
    /\ Step(k, r, "unknown", "nulled")
    /\ UNCHANGED <<deviceVars, presenceVars, sessionVars, wire, stamp, tableVars,
                   overdue, restarts>>

\* After its transaction a session goes on with the next frame, or is torn
\* down by the exception that ended it.
SessionAfter(k, r, next) ==
    session' = IF k = "forward" THEN [session EXCEPT ![SessionOf[r]] = next]
               ELSE session

Commit(k, r) ==
    LET d == DeviceOf[r] IN
    /\ \/ /\ Step(k, r, "complete", "done")
          /\ stored' = [stored EXCEPT ![r] = @ \cup {k}]
          /\ online' = [online EXCEPT ![d] = @ \/ stamp[k][r] # {}]
          /\ age' = [age EXCEPT ![d] =
                        IF stamp[k][r] = {} THEN @ ELSE CHOOSE a \in stamp[k][r] : TRUE]
          /\ UNCHANGED orphan
       \/ /\ Step(k, r, "nulled", "done")
          /\ orphan' = orphan \cup {r}
          /\ UNCHANGED <<stored, presenceVars>>
    /\ stamp' = [stamp EXCEPT ![k][r] = {}]
    /\ SessionAfter(k, r, "open")
    /\ UNCHANGED <<deviceVars, authKey, wire, overdue, restarts>>

\* Any exception before the commit, a broken foreign key among them, rolls the
\* transaction back.  The save task logs it; the TCP session dies of it.
Fails(k, r) ==
    /\ job[k][r] \in Running
    /\ job' = [job EXCEPT ![k][r] = "failed"]
    /\ stamp' = [stamp EXCEPT ![k][r] = {}]
    /\ SessionAfter(k, r, "ended")
    /\ UNCHANGED <<deviceVars, presenceVars, authKey, wire, tableVars, overdue, restarts>>

-----------------------------------------------------------------------------
(* The REST routes of devices: each one statement and its commit           *)

RegisterDevice(d) ==
    /\ dev[d] = "absent"
    /\ dev' = [dev EXCEPT ![d] = "active"]
    /\ UNCHANGED <<key, presenceVars, sessionVars, wire, job, stamp, tableVars,
                   overdue, restarts>>

\* PATCH {"active": ...}
UpdateDevice(d) ==
    /\ Registered(d) /\ ~RowLocked(d)
    /\ \E a \in {"active", "inactive"} : dev' = [dev EXCEPT ![d] = a]
    /\ UNCHANGED <<key, presenceVars, sessionVars, wire, job, stamp, tableVars,
                   overdue, restarts>>

RenewApiKey(d) ==
    /\ dev[d] = "active" /\ ~RowLocked(d)
    /\ key[d] < MaxKeys
    /\ key' = [key EXCEPT ![d] = @ + 1]
    /\ UNCHANGED <<dev, presenceVars, sessionVars, wire, job, stamp, tableVars,
                   overdue, restarts>>

\* The messages go with the device: ON DELETE CASCADE.
DeleteDevice(d) ==
    /\ Registered(d) /\ ~RowLocked(d) /\ ~RowReferenced(d)
    /\ dev' = [dev EXCEPT ![d] = "deleted"]
    /\ online' = [online EXCEPT ![d] = FALSE]
    /\ age' = [age EXCEPT ![d] = Timeout]
    /\ stored' = [r \in Readings |-> IF DeviceOf[r] = d THEN {} ELSE stored[r]]
    /\ UNCHANGED <<key, sessionVars, wire, job, stamp, orphan, overdue, restarts>>

-----------------------------------------------------------------------------
(* The monitor, the clock and the process                                  *)

\* The WHERE of update_offline_devices.
Overdue(d) == online[d] /\ dev[d] = "active" /\ age[d] = Timeout

\* The UPDATE first selects rows as committed when it starts ...
MonitorScan ==
    /\ overdue = {}
    /\ overdue' = {d \in Devices : Overdue(d)}
    /\ overdue' # {}
    /\ UNCHANGED <<deviceVars, presenceVars, sessionVars, wire, job, stamp,
                   tableVars, restarts>>

\* Mutants of MonitorWrite: what was selected is written without another look,
\* and nothing is committed.
MonitorWriteBlind ==
    /\ overdue # {}
    /\ \A d \in overdue : ~RowLocked(d)
    /\ online' = [d \in Devices |-> online[d] /\ d \notin overdue]
    /\ overdue' = {}
    /\ UNCHANGED <<deviceVars, age, sessionVars, wire, job, stamp, tableVars, restarts>>

MonitorNotCommitted ==
    /\ overdue # {}
    /\ \A d \in overdue : ~RowLocked(d)
    /\ overdue' = {}
    /\ UNCHANGED <<deviceVars, presenceVars, sessionVars, wire, job, stamp, tableVars,
                   restarts>>

\* ... then waits for those that are locked, and looks at them again.
MonitorWrite ==
    /\ overdue # {}
    /\ \A d \in overdue : ~RowLocked(d)
    /\ online' = [d \in Devices |-> online[d] /\ ~(d \in overdue /\ Overdue(d))]
    /\ overdue' = {}
    /\ UNCHANGED <<deviceVars, age, sessionVars, wire, job, stamp, tableVars, restarts>>

Older(a) == IF a < Timeout THEN a + 1 ELSE a

Tick ==
    /\ age' = [d \in Devices |-> Older(age[d])]
    /\ stamp' = [k \in Jobs |-> [r \in Readings |-> {Older(a) : a \in stamp[k][r]}]]
    /\ <<age, stamp>>' # <<age, stamp>>
    /\ UNCHANGED <<deviceVars, online, sessionVars, wire, job, tableVars, overdue, restarts>>

\* Connections, tasks and open transactions go, the tables stay.
Restart ==
    /\ restarts < MaxRestarts
    /\ restarts' = restarts + 1
    /\ session' = [s \in Sessions |->
                      IF session[s] = "closed" THEN "closed" ELSE "ended"]
    /\ job' = [k \in Jobs |-> [r \in Readings |->
                  IF job[k][r] \in Running THEN "failed" ELSE job[k][r]]]
    /\ stamp' = [k \in Jobs |-> [r \in Readings |-> {}]]
    /\ overdue' = {}
    \* The new process starts a clean session: nothing is delivered again.
    /\ wire' = [r \in Readings |-> IF wire[r] = "delivered" THEN "settled" ELSE wire[r]]
    /\ UNCHANGED <<deviceVars, presenceVars, authKey, tableVars>>

Next ==
    \/ \E s \in Sessions : SessionEnds(s) \/ \E d \in Devices : Authenticate(s, d)
    \/ \E r \in Readings :
         \/ Forward(r) \/ Send(r) \/ OnMessage(r) \/ Redelivered(r)
         \/ \E k \in Jobs :
              \/ Lookup(k, r) \/ InsertUnidentified(k, r)
              \/ UpdateStatus(k, r) \/ InsertMessage(k, r) \/ Commit(k, r) \/ Fails(k, r)
    \/ \E d \in Devices :
         RegisterDevice(d) \/ UpdateDevice(d) \/ RenewApiKey(d) \/ DeleteDevice(d)
    \/ MonitorScan \/ MonitorWrite \/ Tick \/ Restart

Spec == Init /\ [][Next]_vars

\* Time passes, the monitor's loop survives its exceptions, and PostgreSQL ends
\* every transaction.  Devices, clients and the broker owe nothing.
Fairness ==
    /\ WF_vars(Tick) /\ WF_vars(MonitorScan) /\ WF_vars(MonitorWrite)
    /\ \A r \in Readings : \A k \in Jobs :
          WF_vars(Fails(k, r) \/ Commit(k, r))

FairSpec == Spec /\ Fairness

-----------------------------------------------------------------------------
(* Properties                                                              *)

\* No row is stored under a device that is gone or never was, however an
\* INSERT, a commit and a DELETE interleave (received_messages.device_id).
StoredUnderLiveDevice ==
    \A r \in Readings : stored[r] # {} => Registered(DeviceOf[r])

\* A device that is not active is never turned online: the transactions that
\* found it active before it was suspended or deleted do not revive it.
InactiveNotRevived ==
    [][\A d \in Devices : dev[d] # "active" /\ ~online[d] => ~online'[d]]_vars

\* A device is turned offline by the monitor only if its last contact is old
\* when that is written, not when the monitor looked.
OfflineOnlyWhenSilent ==
    [][\A d \in Devices : online[d] /\ ~online'[d] /\ dev'[d] # "deleted"
                              => age[d] = Timeout]_vars

\* An active device that stays silent goes offline.
SilentGoesOffline ==
    \A d \in Devices :
        (online[d] /\ age[d] = Timeout)
            ~> (~online[d] \/ age[d] < Timeout \/ dev[d] # "active")

\* renew_api_key: "Invalida imediatamente a api_key anterior": no session that
\* authenticated with an older key still forwards readings.
RenewedKeyRefused ==
    [][\A r \in Tcp :
          job["forward"][r] = "none" /\ job'["forward"][r] = "published"
              => authKey[SessionOf[r]] = key[DeviceOf[r]]]_vars

-----------------------------------------------------------------------------
(* The promise of the tables, as an abstract specification                 *)

settledBar ==
    [r \in Readings |-> {k \in Jobs : job[k][r] \in {"done", "failed"}}]

Store == INSTANCE MessageStore
             WITH Copies <- Jobs, Own <- "forward", settled <- settledBar

\* Transactions split at their awaits, a monitor that looks twice, and crashes
\* between any two statements implement tables whose steps are atomic.
StoreSpec == Store!Spec
=============================================================================
