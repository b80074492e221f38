--------------------------- MODULE ModbusMapProofs ---------------------------
(***************************************************************************)
(* Type correctness, referential integrity and the causes of a stale map,  *)
(* for any PLCs, registers, number of requests and of restarts.            *)
(***************************************************************************)
EXTENDS ModbusMap, TLAPS

\* What a snapshot shows is what the tables say, until they change.
SnapshotsCurrent ==
    \A r \in Requests :
        step[r] = "read" => readAt[r] <= version
                            /\ (readAt[r] = version => snapshot[r] = Active)

\* So is what the map shows.
MapCurrent == phase = "up" => mapAt <= version /\ (mapAt = version => map = Active)

\* A reload reads after the change it is for.
ReadsAfterChange ==
    \A r \in Requests :
        /\ change[r] <= version
        /\ step[r] = "read" => change[r] <= readAt[r]

\* The request that has yet to bring n to the map.
Brings(r, n) == step[r] \in {"replying", "scheduled", "read"} /\ change[r] = n

\* A wanted change is on its way, or it has arrived, or it was lost.
WantedAccounted ==
    phase = "up" => \/ \E r \in Requests : Brings(r, wanted)
                    \/ wanted <= mapAt
                    \/ wanted <= lost

WantedBounded == wanted <= version /\ lost <= version

\* Requests exist while the process is up only.
OnlyWhenUp == phase # "up" => \A r \in Requests : step[r] = "idle"

Inv ==
    /\ TypeOK
    /\ NoOrphans
    /\ SnapshotsCurrent
    /\ MapCurrent
    /\ ReadsAfterChange
    /\ WantedAccounted
    /\ WantedBounded
    /\ OnlyWhenUp

\* The part of the invariant that is about the tables.
TablesOK ==
    /\ device \in SUBSET Devices
    /\ plc \in [Plcs -> {"none", "active", "inactive", "gone"}]
    /\ register \in [Keys -> {"absent", "active", "inactive"}]
    /\ value \in [Keys -> Values]

-----------------------------------------------------------------------------

LEMMA ActiveType ==
    ASSUME TypeOK
    PROVE  Active \in SUBSET (Keys \X Values)
  BY DEF TypeOK, Active

LEMMA InitInv == ASSUME MapAssumption, Init PROVE Inv
  <1>1. (CHOOSE v \in Values : TRUE) \in Values
    BY DEF MapAssumption
  <1>2. TypeOK
    BY <1>1 DEF MapAssumption, Init, TypeOK, Steps
  <1>3. NoOrphans
    BY DEF Init, NoOrphans, Exists, Keys
  <1>4. /\ SnapshotsCurrent /\ MapCurrent /\ ReadsAfterChange
        /\ WantedAccounted /\ WantedBounded /\ OnlyWhenUp
    BY DEF Init, SnapshotsCurrent, MapCurrent, ReadsAfterChange, WantedAccounted,
           WantedBounded, OnlyWhenUp
  <1> QED BY <1>2, <1>3, <1>4 DEF Inv

-----------------------------------------------------------------------------
(* The process.                                                            *)

LEMMA ProcessStep ==
    ASSUME MapAssumption, Inv, Start \/ FirstReload \/ Restart
    PROVE  Inv'
  <1>1. UNCHANGED tables /\ UNCHANGED Active /\ NoOrphans'
    <2>1. UNCHANGED <<device, plc, register, value>>
      BY DEF Start, FirstReload, Restart, tables
    <2> QED BY <2>1 DEF Inv, NoOrphans, Exists, Active, tables
  <1>2. CASE Start
    <2>1. Datastore(map) \in SUBSET Addresses
      BY DEF Inv, TypeOK, Datastore, Keys
    <2>2. TypeOK'
      BY <1>2, <2>1 DEF Start, Inv, TypeOK, tables, history
    <2>3. SnapshotsCurrent' /\ MapCurrent' /\ ReadsAfterChange'
      BY <1>1, <1>2 DEF Start, Inv, SnapshotsCurrent, MapCurrent, ReadsAfterChange, history
    <2>4. WantedAccounted' /\ WantedBounded' /\ OnlyWhenUp'
      BY <1>2 DEF Start, Inv, WantedAccounted, WantedBounded, OnlyWhenUp, history
    <2> QED BY <1>1, <2>2, <2>3, <2>4 DEF Inv
  <1>3. CASE FirstReload
    <2>1. version \in 1..MaxVersion /\ MaxVersion \in Nat
      BY DEF MapAssumption, Inv, TypeOK
    <2>2. TypeOK'
      BY <1>3, <2>1, ActiveType DEF FirstReload, Inv, TypeOK, tables
    <2>3. SnapshotsCurrent' /\ MapCurrent' /\ ReadsAfterChange'
      BY <1>1, <1>3, <2>1
         DEF FirstReload, Inv, SnapshotsCurrent, MapCurrent, ReadsAfterChange
    <2>4. WantedAccounted' /\ WantedBounded' /\ OnlyWhenUp'
      BY <1>3, <2>1 DEF FirstReload, Inv, WantedAccounted, WantedBounded, OnlyWhenUp
    <2> QED BY <1>1, <2>2, <2>3, <2>4 DEF Inv
  <1>4. CASE Restart
    <2>1. version \in 1..MaxVersion /\ MaxVersion \in Nat /\ MaxRestarts \in Nat
      BY DEF MapAssumption, Inv, TypeOK
    <2>2. TypeOK'
      BY <1>4, <2>1 DEF Restart, Inv, TypeOK, tables, Steps
    <2>3. SnapshotsCurrent' /\ MapCurrent' /\ ReadsAfterChange'
      BY <1>4, <2>1 DEF Restart, SnapshotsCurrent, MapCurrent, ReadsAfterChange
    <2>4. WantedAccounted' /\ WantedBounded' /\ OnlyWhenUp'
      BY <1>4 DEF Restart, Inv, WantedAccounted, WantedBounded, OnlyWhenUp
    <2> QED BY <1>1, <2>2, <2>3, <2>4 DEF Inv
  <1> QED BY <1>2, <1>3, <1>4

-----------------------------------------------------------------------------
(* The routes.                                                             *)

\* A commit keeps the books: a change that is wanted is on its way.
LEMMA CommitStep ==
    ASSUME MapAssumption, Inv, phase = "up",
           NEW r \in Requests, step[r] \in {"idle", "found"},
           NEW next \in {"idle", "replying", "scheduled"}, Commits(r, next),
           UNCHANGED wanted \/ (next # "idle" /\ wanted' = version'),
           TablesOK', NoOrphans'
    PROVE  Inv'
  <1>1. /\ version \in Nat /\ version >= 1 /\ MaxVersion \in Nat
        /\ version' \in {version, version + 1} /\ version' <= MaxVersion
        /\ version' = version => Active' = Active
    BY DEF MapAssumption, Inv, TypeOK, Commits
  <1>2. /\ step' = [step EXCEPT ![r] = next]
        /\ change' = [change EXCEPT ![r] = IF next = "idle" THEN 0 ELSE version']
        /\ target' = [target EXCEPT ![r] = NoPlc]
        /\ UNCHANGED <<map, served, phase, snapshot, restarts, readAt, mapAt, lost>>
    BY DEF Commits, gateway
  <1>3. /\ step \in [Requests -> Steps] /\ change \in [Requests -> 0..MaxVersion]
        /\ readAt \in [Requests -> 0..MaxVersion]
        /\ mapAt \in 0..MaxVersion /\ wanted \in 0..MaxVersion /\ lost \in 0..MaxVersion
    BY DEF Inv, TypeOK
  <1>4. TypeOK'
    <2>1. version' \in 1..MaxVersion /\ change' \in [Requests -> 0..MaxVersion]
          /\ wanted' \in 0..MaxVersion
      BY <1>1, <1>2, <1>3
    <2>2. /\ step' \in [Requests -> Steps] /\ target' \in [Requests -> Plcs \cup {NoPlc}]
          /\ \A q \in Requests : step'[q] = "found" => target'[q] # NoPlc
      BY <1>2 DEF Inv, TypeOK, Steps
    <2> QED BY <1>2, <2>1, <2>2 DEF Inv, TypeOK, TablesOK
  <1>5. SnapshotsCurrent'
    <2> SUFFICES ASSUME NEW q \in Requests, step'[q] = "read"
                 PROVE  /\ readAt'[q] <= version'
                        /\ readAt'[q] = version' => snapshot'[q] = Active'
      BY DEF SnapshotsCurrent
    <2>1. q # r /\ step[q] = "read"
      BY <1>2, <1>3
    <2>2. readAt[q] \in Nat /\ readAt[q] <= version
          /\ (readAt[q] = version => snapshot[q] = Active)
      BY <1>3, <2>1 DEF Inv, SnapshotsCurrent
    <2> QED BY <1>1, <1>2, <2>2
  <1>6. MapCurrent'
    <2>1. mapAt \in Nat /\ mapAt <= version /\ (mapAt = version => map = Active)
      BY <1>3 DEF Inv, MapCurrent
    <2> QED BY <1>1, <1>2, <2>1 DEF MapCurrent
  <1>7. ReadsAfterChange'
    <2> SUFFICES ASSUME NEW q \in Requests
                 PROVE  /\ change'[q] <= version'
                        /\ step'[q] = "read" => change'[q] <= readAt'[q]
      BY DEF ReadsAfterChange
    <2>1. CASE q = r
      BY <1>1, <1>2, <1>3, <2>1
    <2>2. CASE q # r
      <3>1. /\ change[q] \in Nat /\ change[q] <= version
            /\ step[q] = "read" => change[q] <= readAt[q]
        BY <1>3 DEF Inv, ReadsAfterChange
      <3> QED BY <1>1, <1>2, <1>3, <2>2, <3>1
    <2> QED BY <2>1, <2>2
  <1>8. WantedAccounted'
    <2>1. CASE next # "idle" /\ wanted' = version'
      <3>1. Brings(r, wanted)'
        BY <1>2, <1>3, <2>1 DEF Brings
      <3> QED BY <3>1 DEF WantedAccounted
    <2>2. CASE UNCHANGED wanted
      <3>1. CASE \E q \in Requests : Brings(q, wanted)
        <4>1. PICK q \in Requests : Brings(q, wanted)
          BY <3>1
        <4>2. q # r
          BY <4>1 DEF Brings
        <4>3. Brings(q, wanted)'
          BY <1>2, <1>3, <2>2, <4>1, <4>2 DEF Brings
        <4> QED BY <4>3 DEF WantedAccounted
      <3>2. CASE wanted <= mapAt \/ wanted <= lost
        BY <1>2, <2>2, <3>2 DEF WantedAccounted
      <3> QED BY <3>1, <3>2 DEF Inv, WantedAccounted
    <2> QED BY <2>1, <2>2
  <1>9. WantedBounded' /\ OnlyWhenUp'
    BY <1>1, <1>2, <1>3 DEF Inv, WantedBounded, OnlyWhenUp
  <1> QED BY <1>4, <1>5, <1>6, <1>7, <1>8, <1>9 DEF Inv

\* Each route keeps the tables well typed and its references whole, whatever
\* became of the PLC since it was looked up.
LEMMA PlcRoutes ==
    ASSUME MapAssumption, Inv, NEW r \in Requests,
           \/ \E p \in Plcs : CreatePlc(r, p)
           \/ \E s \in {"active", "inactive"} : UpdatePlc(r, s)
           \/ RemovePlc(r)
    PROVE  TablesOK' /\ NoOrphans'
  <1>1. /\ NoOrphans /\ TablesOK
        /\ step[r] = "found" => target[r] \in Plcs
    BY DEF Inv, TypeOK, TablesOK
  <1>2. CASE \E p \in Plcs : CreatePlc(r, p)
    BY <1>1, <1>2 DEF CreatePlc, TablesOK, NoOrphans, Exists, Keys
  <1>3. CASE \E s \in {"active", "inactive"} : UpdatePlc(r, s)
    BY <1>1, <1>3 DEF UpdatePlc, WithActive, TablesOK, NoOrphans, Exists, Keys
  <1>4. CASE RemovePlc(r)
    BY <1>1, <1>4 DEF RemovePlc, WithActive, TablesOK, NoOrphans, Exists, Keys
  <1> QED BY <1>2, <1>3, <1>4

LEMMA Deletions ==
    ASSUME MapAssumption, Inv, NEW r \in Requests,
           (\E d \in Devices : DeleteDevice(r, d)) \/ DeletePlc(r)
    PROVE  TablesOK' /\ NoOrphans'
  <1>1. /\ NoOrphans /\ TablesOK
        /\ step[r] = "found" => target[r] \in Plcs
    BY DEF Inv, TypeOK, TablesOK
  <1>2. CASE \E d \in Devices : DeleteDevice(r, d)
    <2>1. PICK d \in Devices : DeleteDevice(r, d)
      BY <1>2
    <2>2. TablesOK'
      BY <1>1, <2>1 DEF DeleteDevice, Without, TablesOK
    <2>3. ASSUME NEW k \in Keys, register'[k] # "absent" PROVE Exists(k[1])'
      BY <1>1, <2>1, <2>3 DEF DeleteDevice, Without, NoOrphans, Exists, Keys, TablesOK
    <2>4. ASSUME NEW p \in Plcs, Exists(p)' PROVE DeviceOf[p] \in device'
      BY <1>1, <2>1, <2>4 DEF DeleteDevice, NoOrphans, Exists, TablesOK
    <2> QED BY <2>2, <2>3, <2>4 DEF NoOrphans
  <1>3. CASE DeletePlc(r)
    <2>1. TablesOK'
      BY <1>1, <1>3 DEF DeletePlc, Without, WithActive, TablesOK
    <2>2. ASSUME NEW k \in Keys, register'[k] # "absent" PROVE Exists(k[1])'
      BY <1>1, <1>3, <2>2
         DEF DeletePlc, Without, WithActive, NoOrphans, Exists, Keys, TablesOK
    <2>3. ASSUME NEW p \in Plcs, Exists(p)' PROVE DeviceOf[p] \in device'
      BY <1>1, <1>3, <2>3 DEF DeletePlc, WithActive, NoOrphans, Exists, TablesOK
    <2> QED BY <2>1, <2>2, <2>3 DEF NoOrphans
  <1> QED BY <1>2, <1>3

LEMMA RegisterRoutes ==
    ASSUME MapAssumption, Inv, NEW r \in Requests,
           \/ \E a \in Addresses, v \in Values : CreateRegister(r, a, v)
           \/ \E A \in SUBSET Addresses \ {{}} :
                 \E items \in [A -> Values] : BulkCreateRegisters(r, items)
           \/ \E a \in Addresses, s \in {"active", "inactive"}, v \in Values :
                 UpdateRegister(r, a, s, v)
           \/ \E a \in Addresses : DeleteRegister(r, a)
    PROVE  TablesOK' /\ NoOrphans'
  <1>1. /\ NoOrphans /\ TablesOK
        /\ step[r] = "found" => target[r] \in Plcs
    BY DEF Inv, TypeOK, TablesOK
  <1>2. CASE \E a \in Addresses, v \in Values : CreateRegister(r, a, v)
    BY <1>1, <1>2 DEF CreateRegister, TablesOK, NoOrphans, Exists, Keys
  <1>3. CASE \E A \in SUBSET Addresses \ {{}} :
                \E items \in [A -> Values] : BulkCreateRegisters(r, items)
    BY <1>1, <1>3 DEF BulkCreateRegisters, TablesOK, NoOrphans, Exists, Keys
  <1>4. CASE \E a \in Addresses, s \in {"active", "inactive"}, v \in Values :
                UpdateRegister(r, a, s, v)
    BY <1>1, <1>4 DEF UpdateRegister, TablesOK, NoOrphans, Exists, Keys
  <1>5. CASE \E a \in Addresses : DeleteRegister(r, a)
    BY <1>1, <1>5 DEF DeleteRegister, TablesOK, NoOrphans, Exists, Keys
  <1> QED BY <1>2, <1>3, <1>4, <1>5

LEMMA WriteStep ==
    ASSUME MapAssumption, Inv, NEW r \in Requests, Writes(r)
    PROVE  Inv'
  <1>1. TablesOK' /\ NoOrphans'
    BY PlcRoutes, Deletions, RegisterRoutes DEF Writes
  <1>2. phase = "up" /\ step[r] \in {"idle", "found"}
    BY DEF Writes, CreatePlc, UpdatePlc, RemovePlc, DeleteDevice, DeletePlc, CreateRegister,
           BulkCreateRegisters, UpdateRegister, DeleteRegister, Inv, OnlyWhenUp
  <1>3. \E next \in {"idle", "replying", "scheduled"} :
           /\ Commits(r, next)
           /\ UNCHANGED wanted \/ (next # "idle" /\ wanted' = version')
    BY DEF Writes, CreatePlc, UpdatePlc, RemovePlc, DeleteDevice, DeletePlc, CreateRegister,
           BulkCreateRegisters, UpdateRegister, DeleteRegister
  <1> QED BY <1>1, <1>2, <1>3, CommitStep

\* A lookup, or a request that writes nothing.
LEMMA LookupStep ==
    ASSUME MapAssumption, Inv, NEW r \in Requests,
           (\E p \in Plcs : FindPlc(r, p)) \/ RequestFails(r)
    PROVE  Inv'
  <1>1. /\ UNCHANGED <<tables, gateway, history, phase, snapshot, restarts>>
        /\ step[r] \in {"idle", "found"} /\ phase = "up"
    BY DEF FindPlc, RequestFails, Inv, OnlyWhenUp
  <1>2. \E s \in {"idle", "found"} : step' = [step EXCEPT ![r] = s]
    BY DEF FindPlc, RequestFails
  <1>3. UNCHANGED Active /\ NoOrphans'
    BY <1>1 DEF Inv, NoOrphans, Exists, Active, tables
  <1>4. TypeOK'
    BY <1>1 DEF FindPlc, RequestFails, MapAssumption, Inv, TypeOK, Steps, tables, gateway, history
  <1>5. \A q \in Requests : step'[q] = step[q] \/ (q = r /\ step'[q] \in {"idle", "found"})
    BY <1>2 DEF Inv, TypeOK
  <1>6. SnapshotsCurrent' /\ MapCurrent' /\ ReadsAfterChange'
    BY <1>1, <1>3, <1>5 DEF Inv, SnapshotsCurrent, MapCurrent, ReadsAfterChange, gateway, history
  <1>7. WantedAccounted'
    BY <1>1, <1>5 DEF Inv, WantedAccounted, Brings, history
  <1>8. WantedBounded' /\ OnlyWhenUp'
    BY <1>1 DEF Inv, WantedBounded, OnlyWhenUp, history
  <1> QED BY <1>3, <1>4, <1>6, <1>7, <1>8 DEF Inv

-----------------------------------------------------------------------------
(* From the commit to the map.                                             *)

LEMMA LaterBounds ==
    ASSUME NEW m \in Nat, NEW n \in Nat
    PROVE  /\ Later(m, n) \in {m, n}
           /\ m <= Later(m, n) /\ n <= Later(m, n)
  BY DEF Later

\* What a reload leaves as it is.
LEMMA ReloadFrame ==
    ASSUME Inv, NEW r \in Requests, Reload(r)
    PROVE  /\ UNCHANGED <<tables, served, phase, target, restarts, version, wanted>>
           /\ UNCHANGED Active
           /\ NoOrphans'
           /\ phase = "up" /\ step[r] \in {"replying", "scheduled", "read"}
  <1>1. UNCHANGED <<tables, served, phase, target, restarts, version, wanted>>
    BY DEF Reload, Reply, ReplyFails, ReloadRead, ReloadAssign, ReloadFails, Drop,
           gateway, history
  <1>2. UNCHANGED Active /\ NoOrphans'
    BY <1>1 DEF Inv, NoOrphans, Exists, Active, tables
  <1>3. step[r] \in {"replying", "scheduled", "read"}
    BY DEF Reload, Reply, ReplyFails, ReloadRead, ReloadAssign, ReloadFails
  <1> QED BY <1>1, <1>2, <1>3 DEF Inv, OnlyWhenUp

\* A reload under way still brings its change.
LEMMA OnTheWay ==
    ASSUME MapAssumption, Inv, NEW r \in Requests, Reply(r) \/ ReloadRead(r)
    PROVE  Inv'
  <1>1. /\ UNCHANGED <<tables, served, phase, target, restarts, version, wanted>>
        /\ UNCHANGED Active /\ NoOrphans' /\ phase = "up"
    BY ReloadFrame DEF Reload
  <1>2. UNCHANGED <<map, mapAt, change, lost>>
    BY DEF Reply, ReloadRead, gateway, history
  <1>3. /\ \E s \in {"scheduled", "read"} : step' = [step EXCEPT ![r] = s]
        /\ step[r] \in {"replying", "scheduled"}
    BY DEF Reply, ReloadRead
  <1>4. version \in 1..MaxVersion /\ MaxVersion \in Nat
    BY DEF MapAssumption, Inv, TypeOK
  <1>5. TypeOK'
    <2>1. /\ snapshot' \in [Requests -> SUBSET (Keys \X Values)]
          /\ readAt' \in [Requests -> 0..MaxVersion]
      BY <1>4, ActiveType DEF Reply, ReloadRead, Inv, TypeOK, history
    <2>2. /\ step' \in [Requests -> Steps]
          /\ \A q \in Requests : step'[q] = "found" => target'[q] # NoPlc
      BY <1>1, <1>3 DEF Inv, TypeOK, Steps
    <2> QED BY <1>1, <1>2, <2>1, <2>2 DEF Inv, TypeOK, tables
  <1>6. SnapshotsCurrent' /\ ReadsAfterChange'
    <2> SUFFICES ASSUME NEW q \in Requests
                 PROVE  /\ change'[q] <= version'
                        /\ step'[q] = "read" =>
                              /\ readAt'[q] <= version'
                              /\ readAt'[q] = version' => snapshot'[q] = Active'
                              /\ change'[q] <= readAt'[q]
      BY DEF SnapshotsCurrent, ReadsAfterChange
    <2>1. /\ change[q] \in 0..MaxVersion /\ change[q] <= version
          /\ step[q] = "read" => /\ readAt[q] <= version
                                 /\ readAt[q] = version => snapshot[q] = Active
                                 /\ change[q] <= readAt[q]
      BY DEF Inv, TypeOK, SnapshotsCurrent, ReadsAfterChange
    <2>2. CASE Reply(r)
      BY <1>1, <1>2, <2>1, <2>2 DEF Reply, Inv, TypeOK, history
    <2>3. CASE ReloadRead(r)
      BY <1>1, <1>2, <1>4, <2>1, <2>3 DEF ReloadRead, Inv, TypeOK
    <2> QED BY <2>2, <2>3
  <1>7. WantedAccounted'
    <2>1. \A q \in Requests : Brings(q, wanted) => Brings(q, wanted)'
      BY <1>1, <1>2, <1>3 DEF Inv, TypeOK, Brings
    <2> QED BY <1>1, <1>2, <2>1 DEF Inv, WantedAccounted
  <1>8. MapCurrent' /\ WantedBounded' /\ OnlyWhenUp'
    BY <1>1, <1>2 DEF Inv, MapCurrent, WantedBounded, OnlyWhenUp
  <1> QED BY <1>1, <1>5, <1>6, <1>7, <1>8 DEF Inv

\* A request that is done with, and the other ones.
LEMMA DropStep ==
    ASSUME MapAssumption, Inv, NEW r \in Requests, Reload(r), Drop(r),
           map' \in SUBSET (Keys \X Values), mapAt' \in 0..MaxVersion,
           lost' \in 0..MaxVersion, lost' <= version,
           MapCurrent', WantedAccounted'
    PROVE  Inv'
  <1>1. /\ UNCHANGED <<tables, served, phase, target, restarts, version, wanted>>
        /\ UNCHANGED Active /\ NoOrphans' /\ phase = "up"
    BY ReloadFrame
  <1>2. /\ step' = [step EXCEPT ![r] = "idle"]
        /\ change' = [change EXCEPT ![r] = 0]
        /\ readAt' = [readAt EXCEPT ![r] = 0]
        /\ snapshot' = [snapshot EXCEPT ![r] = {}]
    BY DEF Drop
  <1>3. version \in 1..MaxVersion /\ MaxVersion \in Nat
    BY DEF MapAssumption, Inv, TypeOK
  <1>4. TypeOK'
    <2>1. /\ step' \in [Requests -> Steps] /\ change' \in [Requests -> 0..MaxVersion]
          /\ readAt' \in [Requests -> 0..MaxVersion]
          /\ snapshot' \in [Requests -> SUBSET (Keys \X Values)]
          /\ \A q \in Requests : step'[q] = "found" => target'[q] # NoPlc
      BY <1>1, <1>2, <1>3 DEF Inv, TypeOK, Steps
    <2> QED BY <1>1, <2>1 DEF Inv, TypeOK, tables
  <1>5. SnapshotsCurrent' /\ ReadsAfterChange'
    BY <1>1, <1>2, <1>3 DEF Inv, TypeOK, SnapshotsCurrent, ReadsAfterChange
  <1>6. WantedBounded' /\ OnlyWhenUp'
    BY <1>1 DEF Inv, WantedBounded, OnlyWhenUp
  <1> QED BY <1>1, <1>4, <1>5, <1>6 DEF Inv

\* A change that is dropped is lost.
LEMMA FailStep ==
    ASSUME MapAssumption, Inv, NEW r \in Requests, ReplyFails(r) \/ ReloadFails(r)
    PROVE  Inv'
  <1>1. /\ Reload(r) /\ Drop(r) /\ UNCHANGED <<map, mapAt>>
        /\ lost' = Later(lost, change[r])
    BY DEF Reload, ReplyFails, ReloadFails
  <1>2. UNCHANGED <<phase, version, wanted>> /\ UNCHANGED Active
    BY <1>1, ReloadFrame
  <1>3. /\ lost \in 0..MaxVersion /\ change[r] \in 0..MaxVersion /\ MaxVersion \in Nat
        /\ lost <= version /\ change[r] <= version /\ wanted \in 0..MaxVersion
    BY DEF MapAssumption, Inv, TypeOK, WantedBounded, ReadsAfterChange
  <1>4. /\ lost' \in 0..MaxVersion /\ lost' <= version
        /\ lost <= lost' /\ change[r] <= lost'
    BY <1>1, <1>3, LaterBounds
  <1>5. WantedAccounted'
    <2>1. CASE \E q \in Requests : Brings(q, wanted)
      <3>1. PICK q \in Requests : Brings(q, wanted)
        BY <2>1
      <3>2. CASE q = r
        BY <1>2, <1>4, <3>1, <3>2 DEF Brings, WantedAccounted
      <3>3. CASE q # r
        <4>1. Brings(q, wanted)'
          BY <1>1, <1>2, <3>1, <3>3 DEF Drop, Brings, Inv, TypeOK
        <4> QED BY <4>1 DEF WantedAccounted
      <3> QED BY <3>2, <3>3
    <2>2. CASE wanted <= mapAt \/ wanted <= lost
      BY <1>1, <1>2, <1>3, <1>4, <2>2 DEF WantedAccounted
    <2> QED BY <1>2, <2>1, <2>2 DEF Inv, WantedAccounted
  <1>6. MapCurrent'
    BY <1>1, <1>2 DEF Inv, MapCurrent
  <1> QED BY <1>1, <1>4, <1>5, <1>6, DropStep DEF Inv, TypeOK

\* An assignment brings the change of its own request, and loses at most what
\* the map it replaces had brought.
LEMMA AssignStep ==
    ASSUME MapAssumption, Inv, NEW r \in Requests, ReloadAssign(r)
    PROVE  Inv'
  <1>1. /\ Reload(r) /\ Drop(r) /\ step[r] = "read"
        /\ map' = snapshot[r] /\ mapAt' = readAt[r]
        /\ lost' = IF readAt[r] < mapAt THEN Later(lost, mapAt) ELSE lost
    BY DEF Reload, ReloadAssign
  <1>2. UNCHANGED <<phase, version, wanted>> /\ UNCHANGED Active /\ phase = "up"
    BY <1>1, ReloadFrame
  <1>3. /\ lost \in 0..MaxVersion /\ mapAt \in 0..MaxVersion /\ readAt[r] \in 0..MaxVersion
        /\ change[r] \in 0..MaxVersion /\ wanted \in 0..MaxVersion /\ MaxVersion \in Nat
        /\ lost <= version /\ mapAt <= version /\ change[r] <= readAt[r]
        /\ version \in 1..MaxVersion
    BY <1>1, <1>2
       DEF MapAssumption, Inv, TypeOK, WantedBounded, MapCurrent, ReadsAfterChange
  <1>4. /\ lost' \in 0..MaxVersion /\ lost' <= version /\ lost <= lost'
        /\ mapAt <= mapAt' \/ mapAt <= lost'
    BY <1>1, <1>3, LaterBounds
  <1>5. WantedAccounted'
    <2>1. CASE \E q \in Requests : Brings(q, wanted)
      <3>1. PICK q \in Requests : Brings(q, wanted)
        BY <2>1
      <3>2. CASE q = r
        <4>1. wanted' <= mapAt'
          BY <1>1, <1>2, <1>3, <3>1, <3>2 DEF Brings
        <4> QED BY <4>1 DEF WantedAccounted
      <3>3. CASE q # r
        <4>1. Brings(q, wanted)'
          BY <1>1, <1>2, <3>1, <3>3 DEF Drop, Brings, Inv, TypeOK
        <4> QED BY <4>1 DEF WantedAccounted
      <3> QED BY <3>2, <3>3
    <2>2. CASE wanted <= mapAt \/ wanted <= lost
      <3>1. mapAt' \in Nat /\ lost' \in Nat
        BY <1>1, <1>3, <1>4
      <3> QED BY <1>2, <1>3, <1>4, <2>2, <3>1 DEF WantedAccounted
    <2> QED BY <1>2, <2>1, <2>2 DEF Inv, WantedAccounted
  <1>6. MapCurrent'
    BY <1>1, <1>2 DEF Inv, SnapshotsCurrent, MapCurrent
  <1>7. map' \in SUBSET (Keys \X Values) /\ mapAt' \in 0..MaxVersion
    BY <1>1 DEF Inv, TypeOK
  <1> QED BY <1>1, <1>4, <1>5, <1>6, <1>7, DropStep

LEMMA NextInv == ASSUME MapAssumption, Inv, [Next]_vars PROVE Inv'
  <1>1. CASE Start \/ FirstReload \/ Restart
    BY <1>1, ProcessStep
  <1>2. CASE \E r \in Requests : Writes(r)
    BY <1>2, WriteStep
  <1>3. CASE \E r \in Requests : (\E p \in Plcs : FindPlc(r, p)) \/ RequestFails(r)
    BY <1>3, LookupStep
  <1>4. CASE \E r \in Requests : Reload(r)
    BY <1>4, OnTheWay, FailStep, AssignStep DEF Reload
  <1>5. CASE UNCHANGED vars
    BY <1>5 DEF vars, tables, gateway, history, Inv, TypeOK, NoOrphans, Exists, SnapshotsCurrent,
           MapCurrent, ReadsAfterChange, WantedAccounted, Brings, WantedBounded, OnlyWhenUp,
           Active
  <1> QED BY <1>1, <1>2, <1>3, <1>4, <1>5 DEF Next

-----------------------------------------------------------------------------
(* The theorems.                                                           *)

THEOREM Invariance == Spec => []Inv
  <1>1. Init => Inv
    BY InitInv, MapAssumption
  <1>2. Inv /\ [Next]_vars => Inv'
    BY NextInv, MapAssumption
  <1> QED BY <1>1, <1>2, PTL DEF Spec

\* Type correctness of the registry and the map.
THEOREM MapTypeCorrect == Spec => []TypeOK
  <1>1. Inv => TypeOK
    BY DEF Inv
  <1> QED BY <1>1, Invariance, PTL

\* The schema keeps what the routes look up too early: no register outlives
\* its PLC, no PLC its device.
THEOREM ReferencesAreWhole == Spec => []NoOrphans
  <1>1. Inv => NoOrphans
    BY DEF Inv
  <1> QED BY <1>1, Invariance, PTL

\* When no reload is on its way, a wanted change is in the map or lost.  If it
\* is the last one, the map shows the tables.
LEMMA StaleMapExplained == ASSUME MapAssumption, Inv PROVE StaleHasCause
  <1> SUFFICES ASSUME Quiet, map # Active, ~(wanted <= lost)
               PROVE  wanted < version
    BY DEF StaleHasCause
  <1>1. /\ version \in 1..MaxVersion /\ MaxVersion \in Nat
        /\ wanted \in 0..MaxVersion /\ mapAt \in 0..MaxVersion
        /\ wanted <= version
    BY DEF MapAssumption, Inv, TypeOK, WantedBounded
  <1>2. phase = "up" /\ \A r \in Requests : ~Brings(r, wanted)
    BY DEF Quiet, Brings
  <1>3. wanted <= mapAt
    BY <1>2 DEF Inv, WantedAccounted
  <1>4. mapAt <= version /\ mapAt # version
    BY <1>2 DEF Inv, MapCurrent
  <1> QED BY <1>1, <1>3, <1>4

\* A map that is not what the tables say, with no reload on its way, was left
\* behind by a PATCH of a PLC, a failure after a commit, or an older reload.
THEOREM StaleMapHasCause == Spec => []StaleHasCause
  <1>1. Inv => StaleHasCause
    BY StaleMapExplained, MapAssumption
  <1> QED BY <1>1, Invariance, PTL
=============================================================================
