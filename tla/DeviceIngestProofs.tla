------------------------- MODULE DeviceIngestProofs -------------------------
(***************************************************************************)
(* Stored readings and presence, for any number of devices, sessions,      *)
(* readings, renewed keys and restarts.                                    *)
(***************************************************************************)
EXTENDS DeviceIngest, TLAPS

\* What PostgreSQL's locks keep true between the statements of a transaction:
\* who has inserted refers to a row that is there, and who has written a
\* contact, to one that is active.
Inv ==
    /\ TypeOK
    /\ \A k \in Jobs, r \in Readings :
          job[k][r] \in {"inserted", "complete"} => Registered(DeviceOf[r])
    /\ \A k \in Jobs, r \in Readings : stamp[k][r] # {} => dev[DeviceOf[r]] = "active"
    /\ StoredUnderLiveDevice

USE DEF Inv, StoredUnderLiveDevice, deviceVars, presenceVars, sessionVars, tableVars

\* Nothing is registered, and nothing has been sent.
LEMMA Initial == Init => Inv
  BY IngestAssumption DEF Init, TypeOK, Phases, Jobs, Saves

\* One job of one reading goes on, and so does one stamp.
LEMMA JobChange ==
    ASSUME TypeOK, NEW k \in Jobs, NEW r \in Readings, NEW to \in Phases,
           job' = [job EXCEPT ![k][r] = to]
    PROVE  /\ job'[k][r] = to
           /\ job' \in [Jobs -> [Readings -> Phases]]
           /\ \A l \in Jobs, q \in Readings : l # k \/ q # r => job'[l][q] = job[l][q]
  BY DEF TypeOK

\* The same of stamps.
LEMMA StampChange ==
    ASSUME TypeOK, NEW k \in Jobs, NEW r \in Readings, NEW S \in SUBSET (0..Timeout),
           stamp' = [stamp EXCEPT ![k][r] = S]
    PROVE  /\ stamp'[k][r] = S
           /\ stamp' \in [Jobs -> [Readings -> SUBSET (0..Timeout)]]
           /\ \A l \in Jobs, q \in Readings : l # k \/ q # r => stamp'[l][q] = stamp[l][q]
  BY DEF TypeOK

\* A step that changes neither devices, stamps nor tables has only to name a
\* job that is not yet, or no longer, at a reference.
LEMMA JobKeeps ==
    ASSUME Inv, NEW k \in Jobs, NEW r \in Readings, NEW to \in Phases,
           job' = [job EXCEPT ![k][r] = to],
           to \in {"inserted", "complete"} => Registered(DeviceOf[r]),
           UNCHANGED <<deviceVars, presenceVars, authKey, stamp, tableVars, overdue, restarts>>,
           session' \in [Sessions -> {"closed", "open", "busy", "ended"}],
           wire' \in [Readings -> {"none", "sent", "delivered", "settled"}]
    PROVE  Inv'
<1>1. TypeOK'
  BY JobChange DEF TypeOK
<1> QED
  BY <1>1, JobChange DEF Registered

\* Opening and closing of sessions, and what the broker delivers.
LEMMA DeliveryKeeps ==
    ASSUME Inv, NEW r \in Readings, Forward(r) \/ Send(r) \/ OnMessage(r) \/ Redelivered(r)
    PROVE  Inv'
<1>1. {"published", "scheduled"} \subseteq Phases /\ {"forward", "save", "resave"} \subseteq Jobs
  BY DEF Phases, Running, Jobs, Saves
<1>2. CASE Forward(r) \/ OnMessage(r) \/ Redelivered(r)
  <2>1. PICK k \in {"forward", "save", "resave"}, to \in {"published", "scheduled"} :
            job' = [job EXCEPT ![k][r] = to]
    BY <1>2 DEF Forward, OnMessage, Redelivered
  <2>2. /\ session' \in [Sessions -> {"closed", "open", "busy", "ended"}]
        /\ wire' \in [Readings -> {"none", "sent", "delivered", "settled"}]
    BY <1>2 DEF Forward, OnMessage, Redelivered, TypeOK
  <2>3. UNCHANGED <<deviceVars, presenceVars, authKey, stamp, tableVars, overdue, restarts>>
    BY <1>2 DEF Forward, OnMessage, Redelivered
  <2> QED
    BY <1>1, <2>1, <2>2, <2>3, JobKeeps
<1>3. CASE Send(r)
  BY <1>3 DEF Send, TypeOK, Registered
<1> QED
  BY <1>2, <1>3

\* A session opens or closes for a device that may be sending.
LEMMA SessionKeeps ==
    ASSUME Inv, NEW s \in Sessions, SessionEnds(s) \/ \E d \in Devices : Authenticate(s, d)
    PROVE  Inv'
<1>1. session' \in [Sessions -> {"closed", "open", "busy", "ended"}]
  BY DEF SessionEnds, Authenticate, TypeOK
<1>2. authKey' \in [Sessions -> 0..MaxKeys]
  BY DEF SessionEnds, Authenticate, TypeOK
<1>3. UNCHANGED <<deviceVars, presenceVars, wire, job, stamp, tableVars, overdue, restarts>>
  BY DEF SessionEnds, Authenticate
<1> QED
  BY <1>1, <1>2, <1>3 DEF TypeOK, Registered

\* The statements of the two transactions,
LEMMA StatementKeeps ==
    ASSUME Inv, NEW k \in Jobs, NEW r \in Readings,
           Lookup(k, r) \/ UpdateStatus(k, r) \/ InsertMessage(k, r) \/ InsertUnidentified(k, r)
    PROVE  Inv'
<1>0. {"found", "unknown", "updated", "complete", "inserted", "nulled"} \subseteq Phases
  BY DEF Phases, Running
<1>1. CASE Lookup(k, r)
  <2>1. PICK to \in {"found", "unknown"} : job' = [job EXCEPT ![k][r] = to]
    BY <1>1 DEF Lookup, Step
  <2> QED
    BY <1>0, <1>1, <2>1, JobKeeps DEF Lookup, TypeOK
<1>2. CASE UpdateStatus(k, r)
  <2>1. PICK to \in {"updated", "complete"} :
            job' = [job EXCEPT ![k][r] = to] /\ (to = "complete" => job[k][r] = "inserted")
    BY <1>2 DEF UpdateStatus, Step
  <2>2. PICK S \in SUBSET (0..Timeout) :
            /\ stamp' = [stamp EXCEPT ![k][r] = S]
            /\ S # {} => dev[DeviceOf[r]] = "active"
    <3>1. {0} \in SUBSET (0..Timeout) /\ {} \in SUBSET (0..Timeout)
      BY IngestAssumption
    <3> QED
      BY <1>2, <3>1 DEF UpdateStatus
  <2>3. UNCHANGED <<deviceVars, presenceVars, sessionVars, wire, tableVars, overdue, restarts>>
    BY <1>2 DEF UpdateStatus
  <2>4. TypeOK'
    BY <1>0, <2>1, <2>2, <2>3, JobChange, StampChange DEF TypeOK
  <2> QED
    BY <1>0, <2>1, <2>2, <2>3, <2>4, JobChange, StampChange DEF Registered
<1>3. CASE InsertMessage(k, r)
  <2>1. PICK to \in {"complete", "inserted"} : job' = [job EXCEPT ![k][r] = to]
    BY <1>3 DEF InsertMessage, Step
  <2> QED
    BY <1>0, <1>3, <2>1, JobKeeps DEF InsertMessage, TypeOK
<1>4. CASE InsertUnidentified(k, r)
  BY <1>0, <1>4, JobKeeps DEF InsertUnidentified, Step, TypeOK
<1> QED
  BY <1>1, <1>2, <1>3, <1>4

\* and how they end.
LEMMA EndKeeps ==
    ASSUME Inv, NEW k \in Jobs, NEW r \in Readings, Commit(k, r) \/ Fails(k, r)
    PROVE  Inv'
<1>0. {"done", "failed"} \subseteq Phases /\ {} \in SUBSET (0..Timeout)
  BY DEF Phases
<1>1. session' \in [Sessions -> {"closed", "open", "busy", "ended"}]
  BY DEF Commit, Fails, SessionAfter, TypeOK
<1>2. job' \in [Jobs -> [Readings -> Phases]] /\ job'[k][r] \in {"done", "failed"}
      /\ \A l \in Jobs, q \in Readings : l # k \/ q # r => job'[l][q] = job[l][q]
  <2>1. PICK to \in {"done", "failed"} : job' = [job EXCEPT ![k][r] = to]
    BY DEF Commit, Fails, Step
  <2>2. TypeOK /\ to \in Phases
    BY <1>0
  <2> HIDE DEF Inv
  <2> QED
    BY <2>1, <2>2, JobChange
<1>3. stamp' \in [Jobs -> [Readings -> SUBSET (0..Timeout)]] /\ stamp'[k][r] = {}
      /\ \A l \in Jobs, q \in Readings : l # k \/ q # r => stamp'[l][q] = stamp[l][q]
  <2>1. stamp \in [Jobs -> [Readings -> SUBSET (0..Timeout)]]
    BY DEF TypeOK
  <2>2. stamp' = [stamp EXCEPT ![k][r] = {}]
    BY DEF Commit, Fails
  <2> HIDE DEF Inv
  <2> QED
    BY <2>1, <2>2
<1>4. UNCHANGED <<deviceVars, authKey, wire, overdue, restarts>>
  BY DEF Commit, Fails
<1>a. \A l \in Jobs, q \in Readings :
          job'[l][q] \in {"inserted", "complete"} => Registered(DeviceOf[q])
  <2>1. SUFFICES ASSUME NEW l \in Jobs, NEW q \in Readings, job'[l][q] \in {"inserted", "complete"}
                 PROVE  Registered(DeviceOf[q])
    OBVIOUS
  <2>2. job'[l][q] = job[l][q]
    BY <1>2, <2>1
  <2> QED
    BY <2>1, <2>2
<1>b. \A l \in Jobs, q \in Readings : stamp'[l][q] # {} => dev[DeviceOf[q]] = "active"
  BY <1>3
<1>5. ASSUME UNCHANGED <<stored, presenceVars>>, orphan' \in SUBSET Readings
      PROVE  Inv'
  <2>1. TypeOK'
    BY <1>1, <1>2, <1>3, <1>4, <1>5 DEF TypeOK
  <2> QED
    BY <1>4, <1>5, <1>a, <1>b, <2>1 DEF Registered
<1>6. ASSUME job[k][r] = "complete",
             stored' = [stored EXCEPT ![r] = @ \cup {k}],
             online' = [online EXCEPT ![DeviceOf[r]] = @ \/ stamp[k][r] # {}],
             age' = [age EXCEPT ![DeviceOf[r]] =
                        IF stamp[k][r] = {} THEN @ ELSE CHOOSE a \in stamp[k][r] : TRUE],
             UNCHANGED orphan
      PROVE  Inv'
  <2>1. DeviceOf[r] \in Devices /\ stamp[k][r] \in SUBSET (0..Timeout)
    BY IngestAssumption DEF TypeOK
  <2>2. stored' \in [Readings -> SUBSET Jobs]
        /\ \A q \in Readings : stored'[q] # {} => stored[q] # {} \/ q = r
    BY <1>6 DEF TypeOK
  <2>3. online' \in [Devices -> BOOLEAN]
    BY <1>6, <2>1 DEF TypeOK
  <2>4. age' \in [Devices -> 0..Timeout]
    <3>1. stamp[k][r] # {} => (CHOOSE a \in stamp[k][r] : TRUE) \in 0..Timeout
      BY <2>1
    <3> QED
      BY <1>6, <2>1, <3>1 DEF TypeOK
  <2>5. TypeOK'
    BY <1>1, <1>2, <1>3, <1>4, <1>6, <2>2, <2>3, <2>4 DEF TypeOK
  <2>6. Registered(DeviceOf[r])
    BY <1>6
  <2> QED
    BY <1>4, <1>a, <1>b, <2>2, <2>5, <2>6 DEF Registered
<1>7. CASE Commit(k, r)
  <2>1. CASE job[k][r] = "complete" /\ UNCHANGED orphan
    BY <1>6, <1>7, <2>1 DEF Commit, Step
  <2>2. CASE orphan' = orphan \cup {r} /\ UNCHANGED <<stored, presenceVars>>
    BY <1>5, <2>2 DEF TypeOK
  <2> QED
    BY <1>7, <2>1, <2>2 DEF Commit, Step
<1>8. CASE Fails(k, r)
  BY <1>5, <1>8 DEF Fails, TypeOK
<1> QED
  BY <1>7, <1>8

\* A row that is written to or referred to is not suspended or deleted.
LEMMA RouteKeeps ==
    ASSUME Inv, NEW d \in Devices,
           RegisterDevice(d) \/ UpdateDevice(d) \/ RenewApiKey(d) \/ DeleteDevice(d)
    PROVE  Inv'
<1>1. CASE RegisterDevice(d)
  BY <1>1 DEF RegisterDevice, TypeOK, Registered
<1>2. CASE UpdateDevice(d)
  BY <1>2 DEF UpdateDevice, TypeOK, Registered, RowLocked
<1>3. CASE RenewApiKey(d)
  BY <1>3, IngestAssumption DEF RenewApiKey, TypeOK, Registered
<1>4. CASE DeleteDevice(d)
  <2>1. TypeOK'
    BY <1>4, IngestAssumption DEF DeleteDevice, TypeOK
  <2> QED
    BY <1>4, <2>1 DEF DeleteDevice, TypeOK, Registered, RowLocked, RowReferenced
<1> QED
  BY <1>1, <1>2, <1>3, <1>4

\* Time, the monitor and a restart.
LEMMA WorldKeeps ==
    ASSUME Inv, MonitorScan \/ MonitorWrite \/ Tick \/ Restart
    PROVE  Inv'
<1>1. CASE MonitorScan
  BY <1>1 DEF MonitorScan, TypeOK, Registered
<1>2. CASE MonitorWrite
  <2>1. TypeOK'
    BY <1>2 DEF MonitorWrite, TypeOK
  <2> QED
    BY <1>2, <2>1 DEF MonitorWrite, Registered
<1>3. CASE Tick
  <2>1. \A a \in 0..Timeout : Older(a) \in 0..Timeout
    BY IngestAssumption DEF Older
  <2>2. \A k \in Jobs, r \in Readings :
            stamp'[k][r] = {Older(a) : a \in stamp[k][r]}
    BY <1>3 DEF Tick
  <2>3. age' \in [Devices -> 0..Timeout]
    BY <1>3, <2>1 DEF Tick, TypeOK
  <2>4. stamp' \in [Jobs -> [Readings -> SUBSET (0..Timeout)]]
    BY <1>3, <2>1 DEF Tick, TypeOK
  <2>5. TypeOK'
    BY <1>3, <2>3, <2>4 DEF Tick, TypeOK
  <2> QED
    BY <1>3, <2>2, <2>5 DEF Tick, Registered
<1>4. CASE Restart
  <2>1. TypeOK'
    BY <1>4, IngestAssumption DEF Restart, TypeOK, Phases
  <2>2. \A k \in Jobs, r \in Readings : job'[k][r] \notin Running /\ stamp'[k][r] = {}
    BY <1>4 DEF Restart, Running
  <2> QED
    BY <1>4, <2>1, <2>2 DEF Restart, Registered, Running
<1> QED
  BY <1>1, <1>2, <1>3, <1>4

\* Every step keeps the invariant.
LEMMA Kept == Inv /\ [Next]_vars => Inv'
<1> SUFFICES ASSUME Inv, [Next]_vars PROVE Inv'
  OBVIOUS
<1>1. CASE UNCHANGED vars
  BY <1>1 DEF vars, TypeOK, Registered
<1>2. CASE Next
  BY <1>2, DeliveryKeeps, SessionKeeps, StatementKeeps, EndKeeps, RouteKeeps, WorldKeeps DEF Next
<1> QED
  BY <1>1, <1>2

\* However INSERT, commit and DELETE interleave, and for any number of devices
\* and readings: no row is stored under a device that is gone or never was.
THEOREM RowsHaveDevices == Spec => []StoredUnderLiveDevice
<1>1. Init => Inv
  BY Initial
<1>2. Inv /\ [Next]_vars => Inv'
  BY Kept
<1>3. Inv => StoredUnderLiveDevice
  OBVIOUS
<1> QED
  BY <1>1, <1>2, <1>3, PTL DEF Spec

\* The state of readings, sessions and presence stays well typed.
THEOREM IngestTypeCorrect == Spec => []TypeOK
<1>1. Init => Inv
  BY Initial
<1>2. Inv /\ [Next]_vars => Inv'
  BY Kept
<1>3. Inv => TypeOK
  OBVIOUS
<1> QED
  BY <1>1, <1>2, <1>3, PTL DEF Spec

-----------------------------------------------------------------------------
(* Presence.                                                               *)

\* Only a commit of a stamped job turns a device on, only the monitor and the
\* deletion of the device turn it off.
LEMMA PresenceMoves ==
    ASSUME Inv, Next
    PROVE  \/ UNCHANGED online
           \/ \E k \in Jobs, r \in Readings :
                 /\ Commit(k, r)
                 /\ online' = [online EXCEPT ![DeviceOf[r]] = @ \/ stamp[k][r] # {}]
           \/ \E d \in Devices : DeleteDevice(d)
           \/ MonitorWrite
<1>1. CASE \E s \in Sessions : SessionEnds(s) \/ \E d \in Devices : Authenticate(s, d)
  BY <1>1 DEF SessionEnds, Authenticate
<1>2. CASE \E r \in Readings : Forward(r) \/ Send(r) \/ OnMessage(r) \/ Redelivered(r)
  BY <1>2 DEF Forward, Send, OnMessage, Redelivered
<1>3. CASE \E r \in Readings, k \in Jobs : \/ Lookup(k, r) \/ InsertUnidentified(k, r)
                                           \/ UpdateStatus(k, r) \/ InsertMessage(k, r) \/ Fails(k, r)
  BY <1>3 DEF Lookup, InsertUnidentified, UpdateStatus, InsertMessage, Fails
<1>4. CASE \E r \in Readings, k \in Jobs : Commit(k, r)
  BY <1>4 DEF Commit
<1>5. CASE \E d \in Devices : RegisterDevice(d) \/ UpdateDevice(d) \/ RenewApiKey(d)
  BY <1>5 DEF RegisterDevice, UpdateDevice, RenewApiKey
<1>6. CASE MonitorScan \/ Tick \/ Restart
  BY <1>6 DEF MonitorScan, Tick, Restart
<1> QED
  BY <1>1, <1>2, <1>3, <1>4, <1>5, <1>6 DEF Next

\* A transaction that found the device active does not revive it once it is
\* suspended or deleted.
THEOREM SuspendedStaysOffline == Spec => InactiveNotRevived
<1>1. ASSUME Inv, [Next]_vars
      PROVE  [\A d \in Devices : dev[d] # "active" /\ ~online[d] => ~online'[d]]_vars
  <2>1. SUFFICES ASSUME Next, NEW d \in Devices, dev[d] # "active", ~online[d]
                 PROVE  ~online'[d]
    BY <1>1
  <2>2. ASSUME NEW k \in Jobs, NEW r \in Readings,
               online' = [online EXCEPT ![DeviceOf[r]] = @ \/ stamp[k][r] # {}]
        PROVE  ~online'[d]
    <3>1. CASE DeviceOf[r] = d
      <4>1. stamp[k][r] = {}
        BY <1>1, <2>1, <3>1
      <4> QED
        BY <1>1, <2>1, <2>2, <3>1, <4>1 DEF TypeOK
    <3>2. CASE DeviceOf[r] # d
      BY <1>1, <2>1, <2>2, <3>2 DEF TypeOK
    <3> QED
      BY <3>1, <3>2
  <2>3. ASSUME NEW e \in Devices, DeleteDevice(e)
        PROVE  ~online'[d]
    BY <1>1, <2>1, <2>3 DEF DeleteDevice, TypeOK
  <2>4. CASE MonitorWrite
    BY <2>1, <2>4 DEF MonitorWrite
  <2> QED
    BY <1>1, <2>1, <2>2, <2>3, <2>4, PresenceMoves
<1>2. Init => Inv
  BY Initial
<1>3. Inv /\ [Next]_vars => Inv'
  BY Kept
<1> QED
  BY <1>1, <1>2, <1>3, PTL DEF Spec, InactiveNotRevived

\* Wherever a contact commits between the monitor's two looks: it turns off
\* only a device whose last contact is old when that is written.
THEOREM MonitorLooksAgain == Spec => OfflineOnlyWhenSilent
<1>1. ASSUME Inv, [Next]_vars
      PROVE  [\A d \in Devices : online[d] /\ ~online'[d] /\ dev'[d] # "deleted"
                                     => age[d] = Timeout]_vars
  <2>1. SUFFICES ASSUME Next, NEW d \in Devices, online[d], ~online'[d], dev'[d] # "deleted"
                 PROVE  age[d] = Timeout
    BY <1>1
  <2>2. ASSUME NEW k \in Jobs, NEW r \in Readings,
               online' = [online EXCEPT ![DeviceOf[r]] = @ \/ stamp[k][r] # {}]
        PROVE  FALSE
    BY <1>1, <2>1, <2>2 DEF TypeOK
  <2>3. ASSUME NEW e \in Devices, DeleteDevice(e)
        PROVE  FALSE
    BY <1>1, <2>1, <2>3 DEF DeleteDevice, TypeOK
  <2>4. CASE MonitorWrite
    BY <2>1, <2>4 DEF MonitorWrite, Overdue
  <2> QED
    BY <1>1, <2>1, <2>2, <2>3, <2>4, PresenceMoves
<1>2. Init => Inv
  BY Initial
<1>3. Inv /\ [Next]_vars => Inv'
  BY Kept
<1> QED
  BY <1>1, <1>2, <1>3, PTL DEF Spec, OfflineOnlyWhenSilent

-----------------------------------------------------------------------------
(* The transactions implement the tables of MessageStore.                  *)

\* A save begins once the broker has delivered, the second once it has done so
\* again, and a session forwards a reading once; as it has authenticated its
\* device, the reading is never of unknown origin.
CopiesOK ==
    \A r \in Readings :
        /\ wire[r] \in {"none", "sent"} => job["save"][r] = "none"
        /\ wire[r] # "settled" => job["resave"][r] = "none"
        /\ r \in Tcp /\ job["forward"][r] = "none" => wire[r] = "none"
        /\ job["forward"][r] \notin {"unknown", "nulled"}

\* What the tables see of a state.
StoreVars == <<dev, online, age, stored, orphan, settledBar>>

LEMMA CopiesKept == Inv /\ CopiesOK /\ [Next]_vars => CopiesOK'
<1> SUFFICES ASSUME Inv, CopiesOK, [Next]_vars PROVE CopiesOK'
  OBVIOUS
<1>0. Jobs = {"forward", "save", "resave"} /\ Saves = {"save", "resave"} /\ TypeOK
  BY DEF Jobs, Saves
<1>1. ASSUME NEW r \in Readings, Forward(r) \/ Send(r) \/ OnMessage(r) \/ Redelivered(r)
      PROVE  CopiesOK'
  <2> HIDE DEF Inv
  <2>1. CASE Forward(r)
    BY <1>0, <2>1 DEF Forward, CopiesOK, TypeOK
  <2>2. CASE Send(r)
    BY <1>0, <2>2 DEF Send, CopiesOK, TypeOK
  <2>3. CASE OnMessage(r)
    BY <1>0, <2>3 DEF OnMessage, CopiesOK, TypeOK
  <2>4. CASE Redelivered(r)
    BY <1>0, <2>4 DEF Redelivered, CopiesOK, TypeOK
  <2> QED
    BY <1>1, <2>1, <2>2, <2>3, <2>4
<1>2. ASSUME NEW k \in Jobs, NEW r \in Readings, NEW to, job' = [job EXCEPT ![k][r] = to],
             job[k][r] # "none", to # "none", k = "forward" => to \notin {"unknown", "nulled"},
             UNCHANGED wire
      PROVE  CopiesOK'
  <2> HIDE DEF Inv
  <2>1. \A l \in Jobs, q \in Readings : job'[l][q] = IF l = k /\ q = r THEN to ELSE job[l][q]
    BY <1>0, <1>2 DEF TypeOK
  <2> QED
    BY <1>0, <1>2, <2>1 DEF CopiesOK
<1>3. ASSUME NEW r \in Readings, NEW k \in Jobs,
             \/ Lookup(k, r) \/ UpdateStatus(k, r) \/ InsertMessage(k, r)
             \/ InsertUnidentified(k, r) \/ Commit(k, r) \/ Fails(k, r)
      PROVE  CopiesOK'
  <2>1. CASE Lookup(k, r)
    BY <1>0, <1>2, <2>1 DEF Lookup, Step
  <2>2. CASE UpdateStatus(k, r)
    BY <1>2, <2>2 DEF UpdateStatus, Step
  <2>3. CASE InsertMessage(k, r)
    BY <1>2, <2>3 DEF InsertMessage, Step
  <2>4. CASE InsertUnidentified(k, r)
    BY <1>2, <2>4 DEF InsertUnidentified, Step, CopiesOK
  <2>5. CASE Commit(k, r)
    BY <1>2, <2>5 DEF Commit, Step
  <2>6. CASE Fails(k, r)
    BY <1>2, <2>6 DEF Fails, Running
  <2> QED
    BY <1>3, <2>1, <2>2, <2>3, <2>4, <2>5, <2>6
<1>4. CASE Restart
  BY <1>0, <1>4 DEF Restart, CopiesOK, Running
<1>5. ASSUME UNCHANGED <<wire, job>> PROVE CopiesOK'
  BY <1>5 DEF CopiesOK
<1> QED
  BY <1>1, <1>3, <1>4, <1>5
     DEF Next, vars, SessionEnds, Authenticate, RegisterDevice, UpdateDevice, RenewApiKey,
         DeleteDevice, MonitorScan, MonitorWrite, Tick

\* While no transaction ends, the tables do not see it.
LEMMA Unseen ==
    ASSUME Inv, NEW k \in Jobs, NEW r \in Readings, NEW to \in Running,
           job[k][r] \in Running \cup {"none"},
           job' = [job EXCEPT ![k][r] = to],
           UNCHANGED <<dev, online, age, stored, orphan>>
    PROVE  UNCHANGED StoreVars
<1>1. job' = [job EXCEPT ![k] = [job[k] EXCEPT ![r] = to]] /\ TypeOK
  OBVIOUS
<1>2. \A l \in Jobs, q \in Readings :
          job'[l][q] \in {"done", "failed"} <=> job[l][q] \in {"done", "failed"}
  BY <1>1 DEF TypeOK, Running
<1> HIDE DEF Inv
<1> QED
  BY <1>2 DEF StoreVars, settledBar

\* The end of a transaction settles its copy.
LEMMA EndSettles ==
    ASSUME Inv, NEW k \in Jobs, NEW r \in Readings, NEW to \in {"done", "failed"},
           job[k][r] \in Running, job' = [job EXCEPT ![k][r] = to]
    PROVE  Store!Settle(k, r)
<1>1. \A l \in Jobs, q \in Readings : job'[l][q] = IF l = k /\ q = r THEN to ELSE job[l][q]
  BY DEF TypeOK
<1>2. k \notin settledBar[r]
  BY DEF settledBar, Running
<1>3. settledBar' = [settledBar EXCEPT ![r] = @ \cup {k}]
  <2>1. ASSUME NEW q \in Readings
        PROVE  settledBar'[q] = IF q = r THEN settledBar[q] \cup {k} ELSE settledBar[q]
    BY <1>1 DEF settledBar
  <2>2. /\ settledBar = [q \in Readings |-> settledBar[q]]
        /\ settledBar' = [q \in Readings |-> settledBar'[q]]
    BY DEF settledBar
  <2> QED
    BY <2>1, <2>2
<1> QED
  BY <1>2, <1>3 DEF Store!Settle

\* A commit stores the message, and with it the contact it has stamped.
LEMMA CommitStores ==
    ASSUME Inv, CopiesOK, NEW k \in Jobs, NEW r \in Readings, Commit(k, r)
    PROVE  Store!Store(k, r) \/ Store!StoreOrphan(k, r)
<1> DEFINE d == DeviceOf[r]
<1>0. d \in Devices /\ stamp[k][r] \in SUBSET (0..Timeout) /\ Registered(d)' = Registered(d)
  BY IngestAssumption DEF TypeOK, Commit, Registered
<1>1. CASE Step(k, r, "complete", "done") /\ UNCHANGED orphan
  <2>1. Store!Settle(k, r)
    BY <1>1, EndSettles DEF Step, Running
  <2>2. dev[d] \in {"active", "inactive"}
    BY <1>1 DEF Step, Registered
  <2>3. /\ stored' = [stored EXCEPT ![r] = @ \cup {k}]
        /\ online' = [online EXCEPT ![d] = @ \/ stamp[k][r] # {}]
        /\ age' = [age EXCEPT ![d] =
                      IF stamp[k][r] = {} THEN @ ELSE CHOOSE a \in stamp[k][r] : TRUE]
        /\ UNCHANGED dev
    BY <1>1 DEF Commit, Step
  <2>4. CASE stamp[k][r] = {}
    <3>1. UNCHANGED <<online, age>>
      BY <1>0, <2>3, <2>4 DEF TypeOK
    <3> QED
      BY <1>1, <2>1, <2>2, <2>3, <3>1 DEF Store!Store
  <2>5. CASE stamp[k][r] # {}
    <3>1. dev[d] = "active"
      BY <2>5
    <3>2. online' = [online EXCEPT ![d] = TRUE]
      BY <1>0, <2>3, <2>5 DEF TypeOK
    <3>3. PICK a \in 0..Timeout : age' = [age EXCEPT ![d] = a]
      BY <1>0, <2>3, <2>5
    <3> QED
      BY <1>1, <2>1, <2>2, <2>3, <3>1, <3>2, <3>3 DEF Store!Store
  <2> QED
    BY <2>4, <2>5
<1>2. CASE /\ Step(k, r, "nulled", "done") /\ orphan' = orphan \cup {r}
           /\ UNCHANGED <<stored, presenceVars>>
  <2>1. Store!Settle(k, r) /\ k # "forward"
    BY <1>2, EndSettles DEF Step, Running, CopiesOK
  <2> QED
    BY <1>2, <2>1 DEF Commit, Store!StoreOrphan
<1> QED
  BY <1>1, <1>2 DEF Commit

\* A failure, or a restart, gives up what was under way.
LEMMA FailureGivesUp ==
    ASSUME Inv, Restart \/ \E k \in Jobs, r \in Readings : Fails(k, r)
    PROVE  Store!GiveUp
<1>1. \A k \in Jobs, r \in Readings :
          job[k][r] \in {"done", "failed"} => job'[k][r] \in {"done", "failed"}
  <2>1. CASE Restart
    BY <2>1 DEF Restart, Running
  <2>2. ASSUME NEW k \in Jobs, NEW r \in Readings, Fails(k, r)
        PROVE  \A l \in Jobs, q \in Readings :
                  job[l][q] \in {"done", "failed"} => job'[l][q] \in {"done", "failed"}
    BY <2>2 DEF Fails, TypeOK
  <2> QED
    BY <2>1, <2>2
<1>2. UNCHANGED <<dev, online, age, stored, orphan>>
  BY DEF Restart, Fails
<1> HIDE DEF Inv
<1> QED
  BY <1>1, <1>2 DEF Store!GiveUp, settledBar

\* The statements before a commit, sessions, renewals and the monitor's first
\* look are not seen.
LEMMA StoreStutters ==
    ASSUME Inv, CopiesOK,
           \/ \E s \in Sessions : SessionEnds(s) \/ \E d \in Devices : Authenticate(s, d)
           \/ \E r \in Readings :
                \/ Forward(r) \/ Send(r) \/ OnMessage(r) \/ Redelivered(r)
                \/ \E k \in Jobs : \/ Lookup(k, r) \/ InsertUnidentified(k, r)
                                   \/ UpdateStatus(k, r) \/ InsertMessage(k, r)
           \/ \E d \in Devices : RenewApiKey(d)
           \/ MonitorScan \/ UNCHANGED vars
    PROVE  UNCHANGED StoreVars
<1>1. ASSUME NEW r \in Readings, NEW k \in Jobs,
             Lookup(k, r) \/ InsertUnidentified(k, r) \/ UpdateStatus(k, r) \/ InsertMessage(k, r)
      PROVE  UNCHANGED StoreVars
  <2>1. PICK to \in Running : job' = [job EXCEPT ![k][r] = to]
    BY <1>1 DEF Lookup, InsertUnidentified, UpdateStatus, InsertMessage, Step, Running
  <2>2. /\ job[k][r] \in Running
        /\ UNCHANGED <<dev, online, age, stored, orphan>>
    BY <1>1 DEF Lookup, InsertUnidentified, UpdateStatus, InsertMessage, Step, Running
  <2> QED
    BY <2>1, <2>2, Unseen
<1>2. UNCHANGED <<dev, online, age, stored, orphan, job>> => UNCHANGED StoreVars
  BY DEF StoreVars, settledBar
<1>3. ASSUME NEW r \in Readings, Send(r) \/ Forward(r) \/ OnMessage(r) \/ Redelivered(r)
      PROVE  UNCHANGED StoreVars
  <2>1. CASE Send(r)
    BY <1>2, <2>1 DEF Send
  <2>2. CASE Forward(r)
    BY <2>2, Unseen DEF Forward, Jobs, Saves, Running
  <2>3. ASSUME NEW k \in Saves, job' = [job EXCEPT ![k][r] = "scheduled"],
               UNCHANGED <<dev, online, age, stored, orphan>>, job[k][r] = "none"
        PROVE  UNCHANGED StoreVars
    BY <2>3, Unseen DEF Jobs, Running
  <2>4. CASE OnMessage(r)
    BY <2>3, <2>4 DEF OnMessage, Saves, CopiesOK
  <2>5. CASE Redelivered(r)
    BY <2>3, <2>5 DEF Redelivered, Saves, CopiesOK
  <2> QED
    BY <1>3, <2>1, <2>2, <2>4, <2>5
<1> QED
  BY <1>1, <1>2, <1>3 DEF SessionEnds, Authenticate, RenewApiKey, MonitorScan, vars

\* The routes, the monitor's second look and the clock.
LEMMA RoutesRefine ==
    ASSUME Inv,
           \/ \E d \in Devices : RegisterDevice(d) \/ UpdateDevice(d) \/ DeleteDevice(d)
           \/ MonitorWrite \/ Tick
    PROVE  Store!Next
<1>1. ASSUME NEW d \in Devices, RegisterDevice(d) PROVE Store!Register(d)
  BY <1>1 DEF RegisterDevice, Store!Register, settledBar
<1>2. ASSUME NEW d \in Devices, UpdateDevice(d) PROVE Store!Update(d)
  BY <1>2 DEF UpdateDevice, Registered, Store!Update, settledBar
<1>3. ASSUME NEW d \in Devices, DeleteDevice(d) PROVE Store!Delete(d)
  BY <1>3 DEF DeleteDevice, Registered, Store!Delete, settledBar
<1>4. CASE MonitorWrite
  <2>1. {d \in overdue : Overdue(d)} \in SUBSET {d \in Devices : dev[d] = "active" /\ age[d] = Timeout}
    BY DEF TypeOK, Overdue
  <2>2. online' = [d \in Devices |-> online[d] /\ d \notin {e \in overdue : Overdue(e)}]
    BY <1>4 DEF MonitorWrite
  <2>3. Store!Silence
    BY <1>4, <2>1, <2>2 DEF MonitorWrite, Store!Silence, settledBar
  <2> QED
    BY <2>3 DEF Store!Next
<1>5. CASE Tick
  BY <1>5 DEF Tick, Older, Store!Tick, Store!Next, settledBar
<1> QED
  BY <1>1, <1>2, <1>3, <1>4, <1>5 DEF Store!Next

\* Whatever runs at once, and wherever it is cut off: a reading is stored by
\* each of its copies at most once, together with the contact of a device that
\* is active then, and no device is silenced that is not silent then.
THEOREM ImplementsStore == Spec => StoreSpec
<1>1. Init => Inv /\ CopiesOK /\ Store!Init
  <2>1. Init => CopiesOK
    BY DEF Init, CopiesOK, Jobs, Saves
  <2>2. Init => Store!Init
    BY DEF Init, Store!Init, settledBar
  <2> QED
    BY <2>1, <2>2, Initial
<1>2. Inv /\ CopiesOK /\ [Next]_vars => Inv' /\ CopiesOK'
  BY Kept, CopiesKept
<1>3. Inv /\ CopiesOK /\ [Next]_vars => [Store!Next]_StoreVars
  <2> SUFFICES ASSUME Inv, CopiesOK, [Next]_vars PROVE Store!Next \/ UNCHANGED StoreVars
    OBVIOUS
  <2>1. ASSUME NEW k \in Jobs, NEW r \in Readings, Commit(k, r) PROVE Store!Next
    BY <2>1, CommitStores DEF Store!Next
  <2> QED
    BY <2>1, FailureGivesUp, StoreStutters, RoutesRefine DEF Next, Store!Next
<1> QED
  BY <1>1, <1>2, <1>3, PTL DEF Spec, StoreSpec, Store!Spec, StoreVars

\* The store promises enough: by itself it keeps readings from being stored
\* under a device that is gone, and a copy that is stored is dealt with for
\* good, so it is not stored again after its device was deleted.
StoreInv ==
    /\ dev \in [Devices -> {"absent", "active", "inactive", "deleted"}]
    /\ stored \in [Readings -> SUBSET Jobs]
    /\ StoredUnderLiveDevice
    /\ \A r \in Readings : stored[r] \subseteq settledBar[r]

LEMMA SettleGrows ==
    ASSUME NEW k \in Jobs, NEW r \in Readings, Store!Settle(k, r)
    PROVE  \A q \in Readings : settledBar[q] \subseteq settledBar'[q] /\ k \in settledBar'[r]
<1>1. settledBar \in [Readings -> SUBSET Jobs]
  BY DEF settledBar
<1> QED
  BY <1>1 DEF Store!Settle

LEMMA StoreStepKeeps ==
    ASSUME StoreInv, Store!Next
    PROVE  StoreInv'
<1> USE IngestAssumption DEF StoreInv, StoredUnderLiveDevice, Registered
<1>1. CASE \E k \in Jobs, r \in Readings : Store!Store(k, r)
  <2>1. PICK k \in Jobs, r \in Readings : Store!Store(k, r)
    BY <1>1
  <2>2. /\ \A q \in Readings : settledBar[q] \subseteq settledBar'[q]
        /\ k \in settledBar'[r] /\ UNCHANGED dev
        /\ stored' = [stored EXCEPT ![r] = @ \cup {k}]
        /\ dev[DeviceOf[r]] \in {"active", "inactive"}
    BY <2>1, SettleGrows DEF Store!Store
  <2> QED
    BY <2>2
<1>2. CASE \E k \in Jobs, r \in Readings : Store!StoreOrphan(k, r)
  <2>1. PICK k \in Jobs, r \in Readings : Store!StoreOrphan(k, r)
    BY <1>2
  <2>2. /\ \A q \in Readings : settledBar[q] \subseteq settledBar'[q]
        /\ UNCHANGED <<dev, stored>>
    BY <2>1, SettleGrows DEF Store!StoreOrphan
  <2> QED
    BY <2>2
<1>3. CASE Store!GiveUp
  <2>1. UNCHANGED <<dev, stored>> /\ \A q \in Readings : settledBar[q] \subseteq settledBar'[q]
    BY <1>3 DEF Store!GiveUp
  <2> QED
    BY <2>1
<1>4. CASE \E d \in Devices : Store!Register(d) \/ Store!Update(d) \/ Store!Delete(d)
  <2>1. PICK d \in Devices : Store!Register(d) \/ Store!Update(d) \/ Store!Delete(d)
    BY <1>4
  <2>2. CASE Store!Register(d) \/ Store!Update(d)
    BY <2>2 DEF Store!Register, Store!Update
  <2>3. CASE Store!Delete(d)
    BY <2>3 DEF Store!Delete
  <2> QED
    BY <2>1, <2>2, <2>3
<1>5. CASE Store!Silence \/ Store!Tick
  <2>1. UNCHANGED <<dev, stored, settledBar>>
    BY <1>5 DEF Store!Silence, Store!Tick
  <2> QED
    BY <2>1
<1> QED
  BY <1>1, <1>2, <1>3, <1>4, <1>5 DEF Store!Next

THEOREM StoreSuffices == StoreSpec => []StoredUnderLiveDevice
<1>1. Store!Init => StoreInv
  BY DEF Store!Init, StoreInv, StoredUnderLiveDevice
<1>2. StoreInv /\ [Store!Next]_StoreVars => StoreInv'
  <2>1. StoreInv /\ UNCHANGED StoreVars => StoreInv'
    BY DEF StoreVars, StoreInv, StoredUnderLiveDevice, Registered
  <2> QED
    BY <2>1, StoreStepKeeps
<1>3. StoreInv => StoredUnderLiveDevice
  BY DEF StoreInv
<1> QED
  BY <1>1, <1>2, <1>3, PTL DEF StoreSpec, Store!Spec, StoreVars
=============================================================================
