------------------------ MODULE PublicationLogProofs ------------------------
(***************************************************************************)
(* Safety of PublicationLog for any publications, devices and number of    *)
(* message ids.  Inv is inductive; the properties are its consequences.    *)
(***************************************************************************)
EXTENDS PublicationLog, TLAPS

\* A publication has a mid from the call of client.publish on, and only then a
\* message in paho.
IdsOK ==
    \A p \in Pubs :
        /\ stage[p] \in {"new", "admitted", "authorized"} => mid[p] = 0
        /\ stage[p] \in {"scheduled", "inserted", "committed"} => mid[p] # 0
        /\ mid[p] = 0 => message[p] = "none"

\* Rows are committed INSERTs; the foreign key covers open INSERTs as well.
RowsOK ==
    \A p \in Pubs :
        /\ row[p] # "absent" => stage[p] = "committed" /\ Target[p] \in live
        /\ stage[p] = "inserted" => Target[p] \in live

\* A confirm task stems from an acknowledgement, and the rows its UPDATE has
\* locked are still there and carry its mid.
TasksOK ==
    \A p \in Pubs :
        /\ confirm[p] # "none" => message[p] = "acked"
        /\ \A q \in hit[p] : /\ q \in Pubs
                             /\ confirm[p] # "none"
                             /\ row[q] # "absent" /\ mid[q] = mid[p]

\* Until an id may have been issued twice, mids are distinct and not above the
\* last one.
IdsDistinct ==
    ~reused => \A p, q \in Pubs :
                  /\ mid[p] <= lastMid
                  /\ mid[p] # 0 /\ mid[p] = mid[q] => p = q

Inv ==
    /\ TypeOK
    /\ IdsOK
    /\ RowsOK
    /\ TasksOK
    /\ IdsDistinct
    /\ ConfirmedHasAck

-----------------------------------------------------------------------------

\* paho's next id is a valid one, and a new one until ids are reused.
LEMMA NextMidType ==
    ASSUME PublicationAssumption, lastMid \in 0..MaxMid
    PROVE  /\ NextMid \in 1..MaxMid
           /\ lastMid # MaxMid => NextMid = lastMid + 1
  BY DEF PublicationAssumption, NextMid

\* Initially there is nothing.
LEMMA InitInv == ASSUME PublicationAssumption, Init PROVE Inv
  <1>1. TypeOK
    <2>1. hit \in [Pubs -> SUBSET Pubs] /\ live \in SUBSET Devices
      BY DEF Init
    <2>2. 0 \in 0..MaxMid /\ 0 \in 0..MaxRestarts
      BY DEF PublicationAssumption
    <2> QED BY <2>1, <2>2 DEF Init, TypeOK, Stages, Messages, Tasks, Rows
  <1>2. IdsOK /\ RowsOK /\ TasksOK /\ ConfirmedHasAck
    BY DEF Init, IdsOK, RowsOK, TasksOK, ConfirmedHasAck
  <1>3. IdsDistinct
    BY DEF PublicationAssumption, Init, IdsDistinct
  <1> QED BY <1>1, <1>2, <1>3 DEF Inv

\* The handler's steps before publish change only its stage.
LEMMA HandlerStep ==
    ASSUME PublicationAssumption, Inv, NEW p \in Pubs, Admit(p) \/ Authorize(p)
    PROVE  Inv'
  <1>1. TypeOK'
    BY DEF Admit, Authorize, Inv, TypeOK, Stages, brokerVars, tableVars
  <1>2. IdsOK'
    BY DEF Admit, Authorize, Inv, TypeOK, IdsOK, brokerVars, tableVars
  <1>3. RowsOK'
    BY DEF Admit, Authorize, Inv, TypeOK, RowsOK, brokerVars, tableVars
  <1>4. TasksOK' /\ IdsDistinct' /\ ConfirmedHasAck'
    BY DEF Admit, Authorize, Inv, TasksOK, IdsDistinct, ConfirmedHasAck,
           brokerVars, tableVars
  <1> QED BY <1>1, <1>2, <1>3, <1>4 DEF Inv

\* publish gives p a fresh mid; p has no row and no acknowledgement yet, so no
\* other publication's evidence is disturbed.
LEMMA PublishStep ==
    ASSUME PublicationAssumption, Inv, NEW p \in Pubs, Publish(p)
    PROVE  Inv'
  <1>1. /\ NextMid \in 1..MaxMid
        /\ lastMid # MaxMid => NextMid = lastMid + 1
    BY NextMidType DEF Inv, TypeOK
  <1>2. mid[p] = 0 /\ message[p] = "none" /\ row[p] = "absent" /\ confirm[p] = "none"
    BY DEF Publish, Inv, TypeOK, IdsOK, RowsOK, TasksOK
  <1>3. PICK m \in {"volatile", "held", "lost"} : message' = [message EXCEPT ![p] = m]
    BY DEF Publish, Handed
  <1>4. TypeOK'
    BY <1>1, <1>3 DEF PublicationAssumption, Publish, TakeMid, Inv, TypeOK, Stages,
                      Messages, tableVars
  <1>5. IdsOK'
    BY <1>1, <1>3 DEF Publish, Inv, TypeOK, IdsOK
  <1>6. RowsOK'
    BY <1>2 DEF Publish, Inv, TypeOK, RowsOK, tableVars
  <1>7. TasksOK'
    <2> SUFFICES ASSUME NEW q \in Pubs
                 PROVE  /\ confirm[q] # "none" => message'[q] = "acked"
                        /\ \A s \in hit[q] : /\ s \in Pubs
                                             /\ confirm[q] # "none"
                                             /\ row[s] # "absent" /\ mid'[s] = mid'[q]
      BY DEF Publish, TasksOK, tableVars
    <2>1. confirm[q] # "none" => q # p /\ message'[q] = "acked"
      BY <1>2, <1>3 DEF Inv, TypeOK, TasksOK
    <2>2. ASSUME NEW s \in hit[q]
          PROVE  /\ s \in Pubs /\ confirm[q] # "none"
                 /\ row[s] # "absent" /\ mid'[s] = mid'[q]
      <3>1. s \in Pubs /\ confirm[q] # "none" /\ row[s] # "absent" /\ mid[s] = mid[q]
        BY DEF Inv, TasksOK
      <3>2. s # p /\ q # p
        BY <1>2, <3>1
      <3> QED BY <3>1, <3>2 DEF Publish, Inv, TypeOK
    <2> QED BY <2>1, <2>2
  <1>8. IdsDistinct'
    <2> SUFFICES ASSUME ~reused', NEW q \in Pubs, NEW s \in Pubs
                 PROVE  /\ mid'[q] <= lastMid'
                        /\ mid'[q] # 0 /\ mid'[q] = mid'[s] => q = s
      BY DEF IdsDistinct
    <2>1. ~reused /\ lastMid' = lastMid + 1 /\ NextMid = lastMid + 1
      BY <1>1 DEF Publish, TakeMid
    <2>2. \A x \in Pubs : mid[x] \in Nat /\ lastMid \in Nat /\ mid[x] <= lastMid
      BY <2>1 DEF PublicationAssumption, Inv, TypeOK, IdsDistinct
    <2>3. \A x \in Pubs : mid'[x] = IF x = p THEN lastMid + 1 ELSE mid[x]
      BY <2>1 DEF Publish, Inv, TypeOK
    <2>4. mid[q] # 0 /\ mid[q] = mid[s] => q = s
      BY <2>1 DEF Inv, IdsDistinct
    <2> QED BY <2>1, <2>2, <2>3, <2>4
  <1>9. ConfirmedHasAck'
    <2> SUFFICES ASSUME NEW q \in Pubs, row[q] = "confirmed"
                 PROVE  \E s \in Pubs : message'[s] = "acked" /\ mid'[s] = mid'[q]
      BY DEF Publish, ConfirmedHasAck, tableVars
    <2>1. PICK s \in Pubs : message[s] = "acked" /\ mid[s] = mid[q]
      BY DEF Inv, ConfirmedHasAck
    <2>2. s # p /\ q # p
      BY <1>2, <2>1
    <2> QED BY <1>3, <2>1, <2>2 DEF Publish, Inv, TypeOK
  <1> QED BY <1>4, <1>5, <1>6, <1>7, <1>8, <1>9 DEF Inv

\* The register task: its INSERT needs the device, its commit the INSERT.
LEMMA RegisterStep ==
    ASSUME PublicationAssumption, Inv, NEW p \in Pubs,
           RegisterInsert(p) \/ RegisterCommit(p) \/ RegisterFails(p)
    PROVE  Inv'
  <1>1. TypeOK'
    BY DEF RegisterInsert, RegisterCommit, RegisterFails, Inv, TypeOK, Stages, Rows,
           brokerVars, tableVars
  <1>2. IdsOK'
    BY DEF RegisterInsert, RegisterCommit, RegisterFails, Inv, TypeOK, IdsOK,
           brokerVars, tableVars
  <1>3. RowsOK'
    BY DEF RegisterInsert, RegisterCommit, RegisterFails, Inv, TypeOK, RowsOK,
           brokerVars, tableVars
  <1>4. \A q \in Pubs : row'[q] = row[q] \/ (row[q] = "absent" /\ row'[q] = "awaiting")
    BY DEF RegisterInsert, RegisterCommit, RegisterFails, Inv, TypeOK, RowsOK, tableVars,
           Rows
  <1>5. UNCHANGED <<mid, lastMid, reused, message, confirm, hit>>
    BY DEF RegisterInsert, RegisterCommit, RegisterFails, brokerVars
  <1>6. TasksOK' /\ IdsDistinct' /\ ConfirmedHasAck'
    BY <1>4, <1>5 DEF Inv, TasksOK, IdsDistinct, ConfirmedHasAck
  <1> QED BY <1>1, <1>2, <1>3, <1>6 DEF Inv

\* The broker's answer: an acknowledged publication stays acknowledged.
LEMMA AnswerStep ==
    ASSUME PublicationAssumption, Inv, NEW p \in Pubs,
           OnPublish(p) \/ OnPublishRefused(p)
    PROVE  Inv'
  <1>1. TypeOK'
    BY DEF OnPublish, OnPublishRefused, Inv, TypeOK, Messages, Tasks, brokerVars, tableVars
  <1>2. UNCHANGED <<mid, lastMid, reused, stage, hit, row, live>>
    BY DEF OnPublish, OnPublishRefused, brokerVars, tableVars
  <1>3. /\ message[p] \notin {"none", "acked"}
        /\ \A q \in Pubs : q # p => message'[q] = message[q] /\ confirm'[q] = confirm[q]
        /\ \/ message'[p] = "acked" /\ confirm'[p] = "scheduled"
           \/ message'[p] = "refused" /\ confirm'[p] = confirm[p]
    BY DEF OnPublish, OnPublishRefused, Inv, TypeOK
  <1>4. IdsOK' /\ RowsOK' /\ IdsDistinct'
    BY <1>2, <1>3 DEF Inv, IdsOK, RowsOK, IdsDistinct
  <1>5. TasksOK' /\ ConfirmedHasAck'
    BY <1>2, <1>3 DEF Inv, TasksOK, ConfirmedHasAck
  <1> QED BY <1>1, <1>4, <1>5 DEF Inv

\* The UPDATE takes committed rows of the acknowledged mid.
LEMMA ConfirmUpdateStep ==
    ASSUME PublicationAssumption, Inv, NEW p \in Pubs, ConfirmUpdate(p)
    PROVE  Inv'
  <1>1. TypeOK'
    BY DEF ConfirmUpdate, Matching, Inv, TypeOK, Tasks, brokerVars, tableVars
  <1>2. UNCHANGED <<mid, lastMid, reused, stage, message, row, live>>
    BY DEF ConfirmUpdate, brokerVars, tableVars
  <1>3. IdsOK' /\ RowsOK' /\ IdsDistinct' /\ ConfirmedHasAck'
    BY <1>2 DEF Inv, IdsOK, RowsOK, IdsDistinct, ConfirmedHasAck
  <1>4. TasksOK'
    BY <1>2 DEF ConfirmUpdate, Matching, Inv, TypeOK, TasksOK
  <1> QED BY <1>1, <1>3, <1>4 DEF Inv

\* Its commit confirms rows whose mid its acknowledgement carries.
LEMMA ConfirmCommitStep ==
    ASSUME PublicationAssumption, Inv, NEW p \in Pubs, ConfirmCommit(p)
    PROVE  Inv'
  <1>1. TypeOK'
    BY DEF ConfirmCommit, Inv, TypeOK, Tasks, Rows, brokerVars
  <1>2. UNCHANGED <<mid, lastMid, reused, stage, message, live>>
    BY DEF ConfirmCommit, brokerVars
  <1>3. \A q \in Pubs : row'[q] = IF q \in hit[p] THEN "confirmed" ELSE row[q]
    BY DEF ConfirmCommit
  <1>4. \A q \in Pubs : row'[q] # "absent" <=> row[q] # "absent"
    BY <1>3 DEF Inv, TasksOK
  <1>5. IdsOK' /\ RowsOK' /\ IdsDistinct'
    BY <1>2, <1>4 DEF Inv, IdsOK, RowsOK, IdsDistinct
  <1>6. TasksOK'
    BY <1>2, <1>4 DEF ConfirmCommit, Inv, TypeOK, TasksOK
  <1>7. ConfirmedHasAck'
    BY <1>2, <1>3 DEF Inv, TasksOK, ConfirmedHasAck
  <1> QED BY <1>1, <1>5, <1>6, <1>7 DEF Inv

LEMMA ConfirmFailsStep ==
    ASSUME PublicationAssumption, Inv, NEW p \in Pubs, ConfirmFails(p)
    PROVE  Inv'
  <1>1. TypeOK'
    BY DEF ConfirmFails, Inv, TypeOK, Tasks, brokerVars, tableVars
  <1>2. UNCHANGED <<mid, lastMid, reused, stage, message, row, live>>
    BY DEF ConfirmFails, brokerVars, tableVars
  <1>3. IdsOK' /\ RowsOK' /\ IdsDistinct' /\ ConfirmedHasAck'
    BY <1>2 DEF Inv, IdsOK, RowsOK, IdsDistinct, ConfirmedHasAck
  <1>4. TasksOK'
    BY <1>2 DEF ConfirmFails, Inv, TypeOK, TasksOK
  <1> QED BY <1>1, <1>3, <1>4 DEF Inv

\* Connecting takes a mid for the SUBSCRIBE; losing the link loses no
\* acknowledgement.
LEMMA LinkStep ==
    ASSUME PublicationAssumption, Inv, OnConnect \/ OnDisconnect
    PROVE  Inv'
  <1>1. /\ NextMid \in 1..MaxMid
        /\ lastMid # MaxMid => NextMid = lastMid + 1
    BY NextMidType DEF Inv, TypeOK
  <1>2. UNCHANGED <<restarts, mid, stage, confirm, hit, row, live>>
    BY DEF OnConnect, OnDisconnect, tableVars
  <1>3. /\ message' \in [Pubs -> Messages]
        /\ \A q \in Pubs : \/ message'[q] = message[q]
                           \/ message[q] = "volatile" /\ message'[q] = "lost"
    <2>1. CASE OnConnect
      BY <2>1 DEF OnConnect, Inv, TypeOK
    <2>2. CASE OnDisconnect
      BY <2>2 DEF OnDisconnect, Inv, TypeOK, Messages
    <2> QED BY <2>1, <2>2
  <1>4. /\ lastMid' \in 0..MaxMid /\ reused' \in BOOLEAN /\ connected' \in BOOLEAN
        /\ ~reused' => ~reused /\ lastMid <= lastMid'
    <2>1. lastMid \in Nat /\ reused \in BOOLEAN
      BY DEF PublicationAssumption, Inv, TypeOK
    <2>2. CASE OnConnect
      <3>1. lastMid' = NextMid /\ connected' = TRUE /\ reused' = (reused \/ lastMid = MaxMid)
        BY <2>2 DEF OnConnect, TakeMid
      <3>2. ~reused' => ~reused /\ lastMid # MaxMid
        BY <3>1
      <3>3. reused' \in BOOLEAN
        BY <3>1
      <3> QED BY <1>1, <2>1, <3>1, <3>2, <3>3 DEF PublicationAssumption
    <2>3. CASE OnDisconnect
      <3>1. lastMid' = lastMid /\ reused' = reused /\ connected' = FALSE
        BY <2>3 DEF OnDisconnect
      <3>2. lastMid \in 0..MaxMid /\ connected' \in BOOLEAN
        BY <3>1 DEF Inv, TypeOK
      <3>3. reused' \in BOOLEAN
        BY <2>1, <3>1
      <3> QED BY <2>1, <3>1, <3>2, <3>3
    <2> QED BY <2>2, <2>3
  <1>5. TypeOK'
    BY <1>2, <1>3, <1>4 DEF Inv, TypeOK
  <1>6. IdsOK' /\ RowsOK' /\ TasksOK' /\ ConfirmedHasAck'
    BY <1>2, <1>3 DEF Inv, IdsOK, RowsOK, TasksOK, ConfirmedHasAck
  <1>7. IdsDistinct'
    <2>1. \A q \in Pubs : mid[q] \in Nat
      BY DEF Inv, TypeOK
    <2>2. lastMid \in Nat /\ lastMid' \in Nat
      BY <1>4 DEF Inv, TypeOK
    <2> QED BY <1>2, <1>4, <2>1, <2>2 DEF Inv, IdsDistinct
  <1> QED BY <1>5, <1>6, <1>7 DEF Inv

\* A deletion cascades to the rows of the device, none of which is locked.
LEMMA DeleteStep ==
    ASSUME PublicationAssumption, Inv, NEW d \in Devices, DeleteDevice(d)
    PROVE  Inv'
  <1>1. TypeOK'
    BY DEF DeleteDevice, Inv, TypeOK, Rows, brokerVars
  <1>2. UNCHANGED <<mid, lastMid, reused, stage, message, confirm, hit>>
    BY DEF DeleteDevice, brokerVars
  <1>3. \A q \in Pubs : row'[q] = IF Target[q] = d THEN "absent" ELSE row[q]
    BY DEF DeleteDevice
  <1>4. IdsOK' /\ IdsDistinct' /\ ConfirmedHasAck'
    BY <1>2, <1>3 DEF Inv, IdsOK, IdsDistinct, ConfirmedHasAck
  <1>5. RowsOK'
    BY <1>2, <1>3 DEF DeleteDevice, Inv, RowsOK
  <1>6. TasksOK'
    <2>1. \A p \in Pubs : \A q \in hit[p] : Target[q] # d
      BY DEF DeleteDevice, Locked, Inv, TasksOK
    <2> QED BY <1>2, <1>3, <2>1 DEF Inv, TasksOK
  <1> QED BY <1>1, <1>4, <1>5, <1>6 DEF Inv

\* A restart keeps the rows and the acknowledgements they rest on, and from
\* the first mid on it makes ids ambiguous.
LEMMA RestartStep ==
    ASSUME PublicationAssumption, Inv, Restart
    PROVE  Inv'
  <1>1. UNCHANGED <<mid, row, live>> /\ lastMid' = 0 /\ hit' = [p \in Pubs |-> {}]
    BY DEF Restart, tableVars
  <1>2. stage' \in [Pubs -> Stages] /\ message' \in [Pubs -> Messages]
        /\ confirm' \in [Pubs -> Tasks]
    BY DEF Restart, Inv, TypeOK, Stages, Messages, Tasks
  <1>3. /\ restarts' \in 0..MaxRestarts /\ connected' \in BOOLEAN
        /\ reused' \in BOOLEAN /\ lastMid' \in 0..MaxMid
    <2>1. reused' \in BOOLEAN /\ connected' = FALSE
      BY DEF Restart
    <2>2. restarts' \in 0..MaxRestarts /\ lastMid' \in 0..MaxMid
      BY DEF PublicationAssumption, Restart, Inv, TypeOK
    <2> QED BY <2>1, <2>2
  <1>4. TypeOK'
    <2>1. hit' \in [Pubs -> SUBSET Pubs]
      BY <1>1
    <2> QED BY <1>1, <1>2, <1>3, <2>1 DEF Inv, TypeOK
  <1>5. \A p \in Pubs :
           /\ stage[p] = "committed" <=> stage'[p] = "committed"
           /\ stage'[p] \notin {"admitted", "authorized", "scheduled", "inserted"}
           /\ stage'[p] = "new" => stage[p] = "new"
    BY DEF Restart, Inv, TypeOK, Stages
  <1>6. \A p \in Pubs :
           /\ message[p] = "acked" <=> message'[p] = "acked"
           /\ message[p] = "none" <=> message'[p] = "none"
           /\ confirm'[p] # "none" => confirm[p] # "none"
    BY DEF Restart, Inv, TypeOK, Messages, Tasks
  <1>7. IdsOK' /\ RowsOK' /\ TasksOK' /\ ConfirmedHasAck'
    BY <1>1, <1>5, <1>6 DEF Inv, IdsOK, RowsOK, TasksOK, ConfirmedHasAck
  <1>8. IdsDistinct'
    <2>1. ~reused' => ~reused /\ lastMid = 0
      <3>1. lastMid \in Nat /\ reused' = (reused \/ lastMid > 0)
        BY DEF Restart, Inv, TypeOK
      <3>2. ~reused' => ~reused /\ ~(lastMid > 0)
        BY <3>1
      <3> QED BY <3>1, <3>2
    <2>2. \A q \in Pubs : mid[q] \in Nat
      BY DEF Inv, TypeOK
    <2> QED BY <1>1, <2>1, <2>2 DEF Inv, IdsDistinct
  <1> QED BY <1>4, <1>7, <1>8 DEF Inv

-----------------------------------------------------------------------------

\* Every step preserves Inv.
LEMMA NextInv == ASSUME PublicationAssumption, Inv, [Next]_vars PROVE Inv'
  <1>1. ASSUME NEW p \in Pubs, Admit(p) \/ Authorize(p) PROVE Inv'
    BY <1>1, HandlerStep
  <1>2. ASSUME NEW p \in Pubs, Publish(p) PROVE Inv'
    BY <1>2, PublishStep
  <1>3. ASSUME NEW p \in Pubs,
               RegisterInsert(p) \/ RegisterCommit(p) \/ RegisterFails(p)
        PROVE  Inv'
    BY <1>3, RegisterStep
  <1>4. ASSUME NEW p \in Pubs, OnPublish(p) \/ OnPublishRefused(p) PROVE Inv'
    BY <1>4, AnswerStep
  <1>5. ASSUME NEW p \in Pubs, ConfirmUpdate(p) PROVE Inv'
    BY <1>5, ConfirmUpdateStep
  <1>6. ASSUME NEW p \in Pubs, ConfirmCommit(p) PROVE Inv'
    BY <1>6, ConfirmCommitStep
  <1>7. ASSUME NEW p \in Pubs, ConfirmFails(p) PROVE Inv'
    BY <1>7, ConfirmFailsStep
  <1>8. ASSUME NEW d \in Devices, DeleteDevice(d) PROVE Inv'
    BY <1>8, DeleteStep
  <1>9. CASE OnConnect \/ OnDisconnect
    BY <1>9, LinkStep
  <1>10. CASE Restart
    BY <1>10, RestartStep
  <1>11. CASE UNCHANGED vars
    BY <1>11 DEF vars, Inv, TypeOK, IdsOK, RowsOK, TasksOK, IdsDistinct, ConfirmedHasAck
  <1> QED
    BY <1>1, <1>2, <1>3, <1>4, <1>5, <1>6, <1>7, <1>8, <1>9, <1>10, <1>11 DEF Next

THEOREM Invariance == Spec => []Inv
  <1>1. Init => Inv
    BY InitInv, PublicationAssumption
  <1>2. Inv /\ [Next]_vars => Inv'
    BY NextInv, PublicationAssumption
  <1> QED BY <1>1, <1>2, PTL DEF Spec

\* The state stays well typed.
THEOREM TypeCorrect == Spec => []TypeOK
  <1>1. Inv => TypeOK
    BY DEF Inv
  <1> QED BY <1>1, Invariance, PTL

\* However many publications there are and however the tasks of their rows and
\* acknowledgements interleave, fail or are cut off by a restart, confirmed_in
\* is never set without an acknowledgement of the row's mid.
THEOREM ConfirmationNeedsAck == Spec => []ConfirmedHasAck
  <1>1. Inv => ConfirmedHasAck
    BY DEF Inv
  <1> QED BY <1>1, Invariance, PTL

\* As long as no mid was issued twice, it is the row's own acknowledgement.
THEOREM ConfirmationIsOwn == Spec => []ConfirmedIsOwnUntilReuse
  <1>1. Inv => ConfirmedIsOwnUntilReuse
    <2> SUFFICES ASSUME Inv, ~reused, NEW p \in Pubs, row[p] = "confirmed"
                 PROVE  message[p] = "acked"
      BY DEF ConfirmedIsOwnUntilReuse
    <2>1. PICK q \in Pubs : message[q] = "acked" /\ mid[q] = mid[p]
      BY DEF Inv, ConfirmedHasAck
    <2>2. mid[q] # 0
      BY <2>1 DEF Inv, IdsOK
    <2> QED BY <2>1, <2>2 DEF Inv, IdsDistinct
  <1> QED BY <1>1, Invariance, PTL

\* No publication row is left behind by its device.
THEOREM CascadeIsComplete == Spec => []NoRowOutlivesDevice
  <1>1. Inv => NoRowOutlivesDevice
    BY DEF Inv, RowsOK, NoRowOutlivesDevice
  <1> QED BY <1>1, Invariance, PTL
=============================================================================
