----------------------- MODULE PublicationLedgerProofs -----------------------
(***************************************************************************)
(* PublicationLog implements PublicationLedger: under the mapping of an    *)
(* entry to its row, its tag to its mid and the answers to paho's, each    *)
(* step of the tasks is a step of the ledger or leaves it alone.           *)
(***************************************************************************)
EXTENDS PublicationLogProofs

\* What the ledger sees of a state.
LedgerVars == <<entryBar, ackedBar, mid>>

\* A step that neither touches rows, mids and acknowledgements nor ends an
\* INSERT is invisible to the ledger.
LEMMA Invisible ==
    ASSUME UNCHANGED <<mid, row>>,
           \A p \in Pubs : stage'[p] = "committed" <=> stage[p] = "committed",
           \A p \in Pubs : message'[p] = "acked" <=> message[p] = "acked"
    PROVE  UNCHANGED LedgerVars
  BY DEF LedgerVars, entryBar, ackedBar

LEMMA LedgerInit == ASSUME PublicationAssumption, Init PROVE Ledger!Init
  BY DEF Init, Ledger!Init, entryBar, ackedBar

\* publish submits.
LEMMA PublishSubmits ==
    ASSUME PublicationAssumption, Inv, NEW p \in Pubs, Publish(p)
    PROVE  Ledger!Submit(p)
  <1>1. NextMid \in 1..MaxMid
    BY NextMidType DEF Inv, TypeOK
  <1>2. mid[p] = 0 /\ message[p] = "none" /\ stage[p] # "committed"
    BY DEF Publish, Inv, TypeOK, IdsOK
  <1>3. PICK m \in {"volatile", "held", "lost"} : message' = [message EXCEPT ![p] = m]
    BY DEF Publish, Handed
  <1>4. \A q \in Pubs : /\ stage'[q] = "committed" <=> stage[q] = "committed"
                        /\ message'[q] = "acked" <=> message[q] = "acked"
    BY <1>2, <1>3 DEF Publish, Inv, TypeOK
  <1>5. UNCHANGED <<entryBar, ackedBar>>
    BY <1>4 DEF Publish, tableVars, entryBar, ackedBar
  <1> QED BY <1>1, <1>2, <1>5 DEF Publish, Ledger!Submit

\* An accepted PUBACK, PUBCOMP or written QoS 0 packet answers.
LEMMA OnPublishAnswers ==
    ASSUME PublicationAssumption, Inv, NEW p \in Pubs, OnPublish(p)
    PROVE  Ledger!Answer(p)
  <1>1. mid[p] # 0 /\ message[p] # "acked"
    BY DEF OnPublish, Inv, IdsOK
  <1>2. ackedBar' = ackedBar \cup {p}
    BY DEF OnPublish, Inv, TypeOK, ackedBar
  <1>3. UNCHANGED <<entryBar, mid>>
    BY DEF OnPublish, tableVars, entryBar
  <1>4. p \notin ackedBar
    BY <1>1 DEF ackedBar
  <1> QED BY <1>1, <1>2, <1>3, <1>4 DEF Ledger!Answer

\* The commit of the INSERT records.
LEMMA RegisterCommitRecords ==
    ASSUME PublicationAssumption, Inv, NEW p \in Pubs, RegisterCommit(p)
    PROVE  Ledger!Record(p)
  <1>1. mid[p] # 0 /\ row[p] = "absent" /\ stage[p] = "inserted"
    BY DEF RegisterCommit, Inv, IdsOK, RowsOK
  <1>2. entryBar[p] = "absent"
    BY <1>1 DEF entryBar
  <1>3. entryBar' = [entryBar EXCEPT ![p] = "awaiting"]
    BY DEF RegisterCommit, Inv, TypeOK, entryBar
  <1>4. UNCHANGED <<ackedBar, mid>>
    BY DEF RegisterCommit, ackedBar
  <1> QED BY <1>1, <1>2, <1>3, <1>4 DEF Ledger!Record

\* The commit of the UPDATE confirms the rows it had locked.
LEMMA ConfirmCommitConfirms ==
    ASSUME PublicationAssumption, Inv, NEW p \in Pubs, ConfirmCommit(p)
    PROVE  Ledger!Confirm(p)
  <1>1. p \in ackedBar
    BY DEF ConfirmCommit, Inv, TasksOK, ackedBar
  <1>2. hit[p] \in SUBSET {q \in Pubs : /\ mid[q] = mid[p]
                                        /\ entryBar[q] \in {"awaiting", "confirmed"}}
    BY DEF Inv, TypeOK, Rows, TasksOK, entryBar
  <1>3. entryBar' = [q \in Pubs |-> IF q \in hit[p] THEN "confirmed" ELSE entryBar[q]]
    <2>1. \A q \in hit[p] : row[q] # "absent"
      BY DEF Inv, TasksOK
    <2> QED BY <2>1 DEF ConfirmCommit, entryBar
  <1>4. UNCHANGED <<ackedBar, mid>>
    BY DEF ConfirmCommit, ackedBar
  <1> QED BY <1>1, <1>2, <1>3, <1>4 DEF Ledger!Confirm

\* A deletion purges the rows of the device.
LEMMA DeletePurges ==
    ASSUME PublicationAssumption, Inv, NEW d \in Devices, DeleteDevice(d)
    PROVE  Ledger!Purge
  <1> DEFINE S == {q \in Pubs : Target[q] = d /\ row[q] # "absent"}
  <1>1. S \in SUBSET {q \in Pubs : entryBar[q] \in {"awaiting", "confirmed"}}
    BY DEF Inv, TypeOK, Rows, entryBar
  <1>2. entryBar' = [q \in Pubs |-> IF q \in S THEN "purged" ELSE entryBar[q]]
    BY DEF DeleteDevice, Inv, RowsOK, entryBar
  <1>3. UNCHANGED <<ackedBar, mid>>
    BY DEF DeleteDevice, ackedBar
  <1> QED BY <1>1, <1>2, <1>3 DEF Ledger!Purge

\* Nothing else shows.
LEMMA OthersInvisible ==
    ASSUME PublicationAssumption, Inv,
           \/ \E p \in Pubs : \/ Admit(p) \/ Authorize(p)
                              \/ RegisterInsert(p) \/ RegisterFails(p)
                              \/ OnPublishRefused(p) \/ ConfirmUpdate(p) \/ ConfirmFails(p)
           \/ OnConnect \/ OnDisconnect \/ Restart \/ UNCHANGED vars
    PROVE  UNCHANGED LedgerVars
  <1>1. ASSUME NEW p \in Pubs,
               Admit(p) \/ Authorize(p) \/ RegisterInsert(p) \/ RegisterFails(p)
        PROVE  UNCHANGED LedgerVars
    <2>1. UNCHANGED <<mid, row, message>>
      BY <1>1 DEF Admit, Authorize, RegisterInsert, RegisterFails, tableVars
    <2>2. \A q \in Pubs : stage'[q] = "committed" <=> stage[q] = "committed"
      BY <1>1 DEF Admit, Authorize, RegisterInsert, RegisterFails, Inv, TypeOK
    <2> QED BY <2>1, <2>2, Invisible
  <1>2. ASSUME NEW p \in Pubs, OnPublishRefused(p) \/ ConfirmUpdate(p) \/ ConfirmFails(p)
        PROVE  UNCHANGED LedgerVars
    <2>1. UNCHANGED <<mid, row, stage>>
      BY <1>2 DEF OnPublishRefused, ConfirmUpdate, ConfirmFails, tableVars
    <2>2. \A q \in Pubs : message'[q] = "acked" <=> message[q] = "acked"
      BY <1>2 DEF OnPublishRefused, ConfirmUpdate, ConfirmFails, Inv, TypeOK
    <2> QED BY <2>1, <2>2, Invisible
  <1>3. CASE OnConnect
    BY <1>3, Invisible DEF OnConnect, tableVars
  <1>4. CASE OnDisconnect
    <2>1. \A q \in Pubs : message'[q] = "acked" <=> message[q] = "acked"
      BY <1>4 DEF OnDisconnect
    <2> QED BY <1>4, <2>1, Invisible DEF OnDisconnect, tableVars
  <1>5. CASE Restart
    <2>1. \A q \in Pubs : /\ stage'[q] = "committed" <=> stage[q] = "committed"
                          /\ message'[q] = "acked" <=> message[q] = "acked"
      BY <1>5 DEF Restart, Inv, TypeOK, Stages
    <2> QED BY <1>5, <2>1, Invisible DEF Restart, tableVars
  <1>6. CASE UNCHANGED vars
    BY <1>6, Invisible DEF vars
  <1> QED BY <1>1, <1>2, <1>3, <1>4, <1>5, <1>6

LEMMA LedgerNext ==
    ASSUME PublicationAssumption, Inv, [Next]_vars
    PROVE  Ledger!Next \/ UNCHANGED LedgerVars
  <1>1. ASSUME NEW p \in Pubs, Publish(p) PROVE Ledger!Next
    BY <1>1, PublishSubmits DEF Ledger!Next
  <1>2. ASSUME NEW p \in Pubs, OnPublish(p) PROVE Ledger!Next
    BY <1>2, OnPublishAnswers DEF Ledger!Next
  <1>3. ASSUME NEW p \in Pubs, RegisterCommit(p) PROVE Ledger!Next
    BY <1>3, RegisterCommitRecords DEF Ledger!Next
  <1>4. ASSUME NEW p \in Pubs, ConfirmCommit(p) PROVE Ledger!Next
    BY <1>4, ConfirmCommitConfirms DEF Ledger!Next
  <1>5. ASSUME NEW d \in Devices, DeleteDevice(d) PROVE Ledger!Next
    BY <1>5, DeletePurges DEF Ledger!Next
  <1> QED BY <1>1, <1>2, <1>3, <1>4, <1>5, OthersInvisible DEF Next

\* The publications table, as its tasks, crashes and cascades make it, keeps the
\* promise of the ledger: an entry is recorded once, confirmed only under an
\* answered mid, never unconfirmed, and gone only for good.
THEOREM ImplementsLedger == Spec => LedgerSpec
  <1>1. Init => Ledger!Init
    BY LedgerInit, PublicationAssumption
  <1>2. Inv /\ [Next]_vars => [Ledger!Next]_LedgerVars
    BY LedgerNext, PublicationAssumption
  <1> QED BY <1>1, <1>2, Invariance, PTL DEF Spec, LedgerSpec, Ledger!Spec, LedgerVars

-----------------------------------------------------------------------------
(* What the ledger by itself is worth.                                     *)

\* Each entry was submitted, and a confirmed one has an answered tag.
LedgerInv ==
    /\ mid \in [Pubs -> Nat]
    /\ \A p \in Pubs : entryBar[p] # "absent" => mid[p] # 0
    /\ \A p \in ackedBar : mid[p] # 0
    /\ \A p \in Pubs : entryBar[p] = "confirmed" =>
          \E q \in ackedBar : mid[q] = mid[p]

LEMMA LedgerStepKeeps ==
    ASSUME PublicationAssumption, LedgerInv, Ledger!Next
    PROVE  LedgerInv'
  <1>0. /\ entryBar \in [Pubs -> {entryBar[p] : p \in Pubs}]
        /\ ackedBar \subseteq Pubs /\ ackedBar' \subseteq Pubs
    BY DEF entryBar, ackedBar
  <1>1. ASSUME NEW p \in Pubs, Ledger!Submit(p) PROVE LedgerInv'
    <2>1. PICK m \in 1..MaxMid : mid' = [mid EXCEPT ![p] = m]
      BY <1>1 DEF Ledger!Submit
    <2>2. /\ mid[p] = 0 /\ p \notin ackedBar /\ entryBar[p] = "absent"
          /\ UNCHANGED <<entryBar, ackedBar>>
      BY <1>1 DEF Ledger!Submit, LedgerInv
    <2>3. mid' \in [Pubs -> Nat] /\ mid'[p] = m /\ \A q \in Pubs \ {p} : mid'[q] = mid[q]
      BY <2>1, PublicationAssumption DEF PublicationAssumption, LedgerInv
    <2>4. ASSUME NEW q \in Pubs, entryBar[q] = "confirmed"
          PROVE  \E r \in ackedBar : mid'[r] = mid'[q]
      BY <1>0, <2>2, <2>3, <2>4 DEF LedgerInv
    <2> QED BY <1>0, <2>2, <2>3, <2>4 DEF LedgerInv
  <1>2. ASSUME NEW p \in Pubs, Ledger!Answer(p) PROVE LedgerInv'
    BY <1>2 DEF Ledger!Answer, LedgerInv
  <1>3. ASSUME NEW p \in Pubs, Ledger!Record(p) PROVE LedgerInv'
    BY <1>0, <1>3 DEF Ledger!Record, LedgerInv
  <1>4. ASSUME NEW q \in Pubs, Ledger!Confirm(q) PROVE LedgerInv'
    BY <1>0, <1>4 DEF Ledger!Confirm, LedgerInv
  <1>5. ASSUME Ledger!Purge PROVE LedgerInv'
    BY <1>0, <1>5 DEF Ledger!Purge, LedgerInv
  <1> QED BY <1>1, <1>2, <1>3, <1>4, <1>5 DEF Ledger!Next

\* What a reader of the table relies on follows from the ledger alone: a row is
\* shown as confirmed only under a mid the broker has acknowledged.
THEOREM LedgerSuffices == LedgerSpec => []ConfirmedHasAck
  <1>1. Ledger!Init => LedgerInv
    BY DEF Ledger!Init, LedgerInv
  <1>2. LedgerInv /\ [Ledger!Next]_LedgerVars => LedgerInv'
    <2>1. LedgerInv /\ UNCHANGED LedgerVars => LedgerInv'
      BY DEF LedgerVars, LedgerInv
    <2> QED BY <2>1, LedgerStepKeeps, PublicationAssumption
  <1>3. LedgerInv => ConfirmedHasAck
    BY DEF LedgerInv, ConfirmedHasAck, entryBar, ackedBar
  <1> QED BY <1>1, <1>2, <1>3, PTL DEF LedgerSpec, Ledger!Spec, LedgerVars
=============================================================================
