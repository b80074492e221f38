---------------------------- MODULE MessageStore ----------------------------
(***************************************************************************)
(* What the tables of devices and messages promise, without transactions,  *)
(* locks, sessions or restarts.  A copy of a reading is stored under its   *)
(* device, stored without one, or given up, once and for all; storing it   *)
(* and noting the contact of its device are one step, which sees the       *)
(* device as it is then.  A device that is silenced is silent then.        *)
(***************************************************************************)
EXTENDS Naturals

CONSTANTS
    Devices, Readings, DeviceOf, Timeout,
    Copies,       \* ways by which a reading arrives
    Own           \* that of the device's own session

VARIABLES
    dev, online, age, stored, orphan,
    settled       \* copies of each reading that are dealt with

Init ==
    /\ dev = [d \in Devices |-> "absent"]
    /\ online = [d \in Devices |-> FALSE]
    /\ age = [d \in Devices |-> Timeout]
    /\ stored = [r \in Readings |-> {}]
    /\ orphan = {}
    /\ settled = [r \in Readings |-> {}]

Settle(k, r) ==
    /\ k \in Copies \ settled[r]
    /\ settled' = [settled EXCEPT ![r] = @ \cup {k}]

\* The contact is noted with the message or, if the device is, or was a moment
\* ago, suspended, not at all.
Store(k, r) ==
    LET d == DeviceOf[r] IN
    /\ Settle(k, r)
    /\ dev[d] \in {"active", "inactive"}
    /\ stored' = [stored EXCEPT ![r] = @ \cup {k}]
    /\ \/ /\ dev[d] = "active"
          /\ online' = [online EXCEPT ![d] = TRUE]
          /\ \E a \in 0..Timeout : age' = [age EXCEPT ![d] = a]
       \/ UNCHANGED <<online, age>>
    /\ UNCHANGED <<dev, orphan>>

\* What comes by the device's own session is never stored without it.
StoreOrphan(k, r) ==
    /\ Settle(k, r)
    /\ k # Own
    /\ orphan' = orphan \cup {r}
    /\ UNCHANGED <<dev, online, age, stored>>

GiveUp ==
    /\ settled' \in [Readings -> SUBSET Copies]
    /\ \A r \in Readings : settled[r] \subseteq settled'[r]
    /\ UNCHANGED <<dev, online, age, stored, orphan>>

Register(d) ==
    /\ dev[d] = "absent"
    /\ dev' = [dev EXCEPT ![d] = "active"]
    /\ UNCHANGED <<online, age, stored, orphan, settled>>

Update(d) ==
    /\ dev[d] \in {"active", "inactive"}
    /\ \E a \in {"active", "inactive"} : dev' = [dev EXCEPT ![d] = a]
    /\ UNCHANGED <<online, age, stored, orphan, settled>>

Delete(d) ==
    /\ dev[d] \in {"active", "inactive"}
    /\ dev' = [dev EXCEPT ![d] = "deleted"]
    /\ online' = [online EXCEPT ![d] = FALSE]
    /\ age' = [age EXCEPT ![d] = Timeout]
    /\ stored' = [r \in Readings |-> IF DeviceOf[r] = d THEN {} ELSE stored[r]]
    /\ UNCHANGED <<orphan, settled>>

Silence ==
    /\ \E S \in SUBSET {d \in Devices : dev[d] = "active" /\ age[d] = Timeout} :
          online' = [d \in Devices |-> online[d] /\ d \notin S]
    /\ UNCHANGED <<dev, age, stored, orphan, settled>>

Tick ==
    /\ age' = [d \in Devices |-> IF age[d] < Timeout THEN age[d] + 1 ELSE age[d]]
    /\ UNCHANGED <<dev, online, stored, orphan, settled>>

Next ==
    \/ \E r \in Readings, k \in Copies : Store(k, r) \/ StoreOrphan(k, r)
    \/ \E d \in Devices : Register(d) \/ Update(d) \/ Delete(d)
    \/ GiveUp \/ Silence \/ Tick

Spec == Init /\ [][Next]_<<dev, online, age, stored, orphan, settled>>
=============================================================================
