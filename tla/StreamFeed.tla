----------------------------- MODULE StreamFeed -----------------------------
(***************************************************************************)
(* What the live stream promises, without threads, queues or coroutines.   *)
(* A reading of a device is announced at most once by the server itself,   *)
(* and at most once in each round of the broker's deliveries, newer ones   *)
(* after older ones and one round after the other; from that instant it is *)
(* owed to every open feed that may see the device, and to nobody else.  A *)
(* feed delivers what it owes, the older first; it may forget an item only *)
(* when MaxQueue others are waiting, or when it closes, for good.          *)
(***************************************************************************)
EXTENDS Naturals, Sequences, Functions

CONSTANTS Devices, Owner, Streams, UserOf, MaxQueue, MaxReadings, MaxRounds

VARIABLES
    told,     \* the newest reading announced, per device and round
    phase,    \* "new", "open" or "over"
    sees,     \* the devices a feed may see, fixed when it opens
    owed,     \* the items it has to deliver
    got       \* what its client received

vars == <<told, phase, sees, owed, got>>

\* The server's own announcements, which belong to no round.
Own == 0
Rounds == Own..MaxRounds

Alike(x, y) == x.device = y.device /\ (x.round = Own <=> y.round = Own)
Older(x, y) == x.round < y.round \/ (x.round = y.round /\ x.n < y.n)

Init ==
    /\ told = [d \in Devices |-> [r \in Rounds |-> 0]]
    /\ phase = [w \in Streams |-> "new"]
    /\ sees = [w \in Streams |-> {}]
    /\ owed = [w \in Streams |-> {}]
    /\ got = [w \in Streams |-> <<>>]

Open(w) ==
    /\ phase[w] = "new"
    /\ phase' = [phase EXCEPT ![w] = "open"]
    /\ \E D \in SUBSET {d \in Devices : Owner[d] = UserOf[w]} :
          sees' = [sees EXCEPT ![w] = D]
    /\ UNCHANGED <<told, owed, got>>

Tell(d, r, m) ==
    /\ m > told[d][r]
    /\ r # Own => \A q \in r + 1..MaxRounds : told[d][q] = 0
    /\ told' = [told EXCEPT ![d][r] = m]
    /\ UNCHANGED <<phase, sees, got>>

\* All open feeds that may see the device owe the item from the same instant.
Announce(d, r, m) ==
    /\ Tell(d, r, m)
    /\ owed' = [w \in Streams |->
                   IF phase[w] = "open" /\ d \in sees[w]
                   THEN owed[w] \cup {[device |-> d, n |-> m, round |-> r]}
                   ELSE owed[w]]

\* A reading that could not be stored is announced to none.
Withhold(d, m) == Tell(d, Own, m) /\ UNCHANGED owed

Deliver(w, item) ==
    /\ phase[w] = "open"
    /\ item \in owed[w]
    /\ \A x \in owed[w] \ {item} : Alike(item, x) => Older(item, x)
    /\ owed' = [owed EXCEPT ![w] = @ \ {item}]
    /\ got' = [got EXCEPT ![w] = Append(@, item)]
    /\ UNCHANGED <<told, phase, sees>>

\* MaxQueue others can be counted.
Forget(w, item) ==
    /\ item \in owed[w]
    /\ ExistsInjection(1..MaxQueue, owed[w] \ {item})
    /\ owed' = [owed EXCEPT ![w] = @ \ {item}]
    /\ UNCHANGED <<told, phase, sees, got>>

Close(w) ==
    /\ phase[w] = "open"
    /\ phase' = [phase EXCEPT ![w] = "over"]
    /\ owed' = [owed EXCEPT ![w] = {}]
    /\ UNCHANGED <<told, sees, got>>

Next ==
    \/ \E w \in Streams :
         \/ Open(w) \/ Close(w)
         \/ \E item \in owed[w] : Deliver(w, item) \/ Forget(w, item)
    \/ \E d \in Devices, m \in 1..MaxReadings :
         \/ \E r \in Rounds : Announce(d, r, m)
         \/ Withhold(d, m)

Spec == Init /\ [][Next]_vars
=============================================================================
