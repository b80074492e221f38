------------------------- MODULE DeviceStreamProofs -------------------------
(***************************************************************************)
(* Isolation and order of the live stream, for any users, devices,         *)
(* connections, queue size, number of readings and rounds of deliveries.   *)
(***************************************************************************)
EXTENDS DeviceStream, TLAPS

\* A connection may see devices of its user only.
AllowedOwned == \A w \in Streams : \A d \in allowed[w] : Owner[d] = UserOf[w]

\* So is what paho's thread is about to schedule.
CastingOwned ==
    \A w \in Streams, item \in Items :
        <<w, item>> \in casting => Owner[item.device] = UserOf[w]

\* What to_forward is storing it has published.
StoringPublished == \A d \in storing : published[d] > 0

\* Nothing came in a round that has not begun.
RoundsToCome ==
    \A d \in Devices : \A r \in Rounds : r > round => echoed[d][r] = 0

Inv ==
    /\ TypeOK
    /\ StoringPublished
    /\ RoundsToCome
    /\ AllowedOwned
    /\ CastingOwned
    /\ StreamIsolation

-----------------------------------------------------------------------------
(* What Append, Head and Tail do to the elements of a sequence.            *)

LEMMA RangeAppend ==
    ASSUME NEW T, NEW s \in Seq(T), NEW e \in T
    PROVE  /\ Append(s, e) \in Seq(T)
           /\ Range(Append(s, e)) = Range(s) \cup {e}
           /\ Len(Append(s, e)) = Len(s) + 1
  <1>1. /\ Append(s, e) \in Seq(T) /\ Len(Append(s, e)) = Len(s) + 1
        /\ DOMAIN s = 1..Len(s) /\ DOMAIN Append(s, e) = 1..(Len(s) + 1)
        /\ Len(s) \in Nat
    OBVIOUS
  <1>2. /\ \A i \in 1..Len(s) : Append(s, e)[i] = s[i]
        /\ Append(s, e)[Len(s) + 1] = e
    OBVIOUS
  <1>3. Range(s) \cup {e} \subseteq Range(Append(s, e))
    BY <1>1, <1>2 DEF Range
  <1>4. Range(Append(s, e)) \subseteq Range(s) \cup {e}
    BY <1>1, <1>2 DEF Range
  <1> QED BY <1>1, <1>3, <1>4

LEMMA RangeTail ==
    ASSUME NEW T, NEW s \in Seq(T), s # <<>>
    PROVE  /\ Head(s) \in T /\ Head(s) \in Range(s)
           /\ Tail(s) \in Seq(T)
           /\ Range(Tail(s)) \subseteq Range(s)
           /\ Range(s) = {Head(s)} \cup Range(Tail(s))
           /\ Len(Tail(s)) = Len(s) - 1 /\ Len(s) \in Nat
  <1>1. /\ Len(s) \in Nat \ {0} /\ DOMAIN s = 1..Len(s)
        /\ Tail(s) \in Seq(T) /\ Len(Tail(s)) = Len(s) - 1
        /\ DOMAIN Tail(s) = 1..(Len(s) - 1)
        /\ Head(s) = s[1] /\ s[1] \in T
    OBVIOUS
  <1>2. \A i \in 1..(Len(s) - 1) : Tail(s)[i] = s[i + 1]
    OBVIOUS
  <1>3. \A i \in 1..(Len(s) - 1) : i + 1 \in 1..Len(s)
    BY <1>1
  <1>4. Range(Tail(s)) \subseteq Range(s)
    BY <1>1, <1>2, <1>3 DEF Range
  <1>5. Range(s) \subseteq {Head(s)} \cup Range(Tail(s))
    <2> SUFFICES ASSUME NEW i \in 1..Len(s) PROVE s[i] \in {Head(s)} \cup Range(Tail(s))
      BY <1>1 DEF Range
    <2>1. CASE i # 1
      <3>1. i - 1 \in 1..(Len(s) - 1) /\ (i - 1) + 1 = i
        BY <1>1, <2>1
      <3> QED BY <1>1, <1>2, <3>1 DEF Range
    <2> QED BY <1>1, <2>1
  <1>6. Head(s) \in Range(s)
    BY <1>1 DEF Range
  <1> QED BY <1>1, <1>4, <1>5, <1>6

-----------------------------------------------------------------------------

LEMMA InitInv == ASSUME StreamAssumption, Init PROVE Inv
  <1>1. TypeOK
    <2>1. allowed \in [Streams -> SUBSET Devices] /\ sending \in [Streams -> SUBSET Items]
      BY DEF Init
    <2>2. casting \in SUBSET (Streams \X Items)
      BY DEF Init
    <2>3. /\ published \in [Devices -> 0..MaxReadings] /\ round \in Rounds \ {Own}
          /\ echoed \in [Devices -> [Rounds -> 0..MaxReadings]]
      BY DEF StreamAssumption, Init, Rounds, Own
    <2> QED BY <2>1, <2>2, <2>3 DEF Init, TypeOK
  <1>2. StoringPublished /\ RoundsToCome /\ AllowedOwned /\ CastingOwned
    BY DEF StreamAssumption, Init, StoringPublished, RoundsToCome, AllowedOwned, CastingOwned
  <1>3. StreamIsolation
    BY DEF Init, StreamIsolation, Range
  <1> QED BY <1>1, <1>2, <1>3 DEF Inv

\* A broadcast goes to connections that may see the device, hence to its owner.
LEMMA RecipientsOwn ==
    ASSUME Inv, NEW d \in Devices
    PROVE  \A w \in Recipients(d) : w \in Streams /\ Owner[d] = UserOf[w]
  BY DEF Inv, AllowedOwned, Recipients

\* Connecting lists devices of the user; nothing is in flight that was not.
LEMMA ClientStep ==
    ASSUME StreamAssumption, Inv, NEW w \in Streams, List(w) \/ Register(w) \/ Leave(w)
    PROVE  Inv'
  <1>1. UNCHANGED <<sourceVars, casting, ready, queue, sending, sent>>
    BY DEF List, Register, Leave
  <1>2. TypeOK'
    BY <1>1 DEF List, Register, Leave, Inv, TypeOK, sourceVars
  <1>3. AllowedOwned'
    <2>1. CASE List(w)
      <3>1. \A v \in Streams :
               allowed'[v] = IF v = w THEN {d \in active : Owner[d] = UserOf[w]}
                             ELSE allowed[v]
        BY <2>1 DEF List, Inv, TypeOK
      <3>2. AllowedOwned
        BY DEF Inv
      <3> SUFFICES ASSUME NEW v \in Streams, NEW d \in allowed'[v]
                   PROVE  Owner[d] = UserOf[v]
        BY <2>1 DEF List, AllowedOwned
      <3>3. CASE v = w
        BY <3>1, <3>3
      <3>4. CASE v # w
        BY <3>1, <3>2, <3>4 DEF AllowedOwned
      <3> QED BY <3>3, <3>4
    <2>2. CASE Register(w) \/ Leave(w)
      BY <2>2 DEF Register, Leave, Inv, AllowedOwned
    <2> QED BY <2>1, <2>2
  <1>4. StoringPublished' /\ RoundsToCome' /\ CastingOwned' /\ StreamIsolation'
    BY <1>1 DEF Inv, StoringPublished, RoundsToCome, CastingOwned, StreamIsolation, sourceVars
  <1> QED BY <1>2, <1>3, <1>4 DEF Inv

\* Steps of a device that reach no connection.
LEMMA SourceStep ==
    ASSUME StreamAssumption, Inv, NEW d \in Devices,
           Forward(d) \/ ForwardFails(d) \/ UpdateDevice(d)
    PROVE  Inv'
  <1>1. UNCHANGED <<clientVars, casting, ready, queue, sending, sent>>
    BY DEF Forward, ForwardFails, UpdateDevice
  <1>2. /\ active' \in SUBSET Devices /\ storing' \in SUBSET Devices
        /\ published' \in [Devices -> 0..MaxReadings] /\ UNCHANGED <<round, echoed>>
        /\ StoringPublished' /\ RoundsToCome'
    <2>1. CASE Forward(d)
      <3>1. /\ published[d] \in Nat /\ published[d] < MaxReadings /\ MaxReadings \in Nat
            /\ published' = [published EXCEPT ![d] = published[d] + 1]
            /\ storing' = storing \cup {d} /\ UNCHANGED <<active, round, echoed>>
        BY <2>1 DEF StreamAssumption, Forward, Inv, TypeOK
      <3>2. published[d] + 1 \in 0..MaxReadings /\ published[d] + 1 > 0
        BY <3>1
      <3> QED BY <3>1, <3>2 DEF Inv, TypeOK, StoringPublished, RoundsToCome
    <2>2. CASE ForwardFails(d)
      BY <2>2 DEF ForwardFails, Inv, TypeOK, StoringPublished, RoundsToCome
    <2>3. CASE UpdateDevice(d)
      BY <2>3 DEF UpdateDevice, Inv, TypeOK, StoringPublished, RoundsToCome
    <2> QED BY <2>1, <2>2, <2>3
  <1>3. TypeOK'
    BY <1>1, <1>2 DEF Inv, TypeOK, clientVars
  <1>4. AllowedOwned' /\ CastingOwned' /\ StreamIsolation'
    BY <1>1 DEF Inv, AllowedOwned, CastingOwned, StreamIsolation, clientVars
  <1> QED BY <1>2, <1>3, <1>4 DEF Inv

\* The reading just stored is scheduled for those who may see its device.
LEMMA ForwardStoredStep ==
    ASSUME StreamAssumption, Inv, NEW d \in Devices, ForwardStored(d)
    PROVE  Inv'
  <1> DEFINE item == Item(d, published[d], Own)
  <1>1. item \in Items /\ item.device = d
    BY DEF StreamAssumption, ForwardStored, Inv, TypeOK, StoringPublished, Item, Items, Rounds, Own
  <1>2. /\ storing' = storing \ {d}
        /\ ready' = [w \in Streams |-> IF w \in Recipients(d)
                                       THEN Append(ready[w], item) ELSE ready[w]]
        /\ UNCHANGED <<active, published, round, echoed, clientVars, casting, queue, sending, sent>>
    BY DEF ForwardStored
  <1> HIDE DEF item
  <1>3. \A w \in Streams :
           /\ Append(ready[w], item) \in Seq(Items)
           /\ Range(Append(ready[w], item)) = Range(ready[w]) \cup {item}
    BY <1>1, RangeAppend DEF Inv, TypeOK
  <1>4. ready' \in [Streams -> Seq(Items)]
    BY <1>2, <1>3 DEF Inv, TypeOK
  <1>5. TypeOK'
    BY <1>2, <1>4 DEF Inv, TypeOK, clientVars
  <1>6. \A w \in Streams : \A i \in Range(ready'[w]) : Owner[i.device] = UserOf[w]
    <2> SUFFICES ASSUME NEW w \in Streams, NEW i \in Range(ready'[w])
                 PROVE  Owner[i.device] = UserOf[w]
      OBVIOUS
    <2>1. \A k \in Range(ready[w]) : Owner[k.device] = UserOf[w]
      BY DEF Inv, StreamIsolation
    <2>2. CASE w \in Recipients(d)
      <3>1. Owner[d] = UserOf[w]
        BY <2>2, RecipientsOwn
      <3>2. i \in Range(ready[w]) \cup {item}
        BY <1>2, <1>3, <2>2
      <3> QED BY <1>1, <2>1, <3>1, <3>2
    <2>3. CASE w \notin Recipients(d)
      BY <1>2, <2>1, <2>3
    <2> QED BY <2>2, <2>3
  <1>7. StreamIsolation'
    BY <1>2, <1>6 DEF Inv, StreamIsolation
  <1>8. StoringPublished' /\ RoundsToCome' /\ AllowedOwned' /\ CastingOwned'
    BY <1>2 DEF Inv, StoringPublished, RoundsToCome, AllowedOwned, CastingOwned, clientVars
  <1> QED BY <1>5, <1>7, <1>8 DEF Inv

\* paho's thread starts a walk over those who may see the device.
LEMMA OnMessageStep ==
    ASSUME StreamAssumption, Inv, NEW d \in Devices, OnMessage(d)
    PROVE  Inv'
  <1>1. PICK m \in 1..MaxReadings :
           /\ casting' = Recipients(d) \X {Item(d, m, round)}
           /\ echoed' = [echoed EXCEPT ![d][round] = m]
    <2>1. (echoed[d][round] + 1)..published[d] \subseteq 1..MaxReadings
      BY DEF StreamAssumption, Inv, TypeOK
    <2> QED BY <2>1 DEF OnMessage
  <1>2. round \in Rounds /\ round \in Nat /\ UNCHANGED round
    BY DEF OnMessage, StreamAssumption, Inv, TypeOK, Rounds, Own
  <1>3. Item(d, m, round) \in Items /\ Item(d, m, round).device = d
    BY <1>2 DEF Item, Items
  <1>4. UNCHANGED <<active, published, storing, clientVars, ready, queue, sending, sent>>
    BY DEF OnMessage
  <1>5. TypeOK'
    <2>1. casting' \in SUBSET (Streams \X Items)
      BY <1>1, <1>3 DEF Recipients
    <2>2. echoed' \in [Devices -> [Rounds -> 0..MaxReadings]]
      BY <1>1, <1>2 DEF StreamAssumption, Inv, TypeOK
    <2> QED BY <1>2, <1>4, <2>1, <2>2 DEF Inv, TypeOK, clientVars
  <1>6. CastingOwned'
    BY <1>1, <1>3, <1>4, RecipientsOwn DEF CastingOwned
  <1>7. StoringPublished' /\ AllowedOwned' /\ StreamIsolation'
    BY <1>4 DEF Inv, StoringPublished, AllowedOwned, StreamIsolation, clientVars
  <1>8. RoundsToCome'
    BY <1>1, <1>2 DEF Inv, TypeOK, RoundsToCome
  <1> QED BY <1>5, <1>6, <1>7, <1>8 DEF Inv

\* A new round begins: nothing has come in those after it.
LEMMA ResumeStep ==
    ASSUME StreamAssumption, Inv, Resume
    PROVE  Inv'
  <1>1. /\ round' = round + 1 /\ round < MaxRounds
        /\ UNCHANGED <<active, published, storing, echoed, clientVars, casting, ready, queue,
                       sending, sent>>
    BY DEF Resume
  <1>2. round \in Nat \ {0} /\ MaxRounds \in Nat /\ Rounds = 0..MaxRounds
    BY DEF StreamAssumption, Inv, TypeOK, Rounds, Own
  <1>3. round' \in Rounds \ {Own}
    BY <1>1, <1>2 DEF Own
  <1>4. TypeOK'
    BY <1>1, <1>3 DEF Inv, TypeOK, clientVars
  <1>5. RoundsToCome'
    BY <1>1, <1>2 DEF Inv, RoundsToCome
  <1> QED BY <1>1, <1>4, <1>5 DEF Inv, StoringPublished, AllowedOwned, CastingOwned,
                                  StreamIsolation, clientVars

\* The walk hands a call to the loop.
LEMMA CastStep ==
    ASSUME StreamAssumption, Inv, NEW w \in Streams, Cast(w)
    PROVE  Inv'
  <1>1. PICK item \in Items :
           /\ <<w, item>> \in casting
           /\ ready' = [ready EXCEPT ![w] = Append(@, item)]
           /\ casting' = casting \ {<<w, item>>}
    BY DEF Cast
  <1>2. UNCHANGED <<sourceVars, clientVars, queue, sending, sent>>
    BY DEF Cast
  <1>3. ready[w] \in Seq(Items)
    BY DEF Inv, TypeOK
  <1>4. /\ Append(ready[w], item) \in Seq(Items)
        /\ Range(Append(ready[w], item)) = Range(ready[w]) \cup {item}
    BY <1>3, RangeAppend
  <1>5. TypeOK'
    BY <1>1, <1>2, <1>4 DEF Inv, TypeOK, sourceVars, clientVars
  <1>6. Owner[item.device] = UserOf[w]
    BY <1>1 DEF Inv, CastingOwned
  <1>7. \A v \in Streams : \A i \in Range(ready'[v]) : Owner[i.device] = UserOf[v]
    BY <1>1, <1>4, <1>6 DEF Inv, TypeOK, StreamIsolation
  <1>8. StreamIsolation'
    BY <1>2, <1>7 DEF Inv, StreamIsolation
  <1>9. StoringPublished' /\ RoundsToCome' /\ AllowedOwned' /\ CastingOwned'
    BY <1>1, <1>2 DEF Inv, StoringPublished, RoundsToCome, AllowedOwned, CastingOwned,
                      sourceVars, clientVars
  <1> QED BY <1>5, <1>8, <1>9 DEF Inv

\* put_nowait moves an item to the queue of the same connection, if there is
\* room, or drops it.
LEMMA PutStep ==
    ASSUME StreamAssumption, Inv, NEW w \in Streams, Put(w)
    PROVE  Inv'
  <1> DEFINE item == Head(ready[w])
  <1>1. UNCHANGED <<sourceVars, clientVars, casting, sending, sent>>
    BY DEF Put
  <1>2. /\ item \in Items /\ item \in Range(ready[w])
        /\ Tail(ready[w]) \in Seq(Items) /\ Range(Tail(ready[w])) \subseteq Range(ready[w])
    <2>1. ready[w] \in Seq(Items) /\ ready[w] # <<>>
      BY DEF Put, Inv, TypeOK
    <2> QED BY <2>1, RangeTail
  <1>3. /\ Append(queue[w], item) \in Seq(Items)
        /\ Range(Append(queue[w], item)) = Range(queue[w]) \cup {item}
        /\ Len(Append(queue[w], item)) = Len(queue[w]) + 1
    <2>1. queue[w] \in Seq(Items)
      BY DEF Inv, TypeOK
    <2> QED BY <1>2, <2>1, RangeAppend
  <1>4. ready' = [ready EXCEPT ![w] = Tail(ready[w])]
    BY DEF Put
  <1>5. \/ queue' = queue
        \/ queue' = [queue EXCEPT ![w] = Append(queue[w], item)] /\ Len(queue[w]) < MaxQueue
    BY DEF Put
  <1> HIDE DEF item
  <1>6. TypeOK'
    <2>1. ready' \in [Streams -> Seq(Items)]
      BY <1>2, <1>4 DEF Inv, TypeOK
    <2>2. queue' \in [Streams -> Seq(Items)]
      BY <1>3, <1>5 DEF Inv, TypeOK
    <2> QED BY <1>1, <2>1, <2>2 DEF Inv, TypeOK, sourceVars, clientVars
  <1>7. Owner[item.device] = UserOf[w]
    BY <1>2 DEF Inv, StreamIsolation
  <1>8. \A v \in Streams : \A i \in Range(ready'[v]) : Owner[i.device] = UserOf[v]
    BY <1>2, <1>4 DEF Inv, TypeOK, StreamIsolation
  <1>9. \A v \in Streams : \A i \in Range(queue'[v]) : Owner[i.device] = UserOf[v]
    BY <1>3, <1>5, <1>7 DEF Inv, TypeOK, StreamIsolation
  <1>10. StreamIsolation'
    BY <1>1, <1>8, <1>9 DEF Inv, StreamIsolation
  <1>12. StoringPublished' /\ RoundsToCome' /\ AllowedOwned' /\ CastingOwned'
    BY <1>1 DEF Inv, StoringPublished, RoundsToCome, AllowedOwned, CastingOwned, sourceVars, clientVars
  <1> QED BY <1>6, <1>10, <1>12 DEF Inv

\* The coroutine takes an item from its own queue.
LEMMA TakeStep ==
    ASSUME StreamAssumption, Inv, NEW w \in Streams, Take(w)
    PROVE  Inv'
  <1> DEFINE item == Head(queue[w])
  <1>1. UNCHANGED <<sourceVars, clientVars, casting, ready, sent>>
    BY DEF Take
  <1>2. /\ item \in Items /\ item \in Range(queue[w])
        /\ Tail(queue[w]) \in Seq(Items) /\ Range(Tail(queue[w])) \subseteq Range(queue[w])
        /\ Len(Tail(queue[w])) = Len(queue[w]) - 1 /\ Len(queue[w]) \in Nat
    <2>1. queue[w] \in Seq(Items) /\ queue[w] # <<>>
      BY DEF Take, Inv, TypeOK
    <2> QED BY <2>1, RangeTail
  <1>3. /\ queue' = [queue EXCEPT ![w] = Tail(queue[w])]
        /\ sending' = [sending EXCEPT ![w] = {item}]
    BY DEF Take
  <1> HIDE DEF item
  <1>4. TypeOK'
    BY <1>1, <1>2, <1>3 DEF Inv, TypeOK, sourceVars, clientVars
  <1>5. \A v \in Streams :
           /\ \A i \in Range(queue'[v]) : Owner[i.device] = UserOf[v]
           /\ \A i \in sending'[v] : Owner[i.device] = UserOf[v]
    BY <1>2, <1>3 DEF Inv, TypeOK, StreamIsolation
  <1>6. StreamIsolation'
    BY <1>1, <1>5 DEF Inv, StreamIsolation
  <1>8. StoringPublished' /\ RoundsToCome' /\ AllowedOwned' /\ CastingOwned'
    BY <1>1 DEF Inv, StoringPublished, RoundsToCome, AllowedOwned, CastingOwned, sourceVars, clientVars
  <1> QED BY <1>4, <1>6, <1>8 DEF Inv

\* And sends it, or finds the client gone.
LEMMA SendStep ==
    ASSUME StreamAssumption, Inv, NEW w \in Streams, Send(w)
    PROVE  Inv'
  <1>1. UNCHANGED <<sourceVars, gone, allowed, casting, ready, queue>>
        /\ sending' = [sending EXCEPT ![w] = {}]
    BY DEF Send
  <1>2. sending' \in [Streams -> SUBSET Items]
    BY <1>1 DEF Inv, TypeOK
  <1>3. \A v \in Streams : \A i \in sending'[v] : i \in sending[v]
    BY <1>1 DEF Inv, TypeOK
  <1>4. CASE w \notin gone
    <2>1. PICK item \in sending[w] : sent' = [sent EXCEPT ![w] = Append(@, item)]
      BY <1>4 DEF Send
    <2>2. item \in Items /\ sent[w] \in Seq(Items) /\ Owner[item.device] = UserOf[w]
      BY DEF Inv, TypeOK, StreamIsolation
    <2>3. /\ Append(sent[w], item) \in Seq(Items)
          /\ Range(Append(sent[w], item)) = Range(sent[w]) \cup {item}
      BY <2>2, RangeAppend
    <2>4. TypeOK'
      BY <1>1, <1>2, <1>4, <2>1, <2>3 DEF Send, Inv, TypeOK, sourceVars
    <2>5. \A v \in Streams : \A i \in Range(sent'[v]) : Owner[i.device] = UserOf[v]
      BY <2>1, <2>2, <2>3 DEF Inv, TypeOK, StreamIsolation
    <2>6. StreamIsolation'
      BY <1>1, <1>3, <2>5 DEF Inv, StreamIsolation
    <2> QED BY <1>1, <2>4, <2>6 DEF Inv, StoringPublished, RoundsToCome, AllowedOwned, CastingOwned,
                                   sourceVars
  <1>5. CASE w \in gone
    <2>1. UNCHANGED sent /\ stream' = [stream EXCEPT ![w] = "ended"]
      BY <1>5 DEF Send
    <2>2. TypeOK'
      BY <1>1, <1>2, <2>1 DEF Inv, TypeOK, sourceVars
    <2>3. StreamIsolation'
      BY <1>1, <1>3, <2>1 DEF Inv, StreamIsolation
    <2> QED BY <1>1, <2>2, <2>3 DEF Inv, StoringPublished, RoundsToCome, AllowedOwned, CastingOwned,
                                   sourceVars
  <1> QED BY <1>4, <1>5

-----------------------------------------------------------------------------

LEMMA NextInv == ASSUME StreamAssumption, Inv, [Next]_vars PROVE Inv'
  <1>1. ASSUME NEW w \in Streams, List(w) \/ Register(w) \/ Leave(w) PROVE Inv'
    BY <1>1, ClientStep
  <1>2. ASSUME NEW w \in Streams, Cast(w) PROVE Inv'
    BY <1>2, CastStep
  <1>3. ASSUME NEW w \in Streams, Put(w) PROVE Inv'
    BY <1>3, PutStep
  <1>4. ASSUME NEW w \in Streams, Take(w) PROVE Inv'
    BY <1>4, TakeStep
  <1>5. ASSUME NEW w \in Streams, Send(w) PROVE Inv'
    BY <1>5, SendStep
  <1>6. ASSUME NEW d \in Devices, Forward(d) \/ ForwardFails(d) \/ UpdateDevice(d) PROVE Inv'
    BY <1>6, SourceStep
  <1>7. ASSUME NEW d \in Devices, ForwardStored(d) PROVE Inv'
    BY <1>7, ForwardStoredStep
  <1>8. ASSUME NEW d \in Devices, OnMessage(d) PROVE Inv'
    BY <1>8, OnMessageStep
  <1>9. CASE UNCHANGED vars
    BY <1>9 DEF vars, sourceVars, clientVars, Inv, TypeOK, StoringPublished, RoundsToCome, AllowedOwned,
                CastingOwned, StreamIsolation
  <1> QED BY <1>1, <1>2, <1>3, <1>4, <1>5, <1>6, <1>7, <1>8, <1>9, ResumeStep DEF Next

THEOREM Invariance == Spec => []Inv
  <1>1. Init => Inv
    BY InitInv, StreamAssumption
  <1>2. Inv /\ [Next]_vars => Inv'
    BY NextInv, StreamAssumption
  <1> QED BY <1>1, <1>2, PTL DEF Spec

\* The state of the stream stays well typed.
THEOREM StreamTypeCorrect == Spec => []TypeOK
  <1>1. Inv => TypeOK
    BY DEF Inv
  <1> QED BY <1>1, Invariance, PTL

\* No client is ever queued or sent an item of another user's device, whatever
\* the threads, however many users, devices and connections.
THEOREM StreamsAreIsolated == Spec => []StreamIsolation
  <1>1. Inv => StreamIsolation
    BY DEF Inv
  <1> QED BY <1>1, Invariance, PTL

-----------------------------------------------------------------------------
(* Order.  An item passes through casting, ready, queue and sending to     *)
(* sent; whatever is further on this way is older.                         *)

\* Of those that compare, all of S are older than all of T.
Before(S, T) == \A x \in S, y \in T : Alike(x, y) => Older(x, y)

Sorted(s) ==
    \A i, j \in DOMAIN s : i < j /\ Alike(s[i], s[j]) => Older(s[i], s[j])

InLine(done, under, queued, called, cast) ==
    /\ Before(done, under \cup queued \cup called \cup cast)
    /\ Before(under, queued \cup called \cup cast)
    /\ Before(queued, called \cup cast)
    /\ Before(called, cast)

Passed(w) == Range(sent[w]) \cup sending[w] \cup Range(queue[w]) \cup Range(ready[w])

\* What has been broadcast is not newer than the last its source tells of.
Known(x) ==
    /\ x.round # Own => x.round <= round /\ x.n <= echoed[x.device][x.round]
    /\ x.round = Own => /\ x.n <= published[x.device]
                        /\ x.device \in storing => x.n < published[x.device]

OrderAt(w) ==
    /\ Sorted(sent[w]) /\ Sorted(queue[w]) /\ Sorted(ready[w])
    /\ InLine(Range(sent[w]), sending[w], Range(queue[w]), Range(ready[w]), Casts(w))
    /\ \A x \in Passed(w) \cup Casts(w) : Known(x)

\* paho's thread walks with one message at a time, and to_forward never there.
OneCast ==
    \A v, w \in Streams : \A x \in Casts(v), y \in Casts(w) : x = y /\ x.round # Own

OrderInv == OneCast /\ \A w \in Streams : OrderAt(w)

\* An element put at the end of a sorted sequence is the newest,
LEMMA SortedAppend ==
    ASSUME NEW s \in Seq(Items), NEW e \in Items, Sorted(s), Before(Range(s), {e})
    PROVE  Sorted(Append(s, e))
  <1>1. /\ Len(s) \in Nat /\ DOMAIN s = 1..Len(s) /\ DOMAIN Append(s, e) = 1..(Len(s) + 1)
        /\ \A i \in 1..Len(s) : Append(s, e)[i] = s[i]
        /\ Append(s, e)[Len(s) + 1] = e
    OBVIOUS
  <1> SUFFICES ASSUME NEW i \in 1..(Len(s) + 1), NEW j \in 1..(Len(s) + 1), i < j,
                      Alike(Append(s, e)[i], Append(s, e)[j])
               PROVE  Older(Append(s, e)[i], Append(s, e)[j])
    BY <1>1 DEF Sorted
  <1>2. i \in 1..Len(s) /\ s[i] \in Range(s) /\ Append(s, e)[i] = s[i]
    BY <1>1 DEF Range
  <1>3. CASE j \in 1..Len(s)
    BY <1>1, <1>2, <1>3 DEF Sorted
  <1>4. CASE j = Len(s) + 1
    BY <1>1, <1>2, <1>4 DEF Before
  <1> QED BY <1>1, <1>3, <1>4

\* and one taken from the front is older than the rest.
LEMMA SortedTail ==
    ASSUME NEW s \in Seq(Items), s # <<>>, Sorted(s)
    PROVE  Sorted(Tail(s)) /\ Before({Head(s)}, Range(Tail(s)))
  <1>1. /\ Len(s) \in Nat \ {0} /\ DOMAIN s = 1..Len(s)
        /\ DOMAIN Tail(s) = 1..(Len(s) - 1) /\ Head(s) = s[1]
    OBVIOUS
  <1>2. \A i \in 1..(Len(s) - 1) : Tail(s)[i] = s[i + 1] /\ i + 1 \in 1..Len(s) /\ 1 < i + 1
    OBVIOUS
  <1>3. Sorted(Tail(s))
    <2> SUFFICES ASSUME NEW i \in 1..(Len(s) - 1), NEW j \in 1..(Len(s) - 1), i < j,
                        Alike(s[i + 1], s[j + 1])
                 PROVE  Older(s[i + 1], s[j + 1])
      BY <1>1, <1>2 DEF Sorted
    <2>1. i + 1 < j + 1 /\ i + 1 \in DOMAIN s /\ j + 1 \in DOMAIN s
      BY <1>1, <1>2
    <2> QED BY <2>1 DEF Sorted
  <1>4. Before({Head(s)}, Range(Tail(s)))
    <2> SUFFICES ASSUME NEW y \in Range(Tail(s)), Alike(s[1], y)
                 PROVE  Older(s[1], y)
      BY <1>1 DEF Before
    <2>1. PICK i \in 1..(Len(s) - 1) : y = s[i + 1]
      BY <1>1, <1>2 DEF Range
    <2>2. 1 \in DOMAIN s /\ i + 1 \in DOMAIN s /\ 1 < i + 1
      BY <1>1, <1>2
    <2> QED BY <2>1, <2>2 DEF Sorted
  <1> QED BY <1>3, <1>4

\* What an item holds.
LEMMA ItemFields ==
    ASSUME NEW x \in Items
    PROVE  /\ x.device \in Devices /\ x.n \in Nat \ {0} /\ x.n \in 1..MaxReadings
           /\ x.round \in Rounds /\ x.round \in Nat
           /\ ~Older(x, x) /\ Alike(x, x)
  <1>1. x.device \in Devices /\ x.n \in 1..MaxReadings /\ x.round \in Rounds
    BY DEF Items
  <1>2. x.n \in Nat \ {0} /\ x.round \in Nat
    BY <1>1, StreamAssumption DEF StreamAssumption, Rounds, Own
  <1> QED BY <1>1, <1>2 DEF Older, Alike

\* No source forgets what it has told.
LEMMA KnownStays ==
    ASSUME Inv, NEW x \in Items, Known(x), [Next]_vars
    PROVE  Known(x)'
  <1>1. /\ x.device \in Devices /\ x.n \in Nat /\ x.round \in Nat /\ x.round \in Rounds
        /\ published \in [Devices -> Nat] /\ echoed \in [Devices -> [Rounds -> Nat]]
        /\ round \in Nat /\ round \in Rounds
    BY ItemFields, StreamAssumption DEF StreamAssumption, Inv, TypeOK, Rounds, Own
  <1>2. CASE UNCHANGED sourceVars
    BY <1>2 DEF Known, sourceVars
  <1>3. ASSUME NEW d \in Devices, Forward(d) PROVE Known(x)'
    BY <1>1, <1>3 DEF Forward, Known
  <1>4. ASSUME NEW d \in Devices, ForwardStored(d) \/ ForwardFails(d) \/ UpdateDevice(d)
        PROVE  Known(x)'
    BY <1>4 DEF ForwardStored, ForwardFails, UpdateDevice, Known
  <1>5. ASSUME NEW d \in Devices, OnMessage(d) PROVE Known(x)'
    <2>1. PICK m \in (echoed[d][round] + 1)..published[d] :
             echoed' = [echoed EXCEPT ![d][round] = m]
      BY <1>5 DEF OnMessage
    <2>2. /\ m \in Int /\ m > echoed[d][round]
          /\ UNCHANGED <<published, storing, round>>
      BY <1>1, <1>5 DEF OnMessage
    <2>3. echoed[x.device][x.round] <= echoed'[x.device][x.round]
      BY <1>1, <2>1, <2>2
    <2>4. echoed'[x.device][x.round] \in Int
      BY <1>1, <2>1, <2>2
    <2> QED BY <1>1, <2>2, <2>3, <2>4 DEF Known
  <1>6. CASE Resume
    BY <1>1, <1>6 DEF Resume, Known
  <1>7. ASSUME NEW w \in Streams,
               \/ List(w) \/ Register(w) \/ Leave(w)
               \/ Cast(w) \/ Put(w) \/ Take(w) \/ Send(w)
        PROVE  UNCHANGED sourceVars
    BY <1>7 DEF List, Register, Leave, Cast, Put, Take, Send
  <1> QED BY <1>2, <1>3, <1>4, <1>5, <1>6, <1>7 DEF Next, vars

\* All items are items.
LEMMA PassedItems ==
    ASSUME Inv, NEW w \in Streams
    PROVE  /\ Passed(w) \in SUBSET Items /\ Casts(w) \in SUBSET Items
           /\ sent[w] \in Seq(Items) /\ queue[w] \in Seq(Items) /\ ready[w] \in Seq(Items)
           /\ Range(ready[w]) \in SUBSET Items /\ Range(queue[w]) \in SUBSET Items
           /\ Range(sent[w]) \in SUBSET Items /\ sending[w] \in SUBSET Items
  <1>1. /\ sent[w] \in Seq(Items) /\ queue[w] \in Seq(Items) /\ ready[w] \in Seq(Items)
        /\ sending[w] \in SUBSET Items
    BY DEF Inv, TypeOK
  <1>2. ASSUME NEW s \in Seq(Items) PROVE Range(s) \in SUBSET Items
    BY DEF Range
  <1> QED BY <1>1, <1>2 DEF Passed, Casts

\* Where the places of a connection are left alone, so is its order.
LEMMA OrderStays ==
    ASSUME Inv, NEW w \in Streams, OrderAt(w), [Next]_vars,
           ready'[w] = ready[w], queue'[w] = queue[w], sending'[w] = sending[w],
           sent'[w] = sent[w], Casts(w)' \in SUBSET Casts(w)
    PROVE  OrderAt(w)'
  <1>1. Passed(w)' = Passed(w)
    BY DEF Passed
  <1>2. \A x \in Passed(w)' \cup Casts(w)' : Known(x)'
    BY <1>1, PassedItems, KnownStays DEF OrderAt
  <1> HIDE DEF Casts
  <1>3. InLine(Range(sent[w]), sending[w], Range(queue[w]), Range(ready[w]), Casts(w))'
    BY DEF OrderAt, InLine, Before
  <1> QED BY <1>2, <1>3 DEF OrderAt

\* A new item is put at the end of what is scheduled, in front of no cast.
LEMMA ReadyGrows ==
    ASSUME Inv, Inv', NEW w \in Streams, OrderAt(w), [Next]_vars, NEW item \in Items,
           ready'[w] = Append(ready[w], item), queue'[w] = queue[w],
           sending'[w] = sending[w], sent'[w] = sent[w], Casts(w)' \in SUBSET Casts(w),
           Before(Passed(w), {item}), Before({item}, Casts(w)'), Known(item)'
    PROVE  OrderAt(w)'
  <1>1. Range(ready'[w]) = Range(ready[w]) \cup {item}
    BY PassedItems, RangeAppend
  <1>2. \A x \in Passed(w)' \cup Casts(w)' : Known(x)'
    <2>1. Passed(w)' = Passed(w) \cup {item}
      BY <1>1 DEF Passed
    <2> QED BY <2>1, PassedItems, KnownStays DEF OrderAt
  <1>3. Sorted(ready[w])'
    <2>1. Before(Range(ready[w]), {item})
      BY DEF Before, Passed
    <2> QED BY <2>1, PassedItems, SortedAppend DEF OrderAt
  <1>4. InLine(Range(sent[w]), sending[w], Range(queue[w]), Range(ready[w]), Casts(w))'
    BY <1>1 DEF OrderAt, InLine, Before, Passed
  <1> QED BY <1>2, <1>3, <1>4 DEF OrderAt

\* A stored reading is newer than any that to_forward has broadcast before.
LEMMA ForwardStoredOrder ==
    ASSUME Inv, Inv', OrderInv, NEW d \in Devices, ForwardStored(d)
    PROVE  OrderInv'
  <1>1. PICK item \in Items : /\ item = Item(d, published[d], Own) /\ item.device = d
                             /\ item.round = Own /\ item.n = published[d]
    <2>1. Item(d, published[d], Own) \in Items
      BY StreamAssumption DEF ForwardStored, Inv, TypeOK, StoringPublished, Item, Items, Rounds, Own
    <2> QED BY <2>1 DEF Item
  <1>2. /\ d \in storing /\ storing' = storing \ {d}
        /\ ready' = [w \in Streams |-> IF w \in Recipients(d)
                                       THEN Append(ready[w], item) ELSE ready[w]]
        /\ UNCHANGED <<published, casting, queue, sending, sent>>
    BY <1>1 DEF ForwardStored
  <1>3. Known(item)'
    <2>1. published[d] \in Nat
      BY StreamAssumption DEF Inv, TypeOK
    <2> QED BY <1>1, <1>2, <2>1 DEF Known
  <1>4. \A w \in Streams : Casts(w)' = Casts(w)
    BY <1>2 DEF Casts
  <1>5. OneCast'
    BY <1>4 DEF OrderInv, OneCast
  <1>6. [Next]_vars
    BY DEF Next
  <1>7. ASSUME NEW w \in Streams PROVE OrderAt(w)'
    <2>1. Before(Passed(w), {item})
      BY <1>1, <1>2 DEF OrderInv, OrderAt, Known, Before, Alike, Older
    <2>2. Before({item}, Casts(w)')
      BY <1>1, <1>4 DEF OrderInv, OneCast, Before, Alike
    <2>3. CASE w \in Recipients(d)
      BY <1>1, <1>2, <1>3, <1>4, <1>6, <2>1, <2>2, <2>3, ReadyGrows DEF OrderInv
    <2>4. CASE w \notin Recipients(d)
      BY <1>2, <1>4, <1>6, <2>4, OrderStays DEF OrderInv
    <2> QED BY <2>3, <2>4
  <1> QED BY <1>5, <1>7 DEF OrderInv

\* A walk begins only after the last one, with a message newer than any before
\* on its way.
LEMMA OnMessageOrder ==
    ASSUME Inv, OrderInv, NEW d \in Devices, OnMessage(d)
    PROVE  OrderInv'
  <1>1. PICK m \in 1..MaxReadings :
           /\ casting' = Recipients(d) \X {Item(d, m, round)}
           /\ echoed[d][round] < m /\ echoed' = [echoed EXCEPT ![d][round] = m]
    <2>1. /\ echoed[d][round] \in Nat /\ published[d] \in 0..MaxReadings
      BY StreamAssumption DEF StreamAssumption, Inv, TypeOK
    <2>2. (echoed[d][round] + 1)..published[d] \subseteq {m \in 1..MaxReadings : echoed[d][round] < m}
      BY <2>1, StreamAssumption DEF StreamAssumption
    <2> QED BY <2>2 DEF OnMessage
  <1>2. /\ round \in Rounds /\ round \in Nat \ {0} /\ round # Own /\ UNCHANGED round
        /\ echoed[d][round] \in Nat /\ echoed'[d][round] = m
    BY <1>1, StreamAssumption DEF OnMessage, StreamAssumption, Inv, TypeOK, Rounds, Own
  <1>3. PICK item \in Items : /\ item = Item(d, m, round) /\ item.device = d
                             /\ item.round = round /\ item.n = m
    <2>1. Item(d, m, round) \in Items
      BY <1>2 DEF Item, Items
    <2> QED BY <2>1 DEF Item
  <1>4. UNCHANGED <<ready, queue, sending, sent>> /\ [Next]_vars
    BY DEF OnMessage, Next
  <1>5. \A w \in Streams : Casts(w)' \in SUBSET {item}
    BY <1>1, <1>3 DEF Casts
  <1>6. OneCast'
    BY <1>2, <1>3, <1>5 DEF OneCast
  <1>7. Known(item)'
    BY <1>2, <1>3 DEF Known
  <1>8. ASSUME NEW w \in Streams PROVE OrderAt(w)'
    <2>1. Before(Passed(w), Casts(w)')
      <3> SUFFICES ASSUME NEW x \in Passed(w), Alike(x, item)
                   PROVE  Older(x, item)
        BY <1>5 DEF Before
      <3>1. Known(x) /\ x \in Items
        BY PassedItems DEF OrderInv, OrderAt
      <3>2. x.device = d /\ x.round # Own
        BY <1>2, <1>3 DEF Alike
      <3>3. x.round <= round /\ x.n <= echoed[d][x.round] /\ x.n \in Nat /\ x.round \in Nat
        BY <3>1, <3>2, ItemFields DEF Known
      <3> QED BY <1>1, <1>2, <1>3, <3>3 DEF Older
    <2>2. \A x \in Passed(w)' \cup Casts(w)' : Known(x)'
      <3>1. Passed(w)' = Passed(w)
        BY <1>4 DEF Passed
      <3> QED BY <1>4, <1>5, <1>7, <3>1, PassedItems, KnownStays DEF OrderInv, OrderAt
    <2>3. InLine(Range(sent[w]), sending[w], Range(queue[w]), Range(ready[w]), Casts(w))'
      BY <1>4, <2>1 DEF OrderInv, OrderAt, InLine, Before, Passed
    <2> QED BY <1>4, <2>2, <2>3 DEF OrderInv, OrderAt
  <1> QED BY <1>6, <1>8 DEF OrderInv

\* The one item of the walk is scheduled for one of its connections.
LEMMA CastOrder ==
    ASSUME Inv, Inv', OrderInv, NEW w \in Streams, Cast(w)
    PROVE  OrderInv'
  <1>1. PICK item \in Items :
           /\ <<w, item>> \in casting
           /\ ready' = [ready EXCEPT ![w] = Append(@, item)]
           /\ casting' = casting \ {<<w, item>>}
    BY DEF Cast
  <1>2. UNCHANGED <<queue, sending, sent>> /\ [Next]_vars
    BY DEF Cast, Next
  <1>3. item \in Casts(w) /\ \A v \in Streams : Casts(v)' \in SUBSET Casts(v)
    BY <1>1 DEF Casts
  <1>4. Casts(w)' = {}
    <2>1. \A x \in Casts(w) : x = item
      BY <1>3 DEF OrderInv, OneCast
    <2> QED BY <1>1, <2>1 DEF Casts
  <1>5. OneCast'
    BY <1>3 DEF OrderInv, OneCast
  <1>6. Before(Passed(w), {item}) /\ Before({item}, Casts(w)') /\ Known(item)'
    BY <1>2, <1>3, <1>4, KnownStays DEF OrderInv, OrderAt, InLine, Before, Passed
  <1>7. ready'[w] = Append(ready[w], item) /\ \A v \in Streams \ {w} : ready'[v] = ready[v]
    BY <1>1 DEF Inv, TypeOK
  <1>8. OrderAt(w)'
    BY <1>2, <1>3, <1>6, <1>7, ReadyGrows DEF OrderInv
  <1>9. ASSUME NEW v \in Streams \ {w} PROVE OrderAt(v)'
    BY <1>2, <1>3, <1>7, OrderStays DEF OrderInv
  <1> QED BY <1>5, <1>8, <1>9 DEF OrderInv

\* put_nowait takes the oldest call, and drops its item or puts it last.
LEMMA PutOrder ==
    ASSUME Inv, Inv', OrderInv, NEW w \in Streams, Put(w)
    PROVE  OrderInv'
  <1>1. PICK item \in Items : item = Head(ready[w])
    BY PassedItems DEF Put
  <1>2. /\ ready' = [ready EXCEPT ![w] = Tail(ready[w])]
        /\ \/ queue' = queue
           \/ queue' = [queue EXCEPT ![w] = Append(queue[w], item)]
        /\ UNCHANGED <<casting, sending, sent>> /\ [Next]_vars
    BY <1>1 DEF Put, Next
  <1>3. \A v \in Streams : Casts(v)' = Casts(v)
    BY <1>2 DEF Casts
  <1>4. OneCast'
    BY <1>3 DEF OrderInv, OneCast
  <1>5. /\ ready'[w] = Tail(ready[w])
        /\ queue'[w] = queue[w] \/ queue'[w] = Append(queue[w], item)
        /\ \A v \in Streams \ {w} : ready'[v] = ready[v] /\ queue'[v] = queue[v]
    BY <1>2 DEF Inv, TypeOK
  <1>6. /\ Sorted(Tail(ready[w])) /\ Before({item}, Range(Tail(ready[w])))
        /\ item \in Range(ready[w]) /\ Range(Tail(ready[w])) \subseteq Range(ready[w])
    BY <1>1, PassedItems, SortedTail, RangeTail DEF Put, OrderInv, OrderAt
  <1>7. OrderAt(w)'
    <2>1. /\ Sorted(queue[w])'
          /\ Range(queue'[w]) = Range(queue[w]) \/ Range(queue'[w]) = Range(queue[w]) \cup {item}
      <3>1. CASE queue'[w] = queue[w]
        BY <3>1 DEF OrderInv, OrderAt
      <3>2. CASE queue'[w] = Append(queue[w], item)
        <4>1. Before(Range(queue[w]), {item})
          BY <1>6 DEF OrderInv, OrderAt, InLine, Before
        <4> QED BY <3>2, <4>1, PassedItems, SortedAppend, RangeAppend DEF OrderInv, OrderAt
      <3> QED BY <1>5, <3>1, <3>2
    <2>2. \A x \in Passed(w)' \cup Casts(w)' : Known(x)'
      <3>1. Passed(w)' \subseteq Passed(w)
        BY <1>2, <1>5, <1>6, <2>1 DEF Passed
      <3> QED BY <1>2, <1>3, <3>1, PassedItems, KnownStays DEF OrderInv, OrderAt
    <2>3. InLine(Range(sent[w]), sending[w], Range(queue[w]), Range(ready[w]), Casts(w))'
      BY <1>2, <1>3, <1>5, <1>6, <2>1 DEF OrderInv, OrderAt, InLine, Before
    <2> QED BY <1>2, <1>5, <1>6, <2>1, <2>2, <2>3 DEF OrderInv, OrderAt
  <1>8. ASSUME NEW v \in Streams \ {w} PROVE OrderAt(v)'
    BY <1>2, <1>3, <1>5, OrderStays DEF OrderInv
  <1> QED BY <1>4, <1>7, <1>8 DEF OrderInv

\* The coroutine takes the oldest item of its queue, when it has sent the last.
LEMMA TakeOrder ==
    ASSUME Inv, Inv', OrderInv, NEW w \in Streams, Take(w)
    PROVE  OrderInv'
  <1>1. PICK item \in Items : item = Head(queue[w])
    BY PassedItems DEF Take
  <1>2. /\ queue' = [queue EXCEPT ![w] = Tail(queue[w])]
        /\ sending' = [sending EXCEPT ![w] = {item}]
        /\ UNCHANGED <<casting, ready, sent>> /\ [Next]_vars
    BY <1>1 DEF Take, Next
  <1>3. \A v \in Streams : Casts(v)' = Casts(v)
    BY <1>2 DEF Casts
  <1>4. OneCast'
    BY <1>3 DEF OrderInv, OneCast
  <1>5. /\ queue'[w] = Tail(queue[w]) /\ sending'[w] = {item}
        /\ \A v \in Streams \ {w} : queue'[v] = queue[v] /\ sending'[v] = sending[v]
    BY <1>2 DEF Inv, TypeOK
  <1>6. /\ Sorted(Tail(queue[w])) /\ Before({item}, Range(Tail(queue[w])))
        /\ item \in Range(queue[w]) /\ Range(Tail(queue[w])) \subseteq Range(queue[w])
    BY <1>1, PassedItems, SortedTail, RangeTail DEF Take, OrderInv, OrderAt
  <1>7. OrderAt(w)'
    <2>1. \A x \in Passed(w)' \cup Casts(w)' : Known(x)'
      <3>1. Passed(w)' \subseteq Passed(w)
        BY <1>2, <1>5, <1>6 DEF Passed
      <3> QED BY <1>2, <1>3, <3>1, PassedItems, KnownStays DEF OrderInv, OrderAt
    <2>2. InLine(Range(sent[w]), sending[w], Range(queue[w]), Range(ready[w]), Casts(w))'
      BY <1>2, <1>3, <1>5, <1>6 DEF OrderInv, OrderAt, InLine, Before
    <2> QED BY <1>2, <1>5, <1>6, <2>1, <2>2 DEF OrderInv, OrderAt
  <1>8. ASSUME NEW v \in Streams \ {w} PROVE OrderAt(v)'
    BY <1>2, <1>3, <1>5, OrderStays DEF OrderInv
  <1> QED BY <1>4, <1>7, <1>8 DEF OrderInv

\* What is sent is newer than all that was sent, and older than all that waits.
LEMMA SendOrder ==
    ASSUME Inv, Inv', OrderInv, NEW w \in Streams, Send(w)
    PROVE  OrderInv'
  <1>1. PICK item \in sending[w] :
           \/ sent' = sent
           \/ sent' = [sent EXCEPT ![w] = Append(@, item)]
    BY DEF Send
  <1>2. /\ sending' = [sending EXCEPT ![w] = {}]
        /\ UNCHANGED <<casting, ready, queue>> /\ [Next]_vars
    BY DEF Send, Next
  <1>3. \A v \in Streams : Casts(v)' = Casts(v)
    BY <1>2 DEF Casts
  <1>4. OneCast'
    BY <1>3 DEF OrderInv, OneCast
  <1>5. /\ sending'[w] = {}
        /\ sent'[w] = sent[w] \/ sent'[w] = Append(sent[w], item)
        /\ \A v \in Streams \ {w} : sent'[v] = sent[v] /\ sending'[v] = sending[v]
    BY <1>1, <1>2 DEF Inv, TypeOK
  <1>6. OrderAt(w)'
    <2>1. /\ Sorted(sent[w])'
          /\ Range(sent'[w]) = Range(sent[w]) \/ Range(sent'[w]) = Range(sent[w]) \cup {item}
      <3>1. CASE sent'[w] = sent[w]
        BY <3>1 DEF OrderInv, OrderAt
      <3>2. CASE sent'[w] = Append(sent[w], item)
        <4>1. Before(Range(sent[w]), {item}) /\ item \in Items
          BY PassedItems DEF OrderInv, OrderAt, InLine, Before
        <4> QED BY <3>2, <4>1, PassedItems, SortedAppend, RangeAppend DEF OrderInv, OrderAt
      <3> QED BY <1>5, <3>1, <3>2
    <2>2. \A x \in Passed(w)' \cup Casts(w)' : Known(x)'
      <3>1. Passed(w)' \subseteq Passed(w)
        BY <1>2, <1>5, <2>1 DEF Passed
      <3> QED BY <1>2, <1>3, <3>1, PassedItems, KnownStays DEF OrderInv, OrderAt
    <2>3. InLine(Range(sent[w]), sending[w], Range(queue[w]), Range(ready[w]), Casts(w))'
      BY <1>2, <1>3, <1>5, <2>1 DEF OrderInv, OrderAt, InLine, Before
    <2> QED BY <1>2, <2>1, <2>2, <2>3 DEF OrderInv, OrderAt
  <1>7. ASSUME NEW v \in Streams \ {w} PROVE OrderAt(v)'
    BY <1>2, <1>3, <1>5, OrderStays DEF OrderInv
  <1> QED BY <1>4, <1>6, <1>7 DEF OrderInv

\* Every step keeps the order.
LEMMA OrderKept == Inv /\ OrderInv /\ Inv' /\ [Next]_vars => OrderInv'
  <1> SUFFICES ASSUME Inv, OrderInv, Inv', [Next]_vars PROVE OrderInv'
    OBVIOUS
  <1>1. ASSUME UNCHANGED <<casting, ready, queue, sending, sent>> PROVE OrderInv'
    <2>1. \A v \in Streams : Casts(v)' = Casts(v)
      BY <1>1 DEF Casts
    <2> QED BY <1>1, <2>1, OrderStays DEF OrderInv, OneCast
  <1>2. ASSUME NEW w \in Streams, List(w) \/ Register(w) \/ Leave(w) PROVE OrderInv'
    BY <1>1, <1>2 DEF List, Register, Leave
  <1>3. ASSUME NEW d \in Devices, Forward(d) \/ ForwardFails(d) \/ UpdateDevice(d)
        PROVE  OrderInv'
    BY <1>1, <1>3 DEF Forward, ForwardFails, UpdateDevice
  <1>4. CASE UNCHANGED vars
    BY <1>1, <1>4 DEF vars
  <1>5. CASE Resume
    BY <1>1, <1>5 DEF Resume
  <1> QED
    BY <1>2, <1>3, <1>4, <1>5, ForwardStoredOrder, OnMessageOrder, CastOrder, PutOrder, TakeOrder,
       SendOrder DEF Next

LEMMA InitOrder == Init => OrderInv
  <1> SUFFICES ASSUME Init PROVE OrderInv
    OBVIOUS
  <1>1. \A w \in Streams : Casts(w) = {} /\ Range(ready[w]) = {} /\ Range(queue[w]) = {}
                           /\ sending[w] = {} /\ Range(sent[w]) = {}
    BY DEF Init, Casts, Range
  <1>2. \A w \in Streams : Sorted(sent[w]) /\ Sorted(queue[w]) /\ Sorted(ready[w])
    BY DEF Init, Sorted
  <1> QED BY <1>1, <1>2 DEF OrderInv, OneCast, OrderAt, InLine, Before, Passed

\* Each client gets the readings of a device in order, those of the broker at
\* most once in each round and no round after a later one, with queues of any
\* size, however many rounds, whatever is dropped and however the threads
\* interleave.
THEOREM StreamsAreInOrder == Spec => []SentInOrder
  <1>1. OrderInv => SentInOrder
    BY DEF OrderInv, OrderAt, Sorted, SentInOrder
  <1> QED BY <1>1, InitOrder, Invariance, OrderKept, PTL DEF Spec

-----------------------------------------------------------------------------
(* The stream implements the feeds of StreamFeed.                          *)

\* Nothing is on its way to a connection before it is registered, and its
\* coroutine sends one item at a time, and nothing once it has ended.
QuietUnlessOpen ==
    \A w \in Streams :
        /\ stream[w] \in {"closed", "listed"} =>
              Casts(w) = {} /\ ready[w] = <<>> /\ queue[w] = <<>>
        /\ stream[w] # "open" => sending[w] = {}
        /\ \A x, y \in sending[w] : x = y

LEMMA QuietKept ==
    ASSUME Inv, QuietUnlessOpen, [Next]_vars
    PROVE  QuietUnlessOpen'
  <1>1. ASSUME NEW w \in Streams, List(w) \/ Register(w) \/ Leave(w) PROVE QuietUnlessOpen'
    BY <1>1 DEF List, Register, Leave, Inv, TypeOK, QuietUnlessOpen, Casts
  <1>2. ASSUME NEW w \in Streams, Cast(w) PROVE QuietUnlessOpen'
    BY <1>2 DEF Cast, clientVars, Inv, TypeOK, QuietUnlessOpen, Casts
  <1>3. ASSUME NEW w \in Streams, Put(w) PROVE QuietUnlessOpen'
    BY <1>3 DEF Put, clientVars, Inv, TypeOK, QuietUnlessOpen, Casts
  <1>4. ASSUME NEW w \in Streams, Take(w) PROVE QuietUnlessOpen'
    BY <1>4 DEF Take, clientVars, Inv, TypeOK, QuietUnlessOpen, Casts
  <1>5. ASSUME NEW w \in Streams, Send(w) PROVE QuietUnlessOpen'
    BY <1>5 DEF Send, Inv, TypeOK, QuietUnlessOpen, Casts
  <1>6. ASSUME NEW d \in Devices, Forward(d) \/ ForwardFails(d) \/ UpdateDevice(d)
        PROVE  QuietUnlessOpen'
    BY <1>6 DEF Forward, ForwardFails, UpdateDevice, clientVars, QuietUnlessOpen, Casts
  <1>7. ASSUME NEW d \in Devices, ForwardStored(d) PROVE QuietUnlessOpen'
    BY <1>7 DEF ForwardStored, Recipients, clientVars, QuietUnlessOpen, Casts
  <1>8. ASSUME NEW d \in Devices, OnMessage(d) PROVE QuietUnlessOpen'
    BY <1>8 DEF OnMessage, Recipients, clientVars, QuietUnlessOpen, Casts
  <1>10. CASE Resume
    BY <1>10 DEF Resume, clientVars, QuietUnlessOpen, Casts
  <1>9. CASE UNCHANGED vars
    BY <1>9 DEF vars, clientVars, QuietUnlessOpen, Casts
  <1> QED BY <1>1, <1>2, <1>3, <1>4, <1>5, <1>6, <1>7, <1>8, <1>9, <1>10 DEF Next

\* The items of a sorted sequence are all different.
LEMMA SortedInjective ==
    ASSUME NEW s \in Seq(Items), Sorted(s)
    PROVE  s \in [1..Len(s) -> Range(s)] /\ \A i, j \in 1..Len(s) : s[i] = s[j] => i = j
  <1>1. Len(s) \in Nat /\ DOMAIN s = 1..Len(s) /\ \A i \in 1..Len(s) : s[i] \in Items
    OBVIOUS
  <1>2. \A i, j \in 1..Len(s) : i < j => s[i] # s[j]
    <2> SUFFICES ASSUME NEW i \in 1..Len(s), NEW j \in 1..Len(s), i < j, s[i] = s[j]
                 PROVE  FALSE
      OBVIOUS
    <2>1. Alike(s[i], s[j]) => Older(s[i], s[j])
      BY <1>1 DEF Sorted
    <2> QED BY <1>1, <2>1, ItemFields
  <1>3. s \in [1..Len(s) -> Range(s)]
    BY <1>1 DEF Range
  <1> QED BY <1>1, <1>2, <1>3

\* What is somewhere on its way is nowhere else on it.
LEMMA Apart ==
    ASSUME Inv, NEW w \in Streams, OrderAt(w), NEW x
    PROVE  /\ x \in sending[w] => x \notin Range(queue[w]) \cup Range(ready[w]) \cup Casts(w)
           /\ x \in Range(queue[w]) => x \notin Range(ready[w]) \cup Casts(w)
           /\ x \in Range(ready[w]) => x \notin Casts(w)
  <1> QED BY ItemFields, PassedItems DEF OrderAt, InLine, Before

FeedInv == Inv /\ OrderInv /\ QuietUnlessOpen

\* What the feeds see of a state.
FeedVars == <<toldBar, phaseBar, seesBar, owedBar, sent>>

LEMMA FeedInit == ASSUME Init PROVE Feed!Init
  <1>1. owedBar = [w \in Streams |-> {}]
    BY DEF Init, owedBar
  <1>2. phaseBar = [w \in Streams |-> "new"]
    BY DEF Init, phaseBar
  <1>3. seesBar = [w \in Streams |-> {}]
    BY <1>2 DEF seesBar
  <1>4. toldBar = [d \in Devices |-> [r \in Feed!Rounds |-> 0]]
    BY DEF Init, toldBar, Announced, Rounds, Own, Feed!Rounds, Feed!Own
  <1> QED BY <1>1, <1>2, <1>3, <1>4 DEF Init, Feed!Init

LEMMA AnnouncedAt ==
    ASSUME NEW d \in Devices
    PROVE  /\ Announced(d, Own) = IF d \in storing THEN published[d] - 1 ELSE published[d]
           /\ \A r \in Rounds \ {Own} : Announced(d, r) = echoed[d][r]
  BY DEF Announced

LEMMA PhaseType ==
    ASSUME FeedInv
    PROVE  /\ phaseBar \in [Streams -> {"new", "open", "over"}]
           /\ \A w \in Streams : /\ phaseBar[w] = "open" <=> stream[w] = "open"
                                 /\ stream[w] = "open" => seesBar[w] = allowed[w]
  BY DEF phaseBar, seesBar, FeedInv, Inv, TypeOK

\* One round of one device tells of a newer reading.
LEMMA Tells ==
    ASSUME NEW d \in Devices, NEW r \in Rounds, NEW m, m > Announced(d, r),
           r # Own => \A q \in r + 1..MaxRounds : Announced(d, q) = 0,
           \A e \in Devices, q \in Rounds :
              Announced(e, q)' = IF e = d /\ q = r THEN m ELSE Announced(e, q),
           UNCHANGED <<stream, allowed, sent>>
    PROVE  Feed!Tell(d, r, m)
  <1>1. toldBar' = [toldBar EXCEPT ![d][r] = m]
    BY DEF toldBar
  <1>2. m > toldBar[d][r]
    BY DEF toldBar
  <1>3. UNCHANGED <<phaseBar, seesBar>>
    BY DEF phaseBar, seesBar
  <1>4. ASSUME r # Own, NEW q \in r + 1..MaxRounds PROVE toldBar[d][q] = 0
    <2>1. q \in Rounds
      BY StreamAssumption DEF StreamAssumption, Rounds, Own
    <2> QED BY <1>4, <2>1 DEF toldBar
  <1> QED BY <1>1, <1>2, <1>3, <1>4 DEF Feed!Tell, Feed!Own, Own

\* If moreover the item comes on its way to exactly the recipients, it is
\* announced.
LEMMA Announces ==
    ASSUME FeedInv, NEW d \in Devices, NEW r \in Rounds, NEW m \in 1..MaxReadings,
           Feed!Tell(d, r, m), UNCHANGED <<stream, allowed, sending, queue>>,
           \A w \in Streams :
              Casts(w)' \cup Range(ready'[w])
                = IF w \in Recipients(d) THEN Casts(w) \cup Range(ready[w]) \cup {Item(d, m, r)}
                  ELSE Casts(w) \cup Range(ready[w])
    PROVE  Feed!Announce(d, r, m)
  <1> DEFINE toOwe(w) == IF phaseBar[w] = "open" /\ d \in seesBar[w]
                         THEN owedBar[w] \cup {[device |-> d, n |-> m, round |-> r]}
                         ELSE owedBar[w]
  <1>2. ASSUME NEW w \in Streams PROVE owedBar'[w] = toOwe(w)
    BY PhaseType DEF owedBar, Recipients, Item
  <1>3. owedBar' = [w \in Streams |-> toOwe(w)]
    BY <1>2 DEF owedBar
  <1> QED BY <1>3 DEF Feed!Announce

\* The arrival of a reading begins its walk.
LEMMA OnMessageAnnounces ==
    ASSUME FeedInv, NEW d \in Devices, OnMessage(d)
    PROVE  Feed!Next
  <1>1. PICK m \in 1..MaxReadings :
           /\ casting' = Recipients(d) \X {Item(d, m, round)}
           /\ echoed[d][round] < m /\ echoed' = [echoed EXCEPT ![d][round] = m]
    <2>1. /\ echoed[d][round] \in Nat /\ published[d] \in 0..MaxReadings
      BY StreamAssumption DEF StreamAssumption, FeedInv, Inv, TypeOK
    <2>2. (echoed[d][round] + 1)..published[d] \subseteq {m \in 1..MaxReadings : echoed[d][round] < m}
      BY <2>1, StreamAssumption DEF StreamAssumption
    <2> QED BY <2>2 DEF OnMessage
  <1>2. /\ casting = {}
        /\ UNCHANGED <<published, storing, round, clientVars, ready, queue, sending, sent>>
    BY DEF OnMessage
  <1>3. /\ round \in Rounds \ {Own} /\ round \in Nat /\ Item(d, m, round) \in Items
        /\ echoed[d][round] \in Nat
    BY StreamAssumption DEF Rounds, Own, Item, Items, FeedInv, Inv, TypeOK, StreamAssumption
  <1>4. m > Announced(d, round)
    BY <1>1, <1>3, AnnouncedAt, StreamAssumption DEF StreamAssumption
  <1>5. \A e \in Devices, q \in Rounds :
           Announced(e, q)' = IF e = d /\ q = round THEN m ELSE Announced(e, q)
    BY <1>1, <1>2, <1>3 DEF Announced, FeedInv, Inv, TypeOK
  <1>6. \A q \in round + 1..MaxRounds : Announced(d, q) = 0
    <2> SUFFICES ASSUME NEW q \in round + 1..MaxRounds PROVE Announced(d, q) = 0
      OBVIOUS
    <2>1. q \in Rounds /\ q # Own /\ q > round
      BY <1>3, StreamAssumption DEF StreamAssumption, Rounds, Own
    <2> QED BY <2>1 DEF Announced, FeedInv, Inv, RoundsToCome
  <1>7. Feed!Tell(d, round, m)
    BY <1>2, <1>3, <1>4, <1>5, <1>6, Tells DEF clientVars
  <1>8. \A w \in Streams :
           /\ Casts(w) = {}
           /\ Casts(w)' = IF w \in Recipients(d) THEN {Item(d, m, round)} ELSE {}
    BY <1>1, <1>2, <1>3 DEF Casts
  <1>9. Feed!Announce(d, round, m)
    BY <1>2, <1>3, <1>7, <1>8, Announces DEF clientVars
  <1> QED BY <1>3, <1>9 DEF Feed!Next, Rounds, Own, Feed!Rounds, Feed!Own

\* The end of to_forward: announced if it was stored, withheld if not.
LEMMA ForwardTells ==
    ASSUME FeedInv, NEW d \in Devices, ForwardStored(d) \/ ForwardFails(d)
    PROVE  Feed!Next
  <1>1. /\ d \in storing /\ storing' = storing \ {d}
        /\ UNCHANGED <<published, round, echoed, clientVars, casting, queue, sending, sent>>
    BY DEF ForwardStored, ForwardFails
  <1>2. /\ published[d] \in 1..MaxReadings /\ Own \in Rounds
        /\ Item(d, published[d], Own) \in Items
    BY <1>1, StreamAssumption DEF StreamAssumption, FeedInv, Inv, TypeOK, StoringPublished,
                                  Rounds, Own, Item, Items
  <1>3. published[d] > Announced(d, Own)
    BY <1>1, <1>2, AnnouncedAt
  <1>4. \A e \in Devices, q \in Rounds :
           Announced(e, q)' = IF e = d /\ q = Own THEN published[d] ELSE Announced(e, q)
    BY <1>1 DEF Announced
  <1>5. Feed!Tell(d, Own, published[d])
    BY <1>1, <1>2, <1>3, <1>4, Tells DEF clientVars
  <1>6. \A w \in Streams : Casts(w)' = Casts(w)
    BY <1>1 DEF Casts
  <1>7. CASE ForwardStored(d)
    <2>1. ASSUME NEW w \in Streams
          PROVE  Range(ready'[w]) = IF w \in Recipients(d)
                                    THEN Range(ready[w]) \cup {Item(d, published[d], Own)}
                                    ELSE Range(ready[w])
      <3>1. Range(Append(ready[w], Item(d, published[d], Own)))
               = Range(ready[w]) \cup {Item(d, published[d], Own)}
        BY <1>2, RangeAppend DEF FeedInv, Inv, TypeOK
      <3> QED BY <1>7, <3>1 DEF ForwardStored
    <2>2. Feed!Announce(d, Own, published[d])
      BY <1>1, <1>2, <1>5, <1>6, <2>1, Announces DEF clientVars
    <2> QED BY <1>2, <2>2 DEF Feed!Next, Rounds, Own, Feed!Rounds, Feed!Own
  <1>8. CASE ForwardFails(d)
    <2>1. UNCHANGED owedBar
      BY <1>1, <1>6, <1>8 DEF ForwardFails, clientVars, owedBar
    <2> QED BY <1>2, <1>5, <2>1 DEF Feed!Next, Feed!Withhold, Feed!Own, Own
  <1> QED BY <1>7, <1>8

\* register_ws_queue opens the feed.
LEMMA RegisterOpens ==
    ASSUME FeedInv, NEW w \in Streams, Register(w)
    PROVE  Feed!Open(w)
  <1>1. /\ stream[w] = "listed" /\ stream' = [stream EXCEPT ![w] = "open"]
        /\ UNCHANGED <<sourceVars, allowed, casting, ready, queue, sending, sent>>
    BY DEF Register
  <1>2. phaseBar[w] = "new" /\ phaseBar' = [phaseBar EXCEPT ![w] = "open"]
    BY <1>1 DEF phaseBar, FeedInv, Inv, TypeOK
  <1>3. seesBar' = [seesBar EXCEPT ![w] = allowed[w]]
    BY <1>1, <1>2, PhaseType DEF seesBar
  <1>4. allowed[w] \in SUBSET {d \in Devices : Owner[d] = UserOf[w]}
    BY DEF FeedInv, Inv, TypeOK, AllowedOwned
  <1>5. UNCHANGED <<toldBar, owedBar>>
    <2>1. UNCHANGED toldBar
      BY <1>1 DEF sourceVars, toldBar, Announced
    <2>2. \A v \in Streams : Casts(v)' = Casts(v)
      BY <1>1 DEF Casts
    <2>3. Casts(w) = {} /\ Range(ready[w]) = {} /\ Range(queue[w]) = {} /\ sending[w] = {}
      BY <1>1 DEF FeedInv, QuietUnlessOpen, Range
    <2>4. UNCHANGED owedBar
      BY <1>1, <2>2, <2>3 DEF owedBar, FeedInv, Inv, TypeOK
    <2> QED BY <2>1, <2>4
  <1> QED BY <1>1, <1>2, <1>3, <1>4, <1>5 DEF Feed!Open

\* put_nowait keeps the item, or has a full queue before it.
LEMMA PutForgets ==
    ASSUME FeedInv, NEW w \in Streams, Put(w)
    PROVE  Feed!Next \/ UNCHANGED FeedVars
  <1> DEFINE item == Head(ready[w])
  <1>1. /\ item \in Items /\ Range(ready[w]) = {item} \cup Range(Tail(ready[w]))
        /\ item \notin Range(Tail(ready[w])) /\ item \in Range(ready[w])
    <2>1. Sorted(ready[w]) /\ ready[w] \in Seq(Items) /\ ready[w] # <<>>
      BY PassedItems DEF Put, FeedInv, OrderInv, OrderAt
    <2>2. Before({item}, Range(Tail(ready[w]))) /\ item \in Items
      BY <2>1, SortedTail, RangeTail
    <2> QED BY <2>1, <2>2, ItemFields, RangeTail DEF Before
  <1>2. /\ ready'[w] = Tail(ready[w]) /\ \A v \in Streams \ {w} : ready'[v] = ready[v]
        /\ UNCHANGED <<sourceVars, clientVars, casting, sending, sent>>
    BY DEF Put, FeedInv, Inv, TypeOK
  <1>3. \A v \in Streams : Casts(v)' = Casts(v)
    BY <1>2 DEF Casts
  <1>4. UNCHANGED <<toldBar, phaseBar, seesBar, sent>>
    BY <1>2 DEF sourceVars, clientVars, toldBar, Announced, phaseBar, seesBar
  <1>5. CASE stream[w] = "open" /\ Len(queue[w]) < MaxQueue
    <2>1. /\ queue'[w] = Append(queue[w], item)
          /\ \A v \in Streams \ {w} : queue'[v] = queue[v]
      BY <1>5 DEF Put, FeedInv, Inv, TypeOK
    <2>2. Range(queue'[w]) = Range(queue[w]) \cup {item}
      BY <1>1, <2>1, PassedItems, RangeAppend DEF FeedInv
    <2>3. UNCHANGED owedBar
      BY <1>1, <1>2, <1>3, <2>1, <2>2 DEF owedBar, clientVars
    <2> QED BY <1>4, <2>3 DEF FeedVars
  <1>6. CASE stream[w] # "open"
    BY <1>2, <1>3, <1>4, <1>6 DEF Put, FeedVars, owedBar, clientVars
  <1>7. CASE stream[w] = "open" /\ ~(Len(queue[w]) < MaxQueue)
    <2>1. UNCHANGED queue
      BY <1>7 DEF Put
    <2>2. item \notin Range(queue[w]) \cup sending[w] \cup Casts(w)
      BY <1>1, Apart DEF FeedInv, OrderInv
    <2>3. owedBar[w] = Casts(w) \cup Range(ready[w]) \cup Range(queue[w]) \cup sending[w]
      BY <1>7 DEF owedBar
    <2>4. owedBar' = [owedBar EXCEPT ![w] = @ \ {item}]
      <3>1. owedBar'[w] = owedBar[w] \ {item}
        BY <1>1, <1>2, <1>3, <1>7, <2>1, <2>2, <2>3 DEF owedBar, clientVars
      <3>2. \A v \in Streams \ {w} : owedBar'[v] = owedBar[v]
        BY <1>2, <1>3, <2>1 DEF owedBar, clientVars
      <3> QED BY <3>1, <3>2 DEF owedBar
    <2>5. item \in owedBar[w] /\ Range(queue[w]) \subseteq owedBar[w] \ {item}
      BY <1>1, <2>2, <2>3
    <2>6. Feed!ExistsInjection(1..MaxQueue, owedBar[w] \ {item})
      <3> DEFINE first == [i \in 1..MaxQueue |-> queue[w][i]]
      <3>1. Sorted(queue[w]) /\ queue[w] \in Seq(Items)
        BY PassedItems DEF FeedInv, OrderInv, OrderAt
      <3>2. 1..MaxQueue \subseteq 1..Len(queue[w])
        BY <1>7, <3>1, StreamAssumption DEF StreamAssumption
      <3>3. first \in [1..MaxQueue -> owedBar[w] \ {item}]
        BY <2>5, <3>1, <3>2, SortedInjective
      <3>4. \A i, j \in DOMAIN first : first[i] = first[j] => i = j
        BY <3>1, <3>2, SortedInjective
      <3> HIDE DEF item, first
      <3> QED BY <3>3, <3>4 DEF Feed!ExistsInjection, Feed!Injection, Feed!IsInjective
    <2> HIDE DEF item
    <2>7. Feed!Forget(w, item)
      BY <1>4, <2>4, <2>5, <2>6 DEF Feed!Forget
    <2> QED BY <2>5, <2>7 DEF Feed!Next
  <1> QED BY <1>5, <1>6, <1>7

\* send_text delivers the oldest item, or finds the client gone and closes.
LEMMA SendDelivers ==
    ASSUME FeedInv, NEW w \in Streams, Send(w)
    PROVE  Feed!Next
  <1>1. PICK item : sending[w] = {item}
    <2>1. PICK item \in sending[w] : TRUE
      BY DEF Send
    <2>2. \A x \in sending[w] : x = item
      BY DEF FeedInv, QuietUnlessOpen
    <2> QED BY <2>1, <2>2
  <1>2. stream[w] = "open" /\ item \in Items
    BY <1>1, PassedItems DEF FeedInv, QuietUnlessOpen
  <1>3. /\ sending' = [sending EXCEPT ![w] = {}]
        /\ UNCHANGED <<sourceVars, gone, allowed, casting, ready, queue>>
    BY DEF Send
  <1>4. \A v \in Streams : Casts(v)' = Casts(v)
    BY <1>3 DEF Casts
  <1>5. owedBar[w] = Casts(w) \cup Range(ready[w]) \cup Range(queue[w]) \cup {item}
    BY <1>1, <1>2 DEF owedBar
  <1>6. UNCHANGED toldBar
    BY <1>3 DEF sourceVars, toldBar, Announced
  <1>7. CASE w \notin gone
    <2>1. sent' = [sent EXCEPT ![w] = Append(@, item)] /\ UNCHANGED stream
      BY <1>1, <1>7 DEF Send
    <2>2. UNCHANGED <<phaseBar, seesBar>>
      BY <1>3, <2>1 DEF phaseBar, seesBar
    <2>3. item \notin Casts(w) \cup Range(ready[w]) \cup Range(queue[w])
      BY <1>1, Apart DEF FeedInv, OrderInv
    <2>4. owedBar' = [owedBar EXCEPT ![w] = @ \ {item}]
      <3>1. owedBar'[w] = owedBar[w] \ {item}
        BY <1>2, <1>3, <1>4, <1>5, <2>1, <2>3 DEF owedBar, FeedInv, Inv, TypeOK
      <3>2. \A v \in Streams \ {w} : owedBar'[v] = owedBar[v]
        BY <1>3, <1>4, <2>1 DEF owedBar, FeedInv, Inv, TypeOK
      <3> QED BY <3>1, <3>2 DEF owedBar
    <2>5. ASSUME NEW x \in owedBar[w] \ {item}, Alike(item, x) PROVE Older(item, x)
      BY <1>1, <1>5, <2>5 DEF FeedInv, OrderInv, OrderAt, InLine, Before
    <2>6. Feed!Deliver(w, item)
      BY <1>2, <1>5, <1>6, <2>1, <2>2, <2>4, <2>5, PhaseType
          DEF Feed!Deliver, Feed!Alike, Feed!Older, Feed!Own, Alike, Older, Own
    <2> QED BY <1>5, <2>6 DEF Feed!Next
  <1>8. CASE w \in gone
    <2>1. stream' = [stream EXCEPT ![w] = "ended"] /\ UNCHANGED sent
      BY <1>8 DEF Send
    <2>2. phaseBar[w] = "open" /\ phaseBar' = [phaseBar EXCEPT ![w] = "over"]
      BY <1>2, <2>1 DEF phaseBar, FeedInv, Inv, TypeOK
    <2>3. UNCHANGED seesBar
      BY <1>3, <2>2, PhaseType DEF seesBar
    <2>4. owedBar' = [owedBar EXCEPT ![w] = {}]
      BY <1>3, <1>4, <2>1 DEF owedBar, FeedInv, Inv, TypeOK
    <2>5. Feed!Close(w)
      BY <1>6, <2>1, <2>2, <2>3, <2>4 DEF Feed!Close
    <2> QED BY <2>5 DEF Feed!Next
  <1> QED BY <1>7, <1>8

\* Nothing else shows: neither a walk's next queue nor a coroutine's next item.
LEMMA FeedStutters ==
    ASSUME FeedInv,
           \/ \E w \in Streams : List(w) \/ Leave(w) \/ Cast(w) \/ Take(w)
           \/ \E d \in Devices : Forward(d) \/ UpdateDevice(d)
           \/ Resume
           \/ UNCHANGED vars
    PROVE  UNCHANGED FeedVars
  <1>1. ASSUME NEW w \in Streams, List(w) \/ Leave(w) PROVE UNCHANGED FeedVars
    <2>1. UNCHANGED <<sourceVars, casting, ready, queue, sending, sent>>
      BY <1>1 DEF List, Leave
    <2>2. /\ UNCHANGED phaseBar
          /\ \A v \in Streams : /\ phaseBar[v] # "new" => allowed'[v] = allowed[v]
                                /\ stream'[v] = "open" <=> stream[v] = "open"
      BY <1>1 DEF List, Leave, phaseBar, FeedInv, Inv, TypeOK
    <2>3. UNCHANGED <<toldBar, seesBar>>
      BY <2>1, <2>2 DEF sourceVars, toldBar, Announced, seesBar
    <2>4. UNCHANGED owedBar
      BY <2>1, <2>2 DEF owedBar, Casts
    <2> QED BY <2>1, <2>2, <2>3, <2>4 DEF FeedVars
  <1>2. ASSUME NEW w \in Streams, Cast(w) PROVE UNCHANGED FeedVars
    <2>1. PICK item \in Items :
             /\ <<w, item>> \in casting
             /\ ready' = [ready EXCEPT ![w] = Append(@, item)]
             /\ casting' = casting \ {<<w, item>>}
      BY <1>2 DEF Cast
    <2>2. UNCHANGED <<sourceVars, clientVars, queue, sending, sent>>
      BY <1>2 DEF Cast
    <2>3. Range(ready'[w]) = Range(ready[w]) \cup {item}
      BY <2>1, PassedItems, RangeAppend DEF FeedInv, Inv, TypeOK
    <2>4. /\ Casts(w) = Casts(w)' \cup {item}
          /\ \A v \in Streams \ {w} : Casts(v)' = Casts(v) /\ ready'[v] = ready[v]
      BY <2>1 DEF Casts, FeedInv, Inv, TypeOK
    <2>5. UNCHANGED owedBar
      BY <2>2, <2>3, <2>4 DEF owedBar, clientVars
    <2> QED BY <2>2, <2>5 DEF FeedVars, sourceVars, clientVars, toldBar, Announced, phaseBar, seesBar
  <1>3. ASSUME NEW w \in Streams, Take(w) PROVE UNCHANGED FeedVars
    <2>1. /\ UNCHANGED <<sourceVars, clientVars, casting, ready, sent>>
          /\ sending[w] = {} /\ sending'[w] = {Head(queue[w])} /\ queue'[w] = Tail(queue[w])
          /\ \A v \in Streams \ {w} : sending'[v] = sending[v] /\ queue'[v] = queue[v]
      BY <1>3 DEF Take, FeedInv, Inv, TypeOK
    <2>2. Range(queue[w]) = {Head(queue[w])} \cup Range(Tail(queue[w]))
      BY <1>3, PassedItems, RangeTail DEF Take, FeedInv
    <2>3. UNCHANGED owedBar
      BY <2>1, <2>2 DEF owedBar, Casts, clientVars
    <2> QED BY <2>1, <2>3 DEF FeedVars, sourceVars, clientVars, toldBar, Announced, phaseBar, seesBar
  <1>4. ASSUME NEW d \in Devices, Forward(d) PROVE UNCHANGED FeedVars
    <2>1. /\ UNCHANGED <<round, echoed, clientVars, casting, ready, queue, sending, sent>>
          /\ d \notin storing /\ storing' = storing \cup {d}
          /\ published' = [published EXCEPT ![d] = @ + 1] /\ published[d] \in Nat
      BY <1>4, StreamAssumption DEF Forward, FeedInv, Inv, TypeOK, StreamAssumption
    <2>2. published'[d] - 1 = published[d]
      BY <2>1 DEF FeedInv, Inv, TypeOK
    <2>3. \A e \in Devices, q \in Rounds : Announced(e, q)' = Announced(e, q)
      BY <2>1, <2>2 DEF Announced, FeedInv, Inv, TypeOK
    <2>4. UNCHANGED toldBar
      BY <2>3 DEF toldBar
    <2> QED BY <2>1, <2>4 DEF FeedVars, clientVars, phaseBar, seesBar, owedBar, Casts
  <1>5. ASSUME NEW d \in Devices, UpdateDevice(d) PROVE UNCHANGED FeedVars
    BY <1>5 DEF UpdateDevice, FeedVars, clientVars, toldBar, Announced, phaseBar, seesBar, owedBar,
                Casts
  <1>6. CASE UNCHANGED vars
    BY <1>6 DEF vars, FeedVars, sourceVars, clientVars, toldBar, Announced, phaseBar, seesBar,
                owedBar, Casts
  <1>7. CASE Resume
    BY <1>7 DEF Resume, FeedVars, clientVars, toldBar, Announced, phaseBar, seesBar, owedBar, Casts
  <1> QED BY <1>1, <1>2, <1>3, <1>4, <1>5, <1>6, <1>7

LEMMA FeedNext ==
    ASSUME FeedInv, [Next]_vars
    PROVE  Feed!Next \/ UNCHANGED FeedVars
  <1>1. ASSUME NEW w \in Streams, Register(w) PROVE Feed!Next
    BY <1>1, RegisterOpens DEF Feed!Next
  <1> QED BY <1>1, ForwardTells, OnMessageAnnounces, PutForgets, SendDelivers, FeedStutters DEF Next

\* The stream, with its walks, scheduled calls, queues and coroutines, shows its
\* clients what feeds would: a reading is owed at once to all who may see it and
\* are connected, delivered in order, and lost only to a full queue or an end.
THEOREM ImplementsFeed == Spec => FeedSpec
  <1>1. Init => Feed!Init /\ OrderInv /\ QuietUnlessOpen
    BY FeedInit, InitOrder DEF Init, QuietUnlessOpen, Casts
  <1>2. Inv /\ Inv' /\ OrderInv /\ QuietUnlessOpen /\ [Next]_vars
           => OrderInv' /\ QuietUnlessOpen'
    BY OrderKept, QuietKept
  <1>3. Inv /\ OrderInv /\ QuietUnlessOpen /\ [Next]_vars => [Feed!Next]_FeedVars
    BY FeedNext DEF FeedInv
  <1> QED BY <1>1, <1>2, <1>3, Invariance, PTL DEF Spec, FeedSpec, Feed!Spec, Feed!vars, FeedVars

\* The feeds promise enough: by themselves they keep what a client gets in
\* order and of its own devices.  What is owed is newer than what was got.
FeedOK ==
    /\ toldBar \in [Devices -> [Rounds -> Nat]]
    /\ sent \in [Streams -> Seq(Items)]
    /\ \A w \in Streams :
          /\ \A d \in seesBar[w] : Owner[d] = UserOf[w]
          /\ owedBar[w] \subseteq Items
          /\ \A x \in owedBar[w] \cup Range(sent[w]) :
                Owner[x.device] = UserOf[w] /\ x.n <= toldBar[x.device][x.round]
          /\ Before(Range(sent[w]), owedBar[w])
          /\ Sorted(sent[w])

\* What is announced is news to everybody.
LEMMA TellKeeps ==
    ASSUME FeedOK, NEW d \in Devices, NEW r \in Rounds, NEW m \in 1..MaxReadings,
           Feed!Tell(d, r, m), UNCHANGED owedBar \/ Feed!Announce(d, r, m)
    PROVE  FeedOK'
  <1> DEFINE item == [device |-> d, n |-> m, round |-> r]
  <1>1. /\ toldBar' = [toldBar EXCEPT ![d][r] = m] /\ UNCHANGED <<seesBar, sent>>
        /\ m > toldBar[d][r]
    BY DEF Feed!Tell
  <1>2. item \in Items /\ m \in Nat /\ item.device = d /\ item.n = m /\ item.round = r
    BY StreamAssumption DEF Items
  <1>3. toldBar' \in [Devices -> [Rounds -> Nat]]
    BY <1>1, <1>2 DEF FeedOK
  <1>4. ASSUME NEW x \in Items, x.n <= toldBar[x.device][x.round]
        PROVE  /\ x.n <= toldBar'[x.device][x.round]
               /\ Alike(x, item) => Older(x, item)
    <2>1. /\ x.device \in Devices /\ x.round \in Rounds /\ x.n \in Nat \ {0}
          /\ x.round \in Nat /\ r \in Nat /\ MaxRounds \in Nat /\ Rounds = 0..MaxRounds
      BY ItemFields, StreamAssumption DEF StreamAssumption, Rounds, Own
    <2>2. toldBar[x.device][x.round] \in Nat
      BY <2>1 DEF FeedOK
    <2>3. CASE x.device = d /\ x.round = r
      BY <1>1, <1>2, <1>4, <2>1, <2>2, <2>3 DEF FeedOK, Older
    <2>4. CASE ~(x.device = d /\ x.round = r)
      <3>1. x.n <= toldBar'[x.device][x.round]
        BY <1>1, <1>4, <2>1, <2>4 DEF FeedOK
      <3>2. ASSUME Alike(x, item) PROVE x.round < r
        <4>1. x.device = d /\ x.round # Own /\ r # Own /\ x.round # r
          BY <1>2, <2>4, <3>2 DEF Alike
        <4>2. \A q \in r + 1..MaxRounds : toldBar[d][q] = 0
          BY <4>1 DEF Feed!Tell, Feed!Own, Own
        <4> QED BY <1>4, <2>1, <4>1, <4>2
      <3> QED BY <1>2, <3>1, <3>2 DEF Older
    <2> QED BY <2>3, <2>4
  <1>5. ASSUME NEW w \in Streams
        PROVE  \/ owedBar'[w] = owedBar[w]
               \/ d \in seesBar[w] /\ owedBar'[w] = owedBar[w] \cup {item}
    BY DEF Feed!Announce
  <1>6. ASSUME NEW w \in Streams
        PROVE  /\ owedBar'[w] \subseteq Items
               /\ \A x \in owedBar'[w] \cup Range(sent[w]) :
                     Owner[x.device] = UserOf[w] /\ x.n <= toldBar'[x.device][x.round]
               /\ Before(Range(sent[w]), owedBar'[w])
    <2>1. /\ Range(sent[w]) \subseteq Items /\ owedBar[w] \subseteq Items
          /\ \A x \in owedBar[w] \cup Range(sent[w]) :
                Owner[x.device] = UserOf[w] /\ x.n <= toldBar[x.device][x.round]
      <3>1. sent[w] \in Seq(Items)
        BY DEF FeedOK
      <3>2. Range(sent[w]) \subseteq Items
        BY <3>1 DEF Range
      <3> QED BY <3>2 DEF FeedOK
    <2>2. item.n <= toldBar'[item.device][item.round]
      BY <1>1, <1>2 DEF FeedOK
    <2>3. /\ \A x \in owedBar[w] \cup Range(sent[w]) : x.n <= toldBar'[x.device][x.round]
          /\ Before(Range(sent[w]), {item}) /\ Before(Range(sent[w]), owedBar[w])
      BY <1>2, <1>4, <2>1 DEF FeedOK, Before
    <2>4. CASE owedBar'[w] = owedBar[w]
      BY <2>1, <2>3, <2>4
    <2>5. CASE d \in seesBar[w] /\ owedBar'[w] = owedBar[w] \cup {item}
      <3>1. Owner[item.device] = UserOf[w]
        BY <1>2, <2>5 DEF FeedOK
      <3>2. Before(Range(sent[w]), owedBar'[w])
        BY <2>3, <2>5 DEF Before
      <3> HIDE DEF item
      <3> QED BY <1>2, <2>1, <2>2, <2>3, <2>5, <3>1, <3>2
    <2> QED BY <1>5, <2>4, <2>5
  <1> QED BY <1>1, <1>3, <1>6 DEF FeedOK

\* An item that is delivered is the oldest of its way that is owed.
LEMMA DeliverKeeps ==
    ASSUME FeedOK, NEW w \in Streams, NEW item \in owedBar[w], Feed!Deliver(w, item)
    PROVE  FeedOK'
  <1>1. /\ owedBar' = [owedBar EXCEPT ![w] = @ \ {item}]
        /\ sent' = [sent EXCEPT ![w] = Append(@, item)]
        /\ UNCHANGED <<toldBar, seesBar>>
        /\ \A x \in owedBar[w] \ {item} : Alike(item, x) => Older(item, x)
    BY DEF Feed!Deliver, Feed!Alike, Feed!Older, Feed!Own, Alike, Older, Own
  <1>2. item \in Items /\ sent[w] \in Seq(Items) /\ owedBar[w] \subseteq Items
    BY DEF FeedOK
  <1>3. /\ Append(sent[w], item) \in Seq(Items)
        /\ Range(Append(sent[w], item)) = Range(sent[w]) \cup {item}
    BY <1>2, RangeAppend
  <1>4. Sorted(Append(sent[w], item))
    BY <1>2, SortedAppend DEF FeedOK, Before
  <1>5. Before({item}, owedBar[w] \ {item})
    BY <1>1 DEF Before
  <1>6. ASSUME NEW v \in Streams
        PROVE  /\ v = w => owedBar'[v] = owedBar[v] \ {item} /\ sent'[v] = Append(sent[v], item)
               /\ v # w => owedBar'[v] = owedBar[v] /\ sent'[v] = sent[v]
    <2>1. owedBar \in [Streams -> {owedBar[u] : u \in Streams}]
      BY DEF owedBar
    <2> QED BY <1>1, <2>1 DEF FeedOK
  <1>7. sent' \in [Streams -> Seq(Items)]
    BY <1>1, <1>3 DEF FeedOK
  <1>8. ASSUME NEW v \in Streams
        PROVE  /\ owedBar'[v] \subseteq Items
               /\ \A x \in owedBar'[v] \cup Range(sent'[v]) :
                     Owner[x.device] = UserOf[v] /\ x.n <= toldBar[x.device][x.round]
               /\ Before(Range(sent'[v]), owedBar'[v])
               /\ Sorted(sent'[v])
    <2>1. CASE v = w
      <3>1. /\ Range(sent'[v]) = Range(sent[v]) \cup {item} /\ Sorted(sent'[v])
            /\ owedBar'[v] = owedBar[v] \ {item}
        BY <1>3, <1>4, <1>6, <2>1
      <3>2. Before(Range(sent[v]) \cup {item}, owedBar[v] \ {item})
        BY <1>5, <2>1 DEF FeedOK, Before
      <3> QED BY <2>1, <3>1, <3>2 DEF FeedOK
    <2>2. CASE v # w
      BY <1>6, <2>2 DEF FeedOK
    <2> QED BY <2>1, <2>2
  <1> QED BY <1>1, <1>7, <1>8 DEF FeedOK

\* A feed's opening, its end, and what it forgets only take away.
LEMMA OthersKeepFeeds ==
    ASSUME FeedOK, NEW w \in Streams,
           Feed!Open(w) \/ Feed!Close(w) \/ \E item \in owedBar[w] : Feed!Forget(w, item)
    PROVE  FeedOK'
  <1>1. UNCHANGED <<toldBar, sent>>
    BY DEF Feed!Open, Feed!Close, Feed!Forget
  <1>2. \A v \in Streams : owedBar'[v] \subseteq owedBar[v]
    <2>1. owedBar \in [Streams -> {owedBar[v] : v \in Streams}]
      BY DEF owedBar
    <2> QED BY <2>1 DEF Feed!Open, Feed!Close, Feed!Forget
  <1>3. \A v \in Streams : \A d \in seesBar'[v] : Owner[d] = UserOf[v]
    <2>1. seesBar \in [Streams -> {seesBar[v] : v \in Streams}]
      BY DEF seesBar
    <2> QED BY <2>1 DEF FeedOK, Feed!Open, Feed!Close, Feed!Forget
  <1> QED BY <1>1, <1>2, <1>3 DEF FeedOK, Before

THEOREM FeedSuffices ==
    FeedSpec => [](/\ SentInOrder
                   /\ \A w \in Streams : \A x \in Range(sent[w]) : Owner[x.device] = UserOf[w])
  <1> DEFINE Kept == /\ SentInOrder
                     /\ \A w \in Streams : \A x \in Range(sent[w]) : Owner[x.device] = UserOf[w]
  <1>1. Feed!Init => FeedOK
    BY DEF Feed!Init, Feed!Rounds, Rounds, Feed!Own, Own, FeedOK, Before, Sorted, Range
  <1>2. FeedOK /\ [Feed!Next]_FeedVars => FeedOK'
    <2>1. FeedOK /\ UNCHANGED FeedVars => FeedOK'
      BY DEF FeedVars, FeedOK, Before, Sorted
    <2>2. ASSUME FeedOK, NEW w \in Streams,
                 \/ Feed!Open(w) \/ Feed!Close(w)
                 \/ \E item \in owedBar[w] : Feed!Deliver(w, item) \/ Feed!Forget(w, item)
          PROVE  FeedOK'
      BY <2>2, OthersKeepFeeds, DeliverKeeps
    <2>3. ASSUME FeedOK, NEW d \in Devices, NEW m \in 1..MaxReadings,
                 (\E r \in Rounds : Feed!Announce(d, r, m)) \/ Feed!Withhold(d, m)
          PROVE  FeedOK'
      <3>1. CASE \E r \in Rounds : Feed!Announce(d, r, m)
        BY <2>3, <3>1, TellKeeps DEF Feed!Announce
      <3>2. CASE Feed!Withhold(d, m)
        BY <2>3, <3>2, TellKeeps, StreamAssumption
          DEF StreamAssumption, Feed!Withhold, Feed!Own, Own, Rounds
      <3> QED BY <2>3, <3>1, <3>2
    <2> QED BY <2>1, <2>2, <2>3 DEF Feed!Next, Feed!Rounds, Rounds, Feed!Own, Own
  <1>3. FeedOK => Kept
    BY DEF FeedOK, Sorted, SentInOrder
  <1> QED BY <1>1, <1>2, <1>3, PTL DEF FeedSpec, Feed!Spec, Feed!vars, FeedVars
=============================================================================
