-------------------------- MODULE PlcHealthProofs --------------------------
(***************************************************************************)
(* The lock, the cache and the answers of check_plc, for any number of     *)
(* requests and PLCs, any TTL and any run of the clock.                    *)
(***************************************************************************)
EXTENDS PlcHealth, TLAPS

\* A sequence with one element more at its end, and one less at its front.
LEMMA Appended ==
    ASSUME NEW S, NEW q \in Seq(S), NEW x \in S
    PROVE  /\ Append(q, x) \in Seq(S) /\ Len(Append(q, x)) = Len(q) + 1 /\ Len(q) \in Nat
           /\ \A i \in 1..Len(q) : Append(q, x)[i] = q[i]
           /\ Append(q, x)[Len(q) + 1] = x
  OBVIOUS

\* The first of a queue is gone, the others are one place further.
LEMMA Behead ==
    ASSUME NEW S, NEW q \in Seq(S), q # <<>>
    PROVE  /\ Tail(q) \in Seq(S) /\ Len(Tail(q)) = Len(q) - 1 /\ Len(q) \in Nat \ {0}
           /\ \A i \in 1..Len(Tail(q)) : Tail(q)[i] = q[i + 1]
           /\ Head(q) = q[1] /\ Head(q) \in S
  OBVIOUS

\* Of the requests that wait for a PLC each has one place in its queue, and
\* who came earlier is further ahead.
QueueInv(p) ==
    /\ \A i \in 1..Len(queue[p]) : pc[queue[p][i]] = "waiting" /\ PlcOf[queue[p][i]] = p
    /\ \A i, j \in 1..Len(queue[p]) : queue[p][i] = queue[p][j] => i = j
    /\ \A i, j \in 1..Len(queue[p]) : i <= j => arrived[queue[p][i]] <= arrived[queue[p][j]]

AllQueued ==
    \A r \in Requests :
        pc[r] = "waiting" => \E i \in 1..Len(queue[PlcOf[r]]) : queue[PlcOf[r]][i] = r

\* The lock is held by whoever probes, and by nobody else.
LockInv ==
    /\ \A p \in Plcs : \A r \in Requests :
          r \in holder[p] <=> pc[r] = "probing" /\ PlcOf[r] = p
    /\ \A p \in Plcs : \A r, s \in holder[p] : r = s

\* There is at most one entry to answer with.
CacheInv ==
    /\ \A p \in Plcs : \A e, f \in cache[p] : e = f
    /\ \A r \in Requests : \A e, f \in seen[r] : e = f

\* An answer is given once, after the request has come.
AnswerInv ==
    /\ \A r \in Requests : pc[r] # "done" => answer[r] = {}
    /\ \A r \in Requests : arrived[r] <= now
    /\ AnswerIsOwnOrRecent

Inv ==
    /\ TypeOK
    /\ \A p \in Plcs : QueueInv(p)
    /\ AllQueued /\ LockInv /\ CacheInv /\ AnswerInv

-----------------------------------------------------------------------------

\* No request, no entry, and every lock free.
LEMMA Initial == Init => Inv
<1> SUFFICES ASSUME Init PROVE Inv
  OBVIOUS
<1> USE HealthAssumption DEF Init
<1>1. TypeOK
  BY DEF TypeOK, Places
<1>2. \A p \in Plcs : QueueInv(p)
  BY DEF QueueInv
<1>3. AllQueued /\ LockInv /\ CacheInv /\ AnswerInv
  BY DEF AllQueued, LockInv, CacheInv, AnswerInv, AnswerIsOwnOrRecent
<1> QED
  BY <1>1, <1>2, <1>3 DEF Inv

\* What is answered from an entry that can be used is recent.
LEMMA Replied ==
    ASSUME Inv, NEW r \in Requests, NEW c \in SUBSET Entries, \A e, f \in c : e = f,
           Reply(r, c)
    PROVE  /\ answer' \in [Requests -> SUBSET Answers]
           /\ pc' \in [Requests -> Places] /\ pc'[r] = "done"
           /\ \A s \in Requests : s # r => pc'[s] = pc[s] /\ answer'[s] = answer[s]
           /\ \A a \in answer'[r] : a.entry \in c /\ a.at = now
           /\ Usable(r, c) => r \notin Forced /\ \A a \in answer'[r] : a.at < a.entry.ended + TTL
<1>1. /\ answer \in [Requests -> SUBSET Answers] /\ pc \in [Requests -> Places] /\ now \in 0..MaxTime
  BY DEF Inv, TypeOK
<1>2. \A e \in c : [entry |-> e, at |-> now] \in Answers
  BY <1>1 DEF Answers
<1>3. /\ answer' \in [Requests -> SUBSET Answers]
      /\ answer'[r] = {[entry |-> e, at |-> now] : e \in c}
      /\ \A s \in Requests : s # r => answer'[s] = answer[s]
  BY <1>1, <1>2 DEF Reply
<1>4. /\ pc' \in [Requests -> Places] /\ pc'[r] = "done"
      /\ \A s \in Requests : s # r => pc'[s] = pc[s]
  BY <1>1 DEF Reply, Places
<1>5. \A a \in answer'[r] : a.entry \in c /\ a.at = now
  BY <1>3
<1>6. ASSUME Usable(r, c)
      PROVE  r \notin Forced /\ \A a \in answer'[r] : a.at < a.entry.ended + TTL
  BY <1>5, <1>6 DEF Usable, Fresh
<1> QED
  BY <1>3, <1>4, <1>5, <1>6

\* The queues stay as they are when nobody begins or ceases to wait.
LEMMA QueuesStay ==
    ASSUME Inv, UNCHANGED queue,
           \A r \in Requests : pc[r] = "waiting" <=> pc'[r] = "waiting",
           \A r \in Requests : pc[r] = "waiting" => arrived'[r] = arrived[r]
    PROVE  (\A p \in Plcs : QueueInv(p)') /\ AllQueued'
<1>1. ASSUME NEW p \in Plcs
      PROVE  QueueInv(p)'
  <2>1. \A i \in 1..Len(queue[p]) : queue[p][i] \in Requests
    BY DEF Inv, TypeOK
  <2> QED
    BY <2>1 DEF Inv, QueueInv
<1> QED
  BY <1>1 DEF Inv, AllQueued

\* Before the lock: a request reads its row,
LEMMA LoadKeeps ==
    ASSUME Inv, NEW r \in Requests, Load(r)
    PROVE  Inv'
<1> USE HealthAssumption DEF Load
<1>1. TypeOK'
  BY DEF Inv, TypeOK, Places
<1>2. \A s \in Requests : pc'[s] = IF s = r THEN "loaded" ELSE pc[s]
  BY DEF Inv, TypeOK
<1>3. \A s \in Requests : s # r => plc'[s] = plc[s]
  BY DEF Inv, TypeOK
<1>4. (\A p \in Plcs : QueueInv(p)') /\ AllQueued'
  BY <1>2, QueuesStay
<1>5. LockInv' /\ CacheInv'
  BY <1>2 DEF Inv, LockInv, CacheInv
<1>6. AnswerInv'
  BY <1>2, <1>3 DEF Inv, AnswerInv, AnswerIsOwnOrRecent
<1> QED
  BY <1>1, <1>4, <1>5, <1>6 DEF Inv

\* finds an answer in the cache,
LEMMA AnswerFromCacheKeeps ==
    ASSUME Inv, NEW r \in Requests, AnswerFromCache(r)
    PROVE  Inv'
<1> DEFINE c == cache[PlcOf[r]]
<1>0. PlcOf[r] \in Plcs /\ pc[r] = "loaded" /\ Usable(r, c) /\ Reply(r, c)
  BY HealthAssumption DEF AnswerFromCache
<1>1. c \in SUBSET Entries /\ \A e, f \in c : e = f
  BY <1>0 DEF Inv, TypeOK, CacheInv
<1>2. /\ answer' \in [Requests -> SUBSET Answers]
      /\ pc' \in [Requests -> Places] /\ pc'[r] = "done"
      /\ \A s \in Requests : s # r => pc'[s] = pc[s] /\ answer'[s] = answer[s]
      /\ r \notin Forced /\ \A a \in answer'[r] : a.at < a.entry.ended + TTL
  BY <1>0, <1>1, Replied
<1>3. /\ arrived' \in [Requests -> 0..MaxTime] /\ arrived'[r] = now
      /\ \A s \in Requests : s # r => arrived'[s] = arrived[s]
      /\ UNCHANGED <<now, version, plc, seen, cache, holder, queue>>
  BY DEF AnswerFromCache, Inv, TypeOK
<1> HIDE DEF c
<1>4. TypeOK'
  BY <1>2, <1>3 DEF Inv, TypeOK
<1>5. (\A p \in Plcs : QueueInv(p)') /\ AllQueued'
  BY <1>0, <1>2, <1>3, QueuesStay
<1>6. LockInv' /\ CacheInv'
  BY <1>0, <1>2, <1>3 DEF Inv, LockInv, CacheInv
<1>7. AnswerInv'
  <2>1. now \in Nat
    BY DEF Inv, TypeOK
  <2> QED
    BY <1>2, <1>3, <2>1 DEF Inv, AnswerInv, AnswerIsOwnOrRecent
<1> QED
  BY <1>4, <1>5, <1>6, <1>7 DEF Inv

\* With the lock in hand a request answers or probes; its answer is as it
\* should be, whichever entry it looks at.
LEMMA UnderLockKeeps ==
    ASSUME Inv, NEW r \in Requests, pc[r] \in {"loaded", "waiting"}, holder[PlcOf[r]] = {},
           NEW c \in SUBSET Entries, \A e, f \in c : e = f,
           UnderLock(r, c),
           UNCHANGED <<now, version, plc, cache>>,
           seen' \in [Requests -> SUBSET Entries],
           \A s \in Requests : seen'[s] = seen[s] \/ seen'[s] = {},
           queue' \in [Plcs -> Seq(Requests)],
           arrived' \in [Requests -> 0..MaxTime],
           \A s \in Requests : s # r => arrived'[s] = arrived[s],
           arrived'[r] <= now
    PROVE  /\ TypeOK' /\ LockInv' /\ CacheInv' /\ AnswerInv'
           /\ pc'[r] \in {"done", "probing"}
           /\ \A s \in Requests : s # r => pc'[s] = pc[s]
<1>0. PlcOf[r] \in Plcs
  BY HealthAssumption
<1>a. CacheInv'
  BY DEF Inv, CacheInv
<1>1. CASE Usable(r, c) /\ Reply(r, c) /\ UNCHANGED holder
  <2>1. /\ answer' \in [Requests -> SUBSET Answers]
        /\ pc' \in [Requests -> Places] /\ pc'[r] = "done"
        /\ \A s \in Requests : s # r => pc'[s] = pc[s] /\ answer'[s] = answer[s]
        /\ r \notin Forced /\ \A a \in answer'[r] : a.at < a.entry.ended + TTL
    BY <1>1, Replied
  <2>2. TypeOK'
    BY <1>1, <2>1 DEF Inv, TypeOK
  <2>3. LockInv'
    BY <1>1, <2>1 DEF Inv, LockInv
  <2>4. AnswerInv'
    BY <2>1 DEF Inv, AnswerInv, AnswerIsOwnOrRecent
  <2> QED
    BY <1>a, <2>1, <2>2, <2>3, <2>4
<1>2. CASE /\ pc' = [pc EXCEPT ![r] = "probing"]
           /\ holder' = [holder EXCEPT ![PlcOf[r]] = {r}]
           /\ UNCHANGED answer
  <2>1. /\ pc' \in [Requests -> Places] /\ pc'[r] = "probing"
        /\ \A s \in Requests : s # r => pc'[s] = pc[s]
    BY <1>2 DEF Inv, TypeOK, Places
  <2>2. /\ holder' \in [Plcs -> SUBSET Requests] /\ holder'[PlcOf[r]] = {r}
        /\ \A p \in Plcs : p # PlcOf[r] => holder'[p] = holder[p]
    BY <1>0, <1>2 DEF Inv, TypeOK
  <2>3. TypeOK'
    BY <1>2, <2>1, <2>2 DEF Inv, TypeOK
  <2>4. LockInv'
    <3>1. ASSUME NEW p \in Plcs, NEW s \in Requests
          PROVE  s \in holder'[p] <=> pc'[s] = "probing" /\ PlcOf[s] = p
      <4>1. s \in holder[p] <=> pc[s] = "probing" /\ PlcOf[s] = p
        BY DEF Inv, LockInv
      <4>2. CASE p = PlcOf[r]
        BY <2>1, <2>2, <4>1, <4>2
      <4>3. CASE p # PlcOf[r]
        BY <2>1, <2>2, <4>1, <4>3
      <4> QED
        BY <4>2, <4>3
    <3>2. \A p \in Plcs : \A q, s \in holder'[p] : q = s
      BY <2>2 DEF Inv, LockInv
    <3> QED
      BY <3>1, <3>2 DEF LockInv
  <2>5. AnswerInv'
    BY <1>2, <2>1 DEF Inv, AnswerInv, AnswerIsOwnOrRecent
  <2> QED
    BY <1>a, <2>1, <2>3, <2>4, <2>5
<1> QED
  BY <1>1, <1>2 DEF UnderLock

\* or goes for the lock: it takes it, or joins the end of the queue.
LEMMA EnterKeeps ==
    ASSUME Inv, NEW r \in Requests, Enter(r)
    PROVE  Inv'
<1> DEFINE p == PlcOf[r]
<1>0. /\ p \in Plcs /\ pc[r] = "loaded" /\ cache[p] \in SUBSET Entries
      /\ \A e, f \in cache[p] : e = f
  BY HealthAssumption DEF Enter, Inv, TypeOK, CacheInv
<1>1. /\ arrived' \in [Requests -> 0..MaxTime] /\ arrived'[r] = now
      /\ \A s \in Requests : s # r => arrived'[s] = arrived[s]
      /\ UNCHANGED <<now, version, plc, cache>> /\ now \in Nat
  BY DEF Enter, Inv, TypeOK
<1>2. CASE /\ holder[p] = {} /\ UnderLock(r, cache[p]) /\ UNCHANGED <<seen, queue>>
  <2>1. /\ seen' \in [Requests -> SUBSET Entries] /\ queue' \in [Plcs -> Seq(Requests)]
        /\ \A s \in Requests : seen'[s] = seen[s] \/ seen'[s] = {}
        /\ arrived'[r] <= now /\ pc[r] \in {"loaded", "waiting"}
    BY <1>0, <1>1, <1>2 DEF Inv, TypeOK
  <2>2. /\ TypeOK' /\ LockInv' /\ CacheInv' /\ AnswerInv'
        /\ pc'[r] \in {"done", "probing"}
        /\ \A s \in Requests : s # r => pc'[s] = pc[s]
    BY <1>0, <1>1, <1>2, <2>1, UnderLockKeeps
  <2>3. (\A k \in Plcs : QueueInv(k)') /\ AllQueued'
    BY <1>0, <1>1, <1>2, <2>2, QueuesStay
  <2> QED
    BY <2>2, <2>3 DEF Inv
<1>3. CASE /\ seen' = [seen EXCEPT ![r] = cache[p]]
           /\ queue' = [queue EXCEPT ![p] = Append(@, r)]
           /\ pc' = [pc EXCEPT ![r] = "waiting"]
           /\ UNCHANGED <<holder, answer>>
  <2>1. /\ pc' \in [Requests -> Places] /\ pc'[r] = "waiting"
        /\ \A s \in Requests : s # r => pc'[s] = pc[s]
    BY <1>3 DEF Inv, TypeOK, Places
  <2>2. queue[p] \in Seq(Requests)
    BY <1>0 DEF Inv, TypeOK
  <2>3. /\ queue' \in [Plcs -> Seq(Requests)]
        /\ Len(queue'[p]) = Len(queue[p]) + 1 /\ Len(queue[p]) \in Nat
        /\ \A i \in 1..Len(queue[p]) : queue'[p][i] = queue[p][i]
        /\ queue'[p][Len(queue[p]) + 1] = r
        /\ \A k \in Plcs : k # p => queue'[k] = queue[k]
    <3>1. queue' \in [Plcs -> Seq(Requests)] /\ queue'[p] = Append(queue[p], r)
      BY <1>0, <1>3, <2>2, Appended DEF Inv, TypeOK
    <3>2. \A k \in Plcs : k # p => queue'[k] = queue[k]
      BY <1>3 DEF Inv, TypeOK
    <3> QED
      BY <2>2, <3>1, <3>2, Appended
  <2>4. TypeOK'
    BY <1>0, <1>1, <1>3, <2>1, <2>3 DEF Inv, TypeOK
  <2>5. LockInv' /\ CacheInv'
    <3>1. \A s \in Requests : seen'[s] = IF s = r THEN cache[p] ELSE seen[s]
      BY <1>3 DEF Inv, TypeOK
    <3> QED
      BY <1>0, <1>1, <1>3, <2>1, <3>1 DEF Inv, LockInv, CacheInv
  <2>6. AnswerInv'
    BY <1>0, <1>1, <1>3, <2>1 DEF Inv, AnswerInv, AnswerIsOwnOrRecent
  <2> HIDE DEF p
  <2>7. QueueInv(p)'
    <3>1. \A i \in 1..Len(queue[p]) : /\ queue[p][i] \in Requests /\ queue[p][i] # r
                                       /\ pc[queue[p][i]] = "waiting" /\ PlcOf[queue[p][i]] = p
      BY <1>0, <2>2 DEF Inv, QueueInv
    <3>2. \A i \in 1..Len(queue'[p]) :
             \/ i \in 1..Len(queue[p]) /\ queue'[p][i] = queue[p][i]
             \/ i = Len(queue[p]) + 1 /\ queue'[p][i] = r
      BY <2>3
    <3>3. \A i \in 1..Len(queue'[p]) : pc'[queue'[p][i]] = "waiting" /\ PlcOf[queue'[p][i]] = p
      BY <2>1, <3>1, <3>2 DEF p
    <3>4. \A i, j \in 1..Len(queue'[p]) : queue'[p][i] = queue'[p][j] => i = j
      <4>1. \A i, j \in 1..Len(queue[p]) : queue[p][i] = queue[p][j] => i = j
        BY <1>0 DEF Inv, QueueInv
      <4> QED
        BY <3>1, <3>2, <4>1
    <3>5. ASSUME NEW i \in 1..Len(queue'[p]), NEW j \in 1..Len(queue'[p]), i <= j
          PROVE  arrived'[queue'[p][i]] <= arrived'[queue'[p][j]]
      <4>1. CASE i \in 1..Len(queue[p]) /\ j \in 1..Len(queue[p])
        <5>1. arrived[queue[p][i]] <= arrived[queue[p][j]]
          BY <1>0, <3>5, <4>1 DEF Inv, QueueInv
        <5> QED
          BY <1>1, <2>3, <3>1, <4>1, <5>1
      <4>2. CASE j = Len(queue[p]) + 1
        <5>1. \A s \in Requests : arrived'[s] <= now
          BY <1>1 DEF Inv, AnswerInv
        <5>2. queue'[p][i] \in Requests
          BY <3>1, <3>2
        <5> QED
          BY <1>1, <2>3, <4>2, <5>1, <5>2
      <4> QED
        BY <2>3, <3>2, <3>5, <4>1, <4>2
    <3> QED
      BY <3>3, <3>4, <3>5 DEF QueueInv
  <2>8. ASSUME NEW k \in Plcs, k # p
        PROVE  QueueInv(k)'
    <3>1. queue[k] \in Seq(Requests) /\ QueueInv(k) /\ queue'[k] = queue[k]
      BY <2>3, <2>8 DEF Inv, TypeOK
    <3>2. \A i \in 1..Len(queue[k]) : queue[k][i] \in Requests /\ queue[k][i] # r
      BY <1>0, <3>1 DEF QueueInv
    <3>3. \A i \in 1..Len(queue[k]) : /\ pc'[queue[k][i]] = pc[queue[k][i]]
                                       /\ arrived'[queue[k][i]] = arrived[queue[k][i]]
      BY <1>1, <2>1, <3>2
    <3> QED
      BY <3>1, <3>3 DEF QueueInv
  <2>9. AllQueued'
    <3>1. ASSUME NEW s \in Requests, pc'[s] = "waiting"
          PROVE  \E i \in 1..Len(queue'[PlcOf[s]]) : queue'[PlcOf[s]][i] = s
      <4>1. CASE s = r
        BY <2>3, <4>1 DEF p
      <4>2. CASE s # r
        <5>1. PICK i \in 1..Len(queue[PlcOf[s]]) : queue[PlcOf[s]][i] = s
          BY <2>1, <3>1, <4>2 DEF Inv, AllQueued
        <5>2. PlcOf[s] \in Plcs
          BY HealthAssumption
        <5>3. i \in 1..Len(queue'[PlcOf[s]]) /\ queue'[PlcOf[s]][i] = s
          BY <2>3, <5>1, <5>2
        <5> QED
          BY <5>3
      <4> QED
        BY <4>1, <4>2
    <3> QED
      BY <3>1 DEF AllQueued
  <2> QED
    BY <2>4, <2>5, <2>6, <2>7, <2>8, <2>9 DEF Inv
<1> QED
  BY <1>2, <1>3 DEF Enter

\* The first of the queue leaves it for the lock; the others move up.
LEMMA TakeLockKeeps ==
    ASSUME Inv, NEW p \in Plcs, TakeLock(p)
    PROVE  Inv'
<1> DEFINE r == Head(queue[p])
<1>0. queue[p] \in Seq(Requests) /\ queue[p] # <<>> /\ QueueInv(p)
  BY DEF TakeLock, Inv, TypeOK
<1>1. /\ r \in Requests /\ r = queue[p][1] /\ 1 \in 1..Len(queue[p])
      /\ Len(queue[p]) \in Nat \ {0}
  BY <1>0, Behead
<1>2. pc[r] = "waiting" /\ PlcOf[r] = p
  BY <1>0, <1>1 DEF QueueInv
<1>3. /\ queue' \in [Plcs -> Seq(Requests)]
      /\ Len(queue'[p]) = Len(queue[p]) - 1
      /\ \A i \in 1..Len(queue'[p]) : queue'[p][i] = queue[p][i + 1]
      /\ \A k \in Plcs : k # p => queue'[k] = queue[k]
  <2>1. Tail(queue[p]) \in Seq(Requests)
    BY <1>0, Behead
  <2>2. /\ queue' \in [Plcs -> Seq(Requests)] /\ queue'[p] = Tail(queue[p])
        /\ \A k \in Plcs : k # p => queue'[k] = queue[k]
    BY <2>1 DEF TakeLock, Inv, TypeOK
  <2> QED
    BY <1>0, <2>2, Behead
<1>4. /\ UNCHANGED <<now, version, plc, cache, arrived>>
      /\ seen' \in [Requests -> SUBSET Entries]
      /\ \A s \in Requests : seen'[s] = seen[s] \/ seen'[s] = {}
      /\ seen[r] \in SUBSET Entries /\ \A e, f \in seen[r] : e = f
      /\ arrived' \in [Requests -> 0..MaxTime] /\ arrived'[r] <= now
      /\ holder[p] = {} /\ UnderLock(r, seen[r])
  BY <1>1 DEF TakeLock, Inv, TypeOK, CacheInv, AnswerInv
<1> HIDE DEF r
<1>5. /\ TypeOK' /\ LockInv' /\ CacheInv' /\ AnswerInv'
      /\ pc'[r] \in {"done", "probing"}
      /\ \A s \in Requests : s # r => pc'[s] = pc[s]
  <2>1. holder[PlcOf[r]] = {} /\ pc[r] \in {"loaded", "waiting"}
    BY <1>2, <1>4
  <2> QED
    BY <1>1, <1>3, <1>4, <2>1, UnderLockKeeps
<1>6. \A i \in 1..Len(queue'[p]) :
          /\ i + 1 \in 1..Len(queue[p]) /\ queue'[p][i] = queue[p][i + 1]
          /\ queue'[p][i] \in Requests /\ queue'[p][i] # r
  <2>1. ASSUME NEW i \in 1..Len(queue'[p])
        PROVE  /\ i + 1 \in 1..Len(queue[p]) /\ i + 1 # 1
               /\ queue'[p][i] = queue[p][i + 1]
    BY <1>1, <1>3
  <2>2. \A j \in 1..Len(queue[p]) : queue[p][j] \in Requests /\ (j # 1 => queue[p][j] # r)
    BY <1>0, <1>1 DEF QueueInv
  <2> QED
    BY <2>1, <2>2
<1>7. QueueInv(p)'
  <2>1. \A i \in 1..Len(queue'[p]) : pc'[queue'[p][i]] = "waiting" /\ PlcOf[queue'[p][i]] = p
    BY <1>0, <1>5, <1>6 DEF QueueInv
  <2>2. \A i, j \in 1..Len(queue'[p]) : queue'[p][i] = queue'[p][j] => i = j
    BY <1>0, <1>6 DEF QueueInv
  <2>3. \A i, j \in 1..Len(queue'[p]) : i <= j => arrived'[queue'[p][i]] <= arrived'[queue'[p][j]]
    <3>1. \A i, j \in 1..Len(queue'[p]) : i <= j => i + 1 <= j + 1
      OBVIOUS
    <3>2. \A i, j \in 1..Len(queue[p]) : i <= j => arrived[queue[p][i]] <= arrived[queue[p][j]]
      BY <1>0 DEF QueueInv
    <3>3. \A i, j \in 1..Len(queue'[p]) :
             i <= j => arrived[queue[p][i + 1]] <= arrived[queue[p][j + 1]]
      BY <1>6, <3>1, <3>2
    <3> QED
      BY <1>4, <1>6, <3>3
  <2> QED
    BY <2>1, <2>2, <2>3 DEF QueueInv
<1>8. ASSUME NEW k \in Plcs, k # p
      PROVE  QueueInv(k)'
  <2>1. queue[k] \in Seq(Requests) /\ QueueInv(k) /\ queue'[k] = queue[k]
    BY <1>3, <1>8 DEF Inv, TypeOK
  <2>2. \A i \in 1..Len(queue[k]) : pc'[queue[k][i]] = pc[queue[k][i]]
    BY <1>2, <1>5, <1>8, <2>1 DEF QueueInv
  <2> QED
    BY <1>4, <2>1, <2>2 DEF QueueInv
<1>9. AllQueued'
  <2>1. ASSUME NEW s \in Requests, pc'[s] = "waiting"
        PROVE  \E i \in 1..Len(queue'[PlcOf[s]]) : queue'[PlcOf[s]][i] = s
    <3>1. s # r /\ pc[s] = "waiting" /\ PlcOf[s] \in Plcs
      BY <1>5, <2>1, HealthAssumption
    <3>2. PICK i \in 1..Len(queue[PlcOf[s]]) : queue[PlcOf[s]][i] = s
      BY <3>1 DEF Inv, AllQueued
    <3>3. CASE PlcOf[s] # p
      BY <1>3, <3>1, <3>2, <3>3
    <3>4. CASE PlcOf[s] = p
      <4>1. i # 1
        BY <1>1, <3>1, <3>2, <3>4
      <4>2. i - 1 \in 1..Len(queue'[p]) /\ (i - 1) + 1 = i
        BY <1>1, <1>3, <3>2, <3>4, <4>1
      <4>3. queue'[p][i - 1] = s
        BY <1>3, <3>2, <3>4, <4>2
      <4> QED
        BY <3>4, <4>2, <4>3
    <3> QED
      BY <3>3, <3>4
  <2> QED
    BY <2>1 DEF AllQueued
<1> QED
  BY <1>5, <1>7, <1>8, <1>9 DEF Inv

\* The prober answers with its own result, and leaves the lock free.
LEMMA ProbeEndsKeeps ==
    ASSUME Inv, NEW r \in Requests, ProbeEnds(r)
    PROVE  Inv'
<1> DEFINE e == [by |-> r, version |-> plc[r], ended |-> now]
<1>0. PlcOf[r] \in Plcs /\ pc[r] = "probing" /\ now \in Nat /\ arrived[r] <= now
  BY HealthAssumption DEF ProbeEnds, Inv, TypeOK, AnswerInv
<1>1. {e} \in SUBSET Entries /\ Reply(r, {e})
  BY DEF ProbeEnds, Inv, TypeOK, Entries
<1>2. e.by = r /\ e.ended = now /\ e.version = plc[r]
  OBVIOUS
<1>3. /\ UNCHANGED <<now, version, plc, arrived, seen, queue>>
      /\ cache' = [cache EXCEPT ![PlcOf[r]] = {e}]
      /\ holder' = [holder EXCEPT ![PlcOf[r]] = {}]
  BY DEF ProbeEnds
<1> HIDE DEF e
<1>4. /\ answer' \in [Requests -> SUBSET Answers]
      /\ pc' \in [Requests -> Places] /\ pc'[r] = "done"
      /\ \A s \in Requests : s # r => pc'[s] = pc[s] /\ answer'[s] = answer[s]
      /\ \A a \in answer'[r] : a.entry \in {e}
  <2>1. \A f, g \in {e} : f = g
    OBVIOUS
  <2> QED
    BY <1>1, <2>1, Replied
<1>5. /\ cache' \in [Plcs -> SUBSET Entries] /\ cache'[PlcOf[r]] = {e}
      /\ holder' \in [Plcs -> SUBSET Requests] /\ holder'[PlcOf[r]] = {}
      /\ \A p \in Plcs : p # PlcOf[r] => cache'[p] = cache[p] /\ holder'[p] = holder[p]
  BY <1>0, <1>1, <1>3 DEF Inv, TypeOK
<1>6. TypeOK'
  BY <1>3, <1>4, <1>5 DEF Inv, TypeOK
<1>7. (\A p \in Plcs : QueueInv(p)') /\ AllQueued'
  BY <1>0, <1>3, <1>4, QueuesStay
<1>8. LockInv'
  <2>1. ASSUME NEW p \in Plcs, NEW s \in Requests
        PROVE  s \in holder'[p] <=> pc'[s] = "probing" /\ PlcOf[s] = p
    <3>1. \A q \in Requests : q \in holder[p] <=> pc[q] = "probing" /\ PlcOf[q] = p
      BY DEF Inv, LockInv
    <3>2. CASE p = PlcOf[r]
      <4>1. r \in holder[p] /\ \A q \in holder[p] : q = r
        BY <1>0, <3>1, <3>2 DEF Inv, LockInv
      <4> QED
        BY <1>4, <1>5, <3>1, <3>2, <4>1
    <3>3. CASE p # PlcOf[r]
      BY <1>4, <1>5, <3>1, <3>3
    <3> QED
      BY <3>2, <3>3
  <2>2. \A p \in Plcs : \A q, s \in holder'[p] : q = s
    BY <1>5 DEF Inv, LockInv
  <2> QED
    BY <2>1, <2>2 DEF LockInv
<1>9. CacheInv'
  BY <1>3, <1>5 DEF Inv, CacheInv
<1>10. AnswerInv'
  <2>1. \A a \in answer'[r] :
           a.entry.by = r /\ a.entry.ended >= arrived[r] /\ a.entry.version = plc[r]
    BY <1>0, <1>2, <1>4, <1>3 DEF Inv, TypeOK
  <2> QED
    BY <1>3, <1>4, <2>1 DEF Inv, AnswerInv, AnswerIsOwnOrRecent
<1> QED
  BY <1>6, <1>7, <1>8, <1>9, <1>10 DEF Inv

\* A new row and a later time take nothing from what was right.
LEMMA WorldKeeps ==
    ASSUME Inv, Tick \/ \E p \in Plcs : UpdatePlc(p)
    PROVE  Inv'
<1>1. TypeOK'
  <2>1. CASE Tick
    BY <2>1, HealthAssumption DEF Tick, Inv, TypeOK
  <2>2. CASE \E p \in Plcs : UpdatePlc(p)
    BY <2>2, HealthAssumption DEF UpdatePlc, Inv, TypeOK
  <2> QED
    BY <2>1, <2>2
<1>2. UNCHANGED <<plc, pc, arrived, seen, cache, holder, queue, answer>>
  BY DEF Tick, UpdatePlc
<1>3. now' \in Nat /\ now <= now' /\ now \in Nat
  BY DEF Tick, UpdatePlc, Inv, TypeOK
<1>4. (\A p \in Plcs : QueueInv(p)') /\ AllQueued'
  BY <1>2, QueuesStay
<1>5. LockInv' /\ CacheInv'
  BY <1>2 DEF Inv, LockInv, CacheInv
<1>6. AnswerInv'
  <2>1. \A r \in Requests : arrived[r] \in Nat
    BY DEF Inv, TypeOK
  <2> QED
    BY <1>2, <1>3, <2>1 DEF Inv, AnswerInv, AnswerIsOwnOrRecent
<1> QED
  BY <1>1, <1>4, <1>5, <1>6 DEF Inv

\* Every step keeps the invariant.
LEMMA Kept == Inv /\ [Next]_vars => Inv'
<1> SUFFICES ASSUME Inv, [Next]_vars PROVE Inv'
  OBVIOUS
<1>1. CASE UNCHANGED vars
  <2>1. TypeOK'
    BY <1>1 DEF vars, Inv, TypeOK
  <2>2. (\A p \in Plcs : QueueInv(p)') /\ AllQueued'
    BY <1>1, QueuesStay DEF vars
  <2>3. LockInv' /\ CacheInv' /\ AnswerInv'
    BY <1>1 DEF vars, Inv, LockInv, CacheInv, AnswerInv, AnswerIsOwnOrRecent
  <2> QED
    BY <2>1, <2>2, <2>3 DEF Inv
<1>2. CASE Next
  BY <1>2, LoadKeeps, AnswerFromCacheKeeps, EnterKeeps, TakeLockKeeps, ProbeEndsKeeps, WorldKeeps
  DEF Next
<1> QED
  BY <1>1, <1>2

-----------------------------------------------------------------------------

\* The state of the cache, the locks and the requests stays well typed.
THEOREM HealthTypeCorrect == Spec => []TypeOK
<1>1. Inv => TypeOK
  BY DEF Inv
<1> QED
  BY <1>1, Initial, Kept, PTL DEF Spec

\* However many requests ask for a PLC: check_plc has one connection to it.
THEOREM OneProbe == Spec => []OneProbePerPlc
<1>1. Inv => OneProbePerPlc
  BY HealthAssumption DEF Inv, LockInv, OneProbePerPlc
<1> QED
  BY <1>1, Initial, Kept, PTL DEF Spec

\* Whatever TTL is, and however long a request has waited: its answer is of its
\* own probe, or of one that ended less than TTL before.
THEOREM AnswersAreRecent == Spec => []AnswerIsOwnOrRecent
<1>1. Inv => AnswerIsOwnOrRecent
  BY DEF Inv, AnswerInv
<1> QED
  BY <1>1, Initial, Kept, PTL DEF Spec

\* With any number of requests in the queue, the lock goes to one that has come
\* no later than any of those who still wait.
THEOREM FirstComeFirstServed == Spec => NoOvertaking
<1>1. ASSUME Inv, [Next]_vars
      PROVE  [\A r, s \in Requests :
                 /\ PlcOf[r] = PlcOf[s]
                 /\ pc[r] = "waiting" /\ pc'[r] = "waiting"
                 /\ pc[s] # "probing" /\ pc'[s] = "probing"
                 => arrived[r] >= arrived'[s]]_vars
  <2>1. SUFFICES ASSUME Next, NEW r \in Requests, NEW s \in Requests, PlcOf[r] = PlcOf[s],
                        pc[r] = "waiting", pc'[r] = "waiting",
                        pc[s] # "probing", pc'[s] = "probing"
                 PROVE  arrived[r] >= arrived'[s]
    BY <1>1
  <2>2. /\ PlcOf[s] \in Plcs /\ queue[PlcOf[s]] \in Seq(Requests) /\ QueueInv(PlcOf[s])
        /\ pc \in [Requests -> Places]
    BY <1>1, HealthAssumption DEF Inv, TypeOK
  <2>3. PICK i \in 1..Len(queue[PlcOf[s]]) : queue[PlcOf[s]][i] = r
    BY <1>1, <2>1 DEF Inv, AllQueued
  <2>4. queue[PlcOf[s]] # <<>>
    BY <2>2, <2>3
  <2>5. ASSUME NEW p \in Plcs, TakeLock(p)
        PROVE  arrived[r] >= arrived'[s]
    <3>1. s = Head(queue[p])
      <4>1. queue[p] \in Seq(Requests) /\ queue[p] # <<>>
        BY <1>1, <2>5 DEF TakeLock, Inv, TypeOK
      <4>2. \A q \in Requests : q # Head(queue[p]) => pc'[q] = pc[q]
        BY <2>2, <2>5 DEF TakeLock, UnderLock, Reply
      <4> QED
        BY <2>1, <4>2
    <3>2. PlcOf[s] = p /\ s = queue[p][1]
      <4>1. queue[p] \in Seq(Requests) /\ queue[p] # <<>> /\ QueueInv(p)
        BY <1>1, <2>5 DEF TakeLock, Inv, TypeOK
      <4> QED
        BY <3>1, <4>1, Behead DEF QueueInv
    <3>3. arrived[queue[p][1]] <= arrived[queue[p][i]]
      BY <2>2, <2>3, <3>2 DEF QueueInv
    <3>4. arrived' = arrived
      BY <2>5 DEF TakeLock
    <3>5. arrived[r] \in Nat /\ arrived[s] \in Nat
      BY <1>1 DEF Inv, TypeOK
    <3> QED
      BY <2>3, <3>2, <3>3, <3>4, <3>5
  <2>6. ASSUME NEW q \in Requests,
               Load(q) \/ AnswerFromCache(q) \/ Enter(q) \/ ProbeEnds(q)
        PROVE  FALSE
    <3>1. CASE Load(q) \/ AnswerFromCache(q) \/ ProbeEnds(q)
      BY <2>1, <2>2, <3>1 DEF Load, AnswerFromCache, ProbeEnds, Reply
    <3>2. CASE Enter(q)
      <4>1. q = s
        BY <2>1, <2>2, <3>2 DEF Enter, UnderLock, Reply
      <4> QED
        BY <2>1, <2>2, <2>4, <3>2, <4>1 DEF Enter
    <3> QED
      BY <2>6, <3>1, <3>2
  <2>7. CASE Tick \/ \E p \in Plcs : UpdatePlc(p)
    BY <2>1, <2>7 DEF Tick, UpdatePlc
  <2> QED
    BY <2>1, <2>5, <2>6, <2>7 DEF Next
<1> QED
  BY <1>1, Initial, Kept, PTL DEF Spec, NoOvertaking

\* Why every request is answered, as far as states tell: who waits stands in
\* the queue of its PLC, and the lock is free for the first of that queue, or
\* with a request whose probe will end and release it.
NoLostWakeUp ==
    \A r \in Requests : pc[r] = "waiting" =>
        /\ \E i \in 1..Len(queue[PlcOf[r]]) : queue[PlcOf[r]][i] = r
        /\ \/ holder[PlcOf[r]] = {}
           \/ \E s \in Requests : holder[PlcOf[r]] = {s} /\ pc[s] = "probing"

\* With any number of requests, no release of a lock leaves somebody waiting
\* behind nobody.
THEOREM WakeUpsAreKept == Spec => []NoLostWakeUp
<1>1. ASSUME Inv PROVE NoLostWakeUp
  <2> SUFFICES ASSUME NEW r \in Requests, pc[r] = "waiting", holder[PlcOf[r]] # {}
               PROVE  \E s \in Requests : holder[PlcOf[r]] = {s} /\ pc[s] = "probing"
    BY <1>1 DEF Inv, AllQueued, NoLostWakeUp
  <2>1. PlcOf[r] \in Plcs /\ holder[PlcOf[r]] \in SUBSET Requests
    BY <1>1, HealthAssumption DEF Inv, TypeOK
  <2>2. PICK s \in holder[PlcOf[r]] : pc[s] = "probing"
    BY <1>1, <2>1 DEF Inv, LockInv
  <2> QED
    BY <1>1, <2>1, <2>2 DEF Inv, LockInv
<1> QED
  BY <1>1, Initial, Kept, PTL DEF Spec

\* Who waits moves up in the queue or stays where it is: what it waits for is
\* as many releases as it found requests ahead of it, whoever comes meanwhile.
QueueMovesUp ==
    [][\A p \in Plcs : \A i \in 1..Len(queue[p]), j \in 1..Len(queue'[p]) :
          queue'[p][j] = queue[p][i] => j <= i]_vars

THEOREM QueuesMoveUp == Spec => QueueMovesUp
<1>1. ASSUME Inv, [Next]_vars
      PROVE  [\A p \in Plcs : \A i \in 1..Len(queue[p]), j \in 1..Len(queue'[p]) :
                 queue'[p][j] = queue[p][i] => j <= i]_vars
  <2>1. SUFFICES ASSUME NEW p \in Plcs, NEW i \in 1..Len(queue[p]), NEW j \in 1..Len(queue'[p]),
                        queue'[p][j] = queue[p][i]
                 PROVE  j <= i
    BY DEF vars
  <2>2. queue[p] \in Seq(Requests) /\ QueueInv(p) /\ queue \in [Plcs -> Seq(Requests)]
    BY <1>1 DEF Inv, TypeOK
  <2>3. CASE queue'[p] = queue[p]
    BY <2>1, <2>2, <2>3 DEF QueueInv
  <2>4. CASE TakeLock(p)
    <3>1. queue'[p] = Tail(queue[p]) /\ queue[p] # <<>>
      BY <2>2, <2>4 DEF TakeLock
    <3>2. j + 1 \in 1..Len(queue[p]) /\ queue'[p][j] = queue[p][j + 1]
      BY <2>2, <3>1, Behead
    <3>3. j + 1 = i
      BY <2>1, <2>2, <3>2 DEF QueueInv
    <3> QED
      BY <3>3, <2>2
  <2>5. CASE \E r \in Requests : Enter(r) /\ PlcOf[r] = p /\ queue'[p] # queue[p]
    <3>1. PICK r \in Requests : Enter(r) /\ PlcOf[r] = p /\ queue'[p] # queue[p]
      BY <2>5
    <3>2. queue'[p] = Append(queue[p], r) /\ pc[r] = "loaded"
      BY <2>2, <3>1 DEF Enter
    <3>3. /\ Len(queue'[p]) = Len(queue[p]) + 1 /\ Len(queue[p]) \in Nat
          /\ \A n \in 1..Len(queue[p]) : queue'[p][n] = queue[p][n]
          /\ queue'[p][Len(queue[p]) + 1] = r
      BY <2>2, <3>2, Appended
    <3>4. j # Len(queue[p]) + 1
      BY <2>1, <2>2, <3>2, <3>3 DEF QueueInv
    <3>5. j \in 1..Len(queue[p])
      BY <3>3, <3>4
    <3>6. queue[p][j] = queue[p][i]
      BY <2>1, <3>3, <3>5
    <3> QED
      BY <2>2, <3>5, <3>6 DEF QueueInv
  <2>6. \/ queue'[p] = queue[p] \/ TakeLock(p)
        \/ \E r \in Requests : Enter(r) /\ PlcOf[r] = p /\ queue'[p] # queue[p]
    <3>1. CASE \E r \in Requests : Enter(r)
      <4>1. PICK r \in Requests : Enter(r)
        BY <3>1
      <4>2. PlcOf[r] # p => queue'[p] = queue[p]
        BY <2>2, <4>1 DEF Enter
      <4> QED
        BY <4>1, <4>2
    <3>2. CASE \E q \in Plcs : TakeLock(q)
      <4>1. PICK q \in Plcs : TakeLock(q)
        BY <3>2
      <4>2. q # p => queue'[p] = queue[p]
        BY <2>2, <4>1 DEF TakeLock
      <4> QED
        BY <4>1, <4>2
    <3>3. CASE UNCHANGED queue
      BY <3>3
    <3> QED
      BY <1>1, <3>1, <3>2, <3>3
      DEF Next, vars, Load, AnswerFromCache, ProbeEnds, UpdatePlc, Tick
  <2> QED
    BY <2>3, <2>4, <2>5, <2>6
<1> QED
  BY <1>1, Initial, Kept, PTL DEF Spec, QueueMovesUp
=============================================================================
