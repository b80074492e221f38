----------------------------- MODULE PlcHealth -----------------------------
(***************************************************************************)
(* check_plc: the cached status probe behind GET /api/v1/plcs/status and   *)
(* GET /api/v1/plcs/{plc_id}/status.                                       *)
(*                                                                         *)
(* Requests run on one event loop and interleave only at awaits.  A status *)
(* is kept for TTL; what is missing or stale is probed under an            *)
(* asyncio.Lock of the PLC.  That lock is FIFO: a request takes it without *)
(* suspending only when it is free and nobody waits, and a release lets    *)
(* the first waiter take it in a later turn of the loop.                   *)
(*                                                                         *)
(* status_all gathers one check per PLC; each is a request of its own here.*)
(***************************************************************************)
EXTENDS Naturals, Sequences

CONSTANTS
    Requests,     \* calls of check_plc
    Plcs,         \* rows of table plcs
    PlcOf,        \* the PLC each request asks for
    Forced,       \* requests with force=true: do not accept a cached result
    TTL,          \* _CACHE_TTL
    MaxTime,      \* bound: the clock stops there
    MaxVersion    \* bound: updates of a PLC's row

ASSUME HealthAssumption ==
    /\ PlcOf \in [Requests -> Plcs]
    /\ Forced \subseteq Requests
    /\ TTL \in Nat \ {0}
    /\ MaxTime \in Nat
    /\ MaxVersion \in Nat

VARIABLES
    now,          \* time.monotonic()
    version,      \* of each PLC's row: ip, port, unit id, timeout
    plc,          \* the row each request loaded: its version
    pc,           \* where each request is
    arrived,      \* history: when it entered check_plc
    seen,         \* `cached`: the entry it read on entry, kept while it waits
    cache,        \* _cache: a set of at most one entry for each PLC
    holder,       \* _locks: the request that has the lock
    queue,        \* requests that wait for it, first come first
    answer        \* what was returned, with the time it was

vars == <<now, version, plc, pc, arrived, seen, cache, holder, queue, answer>>

\* A status: whose probe it is, of which version of the row, when it ended.
Entries == [by : Requests, version : 0..MaxVersion, ended : 0..MaxTime]
Answers == [entry : Entries, at : 0..MaxTime]
Places == {"new", "loaded", "waiting", "probing", "done"}

TypeOK ==
    /\ now \in 0..MaxTime
    /\ version \in [Plcs -> 0..MaxVersion]
    /\ plc \in [Requests -> 0..MaxVersion]
    /\ pc \in [Requests -> Places]
    /\ arrived \in [Requests -> 0..MaxTime]
    /\ seen \in [Requests -> SUBSET Entries]
    /\ cache \in [Plcs -> SUBSET Entries]
    /\ holder \in [Plcs -> SUBSET Requests]
    /\ queue \in [Plcs -> Seq(Requests)]
    /\ answer \in [Requests -> SUBSET Answers]

Init ==
    /\ now = 0
    /\ version = [p \in Plcs |-> 0]
    /\ plc = [r \in Requests |-> 0]
    /\ pc = [r \in Requests |-> "new"]
    /\ arrived = [r \in Requests |-> 0]
    /\ seen = [r \in Requests |-> {}]
    /\ cache = [p \in Plcs |-> {}]
    /\ holder = [p \in Plcs |-> {}]
    /\ queue = [p \in Plcs |-> <<>>]
    /\ answer = [r \in Requests |-> {}]

-----------------------------------------------------------------------------

\* _plc_or_404 or list_plcs reads the row, an await before check_plc runs.
Load(r) ==
    /\ pc[r] = "new"
    /\ pc' = [pc EXCEPT ![r] = "loaded"]
    /\ plc' = [plc EXCEPT ![r] = version[PlcOf[r]]]
    /\ UNCHANGED <<now, version, arrived, seen, cache, holder, queue, answer>>

\* Mutant of Fresh: valid at its expiry still.
FreshAtExpiry(e) == now <= e.ended + TTL

Fresh(e) == now < e.ended + TTL

\* `cached and not force and now < cached.expires_at`; whether the entry is of
\* a deep probe is not looked at, so `deep` plays no part here.
Usable(r, c) == r \notin Forced /\ \E e \in c : Fresh(e)

Reply(r, c) ==
    /\ answer' = [answer EXCEPT ![r] = {[entry |-> e, at |-> now] : e \in c}]
    /\ pc' = [pc EXCEPT ![r] = "done"]

\* The test before the lock.
AnswerFromCache(r) ==
    LET p == PlcOf[r] IN
    /\ pc[r] = "loaded"
    /\ Usable(r, cache[p])
    /\ Reply(r, cache[p])
    /\ arrived' = [arrived EXCEPT ![r] = now]
    /\ UNCHANGED <<now, version, plc, seen, cache, holder, queue>>

\* Mutant of UnderLock: the probe runs after the lock was released.
ProbeAfterUnlock(r, c) ==
    IF Usable(r, c)
    THEN Reply(r, c) /\ UNCHANGED holder
    ELSE /\ pc' = [pc EXCEPT ![r] = "probing"]
         /\ UNCHANGED <<holder, answer>>

\* With the lock: the second test, then the probe.  The code reads the cache
\* again into `caches` and tests `cached`, the entry c read on entry.
UnderLock(r, c) ==
    IF Usable(r, c)
    THEN Reply(r, c) /\ UNCHANGED holder
    ELSE /\ pc' = [pc EXCEPT ![r] = "probing"]
         /\ holder' = [holder EXCEPT ![PlcOf[r]] = {r}]
         /\ UNCHANGED answer

\* Mutant of Enter: a free lock is taken although somebody waits for it.
EnterBarging(r) ==
    LET p == PlcOf[r] IN
    /\ pc[r] = "loaded"
    /\ ~Usable(r, cache[p])
    /\ arrived' = [arrived EXCEPT ![r] = now]
    /\ \/ /\ holder[p] = {}
          /\ UnderLock(r, cache[p])
          /\ UNCHANGED <<seen, queue>>
       \/ /\ holder[p] # {}
          /\ seen' = [seen EXCEPT ![r] = cache[p]]
          /\ queue' = [queue EXCEPT ![p] = Append(@, r)]
          /\ pc' = [pc EXCEPT ![r] = "waiting"]
          /\ UNCHANGED <<holder, answer>>
    /\ UNCHANGED <<now, version, plc, cache>>

Enter(r) ==
    LET p == PlcOf[r] IN
    /\ pc[r] = "loaded"
    /\ ~Usable(r, cache[p])
    /\ arrived' = [arrived EXCEPT ![r] = now]
    /\ \/ /\ holder[p] = {} /\ queue[p] = <<>>
          /\ UnderLock(r, cache[p])
          /\ UNCHANGED <<seen, queue>>
       \/ /\ holder[p] # {} \/ queue[p] # <<>>
          /\ seen' = [seen EXCEPT ![r] = cache[p]]
          /\ queue' = [queue EXCEPT ![p] = Append(@, r)]
          /\ pc' = [pc EXCEPT ![r] = "waiting"]
          /\ UNCHANGED <<holder, answer>>
    /\ UNCHANGED <<now, version, plc, cache>>

\* The first waiter wakes up after a release.
TakeLock(p) ==
    LET r == Head(queue[p]) IN
    /\ holder[p] = {}
    /\ queue[p] # <<>>
    /\ queue' = [queue EXCEPT ![p] = Tail(@)]
    /\ UnderLock(r, seen[r])
    /\ seen' = [seen EXCEPT ![r] = {}]
    /\ UNCHANGED <<now, version, plc, arrived, cache>>

\* Mutants of ProbeEnds: the entry is dated by its expiry, and the lock is
\* not released.
ProbeDatedByExpiry(r) ==
    LET p == PlcOf[r]
        result == {[by |-> r, version |-> plc[r], ended |-> now + TTL]} IN
    /\ pc[r] = "probing"
    /\ cache' = [cache EXCEPT ![p] = result]
    /\ Reply(r, result)
    /\ holder' = [holder EXCEPT ![p] = {}]
    /\ UNCHANGED <<now, version, plc, arrived, seen, queue>>

ProbeKeepsLock(r) ==
    LET p == PlcOf[r]
        result == {[by |-> r, version |-> plc[r], ended |-> now]} IN
    /\ pc[r] = "probing"
    /\ cache' = [cache EXCEPT ![p] = result]
    /\ Reply(r, result)
    /\ UNCHANGED <<now, version, plc, arrived, seen, holder, queue>>

\* The probe is over, up or down: the result goes to the cache of the PLC and
\* to the caller, and the lock is released.
ProbeEnds(r) ==
    LET p == PlcOf[r]
        result == {[by |-> r, version |-> plc[r], ended |-> now]} IN
    /\ pc[r] = "probing"
    /\ cache' = [cache EXCEPT ![p] = result]
    /\ Reply(r, result)
    /\ holder' = [holder EXCEPT ![p] = {}]
    /\ UNCHANGED <<now, version, plc, arrived, seen, queue>>

\* PATCH of a PLC; nothing tells the cache.
UpdatePlc(p) ==
    /\ version[p] < MaxVersion
    /\ version' = [version EXCEPT ![p] = @ + 1]
    /\ UNCHANGED <<now, plc, pc, arrived, seen, cache, holder, queue, answer>>

Tick ==
    /\ now < MaxTime
    /\ now' = now + 1
    /\ UNCHANGED <<version, plc, pc, arrived, seen, cache, holder, queue, answer>>

Next ==
    \/ \E r \in Requests :
          Load(r) \/ AnswerFromCache(r) \/ Enter(r) \/ ProbeEnds(r)
    \/ \E p \in Plcs : TakeLock(p) \/ UpdatePlc(p)
    \/ Tick

Spec == Init /\ [][Next]_vars

\* The loop resumes what is ready, and every probe ends by its timeout.
LoopFairness ==
    /\ \A r \in Requests : /\ WF_vars(AnswerFromCache(r) \/ Enter(r))
                           /\ WF_vars(ProbeEnds(r))
    /\ \A p \in Plcs : WF_vars(TakeLock(p))

FairSpec == Spec /\ LoopFairness

-----------------------------------------------------------------------------
(* Properties                                                              *)

\* A PLC never sees two connections of check_plc at once, whoever holds the
\* lock, waits for it or has just been woken (async with lock).
OneProbePerPlc ==
    \A r, s \in Requests :
        pc[r] = "probing" /\ pc[s] = "probing" /\ PlcOf[r] = PlcOf[s] => r = s

\* Every answer is either of a probe the request made itself after it arrived,
\* on the row it loaded, or, unless forced, of a probe that ended less than TTL
\* before the answer, however long the request had waited with the entry it
\* read on entry.
AnswerIsOwnOrRecent ==
    \A r \in Requests : \A a \in answer[r] :
        \/ /\ a.entry.by = r
           /\ a.entry.ended >= arrived[r] /\ a.entry.version = plc[r]
        \/ r \notin Forced /\ a.at < a.entry.ended + TTL

\* No request gets the lock of a PLC while an older one waits for it: not the
\* one that finds the lock just released, nor one from behind in the queue.
NoOvertaking ==
    [][\A r, s \in Requests :
          /\ PlcOf[r] = PlcOf[s]
          /\ pc[r] = "waiting" /\ pc'[r] = "waiting"
          /\ pc[s] # "probing" /\ pc'[s] = "probing"
          => arrived[r] >= arrived'[s]]_vars

\* Every request that reached check_plc is answered in the end, behind
\* however many others: no wake-up of the lock is lost.
EveryRequestAnswered ==
    \A r \in Requests : pc[r] = "loaded" ~> pc[r] = "done"

\* "Recheca: outra request pode ter preenchido o cache enquanto esperávamos":
\* nobody starts a probe it was not forced to while the cache has a result.
NoProbeWhileFresh ==
    [][\A r \in Requests \ Forced :
          pc[r] # "probing" /\ pc'[r] = "probing"
              => \A e \in cache[PlcOf[r]] : ~Fresh(e)]_vars
=============================================================================
