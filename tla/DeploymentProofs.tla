-------------------------- MODULE DeploymentProofs --------------------------
(***************************************************************************)
(* Who holds a connection, what outlives what, what a batch has stored,    *)
(* and which certificate is served: for any number of tasks, any pool and  *)
(* batches, any hosts and any number of stops of the broker.               *)
(***************************************************************************)
EXTENDS Deployment, FiniteSetTheorems, TLAPS

-----------------------------------------------------------------------------
(* The moves of a task.                                                    *)

\* All that the actions of a task do to op, step and out.
Proceeds(t) ==
    \/ Ends(t)
    \/ /\ op[t] # "none"
       /\ \/ /\ step[t] \in {"asking", "authenticated", "sleeping"}
             /\ CheckOut(t, "own") /\ Goes(t, "connected")
          \/ op[t] = "tcp" /\ CheckOut(t, "own") /\ Goes(t, "storing")
          \/ /\ op[t] \in Authenticated /\ step[t] = "authenticating"
             /\ CheckOut(t, "auth") /\ Goes(t, "authenticated")
          \/ /\ op[t] \in Http /\ step[t] \in {"connected", "written"} /\ UNCHANGED out
             /\ \E s \in {"found", "verified", "revoking", "written"} : Goes(t, s)
          \/ /\ op[t] = "tcp" /\ step[t] \in {"greeting", "reading", "answering"}
             /\ UNCHANGED out
             /\ \E s \in {"asking", "answering", "forwarding", "reading"} : Goes(t, s)
          \/ At(t, "patch", "written") /\ CheckIn(t) /\ Goes(t, "rereading")
          \/ /\ At(t, "write", "connected") /\ CheckIn(t)
             /\ \E s \in {"rereading", "reloading"} : Goes(t, s)
          \/ At(t, "write", "rereading") /\ CheckOut(t, "own") /\ Goes(t, "reloading")
          \/ At(t, "write", "reloading") /\ CheckOut(t, "reload") /\ Goes(t, "loading")
          \/ /\ op[t] = "tcp" /\ CheckIn(t)
             /\ \E s \in {"answering", "forwarding"} : Goes(t, s)
          \/ /\ op[t] \in {"stream", "monitor"} /\ CheckIn(t)
             /\ \E s \in {"waiting", "sleeping"} : Goes(t, s)

Starts(t) ==
    \E o \in Ops \ {"none"}, s \in {"asking", "authenticating", "greeting", "sleeping"} :
        /\ Begins(t, o, s)
        /\ o = "tcp" <=> s = "greeting"
        /\ o \in Authenticated => s = "authenticating"

Move(t) == Starts(t) \/ Proceeds(t)

\* What a request does, to its users' tables too, is one of these moves;
LEMMA RequestMoves ==
    ASSUME NEW t \in Tasks, Handle(t) \/ Update(t) \/ Fail(t)
    PROVE  Proceeds(t)
<1> USE DEF Http, Public, Authenticated, Ops
<1>1. CASE Connect(t)
  BY <1>1 DEF Connect, Proceeds
<1>2. CASE RequestTimesOut(t)
  BY <1>2 DEF RequestTimesOut, GivesUp, Proceeds
<1>3. CASE Refuse(t) \/ AnswerUnasked(t) \/ Fail(t) \/ Refresh(t) \/ Read(t) \/ Reread(t) \/ ReloadDone(t)
  BY <1>3 DEF Refuse, AnswerUnasked, Fail, Refresh, Read, Reread, ReloadDone, Leaves, Proceeds
<1>4. CASE \E u \in Users : Authenticate(t, u)
  BY <1>4 DEF Authenticate, Proceeds
<1>5. CASE \E u \in Users, p \in Passwords : CreateUser(t, u, p)
  BY <1>5 DEF CreateUser, Proceeds
<1>6. CASE \E u \in Users, k \in Tokens : Verify(t, u, k)
  BY <1>6 DEF Verify, At, Proceeds
<1>7. CASE CommitLogin(t) \/ CommitRevocation(t)
  BY <1>7 DEF CommitLogin, CommitRevocation, Proceeds
<1>8. CASE \E k \in Tokens : FindToken(t, k) \/ FindOwnToken(t, k)
  BY <1>8 DEF FindToken, FindOwnToken, At, Proceeds
<1>9. CASE SelectTokens(t)
  BY <1>9 DEF SelectTokens, At, Proceeds
<1>10. CASE CommitPatch(t)
  BY <1>10 DEF CommitPatch, At, Proceeds
<1>11. CASE Update(t)
  BY <1>11 DEF Update, WriteUser, At, Proceeds
<1>12. CASE CommitWrite(t) \/ RereadWritten(t) \/ Reload(t)
  BY <1>12 DEF CommitWrite, RereadWritten, Reload, At, Proceeds
<1> QED
  BY <1>1, <1>2, <1>3, <1>4, <1>5, <1>6, <1>7, <1>8, <1>9, <1>10, <1>11, <1>12 DEF Handle

\* so is what a TCP session does,
LEMMA SessionMoves ==
    ASSUME NEW t \in Tasks, SessionHandles(t) \/ SessionHears(t)
    PROVE  Proceeds(t)
<1> USE DEF Session, Frame
<1>1. CASE Greeted(t) \/ AnswerAtOnce(t) \/ Answered(t)
  BY <1>1 DEF Greeted, AnswerAtOnce, Answered, Proceeds
<1>2. CASE \E F \in SUBSET Places : TakeReadings(t, F)
  BY <1>2 DEF TakeReadings, Proceeds
<1>3. CASE ClientDone(t) \/ DeviceRefused(t) \/ ReadingFails(t) \/ AnswerLost(t) \/ SessionTimesOut(t)
  BY <1>3 DEF ClientDone, DeviceRefused, ReadingFails, AnswerLost, SessionTimesOut, SessionEnds,
              GivesUp, Proceeds
<1>4. CASE AskDevice(t) \/ StoreReading(t)
  BY <1>4 DEF AskDevice, StoreReading, Proceeds
<1>5. CASE DeviceKnown(t) \/ CommitReading(t)
  BY <1>5 DEF DeviceKnown, CommitReading, Proceeds
<1> QED
  BY <1>1, <1>2, <1>3, <1>4, <1>5 DEF SessionHandles, SessionHears

\* a stream, or a scheduled coroutine.
LEMMA OtherMoves ==
    ASSUME NEW t \in Tasks, OtherStep(t) \/ OtherEvent(t)
    PROVE  Proceeds(t)
<1> USE DEF At
<1>1. CASE StreamLooksUp(t) \/ BackgroundConnects(t)
  BY <1>1 DEF StreamLooksUp, BackgroundConnects, Proceeds
<1>2. CASE StreamOpens(t)
  BY <1>2 DEF StreamOpens, Proceeds
<1>3. CASE OtherTimesOut(t) \/ BackgroundEnds(t) \/ StreamEnds(t) \/ StreamRefused(t)
  BY <1>3 DEF OtherTimesOut, BackgroundEnds, StreamEnds, StreamRefused, GivesUp, Proceeds
<1> QED
  BY <1>1, <1>2, <1>3 DEF OtherStep, OtherEvent

\* A step of the deployment is the end of the process, a move of one task, or
\* none of the tasks' business.
LEMMA Moves ==
    ASSUME Next
    PROVE  Dispose \/ UNCHANGED taskVars \/ \E t \in Runners : Move(t)
<1> USE DEF Runners
<1>1. CASE BrokerStep \/ Terminate
  BY <1>1 DEF BrokerStep, Terminate
<1>2. CASE LifespanNext
  BY <1>2 DEF LifespanNext, MqttStart, TcpStart, GatewaysStart, Drained, SessionsClosed, Move, Starts, Proceeds,
              Ops, Authenticated
<1>3. CASE MonitorStep
  BY <1>3 DEF MonitorStep, MonitorConnects, MonitorDone, At, Move, Proceeds
<1>4. CASE \E t \in Tasks : TakeRequest(t) \/ TakeClient(t) \/ TakeStream(t) \/ Schedule(t)
  <2>1. PICK t \in Tasks : TakeRequest(t) \/ TakeClient(t) \/ TakeStream(t) \/ Schedule(t)
    BY <1>4
  <2>2. Http \subseteq Ops \ {"none", "tcp"} /\ {"tcp", "stream", "background"} \subseteq Ops \ {"none"}
    BY DEF Ops, Http, Public, Authenticated
  <2>3. CASE TakeRequest(t)
    BY <2>2, <2>3 DEF TakeRequest, Request, Move, Starts
  <2>4. CASE TakeClient(t) \/ TakeStream(t) \/ Schedule(t)
    BY <2>2, <2>4 DEF TakeClient, AcceptClient, TakeStream, Schedule, Move, Starts, Authenticated
  <2> QED
    BY <2>1, <2>3, <2>4
<1>5. CASE \E t \in Tasks : RequestStep(t) \/ UpdateStep(t) \/ FailStep(t)
  BY <1>5, RequestMoves DEF Move, RequestStep, UpdateStep, FailStep
<1>6. CASE \E t \in Tasks : SessionStep(t) \/ SessionEvent(t)
  BY <1>6, SessionMoves DEF Move, SessionStep, SessionEvent
<1>7. CASE \E t \in Tasks : OtherStep(t) \/ OtherEvent(t)
  BY <1>7, OtherMoves DEF Move
<1> QED
  BY <1>1, <1>2, <1>3, <1>4, <1>5, <1>6, <1>7 DEF Next

\* What a move does to op.
LEMMA MoveOps ==
    ASSUME NEW t \in Runners, Proceeds(t)
    PROVE  UNCHANGED op \/ op' = [op EXCEPT ![t] = "none"]
  BY DEF Proceeds, Ends, Goes

-----------------------------------------------------------------------------
(* Connections.                                                            *)

\* A task that runs nothing is idle, and only a request authenticates.
Holders ==
    /\ \A t \in Runners : op[t] = "none" => step[t] = "idle"
    /\ \A t \in Runners : <<t, "auth">> \in out => op[t] \in Authenticated

TasksInv ==
    /\ TasksTypeOK /\ IsFiniteSet(out)
    /\ Holders
    /\ HoldsWhatItUses

\* A connection more, below the pool's limit, or fewer keep the limit.
LEMMA PoolBounded ==
    ASSUME TasksInv, NEW t \in Runners, NEW s \in Sessions, CheckOut(t, s)
    PROVE  /\ out' \in SUBSET (Runners \X Sessions)
           /\ IsFiniteSet(out') /\ Cardinality(out') <= PoolSize
<1>1. IsFiniteSet(out) /\ Cardinality(out) \in Nat /\ Cardinality(out) < PoolSize
  BY FS_CardinalityType, PoolAssumption DEF TasksInv, CheckOut, Exhausted
<1>2. out' = out \cup {<<t, s>>}
  BY DEF CheckOut
<1> DEFINE more == out \cup {<<t, s>>}
<1>3. IsFiniteSet(more) /\ Cardinality(more) \in {Cardinality(out), Cardinality(out) + 1}
  <2>1. /\ IsFiniteSet(more)
        /\ Cardinality(more) = IF <<t, s>> \in out THEN Cardinality(out) ELSE Cardinality(out) + 1
    BY <1>1, FS_AddElement
  <2> QED
    BY <2>1
<1>4. Cardinality(more) <= PoolSize
  BY <1>1, <1>3, PoolAssumption
<1>5. more \in SUBSET (Runners \X Sessions)
  BY DEF TasksInv, TasksTypeOK
<1> QED
  BY <1>2, <1>3, <1>4, <1>5

\* Fewer sessions hold fewer connections.
LEMMA PoolShrinks ==
    ASSUME TasksInv, out' \in SUBSET out
    PROVE  /\ out' \in SUBSET (Runners \X Sessions)
           /\ IsFiniteSet(out') /\ Cardinality(out') <= PoolSize
<1>1. IsFiniteSet(out') /\ Cardinality(out') <= Cardinality(out)
  BY FS_Subset DEF TasksInv
<1>2. Cardinality(out) \in Nat /\ Cardinality(out') \in Nat
  BY <1>1, FS_CardinalityType DEF TasksInv
<1> QED
  BY <1>1, <1>2, PoolAssumption DEF TasksInv, TasksTypeOK

\* A move gives and takes connections where the invariant allows it.
LEMMA MoveKeepsTasks ==
    ASSUME TasksInv, NEW t \in Runners, Move(t)
    PROVE  TasksInv'
<1> USE DEF TasksInv, Holders, HoldsWhatItUses, Sessions, Statements, Reloads, Authenticated
<1>0. /\ op \in [Runners -> Ops] /\ step \in [Runners -> Steps]
      /\ out \in SUBSET (Runners \X Sessions)
  BY DEF TasksTypeOK
<1>1. CASE Starts(t)
  <2>1. PICK o \in Ops \ {"none"}, s \in {"asking", "authenticating", "greeting", "sleeping"} :
               Begins(t, o, s) /\ (o \in Authenticated => s = "authenticating")
    BY <1>1 DEF Starts
  <2>2. TasksTypeOK' /\ IsFiniteSet(out')
    BY <2>1, <1>0 DEF Begins, TasksTypeOK, Steps, Statements, Waiting
  <2>3. \A x \in Sessions : <<t, x>> \notin out
    BY <2>1 DEF Begins
  <2> QED
    BY <2>1, <2>2, <2>3, <1>0 DEF Begins
<1>2. CASE Ends(t)
  <2>1. TasksTypeOK' /\ IsFiniteSet(out')
    BY <1>2, <1>0, PoolShrinks DEF Ends, TasksTypeOK, Steps, Statements, Ops
  <2>2. \A x \in Sessions : <<t, x>> \notin out'
    BY <1>2 DEF Ends
  <2> QED
    BY <1>2, <2>1, <2>2, <1>0 DEF Ends
<1>3. CASE /\ op[t] # "none"
           /\ \/ step[t] \in {"asking", "authenticated", "sleeping"}
              \/ op[t] = "tcp"
           /\ CheckOut(t, "own") /\ \E s \in {"connected", "storing"} : Goes(t, s)
  <2>1. PICK s \in {"connected", "storing"} : Goes(t, s)
    BY <1>3
  <2>2. TasksTypeOK' /\ IsFiniteSet(out')
    BY <1>3, <2>1, <1>0, PoolBounded DEF Goes, TasksTypeOK, Steps, Statements
  <2> QED
    BY <1>3, <2>1, <2>2, <1>0 DEF Goes, CheckOut, Waiting
<1>4. CASE /\ op[t] \in Authenticated /\ step[t] = "authenticating"
           /\ CheckOut(t, "auth") /\ Goes(t, "authenticated")
  <2>1. TasksTypeOK' /\ IsFiniteSet(out')
    BY <1>4, <1>0, PoolBounded DEF Goes, TasksTypeOK, Steps, Statements, Waiting
  <2>2. \A x \in Sessions : <<t, x>> \in out => x = "auth"
    BY <1>4 DEF Waiting
  <2> QED
    BY <1>4, <2>1, <2>2, <1>0 DEF Goes, CheckOut, Waiting, Authenticated
<1>5. CASE /\ op[t] # "none" /\ step[t] \in {"connected", "written"} /\ UNCHANGED out
           /\ \E s \in {"found", "verified", "revoking", "written"} : Goes(t, s)
  <2>1. PICK s \in {"found", "verified", "revoking", "written"} : Goes(t, s)
    BY <1>5
  <2>2. TasksTypeOK' /\ IsFiniteSet(out')
    BY <1>5, <2>1, <1>0 DEF Goes, TasksTypeOK, Steps, Statements
  <2> QED
    BY <1>5, <2>1, <2>2, <1>0 DEF Goes, Waiting
<1>6. CASE /\ op[t] = "tcp" /\ step[t] \in {"greeting", "reading", "answering"}
           /\ UNCHANGED out
           /\ \E s \in {"asking", "answering", "forwarding", "reading"} : Goes(t, s)
  <2>1. PICK s \in {"asking", "answering", "forwarding", "reading"} : Goes(t, s)
    BY <1>6
  <2>2. TasksTypeOK' /\ IsFiniteSet(out')
    BY <1>6, <2>1, <1>0 DEF Goes, TasksTypeOK, Steps, Statements, Waiting
  <2>3. \A x \in Sessions : <<t, x>> \notin out
    BY <1>6
  <2> QED
    BY <1>6, <2>1, <2>2, <2>3, <1>0 DEF Goes
<1>7. CASE At(t, "patch", "written") /\ CheckIn(t) /\ Goes(t, "rereading")
  <2>1. TasksTypeOK' /\ IsFiniteSet(out')
    BY <1>7, <1>0, PoolShrinks DEF Goes, CheckIn, TasksTypeOK, Steps, Statements, Waiting
  <2>2. \A x \in Sessions : <<t, x>> \in out' => x = "auth"
    BY <1>7 DEF At, CheckIn
  <2> QED
    BY <1>7, <2>1, <2>2, <1>0 DEF At, Goes, CheckIn, Waiting
<1>8. CASE /\ op[t] \in {"tcp", "stream", "monitor"}
           /\ CheckIn(t)
           /\ \E s \in {"answering", "forwarding", "waiting", "sleeping"} : Goes(t, s)
  <2>1. PICK s \in {"answering", "forwarding", "waiting", "sleeping"} : Goes(t, s)
    BY <1>8
  <2>2. TasksTypeOK' /\ IsFiniteSet(out')
    BY <1>8, <2>1, <1>0, PoolShrinks DEF Goes, CheckIn, TasksTypeOK, Steps, Statements, Waiting
  <2>3. \A x \in Sessions : <<t, x>> \notin out'
    BY <1>8 DEF CheckIn, Authenticated
  <2> QED
    BY <1>8, <2>1, <2>2, <2>3, <1>0 DEF Goes, CheckIn
<1>9. CASE /\ At(t, "write", "connected")
           /\ CheckIn(t)
           /\ \E s \in {"rereading", "reloading"} : Goes(t, s)
  <2>1. PICK s \in {"rereading", "reloading"} : Goes(t, s)
    BY <1>9
  <2>2. TasksTypeOK' /\ IsFiniteSet(out')
    BY <1>9, <2>1, <1>0, PoolShrinks DEF Goes, CheckIn, TasksTypeOK, Steps, Statements, Waiting
  <2>3. \A x \in Sessions : <<t, x>> \in out' => x = "auth"
    BY <1>9 DEF At, CheckIn
  <2> QED
    BY <1>9, <2>1, <2>2, <2>3, <1>0 DEF At, Goes, CheckIn, Waiting
<1>10. CASE At(t, "write", "rereading") /\ CheckOut(t, "own") /\ Goes(t, "reloading")
  <2>1. TasksTypeOK' /\ IsFiniteSet(out')
    BY <1>10, <1>0, PoolBounded DEF Goes, TasksTypeOK, Steps, Statements, Waiting
  <2>2. \A x \in Sessions : <<t, x>> \in out => x = "auth"
    BY <1>10 DEF At, Waiting
  <2> QED
    BY <1>10, <2>1, <2>2, <1>0 DEF At, Goes, CheckOut, Waiting
<1>11. CASE At(t, "write", "reloading") /\ CheckOut(t, "reload") /\ Goes(t, "loading")
  <2>1. TasksTypeOK' /\ IsFiniteSet(out')
    BY <1>11, <1>0, PoolBounded DEF Goes, TasksTypeOK, Steps
  <2> QED
    BY <1>11, <2>1, <1>0 DEF At, Goes, CheckOut, Waiting
<1> QED
  BY <1>1, <1>2, <1>3, <1>4, <1>5, <1>6, <1>7, <1>8, <1>9, <1>10, <1>11 DEF Move, Proceeds

\* At the start no task runs; every step keeps what is said of them.
LEMMA TasksInitial == Init => TasksInv
<1> SUFFICES ASSUME Init PROVE TasksInv
  OBVIOUS
<1>1. IsFiniteSet(out) /\ Cardinality(out) = 0 /\ out = {}
  BY FS_EmptySet DEF Init, TasksInit
<1> QED
  BY <1>1, PoolAssumption
  DEF Init, TasksInit, TasksInv, TasksTypeOK, Holders, HoldsWhatItUses, Ops, Steps, Statements,
      Reloads, Authenticated

\* Every step keeps what is said of the tasks.
LEMMA TasksKept == TasksInv /\ [Next]_vars => TasksInv'
<1> SUFFICES ASSUME TasksInv, [Next]_vars PROVE TasksInv'
  OBVIOUS
<1>1. CASE Dispose
  <2>1. IsFiniteSet(out') /\ Cardinality(out') = 0 /\ out' = {}
    BY <1>1, FS_EmptySet DEF Dispose
  <2> QED
    BY <1>1, <2>1, PoolAssumption
    DEF Dispose, TasksInv, TasksTypeOK, Holders, HoldsWhatItUses, Ops, Steps, Statements,
        Reloads, Authenticated
<1>2. CASE UNCHANGED taskVars
  BY <1>2 DEF taskVars, TasksInv, TasksTypeOK, Holders, HoldsWhatItUses
<1>3. CASE UNCHANGED vars
  BY <1>2, <1>3 DEF vars, taskVars
<1>4. CASE Next
  BY <1>1, <1>2, <1>4, Moves, MoveKeepsTasks
<1> QED
  BY <1>3, <1>4

\* With any number of requests, sessions, streams and coroutines, and a pool of
\* any size: no connection is held by a task that waits for a client, nor by
\* one that is over; who waits for a connection has none, but for a request
\* that holds that of get_current_user's session, and at its reload that of its
\* own last query; and who is between two statements has its own, so that no
\* request waits for the lock of one that waits for the pool.
THEOREM ConnectionsAreUsed == Spec => []HoldsWhatItUses
<1>1. Init => TasksInv
  BY TasksInitial
<1>2. TasksInv /\ [Next]_vars => TasksInv'
  BY TasksKept
<1>3. TasksInv => HoldsWhatItUses
  BY DEF TasksInv
<1> QED
  BY <1>1, <1>2, <1>3, PTL DEF Spec

-----------------------------------------------------------------------------
(* Startup and shutdown.                                                   *)

\* What may run at each phase.
PhasesInv ==
    /\ phase \in Phases
    /\ \A t \in Tasks : op[t] # "monitor"
    /\ op[Monitor] \in {"none", "monitor"}
    /\ phase \in {"listening", "closing"} =>
          op[Monitor] = "none" /\ \A t \in Tasks : op[t] \notin Http \cup {"stream"}
    /\ phase \in {"off", "linked", "unlinked", "down"} =>
          \A t \in Runners : op[t] \in {"none", "background"}

\* The process starts with nothing running; a task that moves on or ends
\* belongs to its phase as before.
LEMMA PhasesInitial == Init => PhasesInv
  BY PoolAssumption DEF Init, TasksInit, PhasesInv, Phases, Runners

\* The shutdown waits at each phase for whom the next one excludes.
LEMMA ProceedKeepsPhases ==
    ASSUME TasksInv, PhasesInv, NEW t \in Runners, Proceeds(t), UNCHANGED phase
    PROVE  PhasesInv'
<1>1. op \in [Runners -> Ops]
  BY DEF TasksInv, TasksTypeOK
<1>2. UNCHANGED op \/ op' = [op EXCEPT ![t] = "none"]
  BY MoveOps
<1> QED
  BY <1>1, <1>2 DEF PhasesInv, Runners, Http, Public, Authenticated

\* Each phase is left only when those are gone whom the next does not allow.
LEMMA PhasesKept ==
    ASSUME TasksInv, PhasesInv, [Next]_vars
    PROVE  PhasesInv'
<1>0. op \in [Runners -> Ops]
  BY DEF TasksInv, TasksTypeOK
<1>1. CASE UNCHANGED vars
  BY <1>1 DEF vars, taskVars, PhasesInv
<1>2. CASE BrokerStep \/ Terminate
  BY <1>2 DEF BrokerStep, Terminate, Phase, taskVars, PhasesInv, Phases
<1>3. CASE LifespanNext
  <2>1. CASE MqttStart \/ SessionsClosed
    BY <1>0, <2>1 DEF MqttStart, SessionsClosed, Phase, taskVars, PhasesInv, Phases, Runners, Ops
  <2>5. CASE TcpStart
    BY <1>0, <2>5 DEF TcpStart, Phase, taskVars, PhasesInv, Phases, Runners, Http, Public, Authenticated
  <2>2. CASE GatewaysStart
    BY <1>0, <2>2, PoolAssumption DEF GatewaysStart, Begins, Phase, PhasesInv, Phases, Runners
  <2>3. CASE Drained
    BY <1>0, <2>3, PoolAssumption DEF Drained, Ends, Phase, PhasesInv, Phases, Runners
  <2>4. CASE Dispose
    BY <2>4 DEF Dispose, Phase, PhasesInv, Phases, Runners
  <2> QED
    BY <1>3, <2>1, <2>2, <2>3, <2>4, <2>5 DEF LifespanNext
<1>4. CASE MonitorStep
  BY <1>4 DEF MonitorStep, MonitorConnects, MonitorDone, Goes, PhasesInv
<1>5. CASE \E t \in Tasks : TakeRequest(t) \/ TakeClient(t) \/ TakeStream(t) \/ Schedule(t)
  <2>1. PICK t \in Tasks : TakeRequest(t) \/ TakeClient(t) \/ TakeStream(t) \/ Schedule(t)
    BY <1>5
  <2>2. UNCHANGED phase
    BY <2>1 DEF TakeRequest, TakeClient, TakeStream, Schedule
  <2>3. CASE TakeRequest(t)
    <3>1. PICK o \in Http : op' = [op EXCEPT ![t] = o]
      BY <2>3 DEF TakeRequest, Request, Begins
    <3> QED
      BY <1>0, <2>2, <2>3, <3>1, PoolAssumption
      DEF TakeRequest, PhasesInv, Runners, Http, Public, Authenticated
  <2>4. CASE TakeClient(t)
    BY <1>0, <2>2, <2>4, PoolAssumption
    DEF TakeClient, AcceptClient, Begins, PhasesInv, Runners, Http, Public, Authenticated
  <2>5. CASE TakeStream(t)
    BY <1>0, <2>2, <2>5, PoolAssumption DEF TakeStream, Begins, PhasesInv, Runners
  <2>6. CASE Schedule(t)
    BY <1>0, <2>2, <2>6, PoolAssumption
    DEF Schedule, Begins, PhasesInv, Runners, Http, Public, Authenticated
  <2> QED
    BY <2>1, <2>3, <2>4, <2>5, <2>6
<1>6. CASE \E t \in Tasks : RequestStep(t) \/ UpdateStep(t) \/ FailStep(t)
  BY <1>6, RequestMoves, ProceedKeepsPhases DEF RequestStep, UpdateStep, FailStep, Runners
<1>7. CASE \E t \in Tasks : SessionStep(t) \/ SessionEvent(t)
  BY <1>7, SessionMoves, ProceedKeepsPhases DEF SessionStep, SessionEvent, Runners
<1>8. CASE \E t \in Tasks : OtherStep(t) \/ OtherEvent(t)
  BY <1>8, OtherMoves, ProceedKeepsPhases DEF OtherStep, OtherEvent, Runners
<1> QED
  BY <1>1, <1>2, <1>3, <1>4, <1>5, <1>6, <1>7, <1>8 DEF Next

\* lifespan stops the MQTT client after the last request, stream, TCP session
\* and round of the monitor, however many there are.
THEOREM ShutdownInOrder == Spec => []LinkOutlivesSessions
<1>1. Init => TasksInv /\ PhasesInv
  BY TasksInitial, PhasesInitial
<1>2. TasksInv /\ PhasesInv /\ [Next]_vars => (TasksInv /\ PhasesInv)'
  BY TasksKept, PhasesKept
<1>3. TasksInv /\ PhasesInv => LinkOutlivesSessions
  BY DEF PhasesInv, LinkOutlivesSessions, Phases, Runners, Http, Public, Authenticated
<1> QED
  BY <1>1, <1>2, <1>3, PTL DEF Spec

-----------------------------------------------------------------------------
(* Batches.                                                                *)

\* Only sessions are at the steps of a frame, and at no others.  What comes
\* before a published reading is stored; with the answer the whole frame is;
\* between frames there is none.
FrameInv(t) ==
    /\ step[t] \in {"greeting", "reading", "forwarding", "storing", "answering"} => op[t] = "tcp"
    /\ op[t] = "tcp" => step[t] \in {"greeting", "asking", "connected", "reading",
                                    "forwarding", "storing", "answering"}
    /\ stored[t] \subseteq published[t] /\ published[t] \subseteq frame[t]
    /\ \A i \in published[t], j \in frame[t] : j < i => j \in stored[t]
    /\ step[t] = "answering" => stored[t] = frame[t]
    /\ step[t] \notin {"forwarding", "storing", "answering"} => frame[t] = {}

FramesInv == FramesTypeOK /\ \A t \in Tasks : FrameInv(t)

\* A frame is changed by its own session only.
LEMMA FrameOfOne ==
    ASSUME FramesInv, TasksInv, NEW t \in Tasks,
           NEW o \in Ops, NEW s \in Steps,
           op' = [op EXCEPT ![t] = o], step' = [step EXCEPT ![t] = s],
           \/ UNCHANGED frameVars
           \/ \E F, P, D \in SUBSET Places : Frame(t, F, P, D),
           FrameInv(t)'
    PROVE  FramesInv'
<1>1. op \in [Runners -> Ops] /\ step \in [Runners -> Steps] /\ t \in Runners
  BY DEF TasksInv, TasksTypeOK, Runners
<1>2. CASE UNCHANGED frameVars
  BY <1>1, <1>2 DEF FramesInv, FramesTypeOK, FrameInv, frameVars, Runners
<1>3. CASE \E F, P, D \in SUBSET Places : Frame(t, F, P, D)
  <2>1. PICK F, P, D \in SUBSET Places : Frame(t, F, P, D)
    BY <1>3
  <2>2. FramesTypeOK'
    BY <2>1 DEF Frame, FramesInv, FramesTypeOK
  <2>3. ASSUME NEW r \in Tasks, r # t
        PROVE  FrameInv(r)'
    BY <1>1, <2>1, <2>3 DEF Frame, FramesInv, FramesTypeOK, FrameInv, Runners
  <2> QED
    BY <2>2, <2>3 DEF FramesInv
<1> QED
  BY <1>2, <1>3

\* What is no session touches no frame,
LEMMA OthersKeepFrames ==
    ASSUME FramesInv, TasksInv, NEW t \in Runners, Move(t), op[t] # "tcp", UNCHANGED frameVars
    PROVE  FramesInv'
<1>1. /\ op \in [Runners -> Ops] /\ step \in [Runners -> Steps]
      /\ op[t] = "none" => step[t] = "idle"
  BY DEF TasksInv, TasksTypeOK, Holders
<1>2. PICK o, s :
         /\ op' = [op EXCEPT ![t] = o] /\ step' = [step EXCEPT ![t] = s]
         /\ o = "tcp" <=> s = "greeting"
         /\ s \notin {"reading", "forwarding", "storing", "answering"}
  <2>1. CASE Starts(t)
    BY <2>1 DEF Starts, Begins
  <2>2. CASE Proceeds(t)
    BY <1>1, <2>2 DEF Proceeds, Ends, Goes
  <2> QED
    BY <2>1, <2>2 DEF Move
<1> QED
  BY <1>1, <1>2 DEF FramesInv, FramesTypeOK, FrameInv, frameVars, Runners

\* and a session accounts for each reading.
LEMMA SessionKeepsFrames ==
    ASSUME FramesInv, TasksInv, NEW t \in Tasks, SessionHandles(t) \/ SessionHears(t)
    PROVE  FramesInv'
<1> USE BatchAssumption DEF Session
<1>0. /\ op \in [Runners -> Ops] /\ step \in [Runners -> Steps] /\ t \in Runners
      /\ FrameInv(t) /\ op = [op EXCEPT ![t] = op[t]] /\ op[t] \in Ops
      /\ frame[t] \in SUBSET Places /\ published[t] \in SUBSET Places /\ stored[t] \in SUBSET Places
      /\ frame \in [Tasks -> SUBSET Places] /\ published \in [Tasks -> SUBSET Places]
      /\ stored \in [Tasks -> SUBSET Places]
  BY DEF TasksInv, TasksTypeOK, Runners, FramesInv, FramesTypeOK
<1>1. ASSUME Ends(t), Frame(t, {}, {}, {})
      PROVE  FramesInv'
  <2>1. FrameInv(t)'
    BY <1>0, <1>1 DEF Ends, Frame, FrameInv
  <2>2. \E F, P, D \in SUBSET Places : Frame(t, F, P, D)
    <3>1. {} \in SUBSET Places
      OBVIOUS
    <3> QED
      BY <3>1, <1>1
  <2>3. "none" \in Ops /\ "idle" \in Steps
    BY DEF Ops, Steps, Statements
  <2> QED
    BY <2>1, <2>2, <2>3, <1>1, FrameOfOne DEF Ends
<1>2. ASSUME NEW s \in {"asking", "connected", "reading"}, op[t] = "tcp", Goes(t, s),
             \/ UNCHANGED frameVars /\ step[t] \in {"greeting", "asking"}
             \/ Frame(t, {}, {}, {})
      PROVE  FramesInv'
  <2>1. FrameInv(t)'
    BY <1>0, <1>2 DEF Goes, Frame, FrameInv, frameVars
  <2>2. UNCHANGED frameVars \/ \E F, P, D \in SUBSET Places : Frame(t, F, P, D)
    <3>1. {} \in SUBSET Places
      OBVIOUS
    <3> QED
      BY <3>1, <1>2
  <2> QED
    BY <2>1, <2>2, <1>0, <1>2, FrameOfOne DEF Goes, Steps, Statements, Waiting
<1>3. CASE ClientDone(t) \/ SessionTimesOut(t) \/ DeviceRefused(t) \/ AnswerLost(t) \/ ReadingFails(t)
  BY <1>1, <1>3 DEF ClientDone, SessionTimesOut, DeviceRefused, AnswerLost, ReadingFails,
                    SessionEnds, GivesUp
<1>4. CASE AskDevice(t) \/ Greeted(t) \/ Answered(t)
  BY <1>2, <1>4 DEF AskDevice, Greeted, Answered
<1>5. CASE DeviceKnown(t) \/ AnswerAtOnce(t)
  <2>1. FrameInv(t)'
    BY <1>0, <1>5 DEF DeviceKnown, AnswerAtOnce, Goes, FrameInv, frameVars
  <2> QED
    BY <2>1, <1>0, <1>5, FrameOfOne DEF DeviceKnown, AnswerAtOnce, Goes, Steps, Statements
<1>6. CASE \E F \in SUBSET Places : TakeReadings(t, F)
  <2>1. PICK F \in SUBSET Places : TakeReadings(t, F)
    BY <1>6
  <2>2. PICK i \in F : First(F, i) /\ Frame(t, F, {i}, {})
    BY <2>1 DEF TakeReadings
  <2>3. step' = [step EXCEPT ![t] = "forwarding"] /\ UNCHANGED op
    BY <2>1 DEF TakeReadings, Goes
  <2>4. frame'[t] = F /\ published'[t] = {i} /\ stored'[t] = {}
    BY <1>0, <2>2 DEF Frame
  <2>5. \A j \in F : ~(j < i)
    BY <2>2 DEF First, Places
  <2>6. FrameInv(t)'
    BY <1>0, <2>1, <2>3, <2>4, <2>5 DEF TakeReadings, FrameInv
  <2>7. {i} \in SUBSET Places /\ {} \in SUBSET Places /\ "forwarding" \in Steps
    BY DEF Steps, Statements, Waiting
  <2> QED
    BY <2>2, <2>3, <2>6, <2>7, <1>0, FrameOfOne
<1>7. CASE StoreReading(t)
  <2>1. FrameInv(t)'
    BY <1>0, <1>7 DEF StoreReading, Goes, FrameInv, frameVars
  <2> QED
    BY <2>1, <1>0, <1>7, FrameOfOne DEF StoreReading, Goes, Steps, Statements
<1>8. CASE CommitReading(t)
  <2> DEFINE left == frame[t] \ published[t]
  <2>1. CASE left = {}
    <3>1. Goes(t, "answering") /\ Frame(t, frame[t], published[t], published[t])
      BY <1>8, <2>1 DEF CommitReading
    <3>2. frame'[t] = frame[t] /\ published'[t] = frame[t] /\ stored'[t] = frame[t]
      BY <1>0, <2>1, <3>1 DEF Frame, FrameInv
    <3>3. FrameInv(t)'
      BY <1>0, <1>8, <3>1, <3>2 DEF CommitReading, Goes, FrameInv
    <3> QED
      BY <3>1, <3>3, <1>0, FrameOfOne DEF Goes, Steps, Statements
  <2>2. CASE left # {}
    <3>1. PICK i \in left : /\ First(left, i) /\ Goes(t, "forwarding")
                             /\ Frame(t, frame[t], published[t] \cup {i}, published[t])
      BY <1>8, <2>2 DEF CommitReading
    <3>2. /\ frame'[t] = frame[t] /\ stored'[t] = published[t]
          /\ published'[t] = published[t] \cup {i}
      BY <1>0, <3>1 DEF Frame
    <3>3. \A j \in frame[t] : j < i => j \in published[t]
      BY <1>0, <3>1 DEF First, Places
    <3>4. FrameInv(t)'
      BY <1>0, <1>8, <3>1, <3>2, <3>3 DEF CommitReading, Goes, FrameInv
    <3>5. published[t] \cup {i} \in SUBSET Places
      BY <1>0
    <3> QED
      BY <3>1, <3>4, <3>5, <1>0, FrameOfOne DEF Goes, Steps, Statements, Waiting
  <2> QED
    BY <2>1, <2>2
<1> QED
  BY <1>3, <1>4, <1>5, <1>6, <1>7, <1>8 DEF SessionHandles, SessionHears

\* At the start, and when the process ends, no session is at a frame.
LEMMA FramesInitial == Init => FramesInv
  BY BatchAssumption, PoolAssumption
  DEF Init, TasksInit, FramesInit, FramesInv, FramesTypeOK, FrameInv, Runners

\* Every step accounts for the readings of every frame.
LEMMA FramesKept ==
    ASSUME TasksInv, PhasesInv, FramesInv, [Next]_vars
    PROVE  FramesInv'
<1>0. op \in [Runners -> Ops] /\ Tasks \subseteq Runners /\ Monitor \in Runners \ Tasks
  BY PoolAssumption DEF TasksInv, TasksTypeOK, Runners
<1>1. CASE UNCHANGED <<taskVars, frameVars>>
  BY <1>1 DEF taskVars, frameVars, FramesInv, FramesTypeOK, FrameInv
<1>2. CASE UNCHANGED vars \/ BrokerStep \/ Terminate
  BY <1>1, <1>2 DEF vars, BrokerStep, Terminate
<1>3. CASE LifespanNext
  <2>1. CASE MqttStart \/ TcpStart \/ SessionsClosed
    BY <1>1, <2>1 DEF MqttStart, TcpStart, SessionsClosed
  <2>2. CASE GatewaysStart
    BY <1>0, <2>2, OthersKeepFrames DEF GatewaysStart, Begins, Move, Starts, Ops, Authenticated
  <2>3. CASE Drained
    BY <1>0, <2>3, OthersKeepFrames DEF Drained, Move, Proceeds, PhasesInv
  <2>4. CASE Dispose
    <3>1. \A t \in Tasks : op[t] # "tcp"
      BY <1>0, <2>4 DEF Dispose, Phase, PhasesInv
    <3> QED
      BY <1>0, <2>4, <3>1 DEF Dispose, FramesInv, FramesTypeOK, FrameInv, frameVars
  <2> QED
    BY <1>3, <2>1, <2>2, <2>3, <2>4 DEF LifespanNext
<1>4. CASE MonitorStep
  BY <1>0, <1>4, OthersKeepFrames
  DEF MonitorStep, MonitorConnects, MonitorDone, At, Move, Proceeds
<1>5. CASE \E t \in Tasks : TakeRequest(t) \/ TakeClient(t) \/ TakeStream(t) \/ Schedule(t)
  <2>1. PICK t \in Tasks : TakeRequest(t) \/ TakeClient(t) \/ TakeStream(t) \/ Schedule(t)
    BY <1>5
  <2>2. Http \subseteq Ops \ {"none", "tcp"} /\ {"tcp", "stream", "background"} \subseteq Ops \ {"none"}
    BY DEF Ops, Http, Public, Authenticated
  <2>3. Starts(t) /\ op[t] = "none" /\ UNCHANGED frameVars
    <3>1. CASE TakeRequest(t)
      BY <2>2, <3>1 DEF TakeRequest, Request, Begins, Starts
    <3>2. CASE TakeClient(t) \/ TakeStream(t) \/ Schedule(t)
      BY <2>2, <3>2 DEF TakeClient, AcceptClient, TakeStream, Schedule, Begins, Starts, Authenticated
    <3> QED
      BY <2>1, <3>1, <3>2
  <2> QED
    BY <1>0, <2>1, <2>3, OthersKeepFrames DEF Move
<1>6. CASE \E t \in Tasks : RequestStep(t) \/ UpdateStep(t) \/ FailStep(t)
  <2>1. PICK t \in Tasks : RequestStep(t) \/ UpdateStep(t) \/ FailStep(t)
    BY <1>6
  <2>2. Handle(t) \/ Update(t) \/ Fail(t)
    BY <2>1 DEF RequestStep, UpdateStep, FailStep
  <2>3. op[t] # "tcp" \/ step[t] = "revoking"
    BY <2>2
    DEF Handle, Update, Fail, Connect, RequestTimesOut, Refuse, AnswerUnasked, Authenticate,
        CreateUser, Verify, CommitLogin, Refresh, Read, FindToken, FindOwnToken, SelectTokens,
        CommitRevocation, CommitPatch, Reread, WriteUser, CommitWrite, RereadWritten, Reload,
        ReloadDone, At, Http, Public, Authenticated
  <2>4. op[t] # "tcp"
    BY <2>1, <2>3 DEF FramesInv, FrameInv
  <2> QED
    BY <1>0, <2>1, <2>2, <2>4, RequestMoves, OthersKeepFrames
    DEF Move, RequestStep, UpdateStep, FailStep
<1>7. CASE \E t \in Tasks : SessionStep(t) \/ SessionEvent(t)
  BY <1>7, SessionKeepsFrames DEF SessionStep, SessionEvent
<1>8. CASE \E t \in Tasks : OtherStep(t) \/ OtherEvent(t)
  <2>1. PICK t \in Tasks : OtherStep(t) \/ OtherEvent(t)
    BY <1>8
  <2>2. op[t] # "tcp" /\ UNCHANGED frameVars
    BY <2>1
    DEF OtherStep, OtherEvent, StreamLooksUp, StreamOpens, OtherTimesOut, BackgroundConnects,
        BackgroundEnds, StreamEnds, StreamRefused, At
  <2> QED
    BY <1>0, <2>1, <2>2, OtherMoves, OthersKeepFrames DEF Move
<1> QED
  BY <1>2, <1>3, <1>4, <1>5, <1>6, <1>7, <1>8 DEF Next

\* For any number of sessions and batches of any size, of whose readings any
\* may be without a metric: what a session has published of the others is
\* stored but for the last, and the client gets its ack when all of them are.
THEOREM BatchesAccounted == Spec => []BatchAccounted
<1>1. Init => TasksInv /\ PhasesInv /\ FramesInv
  BY TasksInitial, PhasesInitial, FramesInitial
<1>2. TasksInv /\ PhasesInv /\ FramesInv /\ [Next]_vars => (TasksInv /\ PhasesInv /\ FramesInv)'
  BY TasksKept, PhasesKept, FramesKept
<1>3. FramesInv => BatchAccounted
  BY DEF FramesInv, FramesTypeOK, FrameInv, BatchAccounted
<1> QED
  BY <1>1, <1>2, <1>3, PTL DEF Spec

-----------------------------------------------------------------------------
(* The broker's certificate.                                               *)

\* What the marker says of the certificate: as long as no renewal is under
\* way, its host.  With one cut off, the certificate may be the old one, whose
\* key is gone, or the new one; only a host changed meanwhile can hide that.
MarkerInv ==
    crt # NoCert =>
        /\ ~renewing => marker = crt.host
        /\ renewing /\ ~undone => crt.host \in {marker, host}

\* What each step of a start relies on, whatever earlier starts have left.
BrokerInv ==
    /\ BrokerTypeOK
    /\ at \in {"decide", "key", "keyOut", "sign", "signOut", "mark", "load", "serving"} => ca = "pair"
    /\ crt # NoCert => ca = "pair" /\ crt.signed
    /\ at \in {"keyOut", "sign", "signOut", "mark"} => renewing
    /\ at \in {"sign", "signOut", "mark"} => key
    /\ at = "signOut" => crt = NoCert
    /\ at = "mark" => crt # NoCert /\ crt.host = host
    /\ at \in {"load", "serving"} => key /\ crt # NoCert /\ (crt.host = host \/ undone)
    /\ at = "serving" => crt.paired
    /\ MarkerInv

\* A certificate loses what one field says, and nothing else.
LEMMA CertLoses ==
    ASSUME BrokerTypeOK, NEW f \in {"paired", "signed", "fresh"}
    PROVE  /\ With(f, FALSE) = NoCert <=> crt = NoCert
           /\ crt # NoCert =>
                /\ With(f, FALSE) \in Certs
                /\ With(f, FALSE).host = crt.host
                /\ f # "signed" => With(f, FALSE).signed = crt.signed
                /\ f # "paired" => With(f, FALSE).paired = crt.paired
<1>1. CASE crt = NoCert
  BY <1>1 DEF With
<1>2. CASE crt \in Certs
  <2>1. [crt EXCEPT ![f] = FALSE] \in Certs
    BY <1>2 DEF Certs
  <2>2. crt # NoCert /\ With(f, FALSE) # NoCert
    BY <1>2, <2>1, BrokerAssumption DEF With
  <2> QED
    BY <1>2, <2>1, <2>2 DEF With, Certs
<1> QED
  BY <1>1, <1>2 DEF BrokerTypeOK

\* A start, from its first file to the broker's, keeps the invariant.
LEMMA BootstrapKeeps ==
    ASSUME BrokerInv, Bootstrap
    PROVE  BrokerInv'
<1> USE DEF BrokerInv, BrokerTypeOK, MarkerInv, Follows, files
<1>1. CASE Boot \/ KeepCa \/ MakeCaCrt \/ Renew \/ WriteKey \/ EmptyCrt \/ Mark \/ Load
  BY <1>1 DEF Boot, KeepCa, MakeCaCrt, Renew, WriteKey, EmptyCrt, Mark, Load
<1>2. CASE MakeCaKey
  BY <1>2 DEF MakeCaKey, With
<1>3. CASE Keep
  BY <1>3, BrokerAssumption DEF Keep, MustRenew
<1>4. CASE EmptyKey
  BY <1>4, CertLoses DEF EmptyKey
<1>5. CASE WriteCrt
  <2> DEFINE new == [host |-> host, paired |-> TRUE, signed |-> TRUE, fresh |-> TRUE]
  <2>1. new \in Certs
    BY DEF Certs
  <2>2. new # NoCert /\ new.host = host /\ new.signed
    BY <2>1, BrokerAssumption
  <2>3. crt' = new
    BY <1>5 DEF WriteCrt
  <2> HIDE DEF new
  <2> QED
    BY <1>5, <2>1, <2>2, <2>3 DEF WriteCrt
<1> QED
  BY <1>1, <1>2, <1>3, <1>4, <1>5 DEF Bootstrap

\* Whatever befalls it keeps it too.
LEMMA TroubleKeeps ==
    ASSUME BrokerInv, Stop \/ Age \/ \E h \in Hosts : ChangeHost(h)
    PROVE  BrokerInv'
<1> USE BrokerAssumption DEF BrokerInv, BrokerTypeOK, MarkerInv, files, Trouble
<1>1. CASE Stop
  BY <1>1 DEF Stop
<1>2. CASE Age
  <2>1. BrokerTypeOK'
    <3>1. crt' \in Certs
      BY <1>2, CertLoses DEF Age
    <3>2. troubles' \in 0..MaxTroubles
      BY <1>2 DEF Age
    <3> QED
      BY <1>2, <3>1, <3>2 DEF Age
  <2>2. crt # NoCert /\ crt' # NoCert /\ crt'.host = crt.host
        /\ crt'.signed = crt.signed /\ crt'.paired = crt.paired
    BY <1>2, CertLoses DEF Age
  <2> QED
    BY <1>2, <2>1, <2>2 DEF Age
<1>3. CASE \E h \in Hosts : ChangeHost(h)
  BY <1>3 DEF ChangeHost
<1> QED
  BY <1>1, <1>2, <1>3

\* An empty volume: nothing is said of a certificate that is not there.
LEMMA BrokerInitial == Init => BrokerInv
<1> SUFFICES ASSUME Init PROVE BrokerInv
  OBVIOUS
<1>1. troubles \in 0..MaxTroubles
  BY BrokerAssumption DEF Init, BrokerInit
<1>2. BrokerTypeOK
  BY <1>1, Zenon DEF Init, BrokerInit, BrokerTypeOK
<1> QED
  BY <1>2 DEF Init, BrokerInit, BrokerInv, MarkerInv

\* The broker makes all these steps by itself.
LEMMA BrokerKept == BrokerInv /\ [Next]_vars => BrokerInv'
<1> SUFFICES ASSUME BrokerInv, [Next]_vars PROVE BrokerInv'
  OBVIOUS
<1>1. CASE UNCHANGED brokerVars
  BY <1>1 DEF brokerVars, files, BrokerInv, BrokerTypeOK, MarkerInv
<1>2. CASE BrokerStep
  BY <1>2, BootstrapKeeps, TroubleKeeps DEF BrokerStep, BrokerNext
<1>3. ~BrokerStep => UNCHANGED brokerVars
  <2>1. CASE UNCHANGED vars
    BY <2>1 DEF vars
  <2>2. CASE LifespanNext \/ Terminate \/ MonitorStep
    BY <2>2 DEF LifespanNext, MqttStart, TcpStart, GatewaysStart, Drained, SessionsClosed, Dispose,
                Terminate, MonitorStep
  <2>3. CASE \E t \in Tasks : \/ TakeRequest(t) \/ TakeClient(t) \/ TakeStream(t) \/ Schedule(t)
                              \/ RequestStep(t) \/ UpdateStep(t) \/ FailStep(t)
                              \/ SessionStep(t) \/ SessionEvent(t)
                              \/ OtherStep(t) \/ OtherEvent(t)
    BY <2>3 DEF TakeRequest, TakeClient, TakeStream, Schedule, RequestStep, UpdateStep, FailStep,
                SessionStep, SessionEvent, OtherStep, OtherEvent
  <2> QED
    BY <2>1, <2>2, <2>3 DEF Next
<1> QED
  BY <1>1, <1>2, <1>3

\* Wherever the entrypoint is killed, however often, and whatever host it is
\* given at the next start: the certificate that is served belongs to its key
\* and its CA, and names the host, unless that was changed during a renewal.
THEOREM CertificateIsCurrent == Spec => []ServedCertificateIsCurrent
<1>1. Init => BrokerInv
  BY BrokerInitial
<1>2. BrokerInv /\ [Next]_vars => BrokerInv'
  BY BrokerKept
<1>3. BrokerInv => ServedCertificateIsCurrent
  BY DEF BrokerInv, ServedCertificateIsCurrent
<1> QED
  BY <1>1, <1>2, <1>3, PTL DEF Spec
=============================================================================
