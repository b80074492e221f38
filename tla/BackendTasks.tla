---------------------------- MODULE BackendTasks ----------------------------
(***************************************************************************)
(* The tasks of the event loop and the pooled connections they hold.       *)
(*                                                                         *)
(* create_async_engine is given no size, so the pool is SQLAlchemy's       *)
(* default: 5 + 10 connections, and TimeoutError for who has waited 30 s.  *)
(* AsyncSessionLocal() takes none: a session does at its first statement,  *)
(* and gives it back at its commit, its rollback or its end.  get_db of a  *)
(* router and get_db of get_current_user are two dependencies, hence two   *)
(* sessions of one request, "own" and "auth".  FastAPI (0.136 in uv.lock)  *)
(* closes them when the request is over, and a BackgroundTask is part of   *)
(* it: the reload of the Modbus map that a route has added runs, in a      *)
(* session of its own, "reload", while the other two are still open.       *)
(***************************************************************************)
EXTENDS Naturals, FiniteSets

CONSTANTS
    Tasks,        \* bound: requests, TCP sessions and streams at a time
    Monitor,      \* the task of _loop_monitor
    PoolSize      \* pool_size + max_overflow

ASSUME PoolAssumption ==
    /\ IsFiniteSet(Tasks)
    /\ Monitor \notin Tasks
    /\ PoolSize \in Nat \ {0}

VARIABLES
    op,           \* what each task runs
    step,         \* how far it is
    out           \* sessions that hold a connection

taskVars == <<op, step, out>>

Runners == Tasks \cup {Monitor}
Sessions == {"auth", "own", "reload"}

\* Routes without and with get_current_user; "read" and "write" stand for those
\* of the other routers, whose tables are modelled elsewhere: "write" for the
\* ones that add a reload.
Public == {"create", "login", "refresh"}
Authenticated == {"read", "write", "logout", "full_logout", "change", "patch"}
Http == Public \cup Authenticated

\* "background" is a coroutine that paho's thread has scheduled:
\* _save_message_async, _confirm_publication_async.
Ops == Http \cup {"none", "tcp", "stream", "background", "monitor"}

\* Steps that wait for a connection.
Waiting == {"asking", "authenticating", "authenticated", "rereading", "reloading",
            "forwarding"}

\* Steps between two statements of a transaction, or at one: of the task's own
\* session, and of a reload's.
Statements == {"connected", "found", "verified", "written", "revoking", "storing"}
Reloads == {"loading"}

Steps ==
    Waiting \cup Statements \cup Reloads
            \cup {"idle", "greeting", "reading", "answering", "waiting", "sleeping"}

TasksTypeOK ==
    /\ op \in [Runners -> Ops]
    /\ step \in [Runners -> Steps]
    /\ out \in SUBSET (Runners \X Sessions)
    /\ Cardinality(out) <= PoolSize

TasksInit ==
    /\ op = [t \in Runners |-> "none"]
    /\ step = [t \in Runners |-> "idle"]
    /\ out = {}

-----------------------------------------------------------------------------

Exhausted == Cardinality(out) >= PoolSize

\* Mutant of CheckOut: poolclass=NullPool.
CheckOutAlways(t, s) == out' = out \cup {<<t, s>>}

CheckOut(t, s) == ~Exhausted /\ out' = out \cup {<<t, s>>}

CheckIn(t) == out' = out \ {<<t, "own">>}

Goes(t, s) == step' = [step EXCEPT ![t] = s] /\ UNCHANGED op

Begins(t, o, s) ==
    /\ op[t] = "none"
    /\ op' = [op EXCEPT ![t] = o]
    /\ step' = [step EXCEPT ![t] = s]
    /\ UNCHANGED out

\* Answered, or failed: `async with` closes all sessions, and a connection
\* that is in a transaction is rolled back.
Ends(t) ==
    /\ op' = [op EXCEPT ![t] = "none"]
    /\ step' = [step EXCEPT ![t] = "idle"]
    /\ out' = out \ ({t} \X Sessions)

\* Mutant of GivesUp: pool_timeout=None.
NeverGivesUp(t) == FALSE

\* The default pool_timeout: QueuePool raises TimeoutError.
GivesUp(t) ==
    /\ step[t] \in Waiting
    /\ Exhausted
    /\ Ends(t)

-----------------------------------------------------------------------------

\* A task that waits for a client holds no connection, nor does one that is
\* over.  Who waits for a connection holds none, but for an authenticated
\* request, which holds that of its authentication, and at its reload possibly
\* that of its last query too: up to three for one request.  So long sessions
\* do not use the pool up, and if all who hold a connection wait for another,
\* all are authenticated requests.  And no statement runs, and no row is locked,
\* on a connection that was given back: it is kept from the first statement to
\* the end of the transaction.
HoldsWhatItUses ==
    /\ \A t \in Runners, s \in Sessions : <<t, s>> \in out =>
          /\ step[t] \notin {"idle", "greeting", "reading", "answering", "waiting", "sleeping"}
          /\ step[t] \in Waiting =>
                \/ s = "auth" /\ op[t] \in Authenticated
                \/ s = "own" /\ op[t] = "write" /\ step[t] = "reloading"
          /\ s = "reload" => op[t] = "write" /\ step[t] = "loading"
    /\ \A t \in Runners :
          /\ step[t] \in Statements => <<t, "own">> \in out
          /\ step[t] \in Reloads => <<t, "reload">> \in out
          /\ op[t] \in Authenticated /\ step[t] # "authenticating" => <<t, "auth">> \in out
=============================================================================
