---------------------------- MODULE MCDeployment ----------------------------
(* An instance of Deployment for TLC.                                      *)
EXTENDS Deployment, TLC

CONSTANTS t1, t2, t3, t4, u1, u2, w1, k1, k2, k3, h1

\* One user has yet to register; the other has logged in before, and what it
\* has must stay as it is.
MCInit ==
    /\ Init
    /\ account = (u1 :> "none" @@ u2 :> "active")
    /\ password = [u \in Users |-> w1]
    /\ owner = [k \in Tokens |-> IF k = k3 THEN u2 ELSE None]
    /\ revoked = {}

\* The user that makes the requests has at most one token, and has revoked and
\* changed nothing.
FewRows ==
    /\ owner[k2] = None /\ revoked = {}
    /\ password[u1] = w1 /\ account[u1] # "inactive"

Comes(t) == op[t] = "none" /\ op'[t] # "none"

\* Bounds.  The backend is started by a broker that has had no trouble, on one
\* of its hosts: it looks at nothing but whether the broker serves.  The
\* second token is made when the first is there.  Who changes a user or its
\* tokens comes while none is revoked, a PATCH with one token at most.  Whoever
\* makes no request or one of the other routers, the monitor, beside which
\* nobody comes, and the end of the process look at no table of users: they
\* come, and requests beside them, with few rows there.  A request that adds a
\* reload meets only others of the other routers: with these it exhausts the
\* pool, and the tables of users are nothing to it.
\* The pool has room for two authenticated requests, so that they meet at the
\* tables.  Two more tasks are there to use it up: they only read, and come
\* when the first two wait for a connection, a PATCH for its second one.
MCNext ==
    /\ Next
    /\ \A t \in Tasks : who'[t] # u2
    /\ phase = "off" /\ phase' # "off" => troubles = 0 /\ host = h1
    /\ \A t \in Tasks : At(t, "login", "connected") /\ k2 \in rows'[t] => owner[k1] # None
    /\ \/ phase = "up" /\ phase' = "draining"
       \/ step[Monitor] = "sleeping" /\ step'[Monitor] = "connected"
       \/ \E t, r \in Tasks : Comes(t) /\ op'[r] \notin (Http \ {"read", "write"}) \cup {"none"}
       => FewRows
    /\ \A t \in Tasks : Comes(t) =>
          /\ step[Monitor] # "connected"
          /\ (\E r \in Tasks : op'[r] = "write") =>
                \A v \in Tasks : op'[v] \in {"none", "read", "write"}
          /\ op'[t] = "create" => account[u1] = "none"
          /\ op'[t] \in {"logout", "full_logout", "change", "patch"} => revoked = {}
          /\ op'[t] = "patch" => owner[k2] = None
          /\ t \in {t1, t2} => op[t3] = "none" /\ op[t4] = "none"
    /\ Comes(t2) => op[t1] # "none"
    /\ Comes(t3) => /\ op'[t3] = "read"
                    /\ At(t1, "read", "authenticated") \/ At(t1, "patch", "rereading")
                    /\ op[t2] \in {"read", "tcp", "stream", "background"} /\ step[t2] \in Waiting
    /\ Comes(t4) => /\ op'[t4] = "read"
                    /\ \A t \in {t2, t3} : At(t, "read", "authenticated")
                    /\ At(t1, "read", "authenticated") \/ At(t1, "patch", "rereading")

MCSpec == MCInit /\ [][MCNext]_vars /\ Fairness
=============================================================================
