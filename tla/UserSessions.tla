---------------------------- MODULE UserSessions ----------------------------
(***************************************************************************)
(* Tables users and refresh_tokens, and the requests that change them.     *)
(*                                                                         *)
(* A request is a task of BackendTasks.  Each await of a statement ends a  *)
(* step; what a transaction has written shows at its commit.  Passwords    *)
(* are checked, and tokens made, in the step of the SELECT before them, as *)
(* nothing is awaited between.  An UPDATE of users locks the row, so a     *)
(* second one waits; one of refresh_tokens is not made to wait here, as    *)
(* all that its holder has left to do is to commit.                        *)
(***************************************************************************)
EXTENDS BackendTasks

CONSTANTS
    Users, Passwords,
    Tokens,       \* bound: refresh tokens ever issued
    None

ASSUME UserAssumption ==
    /\ None \notin Users
    /\ {None, "active", "inactive"} \cap Passwords = {}

VARIABLES
    account,      \* rows of users, and their `active`
    password,     \* users.password_hash
    owner,        \* rows of refresh_tokens: user_id
    revoked,      \* those with revoked = TRUE
    who,          \* the user a request has found to be its own
    arg,          \* what it is to write, or the password its login has verified
    rows,         \* the tokens it is to insert, look at or revoke
    under,        \* history: the password a token was issued under,
    excused,      \*   tokens of a login that raced a change of password,
    missed        \*   and what a change has yet to race so, until it commits

userTables == <<account, password, owner, revoked>>
userLocals == <<who, arg, rows>>
history == <<under, excused, missed>>
userVars == <<userTables, userLocals, history>>

UsersTypeOK ==
    /\ account \in [Users -> {"none", "active", "inactive"}]
    /\ password \in [Users -> Passwords]
    /\ owner \in [Tokens -> Users \cup {None}]
    /\ revoked \in SUBSET Tokens
    /\ who \in [Tasks -> Users \cup {None}]
    /\ arg \in [Tasks -> Passwords \cup {"active", "inactive", None}]
    /\ rows \in [Tasks -> SUBSET Tokens]
    /\ under \in [Tokens -> Passwords \cup {None}]
    /\ excused \in SUBSET Tokens
    /\ missed \in [Tasks -> SUBSET Tokens]

\* The tables as the backend finds them: of an earlier password no token is
\* valid.
UsersInit ==
    /\ account \in [Users -> {"none", "active", "inactive"}]
    /\ password \in [Users -> Passwords]
    /\ owner \in [Tokens -> {u \in Users : account[u] # "none"} \cup {None}]
    /\ revoked \in SUBSET {k \in Tokens : owner[k] # None}
    /\ who = [t \in Tasks |-> None]
    /\ arg = [t \in Tasks |-> None]
    /\ rows = [t \in Tasks |-> {}]
    /\ under = [k \in Tokens |-> IF owner[k] = None THEN None ELSE password[owner[k]]]
    /\ excused = {}
    /\ missed = [t \in Tasks |-> {}]

-----------------------------------------------------------------------------

At(t, o, s) == op[t] = o /\ step[t] = s

Learns(t, u, a, R) ==
    /\ who' = [who EXCEPT ![t] = u]
    /\ arg' = [arg EXCEPT ![t] = a]
    /\ rows' = [rows EXCEPT ![t] = R]
    /\ UNCHANGED <<userTables, history>>

Forgets(t) ==
    /\ who' = [who EXCEPT ![t] = None]
    /\ arg' = [arg EXCEPT ![t] = None]
    /\ rows' = [rows EXCEPT ![t] = {}]

Closes(t) == Forgets(t) /\ missed' = [missed EXCEPT ![t] = {}]

\* Answered with the tables as they are.
Leaves(t) ==
    /\ Ends(t)
    /\ Closes(t)
    /\ UNCHANGED <<userTables, under, excused>>

Owned(u) == {k \in Tokens : owner[k] = u}

\* Tokens no row has yet, nor a login in flight.
Unissued == {k \in Tokens : owner[k] = None /\ \A t \in Tasks : k \notin rows[t]}

\* A token is made by the login that uses it: the bound on them is one on
\* logins.
Request(t, o) ==
    /\ o = "login" => Cardinality({r \in Tasks : op[r] = "login"}) < Cardinality(Unissued)
    /\ Begins(t, o, IF o \in Authenticated THEN "authenticating" ELSE "asking")
    /\ UNCHANGED userVars

\* The session's first statement since its start or its commit.
Connect(t) ==
    /\ op[t] \in Http
    /\ step[t] \in {"asking", "authenticated"}
    /\ CheckOut(t, "own")
    /\ Goes(t, "connected")
    /\ UNCHANGED userVars

\* Mutant of Authenticate: it does not look at `active`.
AuthenticateAnyone(t, u) ==
    /\ op[t] \in Authenticated
    /\ step[t] = "authenticating"
    /\ Owned(u) # {}
    /\ CheckOut(t, "auth")
    /\ Goes(t, "authenticated")
    /\ Learns(t, u, None, {})

\* get_current_user.  An access token is issued with a refresh token and, having
\* no `exp`, stays valid.
Authenticate(t, u) ==
    /\ op[t] \in Authenticated
    /\ step[t] = "authenticating"
    /\ Owned(u) # {} /\ account[u] = "active"
    /\ CheckOut(t, "auth")
    /\ Goes(t, "authenticated")
    /\ Learns(t, u, None, {})

\* 401, 403, 404, 409: what the request holds is not good, or no longer.
Refuse(t) ==
    /\ \/ op[t] \in Public /\ step[t] = "connected"
       \/ At(t, "refresh", "found")
       \/ op[t] \in Authenticated /\ step[t] = "authenticating" /\ ~Exhausted
    /\ Leaves(t)

\* A route without a statement of its own: get_profile; a user_id or current
\* password that is wrong; delete_own_account, whatever it is sent, as it calls
\* a function that is not defined.
AnswerUnasked(t) ==
    /\ op[t] \in Authenticated
    /\ step[t] = "authenticated"
    /\ Leaves(t)

\* A lost connection, or another error of the database.
Fail(t) ==
    /\ op[t] \in Http
    /\ step[t] \in Statements \cup Reloads
    /\ Leaves(t)

\* No connection for the request in time.
RequestTimesOut(t) ==
    /\ op[t] \in Http
    /\ GivesUp(t)
    /\ Closes(t)
    /\ UNCHANGED <<userTables, under, excused>>

-----------------------------------------------------------------------------
(* Registration, login, refresh.                                           *)

\* create_user: the INSERT, with `username` unique, and its commit.
CreateUser(t, u, p) ==
    /\ At(t, "create", "connected")
    /\ account[u] = "none"
    /\ account' = [account EXCEPT ![u] = "active"]
    /\ password' = [password EXCEPT ![u] = p]
    /\ Ends(t)
    /\ UNCHANGED <<owner, revoked, userLocals, history>>

\* login, up to the INSERT of the refresh token.
Verify(t, u, k) ==
    /\ At(t, "login", "connected")
    /\ account[u] = "active"
    /\ k \in Unissued
    /\ Goes(t, "verified")
    /\ Learns(t, u, password[u], {k})
    /\ UNCHANGED out

\* A change of the user's password that has been through its tokens.
PastTokens(c, u) == At(c, "change", "revoking") /\ who[c] = u

\* create_refresh_token and commit.
CommitLogin(t) ==
    LET u == who[t] IN
    /\ At(t, "login", "verified")
    /\ owner' = [k \in Tokens |-> IF k \in rows[t] THEN u ELSE owner[k]]
    /\ under' = [k \in Tokens |-> IF k \in rows[t] THEN arg[t] ELSE under[k]]
    /\ excused' = IF arg[t] # password[u] THEN excused \cup rows[t] ELSE excused
    /\ missed' = [c \in Tasks |->
                     IF PastTokens(c, u) THEN missed[c] \cup rows[t] ELSE missed[c]]
    /\ Ends(t)
    /\ Forgets(t)
    /\ UNCHANGED <<account, password, revoked>>

\* refresh: search_refresh_token, then search_user_by_id and the commit.  The
\* token is not rotated.
FindToken(t, k) ==
    /\ At(t, "refresh", "connected")
    /\ owner[k] # None /\ k \notin revoked
    /\ Goes(t, "found")
    /\ Learns(t, None, None, {k})
    /\ UNCHANGED out

Refresh(t) ==
    /\ At(t, "refresh", "found")
    /\ \A k \in rows[t] : account[owner[k]] = "active"
    /\ Leaves(t)

-----------------------------------------------------------------------------
(* Routes of the other routers: what they do with the pool.                *)

Read(t) ==
    /\ At(t, "read", "connected")
    /\ Leaves(t)

\* The commit of a route that adds a reload, where the Modbus gateway is enabled;
\* some answer with a row that they then look for.
CommitWrite(t) ==
    /\ At(t, "write", "connected")
    /\ CheckIn(t)
    /\ \E s \in {"rereading", "reloading"} : Goes(t, s)
    /\ UNCHANGED userVars

\* The row is there, and answered with; but the sessions of the request stay
\* open for its reload.
RereadWritten(t) ==
    /\ At(t, "write", "rereading")
    /\ CheckOut(t, "own")
    /\ Goes(t, "reloading")
    /\ UNCHANGED userVars

\* reload_map_modbus, in a session of its own.
Reload(t) ==
    /\ At(t, "write", "reloading")
    /\ CheckOut(t, "reload")
    /\ Goes(t, "loading")
    /\ UNCHANGED userVars

\* Mutant of ReloadDone: the reload's session is never closed.
ReloadLeaks(t) ==
    /\ At(t, "write", "loading")
    /\ op' = [op EXCEPT ![t] = "none"]
    /\ step' = [step EXCEPT ![t] = "idle"]
    /\ out' = out \ ({t} \X {"auth", "own"})
    /\ Closes(t)
    /\ UNCHANGED <<userTables, under, excused>>

ReloadDone(t) ==
    /\ At(t, "write", "loading")
    /\ Leaves(t)

-----------------------------------------------------------------------------
(* Routes of a user about itself.                                          *)

\* Mutant of FindOwnToken: WHERE token_hash = ... alone.
FindAnyToken(t, k) ==
    /\ At(t, "logout", "connected")
    /\ owner[k] # None
    /\ Goes(t, "revoking")
    /\ Learns(t, who[t], None, {k})
    /\ UNCHANGED out

\* logout: UPDATE refresh_tokens WHERE token_hash = ... AND user_id = ...
FindOwnToken(t, k) ==
    /\ At(t, "logout", "connected")
    /\ Goes(t, "revoking")
    /\ Learns(t, who[t], None, {k} \cap Owned(who[t]))
    /\ UNCHANGED out

\* From its UPDATE of users to its commit.
HoldsRow(t) == step[t] = "written" \/ At(t, "change", "revoking")

\* Mutant of RowFree: the UPDATE of users is committed before that of the
\* tokens.
RowFreeOnceWritten(u) == \A t \in Tasks : who[t] = u => step[t] # "written"

\* An UPDATE of the user's row waits while another transaction has it.
RowFree(u) == \A t \in Tasks : who[t] = u => ~HoldsRow(t)

\* change_password and PATCH: UPDATE users.  The password was checked against the
\* row as get_current_user had read it.  (chande_own_password is never reached:
\* its path is one of change_password's.)
WriteUser(t, a) ==
    /\ \/ At(t, "change", "connected") /\ a \in Passwords
       \/ At(t, "patch", "connected") /\ a \in {"active", "inactive"}
    /\ RowFree(who[t])
    /\ Goes(t, "written")
    /\ Learns(t, who[t], a, {})
    /\ UNCHANGED out

\* Mutant of SelectTokens: full logout only.
SelectNoTokens(t) ==
    /\ At(t, "full_logout", "connected") \/ At(t, "change", "written")
    /\ Goes(t, "revoking")
    /\ Learns(t, who[t], arg[t], IF op[t] = "change" THEN {} ELSE Owned(who[t]))
    /\ UNCHANGED out

\* revoked_all_refresh_tokens: the UPDATE finds the tokens that are there.
SelectTokens(t) ==
    /\ At(t, "full_logout", "connected") \/ At(t, "change", "written")
    /\ Goes(t, "revoking")
    /\ Learns(t, who[t], arg[t], Owned(who[t]))
    /\ UNCHANGED out

\* Mutant of CommitRevocation: a change of password commits before it revokes.
CommitPasswordAlone(t) ==
    /\ step[t] = "revoking"
    /\ revoked' = IF op[t] = "change" THEN revoked ELSE revoked \cup rows[t]
    /\ password' = IF op[t] = "change" THEN [password EXCEPT ![who[t]] = arg[t]] ELSE password
    /\ excused' = excused \cup missed[t]
    /\ Ends(t)
    /\ Closes(t)
    /\ UNCHANGED <<account, owner, under>>

\* The commit of logout, full_logout and a change of password.  What a change
\* has missed it has raced now.
CommitRevocation(t) ==
    /\ step[t] = "revoking"
    /\ revoked' = revoked \cup rows[t]
    /\ password' = IF op[t] = "change" THEN [password EXCEPT ![who[t]] = arg[t]] ELSE password
    /\ excused' = excused \cup missed[t]
    /\ Ends(t)
    /\ Closes(t)
    /\ UNCHANGED <<account, owner, under>>

\* update_user commits, which gives its connection back, and wants one again
\* for the row that it answers with.
CommitPatch(t) ==
    /\ At(t, "patch", "written")
    /\ account' = [account EXCEPT ![who[t]] = arg[t]]
    /\ CheckIn(t)
    /\ Goes(t, "rereading")
    /\ UNCHANGED <<password, owner, revoked, userLocals, history>>

\* Answered with that row.  If there is none, this is a 500; a write has it too,
\* and no reload then.
Reread(t) ==
    /\ At(t, "patch", "rereading") \/ At(t, "write", "rereading")
    /\ ~Exhausted
    /\ Leaves(t)

-----------------------------------------------------------------------------

\* What the loop and PostgreSQL bring to an end by themselves.
Handle(t) ==
    \/ Connect(t) \/ RequestTimesOut(t) \/ Refuse(t) \/ AnswerUnasked(t)
    \/ \E u \in Users : Authenticate(t, u)
    \/ \E u \in Users, p \in Passwords : CreateUser(t, u, p)
    \/ \E u \in Users, k \in Tokens : Verify(t, u, k)
    \/ CommitLogin(t) \/ Refresh(t) \/ Read(t)
    \/ \E k \in Tokens : FindToken(t, k) \/ FindOwnToken(t, k)
    \/ SelectTokens(t) \/ CommitRevocation(t)
    \/ CommitPatch(t) \/ Reread(t)
    \/ CommitWrite(t) \/ RereadWritten(t) \/ Reload(t) \/ ReloadDone(t)

Update(t) == \E a \in Passwords \cup {"active", "inactive"} : WriteUser(t, a)

-----------------------------------------------------------------------------
(* Properties.                                                             *)

\* "Após troca de senha, todos os refresh tokens são revogados"
\* (router_users.py:92): a token issued under a password that has been
\* replaced is revoked, unless its login was under way while the change was: it
\* committed between the change's look at the tokens and its commit, or had
\* verified the password that the change replaced.  Such a token does stay
\* valid.
OldPasswordTokensRaced ==
    \A k \in Tokens :
        owner[k] # None /\ k \notin revoked /\ under[k] # password[owner[k]] => k \in excused

\* A token is revoked by the commit of a request of its own user only, although
\* logout names it by its hash.
OnlyOwnerRevokes ==
    [][\A k \in revoked' \ revoked : \E t \in Tasks :
          /\ who[t] = owner[k] /\ k \in rows[t]
          /\ step[t] = "revoking" /\ step'[t] = "idle"]_<<revoked>>

\* An account that is inactive, and has no request left that had found it
\* active: it gets none any more, so nothing switches it on again.
Locked(u) == account[u] = "inactive" /\ \A t \in Tasks : who[t] # u

\* A deactivation is final once the requests under way are through: login,
\* refresh and get_current_user all look, and a PATCH needs the latter.
DeactivationIsFinal ==
    [][\A u \in Users : Locked(u) => Locked(u)']_<<account, who>>

\* Between a request's UPDATE of its user and its commit no other commit shows
\* in the row: of a change of password and a PATCH that overlap, one writes to
\* the row after the other has committed.
WritersTakeTurns ==
    [][\A t \in Tasks : HoldsRow(t) /\ HoldsRow(t)' =>
          account'[who[t]] = account[who[t]] /\ password'[who[t]] = password[who[t]]]_userTables

\* What a change has missed counts as excused while it is under way.
excusedBar == excused \cup UNION {missed[t] : t \in Tasks}

Book == INSTANCE AccountBook WITH excused <- excusedBar

\* The requests, each of several statements and two sessions, implement the
\* book: whatever they interleave with, each writes to the tables in one step
\* of it or not at all, and a change of password also has the tokens that were
\* issued after it looked for them revoked or excused.
BookSpec == Book!Spec
=============================================================================
