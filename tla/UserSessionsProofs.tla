------------------------- MODULE UserSessionsProofs -------------------------
(***************************************************************************)
(* Accounts, passwords and refresh tokens, for any number of users, tokens *)
(* and requests at a time; and the types of the whole deployment.          *)
(***************************************************************************)
EXTENDS DeploymentProofs

\* What a request relies on between its statements.  From the moment a change
\* of password has looked for the user's tokens, it has missed those it has not
\* found, unless they are excused: their logins commit while it is under way.
RequestInv(t) ==
    /\ \/ op[t] \in Authenticated /\ step[t] # "authenticating"
       \/ At(t, "login", "verified")
       => who[t] \in Users /\ account[who[t]] # "none"
    /\ At(t, "login", "verified") =>
          arg[t] \in Passwords /\ \A k \in rows[t] : owner[k] = None
    /\ op[t] = "change" /\ step[t] \in {"written", "revoking"} => arg[t] \in Passwords
    /\ At(t, "patch", "written") => arg[t] \in {"active", "inactive"}
    /\ step[t] = "revoking" =>
          op[t] \in {"logout", "full_logout", "change"} /\ rows[t] \subseteq Owned(who[t])
    /\ At(t, "change", "revoking") =>
          Owned(who[t]) \subseteq revoked \cup rows[t] \cup excused \cup missed[t]
    /\ \A k \in missed[t] : At(t, "change", "revoking") /\ owner[k] = who[t]

\* No two logins make the same token.
TokensApart ==
    \A t, r \in Tasks :
        t # r /\ At(t, "login", "verified") /\ At(r, "login", "verified") =>
            rows[t] \cap rows[r] = {}

\* A token is of a user that exists.
TokensOwned == \A k \in Tokens : owner[k] # None => account[owner[k]] # "none"

UsersInv ==
    /\ UsersTypeOK
    /\ \A t \in Tasks : RequestInv(t)
    /\ TokensApart
    /\ TokensOwned
    /\ OldPasswordTokensRaced

-----------------------------------------------------------------------------

\* A step of those who are at no statement of a request's own.
Alone ==
    /\ UNCHANGED userVars
    /\ \A r \in Tasks :
          \/ op'[r] = op[r] /\ step'[r] = step[r]
          \/ /\ ~At(r, "change", "revoking")
             /\ step'[r] \notin {"verified", "written", "revoking"}
             /\ \/ op'[r] \notin Authenticated
                \/ step'[r] = "authenticating"
                \/ op'[r] = op[r] /\ step[r] # "authenticating"

\* Such a step makes no request rely on anything new.
LEMMA TasksAlone ==
    ASSUME UsersInv, Alone
    PROVE  UsersInv'
<1> USE DEF Alone
<1> USE DEF userVars, userTables, userLocals, history, At
<1>1. UsersTypeOK' /\ TokensOwned' /\ OldPasswordTokensRaced'
  BY DEF UsersInv, UsersTypeOK, TokensOwned, OldPasswordTokensRaced
<1>2. \A t \in Tasks : RequestInv(t)'
  BY DEF UsersInv, RequestInv, Owned, Authenticated
<1>3. TokensApart'
  BY DEF UsersInv, TokensApart
<1> QED
  BY <1>1, <1>2, <1>3 DEF UsersInv

\* What a request learns or forgets concerns no other.
LEMMA RequestAlone ==
    ASSUME UsersInv, TasksInv, NEW t \in Tasks, NEW o \in Ops, NEW s \in Steps,
           op' = [op EXCEPT ![t] = o], step' = [step EXCEPT ![t] = s],
           UNCHANGED <<userTables, under, excused>>,
           NEW w \in Users \cup {None},
           NEW a \in Passwords \cup {"active", "inactive", None},
           NEW R \in SUBSET Tokens,
           who' = [who EXCEPT ![t] = w], arg' = [arg EXCEPT ![t] = a],
           rows' = [rows EXCEPT ![t] = R],
           missed' = missed \/ missed' = [missed EXCEPT ![t] = {}],
           RequestInv(t)',
           At(t, "login", "verified")' => R \subseteq Unissued
    PROVE  UsersInv'
<1> USE DEF userTables, At
<1>0. /\ op \in [Runners -> Ops] /\ step \in [Runners -> Steps] /\ Tasks \subseteq Runners
      /\ UsersTypeOK
  BY DEF TasksInv, TasksTypeOK, Runners, UsersInv
<1>1. UsersTypeOK'
  BY <1>0 DEF UsersTypeOK
<1>2. TokensOwned' /\ OldPasswordTokensRaced'
  BY DEF UsersInv, TokensOwned, OldPasswordTokensRaced
<1>3. ASSUME NEW r \in Tasks, r # t
      PROVE  /\ op'[r] = op[r] /\ step'[r] = step[r]
             /\ who'[r] = who[r] /\ arg'[r] = arg[r] /\ rows'[r] = rows[r]
             /\ missed'[r] = missed[r]
  BY <1>0, <1>3 DEF UsersTypeOK
<1>4. ASSUME NEW r \in Tasks
      PROVE  RequestInv(r)'
  BY <1>3 DEF UsersInv, RequestInv, Owned
<1>5. TokensApart'
  <2>1. R = rows'[t]
    BY <1>0 DEF UsersTypeOK
  <2>2. \A r \in Tasks : At(t, "login", "verified")' => R \cap rows[r] = {}
    BY DEF Unissued
  <2> QED
    BY <1>3, <2>1, <2>2 DEF UsersInv, TokensApart
<1> QED
  BY <1>1, <1>2, <1>4, <1>5 DEF UsersInv

-----------------------------------------------------------------------------
(* The requests that write to the tables.                                  *)

\* A new account has a password, and no token yet that could be of another.
LEMMA CreateUserKeeps ==
    ASSUME UsersInv, TasksInv, NEW t \in Tasks, NEW u \in Users, NEW p \in Passwords,
           CreateUser(t, u, p)
    PROVE  UsersInv'
<1> USE DEF CreateUser, At, Ends, userLocals, history
<1>0. /\ op \in [Runners -> Ops] /\ step \in [Runners -> Steps] /\ Tasks \subseteq Runners
      /\ UsersTypeOK
  BY DEF TasksInv, TasksTypeOK, Runners, UsersInv
<1>1. UsersTypeOK'
  BY <1>0 DEF UsersTypeOK
<1>2. \A v \in Users : account[v] # "none" =>
          v # u /\ account'[v] # "none" /\ password'[v] = password[v]
  BY <1>0 DEF UsersTypeOK
<1>3. \A k \in Tokens : owner[k] # None => owner[k] \in Users /\ account[owner[k]] # "none"
  BY <1>0 DEF UsersInv, UsersTypeOK, TokensOwned
<1>4. TokensOwned' /\ OldPasswordTokensRaced'
  BY <1>2, <1>3 DEF UsersInv, TokensOwned, OldPasswordTokensRaced
<1>5. ASSUME NEW r \in Tasks
      PROVE  RequestInv(r)'
  BY <1>0, <1>2 DEF UsersInv, RequestInv, Owned, Authenticated
<1>6. TokensApart'
  BY <1>0 DEF UsersInv, TokensApart
<1> QED
  BY <1>1, <1>4, <1>5, <1>6 DEF UsersInv

\* A token that a change of password has not found is one it has missed.
LEMMA CommitLoginKeeps ==
    ASSUME UsersInv, TasksInv, NEW t \in Tasks, CommitLogin(t)
    PROVE  UsersInv'
<1> USE DEF CommitLogin, At, Ends, Forgets
<1>0. /\ op \in [Runners -> Ops] /\ step \in [Runners -> Steps] /\ Tasks \subseteq Runners
      /\ UsersTypeOK
  BY DEF TasksInv, TasksTypeOK, Runners, UsersInv
<1>1. /\ who[t] \in Users /\ account[who[t]] # "none" /\ arg[t] \in Passwords
      /\ rows[t] \in SUBSET Tokens /\ \A k \in rows[t] : owner[k] = None
  BY <1>0 DEF UsersInv, RequestInv, UsersTypeOK
<1>2. /\ owner' \in [Tokens -> Users \cup {None}]
      /\ under' \in [Tokens -> Passwords \cup {None}]
      /\ excused' \in SUBSET Tokens /\ excused \subseteq excused'
      /\ missed' \in [Tasks -> SUBSET Tokens]
  BY <1>0, <1>1 DEF UsersTypeOK
<1>3. UsersTypeOK'
  BY <1>0, <1>2 DEF UsersTypeOK
<1>4. \A k \in Tokens : /\ k \in rows[t] => owner'[k] = who[t] /\ under'[k] = arg[t]
                        /\ k \notin rows[t] => owner'[k] = owner[k] /\ under'[k] = under[k]
  BY <1>0 DEF UsersTypeOK
<1>5. TokensOwned'
  BY <1>1, <1>4 DEF UsersInv, TokensOwned
<1>6. OldPasswordTokensRaced'
  BY <1>1, <1>2, <1>4 DEF UsersInv, OldPasswordTokensRaced
<1>7. ASSUME NEW r \in Tasks
      PROVE  RequestInv(r)'
  <2>1. CASE r = t
    <3>1. missed'[t] = {}
      BY <1>0 DEF PastTokens, UsersInv, RequestInv
    <3> QED
      BY <1>0, <2>1, <3>1 DEF RequestInv, Authenticated
  <2>2. CASE r # t
    <3>1. /\ op'[r] = op[r] /\ step'[r] = step[r]
          /\ who'[r] = who[r] /\ arg'[r] = arg[r] /\ rows'[r] = rows[r]
          /\ UNCHANGED <<account, revoked>>
          /\ RequestInv(r)
      BY <1>0, <2>2 DEF UsersTypeOK, UsersInv
    <3>2. At(r, "login", "verified") => \A k \in rows[r] : owner'[k] = None
      <4>1. At(r, "login", "verified") => rows[r] \cap rows[t] = {}
        BY <2>2 DEF UsersInv, TokensApart
      <4>2. rows[r] \subseteq Tokens
        BY <1>0 DEF UsersTypeOK
      <4> QED
        BY <1>4, <3>1, <4>1, <4>2 DEF RequestInv
    <3>3. Owned(who[r])' \subseteq Owned(who[r]) \cup (IF who[r] = who[t] THEN rows[t] ELSE {})
      BY <1>4, <3>1 DEF Owned
    <3>4. missed'[r] = IF At(r, "change", "revoking") /\ who[r] = who[t]
                       THEN missed[r] \cup rows[t] ELSE missed[r]
      BY DEF PastTokens
    <3>5. step[r] = "revoking" => rows[r] \subseteq Owned(who[r])'
      <4>1. step[r] = "revoking" => who[r] \in Users /\ rows[r] \subseteq Owned(who[r])
        BY <3>1 DEF RequestInv, Authenticated
      <4> QED
        BY <1>1, <1>4, <3>1, <4>1, UserAssumption DEF Owned
    <3>6. At(r, "change", "revoking") =>
             Owned(who[r])' \subseteq revoked \cup rows[r] \cup excused' \cup missed'[r]
      BY <1>2, <3>1, <3>3, <3>4 DEF RequestInv
    <3>7. ASSUME NEW k \in missed'[r]
          PROVE  At(r, "change", "revoking") /\ owner'[k] = who[r]
      <4>1. CASE k \in rows[t] /\ At(r, "change", "revoking") /\ who[r] = who[t]
        BY <1>1, <1>4, <4>1
      <4>2. CASE k \in missed[r]
        <5>1. At(r, "change", "revoking") /\ owner[k] = who[r] /\ k \in Tokens
          BY <1>0, <3>1, <4>2 DEF RequestInv, UsersTypeOK
        <5>2. who[r] \in Users
          BY <3>1, <5>1 DEF RequestInv, Authenticated
        <5> QED
          BY <1>1, <1>4, <5>1, <5>2, UserAssumption
      <4> QED
        BY <3>4, <3>7, <4>1, <4>2
    <3> QED
      BY <3>1, <3>2, <3>5, <3>6, <3>7 DEF RequestInv, Owned
  <2> QED
    BY <2>1, <2>2
<1>8. TokensApart'
  BY <1>0 DEF UsersInv, UsersTypeOK, TokensApart
<1> QED
  BY <1>3, <1>5, <1>6, <1>7, <1>8 DEF UsersInv

\* A change of password revokes all tokens of its user but the excused, and
\* those that it has missed.
LEMMA CommitRevocationKeeps ==
    ASSUME UsersInv, TasksInv, NEW t \in Tasks, CommitRevocation(t)
    PROVE  UsersInv'
<1> USE DEF CommitRevocation, At, Ends, Closes, Forgets
<1>0. /\ op \in [Runners -> Ops] /\ step \in [Runners -> Steps] /\ Tasks \subseteq Runners
      /\ UsersTypeOK
  BY DEF TasksInv, TasksTypeOK, Runners, UsersInv
<1>1. /\ who[t] \in Users /\ rows[t] \in SUBSET Tokens
      /\ op[t] = "change" => /\ arg[t] \in Passwords
                             /\ Owned(who[t]) \subseteq revoked \cup rows[t] \cup excused'
  BY <1>0 DEF UsersInv, RequestInv, UsersTypeOK, Authenticated
<1>2. /\ password' \in [Users -> Passwords] /\ revoked' \in SUBSET Tokens
      /\ excused' \in SUBSET Tokens /\ excused \subseteq excused'
      /\ missed' \in [Tasks -> SUBSET Tokens]
  BY <1>0, <1>1 DEF UsersTypeOK
<1>3. UsersTypeOK'
  BY <1>0, <1>2 DEF UsersTypeOK
<1>4. TokensOwned'
  BY DEF UsersInv, TokensOwned
<1>5. OldPasswordTokensRaced'
  <2>1. SUFFICES ASSUME NEW k \in Tokens, owner[k] # None, k \notin revoked, k \notin rows[t],
                        under[k] # password'[owner[k]]
                 PROVE  k \in excused'
    BY DEF OldPasswordTokensRaced
  <2>2. CASE op[t] = "change" /\ owner[k] = who[t]
    BY <1>1, <2>1, <2>2 DEF Owned
  <2>3. CASE ~(op[t] = "change" /\ owner[k] = who[t])
    <3>1. password'[owner[k]] = password[owner[k]]
      BY <1>0, <1>1, <2>1, <2>3 DEF UsersTypeOK
    <3> QED
      BY <1>2, <2>1, <3>1 DEF UsersInv, OldPasswordTokensRaced
  <2> QED
    BY <2>2, <2>3
<1>6. ASSUME NEW r \in Tasks
      PROVE  RequestInv(r)'
  BY <1>0 DEF UsersInv, RequestInv, UsersTypeOK, Owned, Authenticated
<1>7. TokensApart'
  BY <1>0 DEF UsersInv, UsersTypeOK, TokensApart
<1> QED
  BY <1>3, <1>4, <1>5, <1>6, <1>7 DEF UsersInv

\* PATCH switches an account on or off, and never away.
LEMMA CommitPatchKeeps ==
    ASSUME UsersInv, TasksInv, NEW t \in Tasks, CommitPatch(t)
    PROVE  UsersInv'
<1> USE DEF CommitPatch, At, Goes, userLocals, history
<1>0. /\ op \in [Runners -> Ops] /\ step \in [Runners -> Steps] /\ Tasks \subseteq Runners
      /\ UsersTypeOK
  BY DEF TasksInv, TasksTypeOK, Runners, UsersInv
<1>1. arg[t] \in {"active", "inactive"}
  BY DEF UsersInv, RequestInv
<1>2. UsersTypeOK'
  BY <1>0, <1>1 DEF UsersTypeOK
<1>3. \A v \in Users : account[v] # "none" => account'[v] # "none"
  BY <1>0, <1>1 DEF UsersTypeOK
<1>4. \A k \in Tokens : owner[k] # None => owner[k] \in Users /\ account[owner[k]] # "none"
  BY <1>0 DEF UsersInv, UsersTypeOK, TokensOwned
<1>5. TokensOwned' /\ OldPasswordTokensRaced'
  BY <1>3, <1>4 DEF UsersInv, TokensOwned, OldPasswordTokensRaced
<1>6. ASSUME NEW r \in Tasks
      PROVE  RequestInv(r)'
  BY <1>0, <1>3 DEF UsersInv, RequestInv, Owned, Authenticated
<1>7. TokensApart'
  BY <1>0 DEF UsersInv, TokensApart
<1> QED
  BY <1>2, <1>5, <1>6, <1>7 DEF UsersInv

-----------------------------------------------------------------------------

\* Every statement of a request keeps the invariant.
LEMMA RequestKeeps ==
    ASSUME UsersInv, TasksInv, NEW t \in Tasks, Handle(t) \/ Update(t) \/ Fail(t)
    PROVE  UsersInv'
<1> USE DEF At
<1>0. /\ op \in [Runners -> Ops] /\ step \in [Runners -> Steps] /\ Tasks \subseteq Runners
      /\ UsersTypeOK /\ RequestInv(t)
      /\ op[t] \in Ops /\ op = [op EXCEPT ![t] = op[t]]
  BY DEF TasksInv, TasksTypeOK, Runners, UsersInv
<1>a. /\ None \in Users \cup {None} /\ {} \in SUBSET Tokens
      /\ None \in Passwords \cup {"active", "inactive", None}
  OBVIOUS
<1>1. ASSUME Ends(t), Closes(t), UNCHANGED <<userTables, under, excused>>
      PROVE  UsersInv'
  <2>1. RequestInv(t)' /\ ~At(t, "login", "verified")'
    BY <1>0, <1>1 DEF Ends, Closes, UsersTypeOK, RequestInv, Authenticated
  <2>2. "none" \in Ops /\ "idle" \in Steps
    BY DEF Ops, Steps, Statements
  <2> QED
    BY <1>a, <1>1, <2>1, <2>2, RequestAlone DEF Ends, Closes, Forgets
<1>2. CASE Leaves(t) \/ RequestTimesOut(t) \/ Fail(t) \/ Refuse(t) \/ AnswerUnasked(t)
           \/ Refresh(t) \/ Read(t) \/ Reread(t) \/ ReloadDone(t)
  BY <1>1, <1>2 DEF Leaves, RequestTimesOut, Fail, Refuse, AnswerUnasked, Refresh, Read, Reread,
                    ReloadDone, GivesUp
<1>3. CASE Connect(t) \/ CommitWrite(t) \/ RereadWritten(t) \/ Reload(t)
  BY <1>0, <1>3, TasksAlone DEF Alone, Connect, CommitWrite, RereadWritten, Reload, Goes
<1>4. CASE \E u \in Users : Authenticate(t, u)
  <2>1. PICK u \in Users : Authenticate(t, u)
    BY <1>4
  <2>2. RequestInv(t)' /\ ~At(t, "login", "verified")'
    BY <1>0, <2>1 DEF Authenticate, Goes, Learns, userTables, history, UsersTypeOK, RequestInv, Authenticated
  <2>3. "authenticated" \in Steps
    BY DEF Steps, Statements, Waiting
  <2>4. u \in Users \cup {None}
    OBVIOUS
  <2> QED
    BY <1>0, <1>a, <2>1, <2>2, <2>3, <2>4, RequestAlone DEF Authenticate, Goes, Learns, history
<1>5. CASE \E u \in Users, p \in Passwords : CreateUser(t, u, p)
  BY <1>5, CreateUserKeeps
<1>6. CASE \E u \in Users, k \in Tokens : Verify(t, u, k)
  <2>1. PICK u \in Users, k \in Tokens : Verify(t, u, k)
    BY <1>6
  <2>2. password[u] \in Passwords
    BY <1>0 DEF UsersTypeOK
  <2>3. RequestInv(t)'
    BY <1>0, <2>1, <2>2
    DEF Verify, Goes, Learns, Unissued, userTables, history, UsersTypeOK, RequestInv, Authenticated
  <2>4. "verified" \in Steps
    BY DEF Steps, Statements
  <2>5. /\ {k} \subseteq Unissued /\ {k} \in SUBSET Tokens /\ u \in Users \cup {None}
        /\ password[u] \in Passwords \cup {"active", "inactive", None}
    BY <2>1, <2>2 DEF Verify
  <2> QED
    BY <1>0, <2>1, <2>2, <2>3, <2>4, <2>5, RequestAlone DEF Verify, Goes, Learns, history
<1>7. CASE CommitLogin(t)
  BY <1>7, CommitLoginKeeps
<1>8. CASE \E k \in Tokens : FindToken(t, k)
  <2>1. PICK k \in Tokens : FindToken(t, k)
    BY <1>8
  <2>2. RequestInv(t)' /\ ~At(t, "login", "verified")'
    BY <1>0, <2>1 DEF FindToken, Goes, Learns, userTables, history, RequestInv, Authenticated
  <2>3. "found" \in Steps /\ {k} \in SUBSET Tokens
    BY DEF Steps, Statements
  <2> QED
    BY <1>0, <1>a, <2>1, <2>2, <2>3, RequestAlone DEF FindToken, Goes, Learns, history
<1>9. ASSUME NEW R \in SUBSET Tokens, NEW a \in Passwords \cup {"active", "inactive", None},
             Goes(t, "revoking"), Learns(t, who[t], a, R),
             op[t] \in {"logout", "full_logout", "change"}, step[t] \in {"connected", "written"},
             R \subseteq Owned(who[t]),
             op[t] = "change" => a \in Passwords /\ R = Owned(who[t])
      PROVE  UsersInv'
  <2>1. who[t] \in Users /\ account[who[t]] # "none"
    BY <1>0, <1>9 DEF RequestInv, Authenticated
  <2>2. RequestInv(t)' /\ ~At(t, "login", "verified")'
    BY <1>0, <1>9, <2>1
    DEF Goes, Learns, userTables, history, UsersTypeOK, RequestInv, Owned, Authenticated
  <2>3. "revoking" \in Steps
    BY DEF Steps, Statements
  <2> QED
    BY <1>0, <1>9, <2>1, <2>2, <2>3, RequestAlone DEF Goes, Learns, history
<1>10. CASE \E k \in Tokens : FindOwnToken(t, k)
  <2>1. PICK k \in Tokens : FindOwnToken(t, k)
    BY <1>10
  <2>2. {k} \cap Owned(who[t]) \in SUBSET Tokens
    OBVIOUS
  <2> QED
    BY <2>1, <2>2, <1>9 DEF FindOwnToken
<1>11. CASE SelectTokens(t)
  <2>1. Owned(who[t]) \in SUBSET Tokens
    BY DEF Owned
  <2>2. /\ arg[t] \in Passwords \cup {"active", "inactive", None}
        /\ op[t] = "change" => arg[t] \in Passwords
    BY <1>0, <1>11 DEF SelectTokens, UsersTypeOK, RequestInv
  <2> QED
    BY <1>11, <2>1, <2>2, <1>9 DEF SelectTokens
<1>12. CASE CommitRevocation(t)
  BY <1>12, CommitRevocationKeeps
<1>13. CASE CommitPatch(t)
  BY <1>13, CommitPatchKeeps
<1>14. CASE Update(t)
  <2>1. PICK a \in Passwords \cup {"active", "inactive"} : WriteUser(t, a)
    BY <1>14 DEF Update
  <2>2. op[t] \in {"change", "patch"} /\ step[t] = "connected"
    BY <2>1 DEF WriteUser
  <2>3. who[t] \in Users /\ account[who[t]] # "none"
    BY <1>0, <2>2 DEF RequestInv, Authenticated
  <2>4. RequestInv(t)' /\ ~At(t, "login", "verified")'
    BY <1>0, <2>1, <2>2, <2>3
    DEF WriteUser, Goes, Learns, userTables, history, UsersTypeOK, RequestInv, Authenticated
  <2>5. /\ "written" \in Steps /\ who[t] \in Users \cup {None}
        /\ a \in Passwords \cup {"active", "inactive", None}
    BY <2>3 DEF Steps, Statements
  <2> QED
    BY <1>0, <1>a, <2>1, <2>3, <2>4, <2>5, RequestAlone DEF WriteUser, Goes, Learns, history
<1> QED
  BY <1>2, <1>3, <1>4, <1>5, <1>6, <1>7, <1>8, <1>10, <1>11, <1>12, <1>13, <1>14 DEF Handle

\* Who has no request of its own here has none after, and writes no table.
LEMMA BystanderAlone ==
    ASSUME TasksInv, NEW t \in Runners, Proceeds(t), op[t] \notin Http, UNCHANGED userVars
    PROVE  Alone
<1>1. op \in [Runners -> Ops] /\ step \in [Runners -> Steps] /\ Tasks \subseteq Runners
  BY DEF TasksInv, TasksTypeOK, Runners
<1>2. PICK o, s : /\ op' = [op EXCEPT ![t] = o] /\ step' = [step EXCEPT ![t] = s]
                  /\ o \notin Http /\ s \notin {"verified", "written", "revoking"}
  <2>1. CASE Ends(t)
    <3>1. "none" \notin Http /\ "idle" \notin {"verified", "written", "revoking"}
      BY DEF Http, Public, Authenticated
    <3> QED
      BY <2>1, <3>1 DEF Ends
  <2>2. CASE \E s \in Steps \ {"verified", "written", "revoking"} : Goes(t, s)
    BY <1>1, <2>2 DEF Goes
  <2>3. Authenticated \subseteq Http
    BY DEF Http
  <2> QED
    BY <2>1, <2>2, <2>3 DEF Proceeds, Steps, Statements, Reloads, Waiting
<1> QED
  BY <1>1, <1>2 DEF Alone, At, Http, Authenticated

\* The tables may be any that the backend has left behind; no request is there.
LEMMA UsersInitial == Init => UsersInv
<1> SUFFICES ASSUME Init PROVE UsersInv
  OBVIOUS
<1> USE UserAssumption DEF Init, TasksInit, UsersInit
<1>1. UsersTypeOK
  <2>1. owner \in [Tokens -> Users \cup {None}]
    OBVIOUS
  <2> QED
    BY <2>1 DEF UsersTypeOK
<1>2. \A t \in Tasks : op[t] = "none" /\ step[t] = "idle"
  BY DEF Runners
<1>3. \A t \in Tasks : RequestInv(t)
  BY <1>2 DEF RequestInv, At, Authenticated
<1>4. TokensApart
  BY <1>2 DEF TokensApart, At
<1>5. TokensOwned /\ OldPasswordTokensRaced
  BY DEF TokensOwned, OldPasswordTokensRaced
<1> QED
  BY <1>1, <1>3, <1>4, <1>5 DEF UsersInv

\* A step of the deployment is one of a request, or leaves the users alone.
LEMMA UsersMoves ==
    ASSUME TasksInv, PhasesInv, [Next]_vars
    PROVE  Alone \/ \E t \in Tasks : Handle(t) \/ Update(t) \/ Fail(t)
<1>0. /\ op \in [Runners -> Ops] /\ step \in [Runners -> Steps]
      /\ Tasks \subseteq Runners /\ Monitor \in Runners \ Tasks
  BY PoolAssumption DEF TasksInv, TasksTypeOK, Runners
<1> USE DEF At
<1>1. CASE UNCHANGED <<op, step, userVars>>
  BY <1>1 DEF Alone
<1>2. CASE UNCHANGED vars \/ BrokerStep \/ Terminate
  BY <1>1, <1>2 DEF vars, taskVars, BrokerStep, Terminate
<1>3. CASE LifespanNext
  <2>1. CASE MqttStart \/ TcpStart \/ SessionsClosed
    BY <1>1, <2>1 DEF MqttStart, TcpStart, SessionsClosed, taskVars
  <2>2. CASE GatewaysStart \/ Drained
    BY <1>0, <2>2 DEF Alone, GatewaysStart, Drained, Begins, Ends
  <2>3. CASE Dispose
    BY <1>0, <2>3 DEF Alone, Dispose, Phase, PhasesInv, Authenticated
  <2> QED
    BY <1>3, <2>1, <2>2, <2>3 DEF LifespanNext
<1>4. CASE MonitorStep
  BY <1>0, <1>4 DEF Alone, MonitorStep, MonitorConnects, MonitorDone, Goes
<1>5. CASE \E t \in Tasks : TakeRequest(t) \/ TakeClient(t) \/ TakeStream(t) \/ Schedule(t)
  <2>1. PICK t \in Tasks : TakeRequest(t) \/ TakeClient(t) \/ TakeStream(t) \/ Schedule(t)
    BY <1>5
  <2>2. CASE TakeRequest(t)
    BY <1>0, <2>2 DEF Alone, TakeRequest, Request, Begins
  <2>3. CASE TakeClient(t) \/ TakeStream(t) \/ Schedule(t)
    BY <1>0, <2>3
    DEF Alone, TakeClient, AcceptClient, TakeStream, Schedule, Begins, Authenticated
  <2> QED
    BY <2>1, <2>2, <2>3
<1>6. CASE \E t \in Tasks : RequestStep(t) \/ UpdateStep(t) \/ FailStep(t)
  BY <1>6 DEF RequestStep, UpdateStep, FailStep
<1>7. CASE \E t \in Tasks : SessionStep(t) \/ SessionEvent(t)
  <2>1. PICK t \in Tasks : SessionStep(t) \/ SessionEvent(t)
    BY <1>7
  <2>2. op[t] = "tcp" /\ UNCHANGED userVars
    BY <2>1
    DEF SessionStep, SessionEvent, SessionHandles, SessionHears, Session, ClientDone, AskDevice,
        SessionTimesOut, DeviceKnown, DeviceRefused, StoreReading, CommitReading, Greeted,
        AnswerAtOnce, Answered, AnswerLost, TakeReadings, ReadingFails
  <2>3. "tcp" \notin Http
    BY DEF Http, Public, Authenticated
  <2> QED
    BY <1>0, <2>1, <2>2, <2>3, SessionMoves, BystanderAlone DEF SessionStep, SessionEvent
<1>8. CASE \E t \in Tasks : OtherStep(t) \/ OtherEvent(t)
  <2>1. PICK t \in Tasks : OtherStep(t) \/ OtherEvent(t)
    BY <1>8
  <2>2. op[t] \in {"stream", "background"} /\ UNCHANGED userVars
    BY <2>1
    DEF OtherStep, OtherEvent, StreamLooksUp, StreamOpens, OtherTimesOut, BackgroundConnects,
        BackgroundEnds, StreamEnds, StreamRefused, At
  <2>3. {"stream", "background"} \cap Http = {}
    BY DEF Http, Public, Authenticated
  <2> QED
    BY <1>0, <2>1, <2>2, <2>3, OtherMoves, BystanderAlone
<1> QED
  BY <1>2, <1>3, <1>4, <1>5, <1>6, <1>7, <1>8 DEF Next

\* What the tables and the requests hold goes together in every step.
LEMMA UsersKept ==
    ASSUME TasksInv, PhasesInv, UsersInv, [Next]_vars
    PROVE  UsersInv'
  BY UsersMoves, TasksAlone, RequestKeeps

\* All that this rests on, at the start and from step to step.
AllInv == TasksInv /\ PhasesInv /\ UsersInv

\* Tasks and users keep their invariants together.
LEMMA AllKept ==
    /\ Init => AllInv
    /\ AllInv /\ [Next]_vars => AllInv'
<1>1. Init => AllInv
  BY TasksInitial, PhasesInitial, UsersInitial DEF AllInv
<1>2. ASSUME AllInv, [Next]_vars PROVE AllInv'
  BY <1>2, TasksKept, PhasesKept, UsersKept DEF AllInv
<1> QED
  BY <1>1, <1>2

\* For any number of users, tokens and requests at a time: no refresh token is
\* valid of a password that was replaced, but for logins that raced the change.
THEOREM OldTokensAreRevoked == Spec => []OldPasswordTokensRaced
<1>1. AllInv => OldPasswordTokensRaced
  BY DEF AllInv, UsersInv
<1> QED
  BY <1>1, AllKept, PTL DEF Spec

\* What is revoked, a logout, full_logout or change of password of the token's
\* own user revokes by its commit, whatever token logout is sent and whoever
\* logs in meanwhile.
THEOREM OwnersRevoke == Spec => OnlyOwnerRevokes
<1>1. ASSUME AllInv, [Next]_vars
      PROVE  [\A k \in revoked' \ revoked : \E t \in Tasks :
                 /\ who[t] = owner[k] /\ k \in rows[t]
                 /\ step[t] = "revoking" /\ step'[t] = "idle"]_<<revoked>>
  <2>1. CASE UNCHANGED revoked
    BY <2>1
  <2>2. CASE \E t \in Tasks : CommitRevocation(t)
    <3>1. PICK t \in Tasks : CommitRevocation(t)
      BY <2>2
    <3>2. /\ rows[t] \subseteq Owned(who[t]) /\ revoked' = revoked \cup rows[t]
          /\ step[t] = "revoking"
      BY <1>1, <3>1 DEF AllInv, UsersInv, RequestInv, CommitRevocation
    <3>3. step'[t] = "idle"
      BY <1>1, <3>1 DEF CommitRevocation, Ends, AllInv, TasksInv, TasksTypeOK, Runners
    <3> QED
      BY <3>2, <3>3 DEF Owned
  <2>3. UNCHANGED revoked \/ \E t \in Tasks : CommitRevocation(t)
    <3>1. CASE Alone
      BY <3>1 DEF Alone, userVars, userTables
    <3>2. CASE \E t \in Tasks : Handle(t) \/ Update(t) \/ Fail(t)
      <4>1. PICK t \in Tasks : Handle(t) \/ Update(t) \/ Fail(t)
        BY <3>2
      <4> QED
        BY <4>1
        DEF Handle, Update, Fail, Connect, RequestTimesOut, Refuse, AnswerUnasked, Authenticate,
            CreateUser, Verify, CommitLogin, Refresh, Read, FindToken, FindOwnToken, SelectTokens,
            CommitPatch, Reread, WriteUser, CommitWrite, RereadWritten, Reload, ReloadDone,
            Leaves, Learns, userVars, userTables
    <3> QED
      BY <1>1, <3>1, <3>2, UsersMoves DEF AllInv
  <2> QED
    BY <2>1, <2>2, <2>3
<1> QED
  BY <1>1, AllKept, PTL DEF Spec, OnlyOwnerRevokes

\* An inactive account without a request under way stays as it is, for good.
THEOREM DeactivationsAreFinal == Spec => DeactivationIsFinal
<1>1. ASSUME AllInv, [Next]_vars, NEW u \in Users, Locked(u)
      PROVE  Locked(u)'
  <2>0. /\ UsersTypeOK /\ account[u] = "inactive" /\ u # None /\ \A r \in Tasks : who[r] # u
    BY <1>1, UserAssumption DEF AllInv, UsersInv, Locked
  <2>1. CASE Alone
    BY <1>1, <2>1 DEF Alone, userVars, userTables, userLocals, Locked
  <2>2. CASE \E t \in Tasks : Handle(t) \/ Update(t) \/ Fail(t)
    <3>1. PICK t \in Tasks : Handle(t) \/ Update(t) \/ Fail(t)
      BY <2>2
    <3>2. ASSUME UNCHANGED account,
                 who' = who \/ \E w : who' = [who EXCEPT ![t] = w] /\ w # u
          PROVE  Locked(u)'
      BY <2>0, <3>2 DEF UsersTypeOK, Locked
    <3>3. CASE \/ Connect(t) \/ RequestTimesOut(t) \/ Refuse(t) \/ AnswerUnasked(t) \/ Fail(t)
               \/ CommitLogin(t) \/ Refresh(t) \/ Read(t) \/ CommitRevocation(t) \/ Reread(t)
               \/ CommitWrite(t) \/ RereadWritten(t) \/ Reload(t) \/ ReloadDone(t)
      BY <2>0, <3>2, <3>3
      DEF Connect, RequestTimesOut, Refuse, AnswerUnasked, Fail, CommitLogin, Refresh, Read,
          CommitRevocation, Reread, CommitWrite, RereadWritten, Reload, ReloadDone, Leaves, Closes,
          Forgets, userVars, userTables, userLocals
    <3>4. CASE \/ Update(t) \/ SelectTokens(t) \/ \E k \in Tokens : FindToken(t, k) \/ FindOwnToken(t, k)
               \/ \E v \in Users : Authenticate(t, v) \/ \E k \in Tokens : Verify(t, v, k)
      BY <2>0, <3>2, <3>4
      DEF Update, WriteUser, SelectTokens, FindToken, FindOwnToken, Authenticate, Verify, Learns,
          userTables
    <3>5. CASE \E v \in Users, p \in Passwords : CreateUser(t, v, p)
      BY <2>0, <3>5 DEF CreateUser, userLocals, UsersTypeOK, Locked
    <3>6. CASE CommitPatch(t)
      BY <2>0, <3>6 DEF CommitPatch, userLocals, UsersTypeOK, Locked
    <3> QED
      BY <3>1, <3>3, <3>4, <3>5, <3>6 DEF Handle
  <2> QED
    BY <1>1, <2>1, <2>2, UsersMoves DEF AllInv
<1>2. ASSUME AllInv, [Next]_vars
      PROVE  [\A u \in Users : Locked(u) => Locked(u)']_<<account, who>>
  BY <1>1, <1>2
<1> QED
  BY <1>2, AllKept, PTL DEF Spec, DeactivationIsFinal

-----------------------------------------------------------------------------
(* Rows of users are locked from an UPDATE to its commit.                  *)

\* Only a change of password or a PATCH holds a row, and no two the same.
RowsApart ==
    /\ \A t \in Tasks : step[t] = "written" => op[t] \in {"change", "patch"}
    /\ \A t, r \in Tasks : t # r /\ HoldsRow(t) /\ HoldsRow(r) => who[t] # who[r]

\* A request moves none but itself.
LEMMA OthersStay ==
    ASSUME AllInv, NEW t \in Tasks, Handle(t) \/ Update(t) \/ Fail(t), NEW r \in Tasks \ {t}
    PROVE  op'[r] = op[r] /\ step'[r] = step[r] /\ who'[r] = who[r]
<1>1. op \in [Runners -> Ops] /\ step \in [Runners -> Steps] /\ t # r
      /\ t \in Runners /\ r \in Runners /\ who \in [Tasks -> Users \cup {None}]
  BY DEF AllInv, TasksInv, TasksTypeOK, Runners, UsersInv, UsersTypeOK
<1>2. ASSUME Ends(t) \/ \E s : Goes(t, s)
      PROVE  op'[r] = op[r] /\ step'[r] = step[r]
  BY <1>1, <1>2 DEF Ends, Goes
<1>3. ASSUME Forgets(t) \/ UNCHANGED who \/ \E u, a, R : Learns(t, u, a, R)
      PROVE  who'[r] = who[r]
  BY <1>1, <1>3 DEF Forgets, Learns
<1>4. CASE \/ RequestTimesOut(t) \/ Refuse(t) \/ AnswerUnasked(t) \/ Fail(t)
           \/ CommitLogin(t) \/ Refresh(t) \/ Read(t) \/ CommitRevocation(t) \/ Reread(t)
           \/ ReloadDone(t)
  <2>1. Ends(t) /\ Forgets(t)
    BY <1>4 DEF RequestTimesOut, Refuse, AnswerUnasked, Fail, CommitLogin, Refresh, Read,
                CommitRevocation, Reread, ReloadDone, Leaves, Closes, GivesUp
  <2> QED
    BY <2>1, <1>2, <1>3
<1>5. CASE \/ Update(t) \/ SelectTokens(t) \/ \E k \in Tokens : FindToken(t, k) \/ FindOwnToken(t, k)
           \/ \E v \in Users : Authenticate(t, v) \/ \E k \in Tokens : Verify(t, v, k)
  <2>1. (\E s : Goes(t, s)) /\ \E u, a, R : Learns(t, u, a, R)
    BY <1>5 DEF Update, WriteUser, SelectTokens, FindToken, FindOwnToken, Authenticate, Verify
  <2> QED
    BY <2>1, <1>2, <1>3
<1>6. CASE \/ Connect(t) \/ CommitPatch(t) \/ \E v \in Users, p \in Passwords : CreateUser(t, v, p)
           \/ CommitWrite(t) \/ RereadWritten(t) \/ Reload(t)
  <2>1. (Ends(t) \/ \E s : Goes(t, s)) /\ UNCHANGED who
    BY <1>6 DEF Connect, CommitPatch, CreateUser, CommitWrite, RereadWritten, Reload, userVars,
                userLocals
  <2> QED
    BY <2>1, <1>2, <1>3
<1> QED
  BY <1>4, <1>5, <1>6 DEF Handle

\* A request comes to hold its row when no other does, and for as long as it
\* holds it, it is the same row.
LEMMA RowTaken ==
    ASSUME AllInv, RowsApart, NEW t \in Tasks, Handle(t) \/ Update(t) \/ Fail(t)
    PROVE  /\ step'[t] = "written" => op'[t] \in {"change", "patch"}
           /\ HoldsRow(t)' => who'[t] = who[t] /\ (HoldsRow(t) \/ RowFree(who[t]))
<1> USE DEF HoldsRow, At
<1>1. op \in [Runners -> Ops] /\ step \in [Runners -> Steps]
      /\ t \in Runners /\ who \in [Tasks -> Users \cup {None}]
  BY DEF AllInv, TasksInv, TasksTypeOK, Runners, UsersInv, UsersTypeOK
<1>2. CASE \/ RequestTimesOut(t) \/ Refuse(t) \/ AnswerUnasked(t) \/ Fail(t)
           \/ CommitLogin(t) \/ Refresh(t) \/ Read(t) \/ CommitRevocation(t) \/ Reread(t)
           \/ ReloadDone(t) \/ \E v \in Users, p \in Passwords : CreateUser(t, v, p)
  <2>1. Ends(t)
    BY <1>2 DEF RequestTimesOut, Refuse, AnswerUnasked, Fail, CommitLogin, Refresh, Read,
                CommitRevocation, Reread, ReloadDone, Leaves, GivesUp, CreateUser
  <2> QED
    BY <1>1, <2>1 DEF Ends
<1>3. CASE \/ Connect(t) \/ CommitPatch(t) \/ \E k \in Tokens : FindToken(t, k) \/ FindOwnToken(t, k)
           \/ \E v \in Users : Authenticate(t, v) \/ \E k \in Tokens : Verify(t, v, k)
           \/ CommitWrite(t) \/ RereadWritten(t) \/ Reload(t)
  BY <1>1, <1>3 DEF Connect, CommitPatch, FindToken, FindOwnToken, Authenticate, Verify, CommitWrite,
                    RereadWritten, Reload, Goes
<1>4. CASE SelectTokens(t)
  BY <1>1, <1>4 DEF SelectTokens, Goes, Learns
<1>5. CASE Update(t)
  BY <1>1, <1>5 DEF Update, WriteUser, Goes, Learns
<1> QED
  BY <1>2, <1>3, <1>4, <1>5 DEF Handle

LEMMA RowsKept ==
    /\ Init => RowsApart
    /\ AllInv /\ RowsApart /\ [Next]_vars => RowsApart'
<1> USE DEF HoldsRow, At
<1>1. Init => RowsApart
  BY DEF Init, TasksInit, Runners, RowsApart
<1>2. ASSUME AllInv, RowsApart, Alone PROVE RowsApart'
  BY <1>2 DEF Alone, RowsApart, userVars, userLocals
<1>3. ASSUME AllInv, RowsApart, NEW t \in Tasks, Handle(t) \/ Update(t) \/ Fail(t)
      PROVE  RowsApart'
  <2>1. /\ step'[t] = "written" => op'[t] \in {"change", "patch"}
        /\ HoldsRow(t)' => who'[t] = who[t] /\ (HoldsRow(t) \/ RowFree(who[t]))
    BY <1>3, RowTaken
  <2>2. \A r \in Tasks \ {t} : op'[r] = op[r] /\ step'[r] = step[r] /\ who'[r] = who[r]
    BY <1>3, OthersStay
  <2> QED
    BY <1>3, <2>1, <2>2 DEF RowsApart, RowFree
<1> QED
  BY <1>1, <1>2, <1>3, UsersMoves DEF AllInv

\* From a request's UPDATE of its user to its commit nobody else writes to that
\* user, whatever requests are under way at the same time.
THEOREM WritersDoTakeTurns == Spec => WritersTakeTurns
<1> USE DEF HoldsRow, At
<1>1. ASSUME AllInv, RowsApart, NEW t \in Tasks, Handle(t) \/ Update(t) \/ Fail(t),
             NEW r \in Tasks, HoldsRow(r), HoldsRow(r)'
      PROVE  account'[who[r]] = account[who[r]] /\ password'[who[r]] = password[who[r]]
  <2>1. who[r] \in Users /\ account[who[r]] # "none"
    BY <1>1 DEF AllInv, UsersInv, RequestInv, RowsApart, Authenticated
  <2>2. op \in [Runners -> Ops] /\ step \in [Runners -> Steps] /\ t \in Runners
        /\ account \in [Users -> {"none", "active", "inactive"}]
        /\ password \in [Users -> Passwords]
    BY <1>1 DEF AllInv, TasksInv, TasksTypeOK, Runners, UsersInv, UsersTypeOK
  <2>3. CASE \E u \in Users, p \in Passwords : CreateUser(t, u, p)
    BY <2>1, <2>2, <2>3 DEF CreateUser
  <2>4. CASE CommitRevocation(t)
    <3>1. t # r
      BY <1>1, <2>2, <2>4 DEF CommitRevocation, Ends
    <3>2. op[t] = "change" => who[t] # who[r] /\ who[t] \in Users
      BY <1>1, <2>4, <3>1 DEF CommitRevocation, RowsApart, AllInv, UsersInv, RequestInv, Authenticated
    <3> QED
      BY <2>1, <2>2, <2>4, <3>2 DEF CommitRevocation
  <2>5. CASE CommitPatch(t)
    <3>1. t # r
      BY <1>1, <2>2, <2>5 DEF CommitPatch, Goes
    <3>2. who[t] # who[r]
      BY <1>1, <2>5, <3>1 DEF CommitPatch, RowsApart
    <3> QED
      BY <2>1, <2>2, <2>5, <3>2 DEF CommitPatch
  <2>6. CASE UNCHANGED <<account, password>>
    BY <2>6
  <2> QED
    BY <1>1, <2>3, <2>4, <2>5, <2>6
    DEF Handle, Update, Fail, Connect, RequestTimesOut, Refuse, AnswerUnasked, Authenticate,
        Verify, CommitLogin, Refresh, Read, FindToken, FindOwnToken, SelectTokens, Reread,
        WriteUser, CommitWrite, RereadWritten, Reload, ReloadDone, Leaves, Learns, userVars,
        userTables
<1>2. ASSUME AllInv, RowsApart, [Next]_vars
      PROVE  [\A t \in Tasks : HoldsRow(t) /\ HoldsRow(t)' =>
                 account'[who[t]] = account[who[t]] /\ password'[who[t]] = password[who[t]]]_userTables
  <2>1. CASE Alone
    BY <2>1 DEF Alone, userVars
  <2> QED
    BY <1>1, <1>2, <2>1, UsersMoves DEF AllInv
<1> QED
  BY <1>2, AllKept, RowsKept, PTL DEF Spec, WritersTakeTurns

\* Connections and rows of users are taken in this order: a request that waits
\* for its user's row waits for one other, and that one has its connection and
\* waits neither for another nor for a row.
RowHoldersProceed ==
    \A t \in Tasks : At(t, "change", "connected") \/ At(t, "patch", "connected") =>
        \/ RowFree(who[t])
        \/ \E r \in Tasks \ {t} :
              /\ {h \in Tasks : HoldsRow(h) /\ who[h] = who[t]} = {r}
              /\ step[r] \in Statements \ {"connected"} /\ <<r, "own">> \in out

\* Requests that wait for a user's row (UPDATE users) and requests that wait for
\* a pooled connection never wait for each other in a circle, however many
\* there are and however small the pool.
THEOREM RowsAreHandedOn == Spec => []RowHoldersProceed
<1>1. ASSUME AllInv, RowsApart PROVE RowHoldersProceed
  <2> SUFFICES ASSUME NEW t \in Tasks, At(t, "change", "connected") \/ At(t, "patch", "connected"),
                      ~RowFree(who[t])
               PROVE  \E r \in Tasks \ {t} :
                        /\ {h \in Tasks : HoldsRow(h) /\ who[h] = who[t]} = {r}
                        /\ step[r] \in Statements \ {"connected"} /\ <<r, "own">> \in out
    BY DEF RowHoldersProceed
  <2>1. PICK r \in Tasks : HoldsRow(r) /\ who[r] = who[t]
    BY DEF RowFree
  <2>2. step[r] \in Statements \ {"connected"}
    BY <2>1 DEF HoldsRow, At, Statements
  <2>3. <<r, "own">> \in out
    BY <1>1, <2>2 DEF AllInv, TasksInv, HoldsWhatItUses, Runners
  <2>4. r # t
    BY <2>2 DEF At
  <2>5. {h \in Tasks : HoldsRow(h) /\ who[h] = who[t]} = {r}
    BY <1>1, <2>1 DEF RowsApart
  <2> QED
    BY <2>2, <2>3, <2>4, <2>5
<1> QED
  BY <1>1, AllKept, RowsKept, PTL DEF Spec

-----------------------------------------------------------------------------
(* The requests implement the book of AccountBook.                         *)

bookVars == <<account, password, owner, revoked, under, excusedBar>>

\* What a change of password has missed is of its user, and issued under the
\* password that the row has until the change commits.
MissedInv ==
    \A t \in Tasks : \A k \in missed[t] : k \in excused \/ under[k] = password[who[t]]

\* What each step does to what was missed.
LEMMA MissedKept ==
    /\ Init => MissedInv
    /\ AllInv /\ RowsApart /\ MissedInv /\ [Next]_vars => MissedInv'
<1>1. Init => MissedInv
  BY DEF Init, UsersInit, MissedInv
<1>2. ASSUME AllInv, MissedInv, Alone PROVE MissedInv'
  BY <1>2 DEF Alone, MissedInv, userVars, userTables, userLocals, history
<1>3. ASSUME AllInv, RowsApart, MissedInv, NEW t \in Tasks, Handle(t) \/ Update(t) \/ Fail(t)
      PROVE  MissedInv'
  <2>0. /\ UsersTypeOK /\ \A r \in Tasks : RequestInv(r)
        /\ \A r \in Tasks \ {t} : who'[r] = who[r]
        /\ \A r \in Tasks : \A k \in missed[r] :
              /\ At(r, "change", "revoking") /\ k \in Tokens
              /\ owner[k] = who[r] /\ who[r] \in Users /\ account[who[r]] # "none"
    BY <1>3, OthersStay DEF AllInv, UsersInv, UsersTypeOK, RequestInv, At, Authenticated
  <2>1. ASSUME UNCHANGED <<password, under, excused>>,
               \A r \in Tasks : missed'[r] = missed[r] \/ missed'[r] = {},
               missed'[t] # {} => who'[t] = who[t]
        PROVE  MissedInv'
    BY <1>3, <2>0, <2>1 DEF MissedInv
  <2>2. CASE Leaves(t) \/ RequestTimesOut(t)
    <3>1. Closes(t) /\ UNCHANGED <<password, under, excused>>
      BY <2>2 DEF Leaves, RequestTimesOut, userTables
    <3> QED
      BY <2>0, <2>1, <3>1 DEF Closes, UsersTypeOK
  <2>3. CASE \/ Connect(t) \/ CommitPatch(t) \/ CommitWrite(t) \/ RereadWritten(t) \/ Reload(t)
    BY <2>1, <2>3 DEF Connect, CommitPatch, CommitWrite, RereadWritten, Reload, userVars, userTables,
                      userLocals, history
  <2>4. CASE \/ Update(t) \/ SelectTokens(t) \/ \E k \in Tokens : FindToken(t, k) \/ FindOwnToken(t, k)
             \/ \E v \in Users : Authenticate(t, v) \/ \E k \in Tokens : Verify(t, v, k)
    <3>1. ~At(t, "change", "revoking")
      BY <2>4 DEF Update, WriteUser, SelectTokens, FindToken, FindOwnToken, Authenticate, Verify, At
    <3>2. UNCHANGED <<password, under, excused, missed>>
      BY <2>4 DEF Update, WriteUser, SelectTokens, FindToken, FindOwnToken, Authenticate, Verify,
                  Learns, userTables, history
    <3> QED
      BY <2>0, <2>1, <3>1, <3>2
  <2>5. CASE \E u \in Users, p \in Passwords : CreateUser(t, u, p)
    <3>1. PICK u \in Users, p \in Passwords : CreateUser(t, u, p)
      BY <2>5
    <3>2. \A v \in Users : account[v] # "none" => password'[v] = password[v]
      BY <2>0, <3>1 DEF CreateUser, UsersTypeOK
    <3> QED
      BY <1>3, <2>0, <3>1, <3>2 DEF CreateUser, userLocals, history, MissedInv
  <2>6. CASE CommitLogin(t)
    <3>1. \A k \in Tokens : /\ k \in rows[t] => under'[k] = arg[t]
                            /\ k \notin rows[t] => under'[k] = under[k]
      BY <2>6 DEF CommitLogin
    <3>2. rows[t] \subseteq Tokens /\ \A k \in rows[t] : owner[k] = None
      BY <2>0, <2>6 DEF UsersTypeOK, RequestInv, CommitLogin
    <3>3. /\ excused \subseteq excused' /\ UNCHANGED password
          /\ arg[t] # password[who[t]] => rows[t] \subseteq excused'
      BY <2>6 DEF CommitLogin
    <3>4. missed[t] = {} /\ ~At(t, "change", "revoking")
      BY <2>0, <2>6 DEF CommitLogin, At
    <3>5. ASSUME NEW r \in Tasks, NEW k \in missed'[r]
          PROVE  k \in excused' \/ under'[k] = password'[who'[r]]
      <4>1. r # t /\ who'[r] = who[r]
        BY <2>0, <2>6, <3>4, <3>5 DEF CommitLogin, PastTokens
      <4>2. CASE k \in missed[r]
        BY <1>3, <2>0, <3>1, <3>2, <3>3, <4>1, <4>2, UserAssumption DEF MissedInv
      <4>3. CASE k \notin missed[r]
        <5>1. k \in rows[t] /\ who[r] = who[t]
          BY <2>6, <3>5, <4>3 DEF CommitLogin, PastTokens
        <5> QED
          BY <3>1, <3>2, <3>3, <4>1, <5>1
      <4> QED
        BY <4>2, <4>3
    <3> QED
      BY <3>5 DEF MissedInv
  <2>7. CASE CommitRevocation(t)
    <3>1. missed' = [missed EXCEPT ![t] = {}] /\ excused \subseteq excused' /\ UNCHANGED under
      BY <2>7 DEF CommitRevocation, Closes
    <3>2. ASSUME NEW r \in Tasks, NEW k \in missed'[r]
          PROVE  password'[who[r]] = password[who[r]]
      <4>1. r # t /\ k \in missed[r]
        BY <2>0, <3>1, <3>2 DEF UsersTypeOK
      <4>2. CASE op[t] = "change"
        <5>1. who[r] # who[t]
          BY <1>3, <2>0, <2>7, <4>1, <4>2 DEF CommitRevocation, RowsApart, HoldsRow, At
        <5> QED
          BY <2>0, <2>7, <4>1, <5>1 DEF CommitRevocation, UsersTypeOK
      <4>3. CASE op[t] # "change"
        BY <2>7, <4>3 DEF CommitRevocation
      <4> QED
        BY <4>2, <4>3
    <3>3. \A r \in Tasks : missed'[r] # {} => r # t /\ missed'[r] = missed[r] /\ who'[r] = who[r]
      BY <2>0, <3>1 DEF UsersTypeOK
    <3> QED
      BY <1>3, <3>1, <3>2, <3>3 DEF MissedInv
  <2> QED
    BY <1>3, <2>2, <2>3, <2>4, <2>5, <2>6, <2>7
    DEF Handle, Fail, Refuse, AnswerUnasked, Refresh, Read, Reread, ReloadDone
<1> QED
  BY <1>1, <1>2, <1>3, UsersMoves DEF AllInv

\* What counts as excused while a change of password is under way, it leaves
\* excused when it commits: RequestInv says that this is all of its user's
\* tokens but those that it revokes.
LEMMA RevocationRefines ==
    ASSUME AllInv, NEW t \in Tasks, CommitRevocation(t)
    PROVE  Book!Next
<1>1. /\ who[t] \in Users /\ account[who[t]] # "none" /\ missed \in [Tasks -> SUBSET Tokens]
      /\ rows[t] \in SUBSET Tokens /\ rows[t] \subseteq Book!Owned(who[t])
  BY DEF AllInv, UsersInv, UsersTypeOK, RequestInv, CommitRevocation, Authenticated, Owned,
         Book!Owned
<1>2. excusedBar' = excusedBar
  <2>1. excused' = excused \cup missed[t]
    BY DEF CommitRevocation
  <2>2. missed' = [missed EXCEPT ![t] = {}]
    BY DEF CommitRevocation, Closes
  <2> QED
    BY <1>1, <2>1, <2>2 DEF excusedBar
<1>3. CASE op[t] = "change"
  <2>1. arg[t] \in Passwords /\ Owned(who[t]) \subseteq revoked \cup rows[t] \cup excused \cup missed[t]
    BY <1>3 DEF AllInv, UsersInv, RequestInv, CommitRevocation, At
  <2>2. Owned(who[t]) \ excusedBar \subseteq revoked \cup rows[t]
    BY <2>1 DEF excusedBar
  <2>3. Book!ChangePassword(who[t], arg[t], rows[t])
    BY <1>1, <1>2, <1>3, <2>2 DEF CommitRevocation, Owned, Book!Owned, Book!ChangePassword
  <2> QED
    BY <1>1, <2>1, <2>3 DEF Book!Next
<1>4. CASE op[t] # "change"
  <2>1. Book!LogOut(who[t], rows[t])
    BY <1>1, <1>2, <1>4 DEF CommitRevocation, Book!LogOut
  <2> QED
    BY <1>1, <2>1 DEF Book!Next
<1> QED
  BY <1>3, <1>4

\* A token of a password that was replaced meanwhile is an excused one.
LEMMA LoginRefines ==
    ASSUME AllInv, NEW t \in Tasks, CommitLogin(t)
    PROVE  Book!Next
<1>1. /\ who[t] \in Users /\ account[who[t]] # "none" /\ arg[t] \in Passwords
      /\ rows[t] \in SUBSET Tokens /\ \A k \in rows[t] : owner[k] = None
  BY DEF AllInv, UsersInv, UsersTypeOK, RequestInv, CommitLogin, At
<1>2. \/ excusedBar' = excusedBar \cup rows[t]
      \/ excusedBar' = excusedBar /\ arg[t] = password[who[t]]
  <2>1. \A c \in Tasks :
           missed'[c] = IF PastTokens(c, who[t]) THEN missed[c] \cup rows[t] ELSE missed[c]
    BY DEF CommitLogin
  <2>2. /\ \A k : k \in excusedBar <=> k \in excused \/ \E c \in Tasks : k \in missed[c]
        /\ \A k : k \in excusedBar' <=> k \in excused' \/ \E c \in Tasks : k \in missed'[c]
    BY DEF excusedBar
  <2>3. \/ excused' = excused \cup rows[t]
        \/ excused' = excused /\ arg[t] = password[who[t]]
    BY DEF CommitLogin
  <2>4. CASE \/ excused' = excused \cup rows[t]
             \/ \E c \in Tasks : PastTokens(c, who[t])
    <3>1. ASSUME NEW k
          PROVE  k \in excusedBar' <=> k \in excusedBar \/ k \in rows[t]
      <4>0. /\ k \in excused => k \in excused'
            /\ k \in excused' => k \in excused \/ k \in rows[t]
            /\ \A c \in Tasks : /\ k \in missed[c] => k \in missed'[c]
                                /\ k \in missed'[c] => k \in missed[c] \/ k \in rows[t]
        <5>1. /\ k \in excused => k \in excused'
              /\ k \in excused' => k \in excused \/ k \in rows[t]
          BY <2>3
        <5>2. ASSUME NEW c \in Tasks
              PROVE  /\ k \in missed[c] => k \in missed'[c]
                     /\ k \in missed'[c] => k \in missed[c] \/ k \in rows[t]
          <6>1. missed'[c] = missed[c] \cup rows[t] \/ missed'[c] = missed[c]
            BY <2>1
          <6> QED
            BY <6>1
        <5> QED
          BY <5>1, <5>2
      <4>1. k \in excusedBar' => k \in excusedBar \/ k \in rows[t]
        BY <2>2, <4>0
      <4>2. k \in excusedBar => k \in excusedBar'
        BY <2>2, <4>0
      <4>3. k \in rows[t] => k \in excusedBar'
        <5>1. CASE excused' = excused \cup rows[t]
          BY <2>2, <5>1
        <5>2. CASE \E c \in Tasks : PastTokens(c, who[t])
          <6>1. PICK c \in Tasks : PastTokens(c, who[t])
            BY <5>2
          <6>2. missed'[c] = missed[c] \cup rows[t]
            BY <2>1, <6>1
          <6> QED
            BY <2>2, <6>2
        <5> QED
          BY <2>4, <5>1, <5>2
      <4> QED
        BY <4>1, <4>2, <4>3
    <3> QED
      BY <3>1
  <2>5. CASE ~(\/ excused' = excused \cup rows[t]
               \/ \E c \in Tasks : PastTokens(c, who[t]))
    <3>1. excused' = excused /\ \A c \in Tasks : missed'[c] = missed[c]
      BY <2>1, <2>3, <2>5
    <3>2. \A k : k \in excusedBar' <=> k \in excusedBar
      BY <2>2, <3>1
    <3> QED
      BY <2>3, <2>5, <3>2
  <2> QED
    BY <2>4, <2>5
<1>3. Book!LogIn(who[t], arg[t], rows[t])
  BY <1>1, <1>2 DEF CommitLogin, Book!LogIn
<1> QED
  BY <1>1, <1>3 DEF Book!Next

LEMMA PatchRefines ==
    ASSUME AllInv, NEW t \in Tasks, CommitPatch(t)
    PROVE  Book!Next
<1>1. who[t] \in Users /\ account[who[t]] # "none" /\ arg[t] \in {"active", "inactive"}
  BY DEF AllInv, UsersInv, RequestInv, CommitPatch, At, Authenticated
<1>2. Book!Switch(who[t], arg[t])
  BY <1>1 DEF CommitPatch, userLocals, history, excusedBar, Book!Switch
<1> QED
  BY <1>1, <1>2 DEF Book!Next

\* A request that ends without a commit: the logins that raced it need no
\* excuse, as the password stays.
LEMMA LeavingRefines ==
    ASSUME AllInv, MissedInv, NEW t \in Tasks, Closes(t), UNCHANGED <<userTables, under, excused>>
    PROVE  Book!Next
<1> DEFINE K == excusedBar \ excusedBar'
<1>1. /\ UsersTypeOK /\ missed' = [missed EXCEPT ![t] = {}]
      /\ \A k \in missed[t] : owner[k] = who[t] /\ who[t] \in Users
  BY DEF AllInv, UsersInv, RequestInv, Closes, At, Authenticated
<1>2. excusedBar' \subseteq excusedBar /\ K \subseteq missed[t] \ excused
  BY <1>1 DEF UsersTypeOK, excusedBar
<1>3. \A k \in K : k \in Tokens /\ owner[k] # None /\ under[k] = password[owner[k]]
  BY <1>1, <1>2, UserAssumption DEF UsersTypeOK, MissedInv
<1>4. K \in SUBSET Tokens /\ K \subseteq excusedBar /\ excusedBar' = excusedBar \ K
  BY <1>2, <1>3
<1>5. Book!Forgive(K)
  BY <1>3, <1>4 DEF userTables, Book!Forgive
<1> QED
  BY <1>4, <1>5 DEF Book!Next

\* The statements of a request, its sessions, its locks and the pool are none
\* of a client's business: the tables change as the book says.
THEOREM ImplementsBook == Spec => BookSpec
<1>1. Init => Book!Init
  BY DEF Init, UsersInit, excusedBar, Book!Init
<1>2. ASSUME AllInv, MissedInv, [Next]_vars
      PROVE  [Book!Next]_bookVars
  <2>0. UNCHANGED <<excused, missed>> => UNCHANGED excusedBar
    BY DEF excusedBar
  <2>1. CASE Alone
    BY <2>0, <2>1 DEF Alone, userVars, userTables, history, bookVars
  <2>2. CASE \E t \in Tasks : Handle(t) \/ Update(t) \/ Fail(t)
    <3>1. PICK t \in Tasks : Handle(t) \/ Update(t) \/ Fail(t)
      BY <2>2
    <3>2. CASE \E u \in Users, p \in Passwords : CreateUser(t, u, p)
      BY <2>0, <3>2 DEF CreateUser, history, Book!SignUp, Book!Next
    <3>3. CASE CommitLogin(t) \/ CommitRevocation(t) \/ CommitPatch(t)
      BY <1>2, <3>3, LoginRefines, RevocationRefines, PatchRefines
    <3>4. CASE Leaves(t) \/ RequestTimesOut(t)
      BY <1>2, <3>4, LeavingRefines DEF Leaves, RequestTimesOut
    <3>5. CASE \/ Connect(t) \/ CommitWrite(t) \/ RereadWritten(t) \/ Reload(t)
               \/ Update(t) \/ SelectTokens(t)
               \/ \E k \in Tokens : FindToken(t, k) \/ FindOwnToken(t, k)
               \/ \E v \in Users : Authenticate(t, v) \/ \E k \in Tokens : Verify(t, v, k)
      BY <2>0, <3>5
      DEF Update, Connect, Authenticate, Verify, FindToken, FindOwnToken, SelectTokens, WriteUser,
          CommitWrite, RereadWritten, Reload, Learns, userVars, userTables, history, bookVars
    <3> QED
      BY <3>1, <3>2, <3>3, <3>4, <3>5
      DEF Handle, Fail, Refuse, AnswerUnasked, Refresh, Read, Reread, ReloadDone
  <2> QED
    BY <1>2, <2>1, <2>2, UsersMoves DEF AllInv
<1> QED
  BY <1>1, <1>2, AllKept, RowsKept, MissedKept, PTL DEF Spec, BookSpec, Book!Spec, bookVars

\* A token of a password that was replaced is revoked, or excused in the book.
OldTokensExcused ==
    \A k \in Tokens :
        owner[k] # None /\ k \notin revoked /\ under[k] # password[owner[k]] => k \in excusedBar

\* What the book keeps to.
BookInv ==
    /\ account \in [Users -> {"none", "active", "inactive"}]
    /\ password \in [Users -> Passwords]
    /\ owner \in [Tokens -> Users \cup {None}]
    /\ under \in [Tokens -> Passwords \cup {None}]
    /\ TokensOwned /\ OldTokensExcused

LEMMA BookStepKeeps ==
    ASSUME BookInv, NEW u \in Users, NEW p \in Passwords, NEW K \in SUBSET Tokens,
           NEW a \in {"active", "inactive"},
           \/ Book!SignUp(u, p) \/ Book!LogIn(u, p, K) \/ Book!ChangePassword(u, p, K)
           \/ Book!LogOut(u, K) \/ Book!Switch(u, a)
    PROVE  BookInv'
<1> USE DEF BookInv, TokensOwned, OldTokensExcused
<1>1. CASE Book!SignUp(u, p)
  <2>1. \A k \in Tokens : owner[k] # None => owner[k] \in Users /\ owner[k] # u
    BY <1>1 DEF Book!SignUp
  <2> QED
    BY <1>1, <2>1 DEF Book!SignUp
<1>2. CASE Book!LogIn(u, p, K)
  <2>1. \A k \in Tokens : /\ k \in K => owner'[k] = u /\ under'[k] = p
                          /\ k \notin K => owner'[k] = owner[k] /\ under'[k] = under[k]
    BY <1>2 DEF Book!LogIn
  <2>2. /\ owner' \in [Tokens -> Users \cup {None}]
        /\ under' \in [Tokens -> Passwords \cup {None}]
        /\ excusedBar \subseteq excusedBar'
        /\ p # password[u] => K \subseteq excusedBar'
    BY <1>2 DEF Book!LogIn
  <2> QED
    BY <1>2, <2>1, <2>2 DEF Book!LogIn
<1>3. CASE Book!ChangePassword(u, p, K)
  <2>1. OldTokensExcused'
    <3>1. SUFFICES ASSUME NEW k \in Tokens, owner[k] # None, k \notin revoked \cup K,
                          under[k] # password'[owner[k]]
                   PROVE  k \in excusedBar
      BY <1>3 DEF Book!ChangePassword
    <3>2. owner[k] = u => k \in excusedBar
      BY <1>3, <3>1 DEF Book!ChangePassword, Book!Owned
    <3>3. owner[k] # u => password'[owner[k]] = password[owner[k]]
      BY <1>3, <3>1 DEF Book!ChangePassword
    <3> QED
      BY <3>1, <3>2, <3>3
  <2> QED
    BY <1>3, <2>1 DEF Book!ChangePassword
<1>4. CASE Book!LogOut(u, K)
  BY <1>4 DEF Book!LogOut
<1>5. CASE Book!Switch(u, a)
  BY <1>5 DEF Book!Switch
<1> QED
  BY <1>1, <1>2, <1>3, <1>4, <1>5

\* The book promises enough: by itself it keeps the tokens of a password that
\* was replaced from being valid, but for the excused ones.
THEOREM BookSuffices == BookSpec => []OldTokensExcused
<1>1. Book!Init => BookInv
  <2> SUFFICES ASSUME Book!Init PROVE BookInv
    OBVIOUS
  <2>1. owner \in [Tokens -> Users \cup {None}]
    BY DEF Book!Init
  <2>2. under \in [Tokens -> Passwords \cup {None}]
    BY <2>1 DEF Book!Init
  <2> QED
    BY <2>1, <2>2, UserAssumption DEF Book!Init, BookInv, TokensOwned, OldTokensExcused
<1>2. BookInv /\ [Book!Next]_bookVars => BookInv'
  <2>1. BookInv /\ UNCHANGED bookVars => BookInv'
    BY DEF bookVars, BookInv, TokensOwned, OldTokensExcused
  <2>2. ASSUME BookInv, Book!Next PROVE BookInv'
    <3>1. CASE \E u \in Users :
             \/ \E p \in Passwords :
                   \/ Book!SignUp(u, p)
                   \/ \E K \in SUBSET Tokens : Book!LogIn(u, p, K) \/ Book!ChangePassword(u, p, K)
             \/ \E K \in SUBSET Tokens : Book!LogOut(u, K)
             \/ \E a \in {"active", "inactive"} : Book!Switch(u, a)
      <4>1. PICK u \in Users :
               \/ \E p \in Passwords :
                     \/ Book!SignUp(u, p)
                     \/ \E K \in SUBSET Tokens : Book!LogIn(u, p, K) \/ Book!ChangePassword(u, p, K)
               \/ \E K \in SUBSET Tokens : Book!LogOut(u, K)
               \/ \E a \in {"active", "inactive"} : Book!Switch(u, a)
        BY <3>1
      <4>2. password[u] \in Passwords /\ {} \in SUBSET Tokens
        BY <2>2 DEF BookInv
      <4> QED
        BY <2>2, <4>1, <4>2, BookStepKeeps
    <3>2. CASE \E K \in SUBSET Tokens : Book!Forgive(K)
      BY <2>2, <3>2 DEF Book!Forgive, BookInv, TokensOwned, OldTokensExcused
    <3> QED
      BY <2>2, <3>1, <3>2 DEF Book!Next
  <2> QED
    BY <2>1, <2>2
<1>3. BookInv => OldTokensExcused
  BY DEF BookInv
<1> QED
  BY <1>1, <1>2, <1>3, PTL DEF BookSpec, Book!Spec, bookVars

\* The whole deployment's variables keep their types; the pool lends no more
\* connections than it has.
THEOREM DeploymentTypes == Spec => []TypeOK
<1>1. Init => AllInv /\ FramesInv /\ BrokerInv
  BY AllKept, FramesInitial, BrokerInitial
<1>2. AllInv /\ FramesInv /\ BrokerInv /\ [Next]_vars => (AllInv /\ FramesInv /\ BrokerInv)'
  BY AllKept, FramesKept, BrokerKept DEF AllInv
<1>3. AllInv /\ FramesInv /\ BrokerInv => TypeOK
  BY DEF AllInv, TasksInv, UsersInv, PhasesInv, FramesInv, BrokerInv, TypeOK
<1> QED
  BY <1>1, <1>2, <1>3, PTL DEF Spec
=============================================================================
