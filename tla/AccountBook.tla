---------------------------- MODULE AccountBook ----------------------------
(***************************************************************************)
(* What the tables of users and refresh tokens promise, without requests,  *)
(* transactions or connections.  Every request that writes to them does so *)
(* in one step, in view of the tables as they are then.  A change of       *)
(* password replaces the password and revokes the tokens of its user at    *)
(* once, but for those of logins that raced it.                            *)
(***************************************************************************)
CONSTANTS Users, Passwords, Tokens, None

VARIABLES
    account, password, owner, revoked,
    under,        \* the password a token was issued under
    excused       \* tokens of a login that raced a change of password

Owned(u) == {k \in Tokens : owner[k] = u}

Init ==
    /\ account \in [Users -> {"none", "active", "inactive"}]
    /\ password \in [Users -> Passwords]
    /\ owner \in [Tokens -> {u \in Users : account[u] # "none"} \cup {None}]
    /\ revoked \in SUBSET {k \in Tokens : owner[k] # None}
    /\ under = [k \in Tokens |-> IF owner[k] = None THEN None ELSE password[owner[k]]]
    /\ excused = {}

SignUp(u, p) ==
    /\ account[u] = "none"
    /\ account' = [account EXCEPT ![u] = "active"]
    /\ password' = [password EXCEPT ![u] = p]
    /\ UNCHANGED <<owner, revoked, under, excused>>

\* K are new tokens, got with the password p.  One that is no longer the
\* user's gets none but excused ones.
LogIn(u, p, K) ==
    /\ account[u] # "none"
    /\ \A k \in K : owner[k] = None
    /\ owner' = [k \in Tokens |-> IF k \in K THEN u ELSE owner[k]]
    /\ under' = [k \in Tokens |-> IF k \in K THEN p ELSE under[k]]
    /\ \/ excused' = excused \cup K
       \/ excused' = excused /\ p = password[u]
    /\ UNCHANGED <<account, password, revoked>>

LogOut(u, K) ==
    /\ K \subseteq Owned(u)
    /\ revoked' = revoked \cup K
    /\ UNCHANGED <<account, password, owner, under, excused>>

ChangePassword(u, p, K) ==
    /\ account[u] # "none"
    /\ Owned(u) \ excused \subseteq revoked \cup K
    /\ K \subseteq Owned(u)
    /\ password' = [password EXCEPT ![u] = p]
    /\ revoked' = revoked \cup K
    /\ UNCHANGED <<account, owner, under, excused>>

Switch(u, a) ==
    /\ account[u] # "none"
    /\ account' = [account EXCEPT ![u] = a]
    /\ UNCHANGED <<password, owner, revoked, under, excused>>

\* A change of password that was under way comes to nothing: who has raced it
\* needs no excuse.
Forgive(K) ==
    /\ K \subseteq excused
    /\ \A k \in K : owner[k] # None /\ under[k] = password[owner[k]]
    /\ excused' = excused \ K
    /\ UNCHANGED <<account, password, owner, revoked, under>>

Next ==
    \/ \E u \in Users :
          \/ \E p \in Passwords :
                \/ SignUp(u, p)
                \/ \E K \in SUBSET Tokens : LogIn(u, p, K) \/ ChangePassword(u, p, K)
          \/ \E K \in SUBSET Tokens : LogOut(u, K)
          \/ \E a \in {"active", "inactive"} : Switch(u, a)
    \/ \E K \in SUBSET Tokens : Forgive(K)

Spec == Init /\ [][Next]_<<account, password, owner, revoked, under, excused>>
=============================================================================
