---------------------------- MODULE AuthSessions ----------------------------
(***************************************************************************)
(* Refresh tokens over PostgreSQL (READ COMMITTED): sign in, rotation with  *)
(* reuse detection, sign out, password changes and resets, disabling and    *)
(* role changes, and the purge of expired tokens, interleaved between their *)
(* statements (services/auth_service.py, services/user_service.py,          *)
(* repositories/token_repo.py).                                             *)
(*                                                                          *)
(* users and tokens are the COMMITTED tables.  No request locks a row       *)
(* before it writes it: what it has read may be out of date by then.  The   *)
(* rows it has written (and so locked) until its commit are req[r].held.    *)
(* A request inserts at most one token, named by the request; the numbers   *)
(* stand for the rows' places in the table, the order in which a bulk       *)
(* UPDATE or DELETE locks them.                                             *)
(***************************************************************************)
EXTENDS Integers, FiniteSets

CONSTANTS
    Users, Requests,        \* accounts; HTTP requests and purge runs
    Seeds,                  \* tokens of sign-ins before the behaviour starts
    Rehash,                 \* some stored hashes have outdated parameters
    None,                   \* Python None
    MaxCrashes, MaxExpired  \* bounds: lost transactions, tokens that expire

ASSUME AuthAssumption ==
    /\ Users # {} /\ Requests \subseteq Nat \ {0} /\ Seeds \subseteq Nat \ {0}
    /\ Requests \cap Seeds = {} /\ None \notin Users \cup Nat
    /\ Rehash \in BOOLEAN /\ MaxCrashes \in Nat /\ MaxExpired \in Nat

VARIABLES
    users,      \* users[u]: status, the password its hash verifies, whether the
                \* hash is outdated, and password_changed_at
    tokens,     \* refresh_tokens: state "NONE", "LIVE", "REVOKED" or "PURGED"
    expired,    \* committed tokens whose expires_at has passed
    req,        \* the requests
    crashes     \* transactions lost so far

vars == <<users, tokens, expired, req, crashes>>

Tokens == Requests \cup Seeds
NoToken == [state |-> "NONE", user |-> None, family |-> None]
NoChange == [none |-> None]

\* A record with some of its fields given new values.
Overwrite(row, new) ==
    [f \in DOMAIN row |-> IF f \in DOMAIN new THEN new[f] ELSE row[f]]

\* past: the requests that were over when this one made its first read;
\* todo: the rows a running UPDATE or DELETE has still to come to;
\* held: the rows it has written; change: columns of the user row it will write.
NewRequest == [op |-> "none", at |-> "new", user |-> None, token |-> None,
               past |-> {}, pwd_at |-> 0, todo |-> {}, held |-> {}, change |-> NoChange,
               answer |-> "none"]

\* The password u has at first is 0; the one request r sets is r, which also
\* stands for the instant r stores in password_changed_at.
Init ==
    /\ users \in [Users -> {[status |-> "ACTIVE", password |-> 0,
                             outdated |-> Rehash, changed |-> 0]}]
    /\ \E owner \in [Seeds -> Users] :
          tokens = [t \in Tokens |->
              IF t \in Seeds THEN [state |-> "LIVE", user |-> owner[t], family |-> t]
                             ELSE NoToken]
    /\ expired = {}
    /\ req = [r \in Requests |-> NewRequest]
    /\ crashes = 0

Over == {r \in Requests : req[r].at = "over"}
Live(t) == tokens[t].state = "LIVE"

\* Request r after its first statement.
Begin(r, new) ==
    /\ req[r].at = "new"
    /\ req' = [req EXCEPT ![r] = [new EXCEPT !.past = Over]]

\* A request is over: its transaction committed or rolled back, its locks free.
End(r, answer) ==
    req' = [req EXCEPT ![r].at = "over", ![r].answer = answer, ![r].todo = {},
                       ![r].held = {}, ![r].change = NoChange]

-----------------------------------------------------------------------------
(* Rotation.                                                               *)

\* Defects: a revoked token is not looked for; a family of one token only;
\* a status is not checked.
NeverSpent(t) == FALSE
OnlyItself(t) == {t}
AnyStatus(u) == users[u].status # "DELETED"

Spent(t) == tokens[t].state = "REVOKED"
Family(t) == {s \in Tokens : tokens[s].family = tokens[t].family}
Active(u) == users[u].status = "ACTIVE"

\* The stored token is read without a lock.
RefreshRead(r, t) ==
    LET go(at, todo, answer) ==
            Begin(r, [NewRequest EXCEPT !.op = "refresh", !.user = tokens[t].user,
                         !.token = t, !.at = at, !.todo = todo, !.answer = answer])
        valid == tokens[t].state # "PURGED" /\ ~Spent(t)
    IN  /\ tokens[t].state # "NONE"
        /\ \/ tokens[t].state = "PURGED" /\ go("over", {}, "INVALID")
           \/ Spent(t) /\ go("bulk", {}, "REUSE")
           \/ valid /\ t \in expired /\ go("write", {t}, "EXPIRED")
           \/ valid /\ t \notin expired /\ go("user", {}, "none")
        /\ UNCHANGED <<users, tokens, expired, crashes>>

\* Defect: the token stays valid besides its successor.
ReplacesNothing(r) == {}
Replaced(r) == {req[r].token}

\* The user is read; an active one gets a successor of the token.
RefreshUser(r) ==
    /\ req[r].at = "user"
    /\ IF Active(req[r].user)
       THEN req' = [req EXCEPT ![r].at = "write", ![r].answer = "ISSUED",
                               ![r].todo = Replaced(r),
                               ![r].pwd_at = users[req[r].user].changed]
       ELSE req' = [req EXCEPT ![r].at = "bulk", ![r].answer = "DISABLED"]
    /\ UNCHANGED <<users, tokens, expired, crashes>>

-----------------------------------------------------------------------------
(* The other requests, up to their first write.                            *)

\* password_hash is verified on a copy of the user row.  A sign-in commits its
\* user row (with a new hash of the password when the old one is outdated)
\* together with its token.
LoginRead(r, u, right) ==
    LET go(at, change, answer) ==
            Begin(r, [NewRequest EXCEPT !.op = "login", !.user = u, !.at = at,
                         !.change = change, !.pwd_at = users[u].changed,
                         !.answer = answer])
    IN  /\ \/ ~right /\ go("over", NoChange, "INVALID")
           \/ right /\ ~Active(u) /\ go("over", NoChange, "DISABLED")
           \/ /\ right /\ Active(u)
              /\ go("write", IF users[u].outdated
                             THEN [password |-> users[u].password, outdated |-> FALSE]
                             ELSE NoChange, "ISSUED")
        /\ UNCHANGED <<users, tokens, expired, crashes>>

LogoutRead(r, t) ==
    LET go(at, todo) ==
            Begin(r, [NewRequest EXCEPT !.op = "logout", !.user = tokens[t].user,
                         !.token = t, !.at = at, !.todo = todo, !.answer = "DONE"])
    IN  /\ \/ Live(t) /\ go("write", {t})
           \/ tokens[t].state \in {"REVOKED", "PURGED"} /\ go("over", {})
        /\ UNCHANGED <<users, tokens, expired, crashes>>

\* Somebody holds an access token the authentication still takes: the user is
\* active and its pwd_at is password_changed_at.
SignedIn(u) ==
    /\ Active(u)
    /\ \/ users[u].changed = 0
       \/ \E q \in Over : /\ req[q].answer = "ISSUED" /\ req[q].user = u
                          /\ req[q].pwd_at = users[u].changed

NewPassword(r) == [password |-> r, outdated |-> FALSE, changed |-> r]

\* A request about the tokens of u.
Manage(r, u, op, at, change, answer) ==
    /\ Begin(r, [NewRequest EXCEPT !.op = op, !.user = u, !.at = at,
                    !.change = change, !.answer = answer])
    /\ UNCHANGED <<users, tokens, expired, crashes>>

ChangePassword(r, u, right) ==
    /\ SignedIn(u)
    /\ IF right THEN Manage(r, u, "change_password", "bulk", NewPassword(r), "DONE")
                ELSE Manage(r, u, "change_password", "over", NoChange, "INVALID")

ResetPassword(r, u) == Manage(r, u, "reset_password", "bulk", NewPassword(r), "DONE")

SetStatus(r, u, op) ==
    LET status == IF op = "disable" THEN "DISABLED" ELSE "ACTIVE"
    IN  IF users[u].status = status
        THEN Manage(r, u, op, "over", NoChange, "UNCHANGED")
        ELSE Manage(r, u, op, IF op = "disable" THEN "bulk" ELSE "write",
                    [status |-> status], "DONE")

\* user_service.update with a new role, which is not modelled: the revocation is.
UpdateRole(r, u) == Manage(r, u, "update_role", "bulk", NoChange, "DONE")

Purge(r) == Manage(r, None, "purge", "bulk", NoChange, "DONE")

-----------------------------------------------------------------------------
(* Writing.                                                                *)

\* revoke_family, revoke_all_for_user, purge_expired: the WHERE clause.
Matches(r, t) ==
    IF req[r].op = "purge" THEN t \in expired /\ tokens[t].state # "PURGED"
    ELSE /\ Live(t)
         /\ IF req[r].answer = "REUSE" THEN t \in Family(req[r].token)
                                       ELSE tokens[t].user = req[r].user

\* A bulk UPDATE or DELETE begins with a snapshot of the committed rows.
BulkSnapshot(r) ==
    /\ req[r].at = "bulk"
    /\ req' = [req EXCEPT ![r].at = "write",
                          ![r].todo = {t \in Tokens : Matches(r, t)}]
    /\ UNCHANGED <<users, tokens, expired, crashes>>

\* token_repo.revoke: an UPDATE by primary key, which asks nothing of the row.
ByKey(r) == \/ req[r].op = "logout"
            \/ req[r].op = "refresh" /\ req[r].answer \in {"ISSUED", "EXPIRED"}

\* The next row, once nobody else has it locked.  A bulk statement evaluates
\* its WHERE clause again; an UPDATE by key that finds no row raises
\* StaleDataError and the request fails.
WriteRow(r) ==
    /\ req[r].at = "write"
    /\ \E t \in req[r].todo :
          /\ \A s \in req[r].todo : t =< s
          /\ \A q \in Requests \ {r} : t \notin req[q].held
          /\ IF ByKey(r) /\ tokens[t].state = "PURGED" THEN End(r, "ERROR")
             ELSE req' = [req EXCEPT ![r].todo = @ \ {t},
                             ![r].held = IF ByKey(r) \/ Matches(r, t)
                                         THEN @ \cup {t} ELSE @]
    /\ UNCHANGED <<users, tokens, expired, crashes>>

\* Defect: every rotation begins a family of its own.
IssuedAnew(r) == [state |-> "LIVE", user |-> req[r].user, family |-> r]

\* The token a request issues: of the presented one's family, or a new family.
Issued(r) == [state |-> "LIVE", user |-> req[r].user,
              family |-> IF req[r].op = "refresh" THEN tokens[req[r].token].family
                                                  ELSE r]

Written(r) == IF req[r].op = "purge" THEN "PURGED" ELSE "REVOKED"

\* The user row is written, a new token inserted and everything committed.
Commit(r) ==
    /\ req[r].at = "write" /\ req[r].todo = {}
    /\ tokens' = [t \in Tokens |->
          IF t \in req[r].held THEN [tokens[t] EXCEPT !.state = Written(r)]
          ELSE IF t = r /\ req[r].answer = "ISSUED" THEN Issued(r)
          ELSE tokens[t]]
    /\ users' = [u \in Users |->
          IF u = req[r].user THEN Overwrite(users[u], req[r].change) ELSE users[u]]
    /\ End(r, req[r].answer)
    /\ UNCHANGED <<expired, crashes>>

-----------------------------------------------------------------------------
(* The environment.                                                        *)

Expire(t) ==
    /\ Cardinality(expired) < MaxExpired
    /\ tokens[t].state \in {"LIVE", "REVOKED"} /\ t \notin expired
    /\ expired' = expired \cup {t}
    /\ UNCHANGED <<users, tokens, req, crashes>>

Crash(r) ==
    /\ crashes < MaxCrashes /\ req[r].at \notin {"new", "over"}
    /\ End(r, "ERROR")
    /\ crashes' = crashes + 1
    /\ UNCHANGED <<users, tokens, expired>>

\* All requests are over (so that a deadlock is somebody waiting for ever).
Quiescent == Over = Requests /\ UNCHANGED vars

Start(r) ==
    \/ \E t \in Tokens : RefreshRead(r, t) \/ LogoutRead(r, t)
    \/ \E u \in Users, right \in BOOLEAN :
          LoginRead(r, u, right) \/ ChangePassword(r, u, right)
    \/ \E u \in Users : ResetPassword(r, u) \/ UpdateRole(r, u)
    \/ \E u \in Users, op \in {"enable", "disable"} : SetStatus(r, u, op)
    \/ Purge(r)

Step(r) == RefreshUser(r) \/ BulkSnapshot(r) \/ WriteRow(r) \/ Commit(r)

Next ==
    \/ \E r \in Requests : Start(r) \/ Step(r) \/ Crash(r)
    \/ \E t \in Tokens : Expire(t)
    \/ Quiescent

Spec == Init /\ [][Next]_vars
=============================================================================
