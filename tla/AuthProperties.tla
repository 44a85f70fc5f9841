--------------------------- MODULE AuthProperties ---------------------------
(* What AuthSessions must satisfy, and what the code claims and does not do. *)
EXTENDS AuthSessions

Ops == {"refresh", "login", "logout", "change_password", "reset_password",
        "disable", "enable", "update_role", "purge"}
Answers == {"none", "ISSUED", "DONE", "UNCHANGED", "INVALID", "EXPIRED", "REUSE",
            "DISABLED", "ERROR"}

\* Request r is over and did what answer a says.
Answered(r, a) == req[r].at = "over" /\ req[r].answer = a
Rotation(r) == req[r].op = "refresh" /\ Answered(r, "ISSUED")
SignIn(r) == req[r].op = "login" /\ Answered(r, "ISSUED")

Statuses == {"ACTIVE", "DISABLED"}
UserRow == [status : Statuses, password : Nat, outdated : BOOLEAN, changed : Nat]
TokenRow == [state : {"NONE", "LIVE", "REVOKED", "PURGED"}, user : Users \cup {None},
             family : Tokens \cup {None}]
Change == {NoChange} \cup [status : Statuses] \cup [password : Nat, outdated : BOOLEAN]
              \cup [password : Nat, outdated : BOOLEAN, changed : Nat]
RequestRow == [op : Ops \cup {"none"}, at : {"new", "user", "bulk", "write", "over"},
               user : Users \cup {None}, token : Tokens \cup {None},
               past : SUBSET Requests, pwd_at : Nat, todo : SUBSET Tokens,
               held : SUBSET Tokens, change : Change, answer : Answers]

Types ==
    /\ users \in [Users -> UserRow]
    /\ tokens \in [Tokens -> TokenRow]
    /\ expired \subseteq Tokens
    /\ req \in [Requests -> RequestRow]
    /\ crashes \in Nat

\* A row exists from the commit of its request on; its family begins with a
\* sign-in of the same user.
Rows ==
    /\ \A t \in Tokens :
          IF tokens[t].state = "NONE" THEN t \in Requests /\ t \notin expired
          ELSE /\ tokens[t].user \in Users
               /\ t \in Requests => /\ Rotation(t) \/ SignIn(t)
                                    /\ req[t].user = tokens[t].user
               /\ tokens[t].family \in Tokens
               /\ tokens[tokens[t].family].state # "NONE"
               /\ tokens[t].family \in Requests => SignIn(tokens[t].family)
               /\ tokens[tokens[t].family].user = tokens[t].user

\* Only open requests hold row locks, of rows there are, and of one row only one does.
Locks ==
    \A r \in Requests :
        /\ req[r].at # "write" => req[r].todo \cup req[r].held = {}
        /\ \A t \in req[r].todo \cup req[r].held : tokens[t].state # "NONE"
        /\ \A q \in Requests \ {r} : req[r].held \cap req[q].held = {}

\* What a request remembers of those that were over before it began.
Pasts == \A r \in Requests : req[r].past \subseteq Over

TypeOK == Types /\ Rows /\ Locks /\ Pasts

\* The row a rotation replaces is revoked in the transaction that inserts its
\* successor: a token with a successor is never accepted again.
SuccessorEndsToken == \A r \in Requests : Rotation(r) => ~Live(req[r].token)

\* Reuse is detected unless the two refreshes overlap: when one token has two
\* successors, neither refresh began after the other was over (refresh reads
\* the row without a lock and revokes it without looking again).
RotationsOverlap ==
    \A r, q \in Requests :
        Rotation(r) /\ Rotation(q) /\ r # q /\ req[r].token = req[q].token
            => r \notin req[q].past

\* Requests that revoke all tokens of a user, or a family, and committed.
RevokedAll(c) ==
    \/ req[c].op \in {"change_password", "reset_password", "disable", "update_role"}
          /\ Answered(c, "DONE")
    \/ req[c].op = "refresh" /\ Answered(c, "DISABLED")
RevokedFamily(c) == req[c].op = "refresh" /\ Answered(c, "REUSE")

\* A revocation reaches every token there was when it began, whatever ran at
\* the same time: what is still live was issued by a request it overlapped or
\* that came later.  A signed-out token is dead.
RevocationsReachAll ==
    \A c \in Requests :
        /\ \A t \in Tokens :
              /\ Live(t)
              /\ \/ RevokedAll(c) /\ tokens[t].user = req[c].user
                 \/ RevokedFamily(c) /\ tokens[t].family = tokens[req[c].token].family
              => t \in Requests \ req[c].past
        /\ req[c].op = "logout" /\ Answered(c, "DONE") => ~Live(req[c].token)

StatusChange(c, u) ==
    req[c].op \in {"disable", "enable"} /\ Answered(c, "DONE") /\ req[c].user = u

\* A disabled user's live tokens, if any, come from requests that some change of
\* the status overtook: no request that began afterwards signs the user in.
DisabledStaysOut ==
    \A t \in Requests :
        Live(t) /\ users[tokens[t].user].status = "DISABLED" =>
            \E c \in Over \ req[t].past : StatusChange(c, tokens[t].user)

-----------------------------------------------------------------------------
(* The inductive invariant.                                                *)

\* A refresh or a sign-out is about an existing token of its user; a refresh that
\* will rotate its token has revoked it or still has to.
KnowsToken ==
    \A r \in Requests :
        req[r].op \in {"refresh", "logout"} =>
            /\ req[r].token \in Tokens
            /\ tokens[req[r].token].state # "NONE"
            /\ req[r].user = tokens[req[r].token].user
            /\ req[r].op = "logout" => req[r].at \in {"write", "over"}
            /\ req[r].op = "refresh" /\ req[r].at = "write" /\ req[r].answer = "ISSUED"
                  => req[r].token \in req[r].todo \cup req[r].held

\* Where a request stands fits what it is going to answer.
StagesFit ==
    \A r \in Requests :
        /\ req[r].at = "user" => req[r].op = "refresh" /\ req[r].answer = "none"
        /\ req[r].answer = "ISSUED" =>
              /\ req[r].op \in {"login", "refresh"} /\ req[r].at \in {"write", "over"}
              /\ req[r].user \in Users

Rotating(r) ==
    req[r].op = "refresh" /\ (req[r].at = "user" \/ req[r].answer = "ISSUED")

\* RotationsOverlap, of rotations on their way as well.
RotatesUnspent ==
    \A r \in Requests : \A q \in req[r].past :
        Rotating(r) /\ Rotation(q) => req[r].token # req[q].token

\* Row t is one the revocation c is about.
Revokes(c, t) ==
    \/ /\ \/ req[c].op \in {"change_password", "reset_password", "disable", "update_role"}
             /\ req[c].answer = "DONE"
          \/ req[c].op = "refresh" /\ req[c].answer = "DISABLED"
       /\ tokens[t].user = req[c].user
    \/ /\ req[c].op = "refresh" /\ req[c].answer = "REUSE"
       /\ tokens[t].family = tokens[req[c].token].family
    \/ req[c].op = "logout" /\ req[c].answer = "DONE" /\ t = req[c].token

\* RevocationsReachAll, of revocations past their snapshot as well: what they
\* have not come to yet is still to be done.
RevocationsOnTheWay ==
    \A c \in Requests, t \in Tokens :
        /\ req[c].at \in {"write", "over"} /\ Revokes(c, t) /\ Live(t)
        /\ t \in Seeds \cup req[c].past \/ req[c].op = "logout"
        => t \in req[c].todo \cup req[c].held

\* What a request will write to its user row.
ChangesFit ==
    \A r \in Requests : "status" \in DOMAIN req[r].change =>
        /\ req[r].op \in {"enable", "disable"} /\ req[r].answer = "DONE"
        /\ req[r].at # "over"

\* DisabledStaysOut, of sign-ins and rotations on their way as well.
SignsInLater(r) ==
    /\ req[r].op \in {"login", "refresh"} /\ req[r].answer = "ISSUED"
    /\ req[r].at = "write" \/ Live(r)

ActiveWhenRead ==
    \A r \in Requests :
        SignsInLater(r) /\ users[req[r].user].status = "DISABLED" =>
            \E c \in Over \ req[r].past : StatusChange(c, req[r].user)

IInv ==
    /\ Types /\ Rows /\ Locks /\ Pasts
    /\ SuccessorEndsToken
    /\ KnowsToken
    /\ StagesFit
    /\ RotatesUnspent
    /\ RevocationsOnTheWay
    /\ ChangesFit
    /\ ActiveWhenRead
-----------------------------------------------------------------------------
(* What comments and messages say that the code does not do.               *)

\* change_password: "every refresh token is revoked, so other devices must sign
\* in again": whatever is live afterwards goes back to a sign-in that was not
\* over when the change began.
OtherDevicesSignInAgain ==
    \A c \in Requests, t \in Tokens :
        /\ req[c].op = "change_password" /\ Answered(c, "DONE")
        /\ Live(t) /\ tokens[t].user = req[c].user
        => tokens[t].family \in Requests \ req[c].past

\* "Password updated": the stored hash is of the password set at
\* password_changed_at.
PasswordUpdated == \A u \in Users : users[u].password = users[u].changed
=============================================================================
