------------------------- MODULE AuthSessionsProofs -------------------------
(***************************************************************************)
(* Theorems about AuthSessions for every set of users, tokens and requests. *)
(* The argument: nothing is locked before it is written, so what protects a *)
(* token is what its row lock makes true at commit time - a rotation holds  *)
(* the token it replaces (KnowsToken), a revocation holds, or has still to  *)
(* come to, every live row that was there when it began                     *)
(* (RevocationsOnTheWay) - and that a request's past never grows.           *)
(***************************************************************************)
EXTENDS AuthProperties, TLAPS

USE AuthAssumption DEF Tokens

Unchanged == UNCHANGED <<users, tokens, expired, crashes>>

\* What the first statement of a request leaves in its record.
StartsWell(new) ==
    /\ new \in RequestRow /\ new.held = {}
    /\ new.at # "write" => new.todo = {}
    /\ \A t \in new.todo : tokens[t].state # "NONE"
    /\ new.op \in {"refresh", "logout"} =>
          /\ new.token \in Tokens /\ tokens[new.token].state # "NONE"
          /\ new.user = tokens[new.token].user
          /\ new.op = "logout" => new.at \in {"write", "over"}
          /\ new.op = "logout" /\ Live(new.token) => new.token \in new.todo
    /\ new.at = "user" => /\ new.op = "refresh" /\ new.answer = "none"
                          /\ Live(new.token)
    /\ new.answer = "ISSUED" => /\ new.op = "login" /\ new.at = "write"
                                /\ new.user \in Users /\ Active(new.user)
    /\ new.op = "refresh" => new.answer # "DISABLED"
    /\ new.answer = "REUSE" => new.at = "bulk"
    /\ new.op \in {"change_password", "reset_password", "disable", "update_role"}
          /\ new.answer = "DONE" => new.at = "bulk"
    /\ "status" \in DOMAIN new.change =>
          new.op \in {"enable", "disable"} /\ new.answer = "DONE" /\ new.at # "over"

-----------------------------------------------------------------------------
(* The first statement of a request.                                       *)

LEMMA BeginKeeps ==
  ASSUME IInv, Unchanged, NEW r \in Requests, NEW new, StartsWell(new), Begin(r, new)
  PROVE  IInv'
<1> DEFINE row == [new EXCEPT !.past = Over]
<1>1. /\ req[r].at = "new" /\ req' = [req EXCEPT ![r] = row]
      /\ users' = users /\ tokens' = tokens /\ expired' = expired /\ crashes' = crashes
  BY DEF Begin, Unchanged
<1>2. Types BY DEF IInv
<1>3. /\ row \in RequestRow /\ row.past = Over /\ row.at = new.at /\ row.op = new.op
      /\ row.user = new.user /\ row.token = new.token /\ row.todo = new.todo
      /\ row.held = {} /\ row.change = new.change /\ row.answer = new.answer
  BY DEF StartsWell, RequestRow, Over
<1> HIDE DEF row
<1>4. /\ req'[r] = row
      /\ \A q \in Requests : q # r => req'[q] = req[q]
  BY <1>1, <1>2 DEF Types
<1>5. Over \subseteq Over' /\ r \notin Over
  BY <1>1, <1>4 DEF Over
<1>6. \A q \in Requests : req[q].past \subseteq Over
  BY DEF IInv, Pasts
<1>a. Types' BY <1>1, <1>2, <1>3 DEF Types
<1>b. \A q \in Requests : (Rotation(q) <=> Rotation(q)') /\ (SignIn(q) <=> SignIn(q)')
  BY <1>1, <1>3, <1>4 DEF Rotation, SignIn, Answered, StartsWell
<1>c. Rows'
  <2>1. Rows BY DEF IInv
  <2>2. \A t \in Requests : tokens[t].state # "NONE" => t # r
    BY <2>1, <1>1 DEF Rows, Rotation, SignIn, Answered
  <2> QED BY <2>1, <2>2, <1>b, <1>1, <1>2, <1>4 DEF Rows, Types, TokenRow
<1>d. Locks'
  <2>1. Locks BY DEF IInv
  <2> QED BY <2>1, <1>1, <1>3, <1>4 DEF Locks, StartsWell
<1>e. Pasts' BY <1>3, <1>4, <1>5, <1>6 DEF Pasts
<1>f. SuccessorEndsToken'
  <2>1. SuccessorEndsToken BY DEF IInv
  <2>2. ~Rotation(r) BY <1>1 DEF Rotation, Answered
  <2> QED BY <2>1, <2>2, <1>1, <1>4, <1>b DEF SuccessorEndsToken, Live
<1>g. KnowsToken'
  <2>1. KnowsToken BY DEF IInv
  <2> QED BY <2>1, <1>1, <1>3, <1>4 DEF KnowsToken, StartsWell
<1>h. StagesFit'
  <2>1. StagesFit BY DEF IInv
  <2> QED BY <2>1, <1>3, <1>4 DEF StagesFit, StartsWell
<1>i. RotatesUnspent'
  <2>1. RotatesUnspent BY DEF IInv
  <2> SUFFICES ASSUME NEW q \in Requests, NEW p \in req'[q].past,
                      Rotating(q)', Rotation(p)'
               PROVE  req'[q].token # req'[p].token
    BY DEF RotatesUnspent
  <2>2. p \in Over BY <1>3, <1>4, <1>6
  <2>3. p \in Requests /\ p # r /\ Rotation(p) BY <2>2, <1>5, <1>b DEF Over
  <2>4. CASE q # r BY <2>1, <2>3, <2>4, <1>4 DEF RotatesUnspent, Rotating
  <2>5. CASE q = r
    <3>1. Live(new.token)
      BY <2>5, <1>3, <1>4 DEF Rotating, StartsWell
    <3>2. ~Live(req[p].token) BY <2>3 DEF IInv, SuccessorEndsToken
    <3> QED BY <3>1, <3>2, <2>3, <2>5, <1>3, <1>4
  <2> QED BY <2>4, <2>5
<1>j. RevocationsOnTheWay'
  <2>1. RevocationsOnTheWay BY DEF IInv
  <2> SUFFICES ASSUME NEW c \in Requests, NEW t \in Tokens, req'[c].at \in {"write", "over"},
                      Revokes(c, t)', Live(t)',
                      t \in Seeds \cup req'[c].past \/ req'[c].op = "logout"
               PROVE  t \in req'[c].todo \cup req'[c].held
    BY DEF RevocationsOnTheWay
  <2>2. CASE c # r
    <3>1. Revokes(c, t) /\ Live(t) BY <2>2, <1>1, <1>4 DEF Revokes, Live
    <3> QED BY <2>1, <2>2, <3>1, <1>4 DEF RevocationsOnTheWay
  <2>3. CASE c = r
    <3>1. req'[r].op = "logout" /\ t = new.token
      BY <2>3, <1>3, <1>4 DEF Revokes, StartsWell
    <3>2. Live(t) BY <1>1 DEF Live
    <3> QED BY <2>3, <3>1, <3>2, <1>3, <1>4 DEF StartsWell
  <2> QED BY <2>2, <2>3
<1>k. ChangesFit'
  <2>1. ChangesFit BY DEF IInv
  <2> QED BY <2>1, <1>3, <1>4 DEF ChangesFit, StartsWell
<1>l. ActiveWhenRead'
  <2>1. ActiveWhenRead BY DEF IInv
  <2> SUFFICES ASSUME NEW q \in Requests, SignsInLater(q)',
                      users'[req'[q].user].status = "DISABLED"
               PROVE  \E c \in Over' \ req'[q].past : StatusChange(c, req[q].user)'
    BY DEF ActiveWhenRead
  <2>2. CASE q # r
    <3>1. SignsInLater(q) /\ users[req[q].user].status = "DISABLED"
      BY <2>2, <1>1, <1>4 DEF SignsInLater, Live
    <3>2. PICK c \in Over \ req[q].past : StatusChange(c, req[q].user)
      BY <2>1, <3>1 DEF ActiveWhenRead
    <3>3. c # r /\ c \in Requests BY <1>5 DEF Over
    <3>4. StatusChange(c, req[q].user)'
      BY <3>2, <3>3, <2>2, <1>4 DEF StatusChange, Answered
    <3> QED BY <3>2, <3>4, <2>2, <1>4, <1>5
  <2>3. CASE q = r
    <3>1. Active(new.user) /\ req'[r].user = new.user
      BY <2>3, <1>3, <1>4 DEF SignsInLater, StartsWell
    <3> QED BY <3>1, <2>3, <1>1 DEF Active
  <2> QED BY <2>2, <2>3
<1> QED BY <1>a, <1>c, <1>d, <1>e, <1>f, <1>g, <1>h, <1>i, <1>j, <1>k, <1>l DEF IInv

LEMMA RefreshReadKeeps ==
  ASSUME IInv, NEW r \in Requests, NEW t \in Tokens, RefreshRead(r, t)
  PROVE  IInv'
<1> DEFINE new(at, todo, answer) ==
             [NewRequest EXCEPT !.op = "refresh", !.user = tokens[t].user, !.token = t,
                                !.at = at, !.todo = todo, !.answer = answer]
<1>1. PICK at \in {"over", "bulk", "write", "user"}, todo \in {{}, {t}},
           answer \in {"INVALID", "REUSE", "EXPIRED", "none"} :
        /\ Begin(r, new(at, todo, answer))
        /\ at # "write" => todo = {}
        /\ at = "user" => answer = "none" /\ tokens[t].state \notin {"NONE", "PURGED", "REVOKED"}
        /\ answer = "REUSE" => at = "bulk"
  BY DEF RefreshRead, Spent
<1>2. tokens[t].state # "NONE" /\ Unchanged BY DEF RefreshRead, Unchanged
<1>3. tokens[t] \in TokenRow BY DEF IInv, Types
<1>4. StartsWell(new(at, todo, answer))
  <2> DEFINE n == new(at, todo, answer)
  <2>1. /\ n.op = "refresh" /\ n.user = tokens[t].user /\ n.token = t /\ n.at = at
        /\ n.todo = todo /\ n.answer = answer /\ n.held = {} /\ n.change = NoChange
    BY DEF NewRequest
  <2>2. n \in RequestRow
    BY <1>3, ZenonT(40) DEF NewRequest, RequestRow, TokenRow, Change, NoChange, Ops, Answers
  <2>3. "status" \notin DOMAIN NoChange BY DEF NoChange
  <2>4. at = "user" => Live(t) BY <1>1, <1>3 DEF Live, TokenRow
  <2> HIDE DEF n
  <2>5. StartsWell(n) BY <1>1, <1>2, <2>1, <2>2, <2>3, <2>4 DEF StartsWell
  <2> QED BY <2>5 DEF n
<1> QED BY <1>1, <1>2, <1>4, BeginKeeps

LEMMA LogoutReadKeeps ==
  ASSUME IInv, NEW r \in Requests, NEW t \in Tokens, LogoutRead(r, t)
  PROVE  IInv'
<1> DEFINE new(at, todo) ==
             [NewRequest EXCEPT !.op = "logout", !.user = tokens[t].user, !.token = t,
                                !.at = at, !.todo = todo, !.answer = "DONE"]
<1>1. PICK at \in {"over", "write"}, todo \in {{}, {t}} :
        /\ Begin(r, new(at, todo))
        /\ at # "write" => todo = {}
        /\ Live(t) => todo = {t}
        /\ tokens[t].state # "NONE"
  BY DEF LogoutRead, Live
<1>2. Unchanged BY DEF LogoutRead, Unchanged
<1>3. tokens[t] \in TokenRow BY DEF IInv, Types
<1>4. StartsWell(new(at, todo))
  <2> DEFINE n == new(at, todo)
  <2>1. /\ n.op = "logout" /\ n.user = tokens[t].user /\ n.token = t /\ n.at = at
        /\ n.todo = todo /\ n.answer = "DONE" /\ n.held = {} /\ n.change = NoChange
    BY DEF NewRequest
  <2>2. n \in RequestRow
    BY <1>3 DEF NewRequest, RequestRow, TokenRow, Change, NoChange, Ops, Answers
  <2>3. "status" \notin DOMAIN NoChange BY DEF NoChange
  <2> HIDE DEF n
  <2>5. StartsWell(n) BY <1>1, <2>1, <2>2, <2>3 DEF StartsWell
  <2> QED BY <2>5 DEF n
<1> QED BY <1>1, <1>2, <1>4, BeginKeeps

LEMMA LoginReadKeeps ==
  ASSUME IInv, NEW r \in Requests, NEW u \in Users, NEW right \in BOOLEAN,
         LoginRead(r, u, right)
  PROVE  IInv'
<1> DEFINE rehashed == [password |-> users[u].password, outdated |-> FALSE]
           new(at, change, answer) ==
             [NewRequest EXCEPT !.op = "login", !.user = u, !.at = at, !.change = change,
                                !.pwd_at = users[u].changed, !.answer = answer]
<1>1. PICK at \in {"over", "write"}, change \in {NoChange, rehashed},
           answer \in {"INVALID", "DISABLED", "ISSUED"} :
        /\ Begin(r, new(at, change, answer))
        /\ answer = "ISSUED" => at = "write" /\ Active(u)
  BY DEF LoginRead
<1>2. Unchanged BY DEF LoginRead, Unchanged
<1>3. users[u] \in UserRow BY DEF IInv, Types
<1>4. /\ change \in Change
      /\ "status" \notin DOMAIN change
  <2>1. NoChange \in Change /\ "status" \notin DOMAIN NoChange BY DEF NoChange, Change
  <2>2. rehashed \in [password : Nat, outdated : BOOLEAN] BY <1>3 DEF UserRow
  <2>3. "status" \notin DOMAIN rehashed OBVIOUS
  <2> HIDE DEF rehashed
  <2> QED BY <2>1, <2>2, <2>3 DEF Change
<1>5. StartsWell(new(at, change, answer))
  <2> DEFINE n == new(at, change, answer)
  <2>1. /\ n.op = "login" /\ n.user = u /\ n.at = at /\ n.todo = {} /\ n.answer = answer
        /\ n.held = {} /\ n.change = change
    BY DEF NewRequest
  <2>2. n \in RequestRow
    BY <1>3, <1>4 DEF NewRequest, RequestRow, UserRow, Ops, Answers
  <2> HIDE DEF n
  <2>5. StartsWell(n) BY <1>1, <1>4, <2>1, <2>2 DEF StartsWell
  <2> QED BY <2>5 DEF n
<1> QED BY <1>1, <1>2, <1>5, BeginKeeps

LEMMA ManageKeeps ==
  ASSUME IInv, NEW r \in Requests, NEW u \in Users \cup {None},
         NEW op \in {"change_password", "reset_password", "disable", "enable",
                     "update_role", "purge"},
         NEW at \in {"over", "bulk", "write"}, NEW change \in Change,
         NEW answer \in {"DONE", "INVALID", "UNCHANGED"},
         op \notin {"enable", "purge"} /\ answer = "DONE" => at = "bulk",
         "status" \in DOMAIN change =>
             op \in {"enable", "disable"} /\ answer = "DONE" /\ at # "over",
         Manage(r, u, op, at, change, answer)
  PROVE  IInv'
<1> DEFINE n == [NewRequest EXCEPT !.op = op, !.user = u, !.at = at,
                                   !.change = change, !.answer = answer]
<1>1. Begin(r, n) /\ Unchanged BY DEF Manage, Unchanged
<1>2. /\ n.op = op /\ n.user = u /\ n.at = at /\ n.todo = {} /\ n.answer = answer
      /\ n.held = {} /\ n.change = change
  BY DEF NewRequest
<1>3. n \in RequestRow BY DEF NewRequest, RequestRow, Ops, Answers
<1> HIDE DEF n
<1>4. StartsWell(n) BY <1>2, <1>3 DEF StartsWell
<1> QED BY <1>1, <1>4, BeginKeeps

LEMMA ManagementKeeps ==
  ASSUME IInv, NEW r \in Requests
  PROVE  /\ \A u \in Users, right \in BOOLEAN : ChangePassword(r, u, right) => IInv'
         /\ \A u \in Users : ResetPassword(r, u) \/ UpdateRole(r, u) => IInv'
         /\ \A u \in Users, op \in {"enable", "disable"} : SetStatus(r, u, op) => IInv'
         /\ Purge(r) => IInv'
<1>1. /\ NewPassword(r) \in Change /\ "status" \notin DOMAIN NewPassword(r)
      /\ NoChange \in Change /\ "status" \notin DOMAIN NoChange
  BY DEF NewPassword, Change, NoChange
<1>2. \A s \in Statuses : [status |-> s] \in Change BY DEF Change
<1>3. ASSUME NEW u \in Users, NEW right \in BOOLEAN, ChangePassword(r, u, right)
      PROVE  IInv'
  <2>1. CASE right BY <1>1, <1>3, <2>1, ManageKeeps DEF ChangePassword
  <2>2. CASE ~right BY <1>1, <1>3, <2>2, ManageKeeps DEF ChangePassword
  <2> QED BY <2>1, <2>2
<1>4. ASSUME NEW u \in Users, ResetPassword(r, u) \/ UpdateRole(r, u) PROVE IInv'
  BY <1>1, <1>4, ManageKeeps DEF ResetPassword, UpdateRole
<1>5. ASSUME NEW u \in Users, NEW op \in {"enable", "disable"}, SetStatus(r, u, op)
      PROVE  IInv'
  <2> DEFINE status == IF op = "disable" THEN "DISABLED" ELSE "ACTIVE"
             at == IF op = "disable" THEN "bulk" ELSE "write"
  <2>1. CASE users[u].status = status
    BY <1>1, <1>5, <2>1, ManageKeeps DEF SetStatus
  <2>2. CASE users[u].status # status
    <3>1. Manage(r, u, op, at, [status |-> status], "DONE") BY <1>5, <2>2 DEF SetStatus
    <3>2. [status |-> status] \in Change BY <1>2 DEF Statuses
    <3>3. at \in {"bulk", "write"} /\ (op = "disable" => at = "bulk") OBVIOUS
    <3> HIDE DEF status, at
    <3> QED BY <3>1, <3>2, <3>3, ManageKeeps
  <2> QED BY <2>1, <2>2
<1>6. ASSUME Purge(r) PROVE IInv'
  BY <1>1, <1>6, ManageKeeps DEF Purge
<1> QED BY <1>3, <1>4, <1>5, <1>6

-----------------------------------------------------------------------------
(* Steps of one request that leave the tables alone.                       *)

\* A request whose record keeps its op, user, token, past and change, and gets
\* no further than its next stage, where it still has locks of its own.
Moves(r) ==
    /\ Unchanged
    /\ req' = [q \in Requests |-> IF q = r THEN req'[r] ELSE req[q]]
    /\ req'[r] \in RequestRow
    /\ req'[r].op = req[r].op /\ req'[r].user = req[r].user
    /\ req'[r].token = req[r].token /\ req'[r].past = req[r].past
    /\ req'[r].change = req[r].change
    /\ req[r].at \in {"user", "bulk", "write"} /\ req'[r].at \in {"bulk", "write"}
    /\ req'[r].at # "write" => req'[r].todo \cup req'[r].held = {}
    /\ \A t \in req'[r].todo \cup req'[r].held : tokens[t].state # "NONE"
    /\ \A q \in Requests \ {r} : req'[r].held \cap req[q].held = {}

LEMMA MoveKeeps ==
  ASSUME IInv, NEW r \in Requests, Moves(r),
         req[r].op = "logout" => req'[r].at = "write",
         req[r].op = "refresh" /\ req'[r].at = "write" /\ req'[r].answer = "ISSUED"
            => req[r].token \in req'[r].todo \cup req'[r].held,
         req'[r].answer # req[r].answer =>
            /\ req[r].at = "user"
            /\ req'[r].answer = "ISSUED" => req'[r].at = "write" /\ Active(req[r].user)
            /\ req'[r].answer \in {"ISSUED", "DISABLED"},
         req'[r].answer = "ISSUED" => req'[r].at = "write",
         \A t \in Tokens : /\ req'[r].at = "write" /\ Revokes(r, t)' /\ Live(t)
                           /\ t \in Seeds \cup req[r].past \/ req[r].op = "logout"
                           => t \in req'[r].todo \cup req'[r].held
  PROVE  IInv'
<1>1. /\ users' = users /\ tokens' = tokens /\ expired' = expired /\ crashes' = crashes
      /\ \A q \in Requests : q # r => req'[q] = req[q]
  BY DEF Moves, Unchanged
<1>2. Types BY DEF IInv
<1>3. Over' = Over /\ r \notin Over
  BY <1>1 DEF Moves, Over
<1>4. \A q \in Requests : (Rotation(q) <=> Rotation(q)') /\ (SignIn(q) <=> SignIn(q)')
  BY <1>1 DEF Moves, Rotation, SignIn, Answered
<1>a. Types' BY <1>1, <1>2 DEF Types, Moves
<1>b. Rows'
  <2>1. Rows BY DEF IInv
  <2>2. \A q \in Requests : req'[q].user = req[q].user BY <1>1 DEF Moves
  <2> QED BY <2>1, <2>2, <1>1, <1>2, <1>4 DEF Rows, Types, TokenRow
<1>c. Locks'
  <2>1. Locks BY DEF IInv
  <2> QED BY <2>1, <1>1 DEF Locks, Moves
<1>d. Pasts' BY <1>1, <1>3 DEF IInv, Pasts, Moves
<1>e. SuccessorEndsToken'
  <2>1. SuccessorEndsToken BY DEF IInv
  <2>2. ~Rotation(r) BY <1>3 DEF Rotation, Answered, Over
  <2> QED BY <2>1, <2>2, <1>1, <1>4 DEF SuccessorEndsToken, Live
<1>f. KnowsToken'
  <2>1. KnowsToken BY DEF IInv
  <2> QED BY <2>1, <1>1 DEF KnowsToken, Moves
<1>g. StagesFit'
  <2>1. StagesFit /\ KnowsToken BY DEF IInv
  <2>2. \A q \in Requests : q # r =>
           /\ req'[q].at = "user" => req'[q].op = "refresh" /\ req'[q].answer = "none"
           /\ req'[q].answer = "ISSUED" =>
                 /\ req'[q].op \in {"login", "refresh"} /\ req'[q].at \in {"write", "over"}
                 /\ req'[q].user \in Users
    BY <2>1, <1>1 DEF StagesFit
  <2>3. req'[r].at # "user" BY DEF Moves
  <2>4. req'[r].answer = "ISSUED" /\ req[r].answer # "ISSUED" =>
           req[r].op = "refresh" /\ req[r].user \in Users
    <3>1. Rows BY DEF IInv
    <3> QED BY <3>1, <2>1 DEF StagesFit, KnowsToken, Rows
  <2>5. req'[r].answer = "ISSUED" =>
           /\ req'[r].op \in {"login", "refresh"} /\ req'[r].at \in {"write", "over"}
           /\ req'[r].user \in Users
    BY <2>1, <2>4 DEF StagesFit, Moves
  <2> QED BY <2>2, <2>3, <2>5 DEF StagesFit
<1>h. RotatesUnspent'
  <2>1. RotatesUnspent /\ StagesFit BY DEF IInv
  <2>2. \A q \in Requests : Rotating(q)' => Rotating(q)
    BY <2>1, <1>1 DEF Rotating, StagesFit, Moves
  <2>3. \A q \in Requests : req'[q].past = req[q].past /\ req'[q].token = req[q].token
                            /\ req[q].past \subseteq Requests
    BY <1>1, <1>2 DEF Moves, Types, RequestRow
  <2> SUFFICES ASSUME NEW q \in Requests, NEW p \in req'[q].past,
                      Rotating(q)', Rotation(p)'
               PROVE  req'[q].token # req'[p].token
    BY DEF RotatesUnspent
  <2>4. Rotating(q) /\ p \in Requests /\ Rotation(p) BY <2>2, <2>3, <1>4
  <2> QED BY <2>1, <2>3, <2>4 DEF RotatesUnspent
<1>i. RevocationsOnTheWay'
  <2>1. RevocationsOnTheWay BY DEF IInv
  <2> SUFFICES ASSUME NEW c \in Requests, NEW t \in Tokens, req'[c].at \in {"write", "over"},
                      Revokes(c, t)', Live(t)',
                      t \in Seeds \cup req'[c].past \/ req'[c].op = "logout"
               PROVE  t \in req'[c].todo \cup req'[c].held
    BY DEF RevocationsOnTheWay
  <2>2. Live(t) BY <1>1 DEF Live
  <2>3. CASE c # r
    <3>1. Revokes(c, t) BY <2>3, <1>1 DEF Revokes
    <3> QED BY <2>1, <2>2, <2>3, <3>1, <1>1 DEF RevocationsOnTheWay
  <2>4. CASE c = r
    BY <2>2, <2>4 DEF Moves
  <2> QED BY <2>3, <2>4
<1>j. ChangesFit'
  <2>1. ChangesFit BY DEF IInv
  <2>2. StagesFit BY DEF IInv
  <2>3. req[r].at = "user" => "status" \notin DOMAIN req[r].change
    BY <2>1, <2>2 DEF ChangesFit, StagesFit
  <2> QED BY <2>1, <2>3, <1>1 DEF ChangesFit, Moves
<1>k. ActiveWhenRead'
  <2>1. ActiveWhenRead BY DEF IInv
  <2> SUFFICES ASSUME NEW q \in Requests, SignsInLater(q)',
                      users'[req'[q].user].status = "DISABLED"
               PROVE  \E c \in Over' \ req'[q].past : StatusChange(c, req[q].user)'
    BY DEF ActiveWhenRead
  <2>2. req'[q].user = req[q].user /\ req'[q].past = req[q].past BY <1>1 DEF Moves
  <2>3. CASE SignsInLater(q)
    <3>1. PICK c \in Over \ req[q].past : StatusChange(c, req[q].user)
      BY <2>1, <2>2, <2>3, <1>1 DEF ActiveWhenRead
    <3>2. c # r /\ c \in Requests BY <1>3 DEF Over
    <3>3. StatusChange(c, req[q].user)' BY <3>1, <3>2, <2>2, <1>1 DEF StatusChange, Answered
    <3> QED BY <3>1, <3>3, <2>2, <1>3
  <2>4. CASE ~SignsInLater(q)
    <3>1. q = r /\ req[r].at # "over" /\ req'[r].answer = "ISSUED"
      BY <2>4, <1>1 DEF SignsInLater, Live, Moves
    <3>2. req[r].answer # "ISSUED"
      <4>1. StagesFit BY DEF IInv
      <4> QED BY <2>4, <3>1, <4>1 DEF SignsInLater, StagesFit
    <3> QED BY <3>1, <3>2, <2>2, <1>1 DEF Active
  <2> QED BY <2>3, <2>4
<1> QED BY <1>a, <1>b, <1>c, <1>d, <1>e, <1>f, <1>g, <1>h, <1>i, <1>j, <1>k DEF IInv

\* An update of record r by EXCEPT, as Moves wants it.
LEMMA RefreshUserKeeps ==
  ASSUME IInv, NEW r \in Requests, RefreshUser(r)
  PROVE  IInv'
<1>1. Types /\ Locks /\ KnowsToken /\ StagesFit BY DEF IInv
<1>2. req[r] \in RequestRow /\ req[r].at = "user" /\ req[r].op = "refresh"
      /\ req[r].answer = "none" /\ req[r].todo \cup req[r].held = {}
  BY <1>1 DEF Types, RefreshUser, Locks, StagesFit
<1>3. req[r].token \in Tokens /\ tokens[req[r].token].state # "NONE"
      /\ req[r].user = tokens[req[r].token].user
  BY <1>1, <1>2 DEF KnowsToken
<1>4. CASE Active(req[r].user)
  <2> DEFINE new == [req[r] EXCEPT !.at = "write", !.answer = "ISSUED",
                       !.todo = {req[r].token}, !.pwd_at = users[req[r].user].changed]
  <2>1. req' = [req EXCEPT ![r] = new] /\ Unchanged
    BY <1>4 DEF RefreshUser, Replaced, Unchanged
  <2>2. users[req[r].user].changed \in Nat
    <3>1. Rows BY DEF IInv
    <3>2. req[r].user \in Users BY <3>1, <1>3 DEF Rows
    <3> QED BY <3>2, <1>1 DEF Types, UserRow
  <2>3. /\ new \in RequestRow /\ new.op = "refresh" /\ new.user = req[r].user
        /\ new.token = req[r].token /\ new.past = req[r].past
        /\ new.change = req[r].change /\ new.at = "write" /\ new.answer = "ISSUED"
        /\ new.todo = {req[r].token} /\ new.held = {}
    BY <1>2, <1>3, <2>2 DEF RequestRow, Answers
  <2> HIDE DEF new
  <2>4. req'[r] = new /\ req' = [q \in Requests |-> IF q = r THEN req'[r] ELSE req[q]]
    BY <2>1, <1>1 DEF Types
  <2>5. Moves(r) BY <2>1, <2>3, <2>4, <1>2, <1>3 DEF Moves
  <2>6. \A t \in Tokens : ~Revokes(r, t)' BY <2>3, <2>4 DEF Revokes
  <2> QED BY <2>3, <2>4, <2>5, <2>6, <1>2, <1>4, MoveKeeps
<1>5. CASE ~Active(req[r].user)
  <2> DEFINE new == [req[r] EXCEPT !.at = "bulk", !.answer = "DISABLED"]
  <2>1. req' = [req EXCEPT ![r] = new] /\ Unchanged
    BY <1>5 DEF RefreshUser, Unchanged
  <2>2. /\ new \in RequestRow /\ new.op = "refresh" /\ new.user = req[r].user
        /\ new.token = req[r].token /\ new.past = req[r].past
        /\ new.change = req[r].change /\ new.at = "bulk" /\ new.answer = "DISABLED"
        /\ new.todo \cup new.held = {}
    BY <1>2 DEF RequestRow, Answers
  <2> HIDE DEF new
  <2>3. req'[r] = new /\ req' = [q \in Requests |-> IF q = r THEN req'[r] ELSE req[q]]
    BY <2>1, <1>1 DEF Types
  <2>4. Moves(r) BY <2>1, <2>2, <2>3, <1>2 DEF Moves
  <2> QED BY <2>2, <2>3, <2>4, <1>2, MoveKeeps
<1> QED BY <1>4, <1>5

LEMMA BulkSnapshotKeeps ==
  ASSUME IInv, NEW r \in Requests, BulkSnapshot(r)
  PROVE  IInv'
<1> DEFINE todo == {t \in Tokens : Matches(r, t)}
           new  == [req[r] EXCEPT !.at = "write", !.todo = todo]
<1>1. Types /\ Rows /\ Locks /\ KnowsToken /\ StagesFit BY DEF IInv
<1>2. req[r] \in RequestRow /\ req[r].at = "bulk" /\ req[r].held = {}
      /\ req[r].op # "logout" /\ req[r].answer # "ISSUED"
  BY <1>1 DEF Types, BulkSnapshot, Locks, KnowsToken, StagesFit
<1>3. req' = [req EXCEPT ![r] = new] /\ Unchanged
  BY DEF BulkSnapshot, Unchanged
<1>4. \A t \in todo : t \in Tokens /\ tokens[t].state # "NONE"
  BY <1>1 DEF Matches, Live, Rows
<1> HIDE DEF todo
<1>5. /\ new \in RequestRow /\ new.op = req[r].op /\ new.user = req[r].user
      /\ new.token = req[r].token /\ new.past = req[r].past
      /\ new.change = req[r].change /\ new.at = "write" /\ new.answer = req[r].answer
      /\ new.todo = todo /\ new.held = {}
  BY <1>2, <1>4 DEF RequestRow
<1> HIDE DEF new
<1>6. req'[r] = new /\ req' = [q \in Requests |-> IF q = r THEN req'[r] ELSE req[q]]
  BY <1>3, <1>1 DEF Types
<1>7. Moves(r) BY <1>2, <1>3, <1>4, <1>5, <1>6 DEF Moves
<1>8. ASSUME NEW t \in Tokens, Revokes(r, t)', Live(t)
      PROVE  t \in todo
  <2>1. Revokes(r, t) BY <1>3, <1>5, <1>6, <1>8 DEF Revokes, Unchanged
  <2>2. Matches(r, t) BY <2>1, <1>2, <1>8 DEF Revokes, Matches, Family
  <2> QED BY <2>2 DEF todo
<1> QED BY <1>2, <1>5, <1>6, <1>7, <1>8, MoveKeeps

-----------------------------------------------------------------------------
(* The end of a request.                                                   *)

LEMMA Ended ==
  ASSUME Types, NEW r \in Requests, NEW answer \in Answers, End(r, answer)
  PROVE  /\ req' \in [Requests -> RequestRow]
         /\ \A q \in Requests : q # r => req'[q] = req[q]
         /\ req'[r].at = "over" /\ req'[r].answer = answer
         /\ req'[r].todo = {} /\ req'[r].held = {} /\ req'[r].change = NoChange
         /\ req'[r].op = req[r].op /\ req'[r].user = req[r].user
         /\ req'[r].token = req[r].token /\ req'[r].past = req[r].past
         /\ Over' = Over \cup {r}
<1>1. req[r] \in RequestRow BY DEF Types
<1> DEFINE new == [req[r] EXCEPT !.at = "over", !.answer = answer, !.todo = {},
                                 !.held = {}, !.change = NoChange]
<1>2. req' = [req EXCEPT ![r] = new] BY DEF End, Types
<1>3. /\ new \in RequestRow /\ new.at = "over" /\ new.answer = answer /\ new.todo = {}
      /\ new.held = {} /\ new.change = NoChange /\ new.op = req[r].op
      /\ new.user = req[r].user /\ new.token = req[r].token /\ new.past = req[r].past
  BY <1>1 DEF RequestRow, Change
<1> HIDE DEF new
<1>4. req'[r] = new /\ \A q \in Requests : q # r => req'[q] = req[q]
  BY <1>2 DEF Types
<1>5. req' \in [Requests -> RequestRow] BY <1>2, <1>3 DEF Types
<1>6. Over' = Over \cup {r} BY <1>3, <1>4 DEF Over
<1> QED BY <1>3, <1>4, <1>5, <1>6

\* A rollback: nothing the request meant to write becomes visible.
LEMMA FailKeeps ==
  ASSUME IInv, NEW r \in Requests, req[r].at \notin {"new", "over"}, End(r, "ERROR"),
         UNCHANGED <<users, tokens, expired>>, crashes' \in Nat
  PROVE  IInv'
<1>1. Types BY DEF IInv
<1>2. /\ req' \in [Requests -> RequestRow]
      /\ \A q \in Requests : q # r => req'[q] = req[q]
      /\ req'[r].at = "over" /\ req'[r].answer = "ERROR"
      /\ req'[r].todo = {} /\ req'[r].held = {} /\ req'[r].change = NoChange
      /\ req'[r].op = req[r].op /\ req'[r].user = req[r].user
      /\ req'[r].token = req[r].token /\ req'[r].past = req[r].past
      /\ Over' = Over \cup {r}
  BY <1>1, Ended DEF Answers
<1> USE <1>2
<1>3. \A q \in Requests : (Rotation(q) <=> Rotation(q)') /\ (SignIn(q) <=> SignIn(q)')
  BY DEF Rotation, SignIn, Answered
<1>4. r \notin Over BY DEF Over
<1>a. Types' BY <1>1 DEF Types
<1>b. Rows'
  <2>1. Rows BY DEF IInv
  <2>2. \A q \in Requests : req'[q].user = req[q].user OBVIOUS
  <2> QED BY <2>1, <2>2, <1>1, <1>3 DEF Rows, Types, TokenRow
<1>c. Locks' BY DEF IInv, Locks
<1>d. Pasts' BY DEF IInv, Pasts
<1>e. SuccessorEndsToken'
  <2>1. SuccessorEndsToken BY DEF IInv
  <2>2. ~Rotation(r) BY DEF Rotation, Answered
  <2> QED BY <2>1, <2>2, <1>3 DEF SuccessorEndsToken, Live
<1>f. KnowsToken'
  <2>1. KnowsToken BY DEF IInv
  <2> QED BY <2>1 DEF KnowsToken
<1>g. StagesFit'
  <2>1. StagesFit BY DEF IInv
  <2> QED BY <2>1 DEF StagesFit
<1>h. RotatesUnspent'
  <2>1. RotatesUnspent BY DEF IInv
  <2> SUFFICES ASSUME NEW q \in Requests, NEW p \in req'[q].past,
                      Rotating(q)', Rotation(p)'
               PROVE  req'[q].token # req'[p].token
    BY DEF RotatesUnspent
  <2>2. q # r /\ p \in req[q].past /\ p \in Requests
    BY <1>1 DEF Rotating, Types, RequestRow
  <2>3. Rotating(q) /\ Rotation(p) BY <2>2, <1>3 DEF Rotating
  <2>4. req[q].token # req[p].token BY <2>1, <2>2, <2>3 DEF RotatesUnspent
  <2>5. req'[p].token = req[p].token BY <2>2
  <2> QED BY <2>2, <2>4, <2>5
<1>i. RevocationsOnTheWay'
  <2>1. RevocationsOnTheWay BY DEF IInv
  <2> SUFFICES ASSUME NEW c \in Requests, NEW t \in Tokens, req'[c].at \in {"write", "over"},
                      Revokes(c, t)', Live(t)',
                      t \in Seeds \cup req'[c].past \/ req'[c].op = "logout"
               PROVE  t \in req'[c].todo \cup req'[c].held
    BY DEF RevocationsOnTheWay
  <2>2. c # r BY DEF Revokes
  <2>3. Revokes(c, t) /\ Live(t) BY <2>2 DEF Revokes, Live
  <2> QED BY <2>1, <2>2, <2>3 DEF RevocationsOnTheWay
<1>j. ChangesFit'
  <2>1. ChangesFit BY DEF IInv
  <2>2. "status" \notin DOMAIN NoChange BY DEF NoChange
  <2> QED BY <2>1, <2>2 DEF ChangesFit
<1>k. ActiveWhenRead'
  <2>1. ActiveWhenRead BY DEF IInv
  <2> SUFFICES ASSUME NEW q \in Requests, SignsInLater(q)',
                      users'[req'[q].user].status = "DISABLED"
               PROVE  \E c \in Over' \ req'[q].past : StatusChange(c, req[q].user)'
    BY DEF ActiveWhenRead
  <2>2. q # r /\ SignsInLater(q) BY DEF SignsInLater, Live
  <2>3. PICK c \in Over \ req[q].past : StatusChange(c, req[q].user)
    BY <2>1, <2>2 DEF ActiveWhenRead
  <2>4. c # r /\ c \in Requests BY <1>4 DEF Over
  <2>5. StatusChange(c, req[q].user)' BY <2>2, <2>3, <2>4 DEF StatusChange, Answered
  <2> QED BY <2>2, <2>3, <2>5
<1> QED BY <1>a, <1>b, <1>c, <1>d, <1>e, <1>f, <1>g, <1>h, <1>i, <1>j, <1>k DEF IInv

LEMMA WriteRowKeeps ==
  ASSUME IInv, NEW r \in Requests, WriteRow(r)
  PROVE  IInv'
<1>1. Types /\ Locks /\ KnowsToken /\ StagesFit BY DEF IInv
<1>2. req[r] \in RequestRow /\ req[r].at = "write" BY <1>1 DEF Types, WriteRow
<1>3. PICK t \in req[r].todo :
        /\ \A q \in Requests \ {r} : t \notin req[q].held
        /\ IF ByKey(r) /\ tokens[t].state = "PURGED" THEN End(r, "ERROR")
           ELSE req' = [req EXCEPT ![r].todo = @ \ {t},
                           ![r].held = IF ByKey(r) \/ Matches(r, t)
                                       THEN @ \cup {t} ELSE @]
  BY DEF WriteRow
<1>4. Unchanged BY DEF WriteRow, Unchanged
<1>5. CASE End(r, "ERROR")
  BY <1>1, <1>2, <1>4, <1>5, FailKeeps DEF Unchanged, Types
<1>6. CASE ~(ByKey(r) /\ tokens[t].state = "PURGED")
  <2> DEFINE held == IF ByKey(r) \/ Matches(r, t) THEN req[r].held \cup {t} ELSE req[r].held
             new == [req[r] EXCEPT !.todo = req[r].todo \ {t}, !.held = held]
  <2>1. req' = [req EXCEPT ![r] = new] BY <1>1, <1>3, <1>6 DEF Types
  <2>2. t \in Tokens /\ tokens[t].state # "NONE" BY <1>1, <1>2 DEF Locks, RequestRow
  <2>3. held \subseteq req[r].held \cup {t} /\ req[r].held \subseteq held OBVIOUS
  <2>4. ByKey(r) \/ Matches(r, t) => t \in held OBVIOUS
  <2> HIDE DEF held
  <2>5. /\ new \in RequestRow /\ new.op = req[r].op /\ new.user = req[r].user
        /\ new.token = req[r].token /\ new.past = req[r].past
        /\ new.change = req[r].change /\ new.at = "write" /\ new.answer = req[r].answer
        /\ new.todo = req[r].todo \ {t} /\ new.held = held
    BY <1>2, <2>2, <2>3 DEF RequestRow
  <2> HIDE DEF new
  <2>6. req'[r] = new /\ req' = [q \in Requests |-> IF q = r THEN req'[r] ELSE req[q]]
    BY <2>1, <1>1 DEF Types
  <2>7. /\ \A s \in new.todo \cup new.held : tokens[s].state # "NONE"
        /\ \A q \in Requests \ {r} : new.held \cap req[q].held = {}
    BY <1>1, <1>3, <2>2, <2>3, <2>5 DEF Locks
  <2>8. Moves(r) BY <1>2, <1>4, <2>5, <2>6, <2>7 DEF Moves
  <2>9. \A s \in Tokens : Revokes(r, s)' => Revokes(r, s)
    BY <1>4, <2>5, <2>6 DEF Revokes, Unchanged
  <2>10. Revokes(r, t) /\ Live(t) => t \in held
    BY <2>2, <2>4 DEF Revokes, Matches, ByKey, Family
  <2>11. ASSUME NEW s \in Tokens, Revokes(r, s)', Live(s),
                s \in Seeds \cup req[r].past \/ req[r].op = "logout"
         PROVE  s \in new.todo \cup new.held
    <3>1. RevocationsOnTheWay BY DEF IInv
    <3>2. s \in req[r].todo \cup req[r].held
      BY <3>1, <2>9, <2>11, <1>2 DEF RevocationsOnTheWay
    <3> QED BY <3>2, <2>3, <2>5, <2>9, <2>10, <2>11
  <2>12. req[r].op = "refresh" /\ req[r].answer = "ISSUED" =>
            req[r].token \in new.todo \cup new.held
    BY <1>1, <1>2, <2>3, <2>4, <2>5 DEF KnowsToken, ByKey
  <2> QED BY <2>5, <2>6, <2>8, <2>11, <2>12, MoveKeeps
<1> QED BY <1>3, <1>5, <1>6

\* What a commit does to the row of the user.
LEMMA ChangedUser ==
  ASSUME NEW row \in UserRow, NEW change \in Change
  PROVE  /\ Overwrite(row, change) \in UserRow
         /\ "status" \notin DOMAIN change => Overwrite(row, change).status = row.status
<1>0. DOMAIN row = {"status", "password", "outdated", "changed"} BY DEF UserRow
<1>1. CASE change = NoChange BY <1>0, <1>1 DEF NoChange, Overwrite, UserRow
<1>2. CASE change \in [status : Statuses] BY <1>0, <1>2 DEF Overwrite, UserRow
<1>3. CASE change \in [password : Nat, outdated : BOOLEAN]
  BY <1>0, <1>3 DEF Overwrite, UserRow
<1>4. CASE change \in [password : Nat, outdated : BOOLEAN, changed : Nat]
  BY <1>0, <1>4 DEF Overwrite, UserRow
<1> QED BY <1>1, <1>2, <1>3, <1>4 DEF Change

\* What a commit does to the tables.
LEMMA Committed ==
  ASSUME IInv, NEW r \in Requests, Commit(r)
  PROVE  /\ tokens' \in [Tokens -> TokenRow]
         /\ tokens[r].state = "NONE"
         /\ \A t \in Tokens : t # r =>
               /\ tokens'[t].user = tokens[t].user /\ tokens'[t].family = tokens[t].family
               /\ tokens'[t].state = "NONE" <=> tokens[t].state = "NONE"
               /\ Live(t)' => Live(t) /\ t \notin req[r].held
         /\ req[r].answer = "ISSUED" => tokens'[r] = Issued(r)
         /\ req[r].answer # "ISSUED" => tokens'[r] = tokens[r]
         /\ users' \in [Users -> UserRow]
         /\ \A u \in Users : users'[u].status # users[u].status =>
               u = req[r].user /\ "status" \in DOMAIN req[r].change
<1>1. Types /\ Rows /\ Locks /\ KnowsToken /\ StagesFit BY DEF IInv
<1>2. req[r] \in RequestRow /\ req[r].at = "write" BY <1>1 DEF Types, Commit
<1>3. tokens[r].state = "NONE"
  BY <1>1, <1>2 DEF Rows, Rotation, SignIn, Answered
<1>4. r \notin req[r].held BY <1>1, <1>3 DEF Locks
<1>5. tokens' = [t \in Tokens |->
          IF t \in req[r].held THEN [tokens[t] EXCEPT !.state = Written(r)]
          ELSE IF t = r /\ req[r].answer = "ISSUED" THEN Issued(r) ELSE tokens[t]]
  BY DEF Commit
<1>6. Written(r) \in {"REVOKED", "PURGED"} BY DEF Written
<1>7. ASSUME NEW t \in Tokens, t # r
      PROVE  /\ tokens'[t] \in TokenRow
             /\ tokens'[t].user = tokens[t].user /\ tokens'[t].family = tokens[t].family
             /\ tokens'[t].state = "NONE" <=> tokens[t].state = "NONE"
             /\ Live(t)' => Live(t) /\ t \notin req[r].held
  <2>1. tokens[t] \in TokenRow BY <1>1 DEF Types
  <2>2. CASE t \in req[r].held
    <3>1. tokens'[t] = [tokens[t] EXCEPT !.state = Written(r)] BY <1>5, <2>2
    <3>2. tokens[t].state # "NONE" BY <1>1, <2>2 DEF Locks
    <3> QED BY <3>1, <3>2, <2>1, <1>6 DEF TokenRow, Live
  <2>3. CASE t \notin req[r].held
    <3>1. tokens'[t] = tokens[t] BY <1>5, <1>7, <2>3
    <3> QED BY <3>1, <2>1, <2>3 DEF Live
  <2> QED BY <2>2, <2>3
<1>8. /\ req[r].answer = "ISSUED" => tokens'[r] = Issued(r)
      /\ req[r].answer # "ISSUED" => tokens'[r] = tokens[r]
  BY <1>4, <1>5
<1>9. tokens'[r] \in TokenRow
  <2>1. CASE req[r].answer = "ISSUED"
    <3>1. req[r].op = "refresh" => tokens[req[r].token].family \in Tokens
      BY <1>1 DEF KnowsToken, Rows
    <3>2. req[r].user \in Users BY <1>1, <2>1 DEF StagesFit
    <3> QED BY <3>1, <3>2, <2>1, <1>8 DEF Issued, TokenRow
  <2>2. CASE req[r].answer # "ISSUED" BY <2>2, <1>1, <1>8 DEF Types
  <2> QED BY <2>1, <2>2
<1>10. tokens' \in [Tokens -> TokenRow]
  <2>1. \A t \in Tokens : tokens'[t] \in TokenRow BY <1>7, <1>9
  <2>2. tokens' = [t \in Tokens |-> tokens'[t]] BY <1>5
  <2> QED BY <2>1, <2>2
<1>11. users' = [u \in Users |->
          IF u = req[r].user THEN Overwrite(users[u], req[r].change) ELSE users[u]]
  BY DEF Commit
<1>12. ASSUME NEW u \in Users
       PROVE  /\ users'[u] \in UserRow
              /\ users'[u].status # users[u].status =>
                    u = req[r].user /\ "status" \in DOMAIN req[r].change
  <2>1. users[u] \in UserRow /\ req[r].change \in Change
    BY <1>1, <1>2 DEF Types, RequestRow
  <2> QED BY <2>1, <1>11, ChangedUser
<1>13. users' \in [Users -> UserRow] BY <1>11, <1>12
<1> QED BY <1>3, <1>7, <1>8, <1>10, <1>12, <1>13

LEMMA CommitKeeps ==
  ASSUME IInv, NEW r \in Requests, Commit(r)
  PROVE  IInv'
<1>1. Types /\ Rows /\ Locks /\ Pasts /\ KnowsToken /\ StagesFit BY DEF IInv
<1>2. /\ req[r] \in RequestRow /\ req[r].at = "write" /\ req[r].todo = {}
      /\ End(r, req[r].answer) /\ expired' = expired /\ crashes' = crashes
  BY <1>1 DEF Types, Commit
<1>3. /\ req' \in [Requests -> RequestRow]
      /\ \A q \in Requests : q # r => req'[q] = req[q]
      /\ req'[r].at = "over" /\ req'[r].answer = req[r].answer
      /\ req'[r].todo = {} /\ req'[r].held = {} /\ req'[r].change = NoChange
      /\ req'[r].op = req[r].op /\ req'[r].user = req[r].user
      /\ req'[r].token = req[r].token /\ req'[r].past = req[r].past
      /\ Over' = Over \cup {r}
  <2>1. req[r].answer \in Answers BY <1>2 DEF RequestRow
  <2> QED BY <1>1, <1>2, <2>1, Ended
<1>4. /\ tokens' \in [Tokens -> TokenRow]
      /\ tokens[r].state = "NONE"
      /\ \A t \in Tokens : t # r =>
            /\ tokens'[t].user = tokens[t].user /\ tokens'[t].family = tokens[t].family
            /\ tokens'[t].state = "NONE" <=> tokens[t].state = "NONE"
            /\ Live(t)' => Live(t) /\ t \notin req[r].held
      /\ req[r].answer = "ISSUED" => tokens'[r] = Issued(r)
      /\ req[r].answer # "ISSUED" => tokens'[r] = tokens[r]
      /\ users' \in [Users -> UserRow]
      /\ \A u \in Users : users'[u].status # users[u].status =>
            u = req[r].user /\ "status" \in DOMAIN req[r].change
  BY Committed
<1>5. r \notin Over /\ \A q \in Requests : r \notin req[q].past
  BY <1>1, <1>2 DEF Over, Pasts
<1>6. \A q \in Requests : /\ Rotation(q) => Rotation(q)'
                          /\ SignIn(q) => SignIn(q)'
                          /\ q # r /\ Rotation(q)' => Rotation(q)
                          /\ q # r /\ SignIn(q)' => SignIn(q)
  BY <1>2, <1>3 DEF Rotation, SignIn, Answered
<1>7. \A q \in Requests : req'[q].user = req[q].user /\ req'[q].token = req[q].token
                          /\ req'[q].op = req[q].op /\ req'[q].past = req[q].past
                          /\ req'[q].answer = req[q].answer
  BY <1>3
<1>a. Types' BY <1>1, <1>2, <1>3, <1>4 DEF Types
<1>b. Rows'
  <2> SUFFICES ASSUME NEW t \in Tokens
               PROVE  IF tokens'[t].state = "NONE" THEN t \in Requests /\ t \notin expired'
                      ELSE /\ tokens'[t].user \in Users
                           /\ t \in Requests => /\ Rotation(t)' \/ SignIn(t)'
                                                /\ req'[t].user = tokens'[t].user
                           /\ tokens'[t].family \in Tokens
                           /\ tokens'[tokens'[t].family].state # "NONE"
                           /\ tokens'[t].family \in Requests => SignIn(tokens[t].family)'
                           /\ tokens'[tokens'[t].family].user = tokens'[t].user
    BY DEF Rows
  <2>1. CASE t # r
    <3>1. tokens[t].state # "NONE" => tokens[t].family # r BY <1>1, <1>4 DEF Rows
    <3>2. CASE tokens[t].state = "NONE" BY <3>2, <2>1, <1>1, <1>2, <1>4 DEF Rows
    <3>3. CASE tokens[t].state # "NONE"
      <4>1. /\ tokens[t].user \in Users
            /\ t \in Requests => (Rotation(t) \/ SignIn(t)) /\ req[t].user = tokens[t].user
        BY <3>3, <1>1 DEF Rows
      <4>2. PICK f \in Tokens : /\ f = tokens[t].family
                                /\ tokens[f].state # "NONE"
                                /\ f \in Requests => SignIn(f)
                                /\ tokens[f].user = tokens[t].user
        BY <3>3, <1>1 DEF Rows
      <4>3. f # r /\ tokens'[t].family = f /\ tokens'[t].user = tokens[t].user
            /\ tokens'[t].state # "NONE"
        BY <4>2, <3>1, <3>3, <2>1, <1>4
      <4>4. tokens'[f].state # "NONE" /\ tokens'[f].user = tokens[t].user
        BY <4>2, <4>3, <1>4
      <4>5. /\ t \in Requests => (Rotation(t)' \/ SignIn(t)') /\ req'[t].user = tokens[t].user
            /\ f \in Requests => SignIn(f)'
        BY <4>1, <4>2, <1>6, <1>7
      <4>6. tokens'[t].family \in Requests => SignIn(tokens[t].family)'
        BY <4>3, <4>5 DEF SignIn, Answered
      <4> QED BY <4>1, <4>3, <4>4, <4>5, <4>6
    <3> QED BY <3>2, <3>3
  <2>2. CASE t = r /\ req[r].answer # "ISSUED"
    BY <2>2, <1>1, <1>2, <1>4 DEF Rows
  <2>3. CASE t = r /\ req[r].answer = "ISSUED"
    <3>1. tokens'[r] = Issued(r) /\ req[r].op \in {"login", "refresh"} /\ req[r].user \in Users
      BY <2>3, <1>1, <1>4 DEF StagesFit
    <3>2. Rotation(r)' \/ SignIn(r)'
      BY <2>3, <3>1, <1>3 DEF Rotation, SignIn, Answered
    <3>3. CASE req[r].op = "login"
      BY <2>3, <3>1, <3>2, <3>3, <1>3 DEF Issued, SignIn, Rotation, Answered
    <3>4. CASE req[r].op = "refresh"
      <4> DEFINE f == tokens[req[r].token].family
      <4>1. /\ f \in Tokens /\ tokens[f].state # "NONE" /\ tokens[f].user = req[r].user
            /\ f \in Requests => SignIn(f)
        BY <3>4, <1>1 DEF KnowsToken, Rows
      <4>2. f # r BY <4>1, <1>4
      <4> HIDE DEF f
      <4>3. tokens'[r].family = f /\ tokens'[r].user = req[r].user /\ tokens'[r].state = "LIVE"
        BY <3>1, <3>4 DEF Issued, f
      <4> QED BY <2>3, <3>1, <3>2, <4>1, <4>2, <4>3, <1>3, <1>4, <1>6
    <3> QED BY <3>1, <3>3, <3>4
  <2> QED BY <2>1, <2>2, <2>3
<1>c. Locks'
  <2>1. \A q \in Requests : \A t \in req[q].todo \cup req[q].held :
           t \in Tokens /\ t # r /\ tokens[t].state # "NONE"
    BY <1>1, <1>4 DEF Locks, Types, RequestRow
  <2> QED BY <2>1, <1>1, <1>3, <1>4 DEF Locks
<1>d. Pasts' BY <1>1, <1>3, <1>7 DEF Pasts
<1>e. SuccessorEndsToken'
  <2> SUFFICES ASSUME NEW q \in Requests, Rotation(q)' PROVE ~Live(req[q].token)'
    BY DEF SuccessorEndsToken
  <2>1. req'[q].token = req[q].token /\ req[q].token \in Tokens /\ req[q].token # r
    <3>1. req[q].op = "refresh" BY <1>7 DEF Rotation
    <3> QED BY <3>1, <1>1, <1>4, <1>7 DEF KnowsToken
  <2>2. CASE q # r
    <3>1. ~Live(req[q].token) BY <2>2, <1>6 DEF IInv, SuccessorEndsToken
    <3> QED BY <3>1, <2>1, <1>4 DEF Live
  <2>3. CASE q = r
    <3>1. req[r].token \in req[r].held
      BY <2>3, <1>1, <1>2, <1>7 DEF KnowsToken, Rotation, Answered
    <3> QED BY <3>1, <2>1, <2>3, <1>4 DEF Live
  <2> QED BY <2>2, <2>3
<1>f. KnowsToken'
  <2> SUFFICES ASSUME NEW q \in Requests, req'[q].op \in {"refresh", "logout"}
               PROVE  /\ req'[q].token \in Tokens
                      /\ tokens'[req'[q].token].state # "NONE"
                      /\ req'[q].user = tokens'[req'[q].token].user
                      /\ req'[q].op = "logout" => req'[q].at \in {"write", "over"}
                      /\ req'[q].op = "refresh" /\ req'[q].at = "write"
                            /\ req'[q].answer = "ISSUED"
                            => req'[q].token \in req'[q].todo \cup req'[q].held
    BY DEF KnowsToken
  <2>1. req[q].token \in Tokens /\ tokens[req[q].token].state # "NONE"
        /\ req[q].user = tokens[req[q].token].user /\ req[q].token # r
    BY <1>1, <1>4, <1>7 DEF KnowsToken
  <2>2. /\ req'[q].token = req[q].token /\ tokens'[req[q].token].state # "NONE"
        /\ req'[q].user = tokens'[req[q].token].user
    BY <2>1, <1>4, <1>7
  <2>3. CASE q # r
    <3>1. req'[q] = req[q] BY <2>3, <1>3
    <3> QED BY <3>1, <2>1, <2>2, <1>1 DEF KnowsToken
  <2>4. CASE q = r BY <2>1, <2>2, <2>4, <1>3
  <2> QED BY <2>3, <2>4
<1>g. StagesFit'
  <2>1. \A q \in Requests : req'[q].at = req[q].at \/ q = r BY <1>3
  <2> QED BY <2>1, <1>1, <1>3, <1>7 DEF StagesFit
<1>h. RotatesUnspent'
  <2>1. RotatesUnspent BY DEF IInv
  <2> SUFFICES ASSUME NEW q \in Requests, NEW p \in req'[q].past,
                      Rotating(q)', Rotation(p)'
               PROVE  req'[q].token # req'[p].token
    BY DEF RotatesUnspent
  <2>2. p \in req[q].past /\ p \in Requests /\ p # r
    BY <1>1, <1>5, <1>7 DEF Types, RequestRow
  <2>3. Rotation(p) BY <2>2, <1>6
  <2>4. Rotating(q) BY <1>3, <1>7 DEF Rotating
  <2> QED BY <2>1, <2>2, <2>3, <2>4, <1>7 DEF RotatesUnspent
<1>i. RevocationsOnTheWay'
  <2>1. RevocationsOnTheWay BY DEF IInv
  <2> SUFFICES ASSUME NEW c \in Requests, NEW t \in Tokens, req'[c].at \in {"write", "over"},
                      Revokes(c, t)', Live(t)',
                      t \in Seeds \cup req'[c].past \/ req'[c].op = "logout"
               PROVE  t \in req'[c].todo \cup req'[c].held
    BY DEF RevocationsOnTheWay
  <2>2. req[c].op \in {"refresh", "logout"} =>
           req[c].token \in Tokens /\ req[c].token # r
    BY <1>1, <1>4 DEF KnowsToken
  <2>3. t # r
    <3>1. CASE req'[c].op = "logout" BY <3>1, <2>2, <1>7 DEF Revokes
    <3>2. CASE t \in Seeds \cup req'[c].past BY <3>2, <1>5, <1>7
    <3> QED BY <3>1, <3>2
  <2>4. Revokes(c, t)
    BY <2>2, <2>3, <1>4, <1>7, ZenonT(40) DEF Revokes
  <2>5. Live(t) /\ t \notin req[r].held BY <2>3, <1>4
  <2>6. req[c].at \in {"write", "over"} BY <1>2, <1>3
  <2>7. t \in req[c].todo \cup req[c].held
    BY <2>1, <2>4, <2>5, <2>6, <1>7 DEF RevocationsOnTheWay
  <2>8. c # r BY <2>5, <2>7, <1>2
  <2> QED BY <2>7, <2>8, <1>3
<1>j. ChangesFit'
  <2>1. ChangesFit BY DEF IInv
  <2>2. "status" \notin DOMAIN NoChange BY DEF NoChange
  <2> QED BY <2>1, <2>2, <1>3 DEF ChangesFit
<1>k. ActiveWhenRead'
  <2>1. ActiveWhenRead /\ ChangesFit BY DEF IInv
  <2> SUFFICES ASSUME NEW q \in Requests, SignsInLater(q)',
                      users'[req'[q].user].status = "DISABLED"
               PROVE  \E c \in Over' \ req'[q].past : StatusChange(c, req[q].user)'
    BY DEF ActiveWhenRead
  <2>2. SignsInLater(q)
    <3>1. CASE q # r BY <3>1, <1>3, <1>4, <1>7 DEF SignsInLater
    <3>2. CASE q = r BY <3>2, <1>2, <1>7 DEF SignsInLater
    <3> QED BY <3>1, <3>2
  <2>3. req[q].user \in Users BY <2>2, <1>1 DEF SignsInLater, StagesFit
  <2>4. CASE users[req[q].user].status = "DISABLED"
    <3>1. PICK c \in Over \ req[q].past : StatusChange(c, req[q].user)
      BY <2>1, <2>2, <2>4 DEF ActiveWhenRead
    <3>2. c # r /\ c \in Requests BY <1>5 DEF Over
    <3>3. StatusChange(c, req[q].user)'
      BY <3>1, <3>2, <1>3, <1>7 DEF StatusChange, Answered
    <3> QED BY <3>1, <3>3, <1>3, <1>7
  <2>5. CASE users[req[q].user].status # "DISABLED"
    <3>1. req[q].user = req[r].user /\ "status" \in DOMAIN req[r].change
      BY <2>3, <2>5, <1>4, <1>7
    <3>2. StatusChange(r, req[q].user)'
      BY <3>1, <2>1, <1>3, <1>7 DEF ChangesFit, StatusChange, Answered
    <3> QED BY <3>2, <1>3, <1>5, <1>7
  <2> QED BY <2>4, <2>5
<1> QED BY <1>a, <1>b, <1>c, <1>d, <1>e, <1>f, <1>g, <1>h, <1>i, <1>j, <1>k DEF IInv

-----------------------------------------------------------------------------
(* The inductive invariant.                                                *)

LEMMA InitIInv == Init => IInv
<1> SUFFICES ASSUME Init PROVE IInv OBVIOUS
<1>1. /\ users \in [Users -> UserRow] /\ expired = {} /\ crashes = 0
  BY DEF Init, UserRow, Statuses
<1>2. PICK owner \in [Seeds -> Users] :
         tokens = [t \in Tokens |->
             IF t \in Seeds THEN [state |-> "LIVE", user |-> owner[t], family |-> t]
                            ELSE NoToken]
  BY DEF Init
<1>3. \A t \in Tokens :
         /\ tokens[t] \in TokenRow
         /\ t \in Requests => tokens[t].state = "NONE"
         /\ t \in Seeds => /\ tokens[t].state = "LIVE" /\ tokens[t].user \in Users
                           /\ tokens[t].family = t
  BY <1>2 DEF NoToken, TokenRow
<1>4. tokens \in [Tokens -> TokenRow] BY <1>2, <1>3
<1>5. \A r \in Requests : req[r] = NewRequest BY DEF Init
<1>6. /\ NewRequest.op = "none" /\ NewRequest.at = "new" /\ NewRequest.past = {}
      /\ NewRequest.todo = {} /\ NewRequest.held = {} /\ NewRequest.answer = "none"
      /\ NewRequest.change = NoChange
  BY DEF NewRequest
<1>7. NewRequest \in RequestRow BY DEF NewRequest, RequestRow, Answers, Change
<1>8. req \in [Requests -> RequestRow] BY <1>7 DEF Init
<1>a. Types BY <1>1, <1>4, <1>8 DEF Types
<1>b. Rows
  <2> SUFFICES ASSUME NEW t \in Tokens
               PROVE  IF tokens[t].state = "NONE" THEN t \in Requests /\ t \notin expired
                      ELSE /\ tokens[t].user \in Users
                           /\ t \in Requests => /\ Rotation(t) \/ SignIn(t)
                                                /\ req[t].user = tokens[t].user
                           /\ tokens[t].family \in Tokens
                           /\ tokens[tokens[t].family].state # "NONE"
                           /\ tokens[t].family \in Requests => SignIn(tokens[t].family)
                           /\ tokens[tokens[t].family].user = tokens[t].user
    BY DEF Rows
  <2>1. CASE t \in Requests BY <2>1, <1>1, <1>3
  <2>2. CASE t \in Seeds /\ t \notin Requests BY <2>2, <1>3
  <2> QED BY <2>1, <2>2
<1>c. Locks BY <1>5, <1>6 DEF Locks
<1>d. Pasts BY <1>5, <1>6 DEF Pasts
<1>e. SuccessorEndsToken /\ KnowsToken /\ StagesFit /\ RotatesUnspent
  BY <1>5, <1>6 DEF SuccessorEndsToken, Rotation, Answered, KnowsToken, StagesFit,
                    RotatesUnspent
<1>f. RevocationsOnTheWay BY <1>5, <1>6 DEF RevocationsOnTheWay
<1>g. ChangesFit BY <1>5, <1>6 DEF ChangesFit, NoChange
<1>h. ActiveWhenRead BY <1>5, <1>6 DEF ActiveWhenRead, SignsInLater
<1> QED BY <1>a, <1>b, <1>c, <1>d, <1>e, <1>f, <1>g, <1>h DEF IInv

\* A step that leaves the tables and the requests alone.
LEMMA ExpireKeeps ==
  ASSUME IInv, NEW t \in Tokens, Expire(t)
  PROVE  IInv'
<1>1. /\ users' = users /\ tokens' = tokens /\ req' = req /\ crashes' = crashes
      /\ expired' = expired \cup {t} /\ tokens[t].state # "NONE"
  BY DEF Expire
<1>2. Types' BY <1>1 DEF IInv, Types
<1>3. Rows' BY <1>1 DEF IInv, Rows, Rotation, SignIn, Answered
<1>4. Locks' /\ Pasts' /\ KnowsToken' /\ StagesFit' /\ ChangesFit'
  BY <1>1 DEF IInv, Locks, Pasts, Over, KnowsToken, StagesFit, ChangesFit
<1>5. SuccessorEndsToken' /\ RotatesUnspent'
  BY <1>1 DEF IInv, SuccessorEndsToken, RotatesUnspent, Rotating, Rotation, Answered, Live
<1>6. RevocationsOnTheWay' BY <1>1 DEF IInv, RevocationsOnTheWay, Revokes, Live
<1>7. ActiveWhenRead'
  <2>1. ActiveWhenRead /\ Over' = Over BY <1>1 DEF IInv, Over
  <2>2. \A r : SignsInLater(r)' <=> SignsInLater(r) BY <1>1 DEF SignsInLater, Live
  <2>3. \A c, u : StatusChange(c, u)' <=> StatusChange(c, u) BY <1>1 DEF StatusChange, Answered
  <2> QED BY <1>1, <2>1, <2>2, <2>3 DEF ActiveWhenRead
<1> QED BY <1>2, <1>3, <1>4, <1>5, <1>6, <1>7 DEF IInv

LEMMA StutterKeeps ==
  ASSUME IInv, UNCHANGED vars
  PROVE  IInv'
<1>1. /\ users' = users /\ tokens' = tokens /\ req' = req /\ crashes' = crashes
      /\ expired' = expired
  BY DEF vars
<1>2. Types' /\ Rows' BY <1>1 DEF IInv, Types, Rows, Rotation, SignIn, Answered
<1>4. Locks' /\ Pasts' /\ KnowsToken' /\ StagesFit' /\ ChangesFit'
  BY <1>1 DEF IInv, Locks, Pasts, Over, KnowsToken, StagesFit, ChangesFit
<1>5. SuccessorEndsToken' /\ RotatesUnspent'
  BY <1>1 DEF IInv, SuccessorEndsToken, RotatesUnspent, Rotating, Rotation, Answered, Live
<1>6. RevocationsOnTheWay' BY <1>1 DEF IInv, RevocationsOnTheWay, Revokes, Live
<1>6a. \A r \in Requests : SignsInLater(r)' => SignsInLater(r)
  BY <1>1 DEF SignsInLater, Live
<1>7. ActiveWhenRead'
  BY <1>1, <1>6a DEF IInv, ActiveWhenRead, StatusChange, Answered, Over
<1> QED BY <1>2, <1>4, <1>5, <1>6, <1>7 DEF IInv

LEMMA StartKeeps ==
  ASSUME IInv, NEW r \in Requests, Start(r)
  PROVE  IInv'
<1>1. ASSUME NEW t \in Tokens, RefreshRead(r, t) \/ LogoutRead(r, t) PROVE IInv'
  BY <1>1, RefreshReadKeeps, LogoutReadKeeps
<1>2. ASSUME NEW u \in Users, NEW right \in BOOLEAN,
             LoginRead(r, u, right) \/ ChangePassword(r, u, right)
      PROVE  IInv'
  BY <1>2, LoginReadKeeps, ManagementKeeps
<1>3. ASSUME NEW u \in Users, ResetPassword(r, u) \/ UpdateRole(r, u) PROVE IInv'
  BY <1>3, ManagementKeeps
<1>4. ASSUME NEW u \in Users, NEW op \in {"enable", "disable"}, SetStatus(r, u, op)
      PROVE  IInv'
  BY <1>4, ManagementKeeps
<1>5. ASSUME Purge(r) PROVE IInv' BY <1>5, ManagementKeeps
<1> QED BY <1>1, <1>2, <1>3, <1>4, <1>5 DEF Start

LEMMA NextKeeps == IInv /\ [Next]_vars => IInv'
<1> SUFFICES ASSUME IInv, [Next]_vars PROVE IInv' OBVIOUS
<1>1. ASSUME NEW r \in Requests, Start(r) PROVE IInv' BY <1>1, StartKeeps
<1>2. ASSUME NEW r \in Requests, Step(r) PROVE IInv'
  BY <1>2, RefreshUserKeeps, BulkSnapshotKeeps, WriteRowKeeps, CommitKeeps DEF Step
<1>3. ASSUME NEW r \in Requests, Crash(r) PROVE IInv'
  <2>1. crashes' \in Nat BY <1>3 DEF IInv, Types, Crash
  <2>2. /\ req[r].at \notin {"new", "over"} /\ End(r, "ERROR")
        /\ UNCHANGED <<users, tokens, expired>>
    BY <1>3 DEF Crash
  <2> QED BY <2>1, <2>2, FailKeeps
<1>4. ASSUME NEW t \in Tokens, Expire(t) PROVE IInv' BY <1>4, ExpireKeeps
<1>5. CASE Quiescent \/ UNCHANGED vars BY <1>5, StutterKeeps DEF Quiescent
<1> QED BY <1>1, <1>2, <1>3, <1>4, <1>5 DEF Next

\* IInv holds in every reachable state, whatever the constants are.
THEOREM SessionsInvariant == Spec => []IInv
  BY InitIInv, NextKeeps, PTL DEF Spec

-----------------------------------------------------------------------------
(* What the invariant says.                                                *)

\* Rows, row locks and requests are of their types, and every token goes back to
\* a sign-in of its own user.
THEOREM SessionTypes == Spec => []TypeOK
  BY SessionsInvariant, PTL DEF IInv, TypeOK

\* A token with a successor is never accepted again.
THEOREM SuccessorEndsTokenHolds == Spec => []SuccessorEndsToken
  BY SessionsInvariant, PTL DEF IInv

\* Two successors of one token come only from refreshes that overlapped.
THEOREM RotationsOverlapHolds == Spec => []RotationsOverlap
<1>1. IInv => RotationsOverlap
  <2> SUFFICES ASSUME IInv, NEW r \in Requests, NEW q \in Requests,
                      Rotation(r), Rotation(q), req[r].token = req[q].token
               PROVE  r \notin req[q].past
    BY DEF RotationsOverlap
  <2>1. Rotating(q) BY DEF Rotating, Rotation, Answered
  <2> QED BY <2>1 DEF IInv, RotatesUnspent
<1> QED BY <1>1, SessionsInvariant, PTL

\* A revocation reaches every token there was when it began.
THEOREM RevocationsReachAllHolds == Spec => []RevocationsReachAll
<1>1. IInv => RevocationsReachAll
  <2> SUFFICES ASSUME IInv PROVE RevocationsReachAll OBVIOUS
  <2>1. Types /\ Locks /\ KnowsToken /\ RevocationsOnTheWay BY DEF IInv
  <2>2. ASSUME NEW c \in Requests, NEW t \in Tokens, req[c].at = "over",
               Revokes(c, t), Live(t)
        PROVE  t \in Requests \ req[c].past /\ req[c].op # "logout"
    BY <2>1, <2>2 DEF Locks, RevocationsOnTheWay
  <2>3. ASSUME NEW c \in Requests, NEW t \in Tokens, Live(t),
               \/ RevokedAll(c) /\ tokens[t].user = req[c].user
               \/ RevokedFamily(c) /\ tokens[t].family = tokens[req[c].token].family
        PROVE  t \in Requests \ req[c].past
    <3>1. req[c].at = "over" /\ Revokes(c, t)
      BY <2>3 DEF RevokedAll, RevokedFamily, Answered, Revokes
    <3> QED BY <3>1, <2>2, <2>3
  <2>4. ASSUME NEW c \in Requests, req[c].op = "logout", Answered(c, "DONE"),
               Live(req[c].token)
        PROVE  FALSE
    <3>1. req[c].token \in Tokens BY <2>1, <2>4 DEF KnowsToken
    <3>2. req[c].at = "over" /\ Revokes(c, req[c].token) BY <2>4 DEF Answered, Revokes
    <3> QED BY <3>1, <3>2, <2>2, <2>4
  <2> QED BY <2>3, <2>4 DEF RevocationsReachAll
<1> QED BY <1>1, SessionsInvariant, PTL

\* No request that begins after a user is disabled signs it in.
THEOREM DisabledStaysOutHolds == Spec => []DisabledStaysOut
<1>1. IInv => DisabledStaysOut
  <2> SUFFICES ASSUME IInv, NEW t \in Requests, Live(t),
                      users[tokens[t].user].status = "DISABLED"
               PROVE  \E c \in Over \ req[t].past : StatusChange(c, tokens[t].user)
    BY DEF DisabledStaysOut
  <2>1. /\ Rotation(t) \/ SignIn(t)
        /\ req[t].user = tokens[t].user
    BY DEF IInv, Rows, Live
  <2>2. SignsInLater(t) BY <2>1 DEF SignsInLater, Rotation, SignIn, Answered
  <2> QED BY <2>1, <2>2 DEF IInv, ActiveWhenRead
<1> QED BY <1>1, SessionsInvariant, PTL
=============================================================================
