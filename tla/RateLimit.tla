------------------------------ MODULE RateLimit ------------------------------
(***************************************************************************)
(* Fixed-window rate limits kept in PostgreSQL (services/rate_limit.py):    *)
(* the limits that every sign-in, registration and punch passes through     *)
(* (core/deps.py), the count of failed sign-ins of an account, which        *)
(* api/v1/auth.py checks, raises and clears in three transactions around    *)
(* the verification of the password, and the purge of expired windows.      *)
(*                                                                         *)
(* Each operation is one statement and the end of its transaction; upserts  *)
(* of one bucket wait for each other, so that the clock a request has read  *)
(* may be old when its upsert is made.                                      *)
(***************************************************************************)
EXTENDS Integers, FiniteSets

CONSTANTS
    Requests,               \* HTTP requests
    Routes,                 \* the limited endpoints in use
    Callers, Accounts,      \* addresses and signed-in users; identifiers typed
                            \* at sign-in, in lower case
    MaxRequests,            \* max_requests and window_seconds of each policy
    WindowSeconds,
    TicksPerSecond,         \* clock resolution below a second
    None,                   \* no value
    Workers,                \* requests that a process may have in hand at once
    MaxClock, MaxCrashes    \* bounds: last clock value, lost requests

Policies == {"login", "login_ip", "register", "punch"}

ASSUME RateAssumption ==
    /\ Routes \subseteq {"login", "register", "punch"}
    /\ MaxRequests \in [Policies -> Nat]
    /\ WindowSeconds \in [Policies -> Nat \ {0}]
    /\ TicksPerSecond \in Nat \ {0} /\ Workers \in Nat
    /\ MaxClock \in Nat /\ MaxCrashes \in Nat
    /\ None \notin Callers \cup Accounts \cup Nat

VARIABLES
    clock,      \* the server clock, utcnow()
    buckets,    \* rate_limit_buckets: count by key and window, 0 for no row
    req,        \* the requests
    hits,       \* history: the committed calls of hit
    standing,   \* history: those no sign-in has cleared since
    crashes     \* requests lost so far

vars == <<clock, buckets, req, hits, standing, crashes>>

\* A bucket's key; the digest of the identifier is the identifier.
Key(policy, identifier) == [policy |-> policy, id |-> identifier]
Keys == [policy : Policies, id : Callers \cup Accounts]

\* Windows are numbered from the epoch; the start is rounded down to a second.
Window(p, t) == (t \div TicksPerSecond) \div WindowSeconds[p]
ExpiresAt(p, w) == (w + 1) * WindowSeconds[p] * TicksPerSecond
Windows == 0 .. (MaxClock \div TicksPerSecond)

\* Defect: the wait is counted from the start of the window.
WaitFromStart(p, now) ==
    (now - Window(p, now) * WindowSeconds[p] * TicksPerSecond) \div TicksPerSecond

\* Seconds until the window resets, as told to the client.
RetryAfter(p, now) ==
    LET left == (ExpiresAt(p, Window(p, now)) - now) \div TicksPerSecond
    IN  IF left > 1 THEN left ELSE 1

\* checked and past are history: when the failures of the account were counted,
\* and the requests that were over then.
NewRequest == [route |-> "none", caller |-> None, account |-> None, at |-> "new",
               now |-> 0, checked |-> 0, past |-> {}, answer |-> "none"]

Init ==
    /\ clock = 0
    /\ buckets = [k \in Keys |-> [w \in Windows |-> 0]]
    /\ req = [r \in Requests |-> NewRequest]
    /\ hits = {} /\ standing = {}
    /\ crashes = 0

Over == {r \in Requests : req[r].at = "over"}
\* A call has returned: its local clock reading is gone.
Return(r, at, answer) ==
    req' = [req EXCEPT ![r].at = at, ![r].now = 0, ![r].answer = answer]
End(r, answer) == Return(r, "over", answer)

-----------------------------------------------------------------------------
(* hit: one upsert, committed.                                             *)

\* late: the window, and perhaps its row, is gone by the time of the upsert.
HitOf(r, k) == LET w == Window(k.policy, req[r].now)
               IN  [by |-> r, key |-> k, window |-> w,
                    late |-> ExpiresAt(k.policy, w) < clock]

Hit(r, k) ==
    LET h == HitOf(r, k)
    IN  /\ buckets' = [buckets EXCEPT ![k][h.window] = @ + 1]
        /\ hits' = hits \cup {h}
        /\ standing' = standing \cup {h}

\* The policy and the identifier each endpoint is limited by.
Limited == [login |-> "login_ip", register |-> "register", punch |-> "punch"]
RouteKey(r) == Key(Limited[req[r].route], req[r].caller)
\* Defect: failures are filed under the signed-in user, of whom there is none yet.
SessionKey(r) == Key("login", None)

AccountKey(r) == Key("login", req[r].account)

\* A request arrives and enforce reads the clock; its upsert may have to wait.
Begin(r, route, caller, account) ==
    /\ req[r].at = "new"
    /\ Cardinality({q \in Requests : req[q].at \notin {"new", "over"}}) < Workers
    /\ req' = [req EXCEPT ![r] = [NewRequest EXCEPT
                 !.route = route, !.caller = caller, !.account = account,
                 !.at = "hit", !.now = clock]]
    /\ UNCHANGED <<clock, buckets, hits, standing, crashes>>

\* Defect: the limit is reached one request late.
OneTooMany(p, count) == count > MaxRequests[p] + 1

Exceeds(p, count) == count > MaxRequests[p]

\* enforce within the limit: committed, the request goes on.
Admit(r) ==
    LET k == RouteKey(r)
    IN  /\ req[r].at = "hit"
        /\ ~Exceeds(k.policy, buckets[k][Window(k.policy, req[r].now)] + 1)
        /\ Hit(r, k)
        /\ IF req[r].route = "login"
           THEN Return(r, "check", "none")
           ELSE End(r, "ADMITTED")
        /\ UNCHANGED <<clock, crashes>>

\* enforce over the limit raises; get_db rolls the upsert back.
Refuse(r) ==
    LET k == RouteKey(r)
    IN  /\ req[r].at = "hit"
        /\ Exceeds(k.policy, buckets[k][Window(k.policy, req[r].now)] + 1)
        /\ req' = [req EXCEPT ![r].at = "over", ![r].answer = "LIMITED"]
        /\ UNCHANGED <<clock, buckets, hits, standing, crashes>>

-----------------------------------------------------------------------------
(* The failed sign-ins of an account.                                      *)

\* Defect: an account with all its failures used up may try once more.
ExhaustedLate(count) == count > MaxRequests["login"]

Exhausted(count) == count >= MaxRequests["login"]

\* assert_within, which consumes nothing.
AssertWithin(r) ==
    LET count == buckets[AccountKey(r)][Window("login", clock)]
    IN  /\ req[r].at = "check"
        /\ req' = [req EXCEPT ![r].checked = clock, ![r].past = Over,
                     ![r].at = IF Exhausted(count) THEN "over" ELSE "verify",
                     ![r].answer = IF Exhausted(count) THEN "LOCKED" ELSE @]
        /\ UNCHANGED <<clock, buckets, hits, standing, crashes>>

\* auth_service.login raises: record_failure reads the clock.
SignInFails(r) ==
    /\ req[r].at = "verify"
    /\ req' = [req EXCEPT ![r].at = "record", ![r].now = clock]
    /\ UNCHANGED <<clock, buckets, hits, standing, crashes>>

\* auth_service.login returns: the session is committed.
SignInSucceeds(r) ==
    /\ req[r].at = "verify"
    /\ req' = [req EXCEPT ![r].at = "clear"]
    /\ UNCHANGED <<clock, buckets, hits, standing, crashes>>

RecordFailure(r) ==
    /\ req[r].at = "record"
    /\ Hit(r, AccountKey(r))
    /\ End(r, "FAILED")
    /\ UNCHANGED <<clock, crashes>>

\* Defect: the row of the current window is looked for under another name.
NothingCleared(r, k) == k.policy = "global"

Cleared(r, k) == k = AccountKey(r)

Clear(r) ==
    /\ req[r].at = "clear"
    /\ buckets' = [k \in Keys |-> [w \in Windows |->
                                    IF Cleared(r, k) THEN 0 ELSE buckets[k][w]]]
    /\ standing' = {h \in standing : ~Cleared(r, h.key)}
    /\ End(r, "SIGNED_IN")
    /\ UNCHANGED <<clock, hits, crashes>>

-----------------------------------------------------------------------------
(* The maintenance job, the clock and failures.                            *)

\* Defect: windows are purged from their start on.
Started(k, w) == w * WindowSeconds[k.policy] * TicksPerSecond < clock

Expired(k, w) == ExpiresAt(k.policy, w) < clock

PurgeExpired ==
    /\ \E k \in Keys, w \in Windows : Expired(k, w) /\ buckets[k][w] # 0
    /\ buckets' = [k \in Keys |-> [w \in Windows |->
                                    IF Expired(k, w) THEN 0 ELSE buckets[k][w]]]
    /\ UNCHANGED <<clock, req, hits, standing, crashes>>

\* A worker or its connection dies before its last transaction.  Lost earlier, a
\* request leaves no more than this, or than one that never came.
Crash(r) ==
    /\ req[r].at \in {"record", "clear"} /\ crashes < MaxCrashes
    /\ End(r, "LOST")
    /\ crashes' = crashes + 1
    /\ UNCHANGED <<clock, buckets, hits, standing>>

Tick ==
    /\ clock < MaxClock
    /\ clock' = clock + 1
    /\ UNCHANGED <<buckets, req, hits, standing, crashes>>

-----------------------------------------------------------------------------
Next ==
    \/ \E r \in Requests, route \in Routes, c \in Callers :
          IF route = "login" THEN \E a \in Accounts : Begin(r, route, c, a)
                             ELSE Begin(r, route, c, None)
    \/ \E r \in Requests :
          \/ Admit(r) \/ Refuse(r) \/ AssertWithin(r) \/ SignInFails(r)
          \/ SignInSucceeds(r) \/ RecordFailure(r) \/ Clear(r) \/ Crash(r)
    \/ PurgeExpired
    \/ Tick

Spec == Init /\ [][Next]_vars
=============================================================================
