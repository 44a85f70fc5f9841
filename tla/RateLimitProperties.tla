-------------------------- MODULE RateLimitProperties --------------------------
(***************************************************************************)
(* What the rate limits of RateLimit promise, and the inductive invariant   *)
(* behind it.                                                              *)
(***************************************************************************)
EXTENDS RateLimit

\* The columns of a bucket's key, and what a request carries between its
\* statements; past is what was over when its failures were counted.
Stages == {"new", "hit", "check", "verify", "record", "clear", "over"}
Answers == {"none", "ADMITTED", "LIMITED", "LOCKED", "FAILED", "SIGNED_IN", "LOST"}
RequestState ==
    [route : {"none", "login", "register", "punch"}, caller : Callers \cup {None},
     account : Accounts \cup {None}, at : Stages, now : 0 .. MaxClock,
     checked : 0 .. MaxClock, past : SUBSET Requests, answer : Answers]
Hits == [by : Requests, key : Keys, window : Windows, late : BOOLEAN]

\* The hits of a set that fall into one bucket, and those of some requests.
Into(set, k, w) == {h \in set : h.key = k /\ h.window = w}
By(set, requests) == {h \in set : h.by \in requests}

-----------------------------------------------------------------------------
\* Types; a request knows the key its route is limited by, and a sign-in its
\* account (core/deps.py:92-111, api/v1/auth.py:69).
TypeOK ==
    /\ clock \in 0 .. MaxClock
    /\ buckets \in [Keys -> [Windows -> Nat]]
    /\ req \in [Requests -> RequestState]
    /\ hits \subseteq Hits /\ standing \subseteq hits
    /\ crashes \in 0 .. MaxCrashes
    /\ \A r \in Requests :
          /\ req[r].now <= clock
          /\ req[r].at # "new" => req[r].route # "none" /\ RouteKey(r) \in Keys
          /\ (req[r].route = "login" \/ req[r].at \in {"check", "verify", "record", "clear"})
                => AccountKey(r) \in Keys

\* While a window lasts its stored count is the number of committed requests it
\* stands for: none is counted twice, lost between two workers, counted although
\* it was refused and rolled back, or forgotten by a purge (hit, enforce and
\* purge_expired, rate_limit.py:82-111, :168).
CountsAreExact ==
    \A k \in Keys, w \in Windows :
        /\ buckets[k][w] <= Cardinality(Into(standing, k, w))
        /\ ExpiresAt(k.policy, w) >= clock
              => buckets[k][w] = Cardinality(Into(standing, k, w))

\* The limit itself: whatever runs concurrently, no more than max_requests pass
\* enforce in one window.  Only a request that read the clock in a window
\* and reached the table after the window's end may come on top, when the
\* purge had removed the row by then (rate_limit.py:103, :168).
NoMoreThanMax ==
    \A k \in Keys, w \in Windows :
        k.policy # "login" =>
          Cardinality({h \in Into(hits, k, w) : ~h.late})
             <= MaxRequests[k.policy]

\* A sign-in was let through to the password although the window had used up
\* its failures only if these were made by requests that were still running when
\* it was checked: check and record are different transactions
\* (assert_within and record_failure, rate_limit.py:114-143).
PassedCheck(r) ==
    req[r].at \in {"verify", "record", "clear"} \/ req[r].answer \in {"FAILED", "SIGNED_IN"}
LockoutMissesOnlyOverlaps ==
    \A r \in Requests :
        PassedCheck(r) =>
          Cardinality(By(Into(standing, AccountKey(r), Window("login", req[r].checked)),
                         req[r].past))
             < MaxRequests["login"]

\* The failures of an account that its owner has not signed in after: s is a
\* successful sign-in, finished before r was checked, and g was over before s.
Forgiven(r, g) ==
    \E s \in req[r].past : /\ req[s].answer = "SIGNED_IN"
                           /\ req[s].account = req[r].account
                           /\ g \in req[s].past

\* An account is locked only by failures of its own that are in the current window
\* and that no successful sign-in has followed: "a success clears the window"
\* (api/v1/auth.py:66-68, clear, rate_limit.py:146).
LockoutIsEarned ==
    \A r \in Requests :
        req[r].answer = "LOCKED" =>
          Cardinality({h \in Into(hits, AccountKey(r), Window("login", req[r].checked)) :
                          ~Forgiven(r, h.by)})
             >= MaxRequests["login"]

\* "Please wait N seconds and try again" (rate_limit.py:109, :137): N is rounded
\* down, so that after N seconds the window may still be the same; one second
\* more is always enough, and N is never a second too long.
PolicyOf(r) == IF req[r].answer = "LOCKED" THEN "login" ELSE Limited[req[r].route]
HintIsWithinASecond ==
    \A r \in Requests :
        req[r].answer \in {"LOCKED", "LIMITED"} =>
          LET p == PolicyOf(r)
              now == IF req[r].answer = "LOCKED" THEN req[r].checked ELSE req[r].now
              reset == ExpiresAt(p, Window(p, now))
              hinted == now + RetryAfter(p, now) * TicksPerSecond
          IN  reset - TicksPerSecond < hinted /\ hinted < reset + TicksPerSecond

-----------------------------------------------------------------------------
(* The inductive invariant.                                                *)

\* Whose hits there are: an endpoint's limit is hit by requests that passed it,
\* an account's by requests that failed.  Only the latter are ever cleared.
HitsFit ==
    /\ IsFiniteSet(hits)
    /\ \A h \in hits :
          /\ req[h.by].at \notin {"new", "hit"}
          /\ h.key.policy = "login" => /\ req[h.by].answer = "FAILED"
                                       /\ req[h.by].at = "over"
                                       /\ h.key = AccountKey(h.by)
          /\ h.key.policy # "login" => h \in standing

\* A request of another's past is over; only a request that is over has an answer,
\* and only a sign-in has one of a sign-in.
PastsFit ==
    \A r \in Requests :
        /\ req[r].past \subseteq Over
        /\ req[r].answer # "none" => req[r].at = "over"
        /\ req[r].answer \in {"LOCKED", "FAILED", "SIGNED_IN"} => req[r].account # None

\* What a successful sign-in found committed when it was checked stands no more.
SuccessForgives ==
    \A s \in Requests :
        req[s].answer = "SIGNED_IN" =>
          \A h \in standing : h.key = AccountKey(s) => h.by \notin req[s].past

IInv == /\ TypeOK /\ HitsFit /\ PastsFit /\ CountsAreExact /\ NoMoreThanMax
        /\ SuccessForgives /\ LockoutMissesOnlyOverlaps /\ LockoutIsEarned
=============================================================================
