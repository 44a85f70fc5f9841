---------------------------- MODULE RateLimitProofs ----------------------------
(***************************************************************************)
(* The invariant of the rate limits, and from it that counts are exact,     *)
(* that no window admits too many, and when an account is and is not locked; *)
(* and that the wait a client is told is right to a second.                 *)
(***************************************************************************)
EXTENDS RateLimitProperties, FiniteSetTheorems, TLAPS

USE RateAssumption DEF Policies

-----------------------------------------------------------------------------
(* Windows and sets of hits.                                               *)

LEMMA DivBound ==
  ASSUME NEW n \in Nat, NEW m \in Nat \ {0} PROVE n \div m \in 0 .. n
OBVIOUS

LEMMA DivMonotonic ==
  ASSUME NEW m \in Nat \ {0}, NEW a \in Nat, NEW b \in Nat, a <= b
  PROVE  a \div m \in Nat /\ b \div m \in Nat /\ a \div m <= b \div m
<1> DEFINE p == a \div m
           q == b \div m
<1>1. /\ p \in Nat /\ m * p <= a
      /\ q \in Nat /\ b < m * q + m
  OBVIOUS
<1> HIDE DEF p, q
<1>2. CASE p <= q BY <1>1, <1>2 DEF p, q
<1>3. CASE ~(p <= q)
  <2>1. PICK d \in Nat : p = q + 1 + d
    <3>1. p - q - 1 \in Nat /\ p = q + 1 + (p - q - 1) BY <1>1, <1>3
    <3> QED BY <3>1
  <2>2. m * p = m * q + m + m * d BY <1>1, <2>1
  <2>3. m * p \in Nat /\ m * q \in Nat /\ m * d \in Nat BY <1>1, <2>1
  <2> QED BY <1>1, <2>2, <2>3
<1> QED BY <1>2, <1>3

LEMMA WindowType ==
  ASSUME NEW p \in Policies, NEW t \in 0 .. MaxClock PROVE Window(p, t) \in Windows
<1> DEFINE s == t \div TicksPerSecond
           last == MaxClock \div TicksPerSecond
<1>1. s \in Nat /\ last \in Nat /\ s <= last BY DivMonotonic
<1>2. WindowSeconds[p] \in Nat \ {0} OBVIOUS
<1>3. Windows = 0 .. last BY DEF Windows
<1>4. Window(p, t) = s \div WindowSeconds[p] BY DEF Window
<1> HIDE DEF s, last
<1>5. s \div WindowSeconds[p] \in 0 .. s BY <1>1, <1>2, DivBound
<1> QED BY <1>1, <1>3, <1>4, <1>5

LEMMA ExpiryType ==
  ASSUME NEW p \in Policies, NEW w \in Windows PROVE ExpiresAt(p, w) \in Nat
<1>1. WindowSeconds[p] \in Nat OBVIOUS
<1>2. w + 1 \in Nat BY DEF Windows
<1>3. (w + 1) * WindowSeconds[p] \in Nat BY <1>1, <1>2
<1> QED BY <1>3 DEF ExpiresAt

\* A window ends after every moment of it.
LEMMA WindowOutlasts ==
  ASSUME NEW p \in Policies, NEW t \in 0 .. MaxClock
  PROVE  ExpiresAt(p, Window(p, t)) > t
<1> DEFINE s == t \div TicksPerSecond
           w == Window(p, t)
           m == (w + 1) * WindowSeconds[p]
<1>1. WindowSeconds[p] \in Nat \ {0} /\ t \in Nat OBVIOUS
<1>2. s \in Nat /\ t < (s + 1) * TicksPerSecond BY <1>1
<1>3. w \in Nat /\ s < m
  <2>1. w = s \div WindowSeconds[p] BY DEF Window
  <2> HIDE DEF s, w
  <2> QED BY <1>1, <1>2, <2>1
<1>4. m \in Nat BY <1>1, <1>3
<1>5. ExpiresAt(p, w) = m * TicksPerSecond BY DEF ExpiresAt
<1> HIDE DEF s, w, m
<1>6. (s + 1) * TicksPerSecond <= m * TicksPerSecond BY <1>2, <1>3, <1>4
<1>7. m * TicksPerSecond \in Nat /\ (s + 1) * TicksPerSecond \in Nat BY <1>2, <1>4
<1> QED BY <1>1, <1>2, <1>5, <1>6, <1>7 DEF w

\* The wait is right to a second, whatever the window and the moment in it.
LEMMA HintRight ==
  ASSUME NEW p \in Policies, NEW t \in 0 .. MaxClock
  PROVE  LET reset == ExpiresAt(p, Window(p, t))
             hinted == t + RetryAfter(p, t) * TicksPerSecond
         IN  reset - TicksPerSecond < hinted /\ hinted < reset + TicksPerSecond
<1> DEFINE reset == ExpiresAt(p, Window(p, t))
           q == (reset - t) \div TicksPerSecond
           S == TicksPerSecond
<1>1. reset \in Nat /\ t \in Nat /\ t < reset BY WindowType, ExpiryType, WindowOutlasts
<1>2. S \in Nat \ {0} OBVIOUS
<1>3. RetryAfter(p, t) = IF q > 1 THEN q ELSE 1 BY DEF RetryAfter
<1> HIDE DEF reset, S
<1>4. q \in Nat /\ S * q <= reset - t /\ reset - t < S * q + S BY <1>1, <1>2 DEF S
<1> HIDE DEF q
<1>5. S * q \in Nat /\ q * S = S * q BY <1>2, <1>4
<1>6. CASE q > 1
  <2>1. RetryAfter(p, t) * S = S * q BY <1>3, <1>5, <1>6
  <2> QED BY <1>1, <1>2, <1>4, <1>5, <2>1 DEF reset, S
<1>7. CASE ~(q > 1)
  <2>1. RetryAfter(p, t) * S = S BY <1>2, <1>3, <1>7
  <2>2. S * q <= S BY <1>2, <1>4, <1>7
  <2>3. reset - S < t + S /\ t + S < reset + S BY <1>1, <1>2, <1>4, <1>5, <2>2
  <2> QED BY <2>1, <2>3 DEF reset, S
<1> QED BY <1>6, <1>7

\* One more hit in a bucket.
LEMMA IntoAdd ==
  ASSUME NEW S, IsFiniteSet(S), NEW h, h \notin S, NEW k, NEW w
  PROVE  /\ IsFiniteSet(Into(S, k, w)) /\ Cardinality(Into(S, k, w)) \in Nat
         /\ Cardinality(Into(S \cup {h}, k, w)) =
              IF h.key = k /\ h.window = w THEN Cardinality(Into(S, k, w)) + 1
                                           ELSE Cardinality(Into(S, k, w))
<1>1. IsFiniteSet(Into(S, k, w)) BY FS_Subset DEF Into
<1>2. Cardinality(Into(S, k, w)) \in Nat BY <1>1, FS_CardinalityType
<1>3. CASE h.key = k /\ h.window = w
  <2>1. Into(S \cup {h}, k, w) = Into(S, k, w) \cup {h} BY <1>3 DEF Into
  <2>2. h \notin Into(S, k, w) BY DEF Into
  <2>3. Cardinality(Into(S, k, w) \cup {h}) = Cardinality(Into(S, k, w)) + 1
    BY <1>1, <2>2, FS_AddElement
  <2> QED BY <1>1, <1>2, <1>3, <2>1, <2>3
<1>4. CASE ~(h.key = k /\ h.window = w)
  <2>1. Into(S \cup {h}, k, w) = Into(S, k, w) BY <1>4 DEF Into
  <2> QED BY <1>1, <1>2, <1>4, <2>1
<1> QED BY <1>3, <1>4

LEMMA Smaller ==
  ASSUME NEW S, IsFiniteSet(S), NEW T, T \subseteq S
  PROVE  /\ IsFiniteSet(T) /\ Cardinality(T) \in Nat /\ Cardinality(S) \in Nat
         /\ Cardinality(T) <= Cardinality(S)
BY FS_Subset, FS_CardinalityType

-----------------------------------------------------------------------------
(* The common part of Admit and RecordFailure.                             *)

LEMMA KeyTypes ==
  /\ \A k \in Keys : k.policy \in Policies
  /\ \A r \in Requests : AccountKey(r).policy = "login"
  /\ \A r, s \in Requests : AccountKey(r) = AccountKey(s) <=> req[r].account = req[s].account
BY DEF Keys, AccountKey, Key

\* The row a request adds, and where.
LEMMA HitType ==
  ASSUME TypeOK, NEW r \in Requests, NEW k \in Keys
  PROVE  /\ HitOf(r, k) \in Hits /\ HitOf(r, k).by = r /\ HitOf(r, k).key = k
         /\ HitOf(r, k).window = Window(k.policy, req[r].now)
         /\ HitOf(r, k).late = (ExpiresAt(k.policy, HitOf(r, k).window) < clock)
<1>1. k.policy \in Policies BY KeyTypes
<1>2. req[r].now \in 0 .. MaxClock BY DEF TypeOK, RequestState
<1>3. Window(k.policy, req[r].now) \in Windows BY <1>1, <1>2, WindowType
<1>4. (ExpiresAt(k.policy, Window(k.policy, req[r].now)) < clock) \in BOOLEAN
  BY <1>1, <1>3, ExpiryType DEF TypeOK
<1> QED BY <1>3, <1>4 DEF HitOf, Hits

\* A new hit adds one to its bucket and to the hits that stand in it.
LEMMA HitKeepsCounts ==
  ASSUME TypeOK, HitsFit, CountsAreExact, clock' = clock,
         NEW r \in Requests, NEW k \in Keys, Hit(r, k), HitOf(r, k) \notin hits
  PROVE  /\ buckets' \in [Keys -> [Windows -> Nat]]
         /\ hits' \subseteq Hits /\ standing' \subseteq hits' /\ IsFiniteSet(hits')
         /\ CountsAreExact'
<1> DEFINE h == HitOf(r, k)
<1>1. /\ h \in Hits /\ h.key = k /\ h.window \in Windows /\ h \notin standing
  BY HitType DEF TypeOK, Hits
<1>2. /\ buckets' = [buckets EXCEPT ![k][h.window] = @ + 1]
      /\ hits' = hits \cup {h} /\ standing' = standing \cup {h}
  BY DEF Hit
<1> HIDE DEF h
<1>3. /\ IsFiniteSet(hits) /\ IsFiniteSet(standing) /\ standing \subseteq hits
      /\ hits \subseteq Hits
  BY Smaller DEF HitsFit, TypeOK
<1>4. IsFiniteSet(hits') BY <1>2, <1>3, FS_AddElement
<1>5. buckets' \in [Keys -> [Windows -> Nat]] BY <1>1, <1>2 DEF TypeOK
<1>6. CountsAreExact'
  <2> SUFFICES ASSUME NEW q \in Keys, NEW w \in Windows
               PROVE  /\ buckets'[q][w] <= Cardinality(Into(standing', q, w))
                      /\ ExpiresAt(q.policy, w) >= clock
                           => buckets'[q][w] = Cardinality(Into(standing', q, w))
    BY DEF CountsAreExact, Into
  <2> DEFINE c == Cardinality(Into(standing, q, w))
  <2>1. /\ buckets[q][w] \in Nat /\ buckets[q][w] <= c
        /\ ExpiresAt(q.policy, w) >= clock => buckets[q][w] = c
    BY DEF CountsAreExact, TypeOK
  <2>2. /\ c \in Nat
        /\ Cardinality(Into(standing', q, w)) =
             IF h.key = q /\ h.window = w THEN c + 1 ELSE c
    BY <1>1, <1>2, <1>3, IntoAdd
  <2> HIDE DEF c
  <2>3. buckets'[q][w] = IF h.key = q /\ h.window = w THEN buckets[q][w] + 1
                                                      ELSE buckets[q][w]
    BY <1>1, <1>2 DEF TypeOK
  <2>4. CASE h.key = q /\ h.window = w BY <2>1, <2>2, <2>3, <2>4
  <2>5. CASE ~(h.key = q /\ h.window = w) BY <2>1, <2>2, <2>3, <2>5
  <2> QED BY <2>4, <2>5
<1> QED BY <1>1, <1>2, <1>3, <1>4, <1>5, <1>6

-----------------------------------------------------------------------------
(* What every step does to the requests and to the history.                *)

\* A request before or after one of its own steps.
Untouched(q) == req'[q] = req[q]
SameCheck(q) == /\ req'[q].account = req[q].account /\ req'[q].past = req[q].past
                /\ req'[q].checked = req[q].checked

Shape ==
    /\ \A q \in Requests : req[q].at = "over" => Untouched(q)
    /\ \A q \in Requests :
          PassedCheck(q)' => AssertWithin(q) \/ (PassedCheck(q) /\ SameCheck(q))
    /\ \A q \in Requests : req'[q].answer = "LOCKED" => Untouched(q) \/ AssertWithin(q)
    /\ \A q \in Requests : req'[q].answer = "SIGNED_IN" => Untouched(q) \/ Clear(q)
    /\ hits \subseteq hits'
    /\ \A h \in hits' \ hits : req[h.by].at # "over"
    /\ standing' \subseteq standing \cup (hits' \ hits)

\* The steps of one request, from what they do to its own record.
LEMMA OwnShape ==
  ASSUME IInv, NEW r \in Requests, req[r].at # "over",
         \A q \in Requests : q # r => Untouched(q),
         PassedCheck(r)' => AssertWithin(r) \/ (PassedCheck(r) /\ SameCheck(r)),
         req'[r].answer = "LOCKED" => AssertWithin(r),
         req'[r].answer = "SIGNED_IN" => Clear(r),
         hits \subseteq hits', \A h \in hits' \ hits : h.by = r,
         standing' \subseteq standing \cup (hits' \ hits)
  PROVE  Shape
<1>1. \A q \in Requests : q # r => (PassedCheck(q)' => PassedCheck(q) /\ SameCheck(q))
  BY DEF Untouched, PassedCheck, SameCheck
<1> QED BY <1>1 DEF Shape

LEMMA StepShape == ASSUME IInv, [Next]_vars PROVE Shape
<1> USE DEF IInv, TypeOK, RequestState, Untouched
<1> DEFINE Own(r) == /\ req[r].at # "over" /\ req[r].answer = "none"
                     /\ \A q \in Requests : q # r => Untouched(q)
<1>1. ASSUME NEW r \in Requests, NEW route \in Routes, NEW c \in Callers,
             NEW a \in Accounts \cup {None}, Begin(r, route, c, a)
      PROVE  Shape
  <2>1. Own(r) BY <1>1 DEF Begin, PastsFit
  <2>2. req'[r] = [NewRequest EXCEPT !.route = route, !.caller = c, !.account = a,
                     !.at = "hit", !.now = clock]
    BY <1>1 DEF Begin
  <2>3. /\ req'[r].answer = "none" /\ req'[r].at = "hit" BY <2>2 DEF NewRequest
  <2>4. hits' = hits /\ standing' = standing BY <1>1 DEF Begin
  <2> QED BY <2>1, <2>3, <2>4, OwnShape DEF PassedCheck
<1>2. ASSUME NEW r \in Requests, Admit(r) PROVE Shape
  <2>1. RouteKey(r) \in Keys BY <1>2 DEF Admit
  <2> DEFINE h == HitOf(r, RouteKey(r))
  <2>2. /\ hits' = hits \cup {h} /\ standing' = standing \cup {h} /\ h.by = r
        /\ req[r].at = "hit"
    BY <1>2, <2>1, HitType DEF Admit, Hit
  <2> HIDE DEF h
  <2>3. Own(r) BY <1>2 DEF Admit, Return, End, PastsFit
  <2>4. /\ req'[r].answer \in {"none", "ADMITTED"} /\ req'[r].at \in {"check", "over"}
    BY <1>2 DEF Admit, Return, End
  <2>5. h \notin hits BY <2>2 DEF HitsFit
  <2> QED BY <2>2, <2>3, <2>4, <2>5, OwnShape DEF PassedCheck
<1>3. ASSUME NEW r \in Requests, Refuse(r) PROVE Shape
  <2>1. Own(r) BY <1>3 DEF Refuse, PastsFit
  <2>2. req'[r] = [req[r] EXCEPT !.at = "over", !.answer = "LIMITED"] BY <1>3 DEF Refuse
  <2>3. req'[r].answer = "LIMITED" /\ req'[r].at = "over" BY <2>2
  <2>4. hits' = hits /\ standing' = standing BY <1>3 DEF Refuse
  <2> QED BY <2>1, <2>3, <2>4, OwnShape DEF PassedCheck
<1>4. ASSUME NEW r \in Requests, AssertWithin(r) PROVE Shape
  <2>1. Own(r) BY <1>4 DEF AssertWithin, PastsFit
  <2>2. req'[r].answer # "SIGNED_IN" BY <1>4, <2>1 DEF AssertWithin
  <2>3. hits' = hits /\ standing' = standing BY <1>4 DEF AssertWithin
  <2> QED BY <1>4, <2>1, <2>2, <2>3, OwnShape
<1>5. ASSUME NEW r \in Requests, SignInFails(r) PROVE Shape
  <2>1. Own(r) /\ req[r].at = "verify" BY <1>5 DEF SignInFails, PastsFit
  <2>2. req'[r] = [req[r] EXCEPT !.at = "record", !.now = clock] BY <1>5 DEF SignInFails
  <2>3. SameCheck(r) /\ req'[r].answer = "none" BY <2>1, <2>2 DEF SameCheck
  <2>4. hits' = hits /\ standing' = standing BY <1>5 DEF SignInFails
  <2> QED BY <2>1, <2>3, <2>4, OwnShape DEF PassedCheck
<1>6. ASSUME NEW r \in Requests, SignInSucceeds(r) PROVE Shape
  <2>1. Own(r) /\ req[r].at = "verify" BY <1>6 DEF SignInSucceeds, PastsFit
  <2>2. req'[r] = [req[r] EXCEPT !.at = "clear"] BY <1>6 DEF SignInSucceeds
  <2>3. SameCheck(r) /\ req'[r].answer = "none" BY <2>1, <2>2 DEF SameCheck
  <2>4. hits' = hits /\ standing' = standing BY <1>6 DEF SignInSucceeds
  <2> QED BY <2>1, <2>3, <2>4, OwnShape DEF PassedCheck
<1>7. ASSUME NEW r \in Requests, RecordFailure(r) PROVE Shape
  <2>1. AccountKey(r) \in Keys BY <1>7 DEF RecordFailure
  <2> DEFINE h == HitOf(r, AccountKey(r))
  <2>2. /\ hits' = hits \cup {h} /\ standing' = standing \cup {h} /\ h.by = r
        /\ h.key = AccountKey(r) /\ req[r].at = "record"
    BY <1>7, <2>1, HitType DEF RecordFailure, Hit
  <2> HIDE DEF h
  <2>3. Own(r) BY <1>7 DEF RecordFailure, Return, End, PastsFit
  <2>4. req'[r] = [req[r] EXCEPT !.at = "over", !.now = 0, !.answer = "FAILED"]
    BY <1>7 DEF RecordFailure, Return, End
  <2>5. SameCheck(r) /\ req'[r].answer = "FAILED" BY <2>4 DEF SameCheck
  <2>6. h \notin hits BY <2>2, KeyTypes DEF HitsFit
  <2> QED BY <2>2, <2>3, <2>5, <2>6, OwnShape DEF PassedCheck
<1>8. ASSUME NEW r \in Requests, Clear(r) PROVE Shape
  <2>1. Own(r) /\ req[r].at = "clear" BY <1>8 DEF Clear, Return, End, PastsFit
  <2>2. req'[r] = [req[r] EXCEPT !.at = "over", !.now = 0, !.answer = "SIGNED_IN"]
    BY <1>8 DEF Clear, Return, End
  <2>3. SameCheck(r) /\ req'[r].answer = "SIGNED_IN" BY <2>2 DEF SameCheck
  <2>4. hits' = hits /\ standing' \subseteq standing BY <1>8 DEF Clear
  <2> QED BY <1>8, <2>1, <2>3, <2>4, OwnShape DEF PassedCheck
<1>9. ASSUME NEW r \in Requests, Crash(r) PROVE Shape
  <2>1. Own(r) BY <1>9 DEF Crash, Return, End, PastsFit
  <2>2. req'[r] = [req[r] EXCEPT !.at = "over", !.now = 0, !.answer = "LOST"]
    BY <1>9 DEF Crash, Return, End
  <2>3. req'[r].answer = "LOST" /\ req'[r].at = "over" BY <2>2
  <2>4. hits' = hits /\ standing' = standing BY <1>9 DEF Crash
  <2> QED BY <2>1, <2>3, <2>4, OwnShape DEF PassedCheck
<1>10. CASE PurgeExpired \/ Tick \/ UNCHANGED vars
  <2>1. req' = req /\ hits' = hits /\ standing' = standing
    BY <1>10 DEF PurgeExpired, Tick, vars
  <2> QED BY <2>1 DEF Shape, PassedCheck, SameCheck
<1> QED BY <1>1, <1>2, <1>3, <1>4, <1>5, <1>6, <1>7, <1>8, <1>9, <1>10
        DEF Next

-----------------------------------------------------------------------------
(* Types, hits and pasts, step by step.                                    *)

Basics == TypeOK /\ HitsFit /\ PastsFit /\ CountsAreExact

\* Hits and pasts, when only request r moves and no hit is made.
LEMMA QuietKeeps ==
  ASSUME IInv, TypeOK', NEW r \in Requests, req[r].at # "over",
         \A q \in Requests : q # r => Untouched(q),
         req[r].at \notin {"new", "hit"} => req'[r].at \notin {"new", "hit"},
         req'[r].past \in {{}, req[r].past, Over},
         req'[r].answer # "none" => req'[r].at = "over",
         req'[r].answer \in {"LOCKED", "FAILED", "SIGNED_IN"} => req'[r].account # None,
         hits' = hits,
         \A h \in standing : h.key.policy # "login" => h \in standing'
  PROVE  HitsFit' /\ PastsFit'
<1> USE DEF IInv, Untouched
<1>1. \A q \in Requests : req[q].at = "over" => req'[q] = req[q] OBVIOUS
<1>2. Over \subseteq Over' BY <1>1 DEF Over
<1>3. PastsFit' BY <1>1, <1>2 DEF PastsFit
<1>4. ASSUME NEW h \in hits
      PROVE  /\ req'[h.by].at \notin {"new", "hit"}
             /\ h.key.policy = "login" => /\ req'[h.by].answer = "FAILED"
                                          /\ req'[h.by].at = "over"
                                          /\ h.key = AccountKey(h.by)'
             /\ h.key.policy # "login" => h \in standing'
  <2>1. h.by \in Requests BY DEF TypeOK, Hits
  <2>2. CASE h.by # r BY <2>1, <2>2 DEF HitsFit, AccountKey
  <2>3. CASE h.by = r BY <2>1, <2>3 DEF HitsFit
  <2> QED BY <2>2, <2>3
<1> QED BY <1>3, <1>4 DEF HitsFit

\* Counts are kept by what touches neither them nor the hits, and by the clock.
LEMMA QuietCounts ==
  ASSUME IInv, buckets' = buckets, standing' = standing, clock' >= clock, clock' \in Nat
  PROVE  CountsAreExact'
<1> SUFFICES ASSUME NEW k \in Keys, NEW w \in Windows
             PROVE  /\ buckets[k][w] <= Cardinality(Into(standing, k, w))
                    /\ ExpiresAt(k.policy, w) >= clock'
                         => buckets[k][w] = Cardinality(Into(standing, k, w))
  BY DEF CountsAreExact, Into
<1>1. ExpiresAt(k.policy, w) \in Nat BY ExpiryType, KeyTypes
<1> QED BY <1>1 DEF IInv, CountsAreExact, TypeOK

LEMMA BeginKeeps ==
  ASSUME IInv, NEW r \in Requests, NEW route \in Routes, NEW c \in Callers,
         NEW a \in Accounts \cup {None}, route = "login" => a \in Accounts,
         Begin(r, route, c, a)
  PROVE  Basics'
<1> USE DEF IInv
<1>1. /\ req'[r] = [route |-> route, caller |-> c, account |-> a, at |-> "hit",
                     now |-> clock, checked |-> 0, past |-> {}, answer |-> "none"]
      /\ \A q \in Requests : q # r => Untouched(q)
      /\ req[r].at = "new"
  BY DEF Begin, TypeOK, Untouched, NewRequest
<1>2. TypeOK'
  <2>1. /\ req'[r] \in RequestState
        /\ req'[r].now = clock /\ req'[r].at = "hit" /\ clock <= clock
    <3>1. route \in {"login", "register", "punch"} /\ clock \in 0 .. MaxClock
      BY DEF TypeOK
    <3>2. 0 \in 0 .. MaxClock /\ clock <= clock BY <3>1
    <3> QED BY <1>1, <3>1, <3>2 DEF RequestState, Stages, Answers
  <2>2. RouteKey(r)' \in Keys BY <1>1 DEF RouteKey, Key, Keys, Limited
  <2>3. req' \in [Requests -> RequestState]
    BY <2>1 DEF Begin, TypeOK
  <2>4. route = "login" => AccountKey(r)' \in Keys
    BY <1>1 DEF AccountKey, Key, Keys
  <2>5. req'[r].route = route /\ route # "none" BY <1>1
  <2> QED BY <1>1, <2>1, <2>2, <2>3, <2>4, <2>5 DEF Begin, TypeOK, RouteKey, AccountKey, Untouched
<1>3. HitsFit' /\ PastsFit'
  <2>1. req'[r].at = "hit" /\ req'[r].past = {} /\ req'[r].answer = "none" BY <1>1
  <2>2. hits' = hits /\ standing' = standing BY DEF Begin
  <2> QED BY <1>1, <1>2, <2>1, <2>2, QuietKeeps
<1>4. CountsAreExact' BY QuietCounts DEF Begin, TypeOK
<1> QED BY <1>2, <1>3, <1>4 DEF Basics

\* The types of the requests, after a later step of request r.
RequestTypes ==
    /\ req \in [Requests -> RequestState]
    /\ \A r \in Requests :
          /\ req[r].now <= clock
          /\ req[r].at # "new" => req[r].route # "none" /\ RouteKey(r) \in Keys
          /\ (req[r].route = "login" \/ req[r].at \in {"check", "verify", "record", "clear"})
                => AccountKey(r) \in Keys
Moves(r, at, now, checked, past, answer) ==
    /\ req' = [req EXCEPT ![r] = req'[r]]
    /\ req'[r] = [route |-> req[r].route, caller |-> req[r].caller,
                  account |-> req[r].account, at |-> at, now |-> now,
                  checked |-> checked, past |-> past, answer |-> answer]

LEMMA OwnTypes ==
  ASSUME TypeOK, clock' = clock, NEW r \in Requests, req[r].at # "new",
         NEW at \in Stages, NEW now \in 0 .. clock, NEW checked \in 0 .. MaxClock,
         NEW past \in SUBSET Requests, NEW answer \in Answers,
         at \in {"check", "verify", "record", "clear"} => AccountKey(r) \in Keys,
         Moves(r, at, now, checked, past, answer)
  PROVE  /\ RequestTypes'
         /\ \A q \in Requests : q # r => Untouched(q)
         /\ req'[r].at = at /\ req'[r].past = past /\ req'[r].answer = answer
         /\ req'[r].account = req[r].account
<1>1. req[r] \in RequestState /\ clock \in 0 .. MaxClock BY DEF TypeOK
<1>2. now \in 0 .. MaxClock /\ now <= clock BY <1>1
<1> DEFINE new == [route |-> req[r].route, caller |-> req[r].caller,
                   account |-> req[r].account, at |-> at, now |-> now,
                   checked |-> checked, past |-> past, answer |-> answer]
<1>3. /\ new \in RequestState /\ new.at = at /\ new.now = now
      /\ new.past = past /\ new.answer = answer /\ new.route = req[r].route
      /\ new.caller = req[r].caller /\ new.account = req[r].account
  BY <1>1, <1>2 DEF RequestState
<1>4. req' = [req EXCEPT ![r] = new] BY DEF Moves
<1> HIDE DEF new
<1>5. /\ req' \in [Requests -> RequestState] /\ req'[r] = new
      /\ \A q \in Requests : q # r => Untouched(q)
  BY <1>3, <1>4 DEF TypeOK, Untouched
<1>6. \A q \in Requests : RouteKey(q)' = RouteKey(q) /\ AccountKey(q)' = AccountKey(q)
  BY <1>3, <1>5 DEF RouteKey, AccountKey, Untouched
<1> QED BY <1>2, <1>3, <1>5, <1>6 DEF TypeOK, RequestTypes, Untouched

\* A step that changes nothing but its request's record keeps the basics.
Quiet == /\ UNCHANGED <<clock, buckets, hits, standing>>
         /\ crashes' \in 0 .. MaxCrashes
LEMMA MoveKeeps ==
  ASSUME IInv, Quiet, NEW r \in Requests, req[r].at \notin {"new", "over"},
         NEW at \in Stages \ {"new", "hit"}, NEW now \in 0 .. clock,
         NEW checked \in 0 .. MaxClock, NEW past \in {req[r].past, Over},
         NEW answer \in Answers, Moves(r, at, now, checked, past, answer),
         at \in {"check", "verify", "record", "clear"} => AccountKey(r) \in Keys,
         answer # "none" => at = "over",
         answer \in {"LOCKED", "FAILED", "SIGNED_IN"} => AccountKey(r) \in Keys
  PROVE  Basics'
<1> USE DEF IInv
<1>1. past \in SUBSET Requests BY DEF TypeOK, RequestState, Over
<1>2. at \in Stages OBVIOUS
<1>3. /\ RequestTypes' /\ \A q \in Requests : q # r => Untouched(q)
      /\ req'[r].at = at /\ req'[r].past = past /\ req'[r].answer = answer
      /\ req'[r].account = req[r].account
  BY <1>1, <1>2, OwnTypes DEF Quiet
<1>4. TypeOK' BY <1>3 DEF TypeOK, RequestTypes, Quiet
<1>5. AccountKey(r) \in Keys => req[r].account # None BY DEF AccountKey, Key, Keys
<1>6. HitsFit' /\ PastsFit' BY <1>3, <1>4, <1>5, QuietKeeps DEF Quiet
<1>7. CountsAreExact' BY QuietCounts DEF Quiet, TypeOK
<1> QED BY <1>4, <1>6, <1>7 DEF Basics

\* What a request carries while it runs.
LEMMA Running ==
  ASSUME IInv, NEW r \in Requests, req[r].at \notin {"new", "over"}
  PROVE  /\ req[r] \in RequestState /\ req[r].now \in 0 .. clock /\ clock \in 0 .. clock
         /\ 0 \in 0 .. clock /\ clock \in 0 .. MaxClock
         /\ req[r].checked \in 0 .. MaxClock /\ req[r].answer = "none"
         /\ req[r].at # "hit" => AccountKey(r) \in Keys
<1>1. req[r] \in RequestState /\ req[r].now <= clock /\ clock \in 0 .. MaxClock
  BY DEF IInv, TypeOK
<1>2. req[r].answer = "none" BY DEF IInv, PastsFit
<1>3. req[r].at # "hit" => AccountKey(r) \in Keys
  BY <1>1 DEF IInv, TypeOK, RequestState, Stages
<1> QED BY <1>1, <1>2, <1>3 DEF RequestState

LEMMA RefuseKeeps == ASSUME IInv, NEW r \in Requests, Refuse(r) PROVE Basics'
<1>1. req[r].at = "hit" /\ Quiet BY DEF Refuse, Quiet, IInv, TypeOK
<1>2. Moves(r, "over", req[r].now, req[r].checked, req[r].past, "LIMITED")
  <2>1. req' = [req EXCEPT ![r] = req'[r]] BY DEF Refuse, IInv, TypeOK
  <2>2. req'[r] = [req[r] EXCEPT !.at = "over", !.answer = "LIMITED"] BY DEF Refuse, IInv, TypeOK
  <2>3. req[r] \in RequestState /\ req[r].answer = "none" BY <1>1, Running
  <2> QED BY <2>1, <2>2, <2>3 DEF RequestState, Moves
<1> QED BY <1>1, <1>2, Running, MoveKeeps DEF Stages, Answers

LEMMA AssertWithinKeeps == ASSUME IInv, NEW r \in Requests, AssertWithin(r) PROVE Basics'
<1>1. req[r].at = "check" /\ Quiet BY DEF AssertWithin, Quiet, IInv, TypeOK
<1>2. \/ Moves(r, "over", req[r].now, clock, Over, "LOCKED")
      \/ Moves(r, "verify", req[r].now, clock, Over, "none")
  <2>1. req' = [req EXCEPT ![r] = req'[r]] BY DEF AssertWithin, IInv, TypeOK
  <2>2. req[r] \in RequestState /\ req[r].answer = "none" BY <1>1, Running
  <2> DEFINE full == Exhausted(buckets[AccountKey(r)][Window("login", clock)])
  <2>3. CASE full
    <3>1. req'[r] = [req[r] EXCEPT !.at = "over", !.checked = clock, !.past = Over,
                                   !.answer = "LOCKED"]
      BY <2>3 DEF AssertWithin, IInv, TypeOK
    <3> QED BY <2>1, <2>2, <3>1 DEF RequestState, Moves
  <2>4. CASE ~full
    <3>1. req'[r] = [req[r] EXCEPT !.at = "verify", !.checked = clock, !.past = Over,
                                   !.answer = req[r].answer]
      BY <2>4 DEF AssertWithin, IInv, TypeOK
    <3> QED BY <2>1, <2>2, <3>1 DEF RequestState, Moves
  <2> QED BY <2>3, <2>4
<1>3. CASE Moves(r, "over", req[r].now, clock, Over, "LOCKED")
  BY <1>1, <1>3, Running, MoveKeeps DEF Stages, Answers
<1>4. CASE Moves(r, "verify", req[r].now, clock, Over, "none")
  BY <1>1, <1>4, Running, MoveKeeps DEF Stages, Answers
<1> QED BY <1>2, <1>3, <1>4

LEMMA SignInFailsKeeps == ASSUME IInv, NEW r \in Requests, SignInFails(r) PROVE Basics'
<1>1. req[r].at = "verify" /\ Quiet BY DEF SignInFails, Quiet, IInv, TypeOK
<1>2. Moves(r, "record", clock, req[r].checked, req[r].past, "none")
  <2>1. req' = [req EXCEPT ![r] = req'[r]] BY DEF SignInFails, IInv, TypeOK
  <2>2. req'[r] = [req[r] EXCEPT !.at = "record", !.now = clock] BY DEF SignInFails, IInv, TypeOK
  <2>3. req[r] \in RequestState /\ req[r].answer = "none" BY <1>1, Running
  <2> QED BY <2>1, <2>2, <2>3 DEF RequestState, Moves
<1> QED BY <1>1, <1>2, Running, MoveKeeps DEF Stages, Answers

LEMMA SignInSucceedsKeeps ==
  ASSUME IInv, NEW r \in Requests, SignInSucceeds(r) PROVE Basics'
<1>1. req[r].at = "verify" /\ Quiet BY DEF SignInSucceeds, Quiet, IInv, TypeOK
<1>2. Moves(r, "clear", req[r].now, req[r].checked, req[r].past, "none")
  <2>1. req' = [req EXCEPT ![r] = req'[r]] BY DEF SignInSucceeds, IInv, TypeOK
  <2>2. req'[r] = [req[r] EXCEPT !.at = "clear"] BY DEF SignInSucceeds, IInv, TypeOK
  <2>3. req[r] \in RequestState /\ req[r].answer = "none" BY <1>1, Running
  <2> QED BY <2>1, <2>2, <2>3 DEF RequestState, Moves
<1> QED BY <1>1, <1>2, Running, MoveKeeps DEF Stages, Answers

LEMMA CrashKeeps == ASSUME IInv, NEW r \in Requests, Crash(r) PROVE Basics'
<1>1. req[r].at \in {"record", "clear"} /\ Quiet BY DEF Crash, Quiet, IInv, TypeOK
<1>2. Moves(r, "over", 0, req[r].checked, req[r].past, "LOST")
  <2>1. req' = [req EXCEPT ![r] = req'[r]] BY DEF Crash, End, Return, IInv, TypeOK
  <2>2. req'[r] = [req[r] EXCEPT !.at = "over", !.now = 0, !.answer = "LOST"] BY DEF Crash, End, Return, IInv, TypeOK
  <2>3. req[r] \in RequestState /\ req[r].answer = "none" BY <1>1, Running
  <2> QED BY <2>1, <2>2, <2>3 DEF RequestState, Moves
<1> QED BY <1>1, <1>2, Running, MoveKeeps DEF Stages, Answers

-----------------------------------------------------------------------------
(* The steps that hit, clear or purge, and the clock.                      *)

\* The hits and pasts after r has added a hit of its own.
LEMMA HitFits ==
  ASSUME IInv, RequestTypes', NEW r \in Requests, req[r].at \notin {"new", "over"},
         \A q \in Requests : q # r => Untouched(q),
         NEW h, h.by = r, hits' = hits \cup {h}, standing' = standing \cup {h},
         IsFiniteSet(hits'),
         req'[r].at \notin {"new", "hit"}, req'[r].past = req[r].past,
         req'[r].answer # "none" => req'[r].at = "over",
         req'[r].answer \in {"none", "ADMITTED", "FAILED"},
         req'[r].answer = "FAILED" => req'[r].account # None,
         h.key.policy = "login" => req'[r].answer = "FAILED" /\ h.key = AccountKey(r)'
  PROVE  HitsFit' /\ PastsFit'
<1> USE DEF IInv, Untouched
<1>1. \A q \in Requests : req[q].at = "over" => req'[q] = req[q] OBVIOUS
<1>2. Over \subseteq Over' BY <1>1 DEF Over
<1>3. PastsFit' BY <1>1, <1>2 DEF PastsFit
<1>4. ASSUME NEW g \in hits'
      PROVE  /\ req'[g.by].at \notin {"new", "hit"}
             /\ g.key.policy = "login" => /\ req'[g.by].answer = "FAILED"
                                          /\ req'[g.by].at = "over"
                                          /\ g.key = AccountKey(g.by)'
             /\ g.key.policy # "login" => g \in standing'
  <2>1. CASE g \in hits
    <3>1. g.by \in Requests BY <2>1 DEF TypeOK, Hits
    <3>2. CASE g.by # r BY <2>1, <3>1, <3>2 DEF HitsFit, AccountKey
    <3>3. CASE g.by = r BY <2>1, <3>1, <3>3 DEF HitsFit
    <3> QED BY <3>2, <3>3
  <2>2. CASE g = h BY <2>2
  <2> QED BY <2>1, <2>2
<1> QED BY <1>3, <1>4 DEF HitsFit

LEMMA AdmitKeeps == ASSUME IInv, NEW r \in Requests, Admit(r) PROVE Basics' /\ NoMoreThanMax'
<1> USE DEF IInv
<1>1. /\ req[r].at = "hit" /\ clock' = clock /\ crashes' = crashes
      /\ Hit(r, RouteKey(r))
  BY DEF Admit
<1>2. RouteKey(r) \in Keys /\ RouteKey(r).policy # "login"
  <2>1. RouteKey(r) \in Keys BY <1>1 DEF TypeOK
  <2>2. req[r].route \in {"login", "register", "punch"}
    BY <1>1 DEF TypeOK, RequestState
  <2> QED BY <2>1, <2>2 DEF RouteKey, Key, Limited
<1> DEFINE k == RouteKey(r)
           h == HitOf(r, k)
<1>3. /\ h \in Hits /\ h.by = r /\ h.key = k
      /\ h.window = Window(k.policy, req[r].now)
      /\ h.late = (ExpiresAt(k.policy, h.window) < clock)
  BY <1>2, HitType
<1>4. h \notin hits BY <1>1, <1>3 DEF HitsFit
<1>5. /\ buckets' \in [Keys -> [Windows -> Nat]]
      /\ hits' \subseteq Hits /\ standing' \subseteq hits' /\ IsFiniteSet(hits')
      /\ CountsAreExact'
  BY <1>1, <1>2, <1>4, HitKeepsCounts
<1>6. hits' = hits \cup {h} /\ standing' = standing \cup {h} BY <1>1 DEF Hit
<1>7. PICK at \in {"check", "over"}, answer \in {"none", "ADMITTED"} :
        /\ answer # "none" => at = "over"
        /\ at = "check" => req[r].route = "login"
        /\ req'[r] = [req[r] EXCEPT !.at = at, !.now = 0, !.answer = answer]
  BY DEF Admit, Return, End, TypeOK
<1>8. Moves(r, at, 0, req[r].checked, req[r].past, answer)
  <2>1. req' = [req EXCEPT ![r] = req'[r]] BY DEF Admit, Return, End, TypeOK
  <2>2. req[r] \in RequestState BY <1>1, Running
  <2> QED BY <1>7, <2>1, <2>2 DEF RequestState, Moves
<1>9. 0 \in 0 .. clock /\ req[r].checked \in 0 .. MaxClock
      /\ req[r].past \in SUBSET Requests
  BY <1>1 DEF TypeOK, RequestState
<1>10. at = "check" => AccountKey(r) \in Keys
  BY <1>1, <1>7 DEF TypeOK
<1>11. /\ RequestTypes' /\ \A q \in Requests : q # r => Untouched(q)
       /\ req'[r].at = at /\ req'[r].past = req[r].past /\ req'[r].answer = answer
  BY <1>1, <1>7, <1>8, <1>9, <1>10, OwnTypes DEF Stages, Answers
<1>12. TypeOK' BY <1>1, <1>5, <1>11 DEF TypeOK, RequestTypes
<1>13. HitsFit' /\ PastsFit' BY <1>1, <1>2, <1>3, <1>5, <1>6, <1>7, <1>11, HitFits
<1>14. NoMoreThanMax'
  <2> SUFFICES ASSUME NEW q \in Keys, NEW w \in Windows, q.policy # "login"
               PROVE  Cardinality({g \in Into(hits', q, w) : ~g.late})
                        <= MaxRequests[q.policy]
    BY DEF NoMoreThanMax, Into
  <2> HIDE DEF k, h
  <2>1. CASE h.key = q /\ h.window = w /\ ~h.late
    <3>1. /\ ExpiresAt(k.policy, w) >= clock /\ k = q
      <4>1. k = q /\ k.policy \in Policies BY <1>3, <2>1, KeyTypes
      <4>2. ExpiresAt(k.policy, w) \in Nat /\ clock \in Nat
        BY <4>1, ExpiryType DEF TypeOK
      <4>3. ~(ExpiresAt(k.policy, w) < clock) BY <1>3, <2>1
      <4> QED BY <4>1, <4>2, <4>3
    <3>2. buckets[k][w] = Cardinality(Into(standing, k, w)) BY <3>1 DEF CountsAreExact
    <3>3. buckets[k][w] + 1 <= MaxRequests[k.policy]
      <4>1. MaxRequests[k.policy] \in Nat /\ buckets[k][w] \in Nat
        BY <3>1, KeyTypes DEF TypeOK
      <4> QED BY <1>3, <2>1, <4>1 DEF Admit, Exceeds, k
    <3>4. IsFiniteSet(standing) /\ IsFiniteSet(standing') /\ h \notin standing
      BY <1>4, <1>5, Smaller DEF HitsFit, TypeOK
    <3>5. Cardinality(Into(standing', k, w)) = buckets[k][w] + 1
      BY <1>3, <1>6, <2>1, <3>1, <3>2, <3>4, IntoAdd
    <3>6. {g \in Into(hits', q, w) : ~g.late} \subseteq Into(standing', k, w)
      BY <1>6, <3>1 DEF Into, HitsFit
    <3>7. IsFiniteSet(Into(standing', k, w)) BY <3>4, FS_Subset DEF Into
    <3>8. /\ Cardinality({g \in Into(hits', q, w) : ~g.late}) \in Nat
          /\ Cardinality({g \in Into(hits', q, w) : ~g.late}) <= buckets[k][w] + 1
      BY <3>5, <3>6, <3>7, Smaller
    <3> QED BY <3>1, <3>3, <3>8, KeyTypes DEF TypeOK
  <2>2. CASE ~(h.key = q /\ h.window = w /\ ~h.late)
    <3>1. {g \in Into(hits', q, w) : ~g.late} = {g \in Into(hits, q, w) : ~g.late}
      BY <1>6, <2>2 DEF Into
    <3> QED BY <3>1 DEF NoMoreThanMax
  <2> QED BY <2>1, <2>2
<1> QED BY <1>5, <1>12, <1>13, <1>14 DEF Basics

LEMMA RecordFailureKeeps ==
  ASSUME IInv, NEW r \in Requests, RecordFailure(r) PROVE Basics' /\ NoMoreThanMax'
<1> USE DEF IInv
<1>1. /\ req[r].at = "record" /\ clock' = clock /\ crashes' = crashes
      /\ Hit(r, AccountKey(r)) /\ AccountKey(r) \in Keys
  BY DEF RecordFailure, TypeOK
<1> DEFINE k == AccountKey(r)
           h == HitOf(r, k)
<1>2. h.by = r /\ h.key = k /\ k.policy = "login" BY <1>1, HitType, KeyTypes
<1>3. h \notin hits BY <1>1, <1>2 DEF HitsFit
<1>4. /\ buckets' \in [Keys -> [Windows -> Nat]]
      /\ hits' \subseteq Hits /\ standing' \subseteq hits' /\ IsFiniteSet(hits')
      /\ CountsAreExact'
  BY <1>1, <1>3, HitKeepsCounts
<1>5. hits' = hits \cup {h} /\ standing' = standing \cup {h} BY <1>1 DEF Hit
<1>6. Moves(r, "over", 0, req[r].checked, req[r].past, "FAILED")
  <2>1. req' = [req EXCEPT ![r] = req'[r]] BY DEF RecordFailure, End, Return, TypeOK
  <2>2. req'[r] = [req[r] EXCEPT !.at = "over", !.now = 0, !.answer = "FAILED"]
    BY DEF RecordFailure, End, Return, TypeOK
  <2>3. req[r] \in RequestState BY <1>1, Running
  <2> QED BY <2>1, <2>2, <2>3 DEF RequestState, Moves
<1>7. /\ 0 \in 0 .. clock /\ req[r].checked \in 0 .. MaxClock
      /\ req[r].past \in SUBSET Requests
  BY <1>1 DEF TypeOK, RequestState
<1>8. /\ RequestTypes' /\ \A q \in Requests : q # r => Untouched(q)
      /\ req'[r].at = "over" /\ req'[r].past = req[r].past /\ req'[r].answer = "FAILED"
      /\ req'[r].account = req[r].account
  BY <1>1, <1>6, <1>7, OwnTypes DEF Stages, Answers
<1>9. TypeOK' BY <1>1, <1>4, <1>8 DEF TypeOK, RequestTypes
<1>10. req[r].account # None /\ AccountKey(r)' = k
  BY <1>1, <1>8 DEF AccountKey, Key, Keys
<1>11. HitsFit' /\ PastsFit' BY <1>1, <1>2, <1>4, <1>5, <1>8, <1>10, HitFits
<1>12. NoMoreThanMax'
  <2> SUFFICES ASSUME NEW q \in Keys, NEW w \in Windows, q.policy # "login"
               PROVE  Cardinality({g \in Into(hits', q, w) : ~g.late})
                        <= MaxRequests[q.policy]
    BY DEF NoMoreThanMax, Into
  <2>1. {g \in Into(hits', q, w) : ~g.late} = {g \in Into(hits, q, w) : ~g.late}
    BY <1>2, <1>5 DEF Into
  <2> QED BY <2>1 DEF NoMoreThanMax
<1> QED BY <1>4, <1>9, <1>11, <1>12 DEF Basics

\* A deletion of rows and of all the hits that stand for them, of one key.
LEMMA ClearKeeps == ASSUME IInv, NEW r \in Requests, Clear(r) PROVE Basics' /\ SuccessForgives'
<1> USE DEF IInv
<1>1. /\ req[r].at = "clear" /\ clock' = clock /\ crashes' = crashes /\ hits' = hits
      /\ AccountKey(r) \in Keys
      /\ standing' = {h \in standing : h.key # AccountKey(r)}
      /\ buckets' = [k \in Keys |-> [w \in Windows |->
                        IF k = AccountKey(r) THEN 0 ELSE buckets[k][w]]]
  BY DEF Clear, Cleared, TypeOK
<1>2. Moves(r, "over", 0, req[r].checked, req[r].past, "SIGNED_IN")
  <2>1. req' = [req EXCEPT ![r] = req'[r]] BY DEF Clear, End, Return, TypeOK
  <2>2. req'[r] = [req[r] EXCEPT !.at = "over", !.now = 0, !.answer = "SIGNED_IN"]
    BY DEF Clear, End, Return, TypeOK
  <2>3. req[r] \in RequestState BY <1>1, Running
  <2> QED BY <2>1, <2>2, <2>3 DEF RequestState, Moves
<1>3. /\ 0 \in 0 .. clock /\ req[r].checked \in 0 .. MaxClock
      /\ req[r].past \in SUBSET Requests
  BY <1>1 DEF TypeOK, RequestState
<1>4. /\ RequestTypes' /\ \A q \in Requests : q # r => Untouched(q)
      /\ req'[r].at = "over" /\ req'[r].past = req[r].past
      /\ req'[r].answer = "SIGNED_IN" /\ req'[r].account = req[r].account
  BY <1>1, <1>2, <1>3, OwnTypes DEF Stages, Answers
<1>5. TypeOK' BY <1>1, <1>4 DEF TypeOK, RequestTypes
<1>6. req[r].account # None /\ AccountKey(r).policy = "login"
  BY <1>1 DEF AccountKey, Key, Keys
<1>7. HitsFit' /\ PastsFit' BY <1>1, <1>4, <1>5, <1>6, QuietKeeps
<1>8. CountsAreExact'
  <2> SUFFICES ASSUME NEW k \in Keys, NEW w \in Windows
               PROVE  /\ buckets'[k][w] <= Cardinality(Into(standing', k, w))
                      /\ ExpiresAt(k.policy, w) >= clock
                           => buckets'[k][w] = Cardinality(Into(standing', k, w))
    <3>1. clock' = clock BY <1>1
    <3> QED BY <3>1 DEF CountsAreExact, Into
  <2>1. CASE k = AccountKey(r)
    <3>1. Into(standing', k, w) = {} BY <1>1, <2>1 DEF Into
    <3>2. buckets'[k][w] = 0 BY <1>1, <2>1
    <3> QED BY <3>1, <3>2, FS_EmptySet
  <2>2. CASE k # AccountKey(r)
    <3>1. Into(standing', k, w) = Into(standing, k, w) BY <1>1, <2>2 DEF Into
    <3>2. buckets'[k][w] = buckets[k][w] BY <1>1, <2>2
    <3> QED BY <3>1, <3>2 DEF CountsAreExact
  <2> QED BY <2>1, <2>2
<1>9. SuccessForgives'
  BY <1>1, <1>4 DEF SuccessForgives, AccountKey, Untouched
<1> QED BY <1>5, <1>7, <1>8, <1>9 DEF Basics

LEMMA PurgeKeeps == ASSUME IInv, PurgeExpired PROVE Basics'
<1> USE DEF IInv
<1>1. /\ clock' = clock /\ req' = req /\ hits' = hits /\ standing' = standing
      /\ crashes' = crashes
      /\ buckets' = [k \in Keys |-> [w \in Windows |->
                        IF ExpiresAt(k.policy, w) < clock THEN 0 ELSE buckets[k][w]]]
  BY DEF PurgeExpired, Expired
<1>2. TypeOK' BY <1>1 DEF TypeOK, RouteKey, AccountKey
<1>3. HitsFit' /\ PastsFit' BY <1>1 DEF HitsFit, PastsFit, Over, AccountKey
<1>4. CountsAreExact'
  <2> SUFFICES ASSUME NEW k \in Keys, NEW w \in Windows
               PROVE  /\ buckets'[k][w] <= Cardinality(Into(standing, k, w))
                      /\ ExpiresAt(k.policy, w) >= clock
                           => buckets'[k][w] = Cardinality(Into(standing, k, w))
    BY <1>1 DEF CountsAreExact, Into
  <2>1. /\ buckets[k][w] <= Cardinality(Into(standing, k, w))
        /\ ExpiresAt(k.policy, w) >= clock
             => buckets[k][w] = Cardinality(Into(standing, k, w))
    BY DEF CountsAreExact
  <2>2. /\ ExpiresAt(k.policy, w) \in Nat /\ clock \in Nat
        /\ Cardinality(Into(standing, k, w)) \in Nat
    <3>1. standing \subseteq hits /\ IsFiniteSet(hits) BY DEF TypeOK, HitsFit
    <3>2. Into(standing, k, w) \subseteq hits BY <3>1 DEF Into
    <3> QED BY <3>1, <3>2, Smaller, ExpiryType, KeyTypes DEF TypeOK
  <2>3. CASE ExpiresAt(k.policy, w) < clock BY <1>1, <2>2, <2>3
  <2>4. CASE ~(ExpiresAt(k.policy, w) < clock) BY <1>1, <2>1, <2>2, <2>4
  <2> QED BY <2>3, <2>4
<1> QED BY <1>2, <1>3, <1>4 DEF Basics

LEMMA TickKeeps == ASSUME IInv, Tick PROVE Basics'
<1> USE DEF IInv
<1>1. /\ clock' \in 0 .. MaxClock /\ clock' >= clock /\ req' = req /\ hits' = hits
      /\ standing' = standing /\ buckets' = buckets /\ crashes' = crashes
  BY DEF Tick, TypeOK
<1>2. \A r \in Requests : req[r].now <= clock'
  <2> SUFFICES ASSUME NEW r \in Requests PROVE req[r].now <= clock' OBVIOUS
  <2>1. req[r].now \in Nat /\ req[r].now <= clock /\ clock \in Nat /\ clock' \in Nat
    BY <1>1 DEF TypeOK, RequestState
  <2> QED BY <1>1, <2>1
<1>3. TypeOK' BY <1>1, <1>2 DEF TypeOK, RouteKey, AccountKey
<1>4. HitsFit' /\ PastsFit' BY <1>1 DEF HitsFit, PastsFit, Over, AccountKey
<1>5. CountsAreExact' BY <1>1, QuietCounts
<1> QED BY <1>3, <1>4, <1>5 DEF Basics

LEMMA BasicsKept == ASSUME IInv, [Next]_vars PROVE Basics' /\ NoMoreThanMax'
<1>1. ASSUME hits' = hits PROVE NoMoreThanMax'
  BY <1>1 DEF IInv, NoMoreThanMax, Into
<1>2. ASSUME NEW r \in Requests, NEW route \in Routes, NEW c \in Callers,
             NEW a \in Accounts \cup {None}, route = "login" => a \in Accounts,
             Begin(r, route, c, a)
      PROVE  Basics' /\ NoMoreThanMax'
  BY <1>1, <1>2, BeginKeeps DEF Begin
<1>3. ASSUME NEW r \in Requests,
             Refuse(r) \/ AssertWithin(r) \/ SignInFails(r) \/ SignInSucceeds(r) \/ Crash(r)
      PROVE  Basics' /\ NoMoreThanMax'
  <2>1. hits' = hits BY <1>3 DEF Refuse, AssertWithin, SignInFails, SignInSucceeds, Crash
  <2> QED BY <1>1, <1>3, <2>1, RefuseKeeps, AssertWithinKeeps, SignInFailsKeeps,
             SignInSucceedsKeeps, CrashKeeps
<1>4. ASSUME NEW r \in Requests, Admit(r) \/ RecordFailure(r)
      PROVE  Basics' /\ NoMoreThanMax'
  BY <1>4, AdmitKeeps, RecordFailureKeeps
<1>5. ASSUME NEW r \in Requests, Clear(r) PROVE Basics' /\ NoMoreThanMax'
  BY <1>1, <1>5, ClearKeeps DEF Clear
<1>6. CASE PurgeExpired BY <1>1, <1>6, PurgeKeeps DEF PurgeExpired
<1>7. CASE Tick BY <1>1, <1>7, TickKeeps DEF Tick
<1>8. CASE UNCHANGED vars
  <2>1. TypeOK' /\ HitsFit' /\ PastsFit' /\ CountsAreExact' /\ NoMoreThanMax'
    BY <1>8 DEF vars, IInv, TypeOK, RouteKey, AccountKey, HitsFit, PastsFit, Over,
                CountsAreExact, NoMoreThanMax, Into
  <2> QED BY <2>1 DEF Basics
<1>9. ASSUME NEW r \in Requests, NEW route \in Routes, NEW c \in Callers,
             IF route = "login" THEN \E a \in Accounts : Begin(r, route, c, a)
                                ELSE Begin(r, route, c, None)
      PROVE  Basics' /\ NoMoreThanMax'
  BY <1>2, <1>9
<1> QED BY <1>3, <1>4, <1>5, <1>6, <1>7, <1>8, <1>9 DEF Next

-----------------------------------------------------------------------------
(* Forgiveness and lockouts.                                               *)

LEMMA ForgivenessKept == ASSUME IInv, [Next]_vars PROVE SuccessForgives'
<1> SUFFICES ASSUME NEW s \in Requests, req'[s].answer = "SIGNED_IN",
                    NEW h \in standing', h.key = AccountKey(s)'
             PROVE  h.by \notin req'[s].past
  BY DEF SuccessForgives
<1>1. CASE Clear(s) BY <1>1, ClearKeeps DEF SuccessForgives
<1>2. CASE Untouched(s)
  <2>1. req[s].answer = "SIGNED_IN" /\ AccountKey(s)' = AccountKey(s)
    BY <1>2 DEF Untouched, AccountKey
  <2>2. CASE h \in standing BY <1>2, <2>1, <2>2 DEF IInv, SuccessForgives, Untouched
  <2>3. CASE h \in hits' \ hits
    <3>1. req[h.by].at # "over" BY <2>3, StepShape DEF Shape
    <3>2. req[s].past \subseteq Over BY DEF IInv, PastsFit
    <3> QED BY <1>2, <3>1, <3>2 DEF Untouched, Over
  <2> QED BY <2>2, <2>3, StepShape DEF Shape
<1> QED BY <1>1, <1>2, StepShape DEF Shape

\* At the check itself: everything the window holds against the account.
LEMMA CheckedCount ==
  ASSUME IInv, NEW r \in Requests, AssertWithin(r)
  PROVE  LET w == Window("login", clock)
             all == Into(standing, AccountKey(r), w)
         IN  /\ IsFiniteSet(all)
             /\ buckets[AccountKey(r)][w] = Cardinality(all)
             /\ req'[r].answer = "LOCKED" => Cardinality(all) >= MaxRequests["login"]
             /\ PassedCheck(r)' => Cardinality(all) < MaxRequests["login"]
<1> USE DEF IInv
<1> DEFINE w == Window("login", clock)
           k == AccountKey(r)
           all == Into(standing, k, w)
<1>1. /\ req[r].at = "check" /\ k \in Keys /\ k.policy = "login"
      /\ clock \in 0 .. MaxClock /\ req[r].answer = "none"
  BY KeyTypes DEF AssertWithin, TypeOK, PastsFit
<1>2. w \in Windows BY <1>1, WindowType
<1>3. ExpiresAt("login", w) >= clock
  <2>1. ExpiresAt("login", w) > clock BY <1>1, WindowOutlasts
  <2>2. ExpiresAt("login", w) \in Nat /\ clock \in Nat BY <1>1, <1>2, ExpiryType
  <2> QED BY <2>1, <2>2
<1>4. buckets[k][w] = Cardinality(all) BY <1>1, <1>2, <1>3 DEF CountsAreExact
<1>5. IsFiniteSet(all)
  <2>1. all \subseteq hits BY DEF TypeOK, Into
  <2> QED BY <2>1, FS_Subset DEF HitsFit
<1>6. /\ req'[r].answer = "LOCKED" => buckets[k][w] >= MaxRequests["login"]
      /\ PassedCheck(r)' => ~(buckets[k][w] >= MaxRequests["login"])
  BY <1>1 DEF AssertWithin, Exhausted, PassedCheck, TypeOK
<1>7. buckets[k][w] \in Nat /\ MaxRequests["login"] \in Nat BY <1>1, <1>2 DEF TypeOK
<1> QED BY <1>4, <1>5, <1>6, <1>7

\* What a check leaves behind.
LEMMA CheckedRecord ==
  ASSUME IInv, NEW r \in Requests, AssertWithin(r)
  PROVE  /\ req'[r].past = Over /\ req'[r].checked = clock
         /\ req'[r].account = req[r].account /\ AccountKey(r)' = AccountKey(r)
         /\ hits' = hits /\ standing' = standing
BY DEF IInv, TypeOK, AssertWithin, AccountKey

LEMMA LockoutKept == ASSUME IInv, [Next]_vars PROVE LockoutMissesOnlyOverlaps'
<1> SUFFICES ASSUME NEW r \in Requests, PassedCheck(r)'
             PROVE  Cardinality(By(Into(standing', AccountKey(r)',
                                        Window("login", req'[r].checked)), req'[r].past))
                      < MaxRequests["login"]
  BY DEF LockoutMissesOnlyOverlaps, Window
<1> DEFINE new == By(Into(standing', AccountKey(r)', Window("login", req'[r].checked)),
                     req'[r].past)
<1>1. CASE AssertWithin(r)
  <2> DEFINE all == Into(standing, AccountKey(r), Window("login", clock))
  <2>1. IsFiniteSet(all) /\ Cardinality(all) < MaxRequests["login"]
    BY <1>1, CheckedCount
  <2>2. new \subseteq all BY <1>1, CheckedRecord DEF By, Into
  <2> HIDE DEF new, all
  <2>3. Cardinality(new) <= Cardinality(all) /\ Cardinality(new) \in Nat
        /\ Cardinality(all) \in Nat
    BY <2>1, <2>2, Smaller
  <2>4. MaxRequests["login"] \in Nat OBVIOUS
  <2> QED BY <2>1, <2>3, <2>4 DEF new
<1>2. CASE PassedCheck(r) /\ SameCheck(r)
  <2> DEFINE old == By(Into(standing, AccountKey(r), Window("login", req[r].checked)),
                       req[r].past)
  <2>1. Cardinality(old) < MaxRequests["login"] BY <1>2 DEF IInv, LockoutMissesOnlyOverlaps
  <2>2. new \subseteq old
    <3> SUFFICES ASSUME NEW h \in new PROVE h \in old OBVIOUS
    <3>1. /\ h \in standing' /\ h.key = AccountKey(r) /\ h.by \in req[r].past
          /\ h.window = Window("login", req[r].checked)
      BY <1>2 DEF SameCheck, By, Into, AccountKey
    <3>2. req[h.by].at = "over" BY <3>1 DEF IInv, PastsFit, Over
    <3>3. h \in standing BY <3>1, <3>2, StepShape DEF Shape
    <3> QED BY <3>1, <3>3 DEF By, Into
  <2>3. IsFiniteSet(old)
    <3>1. old \subseteq hits BY DEF IInv, TypeOK, By, Into
    <3> QED BY <3>1, FS_Subset DEF IInv, HitsFit
  <2> HIDE DEF new, old
  <2>4. Cardinality(new) <= Cardinality(old) /\ Cardinality(new) \in Nat
        /\ Cardinality(old) \in Nat
    BY <2>2, <2>3, Smaller
  <2>5. MaxRequests["login"] \in Nat OBVIOUS
  <2> QED BY <2>1, <2>4, <2>5 DEF new
<1> QED BY <1>1, <1>2, StepShape DEF Shape

LEMMA EarnedKept == ASSUME IInv, [Next]_vars PROVE LockoutIsEarned'
<1>1. Basics' BY BasicsKept
<1> SUFFICES ASSUME NEW r \in Requests, req'[r].answer = "LOCKED"
             PROVE  Cardinality({h \in Into(hits', AccountKey(r)',
                                            Window("login", req'[r].checked)) :
                                    ~Forgiven(r, h.by)'})
                      >= MaxRequests["login"]
  BY DEF LockoutIsEarned, Window
<1> DEFINE new == {h \in Into(hits', AccountKey(r)', Window("login", req'[r].checked)) :
                      ~Forgiven(r, h.by)'}
<1>2. IsFiniteSet(hits') BY <1>1 DEF Basics, HitsFit
<1>3. IsFiniteSet(new)
  <2>1. new \subseteq hits' BY DEF Into
  <2> QED BY <1>2, <2>1, FS_Subset
<1>4. \A s \in Over : req'[s] = req[s] BY StepShape DEF Shape, Over, Untouched
<1>5. CASE AssertWithin(r)
  <2> DEFINE all == Into(standing, AccountKey(r), Window("login", clock))
  <2>1. Cardinality(all) >= MaxRequests["login"] BY <1>5, CheckedCount
  <2>2. all \subseteq new
    <3> SUFFICES ASSUME NEW h \in all PROVE h \in new OBVIOUS
    <3>1. /\ h \in standing /\ h \in hits /\ h.key = AccountKey(r)
          /\ h.window = Window("login", clock)
      BY DEF Into, IInv, TypeOK
    <3>2. ~Forgiven(r, h.by)'
      <4> SUFFICES ASSUME NEW s \in req'[r].past, req'[s].answer = "SIGNED_IN",
                          req'[s].account = req'[r].account, h.by \in req'[s].past
                   PROVE  FALSE
        BY DEF Forgiven
      <4>1. s \in Over /\ req'[s] = req[s] /\ s \in Requests
        BY <1>4, <1>5, CheckedRecord DEF Over
      <4>2. AccountKey(s) = AccountKey(r) BY <1>5, <4>1, CheckedRecord DEF AccountKey
      <4> QED BY <3>1, <4>1, <4>2 DEF IInv, SuccessForgives
    <3> QED BY <1>5, <3>1, <3>2, CheckedRecord DEF Into
  <2> HIDE DEF new, all
  <2>3. /\ Cardinality(all) \in Nat /\ Cardinality(new) \in Nat
        /\ Cardinality(all) <= Cardinality(new)
    BY <1>3, <2>2, Smaller
  <2>4. MaxRequests["login"] \in Nat OBVIOUS
  <2> QED BY <2>1, <2>3, <2>4 DEF new
<1>6. CASE Untouched(r)
  <2> DEFINE old == {h \in Into(hits, AccountKey(r), Window("login", req[r].checked)) :
                        ~Forgiven(r, h.by)}
  <2>1. Cardinality(old) >= MaxRequests["login"]
    BY <1>6 DEF IInv, LockoutIsEarned, Untouched
  <2>2. old \subseteq new
    <3> SUFFICES ASSUME NEW h \in old PROVE h \in new OBVIOUS
    <3>1. h \in hits' BY StepShape DEF Shape, Into
    <3>2. req[r].past \subseteq Over BY DEF IInv, PastsFit
    <3>3. ~Forgiven(r, h.by)' BY <1>4, <1>6, <3>2 DEF Forgiven, Untouched
    <3> QED BY <1>6, <3>1, <3>3 DEF Into, Untouched, AccountKey
  <2> HIDE DEF new, old
  <2>3. /\ Cardinality(old) \in Nat /\ Cardinality(new) \in Nat
        /\ Cardinality(old) <= Cardinality(new)
    BY <1>3, <2>2, Smaller
  <2>4. MaxRequests["login"] \in Nat OBVIOUS
  <2> QED BY <2>1, <2>3, <2>4 DEF new
<1> QED BY <1>5, <1>6, StepShape DEF Shape

-----------------------------------------------------------------------------
LEMMA InitIInv == Init => IInv
<1> SUFFICES ASSUME Init PROVE IInv OBVIOUS
<1> USE DEF Init, NewRequest
<1>1. TypeOK
  <2>1. \A r \in Requests : req[r] \in RequestState
    BY RateAssumption DEF RequestState, Stages, Answers
  <2>2. req \in [Requests -> RequestState] BY <2>1
  <2>3. buckets \in [Keys -> [Windows -> Nat]] OBVIOUS
  <2>4. \A r \in Requests : req[r].now = 0 /\ req[r].at = "new" /\ req[r].route = "none"
    OBVIOUS
  <2>5. clock \in 0 .. MaxClock /\ crashes \in 0 .. MaxCrashes OBVIOUS
  <2>6. \A r \in Requests : req[r].now <= clock BY <2>4
  <2>7. hits \subseteq Hits /\ standing \subseteq hits OBVIOUS
  <2> HIDE DEF Init
  <2> QED BY <2>2, <2>3, <2>4, <2>5, <2>6, <2>7 DEF TypeOK
<1>2. HitsFit BY FS_EmptySet DEF HitsFit
<1>3. PastsFit BY DEF PastsFit
<1>4. \A k \in Keys, w \in Windows : Cardinality(Into({}, k, w)) = 0
  <2>1. \A k \in Keys, w \in Windows : Into({}, k, w) = {} BY DEF Into
  <2> QED BY <2>1, FS_EmptySet
<1>5. CountsAreExact BY <1>4 DEF CountsAreExact
<1>6. NoMoreThanMax
  <2>1. \A k \in Keys, w \in Windows : {h \in Into({}, k, w) : ~h.late} = {} BY DEF Into
  <2>2. \A k \in Keys : MaxRequests[k.policy] \in Nat BY RateAssumption DEF Keys
  <2>3. \A k \in Keys, w \in Windows :
          Cardinality({h \in Into(hits, k, w) : ~h.late}) <= MaxRequests[k.policy]
    <3> TAKE k \in Keys, w \in Windows
    <3>1. Cardinality({h \in Into(hits, k, w) : ~h.late}) = 0 BY <2>1, FS_EmptySet
    <3> QED BY <2>2, <3>1
  <2> QED BY <2>3 DEF NoMoreThanMax
<1>7. SuccessForgives /\ LockoutMissesOnlyOverlaps /\ LockoutIsEarned
  BY DEF SuccessForgives, LockoutMissesOnlyOverlaps, PassedCheck, LockoutIsEarned
<1> QED BY <1>1, <1>2, <1>3, <1>5, <1>6, <1>7 DEF IInv

LEMMA NextIInv == IInv /\ [Next]_vars => IInv'
<1> SUFFICES ASSUME IInv, [Next]_vars PROVE IInv' OBVIOUS
<1> QED BY BasicsKept, ForgivenessKept, LockoutKept, EarnedKept DEF IInv, Basics

\* The inductive invariant: counters, their history and the requests that are
\* between two of their transactions fit together (rate_limit.py, api/v1/auth.py).
THEOREM RateInvariant == Spec => []IInv
<1> QED BY InitIInv, NextIInv, PTL DEF Spec

\* Buckets and requests keep their types (models/rate_limit.py).
THEOREM RateTypes == Spec => []TypeOK
<1>1. IInv => TypeOK BY DEF IInv
<1> QED BY <1>1, RateInvariant, PTL

\* The stored count of a current window is exact (hit, purge_expired).
THEOREM CountsAreExactHolds == Spec => []CountsAreExact
<1>1. IInv => CountsAreExact BY DEF IInv
<1> QED BY <1>1, RateInvariant, PTL

\* Any number of concurrent requests stays within max_requests (enforce).
THEOREM NoMoreThanMaxHolds == Spec => []NoMoreThanMax
<1>1. IInv => NoMoreThanMax BY DEF IInv
<1> QED BY <1>1, RateInvariant, PTL

\* Only overlapping failures slip past the lock of an account (assert_within).
THEOREM LockoutMissesOnlyOverlapsHolds == Spec => []LockoutMissesOnlyOverlaps
<1>1. IInv => LockoutMissesOnlyOverlaps BY DEF IInv
<1> QED BY <1>1, RateInvariant, PTL

\* Nobody is locked out by failures it has made good (assert_within, clear).
THEOREM LockoutIsEarnedHolds == Spec => []LockoutIsEarned
<1>1. IInv => LockoutIsEarned BY DEF IInv
<1> QED BY <1>1, RateInvariant, PTL

\* A client that waits for as long as it was told, and one second more, meets a new
\* window, and was never told to wait a second too long, whatever the lengths of the
\* windows and the resolution of the clock (enforce, assert_within).
THEOREM HintIsWithinASecondHolds == Spec => []HintIsWithinASecond
<1>1. IInv => HintIsWithinASecond
  <2> SUFFICES ASSUME IInv, NEW r \in Requests, req[r].answer \in {"LOCKED", "LIMITED"}
               PROVE  LET p == PolicyOf(r)
                          now == IF req[r].answer = "LOCKED" THEN req[r].checked
                                                             ELSE req[r].now
                          reset == ExpiresAt(p, Window(p, now))
                          hinted == now + RetryAfter(p, now) * TicksPerSecond
                      IN  /\ reset - TicksPerSecond < hinted
                          /\ hinted < reset + TicksPerSecond
    BY DEF HintIsWithinASecond
  <2>1. req[r].now \in 0 .. MaxClock /\ req[r].checked \in 0 .. MaxClock
    BY DEF IInv, TypeOK, RequestState
  <2>2. PolicyOf(r) \in Policies
    <3>1. req[r].at = "over" BY DEF IInv, PastsFit
    <3>2. req[r].route \in {"login", "register", "punch"}
      BY <3>1 DEF IInv, TypeOK, RequestState
    <3> QED BY <3>2 DEF PolicyOf, Limited
  <2> QED BY <2>1, <2>2, HintRight
<1> QED BY <1>1, RateInvariant, PTL
=============================================================================
