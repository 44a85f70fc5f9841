----------------------------- MODULE PhoneProofs -----------------------------
(***************************************************************************)
(* Theorems about the app and its server, for any number of presses, of    *)
(* overlapping reloads and of things that go wrong.                        *)
(***************************************************************************)
EXTENDS PhoneProperties, TLAPS

USE PhoneAssumption DEF server, session, screen, counters, Calls, Tabs, Keys,
                        Undecided, Rejected

-----------------------------------------------------------------------------
(* Records.                                                                *)

LEMMA IdleIsRequest == Idle \in Requests BY DEF Idle, Requests

LEMMA SentIsRequest ==
  ASSUME NEW q \in Requests, access \in Nat
  PROVE  /\ Sent(q) \in Requests /\ Sent(q).at = "sent"
         /\ Sent(q).key = q.key /\ Sent(q).dir = q.dir /\ Sent(q).sees = q.sees
  BY DEF Sent, Requests

\* A reload takes a place that is idle and leaves the other requests alone.
LEMMA ReloadTakesAPlace ==
  ASSUME NEW calls \in [Calls -> Requests], Free(calls) # {}, access \in Nat
  PROVE  \E c \in Reloads : /\ calls[c].at = "idle"
                            /\ Reload(calls) = [calls EXCEPT ![c] = Sent(Idle)]
<1>1. PICK c \in Free(calls) : c = CHOOSE d \in Free(calls) : TRUE OBVIOUS
<1> QED BY <1>1 DEF Reload, Free

-----------------------------------------------------------------------------
(* Types, one group of variables at a time.                                *)

LEMMA InitTypes == ASSUME Init PROVE TypeOK
<1>1. call \in [Calls -> Requests] /\ stray \in Requests BY IdleIsRequest DEF Init
<1>2. CallsOK BY <1>1 DEF CallsOK, Init, Idle
<1>3. TokensOK
  <2>1. NoRefresh \in RefreshRows(1) BY DEF NoRefresh, RefreshRows
  <2>2. [at |-> "sent", token |-> 1, reply |-> 0] \in RefreshRows(1) BY DEF RefreshRows
  <2> QED BY <2>1, <2>2 DEF Init, TokensOK
<1>4. AppOK BY DEF Init, AppOK, NoSuccess
<1>5. past \in Pasts BY DEF Init, Pasts
<1> QED BY <1>2, <1>3, <1>4, <1>5 DEF Init, TypeOK

\* Who changes a token or a refresh.
LEMMA TokenSteps ==
  ASSUME Next
  PROVE  \/ ServeLogout \/ ExpireAccess \/ DeliverRefresh \/ LoseRefresh \/ OpenTab
         \/ TabRestored \/ ColdStart
         \/ \E t \in Tabs : ServeRefresh(t)
         \/ \E o : EndLogout(o)
         \/ \E c \in Calls : Await(c)
         \/ UNCHANGED <<session, access, refresh>>
  BY DEF Next, Press, CaptureFails, SendPunch, AskAgain, SignOut, Serve, ServePunch,
         ServeReload, Deliver, Lose, End, EndPunch, EndReload, ServeStray, ChangeElsewhere

\* Refreshes and tokens.
LEMMA RefreshRow ==
  ASSUME NEW n \in Nat
  PROVE  /\ NoRefresh \in RefreshRows(n)
         /\ \A t \in Tabs : cookie' \in 0 .. n => Asked(t) \in RefreshRows(n)
         /\ RefreshRows(n) \subseteq RefreshRows(n + 1)
  BY DEF NoRefresh, Asked, RefreshRows

LEMMA TokenTypes ==
  ASSUME TypeOK, Next
  PROVE  TokensOK'
<1> USE DEF TypeOK, TokensOK
<1>1. CASE ServeLogout BY <1>1 DEF ServeLogout
<1>2. ASSUME NEW t \in Tabs, ServeRefresh(t) PROVE TokensOK'
  <2> DEFINE good == refresh[t].token # 0 /\ refresh[t].token = live
             next == IF good THEN issued + 1 ELSE issued
  <2>1. /\ issued' = next /\ live' \in 0 .. next
        /\ UNCHANGED <<expired, cookie, access>>
        /\ refresh' = [refresh EXCEPT ![t].at = "served",
                                      ![t].reply = IF good THEN issued + 1 ELSE 0]
    BY <1>2 DEF ServeRefresh
  <2>2. next \in {issued, issued + 1} /\ next \in Nat OBVIOUS
  <2>3. refresh \in [Tabs -> RefreshRows(next)] BY <2>2, RefreshRow
  <2>4. (IF good THEN issued + 1 ELSE 0) \in 0 .. next BY <2>2
  <2>5. ASSUME NEW x \in 0 .. next, NEW row \in RefreshRows(next)
        PROVE  [row EXCEPT !.at = "served", !.reply = x] \in RefreshRows(next)
    BY <2>5 DEF RefreshRows
  <2> HIDE DEF good, next
  <2>6. refresh' \in [Tabs -> RefreshRows(next)] BY <2>1, <2>3, <2>4, <2>5
  <2>7. expired \in 0 .. next /\ cookie \in 0 .. next /\ access \in 0 .. next BY <2>2
  <2> QED BY <2>1, <2>2, <2>6, <2>7
<1>3. CASE ExpireAccess BY <1>3 DEF ExpireAccess
<1>4. ASSUME NEW o, EndLogout(o) PROVE TokensOK'
  <2>1. cookie' = 0 \/ cookie' = cookie BY <1>4, Zenon DEF EndLogout
  <2>2. access' = 0 /\ UNCHANGED <<live, issued, expired, refresh>>
    BY <1>4 DEF EndLogout
  <2> QED BY <2>1, <2>2
<1>5. ASSUME NEW c \in Calls, Await(c) PROVE TokensOK'
  <2>1. UNCHANGED session /\ UNCHANGED access /\ refresh' = Shared BY <1>5 DEF Await
  <2>2. Asked("app") \in RefreshRows(issued) BY <2>1, RefreshRow
  <2> QED BY <2>1, <2>2 DEF Shared
<1>6. CASE DeliverRefresh
  <2>1. refresh["app"] \in RefreshRows(issued) OBVIOUS
  <2>2. NoRefresh \in RefreshRows(issued) BY RefreshRow
  <2>3. /\ UNCHANGED <<live, issued, expired>> /\ cookie' \in {cookie, refresh["app"].reply}
        /\ access' \in {0, refresh["app"].reply}
        /\ refresh' = [refresh EXCEPT !["app"] = NoRefresh]
    BY <1>6 DEF DeliverRefresh, FailRefresh
  <2> QED BY <2>1, <2>2, <2>3 DEF RefreshRows
<1>7. CASE LoseRefresh
  <2>1. refresh["app"] \in RefreshRows(issued) OBVIOUS
  <2>2. NoRefresh \in RefreshRows(issued) BY RefreshRow
  <2>3. /\ UNCHANGED <<live, issued, expired>> /\ cookie' \in {cookie, refresh["app"].reply}
        /\ access' = 0 /\ refresh' = [refresh EXCEPT !["app"] = NoRefresh]
    BY <1>7 DEF LoseRefresh, FailRefresh, CookiesAfterLoss
  <2> QED BY <2>1, <2>2, <2>3 DEF RefreshRows
<1>8. CASE OpenTab
  <2>1. UNCHANGED <<session, access>> /\ refresh' = [refresh EXCEPT !["tab"] = Asked("tab")]
    BY <1>8 DEF OpenTab
  <2>2. Asked("tab") \in RefreshRows(issued) BY <2>1, RefreshRow
  <2> QED BY <2>1, <2>2
<1>9. CASE TabRestored
  <2>1. refresh["tab"] \in RefreshRows(issued) OBVIOUS
  <2>2. NoRefresh \in RefreshRows(issued) BY RefreshRow
  <2> QED BY <1>9, <2>1, <2>2 DEF TabRestored, RefreshRows
<1>10. CASE ColdStart
  <2>1. refresh["app"] \in RefreshRows(issued) OBVIOUS
  <2>2. /\ UNCHANGED <<live, issued, expired>> /\ cookie' \in {cookie, refresh["app"].reply}
        /\ access' = 0 /\ refresh' = [refresh EXCEPT !["app"] = Asked("app")]
    BY <1>10 DEF ColdStart, CookiesAfterLoss
  <2>3. cookie' \in 0 .. issued BY <2>1, <2>2 DEF RefreshRows
  <2>4. Asked("app") \in RefreshRows(issued) BY <2>3, RefreshRow
  <2> QED BY <2>2, <2>3, <2>4
<1>11. CASE UNCHANGED <<session, access, refresh>> BY <1>11
<1> QED
  <2> HIDE DEF TypeOK, TokensOK
  <2> QED BY <1>1, <1>2, <1>3, <1>4, <1>5, <1>6, <1>7, <1>8, <1>9, <1>10, <1>11, TokenSteps

\* What the server knows of the person.
LEMMA Decided ==
  ASSUME TypeOK, NEW q \in Requests, NEW verdict \in {"ok", "rejected"}, Decide(q, verdict)
  PROVE  /\ changes' \in {changes, changes + 1} /\ made' \in [Keys -> -1 .. changes']
         /\ \A k \in Keys : made'[k] = made[k] \/ (Fresh(q) /\ k = q.key)
         /\ ~Fresh(q) => UNCHANGED <<changes, made>>
         /\ Fresh(q) /\ q.key \in Keys =>
               /\ verdict = "ok" => made'[q.key] = changes + 1 /\ changes' = changes + 1
               /\ verdict # "ok" => made'[q.key] = Rejected /\ changes' = changes
<1>1. changes \in Nat /\ made \in [Keys -> -1 .. changes] BY DEF TypeOK
<1>2. CASE ~Fresh(q) BY <1>1, <1>2 DEF Decide
<1>3. CASE Fresh(q) /\ verdict = "ok"
  <2>1. changes' = changes + 1 /\ made' = [made EXCEPT ![q.key] = changes + 1]
    BY <1>3 DEF Decide
  <2>2. \A n \in -1 .. changes : n \in -1 .. changes' BY <1>1, <2>1
  <2>3. changes + 1 \in -1 .. changes' BY <1>1, <2>1
  <2>4. made' \in [Keys -> -1 .. changes'] BY <1>1, <2>1, <2>2, <2>3
  <2>5. \A k \in Keys : made'[k] = IF k = q.key THEN changes + 1 ELSE made[k]
    BY <1>1, <2>1
  <2> QED BY <1>3, <2>1, <2>4, <2>5
<1>4. CASE Fresh(q) /\ verdict = "rejected"
  <2>1. changes' = changes /\ made' = [made EXCEPT ![q.key] = Rejected]
    BY <1>4 DEF Decide
  <2>2. Rejected \in -1 .. changes' BY <1>1, <2>1
  <2>3. made' \in [Keys -> -1 .. changes'] BY <1>1, <2>1, <2>2
  <2>4. \A k \in Keys : made'[k] = IF k = q.key THEN Rejected ELSE made[k]
    BY <1>1, <2>1
  <2> QED BY <1>4, <2>1, <2>3, <2>4
<1> QED BY <1>2, <1>3, <1>4

LEMMA ServerSteps ==
  ASSUME Next
  PROVE  \/ ServePunch \/ ServeStray \/ ChangeElsewhere \/ UNCHANGED server
  BY DEF Next, Press, CaptureFails, SendPunch, AskAgain, SignOut, Serve, ServeReload,
         ServeLogout, Deliver, Await, Lose, End, EndPunch, EndReload, EndLogout,
         ExpireAccess, ServeRefresh, DeliverRefresh, FailRefresh, LoseRefresh, OpenTab,
         TabRestored, ColdStart

LEMMA ServerTypes ==
  ASSUME TypeOK, Next
  PROVE  /\ changes' \in Nat /\ changes' >= changes /\ changes' \in {changes, changes + 1}
         /\ made' \in [Keys -> -1 .. changes']
<1>1. changes \in Nat /\ made \in [Keys -> -1 .. changes] BY DEF TypeOK
<1>2. CASE ServePunch
  <2>1. call["punch"] \in Requests BY DEF TypeOK, CallsOK
  <2>2. PICK v \in {"ok", "rejected"} : Decide(call["punch"], v) BY <1>2 DEF ServePunch
  <2> QED BY <1>1, <2>1, <2>2, Decided
<1>3. CASE ServeStray
  <2>1. stray \in Requests BY DEF TypeOK, CallsOK
  <2>2. PICK v \in {"ok", "rejected"} : Decide(stray, v) BY <1>3 DEF ServeStray
  <2> QED BY <1>1, <2>1, <2>2, Decided
<1>4. CASE ChangeElsewhere BY <1>1, <1>4 DEF ChangeElsewhere
<1>5. CASE UNCHANGED server BY <1>1, <1>5
<1> QED BY <1>2, <1>3, <1>4, <1>5, ServerSteps

\* Requests: a step changes the entries it names, and leaves nobody waiting for
\* a refresh that is over.
LEMMA CallTypes ==
  ASSUME TypeOK, changes' \in Nat, changes' >= changes, stray' \in Requests,
         call' \in [Calls -> Requests],
         \A c \in Calls : call'[c].sees = call[c].sees \/ call'[c].sees \in 0 .. changes,
         \/ refresh'["app"].at # "none"
         \/ \A c \in Calls : call'[c].at # "waiting"
         \/ /\ refresh["app"].at = "none" \/ refresh'["app"] = refresh["app"]
            /\ \A c \in Calls : call'[c].at = "waiting" => call[c].at = "waiting"
  PROVE  CallsOK'
<1>1. \A c \in Calls : call[c].sees \in Nat /\ call[c].sees <= changes /\ changes \in Nat
  BY DEF TypeOK, CallsOK, Requests
<1>2. \A c \in Calls : call'[c].sees <= changes' BY <1>1
<1>3. \A c \in Calls : call'[c].at = "waiting" => refresh'["app"].at # "none"
  BY DEF TypeOK, CallsOK
<1> QED BY <1>2, <1>3 DEF CallsOK

\* The same for a step that changes one request.
LEMMA OneCallTypes ==
  ASSUME TypeOK, changes' \in Nat, changes' >= changes, stray' \in Requests,
         NEW x \in Calls, NEW q \in Requests, call' = [call EXCEPT ![x] = q],
         q.sees = call[x].sees \/ q.sees \in 0 .. changes,
         q.at = "waiting" => refresh'["app"].at # "none",
         refresh'["app"].at # "none" \/ refresh'["app"] = refresh["app"]
  PROVE  CallsOK'
<1>1. call' \in [Calls -> Requests] BY DEF TypeOK, CallsOK
<1>2. \A c \in Calls : call'[c] = IF c = x THEN q ELSE call[c] BY DEF TypeOK, CallsOK
<1> QED BY <1>1, <1>2, CallTypes

LEMMA PlainCallTypes ==
  ASSUME TypeOK, Next, NEW x \in Calls, NEW q \in Requests, call' = [call EXCEPT ![x] = q],
         UNCHANGED <<refresh, stray>>, q.sees \in 0 .. changes, q.at # "waiting"
  PROVE  CallsOK'
<1>1. /\ changes' \in Nat /\ changes' >= changes /\ stray' \in Requests
      /\ refresh'["app"] = refresh["app"]
  BY ServerTypes DEF TypeOK, CallsOK
<1> QED BY <1>1, OneCallTypes

\* The places of an ended punch: its own, and perhaps that of a reload.
LEMMA EndedPunch ==
  ASSUME TypeOK, NEW o, EndPunch(o)
  PROVE  /\ call' \in [Calls -> Requests] /\ call'["punch"] = Idle
         /\ \A c \in Calls \ {"punch"} :
               \/ call'[c] = call[c]
               \/ c \in Reloads /\ call[c].at = "idle" /\ call'[c] = Sent(Idle)
         /\ o \in Reloading => \E c \in Reloads : call'[c] = Sent(Idle)
<1> DEFINE over == Ended(call, "punch")
<1>1. /\ over \in [Calls -> Requests] /\ over["punch"] = Idle
      /\ \A c \in Calls \ {"punch"} : over[c] = call[c]
  BY IdleIsRequest DEF TypeOK, CallsOK, Ended
<1>2. CASE o \notin Reloading
  <2>1. call' = over BY <1>2 DEF EndPunch
  <2> QED BY <1>1, <1>2, <2>1
<1>3. CASE o \in Reloading
  <2>1. Free(call) # {} /\ call' = Reload(over) BY <1>3 DEF EndPunch
  <2>2. Free(over) = Free(call) BY <1>1 DEF Free
  <2>3. access \in Nat BY DEF TypeOK, TokensOK
  <2> HIDE DEF over
  <2>4. PICK c \in Reloads : over[c].at = "idle" /\ call' = [over EXCEPT ![c] = Sent(Idle)]
    BY <1>1, <2>1, <2>2, <2>3, ReloadTakesAPlace
  <2>5. Sent(Idle) \in Requests BY <2>3, IdleIsRequest, SentIsRequest
  <2> QED BY <1>1, <2>4, <2>5
<1> QED BY <1>2, <1>3

\* Those who waited for a refresh that worked are sent again; the others stay.
LEMMA DeliveredRefresh ==
  ASSUME TypeOK, DeliverRefresh, refresh["app"].reply # 0
  PROVE  /\ call' \in [Calls -> Requests]
         /\ \A c \in Calls :
               \/ call'[c] = call[c] /\ call[c].at # "waiting"
               \/ /\ call[c].at = "waiting" /\ call'[c].at = "sent"
                  /\ call'[c].key = call[c].key /\ call'[c].dir = call[c].dir
                  /\ call'[c].sees = call[c].sees
               \/ /\ signed = "booting" /\ c \in Reloads
                  /\ call'[c].at = "sent" /\ call'[c].sees = 0
<1> DEFINE reply == refresh["app"].reply
           again == [c \in Calls |-> IF call[c].at # "waiting" THEN call[c]
                       ELSE [call[c] EXCEPT !.at = "sent", !.first = FALSE,
                                            !.reply = "none", !.bearer = reply]]
           first == [Idle EXCEPT !.at = "sent", !.bearer = reply]
           opens == [c \in Calls |-> IF c = CHOOSE d \in Reloads : TRUE THEN first
                                     ELSE again[c]]
<1>1. reply \in Nat BY DEF TypeOK, TokensOK, RefreshRows
<1>2. ASSUME NEW q \in Requests, NEW b \in Nat
      PROVE  LET p == [q EXCEPT !.at = "sent", !.first = FALSE, !.reply = "none", !.bearer = b]
             IN  /\ p \in Requests /\ p.at = "sent" /\ p.key = q.key /\ p.dir = q.dir
                 /\ p.sees = q.sees
  BY <1>2 DEF Requests
<1>3. first \in Requests /\ first.at = "sent" /\ first.sees = 0
  <2>1. ASSUME NEW q \in Requests, NEW b \in Nat
        PROVE  LET p == [q EXCEPT !.at = "sent", !.bearer = b]
               IN  p \in Requests /\ p.at = "sent" /\ p.sees = q.sees
    BY <2>1 DEF Requests
  <2>2. Idle.sees = 0 BY DEF Idle
  <2> QED BY <1>1, <2>1, <2>2, IdleIsRequest
<1>4. call' = IF signed = "booting" THEN opens ELSE again BY DEF DeliverRefresh
<1>5. \A c \in Calls : call[c] \in Requests BY DEF TypeOK, CallsOK
<1> HIDE DEF reply, first
<1>6. \A c \in Calls : /\ again[c] \in Requests
                       /\ \/ again[c] = call[c] /\ call[c].at # "waiting"
                          \/ /\ call[c].at = "waiting" /\ again[c].at = "sent"
                             /\ again[c].key = call[c].key /\ again[c].dir = call[c].dir
                             /\ again[c].sees = call[c].sees
  BY <1>1, <1>2, <1>5
<1>7. again \in [Calls -> Requests] BY <1>6
<1>8. (CHOOSE d \in Reloads : TRUE) \in Reloads OBVIOUS
<1> HIDE DEF again
<1>9. opens \in [Calls -> Requests] BY <1>3, <1>7
<1>10. \A c \in Calls : \/ opens[c] = again[c]
                        \/ c \in Reloads /\ opens[c] = first
  BY <1>8
<1> HIDE DEF opens
<1> QED BY <1>3, <1>4, <1>6, <1>7, <1>9, <1>10

\* The requests, in every step.
LEMMA CallSteps ==
  ASSUME TypeOK, Next
  PROVE  CallsOK'
<1> USE IdleIsRequest
<1>a. /\ call \in [Calls -> Requests] /\ stray \in Requests /\ access \in Nat
      /\ cookie \in Nat /\ changes \in Nat
  BY DEF TypeOK, CallsOK, TokensOK
<1>b. /\ changes' \in Nat /\ changes' >= changes
      /\ Idle.sees \in 0 .. changes /\ Idle.at = "idle"
  BY <1>a, ServerTypes DEF Idle
<1>c. \A c \in Calls : call[c].sees \in 0 .. changes
  <2> SUFFICES ASSUME NEW c \in Calls PROVE call[c].sees \in 0 .. changes OBVIOUS
  <2>1. call[c].sees \in Nat BY <1>a DEF Requests
  <2>2. call[c].sees <= changes BY DEF TypeOK, CallsOK
  <2> QED BY <1>a, <2>1, <2>2
<1>0. /\ call \in [Calls -> Requests] /\ stray \in Requests /\ access \in Nat
      /\ changes' \in Nat /\ changes' >= changes /\ cookie \in Nat
      /\ Idle.sees \in 0 .. changes /\ Idle.at = "idle" /\ changes \in Nat
      /\ \A c \in Calls : call[c].sees \in 0 .. changes
  BY <1>a, <1>b, <1>c
<1>1. CASE Press
  <2>1. ASSUME NEW q \in Requests, NEW d \in {"in", "out"}
        PROVE  LET p == [q EXCEPT !.at = "locating", !.dir = d]
               IN  p \in Requests /\ p.at = "locating" /\ p.sees = q.sees
    BY <2>1 DEF Requests
  <2>2. PICK q \in Requests : /\ q.at = "locating" /\ q.sees \in 0 .. changes
                              /\ call' = [call EXCEPT !["punch"] = q]
    BY <1>0, <1>1, <2>1 DEF Press
  <2>3. UNCHANGED <<refresh, stray>> BY <1>1 DEF Press
  <2> QED BY <1>0, <2>2, <2>3, PlainCallTypes
<1>2. CASE CaptureFails
  <2>1. call' = [call EXCEPT !["punch"] = Idle] /\ UNCHANGED <<refresh, stray>>
    BY <1>2 DEF CaptureFails, Ended
  <2> QED BY <1>0, <2>1, PlainCallTypes
<1>3. CASE SendPunch
  <2> DEFINE q == [call["punch"] EXCEPT !.key = key']
  <2>1. key' \in 0 .. MaxPresses BY <1>3 DEF SendPunch, TypeOK, AppOK
  <2>2. q \in Requests /\ q.sees = call["punch"].sees BY <1>0, <2>1 DEF Requests
  <2>3. call' = [call EXCEPT !["punch"] = Sent(q)] BY <1>3 DEF SendPunch
  <2> HIDE DEF q
  <2>4. UNCHANGED <<refresh, stray>> BY <1>3 DEF SendPunch
  <2>5. Sent(q) \in Requests /\ Sent(q).at = "sent" /\ Sent(q).sees = call["punch"].sees
    BY <1>0, <2>2, SentIsRequest
  <2> QED BY <1>0, <2>3, <2>4, <2>5, PlainCallTypes
<1>4. CASE AskAgain
  <2>1. PICK c \in Reloads : call' = [call EXCEPT ![c] = Sent(Idle)]
    BY <1>0, <1>4, ReloadTakesAPlace DEF AskAgain
  <2>2. UNCHANGED <<refresh, stray>> BY <1>4 DEF AskAgain
  <2>3. Sent(Idle) \in Requests /\ Sent(Idle).at = "sent" /\ Sent(Idle).sees \in 0 .. changes
    BY <1>0, SentIsRequest
  <2> QED BY <1>0, <2>1, <2>2, <2>3, PlainCallTypes
<1>5. CASE SignOut
  <2> DEFINE q == [Idle EXCEPT !.token = cookie]
  <2>1. q \in Requests /\ q.sees \in 0 .. changes BY <1>0 DEF Idle, Requests
  <2>2. call' = [call EXCEPT !["logout"] = Sent(q)] BY <1>5 DEF SignOut
  <2> HIDE DEF q
  <2>3. UNCHANGED <<refresh, stray>> BY <1>5 DEF SignOut
  <2>4. Sent(q) \in Requests /\ Sent(q).at = "sent" /\ Sent(q).sees \in 0 .. changes
    BY <1>0, <2>1, SentIsRequest
  <2> QED BY <1>0, <2>2, <2>3, <2>4, PlainCallTypes
<1>6. CASE ServePunch
  <2>1. PICK v \in {"ok", "rejected"} :
           call' = [call EXCEPT !["punch"] =
              [[call["punch"] EXCEPT !.reply = Answer(call["punch"], v)] EXCEPT !.at = "served"]]
    BY <1>6 DEF ServePunch, Reply
  <2>2. Answer(call["punch"], v) \in {"ok", "conflict", "rejected", "401"} BY DEF Answer
  <2>3. ASSUME NEW q \in Requests, NEW a \in {"ok", "conflict", "rejected", "401"}
        PROVE  LET p == [[q EXCEPT !.reply = a] EXCEPT !.at = "served"]
               IN  p \in Requests /\ p.at = "served" /\ p.sees = q.sees
    BY <2>3 DEF Requests
  <2> DEFINE row == call["punch"]
             code == Answer(call["punch"], v)
  <2>4. row \in Requests /\ code \in {"ok", "conflict", "rejected", "401"} BY <1>0, <2>2
  <2>5. call' = [call EXCEPT !["punch"] = [[row EXCEPT !.reply = code] EXCEPT !.at = "served"]]
    BY <2>1
  <2>6. UNCHANGED <<refresh, stray>> /\ row.sees \in 0 .. changes
    BY <1>0, <1>6 DEF ServePunch
  <2> HIDE DEF row, code
  <2>7. PICK p \in Requests : /\ p.at = "served" /\ p.sees = row.sees
                              /\ call' = [call EXCEPT !["punch"] = p]
    BY <2>3, <2>4, <2>5
  <2> QED BY <2>6, <2>7, PlainCallTypes
<1>7. ASSUME NEW c \in Reloads, ServeReload(c) PROVE CallsOK'
  <2>1. ASSUME NEW q \in Requests, NEW s \in Nat
        PROVE  LET p == [[q EXCEPT !.reply = "ok", !.sees = s] EXCEPT !.at = "served"]
                   e == [[q EXCEPT !.reply = "401"] EXCEPT !.at = "served"]
               IN  /\ p \in Requests /\ p.at = "served" /\ p.sees = s
                   /\ e \in Requests /\ e.at = "served" /\ e.sees = q.sees
    BY <2>1 DEF Requests
  <2> DEFINE row == call[c]
  <2>2. row \in Requests /\ row.sees \in 0 .. changes BY <1>0
  <2>3. \/ call' = [call EXCEPT ![c] = [[row EXCEPT !.reply = "ok", !.sees = changes]
                                            EXCEPT !.at = "served"]]
        \/ call' = [call EXCEPT ![c] = [[row EXCEPT !.reply = "401"] EXCEPT !.at = "served"]]
    BY <1>7 DEF ServeReload, Reply
  <2> HIDE DEF row
  <2>4. PICK q \in Requests : /\ q.at = "served" /\ q.sees \in 0 .. changes
                              /\ call' = [call EXCEPT ![c] = q]
    <3>1. changes \in Nat /\ changes \in 0 .. changes BY <1>0
    <3>2. CASE call' = [call EXCEPT ![c] = [[row EXCEPT !.reply = "ok", !.sees = changes]
                                              EXCEPT !.at = "served"]]
      BY <2>1, <2>2, <3>1, <3>2
    <3>3. CASE call' = [call EXCEPT ![c] = [[row EXCEPT !.reply = "401"]
                                              EXCEPT !.at = "served"]]
      BY <2>1, <2>2, <3>1, <3>3
    <3> QED BY <2>3, <3>2, <3>3
  <2>5. UNCHANGED <<refresh, stray>> BY <1>7 DEF ServeReload
  <2> QED BY <2>4, <2>5, PlainCallTypes
<1>8. CASE ServeLogout
  <2>1. ASSUME NEW q \in Requests
        PROVE  LET p == [[q EXCEPT !.reply = "ok"] EXCEPT !.at = "served"]
               IN  p \in Requests /\ p.at = "served" /\ p.sees = q.sees
    BY <2>1 DEF Requests
  <2>2. PICK q \in Requests : /\ q.at = "served" /\ q.sees = call["logout"].sees
                              /\ call' = [call EXCEPT !["logout"] = q]
    BY <1>0, <1>8, <2>1 DEF ServeLogout, Reply
  <2> QED BY <1>0, <1>8, <2>2, OneCallTypes DEF ServeLogout
<1>9. CASE ServeStray BY <1>0, <1>9, CallTypes DEF ServeStray
<1>10. ASSUME NEW o, EndPunch(o), stray' \in Requests PROVE CallsOK'
  <2>1. UNCHANGED refresh BY <1>10 DEF EndPunch
  <2>2. Sent(Idle).at = "sent" /\ Sent(Idle).sees \in 0 .. changes BY <1>0, SentIsRequest
  <2>3. \A c \in Calls : \/ call'[c] = call[c]
                         \/ call'[c].at # "waiting" /\ call'[c].sees \in 0 .. changes
    BY <1>0, <1>10, <2>2, EndedPunch
  <2>4. call' \in [Calls -> Requests] BY <1>10, EndedPunch
  <2> QED BY <1>0, <1>10, <2>1, <2>3, <2>4, CallTypes
<1>11. ASSUME NEW c \in Reloads, NEW o, EndReload(c, o), stray' \in Requests PROVE CallsOK'
  <2>1. call' = [call EXCEPT ![c] = Idle] /\ UNCHANGED refresh
    BY <1>11 DEF EndReload, Ended
  <2>2. refresh'["app"] = refresh["app"] /\ Idle.at # "waiting" BY <1>0, <2>1
  <2> QED BY <1>0, <1>11, <2>1, <2>2, OneCallTypes
<1>12. ASSUME NEW o, EndLogout(o), stray' \in Requests PROVE CallsOK'
  <2>1. call' = [call EXCEPT !["logout"] = Idle] /\ UNCHANGED refresh
    BY <1>12 DEF EndLogout, Ended
  <2>2. refresh'["app"] = refresh["app"] /\ Idle.at # "waiting" BY <1>0, <2>1
  <2> QED BY <1>0, <1>12, <2>1, <2>2, OneCallTypes
<1>13. ASSUME NEW c \in Calls, Await(c), stray' = stray PROVE CallsOK'
  <2>1. ASSUME NEW q \in Requests
        PROVE  LET p == [q EXCEPT !.at = "waiting"] IN p \in Requests /\ p.sees = q.sees
    BY <2>1 DEF Requests
  <2>2. PICK q \in Requests : q.sees = call[c].sees /\ call' = [call EXCEPT ![c] = q]
    BY <1>0, <1>13, <2>1 DEF Await
  <2>3. refresh'["app"].at # "none"
    BY <1>13 DEF Await, Shared, Asked, TypeOK, TokensOK
  <2> QED BY <1>0, <1>13, <2>2, <2>3, OneCallTypes
<1>14. CASE FailRefresh /\ stray' = stray
  <2>1. call' = WaitersFail BY <1>14 DEF FailRefresh
  <2>2. WaitersFail \in [Calls -> Requests] /\ \A c \in Calls :
           /\ WaitersFail[c].at # "waiting"
           /\ WaitersFail[c].sees = call[c].sees \/ WaitersFail[c].sees \in 0 .. changes
    BY <1>0 DEF WaitersFail
  <2> QED BY <1>0, <1>14, <2>1, <2>2, CallTypes
<1>15. CASE DeliverRefresh
  <2>1. CASE refresh["app"].reply = 0
    BY <2>1, <1>14, <1>15 DEF DeliverRefresh, FailRefresh
  <2>2. CASE refresh["app"].reply # 0
    <3>1. stray' = stray BY <2>2, <1>15 DEF DeliverRefresh
    <3> QED BY <1>0, <1>15, <2>2, <3>1, DeliveredRefresh, CallTypes
  <2> QED BY <2>1, <2>2
<1>16. CASE LoseRefresh BY <1>14, <1>16 DEF LoseRefresh, FailRefresh
<1>17. CASE ColdStart
  <2>1. call' \in [Calls -> Requests] /\ \A c \in Calls : call'[c].sees \in 0 .. changes
                                                        /\ call'[c].at # "waiting"
    BY <1>0, <1>17 DEF ColdStart
  <2>2. stray' \in Requests BY <1>0, <1>17 DEF ColdStart
  <2> QED BY <1>0, <2>1, <2>2, CallTypes
<1>18. ASSUME NEW t \in Tabs, ServeRefresh(t) PROVE CallsOK'
  <2>1. refresh["app"].at # "none" => refresh'["app"].at # "none"
    BY <1>18 DEF ServeRefresh, TypeOK, TokensOK
  <2>2. UNCHANGED <<call, stray>> BY <1>18 DEF ServeRefresh
  <2>3. refresh'["app"].at # "none" \/ \A c \in Calls : call[c].at # "waiting"
    BY <2>1 DEF TypeOK, CallsOK
  <2> QED BY <1>0, <2>2, <2>3, CallTypes
<1>19. CASE ExpireAccess \/ ChangeElsewhere
  BY <1>0, <1>19, CallTypes DEF ExpireAccess, ChangeElsewhere
<1>20. CASE OpenTab \/ TabRestored
  <2>1. UNCHANGED <<call, stray>> /\ refresh'["app"] = refresh["app"]
    BY <1>20 DEF OpenTab, TabRestored, TypeOK, TokensOK
  <2> QED BY <1>0, <2>1, CallTypes
<1>21. ASSUME NEW c \in Calls, Deliver(c) PROVE CallsOK'
  BY <1>0, <1>10, <1>11, <1>12, <1>13, <1>21 DEF Deliver, End
<1>22. ASSUME NEW c \in Calls, Lose(c) PROVE CallsOK'
  <2>1. stray' \in Requests BY <1>0, <1>22 DEF Lose
  <2> QED BY <2>1, <1>10, <1>11, <1>12, <1>22 DEF Lose, End
<1> QED
  BY <1>1, <1>2, <1>3, <1>4, <1>5, <1>6, <1>7, <1>8, <1>9, <1>15, <1>16, <1>17, <1>18,
     <1>19, <1>20, <1>21, <1>22 DEF Next, Serve

\* The screen, the key, the sheet and the two bounds.
LEMMA AppSteps ==
  ASSUME TypeOK, Next
  PROVE  AppOK'
<1>0. /\ changes' \in Nat /\ changes' >= changes /\ changes \in Nat
      /\ NoSuccess \in [dir : {"none", "in", "out"}, key : 0 .. MaxPresses]
      /\ \A c \in Calls : call[c] \in Requests /\ call[c].sees \in 0 .. changes
  <2>1. changes' \in Nat /\ changes' >= changes /\ changes \in Nat
    BY ServerTypes DEF TypeOK
  <2>2. NoSuccess \in [dir : {"none", "in", "out"}, key : 0 .. MaxPresses] BY DEF NoSuccess
  <2>3. ASSUME NEW c \in Calls PROVE call[c] \in Requests /\ call[c].sees \in 0 .. changes
    <3>1. call[c] \in Requests BY DEF TypeOK, CallsOK
    <3>2. call[c].sees \in Nat BY <3>1 DEF Requests
    <3>3. call[c].sees <= changes BY DEF TypeOK, CallsOK
    <3> QED BY <2>1, <3>1, <3>2, <3>3
  <2> QED BY <2>1, <2>2, <2>3
<1>1. AppOK BY DEF TypeOK
<1>2. shown \in {None} \cup 0 .. changes' BY <1>0, <1>1 DEF AppOK
<1>3. UNCHANGED counters \/ Event => presses' \in 0 .. MaxPresses /\ events' \in 0 .. MaxEvents
  BY <1>1 DEF AppOK, Event
<1>4. ASSUME UNCHANGED counters \/ Event, UNCHANGED <<screen, key, success>>
      PROVE  AppOK'
  <2>1. presses' = presses BY <1>4 DEF Event
  <2> QED BY <1>1, <1>2, <1>3, <1>4, <2>1 DEF AppOK
<1>5. CASE Press
  <2>1. presses' \in 0 .. MaxPresses /\ presses' = presses + 1
    BY <1>1, <1>5 DEF Press, AppOK
  <2>2. key \in 0 .. presses' BY <1>1, <2>1 DEF AppOK
  <2> QED BY <1>0, <1>1, <1>2, <1>5, <2>1, <2>2 DEF Press, AppOK
<1>6. CASE SendPunch
  <2>1. key' \in 0 .. presses BY <1>1, <1>6 DEF SendPunch, AppOK
  <2> QED BY <1>1, <1>2, <1>6, <2>1 DEF SendPunch, AppOK
<1>7. ASSUME NEW o, EndPunch(o), UNCHANGED counters \/ Event PROVE AppOK'
  <2>1. key' = 0 \/ key' = key BY <1>7, Zenon DEF EndPunch
  <2>2. \/ success' = success
        \/ success' = [dir |-> call["punch"].dir, key |-> call["punch"].key]
    BY <1>7, Zenon DEF EndPunch
  <2>3. call["punch"].dir \in {"in", "out"} /\ call["punch"].key \in 0 .. MaxPresses
    BY <1>0 DEF Requests
  <2>4. success' \in [dir : {"none", "in", "out"}, key : 0 .. MaxPresses]
    BY <1>1, <2>2, <2>3 DEF AppOK
  <2>5. UNCHANGED screen /\ presses' = presses BY <1>7 DEF EndPunch, Event
  <2> QED BY <1>1, <1>2, <1>3, <1>7, <2>1, <2>4, <2>5 DEF AppOK
<1>8. ASSUME NEW c \in Reloads, NEW o, EndReload(c, o), UNCHANGED counters \/ Event PROVE AppOK'
  <2>1. shown' = call[c].sees \/ shown' = shown BY <1>8, Zenon DEF EndReload
  <2>2. call[c].sees \in 0 .. changes'
    <3>1. \A n \in 0 .. changes : n \in 0 .. changes' BY <1>0
    <3> QED BY <1>0, <3>1
  <2>3. shown' \in {None} \cup 0 .. changes' BY <1>2, <2>1, <2>2
  <2>4. UNCHANGED <<signed, key, success>> /\ presses' = presses BY <1>8 DEF EndReload, Event
  <2> QED BY <1>1, <1>3, <1>8, <2>3, <2>4 DEF AppOK
<1>9. ASSUME signed' \in {"booting", "in", "out"}, shown' \in {None, shown},
             success' \in {success, NoSuccess},
             key' = key \/ key' = 0, UNCHANGED counters \/ Event
      PROVE  AppOK'
  <2>1. presses' = presses BY <1>9 DEF Event
  <2> QED BY <1>0, <1>1, <1>2, <1>3, <1>9, <2>1 DEF AppOK
<1>10. ASSUME NEW o, EndLogout(o), UNCHANGED counters \/ Event PROVE AppOK'
  <2>1. signed' = "out" /\ shown' = None /\ success' = NoSuccess /\ key' = key
    BY <1>10 DEF EndLogout
  <2> QED BY <1>9, <1>10, <2>1
<1>11. CASE DeliverRefresh
  <2>1. signed \in {"booting", "in", "out"} BY <1>1 DEF AppOK
  <2>2. /\ signed' \in {"booting", "in", "out"} /\ shown' \in {None, shown}
        /\ success' \in {success, NoSuccess} /\ key' = key /\ UNCHANGED counters
    BY <1>11, <2>1 DEF DeliverRefresh, FailRefresh
  <2> QED BY <1>9, <2>2
<1>12. CASE LoseRefresh BY <1>9, <1>12 DEF LoseRefresh, FailRefresh
<1>13. CASE ColdStart BY <1>9, <1>13 DEF ColdStart
<1>14. ASSUME NEW c \in Calls, Deliver(c) PROVE AppOK'
  BY <1>4, <1>7, <1>8, <1>10, <1>14 DEF Deliver, Await, End
<1>15. ASSUME NEW c \in Calls, Lose(c) PROVE AppOK'
  BY <1>7, <1>8, <1>10, <1>15 DEF Lose, End
<1>16. ASSUME NEW c \in Calls, Serve(c) PROVE AppOK'
  BY <1>4, <1>16 DEF Serve, ServePunch, ServeReload, ServeLogout
<1>17. CASE \/ CaptureFails \/ AskAgain \/ SignOut \/ ServeStray \/ ExpireAccess
            \/ ChangeElsewhere \/ OpenTab \/ TabRestored
            \/ \E t \in Tabs : ServeRefresh(t)
  BY <1>4, <1>17 DEF CaptureFails, AskAgain, SignOut, ServeStray, ExpireAccess,
         ChangeElsewhere, OpenTab, TabRestored, ServeRefresh
<1> QED
  BY <1>5, <1>6, <1>11, <1>12, <1>13, <1>14, <1>15, <1>16, <1>17 DEF Next

\* A punch is sent with the key the app holds, or with that of the press.
LEMMA SentKey ==
  ASSUME TypeOK, KeysAreOld, SendPunch
  PROVE  key' \in Keys
<1>1. /\ presses \in 0 .. MaxPresses /\ key \in 0 .. presses
      /\ call["punch"].at = "locating" /\ key' = IF key = 0 THEN presses ELSE key
  BY DEF SendPunch, TypeOK, AppOK
<1>2. presses # 0 BY <1>1 DEF KeysAreOld
<1> QED BY <1>1, <1>2

\* The history; a key is noted only when the app holds it.
LEMMA PastSteps ==
  ASSUME TypeOK, KeyIsHeld, KeysAreOld, Next
  PROVE  past' \in Pasts
<1> USE DEF Pasts
<1>1. past \in Pasts BY DEF TypeOK
<1>2. ASSUME NEW e \in SUBSET Excuses PROVE Excuse(e) \in Pasts
  BY <1>1, <1>2 DEF Excuse
<1>3. ASSUME NEW p \in Pasts, NEW cause \in BOOLEAN, Blind(p, cause) PROVE past' \in Pasts
  BY <1>3 DEF Blind
<1>4. \A t \in Tabs : Overlap(t) \subseteq Excuses /\ Costs(t) \subseteq Excuses
  BY DEF Overlap, Costs, Excuses
<1>5. ASSUME NEW o, EndPunch(o), call["punch"].at \in {"sent", "served"}
      PROVE  past' \in Pasts
  <2>1. call["punch"].key \in Keys BY <1>5 DEF KeyIsHeld
  <2> DEFINE k == {call["punch"].key}
             un == IF o = "lost" THEN past.unanswered \cup k ELSE past.unanswered
             lo == IF o = "conflict" THEN past.loose \cup k ELSE past.loose
             noted == [past EXCEPT !.unanswered = un, !.loose = lo]
  <2>2. un \in SUBSET Keys /\ lo \in SUBSET Keys BY <1>1, <2>1
  <2> HIDE DEF un, lo
  <2>3. noted \in Pasts BY <1>1, <2>2
  <2>4. Blind(noted, o = "lost") BY <1>5 DEF EndPunch, un, lo
  <2> QED BY <1>3, <2>3, <2>4
<1>6. ASSUME NEW c \in Reloads, NEW o, EndReload(c, o) PROVE past' \in Pasts
  <2>1. PICK cause \in BOOLEAN : Blind(past, cause)
    <3> DEFINE cause == \/ ~(o = "ok" /\ signed = "in")
                        \/ (shown # None /\ call[c].sees < shown)
    <3>1. Blind(past, cause) BY <1>6 DEF EndReload
    <3>2. cause \in BOOLEAN OBVIOUS
    <3> QED BY <3>1, <3>2
  <2> QED BY <1>1, <1>3, <2>1
<1>7. ASSUME NEW o, EndLogout(o) PROVE past' \in Pasts
  <2> DEFINE e == (IF o = "lost" THEN {"logout lost"} ELSE {})
                     \cup (IF \E t \in Tabs : refresh[t].at # "none"
                           THEN {"refresh during logout"} ELSE {})
  <2>1. e \in SUBSET Excuses BY DEF Excuses
  <2>2. Blind(Excuse(e), FALSE) BY <1>7 DEF EndLogout
  <2> HIDE DEF e
  <2> QED BY <1>2, <1>3, <2>1, <2>2
<1>8. ASSUME NEW c \in Calls, Await(c) PROVE past' \in Pasts
  BY <1>1, <1>2, <1>4, <1>8 DEF Await
<1>9. ASSUME NEW c \in Calls, Deliver(c) PROVE past' \in Pasts
  BY <1>5, <1>6, <1>7, <1>8, <1>9 DEF Deliver, End
<1>10. ASSUME NEW c \in Calls, Lose(c) PROVE past' \in Pasts
  BY <1>5, <1>6, <1>7, <1>10 DEF Lose, End
<1>11. CASE SignOut
  <2>1. {"signout"} \subseteq Excuses BY DEF Excuses
  <2> QED BY <1>2, <1>11, <2>1 DEF SignOut
<1>12. CASE ServeStray
  <2>1. (changes' # changes) \in BOOLEAN OBVIOUS
  <2> QED BY <1>1, <1>3, <1>12, <2>1 DEF ServeStray
<1>13. CASE ChangeElsewhere BY <1>1, <1>3, <1>13 DEF ChangeElsewhere
<1>14. CASE LoseRefresh BY <1>2, <1>4, <1>14 DEF LoseRefresh
<1>15. CASE OpenTab BY <1>2, <1>4, <1>15 DEF OpenTab
<1>15a. CASE SendPunch
  <2> DEFINE use == <<key', call["punch"].dir>>
             us == past.uses \cup {use}
  <2>1. key' \in Keys BY <1>15a, SentKey
  <2>2. call["punch"].dir \in {"in", "out"} BY DEF TypeOK, CallsOK, Requests
  <2>3. us \in SUBSET (Keys \X {"in", "out"}) BY <1>1, <2>1, <2>2
  <2>4. past' = [past EXCEPT !.uses = us] BY <1>15a DEF SendPunch
  <2> HIDE DEF us
  <2> QED BY <1>1, <2>3, <2>4
<1>16. CASE ColdStart
  <2> DEFINE e == Costs("app") \cup Overlap("app")
                    \cup (IF call["logout"].at # "idle" THEN {"logout lost"} ELSE {})
             ex == past.excuses \cup e
             lo == IF key # 0 THEN past.loose \cup {key} ELSE past.loose
  <2>1. e \subseteq Excuses BY <1>4 DEF Excuses
  <2>2. key # 0 => key \in Keys BY DEF TypeOK, AppOK
  <2>3. ex \in SUBSET Excuses /\ lo \in SUBSET Keys BY <1>1, <2>1, <2>2
  <2>4. past' = [past EXCEPT !.excuses = ex, !.loose = lo, !.blind = FALSE]
    BY <1>16 DEF ColdStart
  <2> HIDE DEF ex, lo
  <2> QED BY <1>1, <2>3, <2>4
<1>17. CASE UNCHANGED past BY <1>1, <1>17
<1>18. \/ \E c \in Calls : Deliver(c) \/ Lose(c)
       \/ SignOut \/ ServeStray \/ ChangeElsewhere \/ LoseRefresh \/ OpenTab \/ SendPunch
       \/ ColdStart \/ UNCHANGED past
  BY DEF Next, Press, CaptureFails, AskAgain, Serve, ServePunch, ServeReload,
         ServeLogout, ExpireAccess, ServeRefresh, DeliverRefresh, TabRestored
<1> QED BY <1>9, <1>10, <1>11, <1>12, <1>13, <1>14, <1>15, <1>15a,
       <1>16, <1>17, <1>18

\* All of it.
LEMMA TypeSteps ==
  ASSUME TypeOK, KeyIsHeld, KeysAreOld, Next
  PROVE  TypeOK'
<1>1. TokensOK' BY TokenTypes
<1>2. CallsOK' BY CallSteps
<1>3. AppOK' BY AppSteps
<1>4. past' \in Pasts BY PastSteps
<1> QED BY <1>1, <1>2, <1>3, <1>4, ServerTypes DEF TypeOK

-----------------------------------------------------------------------------
(* Keys.  The app holds one key until it has been told what became of it,   *)
(* so a request still on its way carries that key, or one given up.         *)

\* Everything about keys, for a step that leaves the server, the punch and the
\* app's key alone; the sheet may be closed.
LEMMA KeyFrame ==
  ASSUME TypeOK, KeyInv, UNCHANGED <<made, key, stray, presses>>,
         call'["punch"] = call["punch"],
         past'.uses = past.uses, past'.unanswered = past.unanswered,
         past'.loose = past.loose,
         success' = success \/ success' = NoSuccess
  PROVE  KeyInv'
<1> USE DEF KeyInv
<1>1. KeyIsHeld' BY DEF KeyIsHeld
<1>2. KeysAreOld' BY DEF KeysAreOld
<1>3. AnswerFits' BY DEF AnswerFits, Told, MadeAs, BothWays
<1>4. SpentKeyIsKnown' BY DEF SpentKeyIsKnown
<1>5. StrayFits' BY DEF StrayFits
<1>6. SheetFits' BY DEF SheetFits, Told, MadeAs, BothWays
<1>7. UsesFit' BY DEF UsesFit, MadeAs
<1> QED BY <1>1, <1>2, <1>3, <1>4, <1>5, <1>6, <1>7

\* The same when the punch goes on without an answer to report.
LEMMA PunchGoesOn ==
  ASSUME TypeOK, KeyInv, UNCHANGED <<made, key, stray, presses>>,
         call'["punch"].at \notin {"served", "locating"},
         \/ call'["punch"].at = "idle"
         \/ /\ call["punch"].at \in {"served", "waiting"}
            /\ call'["punch"].key = call["punch"].key
            /\ call'["punch"].dir = call["punch"].dir,
         call["punch"].at = "served" => call["punch"].reply \notin {"ok", "rejected"},
         past'.uses = past.uses, past'.unanswered = past.unanswered,
         past'.loose = past.loose,
         success' = success \/ success' = NoSuccess
  PROVE  KeyInv'
<1> USE DEF KeyInv
<1>1. KeyIsHeld' BY DEF KeyIsHeld
<1>2. KeysAreOld' BY DEF KeysAreOld
<1>3. AnswerFits' BY DEF AnswerFits
<1>4. SpentKeyIsKnown' BY DEF SpentKeyIsKnown
<1>5. StrayFits' BY DEF StrayFits
<1>6. SheetFits' BY DEF SheetFits, Told, MadeAs, BothWays
<1>7. UsesFit' BY DEF UsesFit, MadeAs
<1> QED BY <1>1, <1>2, <1>3, <1>4, <1>5, <1>6, <1>7

\* Deciding a key that was not decided touches neither the sheet nor a request
\* given up.
LEMMA DecidedKeeps ==
  ASSUME TypeOK, KeyInv, UNCHANGED <<key, success, past>>,
         stray' = stray \/ stray' = Idle,
         NEW d \in Keys, made[d] = Undecided,
         \A k \in Keys : made'[k] = made[k] \/ (k = d /\ made'[k] # Undecided)
  PROVE  StrayFits' /\ SheetFits'
<1> USE DEF KeyInv
<1>1. StrayFits' BY DEF StrayFits, Idle
<1>2. SheetFits'
  <2> SUFFICES ASSUME success # NoSuccess
               PROVE  /\ success.key \in Keys
                      /\ \/ MadeAs(success.key, success.dir)'
                         \/ success.key \in past.unanswered /\ BothWays(success.key)
    BY DEF SheetFits, Told, BothWays
  <2>1. success.key \in Keys BY DEF SheetFits
  <2>2. CASE success.key \in past.unanswered /\ BothWays(success.key) BY <2>1, <2>2
  <2>3. CASE MadeAs(success.key, success.dir)
    <3>1. made[success.key] # Undecided BY <2>3 DEF MadeAs
    <3>2. made'[success.key] = made[success.key] BY <2>1, <3>1
    <3> QED BY <2>1, <2>3, <3>2 DEF MadeAs
  <2> QED BY <2>2, <2>3 DEF SheetFits, Told
<1> QED BY <1>1, <1>2

LEMMA PressKeys == ASSUME TypeOK, KeyInv, Press PROVE KeyInv'
<1> USE DEF KeyInv
<1>1. /\ call'["punch"].at = "locating" /\ presses' = presses + 1 /\ success' = NoSuccess
      /\ UNCHANGED <<made, key, stray, past>> /\ call["punch"].at = "idle"
  <2>1. ASSUME NEW q \in Requests, NEW d \in {"in", "out"}
        PROVE  [q EXCEPT !.at = "locating", !.dir = d].at = "locating"
    BY <2>1 DEF Requests
  <2> DEFINE d == IF Present(shown) THEN "out" ELSE "in"
  <2>2. call'["punch"] = [Idle EXCEPT !.at = "locating", !.dir = d]
    BY DEF Press, TypeOK, CallsOK
  <2>3. d \in {"in", "out"} OBVIOUS
  <2> HIDE DEF d
  <2> QED BY <2>1, <2>2, <2>3, IdleIsRequest DEF Press
<1>2. presses \in Nat BY DEF TypeOK, AppOK
<1>3. KeyIsHeld' BY <1>1 DEF KeyIsHeld
<1>4. KeysAreOld' BY <1>1, <1>2 DEF KeysAreOld
<1>5. AnswerFits' BY <1>1 DEF AnswerFits
<1>6. SpentKeyIsKnown' BY <1>1 DEF SpentKeyIsKnown
<1>7. StrayFits' BY <1>1 DEF StrayFits
<1>8. SheetFits' BY <1>1 DEF SheetFits
<1>9. UsesFit' BY <1>1 DEF UsesFit, MadeAs
<1> QED BY <1>3, <1>4, <1>5, <1>6, <1>7, <1>8, <1>9

\* A new key is one that nothing and nobody has used.
LEMMA SendPunchKeys == ASSUME TypeOK, KeyInv, SendPunch PROVE KeyInv'
<1> USE DEF KeyInv
<1>1. /\ call["punch"].at = "locating" /\ call'["punch"].at = "sent"
      /\ call'["punch"].key = key' /\ call'["punch"].dir = call["punch"].dir
      /\ UNCHANGED <<made, stray, presses, success>>
      /\ key' = IF key = 0 THEN presses ELSE key
  <2> DEFINE q == [call["punch"] EXCEPT !.key = key']
  <2>1. key' \in 0 .. MaxPresses BY DEF SendPunch, TypeOK, AppOK
  <2>2. call["punch"] \in Requests /\ access \in Nat BY DEF TypeOK, CallsOK, TokensOK
  <2>3. q \in Requests /\ q.key = key' /\ q.dir = call["punch"].dir
    BY <2>1, <2>2 DEF Requests
  <2>4. call'["punch"] = Sent(q) BY DEF SendPunch, TypeOK, CallsOK
  <2> HIDE DEF q
  <2> QED BY <2>2, <2>3, <2>4, SentIsRequest DEF SendPunch
<1>2. presses \in 0 .. MaxPresses /\ key \in 0 .. presses BY DEF TypeOK, AppOK
<1>3. \A k \in Keys : k = key \/ made[k] # Undecided \/ (stray.at = "sent" /\ k = stray.key)
                      => k < presses
  BY <1>1 DEF KeysAreOld
<1>4. key' \in Keys BY SentKey
<1>4a. /\ past'.unanswered = past.unanswered /\ past'.loose = past.loose
       /\ past'.uses = past.uses \cup {<<key', call["punch"].dir>>}
  BY DEF SendPunch, TypeOK, Pasts
<1>5. KeyIsHeld' BY <1>1, <1>4 DEF KeyIsHeld
<1>6. KeysAreOld' BY <1>1, <1>2, <1>3 DEF KeysAreOld
<1>7. AnswerFits' BY <1>1 DEF AnswerFits
<1>8. SpentKeyIsKnown'
  <2>1. CASE key = 0
    <3>1. made[presses] = Undecided BY <1>1, <1>2, <1>3, <1>4, <2>1
    <3> QED BY <1>1, <1>4a, <2>1, <3>1 DEF SpentKeyIsKnown
  <2>2. CASE key # 0 BY <1>1, <1>4a, <2>2 DEF SpentKeyIsKnown
  <2> QED BY <2>1, <2>2
<1>9. StrayFits'
  <2> SUFFICES ASSUME stray.at = "sent" PROVE StrayFits' BY <1>1, <1>4a DEF StrayFits
  <2>1. stray.key \in Keys /\ stray.key < presses BY <1>3 DEF StrayFits
  <2>2. CASE key = 0
    <3>1. stray.key # key' /\ stray.key # key BY <1>1, <1>2, <2>1, <2>2
    <3> QED BY <1>1, <1>4a, <2>1, <3>1 DEF StrayFits
  <2>3. CASE key # 0 BY <1>1, <1>4a, <2>3 DEF StrayFits
  <2> QED BY <2>2, <2>3
<1>10. SheetFits' BY <1>1, <1>4a DEF SheetFits, Told, MadeAs, BothWays
<1>11. UsesFit'
  <2>1. <<call'["punch"].key, call'["punch"].dir>> \in past'.uses BY <1>1, <1>4a
  <2>2. stray'.at = "sent" => <<stray'.key, stray'.dir>> \in past'.uses
    BY <1>1, <1>4a DEF UsesFit
  <2>3. ASSUME NEW k \in Keys, made'[k] \in Nat \ {0}
        PROVE  \E dir \in {"in", "out"} : <<k, dir>> \in past'.uses /\ MadeAs(k, dir)'
    <3>1. PICK dir \in {"in", "out"} : <<k, dir>> \in past.uses /\ MadeAs(k, dir)
      BY <1>1, <2>3 DEF UsesFit
    <3> QED BY <1>1, <1>4a, <3>1 DEF MadeAs
  <2> QED BY <2>1, <2>2, <2>3 DEF UsesFit
<1> QED BY <1>5, <1>6, <1>7, <1>8, <1>9, <1>10, <1>11

\* The server decides the key the app holds, if nobody has.
LEMMA ServePunchKeys == ASSUME TypeOK, KeyInv, ServePunch PROVE KeyInv'
<1> USE DEF KeyInv
<1> DEFINE q == call["punch"]
<1>0. /\ q \in Requests /\ q.at = "sent" /\ key = q.key /\ key \in Keys
      /\ changes \in Nat /\ made \in [Keys -> -1 .. changes]
  BY DEF ServePunch, TypeOK, CallsOK, KeyIsHeld
<1>1. PICK v \in {"ok", "rejected"} :
        /\ Decide(q, v)
        /\ call' = [call EXCEPT !["punch"] =
                       [[q EXCEPT !.reply = Answer(q, v)] EXCEPT !.at = "served"]]
  BY DEF ServePunch, Reply
<1>2. UNCHANGED <<key, stray, presses, success, past>> BY DEF ServePunch
<1>3. /\ call'["punch"].at = "served" /\ call'["punch"].reply = Answer(q, v)
      /\ call'["punch"].key = q.key /\ call'["punch"].dir = q.dir
  <2>1. Answer(q, v) \in {"ok", "conflict", "rejected", "401"} BY <1>1 DEF Answer
  <2>2. ASSUME NEW row \in Requests, NEW a \in {"ok", "conflict", "rejected", "401"}
        PROVE  LET p == [[row EXCEPT !.reply = a] EXCEPT !.at = "served"]
               IN  p.at = "served" /\ p.reply = a /\ p.key = row.key /\ p.dir = row.dir
    BY <2>2 DEF Requests
  <2>3. call'["punch"] = [[q EXCEPT !.reply = Answer(q, v)] EXCEPT !.at = "served"]
    BY <1>1 DEF TypeOK, CallsOK
  <2> QED BY <1>0, <2>1, <2>2, <2>3
<1>4. /\ \A k \in Keys : made'[k] = made[k] \/ (Fresh(q) /\ k = q.key)
      /\ ~Fresh(q) => UNCHANGED <<changes, made>>
      /\ Fresh(q) => /\ v = "ok" => made'[q.key] = changes + 1
                     /\ v # "ok" => made'[q.key] = Rejected
                     /\ made[q.key] = Undecided /\ (q.dir = "in") # Present(changes)
  BY <1>0, <1>1, Decided DEF Fresh
<1>5. KeyIsHeld' BY <1>0, <1>2, <1>3 DEF KeyIsHeld
<1>6. KeysAreOld' BY <1>0, <1>2, <1>3, <1>4 DEF KeysAreOld
<1>7. made[q.key] # Undecided => q.key \in past.unanswered
  BY <1>0 DEF SpentKeyIsKnown
<1>7a. <<q.key, q.dir>> \in past.uses BY <1>0 DEF UsesFit
<1>8. CASE Fresh(q)
  <2>1. Answer(q, v) = v BY <1>8 DEF Answer, Fresh
  <2>2. made'[q.key] # Undecided /\ (v = "ok" => MadeAs(q.key, q.dir)')
    <3>1. CASE v = "ok"
      <4>1. made'[q.key] = changes + 1 /\ made'[q.key] \in Nat \ {0} BY <1>0, <1>4, <1>8, <3>1
      <4>2. Present(changes + 1) <=> q.dir = "in"
        <5>1. Present(changes) <=> q.dir # "in" BY <1>4, <1>8 DEF Present
        <5>2. Present(changes + 1) <=> ~Present(changes) BY <1>0 DEF Present
        <5> QED BY <5>1, <5>2
      <4>3. Present(made'[q.key]) <=> q.dir = "in" BY <4>1, <4>2
      <4> QED BY <1>3, <4>1, <4>3 DEF MadeAs, Present
    <3>2. CASE v # "ok" BY <1>4, <1>8, <3>2
    <3> QED BY <3>1, <3>2
  <2>3. AnswerFits' BY <1>0, <1>2, <1>3, <2>1, <2>2 DEF AnswerFits, Told, MadeAs
  <2>4. SpentKeyIsKnown' BY <1>0, <1>1, <1>2, <1>3, <2>1 DEF SpentKeyIsKnown
  <2>5. made[q.key] = Undecided /\ \A k \in Keys :
           made'[k] = made[k] \/ (k = q.key /\ made'[k] # Undecided)
    BY <1>4, <1>8, <2>2
  <2>6. StrayFits' /\ SheetFits' BY <1>0, <1>2, <2>5, DecidedKeeps
  <2>7. UsesFit'
    <3>1. <<call'["punch"].key, call'["punch"].dir>> \in past'.uses BY <1>2, <1>3, <1>7a
    <3>2. stray'.at = "sent" => <<stray'.key, stray'.dir>> \in past'.uses
      BY <1>2 DEF UsesFit
    <3>3. ASSUME NEW k \in Keys, made'[k] \in Nat \ {0}
          PROVE  \E dir \in {"in", "out"} : <<k, dir>> \in past'.uses /\ MadeAs(k, dir)'
      <4>1. CASE made'[k] = made[k]
        <5>1. PICK dir \in {"in", "out"} : <<k, dir>> \in past.uses /\ MadeAs(k, dir)
          BY <3>3, <4>1 DEF UsesFit
        <5> QED BY <1>2, <4>1, <5>1 DEF MadeAs
      <4>2. CASE k = q.key /\ made'[k] # made[k]
        <5>1. v = "ok" BY <1>1, <1>4, <1>8, <3>3, <4>2 DEF Rejected
        <5>2. MadeAs(q.key, q.dir)' BY <2>2, <5>1
        <5>3. made'[k] \in Nat \ {0} /\ Present(made'[k]) = (q.dir = "in")
          BY <1>3, <4>2, <5>2 DEF MadeAs, Present
        <5>4. q.dir \in {"in", "out"} BY <1>0 DEF Requests
        <5>5. <<k, q.dir>> \in past'.uses BY <1>2, <1>7a, <4>2
        <5> HIDE DEF q
        <5> QED BY <5>3, <5>4, <5>5 DEF MadeAs
      <4> QED BY <2>5, <4>1, <4>2
    <3> QED BY <3>1, <3>2, <3>3 DEF UsesFit
  <2> QED BY <1>5, <1>6, <2>3, <2>4, <2>6, <2>7
<1>9. CASE ~Fresh(q)
  <2>1. Answer(q, v) \in {"ok", "rejected"} => made[q.key] # Undecided /\ q.key \in past.unanswered
    BY <1>7, <1>9 DEF Answer
  <2>2. Answer(q, v) = "ok" => Told(q.key, q.dir)
    <3> SUFFICES ASSUME Answer(q, v) = "ok" PROVE Told(q.key, q.dir) OBVIOUS
    <3>1. made[q.key] \in Nat \ {0} /\ q.key \in past.unanswered
      BY <1>0, <1>9, <2>1 DEF Answer, Undecided, Rejected
    <3>2. PICK dir \in {"in", "out"} : <<q.key, dir>> \in past.uses /\ MadeAs(q.key, dir)
      BY <1>0, <3>1 DEF UsesFit
    <3>3. CASE dir = q.dir BY <3>2, <3>3 DEF Told
    <3>4. CASE dir # q.dir
      <4>1. q.dir \in {"in", "out"} BY <1>0 DEF Requests
      <4>2. BothWays(q.key) BY <1>7a, <3>2, <3>4, <4>1 DEF BothWays
      <4> QED BY <3>1, <4>2 DEF Told
    <3> QED BY <3>3, <3>4
  <2>2a. AnswerFits'
    BY <1>0, <1>2, <1>3, <1>4, <1>9, <2>1, <2>2 DEF AnswerFits, Told, MadeAs, BothWays
  <2>2b. UsesFit' BY <1>0, <1>2, <1>3, <1>4, <1>7a, <1>9 DEF UsesFit, MadeAs
  <2>3. SpentKeyIsKnown' BY <1>0, <1>2, <1>4, <1>7, <1>9 DEF SpentKeyIsKnown
  <2>4. StrayFits' BY <1>2, <1>4, <1>9 DEF StrayFits
  <2>5. SheetFits' BY <1>2, <1>4, <1>9 DEF SheetFits, Told, MadeAs, BothWays
  <2> QED BY <1>5, <1>6, <2>2a, <2>2b, <2>3, <2>4, <2>5
<1> QED BY <1>8, <1>9

\* A request given up may still be carried out, for its key if that is undecided.
LEMMA ServeStrayKeys == ASSUME TypeOK, KeyInv, ServeStray PROVE KeyInv'
<1> USE DEF KeyInv
<1>0. /\ stray \in Requests /\ stray.at = "sent" /\ stray.key \in Keys
      /\ stray.key = key => key \in past.unanswered
      /\ <<stray.key, stray.dir>> \in past.uses /\ stray.dir \in {"in", "out"}
      /\ changes \in Nat
  BY DEF ServeStray, TypeOK, CallsOK, StrayFits, UsesFit, Requests
<1>1. PICK v \in {"ok", "rejected"} : Decide(stray, v) BY DEF ServeStray
<1>2. /\ UNCHANGED <<key, presses, success, call>> /\ stray' = Idle
      /\ past'.uses = past.uses /\ past'.unanswered = past.unanswered
      /\ past'.loose = past.loose
  BY DEF ServeStray, Blind, TypeOK, Pasts
<1>3. /\ \A k \in Keys : \/ made'[k] = made[k]
                         \/ k = stray.key /\ made[k] = Undecided /\ made'[k] # Undecided
  <2>1. /\ \A k \in Keys : made'[k] = made[k] \/ (Fresh(stray) /\ k = stray.key)
        /\ Fresh(stray) => made'[stray.key] \in {changes + 1, Rejected}
    BY <1>0, <1>1, Decided
  <2>2. changes + 1 # Undecided BY DEF TypeOK
  <2> QED BY <2>1, <2>2 DEF Fresh
<1>4. KeyIsHeld' BY <1>2 DEF KeyIsHeld
<1>5. KeysAreOld' BY <1>0, <1>2, <1>3 DEF KeysAreOld, Idle
<1>6. AnswerFits'
  <2> SUFFICES ASSUME call["punch"].at = "served" PROVE AnswerFits' BY <1>2 DEF AnswerFits
  <2>1. call["punch"].key \in Keys BY DEF KeyIsHeld
  <2>2. made[call["punch"].key] # Undecided
           => made'[call["punch"].key] = made[call["punch"].key]
    BY <1>3, <2>1
  <2>3. MadeAs(call["punch"].key, call["punch"].dir) => made[call["punch"].key] # Undecided
    BY DEF MadeAs
  <2>4. Told(call["punch"].key, call["punch"].dir)
           => Told(call["punch"].key, call["punch"].dir)'
    BY <1>2, <2>2, <2>3 DEF Told, MadeAs, BothWays
  <2> QED BY <1>2, <2>2, <2>4 DEF AnswerFits
<1>7. SpentKeyIsKnown'
  <2>1. key # 0 => key \in Keys BY DEF TypeOK, AppOK
  <2> QED BY <1>0, <1>2, <1>3, <2>1 DEF SpentKeyIsKnown
<1>8. StrayFits' BY <1>2 DEF StrayFits, Idle
<1>9. SheetFits'
  <2> SUFFICES ASSUME success # NoSuccess
               PROVE  /\ success.key \in Keys
                      /\ \/ MadeAs(success.key, success.dir)'
                         \/ success.key \in past.unanswered /\ BothWays(success.key)
    BY <1>2 DEF SheetFits, Told, BothWays
  <2>1. success.key \in Keys BY DEF SheetFits
  <2>2. CASE success.key \in past.unanswered /\ BothWays(success.key) BY <2>1, <2>2
  <2>3. CASE MadeAs(success.key, success.dir)
    <3>1. made[success.key] # Undecided BY <2>3 DEF MadeAs
    <3>2. made'[success.key] = made[success.key] BY <1>3, <2>1, <3>1
    <3> QED BY <1>2, <2>1, <2>3, <3>2 DEF MadeAs
  <2> QED BY <2>2, <2>3 DEF SheetFits, Told
<1>10. UsesFit'
  <2>1. call'["punch"].at \in {"sent", "served", "waiting"}
          => <<call'["punch"].key, call'["punch"].dir>> \in past'.uses
    BY <1>2 DEF UsesFit
  <2>2. stray'.at # "sent" BY <1>2 DEF Idle
  <2>3. ASSUME NEW k \in Keys, made'[k] \in Nat \ {0}
        PROVE  \E dir \in {"in", "out"} : <<k, dir>> \in past'.uses /\ MadeAs(k, dir)'
    <3>1. CASE made'[k] = made[k]
      <4>1. PICK dir \in {"in", "out"} : <<k, dir>> \in past.uses /\ MadeAs(k, dir)
        BY <2>3, <3>1 DEF UsesFit
      <4> QED BY <1>2, <3>1, <4>1 DEF MadeAs
    <3>2. CASE made'[k] # made[k]
      <4>1. k = stray.key BY <1>3, <3>2
      <4>2. Fresh(stray) /\ made'[k] \in {changes + 1, Rejected}
        BY <1>0, <1>1, <3>2, <4>1, Decided
      <4>3. made'[k] = changes + 1 BY <2>3, <4>2 DEF Rejected
      <4>4. Present(changes + 1) = (stray.dir = "in")
        <5>1. (stray.dir = "in") # Present(changes) BY <4>2 DEF Fresh
        <5>2. Present(changes + 1) <=> ~Present(changes) BY <1>0 DEF Present
        <5>3. Present(changes) \in BOOLEAN /\ Present(changes + 1) \in BOOLEAN BY DEF Present
        <5> QED BY <5>1, <5>2, <5>3
      <4>5. Present(made'[k]) = (stray.dir = "in") BY <4>3, <4>4
      <4>6. <<k, stray.dir>> \in past'.uses /\ stray.dir \in {"in", "out"}
        BY <1>0, <1>2, <4>1
      <4> QED BY <2>3, <4>5, <4>6 DEF MadeAs
    <3> QED BY <3>1, <3>2
  <2> QED BY <2>1, <2>2, <2>3 DEF UsesFit
<1> QED BY <1>4, <1>5, <1>6, <1>7, <1>8, <1>9, <1>10

\* The end of a punch: the key is given up when its fate is known, or on a conflict.
LEMMA EndPunchKeys ==
  ASSUME TypeOK, KeyInv, NEW o, EndPunch(o), presses' = presses,
         \/ o = "lost" /\ call["punch"].at \in {"sent", "served"}
         \/ o = call["punch"].reply /\ call["punch"].at = "served",
         \/ stray' = stray
         \/ o = "lost" /\ call["punch"].at = "sent" /\ stray' = call["punch"]
  PROVE  KeyInv'
<1> USE DEF KeyInv
<1> DEFINE q == call["punch"]
<1>1. /\ q \in Requests /\ q.at \in {"sent", "served"} /\ key = q.key /\ key \in Keys /\ key # 0
  BY DEF TypeOK, CallsOK, KeyIsHeld
<1>2. call'["punch"].at = "idle" BY EndedPunch DEF Idle
<1>3. /\ UNCHANGED made /\ key' \in {0, key}
      /\ o \in {"ok", "conflict", "rejected"} <=> key' = 0
      /\ success' = success
         \/ (o = "ok" /\ success' = [dir |-> q.dir, key |-> q.key])
  <2>1. UNCHANGED made BY DEF EndPunch
  <2>2. key' = IF o \in {"ok", "conflict", "rejected"} THEN 0 ELSE key
    BY DEF EndPunch, Settling
  <2>3. success' = IF o = "ok" /\ signed = "in" THEN [dir |-> q.dir, key |-> q.key]
                                               ELSE success
    BY DEF EndPunch
  <2>4. success' = success \/ (o = "ok" /\ success' = [dir |-> q.dir, key |-> q.key])
    BY <2>3, Zenon
  <2>5. key' \in {0, key} /\ (o \in {"ok", "conflict", "rejected"} <=> key' = 0)
    BY <1>1, <2>2
  <2> QED BY <2>1, <2>4, <2>5
<1>4. /\ o = "lost" => past'.unanswered = past.unanswered \cup {q.key}
      /\ o # "lost" => past'.unanswered = past.unanswered
      /\ o = "conflict" => past'.loose = past.loose \cup {q.key}
      /\ o # "conflict" => past'.loose = past.loose
      /\ past'.uses = past.uses
  <2> DEFINE un == IF o = "lost" THEN past.unanswered \cup {q.key} ELSE past.unanswered
             lo == IF o = "conflict" THEN past.loose \cup {q.key} ELSE past.loose
  <2>1. past' = [past EXCEPT !.unanswered = un, !.loose = lo,
                             !.blind = shown' # changes' /\ (@ \/ o = "lost")]
    BY DEF EndPunch, Blind, TypeOK, Pasts
  <2> HIDE DEF un, lo
  <2>2. past'.unanswered = un /\ past'.loose = lo /\ past'.uses = past.uses
    BY <2>1 DEF TypeOK, Pasts
  <2> QED BY <2>2 DEF un, lo
<1>5. KeyIsHeld' BY <1>2 DEF KeyIsHeld
<1>6. KeysAreOld' BY <1>1, <1>2, <1>3 DEF KeysAreOld
<1>7. AnswerFits' BY <1>2 DEF AnswerFits
<1>8. SpentKeyIsKnown'
  <2> SUFFICES ASSUME key' # 0, made[key] # Undecided
               PROVE  key \in past'.unanswered
    BY <1>3 DEF SpentKeyIsKnown
  <2>1. o \notin {"ok", "conflict", "rejected"} BY <1>3
  <2>2. CASE o = "lost" BY <1>1, <1>4, <2>2
  <2>3. CASE o = q.reply /\ q.at = "served"
    BY <1>1, <1>4, <2>1, <2>3 DEF SpentKeyIsKnown
  <2> QED BY <2>2, <2>3
<1>9. StrayFits'
  <2>1. CASE o = "lost" BY <1>1, <1>3, <1>4, <2>1 DEF StrayFits
  <2>2. CASE o # "lost" /\ o \in {"ok", "rejected"}
    <3>1. made[q.key] # Undecided BY <2>2 DEF AnswerFits
    <3> QED BY <1>1, <1>3, <1>4, <2>2, <3>1 DEF StrayFits
  <2>3. CASE o # "lost" /\ o \notin {"ok", "rejected"}
    BY <1>1, <1>3, <1>4, <2>3 DEF StrayFits
  <2> QED BY <2>1, <2>2, <2>3
<1>10. SheetFits'
  <2>1. CASE success' = success BY <1>3, <1>4, <2>1 DEF SheetFits, Told, MadeAs, BothWays
  <2>2. CASE o = "ok" /\ success' = [dir |-> q.dir, key |-> q.key]
    <3>1. success'.key = q.key /\ success'.dir = q.dir BY <2>2
    <3>2. Told(q.key, q.dir) BY <2>2 DEF AnswerFits
    <3> HIDE DEF q
    <3> QED BY <1>1, <1>3, <1>4, <2>2, <3>1, <3>2
         DEF SheetFits, Told, MadeAs, BothWays
  <2> QED BY <1>3, <2>1, <2>2
<1>11. UsesFit'
  <2>1. <<q.key, q.dir>> \in past.uses BY <1>1 DEF UsesFit
  <2> QED BY <1>2, <1>3, <1>4, <2>1 DEF UsesFit, MadeAs
<1> QED BY <1>5, <1>6, <1>7, <1>8, <1>9, <1>10, <1>11

\* With the page the app forgets its key; the request it carried may still arrive.
LEMMA ColdStartKeys == ASSUME TypeOK, KeyInv, ColdStart PROVE KeyInv'
<1> USE DEF KeyInv
<1>1. /\ UNCHANGED <<made, presses>> /\ key' = 0 /\ success' = NoSuccess
      /\ call'["punch"] = Idle
      /\ stray' = IF call["punch"].at = "sent" THEN call["punch"] ELSE stray
  BY DEF ColdStart, Event
<1>2. /\ past'.uses = past.uses /\ past'.unanswered = past.unanswered
      /\ past'.loose = IF key # 0 THEN past.loose \cup {key} ELSE past.loose
  <2> DEFINE lo == IF key # 0 THEN past.loose \cup {key} ELSE past.loose
  <2>1. \E e : past' = [past EXCEPT !.excuses = e, !.loose = lo, !.blind = FALSE]
    BY DEF ColdStart
  <2> HIDE DEF lo
  <2>2. /\ past'.uses = past.uses /\ past'.unanswered = past.unanswered
        /\ past'.loose = lo
    BY <2>1 DEF TypeOK, Pasts
  <2> QED BY <2>2 DEF lo
<1>3. Idle.at = "idle" BY DEF Idle
<1>4. key # 0 => key \in Keys BY DEF TypeOK, AppOK
<1>5. KeyIsHeld' BY <1>1, <1>3 DEF KeyIsHeld
<1>6. KeysAreOld' BY <1>1, <1>3 DEF KeysAreOld, KeyIsHeld
<1>7. AnswerFits' BY <1>1, <1>3 DEF AnswerFits
<1>8. SpentKeyIsKnown' BY <1>1 DEF SpentKeyIsKnown
<1>9. StrayFits'
  <2>1. CASE call["punch"].at = "sent"
    BY <1>1, <1>2, <1>4, <2>1 DEF StrayFits, KeyIsHeld
  <2>2. CASE call["punch"].at # "sent" BY <1>1, <1>2, <1>4, <2>2 DEF StrayFits
  <2> QED BY <2>1, <2>2
<1>10. SheetFits' BY <1>1 DEF SheetFits
<1>11. UsesFit'
  <2>1. call["punch"].at = "sent" => <<call["punch"].key, call["punch"].dir>> \in past.uses
    BY DEF UsesFit
  <2> QED BY <1>1, <1>2, <1>3, <2>1 DEF UsesFit, MadeAs
<1> QED BY <1>5, <1>6, <1>7, <1>8, <1>9, <1>10, <1>11

\* Whoever waited for a refresh that failed has an error, and the sheet is closed.
LEMMA FailRefreshKeys ==
  ASSUME TypeOK, KeyInv, FailRefresh, UNCHANGED presses,
         past'.uses = past.uses, past'.unanswered = past.unanswered,
         past'.loose = past.loose
  PROVE  KeyInv'
<1>1. UNCHANGED <<made, key, stray>> /\ success' = NoSuccess BY DEF FailRefresh
<1>2. call'["punch"] = IF call["punch"].at = "waiting" THEN Idle ELSE call["punch"]
  BY DEF FailRefresh, WaitersFail
<1>3. CASE call["punch"].at # "waiting" BY <1>1, <1>2, <1>3, KeyFrame
<1>4. CASE call["punch"].at = "waiting"
  <2>1. call'["punch"].at = "idle" BY <1>2, <1>4 DEF Idle
  <2> QED BY <1>1, <1>4, <2>1, PunchGoesOn
<1> QED BY <1>3, <1>4

\* Other requests of the app are not the punch.
LEMMA OtherRequests ==
  ASSUME TypeOK, Next,
         \/ AskAgain \/ SignOut \/ ServeLogout
         \/ \E c \in Reloads : ServeReload(c)
         \/ \E c \in Reloads : \E o : EndReload(c, o)
         \/ \E o : EndLogout(o)
  PROVE  call'["punch"] = call["punch"]
<1>1. call \in [Calls -> Requests] /\ access \in Nat BY DEF TypeOK, CallsOK, TokensOK
<1>2. CASE AskAgain
  <2>1. PICK c \in Reloads : call' = [call EXCEPT ![c] = Sent(Idle)]
    BY <1>1, <1>2, ReloadTakesAPlace DEF AskAgain
  <2> QED BY <1>1, <2>1
<1>3. CASE SignOut BY <1>1, <1>3 DEF SignOut
<1>4. CASE ServeLogout BY <1>1, <1>4 DEF ServeLogout, Reply
<1>5. CASE \E c \in Reloads : ServeReload(c) BY <1>1, <1>5 DEF ServeReload, Reply
<1>6. CASE \E c \in Reloads : \E o : EndReload(c, o) BY <1>1, <1>6 DEF EndReload, Ended
<1>7. CASE \E o : EndLogout(o) BY <1>1, <1>7 DEF EndLogout, Ended
<1> QED BY <1>2, <1>3, <1>4, <1>5, <1>6, <1>7

\* What the history says of keys changes only where a key is given up.
LEMMA KeyHistory ==
  ASSUME TypeOK, NEW p, NEW c,
         \/ past' = past \/ past' = Excuse(p) \/ Blind(past, c) \/ Blind(Excuse(p), c)
  PROVE  /\ past'.uses = past.uses /\ past'.unanswered = past.unanswered
         /\ past'.loose = past.loose
  BY DEF TypeOK, Pasts, Excuse, Blind

LEMMA KeySteps ==
  ASSUME TypeOK, KeyInv, Next
  PROVE  KeyInv'
<1>1. CASE Press BY <1>1, PressKeys
<1>2. CASE CaptureFails
  <2>1. call'["punch"].at = "idle" BY <1>2 DEF CaptureFails, Ended, TypeOK, CallsOK, Idle
  <2>2. UNCHANGED <<made, key, stray, presses, success, past>> /\ call["punch"].at # "served"
    BY <1>2 DEF CaptureFails
  <2> QED BY <2>1, <2>2, PunchGoesOn
<1>3. CASE SendPunch BY <1>3, SendPunchKeys
<1>4. CASE AskAgain \/ SignOut
  <2>1. UNCHANGED <<made, key, stray, presses, success>> BY <1>4 DEF AskAgain, SignOut, Event
  <2>2. past' = past \/ past' = Excuse({"signout"}) BY <1>4 DEF AskAgain, SignOut
  <2> QED BY <1>4, <2>1, <2>2, OtherRequests, KeyHistory, KeyFrame
<1>5. ASSUME NEW c \in Calls, Serve(c) PROVE KeyInv'
  <2>1. CASE c = "punch" /\ ServePunch BY <2>1, ServePunchKeys
  <2>2. CASE c \in Reloads /\ ServeReload(c)
    <3>1. UNCHANGED <<made, key, stray, presses, success, past>> BY <2>2 DEF ServeReload
    <3> QED BY <2>2, <3>1, OtherRequests, KeyFrame
  <2>3. CASE c = "logout" /\ ServeLogout
    <3>1. UNCHANGED <<made, key, stray, presses, success, past>> BY <2>3 DEF ServeLogout
    <3> QED BY <2>3, <3>1, OtherRequests, KeyFrame
  <2> QED BY <1>5, <2>1, <2>2, <2>3 DEF Serve
<1>6. ASSUME NEW c \in Reloads, NEW o, EndReload(c, o), UNCHANGED <<stray, presses>>
      PROVE  KeyInv'
  <2>1. UNCHANGED <<made, key, success>> BY <1>6 DEF EndReload
  <2>2. \E b : Blind(past, b) BY <1>6 DEF EndReload
  <2> QED BY <1>6, <2>1, <2>2, OtherRequests, KeyHistory, KeyFrame
<1>7. ASSUME NEW o, EndLogout(o), UNCHANGED <<stray, presses>> PROVE KeyInv'
  <2>1. UNCHANGED <<made, key>> /\ success' = NoSuccess BY <1>7 DEF EndLogout
  <2>2. \E p, b : Blind(Excuse(p), b) BY <1>7 DEF EndLogout
  <2> QED BY <1>7, <2>1, <2>2, OtherRequests, KeyHistory, KeyFrame
<1>8. ASSUME NEW c \in Calls, Await(c), call[c].at = "served", UNCHANGED <<stray, presses>>
      PROVE  KeyInv'
  <2>1. UNCHANGED <<made, key, success>> BY <1>8 DEF Await
  <2>2. past' = past \/ past' = Excuse(Overlap("app")) BY <1>8 DEF Await
  <2>3. /\ past'.uses = past.uses /\ past'.unanswered = past.unanswered
        /\ past'.loose = past.loose
    BY <2>2, KeyHistory
  <2>4. CASE c # "punch"
    <3>1. call'["punch"] = call["punch"] BY <1>8, <2>4 DEF Await, TypeOK, CallsOK
    <3> QED BY <1>8, <2>1, <2>3, <3>1, KeyFrame
  <2>5. CASE c = "punch"
    <3>1. /\ call["punch"].at = "served" /\ call["punch"].reply = "401"
          /\ call["punch"] \in Requests
          /\ call'["punch"] = [call["punch"] EXCEPT !.at = "waiting"]
      BY <1>8, <2>5 DEF Await, TypeOK, CallsOK
    <3>2. /\ call'["punch"].at = "waiting" /\ call'["punch"].key = call["punch"].key
          /\ call'["punch"].dir = call["punch"].dir
      BY <3>1 DEF Requests
    <3> QED BY <1>8, <2>1, <2>3, <3>1, <3>2, PunchGoesOn
  <2> QED BY <2>4, <2>5
<1>9. ASSUME NEW c \in Calls, Deliver(c) PROVE KeyInv'
  <2>1. call[c].at = "served" /\ UNCHANGED <<stray, presses>> BY <1>9 DEF Deliver
  <2>2. CASE c = "punch" /\ EndPunch(call[c].reply) BY <2>1, <2>2, EndPunchKeys
  <2> QED BY <1>6, <1>7, <1>8, <1>9, <2>1, <2>2 DEF Deliver, End
<1>10. ASSUME NEW c \in Calls, Lose(c) PROVE KeyInv'
  <2>1. /\ call[c].at \in {"sent", "served"} /\ presses' = presses
        /\ stray' = IF c = "punch" /\ call[c].at = "sent" THEN call[c] ELSE stray
    BY <1>10 DEF Lose, Event
  <2>2. CASE c = "punch" /\ EndPunch("lost") BY <2>1, <2>2, EndPunchKeys
  <2>3. CASE c \in Reloads /\ EndReload(c, "lost") BY <1>6, <2>1, <2>3
  <2>4. CASE c = "logout" /\ EndLogout("lost") BY <1>7, <2>1, <2>4
  <2> QED BY <1>10, <2>2, <2>3, <2>4 DEF Lose, End
<1>11. CASE ServeStray BY <1>11, ServeStrayKeys
<1>12. CASE ExpireAccess \/ ChangeElsewhere \/ OpenTab \/ TabRestored
            \/ \E t \in Tabs : ServeRefresh(t)
  <2>1. UNCHANGED <<made, key, stray, presses, success, call>>
    BY <1>12 DEF ExpireAccess, ChangeElsewhere, OpenTab, TabRestored, ServeRefresh, Event
  <2>2. past' = past \/ past' = Excuse(Overlap("tab")) \/ Blind(past, TRUE)
    BY <1>12 DEF ExpireAccess, ChangeElsewhere, OpenTab, TabRestored, ServeRefresh
  <2>3. /\ past'.uses = past.uses /\ past'.unanswered = past.unanswered
        /\ past'.loose = past.loose
    BY <2>2, KeyHistory
  <2> QED BY <2>1, <2>3, KeyFrame
<1>13. CASE DeliverRefresh
  <2>1. CASE refresh["app"].reply = 0
    <3>1. FailRefresh /\ UNCHANGED <<presses, past>> BY <1>13, <2>1 DEF DeliverRefresh
    <3> QED BY <3>1, FailRefreshKeys
  <2>2. CASE refresh["app"].reply # 0
    <3>1. UNCHANGED <<made, key, stray, presses, success, past>>
      BY <1>13, <2>2 DEF DeliverRefresh
    <3>2. \/ call'["punch"] = call["punch"]
          \/ /\ call["punch"].at = "waiting" /\ call'["punch"].at = "sent"
             /\ call'["punch"].key = call["punch"].key
             /\ call'["punch"].dir = call["punch"].dir
      BY <1>13, <2>2, DeliveredRefresh
    <3> QED BY <3>1, <3>2, KeyFrame, PunchGoesOn
  <2> QED BY <2>1, <2>2
<1>14. CASE LoseRefresh
  <2>1. FailRefresh /\ past' = Excuse(Costs("app")) /\ presses' = presses
    BY <1>14 DEF LoseRefresh, Event
  <2> QED BY <2>1, KeyHistory, FailRefreshKeys
<1>15. CASE ColdStart BY <1>15, ColdStartKeys
<1> QED
  BY <1>1, <1>2, <1>3, <1>4, <1>5, <1>9, <1>10, <1>11, <1>12, <1>13, <1>14, <1>15 DEF Next

-----------------------------------------------------------------------------
(* The session.  Until something happens that may cost it, the cookie and  *)
(* the one refresh that may be on its way hold the live token; after a      *)
(* sign-out that met no refresh they hold none.                             *)

LEMMA SessionFrame ==
  ASSUME TypeOK, SessionInv, UNCHANGED <<live, cookie, refresh>>,
         call'["logout"] = call["logout"], past'.excuses = past.excuses,
         signed' = signed
  PROVE  SessionInv'
<1> USE DEF SessionInv
<1>1. RefreshFits' BY DEF RefreshFits
<1>2. OneRefresh' BY DEF OneRefresh
<1>3. LogoutFits' BY DEF LogoutFits
<1>4. NothingToRestore' BY DEF NothingToRestore
<1> QED BY <1>1, <1>2, <1>3, <1>4

\* Other requests of the app are not the sign-out.
LEMMA NotLogout ==
  ASSUME TypeOK, Next,
         \/ Press \/ CaptureFails \/ SendPunch \/ AskAgain \/ ServePunch
         \/ \E c \in Reloads : ServeReload(c)
         \/ \E c \in Reloads : \E o : EndReload(c, o)
         \/ \E o : EndPunch(o)
         \/ \E c \in Calls \ {"logout"} : Await(c)
  PROVE  call'["logout"] = call["logout"]
<1>1. call \in [Calls -> Requests] /\ access \in Nat BY DEF TypeOK, CallsOK, TokensOK
<1>2. CASE Press \/ CaptureFails \/ SendPunch \/ ServePunch
  BY <1>1, <1>2 DEF Press, CaptureFails, SendPunch, ServePunch, Reply, Ended
<1>3. CASE AskAgain
  <2>1. PICK c \in Reloads : call' = [call EXCEPT ![c] = Sent(Idle)]
    BY <1>1, <1>3, ReloadTakesAPlace DEF AskAgain
  <2> QED BY <1>1, <2>1
<1>4. CASE \E c \in Reloads : ServeReload(c) BY <1>1, <1>4 DEF ServeReload, Reply
<1>5. CASE \E c \in Reloads : \E o : EndReload(c, o) BY <1>1, <1>5 DEF EndReload, Ended
<1>6. CASE \E o : EndPunch(o) BY <1>6, EndedPunch
<1>7. CASE \E c \in Calls \ {"logout"} : Await(c) BY <1>1, <1>7 DEF Await
<1> QED BY <1>2, <1>3, <1>4, <1>5, <1>6, <1>7

\* What excuses the loss of a session, in the steps that note something else.
LEMMA Excuses0 ==
  ASSUME TypeOK, NEW p, NEW c
  PROVE  /\ Blind(past, c) => past'.excuses = past.excuses
         /\ past' = Excuse(p) => past'.excuses = past.excuses \cup p
         /\ Blind(Excuse(p), c) => past'.excuses = past.excuses \cup p
  BY DEF TypeOK, Pasts, Excuse, Blind

\* A refresh is asked for with the cookie when no other is on its way.
LEMMA AskedSession ==
  ASSUME TypeOK, SessionInv, NEW t \in Tabs, UNCHANGED <<live, cookie>>, signed' = signed,
         refresh[t].at = "none", refresh' = [refresh EXCEPT ![t] = Asked(t)],
         past'.excuses = past.excuses \cup Overlap(t), call'["logout"] = call["logout"]
  PROVE  SessionInv'
<1> USE DEF SessionInv
<1>1. /\ refresh'[t].at = "sent" /\ refresh'[t].token = cookie /\ refresh'[t].reply = 0
      /\ \A u \in Tabs \ {t} : refresh'[u] = refresh[u]
  BY DEF Asked, TypeOK, TokensOK
<1>2. RefreshFits' BY <1>1 DEF RefreshFits
<1>3. OneRefresh'
  <2> SUFFICES ASSUME past'.excuses = {} PROVE OneRefresh' BY DEF OneRefresh
  <2>1. past.excuses = {} /\ Overlap(t) = {} OBVIOUS
  <2>2. \A u \in Tabs \ {t} : refresh[u].at = "none" BY <2>1 DEF Overlap
  <2> QED BY <1>1, <2>1, <2>2 DEF OneRefresh
<1>4. LogoutFits' BY DEF LogoutFits
<1>5. NothingToRestore'
  <2>1. Overlap(t) \subseteq {"two tabs"} BY DEF Overlap
  <2>2. "signout" \in past'.excuses => "signout" \in past.excuses BY <2>1
  <2> QED BY <1>1, <2>2 DEF NothingToRestore
<1> QED BY <1>2, <1>3, <1>4, <1>5

LEMMA ServeRefreshSession ==
  ASSUME TypeOK, SessionInv, NEW t \in Tabs, ServeRefresh(t)
  PROVE  SessionInv'
<1> USE DEF SessionInv
<1> DEFINE good == refresh[t].token # 0 /\ refresh[t].token = live
<1>1. /\ refresh[t].at = "sent" /\ UNCHANGED <<cookie, call, signed, past>>
      /\ live' = IF good THEN issued + 1 ELSE IF refresh[t].token = 0 THEN live ELSE 0
      /\ refresh' = [refresh EXCEPT ![t].at = "served",
                                    ![t].reply = IF good THEN issued + 1 ELSE 0]
  BY DEF ServeRefresh
<1>2. /\ refresh'[t].at = "served"
      /\ refresh'[t].reply = IF good THEN issued + 1 ELSE 0
      /\ \A u \in Tabs \ {t} : refresh'[u] = refresh[u]
  <2>1. refresh[t] \in RefreshRows(issued) BY DEF TypeOK, TokensOK
  <2> HIDE DEF good
  <2> QED BY <1>1, <2>1 DEF TypeOK, TokensOK, RefreshRows
<1>3. issued \in Nat BY DEF TypeOK, TokensOK
<1>4. RefreshFits' BY <1>2 DEF RefreshFits
<1>5. OneRefresh'
  <2> SUFFICES ASSUME past.excuses = {} PROVE OneRefresh' BY <1>1 DEF OneRefresh
  <2>1. good BY <1>1 DEF OneRefresh
  <2>2. live' = issued + 1 /\ live' # 0 BY <1>1, <1>3, <2>1
  <2>3. \A u \in Tabs \ {t} : refresh[u].at = "none" BY <1>1 DEF OneRefresh
  <2> QED BY <1>1, <1>2, <2>1, <2>2, <2>3 DEF OneRefresh
<1>6. LogoutFits' BY <1>1 DEF LogoutFits
<1>7. NothingToRestore' BY <1>1, <1>2 DEF NothingToRestore
<1> QED BY <1>4, <1>5, <1>6, <1>7

\* An answer to a refresh sets the cookie; nothing else is on its way then.
LEMMA AnsweredSession ==
  ASSUME TypeOK, SessionInv, NEW t \in Tabs, refresh[t].at # "none", UNCHANGED live,
         refresh' = [refresh EXCEPT ![t] = NoRefresh],
         \/ refresh[t].at = "served" /\ refresh[t].reply # 0 /\ cookie' = refresh[t].reply
         \/ /\ UNCHANGED cookie
            /\ refresh[t].reply = 0 \/ past'.excuses # {},
         past'.excuses = past.excuses \/ past'.excuses = past.excuses \cup {"refresh lost"},
         \/ signed' = signed \/ signed' = "out"
         \/ refresh[t].at = "served" /\ refresh[t].reply # 0,
         call'["logout"] = call["logout"]
  PROVE  SessionInv'
<1> USE DEF SessionInv
<1>1. /\ refresh'[t].at = "none" /\ refresh'[t].reply = 0
      /\ \A u \in Tabs \ {t} : refresh'[u] = refresh[u]
  BY DEF NoRefresh, TypeOK, TokensOK
<1>2. RefreshFits' BY <1>1 DEF RefreshFits
<1>3. OneRefresh'
  <2> SUFFICES ASSUME past'.excuses = {} PROVE OneRefresh' BY DEF OneRefresh
  <2>1. past.excuses = {} OBVIOUS
  <2>2. \A u \in Tabs \ {t} : refresh[u].at = "none" BY <2>1 DEF OneRefresh
  <2>3. live # 0 /\ (refresh[t].at = "served" => refresh[t].reply = live)
        /\ (refresh[t].at = "sent" => cookie = live)
    BY <2>1 DEF OneRefresh
  <2>4. refresh[t].at \in {"sent", "served"} BY DEF TypeOK, TokensOK, RefreshRows
  <2>5. cookie' = live
    <3>1. CASE refresh[t].at = "served" /\ refresh[t].reply # 0 /\ cookie' = refresh[t].reply
      BY <2>3, <3>1
    <3>2. CASE UNCHANGED cookie /\ refresh[t].reply = 0 BY <2>3, <2>4, <3>2
    <3> QED BY <3>1, <3>2
  <2> QED BY <1>1, <2>1, <2>2, <2>3, <2>5 DEF OneRefresh
<1>4. LogoutFits' BY DEF LogoutFits
<1>5. NothingToRestore'
  <2> SUFFICES ASSUME "signout" \in past'.excuses,
                      past'.excuses \cap {"logout lost", "refresh during logout"} = {},
                      call'["logout"].at = "idle"
               PROVE  /\ signed' # "in" /\ cookie' = 0
                      /\ \A u \in Tabs :
                            /\ refresh'[u].at = "sent" => refresh'[u].token = 0
                            /\ refresh'[u].at = "served" => refresh'[u].reply = 0
    BY DEF NothingToRestore
  <2>1. /\ "signout" \in past.excuses
        /\ past.excuses \cap {"logout lost", "refresh during logout"} = {}
    <3>1. /\ past.excuses \subseteq past'.excuses
          /\ "signout" \in past.excuses \/ "signout" \in {"refresh lost"}
      OBVIOUS
    <3> QED BY <3>1
  <2>2. /\ signed # "in" /\ cookie = 0
        /\ \A u \in Tabs : /\ refresh[u].at = "sent" => refresh[u].token = 0
                           /\ refresh[u].at = "served" => refresh[u].reply = 0
    BY <2>1 DEF NothingToRestore
  <2> QED BY <1>1, <2>2, ZenonT(40)
<1> QED BY <1>2, <1>3, <1>4, <1>5

LogoutNeverWaits == call["logout"].at # "waiting"

\* A page that starts again asks for a refresh with whatever the cookie is.
LEMMA ColdStartSession == ASSUME TypeOK, SessionInv, ColdStart PROVE SessionInv'
<1> USE DEF SessionInv
<1> DEFINE noted == Costs("app") \cup Overlap("app")
                      \cup (IF call["logout"].at # "idle" THEN {"logout lost"} ELSE {})
<1>1. /\ UNCHANGED live /\ cookie' \in {cookie} \cup (IF refresh["app"].reply # 0
                                                     THEN {refresh["app"].reply} ELSE {})
      /\ signed' = "booting" /\ call'["logout"] = Idle
      /\ refresh' = [refresh EXCEPT !["app"] = Asked("app")]
  BY DEF ColdStart, CookiesAfterLoss
<1>2. /\ refresh'["app"].at = "sent" /\ refresh'["app"].token = cookie'
      /\ refresh'["app"].reply = 0 /\ refresh'["tab"] = refresh["tab"]
  BY <1>1 DEF Asked, TypeOK, TokensOK
<1>3. past'.excuses = past.excuses \cup noted
  <2> DEFINE ex == past.excuses \cup noted
             lo == IF key # 0 THEN past.loose \cup {key} ELSE past.loose
  <2>1. past' = [past EXCEPT !.excuses = ex, !.loose = lo, !.blind = FALSE]
    BY DEF ColdStart
  <2> HIDE DEF ex, lo, noted
  <2>2. past'.excuses = ex BY <2>1 DEF TypeOK, Pasts
  <2> QED BY <2>2 DEF ex
<1>4. RefreshFits' BY <1>2 DEF RefreshFits
<1>5. LogoutFits' BY <1>1 DEF LogoutFits, Idle
<1>6. OneRefresh'
  <2> SUFFICES ASSUME past'.excuses = {} PROVE OneRefresh' BY DEF OneRefresh
  <2>1. past.excuses = {} /\ Costs("app") = {} /\ Overlap("app") = {} BY <1>3
  <2>2. refresh["tab"].at = "none" BY <2>1 DEF Overlap
  <2>3. live # 0 /\ (refresh["app"].at = "served" => refresh["app"].reply = live)
        /\ (refresh["app"].at # "served" => refresh["app"].reply = 0 /\ cookie = live)
    <3>1. refresh["app"].at \in {"none", "sent", "served"}
      BY DEF TypeOK, TokensOK, RefreshRows
    <3> QED BY <2>1, <2>2, <3>1 DEF OneRefresh, RefreshFits
  <2>4. cookie' = live
    <3>1. CASE refresh["app"].at = "served"
      <4>1. refresh["app"].reply # 0 => cookie' = refresh["app"].reply BY <2>1 DEF Costs
      <4> QED BY <2>3, <3>1, <4>1
    <3>2. CASE refresh["app"].at # "served" BY <1>1, <2>3, <3>2
    <3> QED BY <3>1, <3>2
  <2> QED BY <1>1, <1>2, <2>2, <2>3, <2>4 DEF OneRefresh, Idle
<1>7. NothingToRestore'
  <2> SUFFICES ASSUME "signout" \in past'.excuses,
                      past'.excuses \cap {"logout lost", "refresh during logout"} = {}
               PROVE  cookie' = 0 /\ \A u \in Tabs :
                            /\ refresh'[u].at = "sent" => refresh'[u].token = 0
                            /\ refresh'[u].at = "served" => refresh'[u].reply = 0
    BY <1>1 DEF NothingToRestore
  <2>1. "signout" \in past.excuses /\ call["logout"].at = "idle"
        /\ past.excuses \cap {"logout lost", "refresh during logout"} = {}
    <3>1. noted \subseteq {"refresh lost", "two tabs", "logout lost"}
      BY DEF Costs, Overlap
    <3>2. "signout" \in past.excuses BY <1>3, <3>1
    <3>3. past.excuses \subseteq past'.excuses /\ noted \subseteq past'.excuses BY <1>3
    <3>4. "logout lost" \notin noted BY <3>3
    <3> QED BY <3>2, <3>3, <3>4
  <2>2. /\ cookie = 0
        /\ \A u \in Tabs : /\ refresh[u].at = "sent" => refresh[u].token = 0
                           /\ refresh[u].at = "served" => refresh[u].reply = 0
    BY <2>1 DEF NothingToRestore
  <2>3. refresh["app"].reply = 0
    <3>1. refresh["app"].at \in {"none", "sent", "served"}
      BY DEF TypeOK, TokensOK, RefreshRows
    <3> QED BY <2>2, <3>1 DEF RefreshFits
  <2>4. cookie' = 0
    <3> HIDE DEF noted
    <3> QED BY <1>1, <2>2, <2>3
  <2> HIDE DEF noted
  <2>5. refresh'["app"].token = 0 /\ refresh'["app"].at # "served" BY <1>2, <2>4
  <2>6. /\ refresh'["tab"].at = "sent" => refresh'["tab"].token = 0
        /\ refresh'["tab"].at = "served" => refresh'["tab"].reply = 0
    <3>1. refresh'["tab"] = refresh["tab"] BY <1>2
    <3> QED BY <2>2, <3>1
  <2>7. ASSUME NEW u \in Tabs PROVE /\ refresh'[u].at = "sent" => refresh'[u].token = 0
                                    /\ refresh'[u].at = "served" => refresh'[u].reply = 0
    <3>1. CASE u = "app" BY <2>5, <3>1
    <3>2. CASE u = "tab" BY <2>6, <3>2
    <3> QED BY <3>1, <3>2
  <2> QED BY <2>4, <2>7
<1> QED BY <1>4, <1>5, <1>6, <1>7

\* A sign-out whose answer arrives while no refresh is on its way clears the cookie.
LEMMA EndLogoutSession ==
  ASSUME TypeOK, SessionInv, NEW o, EndLogout(o), call["logout"].at # "idle",
         o = "ok" \/ o = "lost"
  PROVE  SessionInv'
<1> USE DEF SessionInv
<1> DEFINE lost == IF o = "lost" THEN {"logout lost"} ELSE {}
           during == IF \E t \in Tabs : refresh[t].at # "none"
                     THEN {"refresh during logout"} ELSE {}
<1>1. /\ UNCHANGED <<live, refresh>> /\ signed' = "out" /\ call'["logout"] = Idle
      /\ o = "ok" => cookie' = 0
  BY DEF EndLogout, Ended, TypeOK, CallsOK
<1>2. past'.excuses = past.excuses \cup (lost \cup during)
  <2>1. Blind(Excuse(lost \cup during), FALSE) BY DEF EndLogout
  <2> HIDE DEF lost, during
  <2> QED BY <2>1, Excuses0
<1>3. past.excuses # {} BY DEF OneRefresh
<1>4. RefreshFits' BY <1>1 DEF RefreshFits
<1>5. LogoutFits' BY <1>1 DEF LogoutFits, Idle
<1>6. OneRefresh' BY <1>2, <1>3 DEF OneRefresh
<1>7. NothingToRestore'
  <2> SUFFICES ASSUME past'.excuses \cap {"logout lost", "refresh during logout"} = {}
               PROVE  cookie' = 0 /\ \A t \in Tabs : refresh'[t].at = "none"
    BY <1>1 DEF NothingToRestore
  <2>1. lost \subseteq past'.excuses /\ during \subseteq past'.excuses BY <1>2
  <2>2. o # "lost" BY <2>1
  <2>3. \A t \in Tabs : refresh[t].at = "none" BY <2>1
  <2> QED BY <1>1, <2>2, <2>3
<1> QED BY <1>4, <1>5, <1>6, <1>7

LEMMA SessionSteps ==
  ASSUME TypeOK, SessionInv, Next
  PROVE  SessionInv'
<1>1. CASE Press \/ CaptureFails \/ SendPunch \/ AskAgain
  <2>1. UNCHANGED <<live, cookie, refresh, signed>> /\ past'.excuses = past.excuses
    BY <1>1 DEF Press, CaptureFails, SendPunch, AskAgain, TypeOK, Pasts
  <2> QED BY <1>1, <2>1, NotLogout, SessionFrame
<1>2. CASE SignOut
  <2>1. /\ UNCHANGED <<live, cookie, refresh, signed>> /\ past' = Excuse({"signout"})
        /\ call'["logout"].at = "sent"
    <3>a. cookie \in Nat /\ access \in Nat BY DEF TypeOK, TokensOK
    <3>1. [Idle EXCEPT !.token = cookie] \in Requests /\ access \in Nat
      <4>1. Idle \in Requests BY IdleIsRequest
      <4> QED BY <3>a, <4>1 DEF Requests
    <3>2. call'["logout"] = Sent([Idle EXCEPT !.token = cookie])
      BY <1>2 DEF SignOut, TypeOK, CallsOK
    <3> QED BY <1>2, <3>1, <3>2, SentIsRequest DEF SignOut
  <2>2. past'.excuses = past.excuses \cup {"signout"} BY <2>1, Excuses0
  <2> QED BY <2>1, <2>2
          DEF SessionInv, RefreshFits, OneRefresh, LogoutFits, NothingToRestore
<1>3. ASSUME NEW c \in Calls, Serve(c) PROVE SessionInv'
  <2>1. CASE c = "punch" /\ ServePunch
    <3>1. UNCHANGED <<live, cookie, refresh, past, signed>> BY <2>1 DEF ServePunch
    <3> QED BY <2>1, <3>1, NotLogout, SessionFrame
  <2>2. CASE c \in Reloads /\ ServeReload(c)
    <3>1. UNCHANGED <<live, cookie, refresh, past, signed>> BY <2>2 DEF ServeReload
    <3> QED BY <2>2, <3>1, NotLogout, SessionFrame
  <2>3. CASE c = "logout" /\ ServeLogout
    <3>1. UNCHANGED <<cookie, refresh, past, signed>> /\ call["logout"].at = "sent"
      BY <2>3 DEF ServeLogout
    <3>2. call'["logout"].at = "served" /\ call'["logout"].reply = "ok"
      <4>1. call["logout"] \in Requests BY DEF TypeOK, CallsOK
      <4>2. call'["logout"] = [[call["logout"] EXCEPT !.reply = "ok"] EXCEPT !.at = "served"]
        BY <2>3 DEF ServeLogout, Reply, TypeOK, CallsOK
      <4> QED BY <4>1, <4>2 DEF Requests
    <3> QED BY <3>1, <3>2
            DEF SessionInv, RefreshFits, OneRefresh, LogoutFits, NothingToRestore
  <2> QED BY <1>3, <2>1, <2>2, <2>3 DEF Serve
<1>4. ASSUME NEW o, EndPunch(o) PROVE SessionInv'
  <2>1. UNCHANGED <<live, cookie, refresh, signed>> BY <1>4 DEF EndPunch
  <2>2. past'.excuses = past.excuses
    <3> DEFINE un == IF o = "lost" THEN past.unanswered \cup {call["punch"].key}
                                   ELSE past.unanswered
               lo == IF o = "conflict" THEN past.loose \cup {call["punch"].key}
                                       ELSE past.loose
    <3>1. past' = [past EXCEPT !.unanswered = un, !.loose = lo,
                               !.blind = shown' # changes' /\ (@ \/ o = "lost")]
      BY <1>4 DEF EndPunch, Blind, TypeOK, Pasts
    <3> HIDE DEF un, lo
    <3> QED BY <3>1 DEF TypeOK, Pasts
  <2> QED BY <1>4, <2>1, <2>2, NotLogout, SessionFrame
<1>5. ASSUME NEW c \in Reloads, NEW o, EndReload(c, o) PROVE SessionInv'
  <2>1. UNCHANGED <<live, cookie, refresh, signed>> /\ \E b : Blind(past, b)
    BY <1>5 DEF EndReload
  <2> QED BY <1>5, <2>1, Excuses0, NotLogout, SessionFrame
<1>6. ASSUME NEW c \in Calls, Await(c), call[c].at = "served" PROVE SessionInv'
  <2>1. c # "logout" BY <1>6 DEF SessionInv, LogoutFits, Await
  <2>2. call'["logout"] = call["logout"] BY <1>6, <2>1, NotLogout
  <2>3. UNCHANGED <<live, cookie, signed>> BY <1>6 DEF Await
  <2>4. CASE refresh["app"].at = "none"
    <3>1. refresh' = [refresh EXCEPT !["app"] = Asked("app")] BY <1>6, <2>4 DEF Await, Shared
    <3>2. past'.excuses = past.excuses \cup Overlap("app")
      BY <1>6, <2>4, Excuses0 DEF Await
    <3> QED BY <2>2, <2>3, <2>4, <3>1, <3>2, AskedSession
  <2>5. CASE refresh["app"].at # "none"
    <3>1. UNCHANGED <<refresh, past>> BY <1>6, <2>5 DEF Await, Shared
    <3> QED BY <2>2, <2>3, <3>1, SessionFrame
  <2> QED BY <2>4, <2>5
<1>7. ASSUME NEW c \in Calls, Deliver(c) PROVE SessionInv'
  <2>1. call[c].at = "served" BY <1>7 DEF Deliver
  <2>2. CASE c = "logout" /\ EndLogout(call[c].reply)
    BY <2>1, <2>2, EndLogoutSession DEF SessionInv, LogoutFits
  <2> QED BY <1>4, <1>5, <1>6, <1>7, <2>1, <2>2 DEF Deliver, End
<1>8. ASSUME NEW c \in Calls, Lose(c) PROVE SessionInv'
  <2>1. call[c].at \in {"sent", "served"} BY <1>8 DEF Lose
  <2>2. CASE c = "logout" /\ EndLogout("lost") BY <2>1, <2>2, EndLogoutSession
  <2> QED BY <1>4, <1>5, <1>8, <2>2 DEF Lose, End
<1>9. CASE ServeStray \/ ChangeElsewhere \/ ExpireAccess
  <2>1. UNCHANGED <<live, cookie, refresh, signed, call>>
    BY <1>9 DEF ServeStray, ChangeElsewhere, ExpireAccess
  <2>2. past' = past \/ \E b : Blind(past, b)
    BY <1>9 DEF ServeStray, ChangeElsewhere, ExpireAccess
  <2> QED BY <2>1, <2>2, Excuses0, SessionFrame
<1>10. ASSUME NEW t \in Tabs, ServeRefresh(t) PROVE SessionInv'
  BY <1>10, ServeRefreshSession
<1>11. LogoutNeverWaits
  BY DEF SessionInv, LogoutFits, LogoutNeverWaits
<1>12. CASE DeliverRefresh
  <2>1. call'["logout"] = call["logout"]
    <3>1. CASE refresh["app"].reply = 0
      BY <1>11, <1>12, <3>1 DEF DeliverRefresh, FailRefresh, WaitersFail, LogoutNeverWaits
    <3>2. CASE refresh["app"].reply # 0
      BY <1>11, <1>12, <3>2, DeliveredRefresh DEF LogoutNeverWaits
    <3> QED BY <3>1, <3>2
  <2>2. /\ refresh["app"].at = "served" /\ UNCHANGED <<live, past>>
        /\ refresh' = [refresh EXCEPT !["app"] = NoRefresh]
        /\ \/ refresh["app"].reply = 0 /\ UNCHANGED cookie /\ signed' = "out"
           \/ refresh["app"].reply # 0 /\ cookie' = refresh["app"].reply
    BY <1>12 DEF DeliverRefresh, FailRefresh
  <2> QED BY <2>1, <2>2, AnsweredSession
<1>13. CASE LoseRefresh
  <2>1. call'["logout"] = call["logout"]
    BY <1>11, <1>13 DEF LoseRefresh, FailRefresh, WaitersFail, LogoutNeverWaits
  <2>2. /\ refresh["app"].at # "none" /\ UNCHANGED live /\ signed' = "out"
        /\ refresh' = [refresh EXCEPT !["app"] = NoRefresh]
        /\ cookie' \in {cookie} \cup (IF refresh["app"].reply # 0
                                      THEN {refresh["app"].reply} ELSE {})
        /\ past' = Excuse(Costs("app"))
    BY <1>13 DEF LoseRefresh, FailRefresh, CookiesAfterLoss
  <2>3. past'.excuses = past.excuses \cup Costs("app") BY <2>2, Excuses0
  <2>4. CASE refresh["app"].reply = 0
    <3>1. UNCHANGED cookie /\ past'.excuses = past.excuses BY <2>2, <2>3, <2>4 DEF Costs
    <3> QED BY <2>1, <2>2, <2>4, <3>1, AnsweredSession
  <2>5. CASE refresh["app"].reply # 0
    <3>1. refresh["app"].at = "served" BY <2>5 DEF SessionInv, RefreshFits
    <3>2. CASE cookie' = refresh["app"].reply
      <4>1. past'.excuses = past.excuses BY <2>3, <3>2 DEF Costs
      <4> QED BY <2>1, <2>2, <2>5, <3>1, <3>2, <4>1, AnsweredSession
    <3>3. CASE cookie' # refresh["app"].reply
      <4>1. UNCHANGED cookie BY <2>2, <3>3
      <4>2. past'.excuses = past.excuses \cup {"refresh lost"} BY <2>3, <2>5, <3>3 DEF Costs
      <4>3. past'.excuses # {} BY <4>2
      <4> QED BY <2>1, <2>2, <4>1, <4>2, <4>3, AnsweredSession
    <3> QED BY <3>2, <3>3
  <2> QED BY <2>4, <2>5
<1>14. CASE OpenTab
  <2>1. /\ refresh["tab"].at = "none" /\ UNCHANGED <<live, cookie, call, signed>>
        /\ refresh' = [refresh EXCEPT !["tab"] = Asked("tab")]
        /\ past' = Excuse(Overlap("tab"))
    BY <1>14 DEF OpenTab
  <2>2. past'.excuses = past.excuses \cup Overlap("tab") BY <2>1, Excuses0
  <2> QED BY <2>1, <2>2, AskedSession
<1>15. CASE TabRestored
  <2>1. /\ refresh["tab"].at = "served" /\ UNCHANGED <<live, call, signed, past>>
        /\ refresh' = [refresh EXCEPT !["tab"] = NoRefresh]
        /\ \/ refresh["tab"].reply = 0 /\ UNCHANGED cookie
           \/ refresh["tab"].reply # 0 /\ cookie' = refresh["tab"].reply
    BY <1>15 DEF TabRestored
  <2> QED BY <2>1, AnsweredSession
<1>16. CASE ColdStart BY <1>16, ColdStartSession
<1> QED
  BY <1>1, <1>2, <1>3, <1>7, <1>8, <1>9, <1>10, <1>12, <1>13, <1>14, <1>15, <1>16 DEF Next

-----------------------------------------------------------------------------
(* The screen.  Whatever makes it out of date is either on its way to the   *)
(* app, or the app cannot know of it.                                      *)

\* What becomes of "blind".
LEMMA BlindAfter ==
  ASSUME TypeOK, NEW p, NEW cause \in BOOLEAN
  PROVE  /\ past' = Excuse(p) => past'.blind = past.blind
         /\ Blind(past, cause) =>
               past'.blind = (shown' # changes' /\ (past.blind \/ cause))
         /\ Blind(Excuse(p), cause) =>
               past'.blind = (shown' # changes' /\ (past.blind \/ cause))
  BY DEF TypeOK, Pasts, Excuse, Blind

\* A step that leaves the screen and the server alone, and at each request for the
\* day lets it be or takes it forward.
LEMMA ScreenFrame ==
  ASSUME TypeOK, ScreenInv, UNCHANGED <<changes, signed, shown>>,
         past.blind /\ shown # changes => past'.blind,
         signed = "booting" => \A c \in Calls : call'[c].at = "idle",
         signed = "in" /\ shown = None => call'["punch"].at = "idle",
         call["punch"].at = "served" /\ call["punch"].reply = "ok" =>
            call'["punch"].at = "served" /\ call'["punch"].reply = "ok",
         \A c \in Reloads :
            \/ call'[c] = call[c]
            \/ call'[c].at \in {"sent", "waiting"}
            \/ call'[c].at = "served" /\ (call'[c].reply = "ok" => call'[c].sees = changes)
  PROVE  ScreenInv'
<1> USE DEF ScreenInv
<1>1. shown = None => shown # changes BY DEF TypeOK
<1>2. FirstScreen' BY <1>1 DEF FirstScreen
<1>3. ReloadComes'
  <2> SUFFICES ASSUME signed = "in", shown # None, shown # changes, ~past'.blind
               PROVE  \/ call'["punch"].at = "served" /\ call'["punch"].reply = "ok"
                      \/ \E c \in Reloads : Comes(c)'
    BY DEF ReloadComes
  <2>1. CASE call["punch"].at = "served" /\ call["punch"].reply = "ok" BY <2>1
  <2>2. ASSUME NEW c \in Reloads, Comes(c) PROVE Comes(c)' BY <2>2 DEF Comes
  <2>3. \/ call["punch"].at = "served" /\ call["punch"].reply = "ok"
        \/ \E c \in Reloads : Comes(c)
    BY DEF ReloadComes
  <2> QED BY <2>1, <2>2, <2>3
<1> QED BY <1>2, <1>3

\* A step after which the screen is current or known to be blind.
LEMMA BlindFrame ==
  ASSUME TypeOK, changes' \in Nat, UNCHANGED <<signed, shown>>,
         shown' # changes' => past'.blind,
         signed = "booting" => shown = None /\ \A c \in Calls : call'[c].at = "idle",
         signed = "in" /\ shown = None => call'["punch"].at = "idle"
  PROVE  ScreenInv'
<1>1. shown' = None => past'.blind OBVIOUS
<1>2. FirstScreen' BY <1>1 DEF FirstScreen
<1>3. ReloadComes' BY DEF ReloadComes
<1> QED BY <1>2, <1>3 DEF ScreenInv

\* A session that is over shows nothing.
LEMMA OutFrame ==
  ASSUME signed' = "out" \/ (signed' = "booting" /\ shown' = None
                              /\ \A c \in Calls : call'[c].at = "idle")
  PROVE  ScreenInv'
  BY DEF ScreenInv, FirstScreen, ReloadComes

\* Who is busy, and when.
LEMMA Busy ==
  ASSUME TypeOK, ScreenInv
  PROVE  /\ \A c \in Calls : call[c].at # "idle" => signed # "booting"
         /\ call["punch"].at # "idle" /\ signed = "in" => shown # None
  BY DEF ScreenInv, FirstScreen

LEMMA ServePunchScreen ==
  ASSUME TypeOK, ScreenInv, Next, ServePunch
  PROVE  ScreenInv'
<1> DEFINE q == call["punch"]
<1>1. /\ q \in Requests /\ q.at = "sent" /\ call \in [Calls -> Requests]
      /\ UNCHANGED <<signed, shown, past>>
  BY DEF ServePunch, TypeOK, CallsOK
<1>2. PICK v \in {"ok", "rejected"} :
         /\ Decide(q, v)
         /\ call' = [call EXCEPT !["punch"] = [[q EXCEPT !.reply = Answer(q, v)]
                                                  EXCEPT !.at = "served"]]
  BY DEF ServePunch, Reply
<1>3. signed # "booting" /\ (signed = "in" => shown # None) BY <1>1, Busy
<1>4. \A c \in Reloads : call'[c] = call[c] BY <1>1, <1>2
<1>5. CASE changes' = changes
  BY <1>1, <1>3, <1>4, <1>5, ScreenFrame
<1>6. CASE changes' # changes
  <2>1. Fresh(q) /\ v = "ok" BY <1>2, <1>6 DEF Decide
  <2>2. Answer(q, v) = "ok" BY <2>1 DEF Answer, Fresh
  <2>3. ASSUME NEW r \in Requests
        PROVE  LET p == [[r EXCEPT !.reply = "ok"] EXCEPT !.at = "served"]
               IN  p.at = "served" /\ p.reply = "ok"
    BY <2>3 DEF Requests
  <2>4. call'["punch"] = [[q EXCEPT !.reply = "ok"] EXCEPT !.at = "served"]
    BY <1>1, <1>2, <2>2
  <2> HIDE DEF q
  <2>5. call'["punch"].at = "served" /\ call'["punch"].reply = "ok" BY <1>1, <2>3, <2>4
  <2> QED BY <1>1, <1>3, <2>5 DEF ScreenInv, FirstScreen, ReloadComes
<1> QED BY <1>5, <1>6

LEMMA EndPunchScreen ==
  ASSUME TypeOK, ScreenInv, Next, NEW o, EndPunch(o), call["punch"].at \in {"sent", "served"},
         o # "lost" => call["punch"].at = "served" /\ o = call["punch"].reply
  PROVE  ScreenInv'
<1>1. signed # "booting" /\ (signed = "in" => shown # None) BY Busy
<1>2. /\ UNCHANGED <<changes, signed, shown>> /\ call'["punch"] = Idle
      /\ \A c \in Reloads : call'[c] = call[c] \/ call'[c] = Sent(Idle)
      /\ o \in Reloading => \E c \in Reloads : call'[c] = Sent(Idle)
  BY EndedPunch DEF EndPunch
<1>3. past'.blind = (shown' # changes' /\ (past.blind \/ o = "lost"))
  <2> DEFINE un == IF o = "lost" THEN past.unanswered \cup {call["punch"].key}
                                 ELSE past.unanswered
             lo == IF o = "conflict" THEN past.loose \cup {call["punch"].key}
                                     ELSE past.loose
             bl == shown' # changes' /\ (past.blind \/ o = "lost")
  <2>1. past' = [past EXCEPT !.unanswered = un, !.loose = lo, !.blind = bl]
    BY DEF EndPunch, Blind, TypeOK, Pasts
  <2> HIDE DEF un, lo, bl
  <2>2. past'.blind = bl BY <2>1 DEF TypeOK, Pasts
  <2> QED BY <2>2 DEF bl
<1>4. Sent(Idle).at = "sent" BY SentIsRequest, IdleIsRequest DEF TypeOK, TokensOK
<1>5. CASE o = "lost"
  <2>1. changes' \in Nat BY <1>2 DEF TypeOK
  <2> QED BY <1>1, <1>2, <1>3, <1>5, <2>1, BlindFrame
<1>6. CASE o \in Reloading
  <2>1. \E c \in Reloads : Comes(c)' BY <1>2, <1>4, <1>6 DEF Comes
  <2> QED BY <1>1, <1>2, <2>1 DEF ScreenInv, FirstScreen, ReloadComes
<1>7. CASE o # "lost" /\ o \notin Reloading
  <2>1. call["punch"].reply # "ok" BY <1>7 DEF Reloading
  <2> QED BY <1>1, <1>2, <1>3, <1>4, <1>7, <2>1, ScreenFrame
<1> QED BY <1>5, <1>6, <1>7

LEMMA EndReloadScreen ==
  ASSUME TypeOK, ScreenInv, Next, NEW c \in Reloads, NEW o, EndReload(c, o),
         call[c].at \in {"sent", "served"},
         o # "lost" => call[c].at = "served" /\ o = call[c].reply
  PROVE  ScreenInv'
<1> DEFINE shows == o = "ok" /\ signed = "in"
           sees == call[c].sees
<1>1. signed # "booting" BY Busy
<1>2. /\ call \in [Calls -> Requests] /\ changes \in Nat /\ sees \in Nat /\ sees <= changes
      /\ shown \in {None} \cup Nat
  <2>1. call \in [Calls -> Requests] /\ call[c] \in Requests BY DEF TypeOK, CallsOK
  <2>2. sees \in Nat BY <2>1 DEF Requests
  <2>3. sees <= changes /\ changes \in Nat BY DEF TypeOK, CallsOK
  <2>4. shown \in {None} \cup 0 .. changes BY DEF TypeOK, AppOK
  <2> QED BY <2>1, <2>2, <2>3, <2>4
<1>3. /\ UNCHANGED <<changes, signed>> /\ shown' = IF shows THEN sees ELSE shown
      /\ call' = [call EXCEPT ![c] = Idle]
  BY DEF EndReload, Ended
<1>4. \A d \in Calls \ {c} : call'[d] = call[d] BY <1>2, <1>3
<1>5. past'.blind = (shown' # changes' /\ (past.blind \/ ~shows
                                            \/ (shown # None /\ sees < shown)))
  <2> DEFINE cause == ~shows \/ (shown # None /\ sees < shown)
  <2>1. Blind(past, cause) BY DEF EndReload
  <2>2. cause \in BOOLEAN OBVIOUS
  <2> HIDE DEF cause, shows, sees
  <2>3. past'.blind = (shown' # changes' /\ (past.blind \/ cause)) BY <2>1, <2>2, BlindAfter
  <2> QED BY <2>3 DEF cause
<1>6. CASE ~shows
  <2>1. shown' = shown /\ (shown' # changes' => past'.blind) BY <1>3, <1>5, <1>6
  <2>2. signed = "in" /\ shown = None => call'["punch"].at = "idle"
    BY <1>4 DEF ScreenInv, FirstScreen
  <2> QED BY <1>1, <1>2, <1>3, <2>1, <2>2, BlindFrame
<1>7. CASE shows
  <2>1. shown' = sees /\ shown' # None /\ signed = "in" /\ signed' = "in" BY <1>2, <1>3, <1>7
  <2>2. call[c].at = "served" /\ call[c].reply = "ok" BY <1>7
  <2>3. FirstScreen' BY <2>1 DEF FirstScreen
  <2> SUFFICES ASSUME sees # changes, ~past'.blind
               PROVE  \/ call'["punch"].at = "served" /\ call'["punch"].reply = "ok"
                      \/ \E d \in Reloads : Comes(d)'
    BY <1>3, <2>1, <2>3 DEF ScreenInv, ReloadComes
  <2>4. ~past.blind /\ ~(shown # None /\ sees < shown) BY <1>3, <1>5, <1>7, <2>1
  <2>5. CASE shown = None BY <2>1, <2>2, <2>4, <2>5 DEF ScreenInv, FirstScreen
  <2>6. CASE shown # None
    <3>1. shown # changes BY <1>2, <2>4, <2>6
    <3>2. \/ call["punch"].at = "served" /\ call["punch"].reply = "ok"
          \/ \E d \in Reloads : Comes(d)
      BY <2>1, <2>4, <2>6, <3>1 DEF ScreenInv, ReloadComes
    <3>3. ASSUME NEW d \in Reloads, Comes(d) PROVE Comes(d)'
      <4>1. d # c BY <2>2, <3>3 DEF Comes
      <4> QED BY <1>3, <1>4, <3>3, <4>1 DEF Comes
    <3> QED BY <1>4, <3>2, <3>3
  <2> QED BY <2>5, <2>6
<1> QED BY <1>6, <1>7

LEMMA ScreenSteps ==
  ASSUME TypeOK, ScreenInv, Next
  PROVE  ScreenInv'
<1>0. /\ call \in [Calls -> Requests] /\ access \in Nat
      /\ \A c \in Calls : call[c].at # "idle" => signed # "booting"
      /\ call["punch"].at # "idle" /\ signed = "in" => shown # None
  BY Busy DEF TypeOK, CallsOK, TokensOK
<1>1. CASE Press \/ CaptureFails \/ SendPunch
  <2>1. /\ UNCHANGED <<changes, signed, shown>> /\ (past.blind => past'.blind)
        /\ signed # "booting"
        /\ signed = "in" => shown # None
    BY <1>0, <1>1 DEF Press, CaptureFails, SendPunch, TypeOK, Pasts
  <2>2. call["punch"].at # "served" /\ \A c \in Reloads : call'[c] = call[c]
    BY <1>0, <1>1 DEF Press, CaptureFails, SendPunch, Ended
  <2> QED BY <2>1, <2>2, ScreenFrame
<1>2. CASE AskAgain
  <2>1. PICK c \in Reloads : call' = [call EXCEPT ![c] = Sent(Idle)]
    BY <1>0, <1>2, ReloadTakesAPlace DEF AskAgain
  <2>2. Sent(Idle).at = "sent" BY <1>0, IdleIsRequest, SentIsRequest
  <2>3. call'["punch"] = call["punch"] BY <1>2, OtherRequests
  <2>4. \A d \in Reloads : call'[d] = call[d] \/ call'[d].at = "sent" BY <1>0, <2>1, <2>2
  <2>5. UNCHANGED <<changes, signed, shown, past>> /\ signed = "in" BY <1>2 DEF AskAgain
  <2>6. signed = "in" /\ shown = None => call'["punch"].at = "idle"
    BY <2>3 DEF ScreenInv, FirstScreen
  <2> QED BY <2>3, <2>4, <2>5, <2>6, ScreenFrame
<1>3. ASSUME UNCHANGED <<changes, signed, shown>>, past'.blind = past.blind,
             \A c \in Calls \ {"logout"} : call'[c] = call[c],
             signed = "booting" => call'["logout"].at = "idle"
      PROVE  ScreenInv'
  <2>1. signed = "booting" => \A c \in Calls : call'[c].at = "idle"
    BY <1>0, <1>3
  <2>2. signed = "in" /\ shown = None => call'["punch"].at = "idle"
    BY <1>3 DEF ScreenInv, FirstScreen
  <2> QED BY <1>3, <2>1, <2>2, ScreenFrame
<1>4. CASE SignOut
  <2>1. /\ UNCHANGED <<changes, signed, shown>> /\ signed = "in"
        /\ \A c \in Calls \ {"logout"} : call'[c] = call[c]
    BY <1>0, <1>4 DEF SignOut
  <2>2. past'.blind = past.blind BY <1>4, BlindAfter DEF SignOut
  <2> QED BY <1>3, <2>1, <2>2
<1>5. CASE ServeLogout
  <2>1. /\ UNCHANGED <<changes, signed, shown, past>> /\ call["logout"].at = "sent"
        /\ \A c \in Calls \ {"logout"} : call'[c] = call[c]
    BY <1>0, <1>5 DEF ServeLogout, Reply
  <2> QED BY <1>0, <1>3, <2>1
<1>6. ASSUME NEW c \in Reloads, ServeReload(c) PROVE ScreenInv'
  <2>1. ASSUME NEW r \in Requests
        PROVE  LET p == [[r EXCEPT !.reply = "ok", !.sees = changes] EXCEPT !.at = "served"]
                   e == [[r EXCEPT !.reply = "401"] EXCEPT !.at = "served"]
               IN  p.at = "served" /\ p.sees = changes /\ e.at = "served" /\ e.reply = "401"
    BY <2>1 DEF Requests
  <2>2. \/ call' = [call EXCEPT ![c] = [[call[c] EXCEPT !.reply = "ok", !.sees = changes]
                                            EXCEPT !.at = "served"]]
        \/ call' = [call EXCEPT ![c] = [[call[c] EXCEPT !.reply = "401"] EXCEPT !.at = "served"]]
    BY <1>6 DEF ServeReload, Reply
  <2>3. call[c] \in Requests BY <1>0
  <2>4. call'[c].at = "served" /\ (call'[c].reply = "ok" => call'[c].sees = changes)
    <3>1. CASE call' = [call EXCEPT ![c] = [[call[c] EXCEPT !.reply = "ok", !.sees = changes]
                                              EXCEPT !.at = "served"]]
      <4>1. call'[c] = [[call[c] EXCEPT !.reply = "ok", !.sees = changes] EXCEPT !.at = "served"]
        BY <1>0, <3>1
      <4> QED BY <2>1, <2>3, <4>1
    <3>2. CASE call' = [call EXCEPT ![c] = [[call[c] EXCEPT !.reply = "401"]
                                              EXCEPT !.at = "served"]]
      <4>1. call'[c] = [[call[c] EXCEPT !.reply = "401"] EXCEPT !.at = "served"]
        BY <1>0, <3>2
      <4>2. call'[c].at = "served" /\ call'[c].reply = "401" BY <2>1, <2>3, <4>1
      <4> QED BY <4>2
    <3> QED BY <2>2, <3>1, <3>2
  <2>5. \A d \in Calls \ {c} : call'[d] = call[d] BY <1>0, <2>2
  <2>6. /\ UNCHANGED <<changes, signed, shown, past>> /\ signed # "booting"
        /\ call'["punch"] = call["punch"]
    BY <1>0, <1>6, <2>5 DEF ServeReload
  <2>7. signed = "in" /\ shown = None => call'["punch"].at = "idle"
    BY <2>6 DEF ScreenInv, FirstScreen
  <2> QED BY <2>4, <2>5, <2>6, <2>7, ScreenFrame
<1>7. CASE ServePunch BY <1>7, ServePunchScreen
<1>8. ASSUME NEW c \in Calls, call[c].at = "served", Await(c) PROVE ScreenInv'
  <2>1. /\ UNCHANGED <<changes, signed, shown>> /\ signed # "booting"
        /\ call[c].reply = "401" /\ call' = [call EXCEPT ![c].at = "waiting"]
    BY <1>0, <1>8 DEF Await
  <2>2. past'.blind = past.blind BY <1>8, BlindAfter DEF Await
  <2>3. call'[c].at = "waiting" /\ \A d \in Calls \ {c} : call'[d] = call[d]
    <3>1. ASSUME NEW r \in Requests PROVE [r EXCEPT !.at = "waiting"].at = "waiting"
      BY <3>1 DEF Requests
    <3> QED BY <1>0, <2>1, <3>1
  <2>4. signed = "in" /\ shown = None => call'["punch"].at = "idle"
    BY <1>0, <1>8, <2>3
  <2> QED BY <2>1, <2>2, <2>3, <2>4, ScreenFrame
<1>9. ASSUME NEW o, EndLogout(o) PROVE ScreenInv'
  BY <1>9, OutFrame DEF EndLogout
<1>10. ASSUME NEW c \in Calls, Deliver(c) PROVE ScreenInv'
  <2>1. call[c].at = "served" BY <1>10 DEF Deliver
  <2>2. CASE Await(c) BY <1>8, <2>1, <2>2
  <2>3. CASE End(c, call[c].reply)
    BY <1>9, <2>1, <2>3, EndPunchScreen, EndReloadScreen DEF End
  <2> QED BY <1>10, <2>2, <2>3 DEF Deliver
<1>11. ASSUME NEW c \in Calls, Lose(c) PROVE ScreenInv'
  <2>1. call[c].at \in {"sent", "served"} /\ End(c, "lost") BY <1>11 DEF Lose
  <2> QED BY <1>9, <2>1, EndPunchScreen, EndReloadScreen DEF End
<1>12. CASE ServeStray \/ ChangeElsewhere
  <2>1. UNCHANGED <<signed, shown, call>> BY <1>12 DEF ServeStray, ChangeElsewhere
  <2>2. changes' \in Nat /\ changes \in Nat BY ServerTypes DEF TypeOK
  <2>3. \E b \in BOOLEAN : Blind(past, b) /\ (b \/ changes' = changes)
    <3>1. CASE ServeStray
      <4>1. Blind(past, changes' # changes) BY <3>1 DEF ServeStray
      <4>2. (changes' # changes) \in BOOLEAN OBVIOUS
      <4> QED BY <4>1, <4>2
    <3>2. CASE ChangeElsewhere
      <4>1. Blind(past, TRUE) BY <3>2 DEF ChangeElsewhere
      <4> QED BY <4>1
    <3> QED BY <1>12, <3>1, <3>2
  <2>4. PICK b \in BOOLEAN : Blind(past, b) /\ (b \/ changes' = changes) BY <2>3
  <2>5. past'.blind = (shown' # changes' /\ (past.blind \/ b)) BY <2>4, BlindAfter
  <2>6. /\ signed = "booting" => shown = None /\ \A c \in Calls : call'[c].at = "idle"
        /\ signed = "in" /\ shown = None => call'["punch"].at = "idle"
    BY <2>1 DEF ScreenInv, FirstScreen
  <2>7. CASE b BY <2>1, <2>2, <2>5, <2>6, <2>7, BlindFrame
  <2>8. CASE ~b BY <2>1, <2>4, <2>5, <2>6, <2>8, ScreenFrame
  <2> QED BY <2>7, <2>8
<1>13. CASE ExpireAccess \/ OpenTab \/ TabRestored \/ \E t \in Tabs : ServeRefresh(t)
  <2>1. UNCHANGED <<changes, signed, shown, call>>
    BY <1>13 DEF ExpireAccess, OpenTab, TabRestored, ServeRefresh
  <2>2. past'.blind = past.blind
    BY <1>13, BlindAfter DEF ExpireAccess, OpenTab, TabRestored, ServeRefresh
  <2> QED BY <1>0, <1>3, <2>1, <2>2
<1>14. CASE DeliverRefresh
  <2>1. CASE refresh["app"].reply = 0
    BY <1>14, <2>1, OutFrame DEF DeliverRefresh, FailRefresh
  <2>2. CASE refresh["app"].reply # 0 /\ signed = "booting"
    <3>1. \A c \in Calls : call[c].at = "idle" /\ shown = None
      BY <2>2 DEF ScreenInv, FirstScreen
    <3>2. signed' = "in" /\ UNCHANGED <<changes, shown>> BY <1>14, <2>2 DEF DeliverRefresh
    <3>3. /\ call'["punch"].at = "idle"
          /\ \A c \in Reloads : call'[c].at # "served"
      BY <1>14, <2>2, <3>1, DeliveredRefresh
    <3> QED BY <3>1, <3>2, <3>3 DEF ScreenInv, FirstScreen, ReloadComes
  <2>3. CASE refresh["app"].reply # 0 /\ signed # "booting"
    <3>1. UNCHANGED <<changes, signed, shown, past>> BY <1>14, <2>3 DEF DeliverRefresh
    <3>2. \A c \in Calls : \/ call'[c] = call[c]
                           \/ call[c].at = "waiting" /\ call'[c].at = "sent"
      BY <1>14, <2>3, DeliveredRefresh
    <3>3. signed = "in" /\ shown = None => call'["punch"].at = "idle" BY <1>0, <3>2
    <3>4. call["punch"].at = "served" => call'["punch"] = call["punch"] BY <3>2
    <3> QED BY <2>3, <3>1, <3>2, <3>3, <3>4, ScreenFrame
  <2> QED BY <2>1, <2>2, <2>3
<1>15. CASE LoseRefresh BY <1>15, OutFrame DEF LoseRefresh, FailRefresh
<1>16. CASE ColdStart BY <1>16, OutFrame DEF ColdStart, Idle
<1> QED
  BY <1>1, <1>2, <1>4, <1>5, <1>6, <1>7, <1>10, <1>11, <1>12, <1>13, <1>14, <1>15, <1>16
     DEF Next, Serve

-----------------------------------------------------------------------------
(* The theorems.                                                           *)

LEMMA InitInvariant == ASSUME Init PROVE IInv
<1>1. TypeOK BY InitTypes
<1>2. /\ \A c \in Calls : call[c].at = "idle"
      /\ stray.at = "idle"
  BY DEF Init, Idle
<1>3. KeyInv
  BY <1>2 DEF Init, KeyInv, KeyIsHeld, KeysAreOld, UsesFit, AnswerFits, SpentKeyIsKnown,
              StrayFits, SheetFits
<1>4. /\ refresh["app"].at = "sent" /\ refresh["app"].token = 1 /\ refresh["app"].reply = 0
      /\ refresh["tab"].at = "none" /\ refresh["tab"].reply = 0
  BY DEF Init, NoRefresh
<1>5. SessionInv
  BY <1>2, <1>4 DEF Init, SessionInv, RefreshFits, OneRefresh, LogoutFits, NothingToRestore
<1>6. ScreenInv BY <1>2 DEF Init, ScreenInv, FirstScreen, ReloadComes
<1> QED BY <1>1, <1>3, <1>5, <1>6 DEF IInv

LEMMA StutterKeeps == ASSUME IInv, UNCHANGED vars PROVE IInv'
<1> USE DEF vars
<1>1. TypeOK' BY DEF IInv, TypeOK, TokensOK, CallsOK, AppOK
<1>2. KeyInv'
  BY DEF IInv, KeyInv, KeyIsHeld, KeysAreOld, UsesFit, AnswerFits, Told, MadeAs, BothWays,
         SpentKeyIsKnown, StrayFits, SheetFits
<1>3. SessionInv'
  BY DEF IInv, SessionInv, RefreshFits, OneRefresh, LogoutFits, NothingToRestore
<1>4. ScreenInv' BY DEF IInv, ScreenInv, FirstScreen, ReloadComes, Comes
<1> QED BY <1>1, <1>2, <1>3, <1>4 DEF IInv

\* The app, its session and its screen keep what IInv says of them, through every
\* interleaving of requests, answers, losses, tabs and page reloads.
THEOREM PhoneInvariant == Spec => []IInv
<1>1. Init => IInv BY InitInvariant
<1>2. IInv /\ [Next]_vars => IInv'
  <2> SUFFICES ASSUME IInv, [Next]_vars PROVE IInv' OBVIOUS
  <2>1. CASE Next
    <3>1. TypeOK /\ KeyInv /\ SessionInv /\ ScreenInv /\ KeyIsHeld /\ KeysAreOld
      BY DEF IInv, KeyInv
    <3> QED BY <2>1, <3>1, TypeSteps, KeySteps, SessionSteps, ScreenSteps DEF IInv
  <2>2. CASE UNCHANGED vars BY <2>2, StutterKeeps
  <2> QED BY <2>1, <2>2
<1> QED BY <1>1, <1>2, PTL DEF Spec

\* Types; nothing waits for a refresh that is over (apiClient.js:127-138).
THEOREM PhoneTypes == Spec => []TypeOK
<1>1. IInv => TypeOK BY DEF IInv
<1> QED BY <1>1, PhoneInvariant, PTL

\* However the app's own requests expire and overlap, the session ends only by a
\* sign-out, a second tab's refresh or a lost answer (apiClient.js:75-93).
THEOREM PromiseSufficesHolds == Spec => []PromiseSuffices
<1>1. IInv => PromiseSuffices BY DEF IInv, SessionInv, OneRefresh, PromiseSuffices
<1> QED BY <1>1, PhoneInvariant, PTL

\* A sign-out that reached the server with no refresh under way is final
\* (authService.js:37-43).
THEOREM SignedOutStaysHolds == Spec => []SignedOutStays
<1>1. IInv => SignedOutStays
  BY Zenon DEF IInv, SessionInv, NothingToRestore, SignedOutStays
<1> QED BY <1>1, PhoneInvariant, PTL

\* The sheet reports what the press did, or the press used a key whose answer was
\* lost (usePunch.js:89-101).
THEOREM SuccessIsTrueHolds == Spec => []SuccessIsTrue
<1>1. IInv => SuccessIsTrue BY DEF IInv, KeyInv, SheetFits, Told, SuccessIsTrue
<1> QED BY <1>1, PhoneInvariant, PTL

\* A screen at rest is current, or out of date for a reason the app cannot know
\* (usePunch.js:99-108, useAsync.js:20-21).
THEOREM RestedScreenIsCurrentHolds == Spec => []RestedScreenIsCurrent
<1>1. IInv => RestedScreenIsCurrent
  <2> SUFFICES ASSUME IInv, \A c \in Calls : call[c].at = "idle", signed = "in", shown # None
               PROVE  Present(shown) = Present(changes) \/ past.blind
    BY DEF RestedScreenIsCurrent
  <2>1. \A c \in Reloads : ~Comes(c) BY DEF Comes
  <2>2. call["punch"].at # "served" OBVIOUS
  <2>3. shown = changes \/ past.blind BY <2>1, <2>2 DEF IInv, ScreenInv, ReloadComes
  <2> QED BY <2>3
<1> QED BY <1>1, PhoneInvariant, PTL

\* No late request decides a key that the app has settled, unless the app gave the
\* key up undecided (usePunch.js:103-110, attendance_service.py:306-310).
THEOREM DecidedWhileHeldHolds == Spec => DecidedWhileHeld
<1> DEFINE Settles == \A k \in Keys :
                        made'[k] # made[k] => /\ made[k] = Undecided
                                              /\ k = key \/ k \in past.loose
<1>1. IInv /\ [Next]_vars => [Settles]_vars
  <2> SUFFICES ASSUME IInv, Next PROVE Settles OBVIOUS
  <2>1. TypeOK /\ KeyIsHeld /\ StrayFits BY DEF IInv, KeyInv
  <2>2. ASSUME NEW q \in Requests, NEW v \in {"ok", "rejected"}, Decide(q, v),
               made[q.key] # Undecided \/ q.key = key \/ q.key \in past.loose
        PROVE  Settles
    BY <2>1, <2>2, Decided DEF Fresh
  <2>3. CASE ServePunch
    <3>1. PICK v \in {"ok", "rejected"} : Decide(call["punch"], v) BY <2>3 DEF ServePunch
    <3>2. call["punch"] \in Requests /\ key = call["punch"].key
      BY <2>1, <2>3 DEF ServePunch, KeyIsHeld, TypeOK, CallsOK
    <3> QED BY <2>2, <3>1, <3>2
  <2>4. CASE ServeStray
    <3>1. PICK v \in {"ok", "rejected"} : Decide(stray, v) BY <2>4 DEF ServeStray
    <3>2. /\ stray \in Requests
          /\ made[stray.key] # Undecided \/ stray.key = key \/ stray.key \in past.loose
      BY <2>1, <2>4 DEF ServeStray, StrayFits, TypeOK, CallsOK
    <3> QED BY <2>2, <3>1, <3>2
  <2>5. CASE ChangeElsewhere BY <2>5 DEF ChangeElsewhere
  <2> QED BY <2>3, <2>4, <2>5, ServerSteps
<1> QED BY <1>1, PhoneInvariant, PTL DEF Spec, DecidedWhileHeld
=============================================================================
