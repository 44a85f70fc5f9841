-------------------------------- MODULE Phone --------------------------------
(***************************************************************************)
(* The app on a member's phone: the punch pipeline (hooks/usePunch.js), the *)
(* screen it reloads (hooks/useAsync.js, pages/Dashboard.jsx), the API      *)
(* client with its shared refresh (services/apiClient.js) and the session   *)
(* (context/AuthContext.jsx), against a network that loses requests and     *)
(* answers, other tabs of the browser, and page reloads.                    *)
(*                                                                         *)
(* The server is what the app sees of it: PunchService decides a punch in   *)
(* one step, AuthSessions rotates a token in one step.  One session is      *)
(* followed, from a sign-in before the behaviour starts.                    *)
(***************************************************************************)
EXTENDS Integers

CONSTANTS
    Reloads,                \* requests for the day that may be open at once
    None,                   \* nothing
    MaxPresses, MaxEvents   \* bounds: presses of the punch button; losses, expiries,
                            \* page reloads and other happenings

ASSUME PhoneAssumption ==
    /\ None \notin Int /\ Reloads # {} /\ Reloads \cap {"punch", "logout"} = {}
    /\ MaxPresses \in Nat /\ MaxEvents \in Nat

VARIABLES
    changes,    \* server: how often the person's attendance has changed
    made,       \* server: the change a key made, or Undecided or Rejected
    live,       \* server: the refresh token that is not revoked, 0 for none
    issued,     \* server: refresh tokens issued, all of one family
    expired,    \* server: access tokens up to this one have expired
    cookie,     \* browser: the refresh token in the cookie, 0 for none
    refresh,    \* refreshPromise of the app, and that of another tab
    call,       \* the app's other requests
    stray,      \* a punch request the app gave up that may still arrive
    access,     \* accessToken: its refresh token's number, 0 for none
    signed,     \* "booting", "in" or "out"
    shown,      \* data of the dashboard: the changes it knows, or None
    key,        \* pendingKey, 0 for none
    success,    \* the result sheet
    presses, events,
    past        \* history, see Init

server == <<changes, made>>
session == <<live, issued, expired, cookie>>
screen == <<signed, shown>>
counters == <<presses, events>>
vars == <<server, session, refresh, call, stray, access, screen, key, success,
          counters, past>>

Keys == 1 .. MaxPresses
Undecided == 0
Rejected == -1
Calls == {"punch", "logout"} \cup Reloads
Tabs == {"app", "tab"}

\* Everybody starts absent, and every change is to the other state.
Present(n) == n % 2 = 1

Idle == [at |-> "idle", dir |-> "in", key |-> 0, token |-> 0, bearer |-> 0,
         first |-> TRUE, reply |-> "none", sees |-> 0]
NoRefresh == [at |-> "none", token |-> 0, reply |-> 0]
NoSuccess == [dir |-> "none", key |-> 0]

\* excuses: what may have cost the session; uses: the directions a key was sent
\* with; unanswered: keys whose answer was lost; loose: keys given up undecided;
\* blind: the screen is out of date for a reason the app cannot know.
Init ==
    /\ changes = 0 /\ made = [k \in Keys |-> Undecided]
    /\ live = 1 /\ issued = 1 /\ expired = 0 /\ cookie = 1
    /\ refresh = [t \in Tabs |-> IF t = "app" THEN [at |-> "sent", token |-> 1, reply |-> 0]
                                              ELSE NoRefresh]
    /\ call = [c \in Calls |-> Idle] /\ stray = Idle
    /\ access = 0 /\ signed = "booting" /\ shown = None
    /\ key = 0 /\ success = NoSuccess
    /\ presses = 0 /\ events = 0
    /\ past = [excuses |-> {}, uses |-> {}, unanswered |-> {}, loose |-> {}, blind |-> FALSE]

Event == events < MaxEvents /\ events' = events + 1 /\ UNCHANGED presses
Excuse(e) == [past EXCEPT !.excuses = @ \cup e]

\* The screen after a step; cause: something the app is not told.
Blind(p, cause) ==
    past' = [p EXCEPT !.blind = shown' # changes' /\ (@ \/ cause)]

Sent(q) == [q EXCEPT !.at = "sent", !.bearer = access]
Ended(calls, c) == [calls EXCEPT ![c] = Idle]
Free(calls) == {c \in Reloads : calls[c].at = "idle"}
Reload(calls) == [calls EXCEPT ![CHOOSE c \in Free(calls) : TRUE] = Sent(Idle)]

-----------------------------------------------------------------------------
(* The member.                                                             *)

Press ==
    /\ signed = "in" /\ shown # None /\ call["punch"].at = "idle"
    /\ presses < MaxPresses /\ presses' = presses + 1
    /\ call' = [call EXCEPT !["punch"] = [Idle EXCEPT !.at = "locating",
                                  !.dir = IF Present(shown) THEN "out" ELSE "in"]]
    /\ success' = NoSuccess
    /\ UNCHANGED <<server, session, refresh, stray, access, screen, key, events, past>>

\* The browser gives no position.
CaptureFails ==
    /\ call["punch"].at = "locating"
    /\ call' = Ended(call, "punch")
    /\ UNCHANGED <<server, session, refresh, stray, access, screen, key, success,
                   counters, past>>

\* A key that was not cleared is used again.
SendPunch ==
    /\ call["punch"].at = "locating"
    /\ key' = IF key = 0 THEN presses ELSE key
    /\ call' = [call EXCEPT !["punch"] = Sent([@ EXCEPT !.key = key'])]
    /\ past' = [past EXCEPT !.uses = @ \cup {<<key', call["punch"].dir>>}]
    /\ UNCHANGED <<server, session, refresh, stray, access, screen, success, counters>>

\* The app comes to the foreground, or Refresh is tapped.
AskAgain ==
    /\ Event
    /\ signed = "in" /\ Free(call) # {}
    /\ call' = Reload(call)
    /\ UNCHANGED <<server, session, refresh, stray, access, screen, key, success, past>>

\* Defect: the app forgets its session and does not tell the server.
ForgetSession ==
    /\ signed = "in" /\ call["logout"].at = "idle"
    /\ access' = 0 /\ signed' = "out" /\ shown' = None /\ success' = NoSuccess
    /\ past' = Excuse({"signout"})
    /\ UNCHANGED <<server, session, refresh, call, stray, key, counters>>

SignOut ==
    /\ signed = "in" /\ call["logout"].at = "idle"
    /\ call' = [call EXCEPT !["logout"] = Sent([Idle EXCEPT !.token = cookie])]
    /\ past' = Excuse({"signout"})
    /\ UNCHANGED <<server, session, refresh, stray, access, screen, key, success, counters>>

-----------------------------------------------------------------------------
(* The server.                                                             *)

Authenticated(q) == q.bearer > expired

\* Defect: the key is not looked up.
FreshByState(q) == Authenticated(q) /\ (q.dir = "in") # Present(changes)

\* punch_in and punch_out come to the geofence.
Fresh(q) ==
    Authenticated(q) /\ made[q.key] = Undecided /\ (q.dir = "in") # Present(changes)

Answer(q, verdict) ==
    IF ~Authenticated(q) THEN "401"
    ELSE IF Fresh(q) THEN verdict
    ELSE IF made[q.key] = Undecided THEN "conflict"
    ELSE IF made[q.key] = Rejected THEN "rejected" ELSE "ok"

Decide(q, verdict) ==
    /\ changes' = IF Fresh(q) /\ verdict = "ok" THEN changes + 1 ELSE changes
    /\ made' = IF ~Fresh(q) THEN made
               ELSE [made EXCEPT ![q.key] = IF verdict = "ok" THEN changes + 1
                                                              ELSE Rejected]

Reply(c, q) == call' = [call EXCEPT ![c] = [q EXCEPT !.at = "served"]]

ServePunch ==
    LET q == call["punch"]
    IN  /\ q.at = "sent"
        /\ \E verdict \in {"ok", "rejected"} :
              /\ Decide(q, verdict)
              /\ Reply("punch", [q EXCEPT !.reply = Answer(q, verdict)])
        /\ UNCHANGED <<session, refresh, stray, access, screen, key, success, counters, past>>

ServeReload(c) ==
    LET q == call[c]
    IN  /\ q.at = "sent"
        /\ Reply(c, IF Authenticated(q) THEN [q EXCEPT !.reply = "ok", !.sees = changes]
                                        ELSE [q EXCEPT !.reply = "401"])
        /\ UNCHANGED <<server, session, refresh, stray, access, screen, key, success,
                       counters, past>>

\* Takes an expired access token too; a token already revoked stays so.
ServeLogout ==
    LET q == call["logout"]
    IN  /\ q.at = "sent"
        /\ live' = IF q.token = live THEN 0 ELSE live
        /\ Reply("logout", [q EXCEPT !.reply = "ok"])
        /\ UNCHANGED <<server, issued, expired, cookie, refresh, stray, access, screen,
                       key, success, counters, past>>

\* Rotation; a token that is not the live one was revoked: the family ends.
ServeRefresh(t) ==
    /\ refresh[t].at = "sent"
    /\ LET token == refresh[t].token
           good == token # 0 /\ token = live
       IN  /\ issued' = IF good THEN issued + 1 ELSE issued
           /\ live' = IF good THEN issued + 1 ELSE IF token = 0 THEN live ELSE 0
           /\ refresh' = [refresh EXCEPT ![t].at = "served",
                                         ![t].reply = IF good THEN issued + 1 ELSE 0]
    /\ UNCHANGED <<server, expired, cookie, call, stray, access, screen, key, success,
                   counters, past>>

ServeStray ==
    /\ stray.at = "sent"
    /\ \E verdict \in {"ok", "rejected"} : Decide(stray, verdict)
    /\ stray' = Idle
    /\ UNCHANGED <<session, refresh, call, access, screen, key, success, counters>>
    /\ Blind(past, changes' # changes)

ExpireAccess ==
    /\ Event
    /\ expired < access /\ expired' = access
    /\ UNCHANGED <<server, live, issued, cookie, refresh, call, stray, access, screen,
                   key, success, past>>

\* Another device punches, or the maintenance job closes the session.
ChangeElsewhere ==
    /\ Event
    /\ changes' = changes + 1
    /\ UNCHANGED <<made, session, refresh, call, stray, access, screen, key, success>>
    /\ Blind(past, TRUE)

-----------------------------------------------------------------------------
(* Answers and losses.                                                     *)

\* Defect: a success leaves the screen as it is.
StaleAfterSuccess == {"conflict"}
Reloading == {"ok", "conflict"}

\* Defect: a key is kept after a success.
KeptAfterSuccess == {"conflict", "rejected"}
Settling == {"ok", "conflict", "rejected"}

\* request() ends for the punch; "lost" is a failed fetch or a refusal the server
\* has no record of.  After a session is lost nothing is shown of it.
EndPunch(outcome) ==
    LET q == call["punch"]
        noted == [past EXCEPT !.unanswered = IF outcome = "lost" THEN @ \cup {q.key} ELSE @,
                              !.loose = IF outcome = "conflict" THEN @ \cup {q.key} ELSE @]
    IN  /\ outcome \in Reloading => Free(call) # {}
        /\ call' = IF outcome \in Reloading THEN Reload(Ended(call, "punch"))
                                            ELSE Ended(call, "punch")
        /\ key' = IF outcome \in Settling THEN 0 ELSE key
        /\ success' = IF outcome = "ok" /\ signed = "in"
                      THEN [dir |-> q.dir, key |-> q.key] ELSE success
        /\ UNCHANGED <<server, session, refresh, access, screen>>
        /\ Blind(noted, outcome = "lost")

\* Answers are shown in the order of their arrival.
EndReload(c, outcome) ==
    LET shows == outcome = "ok" /\ signed = "in"
    IN  /\ call' = Ended(call, c)
        /\ shown' = IF shows THEN call[c].sees ELSE shown
        /\ UNCHANGED <<server, session, refresh, access, signed, key, success>>
        /\ Blind(past, ~shows \/ (shown # None /\ call[c].sees < shown))

EndLogout(outcome) ==
    /\ call' = Ended(call, "logout")
    /\ cookie' = IF outcome = "ok" THEN 0 ELSE cookie
    /\ access' = 0 /\ signed' = "out" /\ shown' = None /\ success' = NoSuccess
    /\ UNCHANGED <<server, live, issued, expired, refresh, key>>
    /\ Blind(Excuse((IF outcome = "lost" THEN {"logout lost"} ELSE {})
                      \cup (IF \E t \in Tabs : refresh[t].at # "none"
                            THEN {"refresh during logout"} ELSE {})), FALSE)

End(c, outcome) ==
    \/ c = "punch" /\ EndPunch(outcome)
    \/ c \in Reloads /\ EndReload(c, outcome)
    \/ c = "logout" /\ EndLogout(outcome)

Asked(t) == [at |-> "sent", token |-> cookie', reply |-> 0]
Overlap(t) == IF \E u \in Tabs \ {t} : refresh[u].at # "none" THEN {"two tabs"} ELSE {}

\* Defects: no refresh is asked for; a pending one is not shared.
NotAsked == refresh
NotShared == [refresh EXCEPT !["app"] = Asked("app")]

\* refreshSession: a pending refresh is shared.
Shared == IF refresh["app"].at # "none" THEN refresh
          ELSE [refresh EXCEPT !["app"] = Asked("app")]

\* The first 401 of a request waits for a refresh.
Await(c) ==
    /\ call[c].reply = "401" /\ call[c].first
    /\ call' = [call EXCEPT ![c].at = "waiting"]
    /\ UNCHANGED <<server, session, access, screen, key, success>>
    /\ refresh' = Shared
    /\ past' = IF refresh["app"].at = "none" THEN Excuse(Overlap("app")) ELSE past

Deliver(c) ==
    /\ call[c].at = "served"
    /\ \/ Await(c)
       \/ ~(call[c].reply = "401" /\ call[c].first) /\ End(c, call[c].reply)
    /\ UNCHANGED <<stray, counters>>

\* A request that was given up may have got through.
Lose(c) ==
    /\ Event
    /\ call[c].at \in {"sent", "served"}
    /\ End(c, "lost")
    /\ stray' = IF c = "punch" /\ call[c].at = "sent" THEN call[c] ELSE stray

\* The answer of a refresh is lost, its cookie perhaps not.
CookiesAfterLoss(t) == {cookie} \cup (IF refresh[t].reply # 0 THEN {refresh[t].reply} ELSE {})
Costs(t) == IF refresh[t].reply # 0 /\ cookie' # refresh[t].reply
            THEN {"refresh lost"} ELSE {}

\* Defect: those who wait for the refresh are forgotten.
NoneFail == call
WaitersFail == [c \in Calls |-> IF call[c].at = "waiting" THEN Idle ELSE call[c]]

FailRefresh ==
    /\ refresh' = [refresh EXCEPT !["app"] = NoRefresh]
    /\ call' = WaitersFail
    /\ access' = 0 /\ signed' = "out" /\ shown' = None /\ success' = NoSuccess
    /\ UNCHANGED <<server, live, issued, expired, stray, key>>

\* The waiting requests are sent again, once; a session restored at the start
\* opens the dashboard, which asks for the day.
DeliverRefresh ==
    LET reply == refresh["app"].reply
        again == [c \in Calls |-> IF call[c].at # "waiting" THEN call[c]
                    ELSE [call[c] EXCEPT !.at = "sent", !.first = FALSE, !.reply = "none",
                                         !.bearer = reply]]
        opens == [c \in Calls |-> IF c = CHOOSE d \in Reloads : TRUE
                                  THEN [Idle EXCEPT !.at = "sent", !.bearer = reply]
                                  ELSE again[c]]
    IN  /\ refresh["app"].at = "served"
        /\ \/ reply = 0 /\ FailRefresh /\ UNCHANGED <<cookie, past>>
           \/ /\ reply # 0
              /\ refresh' = [refresh EXCEPT !["app"] = NoRefresh]
              /\ cookie' = reply /\ access' = reply
              /\ signed' = IF signed = "booting" THEN "in" ELSE signed
              /\ call' = IF signed = "booting" THEN opens ELSE again
              /\ UNCHANGED <<server, live, issued, expired, stray, shown, key, success, past>>
        /\ UNCHANGED counters

LoseRefresh ==
    /\ Event
    /\ refresh["app"].at # "none"
    /\ cookie' \in CookiesAfterLoss("app")
    /\ FailRefresh
    /\ past' = Excuse(Costs("app"))

\* Another tab of the browser starts and restores the session.
OpenTab ==
    /\ Event
    /\ refresh["tab"].at = "none" /\ cookie # 0
    /\ UNCHANGED <<server, session, call, stray, access, screen, key, success>>
    /\ refresh' = [refresh EXCEPT !["tab"] = Asked("tab")]
    /\ past' = Excuse(Overlap("tab"))

TabRestored ==
    /\ refresh["tab"].at = "served"
    /\ cookie' = IF refresh["tab"].reply # 0 THEN refresh["tab"].reply ELSE cookie
    /\ refresh' = [refresh EXCEPT !["tab"] = NoRefresh]
    /\ UNCHANGED <<server, live, issued, expired, call, stray, access, screen, key,
                   success, counters, past>>

\* The page is reloaded, or the phone killed the app: only the cookie remains.
ColdStart ==
    /\ Event
    /\ cookie' \in CookiesAfterLoss("app")
    /\ refresh' = [refresh EXCEPT !["app"] = Asked("app")]
    /\ call' = [c \in Calls |-> Idle]
    /\ stray' = IF call["punch"].at = "sent" THEN call["punch"] ELSE stray
    /\ access' = 0 /\ signed' = "booting" /\ shown' = None
    /\ key' = 0 /\ success' = NoSuccess
    /\ UNCHANGED <<server, live, issued, expired>>
    /\ past' = [past EXCEPT !.excuses = @ \cup Costs("app") \cup Overlap("app")
                               \cup (IF call["logout"].at # "idle" THEN {"logout lost"} ELSE {}),
                            !.loose = IF key # 0 THEN @ \cup {key} ELSE @,
                            !.blind = FALSE]

-----------------------------------------------------------------------------
Serve(c) == \/ c = "punch" /\ ServePunch
            \/ c \in Reloads /\ ServeReload(c)
            \/ c = "logout" /\ ServeLogout

Next ==
    \/ Press \/ CaptureFails \/ SendPunch \/ AskAgain \/ SignOut
    \/ \E c \in Calls : Serve(c) \/ Deliver(c) \/ Lose(c)
    \/ ServeStray \/ ExpireAccess \/ ChangeElsewhere
    \/ \E t \in Tabs : ServeRefresh(t)
    \/ DeliverRefresh \/ LoseRefresh \/ OpenTab \/ TabRestored \/ ColdStart

\* The browser answers or refuses a position in time (15 s), and a fetch ends,
\* with an answer or without; the member is free to do nothing.
Fairness ==
    /\ WF_vars(SendPunch \/ CaptureFails)
    /\ \A c \in Calls : WF_vars(Serve(c)) /\ WF_vars(Deliver(c))
    /\ WF_vars(ServeRefresh("app")) /\ WF_vars(DeliverRefresh)

Spec == Init /\ [][Next]_vars /\ Fairness
=============================================================================
