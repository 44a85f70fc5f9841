--------------------------- MODULE PhoneProperties ---------------------------
(***************************************************************************)
(* What a member can rely on, with the app on one side of the network and   *)
(* the server on the other.                                                *)
(***************************************************************************)
EXTENDS Phone

Excuses == {"signout", "logout lost", "refresh during logout", "two tabs", "refresh lost"}
Requests == [at : {"idle", "locating", "sent", "served", "waiting"}, dir : {"in", "out"},
             key : 0 .. MaxPresses, token : Nat, bearer : Nat, first : BOOLEAN,
             reply : {"none", "ok", "conflict", "rejected", "401"}, sees : Nat]

RefreshRows(n) == [at : {"none", "sent", "served"}, token : 0 .. n, reply : 0 .. n]
Pasts == [excuses : SUBSET Excuses, uses : SUBSET (Keys \X {"in", "out"}),
          unanswered : SUBSET Keys, loose : SUBSET Keys, blind : BOOLEAN]

TokensOK ==
    /\ issued \in Nat /\ live \in 0 .. issued /\ expired \in 0 .. issued
    /\ cookie \in 0 .. issued /\ access \in 0 .. issued
    /\ refresh \in [Tabs -> RefreshRows(issued)]
CallsOK ==
    /\ call \in [Calls -> Requests] /\ stray \in Requests
    /\ \A c \in Calls : /\ call[c].at = "waiting" => refresh["app"].at # "none"
                        /\ call[c].sees <= changes
AppOK ==
    /\ signed \in {"booting", "in", "out"} /\ shown \in {None} \cup 0 .. changes
    /\ key \in 0 .. presses /\ presses \in 0 .. MaxPresses /\ events \in 0 .. MaxEvents
    /\ success \in [dir : {"none", "in", "out"}, key : 0 .. MaxPresses]

\* Types; a request waits only while a refresh is on its way, and no number refers
\* to a token or a change that does not exist yet (apiClient.js:127-138).
TypeOK ==
    /\ changes \in Nat /\ made \in [Keys -> -1 .. changes]
    /\ TokensOK /\ CallsOK /\ AppOK /\ past \in Pasts

\* The app shares one refresh promise so that its requests do not spend a token twice
\* (apiClient.js:78-94).  A second refresh may follow the first; but however the app's
\* own requests expire and overlap, the server never takes one for the use of a stolen
\* token and ends the session.  It ends by a sign-out, by the refresh of a second tab
\* of the browser at the same time, or by the loss of the answer to a refresh.
PromiseSuffices == live = 0 => past.excuses # {}

\* After a sign-out the app does not come back signed in, whatever was under way and
\* however often it is started, unless the sign-out was lost or a refresh was still
\* on its way, whose answer sets a new cookie (authService.js:37-43, auth.py:160-173).
SignedOutStays ==
    /\ "signout" \in past.excuses /\ call["logout"].at = "idle" /\ signed = "in"
    => past.excuses \cap {"logout lost", "refresh during logout"} # {}

MadeAs(k, dir) == made[k] \in Nat \ {0} /\ Present(made[k]) = (dir = "in")

\* "A key survives retries of the SAME user intent" (usePunch.js:32-33), so that the
\* sheet titled "Punched in" or "Punched out" (Dashboard.jsx:235) tells what the press
\* did: the change its key made is one in its direction.
SheetTellsThePress == success # NoSuccess => MadeAs(success.key, success.dir)

\* It does, however often a press is retried and whatever is lost, unless an answer to
\* the key was lost and the key was then used for a press the other way as well
\* (usePunch.js:89-96, _duplicate_outcome at attendance_service.py:247-275).
BothWays(k) == <<k, "in">> \in past.uses /\ <<k, "out">> \in past.uses
SuccessIsTrue ==
    success # NoSuccess =>
      \/ MadeAs(success.key, success.dir)
      \/ success.key \in past.unanswered /\ BothWays(success.key)

\* A key is decided once, and only while the app still holds it: no late request
\* punches after the member has been told the outcome.  The exceptions are keys given
\* up after a conflict, of which the server keeps no record
\* (attendance_service.py:306-310, 419-423; usePunch.js:103-110), and those forgotten
\* with the page.
DecidedWhileHeld ==
    [][\A k \in Keys :
          made'[k] # made[k] => /\ made[k] = Undecided
                                /\ k = key \/ k \in past.loose]_vars

\* When nothing is on its way the screen shows the person's state, except if it has
\* changed elsewhere, an answer was lost, or an older answer arrived last and was
\* shown over a newer one (useAsync.js:20-21).
RestedScreenIsCurrent ==
    /\ \A c \in Calls : call[c].at = "idle"
    /\ signed = "in" /\ shown # None
    => Present(shown) = Present(changes) \/ past.blind

\* A press is answered, with a result or an error: the button does not stay busy
\* through expired tokens, failed refreshes and lost requests (usePunch.js:141).
PressIsAnswered == call["punch"].at # "idle" ~> call["punch"].at = "idle"

-----------------------------------------------------------------------------
(* The inductive invariant behind them.                                    *)

\* The key of a request on its way is the one the app holds.
KeyIsHeld ==
    call["punch"].at \in {"sent", "served", "waiting"} =>
        key = call["punch"].key /\ key \in Keys

\* A key that the app or a request has, or that was decided, is of an earlier press
\* than the one whose position is still awaited.
KeysAreOld ==
    /\ call["punch"].at = "locating" => presses # 0
    /\ \A k \in Keys :
          k = key \/ made[k] # Undecided \/ (stray.at = "sent" /\ k = stray.key)
          => k <= presses /\ (call["punch"].at = "locating" => k < presses)

\* What was sent is on record, and a change was made by a request that was sent for it.
UsesFit ==
    /\ LET q == call["punch"]
       IN  q.at \in {"sent", "served", "waiting"} => <<q.key, q.dir>> \in past.uses
    /\ stray.at = "sent" => <<stray.key, stray.dir>> \in past.uses
    /\ \A k \in Keys :
          made[k] \in Nat \ {0} =>
            \E dir \in {"in", "out"} : <<k, dir>> \in past.uses /\ MadeAs(k, dir)

Told(k, dir) == MadeAs(k, dir) \/ (k \in past.unanswered /\ BothWays(k))

\* What the answer on its way says of the key.
AnswerFits ==
    LET q == call["punch"]
    IN  q.at = "served" =>
          /\ q.reply \in {"ok", "rejected"} => made[q.key] # Undecided
          /\ q.reply = "ok" => Told(q.key, q.dir)

\* A key still held was decided without the app knowing, or it will know.
SpentKeyIsKnown ==
    key # 0 /\ made[key] # Undecided =>
        \/ key \in past.unanswered
        \/ call["punch"].at = "served" /\ call["punch"].reply \in {"ok", "rejected"}

\* A request given up carries a key whose answer was lost, or one given up with it.
StrayFits ==
    stray.at = "sent" =>
        /\ stray.key \in Keys
        /\ stray.key = key => key \in past.unanswered
        /\ made[stray.key] # Undecided \/ stray.key = key \/ stray.key \in past.loose

SheetFits ==
    success # NoSuccess =>
        /\ success.key \in Keys
        /\ Told(success.key, success.dir)

RefreshFits == \A t \in Tabs : refresh[t].at # "served" => refresh[t].reply = 0

\* While nothing has happened that may cost the session, one refresh at most is on
\* its way, with the live token or with its successor.
OneRefresh ==
    past.excuses = {} =>
        /\ live # 0 /\ call["logout"].at = "idle"
        /\ refresh["app"].at = "none" \/ refresh["tab"].at = "none"
        /\ \A t \in Tabs :
              /\ refresh[t].at = "sent" => refresh[t].token = live /\ cookie = live
              /\ refresh[t].at = "served" => refresh[t].reply = live
        /\ (\A t \in Tabs : refresh[t].at = "none") => cookie = live

LogoutFits ==
    /\ call["logout"].at \in {"idle", "sent", "served"}
    /\ call["logout"].at = "served" => call["logout"].reply = "ok"

\* After a sign-out nothing is left to restore the session with.
NothingToRestore ==
    "signout" \in past.excuses
    /\ past.excuses \cap {"logout lost", "refresh during logout"} = {} =>
        \/ call["logout"].at # "idle"
        \/ /\ signed # "in" /\ cookie = 0
           /\ \A t \in Tabs : /\ refresh[t].at = "sent" => refresh[t].token = 0
                              /\ refresh[t].at = "served" => refresh[t].reply = 0

\* Before the first screen there is no punch, and no answer but one that is current.
FirstScreen ==
    /\ signed = "booting" => shown = None /\ \A c \in Calls : call[c].at = "idle"
    /\ signed = "in" /\ shown = None =>
          /\ call["punch"].at = "idle"
          /\ \/ past.blind
             \/ \A c \in Reloads : call[c].at = "served" /\ call[c].reply = "ok"
                                    => call[c].sees = changes

\* An out-of-date screen will be reloaded, or is so for a known reason.
Comes(c) == \/ call[c].at \in {"sent", "waiting"}
            \/ /\ call[c].at = "served"
               /\ call[c].reply = "ok" => call[c].sees = changes
ReloadComes ==
    signed = "in" /\ shown # None =>
        \/ shown = changes \/ past.blind
        \/ call["punch"].at = "served" /\ call["punch"].reply = "ok"
        \/ \E c \in Reloads : Comes(c)

KeyInv == /\ KeyIsHeld /\ KeysAreOld /\ UsesFit /\ AnswerFits /\ SpentKeyIsKnown
          /\ StrayFits /\ SheetFits
SessionInv == RefreshFits /\ OneRefresh /\ LogoutFits /\ NothingToRestore
ScreenInv == FirstScreen /\ ReloadComes
IInv == TypeOK /\ KeyInv /\ SessionInv /\ ScreenInv
=============================================================================
