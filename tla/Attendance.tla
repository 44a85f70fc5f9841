----------------------------- MODULE Attendance -----------------------------
(***************************************************************************)
(* What the punch system promises, without transactions, locks or clocks:  *)
(* every user is either punched in or not, an accepted punch flips that    *)
(* state in the right direction only, the maintenance job may end the      *)
(* presence of users who forgot to punch out, every request is decided at  *)
(* most once and so is every idempotency key of a user.                    *)
(***************************************************************************)
CONSTANTS
    Users,      \* the people who punch
    Keys,       \* Idempotency-Key header values
    NoKey,      \* a request without that header
    Requests,   \* punch requests
    None        \* not decided

VARIABLES
    present,    \* present[u]: user u has an open session
    decided     \* decided[r]: what the system recorded for request r

avars == <<present, decided>>

Init ==
    /\ present = [u \in Users |-> FALSE]
    /\ decided = [r \in Requests |-> None]

\* A decision is recorded once per request and spends the key it carries.
Decide(r, u, k, effect) ==
    /\ decided[r] = None
    /\ k # NoKey => \A q \in Requests :
          decided[q] = None \/ decided[q].user # u \/ decided[q].key # k
    /\ decided' = [decided EXCEPT ![r] = [user |-> u, key |-> k, effect |-> effect]]

PunchIn(r, u, k) ==
    /\ ~present[u]
    /\ present' = [present EXCEPT ![u] = TRUE]
    /\ Decide(r, u, k, "IN")

PunchOut(r, u, k) ==
    /\ present[u]
    /\ present' = [present EXCEPT ![u] = FALSE]
    /\ Decide(r, u, k, "OUT")

\* The location was not accepted: recorded, with no effect on presence.
RejectPunch(r, u, k) ==
    /\ Decide(r, u, k, "REJECTED")
    /\ UNCHANGED present

\* One maintenance transaction closes the forgotten sessions of some users.
AutoClose(closed) ==
    /\ present' = [u \in Users |-> present[u] /\ u \notin closed]
    /\ UNCHANGED decided

Next ==
    \/ \E r \in Requests, u \in Users, k \in Keys \cup {NoKey} :
          PunchIn(r, u, k) \/ PunchOut(r, u, k) \/ RejectPunch(r, u, k)
    \/ \E closed \in SUBSET Users : AutoClose(closed)

Spec == Init /\ [][Next]_avars
=============================================================================
