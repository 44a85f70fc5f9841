-------------------------- MODULE PunchProperties --------------------------
(***************************************************************************)
(* What must hold of PunchService: invariants, action properties, liveness *)
(* under the fairness PostgreSQL's lock queues and cron give, and the      *)
(* refinement of Attendance.                                               *)
(***************************************************************************)
EXTENDS PunchService

Times == 0 .. MaxClock
Request == [user : Users, type : Types, key : Keys \cup {NoKey}, now : Nat,
            active : BOOLEAN]
SessionRow == [user : Users, work_date : Nat, punch_in : Nat,
               punch_out : Nat \cup {None}, duration : Nat \cup {None},
               status : {"ACTIVE", "COMPLETED", "AUTO_CLOSED"}]
EventRow == [user : Users, type : Types, key : Keys \cup {NoKey}, time : Nat,
             verdict : {"ACCEPTED", "REJECTED"}, session : Requests \cup {None}]
TotalsRow == [total : Nat, first : Nat \cup {None}, last : Nat \cup {None},
              status : {"ABSENT", "PRESENT", "CHECKED_OUT"}]
DayRow == [total : Nat, first : Nat \cup {None}, last : Nat \cup {None},
           status : {"ABSENT", "PRESENT", "CHECKED_OUT"}, late : BOOLEAN]

Answers == {"USER_DISABLED", "REPLAYED", "REPLAY_REJECTED", "DUPLICATE_REQUEST",
            "ALREADY_PUNCHED_IN", "NO_ACTIVE_SESSION", "INVALID_TIME", "REJECTED",
            "UNIQUE_VIOLATION", "PUNCHED_IN", "PUNCHED_OUT", "ABORTED"}

\* A missing value is no row and no answer.
ASSUME NoneIsNoRow ==
    None \notin SessionRow \cup EventRow \cup Request \cup Answers \cup DayRow

Stages == {"idle", "update", "audit", "load", "sum", "day", "commit"}

\* Control state and the rows punches write; no arithmetic on totals.
LedgerTypeOK ==
    /\ clock \in Nat
    /\ active \in [Users -> BOOLEAN]
    /\ sessions \in [Requests -> SessionRow \cup {None}]
    /\ events \in [Requests -> EventRow \cup {None}]
    /\ pc \in [Requests -> {"new", "lock", "locked", "day", "write", "done"}]
    /\ req \in [Requests -> Request \cup {None}]

DayTypeOK ==
    /\ days \in [Users -> [WorkDates -> DayRow \cup {None}]]
    /\ \A r \in Requests : tx[r] # None =>
          tx[r] \in [session : Requests, loaded : DayRow, totals : TotalsRow]
    /\ \A j \in Jobs :
          job[j] \in [stage : Stages, todo : SUBSET Requests,
                      cur : Requests \cup {None}, closed : SUBSET Requests,
                      loaded : DayRow \cup {None}, totals : TotalsRow \cup {None},
                      rows : [Requests -> DayRow \cup {None}],
                      owed : Users \cup {None}, shares : SUBSET Users]
    /\ answer \in [Requests -> Answers \cup {None}]
    /\ audits \in [Requests -> Nat]

\* Every variable has its type; the rows satisfy the columns' CHECKs.
TypeOK == LedgerTypeOK /\ DayTypeOK /\ crashes \in 0 .. MaxCrashes

-----------------------------------------------------------------------------
(* Safety.                                                                 *)

\* "A user has at most one open session at any time" (attendance_service.py,
\* module comment): whatever punches, aborts and auto-closes interleave.
OneOpenSession ==
    \A s1, s2 \in Requests :
        IsOpen(s1) /\ IsOpen(s2) /\ sessions[s1].user = sessions[s2].user => s1 = s2

\* The IntegrityError handler of punch_in is "defended by the row lock": the
\* unique index is a backstop that no interleaving of the program reaches.
UniqueIndexIsBackstop == \A r \in Requests : answer[r] # "UNIQUE_VIOLATION"

\* One idempotency key of one user decides at most one punch, so retries and
\* double taps that overlap never take effect twice, and the unique constraint
\* on punch_events, which would turn a retry into a bare CONFLICT, is never hit.
KeyDecidedOnce ==
    \A r1, r2 \in Requests :
        /\ events[r1] # None /\ events[r2] # None
        /\ events[r1].user = events[r2].user
        /\ events[r1].key = events[r2].key /\ events[r1].key # NoKey
        => r1 = r2

\* The forensic record and the attendance record tell the same story: every
\* session has its accepted IN event at its punch_in, and every session that
\* counts as verified has exactly one accepted OUT event, at its punch_out.
RecordsAgree ==
    /\ \A r \in Requests :
          sessions[r] # None <=>
              events[r] # None /\ events[r].verdict = "ACCEPTED" /\ events[r].type = "IN"
    /\ \A r \in Requests : sessions[r] # None =>
          /\ events[r].user = sessions[r].user /\ events[r].session = r
          /\ events[r].time = sessions[r].punch_in
    /\ \A s \in Requests :
          sessions[s] # None /\ sessions[s].status = "COMPLETED" =>
             \E r \in Requests :
                /\ events[r] # None /\ events[r].type = "OUT"
                /\ events[r].verdict = "ACCEPTED"
                /\ events[r].session = s /\ events[r].time = sessions[s].punch_out
                /\ \A q \in Requests \ {r} :
                      events[q] # None /\ events[q].type = "OUT" => events[q].session # s

\* The CHECK constraints of attendance_sessions hold at every commit, so none
\* of them ever turns a punch into a server error.
SessionChecks ==
    \A s \in Requests : sessions[s] # None =>
        LET row == sessions[s]
        IN  /\ row.punch_out # None => row.punch_out > row.punch_in
            /\ (row.punch_out = None) <=> (row.duration = None)
            /\ (row.punch_out = None) <=> (row.status = "ACTIVE")

\* A session once closed is never reopened, and no step moves a session to
\* another user, day or start.
ClosedStaysClosed ==
    [][\A s \in Requests : sessions[s] # None =>
          /\ sessions'[s] # None
          /\ sessions'[s].user = sessions[s].user
          /\ sessions'[s].work_date = sessions[s].work_date
          /\ sessions'[s].punch_in = sessions[s].punch_in
          /\ ~IsOpen(s) => sessions'[s].punch_out # None]_vars

\* The committed row of a day says what its committed sessions add up to.
TotalsRight(u, d) ==
    LET sums == DayTotals(sessions, u, d)
    IN  \/ days[u][d] = None /\ sums.status = "ABSENT"
        \/ /\ days[u][d] # None
           /\ days[u][d].total = sums.total
           /\ days[u][d].last = sums.last
           /\ days[u][d].status = sums.status

\* Session s has been closed by two maintenance runs, or by one and by a punch_out:
\* it has two records of its end.
EndedTwice(s) ==
    \/ audits[s] > 1
    \/ /\ audits[s] = 1
       /\ \E r \in Requests : /\ events[r] # None /\ events[r].type = "OUT"
                              /\ events[r].session = s

\* A day's stored totals are those of its sessions in every committed state, days
\* both punched out of and auto-closed and overlapping maintenance runs included,
\* unless a session of that very day was closed twice over (recompute_day_totals,
\* which sums before it has the row of the day to itself).
DayTotalsAgree ==
    \A u \in Users, d \in WorkDates :
        \/ TotalsRight(u, d)
        \/ \E s \in Requests : /\ sessions[s] # None /\ sessions[s].user = u
                               /\ sessions[s].work_date = d /\ EndedTwice(s)

\* Any order of the commits of one user's punches is one of alternating punch
\* ins and punch outs, retries included: the detailed system is an Attendance.
Present == [u \in Users |-> Open(u) # {}]
Decided == [r \in Requests |->
    IF events[r] = None THEN None
    ELSE [user |-> events[r].user, key |-> events[r].key,
          effect |-> IF events[r].verdict = "ACCEPTED" THEN events[r].type
                                                       ELSE "REJECTED"]]

A == INSTANCE Attendance WITH present <- Present, decided <- Decided

ImplementsAttendance == A!Spec

-----------------------------------------------------------------------------
(* The inductive invariant behind OneOpenSession, UniqueIndexIsBackstop,    *)
(* KeyDecidedOnce and the refinement.                                      *)

InFlight(r) == pc[r] \notin {"new", "done"}
HasUserLock(r) == pc[r] \in {"locked", "day", "write"}

\* A request carries its inputs, goes the way of its type, and writes its rows
\* when it commits.
RowsAreCommitted ==
    \A r \in Requests : /\ InFlight(r) => req[r] # None
                        /\ pc[r] = "day" => req[r].type = "IN"
                        /\ pc[r] = "write" => req[r].type = "OUT"
                        /\ pc[r] # "done" => sessions[r] = None /\ events[r] = None

\* Two requests of one user are never both past the user lock.
UserLockExclusive ==
    \A r, q \in Requests :
        HasUserLock(r) /\ HasUserLock(q) /\ req[r].user = req[q].user => r = q

\* What a request checked under the user lock is still so when it commits.
ChecksStillHold ==
    \A r \in Requests :
        /\ pc[r] \in {"day", "write"} => Prior(r) = {}
        /\ pc[r] = "day" => Open(req[r].user) = {}
        /\ pc[r] = "write" =>
              /\ tx[r].session \in Open(req[r].user)
              /\ req[r].now > sessions[tx[r].session].punch_in
              /\ \A j \in Jobs : tx[r].session \notin job[j].closed

\* A maintenance run only ever names sessions that exist.
JobsNameSessions ==
    \A j \in Jobs : \A s \in Requests :
        s \in job[j].todo \cup job[j].closed \cup {job[j].cur} => sessions[s] # None

\* The remaining variables are functions over the right sets.
Shapes ==
    /\ tx = [r \in Requests |-> tx[r]]
    /\ answer = [r \in Requests |-> answer[r]]
    /\ job = [j \in Jobs |-> job[j]]
    /\ \A j \in Jobs : DOMAIN job[j] = DOMAIN NoJob

\* A punch_out names no session but one that it, or a maintenance run, has ended.
OutsEndSessions ==
    \A s, r \in Requests :
        events[r] # None /\ events[r].type = "OUT" /\ events[r].session = s
            => sessions[s] # None /\ ~IsOpen(s)

IInv == /\ LedgerTypeOK
        /\ Shapes
        /\ RowsAreCommitted
        /\ UserLockExclusive
        /\ ChecksStillHold
        /\ JobsNameSessions
        /\ OneOpenSession
        /\ KeyDecidedOnce
        /\ UniqueIndexIsBackstop

-----------------------------------------------------------------------------
(* What comments and documents say that the code does not do.              *)

\* "Automatically closed: no punch out was recorded within {auto_close_after_hours}h.":
\* an auto-closed session has no accepted punch_out from within that time.
AutoCloseNoteIsTrue ==
    \A s, r \in Requests :
        sessions[s] # None /\ sessions[s].status = "AUTO_CLOSED" =>
            ~ /\ events[r] # None /\ events[r].verdict = "ACCEPTED"
              /\ events[r].type = "OUT" /\ events[r].session = s
              /\ events[r].time <= sessions[s].punch_in + AutoCloseAfter

\* A punch is only accepted for a user who is active ("State - user active").
AcceptedOnlyWhileActive ==
    [][\A r \in Requests :
          events[r] = None /\ events'[r] # None /\ events'[r].verdict = "ACCEPTED"
              => active[events'[r].user]]_vars

-----------------------------------------------------------------------------
(* Liveness.                                                               *)

\* A thread runs its request to the end; PostgreSQL queues the waiters of a row
\* lock, so whoever waits gets it when it is released (for each session a run
\* waits for, too), and breaks wait cycles; cron runs maintenance again and again.
Step(r) == \/ LockUser(r) \/ Replay(r) \/ RefuseIn(r) \/ RefuseOut(r) \/ RejectPunch(r)
           \/ AcceptIn(r) \/ CommitIn(r) \/ RefuseTime(r) \/ AcceptOut(r) \/ CommitOut(r)

Fairness ==
    /\ \A r \in Requests : SF_vars(Step(r))
    /\ \A j \in Jobs : SF_vars(Maintain(j))
    /\ \A j \in Jobs, s \in Requests : SF_vars(JobUpdate(j) /\ job[j].cur = s)
    /\ \A p \in Requests \cup Jobs : WF_vars(BreakWaitCycle(p))

FairSpec == Spec /\ Fairness

\* Every request that reached the service is answered, even when it waits for
\* the maintenance job, the job for it, or both for each other.
EveryRequestAnswered ==
    \A r \in Requests : pc[r] = "lock" ~> pc[r] = "done"

\* A session left open past the cutoff is eventually closed by someone.
StaleSessionsClosed == \A s \in Requests : Stale(s) ~> ~IsOpen(s)
=============================================================================
