---------------------------- MODULE PunchService ----------------------------
(***************************************************************************)
(* Punch processing over PostgreSQL (READ COMMITTED): the punch_in and     *)
(* punch_out transactions of services/attendance_service.py, the auto-close *)
(* transaction of the maintenance job and an administrator's set_status,   *)
(* interleaved at the points where one of them can wait for another or see *)
(* its effects.                                                            *)
(*                                                                         *)
(* sessions, events and days are the COMMITTED tables.  What a transaction *)
(* has read or will write stays in tx (a punch) or job (a maintenance run) *)
(* until its commit.  A punch writes at most one event row and one new     *)
(* session row, so both are named by the request that wrote them.  A row   *)
(* lock lasts until commit or rollback: who holds it follows from how far  *)
(* the transaction has got (HoldsUser, HoldsSession, HoldsDay, KeyShares). *)
(***************************************************************************)
EXTENDS Integers, FiniteSetsExt

CONSTANTS
    Users, Keys, NoKey,     \* people; Idempotency-Key values; "no header"
    Requests,               \* punch requests that reach a worker thread
    Jobs,                   \* maintenance processes that may overlap
    None,                   \* SQL NULL, Python None, or a missing row
    AutoCloseAfter,         \* workspace.auto_close_after_hours, in clock ticks
    DayTicks, LateAfter,    \* length of a calendar day; late threshold in it
    TicksPerSecond,         \* clock resolution below a second
    MaxClock, MaxCrashes,   \* bounds: last clock value, lost transactions,
    MaxLag,                 \* ticks that may pass while a request is in flight
    Managed                 \* users whose status an administrator may change

ASSUME ConstantsAssumption ==
    /\ None \notin Users \cup Requests \cup Jobs \cup Int
    /\ NoKey \notin Keys
    /\ Managed \subseteq Users
    /\ Requests \cap Jobs = {}
    /\ AutoCloseAfter \in Nat \ {0} /\ DayTicks \in Nat \ {0}
    /\ TicksPerSecond \in Nat \ {0} /\ LateAfter \in Nat
    /\ MaxClock \in Nat /\ MaxCrashes \in Nat /\ MaxLag \in Nat

VARIABLES
    clock,      \* the server clock, utcnow()
    active,     \* active[u]: users.status = ACTIVE, committed
    sessions,   \* attendance_sessions, by the punch_in request that inserted it
    events,     \* punch_events, by the request that inserted it
    days,       \* attendance_days, by user and work_date
    audits,     \* audit_logs: SESSION_AUTO_CLOSED entries of each session
    pc,         \* how far each punch request has got
    req,        \* what each request carries and read before it took a lock
    tx,         \* what each punch_out read under its locks, before its commit
    answer,     \* the HTTP answer of each request, None before it is given
    job,        \* the state of each maintenance process
    crashes     \* transactions lost to a crash so far

tables == <<sessions, events, days, audits>>
vars == <<clock, active, sessions, events, days, audits, pc, req, tx, answer, job, crashes>>

Types == {"IN", "OUT"}
WorkDates == 0 .. (MaxClock \div DayTicks)

WorkDate(t) == t \div DayTicks          \* core/time.local_date
Seconds(d) == d \div TicksPerSecond     \* int(timedelta.total_seconds())
IsLate(t) == t % DayTicks > LateAfter

\* An ORM-issued UPDATE names only the columns whose value the transaction
\* changed since it loaded the row; the others keep what is stored now.
Overwrite(stored, loaded, new) ==
    [f \in DOMAIN stored |->
        IF f \in DOMAIN new /\ new[f] # loaded[f] THEN new[f] ELSE stored[f]]

-----------------------------------------------------------------------------
(* Sessions and the day row derived from them.                             *)

IsOpen(s) == sessions[s] # None /\ sessions[s].punch_out = None
\* Defect: a session left open on an earlier day is not looked at.
OpenToday(u) ==
    {s \in Requests : /\ IsOpen(s) /\ sessions[s].user = u
                      /\ sessions[s].work_date = WorkDate(clock)}
Open(u) == {s \in Requests : IsOpen(s) /\ sessions[s].user = u}

\* Defects: the operands swapped; the session moved to the day it ends on.
CompletedBackwards(row, t) ==
    [row EXCEPT !.punch_out = t, !.duration = Seconds(row.punch_in - t),
                !.status = "COMPLETED"]
CompletedOnLastDay(row, t) ==
    [row EXCEPT !.punch_out = t, !.duration = Seconds(t - row.punch_in),
                !.status = "COMPLETED", !.work_date = WorkDate(t)]

Completed(row, t) ==
    [row EXCEPT !.punch_out = t, !.duration = Seconds(t - row.punch_in),
                !.status = "COMPLETED"]

\* Defect: the status is set, the end of the session is not.
AutoClosedWithoutEnd(row) == [row EXCEPT !.status = "AUTO_CLOSED"]

AutoClosed(row) ==
    [row EXCEPT !.punch_out = row.punch_in + AutoCloseAfter,
                !.duration = Seconds(AutoCloseAfter), !.status = "AUTO_CLOSED"]

\* recompute_day_totals over a view of the sessions table.
DayTotals(view, u, d) ==
    LET mine   == {s \in Requests : view[s] # None /\ view[s].user = u
                                                   /\ view[s].work_date = d}
        closed == {s \in mine : view[s].punch_out # None}
    IN  [total  |-> SumFunction([s \in closed |-> view[s].duration]),
         first  |-> IF mine = {} THEN None ELSE Min({view[s].punch_in : s \in mine}),
         last   |-> IF closed = {} THEN None ELSE Max({view[s].punch_out : s \in closed}),
         status |-> IF mine # closed THEN "PRESENT"
                    ELSE IF mine # {} THEN "CHECKED_OUT" ELSE "ABSENT"]

\* The day row after a punch_in at t: created by the upsert when missing.
DayAfterPunchIn(row, t) ==
    IF row = None
    THEN [total |-> 0, first |-> t, last |-> None, status |-> "PRESENT",
          late |-> IsLate(t)]
    ELSE [row EXCEPT !.status = "PRESENT",
                     !.first = IF row.first = None THEN t ELSE row.first,
                     !.late = IF row.first = None THEN IsLate(t) ELSE row.late]

-----------------------------------------------------------------------------
(* Row locks.                                                              *)

\* Defects: the lock ends with the checks; an error path keeps its transaction.
HoldsUserForChecks(r, u) == pc[r] = "locked" /\ req[r].user = u
HoldsUserAfterError(r, u) ==
    /\ \/ pc[r] \in {"locked", "day", "write"}
       \/ answer[r] = "NO_ACTIVE_SESSION"
    /\ req[r].user = u

HoldsUser(r, u) == pc[r] \in {"locked", "day", "write"} /\ req[r].user = u
KeyShares(j, u) == u \in job[j].shares
HoldsSession(p, s) ==
    IF p \in Jobs THEN s \in job[p].closed
                  ELSE pc[p] = "write" /\ tx[p].session = s
HoldsDay(j, u, d) ==
    \E s \in Requests : job[j].rows[s] # None /\ sessions[s].user = u
                                              /\ sessions[s].work_date = d

Procs == Requests \cup Jobs

SessionFree(p, s) == \A q \in Procs \ {p} : ~HoldsSession(q, s)
DayFree(p, u, d) == \A j \in Jobs \ {p} : ~HoldsDay(j, u, d)

\* Defect: a key used for a punch in is taken to be new for a punch out.
PriorOfType(r) == {e \in Requests : /\ events[e] # None
                                    /\ events[e].user = req[r].user
                                    /\ events[e].type = req[r].type
                                    /\ events[e].key = req[r].key
                                    /\ req[r].key # NoKey}

\* Events of this user that already carry this request's key.
Prior(r) == {e \in Requests : /\ events[e] # None
                              /\ events[e].user = req[r].user
                              /\ events[e].key = req[r].key
                              /\ req[r].key # NoKey}

\* Defect: the clock is read a second time for the event.
EventAtCommit(r, verdict, s) ==
    [user |-> req[r].user, type |-> req[r].type, key |-> req[r].key,
     time |-> clock, verdict |-> verdict, session |-> s]

Event(r, verdict, s) ==
    [user |-> req[r].user, type |-> req[r].type, key |-> req[r].key,
     time |-> req[r].now, verdict |-> verdict, session |-> s]

\* p cannot go on before q ends its transaction.
WaitsFor(p, q) ==
    \/ /\ p \in Requests /\ pc[p] = "lock"
       /\ \/ q \in Requests /\ HoldsUser(q, req[p].user)
          \/ q \in Jobs /\ KeyShares(q, req[p].user)
    \/ /\ p \in Requests /\ pc[p] = "locked" /\ req[p].type = "OUT"
       /\ Prior(p) = {}
       /\ \E s \in Open(req[p].user) : HoldsSession(q, s)
    \/ /\ p \in Requests /\ pc[p] = "day" /\ q \in Jobs
       /\ HoldsDay(q, req[p].user, WorkDate(req[p].now))
    \/ /\ p \in Requests /\ pc[p] = "write" /\ q \in Jobs
       /\ HoldsDay(q, req[p].user, sessions[tx[p].session].work_date)
    \/ /\ p \in Jobs /\ job[p].stage = "update" /\ HoldsSession(q, job[p].cur)
    \/ /\ p \in Jobs /\ job[p].stage \in {"audit", "commit"}
       /\ q \in Requests /\ HoldsUser(q, job[p].owed)
    \/ /\ p \in Jobs /\ job[p].stage = "day" /\ q \in Jobs
       /\ LET row == sessions[job[p].cur]
          IN  HoldsDay(q, row.user, row.work_date)

\* PostgreSQL cancels a transaction that waits in a cycle.
InWaitCycle(p) ==
    \E S \in SUBSET Procs :
        /\ p \in S
        /\ \A a \in S : /\ \E b \in S \ {a} : WaitsFor(a, b)
                        /\ \E b \in S \ {a} : WaitsFor(b, a)

-----------------------------------------------------------------------------
(* A punch request.                                                        *)

NoJob == [stage |-> "idle", todo |-> {}, cur |-> None, closed |-> {},
          loaded |-> None, totals |-> None, rows |-> [s \in Requests |-> None],
          owed |-> None, shares |-> {}]

Init ==
    /\ clock = 0 /\ crashes = 0
    /\ active = [u \in Users |-> TRUE]
    /\ sessions = [r \in Requests |-> None]
    /\ events = [r \in Requests |-> None]
    /\ days = [u \in Users |-> [d \in WorkDates |-> None]]
    /\ audits = [s \in Requests |-> 0]
    /\ pc = [r \in Requests |-> "new"]
    /\ req = [r \in Requests |-> None]
    /\ tx = [r \in Requests |-> None]
    /\ answer = [r \in Requests |-> None]
    /\ job = [j \in Jobs |-> NoJob]

\* The transaction of r ends and the request is answered with code c.
Answer(r, c) ==
    /\ pc' = [pc EXCEPT ![r] = "done"]
    /\ tx' = [tx EXCEPT ![r] = None]
    /\ answer' = [answer EXCEPT ![r] = c]

\* Authentication reads the user row; punch_in and punch_out then read the
\* clock.  Both happen before the user row is locked.
Begin(r, u, t, k) ==
    /\ pc[r] = "new" /\ active[u]
    /\ req' = [req EXCEPT ![r] = [user |-> u, type |-> t, key |-> k,
                                  now |-> clock, active |-> active[u]]]
    /\ pc' = [pc EXCEPT ![r] = "lock"]
    /\ UNCHANGED <<clock, active, tables, tx, answer, job, crashes>>

TurnAway(r, u) ==
    /\ pc[r] = "new" /\ ~active[u]
    /\ Answer(r, "USER_DISABLED")
    /\ UNCHANGED <<clock, active, tables, req, job, crashes>>

\* SELECT ... FOR UPDATE on the user row.  _assert_active then looks at the
\* object the authentication loaded, which the ORM session does not refresh.
LockUser(r) ==
    /\ pc[r] = "lock"
    /\ \A q \in Requests \ {r} : ~HoldsUser(q, req[r].user)
    /\ \A j \in Jobs : ~KeyShares(j, req[r].user)
    /\ IF req[r].active
       THEN pc' = [pc EXCEPT ![r] = "locked"] /\ UNCHANGED <<tx, answer>>
       ELSE Answer(r, "USER_DISABLED")
    /\ UNCHANGED <<clock, active, tables, req, job, crashes>>

\* The key was spent before: the original result is returned, nothing is done.
Replay(r) ==
    /\ pc[r] = "locked" /\ Prior(r) # {}
    /\ LET e == events[CHOOSE e \in Prior(r) : TRUE]
       IN  Answer(r, IF e.verdict = "REJECTED" THEN "REPLAY_REJECTED"
                     ELSE IF e.session = None THEN "DUPLICATE_REQUEST"
                     ELSE "REPLAYED")
    /\ UNCHANGED <<clock, active, tables, req, job, crashes>>

\* Defect: the state is checked and the key is not.
LegalWithoutKey(r, s) ==
    /\ pc[r] = "locked"
    /\ IF req[r].type = "IN"
       THEN s = None /\ Open(req[r].user) = {}
       ELSE s \in Open(req[r].user) /\ SessionFree(r, s)

\* A request that is not a replay and for which the state check passed; s is
\* the session a punch_out found and locked, None for a punch_in.
Legal(r, s) ==
    /\ pc[r] = "locked" /\ Prior(r) = {}
    /\ IF req[r].type = "IN"
       THEN s = None /\ Open(req[r].user) = {}
       ELSE s \in Open(req[r].user) /\ SessionFree(r, s)

RefuseIn(r) ==
    /\ pc[r] = "locked" /\ Prior(r) = {} /\ req[r].type = "IN"
    /\ Open(req[r].user) # {}
    /\ Answer(r, "ALREADY_PUNCHED_IN")
    /\ UNCHANGED <<clock, active, tables, req, job, crashes>>

RefuseOut(r) ==
    /\ pc[r] = "locked" /\ Prior(r) = {} /\ req[r].type = "OUT"
    /\ Open(req[r].user) = {}
    /\ Answer(r, "NO_ACTIVE_SESSION")
    /\ UNCHANGED <<clock, active, tables, req, job, crashes>>

\* The geofence turned the location down: _reject commits an event of its own.
RejectPunch(r) ==
    /\ \E s \in Requests \cup {None} : Legal(r, s)
    /\ events' = [events EXCEPT ![r] = Event(r, "REJECTED", None)]
    /\ Answer(r, "REJECTED")
    /\ UNCHANGED <<clock, active, sessions, days, audits, req, job, crashes>>

AcceptIn(r) ==
    /\ Legal(r, None)
    /\ pc' = [pc EXCEPT ![r] = "day"]
    /\ UNCHANGED <<clock, active, tables, req, tx, answer, job, crashes>>

\* get_or_create_day takes the day row, then the session is inserted and all
\* of it committed; the partial unique index refuses a second open session.
CommitIn(r) ==
    LET u == req[r].user
        t == req[r].now
        d == WorkDate(t)
    IN  /\ pc[r] = "day" /\ DayFree(r, u, d)
        /\ IF Open(u) # {}
           THEN Answer(r, "UNIQUE_VIOLATION") /\ UNCHANGED tables
           ELSE /\ sessions' = [sessions EXCEPT ![r] =
                      [user |-> u, work_date |-> d, punch_in |-> t,
                       punch_out |-> None, duration |-> None, status |-> "ACTIVE"]]
                /\ days' = [days EXCEPT ![u][d] = DayAfterPunchIn(@, t)]
                /\ events' = [events EXCEPT ![r] = Event(r, "ACCEPTED", r)]
                /\ Answer(r, "PUNCHED_IN") /\ UNCHANGED audits
        /\ UNCHANGED <<clock, active, req, job, crashes>>

\* "if now <= session.punch_in": the clock was read before the lock.
RefuseTime(r) ==
    /\ \E s \in Requests : Legal(r, s) /\ req[r].now <= sessions[s].punch_in
    /\ Answer(r, "INVALID_TIME")
    /\ UNCHANGED <<clock, active, tables, req, job, crashes>>

\* Defect: a punch out at the instant of the punch in gets through.
AcceptOutAtOnce(r) ==
    \E s \in Requests :
        LET row  == sessions[s]
            view == [sessions EXCEPT ![s] = Completed(row, req[r].now)]
        IN  /\ Legal(r, s) /\ req[r].now >= row.punch_in
            /\ tx' = [tx EXCEPT ![r] =
                  [session |-> s, loaded |-> days[row.user][row.work_date],
                   totals |-> DayTotals(view, row.user, row.work_date)]]
            /\ pc' = [pc EXCEPT ![r] = "write"]
            /\ UNCHANGED <<clock, active, tables, req, answer, job, crashes>>

\* The session is locked and updated, then the day row and the sums over its
\* sessions are read; the day row itself is not locked yet.
AcceptOut(r) ==
    \E s \in Requests :
        LET row  == sessions[s]
            view == [sessions EXCEPT ![s] = Completed(row, req[r].now)]
        IN  /\ Legal(r, s) /\ req[r].now > row.punch_in
            /\ tx' = [tx EXCEPT ![r] =
                  [session |-> s, loaded |-> days[row.user][row.work_date],
                   totals |-> DayTotals(view, row.user, row.work_date)]]
            /\ pc' = [pc EXCEPT ![r] = "write"]
            /\ UNCHANGED <<clock, active, tables, req, answer, job, crashes>>

CommitOut(r) ==
    LET s == tx[r].session
        u == sessions[s].user
        d == sessions[s].work_date
    IN  /\ pc[r] = "write" /\ DayFree(r, u, d)
        /\ sessions' = [sessions EXCEPT ![s] = Completed(@, req[r].now)]
        /\ days' = [days EXCEPT ![u][d] = Overwrite(@, tx[r].loaded, tx[r].totals)]
        /\ events' = [events EXCEPT ![r] = Event(r, "ACCEPTED", s)]
        /\ Answer(r, "PUNCHED_OUT")
        /\ UNCHANGED <<clock, active, audits, req, job, crashes>>

-----------------------------------------------------------------------------
(* auto_close_stale_sessions: one transaction over every stale session.    *)

Stale(s) == /\ IsOpen(s) /\ sessions[s].status = "ACTIVE"
            /\ sessions[s].punch_in < clock - AutoCloseAfter

\* What run j sees: the committed sessions under its own updates.
JobView(j) == [s \in Requests |-> IF s \in job[j].closed THEN AutoClosed(sessions[s])
                                                          ELSE sessions[s]]

\* The stale sessions are read without a lock.
JobBegin(j) ==
    LET stale == {s \in Requests : Stale(s)}
    IN  /\ job[j].stage = "idle"
        /\ \E s \in stale :
              job' = [job EXCEPT ![j].stage = "update", ![j].cur = s,
                                 ![j].todo = stale \ {s}]
        /\ UNCHANGED <<clock, active, tables, pc, req, tx, answer, crashes>>

\* UPDATE attendance_sessions ... WHERE id = cur, with no second look at it.
JobUpdate(j) ==
    /\ job[j].stage = "update" /\ SessionFree(j, job[j].cur)
    /\ job' = [job EXCEPT ![j].closed = @ \cup {job[j].cur},
                          ![j].stage = IF job[j].owed = None THEN "load" ELSE "audit"]
    /\ UNCHANGED <<clock, active, tables, pc, req, tx, answer, crashes>>

\* The audit row of the previous session goes out with the next flush, before
\* or after that flush's UPDATE.  Its foreign key takes FOR KEY SHARE on the user.
JobAudit(j) ==
    /\ job[j].stage = "audit"
    /\ \A r \in Requests : ~HoldsUser(r, job[j].owed)
    /\ job' = [job EXCEPT ![j].shares = @ \cup {job[j].owed}, ![j].owed = None,
                  ![j].stage = IF job[j].cur \in job[j].closed THEN "load" ELSE "update"]
    /\ UNCHANGED <<clock, active, tables, pc, req, tx, answer, crashes>>

\* The day row is loaded by one statement, its sessions are summed by the next.
JobLoadDay(j) ==
    LET row == sessions[job[j].cur]
    IN  /\ job[j].stage = "load"
        /\ job' = [job EXCEPT ![j].stage = "sum",
                              ![j].loaded = days[row.user][row.work_date]]
        /\ UNCHANGED <<clock, active, tables, pc, req, tx, answer, crashes>>

\* Defect: the totals are summed before the closed session is flushed.
JobSumUnflushed(j) ==
    LET row == sessions[job[j].cur]
    IN  /\ job[j].stage = "sum"
        /\ job' = [job EXCEPT ![j].stage = "day",
                      ![j].totals = DayTotals(sessions, row.user, row.work_date)]
        /\ UNCHANGED <<clock, active, tables, pc, req, tx, answer, crashes>>

JobSum(j) ==
    LET row == sessions[job[j].cur]
    IN  /\ job[j].stage = "sum"
        /\ job' = [job EXCEPT ![j].stage = "day",
                      ![j].totals = DayTotals(JobView(j), row.user, row.work_date)]
        /\ UNCHANGED <<clock, active, tables, pc, req, tx, answer, crashes>>

\* No column changed means no UPDATE and no lock.
JobWriteDay(j) ==
    LET J   == job[j]
        row == sessions[J.cur]
        new == Overwrite(J.loaded, J.loaded, J.totals)
    IN  /\ J.stage = "day"
        /\ new # J.loaded => DayFree(j, row.user, row.work_date)
        /\ \E s \in IF J.todo = {} THEN {None} ELSE J.todo,
              st \in IF J.todo = {} THEN {"commit"} ELSE {"audit", "update"} :
              job' = [job EXCEPT ![j] =
                        [J EXCEPT !.stage = st, !.cur = s, !.todo = @ \ {s},
                             !.owed = row.user, !.loaded = None, !.totals = None,
                             !.rows[J.cur] =
                                IF new = J.loaded THEN None
                                ELSE Overwrite(days[row.user][row.work_date],
                                               J.loaded, J.totals)]]
        /\ UNCHANGED <<clock, active, tables, pc, req, tx, answer, crashes>>

\* The last audit row is flushed and the whole run committed.
JobCommit(j) ==
    /\ job[j].stage = "commit"
    /\ \A r \in Requests : ~HoldsUser(r, job[j].owed)
    /\ sessions' = JobView(j)
    /\ days' = [u \in Users |-> [d \in WorkDates |->
          LET mine == {s \in Requests : job[j].rows[s] # None /\ sessions[s].user = u
                                                              /\ sessions[s].work_date = d}
          IN  IF mine = {} THEN days[u][d] ELSE job[j].rows[CHOOSE s \in mine : TRUE]]]
    /\ audits' = [s \in Requests |-> IF s \in job[j].closed THEN audits[s] + 1 ELSE audits[s]]
    /\ job' = [job EXCEPT ![j] = NoJob]
    /\ UNCHANGED <<clock, active, events, pc, req, tx, answer, crashes>>

-----------------------------------------------------------------------------
(* The environment.                                                        *)

Tick ==
    /\ clock < MaxClock
    /\ \A r \in Requests :
          pc[r] \notin {"new", "done"} => clock - req[r].now < MaxLag
    /\ clock' = clock + 1
    /\ UNCHANGED <<active, tables, pc, req, tx, answer, job, crashes>>

\* user_service.set_status: its UPDATE waits for a punch that locked the row.
SetStatus(u) ==
    /\ \A r \in Requests : ~HoldsUser(r, u)
    /\ active' = [active EXCEPT ![u] = ~@]
    /\ UNCHANGED <<clock, tables, pc, req, tx, answer, job, crashes>>

\* A transaction is rolled back as a whole: the client of a request sees an
\* error, a maintenance process ends and cron starts the next one.
Abort(p) ==
    /\ IF p \in Jobs
       THEN /\ job[p].stage # "idle"
            /\ job' = [job EXCEPT ![p] = NoJob]
            /\ UNCHANGED <<pc, tx, answer>>
       ELSE /\ pc[p] \notin {"new", "done"}
            /\ Answer(p, "ABORTED")
            /\ UNCHANGED job
    /\ UNCHANGED <<clock, active, tables, req>>

BreakWaitCycle(p) == InWaitCycle(p) /\ Abort(p) /\ UNCHANGED crashes

Crash(p) == crashes < MaxCrashes /\ Abort(p) /\ crashes' = crashes + 1

\* Every request is answered and no maintenance runs: nothing is left to wait for.
Quiescent ==
    /\ \A r \in Requests : pc[r] = "done"
    /\ \A j \in Jobs : job[j].stage = "idle"
    /\ UNCHANGED vars

Punch(r) ==
    \/ \E u \in Users, t \in Types, k \in Keys \cup {NoKey} : Begin(r, u, t, k)
    \/ \E u \in Users : TurnAway(r, u)
    \/ LockUser(r) \/ Replay(r) \/ RefuseIn(r) \/ RefuseOut(r) \/ RejectPunch(r)
    \/ AcceptIn(r) \/ CommitIn(r) \/ RefuseTime(r) \/ AcceptOut(r) \/ CommitOut(r)

Maintain(j) ==
    \/ JobBegin(j) \/ JobUpdate(j) \/ JobAudit(j)
    \/ JobLoadDay(j) \/ JobSum(j) \/ JobWriteDay(j) \/ JobCommit(j)

Next ==
    \/ \E r \in Requests : Punch(r)
    \/ \E j \in Jobs : Maintain(j)
    \/ \E p \in Procs : BreakWaitCycle(p) \/ Crash(p)
    \/ \E u \in Managed : SetStatus(u)
    \/ Tick
    \/ Quiescent

Spec == Init /\ [][Next]_vars
=============================================================================
