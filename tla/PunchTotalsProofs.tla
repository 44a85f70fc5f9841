-------------------------- MODULE PunchTotalsProofs --------------------------
(***************************************************************************)
(* The stored totals of a day are those of its sessions (DayTotalsAgree),   *)
(* for every number of users, punches and overlapping maintenance runs.     *)
(* A punch_out and a maintenance run both compute totals long before they   *)
(* commit them, so the proof follows what they have computed: OutDays and   *)
(* JobDays say that it is still right at the commit, unless a session of    *)
(* the day has been closed twice by then.  Then it may be wrong for good,   *)
(* and DayTotalsAgree excepts the day.                                     *)
(***************************************************************************)
EXTENDS PunchLedgerProofs, SumTheorems

USE ConstantsAssumption DEF Types

-----------------------------------------------------------------------------
(* The inductive invariant.                                                *)

SameDay(s, z) == /\ sessions[s].user = sessions[z].user
                 /\ sessions[s].work_date = sessions[z].work_date
DayOf(s) == days[sessions[s].user][sessions[s].work_date]
TotalsIn(view, s) == DayTotals(view, sessions[s].user, sessions[s].work_date)
SameTotals(a, b) == a.total = b.total /\ a.last = b.last /\ a.status = b.status

\* A session of the day has been closed twice.
Spoilt(u, d) == \E s \in Requests : /\ sessions[s] # None /\ sessions[s].user = u
                                    /\ sessions[s].work_date = d /\ EndedTwice(s)
DaySpoilt(s) == Spoilt(sessions[s].user, sessions[s].work_date)

\* Clock values stay within the calendar, and a day with sessions has its row.
ClocksBounded ==
    /\ clock <= MaxClock /\ crashes \in 0 .. MaxCrashes
    /\ \A r \in Requests : req[r] # None => req[r].now <= MaxClock
SessionsFinite == IsFiniteSet({s \in Requests : sessions[s] # None})
DaysExist ==
    \A s \in Requests : sessions[s] # None =>
        sessions[s].work_date \in WorkDates /\ DayOf(s) # None

\* Whatever a maintenance run has ended, it has left a note of.
AuditsTell ==
    \A s \in Requests : sessions[s] # None /\ sessions[s].status = "AUTO_CLOSED"
                           => audits[s] > 0

\* A run works on one session per user, which were all open when it read them, and
\* on one after the other.
Named(j) == {s \in Requests : s \in job[j].todo \cup job[j].closed \cup {job[j].cur}}
Orderly(j) ==
    /\ job[j].todo \cap job[j].closed = {} /\ job[j].cur \notin job[j].todo
    /\ job[j].stage = "update" => job[j].cur \notin job[j].closed
    /\ job[j].stage \in {"load", "sum", "day"} => job[j].cur \in job[j].closed
    /\ job[j].stage \in {"idle", "commit"} <=> job[j].cur = None
    /\ job[j].stage = "idle" => job[j] = NoJob
    /\ job[j].stage = "audit" => job[j].owed # None
    /\ job[j].stage \in {"sum", "day"} => job[j].loaded \in DayRow
    /\ job[j].stage = "day" => job[j].totals \in TotalsRow
    /\ \A s \in Requests : job[j].rows[s] # None => s \in job[j].closed /\ s # job[j].cur
    /\ \A s, z \in Named(j) : sessions[s].user = sessions[z].user => s = z

\* Two runs never hold one session, nor the row of one day.
Apart(i, j) ==
    /\ job[i].closed \cap job[j].closed = {}
    /\ \A s, z \in Requests : job[i].rows[s] # None /\ job[j].rows[z] # None
                                 => ~SameDay(s, z)

\* A punch_out commits with what it read.
WritesTyped ==
    \A r \in Requests : pc[r] = "write" =>
        tx[r] \in [session : Requests, loaded : DayRow, totals : TotalsRow]

Structure ==
    /\ DayTypeOK /\ WritesTyped /\ ClocksBounded /\ SessionsFinite /\ DaysExist /\ AuditsTell
    /\ \A j \in Jobs : Orderly(j)
    /\ \A i, j \in Jobs : i # j => Apart(i, j)

\* What a run has computed for the day of a session that it closes, and that nobody
\* else has closed yet.
Ended(s) == [sessions EXCEPT ![s] = AutoClosed(sessions[s])]
JobDay(j, s) ==
    IsOpen(s) /\ ~DaySpoilt(s) =>
        /\ s = job[j].cur /\ job[j].stage \in {"sum", "day"} =>
              SameTotals(job[j].loaded, TotalsIn(sessions, s))
        /\ s = job[j].cur /\ job[j].stage = "day" =>
              SameTotals(job[j].totals, TotalsIn(Ended(s), s))
        /\ s # job[j].cur => /\ job[j].rows[s] # None
                             /\ SameTotals(job[j].rows[s], TotalsIn(Ended(s), s))
JobDays == \A j \in Jobs : \A s \in job[j].closed : JobDay(j, s)

\* What a punch_out has computed for the day of the session it ends.
Punched(s, t) == [sessions EXCEPT ![s] = Completed(sessions[s], t)]
OutDay(r) ==
    LET s == tx[r].session
    IN  ~DaySpoilt(s) => /\ tx[r].loaded = DayOf(s)
                         /\ tx[r].totals = TotalsIn(Punched(s, req[r].now), s)
OutDays == \A r \in Requests : pc[r] = "write" => OutDay(r)

\* DayTotalsAgree, day by day.
Agree(u, d) ==
    \/ Spoilt(u, d)
    \/ days[u][d] = None /\ \A s \in Requests : sessions[s] # None /\ sessions[s].user = u
                                                   => sessions[s].work_date # d
    \/ days[u][d] # None /\ SameTotals(days[u][d], DayTotals(sessions, u, d))

Computed == JobDays /\ OutDays /\ \A u \in Users, d \in WorkDates : Agree(u, d)

-----------------------------------------------------------------------------
(* Rows and totals.                                                        *)

LEMMA OverwriteRow ==
  ASSUME NEW stored \in DayRow, NEW loaded \in DayRow, NEW new \in TotalsRow
  PROVE  /\ Overwrite(stored, loaded, new) \in DayRow
         /\ Overwrite(stored, loaded, new).total
              = IF new.total # loaded.total THEN new.total ELSE stored.total
         /\ Overwrite(stored, loaded, new).last
              = IF new.last # loaded.last THEN new.last ELSE stored.last
         /\ Overwrite(stored, loaded, new).status
              = IF new.status # loaded.status THEN new.status ELSE stored.status
<1> DEFINE row == Overwrite(stored, loaded, new)
           first == IF new.first # loaded.first THEN new.first ELSE stored.first
           total == IF new.total # loaded.total THEN new.total ELSE stored.total
           last == IF new.last # loaded.last THEN new.last ELSE stored.last
           status == IF new.status # loaded.status THEN new.status ELSE stored.status
<1>1. /\ DOMAIN stored = {"total", "first", "last", "status", "late"}
      /\ DOMAIN new = {"total", "first", "last", "status"}
  BY DEF DayRow, TotalsRow
<1>2. row = [f \in {"total", "first", "last", "status", "late"} |->
               IF f \in {"total", "first", "last", "status"} /\ new[f] # loaded[f]
               THEN new[f] ELSE stored[f]]
  BY <1>1 DEF Overwrite
<1>3. /\ row.total = total /\ row.first = first /\ row.last = last /\ row.status = status
      /\ row.late = stored.late
  BY <1>2
<1>4. row = [total |-> total, first |-> first, last |-> last, status |-> status,
             late |-> stored.late]
  BY <1>2
<1>5. /\ total \in Nat /\ first \in Nat \cup {None} /\ last \in Nat \cup {None}
      /\ status \in {"ABSENT", "PRESENT", "CHECKED_OUT"} /\ stored.late \in BOOLEAN
  BY DEF DayRow, TotalsRow
<1>6. row \in DayRow BY <1>4, <1>5 DEF DayRow
<1> QED BY <1>3, <1>6

MineIn(view, u, d) ==
    {s \in Requests : view[s] # None /\ view[s].user = u /\ view[s].work_date = d}
ClosedIn(view, u, d) == {s \in MineIn(view, u, d) : view[s].punch_out # None}

LEMMA DayTotalsIs ==
  ASSUME NEW view, NEW u, NEW d
  PROVE  DayTotals(view, u, d) =
           [total  |-> SumFunctionOnSet([s \in ClosedIn(view, u, d) |-> view[s].duration],
                                        ClosedIn(view, u, d)),
            first  |-> IF MineIn(view, u, d) = {} THEN None
                       ELSE Min({view[s].punch_in : s \in MineIn(view, u, d)}),
            last   |-> IF ClosedIn(view, u, d) = {} THEN None
                       ELSE Max({view[s].punch_out : s \in ClosedIn(view, u, d)}),
            status |-> IF MineIn(view, u, d) # ClosedIn(view, u, d) THEN "PRESENT"
                       ELSE IF MineIn(view, u, d) # {} THEN "CHECKED_OUT" ELSE "ABSENT"]
BY DEF DayTotals, MineIn, ClosedIn, SumFunction

\* Totals depend on the sessions of the day only.
LEMMA DayTotalsLocal ==
  ASSUME NEW v, NEW w, NEW u, NEW d, MineIn(v, u, d) = MineIn(w, u, d),
         \A s \in MineIn(v, u, d) : v[s] = w[s]
  PROVE  DayTotals(v, u, d) = DayTotals(w, u, d)
<1>1. ClosedIn(v, u, d) = ClosedIn(w, u, d) BY DEF ClosedIn
<1>2. \A s \in ClosedIn(v, u, d) : s \in MineIn(v, u, d) BY DEF ClosedIn
<1>3. [s \in ClosedIn(v, u, d) |-> v[s].duration] = [s \in ClosedIn(w, u, d) |-> w[s].duration]
  BY <1>1, <1>2
<1>4. {v[s].punch_in : s \in MineIn(v, u, d)} = {w[s].punch_in : s \in MineIn(w, u, d)}
  OBVIOUS
<1>5. {v[s].punch_out : s \in ClosedIn(v, u, d)} = {w[s].punch_out : s \in ClosedIn(w, u, d)}
  BY <1>1, <1>2
<1> QED BY <1>1, <1>3, <1>4, <1>5, DayTotalsIs

\* A view that the CHECK constraints accept.
SoundView(view) ==
    /\ IsFiniteSet({s \in Requests : view[s] # None})
    /\ \A s \in Requests : view[s] # None =>
          /\ view[s] \in SessionRow
          /\ view[s].punch_out # None => view[s].duration # None

LEMMA DayTotalsType ==
  ASSUME NEW view, SoundView(view), NEW u, NEW d
  PROVE  DayTotals(view, u, d) \in TotalsRow
<1> DEFINE mine == MineIn(view, u, d)
           closed == ClosedIn(view, u, d)
           f == [s \in closed |-> view[s].duration]
<1>1. /\ \A s \in mine : view[s] \in SessionRow
      /\ \A s \in closed : s \in mine /\ view[s].punch_out # None /\ view[s].duration # None
  BY DEF MineIn, ClosedIn, SoundView
<1>2. IsFiniteSet(closed)
  <2>1. closed \in SUBSET {s \in Requests : view[s] # None} BY DEF ClosedIn, MineIn
  <2> HIDE DEF closed
  <2> QED BY <2>1, FS_Subset DEF SoundView
<1>3. \A s \in closed : view[s].duration \in Nat /\ view[s].punch_out \in Nat
  BY <1>1 DEF SessionRow
<1>4. SumFunctionOnSet(f, closed) \in Nat
  <2>1. \A s \in closed : f[s] \in Nat BY <1>3
  <2> HIDE DEF f, closed
  <2> QED BY <1>2, <2>1, SumType
<1>5. ASSUME mine # {} PROVE Min({view[s].punch_in : s \in mine}) \in Nat
  <2> DEFINE T == {view[s].punch_in : s \in mine}
  <2>1. T \in SUBSET Nat /\ T # {} BY <1>1, <1>5 DEF SessionRow
  <2> HIDE DEF T
  <2> QED BY <2>1, SmallestNat DEF T
<1>6. ASSUME closed # {} PROVE Max({view[s].punch_out : s \in closed}) \in Nat
  <2> DEFINE T == {view[s].punch_out : s \in closed}
  <2>1. T \in SUBSET Nat /\ T # {} BY <1>3, <1>6
  <2>2. IsFiniteSet(T)
    <3> DEFINE g == [s \in closed |-> view[s].punch_out]
    <3>1. g \in Surjection(closed, T) BY DEF Surjection
    <3> HIDE DEF g, T, closed
    <3> QED BY <1>2, <3>1, FS_Surjection
  <2> HIDE DEF T
  <2>3. Max(T) \in T BY <2>1, <2>2, LargestNat
  <2> QED BY <2>1, <2>3 DEF T
<1> HIDE DEF mine, closed, f
<1>7. DayTotals(view, u, d) =
        [total  |-> SumFunctionOnSet(f, closed),
         first  |-> IF mine = {} THEN None ELSE Min({view[s].punch_in : s \in mine}),
         last   |-> IF closed = {} THEN None ELSE Max({view[s].punch_out : s \in closed}),
         status |-> IF mine # closed THEN "PRESENT"
                    ELSE IF mine # {} THEN "CHECKED_OUT" ELSE "ABSENT"]
  BY DayTotalsIs DEF mine, closed, f
<1> QED BY <1>4, <1>5, <1>6, <1>7 DEF TotalsRow

\* A session that begins adds nothing yet, and the person is there.
LEMMA OpenSessionAdds ==
  ASSUME NEW v, NEW w, NEW u, NEW d, NEW r \in Requests, v[r] = None,
         w[r] # None, w[r].user = u, w[r].work_date = d, w[r].punch_out = None,
         \A s \in Requests : s # r => w[s] = v[s]
  PROVE  /\ DayTotals(w, u, d).total = DayTotals(v, u, d).total
         /\ DayTotals(w, u, d).last = DayTotals(v, u, d).last
         /\ DayTotals(w, u, d).status = "PRESENT"
<1>1. /\ MineIn(w, u, d) = MineIn(v, u, d) \cup {r} /\ r \notin MineIn(v, u, d)
      /\ \A s \in MineIn(v, u, d) : w[s] = v[s]
  BY DEF MineIn
<1>2. ClosedIn(w, u, d) = ClosedIn(v, u, d) BY <1>1 DEF ClosedIn
<1>3. \A s \in ClosedIn(v, u, d) : w[s] = v[s] BY <1>1 DEF ClosedIn
<1>4. /\ [s \in ClosedIn(w, u, d) |-> w[s].duration] = [s \in ClosedIn(v, u, d) |-> v[s].duration]
      /\ {w[s].punch_out : s \in ClosedIn(w, u, d)} = {v[s].punch_out : s \in ClosedIn(v, u, d)}
  BY <1>2, <1>3
<1>5. MineIn(w, u, d) # ClosedIn(w, u, d)
  <2>1. r \in MineIn(w, u, d) /\ r \notin ClosedIn(w, u, d) BY <1>1 DEF ClosedIn
  <2> QED BY <2>1
<1> QED BY <1>2, <1>4, <1>5, DayTotalsIs

-----------------------------------------------------------------------------
(* What each step does to the tables.                                      *)

NewSession(r) == [user |-> req[r].user, work_date |-> WorkDate(req[r].now),
                  punch_in |-> req[r].now, punch_out |-> None, duration |-> None,
                  status |-> "ACTIVE"]

LEMMA WorkDateBound ==
  ASSUME NEW t \in Nat, t <= MaxClock PROVE WorkDate(t) \in WorkDates
<1> DEFINE d == t \div DayTicks
           m == MaxClock \div DayTicks
<1>1. /\ d \in Nat /\ DayTicks * d <= t
      /\ m \in Nat /\ MaxClock < DayTicks * m + DayTicks
  OBVIOUS
<1> HIDE DEF d, m
<1>2. d <= m
  <2> SUFFICES ASSUME m + 1 <= d PROVE FALSE BY <1>1
  <2>1. DayTicks * (m + 1) <= DayTicks * d BY <1>1
  <2>2. DayTicks * (m + 1) = DayTicks * m + DayTicks BY <1>1
  <2>3. DayTicks * m \in Nat /\ DayTicks * d \in Nat /\ DayTicks * (m + 1) \in Nat
    BY <1>1
  <2> HIDE DEF d
  <2> QED BY <1>1, <2>1, <2>2, <2>3
<1> QED BY <1>1, <1>2 DEF WorkDate, WorkDates, d, m

LEMMA InEffect ==
  ASSUME IInv, Structure, NEW r \in Requests, CommitIn(r)
  PROVE  LET u == req[r].user
             d == WorkDate(req[r].now)
         IN  /\ u \in Users /\ d \in WorkDates /\ req[r].now \in Nat
             /\ Open(u) = {} /\ sessions[r] = None
             /\ sessions' = [sessions EXCEPT ![r] = NewSession(r)]
             /\ NewSession(r) \in SessionRow
             /\ days' = [days EXCEPT ![u][d] = DayAfterPunchIn(@, req[r].now)]
             /\ \A j \in Jobs : ~HoldsDay(j, u, d)
             /\ events' = [events EXCEPT ![r] = Event(r, "ACCEPTED", r)]
             /\ req[r].type = "IN" /\ pc[r] = "day"
             /\ Answer(r, "PUNCHED_IN")
             /\ UNCHANGED <<clock, active, req, job, crashes>>
<1>1. /\ pc[r] = "day" /\ Open(req[r].user) = {} /\ req[r] \in Request /\ req[r].type = "IN"
      /\ sessions[r] = None /\ req[r] # None
  BY NoneIsNoRow DEF CommitIn, IInv, ChecksStillHold, RowsAreCommitted, InFlight, LedgerTypeOK
<1>2. req[r].user \in Users /\ req[r].now \in Nat BY <1>1 DEF Request
<1>3. WorkDate(req[r].now) \in WorkDates
  BY <1>1, <1>2, WorkDateBound DEF Structure, ClocksBounded
<1>4. NewSession(r) \in SessionRow BY <1>2, WorkDateNat DEF NewSession, SessionRow
<1>5. \A j \in Jobs : ~HoldsDay(j, req[r].user, WorkDate(req[r].now))
  BY DEF CommitIn, DayFree
<1> QED BY <1>1, <1>2, <1>3, <1>4, <1>5 DEF CommitIn, NewSession

LEMMA OutEffect ==
  ASSUME IInv, Structure, NEW r \in Requests, CommitOut(r)
  PROVE  LET s == tx[r].session
             u == sessions[s].user
             d == sessions[s].work_date
         IN  /\ pc[r] = "write" /\ s \in Requests /\ IsOpen(s) /\ sessions[s] \in SessionRow
             /\ u \in Users /\ d \in WorkDates /\ u = req[r].user
             /\ req[r].now \in Nat /\ req[r].now > sessions[s].punch_in
             /\ sessions' = [sessions EXCEPT ![s] = Completed(sessions[s], req[r].now)]
             /\ Completed(sessions[s], req[r].now) \in SessionRow
             /\ days[u][d] \in DayRow /\ tx[r].loaded \in DayRow /\ tx[r].totals \in TotalsRow
             /\ days' = [days EXCEPT ![u][d] = Overwrite(@, tx[r].loaded, tx[r].totals)]
             /\ \A j \in Jobs : ~HoldsDay(j, u, d) /\ s \notin job[j].closed
             /\ events' = [events EXCEPT ![r] = Event(r, "ACCEPTED", s)]
             /\ req[r].type = "OUT"
             /\ Answer(r, "PUNCHED_OUT")
             /\ UNCHANGED <<clock, active, req, job, crashes>>
<1> DEFINE s == tx[r].session
<1>1. /\ pc[r] = "write" /\ s \in Requests /\ IsOpen(s) /\ sessions[s] \in SessionRow
      /\ sessions[s].user = req[r].user /\ req[r].type = "OUT"
      /\ req[r].now \in Nat /\ req[r].now > sessions[s].punch_in
  BY AtWrite DEF CommitOut, Open
<1>2. Completed(sessions[s], req[r].now) \in SessionRow BY <1>1, CompletedRow
<1>3. sessions[s].user \in Users /\ sessions[s].work_date \in WorkDates
  BY <1>1, NoneIsNoRow DEF SessionRow, Structure, DaysExist, IsOpen
<1>4. days[sessions[s].user][sessions[s].work_date] \in DayRow
  BY <1>1, <1>3, NoneIsNoRow DEF Structure, DaysExist, DayOf, DayTypeOK, IsOpen
<1>5. tx[r].loaded \in DayRow /\ tx[r].totals \in TotalsRow
  BY <1>1 DEF Structure, WritesTyped
<1>6. \A j \in Jobs : ~HoldsDay(j, sessions[s].user, sessions[s].work_date)
  BY DEF CommitOut, DayFree
<1>7. \A j \in Jobs : s \notin job[j].closed BY <1>1 DEF IInv, ChecksStillHold
<1> QED BY <1>1, <1>2, <1>3, <1>4, <1>5, <1>6, <1>7 DEF CommitOut

LEMMA JobEffect ==
  ASSUME IInv, Structure, NEW j \in Jobs, JobCommit(j), NEW s \in Requests
  PROVE  IF s \in job[j].closed
         THEN /\ sessions[s] \in SessionRow /\ sessions[s] # None
              /\ sessions'[s] = AutoClosed(sessions[s])
              /\ sessions'[s] \in SessionRow /\ sessions'[s] # None
              /\ sessions'[s].status = "AUTO_CLOSED" /\ sessions'[s].punch_out # None
         ELSE sessions'[s] = sessions[s]
<1>1. CASE s \notin job[j].closed BY <1>1 DEF JobCommit, JobView
<1>2. CASE s \in job[j].closed
  <2>1. sessions[s] \in SessionRow /\ sessions[s] # None
    BY <1>2 DEF IInv, JobsNameSessions, LedgerTypeOK
  <2>2. sessions'[s] = AutoClosed(sessions[s]) BY <1>2 DEF JobCommit, JobView
  <2>3. sessions[s].punch_in + AutoCloseAfter \in Nat BY <2>1 DEF SessionRow
  <2> QED BY <1>2, <2>1, <2>2, <2>3, AutoClosedRow, NoneIsNoRow
<1> QED BY <1>1, <1>2

\* No other step writes sessions or day rows.
LEMMA QuietTables ==
  ASSUME [Next]_vars, \A r \in Requests : ~CommitIn(r) /\ ~CommitOut(r),
         \A j \in Jobs : ~JobCommit(j)
  PROVE  UNCHANGED <<sessions, days, audits>>
  BY DEF Next, vars, tables, Punch, Begin, TurnAway, LockUser, Replay, RefuseIn, RefuseOut,
         RejectPunch, AcceptIn, RefuseTime, AcceptOut, Maintain, JobBegin, JobUpdate, JobAudit,
         JobLoadDay, JobSum, JobWriteDay, BreakWaitCycle, Crash, Abort, SetStatus, Tick, Quiescent

-----------------------------------------------------------------------------
(* The structure is kept.  First: the tables.                              *)

LEMMA ClocksKept ==
  ASSUME IInv, Structure, [Next]_vars PROVE ClocksBounded'
<1>1. clock \in Nat /\ ClocksBounded /\ req \in [Requests -> Request \cup {None}]
  BY DEF IInv, LedgerTypeOK, Structure
<1>2. CASE \E r \in Requests, u \in Users, t \in Types, k \in Keys \cup {NoKey} : Begin(r, u, t, k)
  <2>1. PICK r \in Requests, u \in Users, t \in Types, k \in Keys \cup {NoKey} : Begin(r, u, t, k)
    BY <1>2
  <2> QED BY <1>1, <2>1 DEF Begin, ClocksBounded
<1>3. CASE Tick BY <1>1, <1>3 DEF Tick, ClocksBounded
<1>4. CASE \E p \in Procs : Crash(p) BY <1>1, <1>4 DEF Crash, Abort, ClocksBounded
<1>5. ASSUME ~Tick, \A p \in Procs : ~Crash(p),
             \A r \in Requests, u \in Users, t \in Types, k \in Keys \cup {NoKey} :
                ~Begin(r, u, t, k)
      PROVE  UNCHANGED <<clock, req, crashes>>
  BY <1>5 DEF Next, vars, Punch, TurnAway, LockUser, Replay, RefuseIn, RefuseOut,
         RejectPunch, AcceptIn, CommitIn, RefuseTime, AcceptOut, CommitOut, Maintain, JobBegin,
         JobUpdate, JobAudit, JobLoadDay, JobSum, JobWriteDay, JobCommit, BreakWaitCycle, Abort,
         SetStatus, Quiescent
<1> QED BY <1>1, <1>2, <1>3, <1>4, <1>5 DEF ClocksBounded

LEMMA SessionsKept ==
  ASSUME IInv, Structure, [Next]_vars PROVE SessionsFinite'
<1> DEFINE known == {s \in Requests : sessions[s] # None}
<1>0. IsFiniteSet(known) BY DEF Structure, SessionsFinite
<1>1. ASSUME NEW r \in Requests, CommitIn(r) PROVE IsFiniteSet(known')
  <2>1. sessions' = [sessions EXCEPT ![r] = NewSession(r)] /\ NewSession(r) \in SessionRow
    BY <1>1, InEffect
  <2>2. NewSession(r) # None BY <2>1, NoneIsNoRow
  <2>3. sessions'[r] = NewSession(r) /\ \A s \in Requests \ {r} : sessions'[s] = sessions[s]
    BY <2>1 DEF IInv, LedgerTypeOK
  <2>4. known' = known \cup {r} BY <2>2, <2>3
  <2> HIDE DEF known
  <2> QED BY <1>0, <2>4, FS_AddElement
<1>2. ASSUME NEW r \in Requests, CommitOut(r) PROVE IsFiniteSet(known')
  <2> DEFINE z == tx[r].session
  <2>1. /\ z \in Requests /\ IsOpen(z) /\ sessions[z] \in SessionRow
        /\ req[r].now \in Nat /\ req[r].now > sessions[z].punch_in
        /\ sessions' = [sessions EXCEPT ![z] = Completed(sessions[z], req[r].now)]
    BY <1>2, OutEffect
  <2> HIDE DEF z
  <2>2. sessions'[z] # None /\ \A s \in Requests \ {z} : sessions'[s] = sessions[s]
    BY <2>1, CompletedRow, NoneIsNoRow DEF IInv, LedgerTypeOK
  <2>3. known' = known BY <2>1, <2>2 DEF IsOpen
  <2> HIDE DEF known
  <2> QED BY <1>0, <2>3
<1>3. ASSUME NEW j \in Jobs, JobCommit(j) PROVE IsFiniteSet(known')
  <2>1. known' = known BY <1>3, JobEffect
  <2> HIDE DEF known
  <2> QED BY <1>0, <2>1
<1>4. ASSUME UNCHANGED sessions PROVE IsFiniteSet(known') BY <1>0, <1>4
<1> HIDE DEF known
<1>5. IsFiniteSet(known') BY <1>1, <1>2, <1>3, <1>4, QuietTables
<1> QED BY <1>5 DEF SessionsFinite, known

\* Only the commit of a maintenance run writes audit rows, and no row is ever lost.
LEMMA AuditsGrow ==
  ASSUME Structure, [Next]_vars
  PROVE  /\ audits' \in [Requests -> Nat]
         /\ \A s \in Requests : audits'[s] >= audits[s]
         /\ \A j \in Jobs : JobCommit(j) => \A s \in Requests : s \in job[j].closed
                                 => audits'[s] = audits[s] + 1
<1>1. audits \in [Requests -> Nat] BY DEF Structure, DayTypeOK
<1>2. ASSUME NEW j \in Jobs, JobCommit(j)
      PROVE  /\ audits' \in [Requests -> Nat]
             /\ \A s \in Requests : /\ audits'[s] >= audits[s]
                                    /\ s \in job[j].closed => audits'[s] = audits[s] + 1
  <2>1. audits' = [s \in Requests |-> IF s \in job[j].closed THEN audits[s] + 1 ELSE audits[s]]
    BY <1>2 DEF JobCommit
  <2> QED BY <1>1, <2>1
<1>3. ASSUME NEW r \in Requests, CommitIn(r) \/ CommitOut(r) PROVE audits' = audits
  BY <1>3 DEF CommitIn, CommitOut, tables
<1> QED BY <1>1, <1>2, <1>3, QuietTables

LEMMA AuditsKept ==
  ASSUME IInv, Structure, [Next]_vars PROVE AuditsTell'
<1> SUFFICES ASSUME NEW s \in Requests, sessions'[s] # None, sessions'[s].status = "AUTO_CLOSED"
             PROVE  audits'[s] > 0
  BY DEF AuditsTell
<1>0. audits \in [Requests -> Nat] /\ audits'[s] \in Nat /\ audits'[s] >= audits[s]
  BY AuditsGrow DEF Structure, DayTypeOK
<1>1. CASE sessions'[s] = sessions[s] BY <1>0, <1>1 DEF Structure, AuditsTell
<1>2. ASSUME NEW r \in Requests, CommitIn(r) PROVE sessions'[s] = sessions[s]
  <2>1. sessions' = [sessions EXCEPT ![r] = NewSession(r)] BY <1>2, InEffect
  <2>2. s # r BY <2>1 DEF NewSession, IInv, LedgerTypeOK
  <2> QED BY <2>1, <2>2 DEF IInv, LedgerTypeOK
<1>3. ASSUME NEW r \in Requests, CommitOut(r) PROVE sessions'[s] = sessions[s]
  <2> DEFINE z == tx[r].session
  <2>1. /\ z \in Requests /\ sessions[z] \in SessionRow
        /\ req[r].now \in Nat /\ req[r].now > sessions[z].punch_in
        /\ sessions' = [sessions EXCEPT ![z] = Completed(sessions[z], req[r].now)]
    BY <1>3, OutEffect
  <2> HIDE DEF z
  <2>2. s # z BY <2>1, CompletedRow DEF IInv, LedgerTypeOK
  <2> QED BY <2>1, <2>2 DEF IInv, LedgerTypeOK
<1>4. ASSUME NEW j \in Jobs, JobCommit(j) PROVE audits'[s] > 0
  <2>1. CASE s \in job[j].closed BY <1>0, <1>4, <2>1, AuditsGrow
  <2>2. CASE s \notin job[j].closed BY <1>1, <1>4, <2>2, JobEffect
  <2> QED BY <2>1, <2>2
<1> QED BY <1>1, <1>2, <1>3, <1>4, QuietTables

\* The day row after a punch_in.
LEMMA DayAfterPunchInRow ==
  ASSUME NEW row \in DayRow \cup {None}, NEW t \in Nat
  PROVE  /\ DayAfterPunchIn(row, t) \in DayRow
         /\ DayAfterPunchIn(row, t).status = "PRESENT"
         /\ DayAfterPunchIn(row, t).total = IF row = None THEN 0 ELSE row.total
         /\ DayAfterPunchIn(row, t).last = IF row = None THEN None ELSE row.last
<1>1. IsLate(t) \in BOOLEAN BY DEF IsLate
<1>2. CASE row = None BY <1>1, <1>2 DEF DayAfterPunchIn, DayRow
<1>3. CASE row # None
  <2>1. row \in DayRow BY <1>3
  <2> QED BY <1>1, <1>3, <2>1 DEF DayAfterPunchIn, DayRow
<1> QED BY <1>2, <1>3

LEMMA DaysKept ==
  ASSUME IInv, Structure, [Next]_vars
  PROVE  /\ days' \in [Users -> [WorkDates -> DayRow \cup {None}]]
         /\ DaysExist'
<1> DEFINE Typed == days' \in [Users -> [WorkDates -> DayRow \cup {None}]]
           Exists(s) == sessions'[s] # None =>
                          /\ sessions'[s].work_date \in WorkDates
                          /\ days'[sessions'[s].user][sessions'[s].work_date] # None
<1>0. /\ days \in [Users -> [WorkDates -> DayRow \cup {None}]]
      /\ \A s \in Requests : sessions[s] # None =>
            /\ sessions[s] \in SessionRow /\ sessions[s].user \in Users
            /\ sessions[s].work_date \in WorkDates
            /\ days[sessions[s].user][sessions[s].work_date] # None
  BY DEF Structure, DayTypeOK, DaysExist, DayOf, IInv, LedgerTypeOK, SessionRow
<1>1. ASSUME NEW r \in Requests, CommitIn(r) PROVE Typed /\ \A s \in Requests : Exists(s)
  <2> DEFINE u == req[r].user
             d == WorkDate(req[r].now)
             row == DayAfterPunchIn(days[u][d], req[r].now)
  <2>1. /\ u \in Users /\ d \in WorkDates /\ req[r].now \in Nat
        /\ sessions' = [sessions EXCEPT ![r] = NewSession(r)]
        /\ NewSession(r) \in SessionRow
        /\ days' = [days EXCEPT ![u][d] = row]
    BY <1>1, InEffect
  <2>2. NewSession(r).user = u /\ NewSession(r).work_date = d BY DEF NewSession
  <2>3. row \in DayRow /\ row # None BY <1>0, <2>1, DayAfterPunchInRow, NoneIsNoRow
  <2> HIDE DEF u, d, row
  <2>4. /\ days' \in [Users -> [WorkDates -> DayRow \cup {None}]] /\ days'[u][d] = row
        /\ \A v \in Users, e \in WorkDates :
              v # u \/ e # d => days'[v][e] = days[v][e]
    BY <1>0, <2>1, <2>3
  <2>5. sessions'[r] = NewSession(r) /\ \A s \in Requests \ {r} : sessions'[s] = sessions[s]
    BY <2>1 DEF IInv, LedgerTypeOK
  <2> QED BY <1>0, <2>1, <2>2, <2>3, <2>4, <2>5
<1>2. ASSUME NEW r \in Requests, CommitOut(r) PROVE Typed /\ \A s \in Requests : Exists(s)
  <2> DEFINE z == tx[r].session
             u == sessions[z].user
             d == sessions[z].work_date
             row == Overwrite(days[u][d], tx[r].loaded, tx[r].totals)
  <2>1. /\ z \in Requests /\ sessions[z] \in SessionRow /\ IsOpen(z)
        /\ u \in Users /\ d \in WorkDates
        /\ req[r].now \in Nat /\ req[r].now > sessions[z].punch_in
        /\ sessions' = [sessions EXCEPT ![z] = Completed(sessions[z], req[r].now)]
        /\ days[u][d] \in DayRow /\ tx[r].loaded \in DayRow /\ tx[r].totals \in TotalsRow
        /\ days' = [days EXCEPT ![u][d] = row]
    BY <1>2, OutEffect
  <2>2. row \in DayRow /\ row # None
    <3>1. row \in DayRow BY <2>1, OverwriteRow
    <3> QED BY <3>1, NoneIsNoRow
  <2>3. /\ sessions'[z].user = u /\ sessions'[z].work_date = d
        /\ \A s \in Requests \ {z} : sessions'[s] = sessions[s]
    <3> HIDE DEF z, u, d, row
    <3>1. z \in DOMAIN sessions BY <2>1 DEF IInv, LedgerTypeOK
    <3>2. /\ sessions'[z] = Completed(sessions[z], req[r].now)
          /\ \A s \in Requests \ {z} : sessions'[s] = sessions[s]
      BY <2>1, <3>1 DEF IInv, LedgerTypeOK
    <3>3. sessions'[z].user = sessions[z].user /\ sessions'[z].work_date = sessions[z].work_date
      BY <2>1, <3>2, CompletedRow
    <3> QED BY <3>2, <3>3 DEF u, d
  <2> HIDE DEF z, u, d, row
  <2>4. /\ days' \in [Users -> [WorkDates -> DayRow \cup {None}]] /\ days'[u][d] = row
        /\ \A v \in Users, e \in WorkDates :
              v # u \/ e # d => days'[v][e] = days[v][e]
    BY <1>0, <2>1, <2>2
  <2> QED BY <1>0, <2>1, <2>2, <2>3, <2>4
<1>3. ASSUME NEW j \in Jobs, JobCommit(j) PROVE Typed /\ \A s \in Requests : Exists(s)
  <2> DEFINE mine(u, d) == {s \in Requests : job[j].rows[s] # None /\ sessions[s].user = u
                                                                   /\ sessions[s].work_date = d}
  <2>1. days' = [u \in Users |-> [d \in WorkDates |->
                    IF mine(u, d) = {} THEN days[u][d]
                    ELSE job[j].rows[CHOOSE s \in mine(u, d) : TRUE]]]
    BY <1>3 DEF JobCommit
  <2>2. job[j].rows \in [Requests -> DayRow \cup {None}] BY DEF Structure, DayTypeOK
  <2>3. ASSUME NEW u \in Users, NEW d \in WorkDates
        PROVE  \/ days'[u][d] = days[u][d]
               \/ days'[u][d] \in DayRow /\ days'[u][d] # None
    <3>1. CASE mine(u, d) = {} BY <2>1, <3>1
    <3>2. CASE mine(u, d) # {}
      <4>1. (CHOOSE s \in mine(u, d) : TRUE) \in mine(u, d) BY <3>2
      <4>2. \A s \in mine(u, d) : job[j].rows[s] \in DayRow BY <2>2
      <4>3. days'[u][d] = job[j].rows[CHOOSE s \in mine(u, d) : TRUE] BY <2>1, <3>2
      <4> HIDE DEF mine
      <4> QED BY <4>1, <4>2, <4>3, NoneIsNoRow
    <3> QED BY <3>1, <3>2
  <2>4. DOMAIN days' = Users /\ \A u \in Users : days'[u] = [d \in WorkDates |-> days'[u][d]]
    BY <2>1
  <2>5. Typed
    <3>1. days' = [u \in Users |-> [d \in WorkDates |-> days'[u][d]]] BY <2>1
    <3>2. \A u \in Users : \A d \in WorkDates : days'[u][d] \in DayRow \cup {None}
      BY <1>0, <2>3
    <3> QED BY <3>1, <3>2
  <2>6. \A s \in Requests : /\ sessions'[s] # None <=> sessions[s] # None
                            /\ sessions[s] # None => /\ sessions'[s].user = sessions[s].user
                                                     /\ sessions'[s].work_date = sessions[s].work_date
    BY <1>3, JobEffect, RowKept
  <2> QED BY <1>0, <2>3, <2>5, <2>6
<1>4. ASSUME UNCHANGED <<sessions, days>> PROVE Typed /\ \A s \in Requests : Exists(s)
  BY <1>0, <1>4
<1> HIDE DEF Typed, Exists
<1>5. Typed /\ \A s \in Requests : Exists(s) BY <1>1, <1>2, <1>3, <1>4, QuietTables
<1> QED BY <1>5 DEF DaysExist, DayOf, Typed, Exists

-----------------------------------------------------------------------------
(* What the transactions and the maintenance runs see.                     *)

LEMMA SessionsSound ==
  ASSUME IInv, SessionChecks, Structure PROVE SoundView(sessions)
BY DEF SoundView, IInv, LedgerTypeOK, SessionChecks, Structure, SessionsFinite

LEMMA CompletedSound ==
  ASSUME IInv, SessionChecks, Structure, NEW s \in Requests, sessions[s] # None,
         NEW t \in Nat, t > sessions[s].punch_in
  PROVE  SoundView([sessions EXCEPT ![s] = Completed(sessions[s], t)])
<1> DEFINE view == [sessions EXCEPT ![s] = Completed(sessions[s], t)]
<1>1. SoundView(sessions) /\ sessions \in [Requests -> SessionRow \cup {None}]
  BY SessionsSound DEF IInv, LedgerTypeOK
<1>2. /\ Completed(sessions[s], t) \in SessionRow
      /\ Completed(sessions[s], t).duration \in Nat
  BY <1>1, CompletedRow
<1>3. view[s] = Completed(sessions[s], t) /\ \A z \in Requests \ {s} : view[z] = sessions[z]
  BY <1>1
<1> HIDE DEF view
<1>4. {z \in Requests : view[z] # None} = {z \in Requests : sessions[z] # None}
  BY <1>2, <1>3, NoneIsNoRow
<1>5. \A z \in Requests : view[z] # None =>
         view[z] \in SessionRow /\ (view[z].punch_out # None => view[z].duration # None)
  BY <1>1, <1>2, <1>3 DEF SoundView
<1>6. SoundView(view) BY <1>1, <1>4, <1>5 DEF SoundView
<1> QED BY <1>6 DEF view

LEMMA JobViewSound ==
  ASSUME IInv, SessionChecks, Structure, NEW j \in Jobs
  PROVE  SoundView(JobView(j))
<1> DEFINE view == JobView(j)
<1>1. SoundView(sessions) /\ sessions \in [Requests -> SessionRow \cup {None}]
  BY SessionsSound DEF IInv, LedgerTypeOK
<1>2. ASSUME NEW z \in Requests
      PROVE  /\ view[z] # None <=> sessions[z] # None
             /\ view[z] # None =>
                  view[z] \in SessionRow /\ (view[z].punch_out # None => view[z].duration # None)
  <2>1. CASE z \notin job[j].closed
    <3>1. view[z] = sessions[z] BY <2>1 DEF JobView
    <3> QED BY <1>1, <3>1 DEF SoundView
  <2>2. CASE z \in job[j].closed
    <3>1. sessions[z] # None /\ sessions[z] \in SessionRow
      BY <1>1, <2>2 DEF IInv, JobsNameSessions
    <3>2. view[z] = AutoClosed(sessions[z]) BY <2>2 DEF JobView
    <3>3. view[z] \in SessionRow /\ view[z].duration \in Nat
      BY <3>1, <3>2, AutoClosedRow
    <3> QED BY <3>1, <3>3, NoneIsNoRow
  <2> QED BY <2>1, <2>2
<1> HIDE DEF view
<1>3. {z \in Requests : view[z] # None} = {z \in Requests : sessions[z] # None} BY <1>2
<1>4. SoundView(view) BY <1>1, <1>2, <1>3 DEF SoundView
<1> QED BY <1>4 DEF view

TxRow == [session : Requests, loaded : DayRow, totals : TotalsRow]
TxTyped == \A r \in Requests : tx[r] # None => tx[r] \in TxRow
AnswersTyped == answer \in [Requests -> Answers \cup {None}]

LEMMA AnswerKeeps ==
  ASSUME IInv, Structure, NEW r \in Requests, NEW c \in Answers, Answer(r, c)
  PROVE  TxTyped' /\ WritesTyped' /\ AnswersTyped'
BY DEF Answer, IInv, Shapes, LedgerTypeOK, Structure, DayTypeOK, WritesTyped, TxTyped, TxRow,
       AnswersTyped

\* What an accepted punch_out has read and computed.
LEMMA AcceptOutEffect ==
  ASSUME IInv, SessionChecks, Structure, NEW r \in Requests, AcceptOut(r)
  PROVE  \E s \in Requests :
           LET view == [sessions EXCEPT ![s] = Completed(sessions[s], req[r].now)]
           IN  /\ s \in Open(req[r].user) /\ pc[r] = "locked"
               /\ req[r].now \in Nat /\ req[r].now > sessions[s].punch_in
               /\ DayOf(s) \in DayRow
               /\ TotalsIn(view, s) \in TotalsRow
               /\ tx' = [tx EXCEPT ![r] = [session |-> s, loaded |-> DayOf(s),
                                           totals |-> TotalsIn(view, s)]]
               /\ pc' = [pc EXCEPT ![r] = "write"]
               /\ UNCHANGED <<clock, active, tables, req, answer, job, crashes>>
<1>1. PICK s \in Requests :
         LET view == [sessions EXCEPT ![s] = Completed(sessions[s], req[r].now)]
         IN  /\ Legal(r, s) /\ req[r].now > sessions[s].punch_in
             /\ tx' = [tx EXCEPT ![r] = [session |-> s, loaded |-> DayOf(s),
                                         totals |-> TotalsIn(view, s)]]
             /\ pc' = [pc EXCEPT ![r] = "write"]
             /\ UNCHANGED <<clock, active, tables, req, answer, job, crashes>>
  BY DEF AcceptOut, DayOf, TotalsIn
<1>2. pc[r] = "locked" /\ req[r] \in Request
  BY <1>1 DEF Legal, IInv, RowsAreCommitted, InFlight, LedgerTypeOK
<1>3. s \in Open(req[r].user) BY <1>1, <1>2 DEF Legal
<1>4. req[r].now \in Nat /\ IsOpen(s) /\ sessions[s] # None /\ sessions[s] \in SessionRow
  BY <1>2, <1>3 DEF Request, Open, IsOpen, IInv, LedgerTypeOK
<1>5. DayOf(s) \in DayRow
  BY <1>4 DEF Structure, DaysExist, DayTypeOK, DayOf, SessionRow
<1> DEFINE view == [sessions EXCEPT ![s] = Completed(sessions[s], req[r].now)]
<1>6. SoundView(view) BY <1>1, <1>4, CompletedSound
<1> HIDE DEF view
<1>7. TotalsIn(view, s) \in TotalsRow BY <1>6, DayTotalsType DEF TotalsIn
<1> QED BY <1>1, <1>2, <1>3, <1>4, <1>5, <1>7 DEF view

LEMMA TxKept ==
  ASSUME IInv, SessionChecks, Structure, [Next]_vars
  PROVE  TxTyped' /\ WritesTyped' /\ AnswersTyped'
<1>0. /\ TxTyped /\ WritesTyped /\ AnswersTyped
      /\ pc \in [Requests -> {"new", "lock", "locked", "day", "write", "done"}]
      /\ tx = [r \in Requests |-> tx[r]]
  BY DEF Structure, DayTypeOK, TxTyped, TxRow, AnswersTyped, IInv, LedgerTypeOK, Shapes
<1>1. ASSUME NEW r \in Requests, Punch(r) PROVE TxTyped' /\ WritesTyped' /\ AnswersTyped'
  <2>1. CASE AcceptOut(r)
    <3>1. PICK s \in Requests :
            /\ DayOf(s) \in DayRow
            /\ TotalsIn([sessions EXCEPT ![s] = Completed(sessions[s], req[r].now)], s)
                  \in TotalsRow
            /\ tx' = [tx EXCEPT ![r] =
                  [session |-> s, loaded |-> DayOf(s),
                   totals |-> TotalsIn([sessions EXCEPT ![s] =
                                          Completed(sessions[s], req[r].now)], s)]]
            /\ pc' = [pc EXCEPT ![r] = "write"] /\ answer' = answer
      BY <2>1, AcceptOutEffect
    <3>2. /\ tx'[r] \in TxRow
          /\ \A q \in Requests \ {r} : tx'[q] = tx[q] /\ pc'[q] = pc[q]
      BY <1>0, <3>1 DEF TxRow
    <3> QED BY <1>0, <3>1, <3>2 DEF TxTyped, WritesTyped, AnswersTyped, TxRow
  <2>2. CASE UNCHANGED <<tx, answer>> /\ \A q \in Requests : pc'[q] = "write" => pc[q] = "write"
    BY <1>0, <2>2 DEF TxTyped, WritesTyped, AnswersTyped
  <2>3. CASE \E c \in Answers : Answer(r, c) BY <2>3, AnswerKeeps
  <2>4. \/ AcceptOut(r)
        \/ UNCHANGED <<tx, answer>> /\ \A q \in Requests : pc'[q] = "write" => pc[q] = "write"
        \/ \E c \in Answers : Answer(r, c)
    <3>1. CASE \E u \in Users, t \in Types, k \in Keys \cup {NoKey} : Begin(r, u, t, k)
      BY <1>0, <3>1 DEF Begin
    <3>2. CASE \E u \in Users : TurnAway(r, u)
      <4>1. "USER_DISABLED" \in Answers BY DEF Answers
      <4> QED BY <3>2, <4>1 DEF TurnAway
    <3>3. CASE LockUser(r) BY <1>0, <3>3 DEF LockUser, Answers
    <3>4. CASE Replay(r)
      <4>1. PICK c \in {"REPLAY_REJECTED", "DUPLICATE_REQUEST", "REPLAYED"} : Answer(r, c)
        BY <3>4, Zenon DEF Replay
      <4> QED BY <4>1 DEF Answers
    <3>5. CASE RefuseIn(r) BY <3>5 DEF RefuseIn, Answers
    <3>6. CASE RefuseOut(r) BY <3>6 DEF RefuseOut, Answers
    <3>7. CASE RejectPunch(r) BY <3>7 DEF RejectPunch, Answers
    <3>8. CASE AcceptIn(r) BY <1>0, <3>8 DEF AcceptIn
    <3>9. CASE CommitIn(r) BY <3>9 DEF CommitIn, Answers
    <3>10. CASE RefuseTime(r) BY <3>10 DEF RefuseTime, Answers
    <3>11. CASE CommitOut(r) BY <3>11 DEF CommitOut, Answers
    <3> QED BY <1>1, <3>1, <3>2, <3>3, <3>4, <3>5, <3>6, <3>7, <3>8, <3>9, <3>10, <3>11
            DEF Punch
  <2> QED BY <2>1, <2>2, <2>3, <2>4
<1>2. ASSUME NEW p \in Requests, Answer(p, "ABORTED")
      PROVE  TxTyped' /\ WritesTyped' /\ AnswersTyped'
  BY <1>2, AnswerKeeps DEF Answers
<1>3. ASSUME UNCHANGED <<tx, answer, pc>> PROVE TxTyped' /\ WritesTyped' /\ AnswersTyped'
  BY <1>0, <1>3 DEF TxTyped, WritesTyped, AnswersTyped
<1>4. ASSUME NEW j \in Jobs, Maintain(j) PROVE UNCHANGED <<tx, answer, pc>>
  BY <1>4 DEF Maintain, JobBegin, JobUpdate, JobAudit, JobLoadDay, JobSum, JobWriteDay, JobCommit
<1>5. ASSUME NEW p \in Procs, Abort(p)
      PROVE  UNCHANGED <<tx, answer, pc>> \/ (p \in Requests /\ Answer(p, "ABORTED"))
  BY <1>5 DEF Abort, Procs
<1>6. ASSUME \/ \E u \in Managed : SetStatus(u)
             \/ Tick \/ Quiescent \/ UNCHANGED vars
      PROVE  UNCHANGED <<tx, answer, pc>>
  BY <1>6 DEF SetStatus, Tick, Quiescent, vars
<1> QED BY <1>1, <1>2, <1>3, <1>4, <1>5, <1>6 DEF Next, BreakWaitCycle, Crash

-----------------------------------------------------------------------------
(* The maintenance runs stay orderly, and apart.                           *)

JobRow == [stage : Stages, todo : SUBSET Requests, cur : Requests \cup {None},
           closed : SUBSET Requests, loaded : DayRow \cup {None},
           totals : TotalsRow \cup {None}, rows : [Requests -> DayRow \cup {None}],
           owed : Users \cup {None}, shares : SUBSET Users]

LEMMA JobIsRow == ASSUME Structure, NEW j \in Jobs PROVE job[j] \in JobRow /\ Orderly(j)
BY DEF Structure, DayTypeOK, JobRow

LEMMA NoJobIsRow == NoJob \in JobRow BY DEF NoJob, JobRow, Stages

\* Sessions that exist stay with their user and day.
LEMMA SameRows ==
  ASSUME IInv, [Next]_vars, NEW s \in Requests, sessions[s] # None
  PROVE  /\ sessions'[s] # None
         /\ sessions'[s].user = sessions[s].user
         /\ sessions'[s].work_date = sessions[s].work_date
         /\ \A z \in Requests : sessions[z] # None => (SameDay(s, z)' <=> SameDay(s, z))
BY RowKept DEF SameDay

\* A run that did not move stays orderly, whatever the others do.
LEMMA OrderlyStays ==
  ASSUME IInv, Structure, [Next]_vars, NEW j \in Jobs, job'[j] = job[j]
  PROVE  Orderly(j)'
<1>1. \A s \in Named(j) : s \in Requests /\ sessions[s] # None
  BY DEF Named, IInv, JobsNameSessions
<1>2. \A s \in Named(j) : sessions'[s].user = sessions[s].user BY <1>1, SameRows
<1>3. Named(j)' = Named(j) BY DEF Named
<1>4. Orderly(j) BY DEF Structure
<1> QED BY <1>2, <1>3, <1>4 DEF Orderly

LEMMA OrderlyNoJob == ASSUME NEW j \in Jobs, job'[j] = NoJob PROVE Orderly(j)'
<1>1. Named(j)' = {} BY DEF Named, NoJob
<1> QED BY <1>1 DEF Orderly, NoJob

\* Two runs stay apart when neither closes a session or writes a row.
LEMMA ApartStays ==
  ASSUME IInv, Structure, [Next]_vars, NEW i \in Jobs, NEW j \in Jobs, i # j,
         \A k \in {i, j} : /\ job'[k].closed \subseteq job[k].closed
                           /\ \A s \in Requests : job'[k].rows[s] # None => job[k].rows[s] # None
  PROVE  Apart(i, j)'
<1>1. Apart(i, j) BY DEF Structure
<1>2. \A k \in {i, j} : \A s \in Requests : job[k].rows[s] # None => sessions[s] # None
  BY DEF Structure, Orderly, IInv, JobsNameSessions
<1>3. \A s, z \in Requests : job'[i].rows[s] # None /\ job'[j].rows[z] # None
                                => ~SameDay(s, z)'
  BY <1>1, <1>2, SameRows DEF Apart
<1> QED BY <1>1, <1>3 DEF Apart

\* Moving run j only.
LEMMA OneRunMoves ==
  ASSUME IInv, Structure, [Next]_vars, NEW j \in Jobs, NEW J \in JobRow,
         job' = [job EXCEPT ![j] = J], Orderly(j)',
         \A i \in Jobs \ {j} : Apart(i, j)' /\ Apart(j, i)'
  PROVE  /\ \A i \in Jobs : job'[i] \in JobRow /\ Orderly(i)'
         /\ \A i, k \in Jobs : i # k => Apart(i, k)'
<1>1. job'[j] = J /\ \A i \in Jobs \ {j} : job'[i] = job[i] BY DEF IInv, Shapes
<1>2. \A i \in Jobs : job'[i] \in JobRow /\ Orderly(i)'
  BY <1>1, JobIsRow, OrderlyStays
<1>3. ASSUME NEW i \in Jobs, NEW k \in Jobs, i # k PROVE Apart(i, k)'
  <2>1. CASE i = j \/ k = j BY <1>3, <2>1
  <2>2. CASE i # j /\ k # j
    <3>1. job'[i] = job[i] /\ job'[k] = job[k] BY <1>1, <2>2
    <3> QED BY <1>3, <3>1, ApartStays
  <2> QED BY <2>1, <2>2
<1> QED BY <1>2, <1>3

\* ... and it closes nothing and writes no row.
LEMMA OneRunGoesOn ==
  ASSUME IInv, Structure, [Next]_vars, NEW j \in Jobs, NEW J \in JobRow,
         job' = [job EXCEPT ![j] = J], Orderly(j)',
         J.closed \subseteq job[j].closed,
         \A s \in Requests : J.rows[s] # None => job[j].rows[s] # None
  PROVE  /\ \A i \in Jobs : job'[i] \in JobRow /\ Orderly(i)'
         /\ \A i, k \in Jobs : i # k => Apart(i, k)'
<1>1. job'[j] = J /\ \A i \in Jobs \ {j} : job'[i] = job[i] BY DEF IInv, Shapes
<1>2. \A i \in Jobs \ {j} : Apart(i, j)' /\ Apart(j, i)' BY <1>1, ApartStays
<1> QED BY <1>2, OneRunMoves

LEMMA JobBeginRuns ==
  ASSUME IInv, Structure, [Next]_vars, NEW j \in Jobs, JobBegin(j)
  PROVE  /\ \A i \in Jobs : job'[i] \in JobRow /\ Orderly(i)'
         /\ \A i, k \in Jobs : i # k => Apart(i, k)'
<1> DEFINE stale == {s \in Requests : Stale(s)}
<1>1. job[j] = NoJob BY DEF JobBegin, Structure, Orderly
<1>2. PICK s \in stale : job' = [job EXCEPT ![j].stage = "update", ![j].cur = s,
                                            ![j].todo = stale \ {s}]
  BY DEF JobBegin
<1> DEFINE J == [NoJob EXCEPT !.stage = "update", !.cur = s, !.todo = stale \ {s}]
<1>3. job' = [job EXCEPT ![j] = J] BY <1>1, <1>2 DEF IInv, Shapes
<1>4. /\ J \in JobRow /\ J.closed = {} /\ J.rows = NoJob.rows /\ J.todo = stale \ {s}
      /\ J.cur = s /\ J.stage = "update" /\ s \in Requests
  BY NoJobIsRow DEF NoJob, JobRow, Stages
<1>5. \A x, y \in stale : sessions[x].user = sessions[y].user => x = y
  BY DEF Stale, IInv, OneOpenSession
<1>6. sessions' = sessions BY DEF JobBegin, tables
<1>7. \A x \in Requests : NoJob.rows[x] = None BY DEF NoJob
<1> HIDE DEF J, stale
<1>8. job'[j] = J BY <1>3 DEF IInv, Shapes
<1>9. Orderly(j)'
  <2>1. \A x \in Named(j)' : x \in stale BY <1>2, <1>4, <1>8 DEF Named
  <2>2. \A x, y \in Named(j)' : sessions'[x].user = sessions'[y].user => x = y
    BY <1>5, <1>6, <2>1
  <2> QED BY <1>4, <1>7, <1>8, <2>2 DEF Orderly
<1>10. J.closed \subseteq job[j].closed /\ \A x \in Requests : J.rows[x] = None
  BY <1>1, <1>4, <1>7
<1> QED BY <1>3, <1>4, <1>9, <1>10, OneRunGoesOn

LEMMA JobUpdateRuns ==
  ASSUME IInv, Structure, [Next]_vars, NEW j \in Jobs, JobUpdate(j)
  PROVE  /\ \A i \in Jobs : job'[i] \in JobRow /\ Orderly(i)'
         /\ \A i, k \in Jobs : i # k => Apart(i, k)'
<1> DEFINE J == [job[j] EXCEPT !.closed = @ \cup {job[j].cur},
                               !.stage = IF job[j].owed = None THEN "load" ELSE "audit"]
<1>1. job' = [job EXCEPT ![j] = J] /\ sessions' = sessions
  BY DEF JobUpdate, tables, IInv, Shapes
<1>2. job[j] \in JobRow /\ Orderly(j) /\ job[j].stage = "update" BY JobIsRow DEF JobUpdate
<1>3. job[j].cur \in Requests BY <1>2 DEF Orderly, JobRow
<1>4. /\ J \in JobRow /\ J.closed = job[j].closed \cup {job[j].cur} /\ J.rows = job[j].rows
      /\ J.cur = job[j].cur /\ J.todo = job[j].todo /\ J.stage \in {"load", "audit"}
      /\ J.stage = "audit" => J.owed # None
  BY <1>2, <1>3 DEF JobRow, Stages
<1> HIDE DEF J
<1>5. job'[j] = J /\ \A i \in Jobs \ {j} : job'[i] = job[i] BY <1>1 DEF IInv, Shapes
<1>6. Orderly(j)'
  <2>1. Named(j)' = Named(j) BY <1>4, <1>5 DEF Named
  <2> QED BY <1>1, <1>2, <1>3, <1>4, <1>5, <2>1 DEF Orderly
<1>7. \A i \in Jobs \ {j} : job[j].cur \notin job[i].closed
  BY DEF JobUpdate, SessionFree, Procs, HoldsSession
<1>8. \A i \in Jobs \ {j} : Apart(i, j)' /\ Apart(j, i)'
  <2> TAKE i \in Jobs \ {j}
  <2>1. Apart(i, j) /\ Apart(j, i) BY DEF Structure
  <2> QED BY <1>1, <1>4, <1>5, <1>7, <2>1 DEF Apart, SameDay
<1> QED BY <1>1, <1>4, <1>6, <1>8, OneRunMoves

LEMMA JobAuditRuns ==
  ASSUME IInv, Structure, [Next]_vars, NEW j \in Jobs, JobAudit(j)
  PROVE  /\ \A i \in Jobs : job'[i] \in JobRow /\ Orderly(i)'
         /\ \A i, k \in Jobs : i # k => Apart(i, k)'
<1> DEFINE J == [job[j] EXCEPT !.shares = @ \cup {job[j].owed}, !.owed = None,
                    !.stage = IF job[j].cur \in job[j].closed THEN "load" ELSE "update"]
<1>1. job' = [job EXCEPT ![j] = J] /\ sessions' = sessions
  BY DEF JobAudit, tables, IInv, Shapes
<1>2. job[j] \in JobRow /\ Orderly(j) /\ job[j].stage = "audit" BY JobIsRow DEF JobAudit
<1>3. job[j].cur # None BY <1>2 DEF Orderly
<1>4. /\ J.closed = job[j].closed /\ J.rows = job[j].rows
      /\ J.cur = job[j].cur /\ J.todo = job[j].todo
      /\ J.stage = IF job[j].cur \in job[j].closed THEN "load" ELSE "update"
  BY <1>2 DEF JobRow
<1>5. J \in JobRow
  <2>1. job[j].owed \in Users BY <1>2 DEF Orderly, JobRow
  <2> QED BY <1>2, <2>1 DEF JobRow, Stages
<1> HIDE DEF J
<1>6. job'[j] = J BY <1>1 DEF IInv, Shapes
<1>7. Orderly(j)'
  <2>1. Named(j)' = Named(j) BY <1>4, <1>6 DEF Named
  <2> QED BY <1>1, <1>2, <1>3, <1>4, <1>6, <2>1 DEF Orderly
<1> QED BY <1>1, <1>4, <1>5, <1>7, OneRunGoesOn

\* The run reads the row of the day ...
LEMMA JobLoadDayEffect ==
  ASSUME IInv, Structure, NEW j \in Jobs, JobLoadDay(j)
  PROVE  LET s == job[j].cur
         IN  /\ job[j].stage = "load" /\ s \in Requests /\ s \in job[j].closed
             /\ sessions[s] # None /\ DayOf(s) \in DayRow
             /\ job' = [job EXCEPT ![j] = [job[j] EXCEPT !.stage = "sum", !.loaded = DayOf(s)]]
             /\ UNCHANGED <<clock, active, tables, pc, req, tx, answer, crashes>>
<1> DEFINE s == job[j].cur
<1>1. job[j] \in JobRow /\ Orderly(j) /\ job[j].stage = "load" BY JobIsRow DEF JobLoadDay
<1>2. s \in job[j].closed /\ s \in Requests BY <1>1 DEF Orderly, JobRow
<1>3. sessions[s] # None /\ sessions[s] \in SessionRow
  BY <1>2 DEF IInv, JobsNameSessions, LedgerTypeOK
<1>4. DayOf(s) \in DayRow
  BY <1>2, <1>3 DEF Structure, DaysExist, DayTypeOK, DayOf, SessionRow
<1>5. job' = [job EXCEPT ![j] = [job[j] EXCEPT !.stage = "sum", !.loaded = DayOf(s)]]
  BY DEF JobLoadDay, DayOf, IInv, Shapes
<1> QED BY <1>1, <1>2, <1>3, <1>4, <1>5 DEF JobLoadDay

LEMMA JobLoadDayRuns ==
  ASSUME IInv, Structure, [Next]_vars, NEW j \in Jobs, JobLoadDay(j)
  PROVE  /\ \A i \in Jobs : job'[i] \in JobRow /\ Orderly(i)'
         /\ \A i, k \in Jobs : i # k => Apart(i, k)'
<1> DEFINE s == job[j].cur
           J == [job[j] EXCEPT !.stage = "sum", !.loaded = DayOf(s)]
<1>1. /\ job' = [job EXCEPT ![j] = J] /\ sessions' = sessions /\ s \in job[j].closed
      /\ DayOf(s) \in DayRow /\ job[j].stage = "load"
  BY JobLoadDayEffect DEF tables
<1>2. job[j] \in JobRow /\ Orderly(j) BY JobIsRow
<1>3. /\ J \in JobRow /\ J.closed = job[j].closed /\ J.rows = job[j].rows
      /\ J.cur = job[j].cur /\ J.todo = job[j].todo /\ J.stage = "sum"
      /\ J.loaded = DayOf(s)
  BY <1>1, <1>2 DEF JobRow, Stages
<1> HIDE DEF J
<1>4. job'[j] = J BY <1>1 DEF IInv, Shapes
<1>5. Orderly(j)'
  <2>1. Named(j)' = Named(j) BY <1>3, <1>4 DEF Named
  <2> QED BY <1>1, <1>2, <1>3, <1>4, <2>1 DEF Orderly
<1> QED BY <1>1, <1>3, <1>5, OneRunGoesOn

\* ... and then sums up its sessions.
LEMMA JobSumEffect ==
  ASSUME IInv, SessionChecks, Structure, NEW j \in Jobs, JobSum(j)
  PROVE  LET s == job[j].cur
         IN  /\ job[j].stage = "sum" /\ s \in Requests /\ s \in job[j].closed
             /\ sessions[s] # None
             /\ job[j].loaded \in DayRow /\ TotalsIn(JobView(j), s) \in TotalsRow
             /\ job' = [job EXCEPT ![j] =
                  [job[j] EXCEPT !.stage = "day", !.totals = TotalsIn(JobView(j), s)]]
             /\ UNCHANGED <<clock, active, tables, pc, req, tx, answer, crashes>>
<1> DEFINE s == job[j].cur
<1>1. job[j] \in JobRow /\ Orderly(j) /\ job[j].stage = "sum" BY JobIsRow DEF JobSum
<1>2. s \in job[j].closed /\ s \in Requests /\ job[j].loaded \in DayRow
  BY <1>1 DEF Orderly, JobRow
<1>3. sessions[s] # None BY <1>2 DEF IInv, JobsNameSessions
<1>4. TotalsIn(JobView(j), s) \in TotalsRow
  BY JobViewSound, DayTotalsType DEF TotalsIn
<1>5. job' = [job EXCEPT ![j] = [job[j] EXCEPT !.stage = "day",
                                              !.totals = TotalsIn(JobView(j), s)]]
  BY DEF JobSum, TotalsIn, IInv, Shapes
<1> QED BY <1>1, <1>2, <1>3, <1>4, <1>5 DEF JobSum

LEMMA JobSumRuns ==
  ASSUME IInv, SessionChecks, Structure, [Next]_vars, NEW j \in Jobs, JobSum(j)
  PROVE  /\ \A i \in Jobs : job'[i] \in JobRow /\ Orderly(i)'
         /\ \A i, k \in Jobs : i # k => Apart(i, k)'
<1> DEFINE s == job[j].cur
           J == [job[j] EXCEPT !.stage = "day", !.totals = TotalsIn(JobView(j), s)]
<1>1. /\ job' = [job EXCEPT ![j] = J] /\ sessions' = sessions /\ s \in job[j].closed
      /\ job[j].loaded \in DayRow /\ TotalsIn(JobView(j), s) \in TotalsRow
      /\ job[j].stage = "sum"
  BY JobSumEffect DEF tables
<1>2. job[j] \in JobRow /\ Orderly(j) BY JobIsRow
<1>3. /\ J \in JobRow /\ J.closed = job[j].closed /\ J.rows = job[j].rows
      /\ J.cur = job[j].cur /\ J.todo = job[j].todo /\ J.stage = "day"
      /\ J.loaded = job[j].loaded /\ J.totals = TotalsIn(JobView(j), s)
  BY <1>1, <1>2 DEF JobRow, Stages
<1> HIDE DEF J
<1>4. job'[j] = J BY <1>1 DEF IInv, Shapes
<1>5. Orderly(j)'
  <2>1. Named(j)' = Named(j) BY <1>3, <1>4 DEF Named
  <2> QED BY <1>1, <1>2, <1>3, <1>4, <2>1 DEF Orderly
<1> QED BY <1>1, <1>3, <1>5, OneRunGoesOn

\* Run J, having written the row of s, at its next session.
Further(J, st, next, s, u, written) ==
    [J EXCEPT !.stage = st, !.cur = next, !.todo = @ \ {next}, !.owed = u,
              !.loaded = None, !.totals = None, !.rows[s] = written]

LEMMA JobRowWritten ==
  ASSUME NEW J \in JobRow, NEW st \in Stages, NEW next \in Requests \cup {None},
         NEW s \in Requests, NEW u \in Users, NEW written \in DayRow \cup {None}
  PROVE  LET K == Further(J, st, next, s, u, written)
         IN  /\ K \in JobRow
             /\ K.stage = st /\ K.cur = next /\ K.todo = J.todo \ {next} /\ K.closed = J.closed
             /\ K.owed = u /\ K.shares = J.shares
             /\ K.rows[s] = written /\ \A z \in Requests \ {s} : K.rows[z] = J.rows[z]
<1> DEFINE Fields == {"stage", "todo", "cur", "closed", "loaded", "totals", "rows", "owed",
                      "shares"}
           K == Further(J, st, next, s, u, written)
<1>1. DOMAIN J = Fields BY DEF JobRow
<1>2. K = [f \in Fields |-> K[f]] BY <1>1 DEF Further
<1>3. /\ K.stage = st /\ K.todo = J.todo \ {next} /\ K.cur = next /\ K.closed = J.closed
      /\ K.loaded = None /\ K.totals = None /\ K.rows = [J.rows EXCEPT ![s] = written]
      /\ K.owed = u /\ K.shares = J.shares
  BY <1>1 DEF Further
<1> HIDE DEF K
<1>4. K = [stage |-> K.stage, todo |-> K.todo, cur |-> K.cur, closed |-> K.closed,
           loaded |-> K.loaded, totals |-> K.totals, rows |-> K.rows, owed |-> K.owed,
           shares |-> K.shares]
  BY <1>2
<1>5. /\ K.rows \in [Requests -> DayRow \cup {None}]
      /\ K.rows[s] = written /\ \A z \in Requests \ {s} : K.rows[z] = J.rows[z]
  BY <1>3 DEF JobRow
<1>6. K \in JobRow BY <1>3, <1>4, <1>5 DEF JobRow
<1> QED BY <1>3, <1>5, <1>6 DEF K

\* The run writes the row, if it changes it, and goes to its next session.
LEMMA JobWriteDayEffect ==
  ASSUME IInv, SessionChecks, Structure, NEW j \in Jobs, JobWriteDay(j)
  PROVE  LET J == job[j]
             s == J.cur
             new == Overwrite(J.loaded, J.loaded, J.totals)
             written == IF new = J.loaded THEN None ELSE Overwrite(DayOf(s), J.loaded, J.totals)
         IN  /\ J.stage = "day" /\ s \in Requests /\ s \in J.closed /\ sessions[s] # None
             /\ J.loaded \in DayRow /\ J.totals \in TotalsRow /\ DayOf(s) \in DayRow
             /\ sessions[s].user \in Users /\ written \in DayRow \cup {None}
             /\ new # J.loaded => DayFree(j, sessions[s].user, sessions[s].work_date)
             /\ \E next \in J.todo \cup {None}, st \in {"commit", "audit", "update"} :
                  /\ next = None <=> st = "commit"
                  /\ job' = [job EXCEPT ![j] = Further(J, st, next, s, sessions[s].user, written)]
             /\ UNCHANGED <<clock, active, tables, pc, req, tx, answer, crashes>>
<1> DEFINE J == job[j]
           s == J.cur
           new == Overwrite(J.loaded, J.loaded, J.totals)
           written == IF new = J.loaded THEN None ELSE Overwrite(DayOf(s), J.loaded, J.totals)
           S == IF J.todo = {} THEN {None} ELSE J.todo
           T == IF J.todo = {} THEN {"commit"} ELSE {"audit", "update"}
           goes(next, st) ==
              job' = [job EXCEPT ![j] = Further(J, st, next, s, sessions[s].user, written)]
<1>1. /\ J \in JobRow /\ Orderly(j) /\ J.stage = "day"
      /\ new # J.loaded => DayFree(j, sessions[s].user, sessions[s].work_date)
      /\ UNCHANGED <<clock, active, tables, pc, req, tx, answer, crashes>>
  BY JobIsRow DEF JobWriteDay
<1>2. s \in J.closed /\ s \in Requests /\ J.loaded \in DayRow /\ J.totals \in TotalsRow
  BY <1>1 DEF Orderly, JobRow
<1>3. sessions[s] # None /\ sessions[s] \in SessionRow
  BY <1>2 DEF IInv, JobsNameSessions, LedgerTypeOK
<1>4. sessions[s].user \in Users /\ DayOf(s) \in DayRow
  BY <1>2, <1>3 DEF Structure, DaysExist, DayTypeOK, DayOf, SessionRow
<1>5. written \in DayRow \cup {None}
  <2>1. Overwrite(DayOf(s), J.loaded, J.totals) \in DayRow BY <1>2, <1>4, OverwriteRow
  <2> QED BY <2>1
<1>6. \E next \in S, st \in T : goes(next, st) BY Zenon DEF JobWriteDay, DayOf, Further
<1>7. \A next \in S, st \in T :
         /\ next \in J.todo \cup {None} /\ st \in {"commit", "audit", "update"}
         /\ next = None <=> st = "commit"
  <2>1. J.todo \in SUBSET Requests BY <1>1 DEF JobRow
  <2> HIDE DEF J
  <2> QED BY <2>1
<1> HIDE DEF S, T, goes
<1>8. \E next \in J.todo \cup {None}, st \in {"commit", "audit", "update"} :
         (next = None <=> st = "commit") /\ goes(next, st)
  BY <1>6, <1>7
<1> QED BY <1>1, <1>2, <1>3, <1>4, <1>5, <1>8, Zenon DEF goes

LEMMA JobWriteDayRuns ==
  ASSUME IInv, SessionChecks, Structure, [Next]_vars, NEW j \in Jobs, JobWriteDay(j)
  PROVE  /\ \A i \in Jobs : job'[i] \in JobRow /\ Orderly(i)'
         /\ \A i, k \in Jobs : i # k => Apart(i, k)'
<1> DEFINE s == job[j].cur
           new == Overwrite(job[j].loaded, job[j].loaded, job[j].totals)
           written == IF new = job[j].loaded THEN None
                      ELSE Overwrite(DayOf(s), job[j].loaded, job[j].totals)
<1>1. /\ s \in Requests /\ s \in job[j].closed /\ sessions[s].user \in Users
      /\ written \in DayRow \cup {None} /\ sessions[s] # None /\ sessions' = sessions
      /\ new # job[j].loaded => DayFree(j, sessions[s].user, sessions[s].work_date)
  BY JobWriteDayEffect DEF tables
<1>2. PICK next \in job[j].todo \cup {None}, st \in {"commit", "audit", "update"} :
         /\ next = None <=> st = "commit"
         /\ job' = [job EXCEPT ![j] = Further(job[j], st, next, s, sessions[s].user, written)]
  BY JobWriteDayEffect
<1> DEFINE J == Further(job[j], st, next, s, sessions[s].user, written)
<1>3. job[j] \in JobRow /\ Orderly(j) BY JobIsRow
<1>4. /\ written # None => DayFree(j, sessions[s].user, sessions[s].work_date)
      /\ sessions[s].user # None
  BY <1>1
<1> HIDE DEF written, new
<1>5. /\ J \in JobRow /\ J.closed = job[j].closed /\ J.todo = job[j].todo \ {next}
      /\ J.cur = next /\ J.stage = st /\ J.owed = sessions[s].user
      /\ J.rows[s] = written /\ \A z \in Requests \ {s} : J.rows[z] = job[j].rows[z]
  <2>1. st \in Stages /\ next \in Requests \cup {None} BY <1>2, <1>3 DEF Stages, JobRow
  <2> QED BY <1>1, <1>3, <2>1, JobRowWritten
<1>6. job' = [job EXCEPT ![j] = J] BY <1>2
<1> HIDE DEF J
<1>8. job'[j] = J /\ \A i \in Jobs \ {j} : job'[i] = job[i] BY <1>6 DEF IInv, Shapes
<1>9. \A x \in Requests : J.rows[x] # None => job[j].rows[x] # None \/ (x = s /\ written # None)
  BY <1>1, <1>3, <1>5 DEF JobRow
<1>10. Orderly(j)'
  <2>1. Named(j)' \subseteq Named(j)
    BY <1>5, <1>8 DEF Named
  <2>2. \A x, y \in Named(j)' : sessions'[x].user = sessions'[y].user => x = y
    BY <1>1, <1>3, <2>1 DEF Orderly
  <2>3. /\ job[j].todo \cap job[j].closed = {} /\ None \notin job[j].todo
        /\ \A x \in Requests : job[j].rows[x] # None => x \in job[j].closed
    BY <1>3 DEF Orderly, JobRow
  <2> HIDE DEF s
  <2>4. \A x \in Requests : J.rows[x] # None => x \in J.closed /\ x # J.cur
    BY <1>1, <1>2, <1>5, <1>9, <2>3
  <2> QED BY <1>2, <1>4, <1>5, <1>8, <2>2, <2>3, <2>4 DEF Orderly
<1>11. \A i \in Jobs \ {j} : Apart(i, j)' /\ Apart(j, i)'
  <2> TAKE i \in Jobs \ {j}
  <2>1. Apart(i, j) /\ Apart(j, i) BY DEF Structure
  <2>2. written # None => \A x \in Requests : job[i].rows[x] # None => ~SameDay(s, x) /\ ~SameDay(x, s)
    BY <1>4 DEF DayFree, HoldsDay, SameDay
  <2>3. \A x, y \in Requests : job[i].rows[x] # None /\ J.rows[y] # None
                                  => ~SameDay(x, y) /\ ~SameDay(y, x)
    BY <1>9, <2>1, <2>2 DEF Apart
  <2>4. \A x, y \in Requests : SameDay(x, y)' <=> SameDay(x, y) BY <1>1 DEF SameDay
  <2>5. job[i].closed \cap job[j].closed = {} BY <2>1 DEF Apart
  <2> QED BY <1>5, <1>8, <2>3, <2>4, <2>5 DEF Apart
<1> QED BY <1>5, <1>6, <1>10, <1>11, OneRunMoves

LEMMA RunsKept ==
  ASSUME IInv, SessionChecks, Structure, [Next]_vars
  PROVE  /\ \A i \in Jobs : job'[i] \in JobRow /\ Orderly(i)'
         /\ \A i, k \in Jobs : i # k => Apart(i, k)'
<1> DEFINE Kept == /\ \A i \in Jobs : job'[i] \in JobRow /\ Orderly(i)'
                   /\ \A i, k \in Jobs : i # k => Apart(i, k)'
<1>1. ASSUME NEW j \in Jobs, job' = [job EXCEPT ![j] = NoJob] PROVE Kept
  <2>1. /\ NoJob.closed \subseteq job[j].closed
        /\ \A s \in Requests : NoJob.rows[s] # None => job[j].rows[s] # None
    BY DEF NoJob
  <2>2. Orderly(j)' BY <1>1, OrderlyNoJob DEF IInv, Shapes
  <2> HIDE DEF Kept
  <2> QED BY <1>1, <2>1, <2>2, NoJobIsRow, OneRunGoesOn DEF Kept
<1>2. ASSUME NEW j \in Jobs, Maintain(j) PROVE Kept
  <2>1. CASE JobCommit(j) BY <1>1, <2>1 DEF JobCommit
  <2> HIDE DEF Kept
  <2> QED BY <1>2, <2>1, JobBeginRuns, JobUpdateRuns, JobAuditRuns, JobLoadDayRuns,
             JobSumRuns, JobWriteDayRuns DEF Maintain, Kept
<1>3. ASSUME UNCHANGED job PROVE Kept
  <2>1. \A i \in Jobs : job'[i] = job[i] BY <1>3
  <2>2. \A i \in Jobs : job'[i] \in JobRow /\ Orderly(i)' BY <2>1, JobIsRow, OrderlyStays
  <2>3. \A i, k \in Jobs : i # k => Apart(i, k)' BY <2>1, ApartStays
  <2> QED BY <2>2, <2>3
<1>4. ASSUME NEW p \in Procs, Abort(p) PROVE Kept
  BY <1>1, <1>3, <1>4 DEF Abort
<1>5. ASSUME NEW r \in Requests, Punch(r) PROVE UNCHANGED job
  BY <1>5 DEF Punch, Begin, TurnAway, LockUser, Replay, RefuseIn, RefuseOut, RejectPunch,
         AcceptIn, CommitIn, RefuseTime, AcceptOut, CommitOut
<1>6. ASSUME \/ \E u \in Managed : SetStatus(u)
             \/ Tick \/ Quiescent \/ UNCHANGED vars
      PROVE  UNCHANGED job
  BY <1>6 DEF SetStatus, Tick, Quiescent, vars
<1> HIDE DEF Kept
<1>7. Kept BY <1>2, <1>3, <1>4, <1>5, <1>6 DEF Next, BreakWaitCycle, Crash
<1> QED BY <1>7 DEF Kept

LEMMA InitStructure == ASSUME Init PROVE Structure
<1> USE DEF Init
<1>1. DayTypeOK
  <2>1. \A j \in Jobs : job[j] = NoJob OBVIOUS
  <2>2. \A j \in Jobs : job[j] \in JobRow BY <2>1, NoJobIsRow
  <2>3. days \in [Users -> [WorkDates -> DayRow \cup {None}]] OBVIOUS
  <2> QED BY <2>2, <2>3 DEF DayTypeOK, JobRow
<1>2. WritesTyped /\ ClocksBounded /\ DaysExist /\ AuditsTell
  BY DEF WritesTyped, ClocksBounded, DaysExist, AuditsTell
<1>3. SessionsFinite
  <2>1. {s \in Requests : sessions[s] # None} = {} OBVIOUS
  <2> QED BY <2>1, FS_EmptySet DEF SessionsFinite
<1>4. ASSUME NEW j \in Jobs PROVE Orderly(j)
  <2>1. job[j] = NoJob OBVIOUS
  <2>2. Named(j) = {} BY <2>1 DEF Named, NoJob
  <2> QED BY <2>1, <2>2 DEF Orderly, NoJob
<1>5. \A i, j \in Jobs : i # j => Apart(i, j) BY DEF Apart, NoJob
<1> QED BY <1>1, <1>2, <1>3, <1>4, <1>5 DEF Structure

\* The maintenance runs stay orderly and apart, every session has its day row, every
\* auto-closed session its audit row, and every variable its type.
THEOREM StructureHolds == Spec => []Structure
<1>1. IInv /\ SessionChecks /\ Structure /\ [Next]_vars => Structure'
  <2> SUFFICES ASSUME IInv, SessionChecks, Structure, [Next]_vars PROVE Structure' OBVIOUS
  <2>1. ClocksBounded' /\ SessionsFinite' /\ AuditsTell' BY ClocksKept, SessionsKept, AuditsKept
  <2>2. /\ days' \in [Users -> [WorkDates -> DayRow \cup {None}]]
        /\ DaysExist'
    BY DaysKept
  <2>3. TxTyped' /\ WritesTyped' /\ AnswersTyped' BY TxKept
  <2>4. /\ \A i \in Jobs : job'[i] \in JobRow /\ Orderly(i)'
        /\ \A i, k \in Jobs : i # k => Apart(i, k)'
    BY RunsKept
  <2>5. DayTypeOK'
    BY <2>2, <2>3, <2>4, AuditsGrow DEF DayTypeOK, TxTyped, TxRow, AnswersTyped, JobRow
  <2> QED BY <2>1, <2>2, <2>3, <2>4, <2>5 DEF Structure
<1> QED BY <1>1, InitStructure, InductiveInvariant, SessionChecksHold, PTL DEF Spec

\* Every variable has its type: a total is never negative or missing, and no job,
\* transaction or answer ever holds anything but what the code puts there.
THEOREM PunchTypes == Spec => []TypeOK
<1>1. IInv /\ Structure => TypeOK BY DEF IInv, Structure, ClocksBounded, TypeOK
<1> QED BY <1>1, InductiveInvariant, StructureHolds, PTL

-----------------------------------------------------------------------------
(* What never comes back: a day once spoilt stays so.                      *)

\* With a session, the day has a status; without one, it is ABSENT.
LEMMA AbsentIsNobody ==
  ASSUME NEW u, NEW d
  PROVE  DayTotals(sessions, u, d).status = "ABSENT" <=>
           \A s \in Requests : sessions[s] # None /\ sessions[s].user = u
                                 => sessions[s].work_date # d
<1> DEFINE mine == MineIn(sessions, u, d)
           closed == ClosedIn(sessions, u, d)
<1>1. DayTotals(sessions, u, d).status = IF mine # closed THEN "PRESENT"
                                         ELSE IF mine # {} THEN "CHECKED_OUT" ELSE "ABSENT"
  BY DayTotalsIs
<1>2. mine = {} => closed = {} BY DEF ClosedIn
<1>3. mine = {} <=> \A s \in Requests : sessions[s] # None /\ sessions[s].user = u
                                          => sessions[s].work_date # d
  BY DEF MineIn
<1> HIDE DEF mine, closed
<1> QED BY <1>1, <1>2, <1>3

LEMMA AgreeIsDayTotalsAgree ==
  DayTotalsAgree <=> \A u \in Users, d \in WorkDates : Agree(u, d)
<1>1. ASSUME NEW u \in Users, NEW d \in WorkDates
      PROVE  Agree(u, d) <=> Spoilt(u, d) \/ TotalsRight(u, d)
  BY AbsentIsNobody DEF Agree, TotalsRight, SameTotals
<1> QED BY <1>1 DEF DayTotalsAgree, Spoilt

LEMMA EventKept ==
  ASSUME IInv, [Next]_vars, NEW r \in Requests, events[r] # None
  PROVE  events'[r] = events[r]
<1>1. pc[r] = "done" BY DEF IInv, RowsAreCommitted
<1>2. ASSUME NEW q \in Requests, RejectPunch(q) \/ CommitIn(q) \/ CommitOut(q)
      PROVE  events'[r] = events[r]
  <2>1. pc[q] # "done" BY <1>2 DEF RejectPunch, Legal, CommitIn, CommitOut
  <2>2. \A x \in Requests \ {q} : events'[x] = events[x]
    BY <1>2 DEF RejectPunch, CommitIn, CommitOut, tables, IInv, LedgerTypeOK
  <2> QED BY <1>1, <2>1, <2>2
<1>3. ASSUME NEW j \in Jobs, JobCommit(j) PROVE events' = events BY <1>3 DEF JobCommit
<1> QED BY <1>2, <1>3, StutterSteps

LEMMA EndedTwiceStays ==
  ASSUME IInv, Structure, [Next]_vars, NEW s \in Requests, EndedTwice(s)
  PROVE  EndedTwice(s)'
<1>1. audits[s] \in Nat /\ audits'[s] \in Nat /\ audits'[s] >= audits[s]
  BY AuditsGrow DEF Structure, DayTypeOK
<1>2. CASE audits[s] > 1 BY <1>1, <1>2 DEF EndedTwice
<1>3. CASE ~(audits[s] > 1)
  <2>1. audits[s] = 1 BY <1>3 DEF EndedTwice
  <2>2. PICK r \in Requests : events[r] # None /\ events[r].type = "OUT" /\ events[r].session = s
    BY <1>3 DEF EndedTwice
  <2>3. events'[r] = events[r] BY <2>2, EventKept
  <2>4. audits'[s] = 1 \/ audits'[s] > 1 BY <1>1, <2>1
  <2> QED BY <2>2, <2>3, <2>4 DEF EndedTwice
<1> QED BY <1>2, <1>3

LEMMA SpoiltStays ==
  ASSUME IInv, Structure, [Next]_vars, NEW u, NEW d, Spoilt(u, d)
  PROVE  Spoilt(u, d)'
<1>1. PICK s \in Requests : /\ sessions[s] # None /\ sessions[s].user = u
                            /\ sessions[s].work_date = d /\ EndedTwice(s)
  BY DEF Spoilt
<1>2. sessions'[s] # None /\ sessions'[s].user = u /\ sessions'[s].work_date = d
  BY <1>1, SameRows
<1>3. EndedTwice(s)' BY <1>1, EndedTwiceStays
<1> QED BY <1>2, <1>3 DEF Spoilt

LEMMA DaySpoiltStays ==
  ASSUME IInv, Structure, [Next]_vars, NEW s \in Requests, sessions[s] # None, DaySpoilt(s)
  PROVE  DaySpoilt(s)'
<1>1. sessions'[s].user = sessions[s].user /\ sessions'[s].work_date = sessions[s].work_date
  BY SameRows
<1> QED BY <1>1, SpoiltStays DEF DaySpoilt

\* A session is never opened again.
LEMMA OpenBefore ==
  ASSUME IInv, [Next]_vars, NEW s \in Requests, sessions[s] # None, IsOpen(s)'
  PROVE  IsOpen(s)
BY RowKept DEF IsOpen

\* A run that ends a session that is closed already ends it for the second time.
LEMMA ClosedAgain ==
  ASSUME IInv, SessionChecks, RecordsAgree, Structure, [Next]_vars, NEW i \in Jobs, JobCommit(i),
         NEW z \in Requests, z \in job[i].closed, ~IsOpen(z),
         NEW u, NEW d, sessions[z].user = u, sessions[z].work_date = d
  PROVE  Spoilt(u, d)'
<1>1. sessions[z] \in SessionRow /\ sessions[z] # None BY JobEffect
<1>2. sessions[z].status # "ACTIVE" BY <1>1 DEF SessionChecks, IsOpen
<1>3. audits[z] \in Nat /\ audits'[z] = audits[z] + 1 BY AuditsGrow DEF Structure, DayTypeOK
<1>4. EndedTwice(z)'
  <2>1. CASE sessions[z].status = "AUTO_CLOSED"
    <3>1. audits[z] > 0 BY <1>1, <2>1 DEF Structure, AuditsTell
    <3>2. audits'[z] > 1 BY <1>3, <3>1
    <3> QED BY <3>2 DEF EndedTwice
  <2>2. CASE sessions[z].status = "COMPLETED"
    <3>1. PICK r \in Requests : events[r] # None /\ events[r].type = "OUT" /\ events[r].session = z
      BY <1>1, <2>2 DEF RecordsAgree
    <3>2. events'[r] = events[r] BY <3>1, EventKept
    <3>3. audits'[z] = 1 \/ audits'[z] > 1 BY <1>3
    <3> QED BY <3>1, <3>2, <3>3 DEF EndedTwice
  <2> QED BY <1>1, <1>2, <2>1, <2>2 DEF SessionRow
<1>5. sessions'[z] # None /\ sessions'[z].user = u /\ sessions'[z].work_date = d
  BY <1>1, SameRows
<1> QED BY <1>4, <1>5 DEF Spoilt

\* The row of a day that is not spoilt is right, and it is there.
LEMMA RowIsRight ==
  ASSUME IInv, Structure, Computed, NEW s \in Requests, sessions[s] # None, ~DaySpoilt(s)
  PROVE  /\ DayOf(s) \in DayRow /\ sessions[s].user \in Users
         /\ sessions[s].work_date \in WorkDates
         /\ SameTotals(DayOf(s), TotalsIn(sessions, s))
<1>1. sessions[s].user \in Users /\ sessions[s].work_date \in WorkDates
  BY DEF Structure, DaysExist, IInv, LedgerTypeOK, SessionRow
<1>2. DayOf(s) \in DayRow /\ DayOf(s) # None
  BY <1>1 DEF Structure, DaysExist, DayTypeOK, DayOf
<1>3. Agree(sessions[s].user, sessions[s].work_date) BY <1>1 DEF Computed
<1> QED BY <1>1, <1>2, <1>3 DEF Agree, DayOf, TotalsIn, DaySpoilt

-----------------------------------------------------------------------------
(* A day whose sessions a step leaves alone keeps what was computed for it. *)

OnDay(view, s, u, d) == view[s] # None /\ view[s].user = u /\ view[s].work_date = d
Untouched(u, d) == \A s \in Requests : OnDay(sessions, s, u, d) \/ OnDay(sessions', s, u, d)
                                          => sessions'[s] = sessions[s]

LEMMA UntouchedTotals ==
  ASSUME IInv, IInv', NEW u, NEW d, Untouched(u, d)
  PROVE  /\ DayTotals(sessions', u, d) = DayTotals(sessions, u, d)
         /\ \A s \in Requests : OnDay(sessions, s, u, d) =>
              /\ OnDay(sessions', s, u, d) /\ sessions'[s] = sessions[s]
              /\ DayTotals(Ended(s)', u, d) = DayTotals(Ended(s), u, d)
              /\ \A t : DayTotals(Punched(s, t)', u, d) = DayTotals(Punched(s, t), u, d)
<1>0. /\ sessions \in [Requests -> SessionRow \cup {None}]
      /\ sessions' \in [Requests -> SessionRow \cup {None}]
  BY DEF IInv, LedgerTypeOK
<1>1. /\ MineIn(sessions', u, d) = MineIn(sessions, u, d)
      /\ \A s \in MineIn(sessions, u, d) : sessions'[s] = sessions[s]
  BY DEF MineIn, OnDay, Untouched
<1>2. DayTotals(sessions', u, d) = DayTotals(sessions, u, d) BY <1>1, DayTotalsLocal
<1>3. ASSUME NEW s \in Requests, OnDay(sessions, s, u, d), NEW row
      PROVE  DayTotals([sessions' EXCEPT ![s] = row], u, d)
               = DayTotals([sessions EXCEPT ![s] = row], u, d)
  <2> DEFINE v == [sessions' EXCEPT ![s] = row]
             w == [sessions EXCEPT ![s] = row]
  <2>1. /\ v[s] = row /\ w[s] = row
        /\ \A z \in Requests \ {s} : v[z] = sessions'[z] /\ w[z] = sessions[z]
    BY <1>0
  <2> HIDE DEF v, w
  <2>2. MineIn(v, u, d) = MineIn(w, u, d) /\ \A z \in MineIn(v, u, d) : v[z] = w[z]
    BY <1>1, <2>1 DEF MineIn
  <2>3. DayTotals(v, u, d) = DayTotals(w, u, d) BY <2>2, DayTotalsLocal
  <2> QED BY <2>3 DEF v, w
<1>4. ASSUME NEW s \in Requests, OnDay(sessions, s, u, d)
      PROVE  /\ OnDay(sessions', s, u, d) /\ sessions'[s] = sessions[s]
             /\ DayTotals(Ended(s)', u, d) = DayTotals(Ended(s), u, d)
             /\ \A t : DayTotals(Punched(s, t)', u, d) = DayTotals(Punched(s, t), u, d)
  <2>1. OnDay(sessions', s, u, d) /\ sessions'[s] = sessions[s] BY <1>4 DEF OnDay, Untouched
  <2>2. DayTotals(Ended(s)', u, d) = DayTotals(Ended(s), u, d)
    BY <1>3, <1>4, <2>1 DEF Ended
  <2>3. \A t : DayTotals(Punched(s, t)', u, d) = DayTotals(Punched(s, t), u, d)
    BY <1>3, <1>4, <2>1 DEF Punched
  <2> QED BY <2>1, <2>2, <2>3
<1> QED BY <1>2, <1>4

LEMMA UntouchedJobDay ==
  ASSUME IInv, IInv', Structure, [Next]_vars, NEW j \in Jobs, NEW s \in Requests,
         sessions[s] # None, Untouched(sessions[s].user, sessions[s].work_date),
         JobDay(j, s), job'[j] = job[j]
  PROVE  JobDay(j, s)'
<1> DEFINE u == sessions[s].user
           d == sessions[s].work_date
<1>1. OnDay(sessions, s, u, d) BY DEF OnDay
<1> HIDE DEF u, d
<1>2. /\ sessions'[s] = sessions[s]
      /\ DayTotals(sessions', u, d) = DayTotals(sessions, u, d)
      /\ DayTotals(Ended(s)', u, d) = DayTotals(Ended(s), u, d)
  BY <1>1, UntouchedTotals DEF u, d
<1>3. /\ IsOpen(s)' <=> IsOpen(s)
      /\ TotalsIn(sessions, s)' = TotalsIn(sessions, s)
      /\ TotalsIn(Ended(s), s)' = TotalsIn(Ended(s), s)
  BY <1>2 DEF IsOpen, TotalsIn, u, d
<1>4. DaySpoilt(s) => DaySpoilt(s)' BY DaySpoiltStays
<1> QED BY <1>3, <1>4 DEF JobDay, SameTotals

LEMMA UntouchedOutDay ==
  ASSUME IInv, IInv', SessionChecks, Structure, [Next]_vars, NEW r \in Requests, pc[r] = "write",
         LET s == tx[r].session
         IN  Untouched(sessions[s].user, sessions[s].work_date) /\ DayOf(s)' = DayOf(s),
         tx'[r] = tx[r], req'[r] = req[r], OutDay(r)
  PROVE  OutDay(r)'
<1> DEFINE s == tx[r].session
           u == sessions[s].user
           d == sessions[s].work_date
<1>1. s \in Requests /\ sessions[s] # None BY AtWrite DEF Open, IsOpen
<1>2. OnDay(sessions, s, u, d) /\ s' = s BY <1>1 DEF OnDay
<1> HIDE DEF u, d
<1>3. /\ sessions'[s] = sessions[s]
      /\ DayTotals(Punched(s, req[r].now)', u, d) = DayTotals(Punched(s, req[r].now), u, d)
  BY <1>1, <1>2, UntouchedTotals DEF u, d
<1>4. TotalsIn(Punched(s, req[r].now), s)' = TotalsIn(Punched(s, req[r].now), s)
  BY <1>2, <1>3 DEF TotalsIn, Punched, u, d
<1>5. DaySpoilt(s) => DaySpoilt(s)' BY <1>1, <1>2, DaySpoiltStays
<1> QED BY <1>2, <1>4, <1>5 DEF OutDay

LEMMA UntouchedAgree ==
  ASSUME IInv, IInv', SessionChecks, Structure, [Next]_vars, NEW u \in Users,
         NEW d \in WorkDates, Untouched(u, d), days'[u][d] = days[u][d], Agree(u, d)
  PROVE  Agree(u, d)'
<1>1. DayTotals(sessions, u, d)' = DayTotals(sessions, u, d) BY UntouchedTotals
<1>2. Spoilt(u, d) => Spoilt(u, d)' BY SpoiltStays
<1>3. \A s \in Requests : OnDay(sessions', s, u, d) => OnDay(sessions, s, u, d) BY DEF Untouched, OnDay
<1> QED BY <1>1, <1>2, <1>3 DEF Agree, OnDay

\* A run that closes a session of the day closes no other one of it.
LEMMA JobViewTotals ==
  ASSUME IInv, Structure, NEW j \in Jobs, NEW s \in Requests, s \in job[j].closed
  PROVE  TotalsIn(JobView(j), s) = TotalsIn(Ended(s), s)
<1> DEFINE u == sessions[s].user
           d == sessions[s].work_date
           v == JobView(j)
           w == Ended(s)
<1>1. \A z \in Requests : z # s /\ z \in job[j].closed => sessions[z].user # u
  BY DEF Structure, Orderly, Named
<1>2. /\ v[s] = AutoClosed(sessions[s]) /\ w[s] = AutoClosed(sessions[s])
      /\ \A z \in Requests \ {s} : w[z] = sessions[z]
      /\ \A z \in Requests \ {s} : v[z] = IF z \in job[j].closed THEN AutoClosed(sessions[z])
                                                                 ELSE sessions[z]
  BY DEF JobView, Ended, IInv, LedgerTypeOK
<1>3. \A z \in Requests : z \in job[j].closed =>
         sessions[z] # None /\ sessions[z] \in SessionRow
  BY DEF IInv, JobsNameSessions, LedgerTypeOK
<1>4. \A z \in Requests : z \in job[j].closed =>
         /\ AutoClosed(sessions[z]).user = sessions[z].user
         /\ AutoClosed(sessions[z]) # None
  BY <1>3, AutoClosedRow, NoneIsNoRow
<1> HIDE DEF u, d, v, w
<1>5. /\ MineIn(v, u, d) = MineIn(w, u, d)
      /\ \A z \in MineIn(v, u, d) : v[z] = w[z]
  BY <1>1, <1>2, <1>4 DEF MineIn
<1>6. DayTotals(v, u, d) = DayTotals(w, u, d) BY <1>5, DayTotalsLocal
<1> QED BY <1>6 DEF TotalsIn, u, d, v, w

LEMMA EndedRow ==
  ASSUME IInv, NEW s \in Requests, sessions[s] # None
  PROVE  /\ sessions[s] \in SessionRow
         /\ Ended(s)[s] # None /\ Ended(s)[s].punch_out # None
         /\ Ended(s)[s].user = sessions[s].user
         /\ Ended(s)[s].work_date = sessions[s].work_date
         /\ \A z \in Requests \ {s} : Ended(s)[z] = sessions[z]
<1>1. sessions[s] \in SessionRow /\ sessions \in [Requests -> SessionRow \cup {None}]
  BY DEF IInv, LedgerTypeOK
<1>2. Ended(s)[s] = AutoClosed(sessions[s]) /\ \A z \in Requests \ {s} : Ended(s)[z] = sessions[z]
  BY <1>1 DEF Ended
<1>3. sessions[s].punch_in + AutoCloseAfter \in Nat BY <1>1 DEF SessionRow
<1> QED BY <1>1, <1>2, <1>3, AutoClosedRow, NoneIsNoRow

\* While a session of it is open the day is PRESENT, and it is CHECKED_OUT when
\* that session is ended.
LEMMA StatusTurns ==
  ASSUME IInv, NEW s \in Requests, IsOpen(s)
  PROVE  /\ TotalsIn(sessions, s).status = "PRESENT"
         /\ TotalsIn(Ended(s), s).status = "CHECKED_OUT"
<1> DEFINE u == sessions[s].user
           d == sessions[s].work_date
           w == Ended(s)
<1>1. /\ w[s] # None /\ w[s].punch_out # None /\ w[s].user = u /\ w[s].work_date = d
      /\ \A z \in Requests \ {s} : w[z] = sessions[z]
  BY EndedRow DEF IsOpen
<1>2. \A z \in Requests : sessions[z] # None /\ sessions[z].user = u /\ z # s
                             => sessions[z].punch_out # None
  BY DEF IInv, OneOpenSession, IsOpen
<1>3. sessions[s] # None /\ sessions[s].punch_out = None BY DEF IsOpen
<1> HIDE DEF w
<1>4. s \in MineIn(sessions, u, d) /\ s \notin ClosedIn(sessions, u, d)
  BY <1>3 DEF MineIn, ClosedIn
<1>5. MineIn(w, u, d) = ClosedIn(w, u, d) /\ s \in MineIn(w, u, d)
  BY <1>1, <1>2 DEF MineIn, ClosedIn
<1>6. DayTotals(sessions, u, d).status = "PRESENT" BY <1>4, DayTotalsIs
<1>7. DayTotals(w, u, d).status = "CHECKED_OUT" BY <1>5, DayTotalsIs
<1> QED BY <1>6, <1>7 DEF TotalsIn, w

-----------------------------------------------------------------------------
(* A punch_in: its user has no open session, and no run holds the day.     *)

LEMMA CommitInComputed ==
  ASSUME IInv, IInv', SessionChecks, Structure, Computed, [Next]_vars, NEW r \in Requests,
         CommitIn(r)
  PROVE  Computed'
<1> DEFINE u == req[r].user
           d == WorkDate(req[r].now)
<1>1. /\ u \in Users /\ d \in WorkDates /\ req[r].now \in Nat
      /\ Open(u) = {} /\ sessions[r] = None
      /\ sessions' = [sessions EXCEPT ![r] = NewSession(r)]
      /\ NewSession(r) \in SessionRow
      /\ days' = [days EXCEPT ![u][d] = DayAfterPunchIn(days[u][d], req[r].now)]
      /\ \A j \in Jobs : ~HoldsDay(j, u, d)
      /\ Answer(r, "PUNCHED_IN")
      /\ UNCHANGED <<clock, active, req, job, crashes>>
  BY InEffect
<1>2. /\ NewSession(r) # None /\ NewSession(r).user = u /\ NewSession(r).work_date = d
      /\ NewSession(r).punch_out = None
  BY <1>1, NoneIsNoRow DEF NewSession
<1>3. /\ sessions'[r] = NewSession(r)
      /\ \A s \in Requests \ {r} : sessions'[s] = sessions[s]
      /\ days \in [Users -> [WorkDates -> DayRow \cup {None}]]
  BY <1>1 DEF IInv, LedgerTypeOK, Structure, DayTypeOK
<1> DEFINE row == DayAfterPunchIn(days[u][d], req[r].now)
<1>4. /\ row \in DayRow /\ row # None /\ row.status = "PRESENT"
      /\ row.total = IF days[u][d] = None THEN 0 ELSE days[u][d].total
      /\ row.last = IF days[u][d] = None THEN None ELSE days[u][d].last
  <2>1. days[u][d] \in DayRow \cup {None} /\ req[r].now \in Nat BY <1>1, <1>3
  <2> HIDE DEF u, d, row
  <2>2. None \notin DayRow BY NoneIsNoRow
  <2>3. /\ row \in DayRow /\ row.status = "PRESENT"
        /\ row.total = IF days[u][d] = None THEN 0 ELSE days[u][d].total
        /\ row.last = IF days[u][d] = None THEN None ELSE days[u][d].last
    BY <2>1, DayAfterPunchInRow DEF row
  <2> QED BY <2>2, <2>3
<1> HIDE DEF u, d, row
<1>5. /\ days'[u][d] = row
      /\ \A v \in Users, e \in WorkDates : v # u \/ e # d => days'[v][e] = days[v][e]
  BY <1>1, <1>3 DEF row
<1>6. \A v, e : v # u \/ e # d => Untouched(v, e)
  BY <1>1, <1>2, <1>3 DEF Untouched, OnDay
<1>7. JobDays'
  <2> SUFFICES ASSUME NEW j \in Jobs, NEW s \in job[j].closed PROVE JobDay(j, s)'
    BY <1>1 DEF JobDays
  <2>1. job[j] \in JobRow BY JobIsRow
  <2>2. s \in Requests /\ sessions[s] # None /\ JobDay(j, s)
    BY <2>1 DEF JobRow, IInv, JobsNameSessions, Computed, JobDays
  <2>3. CASE sessions[s].user # u \/ sessions[s].work_date # d
    BY <1>1, <1>6, <2>2, <2>3, UntouchedJobDay
  <2>4. CASE sessions[s].user = u /\ sessions[s].work_date = d
    <3>1. ~IsOpen(s) BY <1>1, <2>2, <2>4 DEF Open
    <3>2. ~IsOpen(s)' BY <2>2, <3>1, OpenBefore
    <3> QED BY <3>2 DEF JobDay
  <2> QED BY <2>3, <2>4
<1>8. OutDays'
  <2> SUFFICES ASSUME NEW q \in Requests, pc'[q] = "write" PROVE OutDay(q)' BY DEF OutDays
  <2>1. q # r /\ pc[q] = "write" /\ tx'[q] = tx[q]
    BY <1>1 DEF Answer, IInv, LedgerTypeOK, Shapes
  <2>2. /\ tx[q].session \in Requests /\ IsOpen(tx[q].session)
        /\ sessions[tx[q].session] \in SessionRow
    BY <2>1, AtWrite DEF Open
  <2>3. sessions[tx[q].session].user # u BY <1>1, <2>2 DEF Open
  <2>4. /\ tx[q].session # r
        /\ sessions[tx[q].session].user \in Users
        /\ sessions[tx[q].session].work_date \in WorkDates
    BY <1>1, <2>2 DEF IsOpen, SessionRow, Structure, DaysExist
  <2>5. DayOf(tx[q].session)' = DayOf(tx[q].session)
    BY <1>3, <1>5, <2>1, <2>2, <2>3, <2>4 DEF DayOf
  <2>6. OutDay(q) BY <2>1 DEF Computed, OutDays
  <2> QED BY <1>1, <1>6, <2>1, <2>3, <2>5, <2>6, UntouchedOutDay
<1>9. ASSUME NEW v \in Users, NEW e \in WorkDates PROVE Agree(v, e)'
  <2>0. Agree(v, e) BY DEF Computed
  <2>1. CASE v # u \/ e # d BY <1>5, <1>6, <2>0, <2>1, UntouchedAgree
  <2>2. CASE v = u /\ e = d
    <3>1. CASE Spoilt(v, e) BY <3>1, SpoiltStays DEF Agree
    <3>2. CASE ~Spoilt(v, e)
      <4>1. /\ DayTotals(sessions', u, d).total = DayTotals(sessions, u, d).total
            /\ DayTotals(sessions', u, d).last = DayTotals(sessions, u, d).last
            /\ DayTotals(sessions', u, d).status = "PRESENT"
        <5>1. /\ sessions[r] = None /\ sessions'[r] # None /\ sessions'[r].user = u
              /\ sessions'[r].work_date = d /\ sessions'[r].punch_out = None
              /\ \A s \in Requests : s # r => sessions'[s] = sessions[s]
          BY <1>1, <1>2, <1>3
        <5> QED BY <5>1, OpenSessionAdds
      <4>2. /\ row.total = DayTotals(sessions, u, d).total
            /\ row.last = DayTotals(sessions, u, d).last
        <5>1. CASE days[u][d] # None
          BY <1>4, <2>0, <2>2, <3>2, <5>1 DEF Agree, SameTotals
        <5>2. CASE days[u][d] = None
          <6>1. MineIn(sessions, u, d) = {} BY <2>0, <2>2, <3>2, <5>2 DEF Agree, MineIn
          <6>2. ClosedIn(sessions, u, d) = {} BY <6>1 DEF ClosedIn
          <6>3. DayTotals(sessions, u, d).total = 0 /\ DayTotals(sessions, u, d).last = None
            BY <6>2, DayTotalsIs, SumOfNone
          <6> QED BY <1>4, <5>2, <6>3
        <5> QED BY <5>1, <5>2
      <4>3. SameTotals(row, DayTotals(sessions', u, d)) BY <1>4, <4>1, <4>2 DEF SameTotals
      <4> QED BY <1>4, <1>5, <2>2, <4>3 DEF Agree, SameTotals
    <3> QED BY <3>1, <3>2
  <2> QED BY <2>1, <2>2
<1> QED BY <1>7, <1>8, <1>9 DEF Computed

-----------------------------------------------------------------------------
(* A punch_out: its user punches nothing else, and no run holds the day.   *)

\* Columns that the transaction did not change keep what is stored, which is what
\* it had read.
LEMMA FreshOverwrite ==
  ASSUME NEW loaded \in DayRow, NEW new \in TotalsRow
  PROVE  /\ Overwrite(loaded, loaded, new) \in DayRow
         /\ SameTotals(Overwrite(loaded, loaded, new), new)
<1> DEFINE row == Overwrite(loaded, loaded, new)
<1>1. /\ row \in DayRow
      /\ row.total = IF new.total # loaded.total THEN new.total ELSE loaded.total
      /\ row.last = IF new.last # loaded.last THEN new.last ELSE loaded.last
      /\ row.status = IF new.status # loaded.status THEN new.status ELSE loaded.status
  BY OverwriteRow
<1> HIDE DEF row
<1>2. row.total = new.total /\ row.last = new.last /\ row.status = new.status BY <1>1
<1> QED BY <1>1, <1>2 DEF SameTotals, row

LEMMA CommitOutComputed ==
  ASSUME IInv, IInv', SessionChecks, Structure, Computed, [Next]_vars, NEW r \in Requests,
         CommitOut(r)
  PROVE  Computed'
<1> DEFINE z == tx[r].session
           u == sessions[z].user
           d == sessions[z].work_date
           t == req[r].now
           row == Overwrite(days[u][d], tx[r].loaded, tx[r].totals)
<1>1. /\ pc[r] = "write" /\ z \in Requests /\ IsOpen(z) /\ sessions[z] \in SessionRow
      /\ u \in Users /\ d \in WorkDates /\ u = req[r].user
      /\ t \in Nat /\ t > sessions[z].punch_in
      /\ sessions' = [sessions EXCEPT ![z] = Completed(sessions[z], t)]
      /\ days[u][d] \in DayRow /\ tx[r].loaded \in DayRow /\ tx[r].totals \in TotalsRow
      /\ days' = [days EXCEPT ![u][d] = row]
      /\ events' = [events EXCEPT ![r] = Event(r, "ACCEPTED", z)] /\ req[r].type = "OUT"
      /\ Answer(r, "PUNCHED_OUT")
      /\ UNCHANGED <<clock, active, req, job, crashes>>
  BY OutEffect
<1>2. row \in DayRow /\ row # None
  <2>1. row \in DayRow BY <1>1, OverwriteRow
  <2> QED BY <2>1, NoneIsNoRow
<1>3. /\ sessions'[z] # None /\ sessions'[z].user = u /\ sessions'[z].work_date = d
      /\ sessions'[z].status = "COMPLETED"
      /\ \A s \in Requests \ {z} : sessions'[s] = sessions[s]
      /\ days \in [Users -> [WorkDates -> DayRow \cup {None}]]
  <2> HIDE DEF z, u, d, t, row
  <2>1. /\ sessions \in [Requests -> SessionRow \cup {None}]
        /\ days \in [Users -> [WorkDates -> DayRow \cup {None}]]
    BY DEF IInv, LedgerTypeOK, Structure, DayTypeOK
  <2>2. /\ sessions'[z] = Completed(sessions[z], t)
        /\ \A s \in Requests \ {z} : sessions'[s] = sessions[s]
    BY <1>1, <2>1
  <2>3. /\ sessions'[z] \in SessionRow /\ sessions'[z].status = "COMPLETED"
        /\ sessions'[z].user = sessions[z].user
        /\ sessions'[z].work_date = sessions[z].work_date
    BY <1>1, <2>2, CompletedRow
  <2> QED BY <2>1, <2>2, <2>3, NoneIsNoRow DEF u, d
<1>4. events'[r] # None /\ events'[r].type = "OUT" /\ events'[r].session = z
  <2>1. events' \in [Requests -> EventRow \cup {None}] /\ events \in [Requests -> EventRow \cup {None}]
    BY DEF IInv, LedgerTypeOK
  <2>2. events'[r] = Event(r, "ACCEPTED", z) BY <1>1, <2>1
  <2>3. Event(r, "ACCEPTED", z) \in EventRow
    <3>1. req[r] \in Request BY <1>1, AtWrite
    <3> QED BY <1>1, <3>1 DEF Request, Event, EventRow
  <2> QED BY <1>1, <2>2, <2>3, NoneIsNoRow DEF Event
<1>5. sessions[z] # None BY <1>1 DEF IsOpen
<1>6. ASSUME ~Spoilt(u, d)
      PROVE  SameTotals(row, DayTotals(sessions', u, d))
  <2>1. OutDay(r) BY <1>1 DEF Computed, OutDays
  <2>2. tx[r].loaded = days[u][d] /\ tx[r].totals = DayTotals(Punched(z, t), u, d)
    BY <1>6, <2>1 DEF OutDay, DayOf, TotalsIn, DaySpoilt
  <2>3. sessions' = Punched(z, t) BY <1>1 DEF Punched
  <2>4. SameTotals(row, tx[r].totals) BY <1>1, <2>2, FreshOverwrite
  <2> QED BY <2>2, <2>3, <2>4
<1> HIDE DEF z, u, d, t, row
<1>7. /\ days'[u][d] = row
      /\ \A v \in Users, e \in WorkDates : v # u \/ e # d => days'[v][e] = days[v][e]
  BY <1>1, <1>3
<1>8. \A v, e : v # u \/ e # d => Untouched(v, e)
  BY <1>1, <1>3 DEF Untouched, OnDay, u, d
<1>9. JobDays'
  <2> SUFFICES ASSUME NEW j \in Jobs, NEW s \in job[j].closed PROVE JobDay(j, s)'
    BY <1>1 DEF JobDays
  <2>1. job[j] \in JobRow BY JobIsRow
  <2>2. s \in Requests /\ sessions[s] # None /\ JobDay(j, s)
    BY <2>1 DEF JobRow, IInv, JobsNameSessions, Computed, JobDays
  <2>3. CASE sessions[s].user # u \/ sessions[s].work_date # d
    BY <1>1, <1>8, <2>2, <2>3, UntouchedJobDay
  <2>4. CASE sessions[s].user = u /\ sessions[s].work_date = d
    <3>1. s # z
      BY <1>1, <2>2 DEF z, IInv, ChecksStillHold
    <3>2. ~IsOpen(s)
      BY <1>1, <2>2, <2>4, <3>1 DEF IInv, OneOpenSession, u
    <3>3. ~IsOpen(s)' BY <2>2, <3>2, OpenBefore
    <3> QED BY <3>3 DEF JobDay
  <2> QED BY <2>3, <2>4
<1>10. OutDays'
  <2> SUFFICES ASSUME NEW q \in Requests, pc'[q] = "write" PROVE OutDay(q)' BY DEF OutDays
  <2>1. q # r /\ pc[q] = "write" /\ tx'[q] = tx[q]
    BY <1>1 DEF Answer, IInv, LedgerTypeOK, Shapes
  <2>2. /\ tx[q].session \in Requests /\ IsOpen(tx[q].session)
        /\ sessions[tx[q].session] \in SessionRow
        /\ sessions[tx[q].session].user = req[q].user
    BY <2>1, AtWrite DEF Open
  <2>3. sessions[tx[q].session].user # u
    BY <1>1, <2>1, <2>2 DEF IInv, UserLockExclusive, HasUserLock
  <2>4. /\ tx[q].session # z
        /\ sessions[tx[q].session].user \in Users
        /\ sessions[tx[q].session].work_date \in WorkDates
    BY <1>1, <2>2, <2>3 DEF IsOpen, SessionRow, Structure, DaysExist, u
  <2>5. DayOf(tx[q].session)' = DayOf(tx[q].session)
    BY <1>3, <1>7, <2>1, <2>2, <2>3, <2>4 DEF DayOf
  <2>6. OutDay(q) BY <2>1 DEF Computed, OutDays
  <2> QED BY <1>1, <1>8, <2>1, <2>3, <2>5, <2>6, UntouchedOutDay
<1>11. ASSUME NEW v \in Users, NEW e \in WorkDates PROVE Agree(v, e)'
  <2>0. Agree(v, e) BY DEF Computed
  <2>1. CASE v # u \/ e # d BY <1>7, <1>8, <2>0, <2>1, UntouchedAgree
  <2>2. CASE v = u /\ e = d
    <3>1. CASE ~Spoilt(u, d)
      BY <1>2, <1>6, <1>7, <2>2, <3>1 DEF Agree
    <3>2. CASE Spoilt(u, d) BY <2>2, <3>2, SpoiltStays DEF Agree
    <3> QED BY <3>1, <3>2
  <2> QED BY <2>1, <2>2
<1> QED BY <1>9, <1>10, <1>11 DEF Computed

-----------------------------------------------------------------------------
(* A maintenance run commits: on each day it ends at most one session.     *)

\* The day of a session that the run is the first to end.
LEMMA JobCommitDay ==
  ASSUME IInv, Structure, Computed, NEW i \in Jobs, JobCommit(i),
         NEW z \in Requests, z \in job[i].closed, IsOpen(z), ~DaySpoilt(z)
  PROVE  /\ job[i].rows[z] # None
         /\ SameTotals(job[i].rows[z], TotalsIn(Ended(z), z))
<1>1. Orderly(i) /\ job[i].stage = "commit" BY JobIsRow DEF JobCommit
<1>2. job[i].cur = None BY <1>1 DEF Orderly
<1>3. JobDay(i, z) /\ z # None BY DEF Computed, JobDays
<1> QED BY <1>2, <1>3 DEF JobDay

\* The rows the run writes are those of the days of its sessions.
LEMMA JobCommitRows ==
  ASSUME IInv, Structure, NEW i \in Jobs, JobCommit(i), NEW u \in Users, NEW d \in WorkDates
  PROVE  /\ (\A s \in job[i].closed : ~OnDay(sessions, s, u, d)) =>
               Untouched(u, d) /\ days'[u][d] = days[u][d]
         /\ \A z \in Requests : z \in job[i].closed /\ OnDay(sessions, z, u, d) =>
               /\ days'[u][d] = IF job[i].rows[z] = None THEN days[u][d] ELSE job[i].rows[z]
               /\ \A s \in Requests : s # z /\ (OnDay(sessions, s, u, d) \/ OnDay(sessions', s, u, d))
                                         => sessions'[s] = sessions[s]
<1> DEFINE mine == {s \in Requests : job[i].rows[s] # None /\ sessions[s].user = u
                                                           /\ sessions[s].work_date = d}
<1>1. /\ job[i] \in JobRow /\ Orderly(i)
      /\ days'[u][d] = IF mine = {} THEN days[u][d] ELSE job[i].rows[CHOOSE s \in mine : TRUE]
  BY JobIsRow DEF JobCommit
<1>2. \A s \in job[i].closed : s \in Requests /\ sessions[s] # None
  BY <1>1 DEF JobRow, IInv, JobsNameSessions
<1>3. \A s \in mine : s \in job[i].closed /\ OnDay(sessions, s, u, d)
  BY <1>1, <1>2 DEF Orderly, OnDay
<1>4. ASSUME NEW s \in Requests, OnDay(sessions, s, u, d) \/ OnDay(sessions', s, u, d), s \notin job[i].closed
      PROVE  sessions'[s] = sessions[s]
  BY <1>4, JobEffect
<1>5. ASSUME NEW s \in Requests, s \in job[i].closed, OnDay(sessions', s, u, d) PROVE OnDay(sessions, s, u, d)
  <2>1. sessions[s] \in SessionRow /\ sessions'[s] = AutoClosed(sessions[s]) /\ sessions[s] # None
    BY <1>5, JobEffect
  <2> QED BY <1>5, <2>1, AutoClosedRow DEF OnDay
<1>6. ASSUME \A s \in job[i].closed : ~OnDay(sessions, s, u, d)
      PROVE  Untouched(u, d) /\ days'[u][d] = days[u][d]
  <2>1. mine = {} BY <1>3, <1>6
  <2> HIDE DEF mine
  <2> QED BY <1>1, <1>4, <1>5, <1>6, <2>1 DEF Untouched
<1>7. ASSUME NEW z \in Requests, z \in job[i].closed, OnDay(sessions, z, u, d)
      PROVE  /\ days'[u][d] = IF job[i].rows[z] = None THEN days[u][d] ELSE job[i].rows[z]
             /\ \A s \in Requests : s # z /\ (OnDay(sessions, s, u, d) \/ OnDay(sessions', s, u, d))
                                       => sessions'[s] = sessions[s]
  <2>1. \A s \in Requests : s \in job[i].closed /\ OnDay(sessions, s, u, d) => s = z
    BY <1>1, <1>7 DEF Orderly, Named, OnDay
  <2>2. CASE job[i].rows[z] = None
    <3>1. mine = {} BY <1>3, <2>1, <2>2
    <3> HIDE DEF mine
    <3> QED BY <1>1, <1>4, <1>5, <2>1, <2>2, <3>1
  <2>3. CASE job[i].rows[z] # None
    <3>1. mine = {z}
      <4>1. z \in mine BY <1>7, <2>3 DEF OnDay
      <4>2. \A s \in mine : s = z BY <1>3, <2>1
      <4> QED BY <4>1, <4>2
    <3> HIDE DEF mine
    <3>2. (CHOOSE s \in mine : TRUE) = z BY <3>1
    <3>3. days'[u][d] = job[i].rows[z] BY <1>1, <3>1, <3>2
    <3> QED BY <1>4, <1>5, <2>1, <2>3, <3>3
  <2> QED BY <2>2, <2>3
<1> QED BY <1>6, <1>7

LEMMA JobCommitAgree ==
  ASSUME IInv, IInv', SessionChecks, RecordsAgree, Structure, Computed, [Next]_vars,
         NEW i \in Jobs, JobCommit(i), NEW u \in Users, NEW d \in WorkDates
  PROVE  Agree(u, d)'
<1>0. Agree(u, d) /\ events' = events /\ job[i] \in JobRow
  BY JobIsRow DEF Computed, JobCommit
<1>1. CASE \A s \in job[i].closed : ~OnDay(sessions, s, u, d)
  BY <1>0, <1>1, JobCommitRows, UntouchedAgree
<1>2. ASSUME NEW z \in job[i].closed, OnDay(sessions, z, u, d) PROVE Agree(u, d)'
  <2>1. /\ z \in Requests /\ sessions[z] # None /\ sessions[z].user = u
        /\ sessions[z].work_date = d
    BY <1>0, <1>2 DEF JobRow, OnDay
  <2>2. /\ sessions'[z] = AutoClosed(sessions[z]) /\ sessions'[z] # None
        /\ sessions'[z].status = "AUTO_CLOSED"
        /\ sessions'[z].user = u /\ sessions'[z].work_date = d
    BY <1>2, <2>1, JobEffect, SameRows
  <2>3. /\ days'[u][d] = IF job[i].rows[z] = None THEN days[u][d] ELSE job[i].rows[z]
        /\ \A s \in Requests : s # z /\ (OnDay(sessions, s, u, d) \/ OnDay(sessions', s, u, d))
                                  => sessions'[s] = sessions[s]
    BY <1>2, <2>1, JobCommitRows
  <2>4. CASE Spoilt(u, d) BY <2>4, SpoiltStays DEF Agree
  <2>5. CASE ~IsOpen(z)
    <3>1. Spoilt(u, d)' BY <1>2, <2>1, <2>5, ClosedAgain
    <3> QED BY <3>1 DEF Agree
  <2>6. CASE IsOpen(z) /\ ~Spoilt(u, d)
    <3>1. job[i].rows[z] # None /\ SameTotals(job[i].rows[z], DayTotals(Ended(z), u, d))
      BY <1>2, <2>1, <2>6, JobCommitDay DEF TotalsIn, DaySpoilt
    <3> DEFINE w == Ended(z)
               v == sessions'
    <3>2. w[z] = v[z] /\ \A s \in Requests \ {z} : w[s] = sessions[s]
      BY <2>1, <2>2 DEF Ended, IInv, LedgerTypeOK
    <3> HIDE DEF w
    <3>3. \A s \in Requests : OnDay(sessions', s, u, d) \/ OnDay(sessions, s, u, d) => w[s] = v[s]
      BY <2>3, <3>2
    <3>4. \A s \in Requests : s # z => (OnDay(sessions', s, u, d) <=> OnDay(sessions, s, u, d))
      BY <2>3 DEF OnDay
    <3>5. MineIn(w, u, d) = MineIn(v, u, d) /\ \A s \in MineIn(w, u, d) : w[s] = v[s]
      BY <2>1, <3>2, <3>3, <3>4 DEF MineIn, OnDay
    <3>6. DayTotals(w, u, d) = DayTotals(v, u, d) BY <3>5, DayTotalsLocal
    <3>7. SameTotals(days'[u][d], DayTotals(v, u, d)) BY <2>3, <3>1, <3>6 DEF w
    <3>8. days'[u][d] # None BY <2>3, <3>1
    <3> QED BY <3>7, <3>8 DEF Agree
  <2> QED BY <2>4, <2>5, <2>6
<1> QED BY <1>1, <1>2

LEMMA JobCommitComputed ==
  ASSUME IInv, IInv', SessionChecks, RecordsAgree, Structure, Computed, [Next]_vars,
         NEW i \in Jobs, JobCommit(i)
  PROVE  Computed'
<1>1. /\ job' = [job EXCEPT ![i] = NoJob]
      /\ UNCHANGED <<clock, active, events, pc, req, tx, answer, crashes>>
  BY DEF JobCommit
<1>2. job'[i] = NoJob /\ \A j \in Jobs \ {i} : job'[j] = job[j] BY <1>1 DEF IInv, Shapes
<1>3. job[i].closed \in SUBSET Requests BY JobIsRow DEF JobRow
<1>4. ASSUME NEW s \in Requests, sessions[s] # None
      PROVE  /\ sessions[s].user \in Users /\ sessions[s].work_date \in WorkDates
             /\ OnDay(sessions, s, sessions[s].user, sessions[s].work_date)
  BY <1>4 DEF IInv, LedgerTypeOK, SessionRow, Structure, DaysExist, OnDay
<1>5. ASSUME NEW j \in Jobs, NEW s \in job'[j].closed PROVE JobDay(j, s)'
  <2>1. j # i /\ job'[j] = job[j] /\ s \in job[j].closed BY <1>2, <1>5 DEF NoJob
  <2>2. s \in Requests /\ sessions[s] # None /\ JobDay(j, s)
    BY <2>1, JobIsRow DEF JobRow, IInv, JobsNameSessions, Computed, JobDays
  <2> DEFINE u == sessions[s].user
             d == sessions[s].work_date
  <2>3. u \in Users /\ d \in WorkDates /\ OnDay(sessions, s, u, d) BY <1>4, <2>2
  <2>4. CASE Untouched(u, d) BY <2>1, <2>2, <2>4, UntouchedJobDay
  <2>5. ASSUME ~Untouched(u, d), IsOpen(s)' PROVE DaySpoilt(s)'
    <3>1. PICK z \in job[i].closed : OnDay(sessions, z, u, d) BY <2>3, <2>5, JobCommitRows
    <3>2. z \in Requests /\ sessions[z] # None BY <1>3, <3>1 DEF OnDay
    <3>3. s # z
      <4>1. Apart(i, j) BY <2>1 DEF Structure
      <4> QED BY <2>1, <3>1, <4>1 DEF Apart
    <3>4. IsOpen(s) BY <2>2, <2>5, OpenBefore
    <3>5. ~IsOpen(z) BY <2>2, <3>1, <3>2, <3>3, <3>4 DEF IInv, OneOpenSession, OnDay
    <3>6. /\ sessions[z].user = sessions'[s].user
          /\ sessions[z].work_date = sessions'[s].work_date
      BY <2>2, <3>1, SameRows DEF OnDay
    <3> QED BY <3>1, <3>2, <3>5, <3>6, ClosedAgain DEF DaySpoilt
  <2>6. CASE ~IsOpen(s)' BY <2>6 DEF JobDay
  <2> QED BY <2>4, <2>5, <2>6 DEF JobDay
<1>6. ASSUME NEW q \in Requests, pc'[q] = "write" PROVE OutDay(q)'
  <2> DEFINE y == tx[q].session
             u == sessions[y].user
             d == sessions[y].work_date
  <2>1. pc[q] = "write" /\ tx'[q] = tx[q] BY <1>1, <1>6
  <2>2. y \in Requests /\ sessions[y] # None BY <2>1, AtWrite DEF Open, IsOpen
  <2>3. u \in Users /\ d \in WorkDates /\ OnDay(sessions, y, u, d) BY <1>4, <2>2
  <2>4. OutDay(q) BY <2>1 DEF Computed, OutDays
  <2>5. CASE \A s \in job[i].closed : ~OnDay(sessions, s, u, d)
    <3>1. Untouched(u, d) /\ days'[u][d] = days[u][d] BY <2>3, <2>5, JobCommitRows
    <3>2. sessions'[y] = sessions[y] BY <2>2, <2>3, <3>1 DEF Untouched
    <3>3. DayOf(y)' = DayOf(y) BY <2>1, <3>1, <3>2 DEF DayOf
    <3> QED BY <1>1, <2>1, <2>4, <3>1, <3>3, UntouchedOutDay
  <2>6. ASSUME NEW z \in job[i].closed, OnDay(sessions, z, u, d) PROVE OutDay(q)'
    <3>1. z \in Requests /\ sessions[z] # None BY <1>3, <2>6 DEF OnDay
    <3>2. y \in Open(req[q].user) /\ y # z
      BY <2>1, <2>6, AtWrite DEF IInv, ChecksStillHold
    <3>3. ~IsOpen(z) BY <2>6, <3>1, <3>2 DEF Open, IInv, OneOpenSession, OnDay
    <3>4. /\ sessions[z].user = sessions'[y].user
          /\ sessions[z].work_date = sessions'[y].work_date
      BY <2>2, <2>6, SameRows DEF OnDay
    <3>5. DaySpoilt(y)' BY <2>1, <2>6, <3>1, <3>3, <3>4, ClosedAgain DEF DaySpoilt
    <3> QED BY <2>1, <3>5 DEF OutDay
  <2> QED BY <2>5, <2>6
<1>7. \A u \in Users, d \in WorkDates : Agree(u, d)' BY JobCommitAgree
<1> QED BY <1>5, <1>6, <1>7 DEF Computed, JobDays, OutDays

-----------------------------------------------------------------------------
(* The other steps change no table that totals are computed from.          *)

\* A punch_out has just been accepted, or it was before and has not moved.
LEMMA WritesStay ==
  ASSUME IInv, Structure, [Next]_vars, NEW q \in Requests, pc'[q] = "write", ~AcceptOut(q)
  PROVE  pc[q] = "write" /\ tx'[q] = tx[q] /\ req'[q] = req[q]
<1>0. /\ pc \in [Requests -> {"new", "lock", "locked", "day", "write", "done"}]
      /\ req \in [Requests -> Request \cup {None}] /\ tx = [r \in Requests |-> tx[r]]
  BY DEF IInv, LedgerTypeOK, Shapes
<1>1. ASSUME NEW r \in Requests, Punch(r)
      PROVE  pc[q] = "write" /\ tx'[q] = tx[q] /\ req'[q] = req[q]
  <2>1. ASSUME NEW c, Answer(r, c), req' = req
        PROVE  pc[q] = "write" /\ tx'[q] = tx[q] /\ req'[q] = req[q]
    BY <1>0, <2>1 DEF Answer
  <2>2. CASE \E u \in Users, t \in Types, k \in Keys \cup {NoKey} : Begin(r, u, t, k)
    BY <1>0, <2>2 DEF Begin
  <2>3. CASE \E u \in Users : TurnAway(r, u) BY <2>1, <2>3 DEF TurnAway
  <2>4. CASE LockUser(r) BY <1>0, <2>4 DEF LockUser, Answer
  <2>5. CASE Replay(r)
    <3>1. PICK c \in {"REPLAY_REJECTED", "DUPLICATE_REQUEST", "REPLAYED"} : Answer(r, c)
      BY <2>5, Zenon DEF Replay
    <3> QED BY <2>1, <2>5, <3>1 DEF Replay
  <2>6. CASE RefuseIn(r) BY <2>1, <2>6 DEF RefuseIn
  <2>7. CASE RefuseOut(r) BY <2>1, <2>7 DEF RefuseOut
  <2>8. CASE RejectPunch(r) BY <2>1, <2>8 DEF RejectPunch
  <2>9. CASE AcceptIn(r) BY <1>0, <2>9 DEF AcceptIn
  <2>10. CASE CommitIn(r) BY <2>1, <2>10 DEF CommitIn
  <2>11. CASE RefuseTime(r) BY <2>1, <2>11 DEF RefuseTime
  <2>12. CASE AcceptOut(r)
    <3>1. r # q BY <2>12
    <3>2. /\ \A x \in Requests \ {r} : pc'[x] = pc[x] /\ tx'[x] = tx[x]
          /\ req' = req
      BY <1>0, <2>12 DEF AcceptOut
    <3> QED BY <3>1, <3>2
  <2>13. CASE CommitOut(r) BY <2>1, <2>13 DEF CommitOut
  <2> QED BY <1>1, <2>2, <2>3, <2>4, <2>5, <2>6, <2>7, <2>8, <2>9, <2>10, <2>11, <2>12, <2>13
          DEF Punch
<1>2. ASSUME NEW j \in Jobs, Maintain(j) PROVE UNCHANGED <<pc, tx, req>>
  BY <1>2 DEF Maintain, JobBegin, JobUpdate, JobAudit, JobLoadDay, JobSum, JobWriteDay, JobCommit
<1>3. ASSUME NEW p \in Procs, Abort(p)
      PROVE  pc[q] = "write" /\ tx'[q] = tx[q] /\ req'[q] = req[q]
  BY <1>0, <1>3 DEF Abort, Answer, Procs
<1>4. ASSUME \/ \E u \in Managed : SetStatus(u)
             \/ Tick \/ Quiescent \/ UNCHANGED vars
      PROVE  UNCHANGED <<pc, tx, req>>
  BY <1>4 DEF SetStatus, Tick, Quiescent, vars
<1> QED BY <1>1, <1>2, <1>3, <1>4 DEF Next, BreakWaitCycle, Crash

LEMMA QuietOutDays ==
  ASSUME IInv, IInv', SessionChecks, Structure, Computed, [Next]_vars,
         UNCHANGED <<sessions, days, audits>>
  PROVE  OutDays'
<1> SUFFICES ASSUME NEW q \in Requests, pc'[q] = "write" PROVE OutDay(q)' BY DEF OutDays
<1>1. CASE AcceptOut(q)
  <2>1. PICK s \in Requests :
           /\ tx' = [tx EXCEPT ![q] = [session |-> s, loaded |-> DayOf(s),
                       totals |-> TotalsIn([sessions EXCEPT ![s] =
                                              Completed(sessions[s], req[q].now)], s)]]
           /\ UNCHANGED <<clock, active, tables, req, answer, job, crashes>>
    BY <1>1, AcceptOutEffect
  <2>2. /\ tx'[q].session = s /\ tx'[q].loaded = DayOf(s)
        /\ tx'[q].totals = TotalsIn(Punched(s, req[q].now), s)
    BY <2>1 DEF IInv, Shapes, Punched
  <2>3. DayOf(s)' = DayOf(s) /\ req' = req /\ sessions' = sessions BY <2>1 DEF DayOf, tables
  <2>4. TotalsIn(Punched(s, req[q].now), s)' = TotalsIn(Punched(s, req[q].now), s)
    BY <2>3 DEF TotalsIn, Punched
  <2> QED BY <2>2, <2>3, <2>4 DEF OutDay
<1>2. CASE ~AcceptOut(q)
  <2>1. pc[q] = "write" /\ tx'[q] = tx[q] /\ req'[q] = req[q] BY <1>2, WritesStay
  <2>2. DayOf(tx[q].session)' = DayOf(tx[q].session) BY <2>1 DEF DayOf
  <2>3. \A u, d : Untouched(u, d) BY DEF Untouched
  <2>4. OutDay(q) BY <2>1 DEF Computed, OutDays
  <2> QED BY <2>1, <2>2, <2>3, <2>4, UntouchedOutDay
<1> QED BY <1>1, <1>2

\* The run reads the row of a day.
LEMMA JobLoadDayComputed ==
  ASSUME IInv, IInv', Structure, Computed, [Next]_vars,
         NEW j \in Jobs, JobLoadDay(j), NEW s \in job'[j].closed
  PROVE  JobDay(j, s)'
<1> DEFINE z == job[j].cur
<1>1. /\ z \in Requests /\ sessions[z] # None
      /\ job' = [job EXCEPT ![j] = [job[j] EXCEPT !.stage = "sum", !.loaded = DayOf(z)]]
      /\ sessions' = sessions /\ days' = days
  BY JobLoadDayEffect DEF tables
<1>2. job[j] \in JobRow BY JobIsRow
<1>3. /\ job'[j].stage = "sum" /\ job'[j].loaded = DayOf(z)
      /\ job'[j].cur = z /\ job'[j].closed = job[j].closed /\ job'[j].rows = job[j].rows
  BY <1>1, <1>2 DEF IInv, Shapes, JobRow
<1>4. s \in Requests /\ sessions[s] # None /\ JobDay(j, s)
  BY <1>2, <1>3 DEF JobRow, IInv, JobsNameSessions, Computed, JobDays
<1> HIDE DEF z
<1>5. /\ IsOpen(s)' <=> IsOpen(s)
      /\ TotalsIn(Ended(s), s)' = TotalsIn(Ended(s), s)
      /\ TotalsIn(sessions, s)' = TotalsIn(sessions, s)
  BY <1>1 DEF IsOpen, TotalsIn, Ended
<1>6. SUFFICES ASSUME IsOpen(s), ~DaySpoilt(s) PROVE JobDay(j, s)'
  BY <1>4, <1>5, DaySpoiltStays DEF JobDay
<1>7. SameTotals(DayOf(s), TotalsIn(sessions, s)) BY <1>4, <1>6, RowIsRight
<1>8. s # z => job[j].rows[s] # None /\ SameTotals(job[j].rows[s], TotalsIn(Ended(s), s))
  BY <1>4, <1>6 DEF JobDay, z
<1> QED BY <1>3, <1>5, <1>7, <1>8 DEF JobDay, SameTotals

\* The run sums up the sessions of a day.
LEMMA JobSumComputed ==
  ASSUME IInv, IInv', SessionChecks, Structure, Computed, [Next]_vars,
         NEW j \in Jobs, JobSum(j), NEW s \in job'[j].closed
  PROVE  JobDay(j, s)'
<1> DEFINE z == job[j].cur
<1>1. /\ job[j].stage = "sum" /\ z \in Requests /\ z \in job[j].closed /\ sessions[z] # None
      /\ job' = [job EXCEPT ![j] = [job[j] EXCEPT !.stage = "day",
                                                  !.totals = TotalsIn(JobView(j), z)]]
      /\ sessions' = sessions /\ days' = days
  BY JobSumEffect DEF tables
<1>2. job[j] \in JobRow BY JobIsRow
<1>3. /\ job'[j].stage = "day" /\ job'[j].totals = TotalsIn(JobView(j), z)
      /\ job'[j].loaded = job[j].loaded
      /\ job'[j].cur = z /\ job'[j].closed = job[j].closed /\ job'[j].rows = job[j].rows
  BY <1>1, <1>2 DEF IInv, Shapes, JobRow
<1>4. s \in Requests /\ sessions[s] # None /\ JobDay(j, s)
  BY <1>2, <1>3 DEF JobRow, IInv, JobsNameSessions, Computed, JobDays
<1>5. TotalsIn(JobView(j), z) = TotalsIn(Ended(z), z) BY <1>1, JobViewTotals
<1> HIDE DEF z
<1>6. /\ IsOpen(s)' <=> IsOpen(s)
      /\ TotalsIn(Ended(s), s)' = TotalsIn(Ended(s), s)
      /\ TotalsIn(sessions, s)' = TotalsIn(sessions, s)
  BY <1>1 DEF IsOpen, TotalsIn, Ended
<1>7. SUFFICES ASSUME IsOpen(s), ~DaySpoilt(s) PROVE JobDay(j, s)'
  BY <1>4, <1>6, DaySpoiltStays DEF JobDay
<1>8. /\ s = z => SameTotals(job[j].loaded, TotalsIn(sessions, s))
      /\ s # z => job[j].rows[s] # None /\ SameTotals(job[j].rows[s], TotalsIn(Ended(s), s))
  BY <1>1, <1>4, <1>7 DEF JobDay, z
<1> QED BY <1>3, <1>5, <1>6, <1>8 DEF JobDay, SameTotals

\* The run writes the row, unless the row says what the run has summed up.
LEMMA JobWriteDayComputed ==
  ASSUME IInv, IInv', SessionChecks, Structure, Computed, [Next]_vars,
         NEW j \in Jobs, JobWriteDay(j), NEW s \in job'[j].closed
  PROVE  JobDay(j, s)'
<1> DEFINE J == job[j]
           z == J.cur
           new == Overwrite(J.loaded, J.loaded, J.totals)
           written == IF new = J.loaded THEN None ELSE Overwrite(DayOf(z), J.loaded, J.totals)
<1>1. /\ J.stage = "day" /\ z \in Requests /\ z \in J.closed /\ sessions[z] # None
      /\ J.loaded \in DayRow /\ J.totals \in TotalsRow /\ DayOf(z) \in DayRow
      /\ sessions[z].user \in Users /\ written \in DayRow \cup {None}
      /\ sessions' = sessions
  BY JobWriteDayEffect DEF tables
<1>2. PICK next \in J.todo \cup {None}, st \in {"commit", "audit", "update"} :
         /\ next = None <=> st = "commit"
         /\ job' = [job EXCEPT ![j] = Further(J, st, next, z, sessions[z].user, written)]
  BY JobWriteDayEffect
<1>3. J \in JobRow /\ Orderly(j) BY JobIsRow
<1>4. ASSUME z = s, IsOpen(s), ~DaySpoilt(s)
      PROVE  written # None /\ SameTotals(written, TotalsIn(Ended(s), s))
  <2>1. JobDay(j, s) /\ s \in Requests /\ sessions[s] # None
    BY <1>1, <1>4 DEF Computed, JobDays
  <2>2. SameTotals(DayOf(s), TotalsIn(sessions, s)) BY <1>4, <2>1, RowIsRight
  <2>3. /\ SameTotals(J.loaded, TotalsIn(sessions, s))
        /\ SameTotals(J.totals, TotalsIn(Ended(s), s))
    BY <1>1, <1>4, <2>1 DEF JobDay
  <2>4. SameTotals(new, J.totals) BY <1>1, FreshOverwrite
  <2> DEFINE row == Overwrite(DayOf(s), J.loaded, J.totals)
  <2>5. /\ row.total = IF J.totals.total # J.loaded.total THEN J.totals.total ELSE DayOf(s).total
        /\ row.last = IF J.totals.last # J.loaded.last THEN J.totals.last ELSE DayOf(s).last
        /\ row.status = IF J.totals.status # J.loaded.status THEN J.totals.status
                                                             ELSE DayOf(s).status
        /\ row \in DayRow
    <3> DEFINE stored == DayOf(s)
               loaded == J.loaded
               totals == J.totals
    <3>1. stored \in DayRow /\ loaded \in DayRow /\ totals \in TotalsRow BY <1>1, <1>4
    <3> HIDE DEF stored, loaded, totals
    <3>2. /\ Overwrite(stored, loaded, totals).total
               = IF totals.total # loaded.total THEN totals.total ELSE stored.total
          /\ Overwrite(stored, loaded, totals).last
               = IF totals.last # loaded.last THEN totals.last ELSE stored.last
          /\ Overwrite(stored, loaded, totals).status
               = IF totals.status # loaded.status THEN totals.status ELSE stored.status
          /\ Overwrite(stored, loaded, totals) \in DayRow
      BY <3>1, OverwriteRow
    <3> QED BY <3>2 DEF stored, loaded, totals
  <2>6. written = IF new = J.loaded THEN None ELSE row BY <1>4
  <2>7. /\ TotalsIn(sessions, s).status = "PRESENT"
        /\ TotalsIn(Ended(s), s).status = "CHECKED_OUT"
    BY <1>4, <2>1, StatusTurns
  <2> HIDE DEF J, new, row, written
  <2>8. new # J.loaded BY <2>3, <2>4, <2>7 DEF SameTotals
  <2>9. SameTotals(row, TotalsIn(Ended(s), s)) BY <2>2, <2>3, <2>5 DEF SameTotals
  <2> QED BY <2>5, <2>6, <2>8, <2>9, NoneIsNoRow
<1> HIDE DEF written, new
<1>5. /\ job'[j].stage = st /\ job'[j].cur = next /\ job'[j].closed = J.closed
      /\ job'[j].rows[z] = written
      /\ \A x \in Requests \ {z} : job'[j].rows[x] = J.rows[x]
  <2> DEFINE K == Further(J, st, next, z, sessions[z].user, written)
  <2>1. job'[j] = K BY <1>2 DEF IInv, Shapes
  <2>2. st \in Stages /\ next \in Requests \cup {None} BY <1>2, <1>3 DEF Stages, JobRow
  <2>3. /\ K.stage = st /\ K.cur = next /\ K.closed = J.closed
        /\ K.rows[z] = written /\ \A x \in Requests \ {z} : K.rows[x] = J.rows[x]
    <3>1. /\ J \in JobRow /\ z \in Requests /\ sessions[z].user \in Users
          /\ written \in DayRow \cup {None}
      BY <1>1, <1>3
    <3> HIDE DEF J, z
    <3> QED BY <2>2, <3>1, JobRowWritten
  <2> HIDE DEF K
  <2> QED BY <2>1, <2>3
<1>6. s \in Requests /\ sessions[s] # None /\ s \in J.closed /\ JobDay(j, s)
  BY <1>3, <1>5 DEF JobRow, IInv, JobsNameSessions, Computed, JobDays
<1>7. /\ IsOpen(s)' <=> IsOpen(s)
      /\ TotalsIn(Ended(s), s)' = TotalsIn(Ended(s), s)
  BY <1>1 DEF IsOpen, TotalsIn, Ended
<1>8. SUFFICES ASSUME IsOpen(s), ~DaySpoilt(s) PROVE JobDay(j, s)'
  BY <1>6, <1>7, DaySpoiltStays DEF JobDay
<1>9. st # "day" /\ st # "sum" /\ s # next
  BY <1>2, <1>3, <1>6 DEF Orderly
<1>10. job'[j].rows[s] # None /\ SameTotals(job'[j].rows[s], TotalsIn(Ended(s), s))
  BY <1>4, <1>5, <1>6, <1>8 DEF JobDay
<1> QED BY <1>5, <1>7, <1>9, <1>10 DEF JobDay, SameTotals

\* The run goes on with the same session, and has not read its day yet.
LEMMA JobGoesOnComputed ==
  ASSUME IInv, Structure, Computed, [Next]_vars, sessions' = sessions, NEW j \in Jobs,
         job'[j].stage \notin {"sum", "day"}, job'[j].cur = job[j].cur,
         job'[j].rows = job[j].rows,
         job'[j].closed \subseteq job[j].closed \cup {job[j].cur},
         NEW s \in job'[j].closed, s \in Requests, sessions[s] # None
  PROVE  JobDay(j, s)'
<1>1. /\ IsOpen(s)' <=> IsOpen(s)
      /\ TotalsIn(Ended(s), s)' = TotalsIn(Ended(s), s)
  BY DEF IsOpen, TotalsIn, Ended
<1>2. CASE s = job[j].cur BY <1>2 DEF JobDay
<1>3. CASE s # job[j].cur
  <2>1. JobDay(j, s) BY <1>3 DEF Computed, JobDays
  <2>2. DaySpoilt(s) => DaySpoilt(s)' BY DaySpoiltStays
  <2> QED BY <1>1, <1>3, <2>1, <2>2 DEF JobDay, SameTotals
<1> QED BY <1>2, <1>3

LEMMA QuietJobDay ==
  ASSUME IInv, IInv', SessionChecks, RecordsAgree, Structure, Computed, [Next]_vars,
         UNCHANGED <<sessions, days, audits>>, NEW j \in Jobs, NEW s \in job'[j].closed
  PROVE  JobDay(j, s)'
<1>1. s \in Requests /\ sessions[s] # None
  <2>1. s \in Requests /\ sessions'[s] # None BY RunsKept DEF JobRow, IInv, JobsNameSessions
  <2> QED BY <2>1
<1>2. CASE job'[j] = job[j]
  <2>1. s \in job[j].closed /\ JobDay(j, s) BY <1>2 DEF Computed, JobDays
  <2>2. Untouched(sessions[s].user, sessions[s].work_date) BY DEF Untouched
  <2> QED BY <1>1, <1>2, <2>1, <2>2, UntouchedJobDay
<1>3. job'[j].closed # {} BY <1>1
<1>4. ASSUME NEW i \in Jobs, job' = [job EXCEPT ![i] = NoJob] PROVE job'[j] = job[j]
  <2>1. job'[i] = NoJob BY <1>4 DEF IInv, Shapes
  <2>2. i # j BY <1>3, <2>1 DEF NoJob
  <2> QED BY <1>4, <2>2 DEF IInv, Shapes
<1>5. ASSUME NEW i \in Jobs, Maintain(i), i # j PROVE job'[j] = job[j]
  BY <1>5 DEF Maintain, JobBegin, JobUpdate, JobAudit, JobLoadDay, JobSum, JobWriteDay, JobCommit,
              IInv, Shapes
<1>6. CASE Maintain(j)
  <2>1. CASE JobBegin(j)
    <3>1. job[j] = NoJob BY <2>1 DEF JobBegin, Structure, Orderly
    <3>2. PICK z \in Requests, todo \in SUBSET Requests :
             job' = [job EXCEPT ![j].stage = "update", ![j].cur = z, ![j].todo = todo]
      BY <2>1 DEF JobBegin
    <3>3. job'[j].closed = NoJob.closed BY <3>1, <3>2 DEF IInv, Shapes, NoJob
    <3> QED BY <1>3, <3>3 DEF NoJob
  <2>2. CASE JobUpdate(j)
    <3>1. job[j] \in JobRow BY JobIsRow
    <3>2. /\ job'[j].stage \in {"load", "audit"} /\ job'[j].cur = job[j].cur
          /\ job'[j].rows = job[j].rows
          /\ job'[j].closed = job[j].closed \cup {job[j].cur}
      BY <2>2, <3>1 DEF JobUpdate, IInv, Shapes, JobRow
    <3> QED BY <1>1, <3>2, JobGoesOnComputed
  <2>3. CASE JobAudit(j)
    <3>1. job[j] \in JobRow BY JobIsRow
    <3>2. /\ job'[j].stage \in {"load", "update"} /\ job'[j].cur = job[j].cur
          /\ job'[j].rows = job[j].rows /\ job'[j].closed = job[j].closed
      BY <2>3, <3>1 DEF JobAudit, IInv, Shapes, JobRow
    <3> QED BY <1>1, <3>2, JobGoesOnComputed
  <2>4. CASE JobCommit(j) BY <1>2, <1>4, <2>4 DEF JobCommit
  <2> QED BY <1>6, <2>1, <2>2, <2>3, <2>4, JobLoadDayComputed, JobSumComputed,
         JobWriteDayComputed DEF Maintain
<1>7. ASSUME NEW p \in Procs, Abort(p) PROVE job'[j] = job[j]
  BY <1>4, <1>7 DEF Abort
<1>8. ASSUME NEW r \in Requests, Punch(r) PROVE job' = job
  BY <1>8 DEF Punch, Begin, TurnAway, LockUser, Replay, RefuseIn, RefuseOut, RejectPunch,
         AcceptIn, CommitIn, RefuseTime, AcceptOut, CommitOut
<1>9. ASSUME \/ \E u \in Managed : SetStatus(u)
             \/ Tick \/ Quiescent \/ UNCHANGED vars
      PROVE  job' = job
  BY <1>9 DEF SetStatus, Tick, Quiescent, vars
<1> QED BY <1>2, <1>5, <1>6, <1>7, <1>8, <1>9 DEF Next, BreakWaitCycle, Crash

LEMMA QuietComputed ==
  ASSUME IInv, IInv', SessionChecks, RecordsAgree, Structure, Computed, [Next]_vars,
         UNCHANGED <<sessions, days, audits>>
  PROVE  Computed'
<1>1. JobDays' BY QuietJobDay DEF JobDays
<1>2. ASSUME NEW u \in Users, NEW d \in WorkDates PROVE Agree(u, d)'
  <2>1. Untouched(u, d) BY DEF Untouched
  <2>2. Agree(u, d) BY DEF Computed
  <2> QED BY <2>1, <2>2, UntouchedAgree
<1> QED BY <1>1, <1>2, QuietOutDays DEF Computed

-----------------------------------------------------------------------------
(* The theorems.                                                           *)

LEMMA InitComputed == ASSUME Init PROVE Computed
<1> USE DEF Init
<1>1. JobDays BY DEF JobDays, NoJob
<1>2. OutDays BY DEF OutDays
<1>3. \A u \in Users, d \in WorkDates : Agree(u, d) BY DEF Agree
<1> QED BY <1>1, <1>2, <1>3 DEF Computed

\* What every running punch_out and maintenance run has computed for a day is right
\* for what it will commit, unless a session of that day has been ended twice: by two
\* maintenance runs, or by one and by a punch_out.
THEOREM ComputedHolds == Spec => []Computed
<1>1. /\ IInv /\ IInv' /\ SessionChecks /\ RecordsAgree /\ Structure /\ Computed /\ [Next]_vars
      => Computed'
  <2> SUFFICES ASSUME IInv, IInv', SessionChecks, RecordsAgree, Structure, Computed, [Next]_vars
               PROVE  Computed'
    OBVIOUS
  <2>1. CASE \E r \in Requests : CommitIn(r) BY <2>1, CommitInComputed
  <2>2. CASE \E r \in Requests : CommitOut(r) BY <2>2, CommitOutComputed
  <2>3. CASE \E j \in Jobs : JobCommit(j) BY <2>3, JobCommitComputed
  <2> QED BY <2>1, <2>2, <2>3, QuietTables, QuietComputed
<1> QED BY <1>1, InitComputed, InductiveInvariant, SessionChecksHold, RecordsAgreeHolds,
           StructureHolds, PTL DEF Spec

\* The row of a day says what its sessions add up to: the total, the last punch-out and
\* the status that punch_in, punch_out and the maintenance job have written, in whatever
\* order they interleaved, days both punched out of and auto-closed included; except on
\* a day of which one session has been ended twice.
THEOREM DayTotalsAgreeHolds == Spec => []DayTotalsAgree
<1>1. Computed => DayTotalsAgree BY AgreeIsDayTotalsAgree DEF Computed
<1> QED BY <1>1, ComputedHolds, PTL
=============================================================================
