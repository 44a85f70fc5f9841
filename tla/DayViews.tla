------------------------------ MODULE DayViews ------------------------------
(***************************************************************************)
(* One person's punches as they are committed, with the verdict of the     *)
(* geofence (services/geofence_service.py), and what the screens show of    *)
(* them: today_state, the day rows of history, reports and summary, and    *)
(* presence_snapshot, each a sequence of statements at READ COMMITTED.     *)
(*                                                                         *)
(* log is the sequence of commits.  A statement sees the commits made so   *)
(* far: all of what it reads is named by their number.  How a punch gets   *)
(* to its commit is PunchService; here only its clock value is older.      *)
(* Places are points on a line through the centre of the workspace.        *)
(***************************************************************************)
EXTENDS Integers, Sequences, FiniteSetsExt

CONSTANTS
    Readings,               \* fixes a phone may send: [place, accuracy]
    NoFix,                  \* the place of the (0, 0) "no fix" sentinel
    Radius, AccuracyLimit, MaxSpeed,    \* of the workspace; speed per tick
    Retention,              \* ticks that coordinates are kept
    AutoCloseAfter, DayTicks, LateAfter,
    Start,                  \* the first clock value
    Periods,                \* the periods asked for
    Delay, Age,             \* bounds: ticks from the clock value of a punch to its
                            \* commit, and from its fix to the clock value
    MaxCommits, MaxClock

ASSUME ViewsAssumption ==
    /\ NoFix \notin Int
    /\ Readings \subseteq [place : Int \cup {NoFix}, accuracy : Nat]
    /\ Radius \in Nat /\ AccuracyLimit \in Nat /\ MaxSpeed \in Nat \ {0}
    /\ Retention \in Nat /\ AutoCloseAfter \in Nat \ {0}
    /\ DayTicks \in Nat \ {0} /\ LateAfter \in Nat
    /\ Start \in Nat /\ Delay \in Nat /\ Age \in Nat
    /\ Periods \subseteq {"today", "week", "custom"}
    /\ MaxCommits \in Nat /\ MaxClock \in Nat /\ Start <= MaxClock

VARIABLES
    clock,      \* the server clock, utcnow()
    block,      \* workspace.block_impossible_movement
    log,        \* the committed punches and auto-closes, in commit order
    view,       \* a screen being answered, stage statements of it made
    seen        \* the commits that each of its statements saw

vars == <<clock, block, log, view, seen>>

Statements == {"open", "row", "sessions"}
NoView == [kind |-> "none", stage |-> 0, now |-> Start, from |-> 0, to |-> 0]

Init ==
    /\ clock = Start
    /\ block \in BOOLEAN
    /\ log = <<>>
    /\ view = NoView /\ seen = [s \in Statements |-> 0]

-----------------------------------------------------------------------------
(* The tables after the first n commits.  A session is named by its commit. *)

WorkDate(t) == t \div DayTicks
WorkDates == WorkDate(Start) .. WorkDate(MaxClock)
IsLate(t) == t % DayTicks > LateAfter

Sessions(n) == {i \in 1 .. n : log[i].type = "IN" /\ log[i].session = i}
Ends(i, n) == {j \in i + 1 .. n : log[j].session = i}
OpenAt(n) == {i \in Sessions(n) : Ends(i, n) = {}}
Of(d, n) == {i \in Sessions(n) : WorkDate(log[i].at) = d}
Duration(i, n) == log[Min(Ends(i, n))].at - log[i].at

\* attendance_days: recomputed whenever a session of the day ends; the first
\* punch_in fixes first_punch_in until then, and is_late for good.
HasRow(d, n) == Of(d, n) # {}
Closed(d, n) == Of(d, n) \ OpenAt(n)
Total(d, n) == SumFunction([i \in Closed(d, n) |-> Duration(i, n)])
Status(d, n) ==
    IF Of(d, n) = {} THEN "ABSENT"
    ELSE IF Closed(d, n) = Of(d, n) THEN "CHECKED_OUT" ELSE "PRESENT"
FirstIn(d, n) ==
    LET recomputed == UNION {Ends(i, n) : i \in Closed(d, n)}
        counted == IF recomputed = {} THEN {Min(Of(d, n))} ELSE Of(d, Max(recomputed))
    IN  Min({log[i].at : i \in counted})

\* Defect: every punch_in sets is_late.
LateByLast(d, n) == IsLate(log[Max(Of(d, n))].at)

Late(d, n) == IsLate(log[Min(Of(d, n))].at)

-----------------------------------------------------------------------------
(* geofence_service.validate.                                              *)

\* Defect: the filter on validation_status is missing.
AnyEvent(e) == e.type # "AUTO" /\ e.reading.place # NoFix /\ ~e.purged

HasPosition(e) == e.type # "AUTO" /\ e.verdict = "ACCEPTED" /\ ~e.purged

\* last_accepted_event: 0 if there is none; equal timestamps in either order.
Latest ==
    LET held == {i \in DOMAIN log : HasPosition(log[i])}
        last == {i \in held : \A j \in held : log[j].at <= log[i].at}
    IN  IF last = {} THEN {0} ELSE last

Distance(p, q) == IF p < q THEN q - p ELSE p - q

\* Defect: moving at the limit is flagged.
AtSpeedLimit(travelled, elapsed) == travelled > 0 /\ travelled >= MaxSpeed * elapsed

\* speed_kmh > max_travel_speed_kmh; without elapsed time the speed is infinite.
TooFast(travelled, elapsed) ==
    travelled > 0 /\ (elapsed <= 0 \/ travelled > MaxSpeed * elapsed)

Implausible(place, t, previous) ==
    /\ previous # 0
    /\ TooFast(Distance(log[previous].reading.place, place), t - log[previous].at)

\* The gates, in order; the first that fails gives the verdict.
Verdict(reading, t, previous) ==
    IF reading.place = NoFix THEN "INVALID_COORDINATES"
    ELSE IF reading.accuracy > AccuracyLimit THEN "ACCURACY_TOO_LOW"
    ELSE IF Distance(0, reading.place) > Radius THEN "OUTSIDE_GEOFENCE"
    ELSE IF block /\ Implausible(reading.place, t, previous) THEN "IMPOSSIBLE_MOVEMENT"
    ELSE "ACCEPTED"

-----------------------------------------------------------------------------
(* Commits.  t is the clock value the transaction read, before it waited   *)
(* for the user row; captured is when the phone took the fix.              *)

Commit(type, verdict, t, captured, reading, flagged, previous, session) ==
    /\ Len(log) < MaxCommits
    /\ log' = Append(log, [type |-> type, verdict |-> verdict, at |-> t,
                           captured |-> captured, reading |-> reading,
                           flagged |-> flagged, previous |-> previous,
                           session |-> session, purged |-> FALSE])
    /\ UNCHANGED <<clock, block, view, seen>>

ClockValues == {t \in clock - Delay .. clock : t >= Start}
Captures(t) == {c \in t - Age .. t : c >= Start}
Here == Len(log)

RejectPunch(type, reading, t, captured, previous) ==
    /\ (OpenAt(Here) = {}) = (type = "IN")
    /\ LET verdict == Verdict(reading, t, previous)
       IN  /\ verdict # "ACCEPTED"
           /\ Commit(type, verdict, t, captured, reading,
                     verdict = "IMPOSSIBLE_MOVEMENT", previous, 0)

PunchIn(reading, t, captured, previous) ==
    /\ OpenAt(Here) = {}
    /\ Verdict(reading, t, previous) = "ACCEPTED"
    /\ Commit("IN", "ACCEPTED", t, captured, reading,
              Implausible(reading.place, t, previous), previous, Here + 1)

\* A clock value that is not after the punch_in is refused and leaves nothing.
PunchOut(reading, t, captured, previous) ==
    \E i \in OpenAt(Here) :
        /\ Verdict(reading, t, previous) = "ACCEPTED"
        /\ t > log[i].at
        /\ Commit("OUT", "ACCEPTED", t, captured, reading,
                  Implausible(reading.place, t, previous), previous, i)

\* Defect: the cutoff is added twice.
AutoEndTwice(i) == log[i].at + 2 * AutoCloseAfter

AutoEnd(i) == log[i].at + AutoCloseAfter

AutoClose ==
    \E i \in OpenAt(Here) :
        /\ log[i].at < clock - AutoCloseAfter
        /\ Commit("AUTO", "ACCEPTED", AutoEnd(i), Start,
                  [place |-> NoFix, accuracy |-> 0], FALSE, 0, i)

\* purge_location_data, over all events.
PurgeLocations ==
    /\ \E i \in DOMAIN log : log[i].at < clock - Retention /\ ~log[i].purged
    /\ log' = [i \in DOMAIN log |->
                 [log[i] EXCEPT !.purged = @ \/ log[i].at < clock - Retention]]
    /\ UNCHANGED <<clock, block, view, seen>>

Tick ==
    /\ clock < MaxClock
    /\ clock' = clock + 1
    /\ UNCHANGED <<block, log, view, seen>>

-----------------------------------------------------------------------------
(* Reading.                                                                *)

\* resolve_period; weeks begin on Monday, work date 0 is one.
Weekday(d) == d % 7
Ranges(period, today) ==
    CASE period = "today"  -> {<<today, today>>}
      [] period = "week"   -> {<<today - Weekday(today), today - Weekday(today) + 6>>}
      [] period = "custom" -> {r \in WorkDates \X WorkDates : r[1] <= r[2]}

\* Defect: the statements of every screen the other way round.
PlanReversed(kind) ==
    CASE kind = "today"    -> <<"sessions", "row", "open">>
      [] kind = "days"     -> <<"sessions", "row">>
      [] kind = "presence" -> <<"open", "sessions", "row">>

\* The statements of a screen: the open session; the day rows; their sessions.
Plan(kind) ==
    CASE kind = "today"    -> <<"open", "row", "sessions">>
      [] kind = "days"     -> <<"row", "sessions">>
      [] kind = "presence" -> <<"row", "sessions", "open">>

BeginView(kind, from, to) ==
    /\ view.kind = "none"
    /\ view' = [NoView EXCEPT !.kind = kind, !.now = clock, !.from = from, !.to = to]
    /\ UNCHANGED <<clock, block, log, seen>>

AskToday == BeginView("today", 0, 0)
AskPresence == BeginView("presence", 0, 0)
AskDays ==
    \E period \in Periods : \E r \in Ranges(period, WorkDate(clock)) :
        BeginView("days", r[1], r[2])

ReadNext ==
    /\ view.kind # "none" /\ view.stage < Len(Plan(view.kind))
    /\ view' = [view EXCEPT !.stage = @ + 1]
    /\ seen' = [seen EXCEPT ![Plan(view.kind)[view.stage + 1]] = Here]
    /\ UNCHANGED <<clock, block, log>>

Answered(kind) == view.kind = kind /\ view.stage = Len(Plan(kind))

\* elapsed_seconds of a session that has not ended.
Elapsed(i, now) == IF log[i].at < now THEN now - log[i].at ELSE 0

\* Defect: sessions that have ended count as running.
Listed(d, n) == Of(d, n)

Running(d, n) == Of(d, n) \cap OpenAt(n)

\* The total and state that today_state gives with an open session read after o
\* commits and a day row read after w.
TodayTotal(o, w, now) ==
    LET today == WorkDate(now)
    IN  Total(today, w) + SumFunction([i \in OpenAt(o) \cap Of(today, o) |-> Elapsed(i, now)])

\* Defect: a day with an ended session is no different from one without.
StateByOpenSession(o, w, now) == IF OpenAt(o) # {} THEN "PRESENT" ELSE "ABSENT"

TodayState(o, w, now) ==
    IF OpenAt(o) # {} THEN "PRESENT" ELSE Status(WorkDate(now), w)

\* The total of a day in history, reports and summary, rows read after w commits
\* and sessions after s.
DayTotal(d, w, s, now) ==
    IF HasRow(d, w)
    THEN Total(d, w) + SumFunction([i \in Running(d, s) |-> Elapsed(i, now)])
    ELSE 0

WorkingDays(from, to, today) == {d \in from .. to : d <= today /\ Weekday(d) < 5}

\* summary: days_present and days_absent of a range.
DaysPresent(from, to, w) == {d \in from .. to : HasRow(d, w)}
DaysAbsent(from, to, w, now) ==
    LET left == Cardinality(WorkingDays(from, to, WorkDate(now)))
                  - Cardinality(DaysPresent(from, to, w))
    IN  IF left > 0 THEN left ELSE 0

\* presence_snapshot: the person's list, and the total next to the name.
PresenceState(w, o, now) ==
    IF OpenAt(o) # {} THEN "PRESENT"
    ELSE IF HasRow(WorkDate(now), w) THEN "CHECKED_OUT" ELSE "ABSENT"
PresenceTotal(w, o, now) ==
    Total(WorkDate(now), w) + SumFunction([i \in OpenAt(o) |-> Elapsed(i, now)])

-----------------------------------------------------------------------------
Next ==
    \/ \E reading \in Readings, t \in ClockValues, previous \in Latest :
         \E captured \in Captures(t) :
           \/ PunchIn(reading, t, captured, previous)
           \/ PunchOut(reading, t, captured, previous)
           \/ \E type \in {"IN", "OUT"} :
                 RejectPunch(type, reading, t, captured, previous)
    \/ AutoClose \/ PurgeLocations \/ Tick
    \/ AskToday \/ AskPresence \/ AskDays \/ ReadNext

Spec == Init /\ [][Next]_vars
=============================================================================
