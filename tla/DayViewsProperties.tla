------------------------- MODULE DayViewsProperties -------------------------
(***************************************************************************)
(* What the verdicts and the screens of DayViews can be relied on for.     *)
(***************************************************************************)
EXTENDS DayViews

Types == {"IN", "OUT", "AUTO"}
Verdicts == {"ACCEPTED", "INVALID_COORDINATES", "ACCURACY_TOO_LOW",
             "OUTSIDE_GEOFENCE", "IMPOSSIBLE_MOVEMENT"}
AnyReading == [place : Int \cup {NoFix}, accuracy : Nat]
Commits == [type : Types, verdict : Verdicts, at : Start .. MaxClock,
            captured : Start .. MaxClock, reading : AnyReading,
            flagged : BOOLEAN, previous : 0 .. MaxCommits,
            session : 0 .. MaxCommits, purged : BOOLEAN]
Views == [kind : {"none", "today", "days", "presence"}, stage : 0 .. 3,
          now : Start .. MaxClock, from : Nat, to : Nat]

\* Types; nothing ends after the present, and what a commit refers to was there
\* before it (models/punch_event.py, models/attendance.py).
TypeOK ==
    /\ clock \in Start .. MaxClock /\ block \in BOOLEAN
    /\ log \in Seq(Commits) /\ view \in Views /\ seen \in [Statements -> 0 .. Here]
    /\ \A j \in DOMAIN log : /\ log[j].captured <= log[j].at /\ log[j].at <= clock
                             /\ log[j].previous < j /\ log[j].session <= j

-----------------------------------------------------------------------------
\* Between the fixes of commits i and j a person can have moved that far.
CanMove(i, j) ==
    Distance(log[i].reading.place, log[j].reading.place)
      <= MaxSpeed * Distance(log[i].captured, log[j].captured)

\* Nobody who keeps within max_travel_speed_kmh is flagged or blocked, unless the
\* server was slower from the fix to the clock with the previous punch than with
\* this one, or decided them in the other order: the interval it divides by is
\* between two clock values, not between the fixes (geofence_service.py:158).
HonestNotFlagged ==
    \A j \in DOMAIN log :
        log[j].flagged /\ CanMove(log[j].previous, j) =>
          LET i == log[j].previous
          IN  \/ log[i].at - log[i].captured > log[j].at - log[j].captured
              \/ log[j].captured < log[i].captured

\* A person who is accepted twice in a row, at clock values in order, too far
\* apart for the time between them, is flagged or blocked the second time, except
\* if the coordinates of the first are purged or another accepted punch has a clock
\* value as late (last_accepted_event, punch_repo.py:29-41).
FollowingAccepted(i, j) ==
    /\ i < j /\ log[i].type # "AUTO" /\ log[j].type # "AUTO"
    /\ log[i].verdict = "ACCEPTED" /\ log[j].verdict = "ACCEPTED"
    /\ \A k \in i + 1 .. j - 1 : log[k].type = "AUTO" \/ log[k].verdict # "ACCEPTED"
TeleportIsFlagged ==
    \A i, j \in DOMAIN log :
        /\ FollowingAccepted(i, j)
        /\ log[i].at <= log[j].at
        /\ TooFast(Distance(log[i].reading.place, log[j].reading.place),
                   log[j].at - log[i].at)
        => \/ log[j].flagged
           \/ log[i].purged
           \/ \E k \in 1 .. i - 1 : /\ log[k].verdict = "ACCEPTED" /\ log[k].type # "AUTO"
                                    /\ log[k].at >= log[i].at

\* is_late is set by the first punch_in to commit, first_punch_in by the earliest.
\* No late arrival goes unmarked, and a day with a punctual first_punch_in is
\* marked late only if two punches committed against the order of their clock
\* values (attendance_service.py:352-354, recompute_day_totals).
NoLateDayIsMissed ==
    \A d \in WorkDates :
        HasRow(d, Here) =>
          /\ IsLate(FirstIn(d, Here)) => Late(d, Here)
          /\ Late(d, Here) /\ ~IsLate(FirstIn(d, Here)) =>
               \E i, j \in Of(d, Here) : i < j /\ log[j].at < log[i].at

-----------------------------------------------------------------------------
(* What was the case after n commits, told from the sessions alone.        *)

TrueState(n, now) ==
    IF \E i \in Sessions(n) : Ends(i, n) = {} THEN "PRESENT"
    ELSE IF \E i \in Sessions(n) : WorkDate(log[i].at) = WorkDate(now)
         THEN "CHECKED_OUT" ELSE "ABSENT"
TrueTotal(d, n, now) ==
    SumFunction([i \in {i \in Sessions(n) : WorkDate(log[i].at) = d} |->
                    IF Ends(i, n) = {} THEN Elapsed(i, now) ELSE Duration(i, n)])

\* "Today" never shows less than was true when it was asked: a session that ends
\* between its two reads is counted twice rather than not at all
\* (today_state, attendance_service.py:79-93).
TodayNeverUnderstates ==
    Answered("today") =>
      TodayTotal(seen["open"], seen["row"], view.now)
        >= TrueTotal(WorkDate(view.now), seen["open"], view.now)

\* The state it shows was the person's at some moment of the request, though it may
\* come without the session it belongs to (attendance_service.py:104-109).
TodayStateIsOfOneMoment ==
    Answered("today") =>
      \E n \in seen["open"] .. seen["row"] :
          TodayState(seen["open"], seen["row"], view.now) = TrueState(n, view.now)

\* History, the admin's rows, the CSV report and the summary err the other way: a
\* session that ends between the reads of a day and of its sessions is missing from
\* the total, and none is counted twice (day_payload, build_rows, summary).
DaysNeverOverstate ==
    Answered("days") =>
      \A d \in view.from .. view.to :
          DayTotal(d, seen["row"], seen["sessions"], view.now)
            <= TrueTotal(d, seen["sessions"], view.now)

\* An administrator sees everybody in a list they belonged to at some moment of the
\* request, whoever punches while it is made: "always consistent with the attendance
\* tables" (presence_snapshot, analytics_service.py:131) holds of the lists.
PresenceIsOfOneMoment ==
    Answered("presence") =>
      \E n \in seen["row"] .. seen["open"] :
          PresenceState(seen["row"], seen["open"], view.now) = TrueState(n, view.now)

\* Unless a session of an earlier day runs, that total is never above the true one: a
\* session that ends between the reads of the day rows and of the open sessions is
\* missing from it, and none is counted twice (analytics_service.py:140-147).
PresenceNeverOverstates ==
    Answered("presence") =>
      LET today == WorkDate(view.now)
      IN  \/ PresenceTotal(seen["row"], seen["open"], view.now)
                <= TrueTotal(today, seen["open"], view.now)
          \/ \E i \in OpenAt(seen["open"]) : WorkDate(log[i].at) # today

\* "A session is attributed to the workspace-local day it started, so an overnight
\* session counts against that day", and days_absent counts days "that have already
\* passed and have no attendance" (README:415-418): attendance of one day is not taken
\* for that of another, neither to hide an absence (summary, analytics_service.py:107)
\* nor in the total of today next to a name (presence_snapshot, :167-175).
PassedWithoutAttendance ==
    {d \in view.from .. view.to :
        d < WorkDate(view.now) /\ Weekday(d) < 5 /\ ~HasRow(d, seen["row"])}
AttendanceCountsForItsDay ==
    /\ Answered("days") =>
          DaysAbsent(view.from, view.to, seen["row"], view.now)
            >= Cardinality(PassedWithoutAttendance)
    /\ Answered("presence") =>
          PresenceTotal(seen["row"], seen["open"], view.now)
            <= TrueTotal(WorkDate(view.now), seen["open"], view.now)
=============================================================================
