---------------------------- MODULE DayViewsProofs ----------------------------
(***************************************************************************)
(* What the geofence flags, of which moment the screens are, what they add   *)
(* up, and who counts as late, for every workspace, phone and number of      *)
(* commits.  All of it comes from what one commit adds to the log (Fits),    *)
(* and from the log never changing a type, a session or a clock value        *)
(* afterwards.                                                               *)
(***************************************************************************)
EXTENDS DayViewsProperties, SumTheorems

USE ViewsAssumption

-----------------------------------------------------------------------------
(* One step.                                                               *)

\* What is known of a commit when it is made.
Fits(e) ==
    /\ e \in Commits /\ e.captured <= e.at /\ e.at <= clock
    /\ e.previous <= Here /\ e.session <= Here + 1 /\ ~e.purged
    /\ e.type # "AUTO" => e.previous \in Latest
    /\ e.verdict = "ACCEPTED" /\ e.type # "AUTO" =>
          /\ e.reading.place \in Int
          /\ e.flagged = Implausible(e.reading.place, e.at, e.previous)
    /\ e.flagged => /\ e.type # "AUTO" /\ e.reading.place \in Int
                    /\ Implausible(e.reading.place, e.at, e.previous)
    /\ e.type = "IN" /\ e.session = Here + 1 => OpenAt(Here) = {}
    /\ e.session \in 1 .. Here => log[e.session].at <= e.at

Adds(e) == /\ log' = Append(log, e) /\ Here < MaxCommits
           /\ UNCHANGED <<clock, block, view, seen>>

Kept == /\ Len(log') = Len(log)
        /\ \A i \in 1 .. Here :
              log'[i] = [log[i] EXCEPT !.purged = @ \/ log[i].at < clock - Retention]
        /\ log' \in Seq(Commits)
        /\ UNCHANGED <<clock, block, view, seen>>

Reads == log' = log /\ clock' \in clock .. MaxClock

LEMMA Positions ==
  ASSUME TypeOK
  PROVE  /\ Here \in Nat /\ DOMAIN log = 1 .. Here
         /\ \A i \in 1 .. Here : log[i] \in Commits
         /\ clock \in Nat /\ clock <= MaxClock /\ Start <= clock
BY DEF TypeOK, Here

LEMMA CommitClocks ==
  ASSUME TypeOK
  PROVE  \A i \in 1 .. Here : log[i].at \in Nat /\ log[i].captured \in Nat
<1> SUFFICES ASSUME NEW i \in 1 .. Here PROVE log[i].at \in Nat /\ log[i].captured \in Nat
  OBVIOUS
<1>1. log[i].at \in Start .. MaxClock /\ log[i].captured \in Start .. MaxClock
  BY Positions DEF Commits
<1>2. Start \in Nat OBVIOUS
<1> QED BY <1>1, <1>2

LEMMA LatestType ==
  ASSUME TypeOK, NEW p \in Latest
  PROVE  p \in 0 .. Here
BY Positions DEF Latest

LEMMA LatestHolds ==
  ASSUME TypeOK, NEW p \in Latest, p # 0
  PROVE  /\ p \in 1 .. Here /\ HasPosition(log[p])
         /\ \A i \in 1 .. Here : HasPosition(log[i]) => log[i].at <= log[p].at
BY Positions DEF Latest

\* A punch that has a position has a last one.
LEMMA LatestExists ==
  ASSUME TypeOK, NEW i \in 1 .. Here, HasPosition(log[i])
  PROVE  0 \notin Latest
<1> DEFINE held == {j \in DOMAIN log : HasPosition(log[j])}
           ages == {MaxClock - log[j].at : j \in held}
<1>1. \A j \in 1 .. Here : log[j].at \in Start .. MaxClock BY Positions DEF Commits
<1>2. ages \in SUBSET Nat BY <1>1, Positions
<1>3. ages # {} BY Positions
<1>4. PICK a \in ages : \A b \in ages : a <= b BY <1>2, <1>3, Smallest
<1>5. PICK j \in held : a = MaxClock - log[j].at BY <1>4
<1>6. \A k \in held : log[k].at <= log[j].at
  <2>1. ASSUME NEW k \in held PROVE log[k].at <= log[j].at
    <3>1. MaxClock - log[j].at <= MaxClock - log[k].at BY <1>4, <1>5
    <3>2. /\ log[j].at \in Int /\ log[k].at \in Int
      BY <1>1, Positions
    <3> QED BY <3>1, <3>2
  <2> QED BY <2>1
<1>7. \A k \in held : k # 0 BY Positions
<1> QED BY <1>5, <1>6, <1>7 DEF Latest

-----------------------------------------------------------------------------
(* Every commit fits.                                                      *)

LEMMA ReadingType ==
  ASSUME NEW reading \in Readings
  PROVE  /\ reading \in AnyReading
         /\ reading.place # NoFix => reading.place \in Int
BY DEF AnyReading

LEMMA DivBound ==
  ASSUME NEW n \in Nat, NEW m \in Nat \ {0} PROVE n \div m \in 0 .. n
OBVIOUS

LEMMA PunchFits ==
  ASSUME TypeOK, NEW reading \in Readings, NEW t \in ClockValues,
         NEW captured \in Captures(t), NEW previous \in Latest,
         NEW type \in {"IN", "OUT"}, NEW verdict \in Verdicts,
         NEW flagged \in BOOLEAN, NEW s \in 0 .. Here + 1,
         Commit(type, verdict, t, captured, reading, flagged, previous, s),
         verdict = "ACCEPTED" => /\ reading.place \in Int
                                 /\ flagged = Implausible(reading.place, t, previous),
         flagged => reading.place \in Int /\ Implausible(reading.place, t, previous),
         (type = "IN" /\ s = Here + 1) => OpenAt(Here) = {},
         s \in 1 .. Here => log[s].at <= t
  PROVE  \E e : Fits(e) /\ Adds(e)
<1> DEFINE e == [type |-> type, verdict |-> verdict, at |-> t, captured |-> captured,
                 reading |-> reading, flagged |-> flagged, previous |-> previous,
                 session |-> s, purged |-> FALSE]
<1>1. t \in Start .. MaxClock /\ t <= clock BY Positions DEF ClockValues
<1>2. captured \in Start .. MaxClock /\ captured <= t BY <1>1 DEF Captures
<1>3. previous \in 0 .. MaxCommits /\ previous <= Here /\ Here < MaxCommits
  BY LatestType, Positions DEF Commit, Here
<1>4. s \in 0 .. MaxCommits BY <1>3, Positions
<1>5. e \in Commits BY <1>1, <1>2, <1>3, <1>4, ReadingType DEF Commits, Types
<1>6. Fits(e) BY <1>1, <1>2, <1>3, <1>5 DEF Fits
<1>7. Adds(e) BY <1>3 DEF Commit, Adds, Here
<1> QED BY <1>6, <1>7

LEMMA RejectFits ==
  ASSUME TypeOK, NEW reading \in Readings, NEW t \in ClockValues,
         NEW captured \in Captures(t), NEW previous \in Latest,
         NEW type \in {"IN", "OUT"}, RejectPunch(type, reading, t, captured, previous)
  PROVE  \E e : Fits(e) /\ Adds(e)
<1> DEFINE verdict == Verdict(reading, t, previous)
           flagged == verdict = "IMPOSSIBLE_MOVEMENT"
<1>1. verdict \in Verdicts /\ verdict # "ACCEPTED"
  BY DEF RejectPunch, Verdict, Verdicts
<1>2. flagged => reading.place \in Int /\ Implausible(reading.place, t, previous)
  BY ReadingType DEF Verdict
<1>3. Commit(type, verdict, t, captured, reading, flagged, previous, 0)
  BY DEF RejectPunch
<1>4. 0 \in 0 .. Here + 1 /\ 0 # Here + 1 /\ 0 \notin 1 .. Here BY Positions
<1>5. flagged \in BOOLEAN OBVIOUS
<1> HIDE DEF verdict, flagged
<1> QED BY <1>1, <1>2, <1>3, <1>4, <1>5, PunchFits

LEMMA AcceptedPlace ==
  ASSUME NEW reading \in Readings, NEW t, NEW previous,
         Verdict(reading, t, previous) = "ACCEPTED"
  PROVE  reading.place \in Int
BY ReadingType DEF Verdict

LEMMA InFits ==
  ASSUME TypeOK, NEW reading \in Readings, NEW t \in ClockValues,
         NEW captured \in Captures(t), NEW previous \in Latest,
         PunchIn(reading, t, captured, previous)
  PROVE  \E e : Fits(e) /\ Adds(e)
<1> DEFINE flagged == Implausible(reading.place, t, previous)
<1>1. reading.place \in Int BY AcceptedPlace DEF PunchIn
<1>2. flagged \in BOOLEAN BY DEF Implausible, TooFast
<1>3. Here + 1 \in 0 .. Here + 1 /\ Here + 1 \notin 1 .. Here BY Positions
<1>4. /\ Commit("IN", "ACCEPTED", t, captured, reading, flagged, previous, Here + 1)
      /\ OpenAt(Here) = {}
  BY DEF PunchIn
<1> HIDE DEF flagged
<1>5. "ACCEPTED" \in Verdicts BY DEF Verdicts
<1>6. flagged = Implausible(reading.place, t, previous) BY DEF flagged
<1> QED BY <1>1, <1>2, <1>3, <1>4, <1>5, <1>6, PunchFits

LEMMA SessionType ==
  ASSUME TypeOK, NEW i \in OpenAt(Here)
  PROVE  i \in 1 .. Here /\ log[i] \in Commits
BY Positions DEF OpenAt, Sessions

LEMMA OutFits ==
  ASSUME TypeOK, NEW reading \in Readings, NEW t \in ClockValues,
         NEW captured \in Captures(t), NEW previous \in Latest,
         PunchOut(reading, t, captured, previous)
  PROVE  \E e : Fits(e) /\ Adds(e)
<1> DEFINE flagged == Implausible(reading.place, t, previous)
<1>1. PICK i \in OpenAt(Here) :
        /\ Verdict(reading, t, previous) = "ACCEPTED"
        /\ t > log[i].at
        /\ Commit("OUT", "ACCEPTED", t, captured, reading, flagged, previous, i)
  BY DEF PunchOut
<1>2. reading.place \in Int BY <1>1, AcceptedPlace
<1>3. flagged \in BOOLEAN BY DEF Implausible, TooFast
<1>4. i \in 0 .. Here + 1 BY SessionType, Positions
<1> HIDE DEF flagged
<1>5. "ACCEPTED" \in Verdicts BY DEF Verdicts
<1>6. flagged = Implausible(reading.place, t, previous) BY DEF flagged
<1>7. log[i].at <= t BY <1>1, SessionType, Positions DEF Commits, ClockValues
<1> QED BY <1>1, <1>2, <1>3, <1>4, <1>5, <1>6, <1>7, PunchFits

LEMMA AutoFits ==
  ASSUME TypeOK, AutoClose
  PROVE  \E e : Fits(e) /\ Adds(e)
<1>1. PICK i \in OpenAt(Here) :
        /\ log[i].at < clock - AutoCloseAfter
        /\ Commit("AUTO", "ACCEPTED", AutoEnd(i), Start,
                  [place |-> NoFix, accuracy |-> 0], FALSE, 0, i)
  BY DEF AutoClose
<1> DEFINE e == [type |-> "AUTO", verdict |-> "ACCEPTED", at |-> AutoEnd(i),
                 captured |-> Start, reading |-> [place |-> NoFix, accuracy |-> 0],
                 flagged |-> FALSE, previous |-> 0, session |-> i, purged |-> FALSE]
<1>2. i \in 1 .. Here /\ log[i].at \in Start .. MaxClock BY SessionType DEF Commits
<1>3. AutoEnd(i) \in Start .. MaxClock /\ AutoEnd(i) <= clock /\ log[i].at <= AutoEnd(i)
  BY <1>1, <1>2, Positions DEF AutoEnd
<1>4. Here < MaxCommits BY <1>1 DEF Commit, Here
<1>5. [place |-> NoFix, accuracy |-> 0] \in AnyReading BY DEF AnyReading
<1>6. i \in 0 .. MaxCommits /\ 0 \in 0 .. MaxCommits /\ Start \in Start .. MaxClock
  BY <1>2, <1>4, Positions
<1>7. e \in Commits BY <1>3, <1>5, <1>6 DEF Commits, Types, Verdicts
<1>8. Fits(e) BY <1>2, <1>3, <1>7, Positions DEF Fits
<1>9. Adds(e) BY <1>1, <1>4 DEF Commit, Adds, Here
<1> QED BY <1>8, <1>9

LEMMA PurgeKeeps ==
  ASSUME TypeOK, PurgeLocations
  PROVE  Kept
<1>1. log' = [i \in 1 .. Here |->
                [log[i] EXCEPT !.purged = @ \/ log[i].at < clock - Retention]]
  BY Positions DEF PurgeLocations
<1>2. ASSUME NEW i \in 1 .. Here PROVE log'[i] \in Commits
  <2> DEFINE p == log[i].purged \/ log[i].at < clock - Retention
  <2>1. log[i] \in Commits BY Positions
  <2>2. log'[i] = [log[i] EXCEPT !.purged = p] BY <1>1
  <2>3. p \in BOOLEAN OBVIOUS
  <2> HIDE DEF p
  <2> QED BY <2>1, <2>2, <2>3 DEF Commits
<1>3. Here \in Nat BY Positions
<1>4. log' \in [1 .. Here -> Commits] BY <1>1, <1>2
<1>5. log' \in Seq(Commits) /\ Len(log') = Here BY <1>3, <1>4
<1> QED BY <1>1, <1>5 DEF Kept, PurgeLocations, Here

-----------------------------------------------------------------------------
(* The screens.                                                            *)

LEMMA PlanTypes ==
  ASSUME NEW kind \in {"today", "days", "presence"}
  PROVE  /\ Len(Plan(kind)) \in 0 .. 3
         /\ \A i \in 1 .. Len(Plan(kind)) : Plan(kind)[i] \in Statements
         /\ \A i, j \in 1 .. Len(Plan(kind)) : Plan(kind)[i] = Plan(kind)[j] => i = j
<1>1. CASE kind = "today"
  <2>1. Plan(kind) = <<"open", "row", "sessions">> BY <1>1 DEF Plan
  <2> QED BY <2>1 DEF Statements
<1>2. CASE kind = "days"
  <2>1. Plan(kind) = <<"row", "sessions">> BY <1>2 DEF Plan
  <2> QED BY <2>1 DEF Statements
<1>3. CASE kind = "presence"
  <2>1. Plan(kind) = <<"row", "sessions", "open">> BY <1>3 DEF Plan
  <2> QED BY <2>1 DEF Statements
<1> QED BY <1>1, <1>2, <1>3

\* The statements of a screen see ever more commits.
ViewOrder ==
    view.kind # "none" =>
      /\ view.stage <= Len(Plan(view.kind))
      /\ \A i, j \in 1 .. view.stage :
            i < j => seen[Plan(view.kind)[i]] <= seen[Plan(view.kind)[j]]

LEMMA ReadKeeps ==
  ASSUME TypeOK, ViewOrder, ReadNext
  PROVE  TypeOK' /\ ViewOrder'
<1> DEFINE plan == Plan(view.kind)
           k == view.stage + 1
<1>1. /\ view \in Views /\ view.kind # "none" /\ view.stage < Len(plan)
      /\ view' = [view EXCEPT !.stage = k]
      /\ seen' = [seen EXCEPT ![plan[k]] = Here]
      /\ UNCHANGED <<clock, block, log>>
      /\ seen \in [Statements -> 0 .. Here] /\ Here \in Nat
  BY Positions DEF TypeOK, ReadNext
<1>a. view.kind \in {"today", "days", "presence"} /\ view.stage \in 0 .. 3
  BY <1>1 DEF Views
<1>3. /\ Len(plan) \in 0 .. 3
      /\ \A i \in 1 .. Len(plan) : plan[i] \in Statements
      /\ \A i, j \in 1 .. Len(plan) : plan[i] = plan[j] => i = j
  BY <1>a, PlanTypes
<1>b. Plan(view.kind) = plan OBVIOUS
<1> HIDE DEF plan
<1>c. view.stage < Len(plan) BY <1>1
<1>2. k \in 1 .. Len(plan) /\ k \in 0 .. 3 /\ view.stage = k - 1 /\ k \in Nat
  BY <1>a, <1>c, <1>3 DEF k
<1> HIDE DEF k
<1>4. view' \in Views /\ view'.kind = view.kind /\ view'.stage = k
  BY <1>1, <1>2, <1>3 DEF Views
<1>5. seen' \in [Statements -> 0 .. Here] /\ Here' = Here
  BY <1>1, <1>2, <1>3 DEF Here
<1>6. TypeOK' BY <1>1, <1>4, <1>5 DEF TypeOK
<1>7. ASSUME NEW i \in 1 .. k, NEW j \in 1 .. k, i < j
      PROVE  seen'[plan[i]] <= seen'[plan[j]]
  <2>1. i \in 1 .. Len(plan) /\ j \in 1 .. Len(plan) /\ i \in 1 .. view.stage /\ i # k
    BY <1>2, <1>3, <1>7
  <2>2. plan[i] # plan[k] /\ seen'[plan[i]] = seen[plan[i]]
    BY <1>1, <1>2, <1>3, <1>7, <2>1
  <2>3. CASE j = k
    <3>1. seen'[plan[k]] = Here BY <1>1, <1>2, <1>3
    <3>2. seen[plan[i]] \in 0 .. Here BY <1>1, <1>3, <2>1
    <3>3. Here \in Nat BY Positions
    <3> QED BY <2>2, <2>3, <3>1, <3>2, <3>3
  <2>4. CASE j # k
    <3>a. j \in 1 .. view.stage /\ plan[j] # plan[k]
      BY <1>2, <1>3, <2>1, <2>4
    <3>1. j \in 1 .. view.stage /\ seen'[plan[j]] = seen[plan[j]]
      BY <1>1, <1>2, <1>3, <2>1, <3>a
    <3> QED BY <1>1, <1>7, <1>b, <2>1, <2>2, <3>1 DEF ViewOrder
  <2> QED BY <2>3, <2>4
<1>8. ViewOrder'
  <2>1. Plan(view.kind)' = plan BY <1>1, <1>4, <1>b DEF Plan
  <2> QED BY <1>2, <1>3, <1>4, <1>7, <2>1 DEF ViewOrder
<1> QED BY <1>6, <1>8

LEMMA PeriodTypes ==
  ASSUME TypeOK, NEW period \in Periods, NEW r \in Ranges(period, WorkDate(clock))
  PROVE  r[1] \in Nat /\ r[2] \in Nat
<1>1. WorkDate(clock) \in Nat BY Positions, DivBound DEF WorkDate
<1>2. WorkDate(Start) \in Nat /\ WorkDate(MaxClock) \in Nat BY DivBound DEF WorkDate
<1>3. \A n \in Nat : n - Weekday(n) \in Nat BY DEF Weekday
<1>4. WorkDates \subseteq Nat BY <1>2 DEF WorkDates
<1>5. CASE period = "today" BY <1>1, <1>5 DEF Ranges
<1>6. CASE period = "week" BY <1>1, <1>3, <1>6 DEF Ranges
<1>7. CASE period = "custom" BY <1>4, <1>7 DEF Ranges
<1> QED BY <1>5, <1>6, <1>7

LEMMA BeginKeeps ==
  ASSUME TypeOK, NEW kind \in {"today", "days", "presence"}, NEW from \in Nat,
         NEW to \in Nat, BeginView(kind, from, to)
  PROVE  TypeOK' /\ ViewOrder'
<1>1. /\ view' = [kind |-> kind, stage |-> 0, now |-> clock, from |-> from, to |-> to]
      /\ UNCHANGED <<clock, block, log, seen>>
  BY DEF BeginView, NoView
<1>2. view' \in Views /\ view'.stage = 0 /\ view'.kind = kind
  BY <1>1, Positions DEF Views
<1>3. TypeOK' BY <1>1, <1>2 DEF TypeOK, Here
<1>4. Len(Plan(kind)) >= 0 BY PlanTypes
<1>5. ViewOrder' BY <1>2, <1>4 DEF ViewOrder, Plan
<1> QED BY <1>3, <1>5

-----------------------------------------------------------------------------
(* Types.                                                                  *)

LEMMA AddTypes ==
  ASSUME TypeOK, NEW e, Fits(e), Adds(e)
  PROVE  /\ TypeOK' /\ Here' = Here + 1 /\ log'[Here + 1] = e
         /\ DOMAIN log' = 1 .. Here + 1
         /\ \A i \in 1 .. Here : log'[i] = log[i]
<1>1. e \in Commits /\ Here \in Nat /\ log \in Seq(Commits)
  BY Positions DEF Fits, TypeOK
<1>2. /\ log' \in Seq(Commits) /\ Len(log') = Here + 1 /\ log'[Here + 1] = e
      /\ \A i \in 1 .. Here : log'[i] = log[i]
      /\ DOMAIN log' = 1 .. Here + 1
  BY <1>1 DEF Adds, Here
<1>3. \A j \in 1 .. Here + 1 : /\ log'[j].captured <= log'[j].at /\ log'[j].at <= clock
                               /\ log'[j].previous < j /\ log'[j].session <= j
  <2>1. \A j \in 1 .. Here : /\ log[j].captured <= log[j].at /\ log[j].at <= clock
                             /\ log[j].previous < j /\ log[j].session <= j
    BY Positions DEF TypeOK
  <2>2. /\ e.captured <= e.at /\ e.at <= clock
        /\ e.previous < Here + 1 /\ e.session <= Here + 1
    BY <1>1 DEF Fits, Commits
  <2> QED BY <1>1, <1>2, <2>1, <2>2
<1>4. seen' \in [Statements -> 0 .. Here + 1]
  BY <1>1 DEF Adds, TypeOK
<1> QED BY <1>1, <1>2, <1>3, <1>4 DEF TypeOK, Adds, Here

LEMMA KeptTypes ==
  ASSUME TypeOK, Kept
  PROVE  /\ TypeOK' /\ Here' = Here /\ DOMAIN log' = 1 .. Here
         /\ \A i \in 1 .. Here :
               /\ log'[i].type = log[i].type /\ log'[i].verdict = log[i].verdict
               /\ log'[i].at = log[i].at /\ log'[i].captured = log[i].captured
               /\ log'[i].reading = log[i].reading /\ log'[i].flagged = log[i].flagged
               /\ log'[i].previous = log[i].previous /\ log'[i].session = log[i].session
               /\ log[i].purged => log'[i].purged
<1>1. Here' = Here /\ DOMAIN log' = 1 .. Here /\ Here \in Nat
  BY Positions DEF Kept, Here
<1>2. \A i \in 1 .. Here :
               /\ log'[i].type = log[i].type /\ log'[i].verdict = log[i].verdict
               /\ log'[i].at = log[i].at /\ log'[i].captured = log[i].captured
               /\ log'[i].reading = log[i].reading /\ log'[i].flagged = log[i].flagged
               /\ log'[i].previous = log[i].previous /\ log'[i].session = log[i].session
               /\ log[i].purged => log'[i].purged
  <2> TAKE i \in 1 .. Here
  <2>1. log'[i] = [log[i] EXCEPT !.purged = log[i].purged \/ log[i].at < clock - Retention]
    BY DEF Kept
  <2>2. log[i] \in Commits BY Positions
  <2>3. log'[i].purged = (log[i].purged \/ log[i].at < clock - Retention)
    BY <2>1, <2>2 DEF Commits
  <2>4. /\ log'[i].type = log[i].type /\ log'[i].verdict = log[i].verdict
        /\ log'[i].at = log[i].at /\ log'[i].captured = log[i].captured
        /\ log'[i].reading = log[i].reading /\ log'[i].flagged = log[i].flagged
        /\ log'[i].previous = log[i].previous /\ log'[i].session = log[i].session
    BY <2>1, <2>2 DEF Commits
  <2> QED BY <2>3, <2>4
<1>3. TypeOK'
  <2>1. \A j \in 1 .. Here : /\ log'[j].captured <= log'[j].at /\ log'[j].at <= clock
                             /\ log'[j].previous < j /\ log'[j].session <= j
    BY <1>2, Positions DEF TypeOK
  <2> QED BY <1>1, <2>1 DEF TypeOK, Kept
<1> QED BY <1>1, <1>2, <1>3

\* What a step does to the log: a commit that fits, a purge, or nothing.
LEMMA StepCases ==
  ASSUME TypeOK, ViewOrder, [Next]_vars
  PROVE  \/ \E e : Fits(e) /\ Adds(e)
         \/ Kept
         \/ log' = log /\ TypeOK' /\ ViewOrder'
<1>1. ASSUME NEW reading \in Readings, NEW t \in ClockValues, NEW previous \in Latest,
             NEW captured \in Captures(t),
             \/ PunchIn(reading, t, captured, previous)
             \/ PunchOut(reading, t, captured, previous)
             \/ \E type \in {"IN", "OUT"} :
                   RejectPunch(type, reading, t, captured, previous)
      PROVE  \E e : Fits(e) /\ Adds(e)
  BY <1>1, InFits, OutFits, RejectFits
<1>2. CASE AutoClose BY <1>2, AutoFits
<1>3. CASE PurgeLocations BY <1>3, PurgeKeeps
<1>4. CASE Tick
  <2>1. /\ clock' = clock + 1 /\ clock < MaxClock /\ UNCHANGED <<block, log, view, seen>>
    BY <1>4 DEF Tick
  <2>2. TypeOK'
    <3>1. \A j \in DOMAIN log : log[j].at <= clock'
      <4>1. \A j \in DOMAIN log : log[j].at <= clock BY DEF TypeOK
      <4>2. \A j \in DOMAIN log : log[j].at \in Start .. MaxClock
        BY Positions DEF Commits
      <4> QED BY <2>1, <4>1, <4>2, Positions
    <3> QED BY <2>1, <3>1, Positions DEF TypeOK, Here
  <2>3. ViewOrder' BY <2>1 DEF ViewOrder, Plan
  <2> QED BY <2>1, <2>2, <2>3
<1>5. CASE AskToday \/ AskPresence
  <2>1. PICK kind \in {"today", "presence"} : BeginView(kind, 0, 0)
    BY <1>5 DEF AskToday, AskPresence
  <2> QED BY <2>1, BeginKeeps DEF BeginView
<1>6. ASSUME NEW period \in Periods, NEW r \in Ranges(period, WorkDate(clock)),
             BeginView("days", r[1], r[2])
      PROVE  log' = log /\ TypeOK' /\ ViewOrder'
  <2>1. r[1] \in Nat /\ r[2] \in Nat BY PeriodTypes
  <2> QED BY <1>6, <2>1, BeginKeeps DEF BeginView
<1>7. CASE ReadNext BY <1>7, ReadKeeps DEF ReadNext
<1>8. CASE UNCHANGED vars BY <1>8 DEF vars, TypeOK, ViewOrder, Plan, Here
<1> QED BY <1>1, <1>2, <1>3, <1>4, <1>5, <1>6, <1>7, <1>8 DEF Next, AskDays

LEMMA TypesKept ==
  ASSUME TypeOK, ViewOrder, [Next]_vars
  PROVE  TypeOK' /\ ViewOrder'
<1>1. ASSUME NEW e, Fits(e), Adds(e) PROVE TypeOK' /\ ViewOrder'
  <2>1. TypeOK' BY <1>1, AddTypes
  <2> QED BY <1>1, <2>1 DEF Adds, ViewOrder, Plan
<1>2. CASE Kept
  <2>1. TypeOK' BY <1>2, KeptTypes
  <2> QED BY <1>2, <2>1 DEF Kept, ViewOrder, Plan
<1> QED BY <1>1, <1>2, StepCases

LEMMA TypesInit ==
  ASSUME Init PROVE TypeOK /\ ViewOrder
<1>1. log = <<>> /\ Here = 0 /\ DOMAIN log = {} /\ log \in Seq(Commits)
  BY DEF Init, Here
<1>2. view \in Views /\ view.kind = "none" /\ seen \in [Statements -> 0 .. 0]
  BY DEF Init, NoView, Views
<1> QED BY <1>1, <1>2 DEF TypeOK, ViewOrder, Init

\* Nothing ends after the present and no commit refers to a later one, for every
\* workspace and number of commits (TypeOK).
THEOREM ViewTypes == Spec => []TypeOK
<1>1. Init => TypeOK /\ ViewOrder BY TypesInit
<1>2. (TypeOK /\ ViewOrder) /\ [Next]_vars => (TypeOK /\ ViewOrder)' BY TypesKept
<1> QED BY <1>1, <1>2, PTL DEF Spec

-----------------------------------------------------------------------------
(* The geofence.                                                           *)

PlacesKnown ==
    \A i \in 1 .. Here :
        log[i].verdict = "ACCEPTED" /\ log[i].type # "AUTO" => log[i].reading.place \in Int

\* A flag stands for too much way between two clock values.
FlagsEarned ==
    \A j \in 1 .. Here :
        log[j].flagged =>
          /\ log[j].previous \in 1 .. j - 1
          /\ log[j].reading.place \in Int /\ log[log[j].previous].reading.place \in Int
          /\ TooFast(Distance(log[log[j].previous].reading.place, log[j].reading.place),
                     log[j].at - log[log[j].previous].at)

FlagInv == PlacesKnown /\ FlagsEarned /\ TeleportIsFlagged

LEMMA PlacesAdded ==
  ASSUME TypeOK, PlacesKnown, NEW e, Fits(e), Adds(e)
  PROVE  PlacesKnown'
BY AddTypes, Positions DEF PlacesKnown, Fits

LEMMA FlagsAdded ==
  ASSUME TypeOK, PlacesKnown, FlagsEarned, NEW e, Fits(e), Adds(e)
  PROVE  FlagsEarned'
<1>1. /\ Here' = Here + 1 /\ log'[Here + 1] = e /\ Here \in Nat
      /\ \A i \in 1 .. Here : log'[i] = log[i]
  BY AddTypes, Positions
<1>2. ASSUME NEW j \in 1 .. Here, log'[j].flagged
      PROVE  /\ log'[j].previous \in 1 .. j - 1
             /\ log'[j].reading.place \in Int /\ log'[log'[j].previous].reading.place \in Int
             /\ TooFast(Distance(log'[log'[j].previous].reading.place, log'[j].reading.place),
                        log'[j].at - log'[log'[j].previous].at)
  <2>1. log'[j] = log[j] /\ log[j].previous \in 1 .. j - 1 BY <1>1, <1>2 DEF FlagsEarned
  <2>2. log'[log[j].previous] = log[log[j].previous] BY <1>1, <2>1
  <2> QED BY <1>2, <2>1, <2>2 DEF FlagsEarned
<1>3. ASSUME e.flagged
      PROVE  /\ e.previous \in 1 .. Here
             /\ e.reading.place \in Int /\ log'[e.previous].reading.place \in Int
             /\ TooFast(Distance(log'[e.previous].reading.place, e.reading.place),
                        e.at - log'[e.previous].at)
  <2>1. /\ e.type # "AUTO" /\ e.reading.place \in Int /\ e.previous \in Latest
        /\ e.previous # 0
        /\ TooFast(Distance(log[e.previous].reading.place, e.reading.place),
                   e.at - log[e.previous].at)
    BY <1>3 DEF Fits, Implausible
  <2>2. e.previous \in 1 .. Here /\ HasPosition(log[e.previous]) BY <2>1, LatestHolds
  <2>3. log[e.previous].reading.place \in Int BY <2>2 DEF HasPosition, PlacesKnown
  <2> QED BY <1>1, <2>1, <2>2, <2>3
<1>4. ASSUME NEW j \in 1 .. Here + 1, log'[j].flagged
      PROVE  /\ log'[j].previous \in 1 .. j - 1
             /\ log'[j].reading.place \in Int /\ log'[log'[j].previous].reading.place \in Int
             /\ TooFast(Distance(log'[log'[j].previous].reading.place, log'[j].reading.place),
                        log'[j].at - log'[log'[j].previous].at)
  <2>1. CASE j = Here + 1 BY <1>1, <1>3, <1>4, <2>1
  <2>2. CASE j # Here + 1
    <3>1. j \in 1 .. Here BY <1>1, <2>2
    <3> QED BY <1>2, <1>4, <3>1
  <2> QED BY <2>1, <2>2
<1> QED BY <1>1, <1>4 DEF FlagsEarned

\* The punch before this one is either compared with it, or hidden by another.
LEMMA TeleportsAdded ==
  ASSUME TypeOK, PlacesKnown, TeleportIsFlagged, NEW e, Fits(e), Adds(e)
  PROVE  TeleportIsFlagged'
<1>1. /\ Here' = Here + 1 /\ log'[Here + 1] = e /\ Here \in Nat
      /\ DOMAIN log = 1 .. Here /\ DOMAIN log' = 1 .. Here + 1
      /\ \A i \in 1 .. Here : log'[i] = log[i]
  BY AddTypes, Positions
<1> SUFFICES ASSUME NEW i \in 1 .. Here + 1, NEW j \in 1 .. Here + 1,
                    FollowingAccepted(i, j)', log'[i].at <= log'[j].at,
                    TooFast(Distance(log'[i].reading.place, log'[j].reading.place),
                            log'[j].at - log'[i].at),
                    ~log'[j].flagged, ~log'[i].purged
             PROVE  \E k \in 1 .. i - 1 : /\ log'[k].verdict = "ACCEPTED"
                                          /\ log'[k].type # "AUTO"
                                          /\ log'[k].at >= log'[i].at
  BY <1>1 DEF TeleportIsFlagged
<1>2. /\ i < j /\ i \in 1 .. Here /\ log'[i] = log[i]
      /\ log'[i].type # "AUTO" /\ log'[j].type # "AUTO"
      /\ log'[i].verdict = "ACCEPTED" /\ log'[j].verdict = "ACCEPTED"
      /\ \A k \in i + 1 .. j - 1 : log'[k].type = "AUTO" \/ log'[k].verdict # "ACCEPTED"
  BY <1>1 DEF FollowingAccepted
<1>3. CASE j # Here + 1
  <2>1. j \in 1 .. Here /\ log'[j] = log[j] BY <1>1, <1>3
  <2>2. FollowingAccepted(i, j) BY <1>1, <1>2, <2>1 DEF FollowingAccepted
  <2>3. \E k \in 1 .. i - 1 : /\ log[k].verdict = "ACCEPTED" /\ log[k].type # "AUTO"
                              /\ log[k].at >= log[i].at
    BY <1>1, <1>2, <2>1, <2>2 DEF TeleportIsFlagged
  <2> QED BY <1>1, <1>2, <2>3
<1>4. CASE j = Here + 1
  <2>1. /\ e.type # "AUTO" /\ e.verdict = "ACCEPTED" /\ e.previous \in Latest
        /\ e.flagged = Implausible(e.reading.place, e.at, e.previous)
    BY <1>1, <1>2, <1>4 DEF Fits
  <2>2. HasPosition(log[i]) BY <1>2 DEF HasPosition
  <2>3. e.previous # 0 BY <1>2, <2>1, <2>2, LatestExists
  <2>4. /\ e.previous \in 1 .. Here /\ HasPosition(log[e.previous])
        /\ log[i].at <= log[e.previous].at
    BY <1>2, <2>1, <2>2, <2>3, LatestHolds
  <2>5. e.previous # i
    <3>1. ~Implausible(e.reading.place, e.at, e.previous) BY <1>1, <1>4, <2>1
    <3> QED BY <1>1, <1>2, <1>4, <2>3, <3>1 DEF Implausible
  <2>6. ~(e.previous \in i + 1 .. j - 1) BY <1>1, <1>2, <2>4 DEF HasPosition
  <2>7. e.previous \in 1 .. i - 1 BY <1>1, <1>2, <1>4, <2>4, <2>5, <2>6
  <2>8. log[i].at \in Nat /\ log[e.previous].at \in Nat
    BY <1>2, <2>4, CommitClocks
  <2> QED BY <1>1, <1>2, <2>4, <2>7, <2>8 DEF HasPosition
<1> QED BY <1>3, <1>4

LEMMA FlagsKept ==
  ASSUME TypeOK, FlagInv, Kept
  PROVE  FlagInv'
<1>1. /\ Here' = Here /\ Here \in Nat
      /\ DOMAIN log = 1 .. Here /\ DOMAIN log' = 1 .. Here
      /\ \A i \in 1 .. Here :
            /\ log'[i].type = log[i].type /\ log'[i].verdict = log[i].verdict
            /\ log'[i].at = log[i].at /\ log'[i].reading = log[i].reading
            /\ log'[i].flagged = log[i].flagged /\ log'[i].previous = log[i].previous
            /\ log[i].purged => log'[i].purged
  BY KeptTypes, Positions
<1>2. PlacesKnown' BY <1>1 DEF FlagInv, PlacesKnown
<1>3. FlagsEarned'
  <2>1. ASSUME NEW j \in 1 .. Here, log[j].flagged
        PROVE  log[j].previous \in 1 .. Here
    BY <1>1, <2>1 DEF FlagInv, FlagsEarned
  <2> QED BY <1>1, <2>1 DEF FlagInv, FlagsEarned
<1>4. TeleportIsFlagged'
  <2> SUFFICES ASSUME NEW i \in 1 .. Here, NEW j \in 1 .. Here,
                      FollowingAccepted(i, j)', log'[i].at <= log'[j].at,
                      TooFast(Distance(log'[i].reading.place, log'[j].reading.place),
                              log'[j].at - log'[i].at),
                      ~log'[j].flagged, ~log'[i].purged
               PROVE  \E k \in 1 .. i - 1 : /\ log'[k].verdict = "ACCEPTED"
                                            /\ log'[k].type # "AUTO"
                                            /\ log'[k].at >= log'[i].at
    BY <1>1 DEF TeleportIsFlagged
  <2>1. FollowingAccepted(i, j) BY <1>1 DEF FollowingAccepted
  <2>2. ~log[j].flagged /\ ~log[i].purged BY <1>1
  <2>3. \E k \in 1 .. i - 1 : /\ log[k].verdict = "ACCEPTED" /\ log[k].type # "AUTO"
                              /\ log[k].at >= log[i].at
    BY <1>1, <2>1, <2>2 DEF FlagInv, TeleportIsFlagged
  <2> QED BY <1>1, <2>3
<1> QED BY <1>2, <1>3, <1>4 DEF FlagInv

LEMMA FlagInvariant ==
  Spec => [](TypeOK /\ ViewOrder /\ FlagInv)
<1> DEFINE Inv == TypeOK /\ ViewOrder /\ FlagInv
<1>1. Init => Inv
  <2> SUFFICES ASSUME Init PROVE Inv OBVIOUS
  <2>1. Here = 0 /\ DOMAIN log = {} BY DEF Init, Here
  <2>2. FlagInv BY <2>1 DEF FlagInv, PlacesKnown, FlagsEarned, TeleportIsFlagged
  <2> QED BY <2>2, TypesInit
<1>2. Inv /\ [Next]_vars => Inv'
  <2> SUFFICES ASSUME Inv, [Next]_vars PROVE Inv' OBVIOUS
  <2>1. TypeOK' /\ ViewOrder' BY TypesKept
  <2>2. ASSUME NEW e, Fits(e), Adds(e) PROVE FlagInv'
    BY <2>2, PlacesAdded, FlagsAdded, TeleportsAdded DEF FlagInv
  <2>3. CASE Kept BY <2>1, <2>3, FlagsKept
  <2>4. CASE log' = log
    BY <2>1, <2>4 DEF FlagInv, PlacesKnown, FlagsEarned, TeleportIsFlagged, FollowingAccepted, Here
  <2> QED BY <2>1, <2>2, <2>3, <2>4, StepCases
<1> QED BY <1>1, <1>2, PTL DEF Spec

\* A jump between two punches in order is flagged or blocked, whatever the speed
\* limit (TeleportIsFlagged).
THEOREM TeleportIsFlaggedHolds == Spec => []TeleportIsFlagged
<1>1. FlagInv => TeleportIsFlagged BY DEF FlagInv
<1> QED BY <1>1, FlagInvariant, PTL

LEMMA Faster ==
  ASSUME NEW m \in Nat, NEW a \in Nat, NEW b \in Nat, a <= b
  PROVE  m * a <= m * b
<1>1. PICK d \in Nat : b = a + d
  <2>1. b - a \in Nat /\ b = a + (b - a) OBVIOUS
  <2> QED BY <2>1
<1>2. m * b = m * a + m * d BY <1>1
<1>3. m * d \in Nat /\ m * a \in Nat OBVIOUS
<1> QED BY <1>2, <1>3

LEMMA DistanceType ==
  ASSUME NEW p \in Int, NEW q \in Int
  PROVE  Distance(p, q) \in Nat
BY DEF Distance

\* Who keeps within the speed limit is flagged only by clock values that do not
\* follow the fixes (HonestNotFlagged).
THEOREM HonestNotFlaggedHolds == Spec => []HonestNotFlagged
<1>1. TypeOK /\ FlagInv => HonestNotFlagged
  <2> SUFFICES ASSUME TypeOK, FlagsEarned, NEW j \in 1 .. Here, log[j].flagged,
                      CanMove(log[j].previous, j),
                      LET i == log[j].previous
                      IN  /\ ~(log[i].at - log[i].captured > log[j].at - log[j].captured)
                          /\ ~(log[j].captured < log[i].captured)
               PROVE  FALSE
    BY Positions DEF FlagInv, HonestNotFlagged
  <2> DEFINE i == log[j].previous
             way == Distance(log[i].reading.place, log[j].reading.place)
             fixes == log[j].captured - log[i].captured
             clocks == log[j].at - log[i].at
  <2>1. /\ i \in 1 .. Here /\ log[i].reading.place \in Int /\ log[j].reading.place \in Int
        /\ TooFast(way, clocks)
    BY Positions DEF FlagsEarned
  <2>2. /\ log[i].at \in Nat /\ log[j].at \in Nat
        /\ log[i].captured \in Nat /\ log[j].captured \in Nat
    BY <2>1, CommitClocks
  <2>3. way \in Nat BY <2>1, DistanceType
  <2>4. fixes \in Nat /\ clocks \in Nat /\ fixes <= clocks BY <2>2
  <2>5. Distance(log[i].captured, log[j].captured) = fixes BY <2>2 DEF Distance
  <2>6. way <= MaxSpeed * fixes BY <2>5 DEF CanMove
  <2> HIDE DEF way, fixes, clocks
  <2>7. MaxSpeed * fixes <= MaxSpeed * clocks BY <2>4, Faster
  <2>8. MaxSpeed * fixes \in Nat /\ MaxSpeed * clocks \in Nat BY <2>4
  <2>9. CASE clocks = 0
    <3>1. MaxSpeed * clocks = 0 BY <2>9
    <3> QED BY <2>1, <2>3, <2>6, <2>7, <2>8, <3>1 DEF TooFast
  <2>10. CASE clocks # 0
    BY <2>1, <2>3, <2>4, <2>6, <2>7, <2>8, <2>10 DEF TooFast
  <2> QED BY <2>9, <2>10
<1> QED BY <1>1, FlagInvariant, PTL

-----------------------------------------------------------------------------
(* Screens of one moment.                                                  *)

\* A session begins only when no session is open.
Alternates ==
    \A k \in 1 .. Here : log[k].type = "IN" /\ log[k].session = k => OpenAt(k - 1) = {}

LEMMA PrefixKept ==
  ASSUME NEW n \in Nat,
         \A i \in 1 .. n : log'[i].type = log[i].type /\ log'[i].session = log[i].session
  PROVE  OpenAt(n)' = OpenAt(n)
<1>1. Sessions(n)' = Sessions(n) BY DEF Sessions
<1>2. \A i \in Sessions(n) : Ends(i, n)' = Ends(i, n) BY DEF Sessions, Ends
<1>3. \A i \in Sessions(n) : (Ends(i, n) = {})' <=> Ends(i, n) = {} BY <1>2
<1> QED BY <1>1, <1>3 DEF OpenAt

LEMMA AlternatesKept ==
  ASSUME TypeOK, ViewOrder, Alternates, [Next]_vars
  PROVE  Alternates'
<1>0. Here \in Nat BY Positions
<1>1. ASSUME NEW e, Fits(e), Adds(e) PROVE Alternates'
  <2>1. /\ Here' = Here + 1 /\ log'[Here + 1] = e
        /\ \A i \in 1 .. Here : log'[i] = log[i]
    BY <1>1, AddTypes
  <2>2. \A n \in 0 .. Here : OpenAt(n)' = OpenAt(n) BY <1>0, <2>1, PrefixKept
  <2>3. ASSUME NEW k \in 1 .. Here + 1, log'[k].type = "IN", log'[k].session = k
        PROVE  OpenAt(k - 1) = {}
    <3>1. CASE k = Here + 1
      <4>1. k - 1 = Here BY <1>0, <3>1
      <4>2. OpenAt(Here) = {} BY <1>1, <2>1, <2>3, <3>1 DEF Fits
      <4> QED BY <4>1, <4>2
    <3>2. CASE k # Here + 1
      <4>1. k \in 1 .. Here /\ log'[k] = log[k] BY <1>0, <2>1, <3>2
      <4> QED BY <2>3, <4>1 DEF Alternates
    <3> QED BY <3>1, <3>2
  <2>4. \A k \in 1 .. Here + 1 : k - 1 \in 0 .. Here BY <1>0
  <2>5. \A k \in 1 .. Here + 1 :
          log'[k].type = "IN" /\ log'[k].session = k => OpenAt(k - 1)' = {}
    BY <2>2, <2>3, <2>4
  <2> QED BY <2>1, <2>5 DEF Alternates
<1>2. CASE Kept
  <2>1. /\ Here' = Here
        /\ \A i \in 1 .. Here : log'[i].type = log[i].type /\ log'[i].session = log[i].session
    BY <1>2, KeptTypes
  <2>2. \A n \in 0 .. Here : OpenAt(n)' = OpenAt(n) BY <1>0, <2>1, PrefixKept
  <2>3. \A k \in 1 .. Here : k - 1 \in 0 .. Here BY <1>0
  <2>4. \A k \in 1 .. Here :
          log'[k].type = "IN" /\ log'[k].session = k => OpenAt(k - 1)' = {}
    BY <2>1, <2>2, <2>3 DEF Alternates
  <2> QED BY <2>1, <2>4 DEF Alternates
<1>3. CASE log' = log
  BY <1>3 DEF Alternates, OpenAt, Sessions, Ends, Here
<1> QED BY <1>1, <1>2, <1>3, StepCases

LEMMA AlternatesInvariant == Spec => [](TypeOK /\ ViewOrder /\ Alternates)
<1> DEFINE Inv == TypeOK /\ ViewOrder /\ Alternates
<1>1. Init => Inv
  <2> SUFFICES ASSUME Init PROVE Inv OBVIOUS
  <2>1. Here = 0 BY DEF Init, Here
  <2> QED BY <2>1, TypesInit DEF Alternates
<1>2. Inv /\ [Next]_vars => Inv' BY TypesKept, AlternatesKept
<1> QED BY <1>1, <1>2, PTL DEF Spec

LEMMA TrueStateIs ==
  ASSUME NEW n, NEW now
  PROVE  TrueState(n, now) = IF OpenAt(n) # {} THEN "PRESENT"
                             ELSE IF HasRow(WorkDate(now), n) THEN "CHECKED_OUT"
                             ELSE "ABSENT"
BY DEF TrueState, OpenAt, HasRow, Of

\* Rows stay, and a row that is there later but not before was begun in between,
\* when nobody was in.
LEMMA RowBegins ==
  ASSUME TypeOK, Alternates, NEW d, NEW w \in 0 .. Here, NEW o \in w .. Here,
         ~HasRow(d, w), HasRow(d, o)
  PROVE  \E n \in w .. o : OpenAt(n) = {} /\ ~HasRow(d, n)
<1>0. Here \in Nat /\ w \in Nat /\ o \in Nat BY Positions
<1>1. Of(d, o) \in SUBSET Nat /\ Of(d, o) # {} BY <1>0 DEF HasRow, Of, Sessions
<1>2. PICK k \in Of(d, o) : \A i \in Of(d, o) : k <= i BY <1>1, Smallest
<1>3. /\ k \in 1 .. o /\ log[k].type = "IN" /\ log[k].session = k
      /\ WorkDate(log[k].at) = d
  BY <1>2 DEF Of, Sessions
<1>4. k > w
  <2> SUFFICES ASSUME k <= w PROVE FALSE BY <1>0, <1>3
  <2>1. k \in Of(d, w) BY <1>0, <1>3 DEF Of, Sessions
  <2> QED BY <2>1 DEF HasRow
<1>5. k - 1 \in w .. o /\ k \in 1 .. Here BY <1>0, <1>3, <1>4
<1>6. OpenAt(k - 1) = {} BY <1>3, <1>5 DEF Alternates
<1>7. ~HasRow(d, k - 1)
  <2> SUFFICES ASSUME NEW i \in Of(d, k - 1) PROVE FALSE BY DEF HasRow
  <2>1. i \in 1 .. k - 1 /\ i \in Of(d, o) BY <1>0, <1>3 DEF Of, Sessions
  <2> QED BY <1>0, <1>2, <1>3, <2>1
<1> QED BY <1>5, <1>6, <1>7

LEMMA PlanOrder ==
  ASSUME TypeOK, ViewOrder
  PROVE  /\ Answered("presence") => /\ seen["row"] \in 0 .. Here
                                    /\ seen["open"] \in seen["row"] .. Here
         /\ Answered("today") => /\ seen["open"] \in 0 .. Here
                                 /\ seen["row"] \in seen["open"] .. Here
         /\ Answered("days") => /\ seen["row"] \in 0 .. Here
                                /\ seen["sessions"] \in seen["row"] .. Here
<1>0. seen \in [Statements -> 0 .. Here] /\ Here \in Nat BY Positions DEF TypeOK
<1>1. /\ seen["row"] \in 0 .. Here /\ seen["open"] \in 0 .. Here
      /\ seen["sessions"] \in 0 .. Here
  BY <1>0 DEF Statements
<1>2. ASSUME Answered("presence") PROVE seen["row"] <= seen["open"]
  <2>1. Plan("presence") = <<"row", "sessions", "open">> BY DEF Plan
  <2>2. view.kind = "presence" /\ view.stage = 3 BY <1>2, <2>1 DEF Answered
  <2>3. seen[Plan("presence")[1]] <= seen[Plan("presence")[3]]
    BY <2>2 DEF ViewOrder
  <2> QED BY <2>1, <2>3
<1>3. ASSUME Answered("today") PROVE seen["open"] <= seen["row"]
  <2>1. Plan("today") = <<"open", "row", "sessions">> BY DEF Plan
  <2>2. view.kind = "today" /\ view.stage = 3 BY <1>3, <2>1 DEF Answered
  <2>3. seen[Plan("today")[1]] <= seen[Plan("today")[2]]
    BY <2>2 DEF ViewOrder
  <2> QED BY <2>1, <2>3
<1>4. ASSUME Answered("days") PROVE seen["row"] <= seen["sessions"]
  <2>1. Plan("days") = <<"row", "sessions">> BY DEF Plan
  <2>2. view.kind = "days" /\ view.stage = 2 BY <1>4, <2>1 DEF Answered
  <2>3. seen[Plan("days")[1]] <= seen[Plan("days")[2]]
    BY <2>2 DEF ViewOrder
  <2> QED BY <2>1, <2>3
<1> QED BY <1>0, <1>1, <1>2, <1>3, <1>4

\* Every person is in a list of presence that was theirs at some moment of the
\* request (PresenceIsOfOneMoment).
THEOREM PresenceIsOfOneMomentHolds == Spec => []PresenceIsOfOneMoment
<1>1. TypeOK /\ ViewOrder /\ Alternates => PresenceIsOfOneMoment
  <2> SUFFICES ASSUME TypeOK, ViewOrder, Alternates, Answered("presence")
               PROVE  \E n \in seen["row"] .. seen["open"] :
                        PresenceState(seen["row"], seen["open"], view.now)
                          = TrueState(n, view.now)
    BY DEF PresenceIsOfOneMoment
  <2> DEFINE w == seen["row"]
             o == seen["open"]
             d == WorkDate(view.now)
  <2>1. w \in 0 .. Here /\ o \in w .. Here /\ Here \in Nat BY PlanOrder, Positions
  <2>2. o \in w .. o /\ w \in w .. o BY <2>1
  <2> HIDE DEF w, o
  <2>3. HasRow(d, w) => HasRow(d, o) BY <2>1 DEF HasRow, Of, Sessions
  <2>4. CASE OpenAt(o) # {} \/ HasRow(d, w) \/ ~HasRow(d, o)
    BY <2>2, <2>3, <2>4, TrueStateIs DEF PresenceState, w, o
  <2>5. CASE OpenAt(o) = {} /\ ~HasRow(d, w) /\ HasRow(d, o)
    <3>1. PICK n \in w .. o : OpenAt(n) = {} /\ ~HasRow(d, n)
      BY <2>1, <2>5, RowBegins
    <3>2. TrueState(n, view.now) = "ABSENT" BY <3>1, TrueStateIs
    <3>3. PresenceState(w, o, view.now) = "ABSENT" BY <2>5 DEF PresenceState
    <3> QED BY <3>1, <3>2, <3>3 DEF w, o
  <2> QED BY <2>4, <2>5
<1> QED BY <1>1, AlternatesInvariant, PTL

\* The state that today_state shows was the person's at some moment of the request
\* (TodayStateIsOfOneMoment).
THEOREM TodayStateIsOfOneMomentHolds == Spec => []TodayStateIsOfOneMoment
<1>1. TypeOK /\ ViewOrder /\ Alternates => TodayStateIsOfOneMoment
  <2> SUFFICES ASSUME TypeOK, ViewOrder, Alternates, Answered("today")
               PROVE  \E n \in seen["open"] .. seen["row"] :
                        TodayState(seen["open"], seen["row"], view.now)
                          = TrueState(n, view.now)
    BY DEF TodayStateIsOfOneMoment
  <2> DEFINE o == seen["open"]
             w == seen["row"]
             d == WorkDate(view.now)
  <2>1. o \in 0 .. Here /\ w \in o .. Here /\ Here \in Nat BY PlanOrder, Positions
  <2>2. o \in o .. w /\ w \in o .. w BY <2>1
  <2> HIDE DEF w, o
  <2>3. CASE OpenAt(o) # {} BY <2>2, <2>3, TrueStateIs DEF TodayState, w, o
  <2>4. CASE OpenAt(o) = {} /\ Of(d, w) = {}
    <3>1. ~HasRow(d, o) BY <2>1, <2>4 DEF HasRow, Of, Sessions
    <3> QED BY <2>2, <2>4, <3>1, TrueStateIs DEF TodayState, Status, w, o
  <2>5. CASE OpenAt(o) = {} /\ Closed(d, w) # Of(d, w) /\ Of(d, w) # {}
    <3>1. OpenAt(w) # {} BY <2>5 DEF Closed
    <3> QED BY <2>2, <2>5, <3>1, TrueStateIs DEF TodayState, Status, w, o
  <2>6. CASE OpenAt(o) = {} /\ Closed(d, w) = Of(d, w) /\ Of(d, w) # {}
    <3>1. TodayState(o, w, view.now) = "CHECKED_OUT" BY <2>6 DEF TodayState, Status
    <3>2. CASE OpenAt(w) = {}
      BY <2>2, <2>6, <3>1, <3>2, TrueStateIs DEF HasRow, w, o
    <3>3. CASE OpenAt(w) # {}
      <4>1. PICK i \in OpenAt(w) : TRUE BY <3>3
      <4>2. /\ i \in 1 .. w /\ log[i].type = "IN" /\ log[i].session = i /\ Ends(i, w) = {}
        BY DEF OpenAt, Sessions
      <4>3. i > o
        <5> SUFFICES ASSUME i <= o PROVE FALSE BY <2>1, <4>2
        <5>1. i \in Sessions(o) /\ Ends(i, o) = {} BY <2>1, <4>2 DEF Sessions, Ends
        <5> QED BY <2>6, <5>1 DEF OpenAt
      <4>4. i - 1 \in o .. w /\ i \in 1 .. Here BY <2>1, <4>2, <4>3
      <4>5. OpenAt(i - 1) = {} BY <4>2, <4>4 DEF Alternates
      <4>6. PICK j \in Of(d, w) : j \notin OpenAt(w) BY <2>6 DEF Closed
      <4>7. j \in 1 .. w /\ log[j].type = "IN" /\ log[j].session = j /\ j # i
            /\ WorkDate(log[j].at) = d
        BY <4>6 DEF Of, Sessions
      <4>8. j < i
        <5> SUFFICES ASSUME j > i PROVE FALSE BY <2>1, <4>2, <4>7
        <5>1. i \in Sessions(j - 1) /\ Ends(i, j - 1) = {}
          BY <2>1, <4>2, <4>7 DEF Sessions, Ends
        <5>2. OpenAt(j - 1) = {} BY <2>1, <4>7 DEF Alternates
        <5> QED BY <5>1, <5>2 DEF OpenAt
      <4>9. HasRow(d, i - 1)
        <5>1. j \in 1 .. i - 1 BY <2>1, <4>2, <4>7, <4>8
        <5> QED BY <4>7, <5>1 DEF HasRow, Of, Sessions
      <4>10. TrueState(i - 1, view.now) = "CHECKED_OUT" BY <4>5, <4>9, TrueStateIs
      <4> QED BY <3>1, <4>4, <4>10 DEF w, o
    <3> QED BY <3>2, <3>3
  <2> QED BY <2>3, <2>4, <2>5, <2>6
<1> QED BY <1>1, AlternatesInvariant, PTL

-----------------------------------------------------------------------------
(* Totals.  A session counts with its duration from its first end on, so the *)
(* sum over what has ended only grows from one read to the next.             *)

\* A session ends no earlier than it began.
EndsFollow ==
    \A j \in 1 .. Here : log[j].session \in 1 .. j - 1 => log[log[j].session].at <= log[j].at

LEMMA EndsFollowKept ==
  ASSUME TypeOK, ViewOrder, EndsFollow, [Next]_vars
  PROVE  EndsFollow'
<1>0. Here \in Nat BY Positions
<1>1. ASSUME NEW e, Fits(e), Adds(e) PROVE EndsFollow'
  <2>1. /\ Here' = Here + 1 /\ log'[Here + 1] = e
        /\ \A i \in 1 .. Here : log'[i] = log[i]
    BY <1>1, AddTypes
  <2>2. ASSUME NEW j \in 1 .. Here + 1, log'[j].session \in 1 .. j - 1
        PROVE  log'[log'[j].session].at <= log'[j].at
    <3>1. CASE j = Here + 1
      <4>1. e.session \in 1 .. Here /\ log[e.session].at <= e.at
        BY <1>0, <1>1, <2>1, <2>2, <3>1 DEF Fits
      <4> QED BY <2>1, <3>1, <4>1
    <3>2. CASE j # Here + 1
      <4>1. j \in 1 .. Here /\ log'[j] = log[j] BY <1>0, <2>1, <3>2
      <4>2. log[j].session \in 1 .. Here BY <1>0, <2>2, <4>1
      <4>3. log'[log[j].session] = log[log[j].session] BY <2>1, <4>2
      <4> QED BY <2>2, <4>1, <4>3 DEF EndsFollow
    <3> QED BY <3>1, <3>2
  <2> QED BY <2>1, <2>2 DEF EndsFollow
<1>2. CASE Kept
  <2>1. /\ Here' = Here
        /\ \A i \in 1 .. Here : log'[i].at = log[i].at /\ log'[i].session = log[i].session
    BY <1>2, KeptTypes
  <2>2. ASSUME NEW j \in 1 .. Here, log'[j].session \in 1 .. j - 1
        PROVE  log'[log'[j].session].at <= log'[j].at
    <3>1. log[j].session \in 1 .. j - 1 /\ log[j].session \in 1 .. Here
      BY <1>0, <2>1, <2>2
    <3> QED BY <2>1, <3>1 DEF EndsFollow
  <2> QED BY <2>1, <2>2 DEF EndsFollow
<1>3. CASE log' = log BY <1>3 DEF EndsFollow, Here
<1> QED BY <1>1, <1>2, <1>3, StepCases

LEMMA TotalsInvariant == Spec => [](TypeOK /\ ViewOrder /\ EndsFollow)
<1> DEFINE Inv == TypeOK /\ ViewOrder /\ EndsFollow
<1>1. Init => Inv
  <2> SUFFICES ASSUME Init PROVE Inv OBVIOUS
  <2>1. Here = 0 BY DEF Init, Here
  <2> QED BY <2>1, TypesInit DEF EndsFollow
<1>2. Inv /\ [Next]_vars => Inv' BY TypesKept, EndsFollowKept
<1> QED BY <1>1, <1>2, PTL DEF Spec

\* The first end of a session is its end, however much is committed later.
LEMMA FirstEnd ==
  ASSUME TypeOK, NEW n \in 0 .. Here, NEW i \in Sessions(n), Ends(i, n) # {}
  PROVE  /\ i \in 1 .. Here /\ Min(Ends(i, n)) \in i + 1 .. n
         /\ log[Min(Ends(i, n))].session = i
         /\ \A m \in n .. Here : Ends(i, m) # {} /\ Min(Ends(i, m)) = Min(Ends(i, n))
<1>0. Here \in Nat /\ n \in Nat /\ n <= Here /\ i \in 1 .. n BY Positions DEF Sessions
<1>1. /\ Ends(i, n) \in SUBSET Nat
      /\ Min(Ends(i, n)) \in Ends(i, n) /\ \A y \in Ends(i, n) : Min(Ends(i, n)) <= y
  <2>1. Ends(i, n) \in SUBSET Nat BY <1>0 DEF Ends
  <2> QED BY <2>1, SmallestNat
<1>2. Min(Ends(i, n)) \in i + 1 .. n /\ log[Min(Ends(i, n))].session = i BY <1>1 DEF Ends
<1>3. ASSUME NEW m \in n .. Here
      PROVE  Ends(i, m) # {} /\ Min(Ends(i, m)) = Min(Ends(i, n))
  <2> DEFINE a == Min(Ends(i, n))
             b == Min(Ends(i, m))
  <2>1. Ends(i, m) \in SUBSET Nat /\ a \in Ends(i, m) BY <1>0, <1>2, <1>3 DEF Ends
  <2>2. b \in Ends(i, m) /\ b <= a BY <2>1, SmallestNat
  <2>3. b \in Ends(i, n) BY <1>0, <1>2, <2>1, <2>2 DEF Ends
  <2>4. a <= b BY <1>1, <2>3
  <2>5. a \in Nat /\ b \in Nat BY <2>1, <2>2
  <2> HIDE DEF a, b
  <2>6. a = b BY <2>2, <2>4, <2>5
  <2> QED BY <2>1, <2>6 DEF a, b
<1> QED BY <1>0, <1>2, <1>3

LEMMA DurationStays ==
  ASSUME TypeOK, EndsFollow, NEW n \in 0 .. Here, NEW i \in Sessions(n), Ends(i, n) # {}
  PROVE  /\ Duration(i, n) \in Nat
         /\ \A m \in n .. Here : Ends(i, m) # {} /\ Duration(i, m) = Duration(i, n)
<1> DEFINE j == Min(Ends(i, n))
<1>1. /\ i \in 1 .. Here /\ j \in i + 1 .. n /\ log[j].session = i
      /\ \A m \in n .. Here : Ends(i, m) # {} /\ Min(Ends(i, m)) = j
  BY FirstEnd
<1>2. Duration(i, n) = log[j].at - log[i].at BY DEF Duration
<1>3. \A m \in n .. Here : Ends(i, m) # {} /\ Duration(i, m) = log[j].at - log[i].at
  BY <1>1 DEF Duration
<1> HIDE DEF j
<1>4. i \in 1 .. j - 1 /\ j \in 1 .. Here BY <1>1, Positions
<1>5. log[i].at <= log[j].at BY <1>1, <1>4 DEF EndsFollow
<1>6. log[i].at \in Nat /\ log[j].at \in Nat BY <1>4, <1>1, CommitClocks
<1> QED BY <1>2, <1>3, <1>5, <1>6

LEMMA ElapsedType ==
  ASSUME TypeOK, NEW i \in 1 .. Here, NEW now \in Nat PROVE Elapsed(i, now) \in Nat
<1>1. log[i].at \in Nat BY Positions DEF Commits
<1> QED BY <1>1 DEF Elapsed

LEMMA DaySessions ==
  ASSUME TypeOK, NEW n \in 0 .. Here, NEW d
  PROVE  /\ IsFiniteSet(Of(d, n)) /\ IsFiniteSet(OpenAt(n)) /\ IsFiniteSet(Closed(d, n))
         /\ Of(d, n) \in SUBSET (1 .. Here) /\ OpenAt(n) \in SUBSET (1 .. Here)
         /\ \A i \in Of(d, n) : i \in Sessions(n) /\ WorkDate(log[i].at) = d
         /\ \A i \in OpenAt(n) : i \in Sessions(n) /\ Ends(i, n) = {}
         /\ \A i \in Closed(d, n) : i \in Of(d, n) /\ i \in Sessions(n) /\ Ends(i, n) # {}
<1>0. Here \in Nat /\ n \in Nat /\ n <= Here BY Positions
<1>1. /\ Of(d, n) \in SUBSET (1 .. Here) /\ OpenAt(n) \in SUBSET (1 .. Here)
      /\ Closed(d, n) \in SUBSET (1 .. Here)
      /\ \A i \in Of(d, n) : i \in Sessions(n) /\ WorkDate(log[i].at) = d
      /\ \A i \in OpenAt(n) : i \in Sessions(n) /\ Ends(i, n) = {}
      /\ \A i \in Closed(d, n) : i \in Of(d, n) /\ i \in Sessions(n) /\ Ends(i, n) # {}
  BY <1>0 DEF Of, OpenAt, Closed, Sessions
<1>2. IsFiniteSet(1 .. Here) BY <1>0, FS_Interval
<1> QED BY <1>1, <1>2, FS_Subset

\* A day's total never shrinks, because what has ended stays as it is.
LEMMA TotalGrows ==
  ASSUME TypeOK, EndsFollow, NEW d, NEW w \in 0 .. Here, NEW n \in w .. Here
  PROVE  Total(d, w) \in Nat /\ Total(d, n) \in Nat /\ Total(d, w) <= Total(d, n)
<1> DEFINE early == Closed(d, w)
           late == Closed(d, n)
           f == [i \in early |-> Duration(i, w)]
           g == [i \in late |-> Duration(i, n)]
<1>0. w \in 0 .. Here /\ n \in 0 .. Here /\ w \in Nat /\ n \in Nat /\ w <= n BY Positions
<1>1. /\ \A i \in early : i \in Of(d, w) /\ i \in Sessions(w) /\ Ends(i, w) # {}
      /\ \A i \in late : i \in Sessions(n) /\ Ends(i, n) # {}
      /\ IsFiniteSet(early) /\ IsFiniteSet(late)
  BY <1>0, DaySessions
<1>2. /\ \A i \in early : f[i] \in Nat /\ Ends(i, n) # {} /\ Duration(i, n) = f[i]
      /\ \A i \in late : g[i] \in Nat
  BY <1>0, <1>1, DurationStays
<1>3. early \in SUBSET late
  <2> SUFFICES ASSUME NEW i \in early PROVE i \in late OBVIOUS
  <2>1. i \in Sessions(n) BY <1>0, <1>1 DEF Sessions
  <2>2. i \in Of(d, n) BY <1>1, <2>1 DEF Of
  <2>3. i \notin OpenAt(n) BY <1>2 DEF OpenAt
  <2> QED BY <2>2, <2>3 DEF Closed
<1>4. \A i \in early : g[i] = f[i] BY <1>2, <1>3
<1>5. Total(d, w) = SumFunctionOnSet(f, early) /\ Total(d, n) = SumFunctionOnSet(g, late)
  BY DEF Total, SumFunction
<1> HIDE DEF early, late, f, g
<1>6. SumFunctionOnSet(f, early) \in Nat /\ SumFunctionOnSet(g, late) \in Nat
  BY <1>1, <1>2, SumType
<1>7. \A i \in early : f[i] \in Nat /\ f[i] <= g[i] BY <1>2, <1>4
<1>8. SumFunctionOnSet(f, early) <= SumFunctionOnSet(g, late)
  BY <1>1, <1>2, <1>3, <1>7, SumGrows
<1> QED BY <1>5, <1>6, <1>8

\* The true total is that of the ended sessions and the time that runs.
Still(d, n, now) == SumFunction([i \in OpenAt(n) \cap Of(d, n) |-> Elapsed(i, now)])

LEMMA TrueTotalIs ==
  ASSUME TypeOK, EndsFollow, NEW d, NEW n \in 0 .. Here, NEW now \in Nat
  PROVE  /\ TrueTotal(d, n, now) = Total(d, n) + Still(d, n, now)
         /\ Total(d, n) \in Nat /\ Still(d, n, now) \in Nat
<1> DEFINE ended == Closed(d, n)
           open == OpenAt(n) \cap Of(d, n)
           h == [i \in Of(d, n) |-> IF Ends(i, n) = {} THEN Elapsed(i, now) ELSE Duration(i, n)]
           f == [i \in ended |-> Duration(i, n)]
           g == [i \in open |-> Elapsed(i, now)]
<1>1. TrueTotal(d, n, now) = SumFunctionOnSet(h, Of(d, n))
  BY DEF TrueTotal, Of, SumFunction
<1>2. Total(d, n) = SumFunctionOnSet(f, ended) /\ Still(d, n, now) = SumFunctionOnSet(g, open)
  BY DEF Total, Still, SumFunction
<1>3. /\ \A i \in ended : i \in Of(d, n) /\ i \in Sessions(n) /\ Ends(i, n) # {}
      /\ \A i \in open : i \in Of(d, n) /\ Ends(i, n) = {} /\ i \in 1 .. Here
      /\ IsFiniteSet(ended) /\ IsFiniteSet(open) /\ IsFiniteSet(Of(d, n))
  <2>1. open \in SUBSET OpenAt(n) /\ open \in SUBSET Of(d, n) OBVIOUS
  <2>2. IsFiniteSet(open) BY <2>1, DaySessions, FS_Subset
  <2> HIDE DEF open, ended
  <2> QED BY <2>1, <2>2, DaySessions DEF ended
<1>4. /\ \A i \in ended : h[i] = f[i] /\ f[i] \in Nat
      /\ \A i \in open : h[i] = g[i] /\ g[i] \in Nat
  BY <1>3, DurationStays, ElapsedType
<1>5. Of(d, n) = ended \cup open /\ ended \cap open = {} BY DEF Closed
<1> HIDE DEF ended, open, h, f, g
<1>6. SumFunctionOnSet(h, ended) = SumFunctionOnSet(f, ended)
  BY <1>3, <1>4, SumSame
<1>7. SumFunctionOnSet(h, open) = SumFunctionOnSet(g, open)
  BY <1>3, <1>4, SumSame
<1>8. SumFunctionOnSet(h, ended \cup open)
        = SumFunctionOnSet(h, ended) + SumFunctionOnSet(h, open)
  BY <1>3, <1>4, <1>5, SumApart
<1>9. SumFunctionOnSet(f, ended) \in Nat /\ SumFunctionOnSet(g, open) \in Nat
  BY <1>3, <1>4, SumType
<1> QED BY <1>1, <1>2, <1>5, <1>6, <1>7, <1>8, <1>9

\* "Today" counts every session that has ended and every one that runs, although it
\* reads the open session before the row (TodayNeverUnderstates).
THEOREM TodayNeverUnderstatesHolds == Spec => []TodayNeverUnderstates
<1>1. TypeOK /\ ViewOrder /\ EndsFollow => TodayNeverUnderstates
  <2> SUFFICES ASSUME TypeOK, ViewOrder, EndsFollow, Answered("today")
               PROVE  TodayTotal(seen["open"], seen["row"], view.now)
                        >= TrueTotal(WorkDate(view.now), seen["open"], view.now)
    BY DEF TodayNeverUnderstates
  <2> DEFINE o == seen["open"]
             w == seen["row"]
             now == view.now
             d == WorkDate(now)
  <2>1. o \in 0 .. Here /\ w \in o .. Here /\ now \in Nat
    BY PlanOrder DEF TypeOK, Views
  <2> HIDE DEF o, w, now, d
  <2>2. /\ TrueTotal(d, o, now) = Total(d, o) + Still(d, o, now)
        /\ Total(d, o) \in Nat /\ Still(d, o, now) \in Nat
    BY <2>1, TrueTotalIs
  <2>3. Total(d, w) \in Nat /\ Total(d, o) <= Total(d, w) BY <2>1, TotalGrows
  <2>4. TodayTotal(o, w, now) = Total(d, w) + Still(d, o, now)
    BY DEF TodayTotal, Still, d
  <2>5. TodayTotal(o, w, now) >= TrueTotal(d, o, now) BY <2>2, <2>3, <2>4
  <2> QED BY <2>5 DEF o, w, now, d
<1> QED BY <1>1, TotalsInvariant, PTL

\* History, reports and the summary count nothing twice: what a row says has ended
\* is not running when the sessions are read (DaysNeverOverstate).
THEOREM DaysNeverOverstateHolds == Spec => []DaysNeverOverstate
<1>1. TypeOK /\ ViewOrder /\ EndsFollow => DaysNeverOverstate
  <2> SUFFICES ASSUME TypeOK, ViewOrder, EndsFollow, Answered("days"), NEW d
               PROVE  DayTotal(d, seen["row"], seen["sessions"], view.now)
                        <= TrueTotal(d, seen["sessions"], view.now)
    BY DEF DaysNeverOverstate
  <2> DEFINE w == seen["row"]
             s == seen["sessions"]
             now == view.now
  <2>1. w \in 0 .. Here /\ s \in w .. Here /\ s \in 0 .. Here /\ now \in Nat
    BY PlanOrder, Positions DEF TypeOK, Views
  <2> HIDE DEF w, s, now
  <2>2. /\ TrueTotal(d, s, now) = Total(d, s) + Still(d, s, now)
        /\ Total(d, s) \in Nat /\ Still(d, s, now) \in Nat
    BY <2>1, TrueTotalIs
  <2>3. Total(d, w) \in Nat /\ Total(d, w) <= Total(d, s) BY <2>1, TotalGrows
  <2>4. Running(d, s) = OpenAt(s) \cap Of(d, s) BY DEF Running
  <2>5. DayTotal(d, w, s, now) = IF HasRow(d, w) THEN Total(d, w) + Still(d, s, now) ELSE 0
    BY <2>4 DEF DayTotal, Still
  <2>6. DayTotal(d, w, s, now) <= TrueTotal(d, s, now) BY <2>2, <2>3, <2>5
  <2> QED BY <2>6 DEF w, s, now
<1> QED BY <1>1, TotalsInvariant, PTL

\* Next to a name stands at most the day's true total, if no session of an earlier day
\* runs: what a day row says has ended is not open when the sessions are read
\* (PresenceNeverOverstates).
THEOREM PresenceNeverOverstatesHolds == Spec => []PresenceNeverOverstates
<1>1. TypeOK /\ ViewOrder /\ EndsFollow => PresenceNeverOverstates
  <2> SUFFICES ASSUME TypeOK, ViewOrder, EndsFollow, Answered("presence"),
                      \A i \in OpenAt(seen["open"]) :
                         WorkDate(log[i].at) = WorkDate(view.now)
               PROVE  PresenceTotal(seen["row"], seen["open"], view.now)
                        <= TrueTotal(WorkDate(view.now), seen["open"], view.now)
    BY DEF PresenceNeverOverstates
  <2> DEFINE w == seen["row"]
             o == seen["open"]
             now == view.now
             d == WorkDate(now)
             all == OpenAt(o)
             due == all \cap Of(d, o)
  <2>1. w \in 0 .. Here /\ o \in w .. Here /\ o \in 0 .. Here /\ now \in Nat
    BY PlanOrder, Positions DEF TypeOK, Views
  <2>2. all = due
    <3>1. \A i \in all : i \in Sessions(o) BY <2>1, DaySessions
    <3> QED BY <3>1 DEF Of
  <2> HIDE DEF w, o, now, d, all, due
  <2>3. /\ TrueTotal(d, o, now) = Total(d, o) + Still(d, o, now)
        /\ Total(d, o) \in Nat /\ Still(d, o, now) \in Nat
    BY <2>1, TrueTotalIs
  <2>4. Total(d, w) \in Nat /\ Total(d, w) <= Total(d, o) BY <2>1, TotalGrows
  <2>5. PresenceTotal(w, o, now) = Total(d, w) + Still(d, o, now)
    <3>1. OpenAt(o) = OpenAt(o) \cap Of(d, o) BY <2>2 DEF all, due
    <3>2. [i \in OpenAt(o) |-> Elapsed(i, now)]
            = [i \in OpenAt(o) \cap Of(d, o) |-> Elapsed(i, now)]
      BY <3>1
    <3> QED BY <3>2 DEF PresenceTotal, Still, d
  <2>6. PresenceTotal(w, o, now) <= TrueTotal(d, o, now) BY <2>3, <2>4, <2>5
  <2> QED BY <2>6 DEF o, w, now, d
<1> QED BY <1>1, TotalsInvariant, PTL

-----------------------------------------------------------------------------
(* Late arrivals.                                                          *)

LEMMA DivMod ==
  ASSUME NEW n \in Nat, NEW m \in Nat \ {0}
  PROVE  /\ n \div m \in Nat /\ m * (n \div m) <= n /\ n < m * (n \div m) + m
OBVIOUS

LEMMA DivAndMod ==
  ASSUME NEW n \in Nat, NEW m \in Nat \ {0}
  PROVE  n = m * (n \div m) + (n % m) /\ n % m \in Nat
<1>1. n \in Int /\ m \in Int /\ m > 0 OBVIOUS
<1>2. n = m * (n \div m) + (n % m) BY <1>1
<1>3. n % m \in Nat OBVIOUS
<1> QED BY <1>2, <1>3

\* Within a day, later clock values are later times of day.
LEMMA SameDayOrder ==
  ASSUME NEW a \in Nat, NEW b \in Nat, WorkDate(a) = WorkDate(b)
  PROVE  a <= b <=> a % DayTicks <= b % DayTicks
<1> DEFINE q == a \div DayTicks
<1>1. /\ q \in Nat /\ b \div DayTicks = q BY DivMod DEF WorkDate
<1>2. a = DayTicks * q + (a % DayTicks) /\ b = DayTicks * q + (b % DayTicks)
  BY <1>1, DivAndMod
<1>3. a % DayTicks \in Nat /\ b % DayTicks \in Nat /\ DayTicks * q \in Nat BY <1>1
<1> HIDE DEF q
<1> QED BY <1>2, <1>3

\* The first punch_in to commit always counts for first_punch_in.
LEMMA FirstInIs ==
  ASSUME TypeOK, NEW d, HasRow(d, Here)
  PROVE  LET first == Min(Of(d, Here))
         IN  /\ first \in Of(d, Here) /\ \A i \in Of(d, Here) : first <= i
             /\ FirstIn(d, Here) <= log[first].at
             /\ \E i \in Of(d, Here) : FirstIn(d, Here) = log[i].at
<1> DEFINE all == Of(d, Here)
           first == Min(all)
           recomputed == UNION {Ends(i, Here) : i \in Closed(d, Here)}
           counted == IF recomputed = {} THEN {first} ELSE Of(d, Max(recomputed))
           times == {log[i].at : i \in counted}
<1>0. Here \in Nat /\ Here \in 0 .. Here BY Positions
<1>1. /\ all \in SUBSET (1 .. Here) /\ all # {}
      /\ \A i \in 1 .. Here : log[i].at \in Nat
  <2>1. all \in SUBSET (1 .. Here) BY <1>0, DaySessions
  <2>2. \A i \in 1 .. Here : log[i].at \in Nat BY Positions DEF Commits
  <2> QED BY <2>1, <2>2 DEF HasRow
<1>2. first \in all /\ \A i \in all : first <= i
  <2>1. all \in SUBSET Nat BY <1>1
  <2> HIDE DEF all
  <2> QED BY <1>1, <2>1, SmallestNat
<1>3. FirstIn(d, Here) = Min(times) BY DEF FirstIn
<1>4. first \in counted /\ counted \in SUBSET all
  <2>1. CASE recomputed = {} BY <1>2, <2>1
  <2>2. CASE recomputed # {}
    <3>1. recomputed \in SUBSET (1 .. Here) /\ recomputed \in SUBSET Nat
      <4>1. \A i \in Closed(d, Here) : i \in 1 .. Here BY <1>0, <1>1, DaySessions
      <4> QED BY <1>0, <4>1 DEF Ends
    <3>2. IsFiniteSet(recomputed)
      <4>1. IsFiniteSet(1 .. Here) BY <1>0, FS_Interval
      <4> HIDE DEF recomputed
      <4> QED BY <3>1, <4>1, FS_Subset
    <3>3. PICK i \in Closed(d, Here) : Ends(i, Here) # {} BY <2>2
    <3>4. PICK j \in Ends(i, Here) : TRUE BY <3>3
    <3>5. i \in all /\ j \in recomputed /\ j \in i + 1 .. Here
      BY <1>0, <3>3, <3>4, DaySessions DEF Ends
    <3> DEFINE last == Max(recomputed)
    <3>6. last \in recomputed /\ last >= j
      <4> HIDE DEF recomputed
      <4> QED BY <2>2, <3>1, <3>2, <3>5, LargestNat
    <3>7. counted = Of(d, last) BY <2>2
    <3>8. last \in 1 .. Here /\ first \in 1 .. last
      <4> HIDE DEF recomputed, last, first, all
      <4> QED BY <1>1, <1>2, <3>1, <3>5, <3>6
    <3> HIDE DEF recomputed, last, first, counted
    <3>9. first \in Of(d, last) BY <1>0, <1>2, <3>8 DEF Of, Sessions
    <3>10. Of(d, last) \in SUBSET all BY <1>0, <3>8 DEF Of, Sessions
    <3> QED BY <3>7, <3>9, <3>10
  <2> QED BY <2>1, <2>2
<1> HIDE DEF all, first, counted
<1>5. times \in SUBSET Nat /\ log[first].at \in times BY <1>1, <1>4
<1>6. Min(times) \in times /\ Min(times) <= log[first].at BY <1>5, SmallestNat
<1>7. \E i \in all : Min(times) = log[i].at BY <1>4, <1>6
<1> QED BY <1>2, <1>3, <1>6, <1>7 DEF first, all

\* A late first arrival is always marked, and a mark on a day that began in time means
\* that two punches committed out of order (NoLateDayIsMissed).
THEOREM NoLateDayIsMissedHolds == Spec => []NoLateDayIsMissed
<1>1. TypeOK => NoLateDayIsMissed
  <2> SUFFICES ASSUME TypeOK, NEW d \in WorkDates, HasRow(d, Here)
               PROVE  /\ IsLate(FirstIn(d, Here)) => Late(d, Here)
                      /\ Late(d, Here) /\ ~IsLate(FirstIn(d, Here)) =>
                           \E i, j \in Of(d, Here) : i < j /\ log[j].at < log[i].at
    BY DEF NoLateDayIsMissed
  <2> DEFINE first == Min(Of(d, Here))
             begin == FirstIn(d, Here)
  <2>1. /\ first \in Of(d, Here) /\ \A i \in Of(d, Here) : first <= i
        /\ begin <= log[first].at
    BY FirstInIs
  <2>2. PICK k \in Of(d, Here) : begin = log[k].at BY FirstInIs
  <2>3. \A i \in Of(d, Here) : i \in 1 .. Here /\ log[i].at \in Nat /\ WorkDate(log[i].at) = d
    BY Positions DEF Of, Sessions, Commits
  <2>4. Late(d, Here) <=> IsLate(log[first].at) BY DEF Late
  <2> HIDE DEF first, begin
  <2>5. /\ log[first].at \in Nat /\ log[k].at \in Nat
        /\ WorkDate(log[first].at) = WorkDate(log[k].at)
    BY <2>1, <2>3
  <2>6. log[k].at % DayTicks <= log[first].at % DayTicks BY <2>1, <2>2, <2>5, SameDayOrder
  <2>7. log[k].at % DayTicks \in Nat /\ log[first].at % DayTicks \in Nat BY <2>5
  <2>8. IsLate(begin) => Late(d, Here) BY <2>2, <2>4, <2>6, <2>7 DEF IsLate
  <2>9. ASSUME Late(d, Here), ~IsLate(begin)
        PROVE  first < k /\ log[k].at < log[first].at
    <3>1. log[k].at # log[first].at BY <2>2, <2>4, <2>9
    <3>2. first # k BY <3>1
    <3> QED BY <2>1, <2>2, <2>3, <2>5, <3>1, <3>2
  <2> QED BY <2>1, <2>8, <2>9 DEF begin
<1> QED BY <1>1, ViewTypes, PTL
=============================================================================
