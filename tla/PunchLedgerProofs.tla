-------------------------- MODULE PunchLedgerProofs --------------------------
(***************************************************************************)
(* Theorems about single rows of attendance_sessions: the CHECK constraints *)
(* hold at every commit, a closed session is never reopened or moved, and  *)
(* the rows agree with the events the punches wrote.                       *)
(***************************************************************************)
EXTENDS PunchServiceProofs

USE ConstantsAssumption DEF Types

\* What one step can do to one session row.
LEMMA RowStep ==
  ASSUME IInv, [Next]_vars, NEW s \in Requests
  PROVE  \/ sessions'[s] = sessions[s]
         \/ /\ sessions[s] = None /\ sessions'[s] \in SessionRow
            /\ sessions'[s].punch_out = None /\ sessions'[s].duration = None
            /\ sessions'[s].status = "ACTIVE"
         \/ /\ sessions[s] \in SessionRow
            /\ \E t \in Nat : /\ t > sessions[s].punch_in
                              /\ sessions'[s] = Completed(sessions[s], t)
         \/ sessions[s] \in SessionRow /\ sessions'[s] = AutoClosed(sessions[s])
<1>1. ASSUME NEW r \in Requests, CommitIn(r)
      PROVE  \/ sessions'[s] = sessions[s]
             \/ /\ sessions[s] = None /\ sessions'[s] \in SessionRow
                /\ sessions'[s].punch_out = None /\ sessions'[s].duration = None
                /\ sessions'[s].status = "ACTIVE"
  <2> DEFINE new == [user |-> req[r].user, work_date |-> WorkDate(req[r].now),
                     punch_in |-> req[r].now, punch_out |-> None, duration |-> None,
                     status |-> "ACTIVE"]
  <2>1. /\ Open(req[r].user) = {} /\ req[r] \in Request /\ sessions[r] = None
    BY <1>1 DEF CommitIn, IInv, ChecksStillHold, RowsAreCommitted, InFlight, LedgerTypeOK
  <2>2. sessions' = [sessions EXCEPT ![r] = new] BY <1>1, <2>1 DEF CommitIn
  <2>3. new \in SessionRow BY <2>1, WorkDateNat DEF Request, SessionRow
  <2>4. /\ new.punch_out = None /\ new.duration = None /\ new.status = "ACTIVE" OBVIOUS
  <2> HIDE DEF new
  <2> QED BY <2>1, <2>2, <2>3, <2>4 DEF IInv, LedgerTypeOK
<1>2. ASSUME NEW r \in Requests, CommitOut(r)
      PROVE  \/ sessions'[s] = sessions[s]
             \/ /\ sessions[s] \in SessionRow
                /\ \E t \in Nat : /\ t > sessions[s].punch_in
                                  /\ sessions'[s] = Completed(sessions[s], t)
  <2>1. /\ tx[r].session \in Requests /\ sessions[tx[r].session] \in SessionRow
        /\ req[r].now > sessions[tx[r].session].punch_in /\ req[r].now \in Nat
    BY <1>2, AtWrite DEF CommitOut
  <2>2. sessions' = [sessions EXCEPT ![tx[r].session] =
                        Completed(sessions[tx[r].session], req[r].now)]
    BY <1>2 DEF CommitOut
  <2> QED BY <2>1, <2>2 DEF IInv, LedgerTypeOK
<1>3. ASSUME NEW j \in Jobs, JobCommit(j)
      PROVE  \/ sessions'[s] = sessions[s]
             \/ sessions[s] \in SessionRow /\ sessions'[s] = AutoClosed(sessions[s])
  BY <1>3 DEF JobCommit, JobView, IInv, JobsNameSessions, LedgerTypeOK
<1>4. ASSUME NEW r \in Requests, RejectPunch(r) PROVE sessions' = sessions
  BY <1>4 DEF RejectPunch
<1> QED BY <1>1, <1>2, <1>3, <1>4, StutterSteps

\* The CHECK constraints of attendance_sessions hold at every commit.
THEOREM SessionChecksHold == Spec => []SessionChecks
<1>1. Init => SessionChecks BY DEF Init, SessionChecks
<1>2. IInv /\ SessionChecks /\ [Next]_vars => SessionChecks'
  <2> SUFFICES ASSUME IInv, SessionChecks, [Next]_vars, NEW s \in Requests, sessions'[s] # None
               PROVE  /\ sessions'[s].punch_out # None =>
                            sessions'[s].punch_out > sessions'[s].punch_in
                      /\ (sessions'[s].punch_out = None) <=> (sessions'[s].duration = None)
                      /\ (sessions'[s].punch_out = None) <=> (sessions'[s].status = "ACTIVE")
    BY DEF SessionChecks
  <2>1. CASE sessions'[s] = sessions[s] BY <2>1 DEF SessionChecks
  <2>2. CASE sessions'[s].punch_out = None /\ sessions'[s].duration = None
             /\ sessions'[s].status = "ACTIVE"
    BY <2>2
  <2>3. ASSUME sessions[s] \in SessionRow, NEW t \in Nat, t > sessions[s].punch_in,
               sessions'[s] = Completed(sessions[s], t)
        PROVE  /\ sessions'[s].punch_out > sessions'[s].punch_in
               /\ sessions'[s].punch_out # None /\ sessions'[s].duration # None
               /\ sessions'[s].status # "ACTIVE"
    BY <2>3, CompletedRow
  <2>4. ASSUME sessions[s] \in SessionRow, sessions'[s] = AutoClosed(sessions[s])
        PROVE  /\ sessions'[s].punch_out > sessions'[s].punch_in
               /\ sessions'[s].punch_out # None /\ sessions'[s].duration # None
               /\ sessions'[s].status # "ACTIVE"
    <3>1. sessions[s].punch_in \in Nat BY <2>4 DEF SessionRow
    <3>2. /\ sessions[s].punch_in + AutoCloseAfter > sessions[s].punch_in
          /\ sessions[s].punch_in + AutoCloseAfter \in Nat
      BY <3>1
    <3> QED BY <2>4, <3>2, AutoClosedRow
  <2> QED BY <2>1, <2>2, <2>3, <2>4, RowStep
<1> QED BY <1>1, <1>2, InductiveInvariant, PTL DEF Spec

\* No step deletes a session, moves it or opens it again.
LEMMA RowKept ==
  ASSUME IInv, [Next]_vars, NEW s \in Requests, sessions[s] # None
  PROVE  /\ sessions'[s] # None
         /\ sessions'[s].user = sessions[s].user
         /\ sessions'[s].work_date = sessions[s].work_date
         /\ sessions'[s].punch_in = sessions[s].punch_in
         /\ ~IsOpen(s) => sessions'[s].punch_out # None
<1>1. CASE sessions'[s] = sessions[s] BY <1>1 DEF IsOpen
<1>2. ASSUME sessions[s] \in SessionRow, NEW t \in Nat, t > sessions[s].punch_in,
             sessions'[s] = Completed(sessions[s], t)
      PROVE  sessions'[s] \in SessionRow /\ sessions'[s].user = sessions[s].user
             /\ sessions'[s].work_date = sessions[s].work_date
             /\ sessions'[s].punch_in = sessions[s].punch_in
             /\ sessions'[s].punch_out # None
  BY <1>2, CompletedRow
<1>3. ASSUME sessions[s] \in SessionRow, sessions'[s] = AutoClosed(sessions[s])
      PROVE  sessions'[s] \in SessionRow /\ sessions'[s].user = sessions[s].user
             /\ sessions'[s].work_date = sessions[s].work_date
             /\ sessions'[s].punch_in = sessions[s].punch_in
             /\ sessions'[s].punch_out # None
  <2>1. sessions[s].punch_in + AutoCloseAfter \in Nat BY <1>3 DEF SessionRow
  <2> QED BY <1>3, <2>1, AutoClosedRow
<1> QED BY <1>1, <1>2, <1>3, RowStep, NoneIsNoRow

\* A closed session is never reopened, and no session changes its user, day or start.
THEOREM ClosedStaysClosedHolds == Spec => ClosedStaysClosed
<1> DEFINE Kept(s) == sessions[s] # None =>
             /\ sessions'[s] # None
             /\ sessions'[s].user = sessions[s].user
             /\ sessions'[s].work_date = sessions[s].work_date
             /\ sessions'[s].punch_in = sessions[s].punch_in
             /\ ~IsOpen(s) => sessions'[s].punch_out # None
<1>1. IInv /\ [Next]_vars => \A s \in Requests : Kept(s) BY RowKept
<1> HIDE DEF Kept
<1> QED BY <1>1, InductiveInvariant, PTL DEF Spec, ClosedStaysClosed, Kept

-----------------------------------------------------------------------------
(* The event log and the sessions agree.  A punch_out may write its event   *)
(* only because the session it closes has none yet: OutsEndSessions.        *)

RecordsInv == RecordsAgree /\ OutsEndSessions

\* A refused location leaves an event that belongs to no session.
LEMMA RejectKeepsRecords ==
  ASSUME IInv, RecordsInv, NEW r \in Requests, RejectPunch(r)
  PROVE  RecordsInv'
<1>1. /\ sessions' = sessions /\ events' = [events EXCEPT ![r] = Event(r, "REJECTED", None)]
      /\ pc[r] = "locked"
  BY DEF RejectPunch, Legal
<1>2. sessions[r] = None /\ events[r] = None
  BY <1>1 DEF IInv, RowsAreCommitted
<1>3. /\ events'[r].verdict = "REJECTED" /\ events'[r].session = None
      /\ \A q \in Requests \ {r} : events'[q] = events[q]
  BY <1>1 DEF Event, IInv, LedgerTypeOK
<1>4. None \notin Requests OBVIOUS
<1>5. RecordsAgree' BY <1>1, <1>2, <1>3, <1>4 DEF RecordsInv, RecordsAgree
<1>6. OutsEndSessions' BY <1>1, <1>2, <1>3, <1>4 DEF RecordsInv, OutsEndSessions, IsOpen
<1> QED BY <1>5, <1>6 DEF RecordsInv

\* A punch_in writes its session and its event together.
LEMMA CommitInKeepsRecords ==
  ASSUME IInv, RecordsInv, NEW r \in Requests, CommitIn(r)
  PROVE  RecordsInv'
<1> DEFINE new == [user |-> req[r].user, work_date |-> WorkDate(req[r].now),
                   punch_in |-> req[r].now, punch_out |-> None, duration |-> None,
                   status |-> "ACTIVE"]
<1>1. /\ Open(req[r].user) = {} /\ req[r] \in Request /\ req[r].type = "IN"
      /\ sessions[r] = None /\ events[r] = None
  BY DEF CommitIn, IInv, ChecksStillHold, RowsAreCommitted, InFlight, LedgerTypeOK
<1>2. /\ sessions' = [sessions EXCEPT ![r] = new]
      /\ events' = [events EXCEPT ![r] = Event(r, "ACCEPTED", r)]
  BY <1>1 DEF CommitIn
<1>3. new \in SessionRow /\ Event(r, "ACCEPTED", r) \in EventRow
  BY <1>1, WorkDateNat DEF Request, SessionRow, Event, EventRow
<1>4. /\ sessions'[r] # None /\ sessions'[r].status = "ACTIVE"
      /\ sessions'[r].user = req[r].user /\ sessions'[r].punch_in = req[r].now
      /\ \A q \in Requests \ {r} : sessions'[q] = sessions[q]
  <2>1. new # None /\ new.status = "ACTIVE" /\ new.user = req[r].user
        /\ new.punch_in = req[r].now
    BY <1>3, NoneIsNoRow
  <2> HIDE DEF new
  <2> QED BY <1>2, <2>1 DEF IInv, LedgerTypeOK
<1>5. /\ events'[r] # None /\ events'[r].verdict = "ACCEPTED" /\ events'[r].type = "IN"
      /\ events'[r].session = r /\ events'[r].user = req[r].user
      /\ events'[r].time = req[r].now
      /\ \A q \in Requests \ {r} : events'[q] = events[q]
  <2>1. Event(r, "ACCEPTED", r) # None BY <1>3, NoneIsNoRow
  <2> QED BY <1>1, <1>2, <2>1 DEF Event, IInv, LedgerTypeOK
<1> HIDE DEF new
<1>6. RecordsAgree'
  <2>1. \A q \in Requests :
           sessions'[q] # None <=>
              events'[q] # None /\ events'[q].verdict = "ACCEPTED" /\ events'[q].type = "IN"
    BY <1>4, <1>5 DEF RecordsInv, RecordsAgree
  <2>2. \A q \in Requests : sessions'[q] # None =>
           /\ events'[q].user = sessions'[q].user /\ events'[q].session = q
           /\ events'[q].time = sessions'[q].punch_in
    BY <1>4, <1>5 DEF RecordsInv, RecordsAgree
  <2>3. ASSUME NEW s \in Requests, sessions'[s] # None, sessions'[s].status = "COMPLETED"
        PROVE  \E q \in Requests :
                  /\ events'[q] # None /\ events'[q].type = "OUT"
                  /\ events'[q].verdict = "ACCEPTED"
                  /\ events'[q].session = s /\ events'[q].time = sessions'[s].punch_out
                  /\ \A p \in Requests \ {q} :
                        events'[p] # None /\ events'[p].type = "OUT" => events'[p].session # s
    <3>1. s # r /\ sessions'[s] = sessions[s] BY <2>3, <1>4
    <3>2. PICK q \in Requests :
             /\ events[q] # None /\ events[q].type = "OUT"
             /\ events[q].verdict = "ACCEPTED"
             /\ events[q].session = s /\ events[q].time = sessions[s].punch_out
             /\ \A p \in Requests \ {q} :
                   events[p] # None /\ events[p].type = "OUT" => events[p].session # s
      BY <2>3, <3>1 DEF RecordsInv, RecordsAgree
    <3>3. q # r BY <1>1, <3>2
    <3> QED BY <3>1, <3>2, <3>3, <1>5
  <2> QED BY <2>1, <2>2, <2>3 DEF RecordsAgree
<1>7. OutsEndSessions' BY <1>1, <1>4, <1>5 DEF RecordsInv, OutsEndSessions, IsOpen
<1> QED BY <1>6, <1>7 DEF RecordsInv

\* A punch_out ends an open session, which no earlier punch_out can have ended.
LEMMA CommitOutKeepsRecords ==
  ASSUME IInv, RecordsInv, NEW r \in Requests, CommitOut(r)
  PROVE  RecordsInv'
<1> DEFINE s == tx[r].session
           row == Completed(sessions[s], req[r].now)
<1>1. /\ s \in Open(req[r].user) /\ req[r] \in Request /\ req[r].type = "OUT"
      /\ s \in Requests /\ sessions[s] \in SessionRow
      /\ req[r].now \in Nat /\ req[r].now > sessions[s].punch_in
  BY AtWrite DEF CommitOut
<1>2. IsOpen(s) BY <1>1 DEF Open
<1>3. sessions[r] = None /\ events[r] = None BY DEF CommitOut, IInv, RowsAreCommitted
<1>4. /\ sessions' = [sessions EXCEPT ![s] = row]
      /\ events' = [events EXCEPT ![r] = Event(r, "ACCEPTED", s)]
  BY DEF CommitOut
<1>5. /\ row \in SessionRow /\ row.user = sessions[s].user
      /\ row.punch_in = sessions[s].punch_in /\ row.punch_out = req[r].now
  BY <1>1, CompletedRow
<1>6. Event(r, "ACCEPTED", s) \in EventRow BY <1>1 DEF Request, Event, EventRow
<1>7. /\ events'[r] # None /\ events'[r].verdict = "ACCEPTED" /\ events'[r].type = "OUT"
      /\ events'[r].session = s /\ events'[r].time = req[r].now
      /\ \A q \in Requests \ {r} : events'[q] = events[q]
  <2>1. Event(r, "ACCEPTED", s) # None BY <1>6, NoneIsNoRow
  <2> QED BY <1>1, <1>4, <2>1 DEF Event, IInv, LedgerTypeOK
<1> HIDE DEF row
<1>8. /\ sessions'[s] # None /\ sessions'[s].user = sessions[s].user
      /\ sessions'[s].punch_in = sessions[s].punch_in
      /\ sessions'[s].punch_out = req[r].now
      /\ \A q \in Requests \ {s} : sessions'[q] = sessions[q]
  BY <1>1, <1>4, <1>5, NoneIsNoRow DEF IInv, LedgerTypeOK
<1> HIDE DEF s
<1>9. /\ sessions[s] # None /\ s # r
      /\ \A q \in Requests : events[q] # None /\ events[q].type = "OUT"
                                => events[q].session # s
  BY <1>1, <1>2, <1>3 DEF RecordsInv, OutsEndSessions, IsOpen
<1>10. RecordsAgree'
  <2>1. \A q \in Requests :
           sessions'[q] # None <=>
              events'[q] # None /\ events'[q].verdict = "ACCEPTED" /\ events'[q].type = "IN"
    BY <1>3, <1>7, <1>8, <1>9 DEF RecordsInv, RecordsAgree
  <2>2. \A q \in Requests : sessions'[q] # None =>
           /\ events'[q].user = sessions'[q].user /\ events'[q].session = q
           /\ events'[q].time = sessions'[q].punch_in
    BY <1>1, <1>3, <1>7, <1>8, <1>9 DEF RecordsInv, RecordsAgree
  <2>3. ASSUME NEW z \in Requests, sessions'[z] # None, sessions'[z].status = "COMPLETED"
        PROVE  \E q \in Requests :
                  /\ events'[q] # None /\ events'[q].type = "OUT"
                  /\ events'[q].verdict = "ACCEPTED"
                  /\ events'[q].session = z /\ events'[q].time = sessions'[z].punch_out
                  /\ \A p \in Requests \ {q} :
                        events'[p] # None /\ events'[p].type = "OUT" => events'[p].session # z
    <3>1. CASE z = s BY <3>1, <1>7, <1>8, <1>9
    <3>2. CASE z # s
      <4>1. sessions'[z] = sessions[z] BY <3>2, <1>8
      <4>2. PICK q \in Requests :
               /\ events[q] # None /\ events[q].type = "OUT"
               /\ events[q].verdict = "ACCEPTED"
               /\ events[q].session = z /\ events[q].time = sessions[z].punch_out
               /\ \A p \in Requests \ {q} :
                     events[p] # None /\ events[p].type = "OUT" => events[p].session # z
        BY <2>3, <4>1 DEF RecordsInv, RecordsAgree
      <4>3. q # r BY <1>3, <4>2
      <4> QED BY <3>2, <4>1, <4>2, <4>3, <1>7
    <3> QED BY <3>1, <3>2
  <2> QED BY <2>1, <2>2, <2>3 DEF RecordsAgree
<1>11. OutsEndSessions'
  <2> SUFFICES ASSUME NEW z \in Requests, NEW q \in Requests, events'[q] # None,
                      events'[q].type = "OUT", events'[q].session = z
               PROVE  sessions'[z] # None /\ sessions'[z].punch_out # None
    BY DEF OutsEndSessions, IsOpen
  <2>1. CASE z = s BY <2>1, <1>1, <1>8
  <2>2. CASE z # s
    <3>1. q # r /\ events[q] = events'[q] BY <2>2, <1>7
    <3> QED BY <2>2, <3>1, <1>8 DEF RecordsInv, OutsEndSessions, IsOpen
  <2> QED BY <2>1, <2>2
<1> QED BY <1>10, <1>11 DEF RecordsInv

\* A maintenance run leaves no completed session but those it did not touch.
LEMMA JobKeepsRecords ==
  ASSUME IInv, RecordsInv, NEW j \in Jobs, JobCommit(j)
  PROVE  RecordsInv'
<1>1. events' = events BY DEF JobCommit
<1>2. ASSUME NEW s \in Requests
      PROVE  \/ sessions'[s] = sessions[s]
             \/ /\ sessions[s] # None /\ sessions'[s] # None
                /\ sessions'[s].user = sessions[s].user
                /\ sessions'[s].punch_in = sessions[s].punch_in
                /\ sessions'[s].status = "AUTO_CLOSED" /\ sessions'[s].punch_out # None
  <2>1. CASE s \notin job[j].closed BY <2>1 DEF JobCommit, JobView
  <2>2. CASE s \in job[j].closed
    <3>1. sessions[s] \in SessionRow /\ sessions'[s] = AutoClosed(sessions[s])
      BY <2>2 DEF JobCommit, JobView, IInv, JobsNameSessions, LedgerTypeOK
    <3>2. sessions[s].punch_in + AutoCloseAfter \in Nat BY <3>1 DEF SessionRow
    <3> QED BY <3>1, <3>2, AutoClosedRow, NoneIsNoRow
  <2> QED BY <2>1, <2>2
<1>3. RecordsAgree'
  <2>1. \A s \in Requests : sessions'[s] # None /\ sessions'[s].status = "COMPLETED"
                             => sessions'[s] = sessions[s]
    BY <1>2
  <2>2. \A s \in Requests : /\ sessions'[s] # None <=> sessions[s] # None
                            /\ sessions[s] # None =>
                                  /\ sessions'[s].user = sessions[s].user
                                  /\ sessions'[s].punch_in = sessions[s].punch_in
    BY <1>2
  <2> QED BY <1>1, <2>1, <2>2 DEF RecordsInv, RecordsAgree
<1>4. OutsEndSessions' BY <1>1, <1>2 DEF RecordsInv, OutsEndSessions, IsOpen
<1> QED BY <1>3, <1>4 DEF RecordsInv

\* The forensic record (punch_events) and the attendance record tell one story.
THEOREM RecordsAgreeHolds == Spec => []RecordsAgree
<1>1. Init => RecordsInv BY DEF Init, RecordsInv, RecordsAgree, OutsEndSessions
<1>2. IInv /\ RecordsInv /\ [Next]_vars => RecordsInv'
  <2> SUFFICES ASSUME IInv, RecordsInv, [Next]_vars PROVE RecordsInv' OBVIOUS
  <2>1. CASE \E r \in Requests : RejectPunch(r) \/ CommitIn(r) \/ CommitOut(r)
    BY <2>1, RejectKeepsRecords, CommitInKeepsRecords, CommitOutKeepsRecords
  <2>2. CASE \E j \in Jobs : JobCommit(j) BY <2>2, JobKeepsRecords
  <2>3. CASE UNCHANGED <<sessions, events>>
    BY <2>3 DEF RecordsInv, RecordsAgree, OutsEndSessions, IsOpen
  <2> QED BY <2>1, <2>2, <2>3, StutterSteps
<1>3. RecordsInv => RecordsAgree BY DEF RecordsInv
<1> QED BY <1>1, <1>2, <1>3, InductiveInvariant, PTL DEF Spec
=============================================================================
