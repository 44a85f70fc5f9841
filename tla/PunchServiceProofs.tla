------------------------- MODULE PunchServiceProofs -------------------------
(***************************************************************************)
(* Theorems about PunchService for every number of users, requests, keys   *)
(* and maintenance processes.  The argument: a punch holds its user's row  *)
(* exclusively from LockUser to its commit (UserLockExclusive), so what it *)
(* has checked under that lock - no open session, an unspent key, the open *)
(* session it locked - still holds when it commits (ChecksStillHold).      *)
(***************************************************************************)
EXTENDS PunchProperties, TLAPS

USE ConstantsAssumption DEF Types

-----------------------------------------------------------------------------
(* Facts about the rows.                                                   *)

LEMMA DivNat == ASSUME NEW n \in Nat, NEW m \in Nat \ {0} PROVE n \div m \in Nat
  OBVIOUS

\* Completing a session sets its end, duration and status, nothing else.
LEMMA CompletedRow ==
  ASSUME NEW row \in SessionRow, NEW t \in Nat, t > row.punch_in
  PROVE  /\ Completed(row, t) \in SessionRow
         /\ Completed(row, t).user = row.user
         /\ Completed(row, t).work_date = row.work_date
         /\ Completed(row, t).punch_in = row.punch_in
         /\ Completed(row, t).punch_out = t
         /\ Completed(row, t).duration \in Nat
         /\ Completed(row, t).status = "COMPLETED"
<1>1. t - row.punch_in \in Nat BY DEF SessionRow
<1>2. Seconds(t - row.punch_in) \in Nat BY <1>1, DivNat DEF Seconds
<1> QED BY <1>2 DEF Completed, SessionRow

\* So does auto-closing it.
LEMMA AutoClosedRow ==
  ASSUME NEW row \in SessionRow
  PROVE  /\ AutoClosed(row) \in SessionRow
         /\ AutoClosed(row).user = row.user
         /\ AutoClosed(row).work_date = row.work_date
         /\ AutoClosed(row).punch_in = row.punch_in
         /\ AutoClosed(row).punch_out = row.punch_in + AutoCloseAfter
         /\ AutoClosed(row).duration \in Nat
         /\ AutoClosed(row).status = "AUTO_CLOSED"
<1>1. Seconds(AutoCloseAfter) \in Nat BY DivNat DEF Seconds
<1>2. row.punch_in + AutoCloseAfter \in Nat BY DEF SessionRow
<1> QED BY <1>1, <1>2 DEF AutoClosed, SessionRow

LEMMA WorkDateNat == ASSUME NEW t \in Nat PROVE WorkDate(t) \in Nat
  BY DivNat DEF WorkDate

-----------------------------------------------------------------------------
(* The inductive invariant.                                                *)

LEMMA InitIInv == ASSUME Init PROVE IInv
<1> USE DEF Init
<1>1. LedgerTypeOK BY DEF LedgerTypeOK
<1>2. Shapes BY DEF Shapes
<1>3. RowsAreCommitted BY DEF RowsAreCommitted, InFlight
<1>4. UserLockExclusive BY DEF UserLockExclusive, HasUserLock
<1>5. ChecksStillHold BY DEF ChecksStillHold
<1>6. JobsNameSessions BY DEF JobsNameSessions, NoJob
<1>7. OneOpenSession BY DEF OneOpenSession, IsOpen
<1>8. KeyDecidedOnce BY DEF KeyDecidedOnce
<1>9. UniqueIndexIsBackstop BY NoneIsNoRow DEF UniqueIndexIsBackstop, Answers
<1> QED BY <1>1, <1>2, <1>3, <1>4, <1>5, <1>6, <1>7, <1>8, <1>9 DEF IInv

\* What a request that is about to commit has found out still holds.
LEMMA AtWrite ==
  ASSUME IInv, NEW r \in Requests, pc[r] = "write"
  PROVE  /\ HasUserLock(r) /\ Prior(r) = {} /\ tx[r].session \in Open(req[r].user)
         /\ req[r] \in Request /\ req[r].type = "OUT" /\ req[r].now \in Nat
         /\ tx[r].session \in Requests /\ sessions[tx[r].session] \in SessionRow
         /\ req[r].now > sessions[tx[r].session].punch_in
<1>1. req[r] \in Request /\ req[r].type = "OUT"
  BY DEF IInv, RowsAreCommitted, InFlight, LedgerTypeOK
<1>2. /\ Prior(r) = {} /\ tx[r].session \in Open(req[r].user)
      /\ req[r].now > sessions[tx[r].session].punch_in
  BY DEF IInv, ChecksStillHold
<1>3. tx[r].session \in Requests /\ IsOpen(tx[r].session) BY <1>2 DEF Open
<1>4. sessions[tx[r].session] \in SessionRow BY <1>3 DEF IsOpen, IInv, LedgerTypeOK
<1> QED BY <1>1, <1>2, <1>3, <1>4 DEF HasUserLock, Request

\* A step of r that changes no session and no other request keeps the checks.
LEMMA ChecksKept ==
  ASSUME IInv, NEW r \in Requests, pc'[r] \notin {"day", "write"},
         \A q \in Requests \ {r} : pc'[q] = pc[q] /\ tx'[q] = tx[q] /\ req'[q] = req[q],
         UNCHANGED <<sessions, job>>,
         \A q \in Requests \ {r} : HasUserLock(q) /\ Prior(q) = {} => Prior(q)' = {}
  PROVE  ChecksStillHold'
<1>1. ASSUME NEW q \in Requests, pc'[q] \in {"day", "write"}
      PROVE  /\ Prior(q)' = {}
             /\ pc'[q] = "day" => Open(req[q].user)' = {}
             /\ pc'[q] = "write" =>
                   /\ tx'[q].session \in Open(req[q].user)'
                   /\ req'[q].now > sessions'[tx'[q].session].punch_in
                   /\ \A j \in Jobs : tx'[q].session \notin job'[j].closed
  <2>1. q # r /\ pc'[q] = pc[q] /\ tx'[q] = tx[q] /\ req'[q] = req[q] BY <1>1
  <2>2. HasUserLock(q) BY <1>1, <2>1 DEF HasUserLock
  <2>3. Open(req[q].user)' = Open(req[q].user) BY <2>1 DEF Open, IsOpen
  <2>4. ChecksStillHold BY DEF IInv
  <2> QED BY <1>1, <2>1, <2>2, <2>3, <2>4 DEF ChecksStillHold
<1> QED BY <1>1 DEF ChecksStillHold

\* Beginning a request reads the clock and the user row only.
LEMMA BeginStep ==
  ASSUME IInv, NEW r \in Requests, NEW u \in Users, NEW t \in Types,
         NEW k \in Keys \cup {NoKey}, Begin(r, u, t, k)
  PROVE  IInv'
<1> USE DEF IInv
<1>1. LedgerTypeOK' BY DEF Begin, LedgerTypeOK, Request, tables
<1>2. Shapes' BY DEF Begin, Shapes, tables
<1>a. req'[r] \in Request BY DEF Begin, LedgerTypeOK, Request
<1>3. RowsAreCommitted'
  BY NoneIsNoRow, <1>a DEF Begin, RowsAreCommitted, InFlight, LedgerTypeOK, tables
<1>4. UserLockExclusive' BY DEF Begin, UserLockExclusive, HasUserLock, LedgerTypeOK, tables
<1>5. ChecksStillHold'
  BY DEF Begin, ChecksStillHold, LedgerTypeOK, tables, Prior, Open, IsOpen
<1>6. JobsNameSessions' BY DEF Begin, JobsNameSessions, tables
<1>7. OneOpenSession' BY DEF Begin, OneOpenSession, IsOpen, tables
<1>8. KeyDecidedOnce' BY DEF Begin, KeyDecidedOnce, tables
<1>9. UniqueIndexIsBackstop' BY DEF Begin, UniqueIndexIsBackstop
<1> QED BY <1>1, <1>2, <1>3, <1>4, <1>5, <1>6, <1>7, <1>8, <1>9

\* Going past the user lock: nobody else of that user is past it.
LEMMA LockUserStep ==
  ASSUME IInv, NEW r \in Requests, LockUser(r)
  PROVE  IInv'
<1> USE DEF IInv
<1>1. LedgerTypeOK' BY DEF LockUser, Answer, LedgerTypeOK, tables
<1>2. Shapes' BY DEF LockUser, Answer, Shapes, tables
<1>3. RowsAreCommitted'
  BY DEF LockUser, Answer, RowsAreCommitted, InFlight, LedgerTypeOK, tables
<1>4. UserLockExclusive'
  BY DEF LockUser, Answer, UserLockExclusive, HasUserLock, HoldsUser, LedgerTypeOK, tables
<1>a. /\ pc'[r] \notin {"day", "write"} /\ UNCHANGED <<sessions, events, req, job>>
      /\ \A q \in Requests \ {r} : pc'[q] = pc[q] /\ tx'[q] = tx[q]
  BY DEF LockUser, Answer, LedgerTypeOK, Shapes, tables
<1>b. \A q \in Requests : Prior(q)' = Prior(q) BY <1>a DEF Prior
<1> HIDE DEF IInv
<1>5. ChecksStillHold' BY <1>a, <1>b, ChecksKept
<1> USE DEF IInv
<1>6. JobsNameSessions' BY DEF LockUser, JobsNameSessions, tables
<1>7. OneOpenSession' BY DEF LockUser, OneOpenSession, IsOpen, tables
<1>8. KeyDecidedOnce' BY DEF LockUser, KeyDecidedOnce, tables
<1>9. UniqueIndexIsBackstop' BY DEF LockUser, Answer, UniqueIndexIsBackstop, Shapes
<1> QED BY <1>1, <1>2, <1>3, <1>4, <1>5, <1>6, <1>7, <1>8, <1>9

\* Ending a request without writing a row (a refusal, a replay, an abort).
LEMMA NoRowStep ==
  ASSUME IInv, NEW r \in Requests, NEW c, c # "UNIQUE_VIOLATION", Answer(r, c),
         UNCHANGED <<clock, active, tables, req, job>>
  PROVE  IInv'
<1> USE DEF IInv
<1>1. LedgerTypeOK' BY DEF Answer, LedgerTypeOK, tables
<1>2. Shapes' BY DEF Answer, Shapes, tables
<1>3. RowsAreCommitted' BY DEF Answer, RowsAreCommitted, InFlight, LedgerTypeOK, tables
<1>4. UserLockExclusive' BY DEF Answer, UserLockExclusive, HasUserLock, LedgerTypeOK, tables
<1>a. /\ pc'[r] \notin {"day", "write"} /\ UNCHANGED <<sessions, events, req, job>>
      /\ \A q \in Requests \ {r} : pc'[q] = pc[q] /\ tx'[q] = tx[q]
  BY DEF Answer, LedgerTypeOK, Shapes, tables
<1>b. \A q \in Requests : Prior(q)' = Prior(q) BY <1>a DEF Prior
<1> HIDE DEF IInv
<1>5. ChecksStillHold' BY <1>a, <1>b, ChecksKept
<1> USE DEF IInv
<1>6. JobsNameSessions' BY DEF JobsNameSessions, tables
<1>7. OneOpenSession' BY DEF OneOpenSession, IsOpen, tables
<1>8. KeyDecidedOnce' BY DEF KeyDecidedOnce, tables
<1>9. UniqueIndexIsBackstop' BY DEF Answer, UniqueIndexIsBackstop, Shapes
<1> QED BY <1>1, <1>2, <1>3, <1>4, <1>5, <1>6, <1>7, <1>8, <1>9

\* r ends by inserting an event, with or without a change to its user's
\* sessions: no other request of that user is past the lock, so the checks of
\* the others are untouched, and its key was unspent.
LEMMA EventStep ==
  ASSUME IInv, NEW r \in Requests, NEW v \in {"ACCEPTED", "REJECTED"},
         NEW s \in Requests \cup {None}, HasUserLock(r), Prior(r) = {},
         events' = [events EXCEPT ![r] = Event(r, v, s)], UNCHANGED req,
         pc' = [pc EXCEPT ![r] = "done"]
  PROVE  /\ Event(r, v, s) \in EventRow
         /\ UserLockExclusive'
         /\ KeyDecidedOnce'
         /\ \A q \in Requests : HasUserLock(q)' /\ Prior(q) = {} => Prior(q)' = {}
         /\ \A q \in Requests : HasUserLock(q)' => req[q].user # req[r].user
<1> USE DEF IInv
<1>1. req[r] \in Request BY DEF HasUserLock, RowsAreCommitted, InFlight, LedgerTypeOK
<1>2. Event(r, v, s) \in EventRow BY <1>1 DEF Event, EventRow, Request
<1>3. UserLockExclusive' BY DEF UserLockExclusive, HasUserLock, LedgerTypeOK
<1>4. KeyDecidedOnce'
  BY DEF KeyDecidedOnce, Prior, Event, LedgerTypeOK
<1>5. \A q \in Requests : HasUserLock(q)' => req[q].user # req[r].user
  BY DEF UserLockExclusive, HasUserLock, LedgerTypeOK
<1>6. \A q \in Requests : HasUserLock(q)' /\ Prior(q) = {} => Prior(q)' = {}
  BY <1>5 DEF Prior, Event, LedgerTypeOK
<1> QED BY <1>2, <1>3, <1>4, <1>5, <1>6

LEMMA RejectPunchStep ==
  ASSUME IInv, NEW r \in Requests, RejectPunch(r)
  PROVE  IInv'
<1> USE DEF IInv
<1>0. /\ HasUserLock(r) /\ Prior(r) = {}
      /\ Answer(r, "REJECTED") /\ events' = [events EXCEPT ![r] = Event(r, "REJECTED", None)]
      /\ UNCHANGED <<clock, active, sessions, days, req, job>>
  BY DEF RejectPunch, Legal, HasUserLock
<1> HIDE DEF IInv
<1>e. /\ Event(r, "REJECTED", None) \in EventRow
      /\ UserLockExclusive' /\ KeyDecidedOnce'
      /\ \A q \in Requests : HasUserLock(q)' /\ Prior(q) = {} => Prior(q)' = {}
      /\ \A q \in Requests : HasUserLock(q)' => req[q].user # req[r].user
  BY <1>0, EventStep DEF Answer
<1> USE DEF IInv
<1>1. LedgerTypeOK' BY <1>0, <1>e DEF Answer, LedgerTypeOK
<1>2. Shapes' BY <1>0 DEF Answer, Shapes
<1>3. RowsAreCommitted' BY <1>0 DEF Answer, RowsAreCommitted, InFlight, LedgerTypeOK
<1>a. /\ pc'[r] \notin {"day", "write"}
      /\ \A q \in Requests \ {r} : pc'[q] = pc[q] /\ tx'[q] = tx[q]
  BY <1>0 DEF Answer, LedgerTypeOK, Shapes
<1>b. \A q \in Requests \ {r} : HasUserLock(q) => HasUserLock(q)'
  BY <1>0, <1>a DEF HasUserLock
<1> HIDE DEF IInv
<1>5. ChecksStillHold' BY <1>0, <1>a, <1>b, <1>e, ChecksKept
<1> USE DEF IInv
<1>6. JobsNameSessions' BY <1>0 DEF JobsNameSessions
<1>7. OneOpenSession' BY <1>0 DEF OneOpenSession, IsOpen
<1>9. UniqueIndexIsBackstop' BY <1>0 DEF Answer, UniqueIndexIsBackstop, Shapes
<1> QED BY <1>1, <1>2, <1>3, <1>e, <1>5, <1>6, <1>7, <1>9

\* The location was accepted and no session is open: r goes on to its day row.
LEMMA AcceptInStep ==
  ASSUME IInv, NEW r \in Requests, AcceptIn(r)
  PROVE  IInv'
<1> USE DEF IInv, AcceptIn, tables
<1>0. req[r].type = "IN"
  <2>1. req[r].type # "IN" => None \in Requests BY DEF Legal, Open
  <2> QED BY <2>1
<1>1. LedgerTypeOK' BY DEF LedgerTypeOK
<1>2. Shapes' BY DEF Shapes
<1>3. RowsAreCommitted' BY <1>0 DEF Legal, RowsAreCommitted, InFlight, LedgerTypeOK
<1>4. UserLockExclusive' BY DEF Legal, UserLockExclusive, HasUserLock, LedgerTypeOK
<1>5. ChecksStillHold'
  BY <1>0 DEF Legal, ChecksStillHold, LedgerTypeOK, Prior, Open, IsOpen
<1>6. JobsNameSessions' BY DEF JobsNameSessions
<1>7. OneOpenSession' BY DEF OneOpenSession, IsOpen
<1>8. KeyDecidedOnce' BY DEF KeyDecidedOnce
<1>9. UniqueIndexIsBackstop' BY DEF UniqueIndexIsBackstop
<1> QED BY <1>1, <1>2, <1>3, <1>4, <1>5, <1>6, <1>7, <1>8, <1>9

\* The session r found is locked by no run of the maintenance job.
LEMMA AcceptOutStep ==
  ASSUME IInv, NEW r \in Requests, AcceptOut(r)
  PROVE  IInv'
<1> USE DEF IInv
<1>0. PICK s \in Requests :
        /\ Legal(r, s) /\ req[r].now > sessions[s].punch_in
        /\ \E l, m : tx' = [tx EXCEPT ![r] = [session |-> s, loaded |-> l, totals |-> m]]
        /\ pc' = [pc EXCEPT ![r] = "write"]
        /\ UNCHANGED <<clock, active, tables, req, answer, job, crashes>>
  BY DEF AcceptOut
<1> USE DEF tables
<1>a. /\ pc[r] = "locked" /\ Prior(r) = {} /\ req[r].type = "OUT"
      /\ s \in Open(req[r].user) /\ SessionFree(r, s)
  <2>1. req[r].type \in Types BY <1>0 DEF Legal, RowsAreCommitted, InFlight, LedgerTypeOK, Request
  <2> QED BY <1>0, <2>1 DEF Legal
<1>b. \A j \in Jobs : s \notin job[j].closed
  BY <1>a DEF SessionFree, HoldsSession, Procs
<1>c. tx'[r].session = s BY <1>0 DEF Shapes
<1>1. LedgerTypeOK' BY <1>0 DEF LedgerTypeOK
<1>2. Shapes' BY <1>0 DEF Shapes
<1>3. RowsAreCommitted' BY <1>0, <1>a DEF RowsAreCommitted, InFlight, LedgerTypeOK
<1>4. UserLockExclusive' BY <1>0, <1>a DEF UserLockExclusive, HasUserLock, LedgerTypeOK
<1>5. ChecksStillHold'
  BY <1>0, <1>a, <1>b, <1>c DEF ChecksStillHold, LedgerTypeOK, Shapes, Prior, Open, IsOpen
<1>6. JobsNameSessions' BY <1>0 DEF JobsNameSessions
<1>7. OneOpenSession' BY <1>0 DEF OneOpenSession, IsOpen
<1>8. KeyDecidedOnce' BY <1>0 DEF KeyDecidedOnce
<1>9. UniqueIndexIsBackstop' BY <1>0 DEF UniqueIndexIsBackstop
<1> QED BY <1>1, <1>2, <1>3, <1>4, <1>5, <1>6, <1>7, <1>8, <1>9

\* The new session is the only open one of its user.
LEMMA CommitInStep ==
  ASSUME IInv, NEW r \in Requests, CommitIn(r)
  PROVE  IInv'
<1> DEFINE new == [user |-> req[r].user, work_date |-> WorkDate(req[r].now),
                   punch_in |-> req[r].now, punch_out |-> None, duration |-> None,
                   status |-> "ACTIVE"]
<1>0. /\ HasUserLock(r) /\ Prior(r) = {} /\ Open(req[r].user) = {} /\ pc[r] = "day"
      /\ req[r] \in Request /\ sessions[r] = None
  BY DEF CommitIn, HasUserLock, IInv, ChecksStillHold, RowsAreCommitted, InFlight,
         LedgerTypeOK
<1>a. /\ sessions' = [sessions EXCEPT ![r] = new]
      /\ events' = [events EXCEPT ![r] = Event(r, "ACCEPTED", r)]
      /\ Answer(r, "PUNCHED_IN")
      /\ UNCHANGED <<clock, active, req, job, crashes>>
  BY <1>0 DEF CommitIn
<1>b. new \in SessionRow
  BY <1>0, WorkDateNat DEF Request, SessionRow
<1>e. /\ Event(r, "ACCEPTED", r) \in EventRow
      /\ UserLockExclusive' /\ KeyDecidedOnce'
      /\ \A q \in Requests : HasUserLock(q)' /\ Prior(q) = {} => Prior(q)' = {}
      /\ \A q \in Requests : HasUserLock(q)' => req[q].user # req[r].user
  BY <1>0, <1>a, EventStep DEF Answer
<1> HIDE DEF new
<1>f. new # None /\ new.user = req[r].user /\ new.punch_out = None
  BY <1>b, NoneIsNoRow DEF new
<1> USE DEF IInv
<1>1. LedgerTypeOK' BY <1>a, <1>b, <1>e DEF Answer, LedgerTypeOK
<1>2. Shapes' BY <1>a DEF Answer, Shapes
<1>3. RowsAreCommitted' BY <1>a DEF Answer, RowsAreCommitted, InFlight, LedgerTypeOK
<1>5. ChecksStillHold'
  <2> SUFFICES ASSUME NEW q \in Requests, HasUserLock(q)', q # r
               PROVE  /\ Prior(q)' = {} \/ pc'[q] = "locked"
                      /\ pc'[q] = "day" => Open(req[q].user)' = {}
                      /\ pc'[q] = "write" =>
                            /\ tx'[q].session \in Open(req[q].user)'
                            /\ req'[q].now > sessions'[tx'[q].session].punch_in
                            /\ \A j \in Jobs : tx'[q].session \notin job'[j].closed
    <3>1. ~HasUserLock(r)' BY <1>a DEF HasUserLock, Answer, LedgerTypeOK
    <3> QED BY <3>1 DEF ChecksStillHold, HasUserLock
  <2>1. pc'[q] = pc[q] /\ tx'[q] = tx[q] /\ req'[q] = req[q] /\ job' = job
    BY <1>a DEF Answer, LedgerTypeOK, Shapes
  <2>2. req[q].user # req[r].user BY <1>e
  <2>3. Open(req[q].user)' = Open(req[q].user)
    BY <1>a, <1>f, <2>2, <1>0 DEF Open, IsOpen, LedgerTypeOK
  <2>4. pc[q] = "write" => sessions'[tx[q].session] = sessions[tx[q].session]
    BY <1>a, <1>0 DEF ChecksStillHold, Open, IsOpen, LedgerTypeOK
  <2> QED BY <2>1, <2>3, <2>4, <1>e DEF ChecksStillHold, HasUserLock
<1>6. JobsNameSessions' BY <1>a, <1>f DEF JobsNameSessions, LedgerTypeOK
<1>7. OneOpenSession' BY <1>0, <1>a, <1>f DEF OneOpenSession, IsOpen, Open, LedgerTypeOK
<1>9. UniqueIndexIsBackstop' BY <1>a DEF Answer, UniqueIndexIsBackstop, Shapes
<1> QED BY <1>1, <1>2, <1>3, <1>e, <1>5, <1>6, <1>7, <1>9

\* The session r locked is still the one open session of its user, and after
\* the commit that user has none.
LEMMA CommitOutStep ==
  ASSUME IInv, NEW r \in Requests, CommitOut(r)
  PROVE  IInv'
<1> DEFINE s == tx[r].session
           row == Completed(sessions[s], req[r].now)
<1>0. /\ HasUserLock(r) /\ Prior(r) = {} /\ s \in Open(req[r].user) /\ pc[r] = "write"
      /\ req[r] \in Request /\ s \in Requests /\ sessions[s] \in SessionRow
      /\ req[r].now > sessions[s].punch_in
  BY AtWrite DEF CommitOut
<1>a. /\ sessions' = [sessions EXCEPT ![s] = row]
      /\ events' = [events EXCEPT ![r] = Event(r, "ACCEPTED", s)]
      /\ Answer(r, "PUNCHED_OUT")
      /\ UNCHANGED <<clock, active, req, job, crashes>>
  BY DEF CommitOut
<1>b. /\ row \in SessionRow /\ row.user = req[r].user /\ row.punch_out # None
      /\ row.punch_in = sessions[s].punch_in
  <2>1. req[r].now \in Nat BY <1>0 DEF Request
  <2> QED BY <1>0, <2>1, CompletedRow DEF Open
<1>e. /\ Event(r, "ACCEPTED", s) \in EventRow
      /\ UserLockExclusive' /\ KeyDecidedOnce'
      /\ \A q \in Requests : HasUserLock(q)' /\ Prior(q) = {} => Prior(q)' = {}
      /\ \A q \in Requests : HasUserLock(q)' => req[q].user # req[r].user
  BY <1>0, <1>a, EventStep DEF Answer
<1> HIDE DEF row, s
<1>f. row # None BY <1>b, NoneIsNoRow
<1> USE DEF IInv
<1>1. LedgerTypeOK' BY <1>a, <1>b, <1>e DEF Answer, LedgerTypeOK
<1>2. Shapes' BY <1>a DEF Answer, Shapes
<1>3. RowsAreCommitted' 
  BY <1>0, <1>a DEF Answer, RowsAreCommitted, InFlight, LedgerTypeOK, Open, IsOpen
<1>5. ChecksStillHold'
  <2> SUFFICES ASSUME NEW q \in Requests, HasUserLock(q)', q # r
               PROVE  /\ Prior(q)' = {} \/ pc'[q] = "locked"
                      /\ pc'[q] = "day" => Open(req[q].user)' = {}
                      /\ pc'[q] = "write" =>
                            /\ tx'[q].session \in Open(req[q].user)'
                            /\ req'[q].now > sessions'[tx'[q].session].punch_in
                            /\ \A j \in Jobs : tx'[q].session \notin job'[j].closed
    <3>1. ~HasUserLock(r)' BY <1>a DEF HasUserLock, Answer, LedgerTypeOK
    <3> QED BY <3>1 DEF ChecksStillHold, HasUserLock
  <2>1. pc'[q] = pc[q] /\ tx'[q] = tx[q] /\ req'[q] = req[q] /\ job' = job
    BY <1>a DEF Answer, LedgerTypeOK, Shapes
  <2>2. req[q].user # req[r].user BY <1>e
  <2>3. Open(req[q].user)' = Open(req[q].user)
    BY <1>a, <1>b, <1>f, <2>2, <1>0 DEF Open, IsOpen, LedgerTypeOK
  <2>4. pc[q] = "write" => sessions'[tx[q].session] = sessions[tx[q].session]
    BY <1>a, <1>0, <2>1, <2>2 DEF ChecksStillHold, Open, IsOpen, LedgerTypeOK
  <2> QED BY <2>1, <2>3, <2>4, <1>e DEF ChecksStillHold, HasUserLock
<1>6. JobsNameSessions' BY <1>a, <1>f DEF JobsNameSessions, LedgerTypeOK
<1>7. OneOpenSession' BY <1>0, <1>a, <1>b, <1>f DEF OneOpenSession, IsOpen, LedgerTypeOK
<1>9. UniqueIndexIsBackstop' BY <1>a DEF Answer, UniqueIndexIsBackstop, Shapes
<1> QED BY <1>1, <1>2, <1>3, <1>e, <1>5, <1>6, <1>7, <1>9

\* A maintenance step before the commit changes its own record only, and adds
\* to closed no session that a punch_out has locked.
LEMMA JobStep ==
  ASSUME IInv, NEW j \in Jobs,
         UNCHANGED <<clock, active, tables, pc, req, tx, answer>>,
         Shapes', JobsNameSessions',
         \A i \in Jobs, s \in Requests :
            s \in job'[i].closed => s \in job[i].closed \/ SessionFree(i, s)
  PROVE  IInv'
<1> USE DEF IInv, tables
<1>1. LedgerTypeOK' BY DEF LedgerTypeOK
<1>3. RowsAreCommitted' BY DEF RowsAreCommitted, InFlight
<1>4. UserLockExclusive' BY DEF UserLockExclusive, HasUserLock
<1>5. ChecksStillHold'
  <2>1. \A r \in Requests, i \in Jobs : pc[r] = "write" => ~SessionFree(i, tx[r].session)
    BY DEF SessionFree, Procs, HoldsSession
  <2> QED BY <2>1 DEF ChecksStillHold, Prior, Open, IsOpen
<1>7. OneOpenSession' BY DEF OneOpenSession, IsOpen
<1>8. KeyDecidedOnce' BY DEF KeyDecidedOnce
<1>9. UniqueIndexIsBackstop' BY DEF UniqueIndexIsBackstop
<1> QED BY <1>1, <1>3, <1>4, <1>5, <1>7, <1>8, <1>9

\* The maintenance run commits: sessions no punch holds are closed, none opens.
LEMMA JobCommitStep ==
  ASSUME IInv, NEW j \in Jobs, JobCommit(j)
  PROVE  IInv'
<1> USE DEF IInv
<1>0. /\ sessions' = JobView(j) /\ job' = [job EXCEPT ![j] = NoJob]
      /\ UNCHANGED <<clock, active, events, pc, req, tx, answer, crashes>>
  BY DEF JobCommit
<1>a. \A s \in Requests :
        IF s \in job[j].closed
        THEN /\ sessions[s] \in SessionRow /\ sessions'[s] = AutoClosed(sessions[s])
             /\ sessions'[s] \in SessionRow /\ sessions'[s].punch_out # None
             /\ sessions'[s].user = sessions[s].user
        ELSE sessions'[s] = sessions[s]
  <2> SUFFICES ASSUME NEW s \in Requests, s \in job[j].closed
               PROVE  /\ sessions[s] \in SessionRow /\ sessions'[s] = AutoClosed(sessions[s])
                      /\ sessions'[s] \in SessionRow /\ sessions'[s].punch_out # None
                      /\ sessions'[s].user = sessions[s].user
    BY <1>0 DEF JobView
  <2>1. sessions[s] \in SessionRow BY DEF JobsNameSessions, LedgerTypeOK
  <2>2. sessions'[s] = AutoClosed(sessions[s]) BY <1>0 DEF JobView
  <2>3. sessions[s].punch_in + AutoCloseAfter \in Nat BY <2>1 DEF SessionRow
  <2> QED BY <2>1, <2>2, <2>3, AutoClosedRow
<1>b. \A s \in Requests : IsOpen(s)' => IsOpen(s) /\ sessions'[s] = sessions[s]
  BY <1>a DEF IsOpen
<1>1. LedgerTypeOK'
  <2>1. sessions' \in [Requests -> SessionRow \cup {None}]
    BY <1>0, <1>a DEF JobView, LedgerTypeOK
  <2> QED BY <1>0, <2>1 DEF LedgerTypeOK
<1>2. Shapes' BY <1>0 DEF Shapes
<1>3. RowsAreCommitted' BY <1>0, <1>a, NoneIsNoRow DEF RowsAreCommitted, InFlight
<1>4. UserLockExclusive' BY <1>0 DEF UserLockExclusive, HasUserLock
<1>5. ChecksStillHold'
  <2> SUFFICES ASSUME NEW r \in Requests
               PROVE  /\ pc[r] \in {"day", "write"} => Prior(r)' = {}
                      /\ pc[r] = "day" => Open(req[r].user)' = {}
                      /\ pc[r] = "write" =>
                            /\ tx[r].session \in Open(req[r].user)'
                            /\ req[r].now > sessions'[tx[r].session].punch_in
                            /\ \A i \in Jobs : tx[r].session \notin job'[i].closed
    BY <1>0 DEF ChecksStillHold
  <2>1. Prior(r)' = Prior(r) BY <1>0 DEF Prior
  <2>2. Open(req[r].user)' \subseteq Open(req[r].user) BY <1>0, <1>b DEF Open
  <2>3. pc[r] = "write" =>
           /\ tx[r].session \in Requests
           /\ sessions'[tx[r].session] = sessions[tx[r].session]
           /\ tx[r].session \in Open(req[r].user)'
    BY <1>0, <1>a DEF ChecksStillHold, Open, IsOpen
  <2>4. \A i \in Jobs : job'[i].closed \subseteq job[i].closed
    BY <1>0 DEF NoJob, Shapes
  <2> QED BY <2>1, <2>2, <2>3, <2>4 DEF ChecksStillHold
<1>6. JobsNameSessions'
  <2> SUFFICES ASSUME NEW i \in Jobs, NEW s \in Requests,
                      s \in job'[i].todo \cup job'[i].closed \cup {job'[i].cur}
               PROVE  sessions'[s] # None
    BY DEF JobsNameSessions
  <2>1. i # j BY <1>0 DEF NoJob, Shapes
  <2>2. sessions[s] # None BY <2>1, <1>0 DEF JobsNameSessions, Shapes
  <2> QED BY <2>2, <1>a, NoneIsNoRow
<1>7. OneOpenSession' BY <1>b DEF OneOpenSession
<1>8. KeyDecidedOnce' BY <1>0 DEF KeyDecidedOnce
<1>9. UniqueIndexIsBackstop' BY <1>0 DEF UniqueIndexIsBackstop
<1> QED BY <1>1, <1>2, <1>3, <1>4, <1>5, <1>6, <1>7, <1>8, <1>9

LEMMA MaintainStep ==
  ASSUME IInv, NEW j \in Jobs, Maintain(j)
  PROVE  IInv'
<1> USE DEF IInv
<1>1. CASE JobBegin(j)
  <2>0. PICK s \in {x \in Requests : Stale(x)} :
           job' = [job EXCEPT ![j].stage = "update", ![j].cur = s,
                              ![j].todo = {x \in Requests : Stale(x)} \ {s}]
    BY <1>1 DEF JobBegin
  <2>u. UNCHANGED <<clock, active, tables, pc, req, tx, answer>> BY <1>1 DEF JobBegin
  <2>1. Shapes' BY <2>0, <2>u DEF Shapes
  <2>2. \A i \in Jobs : /\ job'[i].closed = job[i].closed
                        /\ i # j => job'[i] = job[i]
                        /\ i = j => /\ job'[i].cur = s
                                    /\ job'[i].todo = {x \in Requests : Stale(x)} \ {s}
    BY <2>0 DEF Shapes, NoJob
  <2>3. JobsNameSessions'
    <3>1. \A x \in Requests : Stale(x) => sessions[x] # None BY DEF Stale, IsOpen
    <3>2. sessions' = sessions BY <2>u DEF tables
    <3> QED BY <2>2, <3>1, <3>2 DEF JobsNameSessions
  <2> QED BY <2>1, <2>2, <2>3, <2>u, JobStep
<1>2. CASE JobUpdate(j)
  <2>u. UNCHANGED <<clock, active, tables, pc, req, tx, answer>> BY <1>2 DEF JobUpdate
  <2>1. Shapes' BY <1>2 DEF JobUpdate, Shapes
  <2>2. \A i \in Jobs : /\ job'[i].todo = job[i].todo /\ job'[i].cur = job[i].cur
                        /\ job'[i].closed = IF i = j THEN job[i].closed \cup {job[i].cur}
                                                     ELSE job[i].closed
    BY <1>2 DEF JobUpdate, Shapes, NoJob
  <2>3. JobsNameSessions' BY <2>2, <2>u DEF JobsNameSessions, tables
  <2>4. SessionFree(j, job[j].cur) BY <1>2 DEF JobUpdate
  <2> QED BY <2>1, <2>2, <2>3, <2>4, <2>u, JobStep
<1>3. CASE JobAudit(j)
  <2>1. Shapes' BY <1>3 DEF JobAudit, Shapes
  <2>2. \A i \in Jobs : /\ job'[i].todo = job[i].todo /\ job'[i].cur = job[i].cur
                        /\ job'[i].closed = job[i].closed
    BY <1>3 DEF JobAudit, Shapes, NoJob
  <2>3. JobsNameSessions' BY <1>3, <2>2 DEF JobAudit, JobsNameSessions, tables
  <2> QED BY <1>3, <2>1, <2>2, <2>3, JobStep DEF JobAudit
<1>4. CASE JobLoadDay(j)
  <2>1. Shapes' BY <1>4 DEF JobLoadDay, Shapes
  <2>2. \A i \in Jobs : /\ job'[i].todo = job[i].todo /\ job'[i].cur = job[i].cur
                        /\ job'[i].closed = job[i].closed
    BY <1>4 DEF JobLoadDay, Shapes, NoJob
  <2>3. JobsNameSessions' BY <1>4, <2>2 DEF JobLoadDay, JobsNameSessions, tables
  <2> QED BY <1>4, <2>1, <2>2, <2>3, JobStep DEF JobLoadDay
<1>5. CASE JobSum(j)
  <2>1. Shapes' BY <1>5 DEF JobSum, Shapes
  <2>2. \A i \in Jobs : /\ job'[i].todo = job[i].todo /\ job'[i].cur = job[i].cur
                        /\ job'[i].closed = job[i].closed
    BY <1>5 DEF JobSum, Shapes, NoJob
  <2>3. JobsNameSessions' BY <1>5, <2>2 DEF JobSum, JobsNameSessions, tables
  <2> QED BY <1>5, <2>1, <2>2, <2>3, JobStep DEF JobSum
<1>6. CASE JobWriteDay(j)
  <2> DEFINE S == IF job[j].todo = {} THEN {None} ELSE job[j].todo
             T == IF job[j].todo = {} THEN {"commit"} ELSE {"audit", "update"}
             stored == sessions[job[j].cur]
             new == Overwrite(job[j].loaded, job[j].loaded, job[j].totals)
             written == IF new = job[j].loaded THEN None
                        ELSE Overwrite(days[stored.user][stored.work_date],
                                       job[j].loaded, job[j].totals)
  <2>a. \E s \in S, st \in T :
           job' = [job EXCEPT ![j] =
                     [job[j] EXCEPT !.stage = st, !.cur = s, !.todo = @ \ {s},
                         !.owed = stored.user, !.loaded = None, !.totals = None,
                         !.rows[job[j].cur] = written]]
    BY <1>6, Zenon DEF JobWriteDay
  <2>b. S \subseteq job[j].todo \cup {None} OBVIOUS
  <2> HIDE DEF S, T, written, stored
  <2>0. PICK s \in S, st \in T :
           job' = [job EXCEPT ![j] =
                     [job[j] EXCEPT !.stage = st, !.cur = s, !.todo = @ \ {s},
                         !.owed = stored.user, !.loaded = None, !.totals = None,
                         !.rows[job[j].cur] = written]]
    BY <2>a
  <2>u. UNCHANGED <<clock, active, tables, pc, req, tx, answer>> BY <1>6 DEF JobWriteDay
  <2>1. Shapes'
    <3>1. tx' = tx /\ answer' = answer BY <2>u
    <3>2. job' = [i \in Jobs |-> job'[i]] BY <2>0 DEF Shapes
    <3>3. \A i \in Jobs : DOMAIN job'[i] = DOMAIN job[i] BY <2>0 DEF Shapes
    <3> QED BY <3>1, <3>2, <3>3 DEF Shapes
  <2>2. \A i \in Jobs : /\ job'[i].todo \subseteq job[i].todo
                        /\ job'[i].cur \in job[i].todo \cup {None, job[i].cur}
                        /\ job'[i].closed = job[i].closed
    BY <2>0, <2>b DEF Shapes, NoJob
  <2>3. JobsNameSessions'
    <3>1. None \notin Requests OBVIOUS
    <3>2. sessions' = sessions BY <2>u DEF tables
    <3> QED BY <2>2, <3>1, <3>2 DEF JobsNameSessions
  <2> QED BY <2>1, <2>2, <2>3, <2>u, JobStep
<1>7. CASE JobCommit(j) BY <1>7, JobCommitStep
<1> QED BY <1>1, <1>2, <1>3, <1>4, <1>5, <1>6, <1>7 DEF Maintain

LEMMA AbortStep ==
  ASSUME IInv, NEW p \in Procs, Abort(p)
  PROVE  IInv'
<1>1. CASE p \in Jobs
  <2>0. job' = [job EXCEPT ![p] = NoJob] /\ UNCHANGED <<clock, active, tables, pc, req, tx, answer>>
    BY <1>1 DEF Abort
  <2>1. Shapes' BY <2>0 DEF IInv, Shapes
  <2>2. JobsNameSessions' BY <2>0 DEF IInv, JobsNameSessions, Shapes, NoJob, tables
  <2>3. \A i \in Jobs : job'[i].closed \subseteq job[i].closed
    BY <2>0 DEF IInv, Shapes, NoJob
  <2> QED BY <1>1, <2>0, <2>1, <2>2, <2>3, JobStep
<1>2. CASE p \notin Jobs
  <2>1. p \in Requests /\ Answer(p, "ABORTED") /\ UNCHANGED <<clock, active, tables, req, job>>
    BY <1>2 DEF Abort, Procs
  <2> QED BY <2>1, NoRowStep
<1> QED BY <1>1, <1>2

\* The clock and the accounts are read by a request when it begins, only.
LEMMA EnvironmentStep ==
  ASSUME IInv, UNCHANGED <<tables, pc, req, tx, answer, job>>,
         clock' \in Nat, active' \in [Users -> BOOLEAN]
  PROVE  IInv'
<1> USE DEF IInv, tables
<1>1. LedgerTypeOK' BY DEF LedgerTypeOK
<1>2. Shapes' BY DEF Shapes
<1>3. RowsAreCommitted' BY DEF RowsAreCommitted, InFlight
<1>4. UserLockExclusive' BY DEF UserLockExclusive, HasUserLock
<1>5. ChecksStillHold' BY DEF ChecksStillHold, Prior, Open, IsOpen
<1>6. JobsNameSessions' BY DEF JobsNameSessions
<1>7. OneOpenSession' BY DEF OneOpenSession, IsOpen
<1>8. KeyDecidedOnce' BY DEF KeyDecidedOnce
<1>9. UniqueIndexIsBackstop' BY DEF UniqueIndexIsBackstop
<1> QED BY <1>1, <1>2, <1>3, <1>4, <1>5, <1>6, <1>7, <1>8, <1>9

LEMMA PunchStep ==
  ASSUME IInv, NEW r \in Requests, Punch(r)
  PROVE  IInv'
<1>1. CASE \E u \in Users, t \in Types, k \in Keys \cup {NoKey} : Begin(r, u, t, k)
  BY <1>1, BeginStep
<1>2. CASE \E u \in Users : TurnAway(r, u) BY <1>2, NoRowStep DEF TurnAway
<1>3. CASE LockUser(r) BY <1>3, LockUserStep
<1>4. CASE Replay(r)
  <2>1. PICK c \in {"REPLAY_REJECTED", "DUPLICATE_REQUEST", "REPLAYED"} : Answer(r, c)
    BY <1>4, Zenon DEF Replay
  <2> QED BY <1>4, <2>1, NoRowStep DEF Replay
<1>5. CASE RefuseIn(r) BY <1>5, NoRowStep DEF RefuseIn
<1>6. CASE RefuseOut(r) BY <1>6, NoRowStep DEF RefuseOut
<1>7. CASE RejectPunch(r) BY <1>7, RejectPunchStep
<1>8. CASE AcceptIn(r) BY <1>8, AcceptInStep
<1>9. CASE CommitIn(r) BY <1>9, CommitInStep
<1>10. CASE RefuseTime(r) BY <1>10, NoRowStep DEF RefuseTime
<1>11. CASE AcceptOut(r) BY <1>11, AcceptOutStep
<1>12. CASE CommitOut(r) BY <1>12, CommitOutStep
<1> QED BY <1>1, <1>2, <1>3, <1>4, <1>5, <1>6, <1>7, <1>8, <1>9, <1>10, <1>11, <1>12
        DEF Punch

LEMMA NextIInv == ASSUME IInv, [Next]_vars PROVE IInv'
<1>1. CASE \E r \in Requests : Punch(r) BY <1>1, PunchStep
<1>2. CASE \E j \in Jobs : Maintain(j) BY <1>2, MaintainStep
<1>3. CASE \E p \in Procs : BreakWaitCycle(p) \/ Crash(p)
  BY <1>3, AbortStep DEF BreakWaitCycle, Crash
<1>4. CASE \E u \in Managed : SetStatus(u)
  BY <1>4, EnvironmentStep DEF SetStatus, IInv, LedgerTypeOK
<1>5. CASE Tick BY <1>5, EnvironmentStep DEF Tick, IInv, LedgerTypeOK
<1>6. CASE Quiescent \/ UNCHANGED vars
  BY <1>6, EnvironmentStep DEF Quiescent, vars, tables, IInv, LedgerTypeOK
<1> QED BY <1>1, <1>2, <1>3, <1>4, <1>5, <1>6 DEF Next

\* IInv holds in every reachable state, whatever the constants are.
THEOREM InductiveInvariant == Spec => []IInv
  BY InitIInv, NextIInv, PTL DEF Spec

\* At most one open session per user, whatever interleaves.
THEOREM OneOpenSessionHolds == Spec => []OneOpenSession
  BY InductiveInvariant, PTL DEF IInv

\* The unique index is never what refuses a punch: the user lock is enough.
THEOREM UniqueIndexIsBackstopHolds == Spec => []UniqueIndexIsBackstop
  BY InductiveInvariant, PTL DEF IInv

\* No idempotency key decides two punches of one user.
THEOREM KeyDecidedOnceHolds == Spec => []KeyDecidedOnce
  BY InductiveInvariant, PTL DEF IInv

\* Type correctness of the control state and of the sessions and events.
THEOREM LedgerTypes == Spec => []LedgerTypeOK
  BY InductiveInvariant, PTL DEF IInv

-----------------------------------------------------------------------------
(* The refinement of Attendance.                                           *)

LEMMA SameLedger ==
  ASSUME UNCHANGED <<sessions, events>> PROVE UNCHANGED <<Present, Decided>>
  BY DEF Present, Decided, Open, IsOpen

\* Inserting an event decides a request, with a key that was unspent.
LEMMA EventDecides ==
  ASSUME IInv, NEW r \in Requests, NEW v \in {"ACCEPTED", "REJECTED"},
         NEW s \in Requests \cup {None}, HasUserLock(r), Prior(r) = {},
         events' = [events EXCEPT ![r] = Event(r, v, s)]
  PROVE  /\ req[r].user \in Users /\ req[r].key \in Keys \cup {NoKey}
         /\ A!Decide(r, req[r].user, req[r].key,
                     IF v = "ACCEPTED" THEN req[r].type ELSE "REJECTED")
<1> DEFINE e == Event(r, v, s)
           effect == IF v = "ACCEPTED" THEN req[r].type ELSE "REJECTED"
<1>1. req[r] \in Request /\ events[r] = None
  BY DEF IInv, HasUserLock, RowsAreCommitted, InFlight, LedgerTypeOK
<1>2. req[r].user \in Users /\ req[r].key \in Keys \cup {NoKey} BY <1>1 DEF Request
<1>3. e \in EventRow BY <1>1 DEF Event, EventRow, Request
<1>4. /\ e # None /\ e.user = req[r].user /\ e.key = req[r].key
      /\ e.type = req[r].type /\ e.verdict = v
  BY <1>3, NoneIsNoRow DEF Event
<1>5. events' = [events EXCEPT ![r] = e] /\ events = [q \in Requests |-> events[q]]
  BY DEF IInv, LedgerTypeOK
<1> HIDE DEF e
<1>6. Decided[r] = None BY <1>1 DEF Decided
<1>7. req[r].key # NoKey => \A q \in Requests :
         \/ Decided[q] = None
         \/ Decided[q].user # req[r].user \/ Decided[q].key # req[r].key
  BY DEF Decided, Prior
<1>8. Decided' = [Decided EXCEPT ![r] =
                     [user |-> req[r].user, key |-> req[r].key, effect |-> effect]]
  BY <1>4, <1>5 DEF Decided
<1> QED BY <1>2, <1>6, <1>7, <1>8 DEF A!Decide

LEMMA RejectRefines ==
  ASSUME IInv, NEW r \in Requests, RejectPunch(r) PROVE A!Next
<1>1. /\ HasUserLock(r) /\ Prior(r) = {} /\ UNCHANGED sessions
      /\ events' = [events EXCEPT ![r] = Event(r, "REJECTED", None)]
  BY DEF RejectPunch, Legal, HasUserLock
<1>2. UNCHANGED Present BY <1>1 DEF Present, Open, IsOpen
<1> QED BY <1>1, <1>2, EventDecides DEF A!Next, A!RejectPunch

\* A step that changes the open sessions of one user only.
LEMMA FlipPresence ==
  ASSUME NEW u \in Users, \A v \in Users : v # u => Open(v)' = Open(v)
  PROVE  /\ Open(u)' # {} => Present' = [Present EXCEPT ![u] = TRUE]
         /\ Open(u)' = {} => Present' = [Present EXCEPT ![u] = FALSE]
<1>1. CASE Open(u)' # {}
  <2>1. \A v \in Users : (Open(v)' # {}) = (IF v = u THEN TRUE ELSE Open(v) # {})
    BY <1>1, Zenon
  <2> QED BY <1>1, <2>1, Zenon DEF Present
<1>2. CASE Open(u)' = {}
  <2>1. \A v \in Users : (Open(v)' # {}) = (IF v = u THEN FALSE ELSE Open(v) # {})
    BY <1>2, Zenon
  <2> QED BY <1>2, <2>1, Zenon DEF Present
<1> QED BY <1>1, <1>2

LEMMA PunchInRefines ==
  ASSUME IInv, NEW r \in Requests, CommitIn(r) PROVE A!Next
<1> DEFINE new == [user |-> req[r].user, work_date |-> WorkDate(req[r].now),
                   punch_in |-> req[r].now, punch_out |-> None, duration |-> None,
                   status |-> "ACTIVE"]
<1>0. /\ HasUserLock(r) /\ Prior(r) = {} /\ Open(req[r].user) = {}
      /\ req[r].type = "IN" /\ req[r] \in Request /\ sessions[r] = None
  BY DEF CommitIn, HasUserLock, IInv, ChecksStillHold, RowsAreCommitted, InFlight,
         LedgerTypeOK
<1>1. /\ sessions' = [sessions EXCEPT ![r] = new]
      /\ events' = [events EXCEPT ![r] = Event(r, "ACCEPTED", r)]
  BY <1>0 DEF CommitIn
<1>2. new \in SessionRow BY <1>0, WorkDateNat DEF Request, SessionRow
<1>3. new # None /\ new.user = req[r].user /\ new.punch_out = None
  BY <1>2, NoneIsNoRow
<1> HIDE DEF new
<1>4. /\ \A q \in Requests : q # r => sessions'[q] = sessions[q]
      /\ sessions'[r] = new
  BY <1>1 DEF IInv, LedgerTypeOK
<1>5. Present' = [Present EXCEPT ![req[r].user] = TRUE]
  <2>u. PICK u \in Users : u = req[r].user BY <1>0 DEF Request
  <2>1. Open(u)' # {} BY <2>u, <1>3, <1>4 DEF Open, IsOpen
  <2>2. \A v \in Users : v # u => Open(v)' = Open(v)
    BY <2>u, <1>0, <1>3, <1>4 DEF Open, IsOpen
  <2> QED BY <2>u, <2>1, <2>2, FlipPresence
<1>6. ~Present[req[r].user] BY <1>0 DEF Present, Request
<1>7. A!Decide(r, req[r].user, req[r].key, "IN") BY <1>0, <1>1, EventDecides
<1> QED BY <1>0, <1>1, <1>5, <1>6, <1>7, EventDecides DEF A!Next, A!PunchIn

LEMMA PunchOutRefines ==
  ASSUME IInv, NEW r \in Requests, CommitOut(r) PROVE A!Next
<1> DEFINE s == tx[r].session
           row == Completed(sessions[s], req[r].now)
<1>0. /\ HasUserLock(r) /\ Prior(r) = {} /\ s \in Open(req[r].user)
      /\ req[r].type = "OUT" /\ req[r] \in Request /\ s \in Requests
      /\ sessions[s] \in SessionRow /\ req[r].now > sessions[s].punch_in
  BY AtWrite DEF CommitOut
<1>1. /\ sessions' = [sessions EXCEPT ![s] = row]
      /\ events' = [events EXCEPT ![r] = Event(r, "ACCEPTED", s)]
  BY DEF CommitOut
<1>2. /\ row \in SessionRow /\ row.user = req[r].user /\ row.punch_out # None
  <2>1. req[r].now \in Nat BY <1>0 DEF Request
  <2> QED BY <1>0, <2>1, CompletedRow DEF Open
<1> HIDE DEF row, s
<1>4. /\ \A q \in Requests : q # s => sessions'[q] = sessions[q]
      /\ sessions'[s] = row
  BY <1>0, <1>1 DEF IInv, LedgerTypeOK
<1>5. Present' = [Present EXCEPT ![req[r].user] = FALSE]
  <2>u. PICK u \in Users : u = req[r].user BY <1>0 DEF Request
  <2>1. Open(u) = {s} BY <2>u, <1>0 DEF IInv, OneOpenSession, Open
  <2>2. Open(u)' = {} BY <2>1, <1>2, <1>4 DEF Open, IsOpen
  <2>3. \A v \in Users : v # u => Open(v)' = Open(v)
    BY <2>u, <1>0, <1>2, <1>4 DEF Open, IsOpen
  <2> QED BY <2>u, <2>2, <2>3, FlipPresence
<1>6. Present[req[r].user] BY <1>0 DEF Present, Request
<1>7. A!Decide(r, req[r].user, req[r].key, "OUT") BY <1>0, <1>1, EventDecides
<1> QED BY <1>0, <1>1, <1>5, <1>6, <1>7, EventDecides DEF A!Next, A!PunchOut

LEMMA JobRefines ==
  ASSUME IInv, NEW j \in Jobs, JobCommit(j) PROVE A!Next
<1> DEFINE left == {u \in Users : Open(u)' = {}}
<1>1. \A s \in Requests : IsOpen(s)' => IsOpen(s) /\ sessions'[s] = sessions[s]
  <2> SUFFICES ASSUME NEW s \in Requests PROVE IsOpen(s)' => IsOpen(s) /\ sessions'[s] = sessions[s]
    OBVIOUS
  <2>1. CASE s \in job[j].closed
    <3>1. sessions[s] \in SessionRow BY <2>1 DEF IInv, JobsNameSessions, LedgerTypeOK
    <3>2. sessions'[s] = AutoClosed(sessions[s]) BY <2>1 DEF JobCommit, JobView
    <3>3. sessions[s].punch_in + AutoCloseAfter \in Nat BY <3>1 DEF SessionRow
    <3> QED BY <3>1, <3>2, <3>3, AutoClosedRow DEF IsOpen
  <2>2. CASE s \notin job[j].closed BY <2>2 DEF JobCommit, JobView, IsOpen
  <2> QED BY <2>1, <2>2
<1>2. \A u \in Users : Open(u)' \subseteq Open(u) BY <1>1 DEF Open
<1>3. Present' = [u \in Users |-> Present[u] /\ u \notin left]
  BY <1>2 DEF Present
<1>4. UNCHANGED Decided BY DEF Decided, JobCommit
<1>5. left \in SUBSET Users OBVIOUS
<1> QED BY <1>3, <1>4, <1>5 DEF A!Next, A!AutoClose

\* Every other step leaves the sessions and the events alone.
LEMMA StutterSteps ==
  ASSUME [Next]_vars,
         \A r \in Requests : ~RejectPunch(r) /\ ~CommitIn(r) /\ ~CommitOut(r),
         \A j \in Jobs : ~JobCommit(j)
  PROVE  UNCHANGED <<sessions, events>>
  BY DEF Next, vars, tables, Punch, Begin, TurnAway, LockUser, Replay, RefuseIn, RefuseOut,
         AcceptIn, RefuseTime, AcceptOut, Maintain, JobBegin, JobUpdate, JobAudit,
         JobLoadDay, JobSum, JobWriteDay, BreakWaitCycle, Crash, Abort, SetStatus, Tick, Quiescent

\* PunchService implements Attendance: whatever transactions, aborts and
\* maintenance runs interleave, commits are legal punches, each key spent once.
THEOREM Refinement == Spec => ImplementsAttendance
<1>1. Init => A!Init
  <2> SUFFICES ASSUME Init PROVE A!Init OBVIOUS
  <2>1. \A u \in Users : Open(u) = {} BY DEF Init, Open, IsOpen
  <2>2. Present = [u \in Users |-> FALSE] BY <2>1 DEF Present
  <2>3. Decided = [r \in Requests |-> None] BY DEF Init, Decided
  <2> QED BY <2>2, <2>3 DEF A!Init
<1>2. IInv /\ [Next]_vars => [A!Next]_A!avars
  <2> SUFFICES ASSUME IInv, [Next]_vars PROVE A!Next \/ UNCHANGED <<Present, Decided>>
    BY DEF A!avars
  <2>1. CASE \E r \in Requests : RejectPunch(r) \/ CommitIn(r) \/ CommitOut(r)
    BY <2>1, RejectRefines, PunchInRefines, PunchOutRefines
  <2>2. CASE \E j \in Jobs : JobCommit(j) BY <2>2, JobRefines
  <2> QED BY <2>1, <2>2, StutterSteps, SameLedger
<1> QED BY <1>1, <1>2, InductiveInvariant, PTL DEF Spec, ImplementsAttendance, A!Spec
=============================================================================
