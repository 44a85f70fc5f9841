# Verification of the punch-in system

TLA+ models of the attendance backend (FastAPI, SQLAlchemy, PostgreSQL) and of the
app that talks to it, checked with TLC and, where marked, proved with TLAPS.
Paths below are relative to `src/backend/app/` unless they start with `frontend/`
or `README`.

## 1. Inventory

| component | state | operations | hard behaviour |
|---|---|---|---|
| Punch service (`services/attendance_service.py`, repositories) | `attendance_sessions`, `attendance_days`, `punch_events` | `punch_in`, `punch_out` | per-user serialisation by `SELECT ... FOR UPDATE`, idempotency keys, values read before the lock, several rows per transaction |
| Maintenance (`jobs/maintenance.py`) | same tables; coordinates, tokens, buckets | `auto_close_stale_sessions`, three purges | one long transaction over many rows, overlaps punches and itself, deadlocks |
| Tokens (`services/auth_service.py`, `repositories/token_repo.py`) | `refresh_tokens`, `users.password_changed_at` | login, register, refresh, logout, change/reset password | unlocked read-then-write, reuse detection, revoke-all against concurrent inserts |
| Rate limiting (`services/rate_limit.py`) | `rate_limit_buckets` | hit, enforce, assert_within, record_failure, clear, purge | fixed windows, check and record in different transactions |
| Geofence (`services/geofence_service.py`, `utils/geo.py`) | none; reads `punch_events` | validate, last_accepted_event | order of the gates; movement since the last accepted punch, measured between clock values |
| User and workspace administration | `users`, `workspaces` | create, update, set_status, reset_password, update settings | changes under running requests and open sessions |
| Read models (`today_state`, `presence_snapshot`, `summary`, `build_rows`) | none | today, history, summary, dashboard, report | several statements, each with its own snapshot, while punches commit |
| Audit (`services/audit_service.py`) | `audit_logs` | append | foreign keys lock user rows |
| Punch pipeline of the app (`frontend/src/hooks/usePunch.js`, `useAsync.js`, `pages/Dashboard.jsx`) | pending key, phase, shown day, result sheet | press, capture, send, outcome, reload | lost and late requests, keys kept for a retry, overlapping reloads |
| API client and session of the app (`services/apiClient.js`, `authService.js`, `context/AuthContext.jsx`) | access token, shared refresh promise, the browser's cookie | request, refresh, sign-out, restore | staggered 401s, lost answers, page reloads, a second tab |

The request handlers run in a thread pool, one database transaction each; they
interact only through PostgreSQL (READ COMMITTED, row locks). The maintenance job
is another process started by cron. The app talks to the backend over HTTP and
may lose a request, or a response after the commit.

What makes each part correct: a user has at most one open session and every
committed punch is legal; a key takes effect once; the event log, the sessions and
the day totals agree; a closed session stays closed; every request is answered and
every forgotten session is closed; a rotated token is never usable again and a
revocation reaches every token; a limit admits no more than it says; nobody honest is
flagged by the movement check; what a screen shows was true of one moment, or errs in
a known direction; the app's session ends for a reason, and its member is told the
truth about every punch.

## 2. Modules

`Attendance` - the abstract specification: users are present or not, a punch flips
that in the right direction, auto-close may end it, every request and every key is
decided once. No transactions, locks or clock.

`PunchService` - the detailed system. The three tables hold committed rows only;
what a transaction has read or will write is in `tx` (a punch) or `job` (a
maintenance run) until it commits, and a rollback drops it.

| action | code |
|---|---|
| `Begin`, `TurnAway` | `deps.get_current_user`, then the clock read at the top of `punch_in`/`punch_out` |
| `LockUser` | `user_repo.lock_for_update`, `_assert_active` on the object loaded before |
| `Replay` | `find_by_idempotency_key`, `_duplicate_outcome` |
| `RefuseIn`, `RefuseOut`, `RefuseTime` | the three 409s, nothing written |
| `RejectPunch` | geofence refusal: `_reject` commits an event of its own |
| `AcceptIn`, `CommitIn` | the rest of `punch_in`; they are separate because the day row may be locked |
| `AcceptOut`, `CommitOut` | session update, sums and day row read; then event, day update, commit |
| `JobBegin` ... `JobCommit` | `auto_close_stale_sessions`: unlocked selection; per session its UPDATE, the audit row of the previous one, the day row read, the sums, the day UPDATE; one commit |
| `SetStatus` | `user_service.set_status` |
| `BreakWaitCycle`, `Crash` | PostgreSQL cancels a deadlocked transaction; a worker, job or connection dies. Both are the rollback `Abort` |
| `Tick` | the server clock |
| `Quiescent` | nothing left to do (so that TLC's deadlock check means "somebody waits for ever") |

Locks are not variables: who holds which row follows from how far a transaction
has got (`HoldsUser`, `HoldsSession`, `HoldsDay`, `KeyShares`). Consecutive
statements that neither wait nor can see a difference are one action.
`Overwrite` models the ORM's UPDATE, which names only the columns whose value
changed since the row was loaded. `audits` counts the `SESSION_AUTO_CLOSED` rows of
`audit_logs` per session; with the punch events it tells which sessions have been
closed twice over (`EndedTwice`).

`PunchProperties` - the properties, the inductive invariant, fairness and the
refinement mapping. `MCPunchService` - the TLC instance (symmetry).
`PunchServiceProofs`, `PunchLedgerProofs`, `PunchTotalsProofs` - the proofs, with the
sums of `SumTheorems`.

`AuthSessions` - refresh tokens and what revokes them. `users` and `tokens` hold
committed rows; a request is a record `req[r]` with the stage it has reached, the
row locks it holds (`held`), the rows a bulk statement has still to come to
(`todo`) and the columns of its user it will write (`change`).

| action | code |
|---|---|
| `RefreshRead`, `RefreshUser` | `auth_service.refresh` up to its first write: the unlocked read of the token (unknown, reuse, expired, valid), then of the user |
| `LoginRead`, `LogoutRead`, `ChangePassword` | `login`, `logout`, `change_password` up to their first write; `SignedIn` is `deps.get_current_user` with the check of `pwd_at` |
| `ResetPassword`, `SetStatus`, `UpdateRole` | `user_service.reset_password`, `set_status`, `update` with another role |
| `Purge` | `token_repo.purge_expired` in `jobs/maintenance.py` |
| `BulkSnapshot`, `WriteRow` | `revoke_family`, `revoke_all_for_user`, `purge_expired`: the rows of the statement's snapshot, locked one by one and looked at again; `revoke`: an UPDATE by key, which looks at nothing and fails if the row is gone |
| `Commit` | the new token and the user row flushed, and the commit |
| `Expire`, `Crash` | `expires_at` passes; a connection or worker dies |

`past` is a history variable: the requests that were over when this one made its
first read. "Began after c was over" and "overlapped c" are stated with it.

`AuthProperties` - its properties and inductive invariant, and the two claims of the
code that it does not keep. `MCAuthSessions` - the TLC instance.
`AuthSessionsProofs` - the proofs.

`RateLimit` - the counters of `rate_limit_buckets` and the requests that go through
them, one transaction at a time. `hits` is the history of the upserts that were
committed; `standing` those that no sign-in has cleared.

| action | code |
|---|---|
| `Begin` | the rate-limit dependency calls `enforce`, which reads the clock |
| `Admit`, `Refuse` | the upsert of `hit`, the comparison, and the commit, or the exception whose rollback takes the upsert back |
| `AssertWithin` | `assert_within` on the failures of the account |
| `SignInFails`, `RecordFailure` | the `except` branch of `login`: the clock read, then `record_failure` in its own transaction |
| `SignInSucceeds`, `Clear` | `login` after `auth_service.login`: `clear`, commit |
| `PurgeExpired` | the job's purge of windows |
| `Crash`, `Tick` | a request dies before its last transaction; the clock |

`RateLimitProperties`, `MCRateLimit` (symmetry), `RateLimitProofs`.

`DayViews` - one person's punches as they are committed, and what is read of them.
`log` is the sequence of commits; a statement at READ COMMITTED sees a prefix of it,
so what a screen read is a number per statement (`seen`), and every table is an
operator of that number (`Sessions`, `Total`, `Status`, `FirstIn`, ...).

| action | code |
|---|---|
| `PunchIn`, `PunchOut`, `RejectPunch` | the commit of a punch with the verdict of `geofence_service.validate` (`Verdict`) against `last_accepted_event` (`Latest`), at a clock value that may be older than what is committed |
| `AutoClose`, `PurgeLocations` | the job closes a stale session; deletes old coordinates |
| `AskToday`, `AskPresence`, `AskDays` | `today_state`; `presence_snapshot`; the rows of history, summary, the administrators' pages and the report, over the range of a period |
| `ReadNext` | the next SELECT of the screen, in the order of `Plan` |
| `Tick` | the clock |

`TodayTotal`, `DayTotal`, `PresenceState`, `DaysAbsent` ... are what the service
computes from the rows; `TrueState` and `TrueTotal` in `DayViewsProperties` are the
reference, told from the sessions of one moment. `MCDayViews` explores two kinds of
behaviour: the geofence with changing places and no screens (`Moving`), and the screens
with punches that all come from one place (`Still`). `DayViewsProofs`.

`Phone` - the app, its browser and the network, with the server as far as the app can
tell: `changes` counts the changes of the person's attendance, `made` is what became
of each idempotency key, `live` the refresh token that is not revoked.

| action | code |
|---|---|
| `Press`, `CaptureFails`, `SendPunch` | `handlePunch` and `usePunch.run` up to the request; the pending key is reused |
| `EndPunch` | `run` after the request: which outcomes clear the key, show the sheet, reload |
| `AskAgain`, `EndReload` | `useAsync.run` and the visibility listener; answers are shown in the order they arrive |
| `SignOut`, `EndLogout` | `authService.logout`, `AuthContext.signOut` |
| `Await`, `Deliver`, `Lose` | `apiClient.request`: the first 401 waits for `refreshSession`; an answer; a failed fetch |
| `DeliverRefresh`, `LoseRefresh` | `refreshSession` settles; everybody who waited is sent again, once, or fails |
| `ServePunch`, `ServeReload`, `ServeLogout`, `ServeRefresh` | the endpoints |
| `ServeStray` | a punch request that the app has given up arrives |
| `ColdStart`, `OpenTab`, `TabRestored` | the page is loaded again; another tab restores the session with the same cookie |
| `ExpireAccess`, `ChangeElsewhere` | the access token expires; another device or auto-close |

`past` is history: what may have cost the session (`excuses`), the directions a key was
sent in (`uses`), keys with a lost answer (`unanswered`), keys given up undecided
(`loose`), and whether the screen is out of date
for a reason the app is not told (`blind`). `PhoneProperties`, `MCPhone`, `PhoneProofs`.

How they fit: `PunchService` and `AuthSessions` share the user row only (`SetStatus` is
in both; a punch neither reads nor writes a token). `DayViews` takes from
`PunchService` that punches of a person commit one after another (`OneOpenSession`,
proved there) and that their clock values may be late. `Phone` takes from it that a key
is decided once, in one step (`KeyDecidedOnce`), and from `AuthSessions` that a rotation
is one step and that a token no longer live ends its family (two refreshes with one
token that overlap inside the server are studied there). A request reaches the others
only after `RateLimit!Admit`.

Operators introduced by a comment `Defect:` are not part of the system: each is a
plausible mistake in the operator that follows it. Replacing that operator's body
by the defect makes TLC report the property named for it in `PROJECT.json`.

### Abstractions

- In `PunchService` the geofence verdict is a free choice; `DayViews` has its rules.
  IP addresses and audit contents are left out everywhere.
- The clock never runs backwards, the workspace (timezone, cutoff, threshold) does
  not change, calendar days have a fixed length.
- The rate limiter runs in an earlier transaction of its own (`RateLimit`); requests it
  stops do not reach the other models.
- A row is named by the request that inserted it. Fields never compared (ids,
  snapshots, notes) are left out; durations are in whole seconds, rounded down.
- Foreign-key locks taken by other endpoints on user rows (a login writes a token,
  say) are short and left out; the one taken by auto-close is kept for a whole run
  and is modelled.
- `AuthSessions`: tokens are named, not hashed; an access token is the `pwd_at` its
  request saw (`SignedIn`), its 15 minutes are not counted. An authentication and the
  first read of its handler are one step. The user row is written when `Commit`
  is: nothing else waits while it is locked, and a second writer of it writes over the
  first. Roles, profiles and the creation of accounts are left out. Bulk statements
  lock rows in one order (that of the table); were two plans to use different orders,
  PostgreSQL would cancel one of the two, which is a `Crash`.
- `RateLimit`: a bucket is named by its identifier, not by a digest of it. `Crash` is
  only before a request's last transaction: earlier, it leaves what a request that never
  came would. `peek` and `global_policy` have no caller.
- `DayViews`: one person; places on a line through the centre of the workspace; a
  speed per tick instead of km/h; a clock value is at most `Delay` ticks older than its
  commit, a fix at most `Age` older than the clock value. One statement number stands
  for the sessions of all days of a screen (the lazy loads of the code are one SELECT
  per day, and a single day is what each property speaks of). `is_late` compares
  ticks, not minutes. Auto-close and punches commit one after the other: the lost
  punch out of `auto_close_overwrites` is left to `PunchService`. Sorting, averages, CSV and the 422s of the schemas are left out.
- `Phone`: one session and one member; answers 403 and those 401s that no refresh
  can mend, and signing in again, are left out. A refusal the server keeps no record of
  (429, validation) is a lost request. Of the requests the app gives up only a punch may
  still arrive later.

## 3. Runs

| run | instance | shows |
|---|---|---|
| `punch_core` | 1 user, 3 requests, 1 key, 2 jobs, clock to 3 (two days), 1 crash | types; one open session; the index is never hit; keys decide once; events and sessions agree; CHECKs; day totals, through days both punched out of and auto-closed, sessions over midnight and overlapping jobs; closed stays closed; refinement of `Attendance` |
| `punch_live` | 2 users, 2 requests, 2 jobs, status changes, no symmetry | every request is answered, stale sessions are closed, through every deadlock |
| `auto_close_overwrites` | 1 user, 2 requests, 1 job | *violated*: "no punch out was recorded within" the cutoff (`attendance_service.py:521`) |
| `punch_after_disable` | 1 user, 1 request | *violated*: "State - user active" (README:314) |
| `sessions_core` | 1 user, 1 signed-in device, 3 requests of any kind, 1 expiry, 1 crash | types and families; a token with a successor is dead; a token has two successors only from overlapping refreshes; revocations reach what was there when they began; nobody begins a session while disabled; no deadlock |
| `password_change_survivor` | 1 user, 2 requests | *violated*: "every refresh token is revoked, so other devices must sign in again" (`auth_service.py:259`) |
| `rehash_restores_password` | 1 user with an outdated hash, 2 requests | *violated*: "Password updated." (`api/v1/auth.py:215`) |
| `rate_limits` | 1 caller, 1 account, 4 requests for a sign-in or a punch, 2 at a time, windows of 1 and 2 s, 1 crash | exact counts; limits hold; the lock of an account is missed only by overlapping failures and always earned; the hinted wait is right to a second |
| `day_views` | up to 4 commits, clock values up to 2 ticks late: from changing places, 1 refused, with purges; or from one place, with auto-close and each screen once; a weekend and a midnight | honest people are flagged only by late clock values; teleports are flagged; late marks; which way each total errs; states and lists are of one moment |
| `day_attribution` | 2 commits, the week | *violated*: absences are days that "have no attendance", a session counts for the day it started (README:415-418) |
| `phone` | 2 presses, 2 happenings (loss, expiry, reload, tab, change elsewhere), 2 reloads at once | sessions end for a reason; a sign-out stays; the sheet (a retried press included) and the resting screen are true; late punches do nothing; every press is answered |
| `key_reused` | as `phone` | *violated*: "A key survives retries of the SAME user intent" (`usePunch.js:32`) |

Bounds of the punch runs: `MaxClock`, `MaxCrashes`, the number of requests, and `MaxLag`, the ticks
that may pass while a request is in flight. A day has 3 ticks, so that a clock of 3 reaches
the next day; the cutoff of `punch_core` is one tick, so that a session can be auto-closed
on a day of which another one was punched out; a second has 2 ticks, so
durations below a second occur. Three requests are the least for two cycles to
collide (in, out, in) and for a retry to overlap both the request it repeats and
another punch; one user is enough for the safety properties because users share
only what the job touches, and two users give the job two sessions to close in
either order, the only source of a deadlock between runs. A lag of one tick is enough for a
clock value read before what is found under the lock. 461,000 states. Changes of a
user's status only turn requests away or, as in `punch_after_disable`, do not; they are
in `punch_live`.

In the `sessions` runs a request number is also the place of its token in the
table, so that requests 1, 3 and 4 insert before and after the token 2 of the
device. Three requests are the least for a rotation, a revocation and a request that
comes after both or overlaps one of them; the theorems cover any number. `MaxExpired`
and `MaxCrashes` are 1: an expired row matters to the refresh that reads it and the
purge that deletes it.

`rate_limits`: a window of one second has two ticks, so that a clock value inside a
second, a window's end, and a request counted after the end of its window all occur;
four requests are the least for a limit of two to be passed by overlapping failures after
a success, and two workers give every overlap of two. It has 1.6 million states.

`day_views`: `Start` is a Sunday evening, so that one midnight is also the change of week
and of working day. What the movement check does (two accepted punches, a later one,
rejected ones and purges between) and what a screen shows (up to four commits: two
sessions, or three and an auto-close) do not need each other: the constraint `Explored`
explores the two kinds of behaviour and not their product; 168,000 states. `Delay` is 2,
the least with which a later session of a day can commit with an earlier clock value than
the first one: in at 15, out at 16, in again at 14 (a punch out always has a later clock
value than its punch in), so that a day is marked late next to a punctual
`first_punch_in`. Between changing places it is 1, enough for every exception of the two
movement properties. The proved properties hold without the constraint, for any `Delay`.

`phone`: two presses give a press and its retry, or a retry in the other direction; two
happenings give a loss and its consequence (a lost answer and a late request, a lost
refresh and a cold start). 247,000 states; the safety properties were also checked
with three happenings (3.4 million states) and with three presses (2.2 million), the
least for a key given up after a conflict to be decided by a late copy. The runs of
`RateLimit`, `DayViews` and `Phone` say `CHECK_DEADLOCK FALSE`, as requests, clock and
presses are bounded and then stop.

Fairness (`PunchProperties!Fairness`): strong fairness of each request's next step
and of each job, because PostgreSQL queues the waiters of a row lock and hands it to
them when it is released (for a job, for each session it waits for), threads run to
the end, and cron starts the job every 15 minutes; weak fairness of `BreakWaitCycle`
(`deadlock_timeout`). No fairness of `Begin`, `Crash`, `SetStatus` or `Tick`.
`AuthSessions` states none: every request has at most a bounded number of steps, so
the absence of deadlock, which TLC checks, says that each can be answered.
`Phone!Fairness` is weak fairness of what the browser and HTTP end by themselves: a
position is given or refused within 15 s (`useGeolocation`), every fetch ends, for each
request and for the refresh of the app. The member, losses and other tabs are free.
`RateLimit` and `DayViews` state none.

### Findings

1. Auto-close overwrites a session that a concurrent `punch_out` has just completed:
   its end, its duration, its status, and a note that says there was no punch out.
   The totals of its day are then left to a race of two recomputations: each sums before
   its UPDATE has the row of the day, and the day may keep the sums of either, although
   `models/attendance.py:37` says "so the number can never drift". `DayTotalsAgree`, which
   is proved, says that a session closed twice over (`EndedTwice`) is the only way for a
   day's totals to be wrong: a day both punched out of and auto-closed, or shared by two
   runs, is right otherwise.
2. The status check under the user lock looks at the object loaded before it.
3. `change_password`, `reset_password` and `set_status` do not reach the successor that
   a refresh in flight is inserting: it survives, and with it the other device.
   What does hold, and is proved, is that everything committed before the revocation
   began is reached (`RevocationsReachAll`), and that a user who is disabled gets no
   new token from a request that begins later (`DisabledStaysOut`).
4. A sign-in that renews an outdated hash puts the old password back when the
   password is changed between its check and its commit.
5. Attendance of one day is taken for that of another. `days_absent` is the working days so
   far minus all days with attendance, so that attendance on a weekend hides an absence
   (the trace of `day_attribution`); and the dashboard's total of today includes what runs
   since yesterday (its trace with `Periods = {}`). Without such a session that total is
   never above the true one (`PresenceNeverOverstates`).
6. A key kept after a lost answer is used for the next press even if that goes the other
   way: the server replays the punch in, and the sheet says "Punched out" to a member who
   is still in (`key_reused`). A retry of the same press, however often and whatever is
   lost, is reported truthfully (`SuccessIsTrue`).

Limits of what the properties say: each is an exception that a property names, and not a
case it covers.

- `today_state` may count a session twice that ends between its reads, or say PRESENT
  without a session; history, summary, report and dashboard may miss it.
- The movement check divides by the interval between two clock values: someone whose
  earlier punch waited longer for the server is flagged although they kept within the
  limit.
- A key given up after a conflict, or forgotten with the page, lets a late copy of the
  request count (`DecidedWhileHeld` shows that it counts once).
- Sign-out revokes the token it presents. A refresh of another tab that was served just
  before has replaced that token, and its answer sets the new cookie after the sign-out
  has cleared the old one: the app comes back signed in (`SignedOutStays`). Without a
  refresh on its way, a sign-out that reached the server is final.
- The loss of a refresh's answer, or two tabs refreshing at once, ends the session
  (`PromiseSuffices` speaks of the app's own requests).
- An older answer of a reload that arrives last is shown over a newer one (`blind` in
  `RestedScreenIsCurrent`).
- `retry_after` is rounded down, so the hinted moment may fall into the same window.

Disagreements that need no model to be seen, and so have no run: README section 9 says
every attempt writes a `punch_events` row, but the 409 paths (`attendance_service.py:308`,
`:419`, `:443`) write none, and it lists the state check last, but the code does it before
the location checks. README:417 counts as absences "days in range that have already
passed", but `_working_days` includes today. `attendance_service.py:443` is marked as never
reached, "server clock is monotonic enough", but the clock is read before the lock: a
`punch_out` that waited while a `punch_in` with a later clock value committed has
`now < punch_in` and is told that its time is invalid (`RefuseTime`).

## 4. Proofs

Of the punch system, for every set of users, requests, keys and jobs and every value
of the bounds, assuming only `ConstantsAssumption` and `NoneIsNoRow` (the null value is no row):

- `PunchServiceProofs!InductiveInvariant`: `Spec => []IInv`, with one lemma per
  kind of step. `OneOpenSession` is not inductive: `CommitIn` re-checks nothing.
  `IInv` adds that two requests of a user are never both past `LockUser`
  (`UserLockExclusive`), that what a request found under that lock is still so when
  it commits (`ChecksStillHold`: key unspent, no open session, the session it will
  close open, earlier, and not taken by a job), that rows appear only with their
  request's commit (`RowsAreCommitted`) and that a job only names existing sessions
  (`JobsNameSessions`). `IInv` itself was checked with TLC on the `punch_core`
  instance first.
- From it: `OneOpenSessionHolds`, `UniqueIndexIsBackstopHolds`, `KeyDecidedOnceHolds`,
  `LedgerTypes`.
- `Refinement`: every step is a step of `Attendance` or leaves its state alone.
- `PunchLedgerProofs`: what one step does to one session row (`RowStep`), hence
  `SessionChecksHold` and `ClosedStaysClosedHolds`. `RecordsAgreeHolds` relates three
  tables. It needs that an accepted punch out of a session means the session is not open
  (`OutsEndSessions`): without it a second `CommitOut` of the session could orphan the
  first one's event. The cases are the three kinds of commit; that a request commits
  once comes from `IInv`.
- `PunchTotalsProofs!DayTotalsAgreeHolds`: the stored row of a day is what its sessions
  add up to. It is far from inductive: a punch out, and a maintenance run, compute the
  totals of a day from what they see, and write them several statements later, while
  other requests and runs commit sessions of the same day. What is inductive is

  1. `Structure` (`StructureHolds`, and `PunchTypes` with it): a run names one session
     per user and works on one after the other (`Orderly`), two runs never hold the same
     session or the row of the same day (`Apart`), a session's day has its row
     (`DaysExist`), and every auto-closed session has an audit row (`AuditsTell`);
  2. `Computed` (`ComputedHolds`): what a run has read and computed for a day is what the
     day's sessions, with the one it closes closed, add up to (`JobDays`), the same for a
     punch out between its sums and its commit (`OutDays`), and the committed row is
     right (`Agree`) - each unless the day is `Spoilt`, that is, has a session that is `EndedTwice`,
     which the overwrite of `auto_close_overwrites` leads to. A day stays so (`DaySpoiltStays`), because
     audit rows and events only grow.

  The step cases are what each kind of commit does to one day: a punch in adds an open
  session, which adds nothing to a sum; a punch out or a run closes one, and nobody else
  has closed another of that day since the sums were read, or one of its sessions has been
  closed twice over; any other day is `Untouched`. TLC checked `Structure` and `Computed` on the `punch_core` instance.

`SumTheorems` has what these, and the totals of `DayViews`, need of sums over finite
sets. `SumFunction` of the community modules is a fold, which is a recursive function on
the subsets of a set; that the function exists, that the order in which it takes the
elements does not matter, and that a sum splits, grows and is a number, is proved by
taking a smallest subset for which it would fail (`SmallestSet`, from the
well-foundedness of the subsets of a finite set), because the induction theorems of the
library have an operator for parameter and cannot be used.

Of the tokens, for every set of users, devices and requests and every value of the
bounds, assuming only `AuthAssumption` (names are distinct numbers, at least one user):

- `AuthSessionsProofs!SessionsInvariant`: `Spec => []IInv`. Nothing here is locked
  before it is written, so the argument is about commit time. `KnowsToken`: a refresh
  that will issue a successor has locked the token it replaces, or still has to.
  `RevocationsOnTheWay`: a live row that is older than a revocation is locked by it
  or still on its list - this is inductive because a row only ever goes from live to
  revoked or purged, and a row that appears later belongs to no request of
  `past`. `RotatesUnspent` says `RotationsOverlap` already of a refresh that has
  only read its token; `ActiveWhenRead` says `DisabledStaysOut` already of a request
  that has only read its user. The rest (`Rows`, `Locks`, `Pasts`, `StagesFit`,
  `ChangesFit`) is what these need. TLC checked `IInv` on the `sessions_core` instance.
- From it: `SessionTypes`, `SuccessorEndsTokenHolds`, `RotationsOverlapHolds`,
  `RevocationsReachAllHolds`, `DisabledStaysOutHolds`: everything `sessions_core` checks
  but the absence of deadlock.

Of the rate limiter, for any routes, callers, policies and bounds, assuming only
`RateAssumption` (windows are not empty, limits are numbers):

- `RateLimitProofs!RateInvariant`: `Spec => []IInv`. `CountsAreExact` carries the rest:
  a bucket's number is the cardinality of the standing hits that fell into it, as long as
  its window lasts. `HitsFit` says whose hits exist (only a failed sign-in leaves one on
  an account, and only such are ever cleared), `PastsFit` that whoever is in a request's
  past is over, and `SuccessForgives` that no hit stands which a finished success found
  committed when it was checked; with it, `LockoutIsEarned` follows from the count at the
  check.
- From it: `RateTypes`, `CountsAreExactHolds`, `NoMoreThanMaxHolds`,
  `LockoutMissesOnlyOverlapsHolds`, `LockoutIsEarnedHolds`.
- `HintIsWithinASecondHolds` is arithmetic in every state: the window is found by
  rounding the clock down twice (to seconds, to windows) and the hint by rounding down
  once more, for any resolution of the clock.

Of the commits and screens, assuming only `ViewsAssumption`:

- `DayViewsProofs`: types; `HonestNotFlaggedHolds` and `TeleportIsFlaggedHolds` say of
  every later state what was so at the commit of the flagged punch, because a commit is
  never changed but for its purge; the arithmetic is that of `TooFast` against the two
  delays. `TodayStateIsOfOneMomentHolds` and `PresenceIsOfOneMomentHolds` rest on
  in and out alternating (`AlternatesInvariant`: at most one session is open after every
  prefix of the log), so that the row a session adds between two statements marks the
  moment to name.
- What the screens add up: `TodayNeverUnderstatesHolds`, `DaysNeverOverstateHolds`,
  `PresenceNeverOverstatesHolds`. A session counts with its duration once it has ended in
  what a statement sees (`DurationStays`), and never ends before it began (`EndsFollow`, the
  inductive part, which TLC checked on `day_views`), so the total of the ended sessions
  only grows from one prefix of the log to a later one (`TotalGrows`). The three differ in
  which of the two reads comes first.
- `NoLateDayIsMissedHolds`: the first punch in to commit is among those that
  `first_punch_in` is recomputed from, so the stored value is never later than it; within
  one day, later clock values are later times of day (`SameDayOrder`).

Of the app, for any number of presses, reloads and happenings, assuming only
`PhoneAssumption`:

- `PhoneProofs!PhoneInvariant`: `Spec => []IInv`, in three parts that do not need each
  other beyond the types. `KeyInv`: the app holds one key until it has been told what became
  of it, so a request on its way, or given up, carries that key, or one noted as given
  up; a key still held was decided only if an answer was lost or is on its way. `UsesFit`
  adds that the change a key made is one that was asked for with it, so that a key sent in
  one direction only can be reported in no other.
  `SessionInv`: until something happened that may cost the session one refresh is on its
  way at most, with the live token or its successor (`OneRefresh`); after an
  undisturbed sign-out neither the cookie nor any refresh holds a token
  (`NothingToRestore`). `ScreenInv`: whatever makes the screen out of date is on its way
  to it, or the app cannot know (`ReloadComes`, `FirstScreen`). TLC checked `IInv` on
  the `phone` instance.
- From it: `PhoneTypes`, `PromiseSufficesHolds`, `SignedOutStaysHolds`, `SuccessIsTrueHolds`,
  `RestedScreenIsCurrentHolds`, and the action property `DecidedWhileHeldHolds`.

Every invariant and action property that a passing run checks is so proved. Only
model-checked: liveness (`EveryRequestAnswered`, `StaleSessionsClosed`,
`PressIsAnswered`) and the absence of deadlock, since liveness and ENABLED are out of the
prover's reach; and the six violations, which are counterexamples.

## 5. Not modelled, and what is left

- `auth_service.register` and `user_service.create`: a check for the e-mail and an
  insert; the loser of a race meets the unique constraint, which `main.py:128` answers
  with 409. The edits of a profile touch no state that anything else reads twice.
- A change of the workspace (timezone, cutoff, threshold) under open sessions: work dates
  already stored are kept as they are; what a moved midnight should mean is not said.
- The composition of `Phone` with `PunchService` and `AuthSessions` statement by
  statement: the atomic server steps of `Phone` are what the theorems about the two
  others give, except for two refreshes of one token inside the server.
- An abstract specification of sessions that `AuthSessions` implements. What it promises of
  a revocation depends on which request began first, which is stated with `past`.
- The contents of audit rows, pages and styles, the service worker's cache,
  configuration, logging, schemas, migrations and scripts: no state the properties are
  about, or declarations whose constraints are in the models.
