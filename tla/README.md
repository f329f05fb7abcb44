# Verification of the Seeakk back end

TLA+ models of the parts of the Seeakk CRM back end (Express, Prisma, PostgreSQL, Redis, BullMQ) in
which several requests, jobs and operators touch the same rows, TLC configurations that check them on
small instances, and TLAPS proofs of the main results for every size of the instance.

Contents: [1 Inventory](#1-inventory), [2 How the code is modelled](#2-how-the-code-is-modelled),
[3 Modules](#3-modules), [4 Runs](#4-runs), [5 Proofs](#5-proofs), [6 Findings](#6-findings),
[7 Not modelled](#7-not-modelled), [8 Plan](#8-plan).

## 1 Inventory

The program is one Node.js process (or several, behind a load balancer) over one PostgreSQL
database, with Redis for sessions and queues. A request passes the guards in `src/src/middlewares`,
runs an `async` handler in a controller or service, and touches the database through Prisma: single
statements, or `prisma.$transaction` at READ COMMITTED. Jobs (`*.jobs.ts`, started by `server.ts`)
run the same services on a timer, in every process, and do not wait for their previous run.
Components interact through rows, and through the two memories that matter here: what the follow-up
gates remember for a few seconds, and what Redis remembers until it is lost.

| component | state it keeps | operations | talks to | what is hard | correct when |
|---|---|---|---|---|---|
| Billing life cycle (`modules/billing`, `controllers/Workspace/subscription.controller.ts`) | `workspaces.billingStatus`, `accessUntil`, `lockedAt`, `suspendedAt`; payment requests, submissions, verified payments, grace records | set-up, submit, approve, reject, renew, grant and revoke grace, lock, suspend, delete; the access decision | guards (read it on each request), seats (limit) | handlers write the status from rows read before an `await`; deletion is four separate steps and can fail in each | access has a payment, grace or legacy status behind it; the review queue agrees with the proofs; a block is not lifted by accident |
| Seats and invitations (`modules/invites`, `seatUsage.service.ts`, `adminUserService.ts`) | `users.isActive/isVerified/deletedAt/password`, `invites`, `approvedUserLimit` | invite, create, activate, deactivate, delete, accept, resend, revoke | billing (limit and grace), targets and attendance (unlock sets `isActive`) | count-then-insert under a row lock that only some writers take; links raced by several browsers | a counted seat is still free at the write; an issue of a link lets one browser in |
| Leads (`leadService.ts`, `modules/leads`) | stage, outcome flags (`isClosed`, `isLOB`), `approvalState`, SLA expiry; stage approvals; revenue transaction | create, update, change stage, decide approval, close, reopen, delete; SLA sweep | advance payments, calls, follow-ups | stage changes wait for an approval while jobs and other handlers move the lead | a pending lead has a request that can decide it; a gated stage is entered with an entitlement |
| Follow-ups (`followupService.ts`, the two gates in `middlewares`, the overdue services) | status, date, overdue flag; per process, the last answer of each gate for each member | create, complete, snooze, extend in bulk, continue; mark overdue, mark missed; refuse or admit a request | leads (owner, stage), guards | an answer looked up before a change is remembered after the change dropped it | nobody is refused for ever who owes nothing, nobody admitted for ever who owes something |
| Reminders (`followupReminder.jobs.ts`) | keys in Redis, one per follow-up and channel | start a pass, ask, send, mark | follow-ups, mail, push queue | passes overlap; Redis goes away between sending and marking; keys expire | a follow-up that comes up is reminded while ahead, and not twice |
| Targets and account locks (`modules/targets`, `accountLockService.ts`, `lockMiddleware.ts`) | cycle, periods, assignment with exemption and grace, `users.isLocked/targetLockedAt`, lock logs | evaluate, lock, unlock, exempt, grant grace, edit and delete the cycle, correct stale locks | attendance, seats (unlock sets `isActive`), guards | no transaction covers lock and exemption; the job runs while cycles are edited | who goes on owing is locked or exempted; who owes nothing comes to rest |
| Attendance (`modules/attendance`) | a record per day, warnings, location sessions, the lock they lead to | submit, check out, review, clarify, enter absences, warn, lock, unlock | targets (same lock), location | two runs of the job and the member write the same day; record, warning, count and lock are four statements | one warning for an absence; an own entry stands; enough warnings lock |
| Sessions and credentials (`controllers/Auth`, `refreshTokenRedis.ts`, `passwordResetService.ts`) | refresh tokens, spent marks and remembered answers in Redis; reset links | log in, refresh, log out, sweep; ask for and use a reset link | users (active) | seven accesses to Redis in one refresh, any of them may be skipped; links deleted and created in two statements | the token a browser holds is not spent; no link outlives the use of another |
| Automation (`modules/automation`) | workflows, executions, action executions, the queue | raise, dispatch, enqueue, take up, run actions, delay, fail; edit and delete workflows | leads, follow-ups | events are not awaited; jobs are handed out again; actions raise events | an action is begun once and in order; chains of workflows end; a queued execution is taken up |
| Salary (`modules/salary`) | record of member and month; approval stages and their order | generate, submit, approve, return, reject, delete; create, edit, reorder, delete stages | attendance (read) | stages are shifted while a record stands between them | no stage is skipped; no day is credited twice |
| Calls and recordings (`modules/calls`, `modules/telephony`) | call sessions, stored objects, activities | start a call, upload for a call, import a file, receive a webhook | object storage, provider | reservation, storage and finalization are three parts around an outside service | one recording for a file; what a client was told is in the store |
| Advance payments (`payment.controller.ts`, `modules/payments`) | `advance_payments.status`, balance | request, approve, reject, on two independent paths | leads (revenue, approvals) | the two paths do not know each other | balance and decision agree |
| Lead import, Meta leads, master data, reports, notifications, infrastructure | see `PROJECT.json` | | | | |

`PROJECT.json` lists every component with its source files, its status and the reason for what is left
out, and under `hazards` what is hard to test in this code, each at its line.

The behaviours that recur in all of it: **read, await, write** (a handler tests a row, awaits, and
writes what the test justified without testing it again); **transactions at READ COMMITTED**, in
which a plain `findUnique` protects nothing; **multi-statement handlers without a transaction**,
which can stop in between; **unawaited writes**; **jobs that overlap themselves** and act on a list they
read earlier; and **memories beside the database** (Redis, the process) that may be lost or stale.

Hazards beyond that list, none of which a property covers:

* `targetUnlock.service.ts:181`: an unlock writes `isActive` and counts no seat, so a full company exceeds
  its limit (the ghost `unchecked` of Seats); `adminUserService.ts:931` the same for a stale status update.
* `paymentApproval.service.ts:129`: the seat count that refuses a limit that is too small is taken outside the
  transaction; `companyControl.service.ts:54` and `:317` read a company that changes before the write.
* `leadService.ts:2753`: the outstanding balance is tested before the transaction that closes the lead;
  `:66`: the revenue row is looked up and then created, and the schema makes it unique for nothing;
  `:3267`: `extendLeadSla` adds to an expiry it read earlier. `payments/payment.service.ts:75`: an advance
  approved there neither syncs the revenue nor closes the approval request of the other path.
* `leadApprovals.service.ts:252` and `leads.repository.ts:222`: tests made before the statement they guard.
* `targetSelfUnlock.service.ts:103`: self-unlock ends in `unlockUser`, which admits a member only as his own
  supervisor; the escalation after it then has nobody to go to.
* `followupService.ts:799` and `:1881`, `followupOverduePersistence.service.ts:109`: capacity and candidates are
  read before the rows are written (the last is in FollowUps as `Scan` and `Mark`).
* `workspaceController.ts:195`: set-up ends before its first payment request, and the company owes a payment nobody can
  make. `invite.service.ts:311`: the date of acceptance is taken before the row lock, so a link that is revoked while the
  handler waits is accepted. `invite.repository.ts:278`, `automation.jobs.ts:35`, `followupReminder.jobs.ts:22`: what
  section 6 says of `DeactivatedStaysOut`, `DelayedActionRuns`, `SnoozedIsReminded`.
* `attendance.service.ts:940`, `subscription.controller.ts:237`, `eventDispatcher.ts:76`,
  `automation.service.ts:481`: a process that ends between two statements of the same request or run. The
  modules have these steps; the code has no recovery for what they leave behind.
* Master data: two reorderings of lead stages shift one another's orders under READ COMMITTED;
  `deleteLeadStage`, `deleteTargetCycle` and the roster's overlap test count first and write later.

## 2 How the code is modelled

* A table is a function from row identifiers to records or statuses; identifiers are model values.
* An action is one database access, or one transaction at its commit, or one access to Redis. A handler
  is the sequence of its actions, and `op[p]` (`handler[p]` in Targets and FollowUps) says which handler
  occupies slot `p` and what it still remembers of what it read. Between two actions of a handler every other handler may run: exactly the
  places where the code awaits. A handler that does one access has no slot.
* Inside a transaction, statements are separate actions only where READ COMMITTED lets another
  commit be seen or missed between them (the row lock and count in `Seats`, the retire and insert
  of grace and the look-up and marking of a proof in `Billing`, the advisory and the row lock in `Recordings`). Elsewhere a transaction whose
  writes do not depend on what it reads is one action.
* `Crash`, `Upset`, `Stop`, `Drop`, `Lose`, `Die`, `Throw` end a handler between any two of its steps: a dead process
  or an awaited call that throws. A transaction that is open is rolled back. A job of the queue is handed
  out again (`Die` in Automation), which is what BullMQ does with a job whose worker has stalled; it does
  so once and fails the job the second time, so one death is all there is to explore.
* There is a clock only where a date is compared with it; dates are small naturals.
* Ghost variables (`admitted`, `unchecked`, `freed`, `asked`, `named`, `told`, `sent`, `excused`, `moved`, `passed`, `steady`,
  `starts`, `accepts` in the rows of Seats, and `chain` in Automation) record what happened; no guard of the code reads them.
* Mutants (operators marked `\* mutant`, used by no specification) are the plausible bugs against
  which the properties were tried; `PROJECT.json` names for each property the definition it
  replaces.

**Fairness.** Billing, Seats, Leads, Sessions, Salary and Recordings are safety specifications,
`Init /\ [][Next]_vars`: no property says that something happens, so nothing is assumed. The others assume
weak fairness, of these and no other steps:

| module | weakly fair | because |
|---|---|---|
| Targets, Attendance | the steps of each run of the job | `server.ts` starts the job at boot and every hour, and its statements return |
| FollowUps | the end of what a gate remembers of a caller | the entry carries a time to live that each read compares |
| Automation | handing out a queued job; the steps of a worker that has one | the queue keeps offering jobs; a worker that lives goes on |
| Reminders | the start of a pass, the reconnection of Redis, the steps of a pass | `setInterval`; the client reconnects for ever; a pass goes on unless it waits for Redis |

No member has to unlock, to submit, to resolve or to log in; no period has to come; nothing says that a run
finishes before the next.

`CHECK_DEADLOCK FALSE` is set for Billing, Seats, Attendance, Sessions, Salary, Automation, Recordings and
Reminders, which may really stop: the bounds on rows, identifiers and time end every run. Leads, Targets
and FollowUps are checked for deadlock.

## 3 Modules

### Billing

One company. Variables: `now`; `ws` (the row: status, paid-until, locked, suspended, exists);
`req`, `subs`, `paid` (payment requests, their submissions oldest first, and verified payments);
`grace`; `op`.

| actions | code |
|---|---|
| `SetupRequest` | end of `setupWorkspace`; the company without a request is an initial state |
| `SubmitRead`, `SubmitCommit` | `submitPaymentProof` |
| `RenewRead`, `RenewCreate`, `RenewLower` | `createRenewalRequest` |
| `ApproveRead`, then `ApproveLook`, `ApproveRetire`, `ApproveCommit`; `RejectRead`, `RejectCommit` | `paymentApproval.service.ts`: a check, then the READ COMMITTED transaction, which looks up the proof to mark, locks the request and retires grace, and commits |
| `GrantRead`, `GrantRetire`, `GrantCommit`; `RevokeMark`, `RevokeEvaluate`, `RevokeRegrade` | grace, `companyControl.service.ts` |
| `Lock`, `Unlock`, `Suspend`, `Unsuspend` | same file |
| `DeleteRead`, `DeleteMark`, `DeleteRows`, `DeleteFail` | `deleteCompanyAndWorkspace` |
| `ExpireRead`, `ExpireWrite` | the update that `protect` starts and does not await |

`Allowed`, `PaidAccess`, `GraceAccess`, `LegacyAccess` are the decision of `evaluateCompanyAccess`.
Abstracted: `lockedAt` and `lockReason` are one flag; SUPERSEDED and REVOKED grace are both "ended",
because no code tells them apart; the two reads of `revokeGrace`'s evaluation are one step; the
date of an approval or grant is chosen at its commit, since nothing before depends on it. `Crash` ends
a handler between any two steps: a process that dies, or a statement that throws outside any `try`, such as the
list of the recordings that `deleteCompanyAndWorkspace` reads after its mark. The row stays as it is.

### Seats

One company, its users as sets of flags. Variables: `approved`, `managed`, `graceLimit` (what the
limit is computed from), `user`, `invite`, `lock` (the `SELECT ... FOR UPDATE` on the workspace row),
`op`, and the ghost `unchecked`: members activated by a write that counts nothing. A row of `invite` has the
number of the link it holds, which a resend replaces, and the ghost `accepts`, which no step resets: by which of
its links the row was accepted. A browser that has passed `getValidatedInvite` knows the row only (`op[p].link` is
the link it came with), as in the code.

`CreateRead`/`AcceptRead`/`AcceptStamp`/`StatusRead` bring a handler to its transaction;
`LockWorkspace`, `VerifySeat` and one of `InviteWrite`, `CreateWrite`, `ActivateWrite`, `AcceptWrite`
are its three statements. `StatusWrite` is the write of `updateUserStatus` that takes no lock, and
of an unlock. `ResendRead`, `SendRead`, `SendLatest`, `RefreshWrite`, `IssueWrite`, `RevokeInvite` are
the life of a link, `DeleteUser` the soft delete. `UpdateCompanyLimit`, `GrantGrace`, `EndGrace`,
`ApproveRead`, `ApproveCommit` move the limit.

A request of an administrator needs somebody active in the company (`SomebodyAsks`, from `protect`), and an
administrator neither deactivates nor deletes himself; acceptance is open to whoever holds the link, and the limit is the
platform operator's. Abstracted: the permissions of the administrator; the early seat checks before a transaction only
refuse sooner; whether an account is
locked, which `UnlockRead` requires, is left open because jobs outside the module decide it;
grace is its limit (Billing has the rest); mail, names and tokens.

### Leads

One lead. Variables: `lead` (stage, the flags `closed` and `lob`, `pending` = the stage it waits for,
deleted, and whether an import inserted it with its mark); `req` (approval requests, those of advance
payments included, which have no target stage); `op`; and the ghost `admitted`: the stages that need
an approval and that somebody was entitled to move this lead into.

| actions | code |
|---|---|
| `Ask`, `AskRead`, `AskFind`, `AskHeal`, `AskInsert` | `createLeadApproval`, called by its endpoint, by `changeStage` and by `updateLead` |
| `UpdateRead`, `UpdateMoveRead`, `UpdateCommit` | `updateLead`, without and with a stage in its input; `changeStage` ends in it |
| `DecideRead`, `DecideCommit` | `processLeadApproval`, split at the plain read of the status in its transaction |
| `CallRead`, `CallAsks`, `CallMoves` | `saveCallOutcome` |
| `SweepRead`, `SweepCommit` | `maybeRunLeadSlaSweep`, which runs before lists of leads |
| `CloseRead/Commit`, `ReopenRead/Commit`; `ReconcileLost`, `ReconcileFind`, `ReconcileClose` | the Closed module and the repair before each of its listings |
| `RequestAdvance` | `requestAdvancePayment`: a request of the other type in the same table |
| `DeleteLead`, `PermanentlyDelete` | the two deletions; requests survive both |

`createLead` and the import are initial states. `InClosedModule` is the filter of the Closed module.
Abstracted: `approvalState` and `pendingApprovalToStageId` are one column, since every statement
writes both; a handler may be refused at any point (`Crash`), which stands for stage rules, the
outstanding balance, a missing supervisor and permissions; the value of the SLA timer is left open,
so the sweep may find any open lead expired.

### Targets

One member and his assignment to one cycle of `Last` periods. Variables: `due` (how many locking dates have
passed), `cycle`, `met`, `stakeholder`; `user` (`isLocked`, `targetLockedAt`), `asg` (active, exempted period
and until when, grace), `log` (the newest lock log); `handler`, what is in flight in each slot; `upsets`.

| actions | code |
|---|---|
| `StartRun`, `NextPeriod`, `Evaluate` | `runTargetLockingEvaluation`, `evaluateAssignmentPeriod` |
| `Check`, `Clear` | `canLockUserForTargetFailure`, `clearExpiredLockExemption` |
| `SetLocked`, `Stamp`, `WriteLog` | `lockUserForTargetFailure`, three statements |
| `UnlockRead`, `Unlock`, `Unstamp`, `Exempt`; `ExtendGrace`; `FreeRead`, `Free` | the supervisor's unlock; more grace; the administrator's unlock |
| `GuardRead`, `Correct`; `RemedyRead`, `Remedy`, `Withdraw` | the request guard that corrects stale locks; the remediation at boot |
| `Assign`, `ClearCycle`; `AssignRead`, `AssignOff`, `AssignOn`, `ClearOff` | assignment and removal: in one transaction when the profile of the member is saved (`syncUserTargetCycleAssignment`), statement by statement from `PUT /assign/:userId` |
| `EditCycle`, `DeleteCycle`, `Retire`, `Release` | the administration of the cycle; an edit replaces the rows of the periods |

Abstracted: what a period measures is the bit "met"; who is a supervisor or stakeholder is one bit; the locks
of the daily and the monthly ladder are `OtherLock`.

### FollowUps

The follow-ups of one lead, its owner and the kind of its stage, and what each gate remembers of each member
(`cache`). Overdue means a later day, future a later moment.

| actions | code |
|---|---|
| `CreateRead/Insert`; `CompleteRead`, `SnoozeRead`, `BulkRead`, then `Refresh`, `Write`, `Forget` | the handlers of `followupService.ts`, which refresh the overdue flag before they write and drop the remembered answers after |
| `ContinueRead`, `ContinueWrite` | `saveMandatoryFollowUpContinuation` |
| `Scan`, `Mark`; `MarkMissed` | marking as overdue, in two statements; as missed |
| `AskOverdue`, `AskMandatory`, `LookUp`, `Answer`, `Expire` | a request at a gate: the remembered answer, or a look and then a remembered one |
| `UpdateLead`, `CallOutcome` | what `updateLead`, an approval, an assignment or a call outcome do to the rows |

### Attendance

One member over a few days. Variables: the clock (`today`, `pastCutoff`), `record`, `warnings`, `locked`,
`sessions`, `op`, `upsets`, and the ghost `freed`: the account has been unlocked since the last warning.

| actions | code |
|---|---|
| `MarkRead`, `Enter`, `FindSession`, `OpenSession`, `Warn`, `Count`, `Lock` | `markAttendance`: the record, the location session, the warning, the count, and the lock it leads to |
| `CheckOutRead`, `CheckOut`, `StopSessions`; `Track`, `StopTracking` | `checkOutAttendance`; the sessions on their own |
| `ReviewRead`, `Review`, `Clarify` | review of a record |
| `JobDayOff`, `JobLook`, `Miss`, then `Warn`, `Count`, `Lock` | `autoAbsentMarking` |
| `UnlockRead`, `Unlock`, `Pardon` | `unlockUserAdmin`, which deletes the warnings after it unlocked |
| `FreeRead`, `Free` | `unlockTargetLockedUser` and `extendTargetGracePeriod`, which free whoever is locked, for whatever reason, and keep the warnings |

The member is no superadmin, whom `lockUser` leaves unlocked.

### Sessions

One account: `session`, `used`, `replay` are the three kinds of keys in Redis, `cookie` what the browser holds,
`link` the reset links; `ready` says whether Redis is there. A refresh is `Refresh`, `CheckUsed`, `ReadReplay`,
`ReadSession`, `Revoke`, `MarkUsed`, `LoadUser`, `StoreSession`, `CacheReplay`, `Answer`: one action for each access.
A missing Redis makes reads find nothing and writes do nothing; it may come back empty. `RequestReset`,
`SendLink`, `ResetRead`, `ResetWrite`, `ResetSweep` are the life of a link. A link may be used by two
overlapping requests, because `usedAt` is tested outside the transaction (`passwordResetService.ts:182`); the
model has that. `errors` counts answers that are errors or get lost.

### Salary

One record and the approval stages. `GenerateRead` and `Generate` compute half days from attendance and
holidays; `Submit`, `Approve`, `Refuse`, `Route`, `Write` are `submitSalaryForApproval` and `processApproval`, split
at the read of the next stage; `DeleteRead`, `Delete`; `CreateStage`, `UpdateStage`, `DeleteStage`, `ShiftStages` edit
the stages, the last in a statement of its own. Amounts are left out; they decide nothing. (A generation stores
the advance of the month and does not subtract it; only a later manual adjustment does.)

### Automation and Pipeline

One lead and its workflows. A change raises an event; `Dispatch` reads the workflows it triggers, `CreateRun` and
`Enqueue` make executions and jobs; a worker does `Take`, `Start`, `Match` or `Skip`, and for each action `Step`, `Act`,
`Pass` or `Fail`, `Close`, `Follow`. `Act` changes the lead and raises events one level deeper. `ToggleStatus`,
`UpdateWorkflow`, `DeleteWorkflow` take rows away under it; `Die` and `Lose` kill a worker and a dispatcher. `Throw` is a
statement or a call of the queue that throws around an action or between two: the calls of `executeDelayedAction` are
nested, so the catch of an action that is done may overwrite it with FAILED, with the next one WAITING (`Caught`).

`Pipeline` is the abstract specification: executions whose actions are begun one after another, each once, and
none after the end. Automation implements it under the refinement `Lengths <- "the numbers of actions of the
workflows"`, `begun <- starts`, `over <- "the executions whose status is COMPLETED, FAILED or SKIPPED"`; the property
`KeepsPipeline` is `Pipeline!Spec` under it, so every step of queue, worker and editors is a step of the abstract one or a
stutter.

### Recordings

The call sessions of one lead and the object store. An import is `Import`, `Look`, `FindReservation` or
`CreateReservation` under the advisory lock of its hash (`FileFree`), `Store` or `StoreFails` and `MarkFailed`,
`Finalize` and `Commit` under the row lock of its session (`RowFree`). `UploadForCall` stores for the session that the
request names, whatever its context and without a lock of the file; `Webhook` and `NoteRecording` are a provider's
recording, for any session. `Finalize` looks through `Window` activities in no order (20 in the code) for one of the session
or of the file. `asked`, `named` and `told` remember which files were meant for which session, which sessions an upload
or an event has named, and what the clients were told.

### Reminders

`StartPass` reads the candidates; for each and each channel a pass does `Ask` (is the key there), `Send` or `Refused`, `Mark`.
`Disconnect` cuts commands in flight, later ones wait for `Reconnect`; passes that wait go on together, and each
sends. `Complete` and `Move` are what FollowUps does to a row. `sent` counts the reminders of one time; `excused` marks
those that an overlap or a cut may have doubled.

Targets, FollowUps and Reminders keep names of their own for what most modules call `Init`, `Next`, `Spec`, `TypeOK`, `op`
and `Idle` (`TargetInit`, `FollowUpSpec`, `ReminderTypeOK`, `handler`, `Vacant`, ...): a proof module extends each of them
beside a second component.

### Composition

The modules meet in rows, and each owns different columns: Billing the status and the dates of `workspaces`, Seats the
limit and the members, Leads the lead, FollowUps and Reminders the follow-up, Targets and Attendance each its own
reasons for `users.isLocked`. Where a handler writes columns of two modules, it is an action of both, each with
its part: `approvePayment` and `grantGrace` (Billing, Seats), the unlock (Targets, Attendance, Seats), `updateLead` and a
call outcome (Leads, FollowUps), the completion of a follow-up (FollowUps, Reminders). What another module may do to a
column is a free action in each: `OtherLock` in Targets, `UnlockRead` in Seats, `Activate` in Sessions, `UpdateLead` in
FollowUps, `Move` in Reminders. No property needs two of the modules together; Automation and Pipeline are composed by
refinement.

## 4 Runs

TLC, from `tla/`: `tlc -workers 2 -config <cfg> <module>`. A passing run explores all reachable states.

| run | configuration | instance | checks | states |
|---|---|---|---|---|
| `billing` | `MCBilling.cfg` | 2 requests, 1 grace record, 2 handlers, 2 submissions, 1 payment, dates up to 1 | `TypeOK`, `AccessHasBasis`, `ReviewBacked`, `MarkedByDeletion`, `BlockLiftedByOperator`, `ProofKeepsAccess` | 2.2 M |
| `seats` | `MCSeats.cfg` | 2 users, 1 invitation row with 2 links one after the other, 1 seat, 2 handlers, dates up to 1 | `TypeOK`, `CountedSeatIsFree`, `IssueAcceptedOnce` | 2.1 M |
| `leads` | `MCLeads.cfg` | an open, a won and a lost stage, the won one gated; 2 requests, 2 handlers | `TypeOK`, `PendingBacked`, `ApprovalGate` | 1.4 M |
| `targets` | `MCTargets.cfg` | 2 periods, the job and a request, 1 upset | `TargetTypeOK`, `FailureIsActedOn`, `LocksSubside` | 0.8 M |
| `followups` | `MCFollowUps.cfg` | 1 follow-up, 2 members, a request and a caller at the gates, 2 days | `FollowUpTypeOK`, `GateRelents`, `GateHolds` | 0.3 M |
| `attendance` | `MCAttendance.cfg` | 2 days, 2 runs of the job, a request, 2 warnings lock, 1 upset | `TypeOK`, `AbsentOnce`, `OwnEntryStands`, `ThresholdLocks`, `DayIsRecorded` | 1.0 M |
| `sessions` | `MCSessions.cfg` | 3 tokens, one request of the browser at a time, 2 links, 2 requests about them, 1 error | `TypeOK`, `KeepsSession`, `LinksEndWithReset` | 1.7 M |
| `salary` | `MCSalary.cfg` | 2 stages of 3 orders, 2 requests, 2 records one after another, 1 edit of the stages | `TypeOK`, `NoStageSkipped`, `NoDayPaidTwice` | 0.6 M |
| `automation` | `MCAutomation.cfg` | 2 workflows that undo one another's stage change, one with a second and a delayed third action; depth 1, 3 executions, 1 change, 1 edit, 1 death or throw | `TypeOK`, `LoopsAreCut`, `InOrder`, `KeepsPipeline`, `QueuedRunStarts` | 1.0 M |
| `recordings` | `MCRecordings.cfg` | 2 files, 2 sessions, one of which may be named, 2 requests, 3 activities of which a finalization sees 2 | `TypeOK`, `OneRecordingPerFile`, `AnsweredIsStored` | 2.5 M |
| `reminders` | `MCReminders.cfg` | 1 follow-up, 2 passes, 3 moments, 1 cut, 1 refusal | `ReminderTypeOK`, `RemindedOnce`, `DueIsReminded` | 0.4 M |
| `billing_paid_once` | `MCBilling_PaidOnce.cfg` | | refutes `PaidOnce` | |

Further counterexamples, not in the list of runs, are described in section 6. `MCBilling_Refuted` (four), `MCSeats_Refuted` (three) and
`MCRecordings_Refuted` (three) name one property at a time, the others are commented out; each of the rest
ends in one: `MCLeads_DecidedOnce`, `MCLeads_OpenUntilApproved`, `MCTargets_UnlockHolds`,
`MCFollowUps_FutureIsNotOverdue`, `MCAutomation_Loop`, `MCAutomation_Delayed`, `MCSessions_Parallel`,
`MCSessions_Overtaken`, `MCReminders_Snoozed`, `MCReminders_Crowded`.

What the properties say:

* Billing. `AccessHasBasis`: whoever passes the access check has a payment that still runs, a grace
  record that still runs, or is an unpaid legacy company, whatever stale write hit the status.
  `ReviewBacked`: a request shown for review has a proof to review, an approved one a payment and a proof
  that was decided. Not a verified one: the approval does not mark a proof it saw as verified, and a rejection may
  have come in between (`ApprovedIsVerified`, section 6). `BlockLiftedByOperator`: a blocked company becomes reachable by an
  operator's step only, or by a customer's step while a payment runs. `ProofKeepsAccess`: filing a
  proof of payment never costs access (legacy companies excepted). `MarkedByDeletion`: the mark DELETING is set by the deletion
  that owns it, and no revert or regrade brings that of another one back. That the mark also goes away when its deletion fails
  is not so (`DeletingIsOwned`, section 6).
* Seats. `CountedSeatIsFree`: what `verifySeatLimit` counted is still true at the write of the same
  transaction. `IssueAcceptedOnce`: each issue of a link, the first or one of a resend, lets one browser in, however many
  are past the validation. Which link the browser came with does not matter to the code, so that one link may let two
  browsers in (`LinkAcceptedOnce`, section 6).
* Leads. `PendingBacked`: a lead shown as pending has a request for just that stage that can still be
  decided, so nobody is stuck; a failed import is the exception, and it is part of the statement.
  `ApprovalGate`: no stale handler carries a lead into a gated stage without an entitlement. It does not
  say that the entitlement is recent: an approval of an old request may move a lead that has since been
  elsewhere, because the code does not compare the stage an approval starts from.
* Targets, both liveness. `FailureIsActedOn`: a member who from some time on owes a due period is locked or
  exempted again and again, whatever unlocks, edits and crashes delayed the job. `LocksSubside`: once he owes nothing,
  locks stop; one that was decided before may still arrive.
* FollowUps, both liveness. `GateRelents`: who owes nothing from some time on is in the end not refused any more,
  though a look from before may be remembered after it was dropped. `GateHolds`: the converse for who owes something.
  What a member owes is told by what he could do about it, not by the query of the gate.
* Attendance. `AbsentOnce`: one warning for one absence, however many runs overlap. `OwnEntryStands`: no run turns
  a day the member submitted into an absence. `ThresholdLocks`: when nothing is in flight and nothing broke off,
  enough warnings mean a locked account, unless it has been freed since the last of them, as the unlock of the targets
  frees it and keeps the warnings. `DayIsRecorded` (liveness): a day past its cut-off gets its record unless it
  ends first.
* Sessions. `KeepsSession`: a browser that has one request at a time and got every answer holds a token that has not
  been spent, wherever in a refresh Redis failed, forgot or was swept. `LinksEndWithReset`: no unused link is older
  than the last reset.
* Salary. `NoStageSkipped`: an approved record was approved at every stage that was active from the start and never
  written. `NoDayPaidTwice`: holidays and attendance together credit no more than the days of the month.
* Automation. `LoopsAreCut`: no chain of executions that cause one another is longer than the depth allows (for
  workflows triggered by a stage; for follow-ups it fails). `InOrder`, of each step: no action is begun, or set
  to wait, while one before it is neither completed nor skipped. (A state may show an action that failed before one that waits: a
  catch overwrote it.) `KeepsPipeline`: the refinement. `QueuedRunStarts` (liveness): a queued execution is taken up
  even if the worker that had it died.
* Recordings. `OneRecordingPerFile`: a file that is imported at once, again, or after a failure gets one session, beside
  those that an upload or an event has named, and one activity, where none of its sessions is named and a finalization
  sees all activities of the lead. `AnsweredIsStored`: what a client was told it can play is in the store, from then on.
  Both except sessions that two contents share. Each exception is one the code needs, and section 6 has the
  counterexample without it.
* Reminders. `RemindedOnce`: twice only where passes overlap or are cut between sending and marking.
  `DueIsReminded` (liveness): a follow-up that comes up is reminded on both channels while it is ahead, unless it was moved.

Why the bounds are enough: two handlers give every pair of overlapping operations, and the
properties that could need a third actor (two handlers and a writer without lock) find it in the
actions that occupy no slot. Two requests, links, records, files or stages give an old and a new one. One tick of
the clock separates "running" from "ended", a second one "expires" from "is issued anew". Three executions exceed
depth 1 if nothing stops them. One death, cut or upset can hit any step; runs with
two of them are not explored. The bounds (`MaxSubs`, `MaxPayments`, `MaxTime`,
`MaxInvites`, `MaxLinks`, `MaxUpsets`, `MaxErrors`, `MaxLives`, `MaxEdits`, `MaxOrder`, `MaxRuns`, `MaxChanges`, `MaxFaults`,
`MaxSessions`, `MaxEntries`, `MaxNamed`, `MaxCopies`, `MaxCuts`, `MaxRefusals`, `Last`) are guards on insertions, on
adversaries and on the clock. `MaxDepth` and `Window` are the program's own limits, 3 and 20 in the code. Symmetry is declared only over
identifiers that are compared for equality, and in no run with a liveness property.

Larger instances, run by hand and without error: Sessions with two tabs, two tokens, two links and two requests about them
(5.4 M states; with three tokens `KeepsSession` fails, as `MCSessions_Overtaken` shows), Salary with two edits of the stages
and one record (1.1 M), the invariants of Reminders with two follow-ups and one pass (4.0 M), the safety of Automation
with two workers, two executions and two changes of the lead (2.8 M), and the invariants of Billing with one request and three
handlers at once (1.7 M).

## 5 Proofs

`tlapm Billing_proofs.tla`, and likewise `Seats_proofs`, `Leads_proofs`, `Attendance_proofs`, `Automation_proofs`;
`Staff_proofs`, for Salary and Targets; `Contact_proofs`, for Recordings and FollowUps; and `Redis_proofs`, for Sessions
and Reminders. A theorem holds for every value of the constants, so for any number of rows, handlers, workers, passes
and any bounds. The assumptions are those of the constants, named in the
modules that declare them:

| assumption | says |
|---|---|
| `BoundsAssumption`, `SeatsAssumption` | bounds are naturals |
| `StagesAssumption` | the sets of stages are subsets of the stages, and `Null` is none |
| `SalaryAssumption` | stages and days are finite sets, bounds are naturals |
| `PeriodsAssumption` | the number of periods and the bound are naturals, `Null` and `Gone` are no periods, jobs are no requests |
| `TimeAssumption` | a day has a positive number of moments, callers are members, `None` is no moment |
| `RemindersAssumption` | the follow-ups are finitely many; spans of time and bounds are naturals, a batch is not empty |
| `AttendanceAssumption` | holidays are days; the threshold, the last day and the bounds on insertions are positive |
| `RecordingsAssumption` | `NoFile` is no file; there may be a session and an activity |
| `SessionsAssumption` | `None` is no token; the links are finitely many |
| `AutomationAssumption` | each workflow has a trigger and at least one action; `"unread"`, the mark of a dispatcher that has not yet looked, is no workflow |

Two theorems have a hypothesis of their own, because the statement is false without it, and TLC shows the
counterexample: `OneRequestKeepsSession` assumes that the browser is one tab with one request at a time, `Tabs = {b}`
(`MCSessions_Overtaken` has two), and `LoopsEnd` assumes `Separate`, that no workflow is triggered by a follow-up if some
workflow schedules one (`MCAutomation_Loop` has such a workflow).

| theorem | property | argument |
|---|---|---|
| `Billing_proofs!TypeCorrect` | `TypeOK` | one case for each action |
| `Billing_proofs!AccessIsPaidFor` | `AccessHasBasis` | not inductive: strengthened by `DateIsPaid` (the date on the company row is that of a verified payment) and `LegacyUnpaid`; then the decision is a case analysis on these |
| `Billing_proofs!ReviewIsBacked` | `ReviewBacked` | not inductive: an approval writes from what it looked up before others committed. `Lookup`: the proof it will mark is still on file, and one it will not mark has been decided, because lists of proofs only grow and no commit takes a decision back (`Later`) |
| `Billing_proofs!OnlyDeletionMarks` | `MarkedByDeletion` | action property, from the type invariant: what a deletion or a regrade keeps to write back is not DELETING, so the step that brings DELETING is `DeleteMark` |
| `Billing_proofs!BlocksAreKept`, `ProofIsHarmless` | `BlockLiftedByOperator`, `ProofKeepsAccess` | action properties, from the type invariant: a step that lifts no block, starts no grace and makes no company a legacy one gives access only to a payment that runs (`OnlyPaymentLifts`) |
| `Seats_proofs!TypeCorrect` | `TypeOK` | contains that the row lock has exactly one owner, inside its transaction |
| `Seats_proofs!SeatsAreCounted` | `CountedSeatIsFree` | while a handler has counted, the lock keeps the others from adding a member that is not in `unchecked`; cardinality facts bound the rest |
| `Seats_proofs!IssuesAreSingleUse` | `IssueAcceptedOnce` | not inductive: strengthened by `LinksOnce`: the acceptances of a row are those of issues up to its present link, and, while it is unused, of earlier ones |
| `Leads_proofs!TypeCorrect` | `TypeOK` | one case for each action |
| `Leads_proofs!PendingHasRequest` | `PendingBacked` | inductive once typed: a step leaves mark and requests alone (`MarkKept`), clears the mark (`MarkCleared`), or requests what it marks (`MarkRequested`); the decision of an advance touches no request with a target |
| `Leads_proofs!GateHolds` | `ApprovalGate` | not inductive, since an update in flight has left its checks behind; `GateInv` adds that every such update is `Entitled`, which later steps preserve because `admitted` only grows |
| `Staff_proofs!TypeCorrect` | `TypeOK` | one case for each action |
| `Staff_proofs!StagesInOrder` | `NoStageSkipped` | not inductive: what an approval in flight has read may be old by the time it writes. The strengthening says of every record under way, and of every request that is about to write one, that the steady stages below its order have been passed; a steady stage has kept its order, so the next stage that was read has none of them below it |
| `Staff_proofs!DaysPaidOnce` | `NoDayPaidTwice` | the credited half days are counted on disjoint sets of days, whose cardinalities are bounded by that of the month |
| `Attendance_proofs!TypeCorrect` | `TypeOK` | with `RecordsShaped` and `RequestsShaped`: a request that is about to write a record holds one the day may get |
| `Attendance_proofs!OwnEntryKept` | `OwnEntryStands` | from the shapes and one lemma on what any step does to the records: a day keeps its record, or gets an entry of the member, or a blank day becomes an absence or a holiday. `Miss` inserts, and the day's key refuses it where a record is |
| `Attendance_proofs!WarnedOnce` | `AbsentOnce` | not inductive: a run that inserted an absence has yet to warn of it. `AbsencesEntered`: the day of a warning for an absence has a record, so nobody enters a second absence, and while a run is about to warn of a day there is no warning yet and no other run about to |
| `Attendance_proofs!EnoughWarningsLock` | `ThresholdLocks` | not inductive: it speaks of quiet states. `CountPending`: enough warnings have locked, or the account was freed since the last of them, or some request is about to count or to lock |
| `Contact_proofs!TypeCorrect` | `TypeOK` | with what the two locks give (`FilesHeld`, `RowsHeld`: at most one import of a file is between its lock and its commit) and what a session's state allows |
| `Contact_proofs!OneRecording` | `OneRecordingPerFile` | as long as no session is shared, `Paired`: what an activity says of a session is so, an imported session with an address has an activity of its file unless it is named, so whoever looks under the lock and finds none is alone with a file that has no session; a finalization that sees all activities writes over the one of its file |
| `Contact_proofs!AnswersHold` | `AnsweredIsStored` | from the same invariant: what a client was told is playable and in the store, and an upload can only put the same file there again |
| `Redis_proofs!TypeCorrect` | `TypeOK` | with `RequestsIssued` and `RepliesIssued`: requests and remembered answers hold tokens that were given out |
| `Redis_proofs!NoLinkOutlivesReset` | `LinksEndWithReset` | `ResetsCounted`: the number of the last reset is that of the used links; a reset kills every unused one in the transaction in which it counts itself |
| `Redis_proofs!OneRequestKeepsSession` | `KeepsSession` | `BrowserInv`: but for the steps in which a request has spent the token and is about to answer with the next one, the token of the cookie is neither spent nor remembered as spent, and the next one is so from the moment it is made. Holds at each of the seven accesses whether Redis is there or not |
| `Redis_proofs!ReminderTypeCorrect` | `ReminderTypeOK` | `PassSound`: what a pass has yet to do are different follow-ups, fewer than a batch, as the candidates are at most a batch and each leaves the rest when it is taken up |
| `Redis_proofs!NoReminderTwice` | `RemindedOnce` | not inductive. `Once`, of each channel and follow-up whose reminder nothing may have doubled: one pass at most has it in hand (`InOneHand`); a pass about to send it for the present time is the first to, and one that has it for an earlier time came before it was sent or when it is too late to ask (`SentByNone`); and once it was sent it is about to be marked, or its key lives until it is too late (`SentIsKept`). `Expiry` keeps the last, `Ask` makes the second of it, and an overlap or a cut lifts the promise where it would break one |
| `Staff_proofs!TargetTypeCorrect` | `TargetTypeOK` | with `HandlersSound`: an unlock about to write an exemption has a period for it, also after the cycle was edited under it, so that period and end date are set together |
| `Contact_proofs!FollowUpTypeCorrect` | `FollowUpTypeOK` | with `VisitsSound`: the rows a request has read are still there when it writes them by identifier. `RowsKept`: no step loses a follow-up |
| `Automation_proofs!TypeCorrect` | `TypeOK` | with `RowsShaped`, `Placed` and `DepthsKept`: the executions that events, jobs and workers name exist, and no event above the depth limit is acted upon |
| `Automation_proofs!ActionsInOrder` | `InOrder` | action property; needs `StandsAt`: where a worker is tells how far its execution has come, so that a step, a throw or a catch touches only what comes after completed actions |
| `Automation_proofs!ImplementsPipeline` | `KeepsPipeline` | initial states map to the initial state; `Step` maps to `Begin`, the steps that close an execution to `End`, `CreateRun` to `New`, every other step to a stutter. `Begin` asks that the action was never begun and all before it once, which follows from `StandsAt` and from `HeldOnce`: an execution is in one place only, made by a dispatcher, queued, or with a worker, so that a job that is handed out again meets an execution that is PENDING and unbegun or is dropped |
| `Automation_proofs!LoopsEnd` | `LoopsAreCut` | `CutInv`: the depth that an event or a job carries is at least the length of the chain that led to it, except for the follow-ups that trigger nothing |

What could not be proved as it stood was wrong in the model or in the statement, and was changed:

* `OneRecordingPerFile` used to promise one activity for every file, of imports and uploads alike. Uploads take no
  lock of the file, and a finalization sees 20 activities; the statement now names what it needs.
* `ReviewBacked` used to ask for a verified proof. With the approval split where READ COMMITTED lets others commit,
  two approvals and a rejection leave none.
* Sessions assumed nothing of the set of links, whose used members are counted.
* Automation numbered the copies of an event up to a constant; it takes any free number now, as nothing in the code limits
  the dispatches under way. Pipeline gave every execution the same number of actions, which held only because the instance did.

Every invariant and action property that a run checks has a theorem, and so has the refinement. Only model-checked are the
liveness properties under fairness (`FailureIsActedOn`, `LocksSubside`, `GateRelents`, `GateHolds`, `DayIsRecorded`,
`QueuedRunStarts`, `DueIsReminded`), which are out of the prover's reach, as is what a recursive definition computes for
every input; and the refutations, which are counterexamples and not theorems. Targets and FollowUps promise nothing but
liveness beyond their types: what they do wrong meanwhile (`UnlockHolds`, `FutureIsNotOverdue`) is refuted, and what
they owe is owed in the end.

## 6 Findings

Each is a statement of a comment, an error message, a documented order or a test that the code does not keep. The
first is a run of `PROJECT.json`, with the quotation and the lines; the others are the further configurations.

* `PaidOnce`: two approvals of one payment request that overlap insert two verified payments. The
  transaction announces that it tests the status again and tests only that the row exists.
* `PaidComesFirst`: a company in a paid period is answered 402 once an early renewal is rejected,
  against the priority order above the decision (`companyAccess.service.ts:28`).
* `DeletionShutsOut`: DELETING stops only another deletion; an approval, an unlock or a grant reopens access
  while rows are being deleted (`companyControl.service.ts:317`).
* `DeletingIsOwned`: the list of recordings is read after the mark and outside any `try`, and the update that puts the
  status back may fail as well: the company stays DELETING, every later deletion is refused, and nothing in a living
  process comes back to it, against "Revert DELETING status so state is not locked forever" (`companyControl.service.ts:357`).
* `ApprovedIsVerified`: an approval looks up the proof that another approval has verified, a rejection marks it rejected,
  and the first one commits without marking it again, as `paymentApproval.service.ts:225` skips what was seen as
  verified: APPROVED with rejected proofs only (`paymentApproval.service.ts:150`, `:152`).
* `LinkAcceptedOnce`: two browsers validate one link, one of them accepts, an administrator resends, and the other accepts by the id
  of the row, which is unused again: its link has been used, and it is not told so (`invite.service.ts:120`).
* `ReactivationIsCounted`: a status update decides from a stale read that it is no reactivation, and
  reactivates without counting the seat (`adminUserService.ts:915`).
* `DeactivatedStaysOut`: a member with a link from before his deactivation is active again by
  accepting it (`inviteEligibility.ts:40`).
* `DecidedOnce`: two overlapping decisions of one approval request both take effect; the request can end
  DENIED with the lead in the stage it was denied.
* `OpenUntilApproved`: an update that asks for the approval of a won stage writes the flags of that stage at
  once, so the lead is listed as closed, and denying the request does not undo it.
* `UnlockHolds`: the job checks the exemption, then writes the lock; an unlock in between frees the account and
  exempts it, and the lock arrives all the same (`targetLockEvaluation.service.ts:192`).
* `FutureIsNotOverdue`: an edit of the lead moves a follow-up and leaves its overdue flag; a marking that read its
  candidates before a snooze sets it after (`followupOverduePersistence.service.ts:194`).
* `LoopsAreCut` with `MCAutomation_Loop`: `createFollowUp` raises its event without the depth, so a workflow triggered
  by the follow-up it creates starts at depth 0 each time (`eventDispatcher.ts:32`).
* `DelayedActionRuns`: the branch of the worker for `execute-...` takes the job `execute-action` too and drops it, as its
  execution is not PENDING; a delayed action waits for ever (`automation.jobs.ts:26`, `:36`).
* `ParallelCallersAnswered`: the mark of spent tokens is tested before the remembered answer, so a repeated or
  parallel refresh is refused and its cookie cleared, against `authController.ts:1018`.
* `KeepsSession` with `MCSessions_Overtaken`: two tabs refresh together, one goes on and refreshes again, and the late
  answer of the other puts the spent token back into the cookie.
* `RecordingsApart`: an import finds the reservation another one left pending and overwrites its content; two
  contents end as one recording (`callRecording.test.ts:902` says they stay two).
* `OneSessionPerFile`: an upload names the session that an import has reserved and takes no lock, so an import of the same
  file beside it finds nothing that is done or open and reserves another (`callRecording.test.ts:745`).
* `OneActivityPerFile`: on a lead with more activities than a finalization looks through, an import that
  follows another one of the file does not see its activity and adds its own (`callRecording.test.ts:808`).
* `SnoozedIsReminded`: the key of a follow-up that was reminded and then moved still stands when its new time comes.
  `DueIsReminded` with `MCReminders_Crowded`: a pass takes the first 200 candidates, reminded or not, and the rest wait
  behind them.

## 7 Not modelled

* Permissions and the contents of tokens. The models let any handler run at any time and are therefore independent
  of who may call it.
* Money. Amounts, revenue rows, the outstanding balance and the payment of an advance; they are sums, and what
  goes wrong between the two paths of an advance is among the hazards of section 1.
* Self-unlock, the hourly re-evaluation after it (`targetReEvaluationJob.service.ts`) and its escalation: `unlockUser` admits
  only a member who is his own supervisor, which the code allows, and the escalation of such a member stops at once.
  The daily violation ladder is not scheduled; its lock is `OtherLock`.
* Meta leads: the webhook inserts a lead; `retryFailedImport` marks an import as retried, answers "Retry initiated
  successfully." and imports nothing. Lead import is parsing and batch inserts; bulk assignment writes owners.
* Master data: creation and soft deletion of single rows. Stages and holidays are constants of the modules.
* Reports, dashboards, sheets and exports, which are the largest files, read what others write.
* Notifications: the worker that hands pushes to devices, the registration of device tokens (two statements,
  `deviceController.ts:34`), sockets. Mail, telephony, object storage and the provider appear as steps that may fail.
* Calendars. A period is its index and a day a number: how `targetAssignment.service.ts` and `attendanceCalendar.service.ts`
  compute dates is not modelled. (A WEEKLY cycle without `numberOfMonths` stores its number of weeks there.)

The modules cover the components that change shared rows; most of the remaining code is queries, validation and
formatting.

## 8 Plan

* Payments, if the balance is cut down to whether a request still counts towards it: an advance with its two paths,
  with the promise that a paid advance is deducted once.
* An abstract specification of a link (issued, then accepted once, or dead) was considered for Seats and Sessions and given
  up: an invitation that is revoked or expires while its handler waits is accepted all the same, and a reset link
  is used by two requests that overlap, so neither implements it.
* The escalation after a self-unlock and the import of leads call for models of their own once the code that
  is missing today is there; section 7 says what each lacks.
