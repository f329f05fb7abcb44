------------------------------- MODULE Targets -------------------------------
(***************************************************************************)
(* Target locks of one member of staff.  An hourly job measures every      *)
(* period whose locking date has passed and locks the account of a member  *)
(* who failed one.  A supervisor unlocks, which exempts the member from    *)
(* being locked again for that period.  Around them: grace, removal and    *)
(* edits of the target cycle, locks of other modules, the request guard    *)
(* that corrects stale locks, and the remediation at server boot.          *)
(*                                                                         *)
(* Only one way to assign a cycle runs in a transaction.  Otherwise an     *)
(* action is one database access, and every handler may stop between any   *)
(* two.  handler[p] is what is in flight in slot p with what   *)
(* it has read.                                                            *)
(*                                                                         *)
(* Abstracted: what a period measures is one bit, "met"; who counts as a   *)
(* supervisor or stakeholder is one bit too; a period is its index, which  *)
(* also orders the end dates.  Self-unlock and the escalation after it are *)
(* left out: unlockUser refuses them unless a member is his own supervisor.*)
(***************************************************************************)
EXTENDS Naturals

CONSTANTS
    Last,         \* number of periods of the cycle
    Jobs,         \* processes that run the hourly job
    Requests,     \* requests that can be in flight at the same time
    MaxUpsets,    \* bound on crashes, edits, deletions and promotions together
    Null,         \* a null column
    Gone          \* the identifier of a period row that has been deleted

ASSUME PeriodsAssumption ==
    /\ Last \in Nat /\ MaxUpsets \in Nat
    /\ Null \notin Nat /\ Gone \notin Nat /\ Null # Gone
    /\ Jobs \cap Requests = {}

VARIABLES
    due,          \* the locking dates of periods 1..due have passed
    cycle,        \* status of the target cycle
    met,          \* periods whose targets the member has reached
    stakeholder,  \* isUserActingAsSupervisorOrStakeholder
    user,         \* isLocked, and whether targetLockedAt is set
    asg,          \* the assignment of the cycle to the member
    log,          \* lock logs: the period of the newest, and is one valid
    handler,      \* the handler in flight in each slot
    upsets        \* crashes, edits, deletions and promotions so far

targetVars == <<due, cycle, met, stakeholder, user, asg, log, handler, upsets>>
world == <<due, cycle, met, stakeholder, upsets>>

-----------------------------------------------------------------------------
Periods == 1 .. Last
Ref     == Periods \cup {Gone, Null}
Slots   == Jobs \cup Requests

Account    == [locked : BOOLEAN, stamped : BOOLEAN]
Assignment == [active : BOOLEAN, exempt : Ref, until : 0 .. Last, grace : BOOLEAN]

Handler ==
    [kind : {"idle", "asked", "free", "correct", "remedy", "withdraw",
             "retire", "release", "assign", "assigned"}]
      \cup [kind : {"run"}, todo : SUBSET Periods]
      \cup [kind : {"evaluate"}, todo : SUBSET Periods, period : Periods \cup {Gone},
            locked : BOOLEAN]
      \cup [kind : {"check", "clear", "set", "stamp", "log"},
            todo : SUBSET Periods, period : Periods \cup {Gone}]
      \cup [kind : {"unlock", "unstamp", "exempt"}, period : Ref, owned : BOOLEAN]

Vacant == [kind |-> "idle"]

(* Shape of the rows and handlers; exemptPeriodId and exemptUntilPeriodEnd *)
(* are set and cleared together.                                           *)
TargetTypeOK ==
    /\ due \in 0 .. Last
    /\ cycle \in {"ACTIVE", "INACTIVE", "deleted"}
    /\ met \subseteq Periods
    /\ stakeholder \in BOOLEAN
    /\ user \in Account
    /\ asg \in Assignment
    /\ (asg.exempt = Null) <=> (asg.until = 0)
    /\ log \in [period : Ref, valid : BOOLEAN]
    /\ handler \in [Slots -> Handler]
    /\ upsets \in 0 .. MaxUpsets

-----------------------------------------------------------------------------
Switch(p, h)   == handler' = [handler EXCEPT ![p] = h]
Enter(p, h)    == handler[p] = Vacant /\ Switch(p, h)
Leave(p)       == Switch(p, Vacant)
Doing(p, kind) == handler[p].kind = kind

Upset == upsets < MaxUpsets /\ upsets' = upsets + 1

Run(todo)      == IF todo = {} THEN Vacant ELSE [kind |-> "run", todo |-> todo]
Continue(j)    == Switch(j, Run(handler[j].todo))
Goto(j, kind)  == Switch(j, [kind |-> kind, todo |-> handler[j].todo,
                             period |-> handler[j].period])

(* shouldSkipLockForExemptPeriod.                                          *)
Covered(p) == asg.exempt = p \/ (p \in Periods /\ p <= asg.until)

-----------------------------------------------------------------------------
(* runTargetLockingEvaluation: the due periods of an active cycle; for     *)
(* each of them the active assignments with their users; for each of these *)
(* the measurement and, if it failed, the lock.                            *)
StartRun(j) ==
    /\ cycle = "ACTIVE" /\ due > 0
    /\ Enter(j, Run(1 .. due))
    /\ UNCHANGED <<world, user, asg, log>>

NextPeriod(j, p) ==
    /\ Doing(j, "run") /\ p \in handler[j].todo
    /\ \/ /\ asg.active
          /\ Switch(j, [kind |-> "evaluate", todo |-> handler[j].todo \ {p}, period |-> p,
                        locked |-> user.locked])
       \/ /\ ~asg.active
          /\ Switch(j, Run(handler[j].todo \ {p}))
    /\ UNCHANGED <<world, user, asg, log>>

(* evaluateAssignmentPeriod; a vanished period or assignment and a running *)
(* grace count as completed.                                               *)
Completed(p) == ~asg.active \/ p = Gone \/ asg.grace \/ p \in met

EvaluateUnmeasured(j) ==                                             \* mutant
    /\ Doing(j, "evaluate")
    /\ \/ ~stakeholder /\ ~handler[j].locked /\ Goto(j, "check")
       \/ (stakeholder \/ handler[j].locked) /\ Continue(j)
    /\ UNCHANGED <<world, user, asg, log>>

Evaluate(j) ==
    /\ Doing(j, "evaluate")
    /\ LET fails == ~stakeholder /\ ~Completed(handler[j].period) /\ ~handler[j].locked
       IN  \/ fails /\ Goto(j, "check")
           \/ ~fails /\ Continue(j)
    /\ UNCHANGED <<world, user, asg, log>>

(* lockUserForTargetFailure with canLockUserForTargetFailure: an exemption *)
(* of an earlier or a deleted period is cleared, one that covers the       *)
(* period ends the matter.                                                 *)
Expired(p) == asg.exempt = Gone \/ (asg.exempt \in Periods /\ p > asg.exempt)

CheckExemptForEver(j) ==                                             \* mutant
    /\ Doing(j, "check")
    /\ \/ handler[j].period # Gone /\ ~stakeholder /\ asg.exempt = Null /\ Goto(j, "set")
       \/ (handler[j].period = Gone \/ stakeholder \/ asg.exempt # Null) /\ Continue(j)
    /\ UNCHANGED <<world, user, asg, log>>

Check(j) ==
    /\ Doing(j, "check")
    /\ LET p    == handler[j].period
           skip == p = Gone \/ stakeholder \/ (Covered(p) /\ ~Expired(p))
       IN  \/ skip /\ Continue(j)
           \/ ~skip /\ Expired(p) /\ Goto(j, "clear")
           \/ ~skip /\ ~Expired(p) /\ Goto(j, "set")
    /\ UNCHANGED <<world, user, asg, log>>

Clear(j) ==
    /\ Doing(j, "clear")
    /\ asg' = [asg EXCEPT !.exempt = Null, !.until = 0]
    /\ Goto(j, "set")
    /\ UNCHANGED <<world, user, log>>

(* Three statements: lockUser, the stamp, and the log that a later unlock  *)
(* takes the exempted period from.                                         *)
SetLocked(j) ==
    /\ Doing(j, "set")
    /\ user' = [user EXCEPT !.locked = TRUE]
    /\ Goto(j, "stamp")
    /\ UNCHANGED <<world, asg, log>>

Stamp(j) ==
    /\ Doing(j, "stamp")
    /\ user' = [user EXCEPT !.stamped = TRUE]
    /\ Goto(j, "log")
    /\ UNCHANGED <<world, asg, log>>

WriteLog(j) ==
    /\ Doing(j, "log")
    /\ log' = [period |-> handler[j].period, valid |-> TRUE]
    /\ Continue(j)
    /\ UNCHANGED <<world, user, asg>>

-----------------------------------------------------------------------------
(* unlockTargetLockedUser, by a supervisor or an administrator.            *)
UnlockRead(w) ==
    /\ Doing(w, "idle") \/ Doing(w, "asked")
    /\ \/ /\ user.locked
          /\ Switch(w, [kind |-> "unlock", period |-> log.period, owned |-> asg.active])
       \/ /\ Doing(w, "asked") /\ ~user.locked
          /\ Leave(w)
    /\ UNCHANGED <<world, user, asg, log>>

(* unlockUser tests the lock again.                                        *)
Unlock(w) ==
    /\ Doing(w, "unlock")
    /\ \/ /\ user.locked
          /\ user' = [user EXCEPT !.locked = FALSE]
          /\ Switch(w, [handler[w] EXCEPT !.kind = "unstamp"])
       \/ /\ ~user.locked
          /\ Leave(w)
          /\ UNCHANGED user
    /\ UNCHANGED <<world, asg, log>>

Unstamp(w) ==
    /\ Doing(w, "unstamp")
    /\ user' = [user EXCEPT !.stamped = FALSE]
    /\ \/ /\ handler[w].owned /\ handler[w].period # Null
          /\ Switch(w, [handler[w] EXCEPT !.kind = "exempt"])
       \/ ~(handler[w].owned /\ handler[w].period # Null) /\ Leave(w)
    /\ UNCHANGED <<world, asg, log>>

(* applyTargetLockExemptionAfterUnlock.                                    *)
ExemptUndated(w) ==                                                  \* mutant
    /\ Doing(w, "exempt")
    /\ \/ /\ handler[w].period # Gone /\ asg.active
          /\ asg' = [asg EXCEPT !.exempt = handler[w].period]
       \/ /\ handler[w].period = Gone \/ ~asg.active
          /\ UNCHANGED asg
    /\ Leave(w)
    /\ UNCHANGED <<world, user, log>>

Exempt(w) ==
    /\ Doing(w, "exempt")
    /\ \/ /\ handler[w].period # Gone /\ asg.active
          /\ asg' = [asg EXCEPT !.exempt = handler[w].period, !.until = handler[w].period]
       \/ /\ handler[w].period = Gone \/ ~asg.active
          /\ UNCHANGED asg
    /\ Leave(w)
    /\ UNCHANGED <<world, user, log>>

(* extendTargetGracePeriod: the date, then an unlock if there is a lock.   *)
ExtendGrace(w) ==
    /\ Enter(w, [kind |-> "asked"])
    /\ asg' = [asg EXCEPT !.grace = asg.active \/ @]
    /\ UNCHANGED <<world, user, log>>

(* A lock by attendance or a violation sets isLocked only.  The attendance *)
(* module lifts it in a write that follows its read; of a target lock it   *)
(* makes an unlock as above.                                               *)
OtherLock ==
    /\ user' = [user EXCEPT !.locked = TRUE]
    /\ UNCHANGED <<world, asg, log, handler>>

FreeRead(w) ==
    /\ user.locked /\ ~user.stamped
    /\ Enter(w, [kind |-> "free"])
    /\ UNCHANGED <<world, user, asg, log>>

Free(w) ==
    /\ Doing(w, "free")
    /\ user' = [user EXCEPT !.locked = FALSE]
    /\ Leave(w)
    /\ UNCHANGED <<world, asg, log>>

-----------------------------------------------------------------------------
(* checkUserLock: a request of the locked member corrects a target lock    *)
(* that has no active assignment or cycle behind it.  With both behind it  *)
(* the guard writes nothing.                                               *)
GuardRead(w) ==
    /\ user.locked /\ user.stamped
    /\ ~asg.active \/ cycle = "INACTIVE"
    /\ Enter(w, [kind |-> "correct"])
    /\ UNCHANGED <<world, user, asg, log>>

(* remediateInvalidTargetLocks at boot: a stakeholder found locked loses   *)
(* the lock, the logs and the assignment; a target lock without a valid    *)
(* log is corrected.                                                       *)
RemedyRead(w) ==
    /\ user.locked
    /\ \/ stakeholder /\ Enter(w, [kind |-> "remedy"])
       \/ ~stakeholder /\ user.stamped /\ ~log.valid /\ Enter(w, [kind |-> "correct"])
    /\ UNCHANGED <<world, user, asg, log>>

Correct(w) ==
    /\ Doing(w, "correct")
    /\ user' = [locked |-> FALSE, stamped |-> FALSE]
    /\ Leave(w)
    /\ UNCHANGED <<world, asg, log>>

Remedy(w) ==
    /\ Doing(w, "remedy")
    /\ log' = [log EXCEPT !.valid = FALSE]
    /\ user' = [locked |-> FALSE, stamped |-> FALSE]
    /\ Switch(w, [kind |-> "withdraw"])
    /\ UNCHANGED <<world, asg>>

Withdraw(w) ==
    /\ Doing(w, "withdraw")
    /\ asg' = [asg EXCEPT !.active = FALSE]
    /\ Leave(w)
    /\ UNCHANGED <<world, user, log>>

-----------------------------------------------------------------------------
(* syncUserTargetCycleAssignment assigns or removes the cycle in one       *)
(* transaction.                                                            *)
Assign ==
    /\ cycle = "ACTIVE"
    /\ asg' = [asg EXCEPT !.active = TRUE]
    /\ UNCHANGED <<world, user, log, handler>>

ClearCycle ==
    /\ asg' = [asg EXCEPT !.active = FALSE]
    /\ user' = [locked |-> FALSE, stamped |-> FALSE]
    /\ UNCHANGED <<world, log, handler>>

(* assignTargetCycleToUser and clearUserTargetCycle do the same without    *)
(* one: the cycle may be gone, or the job may find no assignment, before   *)
(* the new one is written.                                                 *)
AssignRead(w) ==
    /\ cycle = "ACTIVE"
    /\ Enter(w, [kind |-> "assign"])
    /\ UNCHANGED <<world, user, asg, log>>

AssignOff(w) ==
    /\ Doing(w, "assign")
    /\ asg' = [asg EXCEPT !.active = FALSE]
    /\ Switch(w, [kind |-> "assigned"])
    /\ UNCHANGED <<world, user, log>>

AssignOn(w) ==
    /\ Doing(w, "assigned")
    /\ asg' = [asg EXCEPT !.active = TRUE]
    /\ Leave(w)
    /\ UNCHANGED <<world, user, log>>

ClearOff(w) ==
    /\ asg' = [asg EXCEPT !.active = FALSE]
    /\ Enter(w, [kind |-> "release"])
    /\ UNCHANGED <<world, user, log>>

(* persistTargetCycleWithPeriods deletes the period rows and creates new   *)
(* ones; what still names an old row names nothing.                        *)
Stale(ref) == IF ref = Null THEN Null ELSE Gone

StaleHandler(h) ==
    IF h.kind = "run" THEN Vacant
    ELSE IF "todo" \in DOMAIN h THEN [h EXCEPT !.todo = {}, !.period = Gone]
    ELSE IF "period" \in DOMAIN h THEN [h EXCEPT !.period = Stale(@)]
    ELSE h

EditCycle(status) ==
    /\ cycle # "deleted"
    /\ Upset
    /\ cycle' = status
    /\ asg' = [asg EXCEPT !.exempt = Stale(@)]
    /\ log' = [log EXCEPT !.period = Stale(@)]
    /\ handler' = [s \in Slots |-> StaleHandler(handler[s])]
    /\ UNCHANGED <<due, met, stakeholder, user>>

(* deleteTargetCycle: three statements.                                    *)
DeleteCycle(w) ==
    /\ cycle # "deleted"
    /\ Upset
    /\ cycle' = "deleted"
    /\ Enter(w, [kind |-> "retire"])
    /\ UNCHANGED <<due, met, stakeholder, user, asg, log>>

Retire(w) ==
    /\ Doing(w, "retire")
    /\ asg' = [asg EXCEPT !.active = FALSE]
    /\ Switch(w, [kind |-> "release"])
    /\ UNCHANGED <<world, user, log>>

Release(w) ==
    /\ Doing(w, "release")
    /\ user' = [locked |-> FALSE, stamped |-> FALSE]
    /\ Leave(w)
    /\ UNCHANGED <<world, asg, log>>

-----------------------------------------------------------------------------
(* Time, work and the organisation chart.  A period that has ended can     *)
(* still be met, since leads are counted in the stage they are in now.     *)
PeriodDue   == /\ due < Last /\ due' = due + 1
               /\ UNCHANGED <<cycle, met, stakeholder, user, asg, log, handler, upsets>>
Work(p)     == /\ p \notin met /\ met' = met \cup {p}
               /\ UNCHANGED <<due, cycle, stakeholder, user, asg, log, handler, upsets>>
Promote     == /\ ~stakeholder /\ Upset /\ stakeholder' = TRUE
               /\ UNCHANGED <<due, cycle, met, user, asg, log, handler>>
GraceEnds   == /\ asg.grace /\ asg' = [asg EXCEPT !.grace = FALSE]
               /\ UNCHANGED <<world, user, log, handler>>

Crash(p) ==
    /\ handler[p] # Vacant
    /\ Upset
    /\ Leave(p)
    /\ UNCHANGED <<due, cycle, met, stakeholder, user, asg, log>>

TargetInit ==
    /\ due \in {0, 1} \cap (0 .. Last)
    /\ cycle = "ACTIVE"
    /\ met = {}
    /\ stakeholder = FALSE
    /\ user = [locked |-> FALSE, stamped |-> FALSE]
    /\ asg = [active |-> TRUE, exempt |-> Null, until |-> 0, grace |-> FALSE]
    /\ log = [period |-> Null, valid |-> FALSE]
    /\ handler = [s \in Slots |-> Vacant]
    /\ upsets = 0

JobStep(j) ==
    \/ StartRun(j)
    \/ \E p \in Periods : NextPeriod(j, p)
    \/ Evaluate(j) \/ Check(j) \/ Clear(j) \/ SetLocked(j) \/ Stamp(j) \/ WriteLog(j)

DeskStep(w) ==
    \/ UnlockRead(w) \/ Unlock(w) \/ Unstamp(w) \/ Exempt(w) \/ ExtendGrace(w)
    \/ FreeRead(w) \/ Free(w)
    \/ GuardRead(w) \/ RemedyRead(w) \/ Correct(w) \/ Remedy(w) \/ Withdraw(w)
    \/ AssignRead(w) \/ AssignOff(w) \/ AssignOn(w) \/ ClearOff(w)
    \/ DeleteCycle(w) \/ Retire(w) \/ Release(w)

TargetNext ==
    \/ \E j \in Jobs : JobStep(j)
    \/ \E w \in Requests : DeskStep(w)
    \/ OtherLock \/ Assign \/ ClearCycle
    \/ \E status \in {"ACTIVE", "INACTIVE"} : EditCycle(status)
    \/ PeriodDue \/ Promote \/ GraceEnds
    \/ \E p \in Periods : Work(p)
    \/ \E s \in Slots : Crash(s)

(* startTargetPerformanceJobs runs the job at boot and every hour; nobody  *)
(* has to unlock, to work or to wait.                                      *)
Fairness == \A j \in Jobs : WF_targetVars(JobStep(j))

TargetSpec == TargetInit /\ [][TargetNext]_targetVars /\ Fairness

-----------------------------------------------------------------------------
(* What the job is for: a member who from some time on owes a due period   *)
(* does not work on for ever, neither locked nor exempted by an unlock.    *)
(* Overlapping unlocks, other locks, a crashed run and an edit of the      *)
(* cycle may delay the job but not make it miss him.                       *)
Owes(p) ==
    /\ cycle = "ACTIVE" /\ p <= due
    /\ asg.active /\ ~asg.grace /\ ~stakeholder /\ p \notin met

FailureIsActedOn ==
    \A p \in Periods : <>[]Owes(p) => []<>(user.locked \/ Covered(p))

(* And what it may not do: once the member owes nothing any more, it comes *)
(* to rest.  A lock that was decided before may still arrive, late and     *)
(* once, but no later run locks him.                                       *)
LocksSubside ==
    <>[](\A p \in Periods : ~Owes(p))
      => <>[][\A j \in Jobs : ~(Doing(j, "set") /\ handler'[j].kind = "stamp")]_targetVars

(* "Post-unlock: skip re-locking for the same target period until the next *)
(* period begins", says targetLockEvaluation.service.ts:192.  The check    *)
(* is made before the lock is written, and an unlock that frees the        *)
(* account before it writes the exemption leaves a gap.                    *)
UnlockHolds ==
    [][ \A j \in Jobs : Doing(j, "set") /\ handler'[j].kind = "stamp"
          => ~(handler[j].period \in Periods /\ asg.exempt = handler[j].period) ]_targetVars
=============================================================================
