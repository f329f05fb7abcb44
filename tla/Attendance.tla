----------------------------- MODULE Attendance -----------------------------
(***************************************************************************)
(* The attendance of one member: the record of each day, which he submits, *)
(* checks out of and has reviewed; the hourly job that enters an absence   *)
(* for whoever has no record after the cut-off; the warnings for lateness  *)
(* and absence that lock the account once there are enough of them; and    *)
(* the location sessions that run while he is checked in.                  *)
(*                                                                         *)
(* An action is one database statement; a request holds what it has read   *)
(* between two of them.  There is one record for a member and a day: the   *)
(* second insert of a pair fails.                                          *)
(*                                                                         *)
(* Abstracted: times of day and distances from the office, which only      *)
(* refuse a request or make it late, are free choices; texts, audit and    *)
(* approval logs, notifications and whether a leave is paid are left out;  *)
(* a day off, by holiday or by week, is one of the constant Holidays.      *)
(* Warnings and the lock are enabled; the lock for missed targets is in    *)
(* module Targets.  The member is no superadmin: lockUser passes over one. *)
(***************************************************************************)
EXTENDS Naturals, FiniteSets

CONSTANTS
    Last,              \* the last day
    Holidays,          \* days off
    Desks,             \* requests that can be in flight together
    Jobs,              \* runs of the hourly job that can overlap
    Threshold,         \* settings.warningThreshold
    ApprovalRequired,  \* settings.approvalRequired
    MaxCopies,         \* bound: warnings of one cause on one day
    MaxSessions,       \* bound: active location sessions of one record
    MaxUpsets          \* bound: requests and runs that break off

ASSUME AttendanceAssumption ==
    /\ Last \in Nat \ {0} /\ Threshold \in Nat \ {0}
    /\ Holidays \subseteq 1 .. Last
    /\ ApprovalRequired \in BOOLEAN
    /\ MaxCopies \in Nat \ {0} /\ MaxSessions \in Nat \ {0} /\ MaxUpsets \in Nat

VARIABLES
    today, pastCutoff, \* the clock
    record,            \* the attendance record of each day
    warnings,          \* attendance warnings
    locked,            \* user.isLocked
    freed,             \* ghost: unlocked since the last warning
    sessions,          \* number of active location sessions of each record
    op,                \* the request at each desk, the run of each job
    upsets             \* how many of them have broken off

vars == <<today, pastCutoff, record, warnings, locked, freed, sessions, op, upsets>>

-----------------------------------------------------------------------------
Days     == 1 .. Last
Types    == {"work", "leave", "absent", "off"}
Payloads == {"work", "leave"}                        \* one that is worked, one that is not
Causes   == {"late", "absent"}
Statuses == {"PENDING", "CLARIFICATION_REQUESTED", "APPROVED", "REJECTED"}
Pending  == {"PENDING", "CLARIFICATION_REQUESTED"}   \* PENDING_APPROVAL_STATUSES

Record  == [type : Types, by : {"user", "cron"}, in : BOOLEAN, out : BOOLEAN,
            status : Statuses]
Blank   == [by |-> "none"]
Warning == [cause : Causes, day : Days, copy : 1 .. MaxCopies]

(* new: no record was found when the request began.                        *)
Request ==
    [kind : {"idle"}]
      \cup [kind : {"warn", "count", "lock"}, cause : {"late"}, day : Days, new : BOOLEAN]
      \cup [kind : {"warn", "count", "lock"}, cause : {"absent"}, day : Days]
      \cup [kind : {"enter"}, day : Days, type : Types, new : BOOLEAN]
      \cup [kind : {"miss", "find", "open", "checkout", "stop", "review"}, day : Days]
      \cup [kind : {"unlock", "pardon", "free"}]

(* Shape of the records, warnings and requests; whoever is checked out has *)
(* been checked in, and nothing is ever written over an entry of the job's *)
(* but a submission.                                                       *)
TypeOK ==
    /\ today \in Days /\ pastCutoff \in BOOLEAN
    /\ locked \in BOOLEAN /\ freed \in BOOLEAN
    /\ record \in [Days -> Record \cup {Blank}]
    /\ \A d \in Days : /\ record[d].by = "cron" => record[d].status = "APPROVED" /\ ~record[d].in
                      /\ record[d] # Blank => (record[d].out => record[d].in)
    /\ warnings \in SUBSET Warning
    /\ sessions \in [Days -> 0 .. MaxSessions]
    /\ op \in [Desks \cup Jobs -> Request]
    /\ upsets \in 0 .. MaxUpsets

-----------------------------------------------------------------------------
Idle         == [kind |-> "idle"]
Become(w, h) == op' = [op EXCEPT ![w] = h]
Begin(w, h)  == op[w] = Idle /\ Become(w, h)
Finish(w)    == Become(w, Idle)
At(w, kind)  == op[w].kind = kind

Clock        == <<today, pastCutoff>>
Put(d, r)    == record' = [record EXCEPT ![d] = r]
Given(cause, d) == {x \in warnings : x.cause = cause /\ x.day = d}

(* shouldRequireCheckout                                                   *)
OpenForCheckout(r) == r.by = "user" /\ r.type = "work" /\ ~r.out

-----------------------------------------------------------------------------
(* markAttendance: the member submits a day.  A record of his own can only *)
(* be replaced once it has been rejected; one of the job's always.         *)
MarkRead(w, d, type, late) ==
    /\ ~locked
    /\ record[d].by = "user" => record[d].status = "REJECTED"
    /\ LET kept == IF d \in Holidays THEN "off" ELSE type
           new  == record[d] = Blank
       IN  IF kept = "work" /\ late
           THEN Begin(w, [kind |-> "warn", cause |-> "late", day |-> d, new |-> new])
           ELSE Begin(w, [kind |-> "enter", day |-> d, type |-> kept, new |-> new])
    /\ UNCHANGED <<Clock, record, warnings, locked, freed, sessions, upsets>>

(* A warning, then the count of all warnings, whatever their day, and the  *)
(* lock where the count was enough.                                        *)
Warn(w) ==
    /\ At(w, "warn")
    /\ LET h == op[w]
           n == Cardinality(Given(h.cause, h.day)) + 1
       IN  /\ n <= MaxCopies
           /\ warnings' = warnings \cup {[cause |-> h.cause, day |-> h.day, copy |-> n]}
           /\ Become(w, [h EXCEPT !.kind = "count"])
    /\ freed' = FALSE
    /\ UNCHANGED <<Clock, record, locked, sessions, upsets>>

Counted(h) ==
    IF h.cause = "absent" THEN Idle
    ELSE [kind |-> "enter", day |-> h.day, type |-> "work", new |-> h.new]

CountAbove(w) ==                                                     \* mutant
    /\ At(w, "count")
    /\ Become(w, IF Cardinality(warnings) > Threshold THEN [op[w] EXCEPT !.kind = "lock"]
                                                      ELSE Counted(op[w]))
    /\ UNCHANGED <<Clock, record, warnings, locked, freed, sessions, upsets>>

Count(w) ==
    /\ At(w, "count")
    /\ Become(w, IF Cardinality(warnings) >= Threshold THEN [op[w] EXCEPT !.kind = "lock"]
                                                       ELSE Counted(op[w]))
    /\ UNCHANGED <<Clock, record, warnings, locked, freed, sessions, upsets>>

Lock(w) ==
    /\ At(w, "lock")
    /\ locked' = TRUE
    /\ Become(w, Counted(op[w]))
    /\ UNCHANGED <<Clock, record, warnings, freed, sessions, upsets>>

(* The submission replaces the record that was found, or inserts one.      *)
Submitted(type, d) ==
    [type |-> type, by |-> "user", in |-> d \notin Holidays, out |-> FALSE,
     status |-> IF ApprovalRequired THEN "PENDING" ELSE "APPROVED"]

Enter(w) ==
    /\ At(w, "enter")
    /\ LET h == op[w]
       IN  \/ /\ h.new /\ record[h.day] # Blank         \* unique (userId, date)
              /\ Finish(w)
              /\ UNCHANGED record
           \/ /\ h.new => record[h.day] = Blank
              /\ Put(h.day, Submitted(h.type, h.day))
              /\ IF h.type = "work" THEN Become(w, [kind |-> "find", day |-> h.day])
                                    ELSE Finish(w)
    /\ UNCHANGED <<Clock, warnings, locked, freed, sessions, upsets>>

(* startSession, and pushLocation without a session: only for a record     *)
(* that is checked in and not checked out.                                 *)
Track(w, d) ==
    /\ record[d].by = "user" /\ record[d].in /\ ~record[d].out
    /\ Begin(w, [kind |-> "find", day |-> d])
    /\ UNCHANGED <<Clock, record, warnings, locked, freed, sessions, upsets>>

(* startSessionForAttendance                                               *)
FindSession(w) ==
    /\ At(w, "find")
    /\ IF sessions[op[w].day] > 0 THEN Finish(w) ELSE Become(w, [op[w] EXCEPT !.kind = "open"])
    /\ UNCHANGED <<Clock, record, warnings, locked, freed, sessions, upsets>>

OpenSession(w) ==
    /\ At(w, "open")
    /\ sessions[op[w].day] < MaxSessions
    /\ sessions' = [sessions EXCEPT ![op[w].day] = @ + 1]
    /\ Finish(w)
    /\ UNCHANGED <<Clock, record, warnings, locked, freed, upsets>>

(* stopSession, and the end of a check-out: stopSessionForAttendance.      *)
StopTracking(w, d) ==
    /\ sessions[d] > 0
    /\ Begin(w, [kind |-> "stop", day |-> d])
    /\ UNCHANGED <<Clock, record, warnings, locked, freed, sessions, upsets>>

StopSessions(w) ==
    /\ At(w, "stop")
    /\ sessions' = [sessions EXCEPT ![op[w].day] = 0]
    /\ Finish(w)
    /\ UNCHANGED <<Clock, record, warnings, locked, freed, upsets>>

-----------------------------------------------------------------------------
(* checkOutAttendance: a check-out, or a new summary after a question.     *)
CheckOutUnchecked(w, d) ==                                           \* mutant
    /\ record[d] # Blank /\ ~record[d].out
    /\ Begin(w, [kind |-> "checkout", day |-> d])
    /\ UNCHANGED <<Clock, record, warnings, locked, freed, sessions, upsets>>

CheckOutRead(w, d) ==
    /\ record[d].by # "none" /\ record[d].in
    /\ record[d].status = "CLARIFICATION_REQUESTED" \/ OpenForCheckout(record[d])
    /\ Begin(w, [kind |-> "checkout", day |-> d])
    /\ UNCHANGED <<Clock, record, warnings, locked, freed, sessions, upsets>>

CheckOut(w) ==
    /\ At(w, "checkout")
    /\ LET d == op[w].day
       IN  /\ Put(d, [record[d] EXCEPT
                        !.out = TRUE,
                        !.status = IF ApprovalRequired THEN "PENDING" ELSE "APPROVED"])
           /\ Become(w, [kind |-> "stop", day |-> d])
    /\ UNCHANGED <<Clock, warnings, locked, freed, sessions, upsets>>

(* reviewAttendance and requestClarification: the record is tested when it *)
(* is read and written by its identifier.  Either write may follow the     *)
(* same read.                                                              *)
ReviewRead(w, d) ==
    /\ record[d].by = "user" /\ record[d].status \in Pending
    /\ Begin(w, [kind |-> "review", day |-> d])
    /\ UNCHANGED <<Clock, record, warnings, locked, freed, sessions, upsets>>

Review(w, approve) ==
    /\ At(w, "review")
    /\ LET d == op[w].day
       IN  Put(d, [record[d] EXCEPT !.status = IF approve THEN "APPROVED" ELSE "REJECTED"])
    /\ Finish(w)
    /\ UNCHANGED <<Clock, warnings, locked, freed, sessions, upsets>>

Clarify(w) ==
    /\ At(w, "review")
    /\ LET d == op[w].day
       IN  Put(d, [record[d] EXCEPT !.status = "CLARIFICATION_REQUESTED"])
    /\ Finish(w)
    /\ UNCHANGED <<Clock, warnings, locked, freed, sessions, upsets>>

(* unlockUserAdmin: the account is unlocked if it was found locked; then   *)
(* all warnings are deleted.                                               *)
UnlockRead(w) ==
    /\ Begin(w, [kind |-> IF locked THEN "unlock" ELSE "pardon"])
    /\ UNCHANGED <<Clock, record, warnings, locked, freed, sessions, upsets>>

Unlock(w) ==
    /\ At(w, "unlock")
    /\ locked' = FALSE /\ freed' = (freed \/ locked)
    /\ Become(w, [kind |-> "pardon"])
    /\ UNCHANGED <<Clock, record, warnings, sessions, upsets>>

Pardon(w) ==
    /\ At(w, "pardon")
    /\ warnings' = {}
    /\ Finish(w)
    /\ UNCHANGED <<Clock, record, locked, freed, sessions, upsets>>

(* unlockTargetLockedUser, by itself or at the end of                      *)
(* extendTargetGracePeriod: frees whoever is found locked, for whatever    *)
(* reason, and leaves the warnings.  unlockUser looks once more and        *)
(* refuses an account that another has freed: it stays as it is.           *)
FreeRead(w) ==
    /\ locked
    /\ Begin(w, [kind |-> "free"])
    /\ UNCHANGED <<Clock, record, warnings, locked, freed, sessions, upsets>>

Free(w) ==
    /\ At(w, "free")
    /\ locked' = FALSE /\ freed' = (freed \/ locked)
    /\ Finish(w)
    /\ UNCHANGED <<Clock, record, warnings, sessions, upsets>>

-----------------------------------------------------------------------------
(* autoAbsentMarking for today: a day off is upserted, an absence inserted *)
(* where no record was found; an insert that meets a record is skipped.    *)
Holiday == [type |-> "off", by |-> "cron", in |-> FALSE, out |-> FALSE, status |-> "APPROVED"]
Absence == [Holiday EXCEPT !.type = "absent"]

JobDayOff(j) ==
    /\ pastCutoff /\ today \in Holidays
    /\ op[j] = Idle /\ record[today] = Blank
    /\ Put(today, Holiday)
    /\ UNCHANGED <<Clock, warnings, locked, freed, sessions, op, upsets>>

JobLook(j) ==
    /\ pastCutoff /\ today \notin Holidays
    /\ record[today] = Blank
    /\ Begin(j, [kind |-> "miss", day |-> today])
    /\ UNCHANGED <<Clock, record, warnings, locked, freed, sessions, upsets>>

MissOver(j) ==                                                       \* mutant
    /\ At(j, "miss")
    /\ Put(op[j].day, Absence)
    /\ Become(j, [kind |-> "warn", cause |-> "absent", day |-> op[j].day])
    /\ UNCHANGED <<Clock, warnings, locked, freed, sessions, upsets>>

MissWarned(j) ==                                                     \* mutant
    /\ At(j, "miss")
    /\ IF record[op[j].day] = Blank THEN Put(op[j].day, Absence) ELSE UNCHANGED record
    /\ Become(j, [kind |-> "warn", cause |-> "absent", day |-> op[j].day])
    /\ UNCHANGED <<Clock, warnings, locked, freed, sessions, upsets>>

MissNever(j) ==                                                      \* mutant
    /\ At(j, "miss")
    /\ Finish(j)
    /\ UNCHANGED <<Clock, record, warnings, locked, freed, sessions, upsets>>

Miss(j) ==
    /\ At(j, "miss")
    /\ LET d == op[j].day
       IN  IF record[d] = Blank
           THEN /\ Put(d, Absence)
                /\ Become(j, [kind |-> "warn", cause |-> "absent", day |-> d])
           ELSE /\ Finish(j)
                /\ UNCHANGED record
    /\ UNCHANGED <<Clock, warnings, locked, freed, sessions, upsets>>

-----------------------------------------------------------------------------
CutOff  == ~pastCutoff /\ pastCutoff' = TRUE
           /\ UNCHANGED <<today, record, warnings, locked, freed, sessions, op, upsets>>
NextDay == pastCutoff /\ today < Last /\ today' = today + 1 /\ pastCutoff' = FALSE
           /\ UNCHANGED <<record, warnings, locked, freed, sessions, op, upsets>>

(* A request or a run breaks off, by an error or with the server.          *)
Upset(w) ==
    /\ op[w] # Idle /\ upsets < MaxUpsets
    /\ upsets' = upsets + 1
    /\ Finish(w)
    /\ UNCHANGED <<Clock, record, warnings, locked, freed, sessions>>

Init ==
    /\ today = 1 /\ pastCutoff = FALSE
    /\ record = [d \in Days |-> Blank]
    /\ warnings = {}
    /\ locked = FALSE /\ freed = FALSE
    /\ sessions = [d \in Days |-> 0]
    /\ op = [w \in Desks \cup Jobs |-> Idle]
    /\ upsets = 0

DeskStep(w) ==
    \/ \E d \in Days :
          \/ \E type \in Payloads, late \in BOOLEAN : MarkRead(w, d, type, late)
          \/ Track(w, d) \/ StopTracking(w, d)
          \/ CheckOutRead(w, d) \/ ReviewRead(w, d)
    \/ Enter(w) \/ FindSession(w) \/ OpenSession(w) \/ StopSessions(w) \/ CheckOut(w)
    \/ \E approve \in BOOLEAN : Review(w, approve)
    \/ Clarify(w) \/ UnlockRead(w) \/ Unlock(w) \/ Pardon(w) \/ FreeRead(w) \/ Free(w)
    \/ Warn(w) \/ Count(w) \/ Lock(w)

JobStep(j) == JobDayOff(j) \/ JobLook(j) \/ Miss(j) \/ Warn(j) \/ Count(j) \/ Lock(j)

Next ==
    \/ \E w \in Desks : DeskStep(w)
    \/ \E j \in Jobs : JobStep(j)
    \/ \E w \in Desks \cup Jobs : Upset(w)
    \/ CutOff \/ NextDay

(* The job runs every hour and its statements return.                      *)
Fairness == \A j \in Jobs : WF_vars(JobStep(j))

Spec == Init /\ [][Next]_vars /\ Fairness

-----------------------------------------------------------------------------
(* However many runs of the job overlap and whatever the member submits    *)
(* meanwhile, one absence is warned of at most once.                       *)
AbsentOnce == \A d \in Days : Cardinality(Given("absent", d)) <= 1

(* A day the member has submitted is never turned into an absence by a run *)
(* that looked before he did.                                              *)
OwnEntryStands ==
    [][\A d \in Days : record[d].by = "user" => record'[d].by = "user"]_vars

(* As long as nothing has broken off, enough warnings mean a locked        *)
(* account whenever nothing is in flight, unless someone has freed it      *)
(* since the last warning: no overlap of submissions, absences and unlocks *)
(* of either kind loses the lock that a warning calls for.                 *)
ThresholdLocks ==
    (upsets = 0 /\ ~freed /\ \A w \in Desks \cup Jobs : op[w] = Idle)
        => (Cardinality(warnings) >= Threshold => locked)

(* Once a day is past its cut-off the member has a record of it, unless    *)
(* the day ends first.                                                     *)
DayIsRecorded ==
    \A d \in Days : (today = d /\ pastCutoff) ~> (record[d] # Blank \/ today > d)
=============================================================================
