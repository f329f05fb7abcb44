------------------------------ MODULE FollowUps ------------------------------
(***************************************************************************)
(* The follow-ups of one lead and the two gates they feed.  A member of    *)
(* staff with an overdue follow-up, or with an open lead that has no       *)
(* future follow-up, is refused every ordinary request until he resolves   *)
(* it.  Each gate remembers its last answer per member for a few seconds;  *)
(* the handlers that resolve follow-ups drop the remembered answer.        *)
(*                                                                         *)
(* Time is counted in moments, PerDay of them to a calendar day: overdue   *)
(* means a later day, future means a later moment.  An action is one       *)
(* database statement or transaction, or one access to the memory.         *)
(*                                                                         *)
(* Abstracted: the lifecycle limit, the holidays and the daily capacity    *)
(* only refuse dates, so they are a free choice of the date; descriptions, *)
(* images and activity logs; the flags that only tell the calendar that a  *)
(* follow-up was once late; the lead's pointer to its next follow-up, on   *)
(* which nothing here decides.                                             *)
(***************************************************************************)
EXTENDS Naturals

CONSTANTS
    Rows,         \* identifiers of follow-ups
    Users,        \* members who may own the lead
    Callers,      \* those of them who make other requests too
    Requests,     \* requests about follow-ups that can be in flight together
    Doors,        \* other requests that can be at the gates together
    PerDay,       \* moments in a day
    Last,         \* the last moment
    MarksMissed,  \* FOLLOWUP_MISSED_AFTER_MINUTES is set
    None          \* a field the request leaves alone

ASSUME TimeAssumption ==
    /\ PerDay \in Nat \ {0} /\ Last \in Nat
    /\ MarksMissed \in BOOLEAN
    /\ None \notin Nat
    /\ Callers \subseteq Users

VARIABLES
    now,          \* the clock
    lead,         \* its owner and the kind of its stage
    row,          \* the follow-up rows
    cache,        \* what each gate remembers of each member
    handler       \* what is in flight of each request

followUpVars == <<now, lead, row, cache, handler>>

-----------------------------------------------------------------------------
Moments == 0 .. Last
Day(t)  == t \div PerDay
Gates   == {"overdue", "mandatory"}
Stages  == {"open", "won", "lob"}

Lead     == [owner : Users, stage : Stages]
FollowUp == [status : {"PENDING", "MISSED", "COMPLETED", "CANCELLED"}, user : Users,
             at : Moments, overdue : BOOLEAN]
Blank    == [status |-> "none"]

(* A request.  was holds the rows it is about as it has read them; begun   *)
(* is the time it takes for its own.                                       *)
Reads   == UNION {[on -> FollowUp] : on \in SUBSET Rows}
Handler ==
    [kind : {"idle"}]
      \cup [kind : {"create", "continue"}, user : Users, at : Moments]
      \cup [kind : {"scan", "refresh", "write"}, to : {"complete", "snooze", "bulk"},
            was : Reads, at : Moments, begun : Moments]
      \cup [kind : {"mark"}, to : {"complete", "snooze", "bulk"}, due : SUBSET Rows,
            was : Reads, at : Moments, begun : Moments]
      \cup [kind : {"scan"}, to : {"overdue"}, user : Users]
      \cup [kind : {"mark"}, to : {"overdue"}, user : Users, due : SUBSET Rows]
      \cup [kind : {"look"}, gate : Gates, user : Users]
      \cup [kind : {"answer"}, gate : Gates, user : Users, owes : BOOLEAN]
      \cup [kind : {"forget"}, users : SUBSET Users]

Vacant == [kind |-> "idle"]

(* Shape of the rows, requests and remembered answers.                     *)
FollowUpTypeOK ==
    /\ now \in Moments
    /\ lead \in Lead
    /\ row \in [Rows -> FollowUp \cup {Blank}]
    /\ cache \in [Gates -> [Users -> {"none", "owes", "free"}]]
    /\ handler \in [Requests \cup Doors -> Handler]

-----------------------------------------------------------------------------
Switch(w, h)   == handler' = [handler EXCEPT ![w] = h]
Enter(w, h)    == handler[w] = Vacant /\ Switch(w, h)
Leave(w)       == Switch(w, Vacant)
Doing(w, kind) == handler[w].kind = kind

Live           == {r \in Rows : row[r] # Blank}
With(statuses) == {r \in Live : row[r].status \in statuses}
PastDue(at, t) == Day(t) > Day(at)          \* isFollowUpPastDueDay

New(u, at) == [status |-> "PENDING", user |-> u, at |-> at, overdue |-> FALSE]

-----------------------------------------------------------------------------
(* createFollowUp: the row goes to the owner that was read before the      *)
(* checks.  Neither gate is told.                                          *)
CreateRead(w, at) ==
    /\ Enter(w, [kind |-> "create", user |-> lead.owner, at |-> at])
    /\ UNCHANGED <<now, lead, row, cache>>

CreateInsert(w) ==
    /\ Doing(w, "create")
    /\ \E r \in Rows \ Live : row' = [row EXCEPT ![r] = New(handler[w].user, handler[w].at)]
    /\ Leave(w)
    /\ UNCHANGED <<now, lead, cache>>

(* completeFollowUp, snoozeFollowUp and bulkExtendFollowUps read the rows, *)
(* mark whatever is overdue in the workspace, and write.  The first two    *)
(* read the flags again in between.                                        *)
Work(to, on, at) ==
    [kind |-> "scan", to |-> to, was |-> [r \in on |-> row[r]], at |-> at, begun |-> now]

CompleteUnread(w, r) ==                                              \* mutant
    /\ row[r].status # "COMPLETED"
    /\ Enter(w, Work("complete", {r}, now))
    /\ UNCHANGED <<now, lead, row, cache>>

CompleteRead(w, r) ==
    /\ row[r].status \notin {"none", "COMPLETED"}
    /\ Enter(w, Work("complete", {r}, now))
    /\ UNCHANGED <<now, lead, row, cache>>

SnoozeRead(w, r, at) ==
    /\ row[r].status \notin {"none", "COMPLETED"}
    /\ at > now /\ at # row[r].at
    /\ Enter(w, Work("snooze", {r}, at))
    /\ UNCHANGED <<now, lead, row, cache>>

BulkRead(w, on, at) ==
    /\ on # {} /\ on \subseteq With({"PENDING", "MISSED"})
    /\ at % PerDay = 0
    /\ Enter(w, Work("bulk", on, at))
    /\ UNCHANGED <<now, lead, row, cache>>

(* markPendingFollowUpsOverdueForWorkspace: candidates, then updates by    *)
(* identifier.                                                             *)
Marked(h) ==
    CASE h.to = "overdue" -> [kind |-> "look", gate |-> "overdue", user |-> h.user]
      [] OTHER -> [kind |-> IF h.to = "bulk" THEN "write" ELSE "refresh",
                   to |-> h.to, was |-> h.was, at |-> h.at, begun |-> h.begun]

WithDue(h, due) ==
    CASE h.to = "overdue" -> [kind |-> "mark", to |-> h.to, user |-> h.user, due |-> due]
      [] OTHER -> [kind |-> "mark", to |-> h.to, due |-> due, was |-> h.was,
                   at |-> h.at, begun |-> h.begun]

Scan(w) ==
    /\ Doing(w, "scan")
    /\ LET due == {r \in With({"PENDING"}) : ~row[r].overdue /\ PastDue(row[r].at, now)}
       IN  Switch(w, IF due = {} THEN Marked(handler[w]) ELSE WithDue(handler[w], due))
    /\ UNCHANGED <<now, lead, row, cache>>

Mark(w) ==
    /\ Doing(w, "mark")
    /\ row' = [r \in Rows |-> IF r \in handler[w].due THEN [row[r] EXCEPT !.overdue = TRUE]
                                                 ELSE row[r]]
    /\ Switch(w, Marked(handler[w]))
    /\ UNCHANGED <<now, lead, cache>>

(* A snooze keeps the date of its first read.                              *)
Refresh(w) ==
    /\ Doing(w, "refresh")
    /\ Switch(w, [handler[w] EXCEPT !.kind = "write",
                    !.was = [r \in DOMAIN @ |->
                               IF handler[w].to = "snooze"
                               THEN [row[r] EXCEPT !.at = handler[w].was[r].at] ELSE row[r]]])
    /\ UNCHANGED <<now, lead, row, cache>>

(* buildCompletionOverdueUpdate and buildExtensionOverdueUpdate.           *)
Completed(r, was, t) ==
    [row[r] EXCEPT !.status = "COMPLETED", !.overdue = was.overdue \/ PastDue(was.at, t)]

Moved(r, was, at, t) ==
    [row[r] EXCEPT !.status = "PENDING", !.at = at,
                   !.overdue = (was.overdue \/ PastDue(was.at, t)) /\ PastDue(at, t)]

Write(w) ==
    /\ Doing(w, "write")
    /\ LET h == handler[w]
           on == DOMAIN h.was
           Result(r) == CASE h.to = "complete" -> Completed(r, h.was[r], h.begun)
                          [] h.to = "snooze"   -> Moved(r, h.was[r], h.at, h.begun)
                          [] h.to = "bulk"     -> Moved(r, h.was[r], h.at, now)
       IN  /\ row' = [r \in Rows |-> IF r \in on THEN Result(r) ELSE row[r]]
           /\ Switch(w, [kind |-> "forget", users |-> {h.was[r].user : r \in on}])
    /\ UNCHANGED <<now, lead, cache>>

(* invalidateOverdueFollowUpCache and invalidateMandatoryFollowUpCache,    *)
(* after the awaits that follow the transaction.                           *)
Forget(w) ==
    /\ Doing(w, "forget")
    /\ cache' = [g \in Gates |-> [u \in Users |->
                   IF u \in handler[w].users THEN "none" ELSE cache[g][u]]]
    /\ Leave(w)
    /\ UNCHANGED <<now, lead, row>>

(* getReminderAlerts turns what is past into MISSED, if so configured.     *)
MarkMissed ==
    /\ MarksMissed
    /\ row' = [r \in Rows |-> IF r \in With({"PENDING"}) /\ row[r].at < now
                              THEN [row[r] EXCEPT !.status = "MISSED"] ELSE row[r]]
    /\ UNCHANGED <<now, lead, cache, handler>>

-----------------------------------------------------------------------------
(* saveMandatoryFollowUpContinuation.                                      *)
Future(r) == row[r].status = "PENDING" /\ row[r].at > now

Unplanned(u) ==
    /\ lead.owner = u /\ lead.stage = "open"
    /\ \A r \in Live : ~Future(r)

ContinueRead(w, u, at) ==
    /\ Unplanned(u)
    /\ Enter(w, [kind |-> "continue", user |-> u, at |-> at])
    /\ UNCHANGED <<now, lead, row, cache>>

(* createAutomaticFollowUp: a pending row is moved, its flags are not      *)
(* looked at; without one a row is added.                                  *)
Schedule(rows, u, at, result) ==
    LET pending == {r \in Rows : rows[r].status = "PENDING"}
        unused  == {r \in Rows : rows[r] = Blank}
    IN  \/ \E r \in pending : result = [rows EXCEPT ![r].user = u, ![r].at = at]
        \/ pending = {} /\ \E r \in unused : result = [rows EXCEPT ![r] = New(u, at)]

ContinueWrite(w) ==
    /\ Doing(w, "continue")
    /\ Schedule(row, handler[w].user, handler[w].at, row')
    /\ Switch(w, [kind |-> "forget", users |-> {handler[w].user}])
    /\ UNCHANGED <<now, lead, cache>>

-----------------------------------------------------------------------------
(* The transaction of updateLead: what is open when a lead enters LOB is   *)
(* cancelled, pending rows follow a new owner, a date is scheduled.  An    *)
(* approval and a bulk assignment do the first and the second of these.    *)
Cancelled(rows) ==
    [r \in Rows |-> IF rows[r].status \in {"PENDING", "MISSED"}
                    THEN [rows[r] EXCEPT !.status = "CANCELLED"] ELSE rows[r]]

Entered(stage) == IF stage = "lob" /\ lead.stage # "lob" THEN Cancelled(row) ELSE row

Assigned(rows, u) ==
    [r \in Rows |-> IF rows[r].status = "PENDING" /\ u # lead.owner
                    THEN [rows[r] EXCEPT !.user = u] ELSE rows[r]]

UpdateLead(u, stage, at) ==
    /\ at \in Moments => at > now
    /\ lead' = [owner |-> u, stage |-> stage]
    /\ LET rows == Assigned(Entered(stage), u)
       IN  \/ at = None /\ row' = rows
           \/ at # None /\ Schedule(rows, u, at, row')
    /\ UNCHANGED <<now, cache, handler>>

(* saveCallOutcome: a stage move and a new row for the owner, unchecked.   *)
CallOutcome(stage, at) ==
    /\ lead' = [lead EXCEPT !.stage = stage]
    /\ LET rows == Entered(stage)
       IN  \/ at = None /\ row' = rows
           \/ at # None /\ \E r \in Rows \ Live :
                              row' = [rows EXCEPT ![r] = New(lead.owner, at)]
    /\ UNCHANGED <<now, cache, handler>>

-----------------------------------------------------------------------------
(* enforceOverdueFollowUp, and behind it enforceMandatoryFollowUp-         *)
(* Continuation.  A remembered answer is given without a step.             *)
AskOverdue(w, u) ==
    /\ cache["overdue"][u] = "none"
    /\ Enter(w, [kind |-> "scan", to |-> "overdue", user |-> u])
    /\ UNCHANGED <<now, lead, row, cache>>

AskMandatory(w, u) ==
    /\ cache["overdue"][u] = "free" /\ cache["mandatory"][u] = "none"
    /\ Enter(w, [kind |-> "look", gate |-> "mandatory", user |-> u])
    /\ UNCHANGED <<now, lead, row, cache>>

OverdueOf(u) ==
    {r \in Live : /\ row[r].user = u /\ lead.owner = u
                  /\ \/ row[r].status = "MISSED"
                     \/ row[r].status = "PENDING" /\ PastDue(row[r].at, now)}

LookUnowned(w) ==                                                    \* mutant
    /\ Doing(w, "look")
    /\ LET h == handler[w]
           owes == IF h.gate = "overdue"
                   THEN \E r \in Live : /\ row[r].user = h.user
                                        /\ row[r].status \in {"MISSED", "PENDING"}
                                        /\ PastDue(row[r].at, now)
                   ELSE Unplanned(h.user)
       IN  Switch(w, [kind |-> "answer", gate |-> h.gate, user |-> h.user, owes |-> owes])
    /\ UNCHANGED <<now, lead, row, cache>>

LookUp(w) ==
    /\ Doing(w, "look")
    /\ LET h == handler[w]
           owes == IF h.gate = "overdue" THEN OverdueOf(h.user) # {} ELSE Unplanned(h.user)
       IN  Switch(w, [kind |-> "answer", gate |-> h.gate, user |-> h.user, owes |-> owes])
    /\ UNCHANGED <<now, lead, row, cache>>

(* The answer is remembered, whatever was dropped since it was looked up.  *)
Answer(w) ==
    /\ Doing(w, "answer")
    /\ LET h == handler[w]
           next == [kind |-> "look", gate |-> "mandatory", user |-> h.user]
       IN  /\ cache' = [cache EXCEPT ![h.gate][h.user] = IF h.owes THEN "owes" ELSE "free"]
           /\ \/ /\ h.gate = "overdue" /\ ~h.owes /\ cache["mandatory"][h.user] = "none"
                 /\ Switch(w, next)
              \/ /\ ~(h.gate = "overdue" /\ ~h.owes /\ cache["mandatory"][h.user] = "none")
                 /\ Leave(w)
    /\ UNCHANGED <<now, lead, row>>

ExpireOwes(g, u) ==                                                  \* mutant
    /\ cache[g][u] = "owes"
    /\ cache' = [cache EXCEPT ![g][u] = "none"]
    /\ UNCHANGED <<now, lead, row, handler>>

Expire(g, u) ==
    /\ cache[g][u] # "none"
    /\ cache' = [cache EXCEPT ![g][u] = "none"]
    /\ UNCHANGED <<now, lead, row, handler>>

Tick == now < Last /\ now' = now + 1 /\ UNCHANGED <<lead, row, cache, handler>>

(* A request that is refused by a check, fails or is lost with the server  *)
(* ends where it stands; the server takes the remembered answers with it.  *)
Drop(w)  == handler[w] # Vacant /\ Leave(w) /\ UNCHANGED <<now, lead, row, cache>>
Restart  == /\ handler' = [w \in Requests \cup Doors |-> Vacant]
            /\ cache' = [g \in Gates |-> [u \in Users |-> "none"]]
            /\ UNCHANGED <<now, lead, row>>

FollowUpInit ==
    /\ now = 0
    /\ lead \in [owner : Users, stage : {"open"}]
    /\ row = [r \in Rows |-> Blank]
    /\ cache = [g \in Gates |-> [u \in Users |-> "none"]]
    /\ handler = [w \in Requests \cup Doors |-> Vacant]

DeskStep(w) ==
    \/ \E at \in Moments : CreateRead(w, at)
    \/ \E r \in Rows : CompleteRead(w, r) \/ \E at \in Moments : SnoozeRead(w, r, at)
    \/ \E on \in SUBSET Rows, at \in Moments : BulkRead(w, on, at)
    \/ CreateInsert(w) \/ Refresh(w) \/ Write(w) \/ Forget(w)
    \/ \E u \in Users, at \in Moments : ContinueRead(w, u, at)
    \/ ContinueWrite(w)

DoorStep(w) ==
    \/ \E u \in Callers : AskOverdue(w, u) \/ AskMandatory(w, u)
    \/ LookUp(w) \/ Answer(w)

FollowUpNext ==
    \/ \E w \in Requests : DeskStep(w)
    \/ \E w \in Doors : DoorStep(w)
    \/ \E w \in Requests \cup Doors : Scan(w) \/ Mark(w) \/ Drop(w)
    \/ \E u \in Users, stage \in Stages, at \in Moments \cup {None} : UpdateLead(u, stage, at)
    \/ \E stage \in Stages, at \in Moments \cup {None} : CallOutcome(stage, at)
    \/ \E g \in Gates, u \in Users : Expire(g, u)
    \/ MarkMissed \/ Tick \/ Restart

(* A remembered answer runs out after CACHE_TTL_MS; nobody has to ask, to  *)
(* resolve anything or to wait.                                            *)
Fairness == \A g \in Gates, u \in Callers : WF_followUpVars(Expire(g, u))

FollowUpSpec == FollowUpInit /\ [][FollowUpNext]_followUpVars /\ Fairness

-----------------------------------------------------------------------------
(* What a member really owes, told by what he could do about it: complete  *)
(* a follow-up that is due from him, or plan one.                          *)
CouldComplete(u, r) ==
    /\ lead.owner = u /\ row[r].user = u
    /\ \/ row[r].status = "MISSED"
       \/ row[r].status = "PENDING" /\ PastDue(row[r].at, now)

Owes(g, u) ==
    IF g = "overdue" THEN \E r \in Live : CouldComplete(u, r)
                     ELSE lead.owner = u /\ lead.stage = "open" /\ ~\E r \in Live : Future(r)

(* A member who owes nothing any more is not refused for ever on the       *)
(* strength of an answer that was looked up before he resolved it, even    *)
(* if that answer was remembered after it had been dropped.                *)
GateRelents ==
    \A g \in Gates, u \in Callers : <>[]~Owes(g, u) => <>[](cache[g][u] # "owes")

(* And one who owes something does not get through for ever on an old      *)
(* answer.                                                                 *)
GateHolds ==
    \A g \in Gates, u \in Callers : <>[]Owes(g, u) => <>[](cache[g][u] # "free")

(* "Clear active overdue lock when rescheduled to a future calendar day",  *)
(* says followupOverduePersistence.service.ts:194.  A move by an edit of   *)
(* the lead leaves the flag, and a marking that read its candidates before *)
(* a snooze sets it after.                                                 *)
FutureIsNotOverdue ==
    \A r \in Live : row[r].status = "PENDING" /\ Day(row[r].at) > Day(now) => ~row[r].overdue
=============================================================================
