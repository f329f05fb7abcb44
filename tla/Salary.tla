------------------------------- MODULE Salary -------------------------------
(***************************************************************************)
(* The salary record of one member and one month: generated from the       *)
(* attendance of the month, submitted, and approved stage by stage, while  *)
(* the stages of the workspace are created, edited, reordered and deleted. *)
(*                                                                         *)
(* An action is one database statement; a request keeps what it has read   *)
(* between two of them.  The record is unique for (member, month), a stage *)
(* for (workspace, order).                                                 *)
(*                                                                         *)
(* Abstracted: the attendance and the holidays a generation reads are any  *)
(* of the month; days are counted in halves.  A request of someone other   *)
(* than the record's approver or a super administrator is refused and      *)
(* changes nothing, so who asks is left out, as are the amounts (bonus,    *)
(* deduction, advance, net), which decide nothing, and the logs.           *)
(***************************************************************************)
EXTENDS Naturals, FiniteSets

CONSTANTS
    Stages,        \* approval stages
    MaxOrder,      \* bound: the highest order of a stage
    Days,          \* the days of the month
    WorkingDays,   \* workingDays: those of the month, or of the request
    Desks,         \* requests that can be in flight together
    MaxLives,      \* bound: records of the member and month, one after another
    MaxEdits       \* bound: changes of the stages

ASSUME SalaryAssumption ==
    /\ IsFiniteSet(Stages) /\ IsFiniteSet(Days)
    /\ MaxOrder \in Nat \ {0} /\ WorkingDays \in Nat \ {0}
    /\ MaxLives \in Nat \ {0} /\ MaxEdits \in Nat

VARIABLES
    record,   \* the salary record
    stage,    \* order and isActive of each stage; order 0: there is no such stage
    op,       \* the request at each desk
    lives, edits,
    passed,   \* history: the orders at which the record has been approved
    steady    \* history: stages active from the start and never written since

vars == <<record, stage, op, lives, edits, passed, steady>>

-----------------------------------------------------------------------------
Statuses  == {"DRAFT", "PENDING_APPROVAL", "APPROVED", "REJECTED", "RETURNED"}
Editable  == {"DRAFT", "RETURNED", "REJECTED"}
Orders    == 1 .. MaxOrder
Record    == [id : 1 .. MaxLives, status : Statuses, order : Orders,
              credited : Nat, lop : 0 .. 2 * WorkingDays]
Blank     == [id |-> 0, status |-> "none"]

Request ==
    [kind : {"idle"}]
      \cup [kind : {"generate", "delete"}, id : 0 .. MaxLives]
      \cup [kind : {"route"}, id : 1 .. MaxLives, from : 0 .. MaxOrder]
      \cup [kind : {"write"}, id : 1 .. MaxLives, status : Statuses, from : 0 .. MaxOrder,
            order : Orders, to : SUBSET Stages]
      \cup [kind : {"shift"}, gone : Orders]

Present(s)  == stage[s].order > 0
Taken(o)    == \E s \in Stages : stage[s].order = o
Active      == {s \in Stages : Present(s) /\ stage[s].active}
Above(o)    == {s \in Active : stage[s].order > o}

(* Shape of the state; no two stages share an order, and a steady stage is *)
(* an active one.                                                          *)
TypeOK ==
    /\ record \in Record \cup {Blank}
    /\ stage \in [Stages -> [order : 0 .. MaxOrder, active : BOOLEAN]]
    /\ \A s, t \in Stages : s # t /\ Present(s) => stage[s].order # stage[t].order
    /\ op \in [Desks -> Request]
    /\ lives \in 0 .. MaxLives /\ edits \in 0 .. MaxEdits
    /\ record.id <= lives
    /\ \A w \in Desks : op[w].kind \notin {"idle", "shift"} => op[w].id <= lives
    /\ passed \subseteq 0 .. MaxOrder
    /\ steady \subseteq Active

-----------------------------------------------------------------------------
Idle         == [kind |-> "idle"]
Become(w, h) == op' = [op EXCEPT ![w] = h]
Begin(w, h)  == op[w] = Idle /\ Become(w, h)
Finish(w)    == Become(w, Idle)
At(w, kind)  == op[w].kind = kind

Config       == <<stage, edits, steady>>
Life         == <<lives, passed>>

-----------------------------------------------------------------------------
(* What a generation counts, in half days: each attendance row, and one    *)
(* day for the holidays of a date that has no row.                         *)
Kinds == {"none", "full", "half", "absent"}       \* full: present, a day off, a paid leave
DaysOf(att, kind) == Cardinality({d \in Days : att[d] = kind})
AttendanceOf(att) == 2 * DaysOf(att, "full") + DaysOf(att, "half")
HolidaysEach(att, hol) ==                                            \* mutant
    2 * Cardinality({d \in Days : hol[d] > 0})
HolidaysBeside(att, hol) ==
    2 * Cardinality({d \in Days : hol[d] > 0 /\ att[d] = "none"})
LossOfPay(credited) == IF credited >= 2 * WorkingDays THEN 0 ELSE 2 * WorkingDays - credited

(* generateSalary, for one member: an existing record is overwritten when  *)
(* it is editable, by its id; otherwise one is created.                    *)
GenerateRead(w) ==
    /\ record.status \in Editable \cup {"none"}
    /\ Begin(w, [kind |-> "generate", id |-> record.id])
    /\ UNCHANGED <<record, Life, Config>>

Generated(id, credited) ==
    [id |-> id, status |-> "DRAFT", order |-> 1, credited |-> credited,
     lop |-> LossOfPay(credited)]

Generate(w, att, hol) ==
    /\ At(w, "generate")
    /\ LET credited == AttendanceOf(att) + HolidaysBeside(att, hol)
       IN  \/ /\ op[w].id # record.id                      \* P2002 or P2025
              /\ UNCHANGED <<record, lives, passed>>
           \/ /\ op[w].id = 0 /\ record = Blank /\ lives < MaxLives
              /\ record' = Generated(lives + 1, credited)
              /\ lives' = lives + 1
              /\ passed' = {}
           \/ /\ op[w].id = record.id /\ record # Blank
              /\ record' = Generated(record.id, credited)
              /\ UNCHANGED <<lives, passed>>
    /\ Finish(w)
    /\ UNCHANGED Config

(* submitSalaryForApproval and processApproval: the record is read, then   *)
(* the active stages, and the record is written by its id, as what was     *)
(* read says.                                                              *)
Submit(w) ==
    /\ record.status \in {"DRAFT", "RETURNED"}
    /\ Begin(w, [kind |-> "route", id |-> record.id, from |-> 0])
    /\ UNCHANGED <<record, Life, Config>>

Approve(w) ==
    /\ record.status = "PENDING_APPROVAL"
    /\ Begin(w, [kind |-> "route", id |-> record.id, from |-> record.order])
    /\ UNCHANGED <<record, Life, Config>>

Refuse(w, status) ==
    /\ record.status = "PENDING_APPROVAL"
    /\ Begin(w, [kind |-> "write", id |-> record.id, status |-> status, from |-> 0,
                 order |-> record.order, to |-> {}])
    /\ UNCHANGED <<record, Life, Config>>

(* To the first active stage above the one the record stands at.           *)
RouteByCount(w) ==                                                   \* mutant
    /\ At(w, "route")
    /\ LET from == op[w].from
       IN  Become(w, [kind |-> "write", id |-> op[w].id, from |-> from,
                      status |-> IF from < Cardinality(Active) THEN "PENDING_APPROVAL" ELSE "APPROVED",
                      order |-> IF from < MaxOrder THEN from + 1 ELSE from, to |-> {}])
    /\ UNCHANGED <<record, Life, Config>>

Route(w) ==
    /\ At(w, "route")
    /\ LET h    == op[w]
           next == Above(h.from)
       IN  \/ /\ next = {}
              /\ Become(w, [kind |-> "write", id |-> h.id, status |-> "APPROVED", from |-> h.from,
                            order |-> IF h.from = 0 THEN 1 ELSE h.from, to |-> {}])
           \/ \E s \in next :
                 /\ \A t \in next : stage[s].order <= stage[t].order
                 /\ Become(w, [kind |-> "write", id |-> h.id, status |-> "PENDING_APPROVAL",
                               from |-> h.from, order |-> stage[s].order, to |-> {s}])
    /\ UNCHANGED <<record, Life, Config>>

(* The stage the record goes to is a foreign key.  Rejecting and returning *)
(* leave the order of the record as it is.                                 *)
Write(w) ==
    /\ At(w, "write")
    /\ LET h == op[w]
       IN  IF h.id # record.id \/ \E s \in h.to : ~Present(s)      \* deleted meanwhile
           THEN UNCHANGED <<record, passed>>
           ELSE /\ record' = [record EXCEPT !.status = h.status,
                                            !.order = IF h.status \in {"REJECTED", "RETURNED"}
                                                      THEN @ ELSE h.order]
                /\ passed' = IF h.from = 0 THEN passed ELSE passed \cup {h.from}
    /\ Finish(w)
    /\ UNCHANGED <<lives, Config>>

(* deleteSalaryCalculation                                                 *)
DeleteRead(w) ==
    /\ record.status \notin {"APPROVED", "none"}
    /\ Begin(w, [kind |-> "delete", id |-> record.id])
    /\ UNCHANGED <<record, Life, Config>>

Delete(w) ==
    /\ At(w, "delete")
    /\ record' = IF op[w].id = record.id THEN Blank ELSE record
    /\ Finish(w)
    /\ UNCHANGED <<Life, Config>>

-----------------------------------------------------------------------------
(* The stages.  The look for a taken order and the unique constraint refuse*)
(* the same writes, so a creation or an update is one step.                *)
Edit(ss) ==
    /\ edits < MaxEdits /\ edits' = edits + 1
    /\ steady' = steady \ ss

CreateStage(s, o, active) ==
    /\ ~Present(s) /\ ~Taken(o)
    /\ stage' = [stage EXCEPT ![s] = [order |-> o, active |-> active]]
    /\ Edit({s})
    /\ UNCHANGED <<record, op, Life>>

(* updateApprovalStage, and one item of reorderApprovalStages.             *)
UpdateStageAnywhere(s, o, active) ==                                 \* mutant
    /\ Present(s)
    /\ stage' = [stage EXCEPT ![s] = [order |-> o, active |-> active]]
    /\ Edit({s})
    /\ UNCHANGED <<record, op, Life>>

UpdateStage(s, o, active) ==
    /\ Present(s) /\ (o = stage[s].order \/ ~Taken(o))
    /\ stage' = [stage EXCEPT ![s] = [order |-> o, active |-> active]]
    /\ Edit({s})
    /\ UNCHANGED <<record, op, Life>>

(* deleteApprovalStage: the row, then the orders above it are shifted down.*)
(* The constraint is tested row by row, so two orders in a row may clash on*)
(* the way, and the shift is then undone.                                  *)
DeleteStage(w, s) ==
    /\ Present(s)
    /\ Begin(w, [kind |-> "shift", gone |-> stage[s].order])
    /\ stage' = [stage EXCEPT ![s] = [order |-> 0, active |-> FALSE]]
    /\ Edit({s})
    /\ UNCHANGED <<record, Life>>

ShiftStages(w) ==
    /\ At(w, "shift")
    /\ LET higher == {s \in Stages : stage[s].order > op[w].gone}
           clash  == \E s \in higher : Taken(stage[s].order - 1)
       IN  \/ /\ clash
              /\ UNCHANGED <<stage, steady>>
           \/ /\ ~(Taken(op[w].gone) /\ Taken(op[w].gone + 1))
              /\ stage' = [s \in Stages |-> IF s \in higher
                                            THEN [stage[s] EXCEPT !.order = @ - 1] ELSE stage[s]]
              /\ steady' = steady \ higher
    /\ Finish(w)
    /\ UNCHANGED <<record, Life, edits>>

-----------------------------------------------------------------------------
Init ==
    /\ record = Blank
    /\ stage \in [Stages -> [order : 0 .. MaxOrder, active : BOOLEAN]]
    /\ \A s, t \in Stages : s # t /\ Present(s) => stage[s].order # stage[t].order
    /\ \A s \in Stages : stage[s].active => Present(s)
    /\ op = [w \in Desks |-> Idle]
    /\ lives = 0 /\ edits = 0
    /\ passed = {} /\ steady = Active

Next ==
    \/ \E w \in Desks : \/ GenerateRead(w) \/ Submit(w) \/ Approve(w)
                        \/ \E status \in {"REJECTED", "RETURNED"} : Refuse(w, status)
                        \/ Route(w) \/ Write(w) \/ DeleteRead(w) \/ Delete(w)
                        \/ ShiftStages(w)
    \/ \E w \in Desks, att \in [Days -> Kinds], hol \in [Days -> 0 .. 2] : Generate(w, att, hol)
    \/ \E w \in Desks, s \in Stages : DeleteStage(w, s)
    \/ \E s \in Stages, o \in Orders, active \in BOOLEAN :
          CreateStage(s, o, active) \/ UpdateStage(s, o, active)

Spec == Init /\ [][Next]_vars

-----------------------------------------------------------------------------
(* An approved record has been approved at every stage that stood active   *)
(* and untouched all along, however its approvals, returns, regenerations  *)
(* and edits of other stages overlap.                                      *)
NoStageSkipped ==
    record.status = "APPROVED" =>
        \A s \in steady : stage[s].order \in passed

(* A generated record credits no day twice: neither a holiday on a day     *)
(* that was worked, nor two holidays on one date.                          *)
NoDayPaidTwice == record # Blank => record.credited <= 2 * Cardinality(Days)
=============================================================================
