-------------------------------- MODULE Leads --------------------------------
(***************************************************************************)
(* One lead: its stage, its outcome flags, its pending mark, and the       *)
(* approval requests that decide whether it enters a stage that needs an   *)
(* approval.                                                               *)
(*                                                                         *)
(* updateLead, changeStage, createLeadApproval, processLeadApproval, the   *)
(* call outcome, the SLA sweep and the closed-leads module all write the   *)
(* same row from what they read some awaits earlier.  An action is one     *)
(* database access or one transaction at its commit; op[p] is the handler  *)
(* in slot p with what it remembers.                                       *)
(*                                                                         *)
(* Abstracted: money, follow-ups, history and activity rows, stage rules,  *)
(* the outstanding balance and the supervisor of the actor, all of which   *)
(* only refuse (the handler then ends: Crash).  Whether the SLA timer has  *)
(* run out is left open.  approvalState is PENDING exactly when "pending"  *)
(* holds a stage; every statement of the code writes both columns.         *)
(***************************************************************************)
EXTENDS FiniteSets

CONSTANTS
    Stages,      \* the lead stages of the company
    Closing,     \* those with isClosed
    Lost,        \* those with isLOB
    Gated,       \* those with isApprovalRequired
    Requests,    \* identifiers of approval requests
    Procs,       \* handlers that can be in flight at the same time
    Null         \* a null column

ASSUME StagesAssumption ==
    /\ Closing \subseteq Stages /\ Lost \subseteq Stages /\ Gated \subseteq Stages
    /\ Null \notin Stages

VARIABLES
    lead,        \* the row of the lead
    req,         \* the approval requests
    op,          \* the handler in flight in each slot
    admitted     \* ghost: gated stages somebody was entitled to move the lead into

vars == <<lead, req, op, admitted>>

-----------------------------------------------------------------------------
Won == Closing \ Lost

Lead == [stage : Stages \cup {Null}, closed : BOOLEAN, lob : BOOLEAN,
         pending : Gated \cup {Null}, deleted : BOOLEAN, imported : BOOLEAN]

(* A request of type ADVANCE_PAYMENT has no target stage.                  *)
Request == [status : {"none", "PENDING", "APPROVED", "DENIED"},
            to : Gated \cup {Null}]

Handler ==
    [kind : {"idle", "sweep", "close", "reopen", "reconcile", "stale"}]
      \cup [kind : {"ask"}, from : Stages, to : Gated, update : BOOLEAN]
      \cup [kind : {"asked"}, to : Gated, update : BOOLEAN,
            marked : BOOLEAN, same : BOOLEAN]
      \cup [kind : {"heal"}, to : Gated, update : BOOLEAN, same : BOOLEAN]
      \cup [kind : {"insert"}, to : Gated, update : BOOLEAN]
      \cup [kind : {"update"}, target : Stages \cup {Null}, moves : BOOLEAN]
      \cup [kind : {"decide"}, req : Requests, approve : BOOLEAN]
      \cup [kind : {"call"}, from : Stages \cup {Null}, to : Stages]

Idle == [kind |-> "idle"]
NoRequest == [status |-> "none", to |-> Null]

(* One state invariant for the shape of rows and handlers: whoever marks   *)
(* a lead or asks for an approval does it for a stage that needs one.      *)
TypeOK ==
    /\ lead \in Lead
    /\ req \in [Requests -> Request]
    /\ op \in [Procs -> Handler]
    /\ admitted \subseteq Gated

-----------------------------------------------------------------------------
Become(p, h) == op' = [op EXCEPT ![p] = h]
Begin(p, h)  == op[p] = Idle /\ Become(p, h)
Finish(p)    == Become(p, Idle)
At(p, kind)  == op[p].kind = kind
Admit(s)     == admitted' = admitted \cup ({s} \cap Gated)

(* buildLeadOutcomeFlagsFromStage, and a lead that is moved into a stage.  *)
WithFlags(row, closed, lob) == [row EXCEPT !.closed = closed, !.lob = lob]
Flagged(row, s) == WithFlags(row, s \in Won, s \in Lost)
Moved(row, s)   == [Flagged(row, s) EXCEPT !.stage = s]

Insert(r, to) == /\ req[r].status = "none"
                 /\ req' = [req EXCEPT ![r] = [status |-> "PENDING", to |-> to]]

-----------------------------------------------------------------------------
(* createLeadApproval, called by the approvals endpoint (with whatever     *)
(* stage the client believes the lead is in), by changeStage and by        *)
(* updateLead: read the lead; look for a pending request; clear a mark     *)
(* that has no request; test; insert and mark in one transaction.          *)
Ask(p, from, to) ==
    /\ from # to
    /\ Begin(p, [kind |-> "ask", from |-> from, to |-> to, update |-> FALSE])
    /\ UNCHANGED <<lead, req, admitted>>

AskRead(p) ==
    /\ At(p, "ask")
    /\ ~lead.deleted
    /\ lead.stage # Null
    /\ Become(p, [kind |-> "asked", to |-> op[p].to, update |-> op[p].update,
                  marked |-> lead.pending # Null,
                  same |-> lead.stage = op[p].from])
    /\ UNCHANGED <<lead, req, admitted>>

(* The request that is looked for may be one of any type.                  *)
AnyPending == \E r \in Requests : req[r].status = "PENDING"

AskFind(p) ==
    /\ At(p, "asked")
    /\ \/ /\ op[p].marked /\ ~AnyPending
          /\ Become(p, [kind |-> "heal", to |-> op[p].to, update |-> op[p].update,
                        same |-> op[p].same])
       \/ /\ ~op[p].marked /\ op[p].same /\ ~AnyPending
          /\ Become(p, [kind |-> "insert", to |-> op[p].to, update |-> op[p].update])
       \/ /\ AnyPending \/ ~(op[p].marked \/ op[p].same)
          /\ Finish(p)
    /\ UNCHANGED <<lead, req, admitted>>

AskHeal(p) ==
    /\ At(p, "heal")
    /\ lead' = [lead EXCEPT !.pending = Null]
    /\ \/ /\ op[p].same
          /\ Become(p, [kind |-> "insert", to |-> op[p].to, update |-> op[p].update])
       \/ ~op[p].same /\ Finish(p)
    /\ UNCHANGED <<req, admitted>>

(* updateLead goes on after the request, without the stage it asked for,   *)
(* but with the flags of that stage.                                       *)
AfterAskMoves(p) ==                                                  \* mutant
    IF op[p].update THEN [kind |-> "update", target |-> op[p].to, moves |-> TRUE]
    ELSE Idle

AfterAsk(p) ==
    IF op[p].update THEN [kind |-> "update", target |-> op[p].to, moves |-> FALSE]
    ELSE Idle

AskInsert(p, r) ==
    /\ At(p, "insert")
    /\ Insert(r, op[p].to)
    /\ lead' = [lead EXCEPT !.pending = op[p].to]
    /\ Become(p, AfterAsk(p))
    /\ UNCHANGED admitted

-----------------------------------------------------------------------------
(* updateLead.  Without a stage in its input the flags of the stage it     *)
(* read are written all the same.                                          *)
UpdateRead(p) ==
    /\ ~lead.deleted
    /\ Begin(p, [kind |-> "update", target |-> lead.stage, moves |-> FALSE])
    /\ UNCHANGED <<lead, req, admitted>>

(* free: a manager without supervisor, or the automation, needs nobody's   *)
(* approval.  A lead without a stage needs none either.                    *)
NeedsApproval(s, free) == s \in Gated /\ lead.stage \notin {Null, s} /\ ~free

UpdateMoveRead(p, s, free) ==
    /\ ~lead.deleted
    /\ lead.pending # Null => s = lead.stage
    /\ \/ /\ NeedsApproval(s, free)
          /\ Begin(p, [kind |-> "ask", from |-> lead.stage, to |-> s, update |-> TRUE])
          /\ UNCHANGED admitted
       \/ /\ ~NeedsApproval(s, free)
          /\ lead.closed => s \in Won \cup Lost    \* else "Use the reopen endpoint"
          /\ Begin(p, [kind |-> "update", target |-> s, moves |-> TRUE])
          /\ IF free \/ lead.stage = Null THEN Admit(s) ELSE UNCHANGED admitted
    /\ UNCHANGED <<lead, req>>

(* A lead without a stage takes isClosed from the input, if it has one.    *)
UpdateCommit(p) ==
    /\ At(p, "update")
    /\ LET s   == op[p].target
           row == IF op[p].moves THEN [lead EXCEPT !.stage = s] ELSE lead
       IN  IF s = Null THEN \E c \in BOOLEAN : lead' = [row EXCEPT !.closed = c]
           ELSE lead' = Flagged(row, s)
    /\ Finish(p)
    /\ UNCHANGED <<req, admitted>>

-----------------------------------------------------------------------------
(* requestAdvancePayment: a request of the other type in the same table.   *)
(* It read the lead before, so the lead may be deleted by now.             *)
RequestAdvance(r) ==
    /\ Insert(r, Null)
    /\ UNCHANGED <<lead, op, admitted>>

(* processLeadApproval.  PENDING is tested by a plain read inside the      *)
(* transaction, and the writes do not test it again.                       *)
DecideRead(p, r, approve) ==
    /\ ~lead.deleted
    /\ req[r].status = "PENDING"
    /\ Begin(p, [kind |-> "decide", req |-> r, approve |-> approve])
    /\ UNCHANGED <<lead, req, admitted>>

DeniedStillMarked(row) == row                                        \* mutant
Denied(row)      == [row EXCEPT !.pending = Null]
Approved(row, s) == [Moved(row, s) EXCEPT !.pending = Null]

DecideCommit(p) ==
    /\ At(p, "decide")
    /\ LET r == op[p].req
           s == req[r].to
       IN  /\ req' = [req EXCEPT ![r].status =
                         IF op[p].approve THEN "APPROVED" ELSE "DENIED"]
           /\ \/ s = Null /\ UNCHANGED <<lead, admitted>>
              \/ /\ s # Null /\ op[p].approve
                 /\ lead' = Approved(lead, s)
                 /\ Admit(s)
              \/ /\ s # Null /\ ~op[p].approve
                 /\ lead' = Denied(lead)
                 /\ UNCHANGED admitted
    /\ Finish(p)

-----------------------------------------------------------------------------
(* saveCallOutcome: one transaction that reads the lead and then moves it, *)
(* or inserts a request without looking for another one.                   *)
CallRead(p, s) ==
    /\ ~lead.deleted
    /\ s # lead.stage
    /\ Begin(p, [kind |-> "call", from |-> lead.stage, to |-> s])
    /\ UNCHANGED <<lead, req, admitted>>

CallAsksForAny(p, r) ==                                              \* mutant
    /\ At(p, "call")
    /\ Insert(r, op[p].to)
    /\ lead' = [lead EXCEPT !.pending = op[p].to]
    /\ Finish(p)
    /\ UNCHANGED admitted

CallAsks(p, r) ==
    /\ At(p, "call")
    /\ op[p].to \in Gated
    /\ Insert(r, op[p].to)
    /\ lead' = [lead EXCEPT !.pending = op[p].to]
    /\ Finish(p)
    /\ UNCHANGED admitted

(* The flags are copied from the stage here, isClosed of a lost stage too. *)
CallMovesAlways(p) ==                                                \* mutant
    /\ At(p, "call")
    /\ lead' = WithFlags([lead EXCEPT !.stage = op[p].to],
                         op[p].to \in Closing, op[p].to \in Lost)
    /\ Finish(p)
    /\ UNCHANGED <<req, admitted>>

CallMoves(p) ==
    /\ At(p, "call")
    /\ op[p].to \notin Gated
    /\ lead' = WithFlags([lead EXCEPT !.stage = op[p].to],
                         op[p].to \in Closing, op[p].to \in Lost)
    /\ Finish(p)
    /\ UNCHANGED <<req, admitted>>

-----------------------------------------------------------------------------
(* maybeRunLeadSlaSweep: moves the leads it found expired, one by one,     *)
(* into a lost stage, or into one that is only named so.                   *)
SweepRead(p) ==
    /\ ~lead.deleted /\ ~lead.closed /\ ~lead.lob
    /\ Begin(p, [kind |-> "sweep"])
    /\ UNCHANGED <<lead, req, admitted>>

SweepCommit(p, s) ==
    /\ At(p, "sweep")
    /\ lead' = WithFlags([lead EXCEPT !.stage = s], FALSE, TRUE)
    /\ Admit(s)
    /\ Finish(p)
    /\ UNCHANGED req

(* The Closed module: what it lists, the edit and the reopening of a       *)
(* closed lead, and the repair that runs before each listing.              *)
InClosedModule == /\ ~lead.lob /\ lead.stage \notin Lost
                  /\ lead.closed \/ lead.stage \in Won

CloseRead(p) ==
    /\ ~lead.deleted
    /\ InClosedModule
    /\ Begin(p, [kind |-> "close"])
    /\ UNCHANGED <<lead, req, admitted>>

CloseCommit(p) ==
    /\ At(p, "close")
    /\ lead' = WithFlags(lead, TRUE, FALSE)
    /\ Finish(p)
    /\ UNCHANGED <<req, admitted>>

ReopenRead(p) ==
    /\ ~lead.deleted /\ lead.closed
    /\ Begin(p, [kind |-> "reopen"])
    /\ UNCHANGED <<lead, req, admitted>>

ReopenCommit(p) ==
    /\ At(p, "reopen")
    /\ lead' = WithFlags(lead, FALSE, FALSE)
    /\ Finish(p)
    /\ UNCHANGED <<req, admitted>>

ReconcileLost(p) ==
    /\ Begin(p, [kind |-> "reconcile"])
    /\ lead' = IF ~lead.deleted /\ (lead.lob \/ lead.stage \in Lost)
               THEN WithFlags(lead, FALSE, TRUE) ELSE lead
    /\ UNCHANGED <<req, admitted>>

ReconcileFind(p) ==
    /\ At(p, "reconcile")
    /\ IF ~lead.deleted /\ ~lead.lob /\ ~lead.closed /\ lead.stage \in Won
       THEN Become(p, [kind |-> "stale"]) ELSE Finish(p)
    /\ UNCHANGED <<lead, req, admitted>>

ReconcileClose(p) ==
    /\ At(p, "stale")
    /\ lead' = [lead EXCEPT !.closed = TRUE]
    /\ Finish(p)
    /\ UNCHANGED <<req, admitted>>

-----------------------------------------------------------------------------
DeleteLead ==
    /\ lead' = [lead EXCEPT !.deleted = TRUE]
    /\ UNCHANGED <<req, op, admitted>>

(* The row stays, and so do its requests.                                  *)
PermanentlyDelete ==
    /\ lead' = [lead EXCEPT !.stage = Null, !.closed = FALSE, !.lob = FALSE,
                            !.pending = Null, !.deleted = TRUE]
    /\ UNCHANGED <<req, op, admitted>>

(* A handler is refused, throws, or dies; an open transaction leaves       *)
(* nothing behind.                                                         *)
Crash(p) ==
    /\ op[p] # Idle
    /\ Finish(p)
    /\ UNCHANGED <<lead, req, admitted>>

-----------------------------------------------------------------------------
(* createLead asks for no approval, and an import copies the flags of the  *)
(* stage.  An imported row that needs an approval is inserted with its     *)
(* mark; its request follows, in a try block.                              *)
Fresh(s) == [stage |-> s, closed |-> FALSE, lob |-> FALSE, pending |-> Null,
             deleted |-> FALSE, imported |-> FALSE]

Created(s)            == Flagged(Fresh(s), s)
ImportedOpen(s)       == WithFlags(Fresh(s), s \in Closing, s \in Lost)
ImportedMarked(s, to) == [Fresh(s) EXCEPT !.pending = to, !.imported = TRUE]

Init ==
    /\ req = [r \in Requests |-> NoRequest]
    /\ \E s \in Stages \cup {Null} :
        /\ admitted = {s} \cap Gated
        /\ \/ lead \in {Created(s), ImportedOpen(s)} /\ op = [p \in Procs |-> Idle]
           \/ /\ s # Null
              /\ \E to \in Gated, q \in Procs :
                    /\ lead = ImportedMarked(s, to)
                    /\ op = [p \in Procs |->
                                IF p = q THEN [kind |-> "insert", to |-> to, update |-> FALSE]
                                ELSE Idle]

Asking(p) ==
    \/ \E from \in Stages, to \in Gated : Ask(p, from, to)
    \/ AskRead(p) \/ AskFind(p) \/ AskHeal(p)
    \/ \E r \in Requests : AskInsert(p, r)

Updating(p) ==
    \/ UpdateRead(p) \/ UpdateCommit(p)
    \/ \E s \in Stages \cup {Null}, free \in BOOLEAN : UpdateMoveRead(p, s, free)

Deciding(p) ==
    \/ \E r \in Requests, approve \in BOOLEAN : DecideRead(p, r, approve)
    \/ DecideCommit(p)

Calling(p) ==
    \/ \E s \in Stages : CallRead(p, s)
    \/ CallMoves(p)
    \/ \E r \in Requests : CallAsks(p, r)

Sweeping(p) == SweepRead(p) \/ \E s \in Stages : SweepCommit(p, s)

ClosedModule(p) ==
    \/ CloseRead(p) \/ CloseCommit(p) \/ ReopenRead(p) \/ ReopenCommit(p)
    \/ ReconcileLost(p) \/ ReconcileFind(p) \/ ReconcileClose(p)

Next ==
    \/ \E p \in Procs : \/ Asking(p) \/ Updating(p) \/ Deciding(p) \/ Calling(p)
                        \/ Sweeping(p) \/ ClosedModule(p) \/ Crash(p)
    \/ \E r \in Requests : RequestAdvance(r)
    \/ DeleteLead \/ PermanentlyDelete

Spec == Init /\ [][Next]_vars

-----------------------------------------------------------------------------
(* A lead shown as pending has a request for that stage which somebody can *)
(* still decide: updateLead refuses every other stage until then.  The one *)
(* exception is an imported lead whose request could not be created.       *)
PendingBacked ==
    lead.pending # Null =>
        \/ \E r \in Requests : req[r] = [status |-> "PENDING", to |-> lead.pending]
        \/ lead.imported /\ \A r \in Requests : req[r].to = Null

(* No stale handler and no bypass brings a lead into a stage that needs an *)
(* approval unless somebody was entitled to move it there: an approver, a  *)
(* manager without supervisor, the sweep, or who found it without a stage. *)
ApprovalGate == lead.stage \in Gated => lead.stage \in admitted

-----------------------------------------------------------------------------
(* What the code promises and does not keep.                               *)

(* "This approval request has already been processed.": a decision is      *)
(* final.                                                                  *)
DecidedOnce ==
    [][\A r \in Requests :
          req[r].status \in {"APPROVED", "DENIED"} => req'[r] = req[r]]_vars

(* "Closed module: converted / won outcomes only": it does not list a lead *)
(* whose move into a won stage still waits for its approval.               *)
OpenUntilApproved ==
    ~lead.deleted /\ lead.pending \in Won /\ lead.stage \in Stages \ Won => ~InClosedModule

=============================================================================
