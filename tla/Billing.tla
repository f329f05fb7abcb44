------------------------------- MODULE Billing -------------------------------
(***************************************************************************)
(* The billing life cycle of one company (a row of "workspaces") and of    *)
(* the rows that hang off it: payment requests, proofs of payment,         *)
(* verified payments and grace records.                                    *)
(*                                                                         *)
(* Every handler is a Node.js async function: it reads rows, awaits,       *)
(* and writes later from what it read.  An action here is one database     *)
(* access (or one READ COMMITTED transaction, at its commit), and op[p] is *)
(* the handler that server process slot p is in the middle of, with what   *)
(* it keeps of the values it has already read.  Two slots suffice for every two-handler    *)
(* race.                                                                   *)
(*                                                                         *)
(* Abstracted: seat limits and the refusals they cause (module Seats),     *)
(* plans, amounts and audit rows.  Dates are small naturals, 0 stands for  *)
(* a null date, and a null billingStatus is "LEGACY", the name the API     *)
(* prints for it.                                                          *)
(***************************************************************************)
EXTENDS Naturals, Sequences, FiniteSets

CONSTANTS
    Requests,     \* identifiers of payment requests
    Graces,       \* identifiers of grace records
    Procs,        \* handlers that can be in flight at the same time
    MaxTime,      \* bound: the clock stops here
    MaxSubs,      \* bound: proofs of payment in all
    MaxPayments   \* bound: verified payments in all

ASSUME BoundsAssumption ==
    /\ MaxTime \in Nat
    /\ MaxSubs \in Nat \ {0}
    /\ MaxPayments \in Nat \ {0}

VARIABLES
    now,        \* the wall clock
    ws,         \* the workspace row
    req,        \* status of each payment request, "none" before it exists
    subs,       \* statuses of the submissions of each request, oldest first
    paid,       \* accessUntil of each verified payment, in creation order
    grace,      \* the grace records
    op          \* the handler in flight in each slot

vars == <<now, ws, req, subs, paid, grace, op>>

-----------------------------------------------------------------------------
Null  == 0
Dates == 1 .. MaxTime + 1

BillingStatus == {"LEGACY", "PAYMENT_REQUIRED", "PAYMENT_PENDING", "ACTIVE",
                  "GRACE", "EXPIRED", "DELETING"}
RequestStatus == {"none", "PAYMENT_REQUIRED", "PAYMENT_PENDING", "APPROVED",
                  "REJECTED"}
SubmissionStatus == {"PENDING_VERIFICATION", "VERIFIED", "REJECTED"}

Workspace == [exists : BOOLEAN, status : BillingStatus,
              until : Dates \cup {Null}, locked : BOOLEAN, suspended : BOOLEAN]
(* No code tells SUPERSEDED from REVOKED, or reads the date of either.      *)
GraceRecord == [status : {"none", "ended"}, until : {Null}]
                 \cup [status : {"ACTIVE"}, until : Dates]

Handler ==
    [kind : {"idle", "setup", "renewed", "revoke", "expire"}]
      \cup [kind : {"submit", "approve", "reject"}, req : Requests]
      \cup [kind : {"approving"}, req : Requests, proof : Nat, mark : BOOLEAN]
      \cup [kind : {"approved"}, req : Requests, proof : Nat, mark : BOOLEAN,
            seen : SUBSET Graces]
      \cup [kind : {"renew", "grant"}, active : BOOLEAN]
      \cup [kind : {"granting"}, active : BOOLEAN, seen : SUBSET Graces]
      \cup [kind : {"regrade"}, status : {"ACTIVE", "EXPIRED"}]
      \cup [kind : {"delete", "marked"},
            status : BillingStatus \ {"DELETING", "LEGACY"}]

Idle    == [kind |-> "idle"]
NoGrace == [status |-> "none", until |-> Null]
NoWorkspace == [exists |-> FALSE, status |-> "LEGACY", until |-> Null,
                locked |-> FALSE, suspended |-> FALSE]
EndedGrace == [status |-> "ended", until |-> Null]

(* One state invariant for the shape of the rows and of the handlers.      *)
TypeOK ==
    /\ now \in 0 .. MaxTime
    /\ ws \in Workspace
    /\ req \in [Requests -> RequestStatus]
    /\ subs \in [Requests -> Seq(SubmissionStatus)]
    /\ paid \in [Requests -> Seq(Dates)]
    /\ grace \in [Graces -> GraceRecord]
    /\ op \in [Procs -> Handler]

-----------------------------------------------------------------------------
(* evaluateCompanyAccess.  The code tests the reasons one after the other; *)
(* the three that allow a request are below, suspension and lock come      *)
(* first, and everything else denies it.                                   *)
PaidAccessUndated == ws.status \in {"ACTIVE", "PAYMENT_PENDING"}     \* mutant
PaidAccessActive  == ws.until > now /\ ws.status = "ACTIVE"          \* mutant

PaidAccess  == ws.until > now /\ ws.status \in {"ACTIVE", "PAYMENT_PENDING"}
GraceAccess == \E g \in Graces : /\ grace[g].status = "ACTIVE"
                                 /\ grace[g].until > now
LegacyAccess == ws.status = "LEGACY" /\ ws.until = Null
Unblocked   == ~ws.suspended /\ ~ws.locked

Allowed == ws.exists /\ Unblocked /\ (PaidAccess \/ GraceAccess \/ LegacyAccess)

(* The decision SUBSCRIPTION_EXPIRED.                                      *)
Lapsed == /\ ws.exists /\ Unblocked /\ ~Allowed
          /\ ws.status \notin {"PAYMENT_PENDING", "PAYMENT_REQUIRED"}
          /\ ws.until \in 1 .. now

-----------------------------------------------------------------------------
SetStatus(s) == ws' = [ws EXCEPT !.status = s]
Begin(p, h)  == op[p] = Idle /\ op' = [op EXCEPT ![p] = h]
Become(p, h) == op' = [op EXCEPT ![p] = h]
Finish(p)    == Become(p, Idle)
At(p, kind)  == ws.exists /\ op[p].kind = kind

records == <<req, subs, paid, grace>>

(* The bounds: a handler that could not commit any more does not start.    *)
Rows(table) == Cardinality(UNION {{r} \X DOMAIN table[r] : r \in Requests})
RequestLeft == \E r \in Requests : req[r] = "none"
GraceLeft   == \E g \in Graces : grace[g].status = "none"
SubsLeft    == Rows(subs) < MaxSubs
PaymentLeft == Rows(paid) < MaxPayments

(* setupWorkspace creates the workspace row as PAYMENT_REQUIRED (the       *)
(* initial state with a "setup" handler), then role, owner and master      *)
(* data, and last of all the first payment request.                        *)
SetupRequest(p, r) ==
    /\ At(p, "setup")
    /\ req[r] = "none"
    /\ req' = [req EXCEPT ![r] = "PAYMENT_REQUIRED"]
    /\ Finish(p)
    /\ UNCHANGED <<now, ws, subs, paid, grace>>

(* The transaction of an approval has updated the row of its request and   *)
(* holds its lock until it ends.                                           *)
Approver(p, r) == op[p].kind = "approved" /\ op[p].req = r
RowFree(r)     == \A p \in Procs : ~Approver(p, r)

(* submitPaymentProof: the status is tested by the read, the transaction   *)
(* writes without testing it again.                                        *)
SubmitRead(p, r) ==
    /\ ws.exists
    /\ req[r] = "PAYMENT_REQUIRED"
    /\ SubsLeft
    /\ Begin(p, [kind |-> "submit", req |-> r])
    /\ UNCHANGED <<now, ws, records>>

SubmitCommit(p) ==
    /\ At(p, "submit")
    /\ SubsLeft
    /\ LET r == op[p].req IN
        /\ RowFree(r)
        /\ subs' = [subs EXCEPT ![r] = Append(@, "PENDING_VERIFICATION")]
        /\ req' = [req EXCEPT ![r] = "PAYMENT_PENDING"]
    /\ SetStatus("PAYMENT_PENDING")
    /\ Finish(p)
    /\ UNCHANGED <<now, paid, grace>>

(* createRenewalRequest reads the workspace, inserts the request, and then *)
(* lowers the billing status unless the row it read was ACTIVE or GRACE.   *)
RenewRead(p) ==
    /\ ws.exists
    /\ RequestLeft
    /\ Begin(p, [kind |-> "renew", active |-> ws.status \in {"ACTIVE", "GRACE"}])
    /\ UNCHANGED <<now, ws, records>>

RenewCreate(p, r) ==
    /\ At(p, "renew")
    /\ req[r] = "none"
    /\ req' = [req EXCEPT ![r] = "PAYMENT_REQUIRED"]
    /\ \/ op[p].active /\ Finish(p)
       \/ ~op[p].active /\ Become(p, [kind |-> "renewed"])
    /\ UNCHANGED <<now, ws, subs, paid, grace>>

RenewLower(p) ==
    /\ At(p, "renewed")
    /\ SetStatus("PAYMENT_REQUIRED")
    /\ Finish(p)
    /\ UNCHANGED <<now, records>>

(* approvePayment.  The read answers "already approved" when the request   *)
(* is APPROVED and has a payment; otherwise the transaction runs, and in   *)
(* it only the existence of the request is tested again.  Nothing that is  *)
(* read depends on the dates of the input, so u is chosen at the commit.   *)
ApproveRead(p, r) ==
    /\ ws.exists
    /\ req[r] # "none"
    /\ ~(req[r] = "APPROVED" /\ paid[r] # <<>>)
    /\ PaymentLeft
    /\ Begin(p, [kind |-> "approve", req |-> r])
    /\ UNCHANGED <<now, ws, records>>

(* The proof that will be marked, by its place in the list: the newest one *)
(* in review, else the newest one; 0 when none is on file and a VERIFIED   *)
(* row is created for an offline payment.                                  *)
ProofToVerify(s) ==
    LET inReview == {i \in DOMAIN s : s[i] = "PENDING_VERIFICATION"}
    IN  IF inReview = {} THEN Len(s)
        ELSE CHOOSE i \in inReview : \A j \in inReview : j <= i

(* The transaction is READ COMMITTED: it looks up the proof, and others    *)
(* may commit before its first update locks the request.                   *)
ApproveLook(p) ==
    /\ At(p, "approve")
    /\ LET r == op[p].req
           i == ProofToVerify(subs[r])
       IN  Become(p, [kind |-> "approving", req |-> r, proof |-> i,
                      mark |-> i # 0 /\ subs[r][i] # "VERIFIED"])
    /\ UNCHANGED <<now, ws, records>>

(* From here the row of the request is locked; the grace records to retire *)
(* are those this statement sees.                                          *)
ApproveRetire(p) ==
    /\ At(p, "approving")
    /\ RowFree(op[p].req)
    /\ Become(p, [kind |-> "approved", req |-> op[p].req, proof |-> op[p].proof,
                  mark |-> op[p].mark,
                  seen |-> {g \in Graces : grace[g].status = "ACTIVE"}])
    /\ UNCHANGED <<now, ws, records>>

VerifyOnlyExisting(h, s) ==                                          \* mutant
    IF h.mark THEN [s EXCEPT ![h.proof] = "VERIFIED"] ELSE s

(* The update is skipped when the row looked up was VERIFIED already.      *)
Verify(h, s) ==
    IF h.proof = 0 THEN Append(s, "VERIFIED")
    ELSE IF h.mark THEN [s EXCEPT ![h.proof] = "VERIFIED"]
    ELSE s

Retire(active) ==
    [g \in Graces |-> IF g \in active /\ grace[g].status = "ACTIVE"
                      THEN EndedGrace ELSE grace[g]]

ApproveCommit(p, u) ==
    /\ At(p, "approved")
    /\ PaymentLeft
    /\ LET r == op[p].req IN
        /\ paid' = [paid EXCEPT ![r] = Append(@, u)]
        /\ req' = [req EXCEPT ![r] = "APPROVED"]
        /\ subs' = [subs EXCEPT ![r] = Verify(op[p], @)]
    /\ grace' = Retire(op[p].seen)
    /\ ws' = [ws EXCEPT !.status = "ACTIVE", !.until = u,
                        !.locked = FALSE, !.suspended = FALSE]
    /\ Finish(p)
    /\ UNCHANGED <<now>>

(* rejectPayment: APPROVED is refused by the read only.                    *)
RejectRead(p, r) ==
    /\ ws.exists
    /\ req[r] \notin {"none", "APPROVED"}
    /\ Begin(p, [kind |-> "reject", req |-> r])
    /\ UNCHANGED <<now, ws, records>>

RejectCommit(p) ==
    /\ At(p, "reject")
    /\ LET r == op[p].req IN
        /\ RowFree(r)
        /\ req' = [req EXCEPT ![r] = "REJECTED"]
        /\ subs' = [subs EXCEPT ![r] = [i \in DOMAIN @ |-> "REJECTED"]]
    /\ SetStatus("PAYMENT_REQUIRED")
    /\ Finish(p)
    /\ UNCHANGED <<now, paid, grace>>

(* grantGrace reads the workspace; its transaction retires the grace       *)
(* records its first statement sees, inserts the new one, and sets GRACE   *)
(* unless the workspace read before was ACTIVE.  Under READ COMMITTED the  *)
(* first statement does not see a grant that commits after it.             *)
GrantRead(p) ==
    /\ ws.exists
    /\ GraceLeft
    /\ Begin(p, [kind |-> "grant", active |-> ws.status = "ACTIVE"])
    /\ UNCHANGED <<now, ws, records>>

GrantRetire(p) ==
    /\ At(p, "grant")
    /\ Become(p, [kind |-> "granting", active |-> op[p].active,
                  seen |-> {g \in Graces : grace[g].status = "ACTIVE"}])
    /\ UNCHANGED <<now, ws, records>>

GrantCommit(p, g, u) ==
    /\ At(p, "granting")
    /\ grace[g].status = "none"
    /\ grace' = [Retire(op[p].seen) EXCEPT
                    ![g] = [status |-> "ACTIVE", until |-> u]]
    /\ IF op[p].active THEN UNCHANGED ws ELSE SetStatus("GRACE")
    /\ Finish(p)
    /\ UNCHANGED <<now, req, subs, paid>>

(* revokeGrace: three separate accesses, no transaction.                   *)
RevokeMark(p) ==
    /\ ws.exists
    /\ Begin(p, [kind |-> "revoke"])
    /\ grace' = Retire(Graces)
    /\ UNCHANGED <<now, ws, req, subs, paid>>

RevokeEvaluate(p) ==
    /\ At(p, "revoke")
    /\ \/ /\ ws.status = "GRACE"
          /\ Become(p, [kind |-> "regrade",
                        status |-> IF Allowed THEN "ACTIVE" ELSE "EXPIRED"])
       \/ /\ ws.status # "GRACE"
          /\ Finish(p)
    /\ UNCHANGED <<now, ws, records>>

RevokeRegrade(p) ==
    /\ At(p, "regrade")
    /\ SetStatus(op[p].status)
    /\ Finish(p)
    /\ UNCHANGED <<now, records>>

(* lockCompany, unlockCompany, suspendCompany, unsuspendCompany write one  *)
(* pair of columns each and never the billing status.                      *)
Lock ==
    /\ ws.exists
    /\ ws' = [ws EXCEPT !.locked = TRUE]
    /\ UNCHANGED <<now, records, op>>

Unlock ==
    /\ ws.exists
    /\ ws' = [ws EXCEPT !.locked = FALSE]
    /\ UNCHANGED <<now, records, op>>

Suspend ==
    /\ ws.exists
    /\ ws' = [ws EXCEPT !.suspended = TRUE]
    /\ UNCHANGED <<now, records, op>>

Unsuspend ==
    /\ ws.exists
    /\ ws' = [ws EXCEPT !.suspended = FALSE]
    /\ UNCHANGED <<now, records, op>>

(* protect: a request that finds the subscription lapsed and the status    *)
(* ACTIVE starts an update it does not await.                              *)
ExpireRead(p) ==
    /\ Lapsed
    /\ ws.status = "ACTIVE"
    /\ Begin(p, [kind |-> "expire"])
    /\ UNCHANGED <<now, ws, records>>

ExpireWrite(p) ==
    /\ At(p, "expire")
    /\ SetStatus("EXPIRED")
    /\ Finish(p)
    /\ UNCHANGED <<now, records>>

(* deleteCompanyAndWorkspace: read and refuse DELETING; mark and lock;     *)
(* delete the recordings, which are not in these tables; delete every row  *)
(* in one transaction.  When the storage or the transaction fails, the     *)
(* status read at the start is put back and a lock reason is left.         *)
RevertedNull(s) == s                                                 \* mutant

Reverted(s) == IF s = "LEGACY" THEN "ACTIVE" ELSE s   \* billingStatus || 'ACTIVE'

DeleteReadUnguarded(p) ==                                            \* mutant
    /\ ws.exists
    /\ Begin(p, [kind |-> "delete", status |-> Reverted(ws.status)])
    /\ UNCHANGED <<now, ws, records>>

DeleteRead(p) ==
    /\ ws.exists
    /\ ws.status # "DELETING"
    /\ Begin(p, [kind |-> "delete", status |-> Reverted(ws.status)])
    /\ UNCHANGED <<now, ws, records>>

DeleteMark(p) ==
    /\ At(p, "delete")
    /\ ws' = [ws EXCEPT !.status = "DELETING", !.locked = TRUE]
    /\ Become(p, [kind |-> "marked", status |-> op[p].status])
    /\ UNCHANGED <<now, records>>

DeleteRows(p) ==
    /\ At(p, "marked")
    /\ \A r \in Requests : RowFree(r)
    /\ ws' = NoWorkspace
    /\ req' = [r \in Requests |-> "none"]
    /\ subs' = [r \in Requests |-> <<>>]
    /\ paid' = [r \in Requests |-> <<>>]
    /\ grace' = [g \in Graces |-> NoGrace]
    /\ Finish(p)
    /\ UNCHANGED <<now>>

DeleteFailUnlocks(p) ==                                              \* mutant
    /\ op[p].kind = "marked"
    /\ IF ws.exists
       THEN ws' = [ws EXCEPT !.status = op[p].status, !.locked = FALSE]
       ELSE UNCHANGED ws
    /\ Finish(p)
    /\ UNCHANGED <<now, records>>

DeleteFail(p) ==
    /\ op[p].kind = "marked"
    /\ IF ws.exists
       THEN ws' = [ws EXCEPT !.status = op[p].status, !.locked = TRUE]
       ELSE UNCHANGED ws
    /\ Finish(p)
    /\ UNCHANGED <<now, records>>

(* A handler ends without its remaining writes: its process dies, or an    *)
(* awaited call throws and nothing puts back what was written before.  A   *)
(* deletion past its mark ends like this in a living process too: the list *)
(* of recordings is read outside any try, and the update that puts the     *)
(* status back can itself fail.                                            *)
Crash(p) ==
    /\ op[p] # Idle
    /\ Finish(p)
    /\ UNCHANGED <<now, ws, records>>

Tick ==
    /\ now < MaxTime
    /\ now' = now + 1
    /\ UNCHANGED <<ws, records, op>>

-----------------------------------------------------------------------------
(* A legacy company, or one whose setup handler is still running.          *)
Init ==
    /\ now = 0
    /\ req = [r \in Requests |-> "none"]
    /\ subs = [r \in Requests |-> <<>>]
    /\ paid = [r \in Requests |-> <<>>]
    /\ grace = [g \in Graces |-> NoGrace]
    /\ \E s \in {"LEGACY", "PAYMENT_REQUIRED"} :
        /\ ws = [exists |-> TRUE, status |-> s, until |-> Null,
                 locked |-> FALSE, suspended |-> FALSE]
        /\ \/ s = "LEGACY" /\ op = [p \in Procs |-> Idle]
           \/ /\ s = "PAYMENT_REQUIRED"
              /\ \E q \in Procs :
                    op = [p \in Procs |-> IF p = q THEN [kind |-> "setup"]
                                          ELSE Idle]

Customer(p) ==
    \/ \E r \in Requests : SetupRequest(p, r) \/ SubmitRead(p, r)
                           \/ RenewCreate(p, r)
    \/ SubmitCommit(p) \/ RenewRead(p) \/ RenewLower(p)
    \/ ExpireRead(p) \/ ExpireWrite(p)

Approval(p) ==
    \/ \E r \in Requests : ApproveRead(p, r) \/ RejectRead(p, r)
    \/ ApproveLook(p) \/ ApproveRetire(p)
    \/ \E u \in Dates : ApproveCommit(p, u)
    \/ RejectCommit(p)

GraceControl(p) ==
    \/ GrantRead(p) \/ GrantRetire(p)
    \/ \E g \in Graces, u \in Dates : GrantCommit(p, g, u)
    \/ RevokeMark(p) \/ RevokeEvaluate(p) \/ RevokeRegrade(p)

Deletion(p) ==
    DeleteRead(p) \/ DeleteMark(p) \/ DeleteRows(p) \/ DeleteFail(p)

Next ==
    \/ \E p \in Procs : \/ Customer(p) \/ Approval(p) \/ GraceControl(p)
                        \/ Deletion(p) \/ Crash(p)
    \/ Lock \/ Unlock \/ Suspend \/ Unsuspend
    \/ Tick

Spec == Init /\ [][Next]_vars

-----------------------------------------------------------------------------
(* No access without a basis: whoever passes the access check without a    *)
(* grace record has a verified payment that is still running, or is a      *)
(* legacy company that never paid.  Access is decided from columns of the  *)
(* workspace row that nine handlers write from stale reads; the payments   *)
(* are rows of another table (paymentApproval.service.ts, approvePayment). *)
AccessHasBasis ==
    Allowed => \/ GraceAccess
               \/ \E r \in Requests : \E i \in DOMAIN paid[r] :
                    paid[r][i] = ws.until /\ paid[r][i] > now
               \/ LegacyAccess /\ \A r \in Requests : paid[r] = <<>>

(* The review queue and the payments agree with the proofs on file: a      *)
(* request shown as pending has a proof left to review, and an approved    *)
(* one has a payment and a proof that was decided, whatever approve,       *)
(* reject and submit handlers overlapped on it.  The proof need not be     *)
(* verified any more: see ApprovedIsVerified.                              *)
Filed(r, statuses) == \E i \in DOMAIN subs[r] : subs[r][i] \in statuses

ReviewBacked ==
    \A r \in Requests :
        /\ req[r] = "PAYMENT_PENDING" => Filed(r, {"PENDING_VERIFICATION"})
        /\ req[r] = "APPROVED" => /\ paid[r] # <<>>
                                  /\ Filed(r, {"VERIFIED", "REJECTED"})

(* Only a deletion that is running marks the company: no deletion that     *)
(* fails and puts the old status back, and no regrade from a stale read,   *)
(* brings the mark of another deletion back after that one has ended.      *)
MarkedByDeletion ==
    [][ws.exists /\ ws.status # "DELETING" /\ ws'.status = "DELETING" =>
          \E p \in Procs : op[p].kind = "delete" /\ op'[p].kind = "marked"]_vars

(* A company that is blocked gets in again only by a step of the platform  *)
(* operator, or by a customer's step when a payment is running and neither *)
(* a lock nor a suspension holds: no grace, deletion or expiry handler     *)
(* that overtakes another lifts a block.                                   *)
Operator == \/ Unlock \/ Unsuspend
            \/ \E p \in Procs, u \in Dates :
                  ApproveCommit(p, u) \/ \E g \in Graces : GrantCommit(p, g, u)

BlockLiftedByOperator ==
    [][ws.exists /\ ~Allowed /\ Allowed' =>
          Operator \/ (Unblocked /\ PaidAccess')]_vars

(* A customer who may work keeps working when he files a proof of payment  *)
(* (the early renewal of evaluateCompanyAccess), whatever the request read *)
(* before; only a legacy company, which has nothing to renew, loses its    *)
(* access by it.                                                           *)
ProofKeepsAccess ==
    [][Allowed /\ ~LegacyAccess /\ (\E p \in Procs : SubmitCommit(p))
          => Allowed']_vars

-----------------------------------------------------------------------------
(* What comments of the code promise and the code does not keep.           *)

(* approvePayment is "transactional and idempotent": one request is never  *)
(* booked as two verified payments.                                        *)
PaidOnce == \A r \in Requests : Len(paid[r]) <= 1

(* The priority order documented on evaluateCompanyAccess puts valid paid  *)
(* access before PAYMENT_REQUIRED and EXPIRED: a company in one of these   *)
(* two that is neither suspended nor locked works until the day it paid    *)
(* for.                                                                    *)
PaidComesFirst ==
    /\ ws.exists /\ Unblocked
    /\ ws.status \in {"PAYMENT_REQUIRED", "EXPIRED"}
    /\ ws.until > now
    => Allowed

(* The mark of a deletion is set "to prevent concurrent operations": no    *)
(* request of the company passes while its rows are being deleted.         *)
DeletionShutsOut == (\E p \in Procs : op[p].kind = "marked") => ~Allowed

(* A failed deletion is reverted "so state is not locked forever": a       *)
(* company in DELETING has a handler that will end it.                     *)
DeletingIsOwned ==
    ws.exists /\ ws.status = "DELETING" =>
        \E p \in Procs : op[p].kind = "marked"

(* The status is verified again "inside transaction" and the approval is   *)
(* "atomic": an approved request has a verified proof.                     *)
ApprovedIsVerified ==
    \A r \in Requests : req[r] = "APPROVED" => Filed(r, {"VERIFIED"})

=============================================================================
