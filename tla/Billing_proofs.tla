---------------------------- MODULE Billing_proofs ----------------------------
(***************************************************************************)
(* What holds of a company's billing rows for every number of requests,    *)
(* grace records, overlapping handlers and days.                           *)
(***************************************************************************)
EXTENDS Billing, SequenceTheorems, WellFoundedInduction, TLAPS

-----------------------------------------------------------------------------
(* Operators the handlers are built from.                                  *)

(* A write of the status column changes that column only.                  *)
LEMMA StatusWritten ==
    ASSUME ws \in Workspace, NEW s \in BillingStatus, SetStatus(s)
    PROVE  /\ ws' \in Workspace
           /\ ws'.status = s
           /\ ws'.until = ws.until /\ ws'.exists = ws.exists
           /\ ws'.locked = ws.locked /\ ws'.suspended = ws.suspended
BY DEF Workspace, SetStatus

(* Retiring grace records leaves a table of grace records.                 *)
LEMMA RetireType ==
    ASSUME grace \in [Graces -> GraceRecord], NEW active
    PROVE  Retire(active) \in [Graces -> GraceRecord]
BY DEF Retire, GraceRecord, EndedGrace

(* The slot of a handler is written with a handler, the others keep theirs.*)
LEMMA OpWritten ==
    ASSUME op \in [Procs -> Handler], NEW p \in Procs, NEW h \in Handler, Become(p, h)
    PROVE  /\ op' \in [Procs -> Handler]
           /\ op'[p] = h
           /\ \A q \in Procs \ {p} : op'[q] = op[q]
BY DEF Become

LEMMA IdleIsHandler == Idle \in Handler
BY DEF Idle, Handler

(* The proofs of payment stay a list of statuses when one of them is       *)
(* verified, also when the one looked up is no longer there.               *)
LEMMA VerifyType ==
    ASSUME NEW s \in Seq(SubmissionStatus), NEW h
    PROVE  Verify(h, s) \in Seq(SubmissionStatus)
<1>1. "VERIFIED" \in SubmissionStatus  BY DEF SubmissionStatus
<1>2. Append(s, "VERIFIED") \in Seq(SubmissionStatus)  BY <1>1, AppendProperties
<1>3. [s EXCEPT ![h.proof] = "VERIFIED"] \in Seq(SubmissionStatus)
  <2>1. CASE h.proof \in 1 .. Len(s)  BY <1>1, <2>1, ExceptSeq
  <2>2. CASE h.proof \notin 1 .. Len(s)
    <3>1. [s EXCEPT ![h.proof] = "VERIFIED"] = s  BY <2>2, LenProperties
    <3>2. QED BY <3>1
  <2>3. QED BY <2>1, <2>2
<1>4. QED BY <1>2, <1>3 DEF Verify

(* The relation of the library's theorem on minimal naturals.              *)
LEMMA LessThanPairs ==
    \A i, j \in Nat : j < i => <<j, i>> \in OpToRel(<, Nat)
BY Zenon DEF OpToRel

(* The proof an approval looks up is on file, or there is none.            *)
LEMMA ProofIsFiled ==
    ASSUME NEW s \in Seq(SubmissionStatus)
    PROVE  ProofToVerify(s) \in 0 .. Len(s)
<1> DEFINE inReview == {i \in DOMAIN s : s[i] = "PENDING_VERIFICATION"}
           newest   == CHOOSE i \in inReview : \A j \in inReview : j <= i
           left     == {n \in Nat : \E i \in inReview : n = Len(s) - i}
<1>1. Len(s) \in Nat /\ inReview \subseteq 1 .. Len(s)  BY LenProperties
<1>2. CASE inReview = {}
  <2>1. ProofToVerify(s) = Len(s)  BY <1>2, Zenon DEF ProofToVerify
  <2>2. QED BY <1>1, <2>1
<1>3. CASE inReview # {}
  <2>1. left # {} /\ left \subseteq Nat
    <3>1. PICK i \in inReview : TRUE  BY <1>3
    <3>2. Len(s) - i \in Nat  BY <1>1, <3>1
    <3>3. QED BY <3>1, <3>2
  <2>2. PICK m \in left : \A n \in left : <<n, m>> \notin OpToRel(<, Nat)
        BY <2>1, NatLessThanWellFounded, WFMin, Zenon
  <2>3. \A n \in left : ~ (n < m)  BY <2>1, <2>2, LessThanPairs, Zenon
  <2>4. PICK i \in inReview : m = Len(s) - i  BY <2>2
  <2>5. ASSUME NEW j \in inReview PROVE j <= i
    <3>1. Len(s) - j \in left  BY <1>1, <2>5
    <3>2. ~ (Len(s) - j < Len(s) - i)  BY <2>3, <2>4, <3>1
    <3>3. i \in Nat /\ j \in Nat  BY <1>1, <2>4, <2>5
    <3>4. QED BY <1>1, <3>2, <3>3
  <2>6. newest \in inReview  BY <2>4, <2>5, Zenon
  <2>7. ProofToVerify(s) = newest  BY <1>3, Zenon DEF ProofToVerify
  <2>8. QED BY <1>1, <2>6, <2>7
<1>4. QED BY <1>2, <1>3

(* What an approval in its transaction remembers, and the list of proofs   *)
(* it leaves.                                                              *)
Decided == {"VERIFIED", "REJECTED"}

Looked(h, s) ==
    /\ h.proof \in 0 .. Len(s)
    /\ h.proof # 0 /\ ~h.mark => s[h.proof] \in Decided

(* A list of proofs that is as long as it was, and takes back no decision. *)
Later(s, t) ==
    /\ Len(s) <= Len(t)
    /\ \A i \in 1 .. Len(s) : s[i] \in Decided => t[i] \in Decided

LEMMA FiledLater ==
    ASSUME NEW s \in Seq(SubmissionStatus), NEW x \in SubmissionStatus
    PROVE  /\ Append(s, x) \in Seq(SubmissionStatus)
           /\ Later(s, Append(s, x))
           /\ Len(s) + 1 \in DOMAIN Append(s, x)
           /\ Append(s, x)[Len(s) + 1] = x
<1>1. /\ Append(s, x) \in Seq(SubmissionStatus)
      /\ Len(Append(s, x)) = Len(s) + 1
      /\ Append(s, x)[Len(s) + 1] = x
      /\ \A i \in 1 .. Len(s) : Append(s, x)[i] = s[i]
      BY AppendProperties
<1>2. Len(s) \in Nat  BY LenProperties
<1>3. DOMAIN Append(s, x) = 1 .. Len(s) + 1  BY <1>1, LenProperties
<1>4. QED BY <1>1, <1>2, <1>3 DEF Later

LEMMA MarkedLater ==
    ASSUME NEW s \in Seq(SubmissionStatus), NEW i \in 1 .. Len(s)
    PROVE  /\ [s EXCEPT ![i] = "VERIFIED"] \in Seq(SubmissionStatus)
           /\ Later(s, [s EXCEPT ![i] = "VERIFIED"])
           /\ i \in DOMAIN [s EXCEPT ![i] = "VERIFIED"]
           /\ [s EXCEPT ![i] = "VERIFIED"][i] = "VERIFIED"
<1> DEFINE t == [s EXCEPT ![i] = "VERIFIED"]
<1>1. "VERIFIED" \in SubmissionStatus  BY DEF SubmissionStatus
<1>2. /\ t \in Seq(SubmissionStatus)
      /\ Len(t) = Len(s)
      /\ \A j \in 1 .. Len(s) : t[j] = IF j = i THEN "VERIFIED" ELSE s[j]
      BY <1>1, ExceptSeq
<1>3. Len(s) \in Nat /\ DOMAIN t = 1 .. Len(s)  BY <1>2, LenProperties
<1>4. QED BY <1>2, <1>3 DEF Later, Decided

(* An approval leaves a list of proofs in which one is decided.            *)
LEMMA VerifyLater ==
    ASSUME NEW s \in Seq(SubmissionStatus), NEW h, h.mark \in BOOLEAN, Looked(h, s)
    PROVE  /\ Verify(h, s) \in Seq(SubmissionStatus)
           /\ Later(s, Verify(h, s))
           /\ \E i \in DOMAIN Verify(h, s) : Verify(h, s)[i] \in Decided
<1>0. Len(s) \in Nat /\ DOMAIN s = 1 .. Len(s)  BY LenProperties
<1>1. CASE h.proof = 0
  <2>1. Verify(h, s) = Append(s, "VERIFIED")  BY <1>1 DEF Verify
  <2>2. "VERIFIED" \in SubmissionStatus /\ "VERIFIED" \in Decided
        BY DEF SubmissionStatus, Decided
  <2>3. QED BY <2>1, <2>2, FiledLater
<1>2. CASE h.proof # 0 /\ h.mark
  <2>1. h.proof \in 1 .. Len(s)  BY <1>0, <1>2 DEF Looked
  <2>2. Verify(h, s) = [s EXCEPT ![h.proof] = "VERIFIED"]  BY <1>2 DEF Verify
  <2>3. "VERIFIED" \in Decided  BY DEF Decided
  <2>4. /\ Verify(h, s) \in Seq(SubmissionStatus)
        /\ Later(s, Verify(h, s))
        /\ h.proof \in DOMAIN Verify(h, s)
        /\ Verify(h, s)[h.proof] = "VERIFIED"
    <3> HIDE DEF Verify
    <3>1. ASSUME NEW n \in 1 .. Len(s)
          PROVE  /\ [s EXCEPT ![n] = "VERIFIED"] \in Seq(SubmissionStatus)
                 /\ Later(s, [s EXCEPT ![n] = "VERIFIED"])
                 /\ n \in DOMAIN [s EXCEPT ![n] = "VERIFIED"]
                 /\ [s EXCEPT ![n] = "VERIFIED"][n] = "VERIFIED"
          BY MarkedLater
    <3>2. QED BY <2>1, <2>2, <3>1, Zenon
  <2>5. QED BY <2>3, <2>4
<1>3. CASE h.proof # 0 /\ ~h.mark
  <2>1. h.proof \in 1 .. Len(s)  BY <1>0, <1>3 DEF Looked
  <2>2. Verify(h, s) = s  BY <1>3 DEF Verify
  <2>3. Later(s, s)  BY <1>0 DEF Later
  <2>4. s[h.proof] \in Decided  BY <1>3 DEF Looked
  <2>5. QED BY <1>0, <2>1, <2>2, <2>3, <2>4
<1>4. QED BY <1>1, <1>2, <1>3

(* What was looked up stays true of a later list.                          *)
LEMMA LookedLater ==
    ASSUME NEW s \in Seq(SubmissionStatus), NEW t \in Seq(SubmissionStatus),
           NEW h, Looked(h, s), Later(s, t)
    PROVE  Looked(h, t)
<1>1. Len(s) \in Nat /\ Len(t) \in Nat /\ Len(s) <= Len(t)
      BY LenProperties DEF Later
<1>2. h.proof \in 0 .. Len(t)  BY <1>1 DEF Looked
<1>3. ASSUME h.proof # 0, ~h.mark PROVE t[h.proof] \in Decided
  <2>1. h.proof \in 1 .. Len(s)  BY <1>1, <1>3 DEF Looked
  <2>2. s[h.proof] \in Decided  BY <1>3 DEF Looked
  <2>3. QED BY <2>1, <2>2 DEF Later
<1>4. QED BY <1>2, <1>3 DEF Looked

-----------------------------------------------------------------------------
(* Type correctness.                                                       *)

LEMMA TypeInit == Init => TypeOK
<1> SUFFICES ASSUME Init PROVE TypeOK  OBVIOUS
<1>1. now \in 0 .. MaxTime  BY BoundsAssumption DEF Init
<1>2. ws \in Workspace  BY DEF Init, Workspace, BillingStatus, Null
<1>3. op \in [Procs -> Handler]
  <2>1. [kind |-> "setup"] \in Handler  BY DEF Handler
  <2>2. QED BY <2>1, IdleIsHandler DEF Init
<1>4. /\ req \in [Requests -> RequestStatus]
      /\ subs \in [Requests -> Seq(SubmissionStatus)]
      /\ paid \in [Requests -> Seq(Dates)]
      BY EmptySeq DEF Init, RequestStatus
<1>5. grace \in [Graces -> GraceRecord]  BY DEF Init, GraceRecord, NoGrace
<1>6. QED BY <1>1, <1>2, <1>3, <1>4, <1>5 DEF TypeOK

LEMMA TypeCustomer ==
    ASSUME TypeOK, NEW p \in Procs, Customer(p)
    PROVE  TypeOK'
<1> USE IdleIsHandler DEF TypeOK
<1>1. ASSUME NEW r \in Requests, SetupRequest(p, r) PROVE TypeOK'
  <2>1. req' \in [Requests -> RequestStatus]  BY <1>1 DEF SetupRequest, RequestStatus
  <2>2. op' \in [Procs -> Handler]  BY <1>1, OpWritten DEF SetupRequest, Finish
  <2>3. QED BY <1>1, <2>1, <2>2 DEF SetupRequest
<1>2. ASSUME NEW r \in Requests, SubmitRead(p, r) PROVE TypeOK'
  <2>1. [kind |-> "submit", req |-> r] \in Handler  BY DEF Handler
  <2>2. op' \in [Procs -> Handler]  BY <1>2, <2>1, OpWritten DEF SubmitRead, Begin, Become
  <2>3. QED BY <1>2, <2>2 DEF SubmitRead, records
<1>3. ASSUME NEW r \in Requests, RenewCreate(p, r) PROVE TypeOK'
  <2>1. [kind |-> "renewed"] \in Handler  BY DEF Handler
  <2>2. req' \in [Requests -> RequestStatus]  BY <1>3 DEF RenewCreate, RequestStatus
  <2>3. op' \in [Procs -> Handler]  BY <1>3, <2>1, OpWritten DEF RenewCreate, Finish
  <2>4. QED BY <1>3, <2>2, <2>3 DEF RenewCreate
<1>4. CASE SubmitCommit(p)
  <2> DEFINE r == op[p].req
  <2>1. r \in Requests  BY <1>4 DEF SubmitCommit, At, Handler
  <2>2. Append(subs[r], "PENDING_VERIFICATION") \in Seq(SubmissionStatus)
        BY <2>1, AppendProperties DEF SubmissionStatus
  <2>3. subs' \in [Requests -> Seq(SubmissionStatus)]  BY <1>4, <2>2 DEF SubmitCommit
  <2>4. req' \in [Requests -> RequestStatus]  BY <1>4 DEF SubmitCommit, RequestStatus
  <2>5. ws' \in Workspace  BY <1>4, StatusWritten DEF SubmitCommit, BillingStatus
  <2>6. op' \in [Procs -> Handler]  BY <1>4, OpWritten DEF SubmitCommit, Finish
  <2>7. QED BY <1>4, <2>3, <2>4, <2>5, <2>6 DEF SubmitCommit
<1>5. CASE RenewRead(p)
  <2>1. [kind |-> "renew", active |-> ws.status \in {"ACTIVE", "GRACE"}] \in Handler
        BY DEF Handler
  <2>2. op' \in [Procs -> Handler]  BY <1>5, <2>1, OpWritten DEF RenewRead, Begin, Become
  <2>3. QED BY <1>5, <2>2 DEF RenewRead, records
<1>6. CASE RenewLower(p)
  <2>1. ws' \in Workspace  BY <1>6, StatusWritten DEF RenewLower, BillingStatus
  <2>2. op' \in [Procs -> Handler]  BY <1>6, OpWritten DEF RenewLower, Finish
  <2>3. QED BY <1>6, <2>1, <2>2 DEF RenewLower, records
<1>7. CASE ExpireRead(p)
  <2>1. [kind |-> "expire"] \in Handler  BY DEF Handler
  <2>2. op' \in [Procs -> Handler]  BY <1>7, <2>1, OpWritten DEF ExpireRead, Begin, Become
  <2>3. QED BY <1>7, <2>2 DEF ExpireRead, records
<1>8. CASE ExpireWrite(p)
  <2>1. ws' \in Workspace  BY <1>8, StatusWritten DEF ExpireWrite, BillingStatus
  <2>2. op' \in [Procs -> Handler]  BY <1>8, OpWritten DEF ExpireWrite, Finish
  <2>3. QED BY <1>8, <2>1, <2>2 DEF ExpireWrite, records
<1>9. QED BY <1>1, <1>2, <1>3, <1>4, <1>5, <1>6, <1>7, <1>8 DEF Customer

LEMMA TypeApproval ==
    ASSUME TypeOK, NEW p \in Procs, Approval(p)
    PROVE  TypeOK'
<1> USE IdleIsHandler DEF TypeOK
<1>1. ASSUME NEW r \in Requests, ApproveRead(p, r) PROVE TypeOK'
  <2>1. [kind |-> "approve", req |-> r] \in Handler  BY DEF Handler
  <2>2. op' \in [Procs -> Handler]  BY <1>1, <2>1, OpWritten DEF ApproveRead, Begin, Become
  <2>3. QED BY <1>1, <2>2 DEF ApproveRead, records
<1>2. ASSUME NEW r \in Requests, RejectRead(p, r) PROVE TypeOK'
  <2>1. [kind |-> "reject", req |-> r] \in Handler  BY DEF Handler
  <2>2. op' \in [Procs -> Handler]  BY <1>2, <2>1, OpWritten DEF RejectRead, Begin, Become
  <2>3. QED BY <1>2, <2>2 DEF RejectRead, records
<1>3. ASSUME NEW u \in Dates, ApproveCommit(p, u) PROVE TypeOK'
  <2> DEFINE r == op[p].req
  <2>1. r \in Requests  BY <1>3 DEF ApproveCommit, At, Handler
  <2>2. paid' \in [Requests -> Seq(Dates)]
    <3>1. Append(paid[r], u) \in Seq(Dates)  BY <2>1, AppendProperties
    <3>2. QED BY <1>3, <3>1 DEF ApproveCommit
  <2>3. subs' \in [Requests -> Seq(SubmissionStatus)]
    <3>1. Verify(op[p], subs[r]) \in Seq(SubmissionStatus)  BY <2>1, VerifyType
    <3>2. QED BY <1>3, <3>1 DEF ApproveCommit
  <2>4. req' \in [Requests -> RequestStatus]  BY <1>3 DEF ApproveCommit, RequestStatus
  <2>5. grace' \in [Graces -> GraceRecord]  BY <1>3, RetireType DEF ApproveCommit
  <2>6. ws' \in Workspace  BY <1>3 DEF ApproveCommit, Workspace, BillingStatus
  <2>7. op' \in [Procs -> Handler]  BY <1>3, OpWritten DEF ApproveCommit, Finish
  <2>8. QED BY <1>3, <2>2, <2>3, <2>4, <2>5, <2>6, <2>7 DEF ApproveCommit
<1>4. CASE RejectCommit(p)
  <2> DEFINE r == op[p].req
  <2>1. r \in Requests  BY <1>4 DEF RejectCommit, At, Handler
  <2>2. subs' \in [Requests -> Seq(SubmissionStatus)]
    <3>1. [i \in DOMAIN subs[r] |-> "REJECTED"] \in Seq(SubmissionStatus)
          BY <2>1, LenProperties DEF SubmissionStatus
    <3>2. QED BY <1>4, <3>1 DEF RejectCommit
  <2>3. req' \in [Requests -> RequestStatus]  BY <1>4 DEF RejectCommit, RequestStatus
  <2>4. ws' \in Workspace  BY <1>4, StatusWritten DEF RejectCommit, BillingStatus
  <2>5. op' \in [Procs -> Handler]  BY <1>4, OpWritten DEF RejectCommit, Finish
  <2>6. QED BY <1>4, <2>2, <2>3, <2>4, <2>5 DEF RejectCommit
<1>5. CASE ApproveLook(p)
  <2> DEFINE r == op[p].req
             i == ProofToVerify(subs[r])
  <2>1. r \in Requests  BY <1>5 DEF ApproveLook, At, Handler
  <2>2. i \in Nat
    <3>1. subs[r] \in Seq(SubmissionStatus)  BY <2>1
    <3>2. QED BY <3>1, ProofIsFiled, LenProperties
  <2>3. [kind |-> "approving", req |-> r, proof |-> i,
         mark |-> i # 0 /\ subs[r][i] # "VERIFIED"] \in Handler
        BY <2>1, <2>2 DEF Handler
  <2>4. op' \in [Procs -> Handler]  BY <1>5, <2>3, OpWritten DEF ApproveLook
  <2>5. QED BY <1>5, <2>4 DEF ApproveLook, records
<1>6. CASE ApproveRetire(p)
  <2>1. op[p].req \in Requests /\ op[p].proof \in Nat /\ op[p].mark \in BOOLEAN
        BY <1>6 DEF ApproveRetire, At, Handler
  <2>2. [kind |-> "approved", req |-> op[p].req, proof |-> op[p].proof,
         mark |-> op[p].mark,
         seen |-> {g \in Graces : grace[g].status = "ACTIVE"}] \in Handler
        BY <2>1 DEF Handler
  <2>3. op' \in [Procs -> Handler]  BY <1>6, <2>2, OpWritten DEF ApproveRetire
  <2>4. QED BY <1>6, <2>3 DEF ApproveRetire, records
<1>7. QED BY <1>1, <1>2, <1>3, <1>4, <1>5, <1>6 DEF Approval

LEMMA TypeGraceControl ==
    ASSUME TypeOK, NEW p \in Procs, GraceControl(p)
    PROVE  TypeOK'
<1> USE IdleIsHandler DEF TypeOK
<1>1. CASE GrantRead(p)
  <2>1. [kind |-> "grant", active |-> ws.status = "ACTIVE"] \in Handler  BY DEF Handler
  <2>2. op' \in [Procs -> Handler]  BY <1>1, <2>1, OpWritten DEF GrantRead, Begin, Become
  <2>3. QED BY <1>1, <2>2 DEF GrantRead, records
<1>2. CASE GrantRetire(p)
  <2>1. op[p].active \in BOOLEAN  BY <1>2 DEF GrantRetire, At, Handler
  <2>2. [kind |-> "granting", active |-> op[p].active,
         seen |-> {g \in Graces : grace[g].status = "ACTIVE"}] \in Handler
        BY <2>1 DEF Handler
  <2>3. op' \in [Procs -> Handler]  BY <1>2, <2>2, OpWritten DEF GrantRetire
  <2>4. QED BY <1>2, <2>3 DEF GrantRetire, records
<1>3. ASSUME NEW g \in Graces, NEW u \in Dates, GrantCommit(p, g, u) PROVE TypeOK'
  <2>1. grace' \in [Graces -> GraceRecord]
    <3>1. [status |-> "ACTIVE", until |-> u] \in GraceRecord  BY DEF GraceRecord
    <3>2. QED BY <1>3, <3>1, RetireType DEF GrantCommit
  <2>2. ws' \in Workspace  BY <1>3, StatusWritten DEF GrantCommit, BillingStatus
  <2>3. op' \in [Procs -> Handler]  BY <1>3, OpWritten DEF GrantCommit, Finish
  <2>4. QED BY <1>3, <2>1, <2>2, <2>3 DEF GrantCommit
<1>4. CASE RevokeMark(p)
  <2>1. [kind |-> "revoke"] \in Handler  BY DEF Handler
  <2>2. op' \in [Procs -> Handler]  BY <1>4, <2>1, OpWritten DEF RevokeMark, Begin, Become
  <2>3. grace' \in [Graces -> GraceRecord]  BY <1>4, RetireType DEF RevokeMark
  <2>4. QED BY <1>4, <2>2, <2>3 DEF RevokeMark
<1>5. CASE RevokeEvaluate(p)
  <2>1. [kind |-> "regrade", status |-> IF Allowed THEN "ACTIVE" ELSE "EXPIRED"]
          \in Handler
        BY DEF Handler
  <2>2. op' \in [Procs -> Handler]  BY <1>5, <2>1, OpWritten DEF RevokeEvaluate, Finish
  <2>3. QED BY <1>5, <2>2 DEF RevokeEvaluate, records
<1>6. CASE RevokeRegrade(p)
  <2>1. op[p].status \in BillingStatus
        BY <1>6 DEF RevokeRegrade, At, Handler, BillingStatus
  <2>2. ws' \in Workspace  BY <1>6, <2>1, StatusWritten DEF RevokeRegrade
  <2>3. op' \in [Procs -> Handler]  BY <1>6, OpWritten DEF RevokeRegrade, Finish
  <2>4. QED BY <1>6, <2>2, <2>3 DEF RevokeRegrade, records
<1>7. QED BY <1>1, <1>2, <1>3, <1>4, <1>5, <1>6 DEF GraceControl

LEMMA TypeDeletion ==
    ASSUME TypeOK, NEW p \in Procs, Deletion(p)
    PROVE  TypeOK'
<1> USE IdleIsHandler DEF TypeOK
<1>1. CASE DeleteRead(p)
  <2>1. [kind |-> "delete", status |-> Reverted(ws.status)] \in Handler
        BY <1>1 DEF DeleteRead, Handler, Workspace, BillingStatus, Reverted
  <2>2. op' \in [Procs -> Handler]  BY <1>1, <2>1, OpWritten DEF DeleteRead, Begin, Become
  <2>3. QED BY <1>1, <2>2 DEF DeleteRead, records
<1>2. CASE DeleteMark(p)
  <2>1. [kind |-> "marked", status |-> op[p].status] \in Handler
        BY <1>2 DEF DeleteMark, At, Handler
  <2>2. op' \in [Procs -> Handler]  BY <1>2, <2>1, OpWritten DEF DeleteMark
  <2>3. ws' \in Workspace  BY <1>2 DEF DeleteMark, Workspace, BillingStatus
  <2>4. QED BY <1>2, <2>2, <2>3 DEF DeleteMark, records
<1>3. CASE DeleteRows(p)
  <2>1. ws' \in Workspace
        BY <1>3 DEF DeleteRows, NoWorkspace, Workspace, BillingStatus, Null
  <2>2. op' \in [Procs -> Handler]  BY <1>3, OpWritten DEF DeleteRows, Finish
  <2>3. /\ req' \in [Requests -> RequestStatus]
        /\ subs' \in [Requests -> Seq(SubmissionStatus)]
        /\ paid' \in [Requests -> Seq(Dates)]
        BY <1>3, EmptySeq DEF DeleteRows, RequestStatus
  <2>4. grace' \in [Graces -> GraceRecord]  BY <1>3 DEF DeleteRows, GraceRecord, NoGrace
  <2>5. QED BY <1>3, <2>1, <2>2, <2>3, <2>4 DEF DeleteRows
<1>4. CASE DeleteFail(p)
  <2>1. op[p].status \in BillingStatus  BY <1>4 DEF DeleteFail, Handler
  <2>2. ws' \in Workspace  BY <1>4, <2>1 DEF DeleteFail, Workspace
  <2>3. op' \in [Procs -> Handler]  BY <1>4, OpWritten DEF DeleteFail, Finish
  <2>4. QED BY <1>4, <2>2, <2>3 DEF DeleteFail, records
<1>5. QED BY <1>1, <1>2, <1>3, <1>4 DEF Deletion

LEMMA TypeCrash ==
    ASSUME TypeOK, NEW p \in Procs, Crash(p)
    PROVE  TypeOK'
<1>1. op' \in [Procs -> Handler]  BY IdleIsHandler, OpWritten DEF Crash, Finish, TypeOK
<1>2. QED BY <1>1 DEF Crash, TypeOK, records

LEMMA TypeOther ==
    ASSUME TypeOK, Lock \/ Unlock \/ Suspend \/ Unsuspend \/ Tick
    PROVE  TypeOK'
<1> USE DEF TypeOK, Workspace, records
<1>1. CASE Lock  BY <1>1 DEF Lock
<1>2. CASE Unlock  BY <1>2 DEF Unlock
<1>3. CASE Suspend  BY <1>3 DEF Suspend
<1>4. CASE Unsuspend  BY <1>4 DEF Unsuspend
<1>5. CASE Tick  BY <1>5, BoundsAssumption DEF Tick
<1>6. QED BY <1>1, <1>2, <1>3, <1>4, <1>5

LEMMA TypeStep == TypeOK /\ [Next]_vars => TypeOK'
<1> SUFFICES ASSUME TypeOK, [Next]_vars PROVE TypeOK'  OBVIOUS
<1>1. CASE Next
      BY <1>1, TypeCustomer, TypeApproval, TypeGraceControl, TypeDeletion,
         TypeCrash, TypeOther DEF Next
<1>2. CASE UNCHANGED vars  BY <1>2 DEF vars, TypeOK
<1>3. QED BY <1>1, <1>2

(* Every row keeps the shape the schema gives it, whatever overlaps.       *)
THEOREM TypeCorrect == Spec => []TypeOK
BY TypeInit, TypeStep, PTL DEF Spec

-----------------------------------------------------------------------------
(* Access has a basis.                                                     *)
(*                                                                         *)
(* AccessHasBasis is not inductive: the step that makes a lapsed date run  *)
(* again does not exist, but nothing in the property says so.  What the    *)
(* handlers keep is that the date of a company that exists is the date of  *)
(* one of its payments, and that a legacy company has no payment.          *)
DateIsPaid ==
    ws.exists /\ ws.until # Null =>
        \E r \in Requests : \E i \in DOMAIN paid[r] : paid[r][i] = ws.until

LegacyUnpaid ==
    ws.exists /\ ws.status = "LEGACY" => \A r \in Requests : paid[r] = <<>>

Basis == DateIsPaid /\ LegacyUnpaid

LEMMA BasisInit == Init => Basis
BY DEF Init, Basis, DateIsPaid, LegacyUnpaid

(* A step that adds no payment, revives no row, leaves the date alone and  *)
(* does not turn the company into a legacy one keeps the basis.            *)
LEMMA BasisKept ==
    ASSUME Basis, paid' = paid, ws'.exists => ws.exists, ws'.until = ws.until,
           ws'.status = "LEGACY" => ws.status = "LEGACY"
    PROVE  Basis'
BY DEF Basis, DateIsPaid, LegacyUnpaid

LEMMA BasisApprove ==
    ASSUME TypeOK, Basis, NEW p \in Procs, NEW u \in Dates, ApproveCommit(p, u)
    PROVE  Basis'
<1> DEFINE r == op[p].req
           n == Len(paid[r]) + 1
<1>1. r \in Requests  BY DEF ApproveCommit, At, Handler, TypeOK
<1>2. paid[r] \in Seq(Dates)  BY <1>1 DEF TypeOK
<1>3. /\ ws'.until = u
      /\ ws'.status = "ACTIVE"
      BY DEF ApproveCommit, TypeOK, Workspace
<1>4. paid'[r] = Append(paid[r], u)  BY <1>1 DEF ApproveCommit, TypeOK
<1>5. n \in DOMAIN paid'[r] /\ paid'[r][n] = u
      BY <1>2, <1>4, AppendProperties, LenProperties
<1>6. QED BY <1>1, <1>3, <1>5 DEF Basis, DateIsPaid, LegacyUnpaid

LEMMA BasisStep == TypeOK /\ Basis /\ [Next]_vars => Basis'
<1> SUFFICES ASSUME TypeOK, Basis, [Next]_vars PROVE Basis'  OBVIOUS
<1>1. ASSUME NEW p \in Procs, Customer(p) PROVE Basis'
  <2>1. CASE \E r \in Requests : SetupRequest(p, r) \/ SubmitRead(p, r) \/ RenewCreate(p, r)
        BY <2>1, BasisKept DEF SetupRequest, SubmitRead, RenewCreate, records
  <2>2. CASE SubmitCommit(p)
        BY <2>2, StatusWritten, BasisKept DEF SubmitCommit, BillingStatus, TypeOK
  <2>3. CASE RenewRead(p) \/ ExpireRead(p)
        BY <2>3, BasisKept DEF RenewRead, ExpireRead, records
  <2>4. CASE RenewLower(p)
        BY <2>4, StatusWritten, BasisKept DEF RenewLower, BillingStatus, TypeOK, records
  <2>5. CASE ExpireWrite(p)
        BY <2>5, StatusWritten, BasisKept DEF ExpireWrite, BillingStatus, TypeOK, records
  <2>6. QED BY <1>1, <2>1, <2>2, <2>3, <2>4, <2>5 DEF Customer
<1>2. ASSUME NEW p \in Procs, Approval(p) PROVE Basis'
  <2>1. CASE \/ \E r \in Requests : ApproveRead(p, r) \/ RejectRead(p, r)
             \/ ApproveLook(p) \/ ApproveRetire(p)
        BY <2>1, BasisKept DEF ApproveRead, RejectRead, ApproveLook, ApproveRetire, records
  <2>2. CASE \E u \in Dates : ApproveCommit(p, u)  BY <2>2, BasisApprove
  <2>3. CASE RejectCommit(p)
        BY <2>3, StatusWritten, BasisKept DEF RejectCommit, BillingStatus, TypeOK
  <2>4. QED BY <1>2, <2>1, <2>2, <2>3 DEF Approval
<1>3. ASSUME NEW p \in Procs, GraceControl(p) PROVE Basis'
  <2>1. CASE GrantRead(p) \/ GrantRetire(p) \/ RevokeMark(p) \/ RevokeEvaluate(p)
        BY <2>1, BasisKept DEF GrantRead, GrantRetire, RevokeMark, RevokeEvaluate, records
  <2>2. CASE \E g \in Graces, u \in Dates : GrantCommit(p, g, u)
        BY <2>2, StatusWritten, BasisKept DEF GrantCommit, BillingStatus, TypeOK
  <2>3. CASE RevokeRegrade(p)
    <3>1. op[p].status \in BillingStatus \ {"LEGACY"}
          BY <2>3 DEF RevokeRegrade, At, Handler, TypeOK, BillingStatus
    <3>2. QED BY <2>3, <3>1, StatusWritten, BasisKept DEF RevokeRegrade, TypeOK, records
  <2>4. QED BY <1>3, <2>1, <2>2, <2>3 DEF GraceControl
<1>4. ASSUME NEW p \in Procs, Deletion(p) PROVE Basis'
  <2>1. CASE DeleteRead(p)  BY <2>1, BasisKept DEF DeleteRead, records
  <2>2. CASE DeleteMark(p)
        BY <2>2, BasisKept DEF DeleteMark, TypeOK, Workspace, records
  <2>3. CASE DeleteRows(p)
    <3>1. ~ws'.exists  BY <2>3 DEF DeleteRows, NoWorkspace
    <3>2. QED BY <3>1 DEF Basis, DateIsPaid, LegacyUnpaid
  <2>4. CASE DeleteFail(p)
    <3>1. op[p].status # "LEGACY"  BY <2>4 DEF DeleteFail, Handler, TypeOK
    <3>2. QED BY <2>4, <3>1, BasisKept DEF DeleteFail, TypeOK, Workspace, records
  <2>5. QED BY <1>4, <2>1, <2>2, <2>3, <2>4 DEF Deletion
<1>5. ASSUME NEW p \in Procs, Crash(p) PROVE Basis'
      BY <1>5, BasisKept DEF Crash, records
<1>6. CASE Lock \/ Unlock \/ Suspend \/ Unsuspend \/ Tick
      BY <1>6, BasisKept
      DEF Lock, Unlock, Suspend, Unsuspend, Tick, TypeOK, Workspace, records
<1>7. CASE UNCHANGED vars  BY <1>7, BasisKept DEF vars
<1>8. QED BY <1>1, <1>2, <1>3, <1>4, <1>5, <1>6, <1>7 DEF Next

LEMMA BasisSuffices == TypeOK /\ Basis => AccessHasBasis
<1> SUFFICES ASSUME TypeOK, Basis, Allowed, ~GraceAccess
             PROVE  AccessHasBasis
    BY DEF AccessHasBasis
<1>1. CASE PaidAccess
  <2>1. ws.until # Null  BY <1>1 DEF PaidAccess, TypeOK, Null
  <2>2. PICK r \in Requests : \E i \in DOMAIN paid[r] : paid[r][i] = ws.until
        BY <2>1 DEF Basis, DateIsPaid, Allowed
  <2>3. QED BY <1>1, <2>2 DEF AccessHasBasis, PaidAccess
<1>2. CASE LegacyAccess
      BY <1>2 DEF Basis, LegacyUnpaid, AccessHasBasis, LegacyAccess, Allowed
<1>3. QED BY <1>1, <1>2 DEF Allowed

(* Nobody works on a date no payment carries (AccessHasBasis): the columns *)
(* nine handlers write from stale reads never outrun the verified payments *)
(* they stand for.                                                         *)
THEOREM AccessIsPaidFor == Spec => []AccessHasBasis
<1>1. Spec => []Basis  BY TypeCorrect, BasisInit, BasisStep, PTL DEF Spec
<1>2. QED BY <1>1, TypeCorrect, BasisSuffices, PTL

-----------------------------------------------------------------------------
(* The mark of a deletion is its own.                                      *)

(* The step that marks the company is DeleteMark.                          *)
Marked ==
    ws.exists /\ ws.status # "DELETING" /\ ws'.status = "DELETING" =>
        \E p \in Procs : op[p].kind = "delete" /\ op'[p].kind = "marked"

LEMMA MarkStep == TypeOK /\ [Next]_vars => [Marked]_vars
<1> SUFFICES ASSUME TypeOK, Next PROVE Marked  OBVIOUS
<1>1. ASSUME NEW s \in BillingStatus \ {"DELETING"}, SetStatus(s) PROVE Marked
      BY <1>1, StatusWritten DEF Marked, TypeOK
<1>2. ASSUME UNCHANGED ws PROVE Marked  BY <1>2 DEF Marked
<1>3. ASSUME NEW p \in Procs, Customer(p) PROVE Marked
  <2>1. CASE SubmitCommit(p)  BY <1>1, <2>1 DEF SubmitCommit, BillingStatus
  <2>2. CASE RenewLower(p)  BY <1>1, <2>2 DEF RenewLower, BillingStatus
  <2>3. CASE ExpireWrite(p)  BY <1>1, <2>3 DEF ExpireWrite, BillingStatus
  <2>4. CASE \/ \E r \in Requests : SetupRequest(p, r) \/ SubmitRead(p, r)
                                   \/ RenewCreate(p, r)
             \/ RenewRead(p) \/ ExpireRead(p)
        BY <1>2, <2>4 DEF SetupRequest, SubmitRead, RenewCreate, RenewRead, ExpireRead
  <2>5. QED BY <1>3, <2>1, <2>2, <2>3, <2>4 DEF Customer
<1>4. ASSUME NEW p \in Procs, Approval(p) PROVE Marked
  <2>1. CASE \E u \in Dates : ApproveCommit(p, u)
        BY <2>1 DEF ApproveCommit, Marked, TypeOK, Workspace
  <2>2. CASE RejectCommit(p)  BY <1>1, <2>2 DEF RejectCommit, BillingStatus
  <2>3. CASE \/ \E r \in Requests : ApproveRead(p, r) \/ RejectRead(p, r)
             \/ ApproveLook(p) \/ ApproveRetire(p)
        BY <1>2, <2>3 DEF ApproveRead, RejectRead, ApproveLook, ApproveRetire
  <2>4. QED BY <1>4, <2>1, <2>2, <2>3 DEF Approval
<1>5. ASSUME NEW p \in Procs, GraceControl(p) PROVE Marked
  <2>1. CASE \E g \in Graces, u \in Dates : GrantCommit(p, g, u)
        BY <1>1, <1>2, <2>1 DEF GrantCommit, BillingStatus
  <2>2. CASE RevokeRegrade(p)
    <3>1. op[p].status \in BillingStatus \ {"DELETING"}
          BY <2>2 DEF RevokeRegrade, At, Handler, TypeOK, BillingStatus
    <3>2. QED BY <1>1, <2>2, <3>1 DEF RevokeRegrade
  <2>3. CASE GrantRead(p) \/ GrantRetire(p) \/ RevokeMark(p) \/ RevokeEvaluate(p)
        BY <1>2, <2>3 DEF GrantRead, GrantRetire, RevokeMark, RevokeEvaluate
  <2>4. QED BY <1>5, <2>1, <2>2, <2>3 DEF GraceControl
<1>6. ASSUME NEW p \in Procs, Deletion(p) PROVE Marked
  <2>1. CASE DeleteRead(p)  BY <1>2, <2>1 DEF DeleteRead
  <2>2. CASE DeleteMark(p)
        BY <2>2 DEF DeleteMark, At, Become, Marked, TypeOK
  <2>3. CASE DeleteRows(p)
        BY <2>3 DEF DeleteRows, NoWorkspace, Marked
  <2>4. CASE DeleteFail(p)
    <3>1. op[p].status # "DELETING"  BY <2>4 DEF DeleteFail, Handler, TypeOK
    <3>2. QED BY <1>2, <2>4, <3>1 DEF DeleteFail, Marked, TypeOK, Workspace
  <2>5. QED BY <1>6, <2>1, <2>2, <2>3, <2>4 DEF Deletion
<1>7. ASSUME NEW p \in Procs, Crash(p) PROVE Marked  BY <1>2, <1>7 DEF Crash
<1>8. CASE Lock \/ Unlock \/ Suspend \/ Unsuspend \/ Tick
      BY <1>8 DEF Lock, Unlock, Suspend, Unsuspend, Tick, Marked, TypeOK, Workspace
<1>9. QED BY <1>3, <1>4, <1>5, <1>6, <1>7, <1>8 DEF Next

(* No stale writer marks a company that is not being deleted: the status a *)
(* deletion or a regrade puts back is never DELETING (MarkedByDeletion).   *)
THEOREM OnlyDeletionMarks == Spec => MarkedByDeletion
<1>1. [Marked]_vars =>
        [ws.exists /\ ws.status # "DELETING" /\ ws'.status = "DELETING" =>
            \E p \in Procs : op[p].kind = "delete" /\ op'[p].kind = "marked"]_vars
      BY DEF Marked
<1>2. QED BY <1>1, MarkStep, TypeCorrect, PTL DEF Spec, MarkedByDeletion

-----------------------------------------------------------------------------
(* The review queue agrees with the proofs on file.                        *)

(*                                                                         *)
(* ReviewBacked is not inductive: that an approval leaves a decided proof  *)
(* rests on what it looked up before it had the lock, which no submission, *)
(* rejection or other approval that committed since took back.             *)
Backed(r) ==
    /\ req[r] = "PAYMENT_PENDING" => Filed(r, {"PENDING_VERIFICATION"})
    /\ req[r] = "APPROVED" => paid[r] # <<>> /\ Filed(r, Decided)

Lookup(p) ==
    ws.exists /\ op[p].kind \in {"approving", "approved"} =>
        Looked(op[p], subs[op[p].req])

ReviewInv ==
    /\ \A r \in Requests : Backed(r)
    /\ \A p \in Procs : Lookup(p)

LEMMA ReviewInit == Init => ReviewInv
<1> SUFFICES ASSUME Init PROVE ReviewInv  OBVIOUS
<1>1. \A p \in Procs : op[p].kind \in {"idle", "setup"}  BY DEF Init, Idle
<1>2. QED BY <1>1 DEF Init, ReviewInv, Backed, Lookup

(* An approval that does not step keeps its lookup while lists grow.       *)
LEMMA LookupKept ==
    ASSUME TypeOK, TypeOK', NEW q \in Procs, Lookup(q), op'[q] = op[q],
           ws'.exists => ws.exists,
           \A r \in Requests : Later(subs[r], subs'[r])
    PROVE  Lookup(q)'
<1> SUFFICES ASSUME ws.exists, op[q].kind \in {"approving", "approved"}
             PROVE  Looked(op[q], subs'[op[q].req])
    BY DEF Lookup
<1>1. op[q].req \in Requests  BY DEF TypeOK, Handler
<1>2. Looked(op[q], subs[op[q].req])  BY DEF Lookup
<1>3. QED BY <1>1, <1>2, LookedLater DEF TypeOK

LEMMA LaterItself ==
    ASSUME TypeOK, UNCHANGED subs
    PROVE  \A r \in Requests : Later(subs[r], subs'[r])
<1>1. \A r \in Requests : Len(subs[r]) \in Nat  BY LenProperties DEF TypeOK
<1>2. QED BY <1>1 DEF Later

(* A step of one slot that leaves the three tables alone and does not put  *)
(* the slot into an approval's transaction.                                *)
LEMMA ReviewKept ==
    ASSUME TypeOK, TypeOK', ReviewInv, UNCHANGED <<req, subs, paid>>,
           ws'.exists => ws.exists,
           NEW p, \A q \in Procs \ {p} : op'[q] = op[q],
           p \in Procs => Lookup(p)'
    PROVE  ReviewInv'
<1>1. ASSUME NEW r \in Requests PROVE Backed(r)'
      BY <1>1 DEF ReviewInv, Backed, Filed
<1>2. ASSUME NEW q \in Procs PROVE Lookup(q)'
  <2>1. CASE q = p  BY <2>1
  <2>2. CASE q # p  BY <2>2, LookupKept, LaterItself DEF ReviewInv
  <2>3. QED BY <2>1, <2>2
<1>3. QED BY <1>1, <1>2 DEF ReviewInv

(* The same for the steps that are not an approval's.                      *)
LEMMA ReviewOther ==
    ASSUME TypeOK, TypeOK', ReviewInv, UNCHANGED <<req, subs, paid>>,
           ws'.exists => ws.exists,
           NEW p \in Procs, NEW h, Become(p, h),
           h.kind \notin {"approving", "approved"}
    PROVE  ReviewInv'
<1>1. op'[p] = h /\ \A q \in Procs \ {p} : op'[q] = op[q]  BY DEF Become, TypeOK
<1>2. Lookup(p)'  BY <1>1 DEF Lookup
<1>3. QED BY <1>1, <1>2, ReviewKept

LEMMA ReviewSubmit ==
    ASSUME TypeOK, TypeOK', ReviewInv, NEW p \in Procs, SubmitCommit(p)
    PROVE  ReviewInv'
<1> DEFINE s == op[p].req
           x == "PENDING_VERIFICATION"
<1>1. s \in Requests  BY DEF SubmitCommit, At, Handler, TypeOK
<1>2. subs[s] \in Seq(SubmissionStatus) /\ x \in SubmissionStatus
      BY <1>1 DEF TypeOK, SubmissionStatus
<1>3. /\ subs' = [subs EXCEPT ![s] = Append(subs[s], x)]
      /\ req' = [req EXCEPT ![s] = "PAYMENT_PENDING"] /\ paid' = paid
      /\ op' = [op EXCEPT ![p] = Idle] /\ ws'.exists = ws.exists
      BY StatusWritten DEF SubmitCommit, Finish, Become, BillingStatus, TypeOK
<1>4. /\ Later(subs[s], subs'[s])
      /\ \E i \in DOMAIN subs'[s] : subs'[s][i] = x
  <2>1. subs'[s] = Append(subs[s], x)  BY <1>1, <1>3 DEF TypeOK
  <2>2. QED BY <1>2, <2>1, FiledLater
<1>5. ASSUME NEW r \in Requests PROVE Backed(r)' /\ Later(subs[r], subs'[r])
  <2>1. CASE r = s
    <3>1. req'[r] = "PAYMENT_PENDING"  BY <1>1, <1>3, <2>1 DEF TypeOK
    <3>2. QED BY <1>4, <2>1, <3>1 DEF Backed, Filed
  <2>2. CASE r # s
    <3>1. subs'[r] = subs[r] /\ req'[r] = req[r]  BY <1>3, <2>2 DEF TypeOK
    <3>2. Len(subs[r]) \in Nat  BY LenProperties DEF TypeOK
    <3>3. QED BY <1>3, <3>1, <3>2 DEF ReviewInv, Backed, Filed, Later
  <2>3. QED BY <2>1, <2>2
<1>6. ASSUME NEW q \in Procs PROVE Lookup(q)'
  <2>1. CASE q = p  BY <1>3, <2>1 DEF Lookup, Idle, TypeOK
  <2>2. CASE q # p  BY <1>3, <1>5, <2>2, LookupKept DEF ReviewInv, TypeOK
  <2>3. QED BY <2>1, <2>2
<1>7. QED BY <1>5, <1>6 DEF ReviewInv

LEMMA ReviewLook ==
    ASSUME TypeOK, TypeOK', ReviewInv, NEW p \in Procs, ApproveLook(p)
    PROVE  ReviewInv'
<1> DEFINE r == op[p].req
           i == ProofToVerify(subs[r])
           h == [kind |-> "approving", req |-> r, proof |-> i,
                 mark |-> i # 0 /\ subs[r][i] # "VERIFIED"]
<1>1. r \in Requests  BY DEF ApproveLook, At, Handler, TypeOK
<1>2. i \in 0 .. Len(subs[r])  BY <1>1, ProofIsFiled DEF TypeOK
<1>3. Looked(h, subs[r])  BY <1>2 DEF Looked, Decided
<1>4. /\ op'[p] = h /\ \A q \in Procs \ {p} : op'[q] = op[q]
      /\ UNCHANGED <<ws, req, subs, paid>>
      BY Zenon DEF ApproveLook, Become, TypeOK, records
<1>5. Lookup(p)'
  <2>1. op'[p].req = r  BY <1>4
  <2>2. QED BY <1>3, <1>4, <2>1 DEF Lookup
<1>6. QED BY <1>4, <1>5, ReviewKept

LEMMA ReviewRetire ==
    ASSUME TypeOK, TypeOK', ReviewInv, NEW p \in Procs, ApproveRetire(p)
    PROVE  ReviewInv'
<1>1. /\ op'[p] = [kind |-> "approved", req |-> op[p].req, proof |-> op[p].proof,
                   mark |-> op[p].mark,
                   seen |-> {g \in Graces : grace[g].status = "ACTIVE"}]
      /\ \A q \in Procs \ {p} : op'[q] = op[q]
      /\ UNCHANGED <<ws, req, subs, paid>>
      BY DEF ApproveRetire, Become, TypeOK, records
<1>2. Looked(op[p], subs[op[p].req])  BY DEF ReviewInv, Lookup, ApproveRetire, At
<1>3. /\ op'[p].proof = op[p].proof
      /\ op'[p].mark = op[p].mark
      /\ op'[p].req = op[p].req
      BY <1>1
<1>4. Lookup(p)'  BY <1>1, <1>2, <1>3 DEF Lookup, Looked
<1>5. QED BY <1>1, <1>4, ReviewKept

LEMMA ReviewApprove ==
    ASSUME TypeOK, TypeOK', ReviewInv, NEW p \in Procs, NEW u \in Dates,
           ApproveCommit(p, u)
    PROVE  ReviewInv'
<1> DEFINE s == op[p].req
           t == Verify(op[p], subs[s])
<1>1. s \in Requests /\ op[p].mark \in BOOLEAN
      BY DEF ApproveCommit, At, Handler, TypeOK
<1>2. Looked(op[p], subs[s])  BY DEF ReviewInv, Lookup, ApproveCommit, At
<1>3. Later(subs[s], t) /\ \E i \in DOMAIN t : t[i] \in Decided
      BY <1>1, <1>2, VerifyLater DEF TypeOK
<1>4. Append(paid[s], u) # <<>>
  <2>1. paid[s] \in Seq(Dates)  BY <1>1 DEF TypeOK
  <2>2. QED BY <2>1, AppendProperties
<1>5. /\ subs' = [subs EXCEPT ![s] = t]
      /\ req' = [req EXCEPT ![s] = "APPROVED"]
      /\ paid' = [paid EXCEPT ![s] = Append(@, u)]
      /\ op' = [op EXCEPT ![p] = Idle] /\ ws'.exists = ws.exists
      BY DEF ApproveCommit, Finish, Become, TypeOK, Workspace
<1> HIDE DEF t
<1>6. ASSUME NEW r \in Requests PROVE Backed(r)' /\ Later(subs[r], subs'[r])
  <2>1. CASE r = s
    <3>1. subs'[r] = t /\ req'[r] = "APPROVED" /\ paid'[r] # <<>>
          BY <1>1, <1>4, <1>5, <2>1 DEF TypeOK
    <3>2. QED BY <1>3, <2>1, <3>1 DEF Backed, Filed
  <2>2. CASE r # s
    <3>1. subs'[r] = subs[r] /\ req'[r] = req[r] /\ paid'[r] = paid[r]
          BY <1>5, <2>2 DEF TypeOK
    <3>2. Len(subs[r]) \in Nat  BY LenProperties DEF TypeOK
    <3>3. QED BY <3>1, <3>2 DEF ReviewInv, Backed, Filed, Later
  <2>3. QED BY <2>1, <2>2
<1>7. ASSUME NEW q \in Procs PROVE Lookup(q)'
  <2>1. CASE q = p  BY <1>5, <2>1 DEF Lookup, Idle, TypeOK
  <2>2. CASE q # p  BY <1>5, <1>6, <2>2, LookupKept DEF ReviewInv, TypeOK
  <2>3. QED BY <2>1, <2>2
<1>8. QED BY <1>6, <1>7 DEF ReviewInv

LEMMA ReviewReject ==
    ASSUME TypeOK, TypeOK', ReviewInv, NEW p \in Procs, RejectCommit(p)
    PROVE  ReviewInv'
<1> DEFINE s == op[p].req
           t == [i \in DOMAIN subs[s] |-> "REJECTED"]
<1>1. s \in Requests  BY DEF RejectCommit, At, Handler, TypeOK
<1>2. Later(subs[s], t)
  <2>1. Len(subs[s]) \in Nat /\ DOMAIN subs[s] = 1 .. Len(subs[s])
        BY <1>1, LenProperties DEF TypeOK
  <2>2. Len(t) = Len(subs[s])  BY <2>1
  <2>3. QED BY <2>1, <2>2 DEF Later, Decided
<1>3. /\ subs' = [subs EXCEPT ![s] = t]
      /\ req' = [req EXCEPT ![s] = "REJECTED"] /\ paid' = paid
      /\ op' = [op EXCEPT ![p] = Idle] /\ ws'.exists = ws.exists
      BY StatusWritten DEF RejectCommit, Finish, Become, BillingStatus, TypeOK
<1> HIDE DEF t
<1>4. ASSUME NEW r \in Requests PROVE Backed(r)' /\ Later(subs[r], subs'[r])
  <2>1. CASE r = s  BY <1>1, <1>2, <1>3, <2>1 DEF Backed, TypeOK
  <2>2. CASE r # s
    <3>1. subs'[r] = subs[r] /\ req'[r] = req[r]  BY <1>3, <2>2 DEF TypeOK
    <3>2. Len(subs[r]) \in Nat  BY LenProperties DEF TypeOK
    <3>3. QED BY <1>3, <3>1, <3>2 DEF ReviewInv, Backed, Filed, Later
  <2>3. QED BY <2>1, <2>2
<1>5. ASSUME NEW q \in Procs PROVE Lookup(q)'
  <2>1. CASE q = p  BY <1>3, <2>1 DEF Lookup, Idle, TypeOK
  <2>2. CASE q # p  BY <1>3, <1>4, <2>2, LookupKept DEF ReviewInv, TypeOK
  <2>3. QED BY <2>1, <2>2
<1>6. QED BY <1>4, <1>5 DEF ReviewInv

(* A new request is neither in review nor approved.                        *)
LEMMA ReviewNewRequest ==
    ASSUME TypeOK, TypeOK', ReviewInv, NEW r \in Requests,
           req' = [req EXCEPT ![r] = "PAYMENT_REQUIRED"],
           UNCHANGED <<ws, subs, paid>>,
           NEW p \in Procs, NEW h, Become(p, h),
           h.kind \notin {"approving", "approved"}
    PROVE  ReviewInv'
<1>1. ASSUME NEW q \in Requests PROVE Backed(q)'
      BY <1>1 DEF ReviewInv, Backed, Filed, TypeOK
<1>2. ASSUME NEW q \in Procs PROVE Lookup(q)'
  <2>1. CASE q = p  BY <2>1 DEF Lookup, Become, TypeOK
  <2>2. CASE q # p
        BY <2>2, LookupKept, LaterItself DEF ReviewInv, Become, TypeOK
  <2>3. QED BY <2>1, <2>2
<1>3. QED BY <1>1, <1>2 DEF ReviewInv

LEMMA ReviewStep == TypeOK /\ ReviewInv /\ [Next]_vars => ReviewInv'
<1> SUFFICES ASSUME TypeOK, ReviewInv, [Next]_vars PROVE ReviewInv'
    OBVIOUS
<1>0. TypeOK'  BY TypeStep
<1> USE <1>0
<1>1. ASSUME NEW p \in Procs, Customer(p) PROVE ReviewInv'
  <2>1. ASSUME NEW r \in Requests, SetupRequest(p, r) \/ RenewCreate(p, r)
        PROVE  ReviewInv'
        BY <2>1, ReviewNewRequest DEF SetupRequest, RenewCreate, Finish, Idle
  <2>2. CASE SubmitCommit(p)  BY <2>2, ReviewSubmit
  <2>3. CASE \/ \E r \in Requests : SubmitRead(p, r)
             \/ RenewRead(p) \/ ExpireRead(p)
        BY <2>3, ReviewOther
        DEF SubmitRead, RenewRead, ExpireRead, records, Begin, Become
  <2>4. CASE RenewLower(p) \/ ExpireWrite(p)
    <3>1. ws'.exists = ws.exists
          BY <2>4, StatusWritten DEF RenewLower, ExpireWrite, BillingStatus, TypeOK
    <3>2. QED BY <2>4, <3>1, ReviewOther DEF RenewLower, ExpireWrite, records, Finish, Idle
  <2>5. QED BY <1>1, <2>1, <2>2, <2>3, <2>4 DEF Customer
<1>2. ASSUME NEW p \in Procs, Approval(p) PROVE ReviewInv'
  <2>1. CASE \E r \in Requests : ApproveRead(p, r) \/ RejectRead(p, r)
        BY <2>1, ReviewOther DEF ApproveRead, RejectRead, records, Begin, Become
  <2>2. QED BY <1>2, <2>1, ReviewLook, ReviewRetire, ReviewApprove, ReviewReject
        DEF Approval
<1>3. ASSUME NEW p \in Procs, GraceControl(p) PROVE ReviewInv'
  <2>1. CASE GrantRead(p) \/ GrantRetire(p) \/ RevokeMark(p) \/ RevokeEvaluate(p)
    <3>1. PICK h : Become(p, h) /\ h.kind \notin {"approving", "approved"}
          BY <2>1 DEF GrantRead, GrantRetire, RevokeMark, RevokeEvaluate,
             Begin, Become, Finish, Idle
    <3>2. UNCHANGED <<ws, req, subs, paid>>
          BY <2>1 DEF GrantRead, GrantRetire, RevokeMark, RevokeEvaluate, records
    <3>3. QED BY <3>1, <3>2, ReviewOther
  <2>2. ASSUME NEW g \in Graces, NEW u \in Dates, GrantCommit(p, g, u)
        PROVE  ReviewInv'
    <3>1. ws'.exists = ws.exists
          BY <2>2, StatusWritten DEF GrantCommit, BillingStatus, TypeOK
    <3>2. QED BY <2>2, <3>1, ReviewOther DEF GrantCommit, Finish, Idle
  <2>3. CASE RevokeRegrade(p)
    <3>1. op[p].status \in BillingStatus
          BY <2>3 DEF RevokeRegrade, At, Handler, TypeOK, BillingStatus
    <3>2. ws'.exists = ws.exists
          BY <2>3, <3>1, StatusWritten DEF RevokeRegrade, TypeOK
    <3>3. QED BY <2>3, <3>2, ReviewOther DEF RevokeRegrade, records, Finish, Idle
  <2>4. QED BY <1>3, <2>1, <2>2, <2>3 DEF GraceControl
<1>4. ASSUME NEW p \in Procs, Deletion(p) PROVE ReviewInv'
  <2>1. CASE DeleteRows(p)
        BY <2>1 DEF DeleteRows, NoWorkspace, ReviewInv, Backed, Lookup
  <2>2. CASE DeleteRead(p)
        BY <2>2, ReviewOther DEF DeleteRead, records, Begin, Become
  <2>3. CASE DeleteMark(p)
    <3>1. ws'.exists = ws.exists  BY <2>3 DEF DeleteMark, TypeOK, Workspace
    <3>2. QED BY <2>3, <3>1, ReviewOther DEF DeleteMark, records
  <2>4. CASE DeleteFail(p)
    <3>1. ws'.exists = ws.exists  BY <2>4 DEF DeleteFail, TypeOK, Workspace
    <3>2. QED BY <2>4, <3>1, ReviewOther DEF DeleteFail, records, Finish, Idle
  <2>5. QED BY <1>4, <2>1, <2>2, <2>3, <2>4 DEF Deletion
<1>5. ASSUME NEW p \in Procs, Crash(p) PROVE ReviewInv'
      BY <1>5, ReviewOther DEF Crash, records, Finish, Idle
<1>6. CASE Lock \/ Unlock \/ Suspend \/ Unsuspend \/ Tick
  <2>1. ws'.exists = ws.exists
        BY <1>6 DEF Lock, Unlock, Suspend, Unsuspend, Tick, TypeOK, Workspace
  <2>2. UNCHANGED <<req, subs, paid, op>>
        BY <1>6 DEF Lock, Unlock, Suspend, Unsuspend, Tick, records
  <2>3. \A q \in Procs : Lookup(q)'
        BY <2>1, <2>2, LookupKept, LaterItself DEF ReviewInv
  <2>4. \A r \in Requests : Backed(r)'  BY <2>2 DEF ReviewInv, Backed, Filed
  <2>5. QED BY <2>3, <2>4 DEF ReviewInv
<1>7. CASE UNCHANGED vars
      BY <1>7 DEF vars, ReviewInv, Backed, Lookup, Filed
<1>8. QED BY <1>1, <1>2, <1>3, <1>4, <1>5, <1>6, <1>7 DEF Next

(* A request shown as pending has a proof to review, an approved one a     *)
(* payment and a decided proof (ReviewBacked), although an approval writes *)
(* from what it looked up before it locked the request.                    *)
THEOREM ReviewIsBacked == Spec => []ReviewBacked
<1>1. Spec => []ReviewInv  BY TypeCorrect, ReviewInit, ReviewStep, PTL DEF Spec
<1>2. ReviewInv => ReviewBacked  BY DEF ReviewInv, ReviewBacked, Backed, Decided
<1>3. QED BY <1>1, <1>2, PTL

-----------------------------------------------------------------------------
(* What a step may not do.                                                 *)

(* Filing a proof of payment never costs a paying company its access, nor  *)
(* one in grace (ProofKeepsAccess).                                        *)
LEMMA ProofStep ==
    ASSUME TypeOK, Allowed, ~LegacyAccess, NEW p \in Procs, SubmitCommit(p)
    PROVE  Allowed'
<1>1. /\ ws'.status = "PAYMENT_PENDING"
      /\ ws'.until = ws.until /\ ws'.exists = ws.exists
      /\ ws'.locked = ws.locked /\ ws'.suspended = ws.suspended
      BY StatusWritten DEF SubmitCommit, BillingStatus, TypeOK
<1>2. now' = now /\ grace' = grace  BY DEF SubmitCommit
<1>3. Unblocked'  BY <1>1 DEF Allowed, Unblocked
<1>4. PaidAccess => PaidAccess'  BY <1>1, <1>2 DEF PaidAccess
<1>5. GraceAccess => GraceAccess'  BY <1>2 DEF GraceAccess
<1>6. QED BY <1>1, <1>3, <1>4, <1>5 DEF Allowed

THEOREM ProofIsHarmless == Spec => ProofKeepsAccess
<1>1. TypeOK /\ [Next]_vars =>
        [Allowed /\ ~LegacyAccess /\ (\E p \in Procs : SubmitCommit(p)) => Allowed']_vars
      BY ProofStep
<1>2. QED BY <1>1, TypeCorrect, PTL DEF Spec, ProofKeepsAccess

(* A step that lifts no block, starts no grace and makes no company a      *)
(* legacy one can give access only to a company whose payment runs.        *)
Lifted == ws.exists /\ ~Allowed /\ Allowed' => Operator \/ (Unblocked /\ PaidAccess')

LEMMA OnlyPaymentLifts ==
    ASSUME Unblocked' => Unblocked, GraceAccess' => GraceAccess,
           LegacyAccess' => LegacyAccess
    PROVE  Lifted
BY DEF Allowed, Lifted

(* What each column of the row contributes to the access decision.         *)
LEMMA SameStatusLifts ==
    ASSUME Unblocked' => Unblocked, ws'.status = ws.status, ws'.until = ws.until,
           GraceAccess' => GraceAccess
    PROVE  Lifted
BY OnlyPaymentLifts DEF LegacyAccess

LEMMA NewStatusLifts ==
    ASSUME TypeOK, NEW s \in BillingStatus \ {"LEGACY"}, SetStatus(s),
           UNCHANGED <<now, grace>>
    PROVE  Lifted
<1>1. Unblocked' => Unblocked  BY StatusWritten DEF Unblocked, TypeOK
<1>2. GraceAccess' => GraceAccess  BY DEF GraceAccess
<1>3. ~LegacyAccess'  BY StatusWritten DEF LegacyAccess, TypeOK
<1>4. QED BY <1>1, <1>2, <1>3, OnlyPaymentLifts

LEMMA SameRowLifts ==
    ASSUME UNCHANGED <<now, ws, grace>>
    PROVE  Lifted
BY SameStatusLifts DEF Unblocked, GraceAccess

LEMMA LiftStep == TypeOK /\ [Next]_vars => [Lifted]_vars
<1> SUFFICES ASSUME TypeOK, Next PROVE Lifted  OBVIOUS
<1>1. ASSUME NEW p \in Procs, Customer(p) PROVE Lifted
  <2>1. CASE \/ \E r \in Requests : SetupRequest(p, r) \/ SubmitRead(p, r)
                                   \/ RenewCreate(p, r)
             \/ RenewRead(p) \/ ExpireRead(p)
        BY <2>1, SameRowLifts
        DEF SetupRequest, SubmitRead, RenewCreate, RenewRead, ExpireRead, records
  <2>2. CASE SubmitCommit(p)  BY <2>2, NewStatusLifts DEF SubmitCommit, BillingStatus
  <2>3. CASE RenewLower(p)
        BY <2>3, NewStatusLifts DEF RenewLower, BillingStatus, records
  <2>4. CASE ExpireWrite(p)
        BY <2>4, NewStatusLifts DEF ExpireWrite, BillingStatus, records
  <2>5. QED BY <1>1, <2>1, <2>2, <2>3, <2>4 DEF Customer
<1>2. ASSUME NEW p \in Procs, Approval(p) PROVE Lifted
  <2>1. CASE \/ \E r \in Requests : ApproveRead(p, r) \/ RejectRead(p, r)
             \/ ApproveLook(p) \/ ApproveRetire(p)
        BY <2>1, SameRowLifts
        DEF ApproveRead, RejectRead, ApproveLook, ApproveRetire, records
  <2>2. CASE \E u \in Dates : ApproveCommit(p, u)  BY <2>2 DEF Lifted, Operator
  <2>3. CASE RejectCommit(p)  BY <2>3, NewStatusLifts DEF RejectCommit, BillingStatus
  <2>4. QED BY <1>2, <2>1, <2>2, <2>3 DEF Approval
<1>3. ASSUME NEW p \in Procs, GraceControl(p) PROVE Lifted
  <2>1. CASE GrantRead(p) \/ GrantRetire(p) \/ RevokeEvaluate(p)
        BY <2>1, SameRowLifts DEF GrantRead, GrantRetire, RevokeEvaluate, records
  <2>2. CASE \E g \in Graces, u \in Dates : GrantCommit(p, g, u)
        BY <2>2 DEF Lifted, Operator
  <2>3. CASE RevokeMark(p)
    <3>1. ~GraceAccess'
          BY <2>3 DEF RevokeMark, GraceAccess, Retire, EndedGrace
    <3>2. ws' = ws  BY <2>3 DEF RevokeMark
    <3>3. QED BY <3>1, <3>2, SameStatusLifts DEF Unblocked
  <2>4. CASE RevokeRegrade(p)
    <3>1. op[p].status \in BillingStatus \ {"LEGACY"}
          BY <2>4 DEF RevokeRegrade, At, Handler, TypeOK, BillingStatus
    <3>2. QED BY <2>4, <3>1, NewStatusLifts DEF RevokeRegrade, records
  <2>5. QED BY <1>3, <2>1, <2>2, <2>3, <2>4 DEF GraceControl
<1>4. ASSUME NEW p \in Procs, Deletion(p) PROVE Lifted
  <2>1. CASE DeleteRead(p)  BY <2>1, SameRowLifts DEF DeleteRead, records
  <2>2. CASE DeleteMark(p)
    <3>1. ~Unblocked'  BY <2>2 DEF DeleteMark, Unblocked, TypeOK, Workspace
    <3>2. QED BY <3>1 DEF Lifted, Allowed
  <2>3. CASE DeleteRows(p)
    <3>1. ~ws'.exists  BY <2>3 DEF DeleteRows, NoWorkspace
    <3>2. QED BY <3>1 DEF Lifted, Allowed
  <2>4. CASE DeleteFail(p)
    <3>1. CASE ws.exists
      <4>1. ~Unblocked'  BY <2>4, <3>1 DEF DeleteFail, Unblocked, TypeOK, Workspace
      <4>2. QED BY <4>1 DEF Lifted, Allowed
    <3>2. CASE ~ws.exists  BY <3>2 DEF Lifted
    <3>3. QED BY <3>1, <3>2
  <2>5. QED BY <1>4, <2>1, <2>2, <2>3, <2>4 DEF Deletion
<1>5. ASSUME NEW p \in Procs, Crash(p) PROVE Lifted
      BY <1>5, SameRowLifts DEF Crash, records
<1>6. CASE Lock \/ Suspend
      BY <1>6, SameStatusLifts
      DEF Lock, Suspend, TypeOK, Workspace, Unblocked, GraceAccess, records
<1>7. CASE Unlock \/ Unsuspend  BY <1>7 DEF Lifted, Operator
<1>8. CASE Tick
  <2>1. now' = now + 1 /\ ws' = ws /\ grace' = grace  BY <1>8 DEF Tick, records
  <2>2. GraceAccess' => GraceAccess
    <3>1. \A g \in Graces : grace[g].until \in Nat
          BY DEF TypeOK, GraceRecord, Dates, Null
    <3>2. now \in Nat  BY DEF TypeOK
    <3>3. QED BY <2>1, <3>1, <3>2 DEF GraceAccess
  <2>3. QED BY <2>1, <2>2, SameStatusLifts DEF Unblocked
<1>9. QED BY <1>1, <1>2, <1>3, <1>4, <1>5, <1>6, <1>7, <1>8 DEF Next

(* No grace, deletion or expiry handler that overtakes another lifts a     *)
(* block (BlockLiftedByOperator).                                          *)
THEOREM BlocksAreKept == Spec => BlockLiftedByOperator
<1>1. [Lifted]_vars =>
        [ws.exists /\ ~Allowed /\ Allowed' =>
            Operator \/ (Unblocked /\ PaidAccess')]_vars
      BY DEF Lifted
<1>2. QED BY <1>1, LiftStep, TypeCorrect, PTL DEF Spec, BlockLiftedByOperator

=============================================================================
