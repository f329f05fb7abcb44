----------------------------- MODULE Seats_proofs -----------------------------
(***************************************************************************)
(* What holds of the seats of a company for every number of users,         *)
(* overlapping handlers, invitations and seat limits.                      *)
(***************************************************************************)
EXTENDS Seats, SequenceTheorems, FiniteSetTheorems, TLAPS

-----------------------------------------------------------------------------
(* Operators the handlers are built from.                                  *)

LEMMA OpWritten ==
    ASSUME op \in [Procs -> Handler], NEW p \in Procs, NEW h \in Handler, Become(p, h)
    PROVE  /\ op' \in [Procs -> Handler]
           /\ op'[p] = h
           /\ \A q \in Procs \ {p} : op'[q] = op[q]
BY DEF Become

LEMMA IdleIsHandler == Idle \in Handler
<1>1. 0 \in Nat /\ 0 \in Times  BY SeatsAssumption DEF Times
<1>2. QED BY <1>1 DEF Idle, Handler, Slot, SeatKinds

(* An invitation row that is written stays an invitation row.              *)
LEMMA InviteWritten ==
    ASSUME invite \in Seq(Invite), NEW i, NEW row,
           i \in DOMAIN invite => row \in Invite
    PROVE  [invite EXCEPT ![i] = row] \in Seq(Invite)
<1>1. CASE i \in 1 .. Len(invite)  BY <1>1, ExceptSeq, LenProperties
<1>2. CASE i \notin 1 .. Len(invite)
  <2>1. [invite EXCEPT ![i] = row] = invite  BY <1>2, LenProperties
  <2>2. QED BY <2>1
<1>3. QED BY <1>1, <1>2

LEMMA NewInviteType ==
    ASSUME now \in 0 .. MaxTime, NEW u \in Users
    PROVE  NewInvite(u) \in Invite
<1>1. now + Ttl \in Times  BY SeatsAssumption DEF Times
<1>2. QED BY <1>1, EmptySeq DEF NewInvite, Invite

LEMMA RefreshedType ==
    ASSUME now \in 0 .. MaxTime, NEW row \in Invite
    PROVE  Refreshed(row) \in Invite
<1>1. now + Ttl \in Times  BY SeatsAssumption DEF Times
<1>2. row.link + 1 \in Nat  BY DEF Invite
<1>3. QED BY <1>1, <1>2, Zenon DEF Refreshed, Invite

LEMMA AcceptedType ==
    ASSUME NEW row \in Invite
    PROVE  Accepted(row) \in Invite
<1>1. Used(row) \in Invite  BY DEF Used, Invite
<1>2. row.link \in Nat /\ Used(row).accepts \in Seq(Nat)  BY <1>1 DEF Invite
<1>3. Append(Used(row).accepts, row.link) \in Seq(Nat)  BY <1>2, AppendProperties
<1>4. QED BY <1>1, <1>3, Zenon DEF Accepted, Invite

LEMMA UseAllType ==
    ASSUME invite \in Seq(Invite), NEW u
    PROVE  UseAll(u) \in Seq(Invite)
<1>1. /\ Len(invite) \in Nat
      /\ DOMAIN invite = 1 .. Len(invite)
      /\ \A i \in 1 .. Len(invite) : invite[i] \in Invite
      BY LenProperties, ElementOfSeq
<1>2. \A i \in 1 .. Len(invite) : UseAll(u)[i] \in Invite  BY <1>1 DEF UseAll, Used, Invite
<1>3. UseAll(u) \in [1 .. Len(invite) -> Invite]  BY <1>1, <1>2 DEF UseAll
<1>4. QED BY <1>1, <1>3

(* The limit a transaction counts against is a limit somebody set, zero    *)
(* for a managed company without one, or none at all.                      *)
LEMMA LimitType ==
    ASSUME TypeOK
    PROVE  EffectiveLimit \in Limits \cup {Null, 0}
BY DEF TypeOK, EffectiveLimit

-----------------------------------------------------------------------------
(* Type correctness.                                                       *)

Holding(p) == op[p].step \in {"locked", "verified"}
Owner == \A p \in Procs : lock = p <=> Holding(p)
Tables == /\ now \in 0 .. MaxTime
          /\ approved \in Limits \cup {Null}
          /\ managed \in BOOLEAN
          /\ graceLimit \in Limits \cup {Null}
          /\ user \in [Users -> SUBSET Flags]
          /\ invite \in Seq(Invite)
          /\ unchecked \subseteq Users
Slots == /\ lock \in Procs \cup {Null}
         /\ op \in [Procs -> Handler]
         /\ Owner

LEMMA TypeParts == TypeOK <=> Tables /\ Slots
BY DEF TypeOK, Tables, Slots, Owner, Holding

LEMMA TypePartsNext == TypeOK' <=> Tables' /\ Slots'
BY DEF TypeOK, Tables, Slots, Owner, Holding

LEMMA TypeInit == Init => TypeOK
<1> SUFFICES ASSUME Init PROVE TypeOK  OBVIOUS
<1>1. Tables
  <2>1. now \in 0 .. MaxTime  BY SeatsAssumption DEF Init
  <2>2. user \in [Users -> SUBSET Flags]  BY DEF Init, Flags, Member
  <2>3. QED BY <2>1, <2>2, EmptySeq DEF Init, Tables
<1>2. Slots
  <2>1. op \in [Procs -> Handler]  BY IdleIsHandler DEF Init
  <2>2. QED BY <2>1, SeatsAssumption DEF Init, Slots, Owner, Holding, Idle
<1>3. QED BY <1>1, <1>2, TypeParts

(* A step of a handler outside its transaction.                            *)
LEMMA SlotsKept ==
    ASSUME Slots, lock' = lock, NEW p \in Procs, ~Holding(p),
           NEW h \in Handler, h.step \notin {"locked", "verified"}, Become(p, h)
    PROVE  Slots'
BY OpWritten DEF Slots, Owner, Holding

(* The end of a transaction.                                               *)
LEMMA SlotsReleased ==
    ASSUME Slots, NEW p \in Procs, Holding(p), lock' = Null, Finish(p)
    PROVE  Slots'
<1>1. /\ op' \in [Procs -> Handler]
      /\ op'[p] = Idle
      /\ \A q \in Procs \ {p} : op'[q] = op[q]
      BY IdleIsHandler, OpWritten DEF Slots, Finish
<1>2. lock = p  BY DEF Slots, Owner
<1>3. \A q \in Procs : ~Holding(q)'
      BY <1>1, <1>2 DEF Slots, Owner, Holding, Idle
<1>4. QED BY <1>1, <1>3, SeatsAssumption DEF Slots, Owner

LEMMA SlotsJoining ==
    ASSUME TypeOK, NEW p \in Procs, Joining(p)
    PROVE  Slots'
<1> USE TypeParts
<1>1. now \in Times  BY SeatsAssumption DEF Tables, Times
<1>2. ASSUME NEW u \in Users, NEW kind \in {"invite", "create"}, CreateRead(p, u, kind)
      PROVE  Slots'
  <2> DEFINE h == [Idle EXCEPT !.step = "ready", !.kind = kind, !.user = u]
  <2>1. h \in Handler  BY IdleIsHandler DEF Handler, Slot, SeatKinds, Idle
  <2>2. ~Holding(p)  BY <1>2 DEF CreateRead, Begin, Holding, Idle
  <2>3. QED BY <1>2, <2>1, <2>2, SlotsKept DEF CreateRead, Begin, Become, Idle
<1>3. ASSUME NEW u \in Users, NEW active \in BOOLEAN, StatusRead(p, u, active)
      PROVE  Slots'
  <2> DEFINE a == [Idle EXCEPT !.step = "ready", !.kind = "activate", !.user = u]
             b == [Idle EXCEPT !.step = "begun", !.kind = "status", !.user = u,
                               !.active = active]
  <2>1. a \in Handler /\ b \in Handler  BY IdleIsHandler DEF Handler, Slot, SeatKinds, Idle
  <2>2. ~Holding(p)  BY <1>3 DEF StatusRead, Begin, Holding, Idle
  <2>3. QED BY <1>3, <2>1, <2>2, SlotsKept DEF StatusRead, Begin, Become, Idle
<1>4. ASSUME NEW u \in Users, SendRead(p, u) PROVE Slots'
  <2> DEFINE h == [Idle EXCEPT !.step = "begun", !.kind = "send", !.user = u]
  <2>1. h \in Handler  BY IdleIsHandler DEF Handler, Slot, Idle
  <2>2. ~Holding(p)  BY <1>4 DEF SendRead, Begin, Holding, Idle
  <2>3. QED BY <1>4, <2>1, <2>2, SlotsKept DEF SendRead, Begin, Become, Idle
<1>5. ASSUME NEW i \in DOMAIN invite, AcceptRead(p, i) PROVE Slots'
  <2> DEFINE h == [Idle EXCEPT !.step = "begun", !.kind = "accept",
                               !.user = invite[i].user, !.invite = i,
                               !.link = invite[i].link]
  <2>1. i \in Nat /\ invite[i].user \in Users /\ invite[i].link \in Nat
    <3>1. i \in 1 .. Len(invite)  BY LenProperties DEF Tables
    <3>2. invite[i] \in Invite  BY <3>1, ElementOfSeq DEF Tables
    <3>3. QED BY <3>1, <3>2 DEF Invite
  <2>2. h \in Handler  BY <2>1, IdleIsHandler DEF Handler, Slot, SeatKinds
  <2>3. ~Holding(p)  BY <1>5 DEF AcceptRead, Begin, Holding, Idle
  <2>4. QED BY <1>5, <2>2, <2>3, SlotsKept DEF AcceptRead, Begin, Become, Idle
<1>6. ASSUME NEW i \in DOMAIN invite, ResendRead(p, i) PROVE Slots'
  <2> DEFINE h == [Idle EXCEPT !.step = "begun", !.kind = "refresh", !.invite = i]
  <2>1. i \in Nat  BY LenProperties DEF Tables
  <2>2. h \in Handler  BY <2>1, IdleIsHandler DEF Handler, Slot
  <2>3. ~Holding(p)  BY <1>6 DEF ResendRead, Begin, Holding, Idle
  <2>4. QED BY <1>6, <2>2, <2>3, SlotsKept DEF ResendRead, Begin, Become, Idle
<1>7. CASE AcceptStamp(p)
  <2> DEFINE h == [op[p] EXCEPT !.step = "ready", !.at = now]
  <2>1. h \in Handler
    <3>1. op[p] \in Handler /\ op[p].step = "begun"  BY <1>7 DEF AcceptStamp, At, Slots
    <3>2. h \in Slot /\ h.kind = op[p].kind /\ h.user = op[p].user
          BY <1>1, <3>1 DEF Handler, Slot
    <3>3. QED BY <1>7, <3>1, <3>2 DEF AcceptStamp, At, Handler, SeatKinds
  <2>2. ~Holding(p)  BY <1>7 DEF AcceptStamp, At, Holding
  <2>3. h.step = "ready"  BY DEF Slots, Handler, Slot
  <2>4. QED BY <1>7, <2>1, <2>2, <2>3, SlotsKept DEF AcceptStamp
<1>8. CASE SendLatest(p)
  <2>1. ~Holding(p)  BY <1>8 DEF SendLatest, At, Holding
  <2>2. PICK h \in Handler : h.step \notin {"locked", "verified"} /\ Become(p, h)
    <3>1. /\ op[p] \in Slot /\ op[p].step = "begun"
          /\ op[p].user \in Users
          BY <1>8 DEF SendLatest, At, Slots, Handler
    <3>2. ASSUME NEW i \in DOMAIN invite,
                 Become(p, [op[p] EXCEPT !.kind = "refresh", !.invite = i])
          PROVE  \E h \in Handler : h.step \notin {"locked", "verified"} /\ Become(p, h)
      <4> DEFINE h == [op[p] EXCEPT !.kind = "refresh", !.invite = i]
      <4>1. i \in Nat  BY LenProperties DEF Tables
      <4>2. h \in Handler /\ h.step = "begun"  BY <3>1, <4>1 DEF Handler, Slot
      <4>3. QED BY <3>2, <4>2
    <3>3. ASSUME Become(p, [op[p] EXCEPT !.kind = "issue"])
          PROVE  \E h \in Handler : h.step \notin {"locked", "verified"} /\ Become(p, h)
      <4> DEFINE h == [op[p] EXCEPT !.kind = "issue"]
      <4>1. /\ h \in Slot /\ h.step = "begun"
            /\ h.kind = "issue" /\ h.user = op[p].user
            BY <3>1 DEF Slot
      <4>2. h \in Handler  BY <3>1, <4>1 DEF Handler
      <4>3. QED BY <3>3, <4>1, <4>2
    <3>4. QED BY <1>8, <3>2, <3>3 DEF SendLatest
  <2>3. QED BY <1>8, <2>1, <2>2, SlotsKept DEF SendLatest
<1>9. CASE StatusWrite(p) \/ RefreshWrite(p) \/ IssueWrite(p)
  <2>1. ~Holding(p) /\ lock' = lock /\ Become(p, Idle)
        BY <1>9 DEF StatusWrite, RefreshWrite, IssueWrite, At, Holding, Finish
  <2>2. QED BY <2>1, IdleIsHandler, SlotsKept DEF Idle
<1>10. ASSUME NEW u \in Users, UnlockRead(p, u) PROVE Slots'
  <2> DEFINE h == [Idle EXCEPT !.step = "begun", !.kind = "status", !.user = u,
                               !.active = TRUE]
  <2>1. h \in Handler  BY IdleIsHandler DEF Handler, Slot, Idle
  <2>2. ~Holding(p)  BY <1>10 DEF UnlockRead, Begin, Holding, Idle
  <2>3. QED BY <1>10, <2>1, <2>2, SlotsKept DEF UnlockRead, Begin, Become, Idle
<1>11. QED BY <1>2, <1>3, <1>4, <1>5, <1>6, <1>7, <1>8, <1>9, <1>10 DEF Joining

LEMMA TablesJoining ==
    ASSUME Tables, Slots, NEW p \in Procs, Joining(p)
    PROVE  Tables'
<1>1. ASSUME NEW u \in Users, NEW kind, CreateRead(p, u, kind) PROVE Tables'
      BY <1>1 DEF CreateRead, Tables, billing
<1>2. ASSUME NEW u \in Users, NEW active, StatusRead(p, u, active) PROVE Tables'
      BY <1>2 DEF StatusRead, Tables, billing
<1>3. ASSUME NEW u, user' = Reprovisioned(u) PROVE user' \in [Users -> SUBSET Flags]
      BY <1>3 DEF Reprovisioned, Tables
<1>4. ASSUME NEW u \in Users, SendRead(p, u) PROVE Tables'
      BY <1>3, <1>4 DEF SendRead, Tables, billing
<1>5. ASSUME NEW i \in DOMAIN invite, ResendRead(p, i) PROVE Tables'
      BY <1>3, <1>5 DEF ResendRead, Tables, billing
<1>6. ASSUME NEW i \in DOMAIN invite, AcceptRead(p, i) PROVE Tables'
      BY <1>6 DEF AcceptRead, Tables, billing
<1>7. CASE AcceptStamp(p) \/ SendLatest(p)
      BY <1>7 DEF AcceptStamp, SendLatest, Tables, billing
<1>8. CASE StatusWrite(p)
  <2>1. user' \in [Users -> SUBSET Flags]  BY <1>8 DEF StatusWrite, Tables, Flags
  <2>2. op[p].user \in Users  BY <1>8 DEF StatusWrite, At, Slots, Handler
  <2>3. unchecked' \subseteq Users  BY <1>8, <2>2 DEF StatusWrite, Tables
  <2>4. QED BY <1>8, <2>1, <2>3 DEF StatusWrite, Tables, billing
<1>9. CASE RefreshWrite(p)
  <2> DEFINE i == op[p].invite
  <2>1. ASSUME i \in DOMAIN invite PROVE Refreshed(invite[i]) \in Invite
    <3>1. invite[i] \in Invite  BY <2>1, LenProperties, ElementOfSeq DEF Tables
    <3>2. QED BY <3>1, RefreshedType DEF Tables
  <2>2. [invite EXCEPT ![i] = Refreshed(invite[i])] \in Seq(Invite)
        BY <2>1, InviteWritten DEF Tables
  <2>3. invite' = [invite EXCEPT ![i] = Refreshed(invite[i])]  BY <1>9 DEF RefreshWrite
  <2>4. QED BY <1>9, <2>2, <2>3 DEF RefreshWrite, Tables, billing
<1>10. CASE IssueWrite(p)
  <2>1. op[p].user \in Users  BY <1>10 DEF IssueWrite, At, Slots, Handler
  <2>2. invite' \in Seq(Invite)
        BY <1>10, <2>1, NewInviteType, AppendProperties DEF IssueWrite, Tables
  <2>3. QED BY <1>10, <2>2 DEF IssueWrite, Tables, billing
<1>11. ASSUME NEW u \in Users, UnlockRead(p, u) PROVE Tables'
      BY <1>11 DEF UnlockRead, Tables, billing
<1>12. QED BY <1>1, <1>2, <1>4, <1>5, <1>6, <1>7, <1>8, <1>9, <1>10, <1>11 DEF Joining

LEMMA TypeTransaction ==
    ASSUME TypeOK, NEW p \in Procs, Transaction(p)
    PROVE  Tables' /\ Slots'
<1> USE TypeParts
<1>1. CASE LockWorkspace(p)
  <2> DEFINE h == [op[p] EXCEPT !.step = "locked"]
  <2>1. op[p] \in Handler /\ op[p].step = "ready"  BY <1>1 DEF LockWorkspace, Slots
  <2>2. /\ h \in Slot /\ h.step = "locked" /\ h.kind = op[p].kind
        /\ h.user = op[p].user /\ h.limit = op[p].limit
        BY <2>1 DEF Handler, Slot
  <2>3. h \in Handler  BY <2>1, <2>2 DEF Handler
  <2>4. /\ op' \in [Procs -> Handler]
        /\ op'[p] = h
        /\ \A q \in Procs \ {p} : op'[q] = op[q]
        BY <1>1, <2>3, OpWritten DEF LockWorkspace, Slots
  <2>5. \A q \in Procs : ~Holding(q)
        BY <1>1, SeatsAssumption DEF LockWorkspace, Slots, Owner
  <2>6. Slots'
        BY <1>1, <2>2, <2>4, <2>5 DEF LockWorkspace, Slots, Owner, Holding
  <2>7. Tables'  BY <1>1 DEF LockWorkspace, Tables, billing
  <2>8. QED BY <2>6, <2>7
<1>2. CASE VerifySeat(p)
  <2>1. Tables'  BY <1>2 DEF VerifySeat, Tables, billing
  <2>2. op[p] \in Handler /\ op[p].step = "locked"  BY <1>2 DEF VerifySeat, Slots
  <2>3. CASE SeatFree
    <3> DEFINE h == [op[p] EXCEPT !.step = "verified", !.limit = EffectiveLimit]
    <3>1. /\ h \in Slot /\ h.step = "verified"
          /\ h.kind = op[p].kind /\ h.user = op[p].user
          BY <2>2, LimitType DEF Handler, Slot
    <3>2. h \in Handler  BY <2>2, <3>1 DEF Handler, SeatKinds
    <3>3. /\ op' \in [Procs -> Handler]
          /\ op'[p] = h
          /\ \A q \in Procs \ {p} : op'[q] = op[q]
          BY <1>2, <2>3, <3>2, OpWritten DEF VerifySeat, Slots
    <3>4. lock' = lock  BY <1>2, <2>3 DEF VerifySeat
    <3>5. Slots'  BY <2>2, <3>1, <3>3, <3>4 DEF Slots, Owner, Holding
    <3>6. QED BY <2>1, <3>5
  <2>4. CASE ~SeatFree
    <3>1. Slots'  BY <1>2, <2>2, <2>4, SlotsReleased DEF VerifySeat, Holding
    <3>2. QED BY <2>1, <3>1
  <2>5. QED BY <2>3, <2>4
<1>3. CASE SeatWrite(p)
  <2>1. Slots'
        BY <1>3, SlotsReleased
        DEF SeatWrite, InviteWrite, CreateWrite, ActivateWrite, AcceptWrite, At, Holding
  <2>2. op[p].user \in Users
        BY <1>3 DEF SeatWrite, InviteWrite, CreateWrite, ActivateWrite, AcceptWrite,
                    At, Slots, Handler
  <2>3. user' \in [Users -> SUBSET Flags]
        BY <1>3, <2>2 DEF SeatWrite, InviteWrite, CreateWrite, ActivateWrite,
                    AcceptWrite, Tables, Flags, Invitee, Member
  <2>4. invite' \in Seq(Invite)
    <3>1. CASE InviteWrite(p)
      <4>1. UseAll(op[p].user) \in Seq(Invite)  BY UseAllType DEF Tables
      <4>2. NewInvite(op[p].user) \in Invite  BY <2>2, NewInviteType DEF Tables
      <4>3. QED BY <3>1, <4>1, <4>2, AppendProperties DEF InviteWrite
    <3>2. CASE CreateWrite(p) \/ ActivateWrite(p)
          BY <3>2 DEF CreateWrite, ActivateWrite, Tables
    <3>3. CASE AcceptWrite(p)
      <4>1. CASE Claimable(p)
        <5> DEFINE i == op[p].invite
        <5>1. invite' = [invite EXCEPT ![i] = Accepted(invite[i])]
              BY <3>3, <4>1 DEF AcceptWrite
        <5>2. ASSUME i \in DOMAIN invite PROVE Accepted(invite[i]) \in Invite
          <6>1. invite[i] \in Invite
                BY <5>2, LenProperties, ElementOfSeq DEF Tables
          <6>2. QED BY <6>1, AcceptedType
        <5>3. QED BY <5>1, <5>2, InviteWritten DEF Tables
      <4>2. CASE ~Claimable(p)  BY <3>3, <4>2 DEF AcceptWrite, Tables
      <4>3. QED BY <4>1, <4>2
    <3>4. QED BY <1>3, <3>1, <3>2, <3>3 DEF SeatWrite
  <2>5. Tables'
        BY <1>3, <2>3, <2>4 DEF SeatWrite, InviteWrite, CreateWrite, ActivateWrite,
                    AcceptWrite, Tables, billing
  <2>6. QED BY <2>1, <2>5
<1>4. QED BY <1>1, <1>2, <1>3 DEF Transaction

LEMMA TypeOther ==
    ASSUME TypeOK,
           \/ \E u \in Users : DeleteUser(u)
           \/ \E i \in DOMAIN invite : RevokeInvite(i)
           \/ LimitChange \/ Tick
           \/ \E p \in Procs : Crash(p)
    PROVE  Tables' /\ Slots'
<1> USE TypeParts
<1>1. ASSUME NEW u \in Users, DeleteUser(u) PROVE Tables' /\ Slots'
  <2>1. Tables'  BY <1>1 DEF DeleteUser, Tables, billing, Flags
  <2>2. QED BY <1>1, <2>1 DEF DeleteUser, Slots, Owner, Holding
<1>2. ASSUME NEW i \in DOMAIN invite, RevokeInvite(i) PROVE Tables' /\ Slots'
  <2> DEFINE row == [invite[i] EXCEPT !.expires = now]
  <2>1. invite[i] \in Invite  BY LenProperties, ElementOfSeq DEF Tables
  <2>2. now \in Times  BY SeatsAssumption DEF Tables, Times
  <2>3. row \in Invite  BY <2>1, <2>2 DEF Invite
  <2>4. invite' = [invite EXCEPT ![i] = row]  BY <1>2 DEF RevokeInvite
  <2>5. invite' \in Seq(Invite)  BY <2>3, <2>4, InviteWritten DEF Tables
  <2>6. QED BY <1>2, <2>5 DEF RevokeInvite, Tables, Slots, Owner, Holding, billing
<1>3. CASE \/ \E n \in Limits \cup {Null} : UpdateCompanyLimit(n)
           \/ \E n \in Limits : GrantGrace(n)
           \/ EndGrace
      BY <1>3 DEF UpdateCompanyLimit, GrantGrace, EndGrace, Tables, Slots, Owner, Holding
<1>4. ASSUME NEW p \in Procs, NEW n \in Limits, ApproveRead(p, n) PROVE Tables' /\ Slots'
  <2> DEFINE h == [Idle EXCEPT !.step = "begun", !.kind = "approve", !.limit = n]
  <2>1. h \in Handler  BY IdleIsHandler DEF Handler, Slot, Idle
  <2>2. ~Holding(p)  BY <1>4 DEF ApproveRead, Begin, Holding, Idle
  <2>3. Slots'  BY <1>4, <2>1, <2>2, SlotsKept DEF ApproveRead, Begin, Become, Idle
  <2>4. QED BY <1>4, <2>3 DEF ApproveRead, Tables, billing
<1>5. ASSUME NEW p \in Procs, ApproveCommit(p) PROVE Tables' /\ Slots'
  <2>1. Slots'
        BY <1>5, IdleIsHandler, SlotsKept DEF ApproveCommit, At, Holding, Finish, Idle
  <2>2. approved' \in Limits \cup {Null}
        BY <1>5 DEF ApproveCommit, At, Slots, Handler, Slot
  <2>3. QED BY <1>5, <2>1, <2>2 DEF ApproveCommit, Tables
<1>6. CASE Tick
      BY <1>6, SeatsAssumption DEF Tick, Tables, Slots, Owner, Holding, billing
<1>7. ASSUME NEW p \in Procs, Crash(p) PROVE Tables' /\ Slots'
  <2>1. Slots'
    <3>1. CASE Holding(p)
      <4>1. lock = p  BY <3>1 DEF Slots, Owner
      <4>2. QED BY <1>7, <3>1, <4>1, SlotsReleased DEF Crash
    <3>2. CASE ~Holding(p)
      <4>1. lock # p  BY <3>2 DEF Slots, Owner
      <4>2. QED BY <1>7, <3>2, <4>1, IdleIsHandler, SlotsKept DEF Crash, Finish, Idle
    <3>3. QED BY <3>1, <3>2
  <2>2. QED BY <1>7, <2>1 DEF Crash, Tables, billing
<1>8. QED BY <1>1, <1>2, <1>3, <1>4, <1>5, <1>6, <1>7 DEF LimitChange

LEMMA TypeStep == TypeOK /\ [Next]_vars => TypeOK'
<1> SUFFICES ASSUME TypeOK, [Next]_vars PROVE TypeOK'  OBVIOUS
<1>1. CASE Next
      BY <1>1, SlotsJoining, TablesJoining, TypeTransaction, TypeOther, TypeParts, TypePartsNext
      DEF Next
<1>2. CASE UNCHANGED vars
      BY <1>2, TypeParts, TypePartsNext DEF vars, Tables, Slots, Owner, Holding
<1>3. QED BY <1>1, <1>2

(* Rows and handlers keep their shape, and the row lock of the workspace   *)
(* is held by exactly the handler inside its transaction.                  *)
THEOREM TypeCorrect == Spec => []TypeOK
BY TypeInit, TypeStep, PTL DEF Spec

-----------------------------------------------------------------------------
(* A counted seat is still free when it is taken.                          *)

Counted == Active \ unchecked
Fits(p) == op[p].step = "verified" /\ op[p].limit # Null =>
               Cardinality(Counted) + 1 <= op[p].limit

LEMMA SeatsInit == Init => CountedSeatIsFree
BY DEF Init, CountedSeatIsFree, Idle

LEMMA CountedIsFinite ==
    ASSUME NEW S \in SUBSET Users
    PROVE  IsFiniteSet(S) /\ Cardinality(S) \in Nat
BY SeatsAssumption, FS_Subset, FS_CardinalityType

(* Nobody is added to the counted members and every transaction past its   *)
(* count was past it before, with the same limit.                          *)
LEMMA SeatsKept ==
    ASSUME TypeOK, CountedSeatIsFree, Counted' \subseteq Counted,
           op' \in [Procs -> Handler],
           \A q \in Procs : op'[q].step = "verified" => op'[q] = op[q]
    PROVE  CountedSeatIsFree'
<1> SUFFICES ASSUME NEW q \in Procs, op'[q].step = "verified", op'[q].limit # Null
             PROVE  Cardinality(Counted') + 1 <= op'[q].limit
    BY DEF CountedSeatIsFree, Counted
<1>1. op'[q] = op[q]  OBVIOUS
<1>2. Cardinality(Counted) + 1 <= op[q].limit
      BY <1>1 DEF CountedSeatIsFree, Counted
<1>3. Counted \in SUBSET Users  BY DEF Counted, Active
<1>4. /\ Cardinality(Counted) \in Nat
      /\ Cardinality(Counted') \in Nat
      /\ Cardinality(Counted') <= Cardinality(Counted)
      BY <1>3, CountedIsFinite, FS_Subset, FS_CardinalityType
<1>5. op[q].limit \in Nat
  <2>1. op[q] \in Slot  BY DEF TypeOK, Handler
  <2>2. op[q].limit \in Limits \cup {Null, 0}  BY <2>1 DEF Slot
  <2>3. Limits \cup {0} \subseteq Nat  BY SeatsAssumption
  <2>4. QED BY <1>1, <2>2, <2>3
<1>6. QED BY <1>1, <1>2, <1>4, <1>5

(* The slot of a handler that ends its step elsewhere than past a count.   *)
LEMMA SlotsUnverified ==
    ASSUME TypeOK, NEW p \in Procs, NEW h, h.step # "verified", Become(p, h)
    PROVE  \A q \in Procs : op'[q].step = "verified" => op'[q] = op[q]
BY DEF TypeOK, Become

LEMMA SeatsJoining ==
    ASSUME TypeOK, TypeOK', CountedSeatIsFree, NEW p \in Procs, Joining(p)
    PROVE  CountedSeatIsFree'
<1>1. \A q \in Procs : op'[q].step = "verified" => op'[q] = op[q]
  <2>1. PICK h : h.step # "verified" /\ Become(p, h)
    <3>1. CASE \E u \in Users : \/ \E kind \in {"invite", "create"} : CreateRead(p, u, kind)
                               \/ \E active \in BOOLEAN : StatusRead(p, u, active)
                               \/ UnlockRead(p, u) \/ SendRead(p, u)
          BY <3>1 DEF CreateRead, StatusRead, UnlockRead, SendRead, Begin, Become, Idle
    <3>2. CASE \E i \in DOMAIN invite : AcceptRead(p, i) \/ ResendRead(p, i)
          BY <3>2 DEF AcceptRead, ResendRead, Begin, Become, Idle
    <3>3. CASE AcceptStamp(p)
      <4>1. [op[p] EXCEPT !.step = "ready", !.at = now].step # "verified"
            BY DEF TypeOK, Handler, Slot
      <4>2. QED BY <3>3, <4>1 DEF AcceptStamp
    <3>4. CASE StatusWrite(p) \/ RefreshWrite(p) \/ IssueWrite(p)
          BY <3>4 DEF StatusWrite, RefreshWrite, IssueWrite, Finish, Idle
    <3>5. CASE SendLatest(p)
      <4>1. op[p] \in Slot /\ op[p].step = "begun"
            BY <3>5 DEF SendLatest, At, TypeOK, Handler
      <4>2. /\ \A i : [op[p] EXCEPT !.kind = "refresh", !.invite = i].step = "begun"
            /\ [op[p] EXCEPT !.kind = "issue"].step = "begun"
            BY <4>1 DEF Slot
      <4>3. QED BY <3>5, <4>2 DEF SendLatest
    <3>6. QED BY <3>1, <3>2, <3>3, <3>4, <3>5 DEF Joining
  <2>2. QED BY <2>1, SlotsUnverified
<1>2. Counted' \subseteq Counted
  <2>1. CASE StatusWrite(p)
    <3> DEFINE u == op[p].user
    <3>1. CASE op[p].active
          BY <2>1, <3>1 DEF StatusWrite, Counted, Active, TypeOK
    <3>2. CASE ~op[p].active
          BY <2>1, <3>2 DEF StatusWrite, Counted, Active, TypeOK
    <3>3. QED BY <3>1, <3>2
  <2>2. ASSUME NEW u, user' = Reprovisioned(u) PROVE Active' = Active
        BY <2>2 DEF Reprovisioned, Active, TypeOK
  <2>3. CASE \/ \E u \in Users : SendRead(p, u)
             \/ \E i \in DOMAIN invite : ResendRead(p, i)
        BY <2>2, <2>3 DEF SendRead, ResendRead, Counted
  <2>4. CASE UNCHANGED <<user, unchecked>>  BY <2>4 DEF Counted, Active
  <2>5. QED BY <2>1, <2>3, <2>4
        DEF Joining, CreateRead, StatusRead, UnlockRead, AcceptRead, AcceptStamp,
            SendLatest, RefreshWrite, IssueWrite
<1>3. QED BY <1>1, <1>2, SeatsKept DEF TypeOK

LEMMA SeatsTransaction ==
    ASSUME TypeOK, TypeOK', CountedSeatIsFree, NEW p \in Procs, Transaction(p)
    PROVE  CountedSeatIsFree'
<1>1. CASE LockWorkspace(p)
  <2>1. [op[p] EXCEPT !.step = "locked"].step # "verified"  BY DEF TypeOK, Handler, Slot
  <2>2. \A q \in Procs : op'[q].step = "verified" => op'[q] = op[q]
        BY <1>1, <2>1, SlotsUnverified DEF LockWorkspace
  <2>3. Counted' \subseteq Counted  BY <1>1 DEF LockWorkspace, Counted, Active
  <2>4. QED BY <2>2, <2>3, SeatsKept DEF TypeOK
<1>2. CASE VerifySeat(p)
  <2>1. Counted' = Counted  BY <1>2 DEF VerifySeat, Counted, Active
  <2>2. CASE ~SeatFree
    <3>1. \A q \in Procs : op'[q].step = "verified" => op'[q] = op[q]
          BY <1>2, <2>2, SlotsUnverified DEF VerifySeat, Finish, Idle
    <3>2. QED BY <2>1, <3>1, SeatsKept DEF TypeOK
  <2>3. CASE SeatFree
    <3> DEFINE h == [op[p] EXCEPT !.step = "verified", !.limit = EffectiveLimit]
    <3>1. /\ op'[p].limit = EffectiveLimit
          /\ \A q \in Procs \ {p} : op'[q] = op[q]
      <4>1. h.limit = EffectiveLimit  BY DEF TypeOK, Handler, Slot
      <4>2. op' = [op EXCEPT ![p] = h]  BY <1>2, <2>3 DEF VerifySeat, Become
      <4>3. QED BY <4>1, <4>2 DEF TypeOK
    <3>2. EffectiveLimit # Null => Cardinality(Counted) + 1 <= EffectiveLimit
      <4>1. SUFFICES ASSUME EffectiveLimit # Null
                     PROVE  Cardinality(Counted) + 1 <= EffectiveLimit
            OBVIOUS
      <4>2. Active \in SUBSET Users /\ Counted \subseteq Active  BY DEF Active, Counted
      <4>3. /\ Cardinality(Counted) \in Nat /\ Cardinality(Active) \in Nat
            /\ Cardinality(Counted) <= Cardinality(Active)
            BY <4>2, CountedIsFinite, FS_Subset, FS_CardinalityType
      <4>4. EffectiveLimit \in Nat
        <5>1. EffectiveLimit \in Limits \cup {Null, 0}  BY LimitType
        <5>2. Limits \cup {0} \subseteq Nat  BY SeatsAssumption
        <5>3. QED BY <4>1, <5>1, <5>2
      <4>5. QED BY <2>3, <4>1, <4>3, <4>4 DEF SeatFree
    <3>3. ASSUME NEW q \in Procs PROVE Fits(q)'
      <4>1. CASE q = p  BY <2>1, <3>1, <3>2, <4>1 DEF Fits
      <4>2. CASE q # p
            BY <2>1, <3>1, <4>2 DEF Fits, CountedSeatIsFree, Counted
      <4>3. QED BY <4>1, <4>2
    <3>4. QED BY <3>3 DEF Fits, CountedSeatIsFree, Counted
  <2>4. QED BY <2>2, <2>3
(* The row lock is the reason: no other transaction is past its count.     *)
<1>3. CASE SeatWrite(p)
  <2>1. op[p].step = "verified" /\ Become(p, Idle)
        BY <1>3 DEF SeatWrite, InviteWrite, CreateWrite, ActivateWrite, AcceptWrite,
                    At, Finish
  <2>2. \A q \in Procs \ {p} : op[q].step # "verified"  BY <2>1 DEF TypeOK
  <2>3. \A q \in Procs : op'[q].step # "verified"
        BY <2>1, <2>2 DEF Become, TypeOK, Idle
  <2>4. QED BY <2>3 DEF CountedSeatIsFree
<1>4. QED BY <1>1, <1>2, <1>3 DEF Transaction

LEMMA SeatsOther ==
    ASSUME TypeOK, TypeOK', CountedSeatIsFree,
           \/ \E u \in Users : DeleteUser(u)
           \/ \E i \in DOMAIN invite : RevokeInvite(i)
           \/ LimitChange \/ Tick
           \/ \E p \in Procs : Crash(p)
    PROVE  CountedSeatIsFree'
<1>1. \A q \in Procs : op'[q].step = "verified" => op'[q] = op[q]
  <2>1. CASE op' = op  BY <2>1
  <2>2. CASE \E p \in Procs : \E h : h.step # "verified" /\ Become(p, h)
        BY <2>2, SlotsUnverified
  <2>3. ASSUME NEW p \in Procs, NEW n \in Limits, ApproveRead(p, n)
        PROVE  \E h : h.step # "verified" /\ Become(p, h)
        BY <2>3 DEF ApproveRead, Begin, Become, Idle
  <2>4. ASSUME NEW p \in Procs, ApproveCommit(p) \/ Crash(p)
        PROVE  \E h : h.step # "verified" /\ Become(p, h)
        BY <2>4 DEF ApproveCommit, Crash, Finish, Idle
  <2>5. QED BY <2>1, <2>2, <2>3, <2>4
        DEF DeleteUser, RevokeInvite, LimitChange, UpdateCompanyLimit, GrantGrace,
            EndGrace, Tick
<1>2. Counted' \subseteq Counted
  <2>1. CASE \E u \in Users : DeleteUser(u)
        BY <2>1 DEF DeleteUser, Counted, Active, TypeOK
  <2>2. CASE UNCHANGED <<user, unchecked>>  BY <2>2 DEF Counted, Active
  <2>3. QED BY <2>1, <2>2
        DEF RevokeInvite, LimitChange, UpdateCompanyLimit, GrantGrace, EndGrace,
            ApproveRead, ApproveCommit, Tick, Crash
<1>3. QED BY <1>1, <1>2, SeatsKept DEF TypeOK

LEMMA SeatsStep ==
    TypeOK /\ TypeOK' /\ CountedSeatIsFree /\ [Next]_vars => CountedSeatIsFree'
<1> SUFFICES ASSUME TypeOK, TypeOK', CountedSeatIsFree, [Next]_vars
             PROVE  CountedSeatIsFree'
    OBVIOUS
<1>1. CASE Next  BY <1>1, SeatsJoining, SeatsTransaction, SeatsOther DEF Next
<1>2. CASE UNCHANGED vars
      BY <1>2 DEF vars, CountedSeatIsFree, Active
<1>3. QED BY <1>1, <1>2

(* The row lock serializes every counted seat: a seat found free is free   *)
(* when it is taken (CountedSeatIsFree).                                   *)
THEOREM SeatsAreCounted == Spec => []CountedSeatIsFree
BY TypeCorrect, SeatsInit, SeatsStep, PTL DEF Spec

-----------------------------------------------------------------------------
(* An issue of a link is accepted once.  The inductive invariant adds that *)
(* the acceptances of a row are those of issues up to its present link,    *)
(* and while the row is unused, of earlier ones.                           *)
Once(row) ==
    /\ \A m, n \in DOMAIN row.accepts : row.accepts[m] = row.accepts[n] => m = n
    /\ \A n \in DOMAIN row.accepts :
          row.accepts[n] <= row.link /\ (~row.used => row.accepts[n] < row.link)

LinksOnce == \A i \in DOMAIN invite : Once(invite[i])

LEMMA LinksInit == Init => LinksOnce
BY DEF Init, LinksOnce

LEMMA LinksWritten ==
    ASSUME LinksOnce, NEW i, NEW row, invite' = [invite EXCEPT ![i] = row],
           i \in DOMAIN invite => Once(row)
    PROVE  LinksOnce'
BY DEF LinksOnce

LEMMA LinksAppended ==
    ASSUME NEW s \in Seq(Invite), \A i \in DOMAIN s : Once(s[i]),
           NEW row \in Invite, Once(row), invite' = Append(s, row)
    PROVE  LinksOnce'
<1>1. /\ DOMAIN s = 1 .. Len(s) /\ Len(s) \in Nat
      /\ DOMAIN invite' = 1 .. Len(s) + 1
      BY AppendProperties, LenProperties
<1>2. /\ \A i \in 1 .. Len(s) : invite'[i] = s[i]
      /\ invite'[Len(s) + 1] = row
      BY AppendProperties
<1>3. QED BY <1>1, <1>2 DEF LinksOnce

(* What a write of a row does to its acceptances.                          *)
LEMMA UsedOnce ==
    ASSUME NEW row \in Invite, Once(row)
    PROVE  Once(Used(row))
<1>1. /\ Used(row).accepts = row.accepts
      /\ Used(row).link = row.link
      /\ Used(row).used
      BY DEF Used, Invite
<1>2. QED BY <1>1 DEF Once

LEMMA RefreshedOnce ==
    ASSUME NEW row \in Invite, Once(row)
    PROVE  Once(Refreshed(row))
<1>1. /\ Refreshed(row).accepts = row.accepts
      /\ Refreshed(row).link = row.link + 1
      BY DEF Refreshed, Invite
<1>2. row.link \in Nat /\ \A n \in DOMAIN row.accepts : row.accepts[n] \in Nat
      BY LenProperties, ElementOfSeq DEF Invite
<1>3. QED BY <1>1, <1>2 DEF Once

LEMMA AcceptedOnce ==
    ASSUME NEW row \in Invite, Once(row), ~row.used
    PROVE  Once(Accepted(row))
<1> DEFINE s == row.accepts
           t == Append(s, row.link)
<1>1. s \in Seq(Nat) /\ row.link \in Nat  BY DEF Invite
<1>2. /\ Accepted(row).accepts = t
      /\ Accepted(row).link = row.link
      /\ Accepted(row).used
      BY DEF Accepted, Used, Invite
<1>3. /\ Len(s) \in Nat /\ DOMAIN s = 1 .. Len(s)
      /\ \A n \in 1 .. Len(s) : s[n] \in Nat
      BY <1>1, LenProperties, ElementOfSeq
<1>4. /\ DOMAIN t = 1 .. Len(s) + 1
      /\ \A n \in 1 .. Len(s) : t[n] = s[n]
      /\ t[Len(s) + 1] = row.link
      BY <1>1, AppendProperties, LenProperties
<1>5. \A n \in 1 .. Len(s) : s[n] < row.link  BY <1>3 DEF Once
<1>6. \A m, n \in 1 .. Len(s) : s[m] = s[n] => m = n  BY <1>3 DEF Once
<1> HIDE DEF s, t
<1>7. \A n \in 1 .. Len(s) + 1 : t[n] <= row.link  BY <1>1, <1>3, <1>4, <1>5
<1>8. ASSUME NEW m \in 1 .. Len(s) + 1, NEW n \in 1 .. Len(s) + 1, t[m] = t[n]
      PROVE  m = n
  <2>1. \A k \in 1 .. Len(s) : t[k] # row.link  BY <1>1, <1>3, <1>4, <1>5
  <2>2. CASE m = Len(s) + 1  BY <1>3, <1>4, <1>8, <2>1, <2>2
  <2>3. CASE n = Len(s) + 1  BY <1>3, <1>4, <1>8, <2>1, <2>3
  <2>4. CASE m \in 1 .. Len(s) /\ n \in 1 .. Len(s)  BY <1>4, <1>6, <1>8, <2>4
  <2>5. QED BY <1>3, <2>2, <2>3, <2>4
<1>9. QED BY <1>2, <1>4, <1>7, <1>8 DEF Once

LEMMA LinksStep == TypeOK /\ LinksOnce /\ [Next]_vars => LinksOnce'
<1> SUFFICES ASSUME TypeOK, LinksOnce, [Next]_vars PROVE LinksOnce'  OBVIOUS
<1>1. ASSUME UNCHANGED invite PROVE LinksOnce'  BY <1>1 DEF LinksOnce
<1>2. \A i \in DOMAIN invite : invite[i] \in Invite
      BY LenProperties, ElementOfSeq DEF TypeOK
<1>3. ASSUME NEW u PROVE Once(NewInvite(u))
  <2>1. NewInvite(u).accepts = <<>>  BY DEF NewInvite
  <2>2. DOMAIN <<>> = {}  OBVIOUS
  <2>3. QED BY <2>1, <2>2 DEF Once
<1>4. ASSUME NEW p \in Procs, InviteWrite(p) PROVE LinksOnce'
  <2> DEFINE u == op[p].user
  <2>1. UseAll(u) \in Seq(Invite)  BY UseAllType DEF TypeOK
  <2>2. \A i \in DOMAIN UseAll(u) : Once(UseAll(u)[i])
        BY <1>2, UsedOnce DEF UseAll, LinksOnce
  <2>3. NewInvite(u) \in Invite
        BY <1>4, NewInviteType DEF InviteWrite, At, TypeOK, Handler
  <2>4. QED BY <1>3, <1>4, <2>1, <2>2, <2>3, LinksAppended DEF InviteWrite
<1>5. ASSUME NEW p \in Procs, IssueWrite(p) PROVE LinksOnce'
  <2>1. NewInvite(op[p].user) \in Invite
        BY <1>5, NewInviteType DEF IssueWrite, At, TypeOK, Handler
  <2>2. QED BY <1>3, <1>5, <2>1, LinksAppended DEF IssueWrite, LinksOnce, TypeOK
<1>6. ASSUME NEW p \in Procs, RefreshWrite(p) PROVE LinksOnce'
  <2> DEFINE i == op[p].invite
  <2>1. invite' = [invite EXCEPT ![i] = Refreshed(invite[i])]  BY <1>6 DEF RefreshWrite
  <2>2. i \in DOMAIN invite => Once(Refreshed(invite[i]))
        BY <1>2, RefreshedOnce DEF LinksOnce
  <2>3. QED BY <2>1, <2>2, LinksWritten
<1>7. ASSUME NEW p \in Procs, AcceptWrite(p) PROVE LinksOnce'
  <2> DEFINE i == op[p].invite
  <2>1. CASE Claimable(p)
    <3>1. invite' = [invite EXCEPT ![i] = Accepted(invite[i])]
          BY <1>7, <2>1 DEF AcceptWrite
    <3>2. i \in DOMAIN invite => Once(Accepted(invite[i]))
          BY <1>2, <2>1, AcceptedOnce DEF Claimable, LinksOnce
    <3>3. QED BY <3>1, <3>2, LinksWritten
  <2>2. CASE ~Claimable(p)  BY <1>1, <1>7, <2>2 DEF AcceptWrite
  <2>3. QED BY <2>1, <2>2
<1>8. ASSUME NEW i \in DOMAIN invite, RevokeInvite(i) PROVE LinksOnce'
  <2> DEFINE row == [invite[i] EXCEPT !.expires = now]
  <2>1. invite' = [invite EXCEPT ![i] = row]  BY <1>8 DEF RevokeInvite
  <2>2. Once(row)  BY <1>2 DEF LinksOnce, Once, Invite
  <2>3. QED BY <2>1, <2>2, LinksWritten
<1>9. ASSUME NEW p \in Procs, Joining(p) PROVE LinksOnce'
      BY <1>1, <1>5, <1>6, <1>9
      DEF Joining, CreateRead, StatusRead, UnlockRead, SendRead, AcceptRead, ResendRead,
          AcceptStamp, StatusWrite, SendLatest
<1>10. ASSUME NEW p \in Procs, Transaction(p) PROVE LinksOnce'
       BY <1>1, <1>4, <1>7, <1>10
       DEF Transaction, LockWorkspace, VerifySeat, SeatWrite, CreateWrite, ActivateWrite
<1>11. CASE \/ \E u \in Users : DeleteUser(u)
            \/ LimitChange \/ Tick
            \/ \E p \in Procs : Crash(p)
       BY <1>1, <1>11
       DEF DeleteUser, LimitChange, UpdateCompanyLimit, GrantGrace, EndGrace,
           ApproveRead, ApproveCommit, Tick, Crash
<1>12. CASE UNCHANGED vars  BY <1>1, <1>12 DEF vars
<1>13. QED BY <1>8, <1>9, <1>10, <1>11, <1>12 DEF Next

(* However many browsers hold links of a row they have already had         *)
(* validated, the claim lets one of them in for each issue                 *)
(* (IssueAcceptedOnce).                                                    *)
THEOREM IssuesAreSingleUse == Spec => []IssueAcceptedOnce
<1>1. LinksOnce => IssueAcceptedOnce  BY DEF LinksOnce, Once, IssueAcceptedOnce
<1>2. QED BY <1>1, TypeCorrect, LinksInit, LinksStep, PTL DEF Spec

=============================================================================
