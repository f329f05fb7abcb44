-------------------------------- MODULE Seats --------------------------------
(***************************************************************************)
(* Who may occupy a seat of a company: invitations, direct creation,       *)
(* activation and deletion of users, and the seat limit they are checked   *)
(* against.                                                                *)
(*                                                                         *)
(* Handlers that add a seat run a transaction of three statements: SELECT  *)
(* ... FOR UPDATE on the workspace row, the count of verifySeatLimit, and  *)
(* their own writes.  They are separate steps here, the row lock is a      *)
(* variable, and the handlers that do not take it run between them.        *)
(*                                                                         *)
(* A user is the set of its flags; a password is set exactly when          *)
(* "onboarded" is, as far as these handlers and the eligibility rules go.  *)
(* The grace record is reduced to the limit it imposes while it is active  *)
(* and unexpired (module Billing has its life cycle).                      *)
(***************************************************************************)
EXTENDS Naturals, Sequences, FiniteSets

CONSTANTS
    Users,        \* identifiers of users, with or without a row
    Procs,        \* handlers that can be in flight at the same time
    Limits,       \* seat limits the platform operator may set
    Null,         \* a null column, an absent value
    Ttl,          \* ticks after which an invitation link expires
    MaxTime,      \* bound: the clock stops here
    MaxInvites,   \* bound: invitation rows
    MaxLinks      \* bound: links issued for one row

ASSUME SeatsAssumption ==
    /\ IsFiniteSet(Users)
    /\ Limits \subseteq Nat
    /\ Ttl \in Nat /\ MaxTime \in Nat /\ MaxInvites \in Nat
    /\ MaxLinks \in Nat
    /\ Null \notin Nat \cup Users \cup Procs

VARIABLES
    now,          \* the clock
    approved,     \* workspaces.approvedUserLimit
    managed,      \* the company has a billing status: not a legacy company
    graceLimit,   \* limit of the grace record in force, Null without one
    user,         \* the flags of each user, {} without a row
    invite,       \* the invitation rows in order of creation
    lock,         \* the handler whose transaction holds the workspace row
    op,           \* the handler in flight in each slot
    unchecked     \* ghost: members activated by a write that counts nothing

vars == <<now, approved, managed, graceLimit, user, invite, lock, op, unchecked>>

-----------------------------------------------------------------------------
Flags   == {"row", "active", "verified", "onboarded", "deleted"}
Invitee == {"row"}
Member  == {"row", "active", "verified", "onboarded"}

Times == 0 .. MaxTime + Ttl
(* A row's link is the number of the token whose hash it holds.  accepts   *)
(* is a ghost, never reset: the links by whose issue the row was accepted, *)
(* one entry for each acceptance.                                          *)
Invite == [user : Users, used : BOOLEAN, expires : Times, link : Nat,
           accepts : Seq(Nat)]

SeatKinds == {"invite", "create", "activate", "accept"}
Slot == [step : {"idle", "begun", "ready", "locked", "verified"},
         kind : SeatKinds \cup {"status", "send", "issue", "refresh", "approve"},
         user : Users \cup {Null}, invite : Nat, link : Nat, at : Times,
         active : BOOLEAN, limit : Limits \cup {Null, 0}]
Handler == {h \in Slot : /\ h.step # "idle" /\ h.kind \notin {"refresh", "approve"}
                               => h.user \in Users
                         /\ h.step \notin {"idle", "begun"} => h.kind \in SeatKinds
                         /\ h.kind = "approve" => h.limit \in Limits}

Idle == [step |-> "idle", kind |-> "invite", user |-> Null, invite |-> 0,
         link |-> 0, at |-> 0, active |-> FALSE, limit |-> Null]

(* One state invariant for the shape of rows and handlers, with the holder *)
(* of the row lock.                                                        *)
TypeOK ==
    /\ now \in 0 .. MaxTime
    /\ approved \in Limits \cup {Null}
    /\ managed \in BOOLEAN
    /\ graceLimit \in Limits \cup {Null}
    /\ user \in [Users -> SUBSET Flags]
    /\ invite \in Seq(Invite)
    /\ lock \in Procs \cup {Null}
    /\ op \in [Procs -> Handler]
    /\ unchecked \subseteq Users
    /\ \A p \in Procs : lock = p <=> op[p].step \in {"locked", "verified"}

-----------------------------------------------------------------------------
Active == {u \in Users : "active" \in user[u] /\ "deleted" \notin user[u]}

(* getSeatUsage: grace first, then the approved limit; without either a    *)
(* legacy company is unlimited (Null) and a managed one has no seat.       *)
EffectiveLimit ==
    IF graceLimit # Null THEN graceLimit
    ELSE IF approved = Null /\ managed THEN 0 ELSE approved

(* verifySeatLimit(workspace, 1).                                          *)
SeatFree == EffectiveLimit # Null => Cardinality(Active) + 1 <= EffectiveLimit

(* userHasActivatedAccount and userIsDeactivatedFormerMember.              *)
Activated(u)    == {"active", "verified", "onboarded"} \subseteq user[u]
FormerMember(u) == "verified" \in user[u] /\ "active" \notin user[u]

(* protect: an administrator asks, and is an active user of the company    *)
(* when its request arrives; which permissions it has is left open.        *)
SomebodyAsks == Active # {}

Live(i) == ~invite[i].used /\ invite[i].expires > now

Begin(p, h)  == op[p] = Idle /\ op' = [op EXCEPT ![p] = h]
Become(p, h) == op' = [op EXCEPT ![p] = h]
Finish(p)    == Become(p, Idle)
At(p, step, kinds) == op[p].step = step /\ op[p].kind \in kinds

(* The bounds: a handler that could not commit any more does not start.    *)
InviteLeft  == Len(invite) < MaxInvites
LinkLeft(i) == invite[i].link < MaxLinks

billing == <<approved, managed, graceLimit>>

-----------------------------------------------------------------------------
(* Handlers that add a seat, up to their transaction.  A soft-deleted row  *)
(* may be restored.  createInvite and createUser look at the seats before  *)
(* their transaction as well, which only refuses earlier.                  *)
CreateRead(p, u, kind) ==
    /\ SomebodyAsks
    /\ "row" \notin user[u] \/ "deleted" \in user[u]
    /\ SeatFree
    /\ kind = "invite" => InviteLeft
    /\ Begin(p, [Idle EXCEPT !.step = "ready", !.kind = kind, !.user = u])
    /\ UNCHANGED <<now, billing, user, invite, lock, unchecked>>

(* getValidatedInvite finds the row by the hash of the token: the link is  *)
(* unused and unexpired, the account not activated.  From here on the      *)
(* handler knows the row by its id only.                                   *)
AcceptRead(p, i) ==
    /\ Live(i)
    /\ ~Activated(invite[i].user)
    /\ SeatFree
    /\ Begin(p, [Idle EXCEPT !.step = "begun", !.kind = "accept",
                             !.user = invite[i].user, !.invite = i,
                             !.link = invite[i].link])
    /\ UNCHANGED <<now, billing, user, invite, lock, unchecked>>

(* acceptedAt is taken when the password is hashed, before the lock.       *)
AcceptStamp(p) ==
    /\ At(p, "begun", {"accept"})
    /\ Become(p, [op[p] EXCEPT !.step = "ready", !.at = now])
    /\ UNCHANGED <<now, billing, user, invite, lock, unchecked>>

(* updateUserStatus: only a reactivation of a user it read as inactive     *)
(* takes the lock, any other status is written as it was asked for.        *)
(* Nobody deactivates himself.                                             *)
StatusRead(p, u, active) ==
    /\ \E admin \in Active : active \/ admin # u
    /\ "row" \in user[u] /\ "deleted" \notin user[u]
    /\ Begin(p, IF active /\ "active" \notin user[u]
                THEN [Idle EXCEPT !.step = "ready", !.kind = "activate", !.user = u]
                ELSE [Idle EXCEPT !.step = "begun", !.kind = "status",
                                  !.user = u, !.active = active])
    /\ UNCHANGED <<now, billing, user, invite, lock, unchecked>>

(* unlockTargetLockedUser and unlockUserAdmin: the unlock of an account    *)
(* also makes it active, by the same write of the row as a status update   *)
(* (kind "status").  Whether it is locked is left open: the jobs of        *)
(* targets and attendance may have locked any member.                      *)
UnlockRead(p, u) ==
    /\ SomebodyAsks
    /\ "verified" \in user[u] /\ "deleted" \notin user[u]
    /\ Begin(p, [Idle EXCEPT !.step = "begun", !.kind = "status",
                             !.user = u, !.active = TRUE])
    /\ UNCHANGED <<now, billing, user, invite, lock, unchecked>>

StatusWrite(p) ==
    /\ At(p, "begun", {"status"})
    /\ LET u == op[p].user IN
        /\ user' = [user EXCEPT ![u] = IF op[p].active THEN @ \cup {"active"}
                                       ELSE @ \ {"active"}]
        /\ unchecked' = IF ~op[p].active THEN unchecked \ {u}
                        ELSE IF u \in Active \/ "deleted" \in user[u] THEN unchecked
                        ELSE unchecked \cup {u}
    /\ Finish(p)
    /\ UNCHANGED <<now, billing, invite, lock>>

-----------------------------------------------------------------------------
(* The transaction: lock, count, write.                                    *)
LockWorkspaceFree(p) ==                                              \* mutant
    /\ op[p].step = "ready"
    /\ lock' = p
    /\ Become(p, [op[p] EXCEPT !.step = "locked"])
    /\ UNCHANGED <<now, billing, user, invite, unchecked>>

LockWorkspace(p) ==
    /\ op[p].step = "ready"
    /\ lock = Null
    /\ lock' = p
    /\ Become(p, [op[p] EXCEPT !.step = "locked"])
    /\ UNCHANGED <<now, billing, user, invite, unchecked>>

VerifySeat(p) ==
    /\ op[p].step = "locked"
    /\ \/ /\ SeatFree
          /\ Become(p, [op[p] EXCEPT !.step = "verified", !.limit = EffectiveLimit])
          /\ UNCHANGED lock
       \/ /\ ~SeatFree
          /\ Finish(p)
          /\ lock' = Null
    /\ UNCHANGED <<now, billing, user, invite, unchecked>>

Used(row) == [row EXCEPT !.used = TRUE]
UseAll(u) == [i \in DOMAIN invite |->
                 IF invite[i].user = u THEN Used(invite[i]) ELSE invite[i]]
NewInvite(u) == [user |-> u, used |-> FALSE, expires |-> now + Ttl,
                 link |-> 1, accepts |-> <<>>]

(* createInvitedUserWithInvite                                             *)
InviteWrite(p) ==
    /\ At(p, "verified", {"invite"})
    /\ InviteLeft
    /\ user' = [user EXCEPT ![op[p].user] = Invitee]
    /\ invite' = Append(UseAll(op[p].user), NewInvite(op[p].user))
    /\ lock' = Null
    /\ Finish(p)
    /\ UNCHANGED <<now, billing, unchecked>>

CreateWrite(p) ==
    /\ At(p, "verified", {"create"})
    /\ user' = [user EXCEPT ![op[p].user] = Member]
    /\ lock' = Null
    /\ Finish(p)
    /\ UNCHANGED <<now, billing, invite, unchecked>>

ActivateWrite(p) ==
    /\ At(p, "verified", {"activate"})
    /\ user' = [user EXCEPT ![op[p].user] = @ \cup {"active"}]
    /\ lock' = Null
    /\ Finish(p)
    /\ UNCHANGED <<now, billing, invite, unchecked>>

(* The link is claimed if it is still unused and expires after acceptedAt; *)
(* otherwise the transaction changes nothing.                              *)
ClaimableAnyUse(p) ==                                                \* mutant
    invite[op[p].invite].expires > op[p].at

Claimable(p) ==
    /\ ~invite[op[p].invite].used
    /\ invite[op[p].invite].expires > op[p].at

Accepted(row) == [Used(row) EXCEPT !.accepts = Append(@, row.link)]

AcceptWrite(p) ==
    /\ At(p, "verified", {"accept"})
    /\ IF Claimable(p)
       THEN /\ invite' = [invite EXCEPT ![op[p].invite] = Accepted(@)]
            /\ user' = [user EXCEPT ![op[p].user] =
                            @ \cup {"active", "verified", "onboarded"}]
       ELSE UNCHANGED <<invite, user>>
    /\ lock' = Null
    /\ Finish(p)
    /\ UNCHANGED <<now, billing, unchecked>>

SeatWrite(p) == \/ InviteWrite(p) \/ CreateWrite(p)
                \/ ActivateWrite(p) \/ AcceptWrite(p)

-----------------------------------------------------------------------------
(* resendInvite and sendInviteToUser.  Both first take the credentials of  *)
(* an activated account away (reprovisionUserForInvite; the user stays     *)
(* active), and later refresh a link or issue a new one.                   *)
Reprovisioned(u) == [user EXCEPT ![u] = IF Activated(u) THEN @ \ {"onboarded"} ELSE @]

ResendRead(p, i) ==
    /\ SomebodyAsks
    /\ LinkLeft(i)
    /\ user' = Reprovisioned(invite[i].user)
    /\ Begin(p, [Idle EXCEPT !.step = "begun", !.kind = "refresh", !.invite = i])
    /\ UNCHANGED <<now, billing, invite, lock, unchecked>>

SendRead(p, u) ==
    /\ SomebodyAsks
    /\ "row" \in user[u] /\ "deleted" \notin user[u]
    /\ ~FormerMember(u)
    /\ InviteLeft \/ \E i \in DOMAIN invite : LinkLeft(i)
    /\ user' = Reprovisioned(u)
    /\ Begin(p, [Idle EXCEPT !.step = "begun", !.kind = "send", !.user = u])
    /\ UNCHANGED <<now, billing, invite, lock, unchecked>>

(* The latest invitation is refreshed when it is pending.                  *)
SendLatest(p) ==
    /\ At(p, "begun", {"send"})
    /\ LET mine == {i \in DOMAIN invite : invite[i].user = op[p].user}
           Latest(i) == i \in mine /\ \A j \in mine : j <= i
       IN  \/ \E i \in mine : /\ Latest(i) /\ Live(i) /\ LinkLeft(i)
                              /\ Become(p, [op[p] EXCEPT !.kind = "refresh",
                                                         !.invite = i])
           \/ /\ ~\E i \in mine : Latest(i) /\ Live(i)
              /\ InviteLeft
              /\ Become(p, [op[p] EXCEPT !.kind = "issue"])
    /\ UNCHANGED <<now, billing, user, invite, lock, unchecked>>

(* updateInviteForResend: a new token in the same row, unused again.       *)
Refreshed(row) == [row EXCEPT !.used = FALSE, !.expires = now + Ttl, !.link = @ + 1]

RefreshWrite(p) ==
    /\ At(p, "begun", {"refresh"})
    /\ LinkLeft(op[p].invite)
    /\ invite' = [invite EXCEPT ![op[p].invite] = Refreshed(@)]
    /\ Finish(p)
    /\ UNCHANGED <<now, billing, user, lock, unchecked>>

IssueWrite(p) ==
    /\ At(p, "begun", {"issue"})
    /\ InviteLeft
    /\ invite' = Append(invite, NewInvite(op[p].user))
    /\ Finish(p)
    /\ UNCHANGED <<now, billing, user, lock, unchecked>>

RevokeInvite(i) ==
    /\ SomebodyAsks
    /\ ~invite[i].used
    /\ invite' = [invite EXCEPT ![i].expires = now]
    /\ UNCHANGED <<now, billing, user, lock, op, unchecked>>

(* deleteUser: soft delete, not of oneself.  The invitations stay as they  *)
(* are.                                                                    *)
DeleteUser(u) ==
    /\ \E admin \in Active : admin # u
    /\ "row" \in user[u] /\ "deleted" \notin user[u]
    /\ user' = [user EXCEPT ![u] = (@ \ {"active"}) \cup {"deleted"}]
    /\ unchecked' = unchecked \ {u}
    /\ UNCHANGED <<now, billing, invite, lock, op>>

-----------------------------------------------------------------------------
(* The limit.  A write to the workspace row waits for the row lock, and so *)
(* does the insert of a grace record, whose foreign key locks the row.     *)
(* The end of a grace record, by revocation or by time, does not wait.     *)
UpdateCompanyLimit(n) ==
    /\ lock = Null
    /\ approved' = n
    /\ UNCHANGED <<now, managed, graceLimit, user, invite, lock, op, unchecked>>

GrantGrace(n) ==
    /\ lock = Null
    /\ n # 0
    /\ graceLimit' = n
    /\ managed' = TRUE
    /\ UNCHANGED <<now, approved, user, invite, lock, op, unchecked>>

EndGrace ==
    /\ graceLimit # Null
    /\ graceLimit' = Null
    /\ UNCHANGED <<now, approved, managed, user, invite, lock, op, unchecked>>

(* approvePayment: the members are counted before the transaction.         *)
ApproveRead(p, n) ==
    /\ n # 0
    /\ Cardinality(Active) <= n
    /\ Begin(p, [Idle EXCEPT !.step = "begun", !.kind = "approve", !.limit = n])
    /\ UNCHANGED <<now, billing, user, invite, lock, unchecked>>

ApproveCommit(p) ==
    /\ At(p, "begun", {"approve"})
    /\ lock = Null
    /\ approved' = op[p].limit
    /\ managed' = TRUE
    /\ graceLimit' = Null
    /\ Finish(p)
    /\ UNCHANGED <<now, user, invite, lock, unchecked>>

(* A handler ends without its remaining writes; an open transaction is     *)
(* rolled back and its row lock released.                                  *)
Crash(p) ==
    /\ op[p] # Idle
    /\ lock' = IF lock = p THEN Null ELSE lock
    /\ Finish(p)
    /\ UNCHANGED <<now, billing, user, invite, unchecked>>

(* Time matters to links that can still be accepted.                       *)
Tick ==
    /\ now < MaxTime
    /\ \E i \in DOMAIN invite : Live(i)
    /\ now' = now + 1
    /\ UNCHANGED <<billing, user, invite, lock, op, unchecked>>

-----------------------------------------------------------------------------
(* The owner is a member; the company is legacy or managed.                *)
Init ==
    /\ now = 0
    /\ approved = Null
    /\ managed \in BOOLEAN
    /\ graceLimit = Null
    /\ \E owner \in Users : user = [u \in Users |-> IF u = owner THEN Member ELSE {}]
    /\ invite = <<>>
    /\ lock = Null
    /\ op = [p \in Procs |-> Idle]
    /\ unchecked = {}

Joining(p) ==
    \/ \E u \in Users : \/ \E kind \in {"invite", "create"} : CreateRead(p, u, kind)
                        \/ \E active \in BOOLEAN : StatusRead(p, u, active)
                        \/ UnlockRead(p, u) \/ SendRead(p, u)
    \/ \E i \in DOMAIN invite : AcceptRead(p, i) \/ ResendRead(p, i)
    \/ AcceptStamp(p) \/ StatusWrite(p)
    \/ SendLatest(p) \/ RefreshWrite(p) \/ IssueWrite(p)

Transaction(p) == LockWorkspace(p) \/ VerifySeat(p) \/ SeatWrite(p)

LimitChange ==
    \/ \E n \in Limits \cup {Null} : UpdateCompanyLimit(n)
    \/ \E n \in Limits : GrantGrace(n)
    \/ EndGrace
    \/ \E p \in Procs : ApproveCommit(p) \/ \E n \in Limits : ApproveRead(p, n)

Next ==
    \/ \E p \in Procs : Joining(p) \/ Transaction(p) \/ Crash(p)
    \/ \E u \in Users : DeleteUser(u)
    \/ \E i \in DOMAIN invite : RevokeInvite(i)
    \/ LimitChange
    \/ Tick

Spec == Init /\ [][Next]_vars

-----------------------------------------------------------------------------
(* A counted seat is still free when it is taken: between the count of     *)
(* verifySeatLimit and the write of the same transaction nobody else       *)
(* fills the seat, whichever handlers run meanwhile.  Members activated by *)
(* a status write or an unlock that counts nothing are left out.           *)
CountedSeatIsFree ==
    \A p \in Procs :
        op[p].step = "verified" /\ op[p].limit # Null =>
            Cardinality(Active \ unchecked) + 1 <= op[p].limit

(* Every issue of a link lets one browser in, although any number of them  *)
(* may be past getValidatedInvite when the first one commits, with the     *)
(* link of this issue or of an earlier one of the row.                     *)
IssueAcceptedOnce ==
    \A i \in DOMAIN invite :
        \A m, n \in DOMAIN invite[i].accepts :
            invite[i].accepts[m] = invite[i].accepts[n] => m = n

(* What comments and messages of the code say and it does not keep.        *)

(* "Invite token has already been used": a browser that came with a link   *)
(* somebody was let in by is refused.                                      *)
LinkAcceptedOnce ==
    [][\A p \in Procs : AcceptWrite(p) /\ Claimable(p) =>
          \A n \in DOMAIN invite[op[p].invite].accepts :
              invite[op[p].invite].accepts[n] # op[p].link]_vars

(* The row lock is there "to serialize concurrent seat-increasing          *)
(* operations": a status update or an unlock that makes a user active      *)
(* leaves a company with an approved limit within it.                      *)
ReactivationIsCounted ==
    [][\A p \in Procs :
          StatusWrite(p) /\ Active' \ Active # {}
          /\ approved # Null /\ graceLimit = Null
              => Cardinality(Active') <= approved]_vars

(* "Former member who was verified then deactivated: use reactivate": a    *)
(* deactivated member comes back by an action of an administrator, never   *)
(* by accepting a link.                                                    *)
DeactivatedStaysOut ==
    [][\A p \in Procs : AcceptWrite(p) =>
          \A u \in Users : FormerMember(u) /\ "deleted" \notin user[u]
                              => u \notin Active']_vars

=============================================================================
