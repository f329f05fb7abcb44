----------------------------- MODULE Leads_proofs -----------------------------
(***************************************************************************)
(* What holds of a lead and its approval requests for every set of stages, *)
(* any number of requests and any number of overlapping handlers.          *)
(***************************************************************************)
EXTENDS Leads, TLAPS

-----------------------------------------------------------------------------
(* Operators the handlers are built from.                                  *)

(* The slot of a handler is written with a handler, the others keep theirs.*)
LEMMA OpWritten ==
    ASSUME op \in [Procs -> Handler], NEW p \in Procs, NEW h \in Handler, Become(p, h)
    PROVE  /\ op' \in [Procs -> Handler]
           /\ op'[p] = h
           /\ \A q \in Procs \ {p} : op'[q] = op[q]
BY DEF Become

LEMMA IdleIsHandler == Idle \in Handler
BY DEF Idle, Handler

LEMMA Finished ==
    ASSUME op \in [Procs -> Handler], NEW p \in Procs, Finish(p)
    PROVE  /\ op' \in [Procs -> Handler]
           /\ op'[p] = Idle
           /\ \A q \in Procs \ {p} : op'[q] = op[q]
BY IdleIsHandler, OpWritten DEF Finish

LEMMA Begun ==
    ASSUME op \in [Procs -> Handler], NEW p \in Procs, NEW h \in Handler, Begin(p, h)
    PROVE  /\ op' \in [Procs -> Handler]
           /\ op'[p] = h
           /\ \A q \in Procs \ {p} : op'[q] = op[q]
BY OpWritten DEF Begin

(* A lead that is moved or flagged is a lead, and keeps its mark.          *)
LEMMA FlagsWritten ==
    ASSUME NEW row \in Lead, NEW c \in BOOLEAN, NEW l \in BOOLEAN
    PROVE  /\ WithFlags(row, c, l) \in Lead
           /\ WithFlags(row, c, l).pending = row.pending
           /\ WithFlags(row, c, l).stage = row.stage
           /\ WithFlags(row, c, l).imported = row.imported
BY DEF Lead, WithFlags

LEMMA FlaggedType ==
    ASSUME NEW row \in Lead, NEW s
    PROVE  /\ Flagged(row, s) \in Lead
           /\ Flagged(row, s).pending = row.pending
           /\ Flagged(row, s).stage = row.stage
           /\ Flagged(row, s).imported = row.imported
<1>1. (s \in Won) \in BOOLEAN /\ (s \in Lost) \in BOOLEAN  OBVIOUS
<1>2. QED BY <1>1, FlagsWritten, Zenon DEF Flagged

(* A lead that is moved to another stage is a lead, with the same mark.    *)
LEMMA StageWritten ==
    ASSUME NEW row \in Lead, NEW s \in Stages
    PROVE  LET new == [row EXCEPT !.stage = s] IN
           /\ new \in Lead
           /\ new.pending = row.pending
           /\ new.stage = s
           /\ new.imported = row.imported
BY DEF Lead

LEMMA FreshType ==
    ASSUME NEW s \in Stages \cup {Null}, NEW row \in {Created(s), ImportedOpen(s)}
    PROVE  row \in Lead /\ row.pending = Null /\ row.stage = s
<1>1. Fresh(s) \in Lead /\ Fresh(s).pending = Null /\ Fresh(s).stage = s
      BY DEF Fresh, Lead
<1>2. CASE row = Created(s)  BY <1>1, <1>2, FlaggedType DEF Created
<1>3. CASE row = ImportedOpen(s)
  <2>1. (s \in Closing) \in BOOLEAN /\ (s \in Lost) \in BOOLEAN  OBVIOUS
  <2>2. QED BY <1>1, <1>3, <2>1, FlagsWritten, Zenon DEF ImportedOpen
<1>4. QED BY <1>2, <1>3

LEMMA MarkedType ==
    ASSUME NEW s \in Stages \cup {Null}, NEW to \in Gated
    PROVE  /\ ImportedMarked(s, to) \in Lead
           /\ ImportedMarked(s, to).stage = s
           /\ ImportedMarked(s, to).imported
BY DEF ImportedMarked, Fresh, Lead

LEMMA ApprovedType ==
    ASSUME NEW row \in Lead, NEW s \in Stages
    PROVE  /\ Approved(row, s) \in Lead
           /\ Approved(row, s).pending = Null
           /\ Approved(row, s).stage = s
<1> DEFINE f == Flagged(row, s)
<1>1. f \in Lead  BY FlaggedType
<1>2. Approved(row, s) = [[f EXCEPT !.stage = s] EXCEPT !.pending = Null]
      BY DEF Approved, Moved
<1> HIDE DEF f
<1>3. QED BY <1>1, <1>2 DEF Lead

LEMMA InsertType ==
    ASSUME req \in [Requests -> Request], NEW r \in Requests,
           NEW to \in Gated \cup {Null}, Insert(r, to)
    PROVE  /\ req' \in [Requests -> Request]
           /\ req[r].status = "none"
           /\ req'[r] = [status |-> "PENDING", to |-> to]
           /\ \A q \in Requests \ {r} : req'[q] = req[q]
<1>1. [status |-> "PENDING", to |-> to] \in Request  BY DEF Request
<1>2. QED BY <1>1 DEF Insert

-----------------------------------------------------------------------------
(* What the handlers that write flags do to the rest of the row.           *)

LEMMA UpdateEffect ==
    ASSUME TypeOK, NEW p \in Procs, UpdateCommit(p)
    PROVE  /\ op[p].kind = "update"
           /\ op[p].target \in Stages \cup {Null}
           /\ op[p].moves \in BOOLEAN
           /\ lead' \in Lead
           /\ lead'.pending = lead.pending
           /\ lead'.imported = lead.imported
           /\ lead'.stage = IF op[p].moves THEN op[p].target ELSE lead.stage
<1>1. /\ op[p].kind = "update"
      /\ op[p].target \in Stages \cup {Null} /\ op[p].moves \in BOOLEAN
      BY DEF UpdateCommit, At, Handler, TypeOK
<1> DEFINE s   == op[p].target
           row == IF op[p].moves THEN [lead EXCEPT !.stage = s] ELSE lead
<1>2. /\ row \in Lead
      /\ row.pending = lead.pending
      /\ row.imported = lead.imported
      /\ row.stage = IF op[p].moves THEN s ELSE lead.stage
      BY <1>1 DEF Lead, TypeOK
<1>3. (\E c \in BOOLEAN : lead' = [row EXCEPT !.closed = c]) \/ lead' = Flagged(row, s)
      BY DEF UpdateCommit
<1> HIDE DEF row
<1>4. ASSUME NEW c \in BOOLEAN, lead' = [row EXCEPT !.closed = c]
      PROVE  /\ lead' \in Lead
             /\ lead'.pending = row.pending
             /\ lead'.imported = row.imported
             /\ lead'.stage = row.stage
      BY <1>2, <1>4 DEF Lead
<1>5. CASE lead' = Flagged(row, s)  BY <1>1, <1>2, <1>5, FlaggedType
<1>6. QED BY <1>1, <1>2, <1>3, <1>4, <1>5

LEMMA CallEffect ==
    ASSUME TypeOK, NEW p \in Procs, CallMoves(p)
    PROVE  /\ lead' \in Lead
           /\ lead'.pending = lead.pending
           /\ lead'.imported = lead.imported
           /\ lead'.stage \notin Gated
<1> DEFINE new == [lead EXCEPT !.stage = op[p].to]
           c == op[p].to \in Closing
           l == op[p].to \in Lost
<1>1. op[p].to \in Stages /\ op[p].to \notin Gated
      BY DEF CallMoves, At, Handler, TypeOK
<1>2. /\ new \in Lead
      /\ new.pending = lead.pending
      /\ new.imported = lead.imported
      /\ new.stage \notin Gated
      BY <1>1, StageWritten DEF TypeOK
<1>3. c \in BOOLEAN /\ l \in BOOLEAN  OBVIOUS
<1>4. lead' = WithFlags(new, c, l)  BY Zenon DEF CallMoves
<1> HIDE DEF new, c, l
<1>5. QED BY <1>2, <1>3, <1>4, FlagsWritten

LEMMA FlagsEffect ==
    ASSUME TypeOK, NEW p \in Procs, Sweeping(p) \/ ClosedModule(p)
    PROVE  /\ lead' \in Lead
           /\ lead'.pending = lead.pending
           /\ lead'.imported = lead.imported
           /\ lead'.stage = lead.stage \/ lead'.stage \notin Gated \/ lead'.stage \in admitted'
<1> USE DEF TypeOK
<1>1. CASE UNCHANGED lead  BY <1>1
<1>2. ASSUME NEW s \in Stages, SweepCommit(p, s)
      PROVE  /\ lead' \in Lead
             /\ lead'.pending = lead.pending
             /\ lead'.imported = lead.imported
             /\ lead'.stage \notin Gated \/ lead'.stage \in admitted'
  <2> DEFINE new == [lead EXCEPT !.stage = s]
  <2>1. /\ new \in Lead
        /\ new.pending = lead.pending
        /\ new.imported = lead.imported
        /\ new.stage = s
        BY StageWritten, StagesAssumption
  <2>2. lead' = WithFlags(new, FALSE, TRUE)  BY <1>2 DEF SweepCommit
  <2>3. s \notin Gated \/ s \in admitted'  BY <1>2 DEF SweepCommit, Admit
  <2> HIDE DEF new
  <2>4. QED BY <2>1, <2>2, <2>3, FlagsWritten
<1>3. ASSUME NEW c \in BOOLEAN, NEW l \in BOOLEAN, lead' = WithFlags(lead, c, l)
      PROVE  /\ lead' \in Lead
             /\ lead'.pending = lead.pending
             /\ lead'.imported = lead.imported
             /\ lead'.stage = lead.stage
      BY <1>3, FlagsWritten
<1>4. CASE lead' = [lead EXCEPT !.closed = TRUE]  BY <1>4 DEF Lead
<1>5. CASE SweepRead(p)  BY <1>1, <1>5 DEF SweepRead
<1>6. CASE CloseRead(p) \/ ReopenRead(p) \/ ReconcileFind(p)
      BY <1>1, <1>6 DEF CloseRead, ReopenRead, ReconcileFind
<1>7. CASE CloseCommit(p)  BY <1>3, <1>7 DEF CloseCommit
<1>8. CASE ReopenCommit(p)  BY <1>3, <1>8 DEF ReopenCommit
<1>9. CASE ReconcileLost(p)  BY <1>1, <1>3, <1>9 DEF ReconcileLost
<1>10. CASE ReconcileClose(p)  BY <1>4, <1>10 DEF ReconcileClose
<1>11. QED BY <1>2, <1>5, <1>6, <1>7, <1>8, <1>9, <1>10 DEF Sweeping, ClosedModule

-----------------------------------------------------------------------------
(* Type correctness.                                                       *)

LEMMA TypeInit == Init => TypeOK
<1> SUFFICES ASSUME Init PROVE TypeOK  OBVIOUS
<1>1. req \in [Requests -> Request]  BY DEF Init, NoRequest, Request
<1>2. PICK s \in Stages \cup {Null} :
        /\ admitted = {s} \cap Gated
        /\ \/ lead \in {Created(s), ImportedOpen(s)} /\ op = [p \in Procs |-> Idle]
           \/ /\ s # Null
              /\ \E to \in Gated, q \in Procs :
                    /\ lead = ImportedMarked(s, to)
                    /\ op = [p \in Procs |->
                                IF p = q THEN [kind |-> "insert", to |-> to, update |-> FALSE]
                                ELSE Idle]
      BY DEF Init
<1>3. CASE lead \in {Created(s), ImportedOpen(s)} /\ op = [p \in Procs |-> Idle]
  <2>1. lead \in Lead  BY <1>3, FreshType
  <2>2. op \in [Procs -> Handler]  BY <1>3, IdleIsHandler
  <2>3. QED BY <1>1, <1>2, <2>1, <2>2 DEF TypeOK
<1>4. ASSUME s # Null, NEW to \in Gated, NEW q \in Procs, lead = ImportedMarked(s, to),
             op = [p \in Procs |->
                      IF p = q THEN [kind |-> "insert", to |-> to, update |-> FALSE]
                      ELSE Idle]
      PROVE  TypeOK
  <2>1. lead \in Lead  BY <1>4, MarkedType
  <2>2. [kind |-> "insert", to |-> to, update |-> FALSE] \in Handler  BY DEF Handler
  <2>3. op \in [Procs -> Handler]  BY <1>4, <2>2, IdleIsHandler
  <2>4. QED BY <1>1, <1>2, <2>1, <2>3 DEF TypeOK
<1>5. QED BY <1>2, <1>3, <1>4

LEMMA TypeAsking ==
    ASSUME TypeOK, NEW p \in Procs, Asking(p)
    PROVE  TypeOK'
<1> USE DEF TypeOK
<1>1. ASSUME NEW from \in Stages, NEW to \in Gated, Ask(p, from, to) PROVE TypeOK'
  <2>1. [kind |-> "ask", from |-> from, to |-> to, update |-> FALSE] \in Handler
        BY DEF Handler
  <2>2. op' \in [Procs -> Handler]  BY <1>1, <2>1, Begun DEF Ask
  <2>3. QED BY <1>1, <2>2 DEF Ask
<1>2. CASE AskRead(p)
  <2> DEFINE h == [kind |-> "asked", to |-> op[p].to, update |-> op[p].update,
                   marked |-> lead.pending # Null, same |-> lead.stage = op[p].from]
  <2>1. op[p].to \in Gated /\ op[p].update \in BOOLEAN  BY <1>2 DEF AskRead, At, Handler
  <2>2. h \in Handler  BY <2>1 DEF Handler
  <2>3. op' \in [Procs -> Handler]  BY <1>2, <2>2, OpWritten DEF AskRead
  <2>4. QED BY <1>2, <2>3 DEF AskRead
<1>3. CASE AskFind(p)
  <2>1. /\ op[p].to \in Gated /\ op[p].update \in BOOLEAN
        /\ op[p].same \in BOOLEAN
        BY <1>3 DEF AskFind, At, Handler
  <2>2. [kind |-> "heal", to |-> op[p].to, update |-> op[p].update,
         same |-> op[p].same] \in Handler
        BY <2>1 DEF Handler
  <2>3. [kind |-> "insert", to |-> op[p].to, update |-> op[p].update] \in Handler
        BY <2>1 DEF Handler
  <2>4. op' \in [Procs -> Handler]  BY <1>3, <2>2, <2>3, OpWritten, Finished DEF AskFind
  <2>5. QED BY <1>3, <2>4 DEF AskFind
<1>4. CASE AskHeal(p)
  <2>1. op[p].to \in Gated /\ op[p].update \in BOOLEAN  BY <1>4 DEF AskHeal, At, Handler
  <2>2. [kind |-> "insert", to |-> op[p].to, update |-> op[p].update] \in Handler
        BY <2>1 DEF Handler
  <2>3. op' \in [Procs -> Handler]  BY <1>4, <2>2, OpWritten, Finished DEF AskHeal
  <2>4. lead' \in Lead  BY <1>4 DEF AskHeal, Lead
  <2>5. QED BY <1>4, <2>3, <2>4 DEF AskHeal
<1>5. ASSUME NEW r \in Requests, AskInsert(p, r) PROVE TypeOK'
  <2>1. op[p].to \in Gated  BY <1>5 DEF AskInsert, At, Handler
  <2>2. AfterAsk(p) \in Handler
        BY <2>1, IdleIsHandler, StagesAssumption DEF AfterAsk, Handler
  <2>3. op' \in [Procs -> Handler]  BY <1>5, <2>2, OpWritten DEF AskInsert
  <2>4. lead' \in Lead  BY <1>5, <2>1 DEF AskInsert, Lead
  <2>5. req' \in [Requests -> Request]  BY <1>5, <2>1, InsertType DEF AskInsert
  <2>6. QED BY <1>5, <2>3, <2>4, <2>5 DEF AskInsert
<1>6. QED BY <1>1, <1>2, <1>3, <1>4, <1>5 DEF Asking

LEMMA TypeUpdating ==
    ASSUME TypeOK, NEW p \in Procs, Updating(p)
    PROVE  TypeOK'
<1> USE DEF TypeOK
<1>1. CASE UpdateRead(p)
  <2>1. [kind |-> "update", target |-> lead.stage, moves |-> FALSE] \in Handler
        BY DEF Handler, Lead
  <2>2. op' \in [Procs -> Handler]  BY <1>1, <2>1, Begun DEF UpdateRead
  <2>3. QED BY <1>1, <2>2 DEF UpdateRead
<1>2. ASSUME NEW s \in Stages \cup {Null}, NEW free \in BOOLEAN, UpdateMoveRead(p, s, free)
      PROVE  TypeOK'
  <2>1. CASE NeedsApproval(s, free)
    <3>1. lead.stage \in Stages /\ s \in Gated  BY <2>1 DEF NeedsApproval, Lead
    <3>2. [kind |-> "ask", from |-> lead.stage, to |-> s, update |-> TRUE] \in Handler
          BY <3>1 DEF Handler
    <3>3. /\ Begin(p, [kind |-> "ask", from |-> lead.stage, to |-> s, update |-> TRUE])
          /\ UNCHANGED <<lead, req, admitted>>
          BY <1>2, <2>1 DEF UpdateMoveRead
    <3>4. QED BY <3>2, <3>3, Begun
  <2>2. CASE ~NeedsApproval(s, free)
    <3>1. [kind |-> "update", target |-> s, moves |-> TRUE] \in Handler  BY DEF Handler
    <3>2. /\ Begin(p, [kind |-> "update", target |-> s, moves |-> TRUE])
          /\ admitted' = admitted \/ admitted' = admitted \cup ({s} \cap Gated)
          /\ UNCHANGED <<lead, req>>
          BY <1>2, <2>2 DEF UpdateMoveRead, Admit
    <3>3. op' \in [Procs -> Handler]  BY <3>1, <3>2, Begun
    <3>4. QED BY <3>2, <3>3
  <2>3. QED BY <2>1, <2>2
<1>3. CASE UpdateCommit(p)
  <2>4. lead' \in Lead  BY <1>3, UpdateEffect
  <2>5. op' \in [Procs -> Handler]  BY <1>3, Finished DEF UpdateCommit
  <2>6. QED BY <1>3, <2>4, <2>5 DEF UpdateCommit
<1>4. QED BY <1>1, <1>2, <1>3 DEF Updating

LEMMA TypeDeciding ==
    ASSUME TypeOK, NEW p \in Procs, Deciding(p)
    PROVE  TypeOK'
<1> USE DEF TypeOK
<1>1. ASSUME NEW r \in Requests, NEW approve \in BOOLEAN, DecideRead(p, r, approve)
      PROVE  TypeOK'
  <2>1. [kind |-> "decide", req |-> r, approve |-> approve] \in Handler  BY DEF Handler
  <2>2. op' \in [Procs -> Handler]  BY <1>1, <2>1, Begun DEF DecideRead
  <2>3. QED BY <1>1, <2>2 DEF DecideRead
<1>2. CASE DecideCommit(p)
  <2> DEFINE r == op[p].req
  <2>1. r \in Requests  BY <1>2 DEF DecideCommit, At, Handler
  <2>2. req[r].to \in Gated \cup {Null}  BY <2>1 DEF Request
  <2>3. req' \in [Requests -> Request]  BY <1>2, <2>1 DEF DecideCommit, Request
  <2>4. lead' \in Lead
    <3>1. Denied(lead) \in Lead  BY DEF Denied, Lead
    <3>2. req[r].to # Null => Approved(lead, req[r].to) \in Lead
          BY <2>2, ApprovedType, StagesAssumption
    <3>3. \/ lead' = lead
          \/ lead' = Denied(lead)
          \/ req[r].to # Null /\ lead' = Approved(lead, req[r].to)
          BY <1>2 DEF DecideCommit
    <3>4. QED BY <3>1, <3>2, <3>3
  <2>5. admitted' \subseteq Gated  BY <1>2 DEF DecideCommit, Admit
  <2>6. op' \in [Procs -> Handler]  BY <1>2, Finished DEF DecideCommit
  <2>7. QED BY <2>3, <2>4, <2>5, <2>6
<1>3. QED BY <1>1, <1>2 DEF Deciding

LEMMA TypeCalling ==
    ASSUME TypeOK, NEW p \in Procs, Calling(p)
    PROVE  TypeOK'
<1> USE DEF TypeOK
<1>1. ASSUME NEW s \in Stages, CallRead(p, s) PROVE TypeOK'
  <2>1. [kind |-> "call", from |-> lead.stage, to |-> s] \in Handler  BY DEF Handler, Lead
  <2>2. op' \in [Procs -> Handler]  BY <1>1, <2>1, Begun DEF CallRead
  <2>3. QED BY <1>1, <2>2 DEF CallRead
<1>2. CASE CallMoves(p)
  <2>2. lead' \in Lead  BY <1>2, CallEffect
  <2>3. op' \in [Procs -> Handler]  BY <1>2, Finished DEF CallMoves
  <2>4. QED BY <1>2, <2>2, <2>3 DEF CallMoves
<1>3. ASSUME NEW r \in Requests, CallAsks(p, r) PROVE TypeOK'
  <2>1. op[p].to \in Gated  BY <1>3 DEF CallAsks
  <2>2. lead' \in Lead  BY <1>3, <2>1 DEF CallAsks, Lead
  <2>3. req' \in [Requests -> Request]  BY <1>3, <2>1, InsertType DEF CallAsks
  <2>4. op' \in [Procs -> Handler]  BY <1>3, Finished DEF CallAsks
  <2>5. QED BY <1>3, <2>2, <2>3, <2>4 DEF CallAsks
<1>4. QED BY <1>1, <1>2, <1>3 DEF Calling

LEMMA TypeFlags ==
    ASSUME TypeOK, NEW p \in Procs, Sweeping(p) \/ ClosedModule(p)
    PROVE  TypeOK'
<1> USE DEF TypeOK
<1>1. /\ [kind |-> "sweep"] \in Handler /\ [kind |-> "close"] \in Handler
      /\ [kind |-> "reopen"] \in Handler /\ [kind |-> "reconcile"] \in Handler
      /\ [kind |-> "stale"] \in Handler
      BY DEF Handler
<1>2. CASE SweepRead(p)  BY <1>1, <1>2, Begun DEF SweepRead
<1>3. ASSUME NEW s \in Stages, SweepCommit(p, s) PROVE TypeOK'
  <2>1. lead' \in Lead  BY <1>3, StagesAssumption, StageWritten, FlagsWritten DEF SweepCommit
  <2>2. admitted' \subseteq Gated  BY <1>3 DEF SweepCommit, Admit
  <2>3. op' \in [Procs -> Handler]  BY <1>3, Finished DEF SweepCommit
  <2>4. QED BY <1>3, <2>1, <2>2, <2>3 DEF SweepCommit
<1>4. CASE CloseRead(p)  BY <1>1, <1>4, Begun DEF CloseRead
<1>5. CASE ReopenRead(p)  BY <1>1, <1>5, Begun DEF ReopenRead
<1>6. CASE CloseCommit(p)
  <2>1. lead' \in Lead  BY <1>6, FlagsWritten DEF CloseCommit
  <2>2. QED BY <1>6, <2>1, Finished DEF CloseCommit
<1>7. CASE ReopenCommit(p)
  <2>1. lead' \in Lead  BY <1>7, FlagsWritten DEF ReopenCommit
  <2>2. QED BY <1>7, <2>1, Finished DEF ReopenCommit
<1>8. CASE ReconcileLost(p)
  <2>1. lead' \in Lead  BY <1>8, FlagsWritten DEF ReconcileLost
  <2>2. QED BY <1>1, <1>8, <2>1, Begun DEF ReconcileLost
<1>9. CASE ReconcileFind(p)  BY <1>1, <1>9, OpWritten, Finished DEF ReconcileFind
<1>10. CASE ReconcileClose(p)
  <2>1. lead' \in Lead  BY <1>10 DEF ReconcileClose, Lead
  <2>2. QED BY <1>10, <2>1, Finished DEF ReconcileClose
<1>11. QED BY <1>2, <1>3, <1>4, <1>5, <1>6, <1>7, <1>8, <1>9, <1>10
           DEF Sweeping, ClosedModule

LEMMA TypeStep == TypeOK /\ [Next]_vars => TypeOK'
<1> SUFFICES ASSUME TypeOK, [Next]_vars PROVE TypeOK'  OBVIOUS
<1>1. ASSUME NEW p \in Procs, Crash(p) PROVE TypeOK'
      BY <1>1, Finished DEF Crash, TypeOK
<1>2. ASSUME NEW r \in Requests, RequestAdvance(r) PROVE TypeOK'
  <2>1. req' \in [Requests -> Request]  BY <1>2, InsertType DEF RequestAdvance, TypeOK
  <2>2. QED BY <1>2, <2>1 DEF RequestAdvance, TypeOK
<1>3. CASE DeleteLead  BY <1>3 DEF DeleteLead, TypeOK, Lead
<1>4. CASE PermanentlyDelete  BY <1>4 DEF PermanentlyDelete, TypeOK, Lead
<1>5. CASE UNCHANGED vars  BY <1>5 DEF vars, TypeOK
<1>6. QED BY <1>1, <1>2, <1>3, <1>4, <1>5, TypeAsking, TypeUpdating, TypeDeciding,
             TypeCalling, TypeFlags DEF Next

(* Rows and handlers keep their shape: no handler ever waits for, or asks  *)
(* for, the approval of a stage that needs none.                           *)
THEOREM TypeCorrect == Spec => []TypeOK
BY TypeInit, TypeStep, PTL DEF Spec

-----------------------------------------------------------------------------
(* A pending lead has a request.  The invariant is inductive once it is    *)
(* typed; a step leaves the mark and the requests alone, clears the mark,  *)
(* or requests what it marks.  Requests of advance payments do neither.    *)

LEMMA MarkKept ==
    ASSUME PendingBacked, lead'.pending = lead.pending, lead'.imported = lead.imported,
           req' = req
    PROVE  PendingBacked'
BY DEF PendingBacked

LEMMA MarkCleared == lead'.pending = Null => PendingBacked'
BY DEF PendingBacked

LEMMA MarkRequested ==
    ASSUME NEW r \in Requests, NEW to, lead'.pending = to,
           req'[r] = [status |-> "PENDING", to |-> to]
    PROVE  PendingBacked'
BY DEF PendingBacked

LEMMA PendingInit == Init => PendingBacked
<1> SUFFICES ASSUME Init PROVE PendingBacked  OBVIOUS
<1>1. \A r \in Requests : req[r].to = Null  BY DEF Init, NoRequest
<1>2. PICK s \in Stages \cup {Null} :
        \/ lead \in {Created(s), ImportedOpen(s)}
        \/ \E to \in Gated : lead = ImportedMarked(s, to)
      BY DEF Init
<1>3. CASE lead \in {Created(s), ImportedOpen(s)}
  <2>1. lead.pending = Null  BY <1>3, FreshType
  <2>2. QED BY <2>1 DEF PendingBacked
<1>4. CASE \E to \in Gated : lead = ImportedMarked(s, to)
  <2>1. lead.imported  BY <1>4, MarkedType
  <2>2. QED BY <1>1, <2>1 DEF PendingBacked
<1>5. QED BY <1>2, <1>3, <1>4

LEMMA PendingAsking ==
    ASSUME TypeOK, PendingBacked, NEW p \in Procs, Asking(p)
    PROVE  PendingBacked'
<1>1. CASE UNCHANGED <<lead, req>>  BY <1>1, MarkKept
<1>2. CASE AskHeal(p)
  <2>1. lead'.pending = Null  BY <1>2 DEF AskHeal, TypeOK, Lead
  <2>2. QED BY <2>1, MarkCleared
<1>3. ASSUME NEW r \in Requests, AskInsert(p, r) PROVE PendingBacked'
  <2>1. op[p].to \in Gated  BY <1>3 DEF AskInsert, At, Handler, TypeOK
  <2>2. req'[r] = [status |-> "PENDING", to |-> op[p].to]
        BY <1>3, <2>1, InsertType DEF AskInsert, TypeOK
  <2>3. lead'.pending = op[p].to  BY <1>3 DEF AskInsert, TypeOK, Lead
  <2>4. QED BY <2>2, <2>3, MarkRequested
<1>4. QED BY <1>1, <1>2, <1>3 DEF Asking, Ask, AskRead, AskFind

LEMMA PendingUpdating ==
    ASSUME TypeOK, PendingBacked, NEW p \in Procs, Updating(p)
    PROVE  PendingBacked'
<1>1. CASE UNCHANGED <<lead, req>>  BY <1>1, MarkKept
<1>2. CASE UpdateCommit(p)
  <2>1. lead'.pending = lead.pending /\ lead'.imported = lead.imported
        BY <1>2, UpdateEffect
  <2>2. QED BY <1>2, <2>1, MarkKept DEF UpdateCommit
<1>3. QED BY <1>1, <1>2 DEF Updating, UpdateRead, UpdateMoveRead

LEMMA PendingDeciding ==
    ASSUME TypeOK, PendingBacked, NEW p \in Procs, Deciding(p)
    PROVE  PendingBacked'
<1>1. CASE UNCHANGED <<lead, req>>  BY <1>1, MarkKept
<1>2. CASE DecideCommit(p)
  <2> DEFINE r == op[p].req
             s == req[r].to
  <2>1. r \in Requests  BY <1>2 DEF DecideCommit, At, Handler, TypeOK
  <2>2. s \in Gated \cup {Null}  BY <2>1 DEF Request, TypeOK
  <2>3. CASE s = Null
    <3>1. lead' = lead  BY <1>2, <2>3 DEF DecideCommit
    <3>2. \A q \in Requests \ {r} : req'[q] = req[q]  BY <1>2 DEF DecideCommit, TypeOK
    <3>3. req'[r].to = Null  BY <1>2, <2>1, <2>3 DEF DecideCommit, TypeOK, Request
    <3>4. QED BY <2>1, <2>3, <3>1, <3>2, <3>3 DEF PendingBacked
  <2>4. CASE s # Null
    <3>1. s \in Stages  BY <2>2, <2>4, StagesAssumption
    <3>2. lead' = Denied(lead) \/ lead' = Approved(lead, s)
          BY <1>2, <2>4 DEF DecideCommit
    <3>3. Denied(lead).pending = Null  BY DEF Denied, TypeOK, Lead
    <3>4. Approved(lead, s).pending = Null  BY <3>1, ApprovedType DEF TypeOK
    <3>5. QED BY <3>2, <3>3, <3>4, MarkCleared
  <2>5. QED BY <2>3, <2>4
<1>3. QED BY <1>1, <1>2 DEF Deciding, DecideRead

LEMMA PendingCalling ==
    ASSUME TypeOK, PendingBacked, NEW p \in Procs, Calling(p)
    PROVE  PendingBacked'
<1>1. CASE UNCHANGED <<lead, req>>  BY <1>1, MarkKept
<1>2. CASE CallMoves(p)
  <2>1. lead'.pending = lead.pending /\ lead'.imported = lead.imported
        BY <1>2, CallEffect
  <2>2. QED BY <1>2, <2>1, MarkKept DEF CallMoves
<1>3. ASSUME NEW r \in Requests, CallAsks(p, r) PROVE PendingBacked'
  <2>1. op[p].to \in Gated  BY <1>3 DEF CallAsks
  <2>2. req'[r] = [status |-> "PENDING", to |-> op[p].to]
        BY <1>3, <2>1, InsertType DEF CallAsks, TypeOK
  <2>3. lead'.pending = op[p].to  BY <1>3 DEF CallAsks, TypeOK, Lead
  <2>4. QED BY <2>2, <2>3, MarkRequested
<1>4. QED BY <1>1, <1>2, <1>3 DEF Calling, CallRead

LEMMA PendingStep == TypeOK /\ PendingBacked /\ [Next]_vars => PendingBacked'
<1> SUFFICES ASSUME TypeOK, PendingBacked, [Next]_vars PROVE PendingBacked'  OBVIOUS
<1>1. CASE UNCHANGED <<lead, req>>  BY <1>1, MarkKept
<1>2. ASSUME NEW p \in Procs, Sweeping(p) \/ ClosedModule(p) PROVE PendingBacked'
  <2>1. lead'.pending = lead.pending /\ lead'.imported = lead.imported
        BY <1>2, FlagsEffect
  <2>2. req' = req
        BY <1>2 DEF Sweeping, ClosedModule, SweepRead, SweepCommit, CloseRead, CloseCommit,
                    ReopenRead, ReopenCommit, ReconcileLost, ReconcileFind, ReconcileClose
  <2>3. QED BY <2>1, <2>2, MarkKept
<1>3. ASSUME NEW r \in Requests, RequestAdvance(r) PROVE PendingBacked'
  <2>1. /\ req[r].status = "none"
        /\ req'[r] = [status |-> "PENDING", to |-> Null]
        /\ \A q \in Requests \ {r} : req'[q] = req[q]
        BY <1>3, InsertType DEF RequestAdvance, TypeOK
  <2>2. lead' = lead  BY <1>3 DEF RequestAdvance
  <2>3. QED BY <2>1, <2>2 DEF PendingBacked
<1>4. CASE DeleteLead
  <2>1. lead'.pending = lead.pending /\ lead'.imported = lead.imported
        BY <1>4 DEF DeleteLead, TypeOK, Lead
  <2>2. QED BY <1>4, <2>1, MarkKept DEF DeleteLead
<1>5. CASE PermanentlyDelete
  <2>1. lead'.pending = Null  BY <1>5 DEF PermanentlyDelete, TypeOK, Lead
  <2>2. QED BY <2>1, MarkCleared
<1>6. QED BY <1>1, <1>2, <1>3, <1>4, <1>5, PendingAsking, PendingUpdating,
             PendingDeciding, PendingCalling DEF Next, vars, Crash

(* updateLead refuses to move a pending lead: the lead is never stuck,     *)
(* there is always a request somebody can approve or deny, whatever        *)
(* handlers overlap.  Only a failed import leaves a mark with nothing      *)
(* behind it.                                                              *)
THEOREM PendingHasRequest == Spec => []PendingBacked
<1>1. Init => TypeOK /\ PendingBacked  BY TypeInit, PendingInit
<1>2. TypeOK /\ PendingBacked /\ [Next]_vars => (TypeOK /\ PendingBacked)'
      BY TypeStep, PendingStep
<1>3. QED BY <1>1, <1>2, PTL DEF Spec

-----------------------------------------------------------------------------
(* The gate.  It is not inductive: an update in flight has left its checks *)
(* behind and will move the lead whatever happens meanwhile.  Entitled     *)
(* says that it may, because admissions are never taken back.              *)

Entitled(h) == h.kind = "update" /\ h.moves /\ h.target \in Gated => h.target \in admitted
GateInv == ApprovalGate /\ \A p \in Procs : Entitled(op[p])

LEMMA EntitledKept ==
    ASSUME NEW h, Entitled(h), admitted \subseteq admitted'
    PROVE  Entitled(h)'
BY DEF Entitled

(* A step of one handler: where the lead is, and what the handler becomes. *)
LEMMA GateKept ==
    ASSUME GateInv, NEW p \in Procs, admitted \subseteq admitted',
           lead'.stage = lead.stage \/ lead'.stage \notin Gated \/ lead'.stage \in admitted',
           \A q \in Procs \ {p} : op'[q] = op[q],
           op'[p].kind # "update" \/ ~op'[p].moves \/ op'[p].target \notin Gated
             \/ op'[p].target \in admitted'
    PROVE  GateInv'
<1>1. ApprovalGate'  BY DEF GateInv, ApprovalGate
<1>2. ASSUME NEW q \in Procs PROVE Entitled(op[q])'
  <2>1. CASE q = p  BY <2>1 DEF Entitled
  <2>2. CASE q # p  BY <2>2, EntitledKept DEF GateInv, Entitled
  <2>3. QED BY <2>1, <2>2
<1>3. QED BY <1>1, <1>2 DEF GateInv

LEMMA GateFinished ==
    ASSUME TypeOK, GateInv, NEW p \in Procs, Finish(p), admitted \subseteq admitted',
           lead'.stage = lead.stage \/ lead'.stage \notin Gated \/ lead'.stage \in admitted'
    PROVE  GateInv'
<1>1. op'[p] = Idle /\ \A q \in Procs \ {p} : op'[q] = op[q]
      BY Finished DEF TypeOK
<1>2. op'[p].kind # "update"  BY <1>1 DEF Idle
<1>3. QED BY <1>1, <1>2, GateKept

LEMMA GateOther ==
    ASSUME TypeOK, GateInv, NEW p \in Procs, NEW h \in Handler, Become(p, h),
           h.kind # "update" \/ ~h.moves, lead'.stage = lead.stage, admitted' = admitted
    PROVE  GateInv'
<1>1. op'[p] = h /\ \A q \in Procs \ {p} : op'[q] = op[q]
      BY OpWritten DEF TypeOK
<1>2. QED BY <1>1, GateKept

LEMMA GateInit == Init => GateInv
<1> SUFFICES ASSUME Init PROVE GateInv  OBVIOUS
<1>1. PICK s \in Stages \cup {Null} :
        /\ admitted = {s} \cap Gated
        /\ \/ lead \in {Created(s), ImportedOpen(s)}
           \/ \E to \in Gated : lead = ImportedMarked(s, to)
      BY DEF Init
<1>2. lead.stage = s  BY <1>1, FreshType, MarkedType
<1>3. \A p \in Procs : op[p].kind # "update"  BY DEF Init, Idle
<1>4. QED BY <1>1, <1>2, <1>3 DEF GateInv, ApprovalGate, Entitled

LEMMA GateAsking ==
    ASSUME TypeOK, GateInv, NEW p \in Procs, Asking(p)
    PROVE  GateInv'
<1>1. ASSUME NEW from \in Stages, NEW to \in Gated, Ask(p, from, to) PROVE GateInv'
  <2>1. [kind |-> "ask", from |-> from, to |-> to, update |-> FALSE] \in Handler
        BY DEF Handler
  <2>2. QED BY <1>1, <2>1, GateOther DEF Ask, Begin
<1>2. CASE AskRead(p)
  <2> DEFINE h == [kind |-> "asked", to |-> op[p].to, update |-> op[p].update,
                   marked |-> lead.pending # Null, same |-> lead.stage = op[p].from]
  <2>1. op[p].to \in Gated /\ op[p].update \in BOOLEAN
        BY <1>2 DEF AskRead, At, Handler, TypeOK
  <2>2. h \in Handler  BY <2>1 DEF Handler
  <2>3. QED BY <1>2, <2>2, GateOther DEF AskRead
<1>3. CASE AskFind(p)
  <2>1. /\ op[p].to \in Gated /\ op[p].update \in BOOLEAN
        /\ op[p].same \in BOOLEAN
        BY <1>3 DEF AskFind, At, Handler, TypeOK
  <2>2. [kind |-> "heal", to |-> op[p].to, update |-> op[p].update,
         same |-> op[p].same] \in Handler
        BY <2>1 DEF Handler
  <2>3. [kind |-> "insert", to |-> op[p].to, update |-> op[p].update] \in Handler
        BY <2>1 DEF Handler
  <2>4. QED BY <1>3, <2>2, <2>3, GateOther, GateFinished DEF AskFind
<1>4. CASE AskHeal(p)
  <2>1. op[p].to \in Gated /\ op[p].update \in BOOLEAN
        BY <1>4 DEF AskHeal, At, Handler, TypeOK
  <2>2. [kind |-> "insert", to |-> op[p].to, update |-> op[p].update] \in Handler
        BY <2>1 DEF Handler
  <2>3. lead'.stage = lead.stage  BY <1>4 DEF AskHeal, TypeOK, Lead
  <2>4. QED BY <1>4, <2>2, <2>3, GateOther, GateFinished DEF AskHeal
<1>5. ASSUME NEW r \in Requests, AskInsert(p, r) PROVE GateInv'
  <2>1. op[p].to \in Gated /\ op[p].to \in Stages
        BY <1>5, StagesAssumption DEF AskInsert, At, Handler, TypeOK
  <2>2. CASE op[p].update
    <3> DEFINE h == [kind |-> "update", target |-> op[p].to, moves |-> FALSE]
    <3>1. h \in Handler /\ ~h.moves  BY <2>1 DEF Handler
    <3>2. lead'.stage = lead.stage  BY <1>5 DEF AskInsert, TypeOK, Lead
    <3>3. QED BY <1>5, <2>2, <3>1, <3>2, GateOther DEF AskInsert, AfterAsk
  <2>3. CASE ~op[p].update
    <3>1. lead'.stage = lead.stage  BY <1>5 DEF AskInsert, TypeOK, Lead
    <3>2. QED BY <1>5, <2>3, <3>1, GateFinished DEF AskInsert, AfterAsk, Finish
  <2>4. QED BY <2>2, <2>3
<1>6. QED BY <1>1, <1>2, <1>3, <1>4, <1>5 DEF Asking

LEMMA GateUpdating ==
    ASSUME TypeOK, GateInv, NEW p \in Procs, Updating(p)
    PROVE  GateInv'
<1>1. CASE UpdateRead(p)
  <2>1. [kind |-> "update", target |-> lead.stage, moves |-> FALSE] \in Handler
        BY DEF Handler, Lead, TypeOK
  <2>2. QED BY <1>1, <2>1, GateOther DEF UpdateRead, Begin
<1>2. ASSUME NEW s \in Stages \cup {Null}, NEW free \in BOOLEAN, UpdateMoveRead(p, s, free)
      PROVE  GateInv'
  <2>1. CASE NeedsApproval(s, free)
    <3>1. lead.stage \in Stages /\ s \in Gated
          BY <2>1 DEF NeedsApproval, Lead, TypeOK
    <3>2. [kind |-> "ask", from |-> lead.stage, to |-> s, update |-> TRUE] \in Handler
          BY <3>1 DEF Handler
    <3>3. QED BY <1>2, <2>1, <3>2, GateOther DEF UpdateMoveRead, Begin
  <2>2. CASE ~NeedsApproval(s, free)
    <3> DEFINE h == [kind |-> "update", target |-> s, moves |-> TRUE]
    <3>1. h \in Handler  BY DEF Handler
    <3>2. /\ Become(p, h) /\ lead' = lead
          /\ IF free \/ lead.stage = Null THEN Admit(s) ELSE UNCHANGED admitted
          BY <1>2, <2>2 DEF UpdateMoveRead, Begin
    <3>3. op'[p] = h /\ \A q \in Procs \ {p} : op'[q] = op[q]
          BY <3>1, <3>2, OpWritten DEF TypeOK
    <3>4. s \notin Gated \/ s \in admitted'
          BY <2>2, <3>2 DEF NeedsApproval, Admit, GateInv, ApprovalGate
    <3>5. admitted \subseteq admitted'  BY <3>2 DEF Admit
    <3>6. QED BY <3>2, <3>3, <3>4, <3>5, GateKept
  <2>3. QED BY <2>1, <2>2
<1>3. CASE UpdateCommit(p)
  <2>1. /\ op[p].kind = "update"
        /\ lead'.stage = IF op[p].moves THEN op[p].target ELSE lead.stage
        BY <1>3, UpdateEffect
  <2>2. lead'.stage = lead.stage \/ lead'.stage \notin Gated \/ lead'.stage \in admitted
        BY <2>1 DEF GateInv, Entitled
  <2>3. QED BY <1>3, <2>2, GateFinished DEF UpdateCommit
<1>4. QED BY <1>1, <1>2, <1>3 DEF Updating

LEMMA GateDeciding ==
    ASSUME TypeOK, GateInv, NEW p \in Procs, Deciding(p)
    PROVE  GateInv'
<1>1. ASSUME NEW r \in Requests, NEW approve \in BOOLEAN, DecideRead(p, r, approve)
      PROVE  GateInv'
  <2>1. [kind |-> "decide", req |-> r, approve |-> approve] \in Handler  BY DEF Handler
  <2>2. QED BY <1>1, <2>1, GateOther DEF DecideRead, Begin
<1>2. CASE DecideCommit(p)
  <2> DEFINE s == req[op[p].req].to
  <2>1. op[p].req \in Requests  BY <1>2 DEF DecideCommit, At, Handler, TypeOK
  <2>2. s \in Gated \cup {Null}  BY <2>1 DEF Request, TypeOK
  <2>3. \/ lead' = lead /\ admitted' = admitted
        \/ s # Null /\ lead' = Approved(lead, s) /\ Admit(s)
        \/ lead' = Denied(lead) /\ admitted' = admitted
        BY <1>2 DEF DecideCommit
  <2>4. Denied(lead).stage = lead.stage  BY DEF Denied, TypeOK, Lead
  <2>5. s # Null => s \in Gated /\ Approved(lead, s).stage = s
        BY <2>2, ApprovedType, StagesAssumption DEF TypeOK
  <2>6. /\ admitted \subseteq admitted'
        /\ lead'.stage = lead.stage \/ lead'.stage \in admitted'
        BY <2>3, <2>4, <2>5 DEF Admit
  <2>7. QED BY <1>2, <2>6, GateFinished DEF DecideCommit
<1>3. QED BY <1>1, <1>2 DEF Deciding

LEMMA GateCalling ==
    ASSUME TypeOK, GateInv, NEW p \in Procs, Calling(p)
    PROVE  GateInv'
<1>1. ASSUME NEW s \in Stages, CallRead(p, s) PROVE GateInv'
  <2>1. [kind |-> "call", from |-> lead.stage, to |-> s] \in Handler
        BY DEF Handler, Lead, TypeOK
  <2>2. QED BY <1>1, <2>1, GateOther DEF CallRead, Begin
<1>2. CASE CallMoves(p)  BY <1>2, CallEffect, GateFinished DEF CallMoves
<1>3. ASSUME NEW r \in Requests, CallAsks(p, r) PROVE GateInv'
  <2>1. lead'.stage = lead.stage  BY <1>3 DEF CallAsks, TypeOK, Lead
  <2>2. QED BY <1>3, <2>1, GateFinished DEF CallAsks
<1>4. QED BY <1>1, <1>2, <1>3 DEF Calling

LEMMA GateFlags ==
    ASSUME TypeOK, GateInv, NEW p \in Procs, Sweeping(p) \/ ClosedModule(p)
    PROVE  GateInv'
<1>1. lead'.stage = lead.stage \/ lead'.stage \notin Gated \/ lead'.stage \in admitted'
      BY FlagsEffect
<1>2. admitted \subseteq admitted'
      BY DEF Sweeping, ClosedModule, SweepRead, SweepCommit, CloseRead, CloseCommit, Admit,
             ReopenRead, ReopenCommit, ReconcileLost, ReconcileFind, ReconcileClose
<1>3. Finish(p) \/ \E h \in {[kind |-> k] : k \in {"sweep", "close", "reopen", "reconcile",
                                                    "stale"}} : Become(p, h)
      BY DEF Sweeping, ClosedModule, SweepRead, SweepCommit, CloseRead, CloseCommit, Begin,
             ReopenRead, ReopenCommit, ReconcileLost, ReconcileFind, ReconcileClose
<1>4. CASE Finish(p)  BY <1>1, <1>2, <1>4, GateFinished
<1>5. ASSUME NEW k \in {"sweep", "close", "reopen", "reconcile", "stale"},
             Become(p, [kind |-> k])
      PROVE  GateInv'
  <2>1. [kind |-> k] \in Handler  BY DEF Handler
  <2>2. op'[p] = [kind |-> k] /\ \A q \in Procs \ {p} : op'[q] = op[q]
        BY <1>5, <2>1, OpWritten DEF TypeOK
  <2>3. QED BY <1>1, <1>2, <2>2, GateKept
<1>6. QED BY <1>3, <1>4, <1>5

LEMMA GateStep == TypeOK /\ GateInv /\ [Next]_vars => GateInv'
<1> SUFFICES ASSUME TypeOK, GateInv, [Next]_vars PROVE GateInv'  OBVIOUS
<1>1. ASSUME op' = op, admitted' = admitted,
             lead'.stage = lead.stage \/ lead'.stage \notin Gated
      PROVE  GateInv'
      BY <1>1 DEF GateInv, ApprovalGate, Entitled
<1>2. CASE UNCHANGED vars  BY <1>1, <1>2 DEF vars
<1>3. ASSUME NEW p \in Procs, Crash(p) PROVE GateInv'
      BY <1>3, GateFinished DEF Crash
<1>4. ASSUME NEW r \in Requests, RequestAdvance(r) PROVE GateInv'
      BY <1>1, <1>4 DEF RequestAdvance
<1>5. CASE DeleteLead
  <2>1. lead'.stage = lead.stage  BY <1>5 DEF DeleteLead, TypeOK, Lead
  <2>2. QED BY <1>1, <1>5, <2>1 DEF DeleteLead
<1>6. CASE PermanentlyDelete
  <2>1. lead'.stage \notin Gated
        BY <1>6, StagesAssumption DEF PermanentlyDelete, TypeOK, Lead
  <2>2. QED BY <1>1, <1>6, <2>1 DEF PermanentlyDelete
<1>7. QED BY <1>2, <1>3, <1>4, <1>5, <1>6, GateAsking, GateUpdating, GateDeciding,
             GateCalling, GateFlags DEF Next

(* A stage that needs an approval is entered by the approval, by somebody  *)
(* who needs none, or by the sweep, however long ago a handler did its     *)
(* tests and whatever ran between its tests and its write.                 *)
THEOREM GateHolds == Spec => []ApprovalGate
<1>1. Init => TypeOK /\ GateInv  BY TypeInit, GateInit
<1>2. TypeOK /\ GateInv /\ [Next]_vars => (TypeOK /\ GateInv)'
      BY TypeStep, GateStep
<1>3. GateInv => ApprovalGate  BY DEF GateInv
<1>4. QED BY <1>1, <1>2, <1>3, PTL DEF Spec

=============================================================================
