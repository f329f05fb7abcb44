---------------------------- MODULE Staff_proofs ----------------------------
(***************************************************************************)
(* What holds of a member of staff: his salary record, for every set of    *)
(* stages and days and any number of overlapping requests; and his target  *)
(* lock, for any number of periods, runs of the job and requests.          *)
(***************************************************************************)
EXTENDS Salary, Targets, FiniteSetTheorems, TLAPS

-----------------------------------------------------------------------------
(* Operators the requests are built from.                                  *)

(* The place of a request is written, the others keep theirs.              *)
LEMMA OpWritten ==
    ASSUME op \in [Desks -> Request], NEW w \in Desks, NEW h \in Request, Become(w, h)
    PROVE  /\ op' \in [Desks -> Request]
           /\ op'[w] = h
           /\ \A v \in Desks \ {w} : op'[v] = op[v]
BY DEF Become

LEMMA IdleIsRequest == Idle \in Request
BY DEF Idle, Request

LEMMA Finished ==
    ASSUME op \in [Desks -> Request], NEW w \in Desks, Finish(w)
    PROVE  /\ op' \in [Desks -> Request]
           /\ op'[w] = Idle
           /\ \A v \in Desks \ {w} : op'[v] = op[v]
BY IdleIsRequest, OpWritten DEF Finish

LEMMA Begun ==
    ASSUME op \in [Desks -> Request], NEW w \in Desks, NEW h \in Request, Begin(w, h)
    PROVE  /\ op' \in [Desks -> Request]
           /\ op'[w] = h
           /\ \A v \in Desks \ {w} : op'[v] = op[v]
BY OpWritten DEF Begin

(* What a request keeps is known from its kind.                            *)
LEMMA KeptBy ==
    ASSUME NEW h \in Request
    PROVE  /\ h.kind \in {"generate", "delete"} => h.id \in 0 .. MaxLives
           /\ h.kind = "route" => h.id \in 1 .. MaxLives /\ h.from \in 0 .. MaxOrder
           /\ h.kind = "write" => /\ h.id \in 1 .. MaxLives /\ h.status \in Statuses
                                  /\ h.from \in 0 .. MaxOrder /\ h.order \in Orders
                                  /\ h.to \in SUBSET Stages
           /\ h.kind = "shift" => h.gone \in Orders
           /\ h.kind \notin {"idle", "shift"} => h.id \in 0 .. MaxLives
BY SalaryAssumption DEF Request

(* A record that counts is a record of Record, a blank one counts for none.*)
LEMMA RecordShape ==
    ASSUME record \in Record \cup {Blank}
    PROVE  /\ record # Blank => record \in Record
           /\ record.status # "none" => record \in Record
           /\ record.id = 0 <=> record = Blank
           /\ record.id \in 0 .. MaxLives
BY SalaryAssumption DEF Record, Blank, Statuses

LEMMA DisjointCount ==
    ASSUME NEW S, NEW T, IsFiniteSet(S), IsFiniteSet(T), S \cap T = {}
    PROVE  Cardinality(S \cup T) = Cardinality(S) + Cardinality(T)
<1>1. Cardinality(S \cup T) = Cardinality(S) + Cardinality(T) - Cardinality(S \cap T)
  BY FS_Union
<1>2. Cardinality(S \cap T) = 0
  BY FS_EmptySet
<1>3. Cardinality(S) \in Nat /\ Cardinality(T) \in Nat
  BY FS_CardinalityType
<1>4. QED BY <1>1, <1>2, <1>3

(* The days of a month that are paid are at most the days of the month.    *)
LEMMA DaysCounted ==
    ASSUME NEW att \in [Days -> Kinds], NEW hol \in [Days -> 0 .. 2]
    PROVE  LET credited == AttendanceOf(att) + HolidaysBeside(att, hol)
           IN  credited \in Nat /\ credited <= 2 * Cardinality(Days)
<1> DEFINE full == {d \in Days : att[d] = "full"}
           half == {d \in Days : att[d] = "half"}
           free == {d \in Days : hol[d] > 0 /\ att[d] = "none"}
<1>1. IsFiniteSet(Days)
  BY SalaryAssumption
<1>2. /\ full \in SUBSET Days /\ half \in SUBSET Days /\ free \in SUBSET Days
      /\ full \cup half \in SUBSET Days /\ (full \cup half) \cup free \in SUBSET Days
  OBVIOUS
<1>3. full \cap half = {} /\ (full \cup half) \cap free = {}
  OBVIOUS
<1>4. /\ IsFiniteSet(full) /\ IsFiniteSet(half) /\ IsFiniteSet(free) /\ IsFiniteSet(full \cup half)
      /\ Cardinality((full \cup half) \cup free) <= Cardinality(Days)
  BY <1>1, <1>2, FS_Subset
<1>5. /\ Cardinality(full) \in Nat /\ Cardinality(half) \in Nat /\ Cardinality(free) \in Nat
      /\ Cardinality(full \cup half) \in Nat /\ Cardinality(Days) \in Nat
      /\ Cardinality((full \cup half) \cup free) \in Nat
  <2>1. IsFiniteSet((full \cup half) \cup free)
    BY <1>1, <1>2, FS_Subset
  <2>2. QED BY <1>1, <1>4, <2>1, FS_CardinalityType
<1>6. Cardinality(full \cup half) = Cardinality(full) + Cardinality(half)
  BY <1>3, <1>4, DisjointCount
<1>7. Cardinality((full \cup half) \cup free) = Cardinality(full \cup half) + Cardinality(free)
  BY <1>3, <1>4, DisjointCount
<1>8. /\ AttendanceOf(att) = 2 * Cardinality(full) + Cardinality(half)
      /\ HolidaysBeside(att, hol) = 2 * Cardinality(free)
  BY DEF AttendanceOf, DaysOf, HolidaysBeside
<1> HIDE DEF full, half, free
<1>9. QED BY <1>4, <1>5, <1>6, <1>7, <1>8

-----------------------------------------------------------------------------
(* The shape of the state is kept, action by action.                       *)

OpIds == \A w \in Desks : op[w].kind \notin {"idle", "shift"} => op[w].id <= lives

(* A request that is written keeps the shape of the rest.                  *)
LEMMA TypeOfRequest ==
    ASSUME TypeOK, NEW w \in Desks, NEW h \in Request, Become(w, h),
           h.kind \notin {"idle", "shift"} => h.id <= lives,
           UNCHANGED <<record, Life, Config>>
    PROVE  TypeOK'
<1>1. op' \in [Desks -> Request] /\ op'[w] = h /\ \A v \in Desks \ {w} : op'[v] = op[v]
  BY OpWritten DEF TypeOK
<1>2. OpIds'
  BY <1>1 DEF TypeOK, OpIds, Life
<1>3. QED BY <1>1, <1>2 DEF TypeOK, OpIds, Life, Config, Active, Present

LEMMA TypeReads ==
    ASSUME TypeOK, NEW w \in Desks,
           \/ GenerateRead(w) \/ Submit(w) \/ Approve(w) \/ DeleteRead(w)
           \/ \E status \in {"REJECTED", "RETURNED"} : Refuse(w, status)
    PROVE  TypeOK'
<1>0. record \in Record \cup {Blank} /\ record.id <= lives
  BY DEF TypeOK
<1>1. CASE GenerateRead(w)
  <2>1. [kind |-> "generate", id |-> record.id] \in Request
    BY <1>0, RecordShape DEF Request
  <2>2. QED BY <1>0, <1>1, <2>1, TypeOfRequest DEF GenerateRead, Begin
<1>2. CASE Submit(w)
  <2>1. record \in Record
    BY <1>0, <1>2, RecordShape DEF Submit
  <2>2. [kind |-> "route", id |-> record.id, from |-> 0] \in Request
    BY <2>1, SalaryAssumption DEF Request, Record
  <2>3. QED BY <1>0, <1>2, <2>2, TypeOfRequest DEF Submit, Begin
<1>3. CASE Approve(w)
  <2>1. record \in Record
    BY <1>0, <1>3, RecordShape DEF Approve
  <2>2. [kind |-> "route", id |-> record.id, from |-> record.order] \in Request
    BY <2>1, SalaryAssumption DEF Request, Record, Orders
  <2>3. QED BY <1>0, <1>3, <2>2, TypeOfRequest DEF Approve, Begin
<1>4. CASE DeleteRead(w)
  <2>1. [kind |-> "delete", id |-> record.id] \in Request
    BY <1>0, RecordShape DEF Request
  <2>2. QED BY <1>0, <1>4, <2>1, TypeOfRequest DEF DeleteRead, Begin
<1>5. ASSUME NEW status \in {"REJECTED", "RETURNED"}, Refuse(w, status)
      PROVE  TypeOK'
  <2>1. record \in Record
    BY <1>0, <1>5, RecordShape DEF Refuse
  <2>2. [kind |-> "write", id |-> record.id, status |-> status, from |-> 0,
         order |-> record.order, to |-> {}] \in Request
    BY <2>1, SalaryAssumption DEF Request, Record, Statuses
  <2>3. QED BY <1>0, <1>5, <2>2, TypeOfRequest DEF Refuse, Begin
<1>6. QED BY <1>1, <1>2, <1>3, <1>4, <1>5

LEMMA TypeRoute ==
    ASSUME TypeOK, NEW w \in Desks, Route(w)
    PROVE  TypeOK'
<1> DEFINE h == op[w]
<1>1. h \in Request /\ h.kind = "route" /\ h.id <= lives
  BY DEF TypeOK, Route, At
<1>2. h.id \in 1 .. MaxLives /\ h.from \in 0 .. MaxOrder
  BY <1>1, KeptBy
<1> DEFINE done == [kind |-> "write", id |-> h.id, status |-> "APPROVED", from |-> h.from,
                    order |-> IF h.from = 0 THEN 1 ELSE h.from, to |-> {}]
           on(s) == [kind |-> "write", id |-> h.id, status |-> "PENDING_APPROVAL",
                     from |-> h.from, order |-> stage[s].order, to |-> {s}]
<1>3. (IF h.from = 0 THEN 1 ELSE h.from) \in Orders
  BY <1>2, SalaryAssumption DEF Orders
<1>4. done \in Request
  BY <1>2, <1>3 DEF Request, Statuses
<1>5. ASSUME NEW s \in Above(h.from)
      PROVE  on(s) \in Request
  <2>1. s \in Stages /\ stage[s].order \in Orders
    BY <1>2, <1>5 DEF Above, Active, Present, TypeOK, Orders
  <2>2. QED BY <1>2, <2>1 DEF Request, Statuses
<1>6. done.kind = "write" /\ done.id = h.id /\ \A s : on(s).kind = "write" /\ on(s).id = h.id
  OBVIOUS
<1>7. /\ UNCHANGED <<record, Life, Config>>
      /\ Become(w, done) \/ \E s \in Above(h.from) : Become(w, on(s))
  BY DEF Route
<1> HIDE DEF done, on, h
<1>8. QED BY <1>1, <1>4, <1>5, <1>6, <1>7, TypeOfRequest

LEMMA TypeGenerate ==
    ASSUME TypeOK, NEW w \in Desks, NEW att \in [Days -> Kinds], NEW hol \in [Days -> 0 .. 2],
           Generate(w, att, hol)
    PROVE  TypeOK'
<1> DEFINE credited == AttendanceOf(att) + HolidaysBeside(att, hol)
<1>1. credited \in Nat
  BY DaysCounted
<1>2. LossOfPay(credited) \in 0 .. 2 * WorkingDays
  BY <1>1, SalaryAssumption DEF LossOfPay
<1> HIDE DEF credited
<1>3. ASSUME NEW id \in 1 .. MaxLives
      PROVE  Generated(id, credited) \in Record /\ Generated(id, credited).id = id
  BY <1>1, <1>2, SalaryAssumption DEF Generated, Record, Statuses, Orders
<1>4. /\ op' \in [Desks -> Request] /\ op'[w] = Idle /\ \A v \in Desks \ {w} : op'[v] = op[v]
      /\ UNCHANGED Config
  BY Finished DEF TypeOK, Generate
<1>5. CASE UNCHANGED <<record, lives, passed>>
  <2>1. OpIds'
    BY <1>4, <1>5 DEF TypeOK, OpIds, Idle
  <2>2. QED BY <1>4, <1>5, <2>1 DEF TypeOK, OpIds, Config, Active, Present
<1>6. CASE /\ record = Blank /\ lives < MaxLives
           /\ record' = Generated(lives + 1, credited) /\ lives' = lives + 1 /\ passed' = {}
  <2>1. lives' \in 1 .. MaxLives /\ lives \in 0 .. MaxLives /\ lives <= lives'
    BY <1>6, SalaryAssumption DEF TypeOK
  <2>2. record' \in Record /\ record'.id <= lives'
    BY <1>3, <1>6, <2>1
  <2>3. OpIds'
    <3>1. \A v \in Desks : op[v].kind \notin {"idle", "shift"} => op[v].id \in 0 .. MaxLives
      BY KeptBy DEF TypeOK
    <3>2. QED BY <1>4, <2>1, <3>1 DEF TypeOK, OpIds, Idle
  <2>4. QED BY <1>4, <1>6, <2>1, <2>2, <2>3 DEF TypeOK, OpIds, Config, Active, Present
<1>7. CASE /\ record # Blank /\ record' = Generated(record.id, credited)
           /\ UNCHANGED <<lives, passed>>
  <2>1. record.id \in 1 .. MaxLives /\ record.id <= lives
    BY <1>7, RecordShape DEF TypeOK, Record
  <2>2. record' \in Record /\ record'.id <= lives'
    BY <1>3, <1>7, <2>1
  <2>3. OpIds'
    BY <1>4, <1>7 DEF TypeOK, OpIds, Idle
  <2>4. QED BY <1>4, <1>7, <2>2, <2>3 DEF TypeOK, OpIds, Config, Active, Present
<1>8. QED BY <1>5, <1>6, <1>7 DEF Generate, credited

LEMMA TypeWrites ==
    ASSUME TypeOK, NEW w \in Desks, Write(w) \/ Delete(w)
    PROVE  TypeOK'
<1>1. /\ op' \in [Desks -> Request] /\ op'[w] = Idle /\ \A v \in Desks \ {w} : op'[v] = op[v]
      /\ UNCHANGED <<lives, Config>>
  BY Finished DEF TypeOK, Write, Delete, Life
<1>2. OpIds'
  BY <1>1 DEF TypeOK, OpIds, Idle
<1>3. record' \in Record \cup {Blank} /\ record'.id <= lives /\ passed' \subseteq 0 .. MaxOrder
  <2>1. CASE Write(w)
    <3> DEFINE h == op[w]
    <3>1. h \in Request /\ h.kind = "write"
      BY <2>1 DEF TypeOK, Write, At
    <3>2. /\ h.id \in 1 .. MaxLives /\ h.status \in Statuses
          /\ h.from \in 0 .. MaxOrder /\ h.order \in Orders
      BY <3>1, KeptBy
    <3>3. CASE h.id # record.id \/ \E s \in h.to : ~Present(s)
      BY <2>1, <3>3 DEF TypeOK, Write
    <3>4. CASE ~(h.id # record.id \/ \E s \in h.to : ~Present(s))
      <4>1. record \in Record
        BY <3>2, <3>4, RecordShape DEF TypeOK, Blank
      <4>2. record' = [record EXCEPT !.status = h.status,
                         !.order = IF h.status \in {"REJECTED", "RETURNED"} THEN @ ELSE h.order]
        BY <2>1, <3>4 DEF Write
      <4>3. record' \in Record /\ record'.id = record.id
        <5> DEFINE o == IF h.status \in {"REJECTED", "RETURNED"} THEN record.order ELSE h.order
        <5>1. o \in Orders
          BY <3>2, <4>1 DEF Record
        <5>2. record' = [record EXCEPT !.status = h.status, !.order = o]
          BY <4>1, <4>2 DEF Record
        <5> HIDE DEF o, h
        <5>3. QED BY <3>2, <4>1, <5>1, <5>2 DEF Record
      <4>4. passed' \subseteq 0 .. MaxOrder
        BY <2>1, <3>2, <3>4 DEF Write, TypeOK
      <4>5. QED BY <4>3, <4>4 DEF TypeOK
    <3>5. QED BY <3>3, <3>4
  <2>2. CASE Delete(w)
    BY <2>2, SalaryAssumption DEF Delete, TypeOK, Life, Blank
  <2>3. QED BY <2>1, <2>2
<1>4. QED BY <1>1, <1>2, <1>3 DEF TypeOK, OpIds, Config, Active, Present

LEMMA TypeEdits ==
    ASSUME TypeOK, NEW s \in Stages, NEW o \in Orders, NEW active \in BOOLEAN,
           CreateStage(s, o, active) \/ UpdateStage(s, o, active)
    PROVE  TypeOK'
<1>1. /\ stage' = [stage EXCEPT ![s] = [order |-> o, active |-> active]]
      /\ o = stage[s].order \/ ~Taken(o)
      /\ edits' \in 0 .. MaxEdits /\ steady' = steady \ {s}
      /\ UNCHANGED <<record, op, Life>>
  BY SalaryAssumption DEF CreateStage, UpdateStage, Edit, TypeOK
<1>2. /\ stage' \in [Stages -> [order : 0 .. MaxOrder, active : BOOLEAN]]
      /\ stage'[s].order = o /\ \A t \in Stages \ {s} : stage'[t] = stage[t]
  BY <1>1, SalaryAssumption DEF TypeOK, Orders
<1>3. \A t \in Stages \ {s} : Present(t) => stage[t].order # o
  BY <1>1 DEF Taken, TypeOK, Present
<1>4. \A t, u \in Stages : t # u /\ Present(t)' => stage'[t].order # stage'[u].order
  <2>1. o > 0
    BY DEF Orders
  <2>2. \A t \in Stages \ {s} : stage[t].order # o
    BY <1>3, <2>1 DEF Present
  <2>3. QED BY <1>2, <2>2 DEF TypeOK, Present
<1>5. steady' \subseteq Active'
  BY <1>1, <1>2 DEF TypeOK, Active, Present
<1>6. OpIds'
  BY <1>1 DEF TypeOK, OpIds, Life
<1>7. QED BY <1>1, <1>2, <1>4, <1>5, <1>6 DEF TypeOK, OpIds, Life

LEMMA TypeDeleteStage ==
    ASSUME TypeOK, NEW w \in Desks, NEW s \in Stages, DeleteStage(w, s)
    PROVE  TypeOK'
<1>1. /\ stage' = [stage EXCEPT ![s] = [order |-> 0, active |-> FALSE]]
      /\ edits' \in 0 .. MaxEdits /\ steady' = steady \ {s}
      /\ UNCHANGED <<record, Life>>
  BY SalaryAssumption DEF DeleteStage, Edit, TypeOK
<1>2. /\ stage' \in [Stages -> [order : 0 .. MaxOrder, active : BOOLEAN]]
      /\ stage'[s].order = 0 /\ \A t \in Stages \ {s} : stage'[t] = stage[t]
  BY <1>1, SalaryAssumption DEF TypeOK
<1>3. \A t, u \in Stages : t # u /\ Present(t)' => stage'[t].order # stage'[u].order
  BY <1>2 DEF TypeOK, Present
<1>4. steady' \subseteq Active'
  BY <1>1, <1>2 DEF TypeOK, Active, Present
<1>5. [kind |-> "shift", gone |-> stage[s].order] \in Request
  BY SalaryAssumption DEF DeleteStage, Present, TypeOK, Request, Orders
<1>6. op' \in [Desks -> Request] /\ op'[w].kind = "shift" /\ \A v \in Desks \ {w} : op'[v] = op[v]
  BY <1>5, Begun DEF TypeOK, DeleteStage
<1>7. OpIds'
  BY <1>1, <1>6 DEF TypeOK, OpIds, Life
<1>8. QED BY <1>1, <1>2, <1>3, <1>4, <1>6, <1>7 DEF TypeOK, OpIds, Life

LEMMA TypeShift ==
    ASSUME TypeOK, NEW w \in Desks, ShiftStages(w)
    PROVE  TypeOK'
<1> DEFINE gone   == op[w].gone
           higher == {s \in Stages : stage[s].order > gone}
<1>1. gone \in Orders
  BY KeptBy DEF TypeOK, ShiftStages, At
<1>2. /\ op' \in [Desks -> Request] /\ op'[w] = Idle /\ \A v \in Desks \ {w} : op'[v] = op[v]
      /\ UNCHANGED <<record, Life, edits>>
  BY Finished DEF TypeOK, ShiftStages
<1>3. OpIds'
  BY <1>2 DEF TypeOK, OpIds, Idle, Life
<1>4. CASE UNCHANGED <<stage, steady>>
  BY <1>2, <1>3, <1>4 DEF TypeOK, OpIds, Life, Active, Present
<1>5. CASE /\ ~(Taken(gone) /\ Taken(gone + 1))
           /\ stage' = [s \in Stages |-> IF s \in higher
                                         THEN [stage[s] EXCEPT !.order = @ - 1] ELSE stage[s]]
           /\ steady' = steady \ higher
  <2>1. \A s \in Stages : /\ stage[s].order \in 0 .. MaxOrder /\ stage[s].active \in BOOLEAN
                          /\ stage[s] \in [order : 0 .. MaxOrder, active : BOOLEAN]
    BY DEF TypeOK
  <2>2. \A s \in higher : stage'[s] = [stage[s] EXCEPT !.order = stage[s].order - 1]
    BY <1>5
  <2>3. \A s \in Stages \ higher : stage'[s] = stage[s]
    BY <1>5
  <2>4. \A s \in higher : /\ stage[s].order - 1 \in 0 .. MaxOrder /\ stage[s].order - 1 >= gone
                          /\ stage[s].order > gone
    BY <1>1, <2>1, SalaryAssumption DEF Orders
  <2>5. \A s \in higher : /\ stage'[s].order = stage[s].order - 1
                          /\ stage'[s] \in [order : 0 .. MaxOrder, active : BOOLEAN]
    BY <2>1, <2>2, <2>4
  <2>6. stage' \in [Stages -> [order : 0 .. MaxOrder, active : BOOLEAN]]
    BY <1>5, <2>1, <2>3, <2>5
  <2>7. \A s, t \in Stages : s # t /\ Present(s)' => stage'[s].order # stage'[t].order
    <3> SUFFICES ASSUME NEW s \in Stages, NEW t \in Stages, s # t, Present(s)',
                        stage'[s].order = stage'[t].order
                 PROVE  FALSE
      OBVIOUS
    <3>0. stage[s].order \in Nat /\ stage[t].order \in Nat /\ gone \in Nat \ {0}
      BY <1>1, <2>1, SalaryAssumption DEF Orders
    <3>1. CASE s \in higher /\ t \in higher
      BY <2>5, <3>0, <3>1 DEF TypeOK, Present
    <3>2. CASE s \notin higher /\ t \notin higher
      BY <2>3, <3>2 DEF TypeOK, Present
    <3>3. ASSUME NEW a \in Stages, NEW b \in Stages, a \in higher, b \notin higher,
                 stage'[a].order = stage'[b].order
          PROVE  FALSE
      <4>1. /\ stage[b].order = stage[a].order - 1 /\ stage[b].order <= gone
            /\ stage[a].order \in Nat /\ stage[b].order \in Nat
        BY <2>1, <2>3, <2>5, <3>3, <3>0
      <4>2. stage[b].order = gone /\ stage[a].order = gone + 1
        BY <2>4, <3>0, <3>3, <4>1
      <4>3. QED BY <1>5, <4>2 DEF Taken
    <3>4. QED BY <3>1, <3>2, <3>3
  <2>8. steady' \subseteq Active'
    BY <1>5, <2>3 DEF TypeOK, Active, Present
  <2>9. QED BY <1>2, <1>3, <2>6, <2>7, <2>8 DEF TypeOK, OpIds, Life
<1>6. QED BY <1>4, <1>5 DEF ShiftStages

LEMMA TypeInit == Init => TypeOK
<1> SUFFICES ASSUME Init PROVE TypeOK
  OBVIOUS
<1>1. record \in Record \cup {Blank} /\ record.id <= lives
  BY DEF Init, Blank
<1>2. op \in [Desks -> Request] /\ \A w \in Desks : op[w].kind = "idle"
  BY IdleIsRequest DEF Init, Idle
<1>3. QED BY <1>1, <1>2, SalaryAssumption DEF Init, TypeOK

LEMMA TypeStep == TypeOK /\ [Next]_vars => TypeOK'
<1> SUFFICES ASSUME TypeOK, [Next]_vars PROVE TypeOK'
  OBVIOUS
<1>1. CASE UNCHANGED vars
  BY <1>1 DEF vars, TypeOK, Active, Present
<1>2. QED BY <1>1, TypeReads, TypeRoute, TypeWrites, TypeGenerate, TypeEdits,
             TypeDeleteStage, TypeShift DEF Next

(* The record, the stages and the requests keep their shape: no two stages *)
(* share an order, whichever are created, moved and shifted at once.       *)
THEOREM TypeCorrect == Spec => []TypeOK
BY TypeInit, TypeStep, PTL DEF Spec

-----------------------------------------------------------------------------
(* Days: what a record credits was counted when it was generated.          *)

DaysInv == TypeOK /\ NoDayPaidTwice

LEMMA DaysKept ==
    ASSUME record' = record
    PROVE  NoDayPaidTwice => NoDayPaidTwice'
BY DEF NoDayPaidTwice

LEMMA DaysGenerate ==
    ASSUME TypeOK, NoDayPaidTwice, NEW w \in Desks, NEW att \in [Days -> Kinds],
           NEW hol \in [Days -> 0 .. 2], Generate(w, att, hol)
    PROVE  NoDayPaidTwice'
<1> DEFINE credited == AttendanceOf(att) + HolidaysBeside(att, hol)
<1>1. credited <= 2 * Cardinality(Days)
  BY DaysCounted
<1>2. \A id : Generated(id, credited).credited = credited
  BY DEF Generated
<1>3. record' = record \/ \E id : record' = Generated(id, credited)
  BY DEF Generate
<1> HIDE DEF credited
<1>4. QED BY <1>1, <1>2, <1>3 DEF NoDayPaidTwice

LEMMA DaysWrites ==
    ASSUME TypeOK, NoDayPaidTwice, NEW w \in Desks, Write(w) \/ Delete(w)
    PROVE  NoDayPaidTwice'
<1>1. CASE Write(w)
  <2>1. op[w].id # 0
    BY <1>1, KeptBy DEF TypeOK, Write, At
  <2>2. record' = record \/ (record \in Record /\ record'.credited = record.credited)
    <3>1. CASE record = Blank
      BY <1>1, <2>1, <3>1 DEF Write, Blank
    <3>2. CASE record \in Record
      BY <1>1, <3>2 DEF Write, Record
    <3>3. QED BY <3>1, <3>2 DEF TypeOK
  <2>3. record \in Record => record # Blank
    BY SalaryAssumption DEF Record, Blank
  <2>4. QED BY <2>2, <2>3 DEF NoDayPaidTwice
<1>2. CASE Delete(w)
  BY <1>2 DEF Delete, NoDayPaidTwice
<1>3. QED BY <1>1, <1>2

LEMMA DaysStep == DaysInv /\ [Next]_vars => DaysInv'
<1> SUFFICES ASSUME DaysInv, [Next]_vars PROVE NoDayPaidTwice'
  BY TypeStep DEF DaysInv
<1> USE DEF DaysInv
<1>1. CASE UNCHANGED vars
  BY <1>1, DaysKept DEF vars
<1>2. ASSUME NEW w \in Desks,
             \/ GenerateRead(w) \/ Submit(w) \/ Approve(w) \/ Route(w) \/ DeleteRead(w)
             \/ \E status \in {"REJECTED", "RETURNED"} : Refuse(w, status)
             \/ ShiftStages(w) \/ \E s \in Stages : DeleteStage(w, s)
      PROVE  NoDayPaidTwice'
  BY <1>2, DaysKept DEF GenerateRead, Submit, Approve, Route, DeleteRead, Refuse,
     ShiftStages, DeleteStage
<1>3. ASSUME NEW s \in Stages, NEW o \in Orders, NEW active \in BOOLEAN,
             CreateStage(s, o, active) \/ UpdateStage(s, o, active)
      PROVE  NoDayPaidTwice'
  BY <1>3, DaysKept DEF CreateStage, UpdateStage
<1>4. QED BY <1>1, <1>2, <1>3, DaysGenerate, DaysWrites DEF Next

(* A salary never credits a day twice, for any month and any holidays.     *)
THEOREM DaysPaidOnce == Spec => []NoDayPaidTwice
<1>1. Init => DaysInv
  BY TypeInit DEF Init, DaysInv, NoDayPaidTwice
<1>2. QED BY <1>1, DaysStep, PTL DEF Spec, DaysInv

-----------------------------------------------------------------------------
(* Stages: everything steady below the stage a record stands at has passed *)
(* it, and every request that would move the record knows that much.       *)

ClearBelow(o, done) == \A s \in steady : stage[s].order < o => stage[s].order \in done
ClearAll(done)      == \A s \in steady : stage[s].order \in done

RequestClear(h) ==
    /\ h.kind = "route" => ClearBelow(h.from, passed)
    /\ h.kind = "write" /\ h.status = "PENDING_APPROVAL" =>
          ClearBelow(h.order, passed \cup {h.from})
    /\ h.kind = "write" /\ h.status = "APPROVED" => ClearAll(passed \cup {h.from})

Moves(h)     == h.kind \in {"route", "write"} /\ h.id = record.id
RecordClear  == record.status = "PENDING_APPROVAL" => ClearBelow(record.order, passed)
RequestsClear == \A w \in Desks : Moves(op[w]) => RequestClear(op[w])

StagesInv == TypeOK /\ NoStageSkipped /\ RecordClear /\ RequestsClear

(* Nothing steady is moved: what is steady afterwards was steady before,   *)
(* at the same order.                                                      *)
SteadyKept == steady' \subseteq steady /\ \A s \in steady' : stage'[s].order = stage[s].order

LEMMA SteadyOrders ==
    ASSUME TypeOK, NEW s \in steady
    PROVE  s \in Active /\ stage[s].order \in 1 .. MaxOrder
BY SalaryAssumption DEF TypeOK, Active, Present

(* No request stands for a record that is not there.                       *)
LEMMA BlankMoves ==
    ASSUME TypeOK, NEW w \in Desks, op[w].kind \in {"route", "write"}
    PROVE  op[w].id \in 1 .. lives
BY KeptBy DEF TypeOK

(* A step that leaves the record be, or deletes it, keeps the invariant as *)
(* long as the request it writes is clear.                                 *)
LEMMA StagesCalm ==
    ASSUME StagesInv, TypeOK', SteadyKept, passed' = passed,
           record' = record \/ record' = Blank,
           NEW w \in Desks, \A v \in Desks \ {w} : op'[v] = op[v],
           Moves(op[w])' => RequestClear(op[w])'
    PROVE  StagesInv'
<1>1. (NoStageSkipped /\ RecordClear)'
  <2>1. CASE record' = record
    BY <2>1 DEF StagesInv, NoStageSkipped, RecordClear, SteadyKept, ClearBelow
  <2>2. CASE record' = Blank
    BY <2>2 DEF NoStageSkipped, RecordClear, Blank
  <2>3. QED BY <2>1, <2>2
<1>2. ASSUME NEW v \in Desks \ {w}, Moves(op[v])'
      PROVE  RequestClear(op[v])'
  <2>1. op'[v] = op[v] /\ op[v].kind \in {"route", "write"} /\ op[v].id = record'.id
    BY <1>2 DEF Moves
  <2>2. record' = record
    BY <2>1, BlankMoves DEF StagesInv, Blank
  <2>3. RequestClear(op[v])
    BY <2>1, <2>2 DEF StagesInv, RequestsClear, Moves
  <2>4. QED BY <2>1, <2>3 DEF RequestClear, SteadyKept, ClearBelow, ClearAll
<1>3. QED BY <1>1, <1>2 DEF StagesInv, RequestsClear

LEMMA StagesReads ==
    ASSUME StagesInv, TypeOK', NEW w \in Desks,
           \/ GenerateRead(w) \/ Submit(w) \/ Approve(w) \/ DeleteRead(w) \/ Delete(w)
           \/ \E status \in {"REJECTED", "RETURNED"} : Refuse(w, status)
    PROVE  StagesInv'
<1>1. /\ SteadyKept /\ passed' = passed
      /\ record' = record \/ record' = Blank
      /\ \A v \in Desks \ {w} : op'[v] = op[v]
  BY DEF GenerateRead, Submit, Approve, DeleteRead, Delete, Refuse, Begin, Finish, Become,
     Config, Life, SteadyKept, StagesInv, TypeOK
<1>2. Moves(op[w])' => RequestClear(op[w])'
  <2>1. CASE GenerateRead(w) \/ DeleteRead(w) \/ Delete(w)
    <3>1. op'[w].kind \in {"generate", "delete", "idle"}
      BY <2>1 DEF GenerateRead, DeleteRead, Delete, Begin, Finish, Become, Idle, StagesInv, TypeOK
    <3>2. QED BY <3>1 DEF Moves
  <2>2. CASE Submit(w)
    <3>1. op'[w].kind = "route" /\ op'[w].from = 0
      BY <2>2 DEF Submit, Begin, Become, StagesInv, TypeOK
    <3>2. \A s \in steady' : stage'[s].order \in 1 .. MaxOrder
      <4>1. \A s \in steady : stage[s].order \in 1 .. MaxOrder
        BY SteadyOrders DEF StagesInv
      <4>2. QED BY <1>1, <4>1 DEF SteadyKept
    <3>3. QED BY <3>1, <3>2, SalaryAssumption DEF RequestClear, ClearBelow
  <2>3. CASE Approve(w)
    <3>1. /\ op'[w].kind = "route" /\ op'[w].from = record.order
          /\ record.status = "PENDING_APPROVAL" /\ UNCHANGED <<stage, steady, passed>>
      BY <2>3 DEF Approve, Begin, Become, StagesInv, TypeOK, Config, Life
    <3>2. QED BY <3>1 DEF RequestClear, ClearBelow, StagesInv, RecordClear
  <2>4. ASSUME NEW status \in {"REJECTED", "RETURNED"}, Refuse(w, status)
        PROVE  RequestClear(op[w])'
    <3>1. op'[w].kind = "write" /\ op'[w].status = status
      BY <2>4 DEF Refuse, Begin, Become, StagesInv, TypeOK
    <3>2. QED BY <3>1 DEF RequestClear
  <2>5. QED BY <2>1, <2>2, <2>3, <2>4
<1>3. TypeOK /\ (record' = record \/ record' = Blank)
  BY <1>1 DEF StagesInv
<1>4. QED BY <1>1, <1>2, <1>3, StagesCalm

LEMMA StagesRoute ==
    ASSUME StagesInv, TypeOK', NEW w \in Desks, Route(w)
    PROVE  StagesInv'
<1> DEFINE h == op[w]
           next == Above(h.from)
<1>1. /\ SteadyKept /\ passed' = passed /\ steady' = steady /\ stage' = stage
      /\ record' = record
      /\ \A v \in Desks \ {w} : op'[v] = op[v]
  BY DEF Route, Become, Config, Life, SteadyKept, StagesInv, TypeOK
<1>2. h \in Request /\ h.kind = "route" /\ h.from \in 0 .. MaxOrder
  BY KeptBy DEF StagesInv, TypeOK, Route, At
<1>3. /\ \A s \in steady : s \in Active /\ stage[s].order \in 1 .. MaxOrder
      /\ \A s \in Active : s \in Stages /\ stage[s].order \in 0 .. MaxOrder
  BY SteadyOrders DEF StagesInv, Active, TypeOK
<1>4. ASSUME h.id = record.id
      PROVE  \A s \in steady : stage[s].order <= h.from => stage[s].order \in passed \cup {h.from}
  <2>1. ClearBelow(h.from, passed)
    BY <1>2, <1>4 DEF StagesInv, RequestsClear, RequestClear, Moves
  <2>2. QED BY <1>2, <1>3, <2>1, SalaryAssumption DEF ClearBelow
<1>5. Moves(op[w])' => RequestClear(op[w])'
  <2>1. CASE /\ next = {}
             /\ op'[w].kind = "write" /\ op'[w].status = "APPROVED"
             /\ op'[w].id = h.id /\ op'[w].from = h.from
    <3>1. \A s \in steady : stage[s].order <= h.from
      BY <1>2, <1>3, <2>1, SalaryAssumption DEF Above
    <3> HIDE DEF h, next
    <3>2. QED BY <1>1, <1>4, <2>1, <3>1 DEF Moves, RequestClear, ClearAll
  <2>2. ASSUME NEW s \in next, \A t \in next : stage[s].order <= stage[t].order,
               op'[w].kind = "write", op'[w].status = "PENDING_APPROVAL",
               op'[w].id = h.id, op'[w].from = h.from, op'[w].order = stage[s].order
        PROVE  Moves(op[w])' => RequestClear(op[w])'
    <3>1. \A t \in steady : stage[t].order < stage[s].order => stage[t].order <= h.from
      BY <1>2, <1>3, <2>2, SalaryAssumption DEF Above
    <3> HIDE DEF h, next
    <3>2. QED BY <1>1, <1>4, <2>2, <3>1 DEF Moves, RequestClear, ClearBelow
  <2>3. QED
    <3>1. op \in [Desks -> Request]
      BY DEF StagesInv, TypeOK
    <3>2. QED BY <2>1, <2>2, <3>1 DEF Route, Become
<1>6. TypeOK /\ (record' = record \/ record' = Blank)
  BY <1>1 DEF StagesInv
<1>7. QED BY <1>1, <1>5, <1>6, StagesCalm

LEMMA StagesEdits ==
    ASSUME StagesInv, TypeOK',
           \/ \E s \in Stages, o \in Orders, active \in BOOLEAN :
                 CreateStage(s, o, active) \/ UpdateStage(s, o, active)
           \/ \E w \in Desks : ShiftStages(w) \/ \E s \in Stages : DeleteStage(w, s)
    PROVE  StagesInv'
<1>0. TypeOK
  BY DEF StagesInv
<1>1. SteadyKept
  <2>0. \A s \in steady : s \in Stages /\ stage[s].order > 0
    BY <1>0, SteadyOrders DEF TypeOK, Active
  <2>1. ASSUME NEW s \in Stages, NEW o \in Orders, NEW active \in BOOLEAN,
               CreateStage(s, o, active) \/ UpdateStage(s, o, active)
        PROVE  SteadyKept
    BY <1>0, <2>0, <2>1 DEF CreateStage, UpdateStage, Edit, SteadyKept, TypeOK
  <2>2. ASSUME NEW w \in Desks, NEW s \in Stages, DeleteStage(w, s)
        PROVE  SteadyKept
    BY <1>0, <2>0, <2>2 DEF DeleteStage, Edit, SteadyKept, TypeOK
  <2>3. ASSUME NEW w \in Desks, ShiftStages(w)
        PROVE  SteadyKept
    BY <1>0, <2>0, <2>3 DEF ShiftStages, SteadyKept, TypeOK
  <2>4. QED BY <2>1, <2>2, <2>3
<1>2. record' = record /\ passed' = passed
  BY DEF CreateStage, UpdateStage, DeleteStage, ShiftStages, Life
<1>3. CASE \E s \in Stages, o \in Orders, active \in BOOLEAN :
              CreateStage(s, o, active) \/ UpdateStage(s, o, active)
  <2>1. op' = op
    BY <1>3 DEF CreateStage, UpdateStage
  <2>2. (NoStageSkipped /\ RecordClear /\ RequestsClear)'
    BY <1>1, <1>2, <2>1 DEF StagesInv, NoStageSkipped, RecordClear, RequestsClear, Moves,
       RequestClear, ClearBelow, ClearAll, SteadyKept
  <2>3. QED BY <2>2 DEF StagesInv
<1>4. CASE \E w \in Desks : ShiftStages(w) \/ \E s \in Stages : DeleteStage(w, s)
  <2>1. PICK w \in Desks : ShiftStages(w) \/ \E s \in Stages : DeleteStage(w, s)
    BY <1>4
  <2>2. op'[w].kind \in {"idle", "shift"} /\ \A v \in Desks \ {w} : op'[v] = op[v]
    <3>1. Become(w, Idle) \/ \E g : Become(w, [kind |-> "shift", gone |-> g])
      BY <2>1 DEF ShiftStages, DeleteStage, Begin, Finish
    <3>2. op \in [Desks -> Request]
      BY <1>0 DEF TypeOK
    <3>3. QED BY <3>1, <3>2 DEF Become, Idle
  <2>3. Moves(op[w])' => RequestClear(op[w])'
    BY <2>2 DEF Moves
  <2>4. QED BY <1>0, <1>1, <1>2, <2>2, <2>3, StagesCalm
<1>5. QED BY <1>3, <1>4

LEMMA StagesGenerate ==
    ASSUME StagesInv, TypeOK', NEW w \in Desks, NEW att \in [Days -> Kinds],
           NEW hol \in [Days -> 0 .. 2], Generate(w, att, hol)
    PROVE  StagesInv'
<1>0. TypeOK
  BY DEF StagesInv
<1>1. /\ SteadyKept /\ op'[w] = Idle /\ \A v \in Desks \ {w} : op'[v] = op[v]
      /\ UNCHANGED Config
  BY <1>0 DEF Generate, Finish, Become, Config, SteadyKept, TypeOK
<1>2. ASSUME NEW v \in Desks, op'[v].kind \in {"route", "write"}
      PROVE  v # w /\ op'[v] = op[v] /\ op[v].id \in 1 .. lives
  BY <1>0, <1>1, <1>2, BlankMoves DEF Idle
<1>3. CASE record' = record /\ passed' = passed
  <2>1. Moves(op[w])' => RequestClear(op[w])'
    BY <1>1 DEF Moves, Idle
  <2>2. QED BY <1>0, <1>1, <1>3, <2>1, StagesCalm
<1>4. CASE record'.status = "DRAFT" /\ record'.id = record.id /\ passed' = passed
  <2>1. RequestsClear'
    <3>1. ASSUME NEW v \in Desks, Moves(op[v])'
          PROVE  RequestClear(op[v])'
      <4>1. op'[v] = op[v] /\ Moves(op[v])
        BY <1>2, <1>4, <3>1 DEF Moves
      <4>2. QED BY <1>1, <1>4, <4>1 DEF StagesInv, RequestsClear, RequestClear, ClearBelow,
               ClearAll, SteadyKept
    <3>2. QED BY <3>1 DEF RequestsClear
  <2>2. QED BY <1>4, <2>1 DEF StagesInv, NoStageSkipped, RecordClear
<1>5. CASE record'.status = "DRAFT" /\ record'.id = lives + 1
  <2>1. \A v \in Desks : ~Moves(op[v])'
    BY <1>0, <1>2, <1>5 DEF Moves, TypeOK
  <2>2. QED BY <1>5, <2>1 DEF StagesInv, NoStageSkipped, RecordClear, RequestsClear
<1>6. QED BY <1>3, <1>4, <1>5 DEF Generate, Generated

LEMMA StagesWrite ==
    ASSUME StagesInv, TypeOK', NEW w \in Desks, Write(w)
    PROVE  StagesInv'
<1> DEFINE h == op[w]
<1>0. TypeOK
  BY DEF StagesInv
<1>1. /\ SteadyKept /\ op'[w] = Idle /\ \A v \in Desks \ {w} : op'[v] = op[v]
      /\ UNCHANGED Config /\ passed \subseteq passed'
  BY <1>0 DEF Write, Finish, Become, Config, SteadyKept, TypeOK
<1>2. /\ h.kind = "write" /\ h.id \in 1 .. MaxLives /\ h.status \in Statuses
      /\ h.from \in 0 .. MaxOrder /\ h.order \in Orders
  BY <1>0, KeptBy DEF TypeOK, Write, At
<1>3. CASE record' = record /\ passed' = passed
  <2>1. Moves(op[w])' => RequestClear(op[w])'
    BY <1>1 DEF Moves, Idle
  <2>2. QED BY <1>0, <1>1, <1>3, <2>1, StagesCalm
<1>4. CASE /\ h.id = record.id
           /\ record' = [record EXCEPT !.status = h.status,
                              !.order = IF h.status \in {"REJECTED", "RETURNED"} THEN @ ELSE h.order]
           /\ passed' = IF h.from = 0 THEN passed ELSE passed \cup {h.from}
  <2>1. record \in Record
    BY <1>0, <1>2, <1>4, RecordShape DEF TypeOK, Blank
  <2>2. /\ record'.status = h.status /\ record'.id = record.id
        /\ h.status \notin {"REJECTED", "RETURNED"} => record'.order = h.order
    BY <1>4, <2>1 DEF Record
  <2>3. RequestClear(h)
    BY <1>2, <1>4 DEF StagesInv, RequestsClear, Moves
  <2>4. \A s \in steady : /\ stage[s].order \in 1 .. MaxOrder
                          /\ stage[s].order \in passed \cup {h.from} => stage[s].order \in passed'
    <3>1. \A s \in steady : stage[s].order \in 1 .. MaxOrder
      BY <1>0, SteadyOrders
    <3>2. QED BY <1>4, <3>1
  <2>5. steady' = steady /\ stage' = stage
    BY <1>1 DEF Config
  <2> HIDE DEF h
  <2>6. (NoStageSkipped /\ RecordClear)'
    BY <1>2, <2>2, <2>3, <2>4, <2>5 DEF NoStageSkipped, RecordClear, RequestClear, ClearBelow, ClearAll
  <2>7. RequestsClear'
    <3>1. ASSUME NEW v \in Desks, Moves(op[v])'
          PROVE  RequestClear(op[v])'
      <4>1. op'[v] = op[v] /\ Moves(op[v])
        BY <1>1, <2>2, <3>1 DEF Moves, Idle
      <4>2. QED BY <1>1, <4>1 DEF StagesInv, RequestsClear, RequestClear, ClearBelow,
               ClearAll, SteadyKept
    <3>2. QED BY <3>1 DEF RequestsClear
  <2>8. QED BY <2>6, <2>7 DEF StagesInv
<1>5. QED BY <1>3, <1>4 DEF Write

LEMMA StagesStep == StagesInv /\ [Next]_vars => StagesInv'
<1> SUFFICES ASSUME StagesInv, [Next]_vars PROVE StagesInv'
  OBVIOUS
<1>1. TypeOK'
  BY TypeStep DEF StagesInv
<1>2. CASE UNCHANGED vars
  BY <1>1, <1>2 DEF vars, StagesInv, NoStageSkipped, RecordClear, RequestsClear, Moves,
     RequestClear, ClearBelow, ClearAll
<1>3. QED BY <1>1, <1>2, StagesReads, StagesRoute, StagesWrite, StagesGenerate, StagesEdits DEF Next

(* No approved salary has skipped a stage that stood all along, however    *)
(* many requests decided it at once on whatever they had read.             *)
THEOREM StagesInOrder == Spec => []NoStageSkipped
<1>1. Init => StagesInv
  BY TypeInit DEF Init, StagesInv, NoStageSkipped, RecordClear, RequestsClear, Moves, Blank, Idle
<1>2. QED BY <1>1, StagesStep, PTL DEF Spec, StagesInv

-----------------------------------------------------------------------------
(* The target locks.                                                       *)

(* Whoever is about to write an exemption has a period for it.             *)
HandlersSound ==
    /\ handler \in [Slots -> Handler]
    /\ \A s \in Slots : Doing(s, "exempt") => handler[s].period # Null

MemberTyped ==
    /\ due \in 0 .. Last
    /\ cycle \in {"ACTIVE", "INACTIVE", "deleted"}
    /\ met \subseteq Periods
    /\ stakeholder \in BOOLEAN
    /\ user \in Account
    /\ asg \in Assignment
    /\ (asg.exempt = Null) <=> (asg.until = 0)
    /\ log \in [period : Ref, valid : BOOLEAN]
    /\ upsets \in 0 .. MaxUpsets

TargetShape == MemberTyped /\ HandlersSound

LEMMA PeriodsApart ==
    /\ Gone \notin Periods /\ Null \notin Periods /\ Gone # Null
    /\ Periods \subseteq Nat /\ 0 \notin Periods /\ Periods \subseteq 0 .. Last
BY PeriodsAssumption DEF Periods

(* What a handler has kept, by what it is about to do.                     *)
LEMMA HandlerTyped ==
    ASSUME NEW h \in Handler
    PROVE  /\ h.kind \in {"run", "evaluate", "check", "clear", "set", "stamp", "log"}
                 => h.todo \subseteq Periods
           /\ h.kind \in {"evaluate", "check", "clear", "set", "stamp", "log"}
                 => h.period \in Periods \cup {Gone}
           /\ h.kind \in {"unlock", "unstamp", "exempt"}
                 => h \in [kind : {"unlock", "unstamp", "exempt"}, period : Ref, owned : BOOLEAN]
BY DEF Handler

LEMMA Switched ==
    ASSUME HandlersSound, NEW s \in Slots, NEW h \in Handler, h.kind = "exempt" => h.period # Null,
           Switch(s, h)
    PROVE  HandlersSound'
BY DEF HandlersSound, Switch, Doing

LEMMA PlainHandler ==
    ASSUME NEW kind \in {"idle", "asked", "free", "correct", "remedy", "withdraw",
                         "retire", "release", "assign", "assigned"}
    PROVE  [kind |-> kind] \in Handler /\ [kind |-> kind].kind # "exempt"
BY DEF Handler

LEMMA PlainSwitched ==
    ASSUME HandlersSound, NEW s \in Slots, NEW h,
           \/ h = Vacant
           \/ \E kind \in {"asked", "free", "correct", "remedy", "withdraw",
                           "retire", "release", "assign", "assigned"} : h = [kind |-> kind],
           Switch(s, h)
    PROVE  HandlersSound'
BY Switched, PlainHandler DEF Vacant

LEMMA RunTyped ==
    ASSUME NEW todo \in SUBSET Periods
    PROVE  Run(todo) \in Handler /\ Run(todo).kind # "exempt"
BY DEF Run, Vacant, Handler

LEMMA Continued ==
    ASSUME HandlersSound, NEW j \in Slots, Continue(j),
           handler[j].kind \in {"run", "evaluate", "check", "clear", "set", "stamp", "log"}
    PROVE  HandlersSound'
<1>1. handler[j].todo \in SUBSET Periods
  BY HandlerTyped DEF HandlersSound
<1>2. QED BY <1>1, RunTyped, Switched DEF Continue

LEMMA WentTo ==
    ASSUME HandlersSound, NEW j \in Slots, NEW kind \in {"check", "clear", "set", "stamp", "log"},
           handler[j].kind \in {"evaluate", "check", "clear", "set", "stamp", "log"}, Goto(j, kind)
    PROVE  HandlersSound'
<1> DEFINE h == [kind |-> kind, todo |-> handler[j].todo, period |-> handler[j].period]
<1>1. handler[j].todo \in SUBSET Periods /\ handler[j].period \in Periods \cup {Gone}
  BY HandlerTyped DEF HandlersSound
<1>2. h \in Handler /\ h.kind # "exempt"
  BY <1>1 DEF Handler
<1>3. Switch(j, h)
  BY DEF Goto
<1> HIDE DEF h
<1>4. QED BY <1>2, <1>3, Switched

(* A step of the job.                                                      *)
LEMMA JobShape ==
    ASSUME TargetShape, NEW j \in Jobs, JobStep(j)
    PROVE  TargetShape'
<1> USE DEF TargetShape
<1>0. j \in Slots
  BY DEF Slots
<1>1. CASE StartRun(j)
  <2>1. 1 .. due \in SUBSET Periods
    BY PeriodsAssumption DEF MemberTyped, Periods
  <2>2. HandlersSound'
    BY <1>0, <1>1, <2>1, RunTyped, Switched DEF StartRun, Enter
  <2>3. QED BY <1>1, <2>2 DEF StartRun, MemberTyped, world
<1>2. ASSUME NEW p \in Periods, NextPeriod(j, p) PROVE TargetShape'
  <2>1. handler[j].todo \ {p} \in SUBSET Periods
    BY <1>0, <1>2, HandlerTyped DEF NextPeriod, Doing, HandlersSound
  <2> DEFINE h == [kind |-> "evaluate", todo |-> handler[j].todo \ {p}, period |-> p,
                   locked |-> user.locked]
  <2>2. h \in Handler /\ h.kind # "exempt"
    BY <2>1 DEF Handler, MemberTyped, Account
  <2>3. Run(handler[j].todo \ {p}) \in Handler /\ Run(handler[j].todo \ {p}).kind # "exempt"
    BY <2>1, RunTyped
  <2>4. Switch(j, h) \/ Switch(j, Run(handler[j].todo \ {p}))
    BY <1>2 DEF NextPeriod
  <2> HIDE DEF h
  <2>5. HandlersSound'
    BY <1>0, <2>2, <2>3, <2>4, Switched
  <2>6. QED BY <1>2, <2>5 DEF NextPeriod, MemberTyped, world
<1>3. CASE Evaluate(j)
  <2>1. HandlersSound'
    BY <1>0, <1>3, Continued, WentTo DEF Evaluate, Doing
  <2>2. QED BY <1>3, <2>1 DEF Evaluate, MemberTyped, world
<1>4. CASE Check(j)
  <2>1. HandlersSound'
    BY <1>0, <1>4, Continued, WentTo DEF Check, Doing
  <2>2. QED BY <1>4, <2>1 DEF Check, MemberTyped, world
<1>5. CASE Clear(j)
  <2>1. HandlersSound'
    BY <1>0, <1>5, WentTo DEF Clear, Doing
  <2>2. asg' \in Assignment /\ asg'.exempt = Null /\ asg'.until = 0
    <3>1. Null \in Ref /\ 0 \in 0 .. Last
      BY PeriodsAssumption DEF Ref
    <3>2. QED BY <1>5, <3>1 DEF Clear, MemberTyped, Assignment
  <2>3. QED BY <1>5, <2>1, <2>2 DEF Clear, MemberTyped, world
<1>6. CASE SetLocked(j)
  <2>1. HandlersSound'
    BY <1>0, <1>6, WentTo DEF SetLocked, Doing
  <2>2. QED BY <1>6, <2>1 DEF SetLocked, MemberTyped, Account, world
<1>7. CASE Stamp(j)
  <2>1. HandlersSound'
    BY <1>0, <1>7, WentTo DEF Stamp, Doing
  <2>2. QED BY <1>7, <2>1 DEF Stamp, MemberTyped, Account, world
<1>8. CASE WriteLog(j)
  <2>1. HandlersSound'
    BY <1>0, <1>8, Continued DEF WriteLog, Doing
  <2>2. handler[j].period \in Ref
    BY <1>0, <1>8, HandlerTyped DEF WriteLog, Doing, HandlersSound, Ref
  <2>3. QED BY <1>8, <2>1, <2>2 DEF WriteLog, MemberTyped, world
<1>9. QED
  BY <1>1, <1>2, <1>3, <1>4, <1>5, <1>6, <1>7, <1>8 DEF JobStep

(* A step of a request: the unlock and what else frees an account.         *)
LEMMA UnlockShape ==
    ASSUME TargetShape, NEW w \in Requests,
           UnlockRead(w) \/ Unlock(w) \/ Unstamp(w) \/ Exempt(w)
    PROVE  TargetShape'
<1> USE DEF TargetShape
<1>0. w \in Slots
  BY DEF Slots
<1>1. CASE UnlockRead(w)
  <2> DEFINE h == [kind |-> "unlock", period |-> log.period, owned |-> asg.active]
  <2>1. h \in Handler /\ h.kind # "exempt"
    BY DEF Handler, MemberTyped, Assignment
  <2>2. Switch(w, h) \/ Switch(w, Vacant)
    BY <1>1 DEF UnlockRead, Leave
  <2> HIDE DEF h
  <2>3. HandlersSound'
    BY <1>0, <2>1, <2>2, Switched, PlainSwitched
  <2>4. QED BY <1>1, <2>3 DEF UnlockRead, MemberTyped, world
<1>2. ASSUME NEW kind \in {"unstamp", "exempt"}, handler[w].kind \in {"unlock", "unstamp"},
             kind = "exempt" => handler[w].period # Null, Switch(w, [handler[w] EXCEPT !.kind = kind])
      PROVE  HandlersSound'
  <2> DEFINE h == [handler[w] EXCEPT !.kind = kind]
  <2>1. handler[w] \in [kind : {"unlock", "unstamp", "exempt"}, period : Ref, owned : BOOLEAN]
    BY <1>0, <1>2, HandlerTyped DEF HandlersSound
  <2>2. /\ h \in [kind : {"unlock", "unstamp", "exempt"}, period : Ref, owned : BOOLEAN]
        /\ h.kind = kind /\ h.period = handler[w].period
    BY <2>1
  <2>3. h \in Handler
    BY <2>2 DEF Handler
  <2>4. Switch(w, h)
    BY <1>2
  <2> HIDE DEF h
  <2>5. QED BY <1>0, <1>2, <2>2, <2>3, <2>4, Switched
<1>3. CASE Unlock(w)
  <2>1. HandlersSound'
    BY <1>0, <1>2, <1>3, PlainSwitched DEF Unlock, Doing, Leave
  <2>2. QED BY <1>3, <2>1 DEF Unlock, MemberTyped, Account, world
<1>4. CASE Unstamp(w)
  <2>1. HandlersSound'
    BY <1>0, <1>2, <1>4, PlainSwitched DEF Unstamp, Doing, Leave
  <2>2. QED BY <1>4, <2>1 DEF Unstamp, MemberTyped, Account, world
<1>5. CASE Exempt(w)
  <2>1. HandlersSound'
    BY <1>0, <1>5, PlainSwitched DEF Exempt, Leave
  <2>2. CASE asg' = asg
    BY <1>5, <2>1, <2>2 DEF Exempt, MemberTyped, world
  <2>3. CASE /\ handler[w].period # Gone
             /\ asg' = [asg EXCEPT !.exempt = handler[w].period, !.until = handler[w].period]
    <3>1. handler[w].period \in Periods
      BY <1>0, <1>5, <2>3, HandlerTyped DEF Exempt, Doing, HandlersSound, Ref
    <3>2. asg' \in Assignment /\ asg'.exempt # Null /\ asg'.until # 0
      BY <2>3, <3>1, PeriodsApart DEF MemberTyped, Assignment, Ref
    <3>3. QED BY <1>5, <2>1, <3>2 DEF Exempt, MemberTyped, world
  <2>4. QED BY <1>5, <2>2, <2>3 DEF Exempt
<1>6. QED BY <1>1, <1>3, <1>4, <1>5

LEMMA RequestShape ==
    ASSUME TargetShape, NEW w \in Requests, DeskStep(w)
    PROVE  TargetShape'
<1> USE DEF TargetShape
<1>0. w \in Slots
  BY DEF Slots
<1>1. CASE ExtendGrace(w)
  <2>1. HandlersSound'
    BY <1>0, <1>1, PlainSwitched DEF ExtendGrace, Enter
  <2>2. QED BY <1>1, <2>1 DEF ExtendGrace, MemberTyped, Assignment, world
<1>2. CASE FreeRead(w)
  <2>1. HandlersSound'
    BY <1>0, <1>2, PlainSwitched DEF FreeRead, Enter
  <2>2. QED BY <1>2, <2>1 DEF FreeRead, MemberTyped, world
<1>3. CASE Free(w)
  <2>1. HandlersSound'
    BY <1>0, <1>3, PlainSwitched DEF Free, Leave
  <2>2. QED BY <1>3, <2>1 DEF Free, MemberTyped, Account, world
<1>4. CASE GuardRead(w)
  <2>1. HandlersSound'
    BY <1>0, <1>4, PlainSwitched DEF GuardRead, Enter
  <2>2. QED BY <1>4, <2>1 DEF GuardRead, MemberTyped, world
<1>5. CASE RemedyRead(w)
  <2>1. HandlersSound'
    BY <1>0, <1>5, PlainSwitched DEF RemedyRead, Enter
  <2>2. QED BY <1>5, <2>1 DEF RemedyRead, MemberTyped, world
<1>6. CASE Correct(w)
  <2>1. HandlersSound'
    BY <1>0, <1>6, PlainSwitched DEF Correct, Leave
  <2>2. QED BY <1>6, <2>1 DEF Correct, MemberTyped, Account, world
<1>7. CASE Remedy(w)
  <2>1. HandlersSound'
    BY <1>0, <1>7, PlainSwitched DEF Remedy
  <2>2. QED BY <1>7, <2>1 DEF Remedy, MemberTyped, Account, world
<1>8. CASE Withdraw(w)
  <2>1. HandlersSound'
    BY <1>0, <1>8, PlainSwitched DEF Withdraw, Leave
  <2>2. QED BY <1>8, <2>1 DEF Withdraw, MemberTyped, Assignment, world
<1>9. CASE DeleteCycle(w)
  <2>1. HandlersSound'
    BY <1>0, <1>9, PlainSwitched DEF DeleteCycle, Enter
  <2>2. QED BY <1>9, <2>1, PeriodsAssumption DEF DeleteCycle, Upset, MemberTyped
<1>10. CASE Retire(w)
  <2>1. HandlersSound'
    BY <1>0, <1>10, PlainSwitched DEF Retire
  <2>2. QED BY <1>10, <2>1 DEF Retire, MemberTyped, Assignment, world
<1>11. CASE Release(w)
  <2>1. HandlersSound'
    BY <1>0, <1>11, PlainSwitched DEF Release, Leave
  <2>2. QED BY <1>11, <2>1 DEF Release, MemberTyped, Account, world
<1>12. CASE AssignRead(w) \/ ClearOff(w)
  <2>1. HandlersSound'
    BY <1>0, <1>12, PlainSwitched DEF AssignRead, ClearOff, Enter
  <2>2. QED BY <1>12, <2>1 DEF AssignRead, ClearOff, MemberTyped, Assignment, world
<1>13. CASE AssignOff(w) \/ AssignOn(w)
  <2>1. HandlersSound'
    BY <1>0, <1>13, PlainSwitched DEF AssignOff, AssignOn, Leave
  <2>2. QED BY <1>13, <2>1 DEF AssignOff, AssignOn, MemberTyped, Assignment, world
<1>14. QED
  BY <1>1, <1>2, <1>3, <1>4, <1>5, <1>6, <1>7, <1>8, <1>9, <1>10, <1>11, <1>12, <1>13, UnlockShape
     DEF DeskStep

(* What an edit of the cycle leaves of the handlers in flight: none keeps  *)
(* a period, and none loses that it had one.                               *)
LEMMA StaleSound ==
    ASSUME NEW h \in Handler, h.kind = "exempt" => h.period # Null
    PROVE  /\ StaleHandler(h) \in Handler
           /\ StaleHandler(h).kind = "exempt" => StaleHandler(h).period # Null
<1>1. CASE h.kind = "run"
  BY <1>1 DEF StaleHandler, Vacant, Handler
<1>2. CASE h \in [kind : {"evaluate"}, todo : SUBSET Periods, period : Periods \cup {Gone}, locked : BOOLEAN]
  <2>1. "todo" \in DOMAIN h /\ h.kind # "run"
    BY <1>2
  <2>2. StaleHandler(h) = [h EXCEPT !.todo = {}, !.period = Gone]
    BY <2>1 DEF StaleHandler
  <2>3. QED BY <1>2, <2>2 DEF Handler
<1>3. CASE h \in [kind : {"check", "clear", "set", "stamp", "log"}, todo : SUBSET Periods,
                  period : Periods \cup {Gone}]
  <2>1. "todo" \in DOMAIN h /\ h.kind # "run"
    BY <1>3
  <2>2. StaleHandler(h) = [h EXCEPT !.todo = {}, !.period = Gone]
    BY <2>1 DEF StaleHandler
  <2>3. QED BY <1>3, <2>2 DEF Handler
<1>4. CASE h \in [kind : {"unlock", "unstamp", "exempt"}, period : Ref, owned : BOOLEAN]
  <2>1. "todo" \notin DOMAIN h /\ "period" \in DOMAIN h /\ h.kind # "run"
    BY <1>4
  <2>2. StaleHandler(h) = [h EXCEPT !.period = Stale(h.period)]
    BY <2>1 DEF StaleHandler
  <2>3. Stale(h.period) \in Ref /\ (h.period # Null => Stale(h.period) # Null)
    BY PeriodsAssumption DEF Stale, Ref
  <2>4. QED BY <1>4, <2>2, <2>3 DEF Handler
<1>5. CASE h \in [kind : {"idle", "asked", "free", "correct", "remedy", "withdraw",
                          "retire", "release", "assign", "assigned"}]
  <2>1. "todo" \notin DOMAIN h /\ "period" \notin DOMAIN h /\ h.kind # "run"
    BY <1>5
  <2>2. QED BY <2>1 DEF StaleHandler
<1>6. QED BY <1>1, <1>2, <1>3, <1>4, <1>5 DEF Handler

LEMMA EditShape ==
    ASSUME TargetShape, NEW status \in {"ACTIVE", "INACTIVE"}, EditCycle(status)
    PROVE  TargetShape'
<1> USE DEF TargetShape
<1>1. HandlersSound'
  BY StaleSound DEF EditCycle, HandlersSound, Doing
<1>2. upsets' \in 0 .. MaxUpsets
  BY PeriodsAssumption DEF EditCycle, Upset, MemberTyped
<1>3. \A ref \in Ref : Stale(ref) \in Ref /\ (Stale(ref) = Null <=> ref = Null)
  BY PeriodsAssumption DEF Stale, Ref
<1>4. asg' \in Assignment /\ ((asg'.exempt = Null) <=> (asg'.until = 0))
  BY <1>3 DEF EditCycle, MemberTyped, Assignment
<1>5. log' \in [period : Ref, valid : BOOLEAN]
  BY <1>3 DEF EditCycle, MemberTyped
<1>6. QED BY <1>1, <1>2, <1>4, <1>5 DEF EditCycle, MemberTyped

LEMMA TargetShapeNext ==
    ASSUME TargetShape, [TargetNext]_targetVars
    PROVE  TargetShape'
<1> USE DEF TargetShape
<1>1. CASE OtherLock
  BY <1>1 DEF OtherLock, MemberTyped, Account, HandlersSound, Doing, world
<1>2. CASE Assign
  BY <1>2 DEF Assign, MemberTyped, Assignment, HandlersSound, Doing, world
<1>3. CASE ClearCycle
  BY <1>3 DEF ClearCycle, MemberTyped, Account, Assignment, HandlersSound, Doing, world
<1>4. CASE PeriodDue
  BY <1>4, PeriodsAssumption DEF PeriodDue, MemberTyped, HandlersSound, Doing
<1>5. CASE Promote
  BY <1>5, PeriodsAssumption DEF Promote, Upset, MemberTyped, HandlersSound, Doing
<1>6. CASE GraceEnds
  BY <1>6 DEF GraceEnds, MemberTyped, Assignment, HandlersSound, Doing, world
<1>7. ASSUME NEW p \in Periods, Work(p) PROVE TargetShape'
  BY <1>7 DEF Work, MemberTyped, HandlersSound, Doing
<1>8. ASSUME NEW s \in Slots, Crash(s) PROVE TargetShape'
  <2>1. HandlersSound'
    BY <1>8, PlainSwitched DEF Crash, Leave
  <2>2. QED BY <1>8, <2>1, PeriodsAssumption DEF Crash, Upset, MemberTyped
<1>9. CASE UNCHANGED targetVars
  BY <1>9 DEF targetVars, MemberTyped, HandlersSound, Doing
<1>10. QED
  BY <1>1, <1>2, <1>3, <1>4, <1>5, <1>6, <1>7, <1>8, <1>9, JobShape, RequestShape, EditShape DEF TargetNext

LEMMA TargetShapeInit == TargetInit => TargetShape
<1> SUFFICES ASSUME TargetInit PROVE TargetShape
  OBVIOUS
<1>1. MemberTyped
  <2>1. Null \in Ref /\ 0 \in 0 .. Last /\ 0 \in 0 .. MaxUpsets /\ due \in 0 .. Last
    BY PeriodsAssumption DEF TargetInit, Ref
  <2>2. user \in Account /\ asg \in Assignment /\ log \in [period : Ref, valid : BOOLEAN]
    BY <2>1 DEF TargetInit, Account, Assignment
  <2>3. QED BY <2>1, <2>2 DEF TargetInit, MemberTyped
<1>2. HandlersSound
  BY PlainHandler DEF TargetInit, HandlersSound, Doing, Vacant
<1>3. QED BY <1>1, <1>2 DEF TargetShape

(* The member, his assignment and the handlers in flight keep their shape, *)
(* whatever the number of periods, jobs and requests and wherever an edit  *)
(* of the cycle falls: an exemption and its end date are set and cleared   *)
(* together, and no handler writes one without a period                    *)
(* (applyTargetLockExemptionAfterUnlock, persistTargetCycleWithPeriods).   *)
THEOREM TargetTypeCorrect == TargetSpec => []TargetTypeOK
<1>1. TargetShape /\ [TargetNext]_targetVars => TargetShape'
  BY TargetShapeNext
<1>2. TargetShape => TargetTypeOK
  BY DEF TargetShape, MemberTyped, HandlersSound, TargetTypeOK
<1>3. QED BY <1>1, <1>2, TargetShapeInit, PTL DEF TargetSpec
=============================================================================
