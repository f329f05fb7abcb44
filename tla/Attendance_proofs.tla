------------------------- MODULE Attendance_proofs -------------------------
(***************************************************************************)
(* What holds of a member's attendance for any number of days, requests    *)
(* and overlapping runs of the hourly job, and for every threshold.        *)
(***************************************************************************)
EXTENDS Attendance, FiniteSetTheorems, TLAPS

Workers == Desks \cup Jobs

-----------------------------------------------------------------------------
(* Operators the requests are built from.                                  *)

(* The place of a request is written, the others keep theirs.              *)
LEMMA OpWritten ==
    ASSUME op \in [Workers -> Request], NEW w \in Workers, NEW h \in Request, Become(w, h)
    PROVE  /\ op' \in [Workers -> Request]
           /\ op'[w] = h
           /\ \A v \in Workers \ {w} : op'[v] = op[v]
BY DEF Become

LEMMA IdleIsRequest == Idle \in Request /\ Idle.kind = "idle"
BY DEF Idle, Request

(* What a request keeps is known from its kind.                            *)
LEMMA KeptBy ==
    ASSUME NEW h \in Request
    PROVE  /\ h.kind \notin {"idle", "unlock", "pardon", "free"} => h.day \in Days
           /\ h.kind \in {"warn", "count", "lock"} => h.cause \in Causes
           /\ (h.kind \in {"warn", "count", "lock"} /\ h.cause = "late") =>
                 /\ h \in [kind : {"warn", "count", "lock"}, cause : {"late"}, day : Days, new : BOOLEAN]
                 /\ h.new \in BOOLEAN
           /\ (h.kind \in {"warn", "count", "lock"} /\ h.cause = "absent") =>
                 h \in [kind : {"warn", "count", "lock"}, cause : {"absent"}, day : Days]
           /\ h.kind = "enter" => h.type \in Types /\ h.new \in BOOLEAN
           /\ h.kind \in {"miss", "find", "open", "checkout", "stop", "review"} =>
                 h \in [kind : {"miss", "find", "open", "checkout", "stop", "review"}, day : Days]
BY DEF Request, Causes

(* There are finitely many warnings, so they can be counted.               *)
LEMMA WarningsFinite == IsFiniteSet(Warning)
<1>1. IsFiniteSet(Causes)
  <2>1. IsFiniteSet({"late"})
    BY FS_Singleton
  <2>2. IsFiniteSet({"late"} \cup {"absent"})
    BY <2>1, FS_AddElement
  <2>3. Causes = {"late"} \cup {"absent"}
    BY DEF Causes
  <2>4. QED BY <2>2, <2>3
<1>2. IsFiniteSet(Days) /\ IsFiniteSet(1 .. MaxCopies)
  BY FS_Interval, AttendanceAssumption DEF Days
<1>3. IsFiniteSet((Causes \X Days) \X (1 .. MaxCopies))
  BY <1>1, <1>2, FS_Product
<1> DEFINE pairs == (Causes \X Days) \X (1 .. MaxCopies)
           f == [t \in pairs |-> [cause |-> t[1][1], day |-> t[1][2], copy |-> t[2]]]
<1>4. \A t \in pairs : f[t] \in Warning
  BY DEF Warning
<1>5. ASSUME NEW x \in Warning
      PROVE  \E t \in pairs : f[t] = x
  <2>1. <<<<x.cause, x.day>>, x.copy>> \in pairs
    BY DEF Warning
  <2>2. f[<<<<x.cause, x.day>>, x.copy>>] = x
    BY <2>1 DEF Warning
  <2>3. QED BY <2>1, <2>2
<1>6. f \in Surjection(pairs, Warning)
  BY <1>4, <1>5 DEF Surjection
<1>7. QED BY <1>3, <1>6, FS_Surjection

LEMMA GivenCounted ==
    ASSUME warnings \in SUBSET Warning, NEW cause, NEW d
    PROVE  IsFiniteSet(Given(cause, d)) /\ Cardinality(Given(cause, d)) \in Nat
<1>1. Given(cause, d) \in SUBSET Warning
  BY DEF Given
<1>2. QED BY <1>1, WarningsFinite, FS_Subset, FS_CardinalityType

-----------------------------------------------------------------------------
(* What a record can be: an entry of the member's own, which says he was   *)
(* in on every day but a day off, or exactly what the job has put there.   *)
(* A check-out and a review find an entry of his whenever they come, and a *)
(* check-out one of a working day: no record becomes anything else.        *)
Entry(d) == {r \in Record : /\ r.by = "user"
                            /\ r.in = (d \notin Holidays)
                            /\ r.out => r.in}

RecordsShaped  == \A d \in Days : record[d] \in Entry(d) \cup {Blank, Holiday, Absence}
RequestShaped(h) ==
    /\ h.kind \in {"checkout", "review"} => record[h.day] \in Entry(h.day)
    /\ h.kind = "checkout" => h.day \notin Holidays
RequestsShaped == \A w \in Workers : RequestShaped(op[w])

ShapeInv == TypeOK /\ RecordsShaped /\ RequestsShaped

(* What any step may do to the records.                                    *)
RecordsGrow ==
    /\ record' \in [Days -> Record \cup {Blank}]
    /\ \A d \in Days : \/ record'[d] = record[d]
                       \/ record'[d] \in Entry(d)
                       \/ record[d] = Blank /\ record'[d] \in {Holiday, Absence}

(* One absence at most is entered for a day, and whoever entered it is the *)
(* only one to warn of it, once.                                           *)
WarnsOfAbsence(h) == h.kind = "warn" /\ h.cause = "absent"

AbsencesEntered ==
    /\ \A x \in warnings : x.cause = "absent" => record[x.day] # Blank /\ x.copy = 1
    /\ \A w \in Workers : WarnsOfAbsence(op[w]) => /\ record[op[w].day] # Blank
                                                   /\ Given("absent", op[w].day) = {}
    /\ \A v, w \in Workers :
          WarnsOfAbsence(op[v]) /\ WarnsOfAbsence(op[w]) /\ op[v].day = op[w].day => v = w

AbsenceInv == ShapeInv /\ AbsencesEntered

(* Where enough warnings have not locked the account, and nobody has freed *)
(* it since the last of them, they are about to be counted or to lock it.  *)
CountPending ==
    (upsets = 0 /\ ~freed /\ Cardinality(warnings) >= Threshold)
        => (locked \/ \E w \in Workers : op[w].kind \in {"count", "lock"})

-----------------------------------------------------------------------------
(* The records.                                                            *)

LEMMA EntryIsRecord ==
    ASSUME NEW d \in Days
    PROVE  /\ Entry(d) \subseteq Record
           /\ {Holiday, Absence} \subseteq Record
           /\ Blank \notin Entry(d) \cup {Holiday, Absence}
           /\ Holiday \notin Entry(d) /\ Absence \notin Entry(d)
           /\ Holiday.by = "cron" /\ Absence.by = "cron" /\ Blank.by = "none"
<1>1. Holiday \in Record /\ Holiday.by = "cron"
  BY DEF Record, Types, Statuses, Holiday
<1>2. Absence \in Record /\ Absence.by = "cron"
  BY DEF Record, Types, Statuses, Holiday, Absence
<1>3. \A r \in Entry(d) : r.by = "user"
  BY DEF Entry
<1>4. Blank.by = "none"
  BY DEF Blank
<1>5. Entry(d) \subseteq Record
  BY DEF Entry
<1>6. QED BY <1>1, <1>2, <1>3, <1>4, <1>5

LEMMA GrowSame ==
    ASSUME TypeOK, record' = record
    PROVE  RecordsGrow
BY DEF TypeOK, RecordsGrow

LEMMA GrowEntry ==
    ASSUME TypeOK, NEW d \in Days, NEW r \in Entry(d), Put(d, r)
    PROVE  RecordsGrow /\ record'[d] = r
BY EntryIsRecord DEF TypeOK, RecordsGrow, Put

LEMMA GrowJob ==
    ASSUME TypeOK, NEW d \in Days, NEW r \in {Holiday, Absence}, record[d] = Blank, Put(d, r)
    PROVE  RecordsGrow /\ record'[d] = r
BY EntryIsRecord DEF TypeOK, RecordsGrow, Put

(* Nothing that has been entered is taken away.                            *)
LEMMA GrowKeeps ==
    ASSUME ShapeInv, RecordsGrow, NEW d \in Days
    PROVE  /\ record[d] # Blank => record'[d] # Blank
           /\ record[d].by = "user" => record'[d].by = "user"
           /\ record[d] \in Entry(d) => record'[d] \in Entry(d)
           /\ record'[d] \in Entry(d) \cup {Blank, Holiday, Absence}
<1>1. record[d] \in Entry(d) \cup {Blank, Holiday, Absence}
  BY DEF ShapeInv, RecordsShaped
<1>2. /\ Blank \notin Entry(d) \cup {Holiday, Absence} /\ Holiday \notin Entry(d)
      /\ Absence \notin Entry(d) /\ Holiday.by = "cron" /\ Absence.by = "cron" /\ Blank.by = "none"
  BY EntryIsRecord
<1>3. \/ record'[d] = record[d]
      \/ record'[d] \in Entry(d)
      \/ record[d] = Blank /\ record'[d] \in {Holiday, Absence}
  BY DEF RecordsGrow
<1>4. \A r \in Entry(d) : r.by = "user"
  BY DEF Entry
<1>5. QED BY <1>1, <1>2, <1>3, <1>4

LEMMA ShapeOfRecords ==
    ASSUME ShapeInv, RecordsGrow
    PROVE  /\ RecordsShaped'
           /\ \A d \in Days : /\ record'[d].by = "cron" => record'[d].status = "APPROVED" /\ ~record'[d].in
                              /\ record'[d] # Blank => (record'[d].out => record'[d].in)
<1>1. \A d \in Days : record'[d] \in Entry(d) \cup {Blank, Holiday, Absence}
  BY GrowKeeps
<1>2. RecordsShaped'
  BY <1>1 DEF RecordsShaped, Entry, Holiday, Absence, Blank
<1>3. ASSUME NEW d \in Days
      PROVE  /\ record'[d].by = "cron" => record'[d].status = "APPROVED" /\ ~record'[d].in
             /\ record'[d] # Blank => (record'[d].out => record'[d].in)
  BY <1>1 DEF Entry, Holiday, Absence, Blank
<1>4. QED BY <1>2, <1>3

(* A request is written while the records grow: the shape of all is kept.  *)
LEMMA ShapeOfRequest ==
    ASSUME ShapeInv, RecordsGrow, NEW w \in Workers, NEW h \in Request, Become(w, h),
           h.kind \in {"checkout", "review"} => record'[h.day] \in Entry(h.day),
           h.kind = "checkout" => h.day \notin Holidays,
           today' \in Days, pastCutoff' \in BOOLEAN, locked' \in BOOLEAN, freed' \in BOOLEAN,
           warnings' \in SUBSET Warning, sessions' \in [Days -> 0 .. MaxSessions],
           upsets' \in 0 .. MaxUpsets
    PROVE  ShapeInv'
<1>1. op' \in [Workers -> Request] /\ op'[w] = h /\ \A v \in Workers \ {w} : op'[v] = op[v]
  BY OpWritten DEF ShapeInv, TypeOK, Workers
<1>2. TypeOK'
  BY <1>1, ShapeOfRecords DEF TypeOK, RecordsGrow, Workers
<1>3. ASSUME NEW v \in Workers \ {w}
      PROVE  RequestShaped(op[v])'
  <2>1. op'[v] = op[v] /\ op[v] \in Request /\ RequestShaped(op[v])
    BY <1>1 DEF ShapeInv, TypeOK, RequestsShaped, Workers
  <2>2. op[v].kind \in {"checkout", "review"} => op[v].day \in Days
    BY <2>1, KeptBy
  <2>3. op[v].kind \in {"checkout", "review"} => record'[op[v].day] \in Entry(op[v].day)
    BY <2>1, <2>2, GrowKeeps DEF RequestShaped
  <2>4. QED BY <2>1, <2>3 DEF RequestShaped, Entry
<1>4. RequestShaped(op[w])'
  BY <1>1 DEF RequestShaped, Entry
<1>5. RequestsShaped'
  BY <1>3, <1>4 DEF RequestsShaped
<1>6. QED BY <1>2, <1>5, ShapeOfRecords DEF ShapeInv

-----------------------------------------------------------------------------
(* Most steps neither warn, nor count, nor delete a warning: what such a   *)
(* step does to the records and to its own request is all that matters.    *)
Calm(w) ==
    /\ RecordsGrow
    /\ op[w].kind \notin {"warn", "count", "lock", "unlock", "pardon", "free"}
    /\ \E h \in Request :
          /\ Become(w, h) /\ ~WarnsOfAbsence(h)
          /\ h.kind \in {"checkout", "review"} => record'[h.day] \in Entry(h.day)
          /\ h.kind = "checkout" => h.day \notin Holidays
    /\ sessions' \in [Days -> 0 .. MaxSessions]
    /\ UNCHANGED <<Clock, warnings, locked, freed, upsets>>

(* A request that is begun, or ended, on the records as they are.          *)
LEMMA CalmBegun ==
    ASSUME ShapeInv, NEW w \in Workers, NEW h \in Request, Begin(w, h), ~WarnsOfAbsence(h),
           h.kind \in {"checkout", "review"} => record[h.day] \in Entry(h.day),
           h.kind = "checkout" => h.day \notin Holidays,
           UNCHANGED <<Clock, record, warnings, locked, freed, sessions, upsets>>
    PROVE  Calm(w)
<1>1. RecordsGrow /\ op[w].kind = "idle" /\ Become(w, h)
  BY GrowSame, IdleIsRequest DEF ShapeInv, Begin
<1>2. sessions' \in [Days -> 0 .. MaxSessions]
  BY DEF ShapeInv, TypeOK
<1>3. QED BY <1>1, <1>2 DEF Calm

LEMMA CalmFinished ==
    ASSUME NEW w \in Workers, RecordsGrow, Finish(w),
           op[w].kind \notin {"warn", "count", "lock", "unlock", "pardon", "free"},
           sessions' \in [Days -> 0 .. MaxSessions],
           UNCHANGED <<Clock, warnings, locked, freed, upsets>>
    PROVE  Calm(w)
<1>1. Idle \in Request /\ Become(w, Idle) /\ Idle.kind = "idle"
  BY IdleIsRequest DEF Finish
<1>2. QED BY <1>1 DEF Calm, WarnsOfAbsence

(* The requests that only read.                                            *)
LEMMA CalmReads ==
    ASSUME ShapeInv, NEW w \in Workers, NEW d \in Days,
           \/ \E type \in Payloads, late \in BOOLEAN : MarkRead(w, d, type, late)
           \/ Track(w, d) \/ StopTracking(w, d) \/ CheckOutRead(w, d) \/ ReviewRead(w, d)
    PROVE  Calm(w)
<1>0. record[d] \in Entry(d) \cup {Blank, Holiday, Absence}
  BY DEF ShapeInv, RecordsShaped
<1>1. CASE \E type \in Payloads, late \in BOOLEAN : MarkRead(w, d, type, late)
  <2>1. PICK type \in Payloads, late \in BOOLEAN : MarkRead(w, d, type, late)
    BY <1>1
  <2> DEFINE new  == record[d] = Blank
             kept == IF d \in Holidays THEN "off" ELSE type
             warn == [kind |-> "warn", cause |-> "late", day |-> d, new |-> new]
             in   == [kind |-> "enter", day |-> d, type |-> kept, new |-> new]
  <2>2. new \in BOOLEAN /\ kept \in Types
    BY DEF Payloads, Types
  <2>3. warn \in Request /\ in \in Request
    BY <2>2 DEF Request
  <2>4. /\ warn.kind = "warn" /\ warn.cause = "late" /\ in.kind = "enter"
        /\ ~WarnsOfAbsence(warn) /\ ~WarnsOfAbsence(in)
    BY DEF WarnsOfAbsence
  <2>5. /\ Begin(w, warn) \/ Begin(w, in)
        /\ UNCHANGED <<Clock, record, warnings, locked, freed, sessions, upsets>>
    BY <2>1 DEF MarkRead
  <2> HIDE DEF warn, in
  <2>6. QED BY <2>3, <2>4, <2>5, CalmBegun
<1>2. CASE Track(w, d) \/ StopTracking(w, d)
  <2>1. PICK kind \in {"find", "stop"} :
           /\ Begin(w, [kind |-> kind, day |-> d])
           /\ UNCHANGED <<Clock, record, warnings, locked, freed, sessions, upsets>>
    BY <1>2 DEF Track, StopTracking
  <2>2. [kind |-> kind, day |-> d] \in Request
    BY DEF Request
  <2>3. QED BY <2>1, <2>2, CalmBegun DEF WarnsOfAbsence
<1>3. CASE CheckOutRead(w, d)
  <2>1. record[d] \in Entry(d) /\ d \notin Holidays
    <3>1. ~Holiday.in /\ ~Absence.in /\ Blank.by = "none"
      BY DEF Holiday, Absence, Blank
    <3>2. record[d].by # "none" /\ record[d].in
      BY <1>3 DEF CheckOutRead
    <3>3. record[d] \in Entry(d)
      BY <1>0, <3>1, <3>2
    <3>4. QED BY <3>2, <3>3 DEF Entry
  <2>2. [kind |-> "checkout", day |-> d] \in Request
    BY DEF Request
  <2>3. QED BY <1>3, <2>1, <2>2, CalmBegun DEF CheckOutRead, WarnsOfAbsence
<1>4. CASE ReviewRead(w, d)
  <2>1. record[d] \in Entry(d)
    BY <1>0, <1>4, EntryIsRecord DEF ReviewRead
  <2>2. [kind |-> "review", day |-> d] \in Request
    BY DEF Request
  <2>3. QED BY <1>4, <2>1, <2>2, CalmBegun DEF ReviewRead, WarnsOfAbsence
<1>5. QED BY <1>1, <1>2, <1>3, <1>4

LEMMA CalmSessions ==
    ASSUME ShapeInv, NEW w \in Workers,
           FindSession(w) \/ OpenSession(w) \/ StopSessions(w)
    PROVE  Calm(w)
<1>0. /\ op[w] \in Request /\ sessions \in [Days -> 0 .. MaxSessions]
      /\ record' = record /\ RecordsGrow
  BY GrowSame DEF ShapeInv, TypeOK, Workers, FindSession, OpenSession, StopSessions
<1>1. /\ op[w].kind \in {"find", "open", "stop"} /\ op[w].day \in Days
      /\ op[w] \in [kind : {"miss", "find", "open", "checkout", "stop", "review"}, day : Days]
  BY <1>0, KeptBy DEF FindSession, OpenSession, StopSessions, At
<1>2. UNCHANGED <<Clock, warnings, locked, freed, upsets>>
  BY DEF FindSession, OpenSession, StopSessions
<1>3. sessions' \in [Days -> 0 .. MaxSessions]
  BY <1>0, <1>1, AttendanceAssumption DEF FindSession, OpenSession, StopSessions
<1>4. CASE Finish(w)
  BY <1>0, <1>1, <1>2, <1>3, <1>4, CalmFinished
<1>5. CASE Become(w, [op[w] EXCEPT !.kind = "open"])
  <2> DEFINE h == [op[w] EXCEPT !.kind = "open"]
  <2>1. h \in Request /\ h.kind = "open" /\ ~WarnsOfAbsence(h)
    BY <1>1 DEF Request, WarnsOfAbsence
  <2> HIDE DEF h
  <2>2. QED BY <1>0, <1>1, <1>2, <1>3, <1>5, <2>1 DEF Calm, h
<1>6. QED BY <1>4, <1>5 DEF FindSession, OpenSession, StopSessions

(* The requests that write the record of a day.                            *)
LEMMA CalmWrites ==
    ASSUME ShapeInv, NEW w \in Workers,
           Enter(w) \/ CheckOut(w) \/ Clarify(w) \/ \E approve \in BOOLEAN : Review(w, approve)
    PROVE  Calm(w)
<1> DEFINE d == op[w].day
<1>0. /\ op[w] \in Request /\ op[w].kind \in {"enter", "checkout", "review"} /\ d \in Days
      /\ UNCHANGED <<Clock, warnings, locked, freed, sessions, upsets>>
      /\ sessions' \in [Days -> 0 .. MaxSessions] /\ TypeOK /\ RequestShaped(op[w])
  <2>1. op[w] \in Request /\ op[w].kind \in {"enter", "checkout", "review"}
    BY DEF ShapeInv, TypeOK, Workers, Enter, CheckOut, Clarify, Review, At
  <2>2. QED BY <2>1, KeptBy
        DEF ShapeInv, TypeOK, RequestsShaped, Enter, CheckOut, Clarify, Review
<1>1. CASE Enter(w)
  <2>1. op[w].type \in Types
    BY <1>0, <1>1, KeptBy DEF Enter, At
  <2>2. Submitted(op[w].type, d) \in Entry(d)
    BY <2>1, <1>0, AttendanceAssumption DEF Submitted, Entry, Record, Statuses
  <2>3. CASE Finish(w) /\ record' = record
    BY <1>0, <2>3, GrowSame, CalmFinished
  <2>4. CASE Put(d, Submitted(op[w].type, d)) /\ Finish(w)
    BY <1>0, <2>2, <2>4, GrowEntry, CalmFinished
  <2>5. CASE Put(d, Submitted(op[w].type, d)) /\ Become(w, [kind |-> "find", day |-> d])
    <3>1. RecordsGrow
      BY <1>0, <2>2, <2>5, GrowEntry
    <3>2. [kind |-> "find", day |-> d] \in Request
      BY <1>0 DEF Request
    <3>3. QED BY <1>0, <2>5, <3>1, <3>2 DEF Calm, WarnsOfAbsence
  <2>6. QED BY <1>1, <2>3, <2>4, <2>5 DEF Enter
<1>2. CASE CheckOut(w)
  <2> DEFINE r == [record[d] EXCEPT !.out = TRUE,
                                    !.status = IF ApprovalRequired THEN "PENDING" ELSE "APPROVED"]
  <2>1. op[w].kind = "checkout" /\ record[d] \in Entry(d) /\ d \notin Holidays
    BY <1>0, <1>2 DEF CheckOut, At, RequestShaped
  <2>2. r \in Entry(d)
    BY <2>1 DEF Entry, Record, Statuses
  <2>3. RecordsGrow
    BY <1>0, <1>2, <2>2, GrowEntry DEF CheckOut
  <2>4. [kind |-> "stop", day |-> d] \in Request
    BY <1>0 DEF Request
  <2>5. Become(w, [kind |-> "stop", day |-> d])
    BY <1>2 DEF CheckOut
  <2>6. QED BY <1>0, <2>3, <2>4, <2>5 DEF Calm, WarnsOfAbsence
<1>3. CASE Clarify(w) \/ \E approve \in BOOLEAN : Review(w, approve)
  <2>1. op[w].kind = "review" /\ record[d] \in Entry(d)
    BY <1>0, <1>3 DEF Clarify, Review, At, RequestShaped
  <2>2. PICK s \in Statuses : Put(d, [record[d] EXCEPT !.status = s])
    BY <1>3 DEF Clarify, Review, Statuses
  <2>3. [record[d] EXCEPT !.status = s] \in Entry(d)
    BY <2>1 DEF Entry, Record
  <2>4. RecordsGrow
    BY <1>0, <2>2, <2>3, GrowEntry
  <2>5. QED BY <1>0, <1>3, <2>4, CalmFinished DEF Clarify, Review
<1>4. QED BY <1>1, <1>2, <1>3

LEMMA CalmRest ==
    ASSUME ShapeInv, NEW w \in Workers, UnlockRead(w) \/ FreeRead(w) \/ JobLook(w)
    PROVE  Calm(w)
<1>1. CASE UnlockRead(w) \/ FreeRead(w)
  <2>1. PICK kind \in {"unlock", "pardon", "free"} :
           /\ Begin(w, [kind |-> kind])
           /\ UNCHANGED <<Clock, record, warnings, locked, freed, sessions, upsets>>
    BY <1>1 DEF UnlockRead, FreeRead
  <2>2. [kind |-> kind] \in Request
    BY DEF Request
  <2>3. QED BY <2>1, <2>2, CalmBegun DEF WarnsOfAbsence
<1>2. CASE JobLook(w)
  <2>1. [kind |-> "miss", day |-> today] \in Request
    BY DEF ShapeInv, TypeOK, Request
  <2>2. QED BY <1>2, <2>1, CalmBegun DEF JobLook, WarnsOfAbsence
<1>3. QED BY <1>1, <1>2

-----------------------------------------------------------------------------
(* The other steps keep the shape, and let the records grow.               *)

(* A new warning is one more copy of those there are.                      *)
LEMMA WarnShape ==
    ASSUME ShapeInv, NEW w \in Workers, Warn(w)
    PROVE  /\ warnings' \in SUBSET Warning
           /\ [op[w] EXCEPT !.kind = "count"] \in Request
           /\ ~WarnsOfAbsence([op[w] EXCEPT !.kind = "count"])
<1> DEFINE h == op[w]
           n == Cardinality(Given(h.cause, h.day)) + 1
           g == [h EXCEPT !.kind = "count"]
<1>1. h \in Request /\ h.kind = "warn" /\ warnings \in SUBSET Warning
  BY DEF ShapeInv, TypeOK, Workers, Warn, At
<1>2. h.cause \in Causes /\ h.day \in Days
  BY <1>1, KeptBy
<1>3. n \in 1 .. MaxCopies
  BY <1>1, GivenCounted, AttendanceAssumption DEF Warn
<1>4. g \in Request /\ g.kind = "count"
  <2>1. CASE h.cause = "late"
    <3>1. h \in [kind : {"warn", "count", "lock"}, cause : {"late"}, day : Days, new : BOOLEAN]
      BY <1>1, <2>1, KeptBy
    <3>2. QED BY <3>1 DEF Request
  <2>2. CASE h.cause = "absent"
    <3>1. h \in [kind : {"warn", "count", "lock"}, cause : {"absent"}, day : Days]
      BY <1>1, <2>2, KeptBy
    <3>2. QED BY <3>1 DEF Request
  <2>3. QED BY <1>2, <2>1, <2>2 DEF Causes
<1>5. [cause |-> h.cause, day |-> h.day, copy |-> n] \in Warning
  BY <1>2, <1>3 DEF Warning
<1>6. warnings' = warnings \cup {[cause |-> h.cause, day |-> h.day, copy |-> n]}
  BY DEF Warn
<1> HIDE DEF n, g
<1>7. QED BY <1>1, <1>4, <1>5, <1>6 DEF g, WarnsOfAbsence

(* What the count and the lock leave their request with.                   *)
LEMMA CountShape ==
    ASSUME ShapeInv, NEW w \in Workers, Count(w) \/ Lock(w)
    PROVE  \E h \in Request : /\ Become(w, h) /\ h.kind \in {"idle", "lock", "enter"}
                              /\ UNCHANGED <<Clock, record, warnings, freed, sessions, upsets>>
                              /\ locked' \in BOOLEAN
<1> DEFINE g == [op[w] EXCEPT !.kind = "lock"]
<1>1. op[w] \in Request /\ op[w].kind \in {"count", "lock"} /\ locked \in BOOLEAN
  BY DEF ShapeInv, TypeOK, Workers, Count, Lock, At
<1>2. /\ op[w].day \in Days /\ op[w].cause \in Causes
      /\ op[w].cause = "late" => op[w].new \in BOOLEAN
  BY <1>1, KeptBy
<1>3. g \in Request /\ g.kind = "lock"
  <2>1. CASE op[w].cause = "late"
    <3>1. op[w] \in [kind : {"warn", "count", "lock"}, cause : {"late"}, day : Days, new : BOOLEAN]
      BY <1>1, <2>1, KeptBy
    <3>2. QED BY <3>1 DEF Request
  <2>2. CASE op[w].cause = "absent"
    <3>1. op[w] \in [kind : {"warn", "count", "lock"}, cause : {"absent"}, day : Days]
      BY <1>1, <2>2, KeptBy
    <3>2. QED BY <3>1 DEF Request
  <2>3. QED BY <1>2, <2>1, <2>2 DEF Causes
<1>4. Counted(op[w]) \in Request /\ Counted(op[w]).kind \in {"idle", "enter"}
  <2> DEFINE in == [kind |-> "enter", day |-> op[w].day, type |-> "work", new |-> op[w].new]
  <2>1. op[w].cause # "absent" => in \in Request
    BY <1>2 DEF Request, Causes, Types
  <2>2. in.kind = "enter"
    OBVIOUS
  <2>3. Counted(op[w]) = Idle \/ (op[w].cause # "absent" /\ Counted(op[w]) = in)
    BY DEF Counted
  <2> HIDE DEF in
  <2>4. QED BY <2>1, <2>2, <2>3, IdleIsRequest
<1>5. Become(w, g) \/ Become(w, Counted(op[w]))
  BY DEF Count, Lock
<1>6. locked' \in BOOLEAN /\ UNCHANGED <<Clock, record, warnings, freed, sessions, upsets>>
  BY <1>1 DEF Count, Lock
<1> HIDE DEF g
<1>7. QED BY <1>3, <1>4, <1>5, <1>6

(* A run of the job meets a blank record, or leaves the record alone.      *)
LEMMA MissShape ==
    ASSUME ShapeInv, NEW j \in Workers, Miss(j)
    PROVE  /\ RecordsGrow /\ op[j].day \in Days
           /\ \/ /\ record[op[j].day] = Blank /\ record'[op[j].day] # Blank
                 /\ Become(j, [kind |-> "warn", cause |-> "absent", day |-> op[j].day])
                 /\ [kind |-> "warn", cause |-> "absent", day |-> op[j].day] \in Request
              \/ Finish(j)
<1>1. op[j] \in Request /\ op[j].kind = "miss" /\ TypeOK
  BY DEF ShapeInv, TypeOK, Workers, Miss, At
<1>2. op[j].day \in Days
  BY <1>1, KeptBy
<1>3. CASE record[op[j].day] = Blank
  <2>1. RecordsGrow /\ record'[op[j].day] = Absence
    BY <1>1, <1>2, <1>3, GrowJob DEF Miss
  <2>2. [kind |-> "warn", cause |-> "absent", day |-> op[j].day] \in Request
    BY <1>2 DEF Request
  <2>3. QED BY <1>2, <1>3, <2>1, <2>2, EntryIsRecord DEF Miss
<1>4. CASE record[op[j].day] # Blank
  BY <1>1, <1>2, <1>4, GrowSame DEF Miss
<1>5. QED BY <1>3, <1>4

(* Every step is one of these.                                             *)
Steps(w) ==
    \/ Calm(w) \/ Warn(w) \/ Count(w) \/ Lock(w) \/ Unlock(w) \/ Pardon(w) \/ Free(w)
    \/ Miss(w) \/ JobDayOff(w) \/ Upset(w)

LEMMA StepKinds ==
    ASSUME ShapeInv, [Next]_vars
    PROVE  CutOff \/ NextDay \/ UNCHANGED vars \/ \E w \in Workers : Steps(w)
<1>1. ASSUME NEW w \in Desks, DeskStep(w)
      PROVE  Steps(w)
  <2>0. w \in Workers
    BY DEF Workers
  <2>1. CASE \E d \in Days :
                \/ \E type \in Payloads, late \in BOOLEAN : MarkRead(w, d, type, late)
                \/ Track(w, d) \/ StopTracking(w, d) \/ CheckOutRead(w, d) \/ ReviewRead(w, d)
    BY <2>0, <2>1, CalmReads DEF Steps
  <2>2. CASE FindSession(w) \/ OpenSession(w) \/ StopSessions(w)
    BY <2>0, <2>2, CalmSessions DEF Steps
  <2>3. CASE Enter(w) \/ CheckOut(w) \/ Clarify(w) \/ \E approve \in BOOLEAN : Review(w, approve)
    BY <2>0, <2>3, CalmWrites DEF Steps
  <2>4. CASE \/ UnlockRead(w) \/ Unlock(w) \/ Pardon(w) \/ FreeRead(w) \/ Free(w)
             \/ Warn(w) \/ Count(w) \/ Lock(w)
    BY <2>0, <2>4, CalmRest DEF Steps
  <2>5. QED BY <1>1, <2>1, <2>2, <2>3, <2>4 DEF DeskStep
<1>2. ASSUME NEW j \in Jobs, JobStep(j)
      PROVE  Steps(j)
  <2>0. j \in Workers
    BY DEF Workers
  <2>1. QED BY <1>2, <2>0, CalmRest DEF JobStep, Steps
<1>3. ASSUME NEW w \in Desks \cup Jobs, Upset(w)
      PROVE  w \in Workers /\ Steps(w)
  BY <1>3 DEF Workers, Steps
<1>4. QED BY <1>1, <1>2, <1>3 DEF Next, Workers

(* Any step lets the records grow.                                         *)
LEMMA GrowStep ==
    ASSUME ShapeInv, [Next]_vars
    PROVE  RecordsGrow
<1>1. TypeOK
  BY DEF ShapeInv
<1>2. CASE record' = record
  BY <1>1, <1>2, GrowSame
<1>3. ASSUME NEW w \in Workers, Steps(w)
      PROVE  RecordsGrow
  <2>1. CASE JobDayOff(w)
    <3>1. today \in Days /\ record[today] = Blank /\ Put(today, Holiday)
      BY <1>1, <2>1 DEF TypeOK, JobDayOff
    <3>2. QED BY <1>1, <3>1, GrowJob
  <2>2. CASE Miss(w)
    BY <2>2, MissShape
  <2>3. CASE \/ Warn(w) \/ Count(w) \/ Lock(w) \/ Unlock(w) \/ Pardon(w) \/ Free(w) \/ Upset(w)
    BY <1>2, <2>3 DEF Warn, Count, Lock, Unlock, Pardon, Free, Upset
  <2>4. QED BY <1>3, <2>1, <2>2, <2>3 DEF Steps, Calm
<1>4. CASE CutOff \/ NextDay \/ UNCHANGED vars
  BY <1>2, <1>4 DEF CutOff, NextDay, vars
<1>5. QED BY <1>3, <1>4, StepKinds

(* The clock moves, or nothing does.                                       *)
LEMMA ShapeClock ==
    ASSUME ShapeInv, CutOff \/ NextDay \/ UNCHANGED vars
    PROVE  ShapeInv'
<1>1. UNCHANGED <<record, warnings, locked, freed, sessions, op, upsets>>
  BY DEF CutOff, NextDay, vars
<1>2. today' \in Days /\ pastCutoff' \in BOOLEAN
  <2>1. today \in 1 .. Last /\ pastCutoff \in BOOLEAN /\ Last \in Nat
    BY AttendanceAssumption DEF ShapeInv, TypeOK, Days
  <2>2. CASE CutOff
    BY <2>1, <2>2 DEF CutOff, Days
  <2>3. CASE NextDay
    <3>1. today < Last /\ today' = today + 1 /\ pastCutoff' = FALSE
      BY <2>3 DEF NextDay
    <3>2. today' \in 1 .. Last
      BY <2>1, <3>1
    <3>3. QED BY <3>1, <3>2 DEF Days
  <2>4. CASE UNCHANGED vars
    BY <2>1, <2>4 DEF vars, Days
  <2>5. QED BY <2>2, <2>3, <2>4
<1>3. QED BY <1>1, <1>2 DEF ShapeInv, TypeOK, RecordsShaped, RequestsShaped, RequestShaped, Entry

LEMMA ShapeStep == ShapeInv /\ [Next]_vars => ShapeInv'
<1> SUFFICES ASSUME ShapeInv, [Next]_vars PROVE ShapeInv'
  OBVIOUS
<1>1. RecordsGrow
  BY GrowStep
<1>2. ASSUME NEW w \in Workers, Steps(w)
      PROVE  ShapeInv'
  <2>0. TypeOK
    BY DEF ShapeInv
  <2>1. CASE Calm(w)
    <3>1. /\ today' \in Days /\ pastCutoff' \in BOOLEAN /\ locked' \in BOOLEAN /\ freed' \in BOOLEAN
          /\ warnings' \in SUBSET Warning /\ upsets' \in 0 .. MaxUpsets
      BY <2>0, <2>1 DEF TypeOK, Calm, Clock
    <3>2. QED BY <1>1, <2>1, <3>1, ShapeOfRequest DEF Calm
  <2>2. CASE Warn(w)
    <3>1. /\ [op[w] EXCEPT !.kind = "count"].kind = "count"
          /\ Become(w, [op[w] EXCEPT !.kind = "count"])
      <4>1. op[w] \in Request /\ op[w].kind = "warn"
        BY <2>0, <2>2 DEF TypeOK, Workers, Warn, At
      <4>2. QED BY <2>2, <4>1 DEF Warn, Request
    <3>2. /\ today' \in Days /\ pastCutoff' \in BOOLEAN /\ locked' \in BOOLEAN /\ freed' \in BOOLEAN
          /\ sessions' \in [Days -> 0 .. MaxSessions] /\ upsets' \in 0 .. MaxUpsets
      BY <2>0, <2>2 DEF TypeOK, Warn, Clock
    <3>3. QED BY <1>1, <2>2, <3>1, <3>2, WarnShape, ShapeOfRequest
  <2>3. CASE Count(w) \/ Lock(w)
    <3>1. /\ today' \in Days /\ pastCutoff' \in BOOLEAN /\ freed' \in BOOLEAN
          /\ warnings' \in SUBSET Warning
          /\ sessions' \in [Days -> 0 .. MaxSessions] /\ upsets' \in 0 .. MaxUpsets
      BY <2>0, <2>3 DEF TypeOK, Count, Lock, Clock
    <3>2. QED BY <1>1, <2>3, <3>1, CountShape, ShapeOfRequest
  <2>4. CASE Unlock(w) \/ Pardon(w) \/ Free(w) \/ Upset(w)
    <3>1. /\ today' \in Days /\ pastCutoff' \in BOOLEAN /\ locked' \in BOOLEAN /\ freed' \in BOOLEAN
          /\ warnings' \in SUBSET Warning
          /\ sessions' \in [Days -> 0 .. MaxSessions] /\ upsets' \in 0 .. MaxUpsets
      <4>1. upsets' \in 0 .. MaxUpsets
        <5>1. upsets \in 0 .. MaxUpsets /\ MaxUpsets \in Nat
          BY <2>0, AttendanceAssumption DEF TypeOK
        <5>2. upsets' = upsets \/ (upsets < MaxUpsets /\ upsets' = upsets + 1)
          BY <2>4 DEF Unlock, Pardon, Free, Upset
        <5>3. QED BY <5>1, <5>2
      <4>2. QED BY <2>0, <2>4, <4>1 DEF TypeOK, Unlock, Pardon, Free, Upset, Clock
    <3>2. \E h \in Request : Become(w, h) /\ h.kind \in {"idle", "pardon"}
      <4>1. [kind |-> "pardon"] \in Request
        BY DEF Request
      <4>2. QED BY <2>4, <4>1, IdleIsRequest DEF Unlock, Pardon, Free, Upset, Finish
    <3>3. QED BY <1>1, <3>1, <3>2, ShapeOfRequest
  <2>5. CASE Miss(w)
    <3>1. /\ today' \in Days /\ pastCutoff' \in BOOLEAN /\ locked' \in BOOLEAN /\ freed' \in BOOLEAN
          /\ warnings' \in SUBSET Warning
          /\ sessions' \in [Days -> 0 .. MaxSessions] /\ upsets' \in 0 .. MaxUpsets
      BY <2>0, <2>5 DEF TypeOK, Miss, Clock
    <3>2. \E h \in Request : Become(w, h) /\ h.kind \in {"idle", "warn"}
      BY <2>5, MissShape, IdleIsRequest DEF Finish
    <3>3. QED BY <1>1, <3>1, <3>2, ShapeOfRequest
  <2>6. CASE JobDayOff(w)
    <3>1. Become(w, Idle) /\ op' = op
      BY <2>0, <2>6 DEF TypeOK, Workers, JobDayOff, Become
    <3>2. /\ today' \in Days /\ pastCutoff' \in BOOLEAN /\ locked' \in BOOLEAN /\ freed' \in BOOLEAN
          /\ warnings' \in SUBSET Warning
          /\ sessions' \in [Days -> 0 .. MaxSessions] /\ upsets' \in 0 .. MaxUpsets
      BY <2>0, <2>6 DEF TypeOK, JobDayOff, Clock
    <3>3. QED BY <1>1, <3>1, <3>2, IdleIsRequest, ShapeOfRequest
  <2>7. QED BY <1>2, <2>1, <2>2, <2>3, <2>4, <2>5, <2>6 DEF Steps
<1>3. QED BY <1>2, StepKinds, ShapeClock

LEMMA ShapeInit == Init => ShapeInv
<1> SUFFICES ASSUME Init PROVE ShapeInv
  OBVIOUS
<1>1. /\ today \in Days /\ upsets \in 0 .. MaxUpsets
      /\ sessions \in [Days -> 0 .. MaxSessions]
  BY AttendanceAssumption DEF Init, Days
<1>2. op \in [Desks \cup Jobs -> Request] /\ RequestsShaped
  BY IdleIsRequest DEF Init, RequestsShaped, RequestShaped, Workers
<1>3. record \in [Days -> Record \cup {Blank}] /\ \A d \in Days : record[d] = Blank
  BY DEF Init
<1>4. QED BY <1>1, <1>2, <1>3 DEF Init, ShapeInv, TypeOK, RecordsShaped, Blank

(* The records, warnings and requests keep their shape: whoever is checked *)
(* out has been checked in, and what the job has entered is as it put it.  *)
THEOREM TypeCorrect == Spec => []TypeOK
BY ShapeInit, ShapeStep, PTL DEF Spec, ShapeInv

(* A day the member has submitted is never turned into an absence, however *)
(* long ago the run that enters it has looked.                             *)
THEOREM OwnEntryKept == Spec => OwnEntryStands
<1>1. ShapeInv /\ [Next]_vars => \A d \in Days : record[d].by = "user" => record'[d].by = "user"
  BY GrowStep, GrowKeeps
<1>2. QED BY <1>1, ShapeInit, ShapeStep, PTL DEF Spec, OwnEntryStands

-----------------------------------------------------------------------------
(* One absence of a day, one warning of it.                                *)

(* A request that does not warn of an absence is written, and no warning   *)
(* of an absence is added.                                                 *)
LEMMA AbsencesKept ==
    ASSUME AbsenceInv, RecordsGrow, ShapeInv', NEW w \in Workers, NEW h \in Request,
           Become(w, h), ~WarnsOfAbsence(h),
           \A x \in warnings' : x.cause = "absent" => x \in warnings
    PROVE  AbsenceInv'
<1>1. op'[w] = h /\ \A v \in Workers \ {w} : op'[v] = op[v]
  BY OpWritten DEF AbsenceInv, ShapeInv, TypeOK, Workers
<1>2. \A x \in warnings : x.day \in Days
  BY DEF AbsenceInv, ShapeInv, TypeOK, Warning
<1>3. \A d \in Days : record[d] # Blank => record'[d] # Blank
  BY GrowKeeps DEF AbsenceInv
<1>4. \A x \in warnings' : x.cause = "absent" => record'[x.day] # Blank /\ x.copy = 1
  BY <1>2, <1>3 DEF AbsenceInv, AbsencesEntered
<1>5. ASSUME NEW v \in Workers, WarnsOfAbsence(op[v])'
      PROVE  /\ v # w /\ op'[v] = op[v] /\ WarnsOfAbsence(op[v])
             /\ record'[op'[v].day] # Blank /\ Given("absent", op[v].day)' = {}
  <2>1. v # w /\ op'[v] = op[v] /\ WarnsOfAbsence(op[v])
    BY <1>1, <1>5 DEF WarnsOfAbsence
  <2>2. op[v].day \in Days
    BY <2>1, KeptBy DEF AbsenceInv, ShapeInv, TypeOK, Workers, WarnsOfAbsence
  <2>3. Given("absent", op[v].day) = {} /\ record[op[v].day] # Blank
    BY <2>1 DEF AbsenceInv, AbsencesEntered
  <2>4. Given("absent", op[v].day)' = {}
    BY <2>1, <2>3 DEF Given
  <2>5. QED BY <1>3, <2>1, <2>2, <2>3, <2>4
<1>6. AbsencesEntered'
  BY <1>4, <1>5 DEF AbsenceInv, AbsencesEntered
<1>7. QED BY <1>6 DEF AbsenceInv

(* The run that entered the absence warns of it.                           *)
LEMMA AbsenceWarned ==
    ASSUME AbsenceInv, ShapeInv', NEW w \in Workers, Warn(w), op[w].cause = "absent"
    PROVE  AbsenceInv'
<1> DEFINE d == op[w].day
           x == [cause |-> "absent", day |-> d, copy |-> 1]
<1>0. ShapeInv /\ record' = record
  BY DEF AbsenceInv, Warn
<1>1. WarnsOfAbsence(op[w]) /\ op[w] \in Request /\ op[w].kind = "warn"
  BY <1>0 DEF Warn, At, WarnsOfAbsence, ShapeInv, TypeOK, Workers
<1>2. record[d] # Blank /\ Given("absent", d) = {}
  BY <1>1 DEF AbsenceInv, AbsencesEntered
<1>3. warnings' = warnings \cup {x}
  <2>1. Cardinality(Given("absent", d)) + 1 = 1
    BY <1>2, FS_EmptySet
  <2>2. QED BY <2>1 DEF Warn
<1>4. /\ ~WarnsOfAbsence(op[w])'
      /\ \A v \in Workers \ {w} : op'[v] = op[v]
  <2>1. ~WarnsOfAbsence([op[w] EXCEPT !.kind = "count"])
    BY <1>0, WarnShape
  <2>2. op'[w] = [op[w] EXCEPT !.kind = "count"] /\ \A v \in Workers \ {w} : op'[v] = op[v]
    BY <1>0, WarnShape, OpWritten DEF Warn, ShapeInv, TypeOK, Workers
  <2>3. QED BY <2>1, <2>2 DEF WarnsOfAbsence
<1>5. \A y \in warnings' : y.cause = "absent" => record'[y.day] # Blank /\ y.copy = 1
  BY <1>0, <1>2, <1>3 DEF AbsenceInv, AbsencesEntered
<1>6. ASSUME NEW v \in Workers, WarnsOfAbsence(op[v])'
      PROVE  /\ v # w /\ op'[v] = op[v] /\ WarnsOfAbsence(op[v])
             /\ record'[op'[v].day] # Blank /\ Given("absent", op[v].day)' = {}
  <2>1. v # w /\ op'[v] = op[v] /\ WarnsOfAbsence(op[v])
    BY <1>4, <1>6 DEF WarnsOfAbsence
  <2>2. /\ Given("absent", op[v].day) = {} /\ record[op[v].day] # Blank
        /\ op[v].day # d
    BY <1>1, <2>1 DEF AbsenceInv, AbsencesEntered
  <2>3. Given("absent", op[v].day)' = {}
    BY <1>3, <2>1, <2>2 DEF Given
  <2>4. QED BY <1>0, <2>1, <2>2, <2>3
<1>7. AbsencesEntered'
  BY <1>5, <1>6 DEF AbsenceInv, AbsencesEntered
<1>8. QED BY <1>7 DEF AbsenceInv

(* Where the record was blank nobody has warned, or is about to.           *)
LEMMA AbsenceEntered ==
    ASSUME AbsenceInv, RecordsGrow, ShapeInv', NEW w \in Workers, warnings' = warnings,
           op[w].day \in Days, record[op[w].day] = Blank, record'[op[w].day] # Blank,
           Become(w, [kind |-> "warn", cause |-> "absent", day |-> op[w].day])
    PROVE  AbsenceInv'
<1> DEFINE d == op[w].day
           h == [kind |-> "warn", cause |-> "absent", day |-> d]
<1>0. ShapeInv
  BY DEF AbsenceInv
<1>1. op'[w] = h /\ \A v \in Workers \ {w} : op'[v] = op[v]
  <2>1. h \in Request
    BY DEF Request
  <2>2. QED BY <1>0, <2>1, OpWritten DEF ShapeInv, TypeOK, Workers
<1>2. \A e \in Days : record[e] # Blank => record'[e] # Blank
  BY <1>0, GrowKeeps
<1>3. \A x \in warnings : x.day \in Days /\ (x.cause = "absent" => record[x.day] # Blank /\ x.copy = 1)
  BY <1>0 DEF ShapeInv, TypeOK, Warning, AbsenceInv, AbsencesEntered
<1>4. Given("absent", d) = {}
  BY <1>3 DEF Given
<1>5. ASSUME NEW v \in Workers, v # w, WarnsOfAbsence(op[v])'
      PROVE  /\ op'[v] = op[v] /\ WarnsOfAbsence(op[v]) /\ op'[v].day # d
             /\ record'[op'[v].day] # Blank /\ Given("absent", op[v].day) = {}
  <2>1. op'[v] = op[v] /\ WarnsOfAbsence(op[v])
    BY <1>1, <1>5 DEF WarnsOfAbsence
  <2>2. Given("absent", op[v].day) = {} /\ record[op[v].day] # Blank
    BY <2>1 DEF AbsenceInv, AbsencesEntered
  <2>3. op[v].day \in Days
    BY <1>0, <2>1, KeptBy DEF ShapeInv, TypeOK, Workers, WarnsOfAbsence
  <2>4. QED BY <1>2, <2>1, <2>2, <2>3
<1>6. op'[w].day = d /\ Given("absent", d)' = {}
  BY <1>1, <1>4 DEF Given
<1>7. AbsencesEntered'
  <2>1. \A x \in warnings' : x.cause = "absent" => record'[x.day] # Blank /\ x.copy = 1
    BY <1>2, <1>3
  <2>2. \A v \in Workers : WarnsOfAbsence(op[v])' => /\ record'[op'[v].day] # Blank
                                                     /\ Given("absent", op[v].day)' = {}
    BY <1>5, <1>6 DEF Given
  <2>3. \A u, v \in Workers :
           WarnsOfAbsence(op[u])' /\ WarnsOfAbsence(op[v])' /\ op'[u].day = op'[v].day => u = v
    BY <1>5, <1>6 DEF AbsenceInv, AbsencesEntered
  <2>4. QED BY <2>1, <2>2, <2>3 DEF AbsencesEntered
<1>8. QED BY <1>7 DEF AbsenceInv

LEMMA AbsenceStep == AbsenceInv /\ [Next]_vars => AbsenceInv'
<1> SUFFICES ASSUME AbsenceInv, [Next]_vars PROVE AbsenceInv'
  OBVIOUS
<1>0. ShapeInv /\ ShapeInv' /\ RecordsGrow
  BY ShapeStep, GrowStep DEF AbsenceInv
<1>1. ASSUME NEW w \in Workers, Steps(w)
      PROVE  AbsenceInv'
  <2>1. CASE Calm(w)
    BY <1>0, <2>1, AbsencesKept DEF Calm
  <2>2. CASE Warn(w) /\ op[w].cause = "absent"
    BY <1>0, <2>2, AbsenceWarned
  <2>3. CASE Warn(w) /\ op[w].cause # "absent"
    <3>1. \A x \in warnings' : x.cause = "absent" => x \in warnings
      BY <2>3 DEF Warn
    <3>2. Become(w, [op[w] EXCEPT !.kind = "count"])
      BY <2>3 DEF Warn
    <3>3. QED BY <1>0, <2>3, <3>1, <3>2, WarnShape, AbsencesKept
  <2>4. CASE Count(w) \/ Lock(w)
    <3>1. \E h \in Request : Become(w, h) /\ h.kind # "warn" /\ warnings' = warnings
      BY <1>0, <2>4, CountShape
    <3>2. QED BY <1>0, <3>1, AbsencesKept DEF WarnsOfAbsence
  <2>5. CASE Unlock(w) \/ Pardon(w) \/ Free(w) \/ Upset(w)
    <3>1. \E h \in Request : Become(w, h) /\ h.kind # "warn"
      <4>1. [kind |-> "pardon"] \in Request
        BY DEF Request
      <4>2. QED BY <2>5, <4>1, IdleIsRequest DEF Unlock, Pardon, Free, Upset, Finish
    <3>2. warnings' \subseteq warnings
      BY <2>5 DEF Unlock, Pardon, Free, Upset
    <3>3. QED BY <1>0, <3>1, <3>2, AbsencesKept DEF WarnsOfAbsence
  <2>6. CASE Miss(w)
    <3>1. warnings' = warnings
      BY <2>6 DEF Miss
    <3>2. CASE Finish(w)
      BY <1>0, <3>1, <3>2, IdleIsRequest, AbsencesKept DEF Finish, WarnsOfAbsence
    <3>3. QED BY <1>0, <2>6, <3>1, <3>2, MissShape, AbsenceEntered
  <2>7. CASE JobDayOff(w)
    <3>1. op[w] = Idle /\ Become(w, Idle) /\ warnings' = warnings
      BY <1>0, <2>7 DEF ShapeInv, TypeOK, Workers, JobDayOff, Become
    <3>2. QED BY <1>0, <3>1, IdleIsRequest, AbsencesKept DEF WarnsOfAbsence
  <2>8. QED BY <1>1, <2>1, <2>2, <2>3, <2>4, <2>5, <2>6, <2>7 DEF Steps
<1>2. CASE CutOff \/ NextDay \/ UNCHANGED vars
  <2>1. UNCHANGED <<record, warnings, op>>
    BY <1>2 DEF CutOff, NextDay, vars
  <2>2. QED BY <1>0, <2>1 DEF AbsenceInv, AbsencesEntered, WarnsOfAbsence, Given
<1>3. QED BY <1>0, <1>1, <1>2, StepKinds

(* However many runs of the job overlap, and whatever the member submits   *)
(* and an administrator forgives meanwhile, one absence is warned of once. *)
THEOREM WarnedOnce == Spec => []AbsentOnce
<1>1. Init => AbsenceInv
  BY ShapeInit DEF Init, AbsenceInv, AbsencesEntered, WarnsOfAbsence, Idle, Workers
<1>2. AbsenceInv => AbsentOnce
  <2> SUFFICES ASSUME AbsenceInv, NEW d \in Days
               PROVE  Cardinality(Given("absent", d)) <= 1
    BY DEF AbsentOnce
  <2> DEFINE x == [cause |-> "absent", day |-> d, copy |-> 1]
  <2>1. Given("absent", d) \subseteq {x}
    BY DEF AbsenceInv, AbsencesEntered, ShapeInv, TypeOK, Warning, Given
  <2> HIDE DEF x
  <2>2. IsFiniteSet({x}) /\ Cardinality({x}) = 1
    BY FS_Singleton
  <2>3. QED BY <2>1, <2>2, FS_Subset
<1>3. QED BY <1>1, <1>2, AbsenceStep, PTL DEF Spec

-----------------------------------------------------------------------------
(* Enough warnings lock the account.                                       *)

LockInv == ShapeInv /\ CountPending

LEMMA LockStep == LockInv /\ [Next]_vars => LockInv'
<1> SUFFICES ASSUME LockInv, [Next]_vars PROVE CountPending'
  BY ShapeStep DEF LockInv
<1>0. ShapeInv /\ CountPending /\ op \in [Workers -> Request]
  BY DEF LockInv, ShapeInv, TypeOK, Workers
<1> SUFFICES ASSUME upsets' = 0, ~freed', Cardinality(warnings') >= Threshold
             PROVE  locked' \/ \E w \in Workers : op'[w].kind \in {"count", "lock"}
  BY DEF CountPending
<1>1. ASSUME NEW w \in Workers, Steps(w)
      PROVE  locked' \/ \E v \in Workers : op'[v].kind \in {"count", "lock"}
  <2>1. CASE \/ Calm(w) \/ Miss(w) \/ JobDayOff(w)
    <3>1. /\ UNCHANGED <<warnings, locked, freed, upsets>>
          /\ op[w].kind \notin {"count", "lock"}
          /\ \A v \in Workers \ {w} : op'[v] = op[v]
      <4>1. CASE Calm(w)
        BY <1>0, <4>1, OpWritten DEF Calm
      <4>2. CASE Miss(w)
        BY <1>0, <4>2 DEF Miss, At, Become, Finish
      <4>3. CASE JobDayOff(w)
        BY <4>3 DEF JobDayOff, Idle
      <4>4. QED BY <2>1, <4>1, <4>2, <4>3
    <3>2. QED BY <1>0, <3>1 DEF CountPending
  <2>2. CASE Warn(w)
    <3>1. op[w].kind = "warn" /\ op[w] \in Request
      BY <1>0, <2>2 DEF Warn, At
    <3>2. op'[w] = [op[w] EXCEPT !.kind = "count"]
      BY <1>0, <2>2 DEF Warn, Become
    <3>3. op'[w].kind = "count"
      BY <3>1, <3>2 DEF Request
    <3>4. QED BY <3>3
  <2>3. CASE Count(w)
    <3>1. op[w].kind = "count" /\ op[w] \in Request /\ Cardinality(warnings) >= Threshold
      BY <1>0, <2>3 DEF Count, At
    <3>2. op'[w] = [op[w] EXCEPT !.kind = "lock"]
      BY <1>0, <2>3, <3>1 DEF Count, Become
    <3>3. op'[w].kind = "lock"
      BY <3>1, <3>2 DEF Request
    <3>4. QED BY <3>3
  <2>4. CASE Lock(w)
    BY <2>4 DEF Lock
  <2>5. CASE Unlock(w) \/ Free(w)
    <3>1. ~freed /\ ~locked /\ UNCHANGED <<warnings, upsets>>
      BY <1>0, <2>5 DEF ShapeInv, TypeOK, Unlock, Free
    <3>2. PICK v \in Workers : op[v].kind \in {"count", "lock"}
      BY <1>0, <3>1 DEF CountPending
    <3>3. v # w /\ op'[v] = op[v]
      BY <1>0, <2>5, <3>2 DEF Unlock, Free, At, Become, Finish
    <3>4. QED BY <3>2, <3>3
  <2>6. CASE Pardon(w)
    <3>1. Cardinality(warnings') = 0
      BY <2>6, FS_EmptySet DEF Pardon
    <3>2. QED BY <3>1, AttendanceAssumption
  <2>7. CASE Upset(w)
    <3>1. upsets \in Nat /\ upsets' = upsets + 1
      BY <1>0, <2>7 DEF ShapeInv, TypeOK, Upset
    <3>2. QED BY <3>1
  <2>8. QED BY <1>1, <2>1, <2>2, <2>3, <2>4, <2>5, <2>6, <2>7 DEF Steps
<1>2. CASE CutOff \/ NextDay \/ UNCHANGED vars
  BY <1>0, <1>2 DEF CutOff, NextDay, vars, CountPending
<1>3. QED BY <1>0, <1>1, <1>2, StepKinds

(* As long as no request has broken off, enough warnings mean a locked     *)
(* account whenever nothing is in flight and nobody has freed the account  *)
(* since the last of them: whatever submissions, runs of the job and       *)
(* unlocks that keep or delete the warnings overlap, no lock is lost.      *)
THEOREM EnoughWarningsLock == Spec => []ThresholdLocks
<1>1. Init => LockInv
  <2> SUFFICES ASSUME Init PROVE CountPending
    BY ShapeInit DEF LockInv
  <2>1. Cardinality(warnings) = 0
    BY FS_EmptySet DEF Init
  <2>2. QED BY <2>1, AttendanceAssumption DEF CountPending
<1>2. LockInv => ThresholdLocks
  BY DEF LockInv, CountPending, ThresholdLocks, Idle, Workers
<1>3. QED BY <1>1, <1>2, LockStep, PTL DEF Spec
=============================================================================
