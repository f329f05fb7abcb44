--------------------------- MODULE Contact_proofs ---------------------------
(***************************************************************************)
(* What holds of the contacts with a lead: the recordings of its calls,    *)
(* for any number of files, sessions, activities and requests in flight;   *)
(* and its follow-ups, for any number of them and of requests about them.  *)
(***************************************************************************)
EXTENDS Recordings, FollowUps, SequenceTheorems, FiniteSetTheorems, WellFoundedInduction,
        TLAPS

-----------------------------------------------------------------------------
(* The inductive invariant.                                                *)

(* A session is meant for a file once it exists, and an imported one from  *)
(* the start; only a finalization makes it ready, with an address.         *)
SessionsShaped ==
    \A s \in Sessions :
       /\ IsFiniteSet(asked[s])
       /\ asked[s] # {} => Present(s)
       /\ Imported(s) => asked[s] # {}
       /\ Imported(s) /\ session[s].recordingStatus = "READY" => session[s].recordingUrl # "none"

(* A request works for a session that has been meant for its file, an      *)
(* upload for a call or an event for one it has named.                     *)
Carries(h) == h.phase \in {"store", "fail", "finalize", "commit"}

RequestsShaped ==
    \A w \in Desks :
       /\ Carries(op[w]) => op[w].file \in asked[op[w].session]
       /\ Carries(op[w]) /\ ~op[w].import => op[w].session \in named
       /\ At(w, "note") => op[w].session \in named
       /\ At(w, "commit") => op[w].match <= Len(entries)

(* Only the webhooks add an activity without a file.                       *)
EntriesShaped ==
    \A i \in Indices :
       entries[i].file = NoFile => entries[i].session \in named

(* The locks: of a file, and of the row of a session.                      *)
HoldsFile(w, f) ==
    /\ op[w].phase \in {"find", "create", "commit"} /\ op[w].file = f
    /\ At(w, "commit") => op[w].import

FilesHeld == \A f \in Files : \A v, w \in Desks : HoldsFile(v, f) /\ HoldsFile(w, f) => v = w
RowsHeld  == \A v, w \in Desks : At(v, "commit") /\ At(w, "commit")
                                    /\ op[v].session = op[w].session => v = w

ShapeInv ==
    /\ TypeOK /\ SessionsShaped /\ RequestsShaped /\ EntriesShaped
    /\ FilesHeld /\ RowsHeld

(* Unshared, without the count.                                            *)
Sole == \A s \in Sessions : \A f, g \in asked[s] : f = g

(* What an activity or an answer says of a session is so.                  *)
Played(f, s) ==
    /\ f \in asked[s] /\ session[s].recordingUrl # "none" /\ stored[s] = f

EntriesPlayed == \A i \in Indices : entries[i].file # NoFile => Played(entries[i].file, entries[i].session)
ToldPlayed    == \A t \in told : Played(t[1], t[2])
StoredFirst   == \A w \in Desks : op[w].phase \in {"finalize", "commit"} => stored[op[w].session] = op[w].file

(* A finalization writes over an activity of its file, or over one of its  *)
(* session that carries none, or, where no session of the file is named    *)
(* and the activities are few, finds no activity of the file.              *)
Unnamed(f) == \A s \in Sessions : f \in asked[s] => s \notin named
Few        == Len(entries) <= Window

MatchesKept ==
    \A w \in Desks : At(w, "commit") =>
       /\ op[w].match # 0 => \/ entries[op[w].match].file = op[w].file
                             \/ /\ entries[op[w].match].file = NoFile
                                /\ entries[op[w].match].session = op[w].session
       /\ op[w].match = 0 /\ Few /\ Unnamed(op[w].file) =>
             \A i \in Indices : entries[i].file # op[w].file

(* An imported session that has an address has an activity of its file,    *)
(* unless it is named: a request that found none, and holds the lock,      *)
(* finds no such session.                                                  *)
Own(s) == Imported(s) /\ s \notin named
ReadyHasEntry ==
    \A s \in Sessions : \A f \in asked[s] :
       Own(s) /\ session[s].recordingUrl # "none" => \E i \in Indices : entries[i].file = f

ReservesAlone ==
    \A w \in Desks : \A s \in Sessions :
       Own(s) /\ op[w].phase \in {"find", "create"} /\ op[w].file \in asked[s] =>
          At(w, "find") /\ session[s].recordingUrl = "none"

OneSession == \A s, t \in Sessions : \A f \in asked[s] \cap asked[t] : Own(s) /\ Own(t) => s = t
OneEntry   == \A f \in Files : Few /\ Unnamed(f) =>
                 \A i, j \in Indices : entries[i].file = f /\ entries[j].file = f => i = j

Paired ==
    /\ EntriesPlayed /\ ToldPlayed /\ StoredFirst
    /\ MatchesKept /\ ReadyHasEntry /\ ReservesAlone
    /\ OneSession /\ OneEntry

FilesInv == Sole => Paired

-----------------------------------------------------------------------------
(* Operators the requests are built from.                                  *)

LEMMA OpWritten ==
    ASSUME op \in [Desks -> Request], NEW w \in Desks, NEW h \in Request, Go(w, h)
    PROVE  /\ op' \in [Desks -> Request]
           /\ op'[w] = h
           /\ \A v \in Desks \ {w} : op'[v] = op[v]
BY DEF Go

LEMMA IdleIsRequest == Idle \in Request /\ Idle.phase = "idle"
BY DEF Idle, Request

(* What a request keeps is known from its phase.                           *)
LEMMA KeptBy ==
    ASSUME NEW h \in Request
    PROVE  /\ h.phase \notin {"idle", "note"} => h.file \in Files
           /\ h.phase \notin {"idle", "look", "find", "create"} => h.session \in Sessions
           /\ Carries(h) => h.file \in Files /\ h.session \in Sessions
           /\ h.phase \in {"store", "fail", "finalize"} =>
                 h \in [phase : {"store", "fail", "finalize"}, file : Files, session : Sessions,
                        import : BOOLEAN]
           /\ Carries(h) => h.import \in BOOLEAN
           /\ h.phase = "commit" => h.match \in 0 .. MaxEntries
BY DEF Request, Carries

LEMMA OpTyped ==
    ASSUME TypeOK, NEW w \in Desks
    PROVE  op[w] \in Request
BY DEF TypeOK

LEMMA EntryTyped ==
    ASSUME TypeOK, NEW i \in Indices
    PROVE  entries[i] \in Entry /\ entries[i].session \in Sessions
           /\ entries[i].file \in Files \cup {NoFile}
<1>1. entries \in Seq(Entry) /\ i \in 1 .. Len(entries)
  BY DEF TypeOK, Indices
<1>2. entries[i] \in Entry
  BY <1>1
<1>3. QED BY <1>2 DEF Entry

(* A nonempty set of sessions has a latest one.                            *)
LEMMA LatestIsThere ==
    ASSUME NEW S \in SUBSET Sessions, S # {}
    PROVE  Latest(S) \in S /\ \A s \in S : s <= Latest(S)
<1> DEFINE T == {MaxSessions - s : s \in S}
<1>1. MaxSessions \in Nat /\ \A s \in S : s \in 1 .. MaxSessions
  BY RecordingsAssumption DEF Sessions
<1>2. T \subseteq Nat /\ T # {}
  BY <1>1
<1>3. PICK n \in T : \A m \in T : <<m, n>> \notin OpToRel(<, Nat)
  BY <1>2, NatLessThanWellFounded, WFMin, Zenon
<1>4. \A m \in T : ~(m < n)
  <2>1. \A i, j \in Nat : j < i => <<j, i>> \in OpToRel(<, Nat)
    BY Zenon DEF OpToRel
  <2>2. QED BY <1>2, <1>3, <2>1, Zenon
<1>5. PICK s \in S : n = MaxSessions - s
  OBVIOUS
<1>6. ASSUME NEW t \in S
      PROVE  t <= s
  <2>1. MaxSessions - t \in T
    OBVIOUS
  <2>2. ~(MaxSessions - t < MaxSessions - s)
    BY <1>4, <1>5, <2>1
  <2>3. QED BY <1>1, <2>2
<1> HIDE DEF T
<1>7. QED BY <1>6 DEF Latest

-----------------------------------------------------------------------------
(* What any step does to the sessions, the store and the activities.       *)
SessionsTyped ==
    /\ session \in [Sessions -> Session]
    /\ \A s \in Sessions :
          /\ session[s].sourceContext = "none" =>
                session[s] = Absent /\ \A t \in Sessions : t > s => session[t] = Absent
          /\ session[s].sourceContext = "RECORDING_IMPORT" => session[s].recordingStatus # "none"
          /\ session[s].recordingUrl = "provider" => s \in named

Grow ==
    /\ SessionsTyped' /\ SessionsShaped' /\ EntriesShaped'
    /\ stored' \in [Sessions -> Files \cup {NoFile}]
    /\ entries' \in Seq(Entry) /\ Len(entries') <= MaxEntries /\ Len(entries) <= Len(entries')
    /\ asked' \in [Sessions -> SUBSET Files]
    /\ told' \subseteq Files \X Sessions
    /\ named \subseteq named' /\ named' \subseteq Sessions
    /\ \A s \in Sessions :
          /\ Present(s) => session'[s].sourceContext = session[s].sourceContext
          /\ session[s].recordingUrl # "none" => session'[s].recordingUrl # "none"
          /\ asked[s] \subseteq asked'[s]

LEMMA GrowSame ==
    ASSUME ShapeInv, UNCHANGED <<session, stored, entries, asked, named>>, told' \subseteq Files \X Sessions
    PROVE  Grow
<1>1. SessionsTyped
  BY DEF ShapeInv, TypeOK, SessionsTyped
<1>2. (SessionsTyped /\ SessionsShaped /\ EntriesShaped)'
  BY <1>1 DEF ShapeInv, SessionsTyped, SessionsShaped, EntriesShaped, Present, Imported, Indices
<1>3. Len(entries) <= Len(entries')
  BY LenProperties DEF ShapeInv, TypeOK
<1>4. QED BY <1>2, <1>3 DEF ShapeInv, TypeOK, Grow

(* A session that is there is written.                                     *)
LEMMA GrowWritten ==
    ASSUME ShapeInv, NEW s \in Sessions, Present(s), NEW r \in Session,
           session' = [session EXCEPT ![s] = r],
           r.sourceContext = session[s].sourceContext,
           session[s].recordingUrl # "none" => r.recordingUrl # "none",
           Imported(s) => /\ r.recordingStatus # "none"
                          /\ r.recordingStatus = "READY" => r.recordingUrl # "none",
           r.recordingUrl = "provider" => s \in named',
           named \subseteq named', named' \subseteq Sessions, UNCHANGED <<stored, asked>>, told' \subseteq Files \X Sessions,
           entries' \in Seq(Entry), Len(entries') <= MaxEntries, Len(entries) <= Len(entries'),
           \A i \in 1 .. Len(entries') :
              \/ entries'[i].file # NoFile
              \/ i \in Indices /\ entries'[i] = entries[i]
    PROVE  Grow
<1>1. TypeOK /\ SessionsTyped /\ SessionsShaped
  BY DEF ShapeInv, TypeOK, SessionsTyped
<1>2. /\ session' \in [Sessions -> Session] /\ session'[s] = r
      /\ \A t \in Sessions \ {s} : session'[t] = session[t]
  BY <1>1 DEF SessionsTyped
<1>3. \A t \in Sessions : session'[t].sourceContext = session[t].sourceContext
  BY <1>2
<1>4. session[s] # Absent
  BY DEF Present, Absent
<1>5. SessionsTyped'
  <2>1. ASSUME NEW t \in Sessions, session'[t].sourceContext = "none"
        PROVE  session'[t] = Absent /\ \A u \in Sessions : u > t => session'[u] = Absent
    BY <1>1, <1>2, <1>3, <1>4, <2>1 DEF SessionsTyped, Present
  <2>2. ASSUME NEW t \in Sessions
        PROVE  /\ session'[t].sourceContext = "RECORDING_IMPORT" => session'[t].recordingStatus # "none"
               /\ session'[t].recordingUrl = "provider" => t \in named'
    BY <1>1, <1>2, <1>3 DEF SessionsTyped, Imported
  <2>3. QED BY <1>2, <2>1, <2>2 DEF SessionsTyped
<1>6. SessionsShaped'
  BY <1>1, <1>2, <1>3 DEF SessionsShaped, Present, Imported
<1>7. EntriesShaped'
  <2>1. ASSUME NEW i \in 1 .. Len(entries'), entries'[i].file = NoFile
        PROVE  entries'[i].session \in named'
    <3>1. i \in Indices /\ entries'[i] = entries[i]
      BY <2>1
    <3>2. QED BY <2>1, <3>1 DEF ShapeInv, EntriesShaped
  <2>2. QED BY <2>1 DEF EntriesShaped, Indices
<1>8. QED BY <1>1, <1>2, <1>3, <1>5, <1>6, <1>7 DEF Grow, TypeOK

(* A session is created, meant for what it is created for.                 *)
LEMMA GrowCreated ==
    ASSUME ShapeInv, NEW s \in Next1, NEW r \in Session, NEW F \in SUBSET Files, IsFiniteSet(F),
           session' = [session EXCEPT ![s] = r], r.sourceContext # "none", r.recordingUrl = "none",
           r.sourceContext = "RECORDING_IMPORT" => r.recordingStatus = "PENDING" /\ F # {},
           asked' = [asked EXCEPT ![s] = F], UNCHANGED <<stored, entries, named, told>>
    PROVE  Grow
<1>1. TypeOK /\ SessionsTyped /\ SessionsShaped
  BY DEF ShapeInv, TypeOK, SessionsTyped
<1>2. /\ s \in Sessions /\ ~Present(s) /\ session[s] = Absent /\ asked[s] = {}
      /\ \A t \in Sessions : t < s => Present(t)
  <2>1. s \in Sessions /\ ~Present(s) /\ \A t \in 1 .. s - 1 : Present(t)
    BY DEF Next1
  <2>2. session[s] = Absent /\ asked[s] = {}
    BY <1>1, <2>1 DEF SessionsTyped, SessionsShaped, Present
  <2>3. \A t \in Sessions : t < s => t \in 1 .. s - 1
    BY <2>1, RecordingsAssumption DEF Sessions
  <2>4. QED BY <2>1, <2>2, <2>3
<1>3. /\ session' \in [Sessions -> Session] /\ session'[s] = r
      /\ \A t \in Sessions \ {s} : session'[t] = session[t]
      /\ asked' \in [Sessions -> SUBSET Files] /\ asked'[s] = F
      /\ \A t \in Sessions \ {s} : asked'[t] = asked[t]
  BY <1>1, <1>2 DEF SessionsTyped, TypeOK
<1>4. SessionsTyped'
  <2>1. ASSUME NEW t \in Sessions, session'[t].sourceContext = "none"
        PROVE  session'[t] = Absent /\ \A u \in Sessions : u > t => session'[u] = Absent
    <3>1. t # s /\ ~Present(t) /\ session'[t] = Absent
      BY <1>1, <1>3, <2>1 DEF SessionsTyped, Present
    <3>2. t > s
      BY <1>2, <3>1, RecordingsAssumption DEF Sessions
    <3>3. \A u \in Sessions : u > t => u # s /\ session[u] = Absent
      BY <1>1, <1>2, <1>3, <2>1, <3>1, <3>2, RecordingsAssumption DEF SessionsTyped, Sessions
    <3>4. QED BY <1>3, <3>1, <3>3
  <2>2. ASSUME NEW t \in Sessions
        PROVE  /\ session'[t].sourceContext = "RECORDING_IMPORT" => session'[t].recordingStatus # "none"
               /\ session'[t].recordingUrl = "provider" => t \in named'
    BY <1>1, <1>3 DEF SessionsTyped
  <2>3. QED BY <1>3, <2>1, <2>2 DEF SessionsTyped
<1>5. SessionsShaped'
  BY <1>1, <1>3 DEF SessionsShaped, Present, Imported
<1>6. EntriesShaped'
  BY DEF ShapeInv, EntriesShaped, Indices
<1>7. Len(entries) <= Len(entries')
  BY <1>1, LenProperties DEF TypeOK
<1>8. \A t \in Sessions : session[t].recordingUrl # "none" => session'[t].recordingUrl # "none"
  BY <1>2, <1>3 DEF Absent
<1>9. QED BY <1>1, <1>2, <1>3, <1>4, <1>5, <1>6, <1>7, <1>8 DEF Grow, TypeOK

(* A session that is there is meant for one more file.                     *)
LEMMA GrowAsked ==
    ASSUME ShapeInv, NEW s \in Sessions, NEW f \in Files, Present(s), Asked(s, f),
           named \subseteq named', named' \subseteq Sessions, UNCHANGED <<session, stored, entries, told>>
    PROVE  Grow /\ f \in asked'[s]
<1>0. TypeOK
  BY DEF ShapeInv
<1>1. asked' = [asked EXCEPT ![s] = asked[s] \cup {f}]
  BY DEF Asked
<1>2. /\ asked' \in [Sessions -> SUBSET Files] /\ asked'[s] = asked[s] \cup {f}
      /\ \A t \in Sessions \ {s} : asked'[t] = asked[t]
  BY <1>0, <1>1 DEF TypeOK
<1>3. SessionsShaped'
  <2>1. \A t \in Sessions : IsFiniteSet(asked'[t])
    <3>1. \A t \in Sessions : IsFiniteSet(asked[t])
      BY DEF ShapeInv, SessionsShaped
    <3>2. IsFiniteSet(asked[s] \cup {f})
      BY <3>1, FS_AddElement
    <3>3. QED BY <1>2, <3>1, <3>2
  <2>2. QED BY <1>2, <2>1 DEF ShapeInv, SessionsShaped, Present, Imported
<1>4. (SessionsTyped /\ EntriesShaped)'
  BY <1>0 DEF ShapeInv, TypeOK, SessionsTyped, EntriesShaped, Indices
<1>5. Len(entries) <= Len(entries')
  BY <1>0, LenProperties DEF TypeOK
<1>6. QED BY <1>0, <1>2, <1>3, <1>4, <1>5 DEF Grow, TypeOK

-----------------------------------------------------------------------------
(* The shape is kept.                                                      *)

(* A request that is left alone keeps what it holds.                       *)
LEMMA ShapeOthers ==
    ASSUME ShapeInv, Grow, NEW v \in Desks, op'[v] = op[v]
    PROVE  /\ Carries(op'[v]) => op'[v].file \in asked'[op'[v].session]
           /\ Carries(op'[v]) /\ ~op'[v].import => op'[v].session \in named'
           /\ op'[v].phase = "note" => op'[v].session \in named'
           /\ op'[v].phase = "commit" => op'[v].match <= Len(entries')
           /\ \A f : HoldsFile(v, f)' <=> HoldsFile(v, f)
<1> DEFINE h == op[v]
<1>1. h \in Request /\ TypeOK
  BY OpTyped DEF ShapeInv
<1>2. /\ Carries(h) => h.file \in asked[h.session]
      /\ Carries(h) /\ ~h.import => h.session \in named
      /\ h.phase = "note" => h.session \in named
      /\ h.phase = "commit" => h.match <= Len(entries)
  BY DEF ShapeInv, RequestsShaped, At
<1>3. Carries(h) => h.session \in Sessions
  BY <1>1, KeptBy
<1>4. h.phase = "commit" => h.match \in Nat
  BY <1>1, KeptBy
<1>5. Len(entries) \in Nat /\ Len(entries') \in Nat /\ Len(entries) <= Len(entries')
  BY <1>1, LenProperties DEF TypeOK, Grow
<1>6. Carries(h) => h.file \in asked'[h.session]
  BY <1>2, <1>3 DEF Grow
<1>7. h.phase = "commit" => h.match <= Len(entries')
  BY <1>2, <1>4, <1>5
<1>8. QED BY <1>2, <1>6, <1>7 DEF HoldsFile, At, Grow

LEMMA ShapeOpSame ==
    ASSUME ShapeInv, Grow, op' = op
    PROVE  ShapeInv'
<1>1. RequestsShaped' /\ FilesHeld' /\ RowsHeld'
  BY ShapeOthers DEF ShapeInv, RequestsShaped, FilesHeld, RowsHeld, At
<1>2. TypeOK'
  BY DEF ShapeInv, TypeOK, Grow, SessionsTyped
<1>3. QED BY <1>1, <1>2 DEF ShapeInv, Grow

LEMMA ShapeOfRequest ==
    ASSUME ShapeInv, Grow, NEW w \in Desks, NEW h \in Request, Go(w, h),
           Carries(h) => h.file \in asked'[h.session],
           Carries(h) /\ ~h.import => h.session \in named',
           h.phase = "note" => h.session \in named',
           h.phase = "commit" => /\ h.match <= Len(entries')
                                 /\ \A v \in Desks \ {w} : ~(At(v, "commit") /\ op[v].session = h.session),
           \/ h.phase \notin {"find", "create", "commit"}
           \/ h.phase = "commit" /\ ~h.import
           \/ \A v \in Desks \ {w} : ~HoldsFile(v, h.file)
    PROVE  ShapeInv'
<1>1. op' \in [Desks -> Request] /\ op'[w] = h /\ \A v \in Desks \ {w} : op'[v] = op[v]
  BY OpWritten DEF ShapeInv, TypeOK
<1>2. TypeOK'
  BY <1>1 DEF TypeOK, Grow, SessionsTyped
<1>3. RequestsShaped'
  BY <1>1, ShapeOthers DEF RequestsShaped, At
<1>4. RowsHeld'
  BY <1>1 DEF ShapeInv, RowsHeld, At
<1>5. FilesHeld'
  <2>1. \A f \in Files, v \in Desks \ {w} : HoldsFile(v, f)' => HoldsFile(v, f)
    BY <1>1, ShapeOthers
  <2>2. ASSUME NEW f \in Files, HoldsFile(w, f)'
        PROVE  \A v \in Desks \ {w} : ~HoldsFile(v, f)
    <3>1. h.phase \in {"find", "create", "commit"} /\ h.file = f
      BY <1>1, <2>2 DEF HoldsFile
    <3>2. h.phase = "commit" => h.import
      BY <1>1, <2>2 DEF HoldsFile, At
    <3>3. QED BY <3>1, <3>2
  <2>3. QED BY <2>1, <2>2 DEF ShapeInv, FilesHeld
<1>6. QED BY <1>2, <1>3, <1>4, <1>5 DEF ShapeInv, Grow

LEMMA ShapeFinished ==
    ASSUME ShapeInv, Grow, NEW w \in Desks, Finish(w)
    PROVE  ShapeInv'
BY IdleIsRequest, ShapeOfRequest DEF Finish, Carries

(* What a step may do to the sessions, whichever step it is.               *)
LEMMA GrowLook ==
    ASSUME ShapeInv, NEW w \in Desks, Look(w)
    PROVE  Grow /\ ShapeInv'
<1> DEFINE f == op[w].file
           h == [phase |-> "find", file |-> f]
<1>1. f \in Files /\ TypeOK /\ UNCHANGED <<session, stored, entries, asked, named>>
  BY OpTyped, KeptBy DEF ShapeInv, Look, At
<1>2. told' \subseteq Files \X Sessions
  BY <1>1, EntryTyped DEF Look, TypeOK
<1>3. Grow
  BY <1>1, <1>2, GrowSame
<1>4. h \in Request /\ h.phase = "find" /\ h.file = f
  BY <1>1 DEF Request
<1>5. \A v \in Desks : ~HoldsFile(v, f)
  BY DEF Look, FileFree, HoldsFile, At
<1>6. Finish(w) \/ Go(w, h)
  BY DEF Look
<1> HIDE DEF h
<1>7. QED BY <1>3, <1>4, <1>5, <1>6, ShapeFinished, ShapeOfRequest DEF Carries

LEMMA GrowBegun ==
    ASSUME ShapeInv, NEW w \in Desks,
           \/ \E f \in Files : Import(w, f) \/ \E s \in Sessions : UploadForCall(w, f, s)
           \/ \E s \in Sessions : Webhook(w, s)
    PROVE  Grow /\ ShapeInv'
<1>0. TypeOK
  BY DEF ShapeInv
<1>1. ASSUME NEW f \in Files, Import(w, f)
      PROVE  Grow /\ ShapeInv'
  <2>1. Grow
    BY <1>0, <1>1, GrowSame DEF Import, TypeOK
  <2>2. [phase |-> "look", file |-> f] \in Request
    BY DEF Request
  <2>3. QED BY <1>1, <2>1, <2>2, ShapeOfRequest DEF Import, Carries
<1>2. ASSUME NEW f \in Files, NEW s \in Sessions, UploadForCall(w, f, s)
      PROVE  Grow /\ ShapeInv'
  <2> DEFINE h == [phase |-> "store", file |-> f, session |-> s, import |-> FALSE]
  <2>1. Present(s) /\ named' = named \cup {s} /\ named \subseteq Sessions
    BY <1>0, <1>2 DEF UploadForCall, Named, TypeOK
  <2>2. Grow /\ f \in asked'[s]
    BY <1>2, <2>1, GrowAsked DEF UploadForCall
  <2>4. h \in Request
    BY DEF Request
  <2>5. Go(w, h)
    BY <1>2 DEF UploadForCall
  <2>6. QED BY <2>1, <2>2, <2>4, <2>5, ShapeOfRequest
<1>3. ASSUME NEW s \in Sessions, Webhook(w, s)
      PROVE  Grow /\ ShapeInv'
  <2> DEFINE r == [session[s] EXCEPT !.recordingStatus = "READY", !.recordingUrl = "provider"]
             h == [phase |-> "note", session |-> s]
  <2>1. /\ session[s] \in Session /\ Present(s)
        /\ named' = named \cup {s} /\ named \subseteq Sessions
    BY <1>0, <1>3 DEF Webhook, Named, TypeOK
  <2>2. /\ r \in Session /\ r.sourceContext = session[s].sourceContext
        /\ r.recordingStatus = "READY" /\ r.recordingUrl = "provider"
    BY <2>1 DEF Session
  <2>3. session' = [session EXCEPT ![s] = r]
    BY <1>0, <1>3 DEF Webhook, TypeOK
  <2>4. Len(entries) <= Len(entries') /\ UNCHANGED <<stored, entries, asked, told>>
    BY <1>0, <1>3, LenProperties DEF Webhook, TypeOK
  <2> HIDE DEF r
  <2>5. Grow
    BY <1>0, <2>1, <2>2, <2>3, <2>4, GrowWritten DEF TypeOK, Indices
  <2>6. h \in Request
    BY DEF Request
  <2>7. Go(w, h)
    BY <1>3 DEF Webhook
  <2>8. QED BY <2>1, <2>5, <2>6, <2>7, ShapeOfRequest DEF Carries
<1>4. QED BY <1>1, <1>2, <1>3

LEMMA GrowInitiate ==
    ASSUME ShapeInv, NEW s \in Sessions, InitiateCall(s)
    PROVE  Grow /\ ShapeInv'
<1> DEFINE r == [session[s] EXCEPT !.sourceContext = "CALL"]
<1>1. TypeOK /\ s \in Next1 /\ op' = op /\ UNCHANGED <<stored, entries, named, told>>
  BY DEF ShapeInv, InitiateCall
<1>2. r \in Session /\ r.sourceContext = "CALL" /\ r.recordingUrl = "none"
  <2>1. session[s] \in Session /\ session[s] = Absent
    BY <1>1 DEF TypeOK, Next1, Present
  <2>2. QED BY <2>1 DEF Session, Absent
<1>3. session' = [session EXCEPT ![s] = r]
  BY <1>1 DEF InitiateCall, TypeOK
<1>4. IsFiniteSet({}) /\ asked' = [asked EXCEPT ![s] = {}]
  <2>1. asked[s] = {}
    BY <1>1 DEF ShapeInv, SessionsShaped, Next1
  <2>2. QED BY <1>1, <2>1, FS_EmptySet DEF InitiateCall, TypeOK
<1> HIDE DEF r
<1>5. Grow
  BY <1>1, <1>2, <1>3, <1>4, GrowCreated
<1>6. QED BY <1>1, <1>5, ShapeOpSame

(* The reservations: under the lock of the file.                           *)
LEMMA GrowReserves ==
    ASSUME ShapeInv, NEW w \in Desks, FindReservation(w) \/ CreateReservation(w)
    PROVE  Grow /\ ShapeInv'
<1> DEFINE f == op[w].file
           on(s) == [phase |-> "store", file |-> f, session |-> s, import |-> TRUE]
           in == [phase |-> "create", file |-> f]
<1>1. /\ f \in Files /\ TypeOK /\ op[w].phase \in {"find", "create"}
      /\ \A v \in Desks \ {w} : ~HoldsFile(v, f)
  <2>1. op[w].phase \in {"find", "create"} /\ f \in Files
    BY OpTyped, KeptBy DEF ShapeInv, FindReservation, CreateReservation, At
  <2>2. HoldsFile(w, f)
    BY <2>1 DEF HoldsFile, At
  <2>3. QED BY <2>1, <2>2 DEF ShapeInv, FilesHeld
<1>2. \A s \in Sessions : on(s) \in Request /\ on(s).phase = "store"
                          /\ on(s).file = f /\ on(s).session = s /\ on(s).import
  BY <1>1 DEF Request
<1>3. in \in Request /\ in.phase = "create" /\ in.file = f
  BY <1>1 DEF Request
<1>4. CASE FindReservation(w)
  <2> DEFINE open == {s \in Sessions : Imported(s) /\ session[s].recordingStatus \in {"PENDING", "FAILED"}}
  <2>1. UNCHANGED <<session, stored, entries, named, told>> /\ named \subseteq Sessions
    BY <1>1, <1>4 DEF FindReservation, TypeOK
  <2>2. CASE open # {} /\ Go(w, on(Latest(open))) /\ Asked(Latest(open), f)
    <3>1. Latest(open) \in open
      BY <2>2, LatestIsThere
    <3>2. Latest(open) \in Sessions /\ Present(Latest(open))
      BY <3>1 DEF Imported, Present
    <3> HIDE DEF open
    <3>3. Grow /\ f \in asked'[Latest(open)]
      BY <1>1, <2>1, <2>2, <3>2, GrowAsked
    <3> HIDE DEF on
    <3>4. QED BY <1>2, <2>2, <3>2, <3>3, ShapeOfRequest
  <2>3. CASE Go(w, in) /\ asked' = asked
    <3>1. Grow
      BY <1>1, <2>1, <2>3, GrowSame DEF TypeOK
    <3> HIDE DEF in
    <3>2. QED BY <1>1, <1>3, <2>3, <3>1, ShapeOfRequest DEF Carries
  <2>4. QED BY <1>4, <2>2, <2>3 DEF FindReservation
<1>5. CASE CreateReservation(w)
  <2> DEFINE r == [sourceContext |-> "RECORDING_IMPORT", recordingStatus |-> "PENDING",
                   recordingUrl |-> "none"]
  <2>1. PICK s \in Next1 : /\ session' = [session EXCEPT ![s] = r]
                           /\ Go(w, on(s)) /\ Asked(s, f)
    BY <1>5 DEF CreateReservation
  <2>2. s \in Sessions /\ ~Present(s)
    BY DEF Next1
  <2>3. asked' = [asked EXCEPT ![s] = {f}] /\ asked'[s] = {f}
    <3>1. asked[s] = {}
      BY <2>2 DEF ShapeInv, SessionsShaped
    <3>2. asked[s] \cup {f} = {f}
      BY <3>1
    <3>3. QED BY <1>1, <2>1, <2>2, <3>2 DEF Asked, TypeOK
  <2>4. {f} \in SUBSET Files /\ IsFiniteSet({f}) /\ UNCHANGED <<stored, entries, named, told>>
    BY <1>1, <1>5, FS_Singleton DEF CreateReservation
  <2>5. /\ r \in Session /\ r.sourceContext = "RECORDING_IMPORT" /\ r.recordingStatus = "PENDING"
        /\ r.recordingUrl = "none"
    BY DEF Session
  <2> HIDE DEF r
  <2>6. Grow
    BY <2>1, <2>3, <2>4, <2>5, GrowCreated
  <2> HIDE DEF on
  <2>7. QED BY <1>2, <2>1, <2>2, <2>3, <2>6, ShapeOfRequest
<1>6. QED BY <1>4, <1>5

(* The store, which keeps no lock.                                         *)
LEMMA GrowStores ==
    ASSUME ShapeInv, NEW w \in Desks, Store(w) \/ StoreFails(w)
    PROVE  Grow /\ ShapeInv'
<1> DEFINE g == [op[w] EXCEPT !.phase = "finalize"]
           b == [op[w] EXCEPT !.phase = "fail"]
<1>1. /\ op[w] \in Request /\ op[w].phase = "store" /\ Carries(op[w]) /\ TypeOK
      /\ op[w].file \in Files /\ op[w].session \in Sessions
      /\ op[w].file \in asked[op[w].session]
      /\ ~op[w].import => op[w].session \in named
  <2>1. op[w] \in Request /\ op[w].phase = "store"
    BY OpTyped DEF ShapeInv, Store, StoreFails, At
  <2>2. QED BY <2>1, KeptBy DEF ShapeInv, RequestsShaped, Carries
<1>2. /\ g \in Request /\ g.phase = "finalize" /\ g.file = op[w].file /\ g.session = op[w].session
      /\ g.import = op[w].import /\ b.import = op[w].import
      /\ b \in Request /\ b.phase = "fail" /\ b.file = op[w].file /\ b.session = op[w].session
  <2>1. op[w] \in [phase : {"store", "fail", "finalize"}, file : Files, session : Sessions,
                  import : BOOLEAN]
    BY <1>1, KeptBy
  <2>2. QED BY <2>1 DEF Request
<1>3. /\ stored' \in [Sessions -> Files \cup {NoFile}]
      /\ UNCHANGED <<session, entries, asked, named, told>>
  BY <1>1 DEF Store, StoreFails, TypeOK
<1>4. Grow
  <2>1. (SessionsTyped /\ SessionsShaped /\ EntriesShaped)'
    BY <1>1, <1>3 DEF ShapeInv, TypeOK, SessionsTyped, SessionsShaped, EntriesShaped, Present,
       Imported, Indices
  <2>2. Len(entries) <= Len(entries')
    BY <1>1, <1>3, LenProperties DEF TypeOK
  <2>3. QED BY <1>1, <1>3, <2>1, <2>2 DEF Grow, TypeOK
<1>5. Go(w, g) \/ Go(w, b) \/ Finish(w)
  BY DEF Store, StoreFails
<1> HIDE DEF g, b
<1>6. QED BY <1>1, <1>2, <1>3, <1>4, <1>5, ShapeFinished, ShapeOfRequest

LEMMA GrowFailed ==
    ASSUME ShapeInv, NEW w \in Desks, MarkFailed(w)
    PROVE  Grow /\ ShapeInv'
<1> DEFINE s == op[w].session
           r == [session[s] EXCEPT !.recordingStatus = "FAILED"]
<1>1. op[w] \in Request /\ op[w].phase = "fail" /\ TypeOK
  BY OpTyped DEF ShapeInv, MarkFailed, At
<1>2. s \in Sessions /\ Present(s)
  BY <1>1, KeptBy DEF ShapeInv, RequestsShaped, SessionsShaped, Carries
<1>3. /\ r \in Session /\ r.sourceContext = session[s].sourceContext
      /\ r.recordingStatus = "FAILED" /\ r.recordingUrl = session[s].recordingUrl
  BY <1>1, <1>2 DEF TypeOK, Session
<1>4. session' = [session EXCEPT ![s] = r] /\ UNCHANGED <<stored, entries, asked, named, told>>
  BY <1>1, <1>2 DEF MarkFailed, TypeOK
<1>5. session[s].recordingUrl = "provider" => s \in named
  BY <1>1, <1>2 DEF TypeOK
<1>6. Len(entries) <= Len(entries')
  BY <1>1, <1>4, LenProperties DEF TypeOK
<1> HIDE DEF r
<1>7. Grow
  BY <1>1, <1>2, <1>3, <1>4, <1>5, <1>6, GrowWritten DEF TypeOK, Indices
<1>8. QED BY <1>7, ShapeFinished DEF MarkFailed

(* The finalization: under the lock of the row, an import's under the lock *)
(* of its file too.                                                        *)
LEMMA GrowFinalize ==
    ASSUME ShapeInv, NEW w \in Desks, Finalize(w)
    PROVE  Grow /\ ShapeInv'
<1> DEFINE f == op[w].file
           s == op[w].session
           h(i) == [phase |-> "commit", file |-> f, session |-> s, import |-> op[w].import,
                    match |-> i]
<1>1. /\ op[w] \in Request /\ op[w].phase = "finalize" /\ TypeOK /\ f \in Files /\ s \in Sessions
      /\ f \in asked[s] /\ op[w].import \in BOOLEAN /\ (~op[w].import => s \in named)
  <2>1. op[w] \in Request /\ op[w].phase = "finalize" /\ Carries(op[w])
    BY OpTyped DEF ShapeInv, Finalize, At, Carries
  <2>2. QED BY <2>1, KeptBy DEF ShapeInv, RequestsShaped
<1>2. UNCHANGED <<session, stored, entries, asked, named, told>>
  BY DEF Finalize
<1>3. Grow
  BY <1>1, <1>2, GrowSame DEF TypeOK
<1>4. PICK i \in Indices \cup {0} : Go(w, h(i))
  BY DEF Finalize
<1>5. i \in 0 .. Len(entries) /\ Len(entries) \in Nat /\ Len(entries) <= MaxEntries
  <2>1. Len(entries) \in Nat /\ Len(entries) <= MaxEntries
    BY <1>1, LenProperties DEF TypeOK
  <2>2. QED BY <2>1 DEF Indices
<1>6. /\ h(i) \in Request /\ h(i).phase = "commit" /\ h(i).file = f /\ h(i).session = s
      /\ h(i).match = i /\ h(i).import = op[w].import
  BY <1>1, <1>5, RecordingsAssumption DEF Request
<1>7. \A v \in Desks : ~(At(v, "commit") /\ op[v].session = s)
  BY DEF Finalize, RowFree
<1>8. op[w].import => \A v \in Desks : ~HoldsFile(v, f)
  BY DEF Finalize, FileFree, HoldsFile, At
<1>9. i <= Len(entries')
  BY <1>2, <1>5
<1>10. f \in asked'[s] /\ (~op[w].import => s \in named')
  BY <1>1, <1>2
<1> HIDE DEF h, f, s
<1>11. QED BY <1>3, <1>4, <1>6, <1>7, <1>8, <1>9, <1>10, ShapeOfRequest

LEMMA GrowCommit ==
    ASSUME ShapeInv, NEW w \in Desks, Commit(w)
    PROVE  Grow /\ ShapeInv'
<1> DEFINE h == op[w]
           s == h.session
           e == [session |-> s, file |-> h.file]
           r == [session[s] EXCEPT !.recordingStatus = "READY", !.recordingUrl = "key"]
<1>1. /\ h \in Request /\ h.phase = "commit" /\ TypeOK /\ h.file \in Files /\ s \in Sessions
      /\ h.file \in asked[s] /\ h.match \in 0 .. Len(entries) /\ Len(entries) \in Nat
      /\ Present(s) /\ e \in Entry
  <2>1. h \in Request /\ h.phase = "commit" /\ Len(entries) \in Nat
    BY OpTyped, LenProperties DEF ShapeInv, TypeOK, Commit, At
  <2>2. h.file \in Files /\ s \in Sessions /\ h.match \in 0 .. MaxEntries
    BY <2>1, KeptBy DEF Carries
  <2>3. h.file \in asked[s] /\ h.match <= Len(entries)
    BY <2>1 DEF ShapeInv, RequestsShaped, Carries, At
  <2>4. QED BY <2>1, <2>2, <2>3, RecordingsAssumption DEF ShapeInv, SessionsShaped, Entry
<1>2. /\ r \in Session /\ r.sourceContext = session[s].sourceContext
      /\ r.recordingStatus = "READY" /\ r.recordingUrl = "key"
  <2>1. session[s] \in Session
    BY <1>1 DEF TypeOK
  <2>2. QED BY <2>1 DEF Session
<1>3. /\ session' = [session EXCEPT ![s] = r] /\ UNCHANGED <<stored, asked, named>>
      /\ named \subseteq Sessions
  BY <1>1 DEF Commit, TypeOK
<1>4. told' \subseteq Files \X Sessions
  BY <1>1 DEF Commit, TypeOK
<1>5. /\ entries' \in Seq(Entry) /\ Len(entries') <= MaxEntries /\ Len(entries) <= Len(entries')
      /\ \A i \in 1 .. Len(entries') : \/ entries'[i].file # NoFile
                                       \/ i \in Indices /\ entries'[i] = entries[i]
  <2>0. e.file # NoFile /\ entries \in Seq(Entry) /\ Len(entries) <= MaxEntries
    BY <1>1, RecordingsAssumption DEF TypeOK
  <2> HIDE DEF e
  <2>1. CASE h.match # 0 /\ entries' = [entries EXCEPT ![h.match] = e]
    <3>1. h.match \in 1 .. Len(entries)
      BY <1>1, <2>1
    <3>2. /\ entries' \in Seq(Entry) /\ Len(entries') = Len(entries)
          /\ \A i \in 1 .. Len(entries) : entries'[i] = IF i = h.match THEN e ELSE entries[i]
      BY <1>1, <2>0, <2>1, <3>1, ExceptSeq
    <3>3. QED BY <1>1, <2>0, <3>2 DEF Indices
  <2>2. CASE Len(entries) < MaxEntries /\ entries' = Append(entries, e)
    <3>1. /\ entries' \in Seq(Entry) /\ Len(entries') = Len(entries) + 1
          /\ \A i \in 1 .. Len(entries) : entries'[i] = entries[i]
          /\ entries'[Len(entries) + 1] = e
      BY <1>1, <2>0, <2>2, AppendProperties
    <3>2. QED BY <1>1, <2>0, <2>2, <3>1, RecordingsAssumption DEF Indices
  <2>3. QED BY <2>1, <2>2 DEF Commit, e
<1> HIDE DEF r, e
<1>6. Grow
  BY <1>1, <1>2, <1>3, <1>4, <1>5, GrowWritten
<1>7. QED BY <1>6, ShapeFinished DEF Commit

(* An activity of a webhook: it has no file, and its session was named.    *)
LEMMA GrowNote ==
    ASSUME ShapeInv, NEW w \in Desks, NoteRecording(w)
    PROVE  Grow /\ ShapeInv'
<1> DEFINE e == [session |-> op[w].session, file |-> NoFile]
<1>1. op[w] \in Request /\ op[w].phase = "note" /\ TypeOK
  BY OpTyped DEF ShapeInv, NoteRecording, At
<1>2. /\ op[w].session \in Sessions /\ op[w].session \in named
      /\ e \in Entry /\ UNCHANGED <<session, stored, asked, named, told>>
  <2>1. op[w].session \in Sessions
    BY <1>1, KeptBy
  <2>2. QED BY <1>1, <2>1 DEF ShapeInv, RequestsShaped, Entry, At, NoteRecording
<1>3. /\ entries' \in Seq(Entry) /\ Len(entries') = Len(entries) + 1
      /\ \A i \in Indices : entries'[i] = entries[i]
      /\ entries'[Len(entries) + 1] = e
  <2>1. entries \in Seq(Entry) /\ entries' = Append(entries, e)
    BY <1>1 DEF TypeOK, NoteRecording
  <2> HIDE DEF e
  <2>2. QED BY <1>2, <2>1, AppendProperties DEF Indices
<1>4. /\ Len(entries') <= MaxEntries /\ Len(entries) <= Len(entries')
      /\ \A i \in 1 .. Len(entries') : i \in Indices \/ i = Len(entries) + 1
  <2>1. Len(entries) \in Nat /\ Len(entries) < MaxEntries
    BY <1>1, LenProperties DEF TypeOK, NoteRecording
  <2>2. QED BY <1>3, <2>1, RecordingsAssumption DEF Indices
<1>5. (SessionsTyped /\ SessionsShaped)'
  BY <1>1, <1>2 DEF ShapeInv, TypeOK, SessionsTyped, SessionsShaped, Present, Imported
<1>6. EntriesShaped'
  <2>1. \A i \in Indices : entries[i].file = NoFile => entries[i].session \in named
    BY DEF ShapeInv, EntriesShaped
  <2>2. QED BY <1>2, <1>3, <1>4, <2>1 DEF EntriesShaped, Indices
<1>7. Grow
  BY <1>1, <1>2, <1>3, <1>4, <1>5, <1>6 DEF Grow, TypeOK
<1>8. QED BY <1>7, ShapeFinished DEF NoteRecording

LEMMA ShapeNext ==
    ASSUME ShapeInv, [Next]_vars
    PROVE  Grow /\ ShapeInv'
<1>0. TypeOK
  BY DEF ShapeInv
<1>1. CASE \E s \in Sessions : InitiateCall(s)
  BY <1>1, GrowInitiate
<1>2. ASSUME NEW w \in Desks,
             \/ Look(w) \/ FindReservation(w) \/ CreateReservation(w)
             \/ Store(w) \/ StoreFails(w) \/ MarkFailed(w)
             \/ Finalize(w) \/ Commit(w) \/ NoteRecording(w) \/ Stop(w)
      PROVE  Grow /\ ShapeInv'
  <2>1. CASE Stop(w)
    <3>1. Grow
      BY <1>0, <2>1, GrowSame DEF Stop, TypeOK
    <3>2. QED BY <2>1, <3>1, ShapeFinished DEF Stop
  <2>2. QED BY <1>2, <2>1, GrowLook, GrowReserves, GrowStores, GrowFailed, GrowFinalize,
               GrowCommit, GrowNote
<1>3. CASE \/ \E w \in Desks, f \in Files : Import(w, f)
           \/ \E w \in Desks, f \in Files, s \in Sessions : UploadForCall(w, f, s)
           \/ \E w \in Desks, s \in Sessions : Webhook(w, s)
  BY <1>3, GrowBegun
<1>4. CASE UNCHANGED vars
  <2>1. Grow
    BY <1>0, <1>4, GrowSame DEF vars, TypeOK
  <2>2. QED BY <1>4, <2>1, ShapeOpSame DEF vars
<1>5. QED BY <1>1, <1>2, <1>3, <1>4 DEF Next

LEMMA ShapeInit == Init => ShapeInv
<1> SUFFICES ASSUME Init PROVE ShapeInv
  OBVIOUS
<1>1. Absent \in Session /\ Absent.sourceContext = "none"
  BY DEF Absent, Session
<1>2. /\ session \in [Sessions -> Session] /\ \A s \in Sessions : session[s] = Absent
      /\ asked \in [Sessions -> SUBSET Files] /\ \A s \in Sessions : asked[s] = {}
      /\ stored \in [Sessions -> Files \cup {NoFile}]
  BY <1>1 DEF Init
<1>3. entries \in Seq(Entry) /\ Len(entries) = 0 /\ Indices = {}
  BY EmptySeq DEF Init, Indices
<1>4. op \in [Desks -> Request] /\ \A w \in Desks : op[w].phase = "idle"
  BY IdleIsRequest DEF Init
<1>5. TypeOK
  <2>1. named = {} /\ told = {} /\ Len(entries) <= MaxEntries
    BY <1>3, RecordingsAssumption DEF Init
  <2>2. \A s \in Sessions : session[s] = Absent /\ Absent.recordingUrl = "none"
    BY <1>2 DEF Absent
  <2>3. QED BY <1>1, <1>2, <1>3, <1>4, <2>1, <2>2 DEF TypeOK
<1>6. SessionsShaped
  BY <1>1, <1>2, FS_EmptySet DEF SessionsShaped, Present, Imported
<1>7. RequestsShaped /\ EntriesShaped /\ FilesHeld /\ RowsHeld
  BY <1>3, <1>4 DEF RequestsShaped, EntriesShaped, FilesHeld, RowsHeld, Carries, At, HoldsFile
<1>8. QED BY <1>5, <1>6, <1>7 DEF ShapeInv

(* The recordings, activities and requests keep their shape: an address of *)
(* a provider's is found only at a session that an event has named.        *)
THEOREM TypeCorrect == Spec => []TypeOK
<1>1. ShapeInv /\ [Next]_vars => ShapeInv'
  BY ShapeNext
<1>2. ShapeInv => TypeOK
  BY DEF ShapeInv
<1>3. QED BY <1>1, <1>2, ShapeInit, PTL DEF Spec

-----------------------------------------------------------------------------
(* While no session is shared, files and sessions stay paired.             *)

(* An object that has been put for a session is only put again.            *)
StoreKept == \A s \in Sessions : stored[s] \in asked[s] => stored'[s] = stored[s]

LEMMA StoresAgain ==
    ASSUME ShapeInv, [Next]_vars, Sole
    PROVE  StoreKept
<1>1. CASE stored' = stored
  BY <1>1 DEF StoreKept
<1>2. ASSUME NEW w \in Desks, Store(w) \/ StoreFails(w)
      PROVE  StoreKept
  <2>1. /\ op[w].file \in asked[op[w].session] /\ op[w].session \in Sessions
    <3>1. op[w] \in Request /\ op[w].phase = "store"
      BY <1>2, OpTyped DEF ShapeInv, Store, StoreFails, At
    <3>2. QED BY <3>1, KeptBy DEF ShapeInv, RequestsShaped, Carries
  <2>2. stored' = stored \/ stored' = [stored EXCEPT ![op[w].session] = op[w].file]
    BY <1>2 DEF Store, StoreFails
  <2>3. stored \in [Sessions -> Files \cup {NoFile}]
    BY DEF ShapeInv, TypeOK
  <2>4. QED BY <2>1, <2>2, <2>3 DEF Sole, StoreKept
<1>3. QED BY <1>1, <1>2 DEF Next, vars, InitiateCall, Look, FindReservation, CreateReservation,
          MarkFailed, Finalize, Commit, NoteRecording, Stop, Import, UploadForCall, Webhook

LEMMA SoleBefore ==
    ASSUME Grow, Sole'
    PROVE  Sole
BY DEF Grow, Sole

(* What is not named now, and few now, was so before.                      *)
LEMMA UnnamedBefore ==
    ASSUME ShapeInv, Grow
    PROVE  /\ \A s \in Sessions : Imported(s) => Imported(s)'
           /\ \A f : Unnamed(f)' => Unnamed(f)
           /\ Few' => Few
<1>1. Few' => Few
  <2>1. Len(entries) \in Nat /\ Len(entries') \in Nat /\ Len(entries) <= Len(entries')
    BY LenProperties DEF ShapeInv, TypeOK, Grow
  <2>2. QED BY <2>1, RecordingsAssumption DEF Few
<1>2. QED BY <1>1 DEF ShapeInv, SessionsShaped, Grow, Unnamed, Imported, Present

(* Most steps leave the imported sessions that are not named, and the      *)
(* activities with a file, as they are, and write one request.             *)
Quiet(w) ==
    /\ \A s \in Sessions : Own(s)' => /\ Own(s)
                                      /\ session'[s].recordingUrl = session[s].recordingUrl
                                      /\ asked'[s] = asked[s]
    /\ \A i \in Indices : entries'[i] = entries[i]
    /\ \A i \in 1 .. Len(entries') : entries'[i].file # NoFile => i \in Indices
    /\ \A v \in Desks \ {w} : op'[v] = op[v]

NoEntryOf(f) == \A i \in Indices : entries[i].file # f

LEMMA QuietKeeps ==
    ASSUME ShapeInv, Grow, ShapeInv', StoreKept, Paired, NEW w \in Desks, Quiet(w),
           \A t \in told' : t \in told \/ Played(t[1], t[2])',
           op'[w].phase \in {"finalize", "commit"} => stored'[op'[w].session] = op'[w].file,
           op'[w].phase = "commit" =>
              /\ op'[w].match # 0 => \/ entries[op'[w].match].file = op'[w].file
                                     \/ /\ entries[op'[w].match].file = NoFile
                                        /\ entries[op'[w].match].session = op'[w].session
              /\ op'[w].match = 0 /\ Few => NoEntryOf(op'[w].file)
              /\ op'[w].match <= Len(entries),
           op'[w].phase = "find" => NoEntryOf(op'[w].file),
           op'[w].phase = "create" =>
              \A s \in Sessions : Own(s) => op'[w].file \notin asked[s]
    PROVE  Paired'
<1>0. TypeOK /\ TypeOK'
  BY DEF ShapeInv
<1>1. EntriesPlayed'
  <2>1. ASSUME NEW i \in 1 .. Len(entries'), entries'[i].file # NoFile
        PROVE  Played(entries[i].file, entries[i].session)'
    <3>1. i \in Indices /\ entries'[i] = entries[i]
      BY <2>1 DEF Quiet
    <3>2. Played(entries[i].file, entries[i].session) /\ entries[i].session \in Sessions
      BY <1>0, <2>1, <3>1, EntryTyped DEF Paired, EntriesPlayed
    <3>3. /\ entries[i].file \in asked'[entries[i].session]
          /\ session'[entries[i].session].recordingUrl # "none"
          /\ stored'[entries[i].session] = entries[i].file
      BY <3>2 DEF Grow, StoreKept, Played
    <3>4. QED BY <3>1, <3>3 DEF Played
  <2>2. QED BY <2>1 DEF EntriesPlayed, Indices
<1>2. ToldPlayed'
  <2>1. ASSUME NEW t \in told
        PROVE  Played(t[1], t[2])'
    <3>1. Played(t[1], t[2]) /\ t[2] \in Sessions
      BY <1>0, <2>1 DEF Paired, ToldPlayed, TypeOK
    <3>2. QED BY <3>1 DEF Grow, StoreKept, Played
  <2>2. QED BY <2>1 DEF ToldPlayed
<1>3. StoredFirst'
  <2>1. ASSUME NEW v \in Desks \ {w}, op'[v].phase \in {"finalize", "commit"}
        PROVE  stored'[op'[v].session] = op'[v].file
    <3>1. op'[v] = op[v] /\ op[v] \in Request /\ Carries(op[v])
      BY <1>0, <2>1, OpTyped DEF Quiet, Carries
    <3>2. op[v].session \in Sessions /\ op[v].file \in asked[op[v].session]
      BY <3>1, KeptBy DEF ShapeInv, RequestsShaped
    <3>3. stored[op[v].session] = op[v].file
      BY <2>1, <3>1 DEF Paired, StoredFirst
    <3>4. QED BY <3>1, <3>2, <3>3 DEF StoreKept
  <2>2. QED BY <2>1 DEF StoredFirst
<1>4. MatchesKept'
  <2>1. ASSUME NEW v \in Desks, op'[v].phase = "commit"
        PROVE  /\ op'[v].match # 0 => \/ entries'[op'[v].match].file = op'[v].file
                                      \/ /\ entries'[op'[v].match].file = NoFile
                                         /\ entries'[op'[v].match].session = op'[v].session
               /\ op'[v].match = 0 /\ Few' /\ Unnamed(op[v].file)' =>
                     \A i \in 1 .. Len(entries') : entries'[i].file # op'[v].file
    <3>1. /\ op'[v].match \in 0 .. Len(entries) /\ op'[v].file \in Files
          /\ op'[v].match # 0 => op'[v].match \in Indices
      <4>1. op'[v] \in Request
        BY <1>0 DEF TypeOK
      <4>2. op'[v].match <= Len(entries)
        BY <2>1 DEF ShapeInv, RequestsShaped, Quiet, At
      <4>3. op'[v].match \in Nat /\ op'[v].file \in Files /\ Len(entries) \in Nat
        BY <1>0, <2>1, <4>1, KeptBy, LenProperties DEF TypeOK
      <4>4. QED BY <4>2, <4>3 DEF Indices
    <3>2. /\ op'[v].match # 0 => \/ entries[op'[v].match].file = op'[v].file
                                 \/ /\ entries[op'[v].match].file = NoFile
                                    /\ entries[op'[v].match].session = op'[v].session
          /\ op'[v].match = 0 /\ Few' /\ Unnamed(op[v].file)' => NoEntryOf(op'[v].file)
      <4>1. CASE v = w
        BY <2>1, <4>1, UnnamedBefore
      <4>2. CASE v # w
        BY <2>1, <4>2, UnnamedBefore DEF Quiet, Paired, MatchesKept, At, NoEntryOf
      <4>3. QED BY <4>1, <4>2
    <3>3. NoEntryOf(op'[v].file) => \A i \in 1 .. Len(entries') : entries'[i].file # op'[v].file
      BY <3>1, RecordingsAssumption DEF Quiet, NoEntryOf
    <3>4. QED BY <3>1, <3>2, <3>3 DEF Quiet
  <2>2. QED BY <2>1 DEF MatchesKept, At, Indices, Unnamed, Few
<1>5. ReadyHasEntry'
  <2>1. Indices \subseteq 1 .. Len(entries')
    BY <1>0, LenProperties DEF Grow, TypeOK, Indices
  <2>2. QED BY <2>1 DEF Quiet, Paired, ReadyHasEntry, Indices, Own, Imported
<1>6. ReservesAlone'
  <2>1. ASSUME NEW v \in Desks, NEW s \in Sessions, Own(s)', op'[v].phase \in {"find", "create"},
               op'[v].file \in asked'[s]
        PROVE  op'[v].phase = "find" /\ session'[s].recordingUrl = "none"
    <3>1. Own(s) /\ asked'[s] = asked[s] /\ session'[s].recordingUrl = session[s].recordingUrl
      BY <2>1 DEF Quiet
    <3>2. CASE v = w
      BY <2>1, <3>1, <3>2 DEF Paired, ReadyHasEntry, NoEntryOf
    <3>3. CASE v # w
      BY <2>1, <3>1, <3>3 DEF Quiet, Paired, ReservesAlone, At
    <3>4. QED BY <3>2, <3>3
  <2>2. QED BY <2>1 DEF ReservesAlone, At, Own, Imported
<1>7. OneSession'
  BY DEF Quiet, Paired, OneSession, Own, Imported
<1>8. OneEntry'
  <2>1. ASSUME NEW f \in Files, Few', Unnamed(f)', NEW i \in 1 .. Len(entries'),
               NEW j \in 1 .. Len(entries'), entries'[i].file = f, entries'[j].file = f
        PROVE  i = j
    <3>1. i \in Indices /\ j \in Indices /\ entries[i].file = f /\ entries[j].file = f
      BY <2>1, RecordingsAssumption DEF Quiet
    <3>2. Few /\ Unnamed(f)
      BY <2>1, UnnamedBefore
    <3>3. QED BY <3>1, <3>2 DEF Paired, OneEntry
  <2>2. QED BY <2>1 DEF OneEntry, Indices, Unnamed, Few
<1>9. QED BY <1>1, <1>2, <1>3, <1>4, <1>5, <1>6, <1>7, <1>8 DEF Paired

(* The steps that leave the imported sessions and their activities alone.  *)
LEMMA QuietSteps ==
    ASSUME ShapeInv, Grow, ShapeInv', StoreKept, Sole, Paired, NEW w \in Desks,
           \/ Look(w) \/ Store(w) \/ StoreFails(w) \/ MarkFailed(w)
           \/ Finalize(w) \/ NoteRecording(w) \/ Stop(w)
           \/ \E f \in Files : Import(w, f) \/ \E s \in Sessions : UploadForCall(w, f, s)
           \/ \E s \in Sessions : Webhook(w, s)
    PROVE  Paired'
<1>0. /\ TypeOK /\ op \in [Desks -> Request] /\ session \in [Sessions -> Session]
      /\ op[w] \in Request
  BY DEF ShapeInv, TypeOK
<1>1. \A v \in Desks \ {w} : op'[v] = op[v]
  BY <1>0 DEF Look, Store, StoreFails, MarkFailed, Finalize, NoteRecording, Stop, Import,
     UploadForCall, Webhook, Go, Finish
<1>2. ASSUME UNCHANGED <<entries, session, asked, named>>
      PROVE  Quiet(w)
  BY <1>1, <1>2 DEF Quiet, Own, Imported, Indices
<1>3. CASE Look(w)
  <2> DEFINE f == op[w].file
             same == {i \in Indices : entries[i].file = f}
  <2>1. UNCHANGED <<session, stored, entries, asked>> /\ Quiet(w) /\ f \in Files
    BY <1>0, <1>2, <1>3, KeptBy DEF Look, At
  <2>2. CASE \E i \in same : told' = told \cup {<<f, entries[i].session>>} /\ Finish(w)
    <3>1. PICK i \in same : told' = told \cup {<<f, entries[i].session>>} /\ Finish(w)
      BY <2>2
    <3>2. f \in asked[entries[i].session] /\ session[entries[i].session].recordingUrl # "none"
          /\ stored[entries[i].session] = f
      BY <2>1, <3>1, RecordingsAssumption DEF Paired, EntriesPlayed, Played
    <3>3. \A t \in told' : t \in told \/ Played(t[1], t[2])'
      BY <2>1, <3>1, <3>2 DEF Played
    <3>4. op'[w] = Idle
      BY <1>0, <3>1 DEF Finish, Go
    <3>5. QED BY <2>1, <3>3, <3>4, QuietKeeps DEF Idle
  <2>3. CASE same = {} /\ Go(w, [phase |-> "find", file |-> f]) /\ told' = told
    <3>1. NoEntryOf(f)
      BY <2>3 DEF NoEntryOf
    <3>2. op'[w] = [phase |-> "find", file |-> f]
      BY <1>0, <2>3 DEF Go
    <3> HIDE DEF f
    <3>3. op'[w].phase = "find" /\ op'[w].file = f
      BY <3>2
    <3>4. QED BY <2>1, <2>3, <3>1, <3>3, QuietKeeps
  <2>4. QED BY <1>3, <2>2, <2>3 DEF Look
<1>4. CASE Store(w) \/ StoreFails(w)
  <2>1. Quiet(w) /\ told' = told
    BY <1>2, <1>4 DEF Store, StoreFails
  <2>2. op[w].phase = "store" /\ op[w].session \in Sessions
    BY <1>0, <1>4, KeptBy DEF Store, StoreFails, At
  <2>3. \/ op'[w].phase \in {"fail", "idle"}
        \/ op'[w].phase = "finalize" /\ stored'[op'[w].session] = op'[w].file
    <3>1. op[w] \in [phase : {"store", "fail", "finalize"}, file : Files, session : Sessions,
                     import : BOOLEAN]
      BY <1>0, <2>2, KeptBy
    <3>2. CASE Store(w)
      <4>1. op'[w] = [op[w] EXCEPT !.phase = "finalize"]
        BY <1>0, <3>2 DEF Store, Go
      <4>2. op'[w].phase = "finalize" /\ op'[w].session = op[w].session /\ op'[w].file = op[w].file
        BY <3>1, <4>1
      <4>3. stored'[op[w].session] = op[w].file
        BY <1>0, <2>2, <3>2 DEF Store, TypeOK
      <4>4. QED BY <4>2, <4>3
    <3>3. CASE StoreFails(w)
      <4>1. op'[w] = [op[w] EXCEPT !.phase = "fail"] \/ op'[w] = Idle
        BY <1>0, <3>3 DEF StoreFails, Go, Finish
      <4>2. QED BY <3>1, <4>1 DEF Idle
    <3>4. QED BY <1>4, <3>2, <3>3
  <2>4. QED BY <2>1, <2>3, QuietKeeps
<1>5. CASE Finalize(w)
  <2> DEFINE f == op[w].file
             s == op[w].session
             found(seen) == {i \in seen : entries[i].session = s \/ entries[i].file = f}
             h(i) == [phase |-> "commit", file |-> f, session |-> s,
                      import |-> op[w].import, match |-> i]
  <2>1. Quiet(w) /\ UNCHANGED <<stored, entries, told, session, asked>>
    BY <1>2, <1>5 DEF Finalize
  <2>2. op[w].phase = "finalize" /\ s \in Sessions /\ f \in asked[s] /\ stored[s] = f
    <3>1. op[w].phase = "finalize" /\ Carries(op[w])
      BY <1>5 DEF Finalize, At, Carries
    <3>2. QED BY <1>0, <3>1, KeptBy DEF ShapeInv, RequestsShaped, Paired, StoredFirst
  <2>3. PICK seen \in SUBSET Indices :
           /\ Len(entries) <= Window => seen = Indices
           /\ \E i \in IF found(seen) = {} THEN {0} ELSE found(seen) : Go(w, h(i))
    BY <1>5 DEF Finalize
  <2>0. PICK i \in (IF found(seen) = {} THEN {0} ELSE found(seen)) : Go(w, h(i))
    BY <2>3
  <2>4. /\ op'[w].phase = "commit" /\ op'[w].file = f /\ op'[w].session = s /\ op'[w].match = i
    BY <1>0, <2>0 DEF Go
  <2>5. i # 0 => /\ i \in Indices
                 /\ \/ entries[i].file = f
                    \/ entries[i].file = NoFile /\ entries[i].session = s
    <3>1. ASSUME i # 0
          PROVE  i \in Indices /\ (entries[i].session = s \/ entries[i].file = f)
      BY <3>1, <2>0
    <3>2. ASSUME i # 0, entries[i].session = s, entries[i].file # NoFile
          PROVE  entries[i].file = f
      <4>1. entries[i].file \in asked[s]
        BY <3>1, <3>2 DEF Paired, EntriesPlayed, Played
      <4>2. QED BY <2>2, <4>1 DEF Sole
    <3>3. QED BY <3>1, <3>2
  <2>6. i = 0 /\ Few => NoEntryOf(f)
    <3>1. 0 \notin Indices
      BY <1>0, LenProperties DEF TypeOK, Indices
    <3>2. QED BY <2>0, <2>3, <3>1 DEF NoEntryOf, Few
  <2>7. i <= Len(entries)
    <3>1. op'[w].match <= Len(entries')
      BY <2>4 DEF ShapeInv, RequestsShaped, At
    <3>2. QED BY <2>1, <2>4, <3>1
  <2> HIDE DEF f, s, found, h
  <2>8. QED BY <2>1, <2>2, <2>4, <2>5, <2>6, <2>7, QuietKeeps
<1>6. CASE MarkFailed(w) \/ Stop(w)
  <2>1. op'[w] = Idle /\ UNCHANGED <<stored, entries, asked, named, told>>
    BY <1>0, <1>6 DEF MarkFailed, Stop, Finish, Go
  <2>2. \A t \in Sessions : session'[t].recordingUrl = session[t].recordingUrl
                            /\ session'[t].sourceContext = session[t].sourceContext
    <3>1. CASE MarkFailed(w)
      <4>1. op[w].session \in Sessions
        BY <1>0, <3>1, KeptBy DEF MarkFailed, At
      <4>2. session' = [session EXCEPT ![op[w].session] =
                           [session[op[w].session] EXCEPT !.recordingStatus = "FAILED"]]
        BY <3>1, <4>1, <1>0 DEF MarkFailed
      <4>3. \A t \in Sessions : session'[t] = session[t]
                                \/ session'[t] = [session[t] EXCEPT !.recordingStatus = "FAILED"]
        BY <1>0, <4>2
      <4>4. \A t \in Sessions : session[t] \in Session
        BY <1>0
      <4>5. QED BY <4>3, <4>4 DEF Session
    <3>2. CASE Stop(w)
      BY <3>2 DEF Stop
    <3>3. QED BY <1>6, <3>1, <3>2
  <2>3. Quiet(w)
    BY <1>1, <2>1, <2>2 DEF Quiet, Own, Imported, Indices
  <2>4. QED BY <2>1, <2>3, QuietKeeps DEF Idle
<1>7. CASE NoteRecording(w)
  <2> DEFINE e == [session |-> op[w].session, file |-> NoFile]
  <2>1. op'[w] = Idle /\ UNCHANGED <<session, stored, asked, named, told>>
    BY <1>0, <1>7 DEF NoteRecording, Finish, Go
  <2>2. op[w].session \in Sessions
    BY <1>0, <1>7, KeptBy DEF NoteRecording, At
  <2>3. e \in Entry /\ entries \in Seq(Entry) /\ entries' = Append(entries, e) /\ e.file = NoFile
    BY <1>0, <1>7, <2>2 DEF Entry, TypeOK, NoteRecording
  <2> HIDE DEF e
  <2>4. /\ Len(entries') = Len(entries) + 1 /\ Len(entries) \in Nat
        /\ \A i \in Indices : entries'[i] = entries[i]
        /\ entries'[Len(entries) + 1] = e
    BY <2>3, AppendProperties, LenProperties DEF Indices
  <2>5. \A i \in 1 .. Len(entries') : i \in Indices \/ i = Len(entries) + 1
    BY <2>4 DEF Indices
  <2>6. Quiet(w)
    BY <1>1, <2>1, <2>3, <2>4, <2>5 DEF Quiet, Own, Imported
  <2>7. QED BY <2>1, <2>6, QuietKeeps DEF Idle
<1>8. ASSUME NEW f \in Files, Import(w, f)
      PROVE  Paired'
  <2>1. op'[w] = [phase |-> "look", file |-> f]
    BY <1>0, <1>8 DEF Import, Go
  <2>2. Quiet(w) /\ told' = told
    BY <1>2, <1>8 DEF Import
  <2>3. QED BY <2>1, <2>2, QuietKeeps
<1>9. ASSUME NEW f \in Files, NEW s \in Sessions, UploadForCall(w, f, s)
      PROVE  Paired'
  <2>1. op'[w] = [phase |-> "store", file |-> f, session |-> s, import |-> FALSE]
    BY <1>0, <1>9 DEF UploadForCall, Go
  <2>2. \A t \in Sessions \ {s} : asked'[t] = asked[t]
    BY <1>0, <1>9 DEF UploadForCall, Asked, TypeOK
  <2>3. Quiet(w) /\ told' = told
    BY <1>1, <1>9, <2>2 DEF UploadForCall, Named, Quiet, Own, Imported, Indices
  <2>4. QED BY <2>1, <2>3, QuietKeeps
<1>10. ASSUME NEW s \in Sessions, Webhook(w, s)
       PROVE  Paired'
  <2>1. op'[w] = [phase |-> "note", session |-> s]
    BY <1>0, <1>10 DEF Webhook, Go
  <2>2. \A t \in Sessions \ {s} : session'[t] = session[t]
    BY <1>0, <1>10 DEF Webhook
  <2>3. Quiet(w) /\ told' = told
    BY <1>1, <1>10, <2>2 DEF Webhook, Named, Quiet, Own, Imported, Indices
  <2>4. QED BY <2>1, <2>3, QuietKeeps
<1>11. QED BY <1>3, <1>4, <1>5, <1>6, <1>7, <1>8, <1>9, <1>10

(* A call begins, or nothing happens.                                      *)
LEMMA QuietCalls ==
    ASSUME ShapeInv, Paired, (\E s \in Sessions : InitiateCall(s)) \/ UNCHANGED vars
    PROVE  Paired'
<1>1. /\ UNCHANGED <<stored, entries, op, asked, named, told>>
      /\ \A s \in Sessions : /\ session'[s].recordingUrl = session[s].recordingUrl
                             /\ Imported(s)' <=> Imported(s)
  <2>1. CASE UNCHANGED vars
    BY <2>1 DEF vars, Imported
  <2>2. ASSUME NEW s \in Sessions, InitiateCall(s)
        PROVE  \A t \in Sessions : /\ session'[t].recordingUrl = session[t].recordingUrl
                                   /\ Imported(t)' <=> Imported(t)
    <3>1. session \in [Sessions -> Session] /\ session[s] \in Session
      BY DEF ShapeInv, TypeOK
    <3>2. /\ session' = [session EXCEPT ![s] = [session[s] EXCEPT !.sourceContext = "CALL"]]
          /\ session[s].sourceContext = "none"
      BY <2>2, <3>1 DEF InitiateCall, Next1, Present
    <3>3. \A t \in Sessions \ {s} : session'[t] = session[t]
      BY <3>1, <3>2
    <3>4. /\ session'[s].recordingUrl = session[s].recordingUrl
          /\ session'[s].sourceContext = "CALL"
      BY <3>1, <3>2 DEF Session
    <3>5. QED BY <3>2, <3>3, <3>4 DEF Imported
  <2>3. QED BY <2>1, <2>2 DEF vars, InitiateCall
<1>2. TypeOK
  BY DEF ShapeInv
<1>3. EntriesPlayed' /\ ToldPlayed'
  <2>1. \A f : \A s \in Sessions : Played(f, s) => Played(f, s)'
    BY <1>1 DEF Played
  <2>2. \A i \in Indices : entries[i].session \in Sessions
    BY <1>2, EntryTyped
  <2>3. \A t \in told : t[2] \in Sessions
    BY <1>2 DEF TypeOK
  <2>4. EntriesPlayed'
    BY <1>1, <2>2 DEF Paired, EntriesPlayed, Indices, Played
  <2>5. ToldPlayed'
    BY <1>1, <2>3 DEF Paired, ToldPlayed, Played
  <2>6. QED BY <2>4, <2>5
<1>4. StoredFirst'
  BY <1>1 DEF Paired, StoredFirst
<1>5. \A f : Unnamed(f)' => Unnamed(f)
  BY <1>1 DEF Unnamed
<1>6. MatchesKept'
  BY <1>1, <1>5 DEF Paired, MatchesKept, At, Indices, Unnamed, Few
<1>7. ReadyHasEntry' /\ OneSession'
  BY <1>1 DEF Paired, ReadyHasEntry, OneSession, Indices, Own
<1>8. ReservesAlone'
  BY <1>1 DEF Paired, ReservesAlone, At, Own
<1>9. OneEntry'
  BY <1>1, <1>5 DEF Paired, OneEntry, Indices, Unnamed, Few
<1>10. QED BY <1>3, <1>4, <1>6, <1>7, <1>8, <1>9 DEF Paired

(* A reservation: whoever has the lock of a file and finds no activity of  *)
(* it and no open session finds no session at all.                         *)
LEMMA ReservesPaired ==
    ASSUME ShapeInv, Grow, ShapeInv', StoreKept, Sole', Paired, NEW w \in Desks,
           FindReservation(w) \/ CreateReservation(w)
    PROVE  Paired'
<1> DEFINE f == op[w].file
           on(s) == [phase |-> "store", file |-> f, session |-> s, import |-> TRUE]
           in == [phase |-> "create", file |-> f]
<1>0. /\ TypeOK /\ op[w] \in Request /\ f \in Files /\ HoldsFile(w, f)
      /\ op[w].phase \in {"find", "create"} /\ op \in [Desks -> Request]
      /\ session \in [Sessions -> Session] /\ asked \in [Sessions -> SUBSET Files]
  <2>1. op[w] \in Request /\ op[w].phase \in {"find", "create"} /\ TypeOK
    BY OpTyped DEF ShapeInv, FindReservation, CreateReservation, At
  <2>2. QED BY <2>1, KeptBy DEF HoldsFile, At, TypeOK
<1>1. CASE FindReservation(w)
  <2> DEFINE open == {s \in Sessions : Imported(s) /\ session[s].recordingStatus \in {"PENDING", "FAILED"}}
  <2>1. UNCHANGED <<session, stored, entries, named, told>> /\ op[w].phase = "find"
    BY <1>1 DEF FindReservation, At
  <2>2. ASSUME asked' = asked, NEW h, Go(w, h)
        PROVE  Quiet(w) /\ op'[w] = h
    BY <1>0, <2>1, <2>2 DEF Quiet, Go, Own, Imported, Indices
  <2>3. CASE open # {} /\ Go(w, on(Latest(open))) /\ Asked(Latest(open), f)
    <3> DEFINE u == Latest(open)
    <3>1. u \in open
      BY <2>3, LatestIsThere
    <3>2. u \in Sessions /\ Imported(u)
      BY <3>1
    <3> HIDE DEF u, open
    <3>3. asked[u] # {}
      BY <3>2 DEF ShapeInv, SessionsShaped
    <3>4. asked' = [asked EXCEPT ![u] = asked[u] \cup {f}]
      BY <2>3 DEF Asked, u
    <3>5. asked'[u] = asked[u] \cup {f}
      BY <1>0, <3>2, <3>4
    <3>6. asked[u] \cup {f} = asked[u]
      BY <3>2, <3>3, <3>5 DEF Sole
    <3>7. asked' = asked
      BY <1>0, <3>2, <3>4, <3>6
    <3>8. Quiet(w) /\ op'[w] = on(u)
      BY <2>2, <2>3, <3>7 DEF u
    <3>9. op'[w].phase = "store"
      BY <3>8
    <3>10. QED BY <2>1, <3>8, <3>9, QuietKeeps
  <2>4. CASE open = {} /\ Go(w, in) /\ asked' = asked
    <3>1. ASSUME NEW s \in Sessions, Own(s)
          PROVE  f \notin asked[s]
      <4>1. session[s] \in Session /\ session[s].recordingStatus # "none" /\ Imported(s)
        BY <1>0, <3>1 DEF TypeOK, Imported, Own
      <4>2. session[s].recordingStatus = "READY"
        BY <2>4, <4>1 DEF Session
      <4>3. session[s].recordingUrl # "none"
        BY <4>1, <4>2 DEF ShapeInv, SessionsShaped
      <4>4. QED BY <1>0, <3>1, <4>3 DEF Paired, ReservesAlone
    <3>2. Quiet(w) /\ op'[w] = in
      BY <2>2, <2>4
    <3> HIDE DEF f
    <3>3. op'[w].phase = "create" /\ op'[w].file = f
      BY <3>2
    <3>4. QED BY <2>1, <3>1, <3>2, <3>3, QuietKeeps
  <2>5. QED BY <1>1, <2>3, <2>4 DEF FindReservation
<1>2. CASE CreateReservation(w)
  <2> DEFINE r == [sourceContext |-> "RECORDING_IMPORT", recordingStatus |-> "PENDING",
                   recordingUrl |-> "none"]
  <2>1. UNCHANGED <<stored, entries, named, told>> /\ op[w].phase = "create"
    BY <1>2 DEF CreateReservation, At
  <2>2. PICK s \in Next1 : session' = [session EXCEPT ![s] = r] /\ Go(w, on(s)) /\ Asked(s, f)
    BY <1>2 DEF CreateReservation
  <2>3. s \in Sessions /\ ~Present(s) /\ asked[s] = {}
    BY DEF Next1, ShapeInv, SessionsShaped
  <2>4. /\ session'[s].recordingUrl = "none"
        /\ \A t \in Sessions \ {s} : session'[t] = session[t] /\ asked'[t] = asked[t]
        /\ asked'[s] = {f}
    BY <1>0, <2>2, <2>3 DEF Asked
  <2>5. op'[w].phase = "store" /\ \A v \in Desks \ {w} : op'[v] = op[v]
    BY <1>0, <2>2 DEF Go
  <2>6. \A t \in Sessions : Own(t) => f \notin asked[t]
    BY <2>1 DEF Paired, ReservesAlone, At
  <2>7. EntriesPlayed'
    <3>1. \A i \in Indices : entries[i].session \in Sessions
      BY <1>0, EntryTyped
    <3>2. QED BY <2>1, <3>1 DEF Paired, EntriesPlayed, Indices, Played, Grow
  <2>8. ToldPlayed'
    BY <1>0, <2>1 DEF Paired, ToldPlayed, Played, Grow, TypeOK
  <2>9. StoredFirst'
    BY <2>1, <2>5 DEF Paired, StoredFirst
  <2>10. MatchesKept'
    BY <2>1, <2>5, UnnamedBefore DEF Paired, MatchesKept, At, Indices, Unnamed, Few
  <2>11. ReadyHasEntry'
    BY <2>1, <2>4 DEF Paired, ReadyHasEntry, Indices, Own, Imported
  <2>12. ReservesAlone'
    <3>1. ASSUME NEW v \in Desks, NEW t \in Sessions, Own(t)', op'[v].phase \in {"find", "create"},
                 op'[v].file \in asked'[t]
          PROVE  op'[v].phase = "find" /\ session'[t].recordingUrl = "none"
      <4>1. v # w /\ op'[v] = op[v]
        BY <2>5, <3>1
      <4>2. t # s
        BY <1>0, <2>4, <3>1, <4>1 DEF ShapeInv, FilesHeld, HoldsFile, At
      <4>3. QED BY <2>1, <2>4, <3>1, <4>1, <4>2 DEF Paired, ReservesAlone, At, Own, Imported
    <3>2. QED BY <3>1 DEF ReservesAlone, At, Own, Imported
  <2>13. OneSession'
    <3>1. \A t \in Sessions \ {s} : Own(t)' => Own(t)
      BY <2>1, <2>4 DEF Own, Imported
    <3>2. QED BY <2>4, <2>6, <3>1 DEF Paired, OneSession
  <2>14. OneEntry'
    BY <2>1, UnnamedBefore DEF Paired, OneEntry, Indices, Unnamed, Few
  <2>15. QED BY <2>7, <2>8, <2>9, <2>10, <2>11, <2>12, <2>13, <2>14 DEF Paired
<1>3. QED BY <1>1, <1>2

(* A finalization ends: one activity is the session's and the file's now.  *)
LEMMA CommitPaired ==
    ASSUME ShapeInv, Grow, Sole, Paired, NEW w \in Desks, Commit(w)
    PROVE  Paired'
<1>a. PICK h \in Request : h = op[w]
  BY OpTyped DEF ShapeInv
<1>b. PICK f, s, e : f = h.file /\ s = h.session /\ e = [session |-> s, file |-> f]
  OBVIOUS
<1>0. /\ TypeOK /\ h.phase = "commit" /\ f \in Files /\ s \in Sessions /\ f \in asked[s]
      /\ h.match \in 0 .. Len(entries) /\ Len(entries) \in Nat /\ f # NoFile
      /\ session \in [Sessions -> Session] /\ entries \in Seq(Entry) /\ e \in Entry
      /\ s \notin named => h.import
  <2>1. h.phase = "commit" /\ Len(entries) \in Nat /\ TypeOK
    BY <1>a, LenProperties DEF ShapeInv, TypeOK, Commit, At
  <2>2. f \in Files /\ s \in Sessions /\ h.match \in 0 .. MaxEntries
    BY <1>b, <2>1, KeptBy DEF Carries
  <2>3. f \in asked[s] /\ h.match <= Len(entries) /\ (s \notin named => h.import)
    BY <1>a, <1>b, <2>1 DEF ShapeInv, RequestsShaped, Carries, At
  <2>4. QED BY <1>b, <2>1, <2>2, <2>3, RecordingsAssumption DEF Entry, TypeOK
<1>1. /\ UNCHANGED <<stored, asked, named>> /\ told' = told \cup {<<f, s>>}
      /\ op'[w] = Idle /\ \A v \in Desks \ {w} : op'[v] = op[v]
  BY <1>0, <1>a, <1>b DEF ShapeInv, Commit, Finish, Go, TypeOK
<1>2. /\ session'[s].recordingUrl = "key"
      /\ \A t \in Sessions \ {s} : session'[t] = session[t]
      /\ \A t \in Sessions : Own(t)' <=> Own(t)
  <2>1. session[s] \in Session /\ Present(s)
    BY <1>0 DEF ShapeInv, SessionsShaped
  <2>2. session' = [session EXCEPT ![s] = [session[s] EXCEPT !.recordingStatus = "READY",
                                                             !.recordingUrl = "key"]]
    BY <1>0, <1>a, <1>b DEF Commit
  <2>3. session'[s].recordingUrl = "key" /\ session'[s].sourceContext = session[s].sourceContext
    BY <1>0, <2>1, <2>2 DEF Session
  <2>4. \A t \in Sessions \ {s} : session'[t] = session[t]
    BY <1>0, <2>2
  <2>5. QED BY <1>1, <2>3, <2>4 DEF Own, Imported
<1>3. Played(f, s)'
  BY <1>0, <1>1, <1>2, <1>a, <1>b DEF Paired, StoredFirst, Played
<1>4. PICK m \in 1 .. Len(entries') :
         /\ entries'[m] = e
         /\ Indices \subseteq 1 .. Len(entries')
         /\ \A i \in 1 .. Len(entries') : i # m => i \in Indices /\ entries'[i] = entries[i]
         /\ m \in Indices => h.match = m
         /\ h.match # 0 => m \in Indices
  <2>0. Indices = 1 .. Len(entries)
    BY DEF Indices
  <2>1. CASE h.match # 0 /\ entries' = [entries EXCEPT ![h.match] = e]
    <3>1. h.match \in 1 .. Len(entries)
      BY <1>0, <2>1
    <3>2. /\ Len(entries') = Len(entries)
          /\ \A i \in 1 .. Len(entries) : entries'[i] = IF i = h.match THEN e ELSE entries[i]
      BY <1>0, <2>1, <3>1, ExceptSeq
    <3>3. QED BY <2>0, <3>1, <3>2
  <2>2. CASE h.match = 0 /\ entries' = Append(entries, e)
    <3>1. PICK m : m = Len(entries) + 1
      OBVIOUS
    <3>2. /\ Len(entries') = m
          /\ \A i \in 1 .. Len(entries) : entries'[i] = entries[i]
          /\ entries'[m] = e
      BY <1>0, <2>2, <3>1, AppendProperties
    <3>3. /\ m \in 1 .. Len(entries') /\ m \notin Indices /\ Indices \subseteq 1 .. Len(entries')
          /\ \A i \in 1 .. Len(entries') : i # m => i \in Indices
      BY <1>0, <2>0, <3>1, <3>2
    <3>4. QED BY <2>0, <2>2, <3>2, <3>3
  <2>3. QED BY <1>a, <1>b, <2>1, <2>2 DEF Commit
<1>5. /\ e.file = f /\ e.session = s
      /\ m \in Indices => \/ entries[m].file = f
                          \/ entries[m].file = NoFile /\ entries[m].session = s
      /\ m \notin Indices /\ Few /\ Unnamed(f) => NoEntryOf(f)
  BY <1>0, <1>4, <1>a, <1>b DEF Paired, MatchesKept, At, NoEntryOf
<1>6. s \notin named => \A v \in Desks \ {w} : ~HoldsFile(v, f)
  BY <1>0, <1>a, <1>b DEF ShapeInv, FilesHeld, HoldsFile, At
<1>7. EntriesPlayed'
  <2>1. ASSUME NEW i \in 1 .. Len(entries'), i # m, entries'[i].file # NoFile
        PROVE  Played(entries[i].file, entries[i].session)'
    <3>1. i \in Indices /\ entries'[i] = entries[i]
      BY <1>4, <2>1
    <3>2. entries[i].session \in Sessions /\ Played(entries[i].file, entries[i].session)
      BY <1>0, <2>1, <3>1, EntryTyped DEF Paired, EntriesPlayed
    <3>3. QED BY <1>1, <3>1, <3>2 DEF Played, Grow
  <2>2. QED BY <1>3, <1>4, <1>5, <2>1 DEF EntriesPlayed, Indices, Played
<1>8. ToldPlayed'
  BY <1>0, <1>1, <1>3 DEF Paired, ToldPlayed, Played, Grow, TypeOK
<1>9. StoredFirst'
  BY <1>1 DEF Paired, StoredFirst, Idle
<1>10. MatchesKept'
  <2>1. ASSUME NEW v \in Desks, op'[v].phase = "commit"
        PROVE  /\ op'[v].match # 0 => \/ entries'[op'[v].match].file = op'[v].file
                                      \/ /\ entries'[op'[v].match].file = NoFile
                                         /\ entries'[op'[v].match].session = op'[v].session
               /\ op'[v].match = 0 /\ Few' /\ Unnamed(op[v].file)' =>
                     \A i \in 1 .. Len(entries') : entries'[i].file # op'[v].file
    <3>1. v # w /\ op'[v] = op[v] /\ At(v, "commit") /\ op[v] \in Request
      BY <1>0, <1>1, <2>1, OpTyped DEF Idle, At
    <3>2. /\ op[v].file \in Files /\ op[v].file # NoFile
          /\ op[v].match \in Nat /\ op[v].match <= Len(entries)
          /\ op[v].session \in Sessions /\ op[v].file \in asked[op[v].session]
          /\ op[v].session \notin named => op[v].import
          /\ op[v].session # s
      <4>1. op[v].phase = "commit" /\ Carries(op[v]) /\ At(w, "commit")
        BY <1>0, <1>a, <3>1 DEF At, Carries
      <4>2. QED BY <1>a, <1>b, <3>1, <4>1, KeptBy, RecordingsAssumption
                DEF ShapeInv, RequestsShaped, RowsHeld
    <3>3. ASSUME op[v].match # 0
          PROVE  \/ entries'[op[v].match].file = op[v].file
                 \/ /\ entries'[op[v].match].file = NoFile
                    /\ entries'[op[v].match].session = op[v].session
      <4>1. /\ op[v].match \in Indices
            /\ \/ entries[op[v].match].file = op[v].file
               \/ /\ entries[op[v].match].file = NoFile
                  /\ entries[op[v].match].session = op[v].session
        BY <1>0, <3>1, <3>2, <3>3 DEF Paired, MatchesKept, Indices
      <4>2. QED BY <1>0, <1>4, <1>5, <3>2, <4>1
    <3>4. ASSUME op[v].match = 0, Few', Unnamed(op[v].file)', NEW i \in 1 .. Len(entries')
          PROVE  entries'[i].file # op[v].file
      <4>1. Unnamed(op[v].file) /\ Few
        BY <1>1, <3>1, <3>4, UnnamedBefore
      <4>2. i # m => entries'[i].file # op[v].file
        BY <1>4, <3>1, <3>4, <4>1 DEF Paired, MatchesKept
      <4>3. HoldsFile(v, op[v].file)
        BY <3>1, <3>2, <4>1 DEF Unnamed, HoldsFile, At
      <4>4. f # op[v].file
        BY <1>0, <1>6, <3>1, <4>1, <4>3 DEF Unnamed
      <4>5. QED BY <1>4, <1>5, <4>2, <4>4
    <3>5. QED BY <3>1, <3>3, <3>4
  <2>2. QED BY <2>1 DEF MatchesKept, At, Indices, Unnamed, Few
<1>11. ReadyHasEntry'
  <2>1. ASSUME NEW t \in Sessions, NEW g \in asked[t], Own(t), session'[t].recordingUrl # "none"
        PROVE  \E i \in 1 .. Len(entries') : entries'[i].file = g
    <3>1. CASE t = s
      BY <1>0, <1>4, <1>5, <2>1, <3>1 DEF Sole
    <3>2. CASE t # s
      <4>1. PICK i \in Indices : entries[i].file = g
        BY <1>2, <2>1, <3>2 DEF Paired, ReadyHasEntry
      <4>2. g # NoFile
        BY <1>0, <2>1, RecordingsAssumption DEF TypeOK
      <4>3. entries'[i].file = g /\ i \in 1 .. Len(entries')
        BY <1>4, <1>5, <4>1, <4>2
      <4>4. QED BY <4>3
    <3>3. QED BY <3>1, <3>2
  <2>2. QED BY <1>1, <1>2, <2>1 DEF ReadyHasEntry, Indices
<1>12. ReservesAlone'
  <2>1. ASSUME NEW v \in Desks, NEW t \in Sessions, Own(t), op'[v].phase \in {"find", "create"},
               op'[v].file \in asked[t]
        PROVE  op'[v].phase = "find" /\ session'[t].recordingUrl = "none"
    <3>1. v # w /\ op'[v] = op[v]
      BY <1>1, <2>1 DEF Idle
    <3>2. t # s
      BY <1>0, <1>6, <2>1, <3>1 DEF Sole, HoldsFile, At, Own
    <3>3. QED BY <1>2, <2>1, <3>1, <3>2 DEF Paired, ReservesAlone, At
  <2>2. QED BY <1>1, <1>2, <2>1 DEF ReservesAlone, At
<1>13. OneSession'
  BY <1>1, <1>2 DEF Paired, OneSession
<1>14. OneEntry'
  <2>1. ASSUME NEW g \in Files, Few', Unnamed(g)', NEW i \in 1 .. Len(entries'),
               NEW j \in 1 .. Len(entries'), entries'[i].file = g, entries'[j].file = g
        PROVE  i = j
    <3>1. Unnamed(g) /\ Few
      BY <2>1, UnnamedBefore
    <3>2. ASSUME NEW k \in 1 .. Len(entries'), k # m, entries'[k].file = g, f = g
          PROVE  FALSE
      <4>1. k \in Indices /\ entries[k].file = g
        BY <1>4, <3>2
      <4>2. m \in Indices
        BY <1>5, <3>1, <3>2, <4>1 DEF NoEntryOf
      <4>3. entries[m].file = f
        <5>1. s \notin named
          BY <1>0, <3>1, <3>2 DEF Unnamed
        <5>2. QED BY <1>5, <4>2, <5>1 DEF ShapeInv, EntriesShaped
      <4>4. QED BY <3>1, <3>2, <4>1, <4>2, <4>3 DEF Paired, OneEntry
    <3>3. QED BY <1>4, <1>5, <2>1, <3>1, <3>2 DEF Paired, OneEntry
  <2>2. QED BY <2>1 DEF OneEntry, Indices, Unnamed, Few
<1>15. QED BY <1>7, <1>8, <1>9, <1>10, <1>11, <1>12, <1>13, <1>14 DEF Paired

LEMMA FilesStep ==
    ASSUME ShapeInv, FilesInv, [Next]_vars
    PROVE  FilesInv'
<1> SUFFICES ASSUME Sole'
             PROVE  Paired'
  BY DEF FilesInv
<1>1. Grow /\ ShapeInv'
  BY ShapeNext
<1>2. Sole /\ Paired
  BY <1>1, SoleBefore DEF FilesInv
<1>3. StoreKept
  BY <1>2, StoresAgain
<1>4. CASE (\E s \in Sessions : InitiateCall(s)) \/ UNCHANGED vars
  BY <1>2, <1>4, QuietCalls
<1>5. ASSUME NEW w \in Desks,
             \/ Look(w) \/ Store(w) \/ StoreFails(w) \/ MarkFailed(w)
             \/ Finalize(w) \/ NoteRecording(w) \/ Stop(w)
             \/ \E f \in Files : Import(w, f) \/ \E s \in Sessions : UploadForCall(w, f, s)
             \/ \E s \in Sessions : Webhook(w, s)
      PROVE  Paired'
  BY <1>1, <1>2, <1>3, <1>5, QuietSteps
<1>6. ASSUME NEW w \in Desks, FindReservation(w) \/ CreateReservation(w)
      PROVE  Paired'
  BY <1>1, <1>2, <1>3, <1>6, ReservesPaired
<1>7. ASSUME NEW w \in Desks, Commit(w)
      PROVE  Paired'
  BY <1>1, <1>2, <1>7, CommitPaired
<1>8. CASE \E w \in Desks : \/ Look(w) \/ FindReservation(w) \/ CreateReservation(w)
                            \/ Store(w) \/ StoreFails(w) \/ MarkFailed(w)
                            \/ Finalize(w) \/ Commit(w) \/ NoteRecording(w) \/ Stop(w)
  BY <1>5, <1>6, <1>7, <1>8
<1>9. CASE \/ \E w \in Desks, f \in Files : Import(w, f)
           \/ \E w \in Desks, f \in Files, s \in Sessions : UploadForCall(w, f, s)
           \/ \E w \in Desks, s \in Sessions : Webhook(w, s)
  BY <1>5, <1>9
<1>10. QED BY <1>4, <1>8, <1>9 DEF Next

LEMMA FilesInit == Init => FilesInv
<1> SUFFICES ASSUME Init PROVE Paired
  BY DEF FilesInv
<1>1. /\ \A s \in Sessions : session[s] = Absent /\ asked[s] = {}
      /\ Indices = {} /\ told = {} /\ \A w \in Desks : op[w].phase = "idle"
  BY DEF Init, Indices, Idle
<1>2. EntriesPlayed /\ ToldPlayed /\ StoredFirst /\ MatchesKept
  BY <1>1 DEF EntriesPlayed, ToldPlayed, StoredFirst, MatchesKept, At
<1>3. ReadyHasEntry /\ ReservesAlone /\ OneSession /\ OneEntry
  BY <1>1 DEF ReadyHasEntry, ReservesAlone, OneSession, OneEntry
<1>4. QED BY <1>2, <1>3 DEF Paired

LEMMA FilesAlways == Spec => [](ShapeInv /\ FilesInv)
<1>1. Init => ShapeInv /\ FilesInv
  BY ShapeInit, FilesInit
<1>2. ShapeInv /\ FilesInv /\ [Next]_vars => (ShapeInv /\ FilesInv)'
  BY ShapeNext, FilesStep
<1>3. QED BY <1>1, <1>2, PTL DEF Spec

(* The count and what it stands for.                                       *)
LEMMA AtMostOne ==
    ASSUME NEW S, IsFiniteSet(S)
    PROVE  Cardinality(S) <= 1 <=> \A x, y \in S : x = y
<1>1. Cardinality(S) \in Nat
  BY FS_CardinalityType
<1>2. ASSUME Cardinality(S) <= 1, NEW x \in S, NEW y \in S
      PROVE  x = y
  <2>1. Cardinality(S) = 1
    BY <1>1, <1>2, FS_EmptySet
  <2>2. PICK z : S = {z}
    BY <2>1, FS_Singleton
  <2>3. QED BY <2>2
<1>3. ASSUME \A x, y \in S : x = y
      PROVE  Cardinality(S) <= 1
  <2>1. CASE S = {}
    BY <2>1, FS_EmptySet
  <2>2. CASE S # {}
    <3>1. PICK x : S = {x}
      BY <1>3, <2>2
    <3>2. Cardinality(S) = 1
      BY <3>1, FS_Singleton
    <3>3. QED BY <3>2
  <2>3. QED BY <2>1, <2>2
<1>4. QED BY <1>2, <1>3

LEMMA UnsharedIsSole ==
    ASSUME ShapeInv
    PROVE  Unshared <=> Sole
<1>1. \A s \in Sessions : IsFiniteSet(asked[s])
  BY DEF ShapeInv, SessionsShaped
<1>2. \A s \in Sessions : Cardinality(asked[s]) <= 1 <=> \A f, g \in asked[s] : f = g
  BY <1>1, AtMostOne
<1>3. QED BY <1>2 DEF Unshared, Sole

(* However often a file is imported, and however the requests for it       *)
(* interleave, fail, stop and are made again, it gets one session beside   *)
(* those that an upload or an event has named, and one activity as long as *)
(* none of its sessions is named and a finalization sees all activities.   *)
THEOREM OneRecording == Spec => []OneRecordingPerFile
<1>1. ShapeInv /\ FilesInv => OneRecordingPerFile
  <2> SUFFICES ASSUME ShapeInv, FilesInv, Unshared, NEW f \in Files
               PROVE  LET meant == {s \in Sessions : f \in asked[s]}
                      IN  /\ Cardinality({s \in meant \ named : Imported(s)}) <= 1
                          /\ meant \cap named = {} /\ Len(entries) <= Window =>
                                Cardinality({i \in Indices : entries[i].file = f}) <= 1
    BY DEF OneRecordingPerFile
  <2> DEFINE meant == {s \in Sessions : f \in asked[s]}
  <2>1. Paired
    BY UnsharedIsSole DEF FilesInv
  <2>2. IsFiniteSet(Sessions) /\ IsFiniteSet(Indices)
    <3>1. MaxSessions \in Int /\ Len(entries) \in Int /\ 1 \in Int
      BY RecordingsAssumption, LenProperties DEF ShapeInv, TypeOK
    <3>2. QED BY <3>1, FS_Interval DEF Sessions, Indices
  <2>3. Cardinality({s \in meant \ named : Imported(s)}) <= 1
    <3> DEFINE S == {s \in meant \ named : Imported(s)}
    <3>1. IsFiniteSet(S)
      BY <2>2, FS_Subset
    <3>2. \A s, t \in S : s = t
      BY <2>1 DEF Paired, OneSession, Own
    <3> HIDE DEF S
    <3>3. Cardinality(S) <= 1
      BY <3>1, <3>2, AtMostOne
    <3>4. QED BY <3>3 DEF S
  <2>4. ASSUME meant \cap named = {}, Len(entries) <= Window
        PROVE  Cardinality({i \in Indices : entries[i].file = f}) <= 1
    <3> DEFINE S == {i \in Indices : entries[i].file = f}
    <3>1. IsFiniteSet(S)
      BY <2>2, FS_Subset
    <3>2. Unnamed(f) /\ Few
      BY <2>4 DEF Unnamed, Few
    <3>3. \A i, j \in S : i = j
      BY <2>1, <3>2 DEF Paired, OneEntry
    <3> HIDE DEF S
    <3>4. Cardinality(S) <= 1
      BY <3>1, <3>3, AtMostOne
    <3>5. QED BY <3>4 DEF S
  <2>5. QED BY <2>3, <2>4
<1>2. QED BY <1>1, FilesAlways, PTL

(* What a client is told it can play stays in the store under the key of   *)
(* the session it was told, through every later upload, failure, crash and *)
(* webhook, as long as no session is given to two files.                   *)
THEOREM AnswersHold == Spec => []AnsweredIsStored
<1>1. ShapeInv /\ FilesInv => AnsweredIsStored
  BY UnsharedIsSole DEF FilesInv, Paired, ToldPlayed, Played, AnsweredIsStored
<1>2. QED BY <1>1, FilesAlways, PTL

-----------------------------------------------------------------------------
(* The follow-ups.                                                         *)

(* A request that has read rows has read follow-ups, which are never       *)
(* removed: what it writes falls on the rows it has read.                  *)
Places  == Requests \cup Doors
Reading(h) ==
    h.kind \in {"refresh", "write"} \/ (h.kind \in {"scan", "mark"} /\ h.to # "overdue")

VisitsSound ==
    /\ handler \in [Places -> Handler]
    /\ \A w \in Places : Reading(handler[w]) => DOMAIN handler[w].was \subseteq Live

LeadTyped ==
    /\ now \in Moments
    /\ lead \in Lead
    /\ row \in [Rows -> FollowUp \cup {Blank}]
    /\ cache \in [Gates -> [Users -> {"none", "owes", "free"}]]

FollowUpShape == LeadTyped /\ VisitsSound

(* No follow-up is lost from one state of the rows to the next.            *)
RowsKept(rows, result) ==
    /\ result \in [Rows -> FollowUp \cup {Blank}]
    /\ \A r \in Rows : rows[r] # Blank => result[r] # Blank

-----------------------------------------------------------------------------
(* Rows and what is read of them.                                          *)
LEMMA RowKinds ==
    ASSUME NEW x \in FollowUp \cup {Blank}
    PROVE  /\ x # Blank => x \in FollowUp
           /\ x.status # "none" => x \in FollowUp
           /\ x \in FollowUp => x # Blank /\ x.status # "none"
<1>1. Blank.status = "none"
  BY DEF Blank
<1>2. x \in FollowUp => x.status \in {"PENDING", "MISSED", "COMPLETED", "CANCELLED"}
  BY DEF FollowUp
<1>3. QED BY <1>1, <1>2

LEMMA ReadsAre ==
    ASSUME NEW f \in Reads
    PROVE  DOMAIN f \subseteq Rows /\ \A r \in DOMAIN f : f[r] \in FollowUp
<1>1. PICK on \in SUBSET Rows : f \in [on -> FollowUp]
  BY DEF Reads
<1>2. QED BY <1>1

LEMMA ReadsOf ==
    ASSUME NEW on \in SUBSET Rows, NEW f \in [on -> FollowUp]
    PROVE  f \in Reads /\ DOMAIN f = on
BY DEF Reads

LEMMA NewTyped ==
    ASSUME NEW u \in Users, NEW at \in Moments
    PROVE  New(u, at) \in FollowUp
BY DEF New, FollowUp

LEMMA KeptOn ==
    ASSUME NEW a, NEW b, NEW c, RowsKept(a, b), RowsKept(b, c)
    PROVE  RowsKept(a, c)
BY DEF RowsKept

LEMMA KeptSame == LeadTyped => RowsKept(row, row)
BY DEF RowsKept, LeadTyped

LEMMA KeptByNew ==
    ASSUME NEW rows \in [Rows -> FollowUp \cup {Blank}], NEW r \in Rows, NEW u \in Users,
           NEW at \in Moments, NEW result, result = [rows EXCEPT ![r] = New(u, at)]
    PROVE  RowsKept(rows, result)
BY NewTyped, RowKinds DEF RowsKept

LEMMA KeptAtRows ==
    ASSUME NEW rows \in [Rows -> FollowUp \cup {Blank}], NEW result,
           result = [r \in Rows |-> result[r]],
           \A r \in Rows : result[r] = rows[r] \/ result[r] \in FollowUp
    PROVE  RowsKept(rows, result)
BY RowKinds DEF RowsKept

LEMMA Scheduled ==
    ASSUME NEW rows \in [Rows -> FollowUp \cup {Blank}], NEW u \in Users, NEW at \in Moments,
           NEW result, Schedule(rows, u, at, result)
    PROVE  RowsKept(rows, result)
<1>1. CASE \E r \in Rows : rows[r].status = "PENDING" /\ result = [rows EXCEPT ![r].user = u, ![r].at = at]
  <2>1. PICK r \in Rows : rows[r].status = "PENDING" /\ result = [rows EXCEPT ![r].user = u, ![r].at = at]
    BY <1>1
  <2>2. rows[r] \in FollowUp
    BY <2>1, RowKinds
  <2> DEFINE x == [rows[r] EXCEPT !.user = u, !.at = at]
  <2>3. x \in FollowUp
    BY <2>2 DEF FollowUp
  <2>4. result = [rows EXCEPT ![r] = x]
    BY <2>1, <2>2
  <2> HIDE DEF x
  <2>5. QED BY <2>3, <2>4, RowKinds DEF RowsKept
<1>2. CASE \E r \in Rows : result = [rows EXCEPT ![r] = New(u, at)]
  BY <1>2, KeptByNew
<1>3. QED BY <1>1, <1>2 DEF Schedule

LEMMA CancelledKept ==
    ASSUME NEW rows \in [Rows -> FollowUp \cup {Blank}]
    PROVE  RowsKept(rows, Cancelled(rows))
<1>1. ASSUME NEW r \in Rows PROVE Cancelled(rows)[r] = rows[r] \/ Cancelled(rows)[r] \in FollowUp
  <2>1. CASE rows[r].status \in {"PENDING", "MISSED"}
    <3>1. rows[r] \in FollowUp
      BY <2>1, RowKinds
    <3>2. [rows[r] EXCEPT !.status = "CANCELLED"] \in FollowUp
      BY <3>1 DEF FollowUp
    <3>3. QED BY <2>1, <3>2 DEF Cancelled
  <2>2. QED BY <2>1 DEF Cancelled
<1>2. Cancelled(rows) = [r \in Rows |-> Cancelled(rows)[r]]
  BY DEF Cancelled
<1>3. QED BY <1>1, <1>2, KeptAtRows

LEMMA AssignedKept ==
    ASSUME NEW rows \in [Rows -> FollowUp \cup {Blank}], NEW u \in Users
    PROVE  RowsKept(rows, Assigned(rows, u))
<1>1. ASSUME NEW r \in Rows PROVE Assigned(rows, u)[r] = rows[r] \/ Assigned(rows, u)[r] \in FollowUp
  <2>1. CASE rows[r].status = "PENDING"
    <3>1. rows[r] \in FollowUp
      BY <2>1, RowKinds
    <3>2. [rows[r] EXCEPT !.user = u] \in FollowUp
      BY <3>1 DEF FollowUp
    <3>3. QED BY <3>2 DEF Assigned
  <2>2. QED BY <2>1 DEF Assigned
<1>2. Assigned(rows, u) = [r \in Rows |-> Assigned(rows, u)[r]]
  BY DEF Assigned
<1>3. QED BY <1>1, <1>2, KeptAtRows

LEMMA EnteredKept ==
    ASSUME LeadTyped, NEW stage
    PROVE  RowsKept(row, Entered(stage))
BY CancelledKept, KeptSame DEF Entered, LeadTyped

-----------------------------------------------------------------------------
(* The requests.                                                           *)
LEMMA HandlerTyped ==
    ASSUME NEW h \in Handler
    PROVE  /\ h.kind \in {"create", "continue"} => h.user \in Users /\ h.at \in Moments
           /\ h.kind \in {"scan", "mark"} /\ h.to = "overdue" => h.user \in Users
           /\ h.kind = "mark" => h.due \subseteq Rows
           /\ Reading(h) => /\ h.to \in {"complete", "snooze", "bulk"} /\ h.was \in Reads
                            /\ h.at \in Moments /\ h.begun \in Moments
           /\ h.kind \in {"look", "answer"} => h.gate \in Gates /\ h.user \in Users
           /\ h.kind = "answer" => h.owes \in BOOLEAN
           /\ h.kind = "forget" => h.users \subseteq Users
BY DEF Handler, Reading

LEMMA Switched ==
    ASSUME VisitsSound, RowsKept(row, row'), NEW w \in Places, NEW h \in Handler,
           Reading(h) => DOMAIN h.was \subseteq Live, Switch(w, h)
    PROVE  VisitsSound'
<1>1. Live \subseteq Live'
  BY DEF Live, RowsKept
<1>2. QED BY <1>1 DEF VisitsSound, Switch

LEMMA Left ==
    ASSUME VisitsSound, RowsKept(row, row'), NEW w \in Places, Leave(w)
    PROVE  VisitsSound'
<1>1. Vacant \in Handler /\ ~Reading(Vacant)
  BY DEF Vacant, Handler, Reading
<1>2. QED BY <1>1, Switched DEF Leave

LEMMA Stayed ==
    ASSUME VisitsSound, RowsKept(row, row'), handler' = handler
    PROVE  VisitsSound'
<1>1. Live \subseteq Live'
  BY DEF Live, RowsKept
<1>2. QED BY <1>1 DEF VisitsSound

LEMMA WorkTyped ==
    ASSUME LeadTyped, NEW to \in {"complete", "snooze", "bulk"}, NEW on \in SUBSET Rows,
           \A r \in on : row[r].status # "none", NEW at \in Moments
    PROVE  /\ Work(to, on, at) \in Handler
           /\ DOMAIN Work(to, on, at).was \subseteq Live
<1>1. \A r \in on : row[r] \in FollowUp /\ row[r] # Blank
  BY RowKinds DEF LeadTyped
<1> DEFINE was == [r \in on |-> row[r]]
<1>2. was \in Reads /\ DOMAIN was \subseteq Live
  BY <1>1, ReadsOf DEF Live
<1>3. Work(to, on, at) = [kind |-> "scan", to |-> to, was |-> was, at |-> at, begun |-> now]
  BY DEF Work
<1> HIDE DEF was
<1>4. Work(to, on, at) \in Handler
  BY <1>2, <1>3 DEF Handler, LeadTyped
<1>5. QED BY <1>2, <1>3, <1>4

LEMMA MarkedTyped ==
    ASSUME NEW h \in Handler, h.kind \in {"scan", "mark"}
    PROVE  /\ Marked(h) \in Handler
           /\ Reading(Marked(h)) => Reading(h) /\ Marked(h).was = h.was
<1>1. CASE h.to = "overdue"
  <2>1. Marked(h) = [kind |-> "look", gate |-> "overdue", user |-> h.user] /\ h.user \in Users
    BY <1>1, HandlerTyped DEF Marked
  <2>2. QED BY <2>1 DEF Handler, Gates, Reading
<1>2. CASE h.to # "overdue"
  <2>1. Reading(h)
    BY <1>2 DEF Reading
  <2>2. h.to \in {"complete", "snooze", "bulk"} /\ h.was \in Reads /\ h.at \in Moments /\ h.begun \in Moments
    BY <2>1, HandlerTyped
  <2>3. \E kind \in {"refresh", "write"} :
           Marked(h) = [kind |-> kind, to |-> h.to, was |-> h.was, at |-> h.at, begun |-> h.begun]
    BY <1>2 DEF Marked
  <2>4. QED BY <2>1, <2>2, <2>3 DEF Handler
<1>3. QED BY <1>1, <1>2

LEMMA WithDueTyped ==
    ASSUME NEW h \in Handler, h.kind = "scan", NEW due \in SUBSET Rows
    PROVE  /\ WithDue(h, due) \in Handler
           /\ Reading(WithDue(h, due)) => Reading(h) /\ WithDue(h, due).was = h.was
<1>1. CASE h.to = "overdue"
  <2>1. WithDue(h, due) = [kind |-> "mark", to |-> h.to, user |-> h.user, due |-> due] /\ h.user \in Users
    BY <1>1, HandlerTyped DEF WithDue
  <2>2. QED BY <1>1, <2>1 DEF Handler, Reading
<1>2. CASE h.to # "overdue"
  <2>1. Reading(h)
    BY <1>2 DEF Reading
  <2>2. h.to \in {"complete", "snooze", "bulk"} /\ h.was \in Reads /\ h.at \in Moments /\ h.begun \in Moments
    BY <2>1, HandlerTyped
  <2>3. WithDue(h, due) = [kind |-> "mark", to |-> h.to, due |-> due, was |-> h.was,
                           at |-> h.at, begun |-> h.begun]
    BY <1>2 DEF WithDue
  <2>4. QED BY <2>1, <2>2, <2>3 DEF Handler
<1>3. QED BY <1>1, <1>2

-----------------------------------------------------------------------------
(* The steps.                                                              *)
LEMMA Begun ==
    ASSUME FollowUpShape, NEW w \in Places, NEW h \in Handler,
           Reading(h) => DOMAIN h.was \subseteq Live, Switch(w, h),
           UNCHANGED <<now, lead, row, cache>>
    PROVE  FollowUpShape'
<1>1. RowsKept(row, row')
  BY KeptSame DEF FollowUpShape
<1>2. VisitsSound'
  BY <1>1, Switched DEF FollowUpShape
<1>3. QED BY <1>2 DEF FollowUpShape, LeadTyped

LEMMA OpensShape ==
    ASSUME FollowUpShape, NEW w \in Places,
           \/ \E at \in Moments : CreateRead(w, at)
           \/ \E r \in Rows : CompleteRead(w, r)
           \/ \E r \in Rows, at \in Moments : SnoozeRead(w, r, at)
           \/ \E on \in SUBSET Rows, at \in Moments : BulkRead(w, on, at)
           \/ \E u \in Users, at \in Moments : ContinueRead(w, u, at)
           \/ \E u \in Callers : AskOverdue(w, u) \/ AskMandatory(w, u)
    PROVE  FollowUpShape'
<1> USE DEF FollowUpShape
<1>0. now \in Moments /\ lead.owner \in Users /\ Callers \subseteq Users
  BY TimeAssumption DEF LeadTyped, Lead
<1>1. ASSUME NEW at \in Moments, CreateRead(w, at) PROVE FollowUpShape'
  <2> DEFINE h == [kind |-> "create", user |-> lead.owner, at |-> at]
  <2>1. h \in Handler /\ ~Reading(h)
    BY <1>0 DEF Handler, Reading
  <2>2. Switch(w, h) /\ UNCHANGED <<now, lead, row, cache>>
    BY <1>1 DEF CreateRead, Enter
  <2> HIDE DEF h
  <2>3. QED BY <2>1, <2>2, Begun
<1>2. ASSUME NEW r \in Rows, CompleteRead(w, r) PROVE FollowUpShape'
  BY <1>0, <1>2, WorkTyped, Begun DEF CompleteRead, Enter
<1>3. ASSUME NEW r \in Rows, NEW at \in Moments, SnoozeRead(w, r, at) PROVE FollowUpShape'
  BY <1>3, WorkTyped, Begun DEF SnoozeRead, Enter
<1>4. ASSUME NEW on \in SUBSET Rows, NEW at \in Moments, BulkRead(w, on, at) PROVE FollowUpShape'
  <2>1. \A r \in on : row[r].status # "none"
    BY <1>4 DEF BulkRead, With
  <2>2. QED BY <1>4, <2>1, WorkTyped, Begun DEF BulkRead, Enter
<1>5. ASSUME NEW u \in Users, NEW at \in Moments, ContinueRead(w, u, at) PROVE FollowUpShape'
  <2> DEFINE h == [kind |-> "continue", user |-> u, at |-> at]
  <2>1. h \in Handler /\ ~Reading(h)
    BY DEF Handler, Reading
  <2>2. Switch(w, h) /\ UNCHANGED <<now, lead, row, cache>>
    BY <1>5 DEF ContinueRead, Enter
  <2> HIDE DEF h
  <2>3. QED BY <2>1, <2>2, Begun
<1>6. ASSUME NEW u \in Callers, AskOverdue(w, u) PROVE FollowUpShape'
  <2> DEFINE h == [kind |-> "scan", to |-> "overdue", user |-> u]
  <2>1. h \in Handler /\ ~Reading(h)
    BY <1>0 DEF Handler, Reading
  <2>2. Switch(w, h) /\ UNCHANGED <<now, lead, row, cache>>
    BY <1>6 DEF AskOverdue, Enter
  <2> HIDE DEF h
  <2>3. QED BY <2>1, <2>2, Begun
<1>7. ASSUME NEW u \in Callers, AskMandatory(w, u) PROVE FollowUpShape'
  <2> DEFINE h == [kind |-> "look", gate |-> "mandatory", user |-> u]
  <2>1. h \in Handler /\ ~Reading(h)
    BY <1>0 DEF Handler, Reading, Gates
  <2>2. Switch(w, h) /\ UNCHANGED <<now, lead, row, cache>>
    BY <1>7 DEF AskMandatory, Enter
  <2> HIDE DEF h
  <2>3. QED BY <2>1, <2>2, Begun
<1>8. QED BY <1>1, <1>2, <1>3, <1>4, <1>5, <1>6, <1>7

(* What a request that has read rows does next.                            *)
LEMMA WorksShape ==
    ASSUME FollowUpShape, NEW w \in Places, Scan(w) \/ Mark(w) \/ Refresh(w) \/ Write(w)
    PROVE  FollowUpShape'
<1> USE DEF FollowUpShape
<1>0. handler[w] \in Handler /\ (Reading(handler[w]) => DOMAIN handler[w].was \subseteq Live)
  BY DEF VisitsSound
<1>1. CASE Scan(w)
  <2> DEFINE due == {r \in With({"PENDING"}) : ~row[r].overdue /\ PastDue(row[r].at, now)}
  <2>1. due \in SUBSET Rows
    BY DEF With, Live
  <2>2. /\ handler[w].kind = "scan" /\ UNCHANGED <<now, lead, row, cache>>
        /\ Switch(w, Marked(handler[w])) \/ Switch(w, WithDue(handler[w], due))
    BY <1>1 DEF Scan, Doing
  <2> HIDE DEF due
  <2>3. QED BY <1>0, <2>1, <2>2, MarkedTyped, WithDueTyped, Begun
<1>2. CASE Mark(w)
  <2>1. handler[w].kind = "mark" /\ handler[w].due \subseteq Rows
    BY <1>0, <1>2, HandlerTyped DEF Mark, Doing
  <2>2. row' = [r \in Rows |-> IF r \in handler[w].due THEN [row[r] EXCEPT !.overdue = TRUE] ELSE row[r]]
    BY <1>2 DEF Mark
  <2>3. ASSUME NEW r \in Rows PROVE row'[r] = row[r] \/ row'[r] \in FollowUp
    <3>1. CASE row[r] \in FollowUp
      <4>1. [row[r] EXCEPT !.overdue = TRUE] \in FollowUp
        BY <3>1 DEF FollowUp
      <4>2. QED BY <2>2, <4>1
    <3>2. CASE row[r] = Blank
      <4>1. [Blank EXCEPT !.overdue = TRUE] = Blank
        BY DEF Blank
      <4>2. QED BY <2>2, <3>2, <4>1
    <3>3. QED BY <3>1, <3>2 DEF LeadTyped
  <2>4. RowsKept(row, row')
    BY <2>2, <2>3, KeptAtRows DEF LeadTyped
  <2>5. VisitsSound'
    BY <1>0, <1>2, <2>1, <2>4, MarkedTyped, Switched DEF Mark
  <2>6. QED BY <1>2, <2>4, <2>5 DEF Mark, LeadTyped, RowsKept
<1>3. CASE Refresh(w)
  <2>1. handler[w].kind = "refresh" /\ Reading(handler[w])
    BY <1>3 DEF Refresh, Doing, Reading
  <2>2. /\ handler[w].to \in {"complete", "snooze", "bulk"} /\ handler[w].was \in Reads
        /\ handler[w].at \in Moments /\ handler[w].begun \in Moments
    BY <1>0, <2>1, HandlerTyped
  <2> DEFINE was == [r \in DOMAIN handler[w].was |->
                       IF handler[w].to = "snooze" THEN [row[r] EXCEPT !.at = handler[w].was[r].at]
                                                   ELSE row[r]]
             h   == [handler[w] EXCEPT !.kind = "write", !.was = was]
  <2>3. DOMAIN handler[w].was \subseteq Rows /\ \A r \in DOMAIN handler[w].was : handler[w].was[r].at \in Moments
    BY <2>2, ReadsAre DEF FollowUp
  <2>4. \A r \in DOMAIN handler[w].was : row[r] \in FollowUp
    BY <1>0, <2>1, <2>3, RowKinds DEF Live, LeadTyped
  <2>5. ASSUME NEW r \in DOMAIN handler[w].was PROVE was[r] \in FollowUp
    <3>1. [row[r] EXCEPT !.at = handler[w].was[r].at] \in FollowUp
      BY <2>3, <2>4 DEF FollowUp
    <3>2. QED BY <2>4, <3>1
  <2>6. was \in Reads /\ DOMAIN was = DOMAIN handler[w].was
    <3> DEFINE on == DOMAIN handler[w].was
    <3>1. was = [r \in on |-> was[r]] /\ \A r \in on : was[r] \in FollowUp
      BY <2>5
    <3>2. on \in SUBSET Rows
      BY <2>3
    <3> HIDE DEF was, on
    <3>3. was \in [on -> FollowUp]
      BY <3>1
    <3>4. was \in Reads /\ DOMAIN was = on
      BY <3>2, <3>3, ReadsOf
    <3>5. QED BY <3>4 DEF on
  <2>7. Switch(w, h)
    BY <1>3 DEF Refresh
  <2>8. handler[w] \in [kind : {"scan", "refresh", "write"}, to : {"complete", "snooze", "bulk"},
                        was : Reads, at : Moments, begun : Moments]
    BY <1>0, <2>1 DEF Handler
  <2> HIDE DEF was
  <2>9. h \in Handler /\ h.was = was
    BY <2>6, <2>8 DEF Handler
  <2> HIDE DEF h
  <2>10. QED BY <1>0, <1>3, <2>1, <2>6, <2>7, <2>9, Begun DEF Refresh
<1>4. CASE Write(w)
  <2>1. handler[w].kind = "write" /\ Reading(handler[w])
    BY <1>4 DEF Write, Doing, Reading
  <2>2. /\ handler[w].to \in {"complete", "snooze", "bulk"} /\ handler[w].was \in Reads
        /\ handler[w].at \in Moments /\ handler[w].begun \in Moments
    BY <1>0, <2>1, HandlerTyped
  <2> DEFINE h == handler[w]
             on == DOMAIN h.was
             Result(r) == CASE h.to = "complete" -> Completed(r, h.was[r], h.begun)
                            [] h.to = "snooze"   -> Moved(r, h.was[r], h.at, h.begun)
                            [] h.to = "bulk"     -> Moved(r, h.was[r], h.at, now)
  <2>3. row' = [r \in Rows |-> IF r \in on THEN Result(r) ELSE row[r]]
    BY <1>4 DEF Write
  <2>4. on \subseteq Rows /\ \A r \in on : h.was[r] \in FollowUp /\ row[r] \in FollowUp
    BY <1>0, <2>1, <2>2, ReadsAre, RowKinds DEF Live, LeadTyped
  <2>5. ASSUME NEW r \in on PROVE Result(r) \in FollowUp
    <3>1. ASSUME NEW t PROVE Completed(r, h.was[r], t) \in FollowUp
      <4>1. (h.was[r].overdue \/ PastDue(h.was[r].at, t)) \in BOOLEAN
        OBVIOUS
      <4>2. QED BY <2>4, <4>1 DEF Completed, FollowUp
    <3>2. ASSUME NEW t PROVE Moved(r, h.was[r], h.at, t) \in FollowUp
      <4>1. ((h.was[r].overdue \/ PastDue(h.was[r].at, t)) /\ PastDue(h.at, t)) \in BOOLEAN
        OBVIOUS
      <4>2. QED BY <2>2, <2>4, <4>1 DEF Moved, FollowUp
    <3>3. QED BY <2>2, <3>1, <3>2
  <2>6. RowsKept(row, row')
    <3> HIDE DEF Result, on
    <3>1. \A r \in Rows : row'[r] = IF r \in on THEN Result(r) ELSE row[r]
      BY <2>3
    <3>2. row' = [r \in Rows |-> row'[r]]
      BY <2>3
    <3>3. QED BY <2>5, <3>1, <3>2, KeptAtRows DEF LeadTyped
  <2> DEFINE g == [kind |-> "forget", users |-> {h.was[r].user : r \in on}]
  <2>7. g \in Handler /\ ~Reading(g)
    BY <2>4 DEF Handler, Reading, FollowUp
  <2>8. Switch(w, g)
    BY <1>4 DEF Write
  <2> HIDE DEF g
  <2>9. VisitsSound'
    BY <2>6, <2>7, <2>8, Switched
  <2>10. QED BY <1>4, <2>6, <2>9 DEF Write, LeadTyped, RowsKept
<1>5. QED BY <1>1, <1>2, <1>3, <1>4

(* What adds rows, forgets an answer, looks one up or remembers it.        *)
LEMMA EndsShape ==
    ASSUME FollowUpShape, NEW w \in Places,
           CreateInsert(w) \/ ContinueWrite(w) \/ Forget(w) \/ LookUp(w) \/ Answer(w) \/ Drop(w)
    PROVE  FollowUpShape'
<1> USE DEF FollowUpShape
<1>0. handler[w] \in Handler
  BY DEF VisitsSound
<1>1. CASE CreateInsert(w)
  <2>1. handler[w].user \in Users /\ handler[w].at \in Moments
    BY <1>0, <1>1, HandlerTyped DEF CreateInsert, Doing
  <2>2. RowsKept(row, row')
    BY <1>1, <2>1, KeptByNew DEF CreateInsert, LeadTyped
  <2>3. QED BY <1>1, <2>2, Left DEF CreateInsert, LeadTyped, RowsKept
<1>2. CASE ContinueWrite(w)
  <2>1. handler[w].user \in Users /\ handler[w].at \in Moments
    BY <1>0, <1>2, HandlerTyped DEF ContinueWrite, Doing
  <2>2. RowsKept(row, row')
    BY <1>2, <2>1, Scheduled DEF ContinueWrite, LeadTyped
  <2> DEFINE g == [kind |-> "forget", users |-> {handler[w].user}]
  <2>3. g \in Handler /\ ~Reading(g)
    BY <2>1 DEF Handler, Reading
  <2>4. Switch(w, g)
    BY <1>2 DEF ContinueWrite
  <2> HIDE DEF g
  <2>5. VisitsSound'
    BY <2>2, <2>3, <2>4, Switched
  <2>6. QED BY <1>2, <2>2, <2>5 DEF ContinueWrite, LeadTyped, RowsKept
<1>3. CASE Forget(w)
  <2>1. RowsKept(row, row')
    BY <1>3, KeptSame DEF Forget
  <2>2. cache' \in [Gates -> [Users -> {"none", "owes", "free"}]]
    BY <1>3 DEF Forget, LeadTyped
  <2>3. QED BY <1>3, <2>1, <2>2, Left DEF Forget, LeadTyped
<1>4. CASE LookUp(w)
  <2>1. handler[w].gate \in Gates /\ handler[w].user \in Users
    BY <1>0, <1>4, HandlerTyped DEF LookUp, Doing
  <2>2. PICK owes \in BOOLEAN :
           Switch(w, [kind |-> "answer", gate |-> handler[w].gate, user |-> handler[w].user, owes |-> owes])
    <3>1. (OverdueOf(handler[w].user) # {}) \in BOOLEAN /\ Unplanned(handler[w].user) \in BOOLEAN
      BY DEF Unplanned
    <3>2. QED BY <1>4, <3>1 DEF LookUp
  <2> DEFINE g == [kind |-> "answer", gate |-> handler[w].gate, user |-> handler[w].user, owes |-> owes]
  <2>3. g \in Handler /\ ~Reading(g)
    BY <2>1 DEF Handler, Reading
  <2>4. Switch(w, g)
    BY <2>2
  <2> HIDE DEF g
  <2>5. QED BY <1>4, <2>3, <2>4, Begun DEF LookUp
<1>5. CASE Answer(w)
  <2>1. handler[w].gate \in Gates /\ handler[w].user \in Users
    BY <1>0, <1>5, HandlerTyped DEF Answer, Doing
  <2> DEFINE g == [kind |-> "look", gate |-> "mandatory", user |-> handler[w].user]
  <2>2. g \in Handler /\ ~Reading(g)
    BY <2>1 DEF Handler, Reading, Gates
  <2>3. Switch(w, g) \/ Leave(w)
    BY <1>5 DEF Answer
  <2> HIDE DEF g
  <2>4. RowsKept(row, row')
    BY <1>5, KeptSame DEF Answer
  <2>5. VisitsSound'
    BY <2>2, <2>3, <2>4, Switched, Left
  <2>6. cache' \in [Gates -> [Users -> {"none", "owes", "free"}]]
    <3>1. \/ cache' = [cache EXCEPT ![handler[w].gate][handler[w].user] = "owes"]
          \/ cache' = [cache EXCEPT ![handler[w].gate][handler[w].user] = "free"]
      BY <1>5 DEF Answer
    <3>2. QED BY <2>1, <3>1 DEF LeadTyped
  <2>7. QED BY <1>5, <2>5, <2>6 DEF Answer, LeadTyped
<1>6. CASE Drop(w)
  <2>1. RowsKept(row, row')
    BY <1>6, KeptSame DEF Drop
  <2>2. QED BY <1>6, <2>1, Left DEF Drop, LeadTyped
<1>7. QED BY <1>1, <1>2, <1>3, <1>4, <1>5, <1>6

LEMMA LeadShape ==
    ASSUME FollowUpShape, NEW stage \in Stages, NEW at \in Moments \cup {None},
           CallOutcome(stage, at) \/ \E u \in Users : UpdateLead(u, stage, at)
    PROVE  FollowUpShape'
<1> USE DEF FollowUpShape
<1>0. lead.owner \in Users /\ at # None => at \in Moments
  BY DEF LeadTyped, Lead
<1>1. RowsKept(row, Entered(stage)) /\ Entered(stage) \in [Rows -> FollowUp \cup {Blank}]
  BY EnteredKept DEF RowsKept
<1>2. ASSUME NEW u \in Users, UpdateLead(u, stage, at) PROVE FollowUpShape'
  <2>1. RowsKept(Entered(stage), Assigned(Entered(stage), u))
    BY <1>1, AssignedKept
  <2>2. RowsKept(row, Assigned(Entered(stage), u)) /\ Assigned(Entered(stage), u) \in [Rows -> FollowUp \cup {Blank}]
    BY <1>1, <2>1, KeptOn DEF RowsKept
  <2>3. RowsKept(Assigned(Entered(stage), u), row')
    <3>1. CASE at = None
      BY <1>2, <2>2, <3>1 DEF UpdateLead, RowsKept
    <3>2. CASE at # None
      BY <1>0, <1>2, <2>2, <3>2, Scheduled DEF UpdateLead
    <3>3. QED BY <3>1, <3>2
  <2>4. RowsKept(row, row')
    BY <2>2, <2>3, KeptOn
  <2>5. lead' \in Lead
    BY <1>2 DEF UpdateLead, Lead
  <2>6. QED BY <1>2, <2>4, <2>5, Stayed DEF UpdateLead, LeadTyped, RowsKept
<1>3. CASE CallOutcome(stage, at)
  <2>1. RowsKept(Entered(stage), row')
    <3>1. CASE at = None
      BY <1>1, <1>3, <3>1 DEF CallOutcome, RowsKept
    <3>2. CASE at # None
      BY <1>0, <1>1, <1>3, <3>2, KeptByNew DEF CallOutcome, LeadTyped, Lead
    <3>3. QED BY <3>1, <3>2
  <2>2. RowsKept(row, row')
    BY <1>1, <2>1, KeptOn
  <2>3. lead' \in Lead
    BY <1>3 DEF CallOutcome, LeadTyped, Lead
  <2>4. QED BY <1>3, <2>2, <2>3, Stayed DEF CallOutcome, LeadTyped, RowsKept
<1>4. QED BY <1>2, <1>3

LEMMA AsideShape ==
    ASSUME FollowUpShape,
           \/ \E g \in Gates, u \in Users : Expire(g, u)
           \/ MarkMissed \/ Tick \/ Restart \/ UNCHANGED followUpVars
    PROVE  FollowUpShape'
<1> USE DEF FollowUpShape
<1>0. RowsKept(row, row)
  BY KeptSame
<1>1. ASSUME NEW g \in Gates, NEW u \in Users, Expire(g, u) PROVE FollowUpShape'
  BY <1>0, <1>1, Stayed DEF Expire, LeadTyped
<1>2. CASE MarkMissed
  <2>1. ASSUME NEW r \in Rows PROVE row'[r] = row[r] \/ row'[r] \in FollowUp
    <3>1. CASE r \in With({"PENDING"})
      <4>1. row[r] \in FollowUp
        BY <3>1, RowKinds DEF With, Live, LeadTyped
      <4>2. [row[r] EXCEPT !.status = "MISSED"] \in FollowUp
        BY <4>1 DEF FollowUp
      <4>3. QED BY <1>2, <4>2 DEF MarkMissed
    <3>2. QED BY <1>2, <3>1 DEF MarkMissed
  <2>2. row' = [r \in Rows |-> row'[r]]
    BY <1>2 DEF MarkMissed
  <2>3. RowsKept(row, row')
    BY <2>1, <2>2, KeptAtRows DEF LeadTyped
  <2>4. QED BY <1>2, <2>3, Stayed DEF MarkMissed, LeadTyped, RowsKept
<1>3. CASE Tick
  <2>1. now' \in Moments
    BY <1>3, TimeAssumption DEF Tick, LeadTyped, Moments
  <2>2. QED BY <1>0, <1>3, <2>1, Stayed DEF Tick, LeadTyped
<1>4. CASE Restart
  <2>1. Vacant \in Handler /\ ~Reading(Vacant)
    BY DEF Vacant, Handler, Reading
  <2>2. VisitsSound'
    BY <1>4, <2>1 DEF Restart, VisitsSound, Places
  <2>3. QED BY <1>4, <2>2 DEF Restart, LeadTyped
<1>5. CASE UNCHANGED followUpVars
  BY <1>0, <1>5, Stayed DEF followUpVars, LeadTyped
<1>6. QED BY <1>1, <1>2, <1>3, <1>4, <1>5

LEMMA FollowUpShapeNext ==
    ASSUME FollowUpShape, [FollowUpNext]_followUpVars
    PROVE  FollowUpShape'
<1>1. ASSUME NEW w \in Requests, DeskStep(w) PROVE FollowUpShape'
  BY <1>1, OpensShape, WorksShape, EndsShape DEF DeskStep, Places
<1>2. ASSUME NEW w \in Doors, DoorStep(w) PROVE FollowUpShape'
  BY <1>2, OpensShape, EndsShape DEF DoorStep, Places
<1>3. ASSUME NEW w \in Places, Scan(w) \/ Mark(w) \/ Drop(w) PROVE FollowUpShape'
  BY <1>3, WorksShape, EndsShape
<1>4. QED
  BY <1>1, <1>2, <1>3, LeadShape, AsideShape DEF FollowUpNext, Places

LEMMA FollowUpShapeInit == FollowUpInit => FollowUpShape
<1> SUFFICES ASSUME FollowUpInit PROVE FollowUpShape
  OBVIOUS
<1>1. LeadTyped
  BY TimeAssumption DEF FollowUpInit, LeadTyped, Moments, Lead, Stages
<1>2. Vacant \in Handler /\ ~Reading(Vacant)
  BY DEF Vacant, Handler, Reading
<1>3. VisitsSound
  BY <1>2 DEF FollowUpInit, VisitsSound, Places
<1>4. QED BY <1>1, <1>3 DEF FollowUpShape

(* The lead, its follow-ups, the requests in flight and what the gates     *)
(* remember keep their shape, for any number of follow-ups and requests.   *)
(* A request writes by identifier what it read before its awaits           *)
(* (completeFollowUp, snoozeFollowUp, bulkExtendFollowUps): that it finds  *)
(* a follow-up there rests on none being ever removed.                     *)
THEOREM FollowUpTypeCorrect == FollowUpSpec => []FollowUpTypeOK
<1>1. FollowUpShape /\ [FollowUpNext]_followUpVars => FollowUpShape'
  BY FollowUpShapeNext
<1>2. FollowUpShape => FollowUpTypeOK
  BY DEF FollowUpShape, LeadTyped, VisitsSound, Places, FollowUpTypeOK
<1>3. QED BY <1>1, <1>2, FollowUpShapeInit, PTL DEF FollowUpSpec
=============================================================================
