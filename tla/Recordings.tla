----------------------------- MODULE Recordings -----------------------------
(***************************************************************************)
(* The recordings of one lead's calls: uploads for a call session, uploads *)
(* of imported files that reserve a session first, and the webhooks of the *)
(* telephony providers.  An action is one database statement, a transaction*)
(* that writes once its reads are done, or one call of the object store.   *)
(*                                                                         *)
(* Two locks order the uploads: the advisory lock of a file, held through  *)
(* the reservation and through the finalization of an import, and the row  *)
(* of the session, which a finalization writes before it reads.  An upload *)
(* that names its session takes no lock of the file; a client may name any *)
(* session of the lead, and a provider's event any session by its          *)
(* identifier, an imported one as well.                                    *)
(*                                                                         *)
(* Abstracted: who may upload, the checks of the file, the status and the  *)
(* duration of a call; files of one extension, so that a session has one   *)
(* storage key.                                                            *)
(***************************************************************************)
EXTENDS Naturals, Sequences, FiniteSets

CONSTANTS
    Files,         \* contents of recordings, told apart by fileHash
    NoFile,        \* no content, and the fileHash a webhook does not give
    MaxSessions,   \* bound: call sessions of the lead
    Desks,         \* requests that can be in flight together
    Window,        \* activities a finalization looks through (take: 20)
    MaxEntries,    \* bound: RECORDING_AVAILABLE activities
    MaxNamed       \* bound: sessions that are named

ASSUME RecordingsAssumption ==
    /\ NoFile \notin Files
    /\ MaxSessions \in Nat \ {0} /\ MaxEntries \in Nat \ {0}
    /\ Window \in Nat \ {0} /\ MaxNamed \in Nat

VARIABLES
    session,   \* the call sessions of the lead, in the order of their creation
    stored,    \* what the object store has under the key of each session
    entries,   \* the RECORDING_AVAILABLE activities, in the order of their creation
    op,        \* the request at each desk
    asked,     \* history: the files that have been meant for each session
    named,     \* history: the sessions an upload or an event has named
    told       \* history: the files a client was told of, each with its session

vars == <<session, stored, entries, op, asked, named, told>>

-----------------------------------------------------------------------------
Sessions == 1 .. MaxSessions
Session  == [sourceContext : {"none", "CALL", "RECORDING_IMPORT"},
             recordingStatus : {"none", "PENDING", "READY", "FAILED"},
             recordingUrl : {"none", "key", "provider"}]
Absent   == [sourceContext |-> "none", recordingStatus |-> "none", recordingUrl |-> "none"]
Entry    == [session : Sessions, file : Files \cup {NoFile}]
Request  ==
    [phase : {"idle"}]
      \cup [phase : {"look", "find", "create"}, file : Files]
      \cup [phase : {"store", "fail", "finalize"}, file : Files, session : Sessions,
            import : BOOLEAN]
      \cup [phase : {"commit"}, file : Files, session : Sessions, import : BOOLEAN,
            match : 0 .. MaxEntries]
      \cup [phase : {"note"}, session : Sessions]

(* Shape of the state; sessions are created in order, an imported one is   *)
(* in one of three states, and only an event gives a provider's address.   *)
TypeOK ==
    /\ session \in [Sessions -> Session]
    /\ \A s \in Sessions :
          /\ session[s].sourceContext = "none" =>
                session[s] = Absent /\ \A t \in Sessions : t > s => session[t] = Absent
          /\ session[s].sourceContext = "RECORDING_IMPORT" => session[s].recordingStatus # "none"
          /\ session[s].recordingUrl = "provider" => s \in named
    /\ stored \in [Sessions -> Files \cup {NoFile}]
    /\ entries \in Seq(Entry) /\ Len(entries) <= MaxEntries
    /\ op \in [Desks -> Request]
    /\ asked \in [Sessions -> SUBSET Files] /\ named \subseteq Sessions
    /\ told \subseteq Files \X Sessions

-----------------------------------------------------------------------------
Idle       == [phase |-> "idle"]
At(w, p)   == op[w].phase = p
Go(w, h)   == op' = [op EXCEPT ![w] = h]
Finish(w)  == Go(w, Idle)

Present(s)  == session[s].sourceContext # "none"
Imported(s) == session[s].sourceContext = "RECORDING_IMPORT"
Next1       == {s \in Sessions : ~Present(s) /\ \A t \in 1 .. s - 1 : Present(t)}
Indices     == 1 .. Len(entries)
Latest(S)   == CHOOSE s \in S : \A t \in S : t <= s
Named(s)    == Cardinality(named \cup {s}) <= MaxNamed /\ named' = named \cup {s}
Asked(s, f) == asked' = [asked EXCEPT ![s] = @ \cup {f}]

(* pg_advisory_xact_lock(lead and fileHash), and the row of a session.     *)
FileFree(f) ==
    \A v \in Desks : ~(/\ op[v].phase \in {"find", "create", "commit"}
                       /\ op[v].file = f
                       /\ At(v, "commit") => op[v].import)
RowFree(s)  == \A v \in Desks : ~(At(v, "commit") /\ op[v].session = s)

-----------------------------------------------------------------------------
(* initiateCallSession                                                     *)
InitiateCall(s) ==
    /\ s \in Next1
    /\ session' = [session EXCEPT ![s].sourceContext = "CALL"]
    /\ UNCHANGED <<stored, entries, op, asked, named, told>>

(* uploadCallRecording for a session of the lead, whatever its context: one *)
(* whose recording is READY answers with what it has.                      *)
UploadForCall(w, f, s) ==
    /\ At(w, "idle")
    /\ Present(s)
    /\ ~(session[s].recordingStatus = "READY" /\ session[s].recordingUrl # "none")
    /\ Go(w, [phase |-> "store", file |-> f, session |-> s, import |-> FALSE])
    /\ Asked(s, f) /\ Named(s)
    /\ UNCHANGED <<session, stored, entries, told>>

(* uploadCallRecording without a session: the reservation.                 *)
Import(w, f) ==
    /\ At(w, "idle")
    /\ Go(w, [phase |-> "look", file |-> f])
    /\ UNCHANGED <<session, stored, entries, asked, named, told>>

(* A finished activity of the file answers; the session that is looked for *)
(* next could only be READY with such an activity too.                     *)
LookUnlocked(w) ==                                                   \* mutant
    /\ At(w, "look")
    /\ LET f == op[w].file
           same == {i \in Indices : entries[i].file = f}
       IN  \/ \E i \in same : told' = told \cup {<<f, entries[i].session>>} /\ Finish(w)
           \/ same = {} /\ Go(w, [phase |-> "find", file |-> f]) /\ UNCHANGED told
    /\ UNCHANGED <<session, stored, entries, asked, named>>

Look(w) ==
    /\ At(w, "look") /\ FileFree(op[w].file)
    /\ LET f == op[w].file
           same == {i \in Indices : entries[i].file = f}
       IN  \/ \E i \in same : told' = told \cup {<<f, entries[i].session>>} /\ Finish(w)
           \/ same = {} /\ Go(w, [phase |-> "find", file |-> f]) /\ UNCHANGED told
    /\ UNCHANGED <<session, stored, entries, asked, named>>

(* The latest reservation that is not done is used again, whichever file   *)
(* it was made for.                                                        *)
FindReservation(w) ==
    /\ At(w, "find")
    /\ LET f == op[w].file
           open == {s \in Sessions : /\ Imported(s)
                                     /\ session[s].recordingStatus \in {"PENDING", "FAILED"}}
       IN  \/ /\ open # {}
              /\ Go(w, [phase |-> "store", file |-> f, session |-> Latest(open), import |-> TRUE])
              /\ Asked(Latest(open), f)
           \/ open = {} /\ Go(w, [phase |-> "create", file |-> f]) /\ UNCHANGED asked
    /\ UNCHANGED <<session, stored, entries, named, told>>

CreateUnmarked(w) ==                                               \* mutant
    /\ At(w, "create")
    /\ \E s \in Next1 :
          /\ session' = [session EXCEPT ![s] = [sourceContext |-> "RECORDING_IMPORT",
                                recordingStatus |-> "none", recordingUrl |-> "none"]]
          /\ Go(w, [phase |-> "store", file |-> op[w].file, session |-> s, import |-> TRUE])
          /\ Asked(s, op[w].file)
    /\ UNCHANGED <<stored, entries, named, told>>

CreateReservation(w) ==
    /\ At(w, "create")
    /\ \E s \in Next1 :
          /\ session' = [session EXCEPT ![s] = [sourceContext |-> "RECORDING_IMPORT",
                                recordingStatus |-> "PENDING", recordingUrl |-> "none"]]
          /\ Go(w, [phase |-> "store", file |-> op[w].file, session |-> s, import |-> TRUE])
          /\ Asked(s, op[w].file)
    /\ UNCHANGED <<stored, entries, named, told>>

(* The object is put under the key of the session, outside a transaction.  *)
(* An upload that is answered with an error may have been stored.          *)
Store(w) ==
    /\ At(w, "store")
    /\ stored' = [stored EXCEPT ![op[w].session] = op[w].file]
    /\ Go(w, [op[w] EXCEPT !.phase = "finalize"])
    /\ UNCHANGED <<session, entries, asked, named, told>>

StoreFailsQuietly(w) ==                                              \* mutant
    /\ At(w, "store")
    /\ stored' \in {stored, [stored EXCEPT ![op[w].session] = op[w].file]}
    /\ Go(w, [op[w] EXCEPT !.phase = "finalize"])
    /\ UNCHANGED <<session, entries, asked, named, told>>

StoreFails(w) ==
    /\ At(w, "store")
    /\ stored' \in {stored, [stored EXCEPT ![op[w].session] = op[w].file]}
    /\ IF op[w].import THEN Go(w, [op[w] EXCEPT !.phase = "fail"]) ELSE Finish(w)
    /\ UNCHANGED <<session, entries, asked, named, told>>

MarkFailed(w) ==
    /\ At(w, "fail") /\ RowFree(op[w].session)
    /\ session' = [session EXCEPT ![op[w].session].recordingStatus = "FAILED"]
    /\ Finish(w)
    /\ UNCHANGED <<stored, entries, asked, named, told>>

(* The finalization: the session is written, then an activity of the       *)
(* session or of the file is looked for, among Window activities in no     *)
(* order, and written or created.                                          *)
Finalize(w) ==
    /\ At(w, "finalize") /\ RowFree(op[w].session)
    /\ op[w].import => FileFree(op[w].file)
    /\ LET h == op[w]
       IN  \E seen \in SUBSET Indices :
              LET found == {i \in seen : entries[i].session = h.session \/ entries[i].file = h.file}
              IN  /\ seen = Indices \/ (Len(entries) > Window /\ Cardinality(seen) = Window)
                  /\ Len(entries) <= Window => seen = Indices
                  /\ \E i \in IF found = {} THEN {0} ELSE found :
                        Go(w, [phase |-> "commit", file |-> h.file, session |-> h.session,
                               import |-> h.import, match |-> i])
    /\ UNCHANGED <<session, stored, entries, asked, named, told>>

Commit(w) ==
    /\ At(w, "commit")
    /\ LET h == op[w]
           e == [session |-> h.session, file |-> h.file]
       IN  /\ session' = [session EXCEPT ![h.session].recordingStatus = "READY",
                                         ![h.session].recordingUrl = "key"]
           /\ told' = told \cup {<<h.file, h.session>>}
           /\ \/ h.match # 0 /\ entries' = [entries EXCEPT ![h.match] = e]
              \/ h.match = 0 /\ Len(entries) < MaxEntries /\ entries' = Append(entries, e)
    /\ Finish(w)
    /\ UNCHANGED <<stored, asked, named>>

(* processWebhook, for an event with a recording: the session the event    *)
(* names, then an activity that carries no fileHash.                       *)
Webhook(w, s) ==
    /\ At(w, "idle")
    /\ Present(s) /\ RowFree(s)
    /\ session' = [session EXCEPT ![s].recordingStatus = "READY",
                                  ![s].recordingUrl = "provider"]
    /\ Go(w, [phase |-> "note", session |-> s])
    /\ Named(s)
    /\ UNCHANGED <<stored, entries, asked, told>>

NoteRecording(w) ==
    /\ At(w, "note") /\ Len(entries) < MaxEntries
    /\ entries' = Append(entries, [session |-> op[w].session, file |-> NoFile])
    /\ Finish(w)
    /\ UNCHANGED <<session, stored, asked, named, told>>

(* The process stops, or a statement fails: the locks are let go.          *)
Stop(w) ==
    /\ ~At(w, "idle")
    /\ Finish(w)
    /\ UNCHANGED <<session, stored, entries, asked, named, told>>

-----------------------------------------------------------------------------
Init ==
    /\ session = [s \in Sessions |-> Absent]
    /\ stored = [s \in Sessions |-> NoFile]
    /\ entries = <<>>
    /\ op = [w \in Desks |-> Idle]
    /\ asked = [s \in Sessions |-> {}]
    /\ named = {} /\ told = {}

Next ==
    \/ \E s \in Sessions : InitiateCall(s)
    \/ \E w \in Desks : \/ Look(w) \/ FindReservation(w) \/ CreateReservation(w)
                        \/ Store(w) \/ StoreFails(w) \/ MarkFailed(w)
                        \/ Finalize(w) \/ Commit(w) \/ NoteRecording(w) \/ Stop(w)
    \/ \E w \in Desks, f \in Files : Import(w, f)
    \/ \E w \in Desks, f \in Files, s \in Sessions : UploadForCall(w, f, s)
    \/ \E w \in Desks, s \in Sessions : Webhook(w, s)

Spec == Init /\ [][Next]_vars

-----------------------------------------------------------------------------
(* No two contents have been meant for one session.                        *)
Unshared == \A s \in Sessions : Cardinality(asked[s]) <= 1

(* However often one file is imported, at once, again after a failure or   *)
(* after a crash, it gets one session, beside those that an upload or an   *)
(* event has named: these may be taken for done while a reservation, which *)
(* holds a lock that neither takes, finds nothing of the file.  And it     *)
(* gets one activity, as long as no session it is meant for has been named *)
(* and the lead has no more activities than a finalization looks through.  *)
(* All as long as no session is shared, which FindReservation does not     *)
(* ensure.                                                                 *)
OneRecordingPerFile ==
    Unshared => \A f \in Files :
        LET meant == {s \in Sessions : f \in asked[s]}
        IN  /\ Cardinality({s \in meant \ named : Imported(s)}) <= 1
            /\ meant \cap named = {} /\ Len(entries) <= Window =>
                  Cardinality({i \in Indices : entries[i].file = f}) <= 1

(* The same without its exceptions: identical uploads result in exactly    *)
(* one recording (callRecording.test.ts:745, 808).  The first fails where  *)
(* a session is named, the second on a lead with many activities.          *)
OneSessionPerFile ==
    Unshared => \A f \in Files : Cardinality({s \in Sessions : Imported(s) /\ f \in asked[s]}) <= 1

OneActivityPerFile ==
    Unshared /\ named = {} =>
        \A f \in Files : Cardinality({i \in Indices : entries[i].file = f}) <= 1

(* What a client is told it can play is in the store, under the key of the *)
(* session it was told, unless the session was shared or the provider gave *)
(* an address of its own.                                                  *)
AnsweredIsStored ==
    Unshared => \A t \in told :
        /\ session[t[2]].recordingUrl # "none"
        /\ session[t[2]].recordingUrl = "key" => stored[t[2]] = t[1]

(* Two contents stay two recordings (callRecording.test.ts:902).           *)
RecordingsApart ==
    \A t \in told : session[t[2]].recordingUrl = "key" => stored[t[2]] = t[1]
=============================================================================
