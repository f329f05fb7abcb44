------------------------------ MODULE Reminders ------------------------------
(***************************************************************************)
(* The loop that reminds members of staff of their follow-ups, by mail and *)
(* by push notification, a while before the time.  A pass of the loop is   *)
(* started by a timer that does not wait for the previous pass, and in     *)
(* every process that runs the jobs.  What was reminded is remembered in   *)
(* Redis, under one key per follow-up and channel that expires.            *)
(*                                                                         *)
(* Redis may be away for a while: commands in flight are rejected, later   *)
(* ones wait for the connection.  The mail service and the queue may       *)
(* refuse, and the processes may be restarted.                             *)
(*                                                                         *)
(* Abstracted: what the reminder says, the worker that takes queued pushes *)
(* to the devices, and the in-process memory that replaces Redis in an     *)
(* installation without it.                                                *)
(***************************************************************************)
EXTENDS Integers, FiniteSets

CONSTANTS
    Rows,        \* follow-ups
    Passes,      \* passes of the loop that can be under way together
    Ahead,       \* LEAD_TIME_MINUTES: how long before its time a reminder is sent
    Tail, Floor, \* of a key: how long it outlives the time, how long it lives at least
    Batch,       \* follow-ups that one pass takes
    Last,        \* bound: the last moment
    MaxCuts,     \* bound: connections lost and restarts
    MaxRefusals  \* bound: mails and pushes refused

ASSUME RemindersAssumption ==
    /\ IsFiniteSet(Rows)
    /\ {Ahead, Tail, Floor, Last, MaxCuts, MaxRefusals} \subseteq Nat
    /\ Batch \in Nat \ {0}

VARIABLES
    now,       \* the clock
    row,       \* the follow-ups: still PENDING, and for when
    online,    \* whether Redis can be reached
    key,       \* for each channel and follow-up, when its key expires
    pass,      \* the passes under way
    sent,      \* history: reminders of its present time, per channel and follow-up, up to 2
    excused,   \* history: the reminders that an overlap or a cut may have doubled
    moved,     \* history: follow-ups whose time has been changed; each is once
    count      \* how much of each bound is used

reminderVars == <<now, row, online, key, pass, sent, excused, moved, count>>
Counts == <<moved, count>>

-----------------------------------------------------------------------------
Moments  == 0 .. Last
Channels == {"mail", "push"}
Item     == [row : Rows, at : Moments]
Pass     == [phase : {"idle"}] \cup
            [phase : {"ask", "send", "mark"}, chan : Channels, item : Item,
             todo : SUBSET Item]

-----------------------------------------------------------------------------
Due(r)        == row[r].open /\ row[r].at \in now .. (now + Ahead)
Known(c, r)   == key[c][r] > now
InPhase(q, p) == pass[q].phase = p
Resting       == [phase |-> "idle"]
Proceed(q, S) == \E h \in S : pass' = [pass EXCEPT ![q] = h]
Spent(f)      == count' = [count EXCEPT ![f] = @ + 1]

(* The reminder that a pass is about to send or to mark as sent.           *)
InHand(q) ==
    IF InPhase(q, "send") \/ InPhase(q, "mark") THEN {<<pass[q].chan, pass[q].item.row>>} ELSE {}

(* Shape of the state.  A pass has each follow-up at most once.            *)
ReminderTypeOK ==
    /\ now \in Moments /\ online \in BOOLEAN
    /\ row \in [Rows -> [open : BOOLEAN, at : Moments]]
    /\ key \in [Channels -> [Rows -> 0 .. (Last + Tail + Floor)]]
    /\ pass \in [Passes -> Pass]
    /\ sent \in [Channels -> [Rows -> 0 .. 2]]
    /\ excused \subseteq Channels \X Rows /\ moved \subseteq Rows
    /\ count \in [cuts : 0 .. MaxCuts, refusals : 0 .. MaxRefusals]
    /\ \A q \in Passes : ~InPhase(q, "idle") =>
          /\ \A i \in pass[q].todo : i.row # pass[q].item.row
          /\ Cardinality(pass[q].todo) < Batch

(* When a key set now expires: Tail after the time, counted from when the  *)
(* pass came to the follow-up, so no earlier than here.                    *)
ExpiryFloor(at) == now + Floor                                       \* mutant

Expiry(at) == IF at + Tail > now + Floor THEN at + Tail ELSE now + Floor

(* The pass comes to its next follow-up, the earliest first.               *)
OnwardKeeping(todo) ==                                               \* mutant
    IF todo = {} THEN {Resting}
    ELSE {[phase |-> "ask", chan |-> "mail", item |-> i, todo |-> todo] :
             i \in {i \in todo : \A j \in todo : i.at <= j.at}}

Onward(todo) ==
    IF todo = {} THEN {Resting}
    ELSE {[phase |-> "ask", chan |-> "mail", item |-> i, todo |-> todo \ {i}] :
             i \in {i \in todo : \A j \in todo : i.at <= j.at}}

(* After the mail comes the push, whatever became of the mail.             *)
After(h) == IF h.chan = "mail" THEN {[h EXCEPT !.phase = "ask", !.chan = "push"]}
                               ELSE Onward(h.todo)

-----------------------------------------------------------------------------
(* getReminderCandidates: the first follow-ups that are due.               *)
StartPass(q) ==
    /\ InPhase(q, "idle")
    /\ \E B \in SUBSET {r \in Rows : Due(r)} :
          /\ B # {} /\ Cardinality(B) <= Batch
          /\ \A r \in Rows \ B : Due(r) =>
                Cardinality(B) = Batch /\ \A b \in B : row[b].at <= row[r].at
          /\ Proceed(q, Onward({[row |-> b, at |-> row[b].at] : b \in B}))
    /\ UNCHANGED <<now, row, online, key, sent, excused, Counts>>

(* isAlreadyMarked, isPushAlreadyMarked.  A pass that asks while another   *)
(* has the same reminder in hand, or so late that a key of that time would *)
(* have expired, may send it again.                                        *)
Doubtful(q) ==
    LET i == pass[q].item
        x == <<pass[q].chan, i.row>>
    IN  IF (\E p \in Passes : x \in InHand(p)) \/ now >= i.at + Tail THEN {x} ELSE {}

AskMarking(q) ==                                                     \* mutant
    /\ InPhase(q, "ask") /\ online
    /\ LET h == pass[q]
           c == h.chan
           r == h.item.row
       IN  IF Known(c, r)
           THEN Proceed(q, After(h)) /\ UNCHANGED <<key, excused>>
           ELSE /\ Proceed(q, {[h EXCEPT !.phase = "send"]})
                /\ key' = [key EXCEPT ![c][r] = Expiry(h.item.at)]
                /\ excused' = excused \cup Doubtful(q)
    /\ UNCHANGED <<now, row, online, sent, Counts>>

Ask(q) ==
    /\ InPhase(q, "ask") /\ online
    /\ LET h == pass[q]
           c == h.chan
           r == h.item.row
       IN  IF Known(c, r)
           THEN Proceed(q, After(h)) /\ UNCHANGED excused
           ELSE /\ Proceed(q, {[h EXCEPT !.phase = "send"]})
                /\ excused' = excused \cup Doubtful(q)
    /\ UNCHANGED <<now, row, online, key, sent, Counts>>

(* sendFollowUpReminderEmail, enqueuePushNotification: an answer that is   *)
(* not a success leaves no mark.  The queue lives in Redis.                *)
Send(q) ==
    /\ InPhase(q, "send") /\ (pass[q].chan = "push" => online)
    /\ LET h == pass[q]
           r == h.item.row
       IN  sent' = IF h.item.at # row[r].at THEN sent
                   ELSE [sent EXCEPT ![h.chan][r] = IF @ = 0 THEN 1 ELSE 2]
    /\ Proceed(q, {[pass[q] EXCEPT !.phase = "mark"]})
    /\ UNCHANGED <<now, row, online, key, excused, Counts>>

Refused(q) ==
    /\ InPhase(q, "send") /\ count.refusals < MaxRefusals
    /\ Spent("refusals")
    /\ Proceed(q, After(pass[q]))
    /\ UNCHANGED <<now, row, online, key, sent, excused, moved>>

(* markReminderSent, markPushSent.                                         *)
Mark(q) ==
    /\ InPhase(q, "mark") /\ online
    /\ key' = [key EXCEPT ![pass[q].chan][pass[q].item.row] = Expiry(pass[q].item.at)]
    /\ Proceed(q, After(pass[q]))
    /\ UNCHANGED <<now, row, online, sent, excused, Counts>>

-----------------------------------------------------------------------------
(* The connection is lost: commands in flight throw, and the pass goes on. *)
Disconnect ==
    /\ online /\ count.cuts < MaxCuts /\ Spent("cuts")
    /\ online' = FALSE
    /\ \E R \in SUBSET {q \in Passes : InPhase(q, "ask") \/ InPhase(q, "mark")} :
          /\ pass' \in [Passes -> UNION {After(pass[q]) : q \in R} \cup {pass[q] : q \in Passes}]
          /\ \A q \in Passes : pass'[q] \in IF q \in R THEN After(pass[q]) ELSE {pass[q]}
          /\ excused' = excused \cup UNION {InHand(q) : q \in R}
    /\ UNCHANGED <<now, row, key, sent, moved>>

Reconnect ==
    /\ ~online /\ online' = TRUE
    /\ UNCHANGED <<now, row, key, pass, sent, excused, Counts>>

(* The processes are restarted: what was sent and not marked is forgotten. *)
Restart ==
    /\ count.cuts < MaxCuts /\ Spent("cuts")
    /\ pass' = [q \in Passes |-> Resting]
    /\ excused' = excused \cup UNION {InHand(q) : q \in Passes}
    /\ UNCHANGED <<now, row, online, key, sent, moved>>

(* A member completes a follow-up, or gives it another time; the keys stay.*)
Complete(r) ==
    /\ row[r].open
    /\ row' = [row EXCEPT ![r].open = FALSE]
    /\ UNCHANGED <<now, online, key, pass, sent, excused, Counts>>

Move(r, at) ==
    /\ row[r].open /\ at > now /\ at # row[r].at
    /\ r \notin moved
    /\ row' = [row EXCEPT ![r].at = at]
    /\ sent' = [c \in Channels |-> [sent[c] EXCEPT ![r] = 0]]
    /\ moved' = moved \cup {r}
    /\ UNCHANGED <<now, online, key, pass, excused, count>>

(* Time passes; keys that have expired are gone.                           *)
Tick ==
    /\ now < Last /\ now' = now + 1
    /\ key' = [c \in Channels |-> [r \in Rows |-> IF key[c][r] > now' THEN key[c][r] ELSE 0]]
    /\ UNCHANGED <<row, online, pass, sent, excused, Counts>>

-----------------------------------------------------------------------------
ReminderInit ==
    /\ now = 0 /\ online = TRUE
    /\ row \in [Rows -> [open : {TRUE}, at : Moments]]
    /\ key = [c \in Channels |-> [r \in Rows |-> 0]]
    /\ pass = [q \in Passes |-> Resting]
    /\ sent = [c \in Channels |-> [r \in Rows |-> 0]]
    /\ excused = {} /\ moved = {}
    /\ count = [cuts |-> 0, refusals |-> 0]

Poll    == \E q \in Passes : StartPass(q)
Work(q) == Ask(q) \/ Send(q) \/ Refused(q) \/ Mark(q)

ReminderNext ==
    \/ Poll
    \/ \E q \in Passes : Work(q)
    \/ Disconnect \/ Reconnect \/ Restart \/ Tick
    \/ \E r \in Rows : Complete(r) \/ \E at \in Moments : Move(r, at)

(* setInterval keeps starting passes, a pass goes on unless it waits for   *)
(* Redis, and the client reconnects for ever.                              *)
Fairness ==
    /\ WF_reminderVars(Poll) /\ WF_reminderVars(Reconnect)
    /\ \A q \in Passes : WF_reminderVars(Work(q))

ReminderSpec == ReminderInit /\ [][ReminderNext]_reminderVars /\ Fairness

-----------------------------------------------------------------------------
(* The reminder of one time goes out twice only if a pass asked while      *)
(* another had it in hand, or long after the time, or was cut off between  *)
(* sending and marking: no key expires while its follow-up is a candidate. *)
RemindedOnce ==
    \A c \in Channels, r \in Rows : sent[c][r] = 2 => <<c, r>> \in excused

(* A follow-up that comes up is reminded by mail and by push while it is   *)
(* still ahead, after any refusal, lost connection or restart, as long as  *)
(* its window stays open; one that has been moved may not be.              *)
DueIsReminded ==
    \A c \in Channels, r \in Rows :
        Due(r) /\ r \notin moved ~> (sent[c][r] > 0 \/ ~Due(r) \/ r \in moved)

(* The same of every follow-up, also of one that was snoozed.              *)
SnoozedIsReminded ==
    \A c \in Channels, r \in Rows : Due(r) ~> (sent[c][r] > 0 \/ ~Due(r))
=============================================================================
