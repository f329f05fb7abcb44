----------------------------- MODULE Automation -----------------------------
(***************************************************************************)
(* Workflow automation on one lead.  A change of the lead raises an event; *)
(* the dispatcher creates an execution of every active workflow the event  *)
(* triggers and queues a job for it; a worker takes the job, takes the     *)
(* conditions of the workflow and runs its actions in order; an action may *)
(* change the lead, which raises events in turn.                           *)
(*                                                                         *)
(* An action is one database or queue operation.  Raising an event is not  *)
(* awaited: dispatchers and workers run interleaved, and each may die on   *)
(* the way.  The queue (BullMQ) is external: it hands a job to one worker  *)
(* at a time and again if that worker dies or throws.                      *)
(* A process has one worker, which does one job at a time.                 *)
(*                                                                         *)
(* Abstracted: whether conditions hold and whether an action fails are     *)
(* free choices; remarks, notifications and the choice of an assignee are  *)
(* the action "note", which raises nothing a workflow here is triggered by.*)
(***************************************************************************)
EXTENDS Naturals, Sequences, FiniteSets

CONSTANTS
    Flows,       \* automation workflows
    Trigger,     \* triggerType and triggerConfig.stageId of each, or any stage
    Actions,     \* the actions of each, in order: what one does, with a delay or not
    Workers,     \* concurrent runs of the queue's worker
    MaxDepth,    \* the execution depth above which events are dropped
    MaxRuns,     \* bound: executions
    MaxChanges,  \* bound: changes of the lead by users
    MaxEdits,    \* bound: changes of the workflows
    MaxFaults    \* bound: dispatchers and workers that die, and throws

LeadStages == {"a", "b"}
Events     == [type : {"stage_changed"}, stage : LeadStages] \cup [type : {"followup_created"}]
Action     == [does : {"a", "b", "followup", "note"}, delayed : BOOLEAN]

ASSUME AutomationAssumption ==
    /\ "unread" \notin Flows
    /\ Trigger \in [Flows -> Events \cup [type : {"stage_changed", "followup_created"}]]
    /\ \A f \in Flows : Actions[f] \in Seq(Action) /\ Len(Actions[f]) > 0
    /\ MaxDepth \in Nat /\ MaxRuns \in Nat /\ MaxChanges \in Nat
    /\ MaxEdits \in Nat /\ MaxFaults \in Nat

VARIABLES
    lead,      \* the stage of the lead, or that it is deleted
    flow,      \* the state of each workflow
    runs,      \* the executions, in the order they were created
    steps,     \* the action executions of each of them: their statuses, in order
    raised,    \* events on their way through a dispatcher
    queue,     \* jobs nobody works on
    worker,    \* the job of each worker, and where it is in it
    starts,    \* history: how often each action of each execution was begun
    count      \* changes, edits and faults so far

vars == <<lead, flow, runs, steps, raised, queue, worker, starts, count>>

-----------------------------------------------------------------------------
Ended    == {"COMPLETED", "FAILED", "SKIPPED"}
Depths   == 0 .. MaxDepth + 1

(* edited: the actions of the snapshot have been replaced since.  chain:   *)
(* history, the number of executions in the chain of causes that ends here.*)
Run      == [flow : Flows, status : {"PENDING", "RUNNING"} \cup Ended, edited : BOOLEAN, chain : Nat]
StepStatus == {"PENDING", "WAITING", "RUNNING"} \cup Ended
Raised   == [event : Events, depth : Depths, chain : Nat, todo : (SUBSET Flows) \cup {{"unread"}},
             stale : SUBSET Flows, made : 0 .. MaxRuns, copy : Nat \ {0}]
Job      == [run : 1 .. MaxRuns, depth : Depths, name : {"execute", "execute-action"}]
Worker   == {[at |-> "idle"]}
              \cup [at : {"start", "match"}, job : Job]
              \cup [at : {"step", "act", "close", "next"}, job : Job, pos : Nat \ {0}]

(* Shape of the state; an execution has action executions only once it     *)
(* runs, and then all of them, unless they have been deleted.              *)
TypeOK ==
    /\ lead \in LeadStages \cup {"deleted"}
    /\ flow \in [Flows -> {"active", "inactive", "deleted"}]
    /\ runs \in Seq(Run) /\ Len(runs) <= MaxRuns
    /\ DOMAIN steps = DOMAIN runs /\ DOMAIN starts = DOMAIN runs
    /\ \A r \in DOMAIN runs :
          /\ steps[r] \in Seq(StepStatus)
          /\ runs[r].status = "PENDING" => steps[r] = <<>>
          /\ steps[r] = <<>> \/ Len(steps[r]) = Len(Actions[runs[r].flow])
    /\ raised \in SUBSET Raised /\ queue \in SUBSET Job
    /\ worker \in [Workers -> Worker]
    /\ count \in [changes : 0 .. MaxChanges, edits : 0 .. MaxEdits, faults : 0 .. MaxFaults]

-----------------------------------------------------------------------------
History  == <<starts, count>>
Deleted(r)      == flow[runs[r].flow] = "deleted"       \* the row went with its workflow
Gone(r)         == Deleted(r) \/ steps[r] = <<>>        \* so did those of its actions
Become(w, h)    == worker' = [worker EXCEPT ![w] = h]
Release(w)      == Become(w, [at |-> "idle"])
SetStatus(r, s) == runs' = [runs EXCEPT ![r].status = s]
SetStep(r, p, s) == steps' = [steps EXCEPT ![r][p] = s]

(* A dispatch that begins: at depth 0 when a user or a follow-up causes it.*)
Raise(event, depth, chain) ==
    LET same == {x \in raised : x.event = event /\ x.depth = depth /\ x.chain = chain}
        free == {n \in 1 .. Cardinality(same) + 1 : \A x \in same : x.copy # n}
    IN  [event |-> event, depth |-> depth, chain |-> chain, todo |-> {"unread"},
         stale |-> {}, made |-> 0, copy |-> CHOOSE n \in free : TRUE]

Triggers(event) ==
    {f \in Flows : /\ flow[f] = "active" /\ Trigger[f].type = event.type
                   /\ "stage" \in DOMAIN Trigger[f] => Trigger[f].stage = event.stage}

-----------------------------------------------------------------------------
(* A user moves the lead, schedules a follow-up, or deletes the lead.      *)
UserMoves(s) ==
    /\ count.changes < MaxChanges /\ count' = [count EXCEPT !.changes = @ + 1]
    /\ lead # "deleted" /\ lead # s
    /\ lead' = s
    /\ raised' = raised \cup {Raise([type |-> "stage_changed", stage |-> s], 0, 0)}
    /\ UNCHANGED <<flow, runs, steps, queue, worker, starts>>

UserFollowsUp ==
    /\ count.changes < MaxChanges /\ count' = [count EXCEPT !.changes = @ + 1]
    /\ lead # "deleted"
    /\ raised' = raised \cup {Raise([type |-> "followup_created"], 0, 0)}
    /\ UNCHANGED <<lead, flow, runs, steps, queue, worker, starts>>

DeleteLead ==
    /\ count.changes < MaxChanges /\ count' = [count EXCEPT !.changes = @ + 1]
    /\ lead # "deleted" /\ lead' = "deleted"
    /\ UNCHANGED <<flow, runs, steps, raised, queue, worker, starts>>

(* toggleStatus, deleteWorkflow, and updateWorkflow with actions: the old  *)
(* actions go, and with them the rows of executions that refer to them; a  *)
(* dispatcher that has read the workflow still makes a snapshot of them.   *)
Edit(f) ==
    /\ count.edits < MaxEdits /\ count' = [count EXCEPT !.edits = @ + 1]
    /\ flow[f] # "deleted"
    /\ UNCHANGED <<lead, queue, worker, starts>>

ToggleStatus(f) ==
    /\ Edit(f)
    /\ flow' = [flow EXCEPT ![f] = IF @ = "active" THEN "inactive" ELSE "active"]
    /\ UNCHANGED <<runs, steps, raised>>

DeleteWorkflow(f) ==
    /\ Edit(f)
    /\ flow' = [flow EXCEPT ![f] = "deleted"]
    /\ UNCHANGED <<runs, steps, raised>>

UpdateWorkflow(f) ==
    /\ Edit(f)
    /\ runs' = [r \in DOMAIN runs |-> IF runs[r].flow = f THEN [runs[r] EXCEPT !.edited = TRUE]
                                                        ELSE runs[r]]
    /\ steps' = [r \in DOMAIN runs |-> IF runs[r].flow = f THEN <<>> ELSE steps[r]]
    /\ raised' = {IF f \in x.todo THEN [x EXCEPT !.stale = @ \cup {f}] ELSE x : x \in raised}
    /\ UNCHANGED flow

-----------------------------------------------------------------------------
(* dispatch: events above the depth are dropped; otherwise the workflows   *)
(* are read, and for each of them an execution is created and queued.      *)
DispatchAnyDepth(x) ==                                               \* mutant
    /\ x.todo = {"unread"}
    /\ raised' = (raised \ {x}) \cup {[x EXCEPT !.todo = Triggers(x.event),
                                             !.depth = IF @ > MaxDepth THEN 0 ELSE @]}
    /\ UNCHANGED <<lead, flow, runs, steps, queue, worker, History>>

Dispatch(x) ==
    /\ x.todo = {"unread"}
    /\ raised' = IF x.depth > MaxDepth \/ Triggers(x.event) = {} THEN raised \ {x}
                 ELSE (raised \ {x}) \cup {[x EXCEPT !.todo = Triggers(x.event)]}
    /\ UNCHANGED <<lead, flow, runs, steps, queue, worker, History>>

CreateRun(x, f) ==
    /\ x.todo # {"unread"} /\ f \in x.todo /\ x.made = 0 /\ Len(runs) < MaxRuns
    /\ IF flow[f] = "deleted"                                \* the foreign key; the loop ends
       THEN raised' = raised \ {x} /\ UNCHANGED <<runs, steps, starts>>
       ELSE /\ runs' = Append(runs, [flow |-> f, status |-> "PENDING",
                                     edited |-> f \in x.stale, chain |-> x.chain + 1])
            /\ steps' = Append(steps, <<>>)
            /\ starts' = Append(starts, [p \in 1 .. Len(Actions[f]) |-> 0])
            /\ raised' = (raised \ {x}) \cup {[x EXCEPT !.made = Len(runs) + 1, !.todo = @ \ {f}]}
    /\ UNCHANGED <<lead, flow, queue, worker, count>>

Enqueue(x) ==
    /\ x.made # 0
    /\ queue' = queue \cup {[run |-> x.made, depth |-> x.depth + 1, name |-> "execute"]}
    /\ raised' = IF x.todo = {} THEN raised \ {x} ELSE (raised \ {x}) \cup {[x EXCEPT !.made = 0]}
    /\ UNCHANGED <<lead, flow, runs, steps, worker, History>>

-----------------------------------------------------------------------------
(* The worker: every job whose name starts with "execute-" goes to         *)
(* executeWorkflow, which looks for a PENDING execution.                   *)
TakeRunning(w, j) ==                                               \* mutant
    /\ worker[w].at = "idle" /\ j \in queue
    /\ queue' = queue \ {j}
    /\ IF ~Deleted(j.run) /\ runs[j.run].status \in {"PENDING", "RUNNING"}
       THEN Become(w, [at |-> "start", job |-> j])
       ELSE UNCHANGED worker
    /\ UNCHANGED <<lead, flow, runs, steps, raised, History>>

Take(w, j) ==
    /\ worker[w].at = "idle" /\ j \in queue
    /\ queue' = queue \ {j}
    /\ IF ~Deleted(j.run) /\ runs[j.run].status = "PENDING"
       THEN Become(w, [at |-> "start", job |-> j])
       ELSE UNCHANGED worker
    /\ UNCHANGED <<lead, flow, runs, steps, raised, History>>

StartUnmarked(w) ==                                                  \* mutant
    /\ worker[w].at = "start"
    /\ LET j == worker[w].job
       IN  IF Deleted(j.run) THEN Release(w) ELSE Become(w, [at |-> "match", job |-> j])
    /\ UNCHANGED <<lead, flow, runs, steps, raised, queue, History>>

(* A write to a row that is gone throws, so does the one that would record *)
(* the failure, and the job is tried again: there is nothing to do then.   *)
Start(w) ==
    /\ worker[w].at = "start"
    /\ LET j == worker[w].job
       IN  IF Deleted(j.run) THEN Release(w) /\ UNCHANGED runs
           ELSE SetStatus(j.run, "RUNNING") /\ Become(w, [at |-> "match", job |-> j])
    /\ UNCHANGED <<lead, flow, steps, raised, queue, History>>

(* The lead is read and the conditions are taken; the action executions    *)
(* are created, which fails when the actions have been replaced.           *)
Skip(w) ==
    /\ worker[w].at = "match"
    /\ LET r == worker[w].job.run
       IN  IF Deleted(r) THEN UNCHANGED runs ELSE SetStatus(r, "SKIPPED")
    /\ Release(w)
    /\ UNCHANGED <<lead, flow, steps, raised, queue, History>>

Await(w, j) ==                                            \* WAITING, and a job with a delay
    /\ queue' = queue \cup {[j EXCEPT !.name = "execute-action"]}
    /\ Release(w)

Match(w) ==
    /\ worker[w].at = "match" /\ lead # "deleted"
    /\ LET j == worker[w].job
           r == j.run
           plan == Actions[runs[r].flow]
       IN  IF Deleted(r) \/ runs[r].edited
           THEN /\ IF Deleted(r) THEN UNCHANGED runs ELSE SetStatus(r, "FAILED")
                /\ Release(w)
                /\ UNCHANGED <<steps, queue>>
           ELSE /\ steps' = [steps EXCEPT ![r] = [p \in 1 .. Len(plan) |->
                        IF p = 1 /\ plan[1].delayed THEN "WAITING" ELSE "PENDING"]]
                /\ IF plan[1].delayed THEN Await(w, j)
                   ELSE /\ Become(w, [at |-> "step", job |-> j, pos |-> 1])
                        /\ UNCHANGED queue
                /\ UNCHANGED runs
    /\ UNCHANGED <<lead, flow, raised, History>>

(* executeDelayedAction, which is called at once when there is no delay.   *)
Step(w) ==
    /\ worker[w].at = "step"
    /\ LET h == worker[w]
           r == h.job.run
       IN  IF Gone(r) THEN Release(w) /\ UNCHANGED <<steps, starts>>
           ELSE /\ SetStep(r, h.pos, "RUNNING")
                /\ starts' = [starts EXCEPT ![r][h.pos] = @ + 1]
                /\ Become(w, [h EXCEPT !.at = "act"])
    /\ UNCHANGED <<lead, flow, runs, raised, queue, count>>

(* The action.  Changing the stage raises an event one deeper; a follow-up *)
(* raises one whose depth starts again.                                    *)
Effect(does, depth, chain) ==
    IF does \in LeadStages /\ lead # does
    THEN /\ lead' = does
         /\ raised' = raised \cup {Raise([type |-> "stage_changed", stage |-> does], depth, chain)}
    ELSE IF does = "followup"
    THEN /\ raised' = raised \cup {Raise([type |-> "followup_created"], 0, chain)}
         /\ UNCHANGED lead
    ELSE UNCHANGED <<lead, raised>>

Act(w) ==
    /\ worker[w].at = "act" /\ lead # "deleted"
    /\ LET h == worker[w]
           r == h.job.run
       IN  Effect(Actions[runs[r].flow][h.pos].does, h.job.depth, runs[r].chain)
    /\ Become(w, [worker[w] EXCEPT !.at = "close"])
    /\ UNCHANGED <<flow, runs, steps, queue, History>>

(* "Run only if" does not hold, or the lead has been deleted: then the     *)
(* rest of the execution is left as it is.                                 *)
Pass(w) ==
    /\ worker[w].at = "act"
    /\ LET h == worker[w]
           r == h.job.run
       IN  /\ ~Gone(r)
           /\ SetStep(r, h.pos, "SKIPPED")
           /\ IF lead = "deleted" THEN Release(w) ELSE Become(w, [h EXCEPT !.at = "next"])
    /\ UNCHANGED <<lead, flow, runs, raised, queue, History>>

(* A failed action ends the execution, and so does a row that is gone.     *)
FailOn(w) ==                                                         \* mutant
    /\ worker[w].at = "act"
    /\ LET h == worker[w]
           r == h.job.run
       IN  IF Gone(r) THEN Release(w) /\ UNCHANGED steps
           ELSE SetStep(r, h.pos, "FAILED") /\ Become(w, [h EXCEPT !.at = "next"])
    /\ UNCHANGED <<lead, flow, runs, raised, queue, History>>

Fail(w) ==
    /\ worker[w].at = "act"
    /\ LET h == worker[w]
           r == h.job.run
       IN  /\ IF Gone(r) THEN UNCHANGED steps ELSE SetStep(r, h.pos, "FAILED")
           /\ IF Deleted(r) THEN UNCHANGED runs ELSE SetStatus(r, "FAILED")
    /\ Release(w)
    /\ UNCHANGED <<lead, flow, raised, queue, History>>

(* The action is COMPLETED; then the rows are read again, and the next one *)
(* follows, now or with a delay.  Where there is none, the execution is    *)
(* COMPLETED, also when an edit has just removed the rows.                 *)
Close(w) ==
    /\ worker[w].at = "close"
    /\ LET h == worker[w]
           r == h.job.run
       IN  IF Gone(r)
           THEN /\ IF Deleted(r) THEN UNCHANGED runs ELSE SetStatus(r, "FAILED")
                /\ Release(w) /\ UNCHANGED steps
           ELSE /\ SetStep(r, h.pos, "COMPLETED")
                /\ Become(w, [h EXCEPT !.at = "next"]) /\ UNCHANGED runs
    /\ UNCHANGED <<lead, flow, raised, queue, History>>

Follow(w) ==
    /\ worker[w].at = "next"
    /\ LET h    == worker[w]
           r    == h.job.run
           next == h.pos + 1
           plan == Actions[runs[r].flow]
       IN  IF Gone(r) \/ next > Len(plan)
           THEN /\ IF Deleted(r) THEN UNCHANGED runs ELSE SetStatus(r, "COMPLETED")
                /\ Release(w) /\ UNCHANGED <<steps, queue>>
           ELSE /\ IF plan[next].delayed
                   THEN SetStep(r, next, "WAITING") /\ Await(w, h.job)
                   ELSE /\ Become(w, [h EXCEPT !.at = "step", !.pos = next])
                        /\ UNCHANGED <<steps, queue>>
                /\ UNCHANGED runs
    /\ UNCHANGED <<lead, flow, raised, History>>

-----------------------------------------------------------------------------
(* The calls of executeDelayedAction are nested, each in the one before it.*)
(* What is thrown at p reaches the first of them, from p up, that writes   *)
(* its action and the execution FAILED; where a catch throws as well, it   *)
(* may have written its action.  The outermost is that of executeWorkflow. *)
Fault == count.faults < MaxFaults /\ count' = [count EXCEPT !.faults = @ + 1]

Caught(r, p, rows) ==
    \E n \in 0 .. p : \E tried \in SUBSET ((n + 1) .. p) :
        steps' = [steps EXCEPT ![r] = [q \in DOMAIN rows |->
                     IF q \in tried \cup {n} THEN "FAILED" ELSE rows[q]]]

(* A statement or the queue throws: around the action, or when it is done  *)
(* and the next one waits already, with a job or without.                  *)
Throw(w) ==
    /\ worker[w].at \in {"step", "act", "close", "next"} /\ Fault
    /\ LET h    == worker[w]
           r    == h.job.run
           next == h.pos + 1
           plan == Actions[runs[r].flow]
       IN  /\ ~Gone(r) /\ SetStatus(r, "FAILED")
           /\ \/ Caught(r, h.pos, steps[r]) /\ Release(w) /\ UNCHANGED queue
              \/ /\ h.at = "next" /\ next <= Len(plan) /\ plan[next].delayed
                 /\ Caught(r, h.pos, [steps[r] EXCEPT ![next] = "WAITING"])
                 /\ Await(w, h.job) \/ (Release(w) /\ UNCHANGED queue)
    /\ UNCHANGED <<lead, flow, raised, starts>>

(* A worker dies: its job is handed out again.  A dispatcher dies.         *)
DieForgetting(w) ==                                                  \* mutant
    /\ worker[w].at # "idle" /\ Fault
    /\ Release(w)
    /\ UNCHANGED <<lead, flow, runs, steps, raised, queue, starts>>

Die(w) ==
    /\ worker[w].at # "idle" /\ Fault
    /\ queue' = queue \cup {worker[w].job}
    /\ Release(w)
    /\ UNCHANGED <<lead, flow, runs, steps, raised, starts>>

Lose(x) ==
    /\ Fault
    /\ raised' = raised \ {x}
    /\ UNCHANGED <<lead, flow, runs, steps, queue, worker, starts>>

Init ==
    /\ lead \in LeadStages
    /\ flow = [f \in Flows |-> "active"]
    /\ runs = <<>> /\ steps = <<>> /\ starts = <<>>
    /\ raised = {} /\ queue = {}
    /\ worker = [w \in Workers |-> [at |-> "idle"]]
    /\ count = [changes |-> 0, edits |-> 0, faults |-> 0]

TakeUp  == \E w \in Workers, j \in queue : Take(w, j)
Work(w) == Start(w) \/ Skip(w) \/ Match(w) \/ Step(w) \/ Act(w) \/ Pass(w) \/ Fail(w) \/ Close(w) \/ Follow(w)

Next ==
    \/ \E s \in LeadStages : UserMoves(s)
    \/ UserFollowsUp \/ DeleteLead
    \/ \E f \in Flows : ToggleStatus(f) \/ DeleteWorkflow(f) \/ UpdateWorkflow(f)
    \/ \E x \in raised : Dispatch(x) \/ Enqueue(x) \/ Lose(x) \/ \E f \in Flows : CreateRun(x, f)
    \/ TakeUp
    \/ \E w \in Workers : Work(w) \/ Throw(w) \/ Die(w)

(* The queue keeps handing out jobs, and a worker that lives goes on.      *)
Fairness == WF_vars(TakeUp) /\ \A w \in Workers : WF_vars(Work(w))

Spec == Init /\ [][Next]_vars /\ Fairness

-----------------------------------------------------------------------------
(* Workflows that trigger one another come to an end: no chain of          *)
(* executions that cause one another is longer than the depth allows.      *)
LoopsAreCut == \A r \in DOMAIN runs : runs[r].chain <= MaxDepth + 1

(* An execution keeps what Pipeline promises, although its job is handed  *)
(* out again when a worker dies or throws and its rows may be deleted on   *)
(* the way: no action is begun twice, out of turn or after the end.        *)
P == INSTANCE Pipeline WITH Lengths <- {Len(Actions[f]) : f \in Flows}, begun <- starts,
                            over <- {r \in DOMAIN runs : runs[r].status \in Ended}
KeepsPipeline == P!Spec

(* An action is begun, or set to wait, only when every action before it in *)
(* the workflow has been completed or skipped: a failure, a death or an    *)
(* edit of the workflow holds up the rest.                                 *)
Ordered(r) ==
    \A p, q \in DOMAIN steps[r] :
        p < q /\ q \in DOMAIN steps'[r] /\ steps[r][q] = "PENDING" /\ steps'[r][q] # "PENDING"
            => steps[r][p] \in {"COMPLETED", "SKIPPED"}

InOrder == [][\A r \in DOMAIN steps : Ordered(r)]_vars

(* A queued execution is taken up, even if the worker that had it died.    *)
QueuedRunStarts ==
    \A r \in 1 .. MaxRuns :
        (\E j \in queue : j.run = r /\ runs[r].status = "PENDING")
            ~> (r \in DOMAIN runs /\ (runs[r].status # "PENDING" \/ Deleted(r)))

(* An action that waits for its delay has a job in the queue, or a worker  *)
(* on it, that will run it (automation.jobs.ts, "Delayed Action Execution  *)
(* Trigger").                                                              *)
DelayedActionRuns ==
    \A r \in DOMAIN runs : \A p \in DOMAIN steps[r] :
        steps[r][p] = "WAITING" =>
            \/ \E j \in queue : j.run = r
            \/ \E w \in Workers : worker[w].at # "idle" /\ worker[w].job.run = r
=============================================================================
