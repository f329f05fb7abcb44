------------------------- MODULE Automation_proofs -------------------------
(***************************************************************************)
(* What holds of the executions of workflows for any number of workflows,  *)
(* actions, executions and workers.                                        *)
(***************************************************************************)
EXTENDS Automation, SequenceTheorems, FiniteSetTheorems, TLAPS

-----------------------------------------------------------------------------
(* The inductive invariant.                                                *)

Plan(r) == Actions[runs[r].flow]
Busy(w) == worker[w].at # "idle"
RunOf(w) == worker[w].job.run
Acting  == {"step", "act", "close", "next"}

(* The rows of an execution, and the history of its actions.               *)
RowsShaped ==
    /\ steps \in Seq(Seq(StepStatus)) /\ starts \in Seq(Seq(Nat))
    /\ \A r \in DOMAIN runs : Len(starts[r]) = Len(Plan(r))

(* Events, jobs and workers refer to executions and actions there are, and *)
(* an event above the depth is never acted upon.                           *)
Placed ==
    /\ \A x \in raised : x.made <= Len(runs)
    /\ \A j \in queue : j.run \in DOMAIN runs
    /\ \A w \in Workers : Busy(w) =>
          /\ RunOf(w) \in DOMAIN runs
          /\ worker[w].at \in Acting => worker[w].pos <= Len(Plan(RunOf(w)))

DepthsKept ==
    \A x \in raised :
       /\ x.made # 0 => x.todo # {"unread"}
       /\ x.todo # {"unread"} => x.depth <= MaxDepth

ShapeInv == TypeOK /\ RowsShaped /\ IsFiniteSet(raised) /\ Placed /\ DepthsKept

(* An execution is in one place: made by a dispatcher that has not queued  *)
(* it yet, or a job in the queue, or with a worker.                        *)
HeldOnce ==
    /\ \A x, y \in raised : x.made # 0 /\ x.made = y.made => x = y
    /\ \A x \in raised : \A j \in queue : x.made # j.run
    /\ \A x \in raised : \A w \in Workers : Busy(w) => x.made # RunOf(w)
    /\ \A i, j \in queue : i.run = j.run => i = j
    /\ \A j \in queue : \A w \in Workers : Busy(w) => j.run # RunOf(w)
    /\ \A v, w \in Workers : Busy(v) /\ Busy(w) /\ RunOf(v) = RunOf(w) => v = w

(* The actions before p have been begun once, those from p on not at all.  *)
BegunTo(r, p) == \A q \in DOMAIN starts[r] : starts[r][q] = IF q < p THEN 1 ELSE 0
DoneTo(r, p)  == \A q \in DOMAIN steps[r] : q < p => steps[r][q] \in {"COMPLETED", "SKIPPED"}
OpenFrom(r, p) == \A q \in DOMAIN steps[r] : q >= p => steps[r][q] = "PENDING"

(* Where a worker is tells how far the execution has come.                 *)
StandsAt(h, r) ==
    /\ h.at = "start" => runs[r].status = "PENDING"
    /\ h.at # "start" => runs[r].status = "RUNNING"
    /\ h.at = "match" => BegunTo(r, 1)
    /\ h.at = "step" => BegunTo(r, h.pos) /\ DoneTo(r, h.pos) /\ OpenFrom(r, h.pos)
    /\ h.at \in {"act", "close"} => BegunTo(r, h.pos + 1) /\ DoneTo(r, h.pos) /\ OpenFrom(r, h.pos + 1)
    /\ h.at = "next" => BegunTo(r, h.pos + 1) /\ DoneTo(r, h.pos + 1) /\ OpenFrom(r, h.pos + 1)

PendingUnbegun == \A r \in DOMAIN runs : runs[r].status = "PENDING" => BegunTo(r, 1)

ProgressInv ==
    /\ HeldOnce /\ PendingUnbegun
    /\ \A w \in Workers : Busy(w) => StandsAt(worker[w], RunOf(w))

IInv == ShapeInv /\ ProgressInv

(* No workflow is triggered by a follow-up, or none schedules one.         *)
FollowsUp == \E f \in Flows : \E p \in 1 .. Len(Actions[f]) : Actions[f][p].does = "followup"
Separate  == FollowsUp => \A f \in Flows : Trigger[f].type # "followup_created"

(* The depth of an event or a job bounds the chain that led to it, except  *)
(* for the follow-ups that trigger nothing.                                *)
EventsCut ==
    \A x \in raised :
       \/ x.chain <= x.depth
       \/ /\ FollowsUp /\ x.event.type = "followup_created"
          /\ x.todo = {"unread"} /\ x.made = 0
JobsCut ==
    /\ \A x \in raised : x.made # 0 => runs[x.made].chain <= x.depth + 1
    /\ \A j \in queue : runs[j.run].chain <= j.depth
    /\ \A w \in Workers : Busy(w) => runs[RunOf(w)].chain <= worker[w].job.depth

CutInv == EventsCut /\ JobsCut /\ LoopsAreCut

-----------------------------------------------------------------------------
(* The records of the model.                                               *)

Statuses == {"PENDING", "RUNNING"} \cup Ended

LEMMA RunTyped ==
    ASSUME TypeOK, NEW r \in DOMAIN runs
    PROVE  /\ runs[r] \in Run /\ r \in 1 .. Len(runs) /\ r \in 1 .. MaxRuns
           /\ runs[r].flow \in Flows /\ runs[r].status \in Statuses /\ runs[r].chain \in Nat
           /\ Plan(r) \in Seq(Action) /\ Len(Plan(r)) \in Nat /\ Len(Plan(r)) > 0
<1>1. runs[r] \in Run /\ r \in 1 .. Len(runs)
  BY DEF TypeOK
<1>2. r \in 1 .. MaxRuns
  BY <1>1, AutomationAssumption DEF TypeOK
<1>3. runs[r].flow \in Flows /\ runs[r].status \in Statuses /\ runs[r].chain \in Nat
  BY <1>1 DEF Run, Statuses
<1> QED BY <1>1, <1>2, <1>3, AutomationAssumption DEF Plan

LEMMA EventTyped ==
    ASSUME TypeOK, NEW x \in raised
    PROVE  /\ x \in Raised
           /\ x.event \in Events /\ x.depth \in Depths /\ x.chain \in Nat
           /\ x.made \in 0 .. MaxRuns /\ x.stale \in SUBSET Flows
           /\ x.todo \in SUBSET Flows \/ x.todo = {"unread"}
<1>1. x \in Raised
  BY DEF TypeOK
<1> QED BY <1>1 DEF Raised

LEMMA JobTyped ==
    ASSUME NEW j \in Job
    PROVE  /\ j.run \in 1 .. MaxRuns /\ j.depth \in Depths
           /\ \A n \in {"execute", "execute-action"} :
                 [j EXCEPT !.name = n] \in Job /\ [j EXCEPT !.name = n].run = j.run
                   /\ [j EXCEPT !.name = n].depth = j.depth
BY DEF Job

LEMMA WorkerTyped ==
    ASSUME TypeOK, NEW w \in Workers, NEW h, h = worker[w], h.at # "idle"
    PROVE  /\ h.job \in Job
           /\ h.at \in {"start", "match"} \/ h.at \in Acting
           /\ h.at \in {"start", "match"} => h \in [at : {"start", "match"}, job : Job]
           /\ h.at \in Acting => h \in [at : Acting, job : Job, pos : Nat \ {0}] /\ h.pos \in Nat \ {0}
<1>1. h \in Worker
  BY DEF TypeOK
<1> QED BY <1>1 DEF Worker, Acting

-----------------------------------------------------------------------------
(* What the writes do.                                                     *)

LEMMA StatusSet ==
    ASSUME TypeOK, NEW r \in DOMAIN runs, NEW s \in Statuses, SetStatus(r, s)
    PROVE  /\ runs' \in Seq(Run) /\ Len(runs') = Len(runs) /\ DOMAIN runs' = DOMAIN runs
           /\ \A q \in DOMAIN runs : /\ runs'[q].flow = runs[q].flow
                                     /\ runs'[q].chain = runs[q].chain
                                     /\ q # r => runs'[q] = runs[q]
           /\ runs'[r].status = s
<1>1. runs \in Seq(Run) /\ runs[r] \in Run
  BY RunTyped DEF TypeOK
<1>2. [runs[r] EXCEPT !.status = s] \in Run
  BY <1>1 DEF Run, Statuses
<1>3. runs' = [runs EXCEPT ![r] = [runs[r] EXCEPT !.status = s]]
  BY DEF SetStatus
<1>4. [runs[r] EXCEPT !.status = s].flow = runs[r].flow
      /\ [runs[r] EXCEPT !.status = s].chain = runs[r].chain
      /\ [runs[r] EXCEPT !.status = s].status = s
  BY <1>1 DEF Run
<1>5. runs' \in Seq(Run) /\ Len(runs') = Len(runs) /\ DOMAIN runs' = DOMAIN runs
  BY <1>1, <1>2, <1>3
<1>6. runs'[r] = [runs[r] EXCEPT !.status = s] /\ \A q \in DOMAIN runs : q # r => runs'[q] = runs[q]
  BY <1>1, <1>3
<1> QED BY <1>4, <1>5, <1>6

LEMMA StepSet ==
    ASSUME TypeOK, RowsShaped, NEW r \in DOMAIN runs, NEW p \in DOMAIN steps[r], NEW s \in StepStatus,
           SetStep(r, p, s)
    PROVE  /\ steps' \in Seq(Seq(StepStatus)) /\ Len(steps') = Len(steps)
           /\ \A q \in DOMAIN runs : q # r => steps'[q] = steps[q]
           /\ Len(steps'[r]) = Len(steps[r]) /\ DOMAIN steps'[r] = DOMAIN steps[r]
           /\ steps'[r][p] = s
           /\ \A q \in DOMAIN steps[r] : q # p => steps'[r][q] = steps[r][q]
<1>1. r \in DOMAIN steps /\ steps[r] \in Seq(StepStatus) /\ steps \in Seq(Seq(StepStatus))
  BY DEF TypeOK, RowsShaped
<1>2. steps' = [steps EXCEPT ![r] = [steps[r] EXCEPT ![p] = s]]
  BY DEF SetStep
<1>3. [steps[r] EXCEPT ![p] = s] \in Seq(StepStatus)
  BY <1>1
<1>4. steps' \in Seq(Seq(StepStatus)) /\ Len(steps') = Len(steps)
  BY <1>1, <1>2, <1>3
<1>5. steps'[r] = [steps[r] EXCEPT ![p] = s]
  BY <1>1, <1>2
<1>6. \A q \in DOMAIN runs : q # r => steps'[q] = steps[q]
  BY <1>1, <1>2 DEF TypeOK
<1> QED BY <1>1, <1>4, <1>5, <1>6

SetBegun(r, p, n) == starts' = [starts EXCEPT ![r][p] = n]

StartsMarked(r, p, n) ==
    /\ starts' \in Seq(Seq(Nat)) /\ Len(starts') = Len(starts)
    /\ \A q \in DOMAIN runs : q # r => starts'[q] = starts[q]
    /\ Len(starts'[r]) = Len(starts[r]) /\ DOMAIN starts'[r] = DOMAIN starts[r]
    /\ starts'[r][p] = n
    /\ \A q \in DOMAIN starts[r] : q # p => starts'[r][q] = starts[r][q]

LEMMA BegunSet ==
    ASSUME TypeOK, RowsShaped, NEW r \in DOMAIN runs, NEW p \in DOMAIN starts[r], NEW n \in Nat,
           SetBegun(r, p, n)
    PROVE  StartsMarked(r, p, n)
<1>1. r \in DOMAIN starts /\ starts[r] \in Seq(Nat) /\ starts \in Seq(Seq(Nat))
  BY DEF TypeOK, RowsShaped
<1>2. starts' = [starts EXCEPT ![r] = [starts[r] EXCEPT ![p] = n]]
  BY DEF SetBegun
<1>3. [starts[r] EXCEPT ![p] = n] \in Seq(Nat)
  BY <1>1
<1>4. starts' \in Seq(Seq(Nat)) /\ Len(starts') = Len(starts)
  BY <1>1, <1>2, <1>3
<1>5. starts'[r] = [starts[r] EXCEPT ![p] = n]
  BY <1>1, <1>2
<1>6. \A q \in DOMAIN runs : q # r => starts'[q] = starts[q]
  BY <1>1, <1>2 DEF TypeOK
<1> QED BY <1>1, <1>4, <1>5, <1>6 DEF StartsMarked

-----------------------------------------------------------------------------
(* What a step of a worker does to the rows of its execution r, and where  *)
(* it leaves the worker; the other executions are as they were.            *)

RowsMoved(r) ==
    /\ runs' \in Seq(Run) /\ Len(runs') = Len(runs)
    /\ steps' \in Seq(Seq(StepStatus)) /\ Len(steps') = Len(steps)
    /\ starts' \in Seq(Seq(Nat)) /\ Len(starts') = Len(starts)
    /\ \A q \in DOMAIN runs :
          /\ runs'[q].flow = runs[q].flow /\ runs'[q].chain = runs[q].chain
          /\ q # r => runs'[q] = runs[q] /\ steps'[q] = steps[q] /\ starts'[q] = starts[q]
    /\ runs'[r].status = "PENDING" => steps'[r] = <<>> /\ BegunTo(r, 1)'
    /\ steps'[r] = <<>> \/ Len(steps'[r]) = Len(Plan(r))
    /\ Len(starts'[r]) = Len(Plan(r))
    /\ Ordered(r)

Lands(w, h, r) ==
    \E k \in Worker :
       /\ worker' = [worker EXCEPT ![w] = k]
       /\ k.at # "idle" => /\ k.job = h.job
                           /\ k.at \in Acting => k.pos <= Len(Plan(r))
                           /\ StandsAt(k, r)'

LEMMA AtWork ==
    ASSUME IInv, NEW w \in Workers, NEW h, h = worker[w], h.at # "idle", NEW r, r = h.job.run
    PROVE  /\ r \in DOMAIN runs /\ runs \in Seq(Run) /\ runs[r].status \in Statuses
           /\ steps \in Seq(Seq(StepStatus)) /\ starts \in Seq(Seq(Nat))
           /\ DOMAIN steps = DOMAIN runs /\ DOMAIN starts = DOMAIN runs
           /\ Plan(r) \in Seq(Action) /\ Len(Plan(r)) \in Nat \ {0}
           /\ steps[r] \in Seq(StepStatus) /\ starts[r] \in Seq(Nat)
           /\ steps[r] = <<>> \/ Len(steps[r]) = Len(Plan(r))
           /\ runs[r].status = "PENDING" => steps[r] = <<>> /\ BegunTo(r, 1)
           /\ Len(starts[r]) = Len(Plan(r))
           /\ h.at \in Acting => h.pos <= Len(Plan(r))
           /\ StandsAt(h, r)
<1>1. r \in DOMAIN runs /\ (h.at \in Acting => h.pos <= Len(Plan(r)))
  BY DEF IInv, ShapeInv, Placed, Busy, RunOf
<1>2. StandsAt(h, r)
  BY DEF IInv, ProgressInv, Busy, RunOf
<1>3. Plan(r) \in Seq(Action) /\ Len(Plan(r)) \in Nat \ {0} /\ runs[r].status \in Statuses
  BY <1>1, RunTyped DEF IInv, ShapeInv
<1>4. /\ runs \in Seq(Run) /\ DOMAIN steps = DOMAIN runs /\ DOMAIN starts = DOMAIN runs
      /\ steps[r] = <<>> \/ Len(steps[r]) = Len(Plan(r))
      /\ runs[r].status = "PENDING" => steps[r] = <<>>
  BY <1>1 DEF IInv, ShapeInv, TypeOK, Plan
<1>5. steps \in Seq(Seq(StepStatus)) /\ starts \in Seq(Seq(Nat)) /\ Len(starts[r]) = Len(Plan(r))
  BY <1>1 DEF IInv, ShapeInv, RowsShaped
<1>6. steps[r] \in Seq(StepStatus) /\ starts[r] \in Seq(Nat)
  BY <1>1, <1>4, <1>5
<1>7. runs[r].status = "PENDING" => BegunTo(r, 1)
  BY <1>1 DEF IInv, ProgressInv, PendingUnbegun
<1> QED BY <1>1, <1>2, <1>3, <1>4, <1>5, <1>6, <1>7

LEMMA RowsUnmoved ==
    ASSUME IInv, NEW w \in Workers, NEW h, h = worker[w], h.at # "idle", NEW r, r = h.job.run,
           UNCHANGED <<runs, steps, starts>>
    PROVE  RowsMoved(r)
<1>1. Ordered(r) /\ UNCHANGED BegunTo(r, 1)
  BY DEF Ordered, BegunTo
<1> QED BY AtWork, <1>1 DEF RowsMoved

LEMMA Released ==
    ASSUME NEW w, NEW h, NEW r, Release(w)
    PROVE  Lands(w, h, r)
<1> DEFINE k == [at |-> "idle"]
<1>1. k \in Worker /\ k.at = "idle" /\ worker' = [worker EXCEPT ![w] = k]
  BY DEF Release, Become, Worker
<1> QED BY <1>1 DEF Lands

(* A status that is not PENDING.                                           *)
LEMMA StatusMoved ==
    ASSUME IInv, NEW w \in Workers, NEW h, h = worker[w], h.at # "idle", NEW r, r = h.job.run,
           NEW s \in Statuses \ {"PENDING"}, SetStatus(r, s), UNCHANGED <<steps, starts>>
    PROVE  RowsMoved(r)
<1>1. Ordered(r)
  BY DEF Ordered
<1>2. TypeOK /\ r \in DOMAIN runs
  BY AtWork DEF IInv, ShapeInv
<1>3. /\ runs' \in Seq(Run) /\ Len(runs') = Len(runs)
      /\ \A q \in DOMAIN runs : /\ runs'[q].flow = runs[q].flow
                                /\ runs'[q].chain = runs[q].chain
                                /\ q # r => runs'[q] = runs[q]
      /\ runs'[r].status = s
  BY <1>2, StatusSet
<1> QED BY AtWork, <1>1, <1>3 DEF RowsMoved

(* An action execution is written while those before it are done and those *)
(* after it are PENDING.                                                   *)
LEMMA StepMoved ==
    ASSUME IInv, NEW w \in Workers, NEW h, h = worker[w], h.at # "idle", NEW r, r = h.job.run,
           ~Gone(r), NEW p \in 1 .. Len(Plan(r)), NEW s \in StepStatus,
           SetStep(r, p, s), DoneTo(r, p), OpenFrom(r, p + 1)
    PROVE  /\ steps' \in Seq(Seq(StepStatus)) /\ Len(steps') = Len(steps)
           /\ \A q \in DOMAIN runs : q # r => steps'[q] = steps[q]
           /\ Len(steps'[r]) = Len(Plan(r))
           /\ Ordered(r) /\ DoneTo(r, p)' /\ OpenFrom(r, p + 1)'
           /\ s \in {"COMPLETED", "SKIPPED"} => DoneTo(r, p + 1)'
<1>1. /\ TypeOK /\ RowsShaped /\ r \in DOMAIN runs
      /\ steps[r] \in Seq(StepStatus) /\ Len(steps[r]) = Len(Plan(r)) /\ Len(Plan(r)) \in Nat
  BY AtWork DEF IInv, ShapeInv, Gone
<1>2. p \in DOMAIN steps[r] /\ DOMAIN steps[r] = 1 .. Len(Plan(r))
  BY <1>1
<1>3. /\ steps' \in Seq(Seq(StepStatus)) /\ Len(steps') = Len(steps)
      /\ \A q \in DOMAIN runs : q # r => steps'[q] = steps[q]
      /\ Len(steps'[r]) = Len(steps[r]) /\ DOMAIN steps'[r] = DOMAIN steps[r]
      /\ steps'[r][p] = s
      /\ \A q \in DOMAIN steps[r] : q # p => steps'[r][q] = steps[r][q]
  BY <1>1, <1>2, StepSet, Zenon
<1>4. DoneTo(r, p)' /\ OpenFrom(r, p + 1)'
  <2>1. \A q \in DOMAIN steps[r] : q < p \/ q >= p + 1 => q # p
    BY <1>2
  <2>2. DoneTo(r, p)'
    BY <1>3, <2>1 DEF DoneTo
  <2>3. OpenFrom(r, p + 1)'
    BY <1>3, <2>1 DEF OpenFrom
  <2> QED BY <2>2, <2>3
<1>5. s \in {"COMPLETED", "SKIPPED"} => DoneTo(r, p + 1)'
  <2>1. \A q \in DOMAIN steps[r] : q < p + 1 => q = p \/ q < p
    BY <1>2
  <2> QED BY <1>3, <1>4, <2>1 DEF DoneTo
<1>6. Ordered(r)
  BY <1>2, <1>3 DEF Ordered, DoneTo
<1> QED BY <1>1, <1>3, <1>4, <1>5, <1>6

(* ... and the status stays, or stops being PENDING.                       *)
LEMMA StepAndStatusMoved ==
    ASSUME IInv, NEW w \in Workers, NEW h, h = worker[w], h.at # "idle", NEW r, r = h.job.run,
           ~Gone(r), runs[r].status = "RUNNING",
           NEW p \in 1 .. Len(Plan(r)), NEW s \in StepStatus,
           SetStep(r, p, s), DoneTo(r, p), OpenFrom(r, p + 1),
           UNCHANGED runs \/ \E t \in Statuses \ {"PENDING"} : SetStatus(r, t),
           UNCHANGED starts
    PROVE  RowsMoved(r)
<1>1. TypeOK /\ r \in DOMAIN runs
  BY AtWork DEF IInv, ShapeInv
<1>2. /\ runs' \in Seq(Run) /\ Len(runs') = Len(runs)
      /\ \A q \in DOMAIN runs : /\ runs'[q].flow = runs[q].flow
                                /\ runs'[q].chain = runs[q].chain
                                /\ q # r => runs'[q] = runs[q]
      /\ runs'[r].status # "PENDING"
  <2>1. CASE UNCHANGED runs
    BY <2>1, <1>1 DEF TypeOK
  <2>2. CASE \E t \in Statuses \ {"PENDING"} : SetStatus(r, t)
    BY <2>2, <1>1, StatusSet
  <2> QED BY <2>1, <2>2
<1>3. /\ steps' \in Seq(Seq(StepStatus)) /\ Len(steps') = Len(steps)
      /\ \A q \in DOMAIN runs : q # r => steps'[q] = steps[q]
      /\ Len(steps'[r]) = Len(Plan(r)) /\ Ordered(r)
  BY StepMoved
<1> QED BY AtWork, <1>2, <1>3 DEF RowsMoved

-----------------------------------------------------------------------------
(* The steps of a worker, one by one.                                      *)

LEMMA StartMoves ==
    ASSUME IInv, NEW w \in Workers, NEW h, h = worker[w], NEW r, r = h.job.run, Start(w)
    PROVE  RowsMoved(r) /\ Lands(w, h, r)
<1>1. h.at = "start"
  BY DEF Start
<1>2. CASE Deleted(r)
  BY <1>1, <1>2, RowsUnmoved, Released DEF Start, History
<1>3. CASE ~Deleted(r)
  <2> DEFINE k == [at |-> "match", job |-> h.job]
  <2>1. SetStatus(r, "RUNNING") /\ Become(w, k) /\ UNCHANGED <<steps, starts>>
    BY <1>3 DEF Start, History
  <2>2. RowsMoved(r)
    BY <1>1, <2>1, StatusMoved DEF Statuses
  <2>3. k \in Worker /\ k.at = "match" /\ k.job = h.job
    BY <1>1, WorkerTyped DEF Worker, IInv, ShapeInv
  <2>4. BegunTo(r, 1)
    BY <1>1, AtWork DEF StandsAt
  <2>5. runs'[r].status = "RUNNING"
    BY <1>1, <2>1, AtWork, StatusSet DEF IInv, ShapeInv, Statuses
  <2>6. BegunTo(r, 1)'
    BY <2>1, <2>4 DEF BegunTo
  <2>7. StandsAt(k, r)'
    BY <2>3, <2>5, <2>6 DEF StandsAt
  <2> QED BY <2>1, <2>2, <2>3, <2>7 DEF Lands, Become, Acting
<1> QED BY <1>2, <1>3

LEMMA SkipMoves ==
    ASSUME IInv, NEW w \in Workers, NEW h, h = worker[w], NEW r, r = h.job.run, Skip(w)
    PROVE  RowsMoved(r) /\ Lands(w, h, r)
<1>1. h.at # "idle" /\ Release(w) /\ UNCHANGED <<steps, starts>>
  BY DEF Skip, History
<1>2. Lands(w, h, r)
  BY <1>1, Released
<1>3. CASE Deleted(r)
  BY <1>1, <1>2, <1>3, RowsUnmoved DEF Skip
<1>4. CASE ~Deleted(r)
  BY <1>1, <1>2, <1>4, StatusMoved DEF Skip, Statuses, Ended
<1> QED BY <1>3, <1>4

LEMMA MatchMoves ==
    ASSUME IInv, NEW w \in Workers, NEW h, h = worker[w], NEW r, r = h.job.run, Match(w)
    PROVE  RowsMoved(r) /\ Lands(w, h, r)
<1>1. h.at = "match" /\ h.at # "idle" /\ UNCHANGED starts
  BY DEF Match, History
<1>2. CASE Deleted(r)
  BY <1>1, <1>2, RowsUnmoved, Released DEF Match
<1>3. CASE ~Deleted(r) /\ runs[r].edited
  BY <1>1, <1>3, StatusMoved, Released DEF Match, Statuses, Ended
<1>4. CASE ~Deleted(r) /\ ~runs[r].edited
  <2> DEFINE new == [p \in 1 .. Len(Plan(r)) |->
                       IF p = 1 /\ Plan(r)[1].delayed THEN "WAITING" ELSE "PENDING"]
  <2>1. UNCHANGED runs /\ steps' = [steps EXCEPT ![r] = new]
    BY <1>4 DEF Match, Plan
  <2>2. /\ r \in DOMAIN runs /\ runs \in Seq(Run) /\ runs[r].status = "RUNNING"
        /\ steps \in Seq(Seq(StepStatus)) /\ DOMAIN steps = DOMAIN runs
        /\ starts \in Seq(Seq(Nat)) /\ Len(Plan(r)) \in Nat \ {0} /\ Len(starts[r]) = Len(Plan(r))
        /\ BegunTo(r, 1)
    BY <1>1, AtWork DEF StandsAt
  <2>3. new \in Seq(StepStatus) /\ Len(new) = Len(Plan(r)) /\ DOMAIN new = 1 .. Len(Plan(r))
    BY <2>2 DEF StepStatus
  <2>4. /\ \A p \in 1 .. Len(Plan(r)) : p > 1 => new[p] = "PENDING"
        /\ ~Plan(r)[1].delayed => new[1] = "PENDING"
    <3>1. \A p \in 1 .. Len(Plan(r)) : p # 1 => new[p] = "PENDING"
      BY Zenon
    <3>2. 1 \in 1 .. Len(Plan(r)) => (~Plan(r)[1].delayed => new[1] = "PENDING")
      BY Zenon
    <3> HIDE DEF new
    <3> QED BY <2>2, <3>1, <3>2
  <2>5. /\ steps' \in Seq(Seq(StepStatus)) /\ Len(steps') = Len(steps)
        /\ \A q \in DOMAIN runs : q # r => steps'[q] = steps[q]
        /\ steps'[r] = new
    <3> HIDE DEF new
    <3> QED BY <2>1, <2>2, <2>3
  <2>6. Ordered(r)
    <3>1. steps[r] \in Seq(StepStatus)
      BY <2>2
    <3> HIDE DEF new
    <3> QED BY <2>2, <2>3, <2>4, <2>5, <3>1 DEF Ordered
  <2>7. RowsMoved(r)
    BY <1>1, <2>1, <2>2, <2>3, <2>5, <2>6 DEF RowsMoved
  <2>8. CASE Plan(r)[1].delayed
    BY <1>4, <2>7, <2>8, Released DEF Match, Await, Plan
  <2>9. CASE ~Plan(r)[1].delayed
    <3> DEFINE k == [at |-> "step", job |-> h.job, pos |-> 1]
    <3>1. Become(w, k)
      BY <1>4, <2>9 DEF Match, Plan
    <3>2. k \in Worker /\ k.at = "step" /\ k.job = h.job /\ k.pos = 1
      BY <1>1, WorkerTyped DEF Worker, IInv, ShapeInv
    <3>3. BegunTo(r, 1)'
      BY <1>1, <2>2 DEF BegunTo
    <3>4. DoneTo(r, 1)' /\ OpenFrom(r, 1)'
      <4> HIDE DEF new
      <4> QED BY <2>2, <2>3, <2>4, <2>5, <2>9 DEF DoneTo, OpenFrom
    <3> HIDE DEF k
    <3>5. StandsAt(k, r)'
      BY <2>1, <2>2, <3>2, <3>3, <3>4 DEF StandsAt
    <3>6. k.pos <= Len(Plan(r))
      BY <2>2, <3>2
    <3> HIDE DEF new
    <3> QED BY <2>7, <3>1, <3>2, <3>5, <3>6 DEF Lands, Become
  <2> QED BY <2>8, <2>9
<1> QED BY <1>2, <1>3, <1>4

(* A worker in the actions goes on with the same job.                      *)
LEMMA GoesOn ==
    ASSUME NEW h \in [at : Acting, job : Job, pos : Nat \ {0}]
    PROVE  /\ \A a \in Acting : /\ [h EXCEPT !.at = a] \in Worker
                                /\ [h EXCEPT !.at = a].at = a
                                /\ [h EXCEPT !.at = a].job = h.job
                                /\ [h EXCEPT !.at = a].pos = h.pos
           /\ \A n \in Nat \ {0} : /\ [h EXCEPT !.at = "step", !.pos = n] \in Worker
                                   /\ [h EXCEPT !.at = "step", !.pos = n].at = "step"
                                   /\ [h EXCEPT !.at = "step", !.pos = n].job = h.job
                                   /\ [h EXCEPT !.at = "step", !.pos = n].pos = n
BY DEF Acting, Worker

LEMMA ActingAt ==
    ASSUME IInv, NEW w \in Workers, NEW h, h = worker[w], h.at \in Acting, NEW r, r = h.job.run
    PROVE  /\ h.at # "idle" /\ runs[r].status = "RUNNING"
           /\ h \in [at : Acting, job : Job, pos : Nat \ {0}]
           /\ h.pos \in 1 .. Len(Plan(r)) /\ Len(Plan(r)) \in Nat
<1>1. h.at # "idle" /\ h.at # "start"
  BY DEF Acting
<1>2. h \in [at : Acting, job : Job, pos : Nat \ {0}] /\ h.pos \in Nat \ {0}
  BY <1>1, WorkerTyped DEF IInv, ShapeInv
<1>3. runs[r].status = "RUNNING"
  BY <1>1, AtWork DEF StandsAt
<1>4. h.pos <= Len(Plan(r)) /\ Len(Plan(r)) \in Nat
  BY <1>1, AtWork
<1> QED BY <1>1, <1>2, <1>3, <1>4

LEMMA StepMoves ==
    ASSUME IInv, NEW w \in Workers, NEW h, h = worker[w], NEW r, r = h.job.run, Step(w)
    PROVE  RowsMoved(r) /\ Lands(w, h, r)
<1>1. h.at = "step" /\ h.at # "idle" /\ h.at \in Acting /\ UNCHANGED runs
  BY DEF Step, Acting
<1>2. CASE Gone(r)
  BY <1>1, <1>2, RowsUnmoved, Released DEF Step
<1>3. CASE ~Gone(r)
  <2> DEFINE k == [h EXCEPT !.at = "act"]
  <2>0. PICK p : p = h.pos
    OBVIOUS
  <2>1. /\ SetStep(r, p, "RUNNING") /\ starts' = [starts EXCEPT ![r][p] = @ + 1]
        /\ Become(w, k)
    BY <1>3, <2>0 DEF Step
  <2>2. /\ runs[r].status = "RUNNING" /\ h \in [at : Acting, job : Job, pos : Nat \ {0}]
        /\ p \in 1 .. Len(Plan(r)) /\ Len(Plan(r)) \in Nat
    BY <1>1, <2>0, ActingAt
  <2>3. k \in Worker /\ k.at = "act" /\ k.job = h.job /\ k.pos = p
    BY <2>0, <2>2, GoesOn DEF Acting
  <2>4. BegunTo(r, p) /\ DoneTo(r, p) /\ OpenFrom(r, p)
    BY <1>1, <2>0, AtWork DEF StandsAt
  <2>5. /\ TypeOK /\ RowsShaped /\ r \in DOMAIN runs
        /\ starts[r] \in Seq(Nat) /\ Len(starts[r]) = Len(Plan(r))
        /\ starts \in Seq(Seq(Nat)) /\ runs \in Seq(Run)
        /\ steps[r] \in Seq(StepStatus) /\ Len(steps[r]) = Len(Plan(r))
    BY <1>1, <1>3, AtWork DEF IInv, ShapeInv, Gone
  <2> HIDE DEF k
  <2>6. p \in DOMAIN starts[r] /\ starts[r][p] = 0
    <3>1. p \in DOMAIN starts[r] /\ ~(p < p)
      BY <2>2, <2>5
    <3> QED BY <2>4, <3>1 DEF BegunTo
  <2>7. SetBegun(r, p, 1)
    BY <2>1, <2>6 DEF SetBegun
  <2>8. OpenFrom(r, p + 1)
    <3>1. \A q \in DOMAIN steps[r] : q >= p + 1 => q >= p
      BY <2>2, <2>5
    <3> QED BY <2>4, <3>1 DEF OpenFrom
  <2>9. /\ steps' \in Seq(Seq(StepStatus)) /\ Len(steps') = Len(steps)
        /\ \A q \in DOMAIN runs : q # r => steps'[q] = steps[q]
        /\ Len(steps'[r]) = Len(Plan(r))
        /\ Ordered(r) /\ DoneTo(r, p)' /\ OpenFrom(r, p + 1)'
    <3>1. "RUNNING" \in StepStatus
      BY DEF StepStatus
    <3> QED BY <1>1, <1>3, <2>1, <2>2, <2>4, <2>8, <3>1, StepMoved
  <2>10. /\ starts' \in Seq(Seq(Nat)) /\ Len(starts') = Len(starts)
         /\ \A q \in DOMAIN runs : q # r => starts'[q] = starts[q]
         /\ Len(starts'[r]) = Len(starts[r]) /\ DOMAIN starts'[r] = DOMAIN starts[r]
         /\ starts'[r][p] = 1
         /\ \A q \in DOMAIN starts[r] : q # p => starts'[r][q] = starts[r][q]
    <3>1. 1 \in Nat
      OBVIOUS
    <3>2. StartsMarked(r, p, 1)
      BY <2>5, <2>6, <2>7, <3>1, BegunSet
    <3> QED BY <3>2 DEF StartsMarked
  <2>11. BegunTo(r, p + 1)'
    <3>1. \A q \in DOMAIN starts[r] : q # p => (q < p => q < p + 1) /\ (q < p + 1 => q < p)
      <4>1. \A q \in 1 .. Len(Plan(r)) : q # p => (q < p => q < p + 1) /\ (q < p + 1 => q < p)
        BY <2>2
      <4> QED BY <2>5, <4>1
    <3>2. p < p + 1
      BY <2>2
    <3> QED BY <2>4, <2>10, <3>1, <3>2 DEF BegunTo
  <2>12. RowsMoved(r)
    BY <1>1, <2>2, <2>5, <2>9, <2>10 DEF RowsMoved
  <2>13. StandsAt(k, r)'
    BY <1>1, <2>2, <2>3, <2>9, <2>11 DEF StandsAt
  <2>14. k.pos <= Len(Plan(r))
    BY <2>2, <2>3
  <2> QED BY <2>1, <2>3, <2>12, <2>13, <2>14 DEF Lands, Become
<1> QED BY <1>2, <1>3

LEMMA ActMoves ==
    ASSUME IInv, NEW w \in Workers, NEW h, h = worker[w], NEW r, r = h.job.run, Act(w)
    PROVE  RowsMoved(r) /\ Lands(w, h, r)
<1> DEFINE k == [h EXCEPT !.at = "close"]
<1>1. /\ h.at = "act" /\ h.at \in Acting /\ UNCHANGED <<runs, steps, starts>> /\ Become(w, k)
  BY DEF Act, Acting, History
<1>2. h.at # "idle" /\ h \in [at : Acting, job : Job, pos : Nat \ {0}] /\ h.pos <= Len(Plan(r))
  BY <1>1, ActingAt
<1>3. k \in Worker /\ k.at = "close" /\ k.job = h.job /\ k.pos = h.pos
  BY <1>2, GoesOn DEF Acting
<1> HIDE DEF k
<1>4. StandsAt(k, r)
  BY <1>1, <1>2, <1>3, AtWork DEF StandsAt
<1>5. StandsAt(k, r)'
  BY <1>1, <1>4 DEF StandsAt, BegunTo, DoneTo, OpenFrom
<1> QED BY <1>1, <1>2, <1>3, <1>5, RowsUnmoved DEF Lands, Become

LEMMA PassMoves ==
    ASSUME IInv, NEW w \in Workers, NEW h, h = worker[w], NEW r, r = h.job.run, Pass(w)
    PROVE  RowsMoved(r) /\ Lands(w, h, r)
<1> DEFINE k == [h EXCEPT !.at = "next"]
<1>1. /\ h.at = "act" /\ h.at \in Acting /\ h.at # "idle" /\ ~Gone(r)
      /\ SetStep(r, h.pos, "SKIPPED") /\ UNCHANGED <<runs, starts>>
      /\ IF lead = "deleted" THEN Release(w) ELSE Become(w, k)
  BY DEF Pass, Acting, History
<1>2. /\ h \in [at : Acting, job : Job, pos : Nat \ {0}]
      /\ h.pos \in 1 .. Len(Plan(r)) /\ runs[r].status = "RUNNING"
  BY <1>1, ActingAt
<1>3. k \in Worker /\ k.at = "next" /\ k.job = h.job /\ k.pos = h.pos
  BY <1>2, GoesOn DEF Acting
<1> HIDE DEF k
<1>4. BegunTo(r, h.pos + 1) /\ DoneTo(r, h.pos) /\ OpenFrom(r, h.pos + 1)
  BY <1>1, AtWork DEF StandsAt
<1>5. RowsMoved(r)
  BY <1>1, <1>2, <1>4, StepAndStatusMoved DEF StepStatus, Ended
<1>6. DoneTo(r, h.pos + 1)' /\ OpenFrom(r, h.pos + 1)'
  BY <1>1, <1>2, <1>4, StepMoved DEF StepStatus, Ended
<1>7. BegunTo(r, h.pos + 1)'
  BY <1>1, <1>4 DEF BegunTo
<1>8. StandsAt(k, r)'
  BY <1>1, <1>2, <1>3, <1>6, <1>7 DEF StandsAt
<1>9. CASE lead = "deleted"
  BY <1>1, <1>5, <1>9, Released
<1>10. CASE lead # "deleted"
  BY <1>1, <1>2, <1>3, <1>5, <1>8, <1>10 DEF Lands, Become
<1> QED BY <1>9, <1>10

LEMMA FailMoves ==
    ASSUME IInv, NEW w \in Workers, NEW h, h = worker[w], NEW r, r = h.job.run, Fail(w)
    PROVE  RowsMoved(r) /\ Lands(w, h, r)
<1>1. h.at = "act" /\ h.at \in Acting /\ h.at # "idle" /\ Release(w) /\ UNCHANGED starts
  BY DEF Fail, Acting, History
<1>2. Lands(w, h, r)
  BY Released, <1>1
<1>3. /\ h.pos \in 1 .. Len(Plan(r)) /\ runs[r].status = "RUNNING"
      /\ DoneTo(r, h.pos) /\ OpenFrom(r, h.pos + 1)
  BY <1>1, ActingAt, AtWork DEF StandsAt
<1>4. /\ IF Gone(r) THEN UNCHANGED steps ELSE SetStep(r, h.pos, "FAILED")
      /\ IF Deleted(r) THEN UNCHANGED runs ELSE SetStatus(r, "FAILED")
  BY DEF Fail
<1>5. CASE Deleted(r)
  BY <1>1, <1>2, <1>4, <1>5, RowsUnmoved DEF Gone
<1>6. CASE ~Deleted(r) /\ Gone(r)
  BY <1>1, <1>2, <1>4, <1>6, StatusMoved DEF Statuses, Ended
<1>7. CASE ~Deleted(r) /\ ~Gone(r)
  BY <1>1, <1>2, <1>3, <1>4, <1>7, StepAndStatusMoved DEF Statuses, StepStatus, Ended
<1> QED BY <1>5, <1>6, <1>7

LEMMA CloseMoves ==
    ASSUME IInv, NEW w \in Workers, NEW h, h = worker[w], NEW r, r = h.job.run, Close(w)
    PROVE  RowsMoved(r) /\ Lands(w, h, r)
<1> DEFINE k == [h EXCEPT !.at = "next"]
<1>1. h.at = "close" /\ h.at \in Acting /\ h.at # "idle" /\ UNCHANGED starts
  BY DEF Close, Acting, History
<1>2. /\ h \in [at : Acting, job : Job, pos : Nat \ {0}]
      /\ h.pos \in 1 .. Len(Plan(r)) /\ runs[r].status = "RUNNING"
  BY <1>1, ActingAt
<1>3. k \in Worker /\ k.at = "next" /\ k.job = h.job /\ k.pos = h.pos
  BY <1>2, GoesOn DEF Acting
<1>4. BegunTo(r, h.pos + 1) /\ DoneTo(r, h.pos) /\ OpenFrom(r, h.pos + 1)
  BY <1>1, AtWork DEF StandsAt
<1>5. CASE Deleted(r)
  BY <1>1, <1>5, RowsUnmoved, Released DEF Close, Gone
<1>6. CASE ~Deleted(r) /\ Gone(r)
  BY <1>1, <1>6, StatusMoved, Released DEF Close, Statuses, Ended
<1>7. CASE ~Gone(r)
  <2>1. SetStep(r, h.pos, "COMPLETED") /\ Become(w, k) /\ UNCHANGED runs
    BY <1>7 DEF Close
  <2> HIDE DEF k
  <2>2. RowsMoved(r)
    BY <1>1, <1>2, <1>4, <1>7, <2>1, StepAndStatusMoved DEF StepStatus, Ended
  <2>3. DoneTo(r, h.pos + 1)' /\ OpenFrom(r, h.pos + 1)'
    BY <1>1, <1>2, <1>4, <1>7, <2>1, StepMoved DEF StepStatus, Ended
  <2>4. BegunTo(r, h.pos + 1)'
    BY <1>1, <1>4 DEF BegunTo
  <2>5. StandsAt(k, r)'
    BY <1>2, <1>3, <2>1, <2>3, <2>4 DEF StandsAt
  <2>6. k.pos <= Len(Plan(r))
    BY <1>2, <1>3
  <2> QED BY <1>3, <2>1, <2>2, <2>5, <2>6 DEF Lands, Become
<1> QED BY <1>5, <1>6, <1>7 DEF Gone

LEMMA FollowMoves ==
    ASSUME IInv, NEW w \in Workers, NEW h, h = worker[w], NEW r, r = h.job.run, Follow(w)
    PROVE  RowsMoved(r) /\ Lands(w, h, r)
<1>1. h.at = "next" /\ h.at \in Acting /\ h.at # "idle" /\ UNCHANGED starts
  BY DEF Follow, Acting, History
<1>2. /\ h \in [at : Acting, job : Job, pos : Nat \ {0}]
      /\ h.pos \in 1 .. Len(Plan(r)) /\ Len(Plan(r)) \in Nat /\ runs[r].status = "RUNNING"
  BY <1>1, ActingAt
<1>3. PICK n : n = h.pos + 1
  OBVIOUS
<1>4. BegunTo(r, n) /\ DoneTo(r, n) /\ OpenFrom(r, n)
  BY <1>1, <1>3, AtWork DEF StandsAt
<1>5. n \in Nat \ {0}
  BY <1>2, <1>3
<1>6. CASE Gone(r) \/ n > Len(Plan(r))
  <2>1. Release(w) /\ UNCHANGED steps /\ IF Deleted(r) THEN UNCHANGED runs ELSE SetStatus(r, "COMPLETED")
    BY <1>3, <1>6 DEF Follow, Plan
  <2>2. CASE Deleted(r)
    BY <1>1, <2>1, <2>2, RowsUnmoved, Released
  <2>3. CASE ~Deleted(r)
    BY <1>1, <2>1, <2>3, StatusMoved, Released DEF Statuses, Ended
  <2> QED BY <2>2, <2>3
<1>7. CASE ~(Gone(r) \/ n > Len(Plan(r)))
  <2>1. n \in 1 .. Len(Plan(r)) /\ ~Gone(r)
    BY <1>2, <1>5, <1>7
  <2>2. UNCHANGED runs
    BY <1>3, <1>7 DEF Follow, Plan
  <2>3. CASE Plan(r)[n].delayed
    <3>1. SetStep(r, n, "WAITING") /\ Release(w)
      BY <1>3, <1>7, <2>3 DEF Follow, Plan, Await
    <3>2. OpenFrom(r, n + 1)
      <4>0. steps[r] \in Seq(StepStatus)
        BY <1>1, AtWork
      <4>1. DOMAIN steps[r] \subseteq Nat
        BY <4>0
      <4>2. \A q \in DOMAIN steps[r] : q >= n + 1 => q >= n
        BY <1>5, <4>1
      <4> QED BY <1>4, <4>2 DEF OpenFrom
    <3>3. RowsMoved(r)
      BY <1>1, <1>2, <1>4, <2>1, <2>2, <3>1, <3>2, StepAndStatusMoved DEF StepStatus
    <3> QED BY <3>1, <3>3, Released
  <2>4. CASE ~Plan(r)[n].delayed
    <3> DEFINE k == [h EXCEPT !.at = "step", !.pos = n]
    <3>1. Become(w, k) /\ UNCHANGED steps
      BY <1>3, <1>7, <2>4 DEF Follow, Plan
    <3>2. k \in Worker /\ k.at = "step" /\ k.job = h.job /\ k.pos = n
      BY <1>2, <1>5, GoesOn
    <3> HIDE DEF k
    <3>3. StandsAt(k, r)
      BY <1>2, <1>4, <3>2 DEF StandsAt
    <3>4. StandsAt(k, r)'
      BY <1>1, <2>2, <3>1, <3>3 DEF StandsAt, BegunTo, DoneTo, OpenFrom
    <3>5. RowsMoved(r)
      BY <1>1, <2>2, <3>1, RowsUnmoved
    <3>6. k.pos <= Len(Plan(r))
      BY <1>2, <2>1, <3>2
    <3> QED BY <3>1, <3>2, <3>4, <3>5, <3>6 DEF Lands, Become
  <2> QED BY <2>3, <2>4
<1> QED BY <1>6, <1>7

(* Where a throw is caught, rows up to m are written: all before m is done.*)
LEMMA CaughtMoved ==
    ASSUME IInv, NEW w \in Workers, NEW h, h = worker[w], h.at # "idle", NEW r, r = h.job.run,
           ~Gone(r), SetStatus(r, "FAILED"), UNCHANGED starts,
           NEW m \in Nat, NEW i \in Nat, i <= m, DoneTo(r, m),
           NEW rows \in Seq(StepStatus), Len(rows) = Len(steps[r]),
           \A q \in DOMAIN steps[r] : q > m => rows[q] = steps[r][q],
           Caught(r, i, rows)
    PROVE  RowsMoved(r)
<1>1. /\ TypeOK /\ r \in DOMAIN runs /\ DOMAIN steps = DOMAIN runs
      /\ steps \in Seq(Seq(StepStatus)) /\ steps[r] \in Seq(StepStatus)
      /\ Len(steps[r]) = Len(Plan(r))
  BY AtWork DEF IInv, ShapeInv, Gone
<1>2. PICK hit \in SUBSET (0 .. i) :
        steps' = [steps EXCEPT ![r] = [q \in DOMAIN rows |->
                     IF q \in hit THEN "FAILED" ELSE rows[q]]]
  <2>1. PICK n \in 0 .. i : \E tried \in SUBSET ((n + 1) .. i) :
          steps' = [steps EXCEPT ![r] = [q \in DOMAIN rows |->
                     IF q \in tried \cup {n} THEN "FAILED" ELSE rows[q]]]
    BY DEF Caught
  <2>2. PICK tried \in SUBSET ((n + 1) .. i) :
          steps' = [steps EXCEPT ![r] = [q \in DOMAIN rows |->
                     IF q \in tried \cup {n} THEN "FAILED" ELSE rows[q]]]
    BY <2>1
  <2>3. tried \cup {n} \in SUBSET (0 .. i)
    <3>1. (n + 1) .. i \subseteq 0 .. i
      OBVIOUS
    <3> QED BY <3>1
  <2> QED BY <2>2, <2>3
<1> DEFINE new == [q \in DOMAIN rows |-> IF q \in hit THEN "FAILED" ELSE rows[q]]
<1>3. new \in Seq(StepStatus) /\ Len(new) = Len(Plan(r))
  BY <1>1 DEF StepStatus, Ended
<1>4. \A q \in DOMAIN steps[r] : q > m => new[q] = steps[r][q]
  BY <1>1
<1>5. steps' = [steps EXCEPT ![r] = new]
  BY <1>2
<1> HIDE DEF new
<1>6. /\ steps' \in Seq(Seq(StepStatus)) /\ Len(steps') = Len(steps)
      /\ \A q \in DOMAIN runs : q # r => steps'[q] = steps[q]
      /\ steps'[r] = new
  BY <1>1, <1>3, <1>5
<1>7. Ordered(r)
  BY <1>1, <1>4, <1>6 DEF Ordered, DoneTo
<1>8. /\ runs' \in Seq(Run) /\ Len(runs') = Len(runs)
      /\ \A q \in DOMAIN runs : /\ runs'[q].flow = runs[q].flow
                                /\ runs'[q].chain = runs[q].chain
                                /\ q # r => runs'[q] = runs[q]
      /\ runs'[r].status = "FAILED"
  BY <1>1, StatusSet DEF Statuses, Ended
<1> QED BY AtWork, <1>3, <1>6, <1>7, <1>8 DEF RowsMoved

LEMMA ThrowMoves ==
    ASSUME IInv, NEW w \in Workers, NEW h, h = worker[w], NEW r, r = h.job.run, Throw(w)
    PROVE  RowsMoved(r) /\ Lands(w, h, r)
<1>1. /\ h.at \in Acting /\ h.at # "idle" /\ ~Gone(r) /\ SetStatus(r, "FAILED")
      /\ UNCHANGED starts
  BY DEF Throw, Acting
<1>2. /\ h.pos \in 1 .. Len(Plan(r)) /\ Len(Plan(r)) \in Nat /\ StandsAt(h, r)
      /\ steps[r] \in Seq(StepStatus) /\ Len(steps[r]) = Len(Plan(r))
  BY <1>1, ActingAt, AtWork DEF Gone
<1>3. PICK i \in Nat : i = h.pos
  BY <1>2
<1>4. Release(w)
  BY DEF Throw, Await
<1>5. Lands(w, h, r)
  BY <1>4, Released
<1>6. CASE Caught(r, i, steps[r])
  <2>1. DoneTo(r, i)
    <3>1. CASE h.at = "next"
      <4>1. DoneTo(r, i + 1)
        BY <1>2, <1>3, <3>1 DEF StandsAt
      <4> QED BY <1>2, <1>3, <4>1 DEF DoneTo
    <3>2. CASE h.at # "next"
      BY <1>1, <1>2, <1>3, <3>2 DEF StandsAt, Acting
    <3> QED BY <3>1, <3>2
  <2>2. RowsMoved(r)
    <3>1. i \in Nat /\ i <= i
      OBVIOUS
    <3>2. steps[r] \in Seq(StepStatus) /\ Len(steps[r]) = Len(steps[r])
      BY <1>2
    <3>3. \A q \in DOMAIN steps[r] : q > i => steps[r][q] = steps[r][q]
      OBVIOUS
    <3> QED BY <1>1, <1>6, <2>1, <3>1, <3>2, <3>3, CaughtMoved
  <2> QED BY <1>5, <2>2
<1>7. CASE /\ h.at = "next" /\ i + 1 <= Len(Plan(r))
           /\ Caught(r, i, [steps[r] EXCEPT ![i + 1] = "WAITING"])
  <2>1. PICK old : old = steps[r]
    OBVIOUS
  <2>2. PICK rows : rows = [old EXCEPT ![i + 1] = "WAITING"]
    OBVIOUS
  <2>3. old \in Seq(StepStatus) /\ "WAITING" \in StepStatus /\ i + 1 \in 1 .. Len(old)
    BY <1>2, <1>3, <1>7, <2>1 DEF StepStatus
  <2>4. rows \in Seq(StepStatus) /\ Len(rows) = Len(old)
    BY <2>2, <2>3
  <2>5. \A q \in DOMAIN old : q > i + 1 => rows[q] = old[q]
    BY <2>2, <2>3
  <2>6. DoneTo(r, i + 1)
    BY <1>2, <1>3, <1>7 DEF StandsAt
  <2>7. Caught(r, i, rows)
    BY <1>7, <2>1, <2>2
  <2>8. i + 1 \in Nat /\ i <= i + 1
    OBVIOUS
  <2>9. RowsMoved(r)
    BY <1>1, <2>1, <2>4, <2>5, <2>6, <2>7, <2>8, CaughtMoved
  <2> QED BY <1>5, <2>9
<1> QED BY <1>3, <1>6, <1>7 DEF Throw, Plan

(* What every step of a worker has in common.                              *)
LEMMA Moves ==
    ASSUME IInv, NEW w \in Workers, NEW h, h = worker[w], NEW r, r = h.job.run, Work(w) \/ Throw(w) \/ Die(w)
    PROVE  /\ h.at # "idle" /\ RowsMoved(r) /\ Lands(w, h, r)
           /\ flow' = flow
<1>1. CASE Work(w)
  <2>1. h.at # "idle" /\ flow' = flow
    BY <1>1 DEF Work, Start, Skip, Match, Step, Act, Pass, Fail, Close, Follow
  <2>2. RowsMoved(r) /\ Lands(w, h, r)
    BY <1>1, StartMoves, SkipMoves, MatchMoves, StepMoves, ActMoves, PassMoves, FailMoves,
       CloseMoves, FollowMoves DEF Work
  <2> QED BY <2>1, <2>2
<1>2. CASE Die(w)
  <2>1. h.at # "idle" /\ UNCHANGED <<flow, runs, steps, starts>> /\ Release(w)
    BY <1>2 DEF Die
  <2> QED BY <2>1, RowsUnmoved, Released
<1>3. CASE Throw(w)
  BY <1>3, ThrowMoves DEF Throw
<1> QED BY <1>1, <1>2, <1>3

-----------------------------------------------------------------------------
(* Events that are raised, and jobs that go back to the queue.             *)

LEMMA CopyFree ==
    ASSUME NEW S, IsFiniteSet(S)
    PROVE  \E n \in 1 .. Cardinality(S) + 1 : \A x \in S : x.copy # n
<1> DEFINE T == 1 .. Cardinality(S) + 1
<1> SUFFICES ASSUME \A n \in T : \E x \in S : x.copy = n PROVE FALSE
  OBVIOUS
<1>1. Cardinality(S) \in Nat
  BY FS_CardinalityType
<1>2. IsFiniteSet(T) /\ Cardinality(T) = Cardinality(S) + 1
  <2>1. 1 \in Int /\ Cardinality(S) + 1 \in Int /\ ~(1 > Cardinality(S) + 1)
    BY <1>1
  <2>2. Cardinality(T) = (Cardinality(S) + 1) - 1 + 1 /\ IsFiniteSet(T)
    BY <2>1, FS_Interval
  <2> QED BY <1>1, <2>2
<1>3. PICK f : f = [x \in S |-> IF x.copy \in T THEN x.copy ELSE 1]
  OBVIOUS
<1>4. 1 \in T
  BY <1>1
<1> HIDE DEF T
<1>5. f \in Surjection(S, T)
  <2>1. f \in [S -> T]
    BY <1>3, <1>4
  <2>2. \A n \in T : \E x \in S : f[x] = n
    BY <1>3
  <2> QED BY <2>1, <2>2 DEF Surjection
<1>6. Cardinality(T) <= Cardinality(S)
  BY <1>5, FS_Surjection
<1> QED BY <1>1, <1>2, <1>6

LEMMA RaiseTyped ==
    ASSUME TypeOK, IsFiniteSet(raised), NEW e \in Events, NEW d \in Depths, NEW c \in Nat
    PROVE  /\ Raise(e, d, c) \in Raised
           /\ Raise(e, d, c).event = e /\ Raise(e, d, c).depth = d /\ Raise(e, d, c).chain = c
           /\ Raise(e, d, c).todo = {"unread"} /\ Raise(e, d, c).made = 0
<1> DEFINE same == {x \in raised : x.event = e /\ x.depth = d /\ x.chain = c}
           free == {n \in 1 .. Cardinality(same) + 1 : \A x \in same : x.copy # n}
<1>1. IsFiniteSet(same)
  BY FS_Subset
<1>2. \E n : n \in free
  BY <1>1, CopyFree
<1>3. (CHOOSE n \in free : TRUE) \in free
  BY <1>2, Zenon
<1>4. Cardinality(same) \in Nat
  BY <1>1, FS_CardinalityType
<1>5. free \subseteq Nat \ {0}
  BY <1>4
<1>6. (CHOOSE n \in free : TRUE) \in Nat \ {0}
  BY <1>3, <1>5
<1> DEFINE m == CHOOSE n \in free : TRUE
<1>7. Raise(e, d, c) = [event |-> e, depth |-> d, chain |-> c, todo |-> {"unread"},
                        stale |-> {}, made |-> 0, copy |-> m]
  BY DEF Raise
<1>8. m \in Nat \ {0}
  BY <1>6
<1>9. 0 \in 0 .. MaxRuns
  BY AutomationAssumption
<1> HIDE DEF m, free, same
<1> QED BY <1>7, <1>8, <1>9 DEF Raised

RaisedOne(r, depth) ==
    \E e \in Events, d \in Depths :
       /\ raised' = raised \cup {Raise(e, d, runs[r].chain)}
       /\ \/ e.type = "stage_changed" /\ d = depth
          \/ e.type = "followup_created" /\ FollowsUp

HandedBack(w, r, depth) ==
    /\ worker'[w].at = "idle"
    /\ \E j \in Job : j.run = r /\ j.depth = depth /\ queue' = queue \cup {j}

LEMMA ActRaises ==
    ASSUME IInv, NEW w \in Workers, NEW h, h = worker[w], NEW r, r = h.job.run, Act(w)
    PROVE  raised' = raised \/ RaisedOne(r, h.job.depth)
<1>1. h.at = "act" /\ h.at \in Acting /\ h.at # "idle"
  BY DEF Act, Acting
<1>2. /\ h.pos \in 1 .. Len(Plan(r)) /\ h.job \in Job
      /\ r \in DOMAIN runs /\ Plan(r) \in Seq(Action)
  BY <1>1, ActingAt, AtWork, WorkerTyped DEF IInv, ShapeInv
<1>3. PICK does : does = Plan(r)[h.pos].does
  OBVIOUS
<1>4. Effect(does, h.job.depth, runs[r].chain)
  BY <1>3 DEF Act, Plan
<1>5. CASE does \in LeadStages /\ lead # does
  <2> DEFINE e == [type |-> "stage_changed", stage |-> does]
  <2>1. raised' = raised \cup {Raise(e, h.job.depth, runs[r].chain)}
    BY <1>4, <1>5 DEF Effect
  <2>2. e \in Events /\ e.type = "stage_changed"
    BY <1>5 DEF Events
  <2>3. h.job.depth \in Depths
    BY <1>2, JobTyped
  <2> HIDE DEF e
  <2> QED BY <2>1, <2>2, <2>3 DEF RaisedOne
<1>6. CASE ~(does \in LeadStages /\ lead # does) /\ does = "followup"
  <2> DEFINE e == [type |-> "followup_created"]
  <2>1. raised' = raised \cup {Raise(e, 0, runs[r].chain)}
    BY <1>4, <1>6 DEF Effect
  <2>2. e \in Events /\ e.type = "followup_created" /\ 0 \in Depths
    BY AutomationAssumption DEF Events, Depths
  <2>3. FollowsUp
    <3>1. runs[r].flow \in Flows
      BY <1>2, RunTyped DEF IInv, ShapeInv
    <3> QED BY <1>2, <1>3, <1>6, <3>1 DEF FollowsUp, Plan
  <2> HIDE DEF e
  <2> QED BY <2>1, <2>2, <2>3 DEF RaisedOne
<1>7. CASE ~(does \in LeadStages /\ lead # does) /\ does # "followup"
  BY <1>4, <1>7 DEF Effect
<1> QED BY <1>5, <1>6, <1>7

LEMMA Awaits ==
    ASSUME IInv, NEW w \in Workers, NEW h, h = worker[w], h.at # "idle", NEW r, r = h.job.run,
           Await(w, h.job)
    PROVE  HandedBack(w, r, h.job.depth)
<1>1. h.job \in Job /\ worker \in [Workers -> Worker]
  BY WorkerTyped DEF IInv, ShapeInv, TypeOK
<1>2. worker'[w].at = "idle"
  BY <1>1 DEF Await, Release, Become
<1> QED BY <1>1, <1>2, JobTyped DEF Await, HandedBack

LEMMA Carries ==
    ASSUME IInv, NEW w \in Workers, NEW h, h = worker[w], NEW r, r = h.job.run, Work(w) \/ Throw(w) \/ Die(w)
    PROVE  /\ raised' = raised \/ RaisedOne(r, h.job.depth)
           /\ queue' = queue \/ HandedBack(w, r, h.job.depth)
<1>1. CASE Die(w)
  <2>1. h.at # "idle" /\ raised' = raised /\ Release(w) /\ queue' = queue \cup {h.job}
    BY <1>1 DEF Die
  <2>2. h.job \in Job /\ worker \in [Workers -> Worker]
    BY <2>1, WorkerTyped DEF IInv, ShapeInv, TypeOK
  <2>3. worker'[w].at = "idle"
    BY <2>1, <2>2 DEF Release, Become
  <2> QED BY <2>1, <2>2, <2>3 DEF HandedBack
<1>2. CASE Act(w)
  BY <1>2, ActRaises DEF Act
<1>6. CASE Throw(w)
  <2>1. h.at # "idle" /\ raised' = raised /\ (queue' = queue \/ Await(w, h.job))
    BY <1>6 DEF Throw
  <2> QED BY <2>1, Awaits
<1>3. CASE Match(w)
  <2>1. h.at # "idle" /\ raised' = raised /\ (queue' = queue \/ Await(w, h.job))
    BY <1>3 DEF Match
  <2> QED BY <2>1, Awaits
<1>4. CASE Follow(w)
  <2>1. h.at # "idle" /\ raised' = raised /\ (queue' = queue \/ Await(w, h.job))
    BY <1>4 DEF Follow
  <2> QED BY <2>1, Awaits
<1>5. CASE Start(w) \/ Skip(w) \/ Step(w) \/ Pass(w) \/ Fail(w) \/ Close(w)
  BY <1>5 DEF Start, Skip, Step, Pass, Fail, Close
<1> QED BY <1>1, <1>2, <1>3, <1>4, <1>5, <1>6 DEF Work

-----------------------------------------------------------------------------
(* The parts of TypeOK.                                                    *)

WorldTyped ==
    /\ lead \in LeadStages \cup {"deleted"}
    /\ flow \in [Flows -> {"active", "inactive", "deleted"}]
    /\ count \in [changes : 0 .. MaxChanges, edits : 0 .. MaxEdits, faults : 0 .. MaxFaults]

RowsTyped ==
    /\ runs \in Seq(Run) /\ Len(runs) <= MaxRuns
    /\ DOMAIN steps = DOMAIN runs /\ DOMAIN starts = DOMAIN runs
    /\ \A r \in DOMAIN runs :
          /\ steps[r] \in Seq(StepStatus)
          /\ runs[r].status = "PENDING" => steps[r] = <<>>
          /\ steps[r] = <<>> \/ Len(steps[r]) = Len(Plan(r))

PlacesTyped ==
    /\ raised \in SUBSET Raised /\ queue \in SUBSET Job
    /\ worker \in [Workers -> Worker]

LEMMA TypeParts == TypeOK <=> WorldTyped /\ RowsTyped /\ PlacesTyped
BY DEF TypeOK, WorldTyped, RowsTyped, PlacesTyped, Plan

LEMMA Counted ==
    ASSUME WorldTyped
    PROVE  /\ count.changes < MaxChanges => [count EXCEPT !.changes = @ + 1] \in
                 [changes : 0 .. MaxChanges, edits : 0 .. MaxEdits, faults : 0 .. MaxFaults]
           /\ count.edits < MaxEdits => [count EXCEPT !.edits = @ + 1] \in
                 [changes : 0 .. MaxChanges, edits : 0 .. MaxEdits, faults : 0 .. MaxFaults]
           /\ count.faults < MaxFaults => [count EXCEPT !.faults = @ + 1] \in
                 [changes : 0 .. MaxChanges, edits : 0 .. MaxEdits, faults : 0 .. MaxFaults]
BY AutomationAssumption DEF WorldTyped

LEMMA WorldKept ==
    ASSUME TypeOK, [Next]_vars
    PROVE  WorldTyped'
<1>1. WorldTyped
  BY TypeParts
<1>2. CASE UNCHANGED vars
  BY <1>1, <1>2 DEF vars, WorldTyped
<1>3. CASE UserFollowsUp \/ DeleteLead \/ \E s \in LeadStages : UserMoves(s)
  BY <1>1, <1>3, Counted DEF UserFollowsUp, DeleteLead, UserMoves, WorldTyped
<1>4. CASE \E f \in Flows : ToggleStatus(f) \/ DeleteWorkflow(f) \/ UpdateWorkflow(f)
  <2> PICK f \in Flows : ToggleStatus(f) \/ DeleteWorkflow(f) \/ UpdateWorkflow(f)
    BY <1>4
  <2>1. Edit(f)
    BY DEF ToggleStatus, DeleteWorkflow, UpdateWorkflow
  <2>2. lead' = lead /\ count.edits < MaxEdits /\ count' = [count EXCEPT !.edits = @ + 1]
    BY <2>1 DEF Edit
  <2>3. flow' \in [Flows -> {"active", "inactive", "deleted"}]
    BY <1>1 DEF ToggleStatus, DeleteWorkflow, UpdateWorkflow, WorldTyped
  <2> QED BY <1>1, <2>2, <2>3, Counted DEF WorldTyped
<1>5. CASE \E x \in raised : Dispatch(x) \/ Enqueue(x) \/ Lose(x) \/ \E f \in Flows : CreateRun(x, f)
  BY <1>1, <1>5, Counted DEF Dispatch, Enqueue, Lose, CreateRun, WorldTyped, History, Fault
<1>6. CASE TakeUp
  BY <1>1, <1>6 DEF TakeUp, Take, WorldTyped, History
<1>7. CASE \E w \in Workers : Throw(w) \/ Die(w)
  BY <1>1, <1>7, Counted DEF Throw, Die, Fault, WorldTyped
<1>8. CASE \E w \in Workers : Act(w)
  BY <1>1, <1>8 DEF Act, Effect, WorldTyped, History
<1>9. CASE \E w \in Workers : \/ Start(w) \/ Skip(w) \/ Match(w) \/ Step(w)
                              \/ Pass(w) \/ Fail(w) \/ Close(w) \/ Follow(w)
  BY <1>1, <1>9 DEF Start, Skip, Match, Step, Pass, Fail, Close, Follow, WorldTyped, History
<1> QED BY <1>2, <1>3, <1>4, <1>5, <1>6, <1>7, <1>8, <1>9 DEF Next, Work

-----------------------------------------------------------------------------
(* A step of a worker keeps the invariant.                                 *)

LEMMA RowsAfter ==
    ASSUME IInv, NEW r \in DOMAIN runs, RowsMoved(r)
    PROVE  RowsTyped' /\ RowsShaped' /\ DOMAIN runs' = DOMAIN runs /\ Len(runs') = Len(runs)
<1>1. RowsTyped /\ RowsShaped
  BY TypeParts DEF IInv, ShapeInv
<1>2. /\ runs' \in Seq(Run) /\ Len(runs') = Len(runs) /\ DOMAIN runs' = DOMAIN runs
      /\ DOMAIN steps' = DOMAIN runs /\ DOMAIN starts' = DOMAIN runs
  BY <1>1 DEF RowsMoved, RowsTyped, RowsShaped
<1>3. \A q \in DOMAIN runs : Plan(q)' = Plan(q)
  BY DEF RowsMoved, Plan
<1>4. ASSUME NEW q \in DOMAIN runs
      PROVE  /\ steps'[q] \in Seq(StepStatus)
             /\ runs'[q].status = "PENDING" => steps'[q] = <<>>
             /\ steps'[q] = <<>> \/ Len(steps'[q]) = Len(Plan(q))
             /\ Len(starts'[q]) = Len(Plan(q))
  <2>1. CASE q = r
    <3>1. steps'[q] \in Seq(StepStatus)
      BY <1>2 DEF RowsMoved
    <3> QED BY <2>1, <3>1 DEF RowsMoved
  <2>2. CASE q # r
    BY <1>1, <2>2 DEF RowsMoved, RowsTyped, RowsShaped
  <2> QED BY <2>1, <2>2
<1>5. RowsTyped'
  <2>1. Len(runs') <= MaxRuns
    BY <1>1, <1>2 DEF RowsTyped
  <2> QED BY <1>2, <1>3, <1>4, <2>1 DEF RowsTyped
<1>6. RowsShaped'
  BY <1>2, <1>3, <1>4 DEF RowsMoved, RowsShaped
<1> QED BY <1>2, <1>5, <1>6

LEMMA RaisedAfter ==
    ASSUME IInv, NEW r \in DOMAIN runs, NEW depth, depth \in Depths,
           raised' = raised \/ RaisedOne(r, depth)
    PROVE  /\ raised' \in SUBSET Raised /\ IsFiniteSet(raised')
           /\ \A x \in raised' : x \in raised \/ (x.made = 0 /\ x.todo = {"unread"})
<1>1. TypeOK /\ IsFiniteSet(raised) /\ raised \in SUBSET Raised
  BY DEF IInv, ShapeInv, TypeOK
<1>2. CASE raised' = raised
  BY <1>1, <1>2
<1>3. CASE RaisedOne(r, depth)
  <2> PICK e \in Events, d \in Depths : raised' = raised \cup {Raise(e, d, runs[r].chain)}
    BY <1>3 DEF RaisedOne
  <2> DEFINE y == Raise(e, d, runs[r].chain)
  <2>1. runs[r].chain \in Nat
    BY <1>1, RunTyped
  <2>2. y \in Raised /\ y.made = 0 /\ y.todo = {"unread"}
    BY <1>1, <2>1, RaiseTyped
  <2>3. raised' = raised \cup {y}
    OBVIOUS
  <2> HIDE DEF y
  <2>4. IsFiniteSet(raised')
    BY <1>1, <2>3, FS_AddElement
  <2> QED BY <1>1, <2>2, <2>3, <2>4
<1> QED BY <1>2, <1>3

LEMMA WorkKeepsShape ==
    ASSUME IInv, NEW w \in Workers, NEW h, h = worker[w], NEW r, r = h.job.run,
           Work(w) \/ Throw(w) \/ Die(w), WorldTyped'
    PROVE  ShapeInv'
<1>1. /\ h.at # "idle" /\ RowsMoved(r) /\ Lands(w, h, r)
      /\ raised' = raised \/ RaisedOne(r, h.job.depth)
      /\ queue' = queue \/ HandedBack(w, r, h.job.depth)
  BY Moves, Carries
<1>2. r \in DOMAIN runs /\ h.job \in Job /\ h.job.depth \in Depths
  BY <1>1, AtWork, WorkerTyped, JobTyped DEF IInv, ShapeInv
<1>3. RowsTyped' /\ RowsShaped' /\ DOMAIN runs' = DOMAIN runs /\ Len(runs') = Len(runs)
  BY <1>1, <1>2, RowsAfter
<1>4. /\ raised' \in SUBSET Raised /\ IsFiniteSet(raised')
      /\ \A x \in raised' : x \in raised \/ (x.made = 0 /\ x.todo = {"unread"})
  BY <1>1, <1>2, RaisedAfter
<1>5. queue' \in SUBSET Job /\ \A j \in queue' : j \in queue \/ j.run = r
  BY <1>1 DEF HandedBack, IInv, ShapeInv, TypeOK
<1>6. worker \in [Workers -> Worker]
  BY DEF IInv, ShapeInv, TypeOK
<1>7. PICK k \in Worker :
        /\ worker' = [worker EXCEPT ![w] = k]
        /\ k.at # "idle" => /\ k.job = h.job
                            /\ k.at \in Acting => k.pos <= Len(Plan(r))
                            /\ StandsAt(k, r)'
  BY <1>1 DEF Lands
<1>8. worker' \in [Workers -> Worker] /\ worker'[w] = k /\ \A v \in Workers \ {w} : worker'[v] = worker[v]
  BY <1>6, <1>7
<1>9. TypeOK'
  BY <1>3, <1>4, <1>5, <1>8 DEF TypeOK, WorldTyped, RowsTyped, Plan
<1>10. \A q \in DOMAIN runs : Plan(q)' = Plan(q)
  BY <1>1 DEF RowsMoved, Plan
<1>11. Placed'
  <2>1. \A x \in raised' : x.made <= Len(runs')
    <3>1. runs \in Seq(Run)
      BY DEF IInv, ShapeInv, TypeOK
    <3>2. Len(runs) \in Nat
      BY <3>1
    <3> QED BY <1>3, <1>4, <3>2 DEF IInv, ShapeInv, Placed
  <2>2. \A j \in queue' : j.run \in DOMAIN runs'
    BY <1>2, <1>3, <1>5 DEF IInv, ShapeInv, Placed
  <2>3. ASSUME NEW v \in Workers, Busy(v)'
        PROVE  /\ RunOf(v)' \in DOMAIN runs'
               /\ worker'[v].at \in Acting => worker'[v].pos <= Len(Plan(RunOf(v)))'
    <3>1. CASE v = w
      BY <1>2, <1>3, <1>7, <1>8, <1>10, <2>3, <3>1 DEF Busy, RunOf
    <3>2. CASE v # w
      <4>1. worker'[v] = worker[v] /\ Busy(v) /\ RunOf(v)' = RunOf(v)
        BY <1>8, <2>3, <3>2 DEF Busy, RunOf
      <4>2. RunOf(v) \in DOMAIN runs /\ (worker[v].at \in Acting => worker[v].pos <= Len(Plan(RunOf(v))))
        BY <4>1 DEF IInv, ShapeInv, Placed
      <4>3. PICK q : q = RunOf(v)
        OBVIOUS
      <4>4. Plan(q)' = Plan(q)
        BY <1>10, <4>2, <4>3
      <4>5. Plan(RunOf(v))' = Plan(RunOf(v))
        BY <4>1, <4>3, <4>4 DEF Plan
      <4> QED BY <1>3, <4>1, <4>2, <4>5
    <3> QED BY <3>1, <3>2
  <2> QED BY <2>1, <2>2, <2>3 DEF Placed
<1>12. DepthsKept'
  BY <1>4 DEF IInv, ShapeInv, DepthsKept
<1> QED BY <1>3, <1>4, <1>9, <1>11, <1>12 DEF ShapeInv

LEMMA WorkKeepsProgress ==
    ASSUME IInv, NEW w \in Workers, NEW h, h = worker[w], NEW r, r = h.job.run, Work(w) \/ Throw(w) \/ Die(w)
    PROVE  ProgressInv'
<1>1. /\ h.at # "idle" /\ RowsMoved(r) /\ Lands(w, h, r)
      /\ raised' = raised \/ RaisedOne(r, h.job.depth)
      /\ queue' = queue \/ HandedBack(w, r, h.job.depth)
  BY Moves, Carries
<1>2. r \in DOMAIN runs /\ h.job \in Job /\ h.job.depth \in Depths
  BY <1>1, AtWork, WorkerTyped, JobTyped DEF IInv, ShapeInv
<1>3. DOMAIN runs' = DOMAIN runs /\ DOMAIN steps = DOMAIN runs /\ DOMAIN steps' = DOMAIN runs
  BY <1>1, <1>2, RowsAfter DEF RowsTyped, IInv, ShapeInv, TypeOK
<1>4. \A x \in raised' : x \in raised \/ x.made = 0
  BY <1>1, <1>2, RaisedAfter
<1>5. worker \in [Workers -> Worker]
  BY DEF IInv, ShapeInv, TypeOK
<1>6. PICK k \in Worker :
        /\ worker' = [worker EXCEPT ![w] = k]
        /\ k.at # "idle" => k.job = h.job /\ StandsAt(k, r)'
  BY <1>1 DEF Lands
<1>7. worker'[w] = k /\ \A v \in Workers \ {w} : worker'[v] = worker[v]
  BY <1>5, <1>6
<1>8. \A v \in Workers : Busy(v)' => Busy(v) /\ RunOf(v)' = RunOf(v) /\ (v # w => RunOf(v) # r)
  <2>1. Busy(w) /\ RunOf(w) = r
    BY <1>1 DEF Busy, RunOf
  <2>2. \A v \in Workers \ {w} : Busy(v) => RunOf(v) # r
    BY <2>1 DEF IInv, ProgressInv, HeldOnce
  <2>3. Busy(w)' => RunOf(w)' = r
    BY <1>6, <1>7 DEF Busy, RunOf
  <2> QED BY <1>7, <2>1, <2>2, <2>3 DEF Busy, RunOf
<1>9. HeldOnce'
  <2>1. HeldOnce /\ Busy(w) /\ RunOf(w) = r
    BY <1>1 DEF IInv, ProgressInv, Busy, RunOf
  <2>2. \A j \in queue : j.run # r
    BY <2>1 DEF HeldOnce
  <2>3. \A x \in raised : x.made # r
    BY <2>1 DEF HeldOnce
  <2>4. r # 0 /\ \A j \in queue : j.run # 0
    BY <1>2 DEF IInv, ShapeInv, TypeOK, Placed
  <2>5. \A v \in Workers : Busy(v) => RunOf(v) # 0
    BY DEF IInv, ShapeInv, TypeOK, Placed
  <2>6. \A j \in queue' : j \in queue \/ (~Busy(w)' /\ j.run = r)
    BY <1>1 DEF HandedBack, Busy
  <2>7. \A i, j \in queue' : i \notin queue /\ j \notin queue => i = j
    BY <1>1 DEF HandedBack
  <2>8. \A x, y \in raised' : x.made # 0 /\ x.made = y.made => x = y
    BY <1>4, <2>1 DEF HeldOnce
  <2>9. \A x \in raised' : \A j \in queue' : x.made # j.run
    BY <1>4, <2>1, <2>3, <2>4, <2>6 DEF HeldOnce
  <2>10. \A x \in raised' : \A v \in Workers : Busy(v)' => x.made # RunOf(v)'
    BY <1>4, <1>8, <2>1, <2>5 DEF HeldOnce
  <2>11. \A i, j \in queue' : i.run = j.run => i = j
    BY <2>1, <2>2, <2>6, <2>7 DEF HeldOnce
  <2>12. \A j \in queue' : \A v \in Workers : Busy(v)' => j.run # RunOf(v)'
    BY <1>8, <2>1, <2>6 DEF HeldOnce
  <2>13. \A u, v \in Workers : Busy(u)' /\ Busy(v)' /\ RunOf(u)' = RunOf(v)' => u = v
    BY <1>8, <2>1 DEF HeldOnce
  <2> QED BY <2>8, <2>9, <2>10, <2>11, <2>12, <2>13 DEF HeldOnce
<1>10. PendingUnbegun'
  <2>1. ASSUME NEW q \in DOMAIN runs, q # r
        PROVE  runs'[q] = runs[q] /\ BegunTo(q, 1)' = BegunTo(q, 1)
    BY <1>1, <2>1 DEF RowsMoved, BegunTo
  <2>2. \A q \in DOMAIN runs : q # r /\ runs'[q].status = "PENDING" => BegunTo(q, 1)'
    BY <2>1 DEF IInv, ProgressInv, PendingUnbegun
  <2>3. runs'[r].status = "PENDING" => BegunTo(r, 1)'
    BY <1>1 DEF RowsMoved
  <2> QED BY <1>3, <2>2, <2>3 DEF PendingUnbegun
<1>11. ASSUME NEW v \in Workers, Busy(v)' PROVE StandsAt(worker[v], RunOf(v))'
  <2>1. CASE v = w
    <3>1. RunOf(v)' = r /\ worker'[v] = k /\ k.at # "idle"
      BY <1>6, <1>7, <1>11, <2>1 DEF Busy, RunOf
    <3>2. StandsAt(k, r)'
      BY <1>6, <3>1
    <3> QED BY <3>1, <3>2 DEF StandsAt, BegunTo, DoneTo, OpenFrom
  <2>2. CASE v # w
    <3>1. worker'[v] = worker[v] /\ Busy(v) /\ RunOf(v)' = RunOf(v) /\ RunOf(v) # r
      BY <1>7, <1>8, <1>11, <2>2
    <3>2. PICK g, q : g = worker[v] /\ q = RunOf(v)
      OBVIOUS
    <3>3. StandsAt(g, q) /\ q \in DOMAIN runs
      BY <3>1, <3>2 DEF IInv, ProgressInv, ShapeInv, Placed
    <3>4. runs'[q] = runs[q] /\ steps'[q] = steps[q] /\ starts'[q] = starts[q]
      BY <1>1, <3>1, <3>2, <3>3 DEF RowsMoved
    <3>5. StandsAt(g, q)'
      BY <3>3, <3>4 DEF StandsAt, BegunTo, DoneTo, OpenFrom
    <3> QED BY <3>1, <3>2, <3>5 DEF StandsAt, BegunTo, DoneTo, OpenFrom
  <2> QED BY <2>1, <2>2
<1> QED BY <1>9, <1>10, <1>11 DEF ProgressInv

-----------------------------------------------------------------------------
(* Steps that leave executions, queue and workers alone.                   *)

LEMMA RaisedOnly ==
    ASSUME IInv, UNCHANGED <<runs, steps, starts, queue, worker>>, WorldTyped',
           raised' \in SUBSET Raised, IsFiniteSet(raised'),
           \A x \in raised' : \/ x \in raised
                              \/ x.made = 0 /\ (x.todo = {"unread"} \/ x.depth <= MaxDepth)
    PROVE  IInv'
<1>1. TypeOK'
  BY DEF IInv, ShapeInv, TypeOK, WorldTyped
<1>2. RowsShaped'
  BY DEF IInv, ShapeInv, RowsShaped, Plan
<1>3. Placed'
  <2>1. runs \in Seq(Run)
    BY DEF IInv, ShapeInv, TypeOK
  <2>2. Len(runs) \in Nat
    BY <2>1
  <2>3. \A x \in raised' : x.made <= Len(runs')
    BY <2>2 DEF IInv, ShapeInv, Placed
  <2> QED BY <2>3 DEF IInv, ShapeInv, Placed, Busy, RunOf, Plan
<1>4. DepthsKept'
  BY DEF IInv, ShapeInv, DepthsKept
<1>5. HeldOnce'
  <2>1. \A j \in queue : j.run # 0
    BY DEF IInv, ShapeInv, Placed, TypeOK
  <2>2. \A v \in Workers : Busy(v) => RunOf(v) # 0
    BY DEF IInv, ShapeInv, Placed, TypeOK
  <2> QED BY <2>1, <2>2 DEF IInv, ProgressInv, HeldOnce, Busy, RunOf
<1>6. PendingUnbegun'
  BY DEF IInv, ProgressInv, PendingUnbegun, BegunTo
<1>7. \A w \in Workers : Busy(w)' => StandsAt(worker[w], RunOf(w))'
  BY DEF IInv, ProgressInv, Busy, RunOf, StandsAt, BegunTo, DoneTo, OpenFrom
<1> QED BY <1>1, <1>2, <1>3, <1>4, <1>5, <1>6, <1>7 DEF IInv, ShapeInv, ProgressInv

LEMMA UserKeeps ==
    ASSUME IInv, WorldTyped',
           UserFollowsUp \/ DeleteLead \/ \E s \in LeadStages : UserMoves(s)
    PROVE  IInv'
<1>1. /\ TypeOK /\ IsFiniteSet(raised) /\ raised \in SUBSET Raised
      /\ UNCHANGED <<runs, steps, starts, queue, worker>>
  BY DEF IInv, ShapeInv, TypeOK, UserFollowsUp, DeleteLead, UserMoves
<1>2. CASE raised' = raised
  BY <1>1, <1>2, RaisedOnly
<1>3. ASSUME NEW e \in Events, raised' = raised \cup {Raise(e, 0, 0)}
      PROVE  IInv'
  <2> DEFINE y == Raise(e, 0, 0)
  <2>1. 0 \in Depths /\ 0 \in Nat
    BY AutomationAssumption DEF Depths
  <2>2. y \in Raised /\ y.made = 0 /\ y.todo = {"unread"}
    BY <1>1, <2>1, RaiseTyped
  <2>3. raised' = raised \cup {y}
    BY <1>3
  <2> HIDE DEF y
  <2>4. IsFiniteSet(raised')
    BY <1>1, <2>3, FS_AddElement
  <2> QED BY <1>1, <2>2, <2>3, <2>4, RaisedOnly
<1>4. CASE UserFollowsUp
  <2>1. [type |-> "followup_created"] \in Events
    BY DEF Events
  <2> QED BY <1>3, <1>4, <2>1 DEF UserFollowsUp
<1>5. CASE DeleteLead
  BY <1>2, <1>5 DEF DeleteLead
<1>6. CASE \E s \in LeadStages : UserMoves(s)
  <2> PICK s \in LeadStages : UserMoves(s)
    BY <1>6
  <2>1. [type |-> "stage_changed", stage |-> s] \in Events
    BY DEF Events
  <2> QED BY <1>3, <2>1 DEF UserMoves
<1> QED BY <1>4, <1>5, <1>6

LEMMA ToggleKeeps ==
    ASSUME IInv, WorldTyped', NEW f \in Flows, ToggleStatus(f) \/ DeleteWorkflow(f)
    PROVE  IInv'
<1>1. UNCHANGED <<runs, steps, starts, queue, worker, raised>>
  BY DEF ToggleStatus, DeleteWorkflow, Edit
<1>2. IsFiniteSet(raised) /\ raised \in SUBSET Raised
  BY DEF IInv, ShapeInv, TypeOK
<1> QED BY <1>1, <1>2, RaisedOnly

LEMMA LoseKeeps ==
    ASSUME IInv, WorldTyped', NEW x \in raised, Lose(x)
    PROVE  IInv'
<1>1. UNCHANGED <<runs, steps, starts, queue, worker>> /\ raised' = raised \ {x}
  BY DEF Lose
<1>2. IsFiniteSet(raised) /\ raised \in SUBSET Raised
  BY DEF IInv, ShapeInv, TypeOK
<1>3. IsFiniteSet(raised')
  BY <1>1, <1>2, FS_RemoveElement
<1> QED BY <1>1, <1>2, <1>3, RaisedOnly

(* One event is replaced by another.                                       *)
LEMMA ReplacedFinite ==
    ASSUME IsFiniteSet(raised), NEW x, NEW y, raised' = (raised \ {x}) \cup {y}
    PROVE  IsFiniteSet(raised')
<1>1. IsFiniteSet(raised \ {x})
  BY FS_RemoveElement
<1> QED BY <1>1, FS_AddElement

LEMMA DispatchKeeps ==
    ASSUME IInv, WorldTyped', NEW x \in raised, Dispatch(x)
    PROVE  IInv'
<1>1. UNCHANGED <<runs, steps, starts, queue, worker>> /\ x.todo = {"unread"}
  BY DEF Dispatch, History
<1>2. IsFiniteSet(raised) /\ raised \in SUBSET Raised
  BY DEF IInv, ShapeInv, TypeOK
<1>3. CASE x.depth > MaxDepth \/ Triggers(x.event) = {}
  <2>1. raised' = raised \ {x}
    BY <1>3 DEF Dispatch
  <2>2. IsFiniteSet(raised')
    BY <1>2, <2>1, FS_RemoveElement
  <2> QED BY <1>1, <1>2, <2>1, <2>2, RaisedOnly
<1>4. CASE ~(x.depth > MaxDepth \/ Triggers(x.event) = {})
  <2> DEFINE y == [x EXCEPT !.todo = Triggers(x.event)]
  <2>1. raised' = (raised \ {x}) \cup {y}
    BY <1>4 DEF Dispatch
  <2>2. Triggers(x.event) \in SUBSET Flows
    BY DEF Triggers
  <2>3. x \in Raised /\ x.made = 0
    BY <1>1, <1>2 DEF IInv, ShapeInv, DepthsKept
  <2>4. y \in Raised /\ y.made = 0 /\ y.depth = x.depth
    BY <2>2, <2>3 DEF Raised
  <2>5. x.depth <= MaxDepth
    BY <1>4, <2>3, AutomationAssumption DEF Raised, Depths
  <2> HIDE DEF y
  <2>6. IsFiniteSet(raised')
    BY <1>2, <2>1, ReplacedFinite
  <2> QED BY <1>1, <1>2, <2>1, <2>4, <2>5, <2>6, RaisedOnly
<1> QED BY <1>3, <1>4

-----------------------------------------------------------------------------
(* The actions of a workflow are replaced.                                 *)

RunKept(r) ==
    /\ runs'[r].flow = runs[r].flow /\ runs'[r].status = runs[r].status
    /\ runs'[r].chain = runs[r].chain
    /\ starts'[r] = starts[r] /\ (steps'[r] = steps[r] \/ steps'[r] = <<>>)

LEMMA StandsKept ==
    ASSUME NEW h, NEW r, StandsAt(h, r), RunKept(r)
    PROVE  StandsAt(h, r)'
<1>1. \A p : BegunTo(r, p) => BegunTo(r, p)'
  BY DEF BegunTo, RunKept
<1>2. CASE steps'[r] = steps[r]
  BY <1>1, <1>2 DEF StandsAt, DoneTo, OpenFrom, RunKept
<1>3. CASE steps'[r] = <<>>
  <2>1. \A p : DoneTo(r, p)' /\ OpenFrom(r, p)'
    BY <1>3 DEF DoneTo, OpenFrom
  <2> QED BY <1>1, <2>1 DEF StandsAt, RunKept
<1> QED BY <1>2, <1>3 DEF RunKept

LEMMA UpdateRows ==
    ASSUME IInv, NEW f \in Flows, UpdateWorkflow(f)
    PROVE  /\ RowsTyped' /\ RowsShaped' /\ DOMAIN runs' = DOMAIN runs /\ Len(runs') = Len(runs)
           /\ \A r \in DOMAIN runs : RunKept(r)
<1>1. /\ runs' = [r \in DOMAIN runs |-> IF runs[r].flow = f THEN [runs[r] EXCEPT !.edited = TRUE]
                                                            ELSE runs[r]]
      /\ steps' = [r \in DOMAIN runs |-> IF runs[r].flow = f THEN <<>> ELSE steps[r]]
      /\ starts' = starts
  BY DEF UpdateWorkflow, Edit
<1>2. RowsTyped /\ RowsShaped /\ TypeOK
  BY TypeParts DEF IInv, ShapeInv
<1>3. /\ Len(runs) \in Nat /\ DOMAIN runs = 1 .. Len(runs)
      /\ DOMAIN runs' = DOMAIN runs /\ DOMAIN steps' = DOMAIN runs
  BY <1>1, <1>2 DEF RowsTyped
<1>4. ASSUME NEW r \in DOMAIN runs
      PROVE  runs'[r] \in Run /\ steps'[r] \in Seq(StepStatus) /\ RunKept(r)
  <2>1. runs[r] \in Run /\ steps[r] \in Seq(StepStatus)
    BY <1>2, RunTyped DEF RowsTyped
  <2>2. [runs[r] EXCEPT !.edited = TRUE] \in Run
    BY <2>1 DEF Run
  <2>3. /\ [runs[r] EXCEPT !.edited = TRUE].flow = runs[r].flow
        /\ [runs[r] EXCEPT !.edited = TRUE].status = runs[r].status
        /\ [runs[r] EXCEPT !.edited = TRUE].chain = runs[r].chain
    BY <2>1 DEF Run
  <2>4. <<>> \in Seq(StepStatus)
    OBVIOUS
  <2>5. CASE runs[r].flow = f
    <3>1. runs'[r] = [runs[r] EXCEPT !.edited = TRUE] /\ steps'[r] = <<>>
      BY <1>1, <2>5
    <3> QED BY <1>1, <2>2, <2>3, <2>4, <3>1 DEF RunKept
  <2>6. CASE runs[r].flow # f
    <3>1. runs'[r] = runs[r] /\ steps'[r] = steps[r]
      BY <1>1, <2>6
    <3> QED BY <1>1, <2>1, <3>1 DEF RunKept
  <2> QED BY <2>5, <2>6
<1>5. runs' \in Seq(Run) /\ Len(runs') = Len(runs)
  <2>1. runs' = [r \in 1 .. Len(runs) |-> runs'[r]]
    BY <1>1, <1>3
  <2> QED BY <1>3, <1>4, <2>1
<1>6. steps' \in Seq(Seq(StepStatus))
  <2>1. steps' = [r \in 1 .. Len(runs) |-> steps'[r]]
    BY <1>1, <1>3
  <2> QED BY <1>3, <1>4, <2>1
<1>7. \A r \in DOMAIN runs : Plan(r)' = Plan(r)
  BY <1>4 DEF RunKept, Plan
<1>8. RowsTyped'
  <2>1. \A r \in DOMAIN runs : /\ runs'[r].status = "PENDING" => steps'[r] = <<>>
                               /\ steps'[r] = <<>> \/ Len(steps'[r]) = Len(Plan(r))
    BY <1>2, <1>4 DEF RowsTyped, RunKept
  <2> QED BY <1>1, <1>2, <1>3, <1>4, <1>5, <1>7, <2>1 DEF RowsTyped
<1>9. RowsShaped'
  BY <1>1, <1>2, <1>3, <1>6, <1>7 DEF RowsShaped
<1> QED BY <1>3, <1>4, <1>5, <1>8, <1>9

(* The events, with the old actions of f in their snapshots.               *)
Staled(f, x) == IF f \in x.todo THEN [x EXCEPT !.stale = @ \cup {f}] ELSE x

LEMMA UpdateRaised ==
    ASSUME IInv, NEW f \in Flows, UpdateWorkflow(f)
    PROVE  /\ raised' \in SUBSET Raised /\ IsFiniteSet(raised')
           /\ raised' = {Staled(f, x) : x \in raised}
           /\ \A x \in raised : /\ Staled(f, x).event = x.event /\ Staled(f, x).todo = x.todo
                                /\ Staled(f, x).depth = x.depth /\ Staled(f, x).made = x.made
                                /\ Staled(f, x).chain = x.chain
<1>1. raised' = {Staled(f, x) : x \in raised}
  BY DEF UpdateWorkflow, Staled
<1>2. IsFiniteSet(raised) /\ raised \in SUBSET Raised
  BY DEF IInv, ShapeInv, TypeOK
<1>3. ASSUME NEW x \in raised
      PROVE  /\ Staled(f, x) \in Raised
             /\ Staled(f, x).event = x.event /\ Staled(f, x).todo = x.todo
             /\ Staled(f, x).depth = x.depth /\ Staled(f, x).made = x.made
             /\ Staled(f, x).chain = x.chain
  <2>1. x \in Raised
    BY <1>2
  <2>2. x.stale \cup {f} \in SUBSET Flows
    BY <2>1 DEF Raised
  <2> QED BY <2>1, <2>2 DEF Staled, Raised
<1>4. PICK g : g = [x \in raised |-> Staled(f, x)]
  OBVIOUS
<1>5. g \in Surjection(raised, raised')
  BY <1>1, <1>4 DEF Surjection
<1>6. IsFiniteSet(raised')
  BY <1>2, <1>5, FS_Surjection
<1> QED BY <1>1, <1>3, <1>6

LEMMA UpdateKeeps ==
    ASSUME IInv, WorldTyped', NEW f \in Flows, UpdateWorkflow(f)
    PROVE  IInv'
<1>1. UNCHANGED <<queue, worker>>
  BY DEF UpdateWorkflow, Edit
<1>2. /\ RowsTyped' /\ RowsShaped' /\ DOMAIN runs' = DOMAIN runs /\ Len(runs') = Len(runs)
      /\ \A r \in DOMAIN runs : RunKept(r)
  BY UpdateRows
<1>3. /\ raised' \in SUBSET Raised /\ IsFiniteSet(raised')
      /\ raised' = {Staled(f, x) : x \in raised}
      /\ \A x \in raised : /\ Staled(f, x).todo = x.todo
                           /\ Staled(f, x).depth = x.depth /\ Staled(f, x).made = x.made
  BY UpdateRaised
<1>4. \A x \in raised' : \E y \in raised : /\ x = Staled(f, y) /\ x.todo = y.todo
                                           /\ x.depth = y.depth /\ x.made = y.made
  BY <1>3
<1>5. \A q \in DOMAIN runs : Plan(q)' = Plan(q)
  BY <1>2 DEF RunKept, Plan
<1>6. TypeOK'
  BY <1>1, <1>2, <1>3 DEF TypeOK, WorldTyped, RowsTyped, Plan, IInv, ShapeInv
<1>7. \A v \in Workers : Busy(v) => RunOf(v) \in DOMAIN runs /\ RunOf(v)' = RunOf(v)
  BY <1>1 DEF IInv, ShapeInv, Placed, RunOf
<1>8. Placed'
  <2>1. \A x \in raised' : x.made <= Len(runs')
    BY <1>2, <1>4 DEF IInv, ShapeInv, Placed
  <2>2. \A j \in queue' : j.run \in DOMAIN runs'
    BY <1>1, <1>2 DEF IInv, ShapeInv, Placed
  <2>3. ASSUME NEW v \in Workers, Busy(v)'
        PROVE  /\ RunOf(v)' \in DOMAIN runs'
               /\ worker'[v].at \in Acting => worker'[v].pos <= Len(Plan(RunOf(v)))'
    <3>1. worker'[v] = worker[v] /\ Busy(v)
      BY <1>1, <2>3 DEF Busy
    <3>2. PICK q : q = RunOf(v)
      OBVIOUS
    <3>3. Plan(q)' = Plan(q)
      BY <1>5, <1>7, <3>1, <3>2
    <3>4. Plan(RunOf(v))' = Plan(RunOf(v))
      BY <1>7, <3>1, <3>2, <3>3 DEF Plan
    <3> QED BY <1>2, <1>7, <3>1, <3>4 DEF IInv, ShapeInv, Placed
  <2> QED BY <2>1, <2>2, <2>3 DEF Placed
<1>9. DepthsKept'
  BY <1>4 DEF IInv, ShapeInv, DepthsKept
<1>10. HeldOnce'
  <2>1. HeldOnce
    BY DEF IInv, ProgressInv
  <2>2. \A x, y \in raised' : x.made # 0 /\ x.made = y.made => x = y
    BY <1>4, <2>1 DEF HeldOnce
  <2>3. \A x \in raised' : \A j \in queue' : x.made # j.run
    BY <1>1, <1>4, <2>1 DEF HeldOnce
  <2>4. \A x \in raised' : \A v \in Workers : Busy(v)' => x.made # RunOf(v)'
    BY <1>1, <1>4, <2>1 DEF HeldOnce, Busy, RunOf
  <2> QED BY <1>1, <2>1, <2>2, <2>3, <2>4 DEF HeldOnce, Busy, RunOf
<1>11. PendingUnbegun'
  <2>1. \A r \in DOMAIN runs : BegunTo(r, 1)' = BegunTo(r, 1)
    BY <1>2 DEF RunKept, BegunTo
  <2> QED BY <1>2, <2>1 DEF IInv, ProgressInv, PendingUnbegun, RunKept
<1>12. ASSUME NEW v \in Workers, Busy(v)' PROVE StandsAt(worker[v], RunOf(v))'
  <2>1. worker'[v] = worker[v] /\ Busy(v)
    BY <1>1, <1>12 DEF Busy
  <2>2. PICK g, q : g = worker[v] /\ q = RunOf(v)
    OBVIOUS
  <2>3. StandsAt(g, q) /\ q \in DOMAIN runs
    BY <1>7, <2>1, <2>2 DEF IInv, ProgressInv
  <2>4. StandsAt(g, q)'
    BY <1>2, <2>3, StandsKept
  <2> QED BY <1>7, <2>1, <2>2, <2>4 DEF StandsAt, BegunTo, DoneTo, OpenFrom
<1> QED BY <1>2, <1>3, <1>6, <1>8, <1>9, <1>10, <1>11, <1>12 DEF IInv, ShapeInv, ProgressInv

-----------------------------------------------------------------------------
(* An execution is created, queued and taken up.                           *)

LEMMA TakeKeeps ==
    ASSUME IInv, WorldTyped', NEW w \in Workers, NEW j \in queue, Take(w, j)
    PROVE  IInv'
<1>1. /\ worker[w].at = "idle" /\ queue' = queue \ {j}
      /\ UNCHANGED <<runs, steps, starts, raised>>
  BY DEF Take, History
<1>2. j \in Job /\ worker \in [Workers -> Worker] /\ j.run \in DOMAIN runs
  BY DEF IInv, ShapeInv, TypeOK, Placed
<1> DEFINE k == [at |-> "start", job |-> j]
<1>3. k \in Worker /\ k.at = "start" /\ k.job = j
  BY <1>2 DEF Worker
<1>4. UNCHANGED worker \/ (worker' = [worker EXCEPT ![w] = k] /\ runs[j.run].status = "PENDING")
  BY DEF Take, Become
<1> HIDE DEF k
<1>5. /\ worker' \in [Workers -> Worker]
      /\ \A v \in Workers \ {w} : worker'[v] = worker[v]
      /\ worker'[w] = worker[w] \/ (worker'[w] = k /\ runs[j.run].status = "PENDING")
  BY <1>2, <1>3, <1>4
<1>6. TypeOK'
  BY <1>1, <1>5 DEF IInv, ShapeInv, TypeOK, WorldTyped
<1>7. RowsShaped'
  BY <1>1 DEF IInv, ShapeInv, RowsShaped, Plan
<1>8. ASSUME NEW v \in Workers, Busy(v)'
      PROVE  \/ worker'[v] = worker[v] /\ Busy(v) /\ RunOf(v)' = RunOf(v)
             \/ /\ v = w /\ worker'[v] = k /\ RunOf(v)' = j.run
                /\ runs[j.run].status = "PENDING"
  BY <1>1, <1>3, <1>5, <1>8 DEF Busy, RunOf
<1>9. Placed'
  <2>1. (\A x \in raised' : x.made <= Len(runs')) /\ (\A i \in queue' : i.run \in DOMAIN runs')
    BY <1>1 DEF IInv, ShapeInv, Placed
  <2>2. ASSUME NEW v \in Workers, Busy(v)'
        PROVE  /\ RunOf(v)' \in DOMAIN runs'
               /\ worker'[v].at \in Acting => worker'[v].pos <= Len(Plan(RunOf(v)))'
    <3>1. CASE worker'[v] = worker[v] /\ Busy(v) /\ RunOf(v)' = RunOf(v)
      BY <1>1, <3>1 DEF IInv, ShapeInv, Placed, Plan
    <3>2. CASE worker'[v] = k /\ RunOf(v)' = j.run
      BY <1>1, <1>2, <1>3, <3>2 DEF Acting
    <3> QED BY <1>8, <2>2, <3>1, <3>2
  <2> QED BY <2>1, <2>2 DEF Placed
<1>10. DepthsKept' /\ IsFiniteSet(raised')
  BY <1>1 DEF IInv, ShapeInv, DepthsKept
<1>11. HeldOnce'
  <2>1. HeldOnce
    BY DEF IInv, ProgressInv
  <2>2. /\ \A i \in queue' : i \in queue /\ i.run # j.run
        /\ \A x \in raised : x.made # j.run
        /\ \A v \in Workers : Busy(v) => RunOf(v) # j.run
    BY <1>1, <2>1 DEF HeldOnce
  <2>3. \A x \in raised' : \A v \in Workers : Busy(v)' => x.made # RunOf(v)'
    BY <1>1, <1>8, <2>1, <2>2 DEF HeldOnce
  <2>4. \A i \in queue' : \A v \in Workers : Busy(v)' => i.run # RunOf(v)'
    BY <1>1, <1>8, <2>1, <2>2 DEF HeldOnce
  <2>5. \A u, v \in Workers : Busy(u)' /\ Busy(v)' /\ RunOf(u)' = RunOf(v)' => u = v
    BY <1>8, <2>1, <2>2 DEF HeldOnce
  <2>6. /\ \A x, y \in raised' : x.made # 0 /\ x.made = y.made => x = y
        /\ \A x \in raised' : \A i \in queue' : x.made # i.run
        /\ \A h, i \in queue' : h.run = i.run => h = i
    BY <1>1, <2>1 DEF HeldOnce
  <2> QED BY <2>3, <2>4, <2>5, <2>6 DEF HeldOnce
<1>12. PendingUnbegun'
  BY <1>1 DEF IInv, ProgressInv, PendingUnbegun, BegunTo
<1>13. ASSUME NEW v \in Workers, Busy(v)' PROVE StandsAt(worker[v], RunOf(v))'
  <2>1. CASE worker'[v] = worker[v] /\ Busy(v) /\ RunOf(v)' = RunOf(v)
    BY <1>1, <2>1 DEF IInv, ProgressInv, StandsAt, BegunTo, DoneTo, OpenFrom
  <2>2. CASE worker'[v] = k /\ RunOf(v)' = j.run /\ runs[j.run].status = "PENDING"
    BY <1>1, <1>3, <2>2 DEF StandsAt
  <2> QED BY <1>8, <1>13, <2>1, <2>2
<1> QED BY <1>6, <1>7, <1>9, <1>10, <1>11, <1>12, <1>13 DEF IInv, ShapeInv, ProgressInv

LEMMA EnqueueKeeps ==
    ASSUME IInv, WorldTyped', NEW x \in raised, Enqueue(x)
    PROVE  IInv'
<1> DEFINE j == [run |-> x.made, depth |-> x.depth + 1, name |-> "execute"]
           y == [x EXCEPT !.made = 0]
<1>1. /\ x.made # 0 /\ UNCHANGED <<runs, steps, starts, worker>>
      /\ queue' = queue \cup {j}
      /\ raised' = raised \ {x} \/ raised' = (raised \ {x}) \cup {y}
  BY DEF Enqueue, History
<1>2. /\ TypeOK /\ x \in Raised /\ x.depth \in Depths /\ x.made \in 0 .. MaxRuns
      /\ x.depth <= MaxDepth /\ x.todo # {"unread"} /\ x.made <= Len(runs) /\ runs \in Seq(Run)
  BY <1>1, EventTyped DEF IInv, ShapeInv, DepthsKept, Placed, TypeOK
<1>3. x.made \in DOMAIN runs /\ x.made \in 1 .. MaxRuns
  BY <1>1, <1>2, AutomationAssumption
<1>4. x.depth + 1 \in Depths
  BY <1>2, AutomationAssumption DEF Depths
<1>5. j \in Job /\ j.run = x.made
  BY <1>3, <1>4 DEF Job
<1>6. y \in Raised /\ y.made = 0 /\ y.depth = x.depth
  <2>1. 0 \in 0 .. MaxRuns
    BY AutomationAssumption
  <2> QED BY <1>2, <2>1 DEF Raised
<1> HIDE DEF j, y
<1>7. IsFiniteSet(raised) /\ raised \in SUBSET Raised
  BY DEF IInv, ShapeInv, TypeOK
<1>8. IsFiniteSet(raised')
  BY <1>1, <1>7, ReplacedFinite, FS_RemoveElement
<1>9. /\ raised' \in SUBSET Raised
      /\ \A z \in raised' : (z \in raised /\ z # x) \/ (z.made = 0 /\ z.depth <= MaxDepth)
  BY <1>1, <1>2, <1>6, <1>7
<1>10. TypeOK'
  BY <1>1, <1>5, <1>9 DEF IInv, ShapeInv, TypeOK, WorldTyped
<1>11. RowsShaped'
  BY <1>1 DEF IInv, ShapeInv, RowsShaped, Plan
<1>12. Placed'
  <2>1. Len(runs) \in Nat
    BY <1>2
  <2>2. \A z \in raised' : z.made <= Len(runs')
    BY <1>1, <1>9, <2>1 DEF IInv, ShapeInv, Placed
  <2>3. \A i \in queue' : i.run \in DOMAIN runs'
    BY <1>1, <1>3, <1>5 DEF IInv, ShapeInv, Placed
  <2> QED BY <1>1, <2>2, <2>3 DEF IInv, ShapeInv, Placed, Busy, RunOf, Plan
<1>13. DepthsKept'
  BY <1>9 DEF IInv, ShapeInv, DepthsKept
<1>14. HeldOnce'
  <2>1. HeldOnce
    BY DEF IInv, ProgressInv
  <2>2. /\ \A z \in raised : z # x => z.made # x.made
        /\ \A i \in queue : i.run # x.made
        /\ \A v \in Workers : Busy(v) => RunOf(v) # x.made
    BY <1>1, <2>1 DEF HeldOnce
  <2>3. /\ \A i \in queue' : i.run # 0
        /\ \A v \in Workers : Busy(v) => RunOf(v) # 0
    BY <1>1, <1>3, <1>5 DEF IInv, ShapeInv, Placed, TypeOK
  <2>4. \A u, z \in raised' : u.made # 0 /\ u.made = z.made => u = z
    BY <1>9, <2>1 DEF HeldOnce
  <2>5. \A z \in raised' : \A i \in queue' : z.made # i.run
    BY <1>1, <1>5, <1>9, <2>1, <2>2, <2>3 DEF HeldOnce
  <2>6. \A z \in raised' : \A v \in Workers : Busy(v)' => z.made # RunOf(v)'
    BY <1>1, <1>9, <2>1, <2>3 DEF HeldOnce, Busy, RunOf
  <2>7. \A h, i \in queue' : h.run = i.run => h = i
    BY <1>1, <1>5, <2>1, <2>2 DEF HeldOnce
  <2>8. \A i \in queue' : \A v \in Workers : Busy(v)' => i.run # RunOf(v)'
    BY <1>1, <1>5, <2>1, <2>2 DEF HeldOnce, Busy, RunOf
  <2>9. \A u, v \in Workers : Busy(u)' /\ Busy(v)' /\ RunOf(u)' = RunOf(v)' => u = v
    BY <1>1, <2>1 DEF HeldOnce, Busy, RunOf
  <2> QED BY <2>4, <2>5, <2>6, <2>7, <2>8, <2>9 DEF HeldOnce
<1>15. PendingUnbegun'
  BY <1>1 DEF IInv, ProgressInv, PendingUnbegun, BegunTo
<1>16. \A w \in Workers : Busy(w)' => StandsAt(worker[w], RunOf(w))'
  BY <1>1 DEF IInv, ProgressInv, Busy, RunOf, StandsAt, BegunTo, DoneTo, OpenFrom
<1> QED BY <1>8, <1>10, <1>11, <1>12, <1>13, <1>14, <1>15, <1>16 DEF IInv, ShapeInv, ProgressInv

LEMMA CreateRows ==
    ASSUME IInv, NEW x \in raised, NEW f \in Flows, CreateRun(x, f), flow[f] # "deleted",
           NEW n, n = Len(runs) + 1
    PROVE  /\ RowsTyped' /\ RowsShaped' /\ Len(runs') = n /\ n > Len(runs)
           /\ DOMAIN runs' = DOMAIN runs \cup {n} /\ n \notin DOMAIN runs
           /\ n \in 1 .. MaxRuns
           /\ \A r \in DOMAIN runs : /\ runs'[r] = runs[r] /\ steps'[r] = steps[r]
                                     /\ starts'[r] = starts[r]
           /\ runs'[n] = [flow |-> f, status |-> "PENDING",
                                      edited |-> f \in x.stale, chain |-> x.chain + 1]
           /\ steps'[n] = <<>> /\ BegunTo(n, 1)'
           /\ starts' = Append(starts, [p \in 1 .. Len(Actions[f]) |-> 0])
<1> DEFINE new == [flow |-> f, status |-> "PENDING", edited |-> f \in x.stale, chain |-> x.chain + 1]
           zero == [p \in 1 .. Len(Actions[f]) |-> 0]
<1>1. n = Len(runs) + 1
  OBVIOUS
<1>2. /\ Len(runs) < MaxRuns /\ runs' = Append(runs, new)
      /\ steps' = Append(steps, <<>>) /\ starts' = Append(starts, zero)
  BY DEF CreateRun
<1>3. /\ RowsTyped /\ RowsShaped /\ TypeOK /\ x.chain \in Nat
  BY TypeParts, EventTyped DEF IInv, ShapeInv
<1>4. new \in Run /\ new.flow = f /\ new.status = "PENDING"
  BY <1>3 DEF Run
<1>5. Actions[f] \in Seq(Action) /\ Len(Actions[f]) \in Nat
  BY AutomationAssumption
<1>6. /\ zero \in Seq(Nat) /\ Len(zero) = Len(Actions[f])
      /\ DOMAIN zero = 1 .. Len(Actions[f]) /\ \A p \in DOMAIN zero : zero[p] = 0
  BY <1>5
<1> HIDE DEF zero
<1>7. /\ runs \in Seq(Run) /\ steps \in Seq(Seq(StepStatus)) /\ starts \in Seq(Seq(Nat))
      /\ DOMAIN steps = DOMAIN runs /\ DOMAIN starts = DOMAIN runs
  BY <1>3 DEF RowsTyped, RowsShaped
<1>8. Len(runs) \in Nat /\ DOMAIN runs = 1 .. Len(runs) /\ Len(steps) = Len(runs) /\ Len(starts) = Len(runs)
  BY <1>7
<1>9. /\ runs' \in Seq(Run) /\ Len(runs') = n /\ runs'[n] = new
      /\ DOMAIN runs' = DOMAIN runs \cup {n} /\ \A r \in DOMAIN runs : runs'[r] = runs[r]
  <2> HIDE DEF new
  <2> QED BY <1>1, <1>2, <1>4, <1>7, <1>8
<1>10. /\ steps' \in Seq(Seq(StepStatus)) /\ steps'[n] = <<>>
       /\ DOMAIN steps' = DOMAIN runs \cup {n} /\ \A r \in DOMAIN runs : steps'[r] = steps[r]
  <2>1. <<>> \in Seq(StepStatus)
    OBVIOUS
  <2> QED BY <1>1, <1>2, <1>7, <1>8, <2>1
<1>11. /\ starts' \in Seq(Seq(Nat)) /\ starts'[n] = zero
       /\ DOMAIN starts' = DOMAIN runs \cup {n} /\ \A r \in DOMAIN runs : starts'[r] = starts[r]
  BY <1>1, <1>2, <1>6, <1>7, <1>8
<1>12. n \in 1 .. MaxRuns /\ n \notin DOMAIN runs /\ n > Len(runs)
  BY <1>1, <1>2, <1>8, AutomationAssumption
<1>13. /\ Plan(n)' = Actions[f] /\ \A r \in DOMAIN runs : Plan(r)' = Plan(r)
  BY <1>4, <1>9 DEF Plan
<1>14. RowsTyped'
  <2>1. \A r \in DOMAIN runs : /\ steps[r] \in Seq(StepStatus)
                               /\ runs[r].status = "PENDING" => steps[r] = <<>>
                               /\ steps[r] = <<>> \/ Len(steps[r]) = Len(Plan(r))
    BY <1>3 DEF RowsTyped
  <2>2. Len(runs') <= MaxRuns /\ steps'[n] \in Seq(StepStatus)
    BY <1>9, <1>10, <1>12
  <2> HIDE DEF new
  <2> QED BY <1>9, <1>10, <1>11, <1>13, <2>1, <2>2 DEF RowsTyped
<1>15. RowsShaped'
  BY <1>3, <1>6, <1>9, <1>10, <1>11, <1>13 DEF RowsShaped
<1>16. BegunTo(n, 1)'
  <2>1. \A q \in DOMAIN zero : ~(q < 1)
    BY <1>6
  <2> QED BY <1>6, <1>11, <2>1 DEF BegunTo
<1> QED BY <1>1, <1>2, <1>9, <1>10, <1>11, <1>12, <1>14, <1>15, <1>16 DEF zero

LEMMA CreateKeeps ==
    ASSUME IInv, WorldTyped', NEW x \in raised, NEW f \in Flows, CreateRun(x, f)
    PROVE  IInv'
<1>1. /\ x.todo # {"unread"} /\ f \in x.todo /\ x.made = 0 /\ Len(runs) < MaxRuns
      /\ UNCHANGED <<queue, worker>>
  BY DEF CreateRun
<1>2. IsFiniteSet(raised) /\ raised \in SUBSET Raised
  BY DEF IInv, ShapeInv, TypeOK
<1>3. CASE flow[f] = "deleted"
  <2>1. raised' = raised \ {x} /\ UNCHANGED <<runs, steps, starts>>
    BY <1>3 DEF CreateRun
  <2>2. IsFiniteSet(raised')
    BY <1>2, <2>1, FS_RemoveElement
  <2> QED BY <1>1, <1>2, <2>1, <2>2, RaisedOnly
<1>4. CASE flow[f] # "deleted"
  <2>1. PICK n : n = Len(runs) + 1
    OBVIOUS
  <2>2. /\ RowsTyped' /\ RowsShaped' /\ Len(runs') = n /\ n > Len(runs)
        /\ DOMAIN runs' = DOMAIN runs \cup {n} /\ n \notin DOMAIN runs /\ n \in 1 .. MaxRuns
        /\ \A r \in DOMAIN runs : /\ runs'[r] = runs[r] /\ steps'[r] = steps[r]
                                  /\ starts'[r] = starts[r]
        /\ runs'[n] = [flow |-> f, status |-> "PENDING", edited |-> f \in x.stale, chain |-> x.chain + 1]
        /\ steps'[n] = <<>> /\ BegunTo(n, 1)'
    BY <1>4, <2>1, CreateRows
  <2> DEFINE y == [x EXCEPT !.made = n, !.todo = @ \ {f}]
  <2>3. raised' = (raised \ {x}) \cup {y}
    BY <1>4, <2>1 DEF CreateRun
  <2>4. /\ x \in Raised /\ x.todo \in SUBSET Flows /\ x.depth <= MaxDepth
    BY <1>1, <1>2, EventTyped DEF IInv, ShapeInv, DepthsKept
  <2>5. x.todo \ {f} \in SUBSET Flows /\ x.todo \ {f} # {"unread"}
    BY <2>4, AutomationAssumption
  <2>6. n \in 0 .. MaxRuns
    BY <2>2, AutomationAssumption
  <2>7. y \in Raised /\ y.made = n /\ y.todo # {"unread"} /\ y.depth = x.depth
    BY <2>4, <2>5, <2>6 DEF Raised
  <2> HIDE DEF y
  <2>8. raised' \in SUBSET Raised /\ IsFiniteSet(raised')
    BY <1>2, <2>3, <2>7, ReplacedFinite
  <2>9. TypeOK'
    BY <1>1, <2>2, <2>8 DEF TypeOK, WorldTyped, RowsTyped, Plan, IInv, ShapeInv
  <2>10. Len(runs) \in Nat /\ n \in Nat /\ n # 0 /\ DOMAIN runs = 1 .. Len(runs)
    BY <2>2 DEF IInv, ShapeInv, TypeOK
  <2>11. \A v \in Workers : Busy(v) => RunOf(v) \in DOMAIN runs /\ RunOf(v) # n
    BY <2>2 DEF IInv, ShapeInv, Placed
  <2>12. \A q \in DOMAIN runs : Plan(q)' = Plan(q)
    BY <2>2 DEF Plan
  <2>13. \A z \in raised : z.made # n /\ z.made <= n
    <3>1. \A z \in raised : z.made \in Nat /\ z.made <= Len(runs)
      BY <1>2 DEF IInv, ShapeInv, Placed, Raised
    <3> QED BY <2>2, <2>10, <3>1
  <2>14. Placed'
    <3>1. \A z \in raised' : z.made <= Len(runs')
      BY <2>2, <2>3, <2>7, <2>10, <2>13
    <3>2. \A j \in queue' : j.run \in DOMAIN runs'
      BY <1>1, <2>2 DEF IInv, ShapeInv, Placed
    <3>3. ASSUME NEW v \in Workers, Busy(v)'
          PROVE  /\ RunOf(v)' \in DOMAIN runs'
                 /\ worker'[v].at \in Acting => worker'[v].pos <= Len(Plan(RunOf(v)))'
      <4>1. worker'[v] = worker[v] /\ Busy(v) /\ RunOf(v)' = RunOf(v)
        BY <1>1, <3>3 DEF Busy, RunOf
      <4>2. PICK q : q = RunOf(v)
        OBVIOUS
      <4>3. Plan(q)' = Plan(q)
        BY <2>11, <2>12, <4>1, <4>2
      <4>4. Plan(RunOf(v))' = Plan(RunOf(v))
        BY <4>1, <4>2, <4>3 DEF Plan
      <4> QED BY <2>2, <2>11, <4>1, <4>4 DEF IInv, ShapeInv, Placed
    <3> QED BY <3>1, <3>2, <3>3 DEF Placed
  <2>15. DepthsKept'
    BY <2>3, <2>4, <2>7 DEF IInv, ShapeInv, DepthsKept
  <2>16. HeldOnce'
    <3>1. HeldOnce
      BY DEF IInv, ProgressInv
    <3>2. \A j \in queue : j.run # n
      BY <2>2 DEF IInv, ShapeInv, Placed
    <3>3. \A u, z \in raised' : u.made # 0 /\ u.made = z.made => u = z
      BY <2>3, <2>7, <2>13, <3>1 DEF HeldOnce
    <3>4. \A z \in raised' : \A j \in queue' : z.made # j.run
      BY <1>1, <2>3, <2>7, <3>1, <3>2 DEF HeldOnce
    <3>5. \A z \in raised' : \A v \in Workers : Busy(v)' => z.made # RunOf(v)'
      BY <1>1, <2>3, <2>7, <2>11, <3>1 DEF HeldOnce, Busy, RunOf
    <3> QED BY <1>1, <3>1, <3>3, <3>4, <3>5 DEF HeldOnce, Busy, RunOf
  <2>17. PendingUnbegun'
    <3>1. \A r \in DOMAIN runs : BegunTo(r, 1)' = BegunTo(r, 1)
      BY <2>2 DEF BegunTo
    <3> QED BY <2>2, <3>1 DEF IInv, ProgressInv, PendingUnbegun
  <2>18. ASSUME NEW v \in Workers, Busy(v)' PROVE StandsAt(worker[v], RunOf(v))'
    <3>1. worker'[v] = worker[v] /\ Busy(v) /\ RunOf(v)' = RunOf(v)
      BY <1>1, <2>18 DEF Busy, RunOf
    <3>2. PICK g, q : g = worker[v] /\ q = RunOf(v)
      OBVIOUS
    <3>3. StandsAt(g, q) /\ q \in DOMAIN runs
      BY <2>11, <3>1, <3>2 DEF IInv, ProgressInv
    <3>4. StandsAt(g, q)'
      BY <2>2, <3>3 DEF StandsAt, BegunTo, DoneTo, OpenFrom
    <3> QED BY <3>1, <3>2, <3>4 DEF StandsAt, BegunTo, DoneTo, OpenFrom
  <2> QED BY <2>2, <2>8, <2>9, <2>14, <2>15, <2>16, <2>17, <2>18 DEF IInv, ShapeInv, ProgressInv
<1> QED BY <1>3, <1>4

-----------------------------------------------------------------------------
(* The invariant holds.                                                    *)

LEMMA InitEstablishes == Init => IInv
<1> SUFFICES ASSUME Init PROVE IInv
  OBVIOUS
<1> USE DEF Init
<1>1. TypeOK
  <2>1. <<>> \in Seq(Run) /\ Len(<<>>) = 0 /\ DOMAIN <<>> = {}
    OBVIOUS
  <2>2. [changes |-> 0, edits |-> 0, faults |-> 0] \in
          [changes : 0 .. MaxChanges, edits : 0 .. MaxEdits, faults : 0 .. MaxFaults]
    BY AutomationAssumption
  <2> QED BY <2>1, <2>2, AutomationAssumption DEF TypeOK, Worker
<1>2. RowsShaped /\ DepthsKept /\ IsFiniteSet(raised)
  BY FS_EmptySet DEF RowsShaped, DepthsKept
<1>3. \A w \in Workers : ~Busy(w)
  BY DEF Busy
<1>4. Placed /\ HeldOnce /\ PendingUnbegun
  BY <1>3 DEF Placed, HeldOnce, PendingUnbegun
<1> QED BY <1>1, <1>2, <1>3, <1>4 DEF IInv, ShapeInv, ProgressInv

LEMMA NextKeeps == IInv /\ [Next]_vars => IInv'
<1> SUFFICES ASSUME IInv, [Next]_vars PROVE IInv'
  OBVIOUS
<1>1. WorldTyped'
  BY WorldKept DEF IInv, ShapeInv
<1>2. CASE UNCHANGED vars
  <2>1. UNCHANGED <<runs, steps, starts, queue, worker, raised>>
    BY <1>2 DEF vars
  <2>2. IsFiniteSet(raised) /\ raised \in SUBSET Raised
    BY DEF IInv, ShapeInv, TypeOK
  <2> QED BY <1>1, <2>1, <2>2, RaisedOnly
<1>3. CASE UserFollowsUp \/ DeleteLead \/ \E s \in LeadStages : UserMoves(s)
  BY <1>1, <1>3, UserKeeps
<1>4. CASE \E f \in Flows : ToggleStatus(f) \/ DeleteWorkflow(f)
  BY <1>1, <1>4, ToggleKeeps
<1>5. CASE \E f \in Flows : UpdateWorkflow(f)
  BY <1>1, <1>5, UpdateKeeps
<1>6. CASE \E x \in raised : Dispatch(x)
  BY <1>1, <1>6, DispatchKeeps
<1>7. CASE \E x \in raised : Enqueue(x)
  BY <1>1, <1>7, EnqueueKeeps
<1>8. CASE \E x \in raised : Lose(x)
  BY <1>1, <1>8, LoseKeeps
<1>9. CASE \E x \in raised, f \in Flows : CreateRun(x, f)
  BY <1>1, <1>9, CreateKeeps
<1>10. CASE TakeUp
  BY <1>1, <1>10, TakeKeeps DEF TakeUp
<1>11. CASE \E w \in Workers : Work(w) \/ Throw(w) \/ Die(w)
  <2> PICK w \in Workers : Work(w) \/ Throw(w) \/ Die(w)
    BY <1>11
  <2>1. ShapeInv'
    BY <1>1, WorkKeepsShape
  <2>2. ProgressInv'
    BY WorkKeepsProgress
  <2> QED BY <2>1, <2>2 DEF IInv
<1> QED BY <1>2, <1>3, <1>4, <1>5, <1>6, <1>7, <1>8, <1>9, <1>10, <1>11 DEF Next

LEMMA Invariance == Spec => []IInv
<1>1. Init => IInv
  BY InitEstablishes
<1>2. IInv /\ [Next]_vars => IInv'
  BY NextKeeps
<1> QED BY <1>1, <1>2, PTL DEF Spec

-----------------------------------------------------------------------------
(* Executions, events, jobs and workers keep their shape: an execution is  *)
(* PENDING until a worker has it, and its action executions are those of   *)
(* its workflow or gone.                                                   *)
THEOREM TypeCorrect == Spec => []TypeOK
<1>1. IInv => TypeOK
  BY DEF IInv, ShapeInv
<1> QED BY Invariance, <1>1, PTL

LEMMA NextOrdered ==
    ASSUME IInv, [Next]_vars, NEW r \in DOMAIN steps
    PROVE  Ordered(r)
<1>1. DOMAIN steps = DOMAIN runs /\ steps \in Seq(Seq(StepStatus))
  BY DEF IInv, ShapeInv, TypeOK, RowsShaped
<1>2. CASE steps'[r] = steps[r]
  BY <1>2 DEF Ordered
<1>3. CASE \E w \in Workers : Work(w) \/ Throw(w) \/ Die(w)
  <2> PICK w \in Workers : Work(w) \/ Throw(w) \/ Die(w)
    BY <1>3
  <2>1. PICK h, q : h = worker[w] /\ q = h.job.run
    OBVIOUS
  <2>2. RowsMoved(q)
    BY <2>1, Moves
  <2>3. CASE q = r
    BY <2>2, <2>3 DEF RowsMoved
  <2>4. CASE q # r
    BY <1>1, <1>2, <2>2, <2>4 DEF RowsMoved
  <2> QED BY <2>3, <2>4
<1>4. CASE \E f \in Flows : UpdateWorkflow(f)
  <2>1. steps'[r] = steps[r] \/ steps'[r] = <<>>
    BY <1>1, <1>4 DEF UpdateWorkflow
  <2>2. CASE steps'[r] = <<>>
    BY <2>2 DEF Ordered
  <2> QED BY <1>2, <2>1, <2>2
<1>5. CASE \E x \in raised, f \in Flows : CreateRun(x, f)
  <2>1. steps' = steps \/ steps' = Append(steps, <<>>)
    BY <1>5 DEF CreateRun
  <2>2. PICK all : all = steps
    OBVIOUS
  <2>3. all \in Seq(Seq(StepStatus)) /\ <<>> \in Seq(StepStatus) /\ r \in 1 .. Len(all)
    BY <1>1, <2>2
  <2>4. Append(all, <<>>)[r] = all[r]
    BY <2>3, AppendProperties
  <2> QED BY <1>2, <2>1, <2>2, <2>4
<1>6. CASE UNCHANGED steps
  BY <1>2, <1>6
<1>7. CASE UNCHANGED vars \/ UserFollowsUp \/ DeleteLead \/ \E s \in LeadStages : UserMoves(s)
  BY <1>6, <1>7 DEF vars, UserFollowsUp, DeleteLead, UserMoves
<1>8. CASE \E f \in Flows : ToggleStatus(f) \/ DeleteWorkflow(f)
  BY <1>6, <1>8 DEF ToggleStatus, DeleteWorkflow
<1>9. CASE \E x \in raised : Dispatch(x) \/ Enqueue(x) \/ Lose(x)
  BY <1>6, <1>9 DEF Dispatch, Enqueue, Lose
<1>10. CASE TakeUp
  BY <1>6, <1>10 DEF TakeUp, Take
<1> QED BY <1>3, <1>4, <1>5, <1>7, <1>8, <1>9, <1>10 DEF Next

(* A failed, lost or removed action holds up all that follow it in its     *)
(* workflow, however workers, deaths, throws and edits interleave: none of *)
(* them is begun or set to wait (executeDelayedAction goes from one action *)
(* to the next).                                                           *)
THEOREM ActionsInOrder == Spec => InOrder
<1>1. IInv /\ [Next]_vars => [\A r \in DOMAIN steps : Ordered(r)]_vars
  BY NextOrdered
<1> QED BY Invariance, <1>1, PTL DEF Spec, InOrder

-----------------------------------------------------------------------------
(* The refinement of Pipeline.                                             *)

Over == {r \in DOMAIN runs : runs[r].status \in Ended}

LEMMA PipelineStarts == Init => P!Init
BY DEF Init, P!Init

(* A worker begins the action it is at, and no other.                      *)
LEMMA StepBegins ==
    ASSUME IInv, NEW w \in Workers, Step(w)
    PROVE  P!Next \/ UNCHANGED <<starts, Over>>
<1>0. PICK h, r, p : h = worker[w] /\ r = h.job.run /\ p = h.pos
  OBVIOUS
<1>1. h.at = "step" /\ h.at # "idle" /\ h.at \in Acting /\ UNCHANGED runs
  BY <1>0 DEF Step, Acting
<1>2. Over' = Over
  BY <1>1 DEF Over
<1>3. CASE Gone(r)
  BY <1>0, <1>2, <1>3 DEF Step
<1>4. CASE ~Gone(r)
  <2>1. starts' = [starts EXCEPT ![r][p] = @ + 1]
    BY <1>0, <1>4 DEF Step
  <2>2. /\ runs[r].status = "RUNNING" /\ p \in 1 .. Len(Plan(r)) /\ Len(Plan(r)) \in Nat
    BY <1>0, <1>1, ActingAt
  <2>3. /\ starts[r] \in Seq(Nat) /\ Len(starts[r]) = Len(Plan(r))
        /\ r \in DOMAIN starts /\ BegunTo(r, p)
    BY <1>0, <1>1, AtWork DEF StandsAt
  <2>4. DOMAIN starts[r] = 1 .. Len(Plan(r))
    BY <2>2, <2>3
  <2>5. ~(p < p) /\ \A q \in 1 .. (p - 1) : q \in 1 .. Len(Plan(r)) /\ q < p
    BY <2>2
  <2>6. starts[r][p] = 0 /\ \A q \in 1 .. (p - 1) : starts[r][q] = 1
    BY <2>2, <2>3, <2>4, <2>5 DEF BegunTo
  <2>7. starts' = [starts EXCEPT ![r][p] = 1]
    BY <2>1, <2>6
  <2>8. r \notin Over
    BY <2>2 DEF Over, Ended
  <2>9. P!Begin(r, p)
    BY <1>2, <2>6, <2>7, <2>8 DEF P!Begin, Over
  <2> QED BY <2>2, <2>3, <2>4, <2>9 DEF P!Next
<1> QED BY <1>3, <1>4

(* Any other step of a worker begins no action, and ends the execution it  *)
(* works on or none.                                                       *)
LEMMA WorkEnds ==
    ASSUME IInv, NEW w \in Workers, Work(w) \/ Throw(w) \/ Die(w), ~Step(w)
    PROVE  P!Next \/ UNCHANGED <<starts, Over>>
<1>0. PICK h, r : h = worker[w] /\ r = h.job.run
  OBVIOUS
<1>1. h.at # "idle" /\ RowsMoved(r)
  BY <1>0, Moves
<1>2. starts' = starts
  BY DEF Work, Start, Skip, Match, Act, Pass, Fail, Close, Follow, Throw, Die, History
<1>3. r \in DOMAIN runs /\ StandsAt(h, r) /\ DOMAIN starts = DOMAIN runs
  BY <1>0, <1>1, AtWork
<1>4. r \notin Over
  BY <1>1, <1>3 DEF StandsAt, Over, Ended
<1>5. DOMAIN runs' = DOMAIN runs /\ \A q \in DOMAIN runs : q # r => runs'[q] = runs[q]
  BY <1>1, <1>3, RowsAfter DEF RowsMoved
<1>6. CASE runs'[r].status \in Ended
  <2>1. Over' = Over \cup {r}
    BY <1>3, <1>5, <1>6 DEF Over
  <2>2. P!End(r)
    BY <1>2, <1>4, <2>1 DEF P!End, Over
  <2> QED BY <1>3, <2>2 DEF P!Next
<1>7. CASE runs'[r].status \notin Ended
  <2>1. Over' = Over
    BY <1>3, <1>4, <1>5, <1>7 DEF Over
  <2> QED BY <1>2, <2>1
<1> QED BY <1>6, <1>7

LEMMA CreateIsNew ==
    ASSUME IInv, NEW x \in raised, NEW f \in Flows, CreateRun(x, f)
    PROVE  P!Next \/ UNCHANGED <<starts, Over>>
<1>1. CASE flow[f] = "deleted"
  BY <1>1 DEF CreateRun, Over
<1>2. CASE flow[f] # "deleted"
  <2>1. PICK n : n = Len(runs) + 1
    OBVIOUS
  <2>2. /\ DOMAIN runs' = DOMAIN runs \cup {n} /\ \A r \in DOMAIN runs : runs'[r] = runs[r]
        /\ runs'[n] = [flow |-> f, status |-> "PENDING", edited |-> f \in x.stale, chain |-> x.chain + 1]
        /\ starts' = Append(starts, [p \in 1 .. Len(Actions[f]) |-> 0])
    BY <1>2, <2>1, CreateRows
  <2>3. runs'[n].status \notin Ended
    BY <2>2 DEF Ended
  <2>4. Over' = Over
    BY <2>2, <2>3 DEF Over
  <2>5. P!New(Len(Actions[f]))
    BY <2>2, <2>4 DEF P!New, Over
  <2>6. Len(Actions[f]) \in {Len(Actions[g]) : g \in Flows}
    OBVIOUS
  <2> QED BY <2>5, <2>6 DEF P!Next
<1> QED BY <1>1, <1>2

LEMMA PipelineSteps == IInv /\ [Next]_vars => [P!Next]_<<starts, Over>>
<1> SUFFICES ASSUME IInv, [Next]_vars PROVE P!Next \/ UNCHANGED <<starts, Over>>
  OBVIOUS
<1>1. CASE \E w \in Workers : Work(w) \/ Throw(w) \/ Die(w)
  BY <1>1, StepBegins, WorkEnds
<1>2. CASE \E x \in raised, f \in Flows : CreateRun(x, f)
  BY <1>2, CreateIsNew
<1>3. CASE \E f \in Flows : UpdateWorkflow(f)
  <2> PICK f \in Flows : UpdateWorkflow(f)
    BY <1>3
  <2>1. DOMAIN runs' = DOMAIN runs /\ \A r \in DOMAIN runs : RunKept(r)
    BY UpdateRows
  <2>2. Over' = Over
    BY <2>1 DEF Over, RunKept
  <2> QED BY <2>2 DEF UpdateWorkflow, Edit
<1>4. CASE UNCHANGED <<runs, starts>>
  BY <1>4 DEF Over
<1>5. CASE UNCHANGED vars \/ UserFollowsUp \/ DeleteLead \/ \E s \in LeadStages : UserMoves(s)
  BY <1>4, <1>5 DEF vars, UserFollowsUp, DeleteLead, UserMoves
<1>6. CASE \E f \in Flows : ToggleStatus(f) \/ DeleteWorkflow(f)
  BY <1>4, <1>6 DEF ToggleStatus, DeleteWorkflow, Edit
<1>7. CASE \E x \in raised : Dispatch(x) \/ Enqueue(x) \/ Lose(x)
  BY <1>4, <1>7 DEF Dispatch, Enqueue, Lose, History
<1>8. CASE TakeUp
  BY <1>4, <1>8 DEF TakeUp, Take, History
<1> QED BY <1>1, <1>2, <1>3, <1>5, <1>6, <1>7, <1>8 DEF Next

(* An execution implements Pipeline: whatever happens to queue, workers    *)
(* and rows, its actions are begun one after another, each once, and none  *)
(* once it is over, although the queue hands a job out again after a death *)
(* (automation.jobs.ts, executeWorkflow's test for PENDING).               *)
THEOREM ImplementsPipeline == Spec => KeepsPipeline
<1>1. Init => P!Init
  BY PipelineStarts
<1>2. IInv /\ [Next]_vars => [P!Next]_<<starts, {r \in DOMAIN runs : runs[r].status \in Ended}>>
  BY PipelineSteps DEF Over
<1> QED BY <1>1, <1>2, Invariance, PTL DEF Spec, KeepsPipeline, P!Spec

-----------------------------------------------------------------------------
(* Chains of executions that cause one another.                            *)

EventCut(x) ==
    \/ x.chain <= x.depth
    \/ /\ FollowsUp /\ x.event.type = "followup_created"
       /\ x.todo = {"unread"} /\ x.made = 0

LEMMA EventsCutBy == EventsCut <=> \A x \in raised : EventCut(x)
BY DEF EventsCut, EventCut

LEMMA WorkCuts ==
    ASSUME IInv, CutInv, NEW w \in Workers, Work(w) \/ Throw(w) \/ Die(w)
    PROVE  CutInv'
<1>0. PICK h, r : h = worker[w] /\ r = h.job.run
  OBVIOUS
<1>1. /\ h.at # "idle" /\ RowsMoved(r) /\ Lands(w, h, r)
      /\ raised' = raised \/ RaisedOne(r, h.job.depth)
      /\ queue' = queue \/ HandedBack(w, r, h.job.depth)
  BY <1>0, Moves, Carries
<1>2. r \in DOMAIN runs /\ h.job.depth \in Depths
  BY <1>0, <1>1, AtWork, WorkerTyped, JobTyped DEF IInv, ShapeInv
<1>3. runs[r].chain <= h.job.depth
  BY <1>0, <1>1 DEF CutInv, JobsCut, Busy, RunOf
<1>4. DOMAIN runs' = DOMAIN runs /\ \A q \in DOMAIN runs : runs'[q].chain = runs[q].chain
  BY <1>1, <1>2, RowsAfter DEF RowsMoved
<1>5. \A x \in raised' : x \in raised \/ (x.made = 0 /\ EventCut(x))
  <2>1. CASE raised' = raised
    BY <2>1
  <2>2. CASE RaisedOne(r, h.job.depth)
    <3> PICK e \in Events, d \in Depths :
          /\ raised' = raised \cup {Raise(e, d, runs[r].chain)}
          /\ \/ e.type = "stage_changed" /\ d = h.job.depth
             \/ e.type = "followup_created" /\ FollowsUp
      BY <2>2 DEF RaisedOne
    <3> DEFINE y == Raise(e, d, runs[r].chain)
    <3>1. TypeOK /\ IsFiniteSet(raised) /\ runs[r].chain \in Nat
      BY <1>2, RunTyped DEF IInv, ShapeInv
    <3>2. /\ y.event = e /\ y.depth = d /\ y.chain = runs[r].chain
          /\ y.todo = {"unread"} /\ y.made = 0
      BY <3>1, RaiseTyped
    <3>3. raised' = raised \cup {y}
      OBVIOUS
    <3> HIDE DEF y
    <3>4. EventCut(y)
      BY <1>3, <3>2 DEF EventCut
    <3> QED BY <3>2, <3>3, <3>4
  <2> QED BY <1>1, <2>1, <2>2
<1>6. EventsCut'
  BY <1>5 DEF CutInv, EventsCut, EventCut
<1>7. JobsCut'
  <2>1. \A x \in raised' : x.made # 0 => runs'[x.made].chain <= x.depth + 1
    <3>1. \A x \in raised : x.made # 0 => x.made \in DOMAIN runs
      BY DEF IInv, ShapeInv, TypeOK, Placed, Raised
    <3> QED BY <1>4, <1>5, <3>1 DEF CutInv, JobsCut
  <2>2. \A j \in queue' : runs'[j.run].chain <= j.depth
    <3>1. \A j \in queue : j.run \in DOMAIN runs /\ runs[j.run].chain <= j.depth
      BY DEF IInv, ShapeInv, Placed, CutInv, JobsCut
    <3>2. \A j \in queue' : j \in queue \/ (j.run = r /\ j.depth = h.job.depth)
      BY <1>1 DEF HandedBack
    <3> QED BY <1>2, <1>3, <1>4, <3>1, <3>2
  <2>3. ASSUME NEW v \in Workers, Busy(v)'
        PROVE  runs'[RunOf(v)'].chain <= worker'[v].job.depth
    <3>1. worker \in [Workers -> Worker]
      BY DEF IInv, ShapeInv, TypeOK
    <3>2. PICK k : worker' = [worker EXCEPT ![w] = k] /\ (k.at # "idle" => k.job = h.job)
      BY <1>1 DEF Lands
    <3>3. CASE v = w
      <4>1. RunOf(v)' = r /\ worker'[v].job = h.job
        BY <1>0, <2>3, <3>1, <3>2, <3>3 DEF Busy, RunOf
      <4> QED BY <1>2, <1>3, <1>4, <4>1
    <3>4. CASE v # w
      <4>1. worker'[v] = worker[v] /\ Busy(v) /\ RunOf(v)' = RunOf(v)
        BY <2>3, <3>1, <3>2, <3>4 DEF Busy, RunOf
      <4>2. RunOf(v) \in DOMAIN runs /\ runs[RunOf(v)].chain <= worker[v].job.depth
        BY <4>1 DEF IInv, ShapeInv, Placed, CutInv, JobsCut
      <4> QED BY <1>4, <4>1, <4>2
    <3> QED BY <3>3, <3>4
  <2> QED BY <2>1, <2>2, <2>3 DEF JobsCut
<1>8. LoopsAreCut'
  BY <1>4 DEF CutInv, LoopsAreCut
<1> QED BY <1>6, <1>7, <1>8 DEF CutInv

(* The events that are kept are cut, and the executions are as they were.  *)
LEMMA RaisedCuts ==
    ASSUME IInv, CutInv, UNCHANGED <<queue, worker>>, DOMAIN runs' = DOMAIN runs,
           \A q \in DOMAIN runs : runs'[q].chain = runs[q].chain,
           \A x \in raised' : EventCut(x),
           \A x \in raised' : x.made # 0 =>
              \E y \in raised : x.made = y.made /\ x.depth = y.depth
    PROVE  CutInv'
<1>1. EventsCut' /\ LoopsAreCut'
  BY DEF CutInv, EventsCut, EventCut, LoopsAreCut
<1>2. \A x \in raised' : x.made # 0 => runs'[x.made].chain <= x.depth + 1
  <2>1. \A y \in raised : y.made # 0 => y.made \in DOMAIN runs /\ runs[y.made].chain <= y.depth + 1
    BY DEF IInv, ShapeInv, TypeOK, Placed, Raised, CutInv, JobsCut
  <2> QED BY <2>1
<1>3. \A j \in queue' : runs'[j.run].chain <= j.depth
  BY DEF IInv, ShapeInv, Placed, CutInv, JobsCut
<1>4. \A v \in Workers : Busy(v)' => runs'[RunOf(v)'].chain <= worker'[v].job.depth
  BY DEF IInv, ShapeInv, Placed, CutInv, JobsCut, Busy, RunOf
<1> QED BY <1>1, <1>2, <1>3, <1>4 DEF CutInv, JobsCut

LEMMA UserCuts ==
    ASSUME IInv, CutInv, UserFollowsUp \/ DeleteLead \/ \E s \in LeadStages : UserMoves(s)
    PROVE  CutInv'
<1>1. UNCHANGED <<runs, queue, worker>>
  BY DEF UserFollowsUp, DeleteLead, UserMoves
<1>2. \A x \in raised : EventCut(x)
  BY EventsCutBy DEF CutInv
<1>3. CASE raised' = raised
  BY <1>1, <1>2, <1>3, RaisedCuts
<1>4. ASSUME NEW e \in Events, raised' = raised \cup {Raise(e, 0, 0)}
      PROVE  CutInv'
  <2> DEFINE y == Raise(e, 0, 0)
  <2>1. TypeOK /\ IsFiniteSet(raised) /\ 0 \in Depths /\ 0 \in Nat
    BY AutomationAssumption DEF IInv, ShapeInv, Depths
  <2>2. y.made = 0 /\ y.chain = 0 /\ y.depth = 0
    BY <2>1, RaiseTyped
  <2>3. raised' = raised \cup {y}
    BY <1>4
  <2> HIDE DEF y
  <2>4. EventCut(y)
    BY <2>2 DEF EventCut
  <2> QED BY <1>1, <1>2, <2>2, <2>3, <2>4, RaisedCuts
<1>5. CASE UserFollowsUp
  <2>1. [type |-> "followup_created"] \in Events
    BY DEF Events
  <2> QED BY <1>4, <1>5, <2>1 DEF UserFollowsUp
<1>6. CASE DeleteLead
  BY <1>3, <1>6 DEF DeleteLead
<1>7. CASE \E s \in LeadStages : UserMoves(s)
  <2> PICK s \in LeadStages : UserMoves(s)
    BY <1>7
  <2>1. [type |-> "stage_changed", stage |-> s] \in Events
    BY DEF Events
  <2> QED BY <1>4, <2>1 DEF UserMoves
<1> QED BY <1>5, <1>6, <1>7

(* A follow-up of a workflow triggers none.                                *)
LEMMA DispatchCuts ==
    ASSUME Separate, IInv, CutInv, NEW x \in raised, Dispatch(x)
    PROVE  CutInv'
<1>1. UNCHANGED <<runs, queue, worker>> /\ x.todo = {"unread"}
  BY DEF Dispatch, History
<1>2. \A z \in raised : EventCut(z)
  BY EventsCutBy DEF CutInv
<1>3. CASE x.depth > MaxDepth \/ Triggers(x.event) = {}
  <2>1. raised' = raised \ {x}
    BY <1>3 DEF Dispatch
  <2> QED BY <1>1, <1>2, <2>1, RaisedCuts
<1>4. CASE ~(x.depth > MaxDepth \/ Triggers(x.event) = {})
  <2> DEFINE y == [x EXCEPT !.todo = Triggers(x.event)]
  <2>1. raised' = (raised \ {x}) \cup {y}
    BY <1>4 DEF Dispatch
  <2>2. x \in Raised
    BY DEF IInv, ShapeInv, TypeOK
  <2>3. y.made = x.made /\ y.depth = x.depth /\ y.chain = x.chain
    BY <2>2 DEF Raised
  <2>4. x.event.type = "followup_created" => ~FollowsUp
    BY <1>4 DEF Separate, Triggers
  <2>5. x.chain <= x.depth
    BY <1>2, <2>4 DEF EventCut
  <2> HIDE DEF y
  <2>6. EventCut(y)
    BY <2>3, <2>5 DEF EventCut
  <2> QED BY <1>1, <1>2, <2>1, <2>3, <2>6, RaisedCuts
<1> QED BY <1>3, <1>4

LEMMA UpdateCuts ==
    ASSUME IInv, CutInv, NEW f \in Flows, UpdateWorkflow(f)
    PROVE  CutInv'
<1>1. UNCHANGED <<queue, worker>>
  BY DEF UpdateWorkflow, Edit
<1>2. DOMAIN runs' = DOMAIN runs /\ \A q \in DOMAIN runs : runs'[q].chain = runs[q].chain
  BY UpdateRows DEF RunKept
<1>3. /\ raised' = {Staled(f, x) : x \in raised}
      /\ \A x \in raised : /\ Staled(f, x).event = x.event /\ Staled(f, x).todo = x.todo
                           /\ Staled(f, x).depth = x.depth /\ Staled(f, x).made = x.made
                           /\ Staled(f, x).chain = x.chain
  BY UpdateRaised
<1>4. \A x \in raised : EventCut(x)
  BY EventsCutBy DEF CutInv
<1>5. \A x \in raised' : EventCut(x)
  BY <1>3, <1>4 DEF EventCut
<1>6. \A x \in raised' : x.made # 0 => \E y \in raised : x.made = y.made /\ x.depth = y.depth
  BY <1>3
<1> QED BY <1>1, <1>2, <1>5, <1>6, RaisedCuts

LEMMA EnqueueCuts ==
    ASSUME IInv, CutInv, NEW x \in raised, Enqueue(x)
    PROVE  CutInv'
<1> DEFINE j == [run |-> x.made, depth |-> x.depth + 1, name |-> "execute"]
           y == [x EXCEPT !.made = 0]
<1>1. /\ x.made # 0 /\ UNCHANGED <<runs, worker>>
      /\ queue' = queue \cup {j}
      /\ raised' = raised \ {x} \/ raised' = (raised \ {x}) \cup {y}
  BY DEF Enqueue, History
<1>2. x \in Raised
  BY DEF IInv, ShapeInv, TypeOK
<1>3. y.made = 0 /\ y.chain = x.chain /\ y.depth = x.depth
  BY <1>2 DEF Raised
<1>4. j.run = x.made /\ j.depth = x.depth + 1
  OBVIOUS
<1> HIDE DEF j, y
<1>5. \A z \in raised : EventCut(z)
  BY EventsCutBy DEF CutInv
<1>6. EventCut(y)
  BY <1>1, <1>3, <1>5 DEF EventCut
<1>7. EventsCut' /\ LoopsAreCut'
  BY <1>1, <1>5, <1>6 DEF CutInv, EventsCut, EventCut, LoopsAreCut
<1>8. JobsCut'
  BY <1>1, <1>3, <1>4 DEF CutInv, JobsCut, Busy, RunOf
<1> QED BY <1>7, <1>8 DEF CutInv

LEMMA TakeCuts ==
    ASSUME IInv, CutInv, NEW w \in Workers, NEW j \in queue, Take(w, j)
    PROVE  CutInv'
<1> DEFINE k == [at |-> "start", job |-> j]
<1>1. UNCHANGED <<runs, raised>> /\ queue' = queue \ {j}
  BY DEF Take
<1>2. UNCHANGED worker \/ worker' = [worker EXCEPT ![w] = k]
  BY DEF Take, Become
<1>3. k.job = j /\ worker \in [Workers -> Worker]
  BY DEF IInv, ShapeInv, TypeOK
<1> HIDE DEF k
<1>4. \A v \in Workers : worker'[v] = worker[v] \/ worker'[v].job = j
  BY <1>2, <1>3
<1>5. EventsCut' /\ LoopsAreCut'
  BY <1>1 DEF CutInv, EventsCut, LoopsAreCut
<1>6. \A v \in Workers : Busy(v)' => runs'[RunOf(v)'].chain <= worker'[v].job.depth
  BY <1>1, <1>4 DEF CutInv, JobsCut, Busy, RunOf
<1> QED BY <1>1, <1>5, <1>6 DEF CutInv, JobsCut

LEMMA CreateCuts ==
    ASSUME IInv, CutInv, NEW x \in raised, NEW f \in Flows, CreateRun(x, f)
    PROVE  CutInv'
<1>1. x.todo # {"unread"} /\ UNCHANGED <<queue, worker>>
  BY DEF CreateRun
<1>2. \A z \in raised : EventCut(z)
  BY EventsCutBy DEF CutInv
<1>3. CASE flow[f] = "deleted"
  <2>1. raised' = raised \ {x} /\ UNCHANGED runs
    BY <1>3 DEF CreateRun
  <2> QED BY <1>1, <1>2, <2>1, RaisedCuts
<1>4. CASE flow[f] # "deleted"
  <2>1. PICK n : n = Len(runs) + 1
    OBVIOUS
  <2>2. /\ DOMAIN runs' = DOMAIN runs \cup {n} /\ n \notin DOMAIN runs /\ n \in 1 .. MaxRuns
        /\ \A r \in DOMAIN runs : runs'[r] = runs[r]
        /\ runs'[n] = [flow |-> f, status |-> "PENDING", edited |-> f \in x.stale, chain |-> x.chain + 1]
    BY <1>4, <2>1, CreateRows
  <2> DEFINE y == [x EXCEPT !.made = n, !.todo = @ \ {f}]
  <2>3. raised' = (raised \ {x}) \cup {y}
    BY <1>4, <2>1 DEF CreateRun
  <2>4. x \in Raised /\ x.chain \in Nat /\ x.depth \in Nat /\ x.depth <= MaxDepth
    BY <1>1, EventTyped, AutomationAssumption DEF IInv, ShapeInv, DepthsKept, Depths
  <2>5. y.made = n /\ y.depth = x.depth /\ y.chain = x.chain
    BY <2>4 DEF Raised
  <2>6. x.chain <= x.depth
    BY <1>1, <1>2 DEF EventCut
  <2>7. runs'[n].chain = x.chain + 1
    BY <2>2
  <2> HIDE DEF y
  <2>8. runs'[n].chain <= x.depth + 1 /\ runs'[n].chain <= MaxDepth + 1
    BY <2>4, <2>6, <2>7, AutomationAssumption
  <2>9. EventsCut'
    BY <1>2, <2>3, <2>5, <2>6 DEF EventsCut, EventCut
  <2>10. LoopsAreCut'
    BY <2>2, <2>8 DEF CutInv, LoopsAreCut
  <2>11. JobsCut'
    <3>1. \A z \in raised : z.made # 0 => z.made \in DOMAIN runs
      BY DEF IInv, ShapeInv, TypeOK, Placed, Raised
    <3>2. \A z \in raised' : z.made # 0 => runs'[z.made].chain <= z.depth + 1
      BY <2>2, <2>3, <2>5, <2>8, <3>1 DEF CutInv, JobsCut
    <3>3. \A j \in queue' : runs'[j.run].chain <= j.depth
      BY <1>1, <2>2 DEF IInv, ShapeInv, Placed, CutInv, JobsCut
    <3>4. \A v \in Workers : Busy(v)' => runs'[RunOf(v)'].chain <= worker'[v].job.depth
      BY <1>1, <2>2 DEF IInv, ShapeInv, Placed, CutInv, JobsCut, Busy, RunOf
    <3> QED BY <3>2, <3>3, <3>4 DEF JobsCut
  <2> QED BY <2>9, <2>10, <2>11 DEF CutInv
<1> QED BY <1>3, <1>4

LEMMA NextCuts ==
    ASSUME Separate, IInv, CutInv, [Next]_vars
    PROVE  CutInv'
<1>1. \A z \in raised : EventCut(z)
  BY EventsCutBy DEF CutInv
<1>2. CASE UNCHANGED <<runs, raised, queue, worker>>
  BY <1>1, <1>2, RaisedCuts
<1>3. CASE UserFollowsUp \/ DeleteLead \/ \E s \in LeadStages : UserMoves(s)
  BY <1>3, UserCuts
<1>4. CASE \E f \in Flows : ToggleStatus(f) \/ DeleteWorkflow(f)
  BY <1>2, <1>4 DEF ToggleStatus, DeleteWorkflow, Edit
<1>5. CASE \E f \in Flows : UpdateWorkflow(f)
  BY <1>5, UpdateCuts
<1>6. CASE \E x \in raised : Dispatch(x)
  BY <1>6, DispatchCuts
<1>7. CASE \E x \in raised : Enqueue(x)
  BY <1>7, EnqueueCuts
<1>8. CASE \E x \in raised : Lose(x)
  <2> PICK x \in raised : Lose(x)
    BY <1>8
  <2> QED BY <1>1, RaisedCuts DEF Lose
<1>9. CASE \E x \in raised, f \in Flows : CreateRun(x, f)
  BY <1>9, CreateCuts
<1>10. CASE TakeUp
  BY <1>10, TakeCuts DEF TakeUp
<1>11. CASE \E w \in Workers : Work(w) \/ Throw(w) \/ Die(w)
  BY <1>11, WorkCuts
<1>12. CASE UNCHANGED vars
  BY <1>2, <1>12 DEF vars
<1> QED BY <1>3, <1>4, <1>5, <1>6, <1>7, <1>8, <1>9, <1>10, <1>11, <1>12 DEF Next

(* As long as the follow-ups that workflows schedule trigger no workflow,  *)
(* workflows that trigger one another come to an end: the depth that       *)
(* events and jobs carry counts every execution of the chain               *)
(* (automation.service.ts, the depth of dispatch).                         *)
THEOREM LoopsEnd == ASSUME Separate PROVE Spec => []LoopsAreCut
<1>1. Init => CutInv
  BY DEF Init, CutInv, EventsCut, JobsCut, LoopsAreCut, Busy
<1>2. IInv /\ CutInv /\ [Next]_vars => CutInv'
  BY NextCuts
<1>3. CutInv => LoopsAreCut
  BY DEF CutInv
<1> QED BY <1>1, <1>2, <1>3, Invariance, PTL DEF Spec
=============================================================================
