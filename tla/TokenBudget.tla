---------------------------- MODULE TokenBudget -----------------------------
(***************************************************************************)
(* The token budget of the worker: an hour, a day and a task bucket in       *)
(* memory, charged when a model call answers, persisted by a chain of        *)
(* writes and loaded again after a crash.  The agent loop and the other      *)
(* callers of the model (the block validator) share it.  Each call costs     *)
(* one unit; tokens and dollars are capped alike and modelled as one.        *)
(***************************************************************************)
EXTENDS Integers

CONSTANTS
  HourCap, DayCap, TaskCap,
  HourLength, DayLength,  \* in ticks
  SideCalls,  \* calls that other parts of the process make at the same time
  MaxQueue,   \* bound: charges that wait to be persisted
  MaxFailed   \* bound: writes that fail in a row

ASSUME BudgetAssumption ==
  /\ HourCap \in Nat \ {0} /\ DayCap \in Nat \ {0} /\ TaskCap \in Nat \ {0}
  /\ HourLength \in Nat \ {0} /\ DayLength \in Nat \ {0}
  /\ SideCalls \in Nat /\ MaxQueue \in Nat \ {0} /\ MaxFailed \in Nat

VARIABLES
  up,        \* the process runs
  bucket,    \* the buckets and what is left of their windows
  hasTask, task,  \* currentTaskId is set; the task bucket
  budgetRow, \* the row of agent_token_budget_state
  queue,     \* charges whose write has not ended
  writing,   \* the values of the write that is running
  loop,      \* the agent loop: "top", "working", "calling"
  side,      \* other calls in flight
  midnight,  \* ticks until the UTC day ends
  failed     \* history: writes that failed since the last that did not

budgetVars == <<up, bucket, hasTask, task, budgetRow, queue, writing, loop, side, midnight, failed>>

Buckets == [hour : Nat, day : Nat, hourLeft : 0..HourLength, dayLeft : 0..DayLength]
Empty == [hour |-> 0, day |-> 0, hourLeft |-> HourLength, dayLeft |-> midnight]
NoRow == [hour |-> 0, day |-> 0, hourLeft |-> 0, dayLeft |-> 0]
NoWrite == [NoRow EXCEPT !.hour = -1]

\* roll: each window that has ended starts again with an empty bucket.
Rolled(b) ==
  [hour |-> IF b.hourLeft = 0 THEN 0 ELSE b.hour,
   hourLeft |-> IF b.hourLeft = 0 THEN HourLength ELSE b.hourLeft,
   day |-> IF b.dayLeft = 0 THEN 0 ELSE b.day,
   dayLeft |-> IF b.dayLeft = 0 THEN midnight ELSE b.dayLeft]

Charged(b) ==
  LET open == Rolled(b)
  IN  [hour |-> open.hour + 1, day |-> open.day + 1,
       hourLeft |-> open.hourLeft, dayLeft |-> open.dayLeft]

\* shouldPause
Paused(b, taskCost) ==
  \/ b.day >= DayCap \/ b.hour >= HourCap
  \/ hasTask /\ taskCost >= TaskCap

BudgetInit ==
  /\ up = TRUE /\ midnight = DayLength
  /\ bucket = Empty /\ hasTask = FALSE /\ task = 0
  /\ budgetRow = NoRow /\ queue = 0 /\ writing = NoWrite /\ failed = 0
  /\ loop = "top" /\ side = 0

persistence == <<budgetRow, queue, writing, failed>>

-----------------------------------------------------------------------------
FinishTask == loop' = "top" /\ hasTask' = FALSE /\ task' = 0

\* The loop's gate: a task is picked only below every cap.
PickTask ==
  /\ up /\ loop = "top"
  /\ bucket' = Rolled(bucket)
  /\ IF Paused(bucket', task) THEN UNCHANGED <<loop, hasTask, task>>
     ELSE loop' = "working" /\ hasTask' = TRUE /\ task' = 0
  /\ UNCHANGED <<up, persistence, side, midnight>>

ThrowKeepsTask ==  \* Mutant: no finishTask in the catch clause.
  loop' = "top" /\ UNCHANGED <<hasTask, task>>

\* The catch clause of the loop.
Throw == FinishTask

\* hermesChat refuses a call over a cap; the refusal ends the task.
LoopCalls ==
  /\ up /\ loop = "working"
  /\ bucket' = Rolled(bucket)
  /\ IF Paused(bucket', task) THEN Throw ELSE loop' = "calling" /\ UNCHANGED <<hasTask, task>>
  /\ UNCHANGED <<up, persistence, side, midnight>>

\* A write is queued behind those that have not ended.
QueuePersistOnce ==  \* Mutant: a running write is taken to carry the charge.
  queue' = IF writing # NoWrite THEN queue ELSE queue + 1

QueuePersist == queue' = queue + 1

\* record; the loop looks at the budget again when it has the answer.
LoopAnswered ==
  /\ up /\ loop = "calling" /\ queue < MaxQueue
  /\ bucket' = Charged(bucket) /\ QueuePersist
  /\ IF Paused(bucket', task + 1) THEN Throw
     ELSE loop' = "working" /\ task' = task + 1 /\ UNCHANGED hasTask
  /\ UNCHANGED <<up, budgetRow, writing, failed, side, midnight>>

\* An answer without usage is not charged.
LoopUnmetered ==
  /\ up /\ loop = "calling"
  /\ bucket' = Rolled(bucket)
  /\ IF Paused(bucket', task) THEN Throw ELSE loop' = "working" /\ UNCHANGED <<hasTask, task>>
  /\ UNCHANGED <<up, persistence, side, midnight>>

\* Neither is a call that times out or fails.
LoopCallFails ==
  /\ up /\ loop = "calling" /\ Throw
  /\ UNCHANGED <<up, bucket, persistence, side, midnight>>

\* The task ends, verified or not.
TaskEnds ==
  /\ up /\ loop = "working" /\ FinishTask
  /\ UNCHANGED <<up, bucket, persistence, side, midnight>>

SideCallUnchecked ==  \* Mutant: no assertTokenBudgetAvailable.
  /\ up /\ side < SideCalls /\ side' = side + 1
  /\ bucket' = Rolled(bucket)
  /\ UNCHANGED <<up, hasTask, task, persistence, loop, midnight>>

SideCall ==
  /\ up /\ side < SideCalls /\ side' = side + 1
  /\ bucket' = Rolled(bucket) /\ ~Paused(bucket', task)
  /\ UNCHANGED <<up, hasTask, task, persistence, loop, midnight>>

\* Outside a task the task bucket is left at 0: startTask empties it before it counts.
SideAnswered ==
  /\ up /\ side > 0 /\ side' = side - 1 /\ queue < MaxQueue
  /\ bucket' = Charged(bucket) /\ QueuePersist
  /\ task' = IF hasTask THEN task + 1 ELSE task
  /\ UNCHANGED <<up, hasTask, budgetRow, writing, failed, loop, midnight>>

\* An answer without usage, or a failure.
SideCallFails ==
  /\ up /\ side > 0 /\ side' = side - 1
  /\ UNCHANGED <<up, bucket, hasTask, task, persistence, loop, midnight>>

-----------------------------------------------------------------------------
\* The next link of persistChain takes the values of memory as they are now.
PersistStarts ==
  /\ up /\ queue > 0 /\ writing = NoWrite /\ writing' = bucket
  /\ UNCHANGED <<up, bucket, hasTask, task, budgetRow, queue, loop, side, midnight, failed>>

PersistEnds ==
  /\ up /\ writing # NoWrite /\ writing' = NoWrite /\ queue' = queue - 1
  /\ budgetRow' = writing /\ failed' = 0
  /\ UNCHANGED <<up, bucket, hasTask, task, loop, side, midnight>>

\* The catch clause of the link logs the error; nothing writes again until the next charge.
PersistFails ==
  /\ up /\ writing # NoWrite /\ failed < MaxFailed
  /\ writing' = NoWrite /\ queue' = queue - 1 /\ failed' = failed + 1
  /\ UNCHANGED <<up, bucket, hasTask, task, budgetRow, loop, side, midnight>>

CrashWorker ==
  /\ up /\ up' = FALSE
  /\ bucket' = NoRow /\ hasTask' = FALSE /\ task' = 0
  /\ queue' = 0 /\ writing' = NoWrite /\ failed' = 0 /\ loop' = "top" /\ side' = 0
  /\ UNCHANGED <<budgetRow, midnight>>

\* initialize: the row, rolled, or the constructor's values when the query fails.
Initialize ==
  /\ ~up /\ up' = TRUE
  /\ bucket' \in {Rolled(budgetRow), Empty}
  /\ UNCHANGED <<hasTask, task, persistence, loop, side, midnight>>

Less(ticks) == IF ticks = 0 THEN 0 ELSE ticks - 1
Later(b) ==
  [hour |-> b.hour, day |-> b.day, hourLeft |-> Less(b.hourLeft), dayLeft |-> Less(b.dayLeft)]

PassTime ==
  /\ midnight' = IF midnight = 1 THEN DayLength ELSE midnight - 1
  /\ bucket' = Later(bucket)
  /\ budgetRow' = Later(budgetRow) /\ writing' = Later(writing)
  /\ UNCHANGED <<up, hasTask, task, queue, loop, side, failed>>

LoopStep == PickTask \/ LoopCalls \/ LoopAnswered \/ LoopUnmetered \/ LoopCallFails \/ TaskEnds
SideStep == SideCall \/ SideAnswered \/ SideCallFails
PersistStep == PersistStarts \/ PersistEnds \/ PersistFails

BudgetNext == LoopStep \/ SideStep \/ PersistStep \/ CrashWorker \/ Initialize \/ PassTime

\* Time passes, and calls and writes end; nobody has to call the model.
BudgetFairness == WF_budgetVars(PassTime) /\ WF_budgetVars(LoopStep) /\ WF_budgetVars(PersistStep)

BudgetSpec == BudgetInit /\ [][BudgetNext]_budgetVars /\ BudgetFairness

-----------------------------------------------------------------------------
\* The variables have their types.
BudgetTypeOK ==
  /\ up \in BOOLEAN /\ hasTask \in BOOLEAN
  /\ bucket \in Buckets /\ budgetRow \in Buckets /\ writing \in Buckets \union {NoWrite}
  /\ task \in Nat /\ queue \in 0..MaxQueue /\ failed \in 0..MaxFailed
  /\ loop \in {"top", "working", "calling"} /\ side \in 0..SideCalls
  /\ midnight \in 1..DayLength

\* A bucket passes its cap by no more than the calls that were let through
\* while it was below, across windows, refusals and restarts.
OverdrawnByCallsInFlight ==
  /\ bucket.day <= DayCap + SideCalls /\ bucket.hour <= HourCap + SideCalls
  /\ hasTask => task <= TaskCap + SideCalls

\* What a restart would load now lacks at most the charges whose write has
\* not ended or has failed.
RestartForgetsUnwritten ==
  up => LET now == Rolled(bucket)
            loaded == Rolled(budgetRow)
        IN /\ now.day - loaded.day <= queue + failed
           /\ now.hour - loaded.hour <= queue + failed

\* A pause of the agent loop ends, by the hour, the day or a restart.
PauseLifts ==
  (up /\ loop = "top" /\ Paused(Rolled(bucket), task))
    ~> (~up \/ ~Paused(Rolled(bucket), task))
=============================================================================
