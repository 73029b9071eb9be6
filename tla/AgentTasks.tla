----------------------------- MODULE AgentTasks -----------------------------
(***************************************************************************)
(* The task store and the loop of the agent (AgentTaskStore, TaskSources,   *)
(* AgentWorker.start).  Every process keeps the tasks and the runs it       *)
(* loaded when it booted, and writes whole rows; the tables are shared.     *)
(* Of a run only matters whether it is active (selected, analyzing,         *)
(* executing, verifying); a higher number is a later start.                 *)
(***************************************************************************)
EXTENDS Integers, FiniteSets, FiniteSetsExt

CONSTANTS
  Process,      \* worker processes
  Loop,         \* slots for copies of the loop in one process
  Task,
  NoTask,
  MaxUnscoped,  \* bound: tasks without edit scopes
  MaxFailures,  \* AGENT_MAX_TASK_FAILURES
  MaxRuns, MaxHours, MaxCrashes, MaxTerms,  \* bounds
  MaxLostWrites, MaxFailedLoads  \* bounds: failures of the database

ASSUME TasksAssumption ==
  /\ Process # {} /\ NoTask \notin Task /\ MaxFailures \in Nat \ {0}
  /\ {MaxUnscoped, MaxRuns, MaxHours, MaxCrashes, MaxTerms} \subseteq Nat
  /\ {MaxLostWrites, MaxFailedLoads} \subseteq Nat

Run == 1 .. MaxRuns
NoRun == 0
Active == {"selected", "in_progress"}
Status == {"none", "queued", "failed", "blocked", "succeeded", "discarded"} \cup Active
Terminal == {"succeeded", "discarded"}
Record == [status : Status, runCount : 0 .. MaxRuns, fresh : BOOLEAN]

VARIABLES
  unscoped,    \* the tasks without edit scopes; never changes
  rows,        \* agent_source_tasks; fresh: active and updated less than an hour ago
  runRows,     \* agent_task_runs: active and fresh, active and stale, or over
  sourceTasks, \* of each process, its memory of rows
  taskRuns,    \* of each process, its memory of runRows
  booted, runtimeInitialized, backlogSynced, isRunning,  \* of each process
  pc,          \* of each loop: where its iteration is; "off" without one
  sel,         \* of each loop: selection.sourceTask
  cur,         \* of each loop: the run it started, then currentRun
  result,      \* of each loop: the status finishRun is called with
  runTask,     \* the source task of each run
  started,     \* history: runs started
  completed,   \* history: tasks of which a run passed verification and the commit step
  leaders,     \* history: processes that were elected
  lostWrites,  \* history: steps of which a write of a row failed
  failedLoads, \* history: starts that could not load the rows of the tasks
  crashes, hours, terms  \* history

tables == <<rows, runRows, lostWrites>>
memory == <<sourceTasks, taskRuns>>
flags == <<booted, runtimeInitialized, backlogSynced, isRunning>>
loop == <<pc, sel, cur, result>>
history == <<unscoped, runTask, started, completed, leaders, failedLoads, crashes, hours, terms>>
vars == <<tables, memory, flags, loop, history>>

Absent == [status |-> "none", runCount |-> 0, fresh |-> FALSE]
NoTasks == [t \in Task |-> Absent]
NoRuns == [r \in Run |-> "over"]
PC == {"off", "idle", "context", "count", "work", "commit", "finishRun", "finishTask",
       "deadLetter"}

Init ==
  /\ unscoped \in {S \in SUBSET Task : Cardinality(S) <= MaxUnscoped}
  /\ rows = NoTasks /\ runRows = NoRuns
  /\ sourceTasks = [w \in Process |-> rows] /\ taskRuns = [w \in Process |-> runRows]
  /\ booted = [w \in Process |-> FALSE] /\ runtimeInitialized = booted
  /\ backlogSynced = booted /\ isRunning = booted
  /\ pc = [l \in Process \X Loop |-> "off"] /\ sel = [l \in Process \X Loop |-> NoTask]
  /\ cur = [l \in Process \X Loop |-> NoRun] /\ result = [l \in Process \X Loop |-> "none"]
  /\ runTask = [r \in Run |-> NoTask] /\ started = 0 /\ completed = {}
  /\ leaders = {} /\ lostWrites = 0 /\ failedLoads = 0 /\ crashes = 0 /\ hours = 0 /\ terms = 0

Goto(l, place) == pc' = [pc EXCEPT ![l] = place]

\* The iteration ends.
Return(l) ==
  /\ Goto(l, "idle")
  /\ sel' = [sel EXCEPT ![l] = NoTask]
  /\ cur' = [cur EXCEPT ![l] = NoRun]
  /\ result' = [result EXCEPT ![l] = "none"]

\* Memory has changed when a row is written.  A failed write is logged and forgotten.
Lossy(old, new) ==
  LET written == {x \in DOMAIN old : new[x] # old[x]}
  IN  {[x \in DOMAIN old |-> IF x \in lost THEN old[x] ELSE new[x]] : lost \in SUBSET written}

Write(newRows, newRunRows) ==
  \/ rows' = newRows /\ runRows' = newRunRows /\ UNCHANGED lostWrites
  \/ /\ lostWrites < MaxLostWrites /\ lostWrites' = lostWrites + 1
     /\ rows' \in Lossy(rows, newRows) /\ runRows' \in Lossy(runRows, newRunRows)
     /\ <<rows', runRows'>> # <<newRows, newRunRows>>

\* upsertSourceTask: the record in memory, then the whole row.
Upsert(w, t, record) ==
  /\ sourceTasks' = [sourceTasks EXCEPT ![w][t] = record]
  /\ Write([rows EXCEPT ![t] = record], runRows)

\* updateSourceTaskStatus: nothing without a record.
SetStatus(w, t, status) ==
  IF sourceTasks[w][t].status = "none" THEN UNCHANGED <<sourceTasks, tables>>
  ELSE Upsert(w, t, [sourceTasks[w][t] EXCEPT !.status = status, !.fresh = status \in Active])

\* updateRun
SetRun(w, r, state) ==
  /\ taskRuns' = [taskRuns EXCEPT ![w][r] = state]
  /\ Write(rows, [runRows EXCEPT ![r] = state])

\* Mutant: the run started first.
CurrentRunOldest(w) ==
  LET active == {r \in Run : taskRuns[w][r] # "over"}
  IN  IF active = {} THEN NoRun ELSE Min(active)

\* getCurrentRun: the latest active run in memory, whoever started it.
CurrentRun(w) == Max({r \in Run : taskRuns[w][r] # "over"} \cup {NoRun})

-----------------------------------------------------------------------------
\* The process starts: AgentTaskStore.initialize.  A table that cannot be loaded
\* leaves its part of memory empty, and the store counts as initialized.
Boot(w) ==
  /\ ~booted[w]
  /\ booted' = [booted EXCEPT ![w] = TRUE]
  /\ \/ sourceTasks' = [sourceTasks EXCEPT ![w] = rows] /\ UNCHANGED failedLoads
     \/ /\ rows # NoTasks /\ failedLoads < MaxFailedLoads
        /\ sourceTasks' = [sourceTasks EXCEPT ![w] = NoTasks]
        /\ failedLoads' = failedLoads + 1
  /\ \E runs \in {runRows} \cup (IF MaxFailedLoads > 0 THEN {NoRuns} ELSE {}) :
       taskRuns' = [taskRuns EXCEPT ![w] = runs]
  /\ UNCHANGED <<tables, runtimeInitialized, backlogSynced, isRunning, loop, unscoped, runTask,
                 started, completed, leaders, crashes, hours, terms>>

\* recoverStuckTasks: what was not updated for an hour, as memory knows it.
Recover(w) ==
  LET stuck == {t \in Task : sourceTasks[w][t].status \in Active /\ ~sourceTasks[w][t].fresh}
      stale == {r \in Run : taskRuns[w][r] = "stale"}
      Requeued(records) == [t \in Task |->
        IF t \in stuck THEN [sourceTasks[w][t] EXCEPT !.status = "queued"] ELSE records[t]]
      Ended(runs) == [r \in Run |-> IF r \in stale THEN "over" ELSE runs[r]]
  IN  /\ sourceTasks' = [sourceTasks EXCEPT ![w] = Requeued(@)]
      /\ taskRuns' = [taskRuns EXCEPT ![w] = Ended(@)]
      /\ Write(Requeued(rows), Ended(runRows))

(***************************************************************************)
(* The process is elected: start runs initializeRuntime, which recovers     *)
(* stuck tasks the first time only, and enters the loop.                    *)
(***************************************************************************)
Elect(w) ==
  /\ booted[w] /\ ~isRunning[w] /\ terms < MaxTerms
  /\ \E l \in {w} \X Loop : pc[l] = "off" /\ Goto(l, "idle")
  /\ isRunning' = [isRunning EXCEPT ![w] = TRUE]
  /\ runtimeInitialized' = [runtimeInitialized EXCEPT ![w] = TRUE]
  /\ IF runtimeInitialized[w] THEN UNCHANGED <<tables, memory>> ELSE Recover(w)
  /\ terms' = terms + 1 /\ leaders' = leaders \cup {w}
  /\ UNCHANGED <<booted, backlogSynced, sel, cur, result, unscoped, runTask, started, completed,
                 failedLoads, crashes, hours>>

\* stop: the flag falls, and a loop ends when it comes round to its condition.
Demote(w) ==
  /\ isRunning[w]
  /\ isRunning' = [isRunning EXCEPT ![w] = FALSE]
  /\ UNCHANGED <<tables, memory, booted, runtimeInitialized, backlogSynced, loop, history>>

LeaveLoop(l) ==
  /\ pc[l] = "idle" /\ ~isRunning[l[1]]
  /\ Goto(l, "off")
  /\ UNCHANGED <<tables, memory, flags, sel, cur, result, history>>

(***************************************************************************)
(* syncBacklogTasks, in the first collectAllTasks: every backlog task that  *)
(* memory does not know to be finished is written again, or created.        *)
(***************************************************************************)
SyncBacklog(l) ==
  LET w == l[1]
      Synced(t) == IF sourceTasks[w][t].status = "none"
                   THEN [status |-> "queued", runCount |-> 0, fresh |-> FALSE]
                   ELSE [sourceTasks[w][t] EXCEPT !.fresh = sourceTasks[w][t].status \in Active]
      open == {t \in Task : sourceTasks[w][t].status \notin Terminal}
      Written(records) == [t \in Task |-> IF t \in open THEN Synced(t) ELSE records[t]]
  IN  /\ pc[l] = "idle" /\ isRunning[w] /\ ~backlogSynced[w]
      /\ backlogSynced' = [backlogSynced EXCEPT ![w] = TRUE]
      /\ sourceTasks' = [sourceTasks EXCEPT ![w] = Written(@)]
      /\ Write(Written(rows), runRows)
      /\ UNCHANGED <<taskRuns, booted, runtimeInitialized, isRunning, loop, history>>

\* getNextTask: any queued task, or a failed one whose retry delay is over.
Candidates(w) == {t \in Task : sourceTasks[w][t].status \in {"queued", "failed"}}

Block(l, t) ==
  /\ pc[l] = "idle" /\ isRunning[l[1]] /\ backlogSynced[l[1]]
  /\ t \in Candidates(l[1]) \cap unscoped
  /\ SetStatus(l[1], t, "blocked")
  /\ UNCHANGED <<taskRuns, flags, loop, history>>

Select(l, t) ==
  /\ pc[l] = "idle" /\ isRunning[l[1]] /\ backlogSynced[l[1]]
  /\ t \in Candidates(l[1]) \ unscoped
  /\ sel' = [sel EXCEPT ![l] = t]
  /\ Goto(l, "context")
  /\ UNCHANGED <<tables, memory, flags, cur, result, history>>

\* startRun, up to the row of the task.
StartRun(l) ==
  /\ pc[l] = "context" /\ started < MaxRuns
  /\ started' = started + 1
  /\ taskRuns' = [taskRuns EXCEPT ![l[1]][started'] = "fresh"]
  /\ runTask' = [runTask EXCEPT ![started'] = sel[l]]
  /\ cur' = [cur EXCEPT ![l] = started']
  /\ SetStatus(l[1], sel[l], "selected")
  /\ Goto(l, "count")
  /\ UNCHANGED <<flags, sel, result, unscoped, completed, leaders, failedLoads, crashes, hours,
                 terms>>

\* The rest of startRun, and markSourceTaskInProgress: the run, the count and the
\* new status are written one by one; selected and in_progress are alike to readers.
CountTwice(l) ==  \* Mutant: the caller counts the run as well.
  LET record == [status |-> "in_progress", fresh |-> TRUE,
                 runCount |-> sourceTasks[l[1]][sel[l]].runCount + 2]
  IN  /\ pc[l] = "count"
      /\ sourceTasks' = [sourceTasks EXCEPT ![l[1]][sel[l]] = record]
      /\ taskRuns' = [taskRuns EXCEPT ![l[1]][cur[l]] = "fresh"]
      /\ Write([rows EXCEPT ![sel[l]] = record], [runRows EXCEPT ![cur[l]] = "fresh"])
      /\ Goto(l, "work")
      /\ UNCHANGED <<flags, sel, cur, result, history>>

CountRun(l) ==
  LET record == [status |-> "in_progress", fresh |-> TRUE,
                 runCount |-> sourceTasks[l[1]][sel[l]].runCount + 1]
  IN  /\ pc[l] = "count"
      /\ sourceTasks' = [sourceTasks EXCEPT ![l[1]][sel[l]] = record]
      /\ taskRuns' = [taskRuns EXCEPT ![l[1]][cur[l]] = "fresh"]
      /\ Write([rows EXCEPT ![sel[l]] = record], [runRows EXCEPT ![cur[l]] = "fresh"])
      /\ Goto(l, "work")
      /\ UNCHANGED <<flags, sel, cur, result, history>>

(***************************************************************************)
(* streamRealTask has returned, after hours perhaps, and verifyRun passes.  *)
(* completeSuccessfulRun looks up afresh which run it finishes.             *)
(***************************************************************************)
Passes(l) ==
  /\ pc[l] = "work"
  /\ SetRun(l[1], cur[l], "fresh")
  /\ cur' = [cur EXCEPT ![l] = CurrentRun(l[1])']
  /\ Goto(l, "commit")
  /\ UNCHANGED <<sourceTasks, flags, sel, result, history>>

\* finishRun begins: the branch knows the status it will write.
Finish(l, status) ==
  /\ result' = [result EXCEPT ![l] = status]
  /\ Goto(l, "finishRun")

\* handleFailedRun, or the catch clause after a throw.
Fails(l) ==
  /\ pc[l] \in {"context", "work"}
  /\ IF CurrentRun(l[1]) = NoRun THEN Return(l)
     ELSE /\ cur' = [cur EXCEPT ![l] = CurrentRun(l[1])]
          /\ Finish(l, "failed")
          /\ UNCHANGED sel
  /\ UNCHANGED <<tables, memory, flags, history>>

\* autoCommitAndPush: an answer of success counts as the success of the task.  It
\* is given with a commit and, when git shows nothing in scope, without one.
Commit(l) ==
  /\ pc[l] = "commit"
  /\ \/ Finish(l, "succeeded") /\ completed' = completed \cup {sel[l]}
     \/ Finish(l, "failed") /\ UNCHANGED completed
  /\ UNCHANGED <<tables, memory, flags, sel, cur, unscoped, runTask, started, leaders,
                 failedLoads, crashes, hours, terms>>

\* finishRun: the run, the task, and the dead-letter queue, one await each.
FinishRun(l) ==
  /\ pc[l] = "finishRun"
  /\ SetRun(l[1], cur[l], "over")
  /\ Goto(l, "finishTask")
  /\ UNCHANGED <<sourceTasks, flags, sel, cur, result, history>>

FinishTask(l) ==
  /\ pc[l] = "finishTask"
  /\ SetStatus(l[1], runTask[cur[l]], result[l])
  /\ IF result[l] = "failed" THEN Goto(l, "deadLetter") /\ UNCHANGED <<sel, cur, result>>
     ELSE Return(l)
  /\ UNCHANGED <<taskRuns, flags, history>>

DeadLetterLate(l) ==  \* Mutant: > instead of >=.
  /\ pc[l] = "deadLetter"
  /\ IF sourceTasks[l[1]][runTask[cur[l]]].runCount > MaxFailures
     THEN SetStatus(l[1], runTask[cur[l]], "discarded")
     ELSE UNCHANGED <<sourceTasks, tables>>
  /\ Return(l)
  /\ UNCHANGED <<taskRuns, flags, history>>

\* deadLetterIfExhausted
DeadLetter(l) ==
  /\ pc[l] = "deadLetter"
  /\ IF sourceTasks[l[1]][runTask[cur[l]]].runCount >= MaxFailures
     THEN SetStatus(l[1], runTask[cur[l]], "discarded")
     ELSE UNCHANGED <<sourceTasks, tables>>
  /\ Return(l)
  /\ UNCHANGED <<taskRuns, flags, history>>

-----------------------------------------------------------------------------
\* The process dies and forgets; Boot starts it again.
Crash(w) ==
  /\ booted[w] /\ crashes < MaxCrashes
  /\ crashes' = crashes + 1
  /\ booted' = [booted EXCEPT ![w] = FALSE]
  /\ runtimeInitialized' = [runtimeInitialized EXCEPT ![w] = FALSE]
  /\ backlogSynced' = [backlogSynced EXCEPT ![w] = FALSE]
  /\ isRunning' = [isRunning EXCEPT ![w] = FALSE]
  /\ sourceTasks' = [sourceTasks EXCEPT ![w] = NoTasks]
  /\ taskRuns' = [taskRuns EXCEPT ![w] = NoRuns]
  /\ LET Reset(f, v) == [l \in Process \X Loop |-> IF l[1] = w THEN v ELSE f[l]]
     IN  pc' = Reset(pc, "off") /\ sel' = Reset(sel, NoTask)
         /\ cur' = Reset(cur, NoRun) /\ result' = Reset(result, "none")
  /\ UNCHANGED <<tables, unscoped, runTask, started, completed, leaders, failedLoads, hours,
                 terms>>

\* An hour without an update makes every record stale.
HourPasses ==
  /\ hours < MaxHours
  /\ hours' = hours + 1
  /\ LET Aged(records) == [t \in Task |-> [records[t] EXCEPT !.fresh = FALSE]]
         AgedRuns(runs) == [r \in Run |-> IF runs[r] = "fresh" THEN "stale" ELSE runs[r]]
     IN  /\ rows' = Aged(rows) /\ runRows' = AgedRuns(runRows)
         /\ sourceTasks' = [w \in Process |-> Aged(sourceTasks[w])]
         /\ taskRuns' = [w \in Process |-> AgedRuns(taskRuns[w])]
  /\ UNCHANGED <<flags, loop, unscoped, runTask, started, completed, leaders, lostWrites,
                 failedLoads, crashes, terms>>

Step(l) ==
  \/ LeaveLoop(l) \/ SyncBacklog(l) \/ (\E t \in Task : Block(l, t) \/ Select(l, t))
  \/ StartRun(l) \/ CountRun(l) \/ Passes(l) \/ Fails(l) \/ Commit(l) \/ FinishRun(l)
  \/ FinishTask(l) \/ DeadLetter(l)

Next ==
  \/ \E w \in Process : Boot(w) \/ Elect(w) \/ Demote(w) \/ Crash(w)
  \/ \E l \in Process \X Loop : Step(l)
  \/ HourPasses

Spec == Init /\ [][Next]_vars

-----------------------------------------------------------------------------
(* Type correctness of the whole state. *)
TypeOK ==
  /\ rows \in [Task -> Record] /\ runRows \in [Run -> {"over", "stale", "fresh"}]
  /\ sourceTasks \in [Process -> [Task -> Record]]
  /\ taskRuns \in [Process -> [Run -> {"over", "stale", "fresh"}]]
  /\ {booted, runtimeInitialized, backlogSynced, isRunning} \subseteq [Process -> BOOLEAN]
  /\ pc \in [Process \X Loop -> PC] /\ sel \in [Process \X Loop -> Task \cup {NoTask}]
  /\ cur \in [Process \X Loop -> Run \cup {NoRun}]
  /\ result \in [Process \X Loop -> {"none", "failed", "succeeded"}]
  /\ runTask \in [Run -> Task \cup {NoTask}] /\ unscoped \subseteq Task
  /\ started \in 0 .. MaxRuns /\ completed \subseteq Task /\ leaders \subseteq Process
  /\ lostWrites \in 0 .. MaxLostWrites /\ failedLoads \in 0 .. MaxFailedLoads
  /\ crashes \in 0 .. MaxCrashes /\ hours \in 0 .. MaxHours /\ terms \in 0 .. MaxTerms

Attempts(t) == Cardinality({r \in Run : runTask[r] = t})

(* While a process runs one copy of the loop, a row says succeeded only of a
   task of which a run was verified and passed the commit step: the success of
   one task is never booked on another, although the run to finish is looked up
   again after hours of awaits and memory may hold active runs of a process that
   died and rows that another has written since (completeSuccessfulRun).  Whether
   that success left a commit is asked in Authoring. *)
SuccessIsOwn == \A t \in Task : rows[t].status = "succeeded" => t \in completed

(* A task is given up only after as many runs as the limit says, whatever stale
   records crashes and failovers bring back (deadLetterIfExhausted). *)
NotGivenUpEarly ==
  \A t \in Task : rows[t].status = "discarded" => Attempts(t) >= MaxFailures

(* As long as no other process was elected, a failing task is retried up to the
   limit in each life of the process, whatever writes and loads the database
   refuses; with a database that answers, up to the limit and one run more for
   each crash.  Another process may begin to count anew: it has the tables as
   they were when it booted (deadLetterIfExhausted, syncBacklogTasks). *)
RetriesBounded ==
  Cardinality(leaders) <= 1 => \A t \in Task :
    /\ Attempts(t) <= MaxFailures * (crashes + 1)
    /\ lostWrites = 0 /\ failedLoads = 0 => Attempts(t) <= MaxFailures + crashes
=============================================================================
