-------------------------- MODULE AgentTasksProofs --------------------------
(***************************************************************************)
(* Proofs about AgentTasks, for any processes, tasks and bounds.  What the  *)
(* tables and memories count of a task holds for any number of copies of    *)
(* the loop; the rest is about processes that run one copy.                 *)
(***************************************************************************)
EXTENDS AgentTasks, IndexLemmas, FiniteSetTheorems, TLAPS

AllLoops == Process \X Loop
RunStates == {"over", "stale", "fresh"}

\* The parts of TypeOK.
RecordType ==
  /\ rows \in [Task -> Record] /\ sourceTasks \in [Process -> [Task -> Record]]
  /\ runRows \in [Run -> RunStates] /\ taskRuns \in [Process -> [Run -> RunStates]]
FlagType ==
  /\ booted \in [Process -> BOOLEAN] /\ runtimeInitialized \in [Process -> BOOLEAN]
  /\ backlogSynced \in [Process -> BOOLEAN] /\ isRunning \in [Process -> BOOLEAN]
LoopType ==
  /\ pc \in [AllLoops -> PC] /\ sel \in [AllLoops -> Task \cup {NoTask}]
  /\ cur \in [AllLoops -> Run \cup {NoRun}]
  /\ result \in [AllLoops -> {"none", "failed", "succeeded"}]
FaultType == lostWrites \in 0 .. MaxLostWrites /\ failedLoads \in 0 .. MaxFailedLoads
HistoryType ==
  /\ runTask \in [Run -> Task \cup {NoTask}] /\ unscoped \subseteq Task
  /\ started \in 0 .. MaxRuns /\ completed \subseteq Task /\ leaders \subseteq Process
  /\ crashes \in 0 .. MaxCrashes /\ hours \in 0 .. MaxHours /\ terms \in 0 .. MaxTerms

\* Runs are numbered as they start, and nothing is known of a later one.
RunInv ==
  \A r \in Run :
    /\ r > started => runTask[r] = NoTask /\ runRows[r] = "over"
    /\ r > started => \A w \in Process : taskRuns[w][r] = "over"
    /\ r <= started => runTask[r] \in Task

\* What a loop holds: its task, its run, and a run that nobody else counts.
Holding == {"count", "work", "commit", "finishRun", "finishTask", "deadLetter"}
HoldInv ==
  \A l \in AllLoops :
    /\ pc[l] \in {"context", "count", "work", "commit"} => sel[l] \in Task
    /\ pc[l] \in Holding => cur[l] \in 1 .. started
    /\ pc[l] = "count" => runTask[cur[l]] = sel[l]
    /\ pc[l] = "count" => \A k \in AllLoops \ {l} : pc[k] = "count" => cur[k] # cur[l]

\* Only an elected process has loops.
LeadInv ==
  /\ \A l \in AllLoops : pc[l] # "off" => booted[l[1]] /\ l[1] \in leaders
  /\ IsFiniteSet(leaders)

\* The runs of a task, and those that no loop of this process is about to count.
Begun(t) == {r \in Run : runTask[r] = t}
Counted(w, t) ==
  {r \in Begun(t) : \A l \in AllLoops : l[1] = w /\ pc[l] = "count" => cur[l] # r}

\* No record counts a run that was not started.
CountInv ==
  \A t \in Task :
    /\ rows[t].runCount <= Cardinality(Begun(t))
    /\ \A w \in Process : sourceTasks[w][t].runCount <= Cardinality(Counted(w, t))

TasksInv ==
  /\ RecordType /\ FlagType /\ LoopType /\ HistoryType
  /\ RunInv /\ HoldInv /\ LeadInv /\ CountInv /\ NotGivenUpEarly

-----------------------------------------------------------------------------
(* The parts are all of TypeOK. *)
LEMMA TasksTypeParts ==
  RecordType /\ FlagType /\ LoopType /\ FaultType /\ HistoryType => TypeOK
BY DEF RecordType, FlagType, LoopType, FaultType, HistoryType, TypeOK, RunStates, AllLoops

(* A record with another status is a record that counts the same runs. *)
LEMMA RecordWith ==
  ASSUME NEW r \in Record, NEW s \in Status, NEW b \in BOOLEAN
  PROVE  LET q == [r EXCEPT !.status = s, !.fresh = b]
         IN  q \in Record /\ q.status = s /\ q.runCount = r.runCount
BY DEF Record

(* The same for one without the mark. *)
LEMMA RecordRequeued ==
  ASSUME NEW r \in Record, NEW s \in Status
  PROVE  LET q == [r EXCEPT !.status = s]
         IN  q \in Record /\ q.status = s /\ q.runCount = r.runCount
BY DEF Record

LEMMA RecordAged ==
  ASSUME NEW r \in Record, NEW b \in BOOLEAN
  PROVE  LET q == [r EXCEPT !.fresh = b]
         IN  q \in Record /\ q.status = r.status /\ q.runCount = r.runCount
BY DEF Record

(* What is written of a row is the new value or, when the write failed, the old one. *)
LEMMA WriteKeeps ==
  ASSUME RecordType, NEW nr \in [Task -> Record], NEW nu \in [Run -> RunStates], Write(nr, nu)
  PROVE  /\ rows' \in [Task -> Record] /\ runRows' \in [Run -> RunStates]
         /\ \A t \in Task : rows'[t] \in {rows[t], nr[t]}
         /\ \A r \in Run : runRows'[r] \in {runRows[r], nu[r]}
         /\ nr = rows => rows' = rows
         /\ nu = runRows => runRows' = runRows
<1>0. rows \in [Task -> Record] /\ runRows \in [Run -> RunStates]
      /\ DOMAIN rows = Task /\ DOMAIN runRows = Run
  BY DEF RecordType
<1>1. CASE rows' = nr /\ runRows' = nu
  BY <1>1
<1>2. CASE rows' \in Lossy(rows, nr) /\ runRows' \in Lossy(runRows, nu)
  <2>1. PICK lost \in SUBSET Task :
          rows' = [x \in Task |-> IF x \in lost THEN rows[x] ELSE nr[x]]
    BY <1>0, <1>2 DEF Lossy
  <2>2. PICK gone \in SUBSET Run :
          runRows' = [x \in Run |-> IF x \in gone THEN runRows[x] ELSE nu[x]]
    BY <1>0, <1>2 DEF Lossy
  <2>3. rows' \in [Task -> Record] /\ \A t \in Task : rows'[t] \in {rows[t], nr[t]}
    BY <1>0, <2>1
  <2>4. runRows' \in [Run -> RunStates] /\ \A r \in Run : runRows'[r] \in {runRows[r], nu[r]}
    BY <1>0, <2>2
  <2>5. nr = rows => rows' = rows
    BY <1>0, <2>1
  <2>6. nu = runRows => runRows' = runRows
    BY <1>0, <2>2
  <2> QED
    BY <2>3, <2>4, <2>5, <2>6
<1> QED
  BY <1>1, <1>2 DEF Write

(* Failed writes are counted. *)
LEMMA WriteCounts ==
  ASSUME FaultType, NEW nr, NEW nu, Write(nr, nu)
  PROVE  /\ lostWrites' \in 0 .. MaxLostWrites /\ lostWrites' >= lostWrites
         /\ lostWrites' = lostWrites => rows' = nr /\ runRows' = nu
BY TasksAssumption DEF FaultType, Write

\* Nothing else than the record of t changes, in the table and the memory of w.
OnlyTask(w, t) ==
  /\ \A u \in Task \ {t} : rows'[u] = rows[u]
  /\ \A v \in Process, u \in Task : v # w \/ u # t => sourceTasks'[v][u] = sourceTasks[v][u]

(* Writing a record puts it in the memory, and in the table if the write succeeds. *)
LEMMA UpsertWrites ==
  ASSUME RecordType, NEW w \in Process, NEW t \in Task, NEW r \in Record, Upsert(w, t, r)
  PROVE  /\ rows' \in [Task -> Record] /\ sourceTasks' \in [Process -> [Task -> Record]]
         /\ rows'[t] \in {rows[t], r} /\ sourceTasks'[w][t] = r /\ OnlyTask(w, t)
         /\ runRows' = runRows
<1> DEFINE written == [rows EXCEPT ![t] = r]
<1>1. Write(written, runRows) /\ sourceTasks' = [sourceTasks EXCEPT ![w][t] = r]
  BY DEF Upsert
<1>2. rows \in [Task -> Record] /\ sourceTasks \in [Process -> [Task -> Record]]
      /\ runRows \in [Run -> RunStates]
  BY DEF RecordType
<1>3. written \in [Task -> Record] /\ written[t] = r /\ \A u \in Task \ {t} : written[u] = rows[u]
  BY <1>2
<1> HIDE DEF written
<1>4. /\ rows' \in [Task -> Record] /\ runRows' = runRows
      /\ \A u \in Task : rows'[u] \in {rows[u], written[u]}
  BY <1>1, <1>2, <1>3, WriteKeeps
<1>5. sourceTasks' \in [Process -> [Task -> Record]]
  BY <1>1, <1>2
<1>6. sourceTasks'[w][t] = r
  BY <1>1, <1>2
<1>7. OnlyTask(w, t)
  <2>1. \A u \in Task \ {t} : rows'[u] = rows[u]
    BY <1>3, <1>4
  <2>2. \A v \in Process, u \in Task : v # w \/ u # t => sourceTasks'[v][u] = sourceTasks[v][u]
    BY <1>1, <1>2
  <2> QED
    BY <2>1, <2>2 DEF OnlyTask
<1> QED
  BY <1>3, <1>4, <1>5, <1>6, <1>7

(* A new status is written with what the memory counts, if it has a record. *)
LEMMA StatusWrites ==
  ASSUME RecordType, NEW w \in Process, NEW t \in Task, NEW s \in Status, SetStatus(w, t, s)
  PROVE  /\ rows' \in [Task -> Record] /\ sourceTasks' \in [Process -> [Task -> Record]]
         /\ OnlyTask(w, t) /\ runRows' = runRows
         /\ sourceTasks'[w][t].runCount = sourceTasks[w][t].runCount
         /\ \/ /\ sourceTasks[w][t].status = "none"
               /\ rows' = rows /\ sourceTasks' = sourceTasks
            \/ /\ sourceTasks[w][t].status # "none" /\ rows'[t] \in {rows[t], sourceTasks'[w][t]}
               /\ sourceTasks'[w][t].status = s
<1>0. rows \in [Task -> Record] /\ sourceTasks \in [Process -> [Task -> Record]]
  BY DEF RecordType
<1>1. CASE sourceTasks[w][t].status = "none"
  BY <1>0, <1>1 DEF SetStatus, OnlyTask, tables
<1>2. CASE sourceTasks[w][t].status # "none"
  <2> DEFINE q == [sourceTasks[w][t] EXCEPT !.status = s, !.fresh = s \in Active]
  <2>1. sourceTasks[w][t] \in Record
    BY <1>0
  <2>2. q \in Record /\ q.status = s /\ q.runCount = sourceTasks[w][t].runCount
    <3>1. (s \in Active) \in BOOLEAN
      OBVIOUS
    <3> QED
      BY <2>1, <3>1, RecordWith
  <2>3. Upsert(w, t, q)
    BY <1>2 DEF SetStatus
  <2> HIDE DEF q
  <2> QED
    BY <1>2, <2>2, <2>3, UpsertWrites
<1> QED
  BY <1>1, <1>2

(* While no write fails, the table gets what the memory has. *)
LEMMA StatusSaved ==
  ASSUME RecordType, FaultType, NEW w \in Process, NEW t \in Task, NEW s \in Status,
         SetStatus(w, t, s), lostWrites' = lostWrites
  PROVE  sourceTasks[w][t].status # "none" => rows'[t] = sourceTasks'[w][t]
<1> SUFFICES ASSUME sourceTasks[w][t].status # "none" PROVE rows'[t] = sourceTasks'[w][t]
  OBVIOUS
<1> DEFINE q == [sourceTasks[w][t] EXCEPT !.status = s, !.fresh = s \in Active]
<1>1. sourceTasks' = [sourceTasks EXCEPT ![w][t] = q] /\ Write([rows EXCEPT ![t] = q], runRows)
  BY DEF SetStatus, Upsert
<1> HIDE DEF q
<1>2. rows' = [rows EXCEPT ![t] = q]
  BY <1>1, WriteCounts
<1> QED
  BY <1>1, <1>2 DEF RecordType

\* What recovery and the backlog write: the records of the memory of w, not finished.
Rewrites(w) ==
  /\ rows' \in [Task -> Record] /\ sourceTasks' \in [Process -> [Task -> Record]]
  /\ \A v \in Process \ {w}, u \in Task : sourceTasks'[v][u] = sourceTasks[v][u]
  /\ \A u \in Task :
       \/ rows'[u] = rows[u] /\ sourceTasks'[w][u] = sourceTasks[w][u]
       \/ /\ rows'[u] \in {rows[u], sourceTasks'[w][u]} /\ sourceTasks[w][u].status \notin Terminal
          /\ sourceTasks'[w][u].status \notin Terminal \cup {"none"}
          /\ \/ sourceTasks'[w][u].runCount = sourceTasks[w][u].runCount
             \/ sourceTasks[w][u].status = "none" /\ sourceTasks'[w][u].runCount = 0

\* And if no write failed, all of them are in the table.
Saves(w) ==
  lostWrites' = lostWrites => \A u \in Task :
    \/ rows'[u] = rows[u] /\ sourceTasks'[w][u] = sourceTasks[w][u]
    \/ rows'[u] = sourceTasks'[w][u]

(* Recovery queues again what is stuck, and ends runs that nobody heard of for an hour. *)
LEMMA RecoverWrites ==
  ASSUME RecordType, NEW w \in Process, Recover(w)
  PROVE  /\ Rewrites(w) /\ (FaultType => Saves(w))
         /\ \A u \in Task : sourceTasks[w][u].status \in {"queued", "failed"} =>
              sourceTasks'[w][u] = sourceTasks[w][u]
         /\ runRows' \in [Run -> RunStates] /\ taskRuns' \in [Process -> [Run -> RunStates]]
         /\ \A r \in Run : runRows'[r] \in {runRows[r], "over"}
         /\ \A v \in Process, r \in Run : taskRuns'[v][r] \in {taskRuns[v][r], "over"}
<1> DEFINE stuck == {t \in Task : sourceTasks[w][t].status \in Active /\ ~sourceTasks[w][t].fresh}
           Requeued(t) == [sourceTasks[w][t] EXCEPT !.status = "queued"]
           stale == {r \in Run : taskRuns[w][r] = "stale"}
           written == [t \in Task |-> IF t \in stuck THEN Requeued(t) ELSE rows[t]]
           ended == [r \in Run |-> IF r \in stale THEN "over" ELSE runRows[r]]
<1>0. /\ rows \in [Task -> Record] /\ sourceTasks \in [Process -> [Task -> Record]]
      /\ runRows \in [Run -> RunStates] /\ taskRuns \in [Process -> [Run -> RunStates]]
  BY DEF RecordType
<1>1. /\ Write(written, ended)
      /\ sourceTasks' = [sourceTasks EXCEPT
           ![w] = [t \in Task |-> IF t \in stuck THEN Requeued(t) ELSE sourceTasks[w][t]]]
      /\ taskRuns' = [taskRuns EXCEPT
           ![w] = [r \in Run |-> IF r \in stale THEN "over" ELSE taskRuns[w][r]]]
  BY DEF Recover
<1>2. \A t \in stuck : /\ t \in Task /\ Requeued(t) \in Record /\ Requeued(t).status = "queued"
                       /\ Requeued(t).runCount = sourceTasks[w][t].runCount
                       /\ sourceTasks[w][t].status \in Active
  <2> SUFFICES ASSUME NEW t \in stuck
               PROVE  /\ t \in Task /\ Requeued(t) \in Record /\ Requeued(t).status = "queued"
                      /\ Requeued(t).runCount = sourceTasks[w][t].runCount
                      /\ sourceTasks[w][t].status \in Active
    OBVIOUS
  <2>1. sourceTasks[w][t] \in Record /\ "queued" \in Status
    BY <1>0 DEF Status
  <2>2. Requeued(t) = [sourceTasks[w][t] EXCEPT !.status = "queued"]
    OBVIOUS
  <2>3. Requeued(t) \in Record /\ Requeued(t).status = "queued"
        /\ Requeued(t).runCount = sourceTasks[w][t].runCount
    BY <2>1, <2>2, RecordRequeued
  <2> QED
    BY <2>3
<1> HIDE DEF Requeued, stuck, stale
<1>3. /\ written \in [Task -> Record] /\ ended \in [Run -> RunStates]
      /\ \A t \in Task : written[t] = IF t \in stuck THEN Requeued(t) ELSE rows[t]
      /\ \A r \in Run : ended[r] \in {runRows[r], "over"}
  BY <1>0, <1>2 DEF RunStates
<1> HIDE DEF written, ended
<1>4. /\ rows' \in [Task -> Record] /\ runRows' \in [Run -> RunStates]
      /\ \A t \in Task : rows'[t] \in {rows[t], written[t]}
      /\ \A r \in Run : runRows'[r] \in {runRows[r], ended[r]}
  BY <1>1, <1>3, WriteKeeps
<1>5. FaultType /\ lostWrites' = lostWrites => rows' = written
  BY <1>1, WriteCounts
<1>6. \A u \in Task : sourceTasks'[w][u] = IF u \in stuck THEN Requeued(u) ELSE sourceTasks[w][u]
  BY <1>0, <1>1
<1>7. FaultType => Saves(w)
  BY <1>2, <1>3, <1>5, <1>6 DEF Saves
<1>8. Rewrites(w)
  <2>2. [t \in Task |-> IF t \in stuck THEN Requeued(t) ELSE sourceTasks[w][t]] \in [Task -> Record]
    BY <1>0, <1>2
  <2>3. sourceTasks' \in [Process -> [Task -> Record]]
    BY <1>0, <1>1, <2>2
  <2>4. \A v \in Process \ {w}, u \in Task : sourceTasks'[v][u] = sourceTasks[v][u]
    BY <1>0, <1>1
  <2> QED
    BY <1>2, <1>3, <1>4, <1>6, <2>3, <2>4 DEF Rewrites, Terminal, Active
<1>9. \A u \in Task : sourceTasks[w][u].status \in {"queued", "failed"} =>
        sourceTasks'[w][u] = sourceTasks[w][u]
  BY <1>2, <1>6 DEF Active
<1>10. /\ runRows' \in [Run -> RunStates] /\ taskRuns' \in [Process -> [Run -> RunStates]]
       /\ \A r \in Run : runRows'[r] \in {runRows[r], "over"}
       /\ \A v \in Process, r \in Run : taskRuns'[v][r] \in {taskRuns[v][r], "over"}
  BY <1>0, <1>1, <1>3, <1>4 DEF RunStates
<1> QED
  BY <1>7, <1>8, <1>9, <1>10

(* The backlog is written over what memory does not know to be finished. *)
LEMMA SyncWrites ==
  ASSUME RecordType, NEW l \in AllLoops, SyncBacklog(l)
  PROVE  Rewrites(l[1]) /\ runRows' = runRows /\ (FaultType => Saves(l[1]))
<1> DEFINE w == l[1]
           Synced(t) == IF sourceTasks[w][t].status = "none"
                        THEN [status |-> "queued", runCount |-> 0, fresh |-> FALSE]
                        ELSE [sourceTasks[w][t] EXCEPT !.fresh = sourceTasks[w][t].status \in Active]
           todo == {t \in Task : sourceTasks[w][t].status \notin Terminal}
           written == [t \in Task |-> IF t \in todo THEN Synced(t) ELSE rows[t]]
<1>0. /\ runRows \in [Run -> RunStates] /\ rows \in [Task -> Record] /\ sourceTasks \in [Process -> [Task -> Record]] /\ w \in Process
  BY DEF RecordType, AllLoops
<1>1. /\ Write(written, runRows)
      /\ sourceTasks' = [sourceTasks EXCEPT
           ![w] = [t \in Task |-> IF t \in todo THEN Synced(t) ELSE sourceTasks[w][t]]]
  BY DEF SyncBacklog
<1>2. \A t \in todo : /\ t \in Task /\ Synced(t) \in Record
                      /\ sourceTasks[w][t].status \notin Terminal
                      /\ Synced(t).status \notin Terminal \cup {"none"}
                      /\ \/ Synced(t).runCount = sourceTasks[w][t].runCount
                         \/ sourceTasks[w][t].status = "none" /\ Synced(t).runCount = 0
  <2> SUFFICES ASSUME NEW t \in todo
               PROVE  /\ t \in Task /\ Synced(t) \in Record
                      /\ sourceTasks[w][t].status \notin Terminal
                      /\ Synced(t).status \notin Terminal \cup {"none"}
                      /\ \/ Synced(t).runCount = sourceTasks[w][t].runCount
                         \/ sourceTasks[w][t].status = "none" /\ Synced(t).runCount = 0
    OBVIOUS
  <2>1. sourceTasks[w][t] \in Record /\ sourceTasks[w][t].status \notin Terminal
    BY <1>0
  <2>2. CASE sourceTasks[w][t].status = "none"
    <3>1. Synced(t) = [status |-> "queued", runCount |-> 0, fresh |-> FALSE]
      BY <2>2
    <3>2. 0 \in 0 .. MaxRuns
      BY TasksAssumption
    <3> QED
      BY <2>2, <3>1, <3>2 DEF Record, Status, Terminal
  <2>3. CASE sourceTasks[w][t].status # "none"
    <3> DEFINE b == sourceTasks[w][t].status \in Active
    <3>1. Synced(t) = [sourceTasks[w][t] EXCEPT !.fresh = b]
      BY <2>3
    <3>2. b \in BOOLEAN
      OBVIOUS
    <3> HIDE DEF b
    <3>3. Synced(t) \in Record /\ Synced(t).status = sourceTasks[w][t].status
          /\ Synced(t).runCount = sourceTasks[w][t].runCount
      BY <2>1, <3>1, <3>2, RecordAged
    <3> QED
      BY <2>1, <2>3, <3>3
  <2> QED
    BY <2>2, <2>3
<1> HIDE DEF Synced, todo, w
<1>3. /\ written \in [Task -> Record]
      /\ \A t \in Task : written[t] = IF t \in todo THEN Synced(t) ELSE rows[t]
  BY <1>0, <1>2
<1> HIDE DEF written
<1>4. /\ rows' \in [Task -> Record] /\ runRows' = runRows
      /\ \A t \in Task : rows'[t] \in {rows[t], written[t]}
  BY <1>0, <1>1, <1>3, WriteKeeps
<1>5. FaultType /\ lostWrites' = lostWrites => rows' = written
  BY <1>1, WriteCounts
<1>7. [t \in Task |-> IF t \in todo THEN Synced(t) ELSE sourceTasks[w][t]] \in [Task -> Record]
  BY <1>0, <1>2
<1>8. sourceTasks' \in [Process -> [Task -> Record]]
  BY <1>0, <1>1, <1>7
<1>9. \A v \in Process \ {w}, u \in Task : sourceTasks'[v][u] = sourceTasks[v][u]
  BY <1>0, <1>1
<1>10. \A u \in Task : sourceTasks'[w][u] = IF u \in todo THEN Synced(u) ELSE sourceTasks[w][u]
  BY <1>0, <1>1
<1>11. Rewrites(w)
  BY <1>2, <1>3, <1>4, <1>8, <1>9, <1>10 DEF Rewrites
<1>12. FaultType => Saves(w)
  BY <1>2, <1>3, <1>5, <1>10 DEF Saves
<1> QED
  BY <1>4, <1>11, <1>12 DEF w

-----------------------------------------------------------------------------
(* There are finitely many runs, so a task has a number of them. *)
LEMMA RunsFinite ==
  /\ IsFiniteSet(Run)
  /\ \A S \in SUBSET Run : IsFiniteSet(S) /\ Cardinality(S) \in 0 .. MaxRuns
  /\ \A S, T \in SUBSET Run : S \subseteq T => Cardinality(S) <= Cardinality(T)
<1>1. MaxRuns \in Nat
  BY TasksAssumption
<1>2. IsFiniteSet(Run) /\ Cardinality(Run) = MaxRuns
  BY <1>1, FS_Interval DEF Run
<1>3. \A S \in SUBSET Run : IsFiniteSet(S) /\ Cardinality(S) \in 0 .. MaxRuns
  <2> TAKE S \in SUBSET Run
  <2>1. IsFiniteSet(S) /\ Cardinality(S) <= Cardinality(Run)
    BY <1>2, FS_Subset
  <2>2. Cardinality(S) \in Nat
    BY <2>1, FS_CardinalityType
  <2> QED
    BY <1>1, <1>2, <2>1, <2>2
<1>4. \A S, T \in SUBSET Run : S \subseteq T => Cardinality(S) <= Cardinality(T)
  BY <1>3, FS_Subset
<1> QED
  BY <1>2, <1>3, <1>4

LEMMA BegunFinite ==
  ASSUME NEW t
  PROVE  Begun(t) \in SUBSET Run /\ Cardinality(Begun(t)) \in 0 .. MaxRuns
BY RunsFinite DEF Begun

LEMMA CountedFinite ==
  ASSUME NEW w, NEW t
  PROVE  /\ Counted(w, t) \in SUBSET Run /\ Cardinality(Counted(w, t)) \in 0 .. MaxRuns
         /\ Cardinality(Counted(w, t)) <= Cardinality(Begun(t))
<1>1. Counted(w, t) \in SUBSET Run /\ Begun(t) \in SUBSET Run /\ Counted(w, t) \subseteq Begun(t)
  BY DEF Counted, Begun
<1> QED
  BY <1>1, RunsFinite

\* Runs keep their task, and a run that a loop is about to count it was already, or is new.
RunsKept ==
  /\ \A r \in Run : runTask[r] \in Task => runTask'[r] = runTask[r]
  /\ \A l \in AllLoops : pc'[l] = "count" =>
       \/ pc[l] = "count" /\ cur'[l] = cur[l]
       \/ runTask[cur'[l]] \notin Task

(* Then no set of runs that counts shrinks. *)
LEMMA CountsGrow ==
  ASSUME RunsKept, NEW t \in Task
  PROVE  /\ Cardinality(Begun(t)) <= Cardinality(Begun(t)')
         /\ Begun(t)' \in SUBSET Run /\ Cardinality(Begun(t)') \in 0 .. MaxRuns
         /\ \A w \in Process :
              /\ Cardinality(Counted(w, t)) <= Cardinality(Counted(w, t)')
              /\ Cardinality(Counted(w, t)') \in 0 .. MaxRuns
<1>1. Begun(t) \subseteq Begun(t)' /\ Begun(t) \in SUBSET Run /\ Begun(t)' \in SUBSET Run
  BY DEF Begun, RunsKept
<1>2. \A w \in Process :
        /\ Counted(w, t) \subseteq Counted(w, t)'
        /\ Counted(w, t) \in SUBSET Run /\ Counted(w, t)' \in SUBSET Run
  <2> TAKE w \in Process
  <2>1. Counted(w, t) \in SUBSET Run /\ Counted(w, t)' \in SUBSET Run
    BY DEF Counted, Begun
  <2>2. ASSUME NEW r \in Counted(w, t) PROVE r \in Counted(w, t)'
    <3>1. r \in Run /\ runTask[r] = t /\ r \in Begun(t)'
      BY <1>1 DEF Counted, Begun
    <3>2. ASSUME NEW l \in AllLoops, l[1] = w, pc'[l] = "count" PROVE cur'[l] # r
      <4>1. CASE pc[l] = "count" /\ cur'[l] = cur[l]
        BY <3>2, <4>1 DEF Counted
      <4>2. CASE runTask[cur'[l]] \notin Task
        BY <3>1, <4>2
      <4> QED
        BY <3>2, <4>1, <4>2 DEF RunsKept
    <3> QED
      BY <3>1, <3>2 DEF Counted
  <2> QED
    BY <2>1, <2>2
<1> QED
  BY <1>1, <1>2, RunsFinite

\* What tables and memories count is what one of them counted already, or nothing.
CountsCopied ==
  /\ \A t \in Task :
       \/ rows'[t].runCount <= rows[t].runCount
       \/ \E w \in Process : rows'[t].runCount <= sourceTasks[w][t].runCount
  /\ \A w \in Process, t \in Task : sourceTasks'[w][t].runCount <= sourceTasks[w][t].runCount

(* A step that begins no count and copies what was counted keeps the count. *)
LEMMA CountsStay ==
  ASSUME RecordType, RecordType', CountInv, RunsKept, CountsCopied
  PROVE  CountInv'
<1>1. \A t \in Task : rows[t].runCount \in Nat /\ rows'[t].runCount \in Nat
  BY TasksAssumption DEF RecordType, Record
<1>2. \A w \in Process, t \in Task :
        sourceTasks[w][t].runCount \in Nat /\ sourceTasks'[w][t].runCount \in Nat
  BY TasksAssumption DEF RecordType, Record
<1> SUFFICES ASSUME NEW t \in Task
             PROVE  /\ rows'[t].runCount <= Cardinality(Begun(t)')
                    /\ \A w \in Process :
                         sourceTasks'[w][t].runCount <= Cardinality(Counted(w, t)')
  BY DEF CountInv
<1>3. /\ Cardinality(Begun(t)) <= Cardinality(Begun(t)')
      /\ Cardinality(Begun(t)) \in Nat /\ Cardinality(Begun(t)') \in Nat
      /\ \A w \in Process : /\ Cardinality(Counted(w, t)) <= Cardinality(Counted(w, t)')
                            /\ Cardinality(Counted(w, t)') \in Nat
  BY CountsGrow, BegunFinite
<1>4. \A w \in Process : /\ Cardinality(Counted(w, t)) \in Nat
                         /\ Cardinality(Counted(w, t)) <= Cardinality(Begun(t))
  BY CountedFinite
<1>5. rows'[t].runCount <= Cardinality(Begun(t)')
  BY <1>1, <1>2, <1>3, <1>4 DEF CountInv, CountsCopied
<1>6. ASSUME NEW w \in Process PROVE sourceTasks'[w][t].runCount <= Cardinality(Counted(w, t)')
  BY <1>2, <1>3, <1>4 DEF CountInv, CountsCopied
<1> QED
  BY <1>5, <1>6

(* A task that was given up before or has had its runs keeps that. *)
LEMMA GivenUpStays ==
  ASSUME NotGivenUpEarly, RunsKept,
         \A t \in Task : rows'[t].status = "discarded" =>
           rows[t].status = "discarded" \/ Cardinality(Begun(t)) >= MaxFailures
  PROVE  NotGivenUpEarly'
<1> SUFFICES ASSUME NEW t \in Task, rows'[t].status = "discarded"
             PROVE  Cardinality(Begun(t)') >= MaxFailures
  BY DEF NotGivenUpEarly, Attempts, Begun
<1>1. Cardinality(Begun(t)) >= MaxFailures
  BY DEF NotGivenUpEarly, Attempts, Begun
<1>2. Cardinality(Begun(t)) <= Cardinality(Begun(t)')
      /\ Cardinality(Begun(t)) \in Nat /\ Cardinality(Begun(t)') \in Nat
  BY CountsGrow, BegunFinite
<1> QED
  BY <1>1, <1>2, TasksAssumption

-----------------------------------------------------------------------------
(* Nothing is known of any task at the start. *)
LEMMA TasksInit == Init => TasksInv
<1> SUFFICES ASSUME Init PROVE TasksInv
  OBVIOUS
<1> USE TasksAssumption
<1>1. Absent \in Record
  BY DEF Absent, Record, Status
<1>2. RecordType
  BY <1>1 DEF Init, NoTasks, NoRuns, RecordType, RunStates
<1>3. FlagType /\ LoopType
  BY DEF Init, FlagType, LoopType, AllLoops, PC
<1>4. HistoryType
  BY DEF Init, HistoryType
<1>5. RunInv
  BY DEF Init, NoRuns, RunInv, Run
<1>6. HoldInv
  BY DEF Init, HoldInv, Holding, AllLoops
<1>7. LeadInv
  BY FS_EmptySet DEF Init, LeadInv, AllLoops
<1>8. CountInv
  <2>1. \A t \in Task : rows[t].runCount = 0 /\ \A w \in Process : sourceTasks[w][t].runCount = 0
    BY DEF Init, NoTasks, Absent
  <2> QED
    BY <2>1, BegunFinite, CountedFinite DEF CountInv
<1>9. NotGivenUpEarly
  BY DEF Init, NoTasks, NotGivenUpEarly, Absent
<1> QED
  BY <1>2, <1>3, <1>4, <1>5, <1>6, <1>7, <1>8, <1>9 DEF TasksInv

(* What recovery and the backlog write was counted before, and gives up no task. *)
LEMMA RewritesCopy ==
  ASSUME RecordType, NEW w \in Process, Rewrites(w)
  PROVE  CountsCopied /\ \A t \in Task : rows'[t].status \in Terminal => rows'[t] = rows[t]
<1>1. \A v \in Process, u \in Task : sourceTasks[v][u].runCount \in Nat
  BY TasksAssumption DEF RecordType, Record
<1>2. \A u \in Task : rows[u].runCount \in Nat
  BY TasksAssumption DEF RecordType, Record
<1>3. \A t \in Task : \/ rows'[t].runCount <= rows[t].runCount
                      \/ rows'[t].runCount <= sourceTasks[w][t].runCount
  BY <1>1, <1>2 DEF Rewrites
<1>4. \A v \in Process, t \in Task : sourceTasks'[v][t].runCount <= sourceTasks[v][t].runCount
  <2> TAKE v \in Process, t \in Task
  <2>1. CASE v = w
    BY <1>1, <2>1 DEF Rewrites
  <2>2. CASE v # w
    BY <1>1, <2>2 DEF Rewrites
  <2> QED
    BY <2>1, <2>2
<1>5. \A t \in Task : rows'[t].status \in Terminal => rows'[t] = rows[t]
  BY DEF Rewrites
<1> QED
  BY <1>3, <1>4, <1>5 DEF CountsCopied

(* So does a new status; only the one that is written is new. *)
LEMMA StatusCopies ==
  ASSUME RecordType, NEW w \in Process, NEW t \in Task, NEW s \in Status, SetStatus(w, t, s)
  PROVE  /\ CountsCopied
         /\ \A u \in Task : rows'[u] = rows[u] \/ (u = t /\ rows'[u].status = s)
<1>1. \A v \in Process, u \in Task : sourceTasks[v][u].runCount \in Nat
  BY TasksAssumption DEF RecordType, Record
<1>2. \A u \in Task : rows[u].runCount \in Nat
  BY TasksAssumption DEF RecordType, Record
<1>3. /\ OnlyTask(w, t) /\ sourceTasks'[w][t].runCount = sourceTasks[w][t].runCount
      /\ rows'[t] = rows[t] \/ (rows'[t] = sourceTasks'[w][t] /\ rows'[t].status = s)
  BY StatusWrites
<1>4. \A u \in Task : \/ rows'[u].runCount <= rows[u].runCount
                      \/ rows'[u].runCount <= sourceTasks[w][u].runCount
  BY <1>1, <1>2, <1>3 DEF OnlyTask
<1>5. \A v \in Process, u \in Task : sourceTasks'[v][u].runCount <= sourceTasks[v][u].runCount
  <2> TAKE v \in Process, u \in Task
  <2>1. sourceTasks'[v][u].runCount = sourceTasks[v][u].runCount
    BY <1>3 DEF OnlyTask
  <2> QED
    BY <1>1, <2>1
<1>6. \A u \in Task : rows'[u] = rows[u] \/ (u = t /\ rows'[u].status = s)
  BY <1>3 DEF OnlyTask
<1> QED
  BY <1>4, <1>5, <1>6 DEF CountsCopied

\* One loop moves, not to the counting of a run, and starts none.
Moves(l) ==
  /\ \A k \in AllLoops \ {l} : pc'[k] = pc[k] /\ sel'[k] = sel[k] /\ cur'[k] = cur[k]
  /\ pc'[l] # "count"
  /\ pc'[l] \in {"context", "work", "commit"} => sel'[l] \in Task
  /\ pc'[l] \in Holding => cur'[l] \in 1 .. started
  /\ started' = started /\ runTask' = runTask

(* Such a step keeps what loops hold and what is counted. *)
LEMMA MovesHold ==
  ASSUME HoldInv, NEW l \in AllLoops, Moves(l)
  PROVE  HoldInv' /\ RunsKept
<1>1. ASSUME NEW k \in AllLoops
      PROVE  /\ pc'[k] \in {"context", "count", "work", "commit"} => sel'[k] \in Task
             /\ pc'[k] \in Holding => cur'[k] \in 1 .. started'
             /\ pc'[k] = "count" => runTask'[cur'[k]] = sel'[k]
             /\ pc'[k] = "count" =>
                  \A j \in AllLoops \ {k} : pc'[j] = "count" => cur'[j] # cur'[k]
  <2>1. CASE k = l
    BY <2>1 DEF Moves
  <2>2. CASE k # l
    <3>1. pc'[k] = pc[k] /\ sel'[k] = sel[k] /\ cur'[k] = cur[k]
      BY <2>2 DEF Moves
    <3>2. ASSUME pc'[k] = "count", NEW j \in AllLoops \ {k}, pc'[j] = "count"
          PROVE  cur'[j] # cur'[k]
      BY <2>2, <3>1, <3>2 DEF HoldInv, Moves
    <3>3. started' = started /\ runTask' = runTask
      BY DEF Moves
    <3>4. /\ pc[k] \in {"context", "count", "work", "commit"} => sel[k] \in Task
          /\ pc[k] \in Holding => cur[k] \in 1 .. started
          /\ pc[k] = "count" => runTask[cur[k]] = sel[k]
      BY DEF HoldInv
    <3> QED
      BY <3>1, <3>2, <3>3, <3>4
  <2> QED
    BY <2>1, <2>2
<1>2. HoldInv'
  BY <1>1, Zenon DEF HoldInv
<1>3. RunsKept
  BY DEF RunsKept, Moves
<1> QED
  BY <1>2, <1>3

(* The invariant of a step that copies what was counted. *)
LEMMA TasksKept ==
  ASSUME TasksInv, RecordType', FlagType', LoopType', HistoryType', RunInv', HoldInv', LeadInv',
         RunsKept, CountsCopied,
         \A t \in Task : rows'[t].status = "discarded" =>
           rows[t].status = "discarded" \/ Cardinality(Begun(t)) >= MaxFailures
  PROVE  TasksInv'
<1>1. CountInv'
  BY CountsStay DEF TasksInv
<1>2. NotGivenUpEarly'
  BY GivenUpStays DEF TasksInv
<1> QED
  BY <1>1, <1>2 DEF TasksInv

(* The tables are loaded, or are not, while the process has no loop. *)
LEMMA BootKeeps ==
  ASSUME TasksInv, NEW w \in Process, Boot(w)
  PROVE  TasksInv'
<1>0. RecordType /\ FlagType /\ LoopType /\ HistoryType /\ RunInv /\ HoldInv /\ LeadInv /\ CountInv
  BY DEF TasksInv
<1>1. PICK records \in {rows, NoTasks}, runs \in {runRows, NoRuns} :
        /\ sourceTasks' = [sourceTasks EXCEPT ![w] = records]
        /\ taskRuns' = [taskRuns EXCEPT ![w] = runs]
        /\ rows' = rows /\ runRows' = runRows
        /\ UNCHANGED <<loop, unscoped, runTask, started, completed, leaders, crashes, hours, terms>>
  BY DEF Boot, tables
<1>9. /\ records \in [Task -> Record] /\ runs \in [Run -> RunStates]
      /\ \A t \in Task : records[t] = rows[t] \/ records[t].runCount = 0
      /\ \A r \in Run : runs[r] \in {runRows[r], "over"}
  <2>1. NoTasks \in [Task -> Record] /\ \A t \in Task : NoTasks[t].runCount = 0
    BY TasksAssumption DEF NoTasks, Absent, Record, Status
  <2>2. NoRuns \in [Run -> RunStates] /\ \A r \in Run : NoRuns[r] = "over"
    BY DEF NoRuns, RunStates
  <2> QED
    BY <1>0, <2>1, <2>2 DEF RecordType
<1>2. RecordType'
  <2>1. rows' \in [Task -> Record] /\ sourceTasks' \in [Process -> [Task -> Record]]
    BY <1>0, <1>1, <1>9 DEF RecordType
  <2>2. runRows' \in [Run -> RunStates] /\ taskRuns' \in [Process -> [Run -> RunStates]]
    BY <1>0, <1>1, <1>9 DEF RecordType
  <2> QED
    BY <2>1, <2>2 DEF RecordType
<1>3. FlagType' /\ LoopType' /\ HistoryType'
  <2>1. FlagType'
    BY <1>0 DEF FlagType, Boot
  <2>2. LoopType' /\ HistoryType'
    BY <1>0, <1>1 DEF LoopType, HistoryType, loop
  <2> QED
    BY <2>1, <2>2
<1>4. RunInv'
  <2>1. started' = started /\ runTask' = runTask
    BY <1>1
  <2>2. \A v \in Process : taskRuns'[v] = IF v = w THEN runs ELSE taskRuns[v]
    BY <1>0, <1>1 DEF RecordType
  <2> QED
    BY <1>0, <1>1, <1>9, <2>1, <2>2 DEF RunInv
<1>5. HoldInv'
  BY <1>0, <1>1 DEF HoldInv, loop
<1>6. LeadInv'
  <2>1. \A v \in Process : booted[v] => booted'[v]
    BY <1>0 DEF Boot, FlagType
  <2>2. pc' = pc /\ leaders' = leaders
    BY <1>1 DEF loop
  <2>3. \A l \in AllLoops : l[1] \in Process
    BY DEF AllLoops
  <2> QED
    BY <1>0, <2>1, <2>2, <2>3, Zenon DEF LeadInv
<1>7. CountInv'
  <2> SUFFICES ASSUME NEW t \in Task
               PROVE  /\ rows'[t].runCount <= Cardinality(Begun(t)')
                      /\ \A v \in Process :
                           sourceTasks'[v][t].runCount <= Cardinality(Counted(v, t)')
    BY DEF CountInv
  <2>1. Begun(t)' = Begun(t)
    BY <1>1 DEF Begun
  <2>2. \A v \in Process : Counted(v, t)' = Counted(v, t)
    BY <1>1, <2>1 DEF Counted, loop
  <2>3. rows[t].runCount <= Cardinality(Begun(t)) /\
        \A v \in Process : sourceTasks[v][t].runCount <= Cardinality(Counted(v, t))
    BY <1>0 DEF CountInv
  <2>4. Counted(w, t) = Begun(t)
    <3>1. ~booted[w]
      BY DEF Boot
    <3>2. \A l \in AllLoops : l[1] = w => pc[l] = "off"
      BY <1>0, <3>1 DEF LeadInv
    <3> QED
      BY <3>2 DEF Counted
  <2>5. \A v \in Process : sourceTasks'[v][t] = IF v = w THEN records[t] ELSE sourceTasks[v][t]
    BY <1>0, <1>1 DEF RecordType
  <2>6. 0 <= Cardinality(Begun(t)) /\ (records[t] = rows[t] \/ records[t].runCount = 0)
    BY <1>9, BegunFinite
  <2> QED
    BY <1>1, <2>1, <2>2, <2>3, <2>4, <2>5, <2>6
<1>8. NotGivenUpEarly'
  BY <1>1 DEF TasksInv, NotGivenUpEarly, Attempts
<1> QED
  BY <1>2, <1>3, <1>4, <1>5, <1>6, <1>7, <1>8 DEF TasksInv


(* Recovery, the first time the process is elected. *)
LEMMA ElectKeeps ==
  ASSUME TasksInv, NEW w \in Process, Elect(w)
  PROVE  TasksInv'
<1>0. RecordType /\ FlagType /\ LoopType /\ HistoryType /\ RunInv /\ HoldInv /\ LeadInv
  BY DEF TasksInv
<1>1. PICK l \in {w} \X Loop : pc[l] = "off" /\ Goto(l, "idle")
  BY DEF Elect
<1>2. l \in AllLoops /\ l[1] = w
  BY DEF AllLoops
<1>3. /\ UNCHANGED <<booted, backlogSynced, sel, cur, result, unscoped, runTask, started,
                     completed, crashes, hours>>
      /\ pc' = [pc EXCEPT ![l] = "idle"] /\ booted[w]
      /\ terms' = terms + 1 /\ terms < MaxTerms /\ leaders' = leaders \cup {w}
  BY <1>1 DEF Elect, Goto
<1>4. pc'[l] = "idle" /\ \A k \in AllLoops \ {l} : pc'[k] = pc[k]
  BY <1>0, <1>2, <1>3 DEF LoopType
<1>5. /\ RecordType' /\ CountsCopied
      /\ \A t \in Task : rows'[t].status = "discarded" => rows[t].status = "discarded"
      /\ \A r \in Run : runRows[r] = "over" => runRows'[r] = "over"
      /\ \A v \in Process, r \in Run : taskRuns[v][r] = "over" => taskRuns'[v][r] = "over"
  <2>1. CASE Recover(w)
    <3>1. Rewrites(w) /\ runRows' \in [Run -> RunStates]
          /\ taskRuns' \in [Process -> [Run -> RunStates]]
          /\ (\A r \in Run : runRows'[r] \in {runRows[r], "over"})
          /\ \A v \in Process, r \in Run : taskRuns'[v][r] \in {taskRuns[v][r], "over"}
      BY <1>0, <2>1, RecoverWrites
    <3>2. CountsCopied /\ \A t \in Task : rows'[t].status \in Terminal => rows'[t] = rows[t]
      BY <1>0, <3>1, RewritesCopy
    <3>3. RecordType'
      BY <3>1 DEF RecordType, Rewrites
    <3> QED
      BY <3>1, <3>2, <3>3 DEF Terminal
  <2>2. CASE UNCHANGED <<tables, memory>>
    <3>1. rows' = rows /\ runRows' = runRows /\ sourceTasks' = sourceTasks /\ taskRuns' = taskRuns
      BY <2>2 DEF tables, memory
    <3>2. CountsCopied
      <4>1. \A t \in Task : rows[t].runCount <= rows[t].runCount
        BY <1>0, TasksAssumption DEF RecordType, Record
      <4>2. \A v \in Process, t \in Task : sourceTasks[v][t].runCount <= sourceTasks[v][t].runCount
        BY <1>0, TasksAssumption DEF RecordType, Record
      <4> QED
        BY <3>1, <4>1, <4>2 DEF CountsCopied
    <3> QED
      BY <1>0, <3>1, <3>2 DEF RecordType
  <2> QED
    BY <2>1, <2>2 DEF Elect
<1>6. FlagType'
  BY <1>0, <1>3 DEF FlagType, Elect
<1>7. LoopType' /\ HistoryType'
  <2>1. LoopType'
    BY <1>0, <1>2, <1>3 DEF LoopType, PC
  <2>2. HistoryType'
    BY <1>0, <1>3, TasksAssumption DEF HistoryType
  <2> QED
    BY <2>1, <2>2
<1>8. RunInv'
  BY <1>0, <1>3, <1>5 DEF RunInv
<1>9. HoldInv' /\ RunsKept
  <2>1. Moves(l)
    BY <1>2, <1>3, <1>4 DEF Moves, Holding
  <2> QED
    BY <1>0, <1>2, <2>1, MovesHold
<1>10. LeadInv'
  <2>1. IsFiniteSet(leaders')
    BY <1>0, <1>3, FS_AddElement DEF LeadInv
  <2>2. \A k \in AllLoops : pc'[k] # "off" => booted'[k[1]] /\ k[1] \in leaders'
    BY <1>0, <1>2, <1>3, <1>4, Zenon DEF LeadInv
  <2> QED
    BY <2>1, <2>2 DEF LeadInv
<1> QED
  BY <1>5, <1>6, <1>7, <1>8, <1>9, <1>10, TasksKept

(* A step that leaves tables and memories alone copies what was counted. *)
LEMMA SameCopies ==
  ASSUME RecordType, rows' = rows, sourceTasks' = sourceTasks
  PROVE  CountsCopied /\ \A t \in Task : rows'[t].status = "discarded" =>
           rows[t].status = "discarded"
<1>1. \A t \in Task : rows[t].runCount <= rows[t].runCount
  BY TasksAssumption DEF RecordType, Record
<1>2. \A v \in Process, t \in Task : sourceTasks[v][t].runCount <= sourceTasks[v][t].runCount
  BY TasksAssumption DEF RecordType, Record
<1> QED
  BY <1>1, <1>2 DEF CountsCopied

(* Losing the election only lowers the flag. *)
LEMMA DemoteKeeps ==
  ASSUME TasksInv, NEW w \in Process, Demote(w)
  PROVE  TasksInv'
<1>0. RecordType /\ FlagType /\ LoopType /\ HistoryType /\ RunInv /\ HoldInv /\ LeadInv
  BY DEF TasksInv
<1>1. /\ rows' = rows /\ runRows' = runRows /\ sourceTasks' = sourceTasks /\ taskRuns' = taskRuns
      /\ UNCHANGED <<booted, loop, history>>
  BY DEF Demote, tables, memory
<1>2. RecordType' /\ LoopType' /\ HistoryType' /\ RunInv' /\ HoldInv' /\ LeadInv'
  <2>1. RecordType'
    BY <1>0, <1>1 DEF RecordType
  <2>2. LoopType' /\ HistoryType'
    BY <1>0, <1>1 DEF LoopType, HistoryType, loop, history
  <2>3. RunInv' /\ HoldInv'
    BY <1>0, <1>1 DEF RunInv, HoldInv, loop, history
  <2>4. LeadInv'
    BY <1>0, <1>1 DEF LeadInv, loop, history
  <2> QED
    BY <2>1, <2>2, <2>3, <2>4
<1>3. FlagType'
  BY <1>0 DEF FlagType, Demote
<1>4. RunsKept
  BY <1>1 DEF RunsKept, loop, history
<1>5. CountsCopied /\ \A t \in Task : rows'[t].status = "discarded" => rows[t].status = "discarded"
  BY <1>0, <1>1, SameCopies
<1> QED
  BY <1>2, <1>3, <1>4, <1>5, TasksKept

(* A process that dies forgets what it counted, and its loops are gone. *)
LEMMA CrashKeeps ==
  ASSUME TasksInv, NEW w \in Process, Crash(w)
  PROVE  TasksInv'
<1>0. RecordType /\ FlagType /\ LoopType /\ HistoryType /\ RunInv /\ HoldInv /\ LeadInv
  BY DEF TasksInv
<1>1. /\ rows' = rows /\ runRows' = runRows
      /\ sourceTasks' = [sourceTasks EXCEPT ![w] = [t \in Task |-> Absent]]
      /\ taskRuns' = [taskRuns EXCEPT ![w] = [r \in Run |-> "over"]]
      /\ UNCHANGED <<unscoped, runTask, started, completed, leaders, hours, terms>>
      /\ crashes' = crashes + 1 /\ crashes < MaxCrashes
  BY DEF Crash, tables, NoTasks, NoRuns
<1>2. /\ pc' = [l \in AllLoops |-> IF l[1] = w THEN "off" ELSE pc[l]]
      /\ sel' = [l \in AllLoops |-> IF l[1] = w THEN NoTask ELSE sel[l]]
      /\ cur' = [l \in AllLoops |-> IF l[1] = w THEN NoRun ELSE cur[l]]
      /\ result' = [l \in AllLoops |-> IF l[1] = w THEN "none" ELSE result[l]]
  BY DEF Crash, AllLoops
<1>3. Absent \in Record /\ Absent.runCount = 0
  BY TasksAssumption DEF Absent, Record, Status
<1>4. RecordType'
  <2>1. [t \in Task |-> Absent] \in [Task -> Record]
    BY <1>3
  <2>2. sourceTasks' \in [Process -> [Task -> Record]]
    BY <1>0, <1>1, <2>1 DEF RecordType
  <2>3. taskRuns' \in [Process -> [Run -> RunStates]]
    BY <1>0, <1>1 DEF RecordType, RunStates
  <2> QED
    BY <1>0, <1>1, <2>2, <2>3 DEF RecordType
<1>5. FlagType'
  BY <1>0 DEF FlagType, Crash
<1>6. LoopType'
  BY <1>0, <1>2 DEF LoopType, PC
<1>7. HistoryType'
  BY <1>0, <1>1, TasksAssumption DEF HistoryType
<1>8. RunInv'
  <2>1. \A v \in Process, r \in Run : taskRuns[v][r] = "over" => taskRuns'[v][r] = "over"
    BY <1>0, <1>1 DEF RecordType
  <2> QED
    BY <1>0, <1>1, <2>1 DEF RunInv
<1>9. \A k \in AllLoops : \/ pc'[k] = "off"
                          \/ pc'[k] = pc[k] /\ sel'[k] = sel[k] /\ cur'[k] = cur[k] /\ k[1] # w
  BY <1>2
<1>10. HoldInv'
  BY <1>0, <1>1, <1>9 DEF HoldInv, Holding
<1>11. LeadInv'
  <2>1. \A v \in Process : v # w => booted'[v] = booted[v]
    BY <1>0 DEF Crash, FlagType
  <2>2. \A k \in AllLoops : k[1] \in Process
    BY DEF AllLoops
  <2> QED
    BY <1>0, <1>1, <1>9, <2>1, <2>2, Zenon DEF LeadInv
<1>12. RunsKept
  BY <1>1, <1>9 DEF RunsKept
<1>13. CountsCopied
  <2>1. \A t \in Task : rows'[t].runCount <= rows[t].runCount
    BY <1>0, <1>1, TasksAssumption DEF RecordType, Record
  <2>2. \A v \in Process, t \in Task : sourceTasks'[v][t].runCount <= sourceTasks[v][t].runCount
    <3> TAKE v \in Process, t \in Task
    <3>1. sourceTasks'[v][t] = IF v = w THEN Absent ELSE sourceTasks[v][t]
      BY <1>0, <1>1 DEF RecordType
    <3>2. sourceTasks[v][t].runCount \in Nat
      BY <1>0, TasksAssumption DEF RecordType, Record
    <3> QED
      BY <1>3, <3>1, <3>2
  <2> QED
    BY <2>1, <2>2 DEF CountsCopied
<1>14. \A t \in Task : rows'[t].status = "discarded" => rows[t].status = "discarded"
  BY <1>1
<1> QED
  BY <1>4, <1>5, <1>6, <1>7, <1>8, <1>10, <1>11, <1>12, <1>13, <1>14, TasksKept

(* Records grow old, in the tables and in every memory. *)
LEMMA HourWrites ==
  ASSUME RecordType, HourPasses
  PROVE  /\ RecordType'
         /\ \A t \in Task : rows'[t].status = rows[t].status /\ rows'[t].runCount = rows[t].runCount
         /\ \A w \in Process, t \in Task :
              /\ sourceTasks'[w][t].status = sourceTasks[w][t].status
              /\ sourceTasks'[w][t].runCount = sourceTasks[w][t].runCount
         /\ \A r \in Run : runRows'[r] = "over" <=> runRows[r] = "over"
         /\ \A w \in Process, r \in Run : taskRuns'[w][r] = "over" <=> taskRuns[w][r] = "over"
         /\ \A w \in Process : sourceTasks[w] = rows => sourceTasks'[w] = rows'
<1> DEFINE Aged(records) == [t \in Task |-> [records[t] EXCEPT !.fresh = FALSE]]
           AgedRuns(runs) == [r \in Run |-> IF runs[r] = "fresh" THEN "stale" ELSE runs[r]]
<1>0. /\ rows \in [Task -> Record] /\ sourceTasks \in [Process -> [Task -> Record]]
      /\ runRows \in [Run -> RunStates] /\ taskRuns \in [Process -> [Run -> RunStates]]
  BY DEF RecordType
<1>1. /\ rows' = Aged(rows) /\ runRows' = AgedRuns(runRows)
      /\ sourceTasks' = [w \in Process |-> Aged(sourceTasks[w])]
      /\ taskRuns' = [w \in Process |-> AgedRuns(taskRuns[w])]
  BY DEF HourPasses
<1>2. ASSUME NEW f \in [Task -> Record]
      PROVE  /\ Aged(f) \in [Task -> Record]
             /\ \A t \in Task : /\ Aged(f)[t].status = f[t].status
                                /\ Aged(f)[t].runCount = f[t].runCount
  <2>1. \A t \in Task : LET q == [f[t] EXCEPT !.fresh = FALSE]
                        IN  q \in Record /\ q.status = f[t].status /\ q.runCount = f[t].runCount
    BY RecordAged
  <2> QED
    BY <2>1
<1>3. ASSUME NEW f \in [Run -> RunStates]
      PROVE  /\ AgedRuns(f) \in [Run -> RunStates]
             /\ \A r \in Run : AgedRuns(f)[r] = "over" <=> f[r] = "over"
  BY DEF RunStates
<1>4. \A w \in Process : sourceTasks'[w] = Aged(sourceTasks[w]) /\ taskRuns'[w] = AgedRuns(taskRuns[w])
  BY <1>1
<1> HIDE DEF Aged, AgedRuns
<1>5. RecordType'
  BY <1>0, <1>1, <1>2, <1>3 DEF RecordType
<1>6. \A t \in Task : rows'[t].status = rows[t].status /\ rows'[t].runCount = rows[t].runCount
  BY <1>0, <1>1, <1>2
<1>7. ASSUME NEW w \in Process
      PROVE  /\ \A t \in Task : /\ sourceTasks'[w][t].status = sourceTasks[w][t].status
                                /\ sourceTasks'[w][t].runCount = sourceTasks[w][t].runCount
             /\ \A r \in Run : taskRuns'[w][r] = "over" <=> taskRuns[w][r] = "over"
             /\ sourceTasks[w] = rows => sourceTasks'[w] = rows'
  <2>1. sourceTasks[w] \in [Task -> Record] /\ taskRuns[w] \in [Run -> RunStates]
    BY <1>0
  <2> QED
    BY <1>1, <1>2, <1>3, <1>4, <2>1
<1>8. \A r \in Run : runRows'[r] = "over" <=> runRows[r] = "over"
  BY <1>0, <1>1, <1>3
<1> QED
  BY <1>5, <1>6, <1>7, <1>8

LEMMA HourKeeps ==
  ASSUME TasksInv, HourPasses
  PROVE  TasksInv'
<1>0. RecordType /\ FlagType /\ LoopType /\ HistoryType /\ RunInv /\ HoldInv /\ LeadInv
  BY DEF TasksInv
<1>1. /\ UNCHANGED <<flags, loop, unscoped, runTask, started, completed, leaders, crashes, terms>>
      /\ hours' = hours + 1 /\ hours < MaxHours
  BY DEF HourPasses
<1>2. FlagType' /\ LoopType' /\ HistoryType'
  <2>1. FlagType' /\ LoopType'
    BY <1>0, <1>1 DEF FlagType, LoopType, flags, loop
  <2>2. HistoryType'
    BY <1>0, <1>1, TasksAssumption DEF HistoryType
  <2> QED
    BY <2>1, <2>2
<1>3. RunInv'
  BY <1>0, <1>1, HourWrites DEF RunInv
<1>4. HoldInv' /\ LeadInv' /\ RunsKept
  <2>1. HoldInv' /\ RunsKept
    BY <1>0, <1>1 DEF HoldInv, RunsKept, loop
  <2>2. LeadInv'
    BY <1>0, <1>1 DEF LeadInv, loop, flags
  <2> QED
    BY <2>1, <2>2
<1>5. CountsCopied
  <2>1. \A t \in Task : rows[t].runCount \in Nat
    BY <1>0, TasksAssumption DEF RecordType, Record
  <2>2. \A w \in Process, t \in Task : sourceTasks[w][t].runCount \in Nat
    BY <1>0, TasksAssumption DEF RecordType, Record
  <2> QED
    BY <1>0, <2>1, <2>2, HourWrites DEF CountsCopied
<1>6. RecordType' /\ \A t \in Task : rows'[t].status = "discarded" => rows[t].status = "discarded"
  BY <1>0, HourWrites
<1> QED
  BY <1>2, <1>3, <1>4, <1>5, <1>6, TasksKept

-----------------------------------------------------------------------------
(* What is written of a run is written in the memory, and in the table if the write succeeds. *)
LEMMA RunWrites ==
  ASSUME RecordType, NEW w \in Process, NEW r \in Run, NEW state \in RunStates, SetRun(w, r, state)
  PROVE  /\ rows' = rows
         /\ runRows' \in [Run -> RunStates] /\ taskRuns' \in [Process -> [Run -> RunStates]]
         /\ taskRuns'[w][r] = state /\ runRows'[r] \in {runRows[r], state}
         /\ \A q \in Run \ {r} : runRows'[q] = runRows[q]
         /\ \A v \in Process, q \in Run : v # w \/ q # r => taskRuns'[v][q] = taskRuns[v][q]
<1> DEFINE written == [runRows EXCEPT ![r] = state]
<1>1. Write(rows, written) /\ taskRuns' = [taskRuns EXCEPT ![w][r] = state]
  BY DEF SetRun
<1>2. /\ rows \in [Task -> Record] /\ runRows \in [Run -> RunStates]
      /\ taskRuns \in [Process -> [Run -> RunStates]]
  BY DEF RecordType
<1>3. /\ written \in [Run -> RunStates] /\ written[r] = state
      /\ \A q \in Run \ {r} : written[q] = runRows[q]
  BY <1>2
<1> HIDE DEF written
<1>4. /\ rows' = rows /\ runRows' \in [Run -> RunStates]
      /\ \A q \in Run : runRows'[q] \in {runRows[q], written[q]}
  BY <1>1, <1>2, <1>3, WriteKeeps
<1>5. /\ taskRuns' \in [Process -> [Run -> RunStates]] /\ taskRuns'[w][r] = state
      /\ \A v \in Process, q \in Run : v # w \/ q # r => taskRuns'[v][q] = taskRuns[v][q]
  BY <1>1, <1>2
<1> QED
  BY <1>3, <1>4, <1>5

\* What steps of a loop leave alone, that no run is known of before it starts included.
Leaves ==
  /\ UNCHANGED <<booted, runtimeInitialized, isRunning>>
  /\ UNCHANGED <<unscoped, leaders, crashes, hours, terms>>
  /\ \A r \in Run : r > started =>
       /\ runRows[r] = "over" => runRows'[r] = "over"
       /\ \A w \in Process : taskRuns[w][r] = "over" => taskRuns'[w][r] = "over"

(* The invariant of a step of a loop that starts and counts no run. *)
LEMMA LoopKeeps ==
  ASSUME TasksInv, NEW l \in AllLoops, pc[l] # "off", Moves(l), Leaves,
         backlogSynced' \in [Process -> BOOLEAN], completed' \subseteq Task,
         LoopType', RecordType', CountsCopied,
         \A t \in Task : rows'[t].status = "discarded" =>
           rows[t].status = "discarded" \/ Cardinality(Begun(t)) >= MaxFailures
  PROVE  TasksInv'
<1>0. FlagType /\ HistoryType /\ RunInv /\ HoldInv /\ LeadInv
  BY DEF TasksInv
<1>1. FlagType'
  BY <1>0 DEF FlagType, Leaves
<1>2. HistoryType'
  BY <1>0 DEF HistoryType, Leaves, Moves
<1>3. RunInv'
  BY <1>0 DEF RunInv, Leaves, Moves
<1>4. HoldInv' /\ RunsKept
  BY <1>0, MovesHold
<1>5. LeadInv'
  <2>1. \A k \in AllLoops : pc'[k] # "off" => pc[k] # "off"
    BY DEF Moves
  <2>2. booted' = booted /\ leaders' = leaders
    BY DEF Leaves
  <2> QED
    BY <1>0, <2>1, <2>2 DEF LeadInv
<1> QED
  BY <1>1, <1>2, <1>3, <1>4, <1>5, TasksKept

(* One that changes where the loop is and what it holds. *)
LEMMA Moved ==
  ASSUME LoopType, NEW l \in AllLoops, NEW place \in PC, Goto(l, place)
  PROVE  /\ pc' \in [AllLoops -> PC] /\ pc'[l] = place
         /\ \A k \in AllLoops \ {l} : pc'[k] = pc[k]
BY DEF LoopType, Goto

(* The end of an iteration leaves the loop idle, without a task. *)
LEMMA Returned ==
  ASSUME LoopType, NEW l \in AllLoops, Return(l)
  PROVE  /\ LoopType' /\ pc'[l] = "idle"
         /\ \A k \in AllLoops \ {l} : pc'[k] = pc[k] /\ sel'[k] = sel[k] /\ cur'[k] = cur[k]
                                      /\ result'[k] = result[k]
<1>1. /\ pc' = [pc EXCEPT ![l] = "idle"] /\ sel' = [sel EXCEPT ![l] = NoTask]
      /\ cur' = [cur EXCEPT ![l] = NoRun] /\ result' = [result EXCEPT ![l] = "none"]
  BY DEF Return, Goto
<1>2. LoopType'
  BY <1>1 DEF LoopType, PC
<1> QED
  BY <1>1, <1>2 DEF LoopType

(* Leaving the loop, and the backlog, do not touch a run. *)
LEMMA LeaveLoopKeeps ==
  ASSUME TasksInv, NEW l \in AllLoops, LeaveLoop(l)
  PROVE  TasksInv'
<1>0. RecordType /\ FlagType /\ LoopType /\ HistoryType
  BY DEF TasksInv
<1>1. /\ rows' = rows /\ runRows' = runRows /\ sourceTasks' = sourceTasks /\ taskRuns' = taskRuns
      /\ UNCHANGED <<flags, sel, cur, result, history>> /\ pc[l] = "idle" /\ Goto(l, "off")
  BY DEF LeaveLoop, tables, memory
<1>2. /\ pc' \in [AllLoops -> PC] /\ pc'[l] = "off"
      /\ \A k \in AllLoops \ {l} : pc'[k] = pc[k]
  BY <1>0, <1>1, Moved DEF PC
<1>3. Moves(l) /\ Leaves
  BY <1>1, <1>2 DEF Moves, Leaves, Holding, flags, history
<1>4. LoopType' /\ RecordType'
  BY <1>0, <1>1, <1>2 DEF LoopType, RecordType
<1>5. CountsCopied /\ \A t \in Task : rows'[t].status = "discarded" => rows[t].status = "discarded"
  BY <1>0, <1>1, SameCopies
<1>6. backlogSynced' \in [Process -> BOOLEAN] /\ completed' \subseteq Task
  BY <1>0, <1>1 DEF FlagType, HistoryType, flags, history
<1> QED
  BY <1>1, <1>3, <1>4, <1>5, <1>6, LoopKeeps

LEMMA SyncBacklogKeeps ==
  ASSUME TasksInv, NEW l \in AllLoops, SyncBacklog(l)
  PROVE  TasksInv'
<1>0. RecordType /\ FlagType /\ LoopType /\ HistoryType /\ HoldInv
  BY DEF TasksInv
<1>1. /\ taskRuns' = taskRuns /\ pc[l] = "idle"
      /\ UNCHANGED <<booted, runtimeInitialized, isRunning, loop, history>>
      /\ l[1] \in Process
  BY DEF SyncBacklog, AllLoops
<1>2. Rewrites(l[1]) /\ runRows' = runRows
  BY <1>0, SyncWrites
<1>3. CountsCopied /\ \A t \in Task : rows'[t].status = "discarded" => rows[t].status = "discarded"
  BY <1>0, <1>1, <1>2, RewritesCopy DEF Terminal
<1>4. RecordType' /\ LoopType'
  BY <1>0, <1>1, <1>2 DEF RecordType, LoopType, Rewrites, loop
<1>5. Moves(l) /\ Leaves
  BY <1>1, <1>2 DEF Moves, Leaves, Holding, loop, history
<1>6. backlogSynced' \in [Process -> BOOLEAN]
  BY <1>0 DEF SyncBacklog, FlagType
<1>7. completed' \subseteq Task
  BY <1>0, <1>1 DEF HistoryType, history
<1> QED
  BY <1>1, <1>3, <1>4, <1>5, <1>6, <1>7, LoopKeeps

(* A task without edit scopes is blocked, another is selected. *)
LEMMA BlockKeeps ==
  ASSUME TasksInv, NEW l \in AllLoops, NEW t \in Task, Block(l, t)
  PROVE  TasksInv'
<1>0. RecordType /\ FlagType /\ LoopType /\ HistoryType /\ HoldInv
  BY DEF TasksInv
<1>1. /\ taskRuns' = taskRuns /\ pc[l] = "idle"
      /\ UNCHANGED <<flags, loop, history>> /\ SetStatus(l[1], t, "blocked")
      /\ l[1] \in Process /\ "blocked" \in Status
  BY DEF Block, AllLoops, Status
<1>2. CountsCopied /\ \A u \in Task : rows'[u] = rows[u] \/ rows'[u].status = "blocked"
  BY <1>0, <1>1, StatusCopies
<1>3. RecordType' /\ LoopType' /\ runRows' = runRows
  <2>1. runRows' = runRows /\ rows' \in [Task -> Record] /\ sourceTasks' \in [Process -> [Task -> Record]]
    BY <1>0, <1>1, StatusWrites
  <2> QED
    BY <1>0, <1>1, <2>1 DEF RecordType, LoopType, loop
<1>4. Moves(l) /\ Leaves
  BY <1>1, <1>3 DEF Moves, Leaves, Holding, loop, history, flags
<1>5. backlogSynced' \in [Process -> BOOLEAN] /\ completed' \subseteq Task
  BY <1>0, <1>1 DEF FlagType, HistoryType, flags, history
<1>6. \A u \in Task : rows'[u].status = "discarded" => rows[u].status = "discarded"
  BY <1>2
<1> QED
  BY <1>1, <1>2, <1>3, <1>4, <1>5, <1>6, LoopKeeps

LEMMA SelectKeeps ==
  ASSUME TasksInv, NEW l \in AllLoops, NEW t \in Task, Select(l, t)
  PROVE  TasksInv'
<1>0. RecordType /\ FlagType /\ LoopType /\ HistoryType
  BY DEF TasksInv
<1>1. /\ rows' = rows /\ runRows' = runRows /\ sourceTasks' = sourceTasks /\ taskRuns' = taskRuns
      /\ UNCHANGED <<flags, cur, result, history>> /\ pc[l] = "idle" /\ Goto(l, "context")
      /\ sel' = [sel EXCEPT ![l] = t]
  BY DEF Select, tables, memory
<1>2. /\ pc' \in [AllLoops -> PC] /\ pc'[l] = "context"
      /\ \A k \in AllLoops \ {l} : pc'[k] = pc[k]
  BY <1>0, <1>1, Moved DEF PC
<1>3. sel'[l] = t /\ \A k \in AllLoops \ {l} : sel'[k] = sel[k]
  BY <1>0, <1>1 DEF LoopType
<1>4. Moves(l) /\ Leaves
  BY <1>1, <1>2, <1>3 DEF Moves, Leaves, Holding, flags, history
<1>5. LoopType' /\ RecordType'
  <2>1. sel' \in [AllLoops -> Task \cup {NoTask}]
    BY <1>0, <1>1 DEF LoopType
  <2> QED
    BY <1>0, <1>1, <1>2, <2>1 DEF LoopType, RecordType
<1>6. CountsCopied /\ \A u \in Task : rows'[u].status = "discarded" => rows[u].status = "discarded"
  BY <1>0, <1>1, SameCopies
<1>7. backlogSynced' \in [Process -> BOOLEAN] /\ completed' \subseteq Task
  BY <1>0, <1>1 DEF FlagType, HistoryType, flags, history
<1> QED
  BY <1>1, <1>4, <1>5, <1>6, <1>7, LoopKeeps

(* A run is started with the next number, which nobody has. *)
LEMMA StartRunWrites ==
  ASSUME TasksInv, NEW l \in AllLoops, StartRun(l)
  PROVE  /\ pc[l] = "context" /\ started' = started + 1 /\ started' \in Run
         /\ runTask' \in [Run -> Task \cup {NoTask}] /\ runTask'[started'] = sel[l]
         /\ \A r \in Run \ {started'} : runTask'[r] = runTask[r]
         /\ taskRuns' \in [Process -> [Run -> RunStates]] /\ runRows' = runRows
         /\ \A w \in Process, r \in Run : w # l[1] \/ r # started' =>
              taskRuns'[w][r] = taskRuns[w][r]
         /\ LoopType' /\ pc'[l] = "count" /\ cur'[l] = started' /\ sel' = sel /\ result' = result
         /\ \A k \in AllLoops \ {l} : pc'[k] = pc[k] /\ cur'[k] = cur[k]
         /\ SetStatus(l[1], sel[l], "selected") /\ sel[l] \in Task /\ l[1] \in Process
         /\ UNCHANGED flags /\ UNCHANGED <<unscoped, completed, leaders, crashes, hours, terms>>
<1>0. RecordType /\ LoopType /\ HistoryType /\ HoldInv
  BY DEF TasksInv
<1>1. /\ pc[l] = "context" /\ started < MaxRuns /\ started' = started + 1
      /\ taskRuns' = [taskRuns EXCEPT ![l[1]][started'] = "fresh"]
      /\ runTask' = [runTask EXCEPT ![started'] = sel[l]]
      /\ cur' = [cur EXCEPT ![l] = started']
      /\ SetStatus(l[1], sel[l], "selected") /\ Goto(l, "count")
      /\ UNCHANGED <<flags, sel, result, unscoped, completed, leaders, crashes, hours, terms>>
  BY DEF StartRun
<1>2. started' \in Run /\ sel[l] \in Task /\ l[1] \in Process
  BY <1>0, <1>1, TasksAssumption DEF HistoryType, HoldInv, Run, AllLoops
<1>3. /\ runTask' \in [Run -> Task \cup {NoTask}] /\ runTask'[started'] = sel[l]
      /\ \A r \in Run \ {started'} : runTask'[r] = runTask[r]
  BY <1>0, <1>1, <1>2 DEF HistoryType
<1>4. /\ taskRuns' \in [Process -> [Run -> RunStates]]
      /\ \A w \in Process, r \in Run : w # l[1] \/ r # started' =>
           taskRuns'[w][r] = taskRuns[w][r]
  BY <1>0, <1>1, <1>2 DEF RecordType, RunStates
<1>5. /\ pc' \in [AllLoops -> PC] /\ pc'[l] = "count"
      /\ \A k \in AllLoops \ {l} : pc'[k] = pc[k]
  BY <1>0, <1>1, Moved DEF PC
<1>6. /\ cur' \in [AllLoops -> Run \cup {NoRun}] /\ cur'[l] = started'
      /\ \A k \in AllLoops \ {l} : cur'[k] = cur[k]
  BY <1>0, <1>1, <1>2 DEF LoopType
<1>7. LoopType'
  BY <1>0, <1>1, <1>5, <1>6 DEF LoopType
<1>8. runRows' = runRows
  <2>1. "selected" \in Status
    BY DEF Status, Active
  <2> QED
    BY <1>0, <1>1, <1>2, <2>1, StatusWrites
<1> QED
  BY <1>1, <1>2, <1>3, <1>4, <1>5, <1>6, <1>7, <1>8

LEMMA StartRunKeeps ==
  ASSUME TasksInv, NEW l \in AllLoops, StartRun(l)
  PROVE  TasksInv'
<1>0. RecordType /\ FlagType /\ LoopType /\ HistoryType /\ RunInv /\ HoldInv /\ LeadInv
  BY DEF TasksInv
<1> DEFINE n == started'
<1>1. /\ pc[l] = "context" /\ n = started + 1 /\ n \in Run
      /\ runTask' \in [Run -> Task \cup {NoTask}] /\ runTask'[n] = sel[l]
      /\ \A r \in Run \ {n} : runTask'[r] = runTask[r]
      /\ taskRuns' \in [Process -> [Run -> RunStates]] /\ runRows' = runRows
      /\ \A w \in Process, r \in Run : w # l[1] \/ r # n => taskRuns'[w][r] = taskRuns[w][r]
      /\ LoopType' /\ pc'[l] = "count" /\ cur'[l] = n /\ sel' = sel
      /\ \A k \in AllLoops \ {l} : pc'[k] = pc[k] /\ cur'[k] = cur[k]
      /\ SetStatus(l[1], sel[l], "selected") /\ sel[l] \in Task /\ l[1] \in Process
      /\ UNCHANGED flags /\ UNCHANGED <<unscoped, completed, leaders, crashes, hours, terms>>
  BY StartRunWrites
<1> HIDE DEF n
<1>2. started \in Nat /\ started' = n /\ n \in Nat
  BY <1>0, <1>1 DEF HistoryType, n
<1>3. "selected" \in Status
  BY DEF Status, Active
<1>4. RecordType'
  <2>1. rows' \in [Task -> Record] /\ sourceTasks' \in [Process -> [Task -> Record]]
    BY <1>0, <1>1, <1>3, StatusWrites
  <2> QED
    BY <1>0, <1>1, <2>1 DEF RecordType
<1>5. CountsCopied /\ \A t \in Task : rows'[t].status = "discarded" => rows[t].status = "discarded"
  <2>1. CountsCopied /\ \A u \in Task : rows'[u] = rows[u] \/ rows'[u].status = "selected"
    BY <1>0, <1>1, <1>3, StatusCopies
  <2> QED
    BY <2>1
<1>6. FlagType' /\ HistoryType'
  <2>1. FlagType'
    BY <1>0, <1>1 DEF FlagType, flags
  <2>2. started' \in 0 .. MaxRuns
    BY <1>1, <1>2 DEF Run
  <2> QED
    BY <1>0, <1>1, <2>1, <2>2 DEF HistoryType
<1>7. runTask[n] = NoTask /\ NoTask \notin Task
  BY <1>0, <1>1, <1>2, TasksAssumption DEF RunInv
<1>8. RunInv'
  <2> SUFFICES ASSUME NEW r \in Run
               PROVE  /\ r > n => runTask'[r] = NoTask /\ runRows'[r] = "over"
                      /\ r > n => \A w \in Process : taskRuns'[w][r] = "over"
                      /\ r <= n => runTask'[r] \in Task
    BY <1>2 DEF RunInv
  <2>1. r \in Nat
    BY DEF Run
  <2>2. ASSUME r > n PROVE /\ runTask'[r] = NoTask /\ runRows'[r] = "over"
                           /\ \A w \in Process : taskRuns'[w][r] = "over"
    <3>1. r > started /\ r # n
      BY <1>1, <1>2, <2>1, <2>2
    <3> QED
      BY <1>0, <1>1, <3>1 DEF RunInv
  <2>3. ASSUME r <= n PROVE runTask'[r] \in Task
    <3>1. r = n \/ (r <= started /\ r # n)
      BY <1>1, <1>2, <2>1, <2>3
    <3> QED
      BY <1>0, <1>1, <3>1 DEF RunInv
  <2> QED
    BY <2>2, <2>3
<1>9. HoldInv'
  <2>1. \A k \in AllLoops \ {l} : pc[k] \in Holding => cur[k] \in 1 .. started /\ cur[k] # n
    BY <1>0, <1>1, <1>2 DEF HoldInv
  <2> SUFFICES ASSUME NEW k \in AllLoops
               PROVE  /\ pc'[k] \in {"context", "count", "work", "commit"} => sel[k] \in Task
                      /\ pc'[k] \in Holding => cur'[k] \in 1 .. n
                      /\ pc'[k] = "count" => runTask'[cur'[k]] = sel[k]
                      /\ pc'[k] = "count" =>
                           \A j \in AllLoops \ {k} : pc'[j] = "count" => cur'[j] # cur'[k]
    BY <1>1, <1>2, Zenon DEF HoldInv
  <2>2. CASE k = l
    <3>1. n \in 1 .. n
      BY <1>1, <1>2
    <3> QED
      BY <1>1, <2>1, <2>2, <3>1 DEF Holding
  <2>3. CASE k # l
    <3>1. pc'[k] = pc[k] /\ cur'[k] = cur[k]
      BY <1>1, <2>3
    <3>2. /\ pc[k] \in {"context", "count", "work", "commit"} => sel[k] \in Task
          /\ pc[k] = "count" => runTask[cur[k]] = sel[k]
      BY <1>0 DEF HoldInv
    <3>3. pc[k] \in Holding => cur[k] \in 1 .. n /\ cur[k] # n /\ cur[k] \in Run
      BY <1>0, <1>1, <1>2, <2>1, <2>3, TasksAssumption DEF HistoryType, Run
    <3>4. ASSUME pc[k] = "count", NEW j \in AllLoops \ {k}, pc'[j] = "count"
          PROVE  cur'[j] # cur[k]
      <4>1. CASE j = l
        BY <1>1, <2>1, <2>3, <3>4, <4>1 DEF Holding
      <4>2. CASE j # l
        BY <1>0, <1>1, <3>4, <4>2 DEF HoldInv
      <4> QED
        BY <4>1, <4>2
    <3> QED
      BY <1>1, <3>1, <3>2, <3>3, <3>4 DEF Holding
  <2> QED
    BY <2>2, <2>3
<1>10. LeadInv'
  <2>1. \A k \in AllLoops : pc'[k] # "off" => pc[k] # "off"
    BY <1>1
  <2> QED
    BY <1>0, <1>1, <2>1 DEF LeadInv, flags
<1>11. RunsKept
  <2>1. \A r \in Run : runTask[r] \in Task => runTask'[r] = runTask[r]
    BY <1>1, <1>7
  <2>2. \A k \in AllLoops : pc'[k] = "count" =>
          (pc[k] = "count" /\ cur'[k] = cur[k]) \/ runTask[cur'[k]] \notin Task
    BY <1>1, <1>7
  <2> QED
    BY <2>1, <2>2 DEF RunsKept
<1> QED
  BY <1>1, <1>4, <1>5, <1>6, <1>8, <1>9, <1>10, <1>11, TasksKept

(* The run is counted in a record that no loop of this process has counted it in. *)
LEMMA CountRunWrites ==
  ASSUME TasksInv, NEW l \in AllLoops, CountRun(l)
  PROVE  LET w == l[1]
             t == sel[l]
         IN  /\ w \in Process /\ t \in Task /\ cur[l] \in Run /\ cur[l] <= started
             /\ pc[l] = "count" /\ runTask[cur[l]] = t
             /\ sourceTasks[w][t].runCount + 1 <= Cardinality(Counted(w, t)')
             /\ sourceTasks[w][t].runCount \in Nat
             /\ RecordType' /\ OnlyTask(w, t)
             /\ rows'[t] \in {rows[t], sourceTasks'[w][t]}
             /\ FaultType /\ lostWrites' = lostWrites => rows'[t] = sourceTasks'[w][t]
             /\ sourceTasks'[w][t].status = "in_progress"
             /\ sourceTasks'[w][t].runCount = sourceTasks[w][t].runCount + 1
             /\ taskRuns'[w][cur[l]] = "fresh"
             /\ \A q \in Run \ {cur[l]} : runRows'[q] = runRows[q]
             /\ \A v \in Process, q \in Run : v # w \/ q # cur[l] => taskRuns'[v][q] = taskRuns[v][q]
             /\ pc' \in [AllLoops -> PC] /\ pc'[l] = "work"
             /\ \A k \in AllLoops \ {l} : pc'[k] = pc[k]
             /\ UNCHANGED <<flags, sel, cur, result, history>>
<1> DEFINE w == l[1]
           t == sel[l]
           r == [status |-> "in_progress", fresh |-> TRUE,
                 runCount |-> sourceTasks[w][t].runCount + 1]
           written == [rows EXCEPT ![t] = r]
           renewed == [runRows EXCEPT ![cur[l]] = "fresh"]
<1>0. RecordType /\ LoopType /\ HistoryType /\ RunInv /\ HoldInv /\ CountInv
  BY DEF TasksInv
<1>1. /\ pc[l] = "count" /\ sourceTasks' = [sourceTasks EXCEPT ![w][t] = r]
      /\ taskRuns' = [taskRuns EXCEPT ![w][cur[l]] = "fresh"]
      /\ Write(written, renewed) /\ Goto(l, "work")
      /\ UNCHANGED <<flags, sel, cur, result, history>>
  BY DEF CountRun
<1>2. w \in Process /\ t \in Task /\ cur[l] \in 1 .. started /\ runTask[cur[l]] = t
  BY <1>0, <1>1 DEF HoldInv, Holding, AllLoops
<1>3. cur[l] \in Run /\ cur[l] <= started
  BY <1>0, <1>2, TasksAssumption DEF HistoryType, Run
<1>4. /\ pc' \in [AllLoops -> PC] /\ pc'[l] = "work"
      /\ \A k \in AllLoops \ {l} : pc'[k] = pc[k]
  BY <1>0, <1>1, Moved DEF PC
<1>5. cur' = cur /\ runTask' = runTask /\ t' = t
  BY <1>1 DEF history
<1>6. sourceTasks[w][t].runCount \in Nat
      /\ sourceTasks[w][t].runCount <= Cardinality(Counted(w, t))
  BY <1>0, <1>2, TasksAssumption DEF CountInv, RecordType, Record
<1>7. Cardinality(Counted(w, t)) + 1 <= Cardinality(Counted(w, t)')
  <2>1. Counted(w, t) \in SUBSET Run /\ Counted(w, t)' \in SUBSET Run
    BY DEF Counted, Begun
  <2>2. cur[l] \notin Counted(w, t)
    BY <1>1 DEF Counted
  <2>3. cur[l] \in Counted(w, t)'
    <3>1. \A k \in AllLoops : pc'[k] = "count" => cur[k] # cur[l]
      BY <1>0, <1>1, <1>4 DEF HoldInv
    <3> QED
      BY <1>2, <1>3, <1>5, <3>1 DEF Counted, Begun
  <2>4. Counted(w, t) \subseteq Counted(w, t)'
    <3>1. \A k \in AllLoops : pc'[k] = "count" => pc[k] = "count"
      BY <1>4
    <3> QED
      BY <1>5, <3>1 DEF Counted, Begun
  <2>5. /\ IsFiniteSet(Counted(w, t)) /\ Cardinality(Counted(w, t)) \in Nat
        /\ IsFiniteSet(Counted(w, t)') /\ Cardinality(Counted(w, t)') \in Nat
    BY <2>1, RunsFinite
  <2>6. Cardinality(Counted(w, t) \cup {cur[l]}) = Cardinality(Counted(w, t)) + 1
    BY <2>2, <2>5, FS_AddElement
  <2>7. Cardinality(Counted(w, t) \cup {cur[l]}) <= Cardinality(Counted(w, t)')
    BY <2>3, <2>4, <2>5, FS_Subset
  <2> QED
    BY <2>6, <2>7
<1>8. Cardinality(Counted(w, t)') \in 0 .. MaxRuns
  <2>1. Counted(w, t)' \in SUBSET Run
    BY DEF Counted, Begun
  <2> QED
    BY <2>1, RunsFinite
<1>9. /\ sourceTasks[w][t].runCount + 1 <= Cardinality(Counted(w, t)')
      /\ sourceTasks[w][t].runCount + 1 \in 0 .. MaxRuns
  <2>1. Cardinality(Counted(w, t)) \in Nat
    BY CountedFinite
  <2> QED
    BY <1>6, <1>7, <1>8, <2>1, TasksAssumption
<1>10. r \in Record
  BY <1>9 DEF Record, Status, Active
<1>11. /\ written \in [Task -> Record] /\ written[t] = r
       /\ \A u \in Task \ {t} : written[u] = rows[u]
       /\ renewed \in [Run -> RunStates] /\ \A q \in Run \ {cur[l]} : renewed[q] = runRows[q]
  <2> HIDE DEF r, w, t
  <2> QED
    BY <1>0, <1>2, <1>3, <1>10 DEF RecordType, RunStates
<1> HIDE DEF written, renewed
<1>12. /\ rows' \in [Task -> Record] /\ runRows' \in [Run -> RunStates]
       /\ \A u \in Task : rows'[u] \in {rows[u], written[u]}
       /\ \A q \in Run : runRows'[q] \in {runRows[q], renewed[q]}
  BY <1>0, <1>1, <1>11, WriteKeeps
<1>16. FaultType /\ lostWrites' = lostWrites => rows' = written
  BY <1>1, WriteCounts
<1>17. /\ sourceTasks' \in [Process -> [Task -> Record]] /\ sourceTasks'[w][t] = r
       /\ \A v \in Process, u \in Task : v # w \/ u # t => sourceTasks'[v][u] = sourceTasks[v][u]
  <2> HIDE DEF r, w, t
  <2> QED
    BY <1>0, <1>1, <1>2, <1>10 DEF RecordType
<1>18. /\ taskRuns' \in [Process -> [Run -> RunStates]] /\ taskRuns'[w][cur[l]] = "fresh"
       /\ \A v \in Process, q \in Run : v # w \/ q # cur[l] => taskRuns'[v][q] = taskRuns[v][q]
  <2> HIDE DEF w
  <2> QED
    BY <1>0, <1>1, <1>2, <1>3 DEF RecordType, RunStates
<1>19. OnlyTask(w, t)
  BY <1>11, <1>12, <1>17 DEF OnlyTask
<1>13. RecordType'
  BY <1>12, <1>17, <1>18 DEF RecordType
<1>14. r.status = "in_progress" /\ r.runCount = sourceTasks[w][t].runCount + 1
  OBVIOUS
<1> HIDE DEF r, w, t
<1>15. /\ rows'[t] \in {rows[t], sourceTasks'[w][t]}
       /\ FaultType /\ lostWrites' = lostWrites => rows'[t] = sourceTasks'[w][t]
       /\ sourceTasks'[w][t].status = "in_progress"
       /\ sourceTasks'[w][t].runCount = sourceTasks[w][t].runCount + 1
       /\ \A q \in Run \ {cur[l]} : runRows'[q] = runRows[q]
  BY <1>2, <1>11, <1>12, <1>14, <1>16, <1>17
<1> QED
  BY <1>1, <1>2, <1>3, <1>4, <1>6, <1>9, <1>13, <1>15, <1>18, <1>19 DEF w, t

LEMMA CountRunKeeps ==
  ASSUME TasksInv, NEW l \in AllLoops, CountRun(l)
  PROVE  TasksInv'
<1> DEFINE w == l[1]
           t == sel[l]
<1>0. /\ RecordType /\ FlagType /\ LoopType /\ HistoryType /\ RunInv /\ HoldInv /\ LeadInv
      /\ CountInv /\ NotGivenUpEarly
  BY DEF TasksInv
<1>1. /\ w \in Process /\ t \in Task /\ cur[l] \in Run /\ cur[l] <= started
      /\ pc[l] = "count" /\ runTask[cur[l]] = t
      /\ sourceTasks[w][t].runCount + 1 <= Cardinality(Counted(w, t)')
      /\ sourceTasks[w][t].runCount \in Nat
      /\ RecordType' /\ OnlyTask(w, t)
      /\ rows'[t] \in {rows[t], sourceTasks'[w][t]} /\ sourceTasks'[w][t].status = "in_progress"
      /\ sourceTasks'[w][t].runCount = sourceTasks[w][t].runCount + 1
      /\ \A q \in Run \ {cur[l]} : runRows'[q] = runRows[q]
      /\ \A v \in Process, q \in Run : v # w \/ q # cur[l] => taskRuns'[v][q] = taskRuns[v][q]
      /\ pc' \in [AllLoops -> PC] /\ pc'[l] = "work"
      /\ \A k \in AllLoops \ {l} : pc'[k] = pc[k]
      /\ UNCHANGED <<flags, sel, cur, result, history>>
  BY CountRunWrites
<1>2. FlagType' /\ LoopType' /\ HistoryType'
  <2>1. FlagType' /\ HistoryType'
    BY <1>0, <1>1 DEF FlagType, HistoryType, flags, history
  <2>2. LoopType'
    BY <1>0, <1>1 DEF LoopType
  <2> QED
    BY <2>1, <2>2
<1>3. RunInv'
  <2>1. \A r \in Run : r > started => r # cur[l]
    BY <1>0, <1>1, TasksAssumption DEF HistoryType, Run
  <2>2. \A r \in Run : r > started =>
          runRows'[r] = runRows[r] /\ \A v \in Process : taskRuns'[v][r] = taskRuns[v][r]
    BY <1>1, <2>1
  <2>3. started' = started /\ runTask' = runTask
    BY <1>1 DEF history
  <2> QED
    BY <1>0, <2>2, <2>3 DEF RunInv
<1>4. HoldInv' /\ RunsKept
  <2>1. Moves(l)
    BY <1>0, <1>1 DEF Moves, HoldInv, Holding, history
  <2> QED
    BY <1>0, <2>1, MovesHold
<1>5. LeadInv'
  BY <1>0, <1>1 DEF LeadInv, flags, history
<1>6. CountInv'
  <2> SUFFICES ASSUME NEW u \in Task
               PROVE  /\ rows'[u].runCount <= Cardinality(Begun(u)')
                      /\ \A v \in Process :
                           sourceTasks'[v][u].runCount <= Cardinality(Counted(v, u)')
    BY DEF CountInv
  <2>1. /\ Cardinality(Begun(u)) <= Cardinality(Begun(u)')
        /\ Cardinality(Begun(u)) \in Nat /\ Cardinality(Begun(u)') \in Nat
        /\ \A v \in Process : /\ Cardinality(Counted(v, u)) <= Cardinality(Counted(v, u)')
                              /\ Cardinality(Counted(v, u)) \in Nat
                              /\ Cardinality(Counted(v, u)') \in Nat
    BY <1>4, CountsGrow, BegunFinite, CountedFinite
  <2>2. /\ rows[u].runCount \in Nat
        /\ \A v \in Process : sourceTasks[v][u].runCount \in Nat
    BY <1>0, TasksAssumption DEF RecordType, Record
  <2>3. CASE u # t
    <3>1. rows'[u] = rows[u] /\ \A v \in Process : sourceTasks'[v][u] = sourceTasks[v][u]
      BY <1>1, <2>3 DEF OnlyTask
    <3> QED
      BY <1>0, <2>1, <2>2, <3>1 DEF CountInv
  <2>4. CASE u = t
    <3>1. \A v \in Process \ {w} : sourceTasks'[v][u] = sourceTasks[v][u]
      BY <1>1 DEF OnlyTask
    <3>2. Cardinality(Counted(w, u)') <= Cardinality(Begun(u)')
      <4>1. Counted(w, u)' \subseteq Begun(u)' /\ Counted(w, u)' \in SUBSET Run
            /\ Begun(u)' \in SUBSET Run
        BY DEF Counted, Begun
      <4> QED
        BY <4>1, RunsFinite
    <3>3. t' = t
      BY <1>1
    <3>4. Counted(w, u)' = Counted(w, t)'
      BY <2>4, <3>3 DEF Counted, Begun
    <3>5. /\ sourceTasks'[w][u].runCount <= Cardinality(Counted(w, u)')
          /\ rows'[u] = rows[u] \/ rows'[u].runCount = sourceTasks'[w][u].runCount
          /\ sourceTasks'[w][u].runCount \in Nat
      <4> HIDE DEF w, t
      <4> QED
        BY <1>1, <2>4, <3>4
    <3> QED
      BY <1>0, <1>1, <2>1, <2>2, <3>1, <3>2, <3>5 DEF CountInv
  <2> QED
    BY <2>3, <2>4
<1>7. NotGivenUpEarly'
  <2>1. \A u \in Task : rows'[u].status = "discarded" => rows[u].status = "discarded"
    BY <1>1 DEF OnlyTask
  <2> QED
    BY <1>0, <1>4, <2>1, GivenUpStays
<1> QED
  BY <1>1, <1>2, <1>3, <1>4, <1>5, <1>6, <1>7 DEF TasksInv

(* The latest active run in memory is a run that was started, if there is one. *)
LEMMA LatestRun ==
  ASSUME NEW f \in [Run -> RunStates], started \in 0 .. MaxRuns,
         \A r \in Run : r > started => f[r] = "over"
  PROVE  LET S == {r \in Run : f[r] # "over"}
         IN  /\ S # {} => /\ Max(S) \in 1 .. started /\ Max(S) \in S
                          /\ \A r \in S : Max(S) >= r
                          /\ Max(S \cup {NoRun}) = Max(S)
             /\ S = {} => Max(S \cup {NoRun}) = NoRun
<1> DEFINE S == {r \in Run : f[r] # "over"}
           T == S \cup {NoRun}
<1>1. S \subseteq 1 .. started /\ S \subseteq 0 .. MaxRuns /\ T \subseteq 0 .. MaxRuns /\ T # {}
  BY TasksAssumption DEF Run, NoRun
<1>2. Max(T) \in T /\ \A r \in T : Max(T) >= r
  <2> HIDE DEF T
  <2> QED
    BY <1>1, TasksAssumption, MaxIndex
<1>3. ASSUME S # {} PROVE Max(S) \in S /\ (\A r \in S : Max(S) >= r) /\ Max(T) = Max(S)
  <2>1. Max(S) \in S /\ \A r \in S : Max(S) >= r
    <3> HIDE DEF S
    <3> QED
      BY <1>1, <1>3, TasksAssumption, MaxIndex
  <2>2. Max(T) >= Max(S) /\ Max(S) > 0 /\ Max(T) \in S
    BY <1>1, <1>2, <2>1 DEF NoRun
  <2>3. Max(S) >= Max(T) /\ Max(S) \in Nat /\ Max(T) \in Nat
    BY <1>1, <2>1, <2>2
  <2> QED
    BY <2>1, <2>2, <2>3
<1>4. S = {} => Max(T) = NoRun
  BY <1>2
<1> QED
  BY <1>1, <1>3, <1>4

(* A run that passes is refreshed, and the latest active one is looked up. *)
LEMMA PassesWrites ==
  ASSUME TasksInv, NEW l \in AllLoops, Passes(l)
  PROVE  LET w == l[1]
             S == {r \in Run : taskRuns'[w][r] # "over"}
         IN  /\ w \in Process /\ cur[l] \in S /\ cur[l] \in Run /\ cur[l] \in 1 .. started
             /\ pc[l] = "work" /\ rows' = rows /\ sourceTasks' = sourceTasks /\ RecordType'
             /\ \A r \in Run : r > started => runRows'[r] = "over"
             /\ \A v \in Process, r \in Run : r > started => taskRuns'[v][r] = "over"
             /\ \A v \in Process, r \in Run : v # w \/ r # cur[l] => taskRuns'[v][r] = taskRuns[v][r]
             /\ LoopType' /\ pc'[l] = "commit" /\ sel' = sel /\ result' = result
             /\ cur'[l] = Max(S) /\ Max(S) \in S /\ Max(S) \in 1 .. started
             /\ \A r \in S : Max(S) >= r
             /\ \A k \in AllLoops \ {l} : pc'[k] = pc[k] /\ cur'[k] = cur[k]
             /\ UNCHANGED <<flags, history>>
<1> DEFINE w == l[1]
           S == {r \in Run : taskRuns'[w][r] # "over"}
<1>0. RecordType /\ LoopType /\ HistoryType /\ RunInv /\ HoldInv
  BY DEF TasksInv
<1>1. /\ pc[l] = "work" /\ SetRun(w, cur[l], "fresh") /\ Goto(l, "commit")
      /\ cur' = [cur EXCEPT ![l] = Max(S \cup {NoRun})] /\ sourceTasks' = sourceTasks
      /\ UNCHANGED <<flags, sel, result, history>>
  BY DEF Passes, CurrentRun
<1>2. w \in Process /\ cur[l] \in 1 .. started /\ started \in 0 .. MaxRuns /\ MaxRuns \in Nat
  BY <1>0, <1>1, TasksAssumption DEF HoldInv, Holding, AllLoops, HistoryType
<1>3. cur[l] \in Run
  BY <1>2 DEF Run
<1>4. /\ rows' = rows /\ runRows' \in [Run -> RunStates] /\ taskRuns' \in [Process -> [Run -> RunStates]]
      /\ taskRuns'[w][cur[l]] = "fresh"
      /\ \A q \in Run \ {cur[l]} : runRows'[q] = runRows[q]
      /\ \A v \in Process, q \in Run : v # w \/ q # cur[l] => taskRuns'[v][q] = taskRuns[v][q]
  <2>1. "fresh" \in RunStates
    BY DEF RunStates
  <2> HIDE DEF w
  <2> QED
    BY <1>0, <1>1, <1>2, <1>3, <2>1, RunWrites
<1>5. \A r \in Run : r > started => r # cur[l]
  BY <1>2 DEF Run
<1>6. /\ \A r \in Run : r > started => runRows'[r] = "over"
      /\ \A v \in Process, r \in Run : r > started => taskRuns'[v][r] = "over"
  BY <1>0, <1>4, <1>5 DEF RunInv
<1>7. cur[l] \in S
  BY <1>3, <1>4
<1>8. /\ Max(S) \in 1 .. started /\ Max(S) \in S /\ \A r \in S : Max(S) >= r
      /\ Max(S \cup {NoRun}) = Max(S)
  <2>1. taskRuns'[w] \in [Run -> RunStates] /\ \A r \in Run : r > started => taskRuns'[w][r] = "over"
    BY <1>2, <1>4, <1>6
  <2> QED
    BY <1>2, <1>7, <2>1, LatestRun
<1>9. /\ pc' \in [AllLoops -> PC] /\ pc'[l] = "commit"
      /\ \A k \in AllLoops \ {l} : pc'[k] = pc[k]
  BY <1>0, <1>1, Moved DEF PC
<1> HIDE DEF S
<1>10. /\ cur' \in [AllLoops -> Run \cup {NoRun}] /\ cur'[l] = Max(S)
       /\ \A k \in AllLoops \ {l} : cur'[k] = cur[k]
  <2>1. Max(S) \in Run
    BY <1>2, <1>8 DEF Run
  <2> QED
    BY <1>0, <1>1, <1>8, <2>1 DEF LoopType
<1>11. LoopType' /\ RecordType'
  <2>1. LoopType'
    BY <1>0, <1>1, <1>9, <1>10 DEF LoopType
  <2>2. RecordType'
    BY <1>0, <1>1, <1>4 DEF RecordType
  <2> QED
    BY <2>1, <2>2
<1> QED
  BY <1>1, <1>2, <1>3, <1>4, <1>6, <1>7, <1>8, <1>9, <1>10, <1>11 DEF S

LEMMA PassesKeeps ==
  ASSUME TasksInv, NEW l \in AllLoops, Passes(l)
  PROVE  TasksInv'
<1>0. RecordType /\ FlagType /\ LoopType /\ HistoryType /\ HoldInv
  BY DEF TasksInv
<1>1. /\ pc[l] = "work" /\ rows' = rows /\ sourceTasks' = sourceTasks /\ RecordType'
      /\ \A r \in Run : r > started => runRows'[r] = "over"
      /\ \A v \in Process, r \in Run : r > started => taskRuns'[v][r] = "over"
      /\ LoopType' /\ pc'[l] = "commit" /\ sel' = sel
      /\ cur'[l] \in 1 .. started
      /\ \A k \in AllLoops \ {l} : pc'[k] = pc[k] /\ cur'[k] = cur[k]
      /\ UNCHANGED <<flags, history>>
  BY PassesWrites
<1>2. Moves(l) /\ Leaves
  <2>1. Moves(l)
    BY <1>0, <1>1 DEF Moves, HoldInv, history
  <2>2. Leaves
    BY <1>1 DEF Leaves, flags, history
  <2> QED
    BY <2>1, <2>2
<1>3. CountsCopied /\ \A t \in Task : rows'[t].status = "discarded" => rows[t].status = "discarded"
  BY <1>0, <1>1, SameCopies
<1>4. backlogSynced' \in [Process -> BOOLEAN] /\ completed' \subseteq Task
  BY <1>0, <1>1 DEF FlagType, HistoryType, flags, history
<1> QED
  BY <1>1, <1>2, <1>3, <1>4, LoopKeeps

(* A failure returns, or takes up the latest active run. *)
LEMMA FailsWrites ==
  ASSUME TasksInv, NEW l \in AllLoops, Fails(l)
  PROVE  /\ pc[l] \in {"context", "work"} /\ UNCHANGED <<tables, memory, flags, history>>
         /\ LoopType'
         /\ \A k \in AllLoops \ {l} : pc'[k] = pc[k] /\ sel'[k] = sel[k] /\ cur'[k] = cur[k]
                                      /\ result'[k] = result[k]
         /\ \/ pc'[l] = "idle"
               /\ \A r \in Run : taskRuns[l[1]][r] = "over"
            \/ /\ pc'[l] = "finishRun" /\ result'[l] = "failed"
               /\ cur'[l] \in 1 .. started /\ cur'[l] \in Run
               /\ \A r \in Run : r > cur'[l] => taskRuns[l[1]][r] = "over"
               /\ taskRuns[l[1]][cur'[l]] # "over"
<1> DEFINE w == l[1]
           S == {r \in Run : taskRuns[w][r] # "over"}
           c == CurrentRun(w)
<1>0. RecordType /\ LoopType /\ HistoryType /\ RunInv /\ HoldInv
  BY DEF TasksInv
<1>1. /\ pc[l] \in {"context", "work"} /\ UNCHANGED <<tables, memory, flags, history>>
      /\ \/ c = NoRun /\ Return(l)
         \/ /\ c # NoRun /\ cur' = [cur EXCEPT ![l] = c] /\ sel' = sel
            /\ result' = [result EXCEPT ![l] = "failed"] /\ Goto(l, "finishRun")
  BY DEF Fails, Finish
<1>2. w \in Process /\ started \in 0 .. MaxRuns /\ MaxRuns \in Nat
  BY <1>0, TasksAssumption DEF AllLoops, HistoryType
<1>3. taskRuns[w] \in [Run -> RunStates] /\ \A r \in Run : r > started => taskRuns[w][r] = "over"
  BY <1>0, <1>2 DEF RecordType, RunInv
<1>4. /\ S # {} => /\ c \in 1 .. started /\ c \in S /\ \A r \in S : c >= r
      /\ S = {} => c = NoRun
  BY <1>2, <1>3, LatestRun DEF CurrentRun
<1>5. CASE c = NoRun /\ Return(l)
  <2>1. S = {}
    BY <1>4, <1>5 DEF NoRun
  <2> QED
    BY <1>0, <1>1, <1>5, <2>1, Returned
<1>6. CASE /\ c # NoRun /\ cur' = [cur EXCEPT ![l] = c] /\ sel' = sel
           /\ result' = [result EXCEPT ![l] = "failed"] /\ Goto(l, "finishRun")
  <2>1. c \in 1 .. started /\ c \in S /\ \A r \in S : c >= r
    BY <1>4, <1>6
  <2>2. c \in Run /\ taskRuns[w][c] # "over"
    BY <2>1
  <2>3. \A r \in Run : r > c => taskRuns[w][r] = "over"
    <3> SUFFICES ASSUME NEW r \in Run, r > c, taskRuns[w][r] # "over" PROVE FALSE
      OBVIOUS
    <3>1. r \in S
      OBVIOUS
    <3>2. c >= r /\ r \in Nat /\ c \in Nat
      BY <1>2, <2>1, <2>2, <3>1 DEF Run
    <3> QED
      BY <3>2
  <2>4. /\ pc' \in [AllLoops -> PC] /\ pc'[l] = "finishRun"
        /\ \A k \in AllLoops \ {l} : pc'[k] = pc[k]
    BY <1>0, <1>6, Moved DEF PC
  <2> HIDE DEF c, S
  <2>5. /\ cur' \in [AllLoops -> Run \cup {NoRun}] /\ cur'[l] = c
        /\ \A k \in AllLoops \ {l} : cur'[k] = cur[k]
    BY <1>0, <1>6, <2>2 DEF LoopType
  <2>6. /\ result' \in [AllLoops -> {"none", "failed", "succeeded"}] /\ result'[l] = "failed"
        /\ \A k \in AllLoops \ {l} : result'[k] = result[k]
    BY <1>0, <1>6 DEF LoopType
  <2>7. LoopType'
    BY <1>0, <1>6, <2>4, <2>5, <2>6 DEF LoopType
  <2> QED
    BY <1>1, <1>6, <2>1, <2>2, <2>3, <2>4, <2>5, <2>6, <2>7
<1> QED
  BY <1>1, <1>5, <1>6

LEMMA FailsKeeps ==
  ASSUME TasksInv, NEW l \in AllLoops, Fails(l)
  PROVE  TasksInv'
<1>0. RecordType /\ FlagType /\ LoopType /\ HistoryType
  BY DEF TasksInv
<1>1. /\ pc[l] \in {"context", "work"} /\ LoopType'
      /\ rows' = rows /\ runRows' = runRows /\ sourceTasks' = sourceTasks /\ taskRuns' = taskRuns
      /\ UNCHANGED <<flags, history>>
      /\ \A k \in AllLoops \ {l} : pc'[k] = pc[k] /\ sel'[k] = sel[k] /\ cur'[k] = cur[k]
      /\ pc'[l] = "idle" \/ (pc'[l] = "finishRun" /\ cur'[l] \in 1 .. started)
  BY FailsWrites DEF tables, memory
<1>2. Moves(l) /\ Leaves
  BY <1>1 DEF Moves, Leaves, Holding, flags, history
<1>3. RecordType'
  BY <1>0, <1>1 DEF RecordType
<1>4. CountsCopied /\ \A t \in Task : rows'[t].status = "discarded" => rows[t].status = "discarded"
  BY <1>0, <1>1, SameCopies
<1>5. backlogSynced' \in [Process -> BOOLEAN] /\ completed' \subseteq Task
  BY <1>0, <1>1 DEF FlagType, HistoryType, flags, history
<1> QED
  BY <1>1, <1>2, <1>3, <1>4, <1>5, LoopKeeps

(* The commit step succeeds, or the branch reports a failure. *)
LEMMA CommitWrites ==
  ASSUME TasksInv, NEW l \in AllLoops, Commit(l)
  PROVE  /\ pc[l] = "commit" /\ UNCHANGED <<tables, memory, flags, sel, cur>>
         /\ UNCHANGED <<unscoped, runTask, started, leaders, crashes, hours, terms>>
         /\ LoopType' /\ pc'[l] = "finishRun" /\ sel[l] \in Task
         /\ \A k \in AllLoops \ {l} : pc'[k] = pc[k] /\ result'[k] = result[k]
         /\ \/ result'[l] = "succeeded" /\ completed' = completed \cup {sel[l]}
            \/ result'[l] = "failed" /\ completed' = completed
<1>0. LoopType /\ HoldInv
  BY DEF TasksInv
<1>1. /\ pc[l] = "commit" /\ UNCHANGED <<tables, memory, flags, sel, cur>>
      /\ UNCHANGED <<unscoped, runTask, started, leaders, crashes, hours, terms>>
      /\ Goto(l, "finishRun")
      /\ \E status \in {"failed", "succeeded"} :
           /\ result' = [result EXCEPT ![l] = status]
           /\ completed' = IF status = "failed" THEN completed ELSE completed \cup {sel[l]}
  BY DEF Commit, Finish
<1>2. /\ pc' \in [AllLoops -> PC] /\ pc'[l] = "finishRun"
      /\ \A k \in AllLoops \ {l} : pc'[k] = pc[k]
  BY <1>0, <1>1, Moved DEF PC
<1>3. PICK status \in {"failed", "succeeded"} :
        /\ result' = [result EXCEPT ![l] = status]
        /\ completed' = IF status = "failed" THEN completed ELSE completed \cup {sel[l]}
  BY <1>1
<1>4. /\ result' \in [AllLoops -> {"none", "failed", "succeeded"}] /\ result'[l] = status
      /\ \A k \in AllLoops \ {l} : result'[k] = result[k]
  BY <1>0, <1>3 DEF LoopType
<1>5. LoopType'
  BY <1>0, <1>1, <1>2, <1>4 DEF LoopType
<1>6. sel[l] \in Task
  BY <1>0, <1>1 DEF HoldInv
<1> QED
  BY <1>1, <1>2, <1>3, <1>4, <1>5, <1>6

LEMMA CommitKeeps ==
  ASSUME TasksInv, NEW l \in AllLoops, Commit(l)
  PROVE  TasksInv'
<1>0. RecordType /\ FlagType /\ LoopType /\ HistoryType /\ HoldInv
  BY DEF TasksInv
<1>1. /\ pc[l] = "commit" /\ LoopType' /\ pc'[l] = "finishRun" /\ sel[l] \in Task
      /\ rows' = rows /\ runRows' = runRows /\ sourceTasks' = sourceTasks /\ taskRuns' = taskRuns
      /\ UNCHANGED <<flags, sel, cur>>
      /\ UNCHANGED <<unscoped, runTask, started, leaders, crashes, hours, terms>>
      /\ \A k \in AllLoops \ {l} : pc'[k] = pc[k]
      /\ completed' \subseteq completed \cup {sel[l]}
  BY CommitWrites DEF tables, memory
<1>2. Moves(l) /\ Leaves
  <2>1. cur[l] \in 1 .. started
    BY <1>0, <1>1 DEF HoldInv, Holding
  <2> QED
    BY <1>1, <2>1 DEF Moves, Leaves, flags
<1>3. RecordType'
  BY <1>0, <1>1 DEF RecordType
<1>4. CountsCopied /\ \A t \in Task : rows'[t].status = "discarded" => rows[t].status = "discarded"
  BY <1>0, <1>1, SameCopies
<1>5. backlogSynced' \in [Process -> BOOLEAN] /\ completed' \subseteq Task
  BY <1>0, <1>1 DEF FlagType, HistoryType, flags
<1> QED
  BY <1>1, <1>2, <1>3, <1>4, <1>5, LoopKeeps

(* The run is over in the table and the memory. *)
LEMMA FinishRunWrites ==
  ASSUME TasksInv, NEW l \in AllLoops, FinishRun(l)
  PROVE  /\ pc[l] = "finishRun" /\ cur[l] \in 1 .. started
         /\ rows' = rows /\ sourceTasks' = sourceTasks /\ UNCHANGED <<flags, sel, cur, result, history>>
         /\ RecordType' /\ pc' \in [AllLoops -> PC] /\ pc'[l] = "finishTask"
         /\ \A k \in AllLoops \ {l} : pc'[k] = pc[k]
         /\ \A q \in Run : runRows'[q] \in {runRows[q], "over"}
         /\ \A v \in Process, q \in Run :
              \/ taskRuns'[v][q] = taskRuns[v][q]
              \/ v = l[1] /\ taskRuns'[v][q] = "over"
<1> DEFINE w == l[1]
<1>0. RecordType /\ LoopType /\ HistoryType /\ HoldInv
  BY DEF TasksInv
<1>1. /\ pc[l] = "finishRun" /\ SetRun(w, cur[l], "over") /\ Goto(l, "finishTask")
      /\ sourceTasks' = sourceTasks /\ UNCHANGED <<flags, sel, cur, result, history>>
  BY DEF FinishRun
<1>2. w \in Process /\ cur[l] \in 1 .. started /\ cur[l] \in Run
  BY <1>0, <1>1, TasksAssumption DEF HoldInv, Holding, AllLoops, HistoryType, Run
<1>3. /\ rows' = rows /\ runRows' \in [Run -> RunStates] /\ taskRuns' \in [Process -> [Run -> RunStates]]
      /\ taskRuns'[w][cur[l]] = "over" /\ runRows'[cur[l]] \in {runRows[cur[l]], "over"}
      /\ \A q \in Run \ {cur[l]} : runRows'[q] = runRows[q]
      /\ \A v \in Process, q \in Run : v # w \/ q # cur[l] => taskRuns'[v][q] = taskRuns[v][q]
  <2>1. "over" \in RunStates
    BY DEF RunStates
  <2> HIDE DEF w
  <2> QED
    BY <1>0, <1>1, <1>2, <2>1, RunWrites
<1>5. /\ pc' \in [AllLoops -> PC] /\ pc'[l] = "finishTask"
      /\ \A k \in AllLoops \ {l} : pc'[k] = pc[k]
  BY <1>0, <1>1, Moved DEF PC
<1>6. RecordType'
  BY <1>0, <1>1, <1>3 DEF RecordType
<1> QED
  BY <1>1, <1>2, <1>3, <1>5, <1>6

LEMMA FinishRunKeeps ==
  ASSUME TasksInv, NEW l \in AllLoops, FinishRun(l)
  PROVE  TasksInv'
<1>0. RecordType /\ FlagType /\ LoopType /\ HistoryType /\ RunInv
  BY DEF TasksInv
<1>1. /\ pc[l] = "finishRun" /\ cur[l] \in 1 .. started
      /\ rows' = rows /\ sourceTasks' = sourceTasks /\ UNCHANGED <<flags, sel, cur, result, history>>
      /\ RecordType' /\ pc' \in [AllLoops -> PC] /\ pc'[l] = "finishTask"
      /\ \A k \in AllLoops \ {l} : pc'[k] = pc[k]
      /\ \A q \in Run : runRows'[q] \in {runRows[q], "over"}
      /\ \A v \in Process, q \in Run : \/ taskRuns'[v][q] = taskRuns[v][q]
                                       \/ v = l[1] /\ taskRuns'[v][q] = "over"
  BY FinishRunWrites
<1>2. Moves(l) /\ Leaves
  <2>1. Moves(l)
    BY <1>1 DEF Moves, history
  <2>2. Leaves
    BY <1>1 DEF Leaves, flags, history
  <2> QED
    BY <2>1, <2>2
<1>3. LoopType'
  BY <1>0, <1>1 DEF LoopType
<1>4. CountsCopied /\ \A t \in Task : rows'[t].status = "discarded" => rows[t].status = "discarded"
  BY <1>0, <1>1, SameCopies
<1>5. backlogSynced' \in [Process -> BOOLEAN] /\ completed' \subseteq Task
  BY <1>0, <1>1 DEF FlagType, HistoryType, flags, history
<1> QED
  BY <1>1, <1>2, <1>3, <1>4, <1>5, LoopKeeps

(* The task of the run gets the result; a failure goes on to the dead-letter queue. *)
LEMMA FinishTaskWrites ==
  ASSUME TasksInv, NEW l \in AllLoops, FinishTask(l)
  PROVE  /\ pc[l] = "finishTask" /\ cur[l] \in 1 .. started /\ cur[l] \in Run
         /\ runTask[cur[l]] \in Task /\ l[1] \in Process /\ result[l] \in Status
         /\ result[l] \in {"none", "failed", "succeeded"}
         /\ SetStatus(l[1], runTask[cur[l]], result[l])
         /\ UNCHANGED <<runRows, taskRuns, flags, history>> /\ LoopType'
         /\ \A k \in AllLoops \ {l} : pc'[k] = pc[k] /\ sel'[k] = sel[k] /\ cur'[k] = cur[k]
                                      /\ result'[k] = result[k]
         /\ \/ pc'[l] = "idle" /\ result[l] # "failed"
            \/ pc'[l] = "deadLetter" /\ result[l] = "failed" /\ UNCHANGED <<sel, cur, result>>
<1>0. RecordType /\ LoopType /\ HistoryType /\ RunInv /\ HoldInv
  BY DEF TasksInv
<1>1. /\ pc[l] = "finishTask" /\ SetStatus(l[1], runTask[cur[l]], result[l])
      /\ UNCHANGED <<taskRuns, flags, history>>
      /\ \/ result[l] = "failed" /\ Goto(l, "deadLetter") /\ UNCHANGED <<sel, cur, result>>
         \/ result[l] # "failed" /\ Return(l)
  BY DEF FinishTask
<1>2. l[1] \in Process /\ cur[l] \in 1 .. started /\ cur[l] \in Run /\ runTask[cur[l]] \in Task
  <2>1. l[1] \in Process /\ cur[l] \in 1 .. started /\ started \in 0 .. MaxRuns /\ MaxRuns \in Nat
    BY <1>0, <1>1, TasksAssumption DEF HoldInv, Holding, AllLoops, HistoryType
  <2>2. cur[l] \in Run /\ cur[l] <= started
    BY <2>1 DEF Run
  <2> QED
    BY <1>0, <2>1, <2>2 DEF RunInv
<1>3. result[l] \in {"none", "failed", "succeeded"} /\ result[l] \in Status
  BY <1>0 DEF LoopType, Status
<1>6. runRows' = runRows
  BY <1>0, <1>1, <1>2, <1>3, StatusWrites
<1>4. CASE result[l] = "failed" /\ Goto(l, "deadLetter") /\ UNCHANGED <<sel, cur, result>>
  <2>1. /\ pc' \in [AllLoops -> PC] /\ pc'[l] = "deadLetter"
        /\ \A k \in AllLoops \ {l} : pc'[k] = pc[k]
    BY <1>0, <1>4, Moved DEF PC
  <2>2. LoopType'
    BY <1>0, <1>4, <2>1 DEF LoopType
  <2> QED
    BY <1>1, <1>2, <1>3, <1>4, <1>6, <2>1, <2>2
<1>5. CASE result[l] # "failed" /\ Return(l)
  <2>1. /\ LoopType' /\ pc'[l] = "idle"
        /\ \A k \in AllLoops \ {l} : pc'[k] = pc[k] /\ sel'[k] = sel[k] /\ cur'[k] = cur[k]
                                     /\ result'[k] = result[k]
    BY <1>0, <1>5, Returned
  <2> QED
    BY <1>1, <1>2, <1>3, <1>5, <1>6, <2>1
<1> QED
  BY <1>1, <1>4, <1>5

LEMMA FinishTaskKeeps ==
  ASSUME TasksInv, NEW l \in AllLoops, FinishTask(l)
  PROVE  TasksInv'
<1>0. RecordType /\ FlagType /\ LoopType /\ HistoryType
  BY DEF TasksInv
<1>1. /\ pc[l] = "finishTask" /\ cur[l] \in 1 .. started
      /\ runTask[cur[l]] \in Task /\ l[1] \in Process /\ result[l] \in Status
      /\ result[l] \in {"none", "failed", "succeeded"}
      /\ SetStatus(l[1], runTask[cur[l]], result[l])
      /\ UNCHANGED <<runRows, taskRuns, flags, history>> /\ LoopType'
      /\ \A k \in AllLoops \ {l} : pc'[k] = pc[k] /\ sel'[k] = sel[k] /\ cur'[k] = cur[k]
      /\ \/ pc'[l] = "idle"
         \/ pc'[l] = "deadLetter" /\ UNCHANGED <<sel, cur, result>>
  BY FinishTaskWrites
<1>2. CountsCopied /\ \A u \in Task : rows'[u] = rows[u] \/ rows'[u].status = result[l]
  BY <1>0, <1>1, StatusCopies
<1>3. RecordType'
  <2>1. rows' \in [Task -> Record] /\ sourceTasks' \in [Process -> [Task -> Record]]
    BY <1>0, <1>1, StatusWrites
  <2> QED
    BY <1>0, <1>1, <2>1 DEF RecordType
<1>4. Moves(l) /\ Leaves
  <2>1. Moves(l)
    BY <1>1 DEF Moves, Holding, history
  <2>2. Leaves
    BY <1>1 DEF Leaves, flags, history
  <2> QED
    BY <2>1, <2>2
<1>5. backlogSynced' \in [Process -> BOOLEAN] /\ completed' \subseteq Task
  BY <1>0, <1>1 DEF FlagType, HistoryType, flags, history
<1>6. \A u \in Task : rows'[u].status = "discarded" => rows[u].status = "discarded"
  BY <1>1, <1>2
<1> QED
  BY <1>1, <1>2, <1>3, <1>4, <1>5, <1>6, LoopKeeps

(* A task is given up that memory has counted the limit of runs of. *)
LEMMA DeadLetterWrites ==
  ASSUME TasksInv, NEW l \in AllLoops, DeadLetter(l)
  PROVE  LET w == l[1]
             t == runTask[cur[l]]
         IN  /\ pc[l] = "deadLetter" /\ cur[l] \in 1 .. started /\ cur[l] \in Run /\ t \in Task
             /\ w \in Process /\ "discarded" \in Status
             /\ \/ sourceTasks[w][t].runCount >= MaxFailures /\ SetStatus(w, t, "discarded")
                \/ /\ ~(sourceTasks[w][t].runCount >= MaxFailures)
                   /\ sourceTasks' = sourceTasks /\ rows' = rows
             /\ UNCHANGED <<runRows, taskRuns, flags, history>> /\ LoopType' /\ pc'[l] = "idle"
             /\ \A k \in AllLoops \ {l} : pc'[k] = pc[k] /\ sel'[k] = sel[k] /\ cur'[k] = cur[k]
                                          /\ result'[k] = result[k]
<1>0. RecordType /\ LoopType /\ HistoryType /\ RunInv /\ HoldInv
  BY DEF TasksInv
<1>1. /\ pc[l] = "deadLetter" /\ Return(l) /\ UNCHANGED <<taskRuns, flags, history>>
      /\ \/ /\ sourceTasks[l[1]][runTask[cur[l]]].runCount >= MaxFailures
            /\ SetStatus(l[1], runTask[cur[l]], "discarded")
         \/ /\ ~(sourceTasks[l[1]][runTask[cur[l]]].runCount >= MaxFailures)
            /\ sourceTasks' = sourceTasks /\ rows' = rows /\ runRows' = runRows
  BY DEF DeadLetter, tables
<1>2. l[1] \in Process /\ cur[l] \in 1 .. started /\ cur[l] \in Run /\ runTask[cur[l]] \in Task
  <2>1. l[1] \in Process /\ cur[l] \in 1 .. started /\ started \in 0 .. MaxRuns /\ MaxRuns \in Nat
    BY <1>0, <1>1, TasksAssumption DEF HoldInv, Holding, AllLoops, HistoryType
  <2>2. cur[l] \in Run /\ cur[l] <= started
    BY <2>1 DEF Run
  <2> QED
    BY <1>0, <2>1, <2>2 DEF RunInv
<1>3. /\ LoopType' /\ pc'[l] = "idle"
      /\ \A k \in AllLoops \ {l} : pc'[k] = pc[k] /\ sel'[k] = sel[k] /\ cur'[k] = cur[k]
                                   /\ result'[k] = result[k]
  BY <1>0, <1>1, Returned
<1>4. "discarded" \in Status
  BY DEF Status
<1>5. runRows' = runRows
  BY <1>0, <1>1, <1>2, <1>4, StatusWrites
<1> QED
  BY <1>1, <1>2, <1>3, <1>4, <1>5

LEMMA DeadLetterKeeps ==
  ASSUME TasksInv, NEW l \in AllLoops, DeadLetter(l)
  PROVE  TasksInv'
<1> DEFINE w == l[1]
           t == runTask[cur[l]]
<1>0. RecordType /\ FlagType /\ LoopType /\ HistoryType /\ CountInv
  BY DEF TasksInv
<1>1. /\ pc[l] = "deadLetter" /\ t \in Task /\ w \in Process /\ "discarded" \in Status
      /\ \/ sourceTasks[w][t].runCount >= MaxFailures /\ SetStatus(w, t, "discarded")
         \/ sourceTasks' = sourceTasks /\ rows' = rows
      /\ UNCHANGED <<runRows, taskRuns, flags, history>> /\ LoopType' /\ pc'[l] = "idle"
      /\ \A k \in AllLoops \ {l} : pc'[k] = pc[k] /\ sel'[k] = sel[k] /\ cur'[k] = cur[k]
  BY DeadLetterWrites
<1>2. Moves(l) /\ Leaves
  BY <1>1 DEF Moves, Leaves, Holding, flags, history
<1>3. backlogSynced' \in [Process -> BOOLEAN] /\ completed' \subseteq Task
  BY <1>0, <1>1 DEF FlagType, HistoryType, flags, history
<1> HIDE DEF w, t
<1>4. CASE sourceTasks[w][t].runCount >= MaxFailures /\ SetStatus(w, t, "discarded")
  <2>1. CountsCopied /\ \A u \in Task : rows'[u] = rows[u] \/ u = t
    BY <1>0, <1>1, <1>4, StatusCopies
  <2>2. RecordType'
    <3>1. rows' \in [Task -> Record] /\ sourceTasks' \in [Process -> [Task -> Record]]
      BY <1>0, <1>1, <1>4, StatusWrites
    <3> QED
      BY <1>0, <1>1, <3>1 DEF RecordType
  <2>3. Cardinality(Begun(t)) >= MaxFailures
    <3>1. sourceTasks[w][t].runCount <= Cardinality(Counted(w, t))
      BY <1>0, <1>1 DEF CountInv
    <3>2. sourceTasks[w][t].runCount \in Nat
      BY <1>0, <1>1, TasksAssumption DEF RecordType, Record
    <3> QED
      BY <1>4, <3>1, <3>2, CountedFinite, BegunFinite, TasksAssumption
  <2>4. \A u \in Task : rows'[u].status = "discarded" =>
          rows[u].status = "discarded" \/ Cardinality(Begun(u)) >= MaxFailures
    BY <2>1, <2>3
  <2> QED
    BY <1>1, <1>2, <1>3, <2>1, <2>2, <2>4, LoopKeeps
<1>5. CASE sourceTasks' = sourceTasks /\ rows' = rows
  <2>1. CountsCopied /\ \A u \in Task : rows'[u].status = "discarded" => rows[u].status = "discarded"
    BY <1>0, <1>5, SameCopies
  <2>2. RecordType'
    BY <1>0, <1>1, <1>5 DEF RecordType
  <2> QED
    BY <1>1, <1>2, <1>3, <2>1, <2>2, LoopKeeps
<1> QED
  BY <1>1, <1>4, <1>5

(* Every step of a loop keeps the invariant. *)
LEMMA StepKeeps ==
  ASSUME TasksInv, NEW l \in AllLoops, Step(l)
  PROVE  TasksInv'
<1>1. CASE LeaveLoop(l)
  BY <1>1, LeaveLoopKeeps
<1>2. CASE SyncBacklog(l)
  BY <1>2, SyncBacklogKeeps
<1>3. CASE \E t \in Task : Block(l, t) \/ Select(l, t)
  BY <1>3, BlockKeeps, SelectKeeps
<1>4. CASE StartRun(l)
  BY <1>4, StartRunKeeps
<1>5. CASE CountRun(l)
  BY <1>5, CountRunKeeps
<1>6. CASE Passes(l)
  BY <1>6, PassesKeeps
<1>7. CASE Fails(l)
  BY <1>7, FailsKeeps
<1>8. CASE Commit(l)
  BY <1>8, CommitKeeps
<1>9. CASE FinishRun(l)
  BY <1>9, FinishRunKeeps
<1>10. CASE FinishTask(l)
  BY <1>10, FinishTaskKeeps
<1>11. CASE DeadLetter(l)
  BY <1>11, DeadLetterKeeps
<1> QED
  BY <1>1, <1>2, <1>3, <1>4, <1>5, <1>6, <1>7, <1>8, <1>9, <1>10, <1>11 DEF Step

LEMMA TasksNext == TasksInv /\ [Next]_vars => TasksInv'
<1> SUFFICES ASSUME TasksInv, [Next]_vars PROVE TasksInv'
  OBVIOUS
<1>1. ASSUME NEW w \in Process, Boot(w) \/ Elect(w) \/ Demote(w) \/ Crash(w) PROVE TasksInv'
  BY <1>1, BootKeeps, ElectKeeps, DemoteKeeps, CrashKeeps
<1>2. ASSUME NEW l \in AllLoops, Step(l) PROVE TasksInv'
  BY <1>2, StepKeeps
<1>3. CASE HourPasses
  BY <1>3, HourKeeps
<1>4. CASE UNCHANGED vars
  <2>1. /\ rows' = rows /\ runRows' = runRows /\ sourceTasks' = sourceTasks /\ taskRuns' = taskRuns
        /\ UNCHANGED <<flags, loop, history>>
    BY <1>4 DEF vars, tables, memory
  <2>2. RecordType' /\ FlagType' /\ LoopType' /\ HistoryType'
    BY <2>1 DEF TasksInv, RecordType, FlagType, LoopType, HistoryType, flags, loop, history
  <2>3. RunInv' /\ HoldInv' /\ LeadInv'
    BY <2>1 DEF TasksInv, RunInv, HoldInv, LeadInv, flags, loop, history
  <2>4. CountsCopied /\ \A t \in Task : rows'[t].status = "discarded" => rows[t].status = "discarded"
    BY <2>1, SameCopies DEF TasksInv
  <2>5. RunsKept
    BY <2>1 DEF RunsKept, loop, history
  <2> QED
    BY <2>2, <2>3, <2>4, <2>5, TasksKept
<1> QED
  BY <1>1, <1>2, <1>3, <1>4 DEF Next, AllLoops

(* No record counts a run that was not started, whatever tables and memories go
   back to. *)
THEOREM TasksInvariant == Spec => []TasksInv
BY TasksInit, TasksNext, PTL DEF Spec

(* Failures of the database are counted up to their bounds, and never forgotten. *)
LEMMA FaultsNext ==
  ASSUME FaultType, [Next]_vars
  PROVE  FaultType' /\ lostWrites' >= lostWrites /\ failedLoads' >= failedLoads
<1> DEFINE Goal == FaultType' /\ lostWrites' >= lostWrites /\ failedLoads' >= failedLoads
<1>1. ASSUME UNCHANGED <<lostWrites, failedLoads>> PROVE Goal
  BY <1>1, TasksAssumption DEF FaultType
<1>2. ASSUME NEW nr, NEW nu, Write(nr, nu), UNCHANGED failedLoads PROVE Goal
  BY <1>2, WriteCounts, TasksAssumption DEF FaultType
<1>5. ASSUME NEW w \in Process, Boot(w) PROVE Goal
  BY <1>5, TasksAssumption DEF Boot, FaultType, tables
<1> HIDE DEF Goal
<1>3. ASSUME NEW w, NEW t, NEW s, SetStatus(w, t, s), UNCHANGED failedLoads PROVE Goal
  <2>1. CASE sourceTasks[w][t].status = "none"
    BY <1>1, <1>3, <2>1 DEF SetStatus, tables
  <2>2. CASE sourceTasks[w][t].status # "none"
    BY <1>2, <1>3, <2>2 DEF SetStatus, Upsert
  <2> QED
    BY <2>1, <2>2
<1>4. ASSUME NEW w, NEW r, NEW s, SetRun(w, r, s), UNCHANGED failedLoads PROVE Goal
  BY <1>2, <1>4 DEF SetRun
<1>6. ASSUME NEW w \in Process, Elect(w) PROVE Goal
  <2>1. CASE Recover(w)
    BY <1>2, <1>6, <2>1 DEF Elect, Recover
  <2>2. CASE UNCHANGED <<tables, memory>>
    BY <1>1, <1>6, <2>2 DEF Elect, tables
  <2> QED
    BY <1>6, <2>1, <2>2 DEF Elect
<1>7. ASSUME NEW w \in Process, Demote(w) \/ Crash(w) PROVE Goal
  BY <1>1, <1>7 DEF Demote, Crash, tables, history
<1>8. ASSUME NEW l \in AllLoops, Step(l) PROVE Goal
  <2>1. CASE LeaveLoop(l) \/ (\E t \in Task : Select(l, t)) \/ Fails(l) \/ Commit(l)
    BY <1>1, <2>1 DEF LeaveLoop, Select, Fails, Commit, tables, history
  <2>2. CASE SyncBacklog(l)
    BY <1>2, <2>2 DEF SyncBacklog, history
  <2>3. CASE (\E t \in Task : Block(l, t)) \/ StartRun(l) \/ FinishTask(l)
    BY <1>3, <2>3 DEF Block, StartRun, FinishTask, history
  <2>4. CASE CountRun(l)
    BY <1>2, <2>4 DEF CountRun, history
  <2>5. CASE Passes(l) \/ FinishRun(l)
    BY <1>4, <2>5 DEF Passes, FinishRun, history
  <2>6. CASE DeadLetter(l)
    BY <1>1, <1>3, <2>6 DEF DeadLetter, tables, history
  <2> QED
    BY <1>8, <2>1, <2>2, <2>3, <2>4, <2>5, <2>6 DEF Step
<1>9. ASSUME HourPasses PROVE Goal
  BY <1>1, <1>9 DEF HourPasses
<1>10. ASSUME UNCHANGED vars PROVE Goal
  BY <1>1, <1>10 DEF vars, tables, history
<1>11. Goal
  BY <1>5, <1>6, <1>7, <1>8, <1>9, <1>10 DEF Next, AllLoops
<1> QED
  BY <1>11 DEF Goal

(* Failed writes and loads stay within their bounds (AgentTaskStore). *)
THEOREM FaultsBounded == Spec => []FaultType
<1>1. Init => FaultType
  BY TasksAssumption DEF Init, FaultType
<1>2. FaultType /\ [Next]_vars => FaultType'
  BY FaultsNext
<1> QED
  BY <1>1, <1>2, PTL DEF Spec

(* Tables, memories, loops and history stay well-formed (AgentTaskStore,
   AgentWorker). *)
THEOREM TasksType == Spec => []TypeOK
<1>1. TasksInv /\ FaultType => TypeOK
  BY TasksTypeParts DEF TasksInv
<1> QED
  BY <1>1, TasksInvariant, FaultsBounded, PTL

(* A task is given up only after as many runs as the limit says, for any number
   of processes and of copies of the loop (deadLetterIfExhausted). *)
THEOREM GivenUpAfterEnoughRuns == Spec => []NotGivenUpEarly
<1>1. TasksInv => NotGivenUpEarly
  BY DEF TasksInv
<1> QED
  BY <1>1, TasksInvariant, PTL

-----------------------------------------------------------------------------
\* Processes that run one copy of the loop: it stops before the next one starts.
OneLoop == \A i, j \in Loop : i = j

\* A loop that works finds its own run when it looks for the latest active one.
Own(l) ==
  /\ pc[l] = "context" => sourceTasks[l[1]][sel[l]].status \in {"queued", "failed"}
  /\ pc[l] \in {"count", "work"} =>
       /\ runTask[cur[l]] = sel[l]
       /\ \A r \in Run : r > cur[l] => taskRuns[l[1]][r] = "over"
  /\ pc[l] = "work" => taskRuns[l[1]][cur[l]] # "over"
  /\ pc[l] = "commit" => runTask[cur[l]] = sel[l]
  /\ pc[l] \in {"finishRun", "finishTask"} => result[l] # "none"
  /\ pc[l] \in {"finishRun", "finishTask"} /\ result[l] = "succeeded" =>
       runTask[cur[l]] \in completed
OwnInv == \A l \in AllLoops : Own(l)

(* There is nothing to look up at the start. *)
LEMMA SuccessInit == Init => OwnInv /\ SuccessIsOwn
BY DEF Init, NoTasks, OwnInv, Own, SuccessIsOwn, Absent, AllLoops

(* Then two loops belong to two processes. *)
LEMMA LoopsApart ==
  ASSUME OneLoop, NEW k \in AllLoops, NEW l \in AllLoops, k[1] = l[1]
  PROVE  k = l
BY DEF OneLoop, AllLoops

\* What a loop looks up stays the same.
Same(k) ==
  /\ pc'[k] = pc[k] /\ sel'[k] = sel[k] /\ cur'[k] = cur[k] /\ result'[k] = result[k]
  /\ \A t \in Task : sourceTasks'[k[1]][t].status = sourceTasks[k[1]][t].status
  /\ \A r \in Run : taskRuns'[k[1]][r] = "over" <=> taskRuns[k[1]][r] = "over"
Recorded ==
  /\ \A r \in Run : r <= started => runTask'[r] = runTask[r]
  /\ completed \subseteq completed'

LEMMA OwnStays ==
  ASSUME TasksInv, NEW k \in AllLoops, Own(k), Same(k), Recorded
  PROVE  Own(k)'
<1>0. HoldInv /\ HistoryType /\ LoopType
  BY DEF TasksInv
<1>1. pc[k] \in {"context", "count", "work", "commit"} => sel[k] \in Task
  BY <1>0 DEF HoldInv
<1>2. pc[k] \in Holding => cur[k] \in Run /\ runTask'[cur[k]] = runTask[cur[k]]
  <2> SUFFICES ASSUME pc[k] \in Holding PROVE cur[k] \in Run /\ runTask'[cur[k]] = runTask[cur[k]]
    OBVIOUS
  <2>1. cur[k] \in 1 .. started /\ started \in 0 .. MaxRuns /\ MaxRuns \in Nat
    BY <1>0, TasksAssumption DEF HoldInv, HistoryType
  <2>2. cur[k] \in Run /\ cur[k] <= started
    BY <2>1 DEF Run
  <2> QED
    BY <2>2 DEF Recorded
<1> QED
  BY <1>1, <1>2 DEF Own, Same, Recorded, Holding

(* A loop that does nothing, or fails, finds what it needs. *)
LEMMA OwnIdle ==
  ASSUME NEW k \in AllLoops, pc'[k] \in {"off", "idle", "deadLetter"}
  PROVE  Own(k)'
BY DEF Own

(* Loops of other processes look up their own memory. *)
LEMMA OthersSame ==
  ASSUME OneLoop, TasksInv, NEW l \in AllLoops,
         \A k \in AllLoops \ {l} : pc'[k] = pc[k] /\ sel'[k] = sel[k] /\ cur'[k] = cur[k]
                                   /\ result'[k] = result[k],
         \A v \in Process \ {l[1]} :
           /\ \A t \in Task : sourceTasks'[v][t] = sourceTasks[v][t]
           /\ \A r \in Run : taskRuns'[v][r] = taskRuns[v][r]
  PROVE  \A k \in AllLoops \ {l} : Same(k)
<1> SUFFICES ASSUME NEW k \in AllLoops \ {l} PROVE Same(k)
  OBVIOUS
<1>1. k[1] \in Process \ {l[1]}
  BY LoopsApart DEF AllLoops
<1> QED
  BY <1>1 DEF Same

(* Steps of a process look up nothing, and only a loop commits or starts runs. *)
LEMMA ProcessOwn ==
  ASSUME OneLoop, TasksInv, OwnInv, NEW w \in Process, Boot(w) \/ Elect(w) \/ Demote(w) \/ Crash(w)
  PROVE  OwnInv'
<1>0. RecordType /\ LoopType /\ HoldInv /\ LeadInv
  BY DEF TasksInv
<1>1. Recorded
  BY DEF Recorded, Boot, Elect, Demote, Crash, history
<1>2. SUFFICES ASSUME NEW k \in AllLoops PROVE Own(k)'
  BY DEF OwnInv
<1>3. Own(k)
  BY DEF OwnInv
<1>4. CASE Boot(w)
  <2>1. CASE k[1] = w
    <3>1. pc'[k] = "off"
      BY <1>0, <1>4, <2>1 DEF Boot, LeadInv, loop
    <3> QED
      BY <3>1, OwnIdle
  <2>2. CASE k[1] # w
    <3>1. k[1] \in Process
      BY DEF AllLoops
    <3>2. Same(k)
      BY <1>0, <1>4, <2>2, <3>1 DEF Boot, Same, loop, RecordType
    <3> QED
      BY <1>1, <1>3, <3>2, OwnStays
  <2> QED
    BY <2>1, <2>2
<1>5. CASE Elect(w)
  <2>1. PICK l \in {w} \X Loop : pc[l] = "off" /\ Goto(l, "idle")
    BY <1>5 DEF Elect
  <2>2. l \in AllLoops /\ l[1] = w
    BY DEF AllLoops
  <2>3. UNCHANGED <<sel, cur, result>> /\ pc'[l] = "idle" /\ \A j \in AllLoops \ {l} : pc'[j] = pc[j]
    BY <1>0, <1>5, <2>1, <2>2 DEF Elect, Goto, LoopType
  <2>4. \A v \in Process \ {w} : /\ \A t \in Task : sourceTasks'[v][t] = sourceTasks[v][t]
                                 /\ \A r \in Run : taskRuns'[v][r] = taskRuns[v][r]
    <3>1. CASE Recover(w)
      BY <1>0, <3>1 DEF Recover, RecordType
    <3>2. CASE UNCHANGED <<tables, memory>>
      BY <3>2 DEF memory
    <3> QED
      BY <1>5, <3>1, <3>2 DEF Elect
  <2>5. CASE k = l
    BY <2>3, <2>5, OwnIdle
  <2>6. CASE k # l
    <3>1. Same(k)
      BY <2>2, <2>3, <2>4, <2>6, OthersSame
    <3> QED
      BY <1>1, <1>3, <3>1, OwnStays
  <2> QED
    BY <2>5, <2>6
<1>6. CASE Demote(w)
  <2>1. Same(k)
    BY <1>6 DEF Demote, Same, loop, memory
  <2> QED
    BY <1>1, <1>3, <2>1, OwnStays
<1>7. CASE Crash(w)
  <2>1. CASE k[1] = w
    <3>1. pc'[k] = "off"
      BY <1>7, <2>1 DEF Crash, AllLoops
    <3> QED
      BY <3>1, OwnIdle
  <2>2. CASE k[1] # w
    <3>1. k[1] \in Process
      BY DEF AllLoops
    <3>2. pc'[k] = pc[k] /\ sel'[k] = sel[k] /\ cur'[k] = cur[k] /\ result'[k] = result[k]
      BY <1>7, <2>2 DEF Crash, AllLoops
    <3>3. sourceTasks'[k[1]] = sourceTasks[k[1]] /\ taskRuns'[k[1]] = taskRuns[k[1]]
      BY <1>0, <1>7, <2>2, <3>1 DEF Crash, RecordType
    <3> QED
      BY <1>1, <1>3, <3>2, <3>3, OwnStays DEF Same
  <2> QED
    BY <2>1, <2>2
<1> QED
  BY <1>4, <1>5, <1>6, <1>7

LEMMA HourOwn ==
  ASSUME TasksInv, OwnInv, HourPasses
  PROVE  OwnInv'
<1>1. SUFFICES ASSUME NEW k \in AllLoops PROVE Own(k)'
  BY DEF OwnInv
<1>2. Recorded
  BY DEF Recorded, HourPasses
<1>3. Same(k)
  <2>1. k[1] \in Process /\ RecordType
    BY DEF AllLoops, TasksInv
  <2>2. UNCHANGED loop
    BY DEF HourPasses
  <2> QED
    BY <2>1, <2>2, HourWrites DEF Same, loop
<1> QED
  BY <1>2, <1>3, OwnStays DEF OwnInv

(* Each step of a loop leaves it with what it needs next. *)
LEMMA QuietOwn ==
  ASSUME OneLoop, TasksInv, OwnInv, NEW l \in AllLoops,
         LeaveLoop(l) \/ SyncBacklog(l) \/ (\E t \in Task : Block(l, t) \/ Select(l, t))
  PROVE  OwnInv'
<1>0. RecordType /\ LoopType /\ l[1] \in Process
  BY DEF TasksInv, AllLoops
<1>1. Recorded
  BY DEF Recorded, LeaveLoop, SyncBacklog, Block, Select, history
<1>2. ASSUME NEW place \in PC, Goto(l, place)
      PROVE  pc'[l] = place /\ \A k \in AllLoops \ {l} : pc'[k] = pc[k]
  BY <1>0, <1>2, Moved
<1>3. UNCHANGED <<cur, result>> /\ pc[l] = "idle"
  BY DEF LeaveLoop, SyncBacklog, Block, Select, loop
<1>4. \A k \in AllLoops \ {l} : pc'[k] = pc[k] /\ sel'[k] = sel[k]
  <2>1. CASE LeaveLoop(l)
    BY <1>2, <2>1 DEF LeaveLoop, PC
  <2>2. CASE SyncBacklog(l)
    BY <2>2 DEF SyncBacklog, loop
  <2>3. ASSUME NEW t \in Task, Block(l, t) PROVE \A k \in AllLoops \ {l} : pc'[k] = pc[k] /\ sel'[k] = sel[k]
    BY <2>3 DEF Block, loop
  <2>4. ASSUME NEW t \in Task, Select(l, t) PROVE \A k \in AllLoops \ {l} : pc'[k] = pc[k] /\ sel'[k] = sel[k]
    BY <1>0, <1>2, <2>4 DEF Select, LoopType, PC
  <2> QED
    BY <2>1, <2>2, <2>3, <2>4
<1>5. \A v \in Process \ {l[1]} : /\ \A t \in Task : sourceTasks'[v][t] = sourceTasks[v][t]
                                  /\ \A r \in Run : taskRuns'[v][r] = taskRuns[v][r]
  <2>1. taskRuns' = taskRuns
    BY DEF LeaveLoop, SyncBacklog, Block, Select, memory
  <2>2. CASE SyncBacklog(l)
    BY <1>0, <2>1, <2>2, SyncWrites DEF Rewrites
  <2>3. ASSUME NEW t \in Task, Block(l, t)
        PROVE  \A v \in Process \ {l[1]}, u \in Task : sourceTasks'[v][u] = sourceTasks[v][u]
    <3>1. SetStatus(l[1], t, "blocked") /\ "blocked" \in Status
      BY <2>3 DEF Block, Status
    <3> QED
      BY <1>0, <3>1, StatusWrites DEF OnlyTask
  <2>4. CASE LeaveLoop(l) \/ \E t \in Task : Select(l, t)
    BY <2>1, <2>4 DEF LeaveLoop, Select, memory
  <2> QED
    BY <2>1, <2>2, <2>3, <2>4
<1>6. Own(l)'
  <2>1. CASE LeaveLoop(l)
    BY <1>2, <2>1, OwnIdle DEF LeaveLoop, PC
  <2>2. CASE SyncBacklog(l) \/ \E t \in Task : Block(l, t)
    <3>1. pc'[l] = "idle"
      BY <1>3, <2>2 DEF SyncBacklog, Block, loop
    <3> QED
      BY <3>1, OwnIdle
  <2>3. ASSUME NEW t \in Task, Select(l, t) PROVE Own(l)'
    <3>1. pc'[l] = "context" /\ sel'[l] = t /\ sourceTasks' = sourceTasks
      BY <1>0, <1>2, <2>3 DEF Select, LoopType, PC, memory
    <3>2. sourceTasks[l[1]][t].status \in {"queued", "failed"}
      BY <2>3 DEF Select, Candidates
    <3> QED
      BY <3>1, <3>2 DEF Own
  <2> QED
    BY <2>1, <2>2, <2>3
<1> QED
  BY <1>1, <1>3, <1>4, <1>5, <1>6, OthersSame, OwnStays DEF OwnInv

LEMMA StartRunOwn ==
  ASSUME OneLoop, TasksInv, OwnInv, NEW l \in AllLoops, StartRun(l)
  PROVE  OwnInv'
<1> DEFINE n == started'
<1>0. RecordType /\ LoopType /\ RunInv /\ HistoryType
  BY DEF TasksInv
<1>1. /\ n = started + 1 /\ n \in Run /\ runTask'[n] = sel[l] /\ runTask' \in [Run -> Task \cup {NoTask}]
      /\ \A r \in Run \ {n} : runTask'[r] = runTask[r]
      /\ \A w \in Process, r \in Run : w # l[1] \/ r # n => taskRuns'[w][r] = taskRuns[w][r]
      /\ pc'[l] = "count" /\ cur'[l] = n /\ sel' = sel /\ result' = result
      /\ \A k \in AllLoops \ {l} : pc'[k] = pc[k] /\ cur'[k] = cur[k]
      /\ SetStatus(l[1], sel[l], "selected") /\ sel[l] \in Task /\ l[1] \in Process
      /\ completed' = completed
  BY StartRunWrites
<1>2. "selected" \in Status /\ started \in Nat
  BY <1>0 DEF Status, Active, HistoryType
<1>3. Recorded
  BY <1>1, <1>2 DEF Recorded, Run
<1>4. \A v \in Process \ {l[1]} : /\ \A t \in Task : sourceTasks'[v][t] = sourceTasks[v][t]
                                  /\ \A r \in Run : taskRuns'[v][r] = taskRuns[v][r]
  BY <1>0, <1>1, <1>2, StatusWrites DEF OnlyTask
<1>5. Own(l)'
  <2>1. \A r \in Run : r > n => taskRuns'[l[1]][r] = "over"
    <3>1. \A r \in Run : r > n => r > started /\ r # n
      BY <1>1, <1>2 DEF Run
    <3> QED
      BY <1>0, <1>1, <3>1 DEF RunInv
  <2> HIDE DEF n
  <2> QED
    BY <1>1, <2>1 DEF Own
<1> QED
  BY <1>1, <1>3, <1>4, <1>5, OthersSame, OwnStays DEF OwnInv

LEMMA CountRunOwn ==
  ASSUME OneLoop, TasksInv, OwnInv, NEW l \in AllLoops, CountRun(l)
  PROVE  OwnInv'
<1>0. LoopType /\ RunInv /\ HistoryType
  BY DEF TasksInv
<1>1. /\ l[1] \in Process /\ cur[l] \in Run /\ pc[l] = "count"
      /\ OnlyTask(l[1], sel[l])
      /\ taskRuns'[l[1]][cur[l]] = "fresh"
      /\ \A v \in Process, q \in Run : v # l[1] \/ q # cur[l] => taskRuns'[v][q] = taskRuns[v][q]
      /\ pc'[l] = "work" /\ \A k \in AllLoops \ {l} : pc'[k] = pc[k]
      /\ UNCHANGED <<flags, sel, cur, result, history>>
  BY CountRunWrites
<1>2. Recorded
  BY <1>1 DEF Recorded, history
<1>3. \A v \in Process \ {l[1]} : /\ \A t \in Task : sourceTasks'[v][t] = sourceTasks[v][t]
                                  /\ \A r \in Run : taskRuns'[v][r] = taskRuns[v][r]
  BY <1>1 DEF OnlyTask
<1>4. Own(l)'
  <2>1. runTask[cur[l]] = sel[l] /\ \A r \in Run : r > cur[l] => taskRuns[l[1]][r] = "over"
    BY <1>1 DEF OwnInv, Own
  <2>2. \A r \in Run : r > cur[l] => r # cur[l]
    BY DEF Run
  <2>3. \A r \in Run : r > cur[l] => taskRuns'[l[1]][r] = "over"
    BY <1>1, <2>1, <2>2
  <2> QED
    BY <1>1, <2>1, <2>3 DEF Own, history
<1> QED
  BY <1>1, <1>2, <1>3, <1>4, OthersSame, OwnStays DEF OwnInv

(* A loop that passes has its own run; one that fails takes what is there. *)
LEMMA PassesFindsOwn ==
  ASSUME TasksInv, NEW l \in AllLoops, Own(l), Passes(l)
  PROVE  cur'[l] = cur[l]
<1> DEFINE w == l[1]
           S == {r \in Run : taskRuns'[w][r] # "over"}
<1>1. /\ w \in Process /\ pc[l] = "work" /\ cur[l] \in S /\ cur[l] \in Run
      /\ cur'[l] = Max(S) /\ Max(S) \in S /\ \A r \in S : Max(S) >= r
      /\ \A v \in Process, r \in Run : v # w \/ r # cur[l] => taskRuns'[v][r] = taskRuns[v][r]
  BY PassesWrites
<1>2. \A r \in Run : r > cur[l] => taskRuns[w][r] = "over"
  BY <1>1 DEF Own
<1>3. \A r \in Run : r > cur[l] => taskRuns'[w][r] = "over"
  <2>1. \A r \in Run : r > cur[l] => r # cur[l]
    BY DEF Run
  <2> QED
    BY <1>1, <1>2, <2>1
<1>4. Max(S) \in Run /\ taskRuns'[w][Max(S)] # "over"
  BY <1>1
<1> HIDE DEF S
<1>5. ~(Max(S) > cur[l]) /\ Max(S) >= cur[l]
  BY <1>1, <1>3, <1>4
<1> QED
  BY <1>1, <1>4, <1>5 DEF Run

LEMMA PassesOwn ==
  ASSUME OneLoop, TasksInv, OwnInv, NEW l \in AllLoops, Passes(l)
  PROVE  OwnInv'
<1>1. /\ pc[l] = "work" /\ sourceTasks' = sourceTasks
      /\ \A v \in Process, r \in Run : v # l[1] \/ r # cur[l] => taskRuns'[v][r] = taskRuns[v][r]
      /\ pc'[l] = "commit" /\ sel' = sel /\ result' = result
      /\ \A k \in AllLoops \ {l} : pc'[k] = pc[k] /\ cur'[k] = cur[k]
      /\ UNCHANGED history
  BY PassesWrites
<1>2. cur'[l] = cur[l] /\ runTask[cur[l]] = sel[l]
  BY <1>1, PassesFindsOwn DEF OwnInv, Own
<1>3. Recorded
  BY <1>1 DEF Recorded, history
<1>4. Own(l)'
  BY <1>1, <1>2 DEF Own, history
<1> QED
  BY <1>1, <1>3, <1>4, OthersSame, OwnStays DEF OwnInv

LEMMA FinishingOwn ==
  ASSUME OneLoop, TasksInv, OwnInv, NEW l \in AllLoops,
         Fails(l) \/ Commit(l) \/ FinishRun(l) \/ FinishTask(l) \/ DeadLetter(l)
  PROVE  OwnInv'
<1>0. RecordType /\ LoopType
  BY DEF TasksInv
<1>1. CASE Fails(l)
  <2>1. /\ UNCHANGED <<tables, memory, flags, history>>
        /\ \A k \in AllLoops \ {l} : pc'[k] = pc[k] /\ sel'[k] = sel[k] /\ cur'[k] = cur[k]
                                     /\ result'[k] = result[k]
        /\ pc'[l] = "idle" \/ (pc'[l] = "finishRun" /\ result'[l] = "failed")
    BY <1>1, FailsWrites
  <2>2. Recorded /\ Own(l)'
    BY <2>1 DEF Recorded, Own, history
  <2> QED
    BY <2>1, <2>2, OthersSame, OwnStays DEF OwnInv, memory
<1>2. CASE Commit(l)
  <2>1. /\ pc[l] = "commit" /\ UNCHANGED <<tables, memory, flags, sel, cur>>
        /\ runTask' = runTask /\ pc'[l] = "finishRun"
        /\ \A k \in AllLoops \ {l} : pc'[k] = pc[k] /\ result'[k] = result[k]
        /\ \/ result'[l] = "succeeded" /\ completed' = completed \cup {sel[l]}
           \/ result'[l] = "failed" /\ completed' = completed
    BY <1>2, CommitWrites
  <2>2. runTask[cur[l]] = sel[l]
    BY <2>1 DEF OwnInv, Own
  <2>3. Recorded /\ Own(l)'
    BY <2>1, <2>2 DEF Recorded, Own
  <2> QED
    BY <2>1, <2>3, OthersSame, OwnStays DEF OwnInv, memory
<1>3. CASE FinishRun(l)
  <2>1. /\ pc[l] = "finishRun" /\ sourceTasks' = sourceTasks
        /\ UNCHANGED <<flags, sel, cur, result, history>> /\ pc'[l] = "finishTask"
        /\ \A k \in AllLoops \ {l} : pc'[k] = pc[k]
        /\ \A v \in Process, q \in Run : \/ taskRuns'[v][q] = taskRuns[v][q]
                                         \/ v = l[1] /\ taskRuns'[v][q] = "over"
    BY <1>3, FinishRunWrites
  <2>2. Recorded /\ Own(l)'
    BY <2>1 DEF Recorded, OwnInv, Own, history
  <2> QED
    BY <2>1, <2>2, OthersSame, OwnStays DEF OwnInv
<1>4. CASE FinishTask(l) \/ DeadLetter(l)
  <2>1. /\ UNCHANGED <<runRows, taskRuns, flags, history>> /\ pc'[l] \in {"idle", "deadLetter"}
        /\ \A k \in AllLoops \ {l} : pc'[k] = pc[k] /\ sel'[k] = sel[k] /\ cur'[k] = cur[k]
                                     /\ result'[k] = result[k]
    BY <1>4, FinishTaskWrites, DeadLetterWrites
  <2>2. \A v \in Process \ {l[1]}, u \in Task : sourceTasks'[v][u] = sourceTasks[v][u]
    <3>1. CASE FinishTask(l)
      BY <1>0, <3>1, FinishTaskWrites, StatusWrites DEF OnlyTask
    <3>2. CASE DeadLetter(l)
      BY <1>0, <3>2, DeadLetterWrites, StatusWrites DEF OnlyTask
    <3> QED
      BY <1>4, <3>1, <3>2
  <2>3. Recorded /\ Own(l)'
    BY <2>1, OwnIdle DEF Recorded, history
  <2> QED
    BY <2>1, <2>2, <2>3, OthersSame, OwnStays DEF OwnInv
<1> QED
  BY <1>1, <1>2, <1>3, <1>4

(* Every step keeps what loops find. *)
LEMMA OwnNext ==
  ASSUME OneLoop, TasksInv, OwnInv, [Next]_vars
  PROVE  OwnInv'
<1>1. ASSUME NEW w \in Process, Boot(w) \/ Elect(w) \/ Demote(w) \/ Crash(w) PROVE OwnInv'
  BY <1>1, ProcessOwn
<1>2. ASSUME NEW l \in AllLoops, Step(l) PROVE OwnInv'
  <2>1. CASE LeaveLoop(l) \/ SyncBacklog(l) \/ (\E t \in Task : Block(l, t) \/ Select(l, t))
    BY <2>1, QuietOwn
  <2>2. CASE StartRun(l)
    BY <2>2, StartRunOwn
  <2>3. CASE CountRun(l)
    BY <2>3, CountRunOwn
  <2>4. CASE Passes(l)
    BY <2>4, PassesOwn
  <2>5. CASE Fails(l) \/ Commit(l) \/ FinishRun(l) \/ FinishTask(l) \/ DeadLetter(l)
    BY <2>5, FinishingOwn
  <2> QED
    BY <1>2, <2>1, <2>2, <2>3, <2>4, <2>5 DEF Step
<1>3. CASE HourPasses
  BY <1>3, HourOwn
<1>4. CASE UNCHANGED vars
  BY <1>4 DEF vars, memory, loop, history, OwnInv, Own
<1> QED
  BY <1>1, <1>2, <1>3, <1>4 DEF Next, AllLoops

(* Only the end of a run writes success, of the task whose run completed. *)
LEMMA SuccessNext ==
  ASSUME TasksInv, OwnInv, SuccessIsOwn, [Next]_vars
  PROVE  SuccessIsOwn'
<1>0. RecordType
  BY DEF TasksInv
<1>1. SUFFICES ASSUME NEW t \in Task
               PROVE  /\ rows'[t].status = "succeeded" => rows[t].status = "succeeded" \/ t \in completed
                      /\ completed \subseteq completed'
  BY DEF SuccessIsOwn
<1>2. ASSUME NEW w \in Process, Boot(w) \/ Demote(w) \/ Crash(w)
      PROVE  rows' = rows /\ completed' = completed
  BY <1>2 DEF Boot, Demote, Crash, tables, history
<1>3. ASSUME NEW w \in Process, Elect(w)
      PROVE  (rows'[t].status \in Terminal => rows'[t] = rows[t]) /\ completed' = completed
  <2>1. CASE Recover(w)
    BY <1>0, <1>3, <2>1, RecoverWrites, RewritesCopy DEF Elect
  <2>2. CASE UNCHANGED <<tables, memory>>
    BY <1>3, <2>2 DEF Elect, tables
  <2> QED
    BY <1>3, <2>1, <2>2 DEF Elect
<1>4. ASSUME NEW l \in AllLoops, SyncBacklog(l)
      PROVE  (rows'[t].status \in Terminal => rows'[t] = rows[t]) /\ completed' = completed
  <2>1. l[1] \in Process
    BY DEF AllLoops
  <2> QED
    BY <1>0, <1>4, <2>1, SyncWrites, RewritesCopy DEF SyncBacklog, history
<1>5. ASSUME NEW l \in AllLoops, NEW u \in Task, Block(l, u)
      PROVE  (rows'[t] = rows[t] \/ rows'[t].status = "blocked") /\ completed' = completed
  <2>1. l[1] \in Process /\ "blocked" \in Status
    BY DEF AllLoops, Status
  <2> QED
    BY <1>0, <1>5, <2>1, StatusCopies DEF Block, history
<1>6. ASSUME NEW l \in AllLoops,
             LeaveLoop(l) \/ (\E u \in Task : Select(l, u)) \/ Passes(l) \/ Fails(l) \/ FinishRun(l)
      PROVE  rows' = rows /\ completed' = completed
  <2>1. CASE LeaveLoop(l) \/ (\E u \in Task : Select(l, u)) \/ Fails(l)
    BY <2>1 DEF LeaveLoop, Select, Fails, tables, history
  <2>2. CASE Passes(l) \/ FinishRun(l)
    BY <2>2, PassesWrites, FinishRunWrites DEF history
  <2> QED
    BY <1>6, <2>1, <2>2
<1>7. ASSUME NEW l \in AllLoops, StartRun(l)
      PROVE  (rows'[t] = rows[t] \/ rows'[t].status = "selected") /\ completed' = completed
  <2>1. "selected" \in Status
    BY DEF Status, Active
  <2> QED
    BY <1>0, <1>7, <2>1, StartRunWrites, StatusCopies
<1>8. ASSUME NEW l \in AllLoops, CountRun(l)
      PROVE  (rows'[t] = rows[t] \/ rows'[t].status = "in_progress") /\ completed' = completed
  BY <1>8, CountRunWrites DEF OnlyTask, history
<1>9. ASSUME NEW l \in AllLoops, Commit(l)
      PROVE  rows' = rows /\ completed \subseteq completed'
  BY <1>9, CommitWrites DEF tables
<1>10. ASSUME NEW l \in AllLoops, FinishTask(l)
       PROVE  /\ rows'[t].status = "succeeded" => rows[t].status = "succeeded" \/ t \in completed
              /\ completed' = completed
  <2>1. /\ pc[l] = "finishTask" /\ runTask[cur[l]] \in Task /\ l[1] \in Process
        /\ result[l] \in Status /\ SetStatus(l[1], runTask[cur[l]], result[l])
        /\ completed' = completed
    BY <1>10, FinishTaskWrites DEF history
  <2>2. rows'[t] = rows[t] \/ (t = runTask[cur[l]] /\ rows'[t].status = result[l])
    BY <1>0, <2>1, StatusCopies
  <2>3. result[l] = "succeeded" => runTask[cur[l]] \in completed
    BY <2>1 DEF OwnInv, Own
  <2> QED
    BY <2>1, <2>2, <2>3
<1>11. ASSUME NEW l \in AllLoops, DeadLetter(l)
       PROVE  (rows'[t] = rows[t] \/ rows'[t].status = "discarded") /\ completed' = completed
  <2>1. completed' = completed
    BY <1>11 DEF DeadLetter, history
  <2> QED
    BY <1>0, <1>11, <2>1, DeadLetterWrites, StatusCopies
<1>12. CASE HourPasses
  BY <1>0, <1>12, HourWrites DEF HourPasses
<1>13. CASE UNCHANGED vars
  BY <1>13 DEF vars, tables, history
<1>14. ASSUME NEW l \in AllLoops, Step(l)
       PROVE  /\ rows'[t].status = "succeeded" => rows[t].status = "succeeded" \/ t \in completed
              /\ completed \subseteq completed'
  BY <1>4, <1>5, <1>6, <1>7, <1>8, <1>9, <1>10, <1>11, <1>14 DEF Step, Terminal
<1> QED
  BY <1>2, <1>3, <1>12, <1>13, <1>14 DEF Next, AllLoops, Terminal

(* A loop that works finds its own run when it looks for the latest active one
   (getCurrentRun). *)
THEOREM OwnInvariant == ASSUME OneLoop PROVE Spec => []OwnInv
<1>1. Init => OwnInv
  BY SuccessInit
<1>2. TasksInv /\ OwnInv /\ [Next]_vars => OwnInv'
  BY OwnNext
<1> QED
  BY <1>1, <1>2, TasksInvariant, PTL DEF Spec

(* While a process runs one copy of the loop, no row says succeeded of a task
   without a run that was verified and passed the commit step, though the run to
   finish is looked up again (completeSuccessfulRun). *)
THEOREM SuccessIsReal == ASSUME OneLoop PROVE Spec => []SuccessIsOwn
<1>1. Init => SuccessIsOwn
  BY SuccessInit
<1>2. TasksInv /\ OwnInv /\ SuccessIsOwn /\ [Next]_vars => SuccessIsOwn'
  BY SuccessNext
<1> QED
  BY <1>1, <1>2, OwnInvariant, TasksInvariant, PTL DEF Spec

-----------------------------------------------------------------------------
\* A task that memory would start again: it is not finished, and no loop has a run of it.
Held(t) == \E l \in AllLoops : pc[l] \in Holding /\ runTask[cur[l]] = t
Ready(w, t) == sourceTasks[w][t].status \notin Terminal /\ ~Held(t)
Uncounted(t) == \E l \in AllLoops : pc[l] = "count" /\ sel[l] = t

\* What crashes may have cost in runs: as memory knows it, all those of a life;
\* as the rows know it, the one that was in the hands of the loop.
Quota(kind) == IF kind = "memory" THEN MaxFailures * crashes ELSE crashes
Kinds == {"memory", "rows"}

\* The limits that the memory of a live process sets.
Limits(w, kind) ==
  \A t \in Task :
    /\ Attempts(t) <= Quota(kind) + MaxFailures
    /\ Ready(w, t) => Attempts(t) < Quota(kind) + MaxFailures
    /\ Attempts(t) <= Quota(kind) + sourceTasks[w][t].runCount + (IF Uncounted(t) THEN 1 ELSE 0)
    /\ sourceTasks[w][t].status = "none" => Attempts(t) <= Quota(kind)

\* The limits that the rows set to a process that is yet to load them.
RowsLimit ==
  \A t \in Task :
    /\ Attempts(t) <= Quota("rows") + MaxFailures
    /\ rows[t].status \notin Terminal => Attempts(t) < Quota("rows") + MaxFailures
    /\ Attempts(t) <= Quota("rows") + rows[t].runCount
    /\ rows[t].status = "none" => Attempts(t) <= Quota("rows")

\* Nobody but w was ever elected: whatever the database does, and if it fails never.
LifeInv ==
  \A w \in Process : leaders \subseteq {w} =>
    /\ booted[w] => Limits(w, "memory")
    /\ ~booted[w] => \A t \in Task : Attempts(t) <= Quota("memory")
RowsInv ==
  \A w \in Process : leaders \subseteq {w} =>
    /\ booted[w] => sourceTasks[w] = rows /\ Limits(w, "rows")
    /\ ~booted[w] => RowsLimit
Faultless == lostWrites = 0 /\ failedLoads = 0
RetryInv == LifeInv /\ (Faultless => RowsInv)

(* A crash adds the runs of a life, or one run, to what crashes cost. *)
LEMMA QuotaGrows ==
  ASSUME TasksInv
  PROVE  /\ \A kind \in Kinds : Quota(kind) \in Nat
         /\ MaxFailures \in Nat \ {0} /\ Quota("rows") = crashes /\ crashes \in Nat
         /\ Quota("memory") + MaxFailures = MaxFailures * (crashes + 1)
         /\ crashes' = crashes => \A kind \in Kinds : Quota(kind)' = Quota(kind)
         /\ crashes' = crashes + 1 => /\ Quota("memory")' = Quota("memory") + MaxFailures
                                      /\ Quota("rows")' = Quota("rows") + 1
<1>1. MaxFailures \in Nat \ {0} /\ crashes \in Nat
  BY TasksAssumption DEF TasksInv, HistoryType
<1>2. \A m, n \in Nat : m * n \in Nat /\ m * (n + 1) = m * n + m
  OBVIOUS
<1>3. MaxFailures * crashes \in Nat
      /\ MaxFailures * (crashes + 1) = MaxFailures * crashes + MaxFailures
  BY <1>1, <1>2
<1> QED
  BY <1>1, <1>3 DEF Quota, Kinds

(* The numbers the limits are about. *)
LEMMA RetryNumbers ==
  ASSUME TasksInv, NEW w \in Process, NEW t \in Task
  PROVE  /\ Attempts(t) = Cardinality(Begun(t)) /\ Attempts(t) \in Nat
         /\ rows[t].runCount \in Nat /\ sourceTasks[w][t].runCount \in Nat
<1>1. Attempts(t) = Cardinality(Begun(t)) /\ Attempts(t) \in Nat
  <2>1. Attempts(t) = Cardinality(Begun(t))
    BY DEF Attempts, Begun
  <2> QED
    BY <2>1, BegunFinite
<1>2. rows[t].runCount \in Nat /\ sourceTasks[w][t].runCount \in Nat
  BY TasksAssumption DEF TasksInv, RecordType, Record
<1> QED
  BY <1>1, <1>2

(* No run was started at first. *)
LEMMA RetryInit == Init => RetryInv
<1> SUFFICES ASSUME Init PROVE RetryInv
  OBVIOUS
<1>1. \A t \in Task : Attempts(t) = 0
  <2> TAKE t \in Task
  <2>1. {r \in Run : runTask[r] = t} = {}
    BY TasksAssumption DEF Init
  <2> QED
    BY <2>1, FS_EmptySet DEF Attempts
<1>2. TasksInv
  BY TasksInit
<1>3. Quota("memory") \in Nat /\ Quota("rows") \in Nat /\ MaxFailures \in Nat \ {0}
  BY <1>2, QuotaGrows DEF Kinds
<1>4. \A w \in Process : ~booted[w]
  BY DEF Init
<1>5. LifeInv
  BY <1>1, <1>3, <1>4 DEF LifeInv
<1>6. RowsLimit
  <2>1. \A t \in Task : rows[t].runCount = 0
    BY DEF Init, NoTasks, Absent
  <2> QED
    BY <1>1, <1>3, <2>1 DEF RowsLimit
<1> QED
  BY <1>4, <1>5, <1>6 DEF RetryInv, RowsInv

(* With one leader and one copy of its loop, that loop is the only one. *)
LEMMA OneAtWork ==
  ASSUME OneLoop, TasksInv, NEW w \in Process, leaders \subseteq {w},
         NEW l \in AllLoops, pc[l] # "off"
  PROVE  /\ \A k \in AllLoops \ {l} : pc[k] = "off"
         /\ l[1] = w /\ booted[w]
         /\ \A t : Held(t) <=> pc[l] \in Holding /\ runTask[cur[l]] = t
         /\ \A t : Uncounted(t) <=> pc[l] = "count" /\ sel[l] = t
<1>0. LeadInv
  BY DEF TasksInv
<1>1. l[1] = w /\ booted[w]
  BY <1>0 DEF LeadInv
<1>2. \A k \in AllLoops \ {l} : pc[k] = "off"
  BY <1>0, <1>1, LoopsApart DEF LeadInv
<1>3. \A t : Held(t) <=> pc[l] \in Holding /\ runTask[cur[l]] = t
  BY <1>2 DEF Held, Holding
<1>4. \A t : Uncounted(t) <=> pc[l] = "count" /\ sel[l] = t
  BY <1>2 DEF Uncounted
<1> QED
  BY <1>1, <1>2, <1>3, <1>4

\* A step that starts no run, and after which memory may start a task again only
\* if it could before, or the task has not had its runs yet.
Spares(w) ==
  /\ runTask' = runTask /\ crashes' \in {crashes, crashes + 1}
  /\ \A t \in Task :
       /\ Ready(w, t)' => \/ Ready(w, t) \/ sourceTasks[w][t].status = "none"
                          \/ ~Uncounted(t) /\ sourceTasks[w][t].runCount < MaxFailures
       /\ \/ sourceTasks'[w][t].runCount >= sourceTasks[w][t].runCount
          \/ sourceTasks[w][t].status = "none"
       /\ Uncounted(t) => \/ Uncounted(t)'
                          \/ sourceTasks'[w][t].runCount >= sourceTasks[w][t].runCount + 1
       /\ sourceTasks'[w][t].status = "none" => sourceTasks[w][t].status = "none"

(* It keeps the limits. *)
LEMMA SparesKeeps ==
  ASSUME TasksInv, TasksInv', NEW w \in Process, NEW kind \in Kinds, Limits(w, kind), Spares(w)
  PROVE  Limits(w, kind)'
<1> DEFINE q == Quota(kind)
           p == Quota(kind)'
<1> SUFFICES ASSUME NEW t \in Task
             PROVE  /\ Attempts(t)' <= p + MaxFailures
                    /\ Ready(w, t)' => Attempts(t)' < p + MaxFailures
                    /\ Attempts(t)' <= p + sourceTasks'[w][t].runCount
                                         + (IF Uncounted(t)' THEN 1 ELSE 0)
                    /\ sourceTasks'[w][t].status = "none" => Attempts(t)' <= p
  BY DEF Limits
<1>1. Attempts(t)' = Attempts(t)
  BY DEF Spares, Attempts
<1>2. q \in Nat /\ p \in Nat /\ p >= q /\ MaxFailures \in Nat \ {0}
  <2>1. crashes' = crashes \/ crashes' = crashes + 1
    BY DEF Spares
  <2> QED
    BY <2>1, QuotaGrows DEF Kinds
<1>3. /\ Attempts(t) \in Nat /\ sourceTasks[w][t].runCount \in Nat
      /\ sourceTasks'[w][t].runCount \in Nat
  <2>1. sourceTasks'[w][t].runCount \in Nat
    BY TasksAssumption DEF TasksInv, RecordType, Record
  <2> QED
    BY <2>1, RetryNumbers
<1>4. /\ Attempts(t) <= q + MaxFailures
      /\ Ready(w, t) => Attempts(t) < q + MaxFailures
      /\ sourceTasks[w][t].status = "none" => Attempts(t) <= q
  BY DEF Limits
<1>5. Attempts(t) <= q + sourceTasks[w][t].runCount + (IF Uncounted(t) THEN 1 ELSE 0)
  BY DEF Limits
<1> HIDE DEF q, p
<1>6. Attempts(t) <= p + sourceTasks'[w][t].runCount + (IF Uncounted(t)' THEN 1 ELSE 0)
  <2>1. \/ sourceTasks'[w][t].runCount >= sourceTasks[w][t].runCount
        \/ sourceTasks[w][t].status = "none"
    BY DEF Spares
  <2>2. Uncounted(t) => \/ Uncounted(t)'
                        \/ sourceTasks'[w][t].runCount >= sourceTasks[w][t].runCount + 1
    BY DEF Spares
  <2>3. CASE sourceTasks[w][t].status = "none"
    BY <1>2, <1>3, <1>4, <2>3
  <2>4. CASE sourceTasks[w][t].status # "none" /\ Uncounted(t)
    BY <1>2, <1>3, <1>5, <2>1, <2>2, <2>4
  <2>5. CASE sourceTasks[w][t].status # "none" /\ ~Uncounted(t)
    BY <1>2, <1>3, <1>5, <2>1, <2>5
  <2> QED
    BY <2>3, <2>4, <2>5
<1>7. Ready(w, t)' => Attempts(t) < p + MaxFailures
  <2>1. CASE Ready(w, t)
    BY <1>2, <1>3, <1>4, <2>1
  <2>2. CASE sourceTasks[w][t].status = "none"
    BY <1>2, <1>3, <1>4, <2>2
  <2>3. CASE ~Uncounted(t) /\ sourceTasks[w][t].runCount < MaxFailures
    BY <1>2, <1>3, <1>5, <2>3
  <2> QED
    BY <2>1, <2>2, <2>3 DEF Spares
<1>8. sourceTasks'[w][t].status = "none" => Attempts(t) <= q
  BY <1>4 DEF Spares
<1> QED
  BY <1>1, <1>2, <1>3, <1>4, <1>6, <1>7, <1>8

(* A task that may be started after a step of the loop could be before, unless
   the loop gave it up. *)
LEMMA ReadyStays ==
  ASSUME OneLoop, TasksInv, NEW w \in Process, leaders \subseteq {w},
         NEW l \in AllLoops, pc[l] # "off", NEW t \in Task,
         \/ pc[l] \notin Holding
         \/ pc'[l] \in Holding /\ cur'[l] = cur[l] /\ runTask' = runTask,
         sourceTasks[w][t].status \in Terminal => sourceTasks'[w][t].status \in Terminal
  PROVE  Ready(w, t)' => Ready(w, t)
<1> SUFFICES ASSUME Ready(w, t)', Held(t) PROVE FALSE
  BY DEF Ready
<1>1. pc[l] \in Holding /\ runTask[cur[l]] = t
  BY OneAtWork
<1>2. Held(t)'
  BY <1>1 DEF Held
<1> QED
  BY <1>2 DEF Ready

(* The loop begins an iteration. *)
LEMMA QuietSpares ==
  ASSUME OneLoop, TasksInv, TasksInv', NEW w \in Process, leaders \subseteq {w}, NEW l \in AllLoops,
         LeaveLoop(l) \/ SyncBacklog(l) \/ (\E t \in Task : Block(l, t) \/ Select(l, t))
  PROVE  Spares(w)
<1>0. RecordType
  BY DEF TasksInv
<1>1. pc[l] = "idle" /\ runTask' = runTask /\ crashes' = crashes
  BY DEF LeaveLoop, SyncBacklog, Block, Select, history
<1>2. l[1] = w /\ \A t : ~Uncounted(t)
  BY <1>1, OneAtWork
<1>3. \A t \in Task : sourceTasks[w][t].runCount \in Nat
  BY <1>0, TasksAssumption DEF RecordType, Record
<1>4. \A t \in Task :
        /\ sourceTasks[w][t].status \in Terminal => sourceTasks'[w][t].status \in Terminal
        /\ \/ sourceTasks'[w][t].runCount = sourceTasks[w][t].runCount
           \/ sourceTasks[w][t].status = "none"
        /\ sourceTasks'[w][t].status = "none" => sourceTasks[w][t].status = "none"
  <2>1. CASE SyncBacklog(l)
    <3>1. Rewrites(w)
      BY <1>0, <1>2, <2>1, SyncWrites
    <3> QED
      BY <3>1 DEF Rewrites
  <2>2. ASSUME NEW u \in Task, Block(l, u), NEW t \in Task
        PROVE  /\ sourceTasks[w][t].status \in Terminal => sourceTasks'[w][t].status \in Terminal
               /\ sourceTasks'[w][t].runCount = sourceTasks[w][t].runCount
               /\ sourceTasks'[w][t].status = "none" => sourceTasks[w][t].status = "none"
    <3>1. /\ SetStatus(w, u, "blocked") /\ "blocked" \in Status
          /\ sourceTasks[w][u].status \in {"queued", "failed"}
      BY <1>2, <2>2 DEF Block, Status, Candidates
    <3>2. /\ OnlyTask(w, u) /\ sourceTasks'[w][u].status = "blocked"
          /\ sourceTasks'[w][u].runCount = sourceTasks[w][u].runCount
      BY <1>0, <3>1, StatusWrites
    <3>3. CASE t = u
      BY <3>1, <3>2, <3>3 DEF Terminal
    <3>4. CASE t # u
      BY <3>2, <3>4 DEF OnlyTask
    <3> QED
      BY <3>3, <3>4
  <2>3. CASE LeaveLoop(l) \/ \E t \in Task : Select(l, t)
    BY <2>3 DEF LeaveLoop, Select, memory
  <2> QED
    BY <2>1, <2>2, <2>3
<1>5. \A t \in Task : Ready(w, t)' => Ready(w, t)
  BY <1>1, <1>4, ReadyStays DEF Holding
<1> QED
  BY <1>1, <1>2, <1>3, <1>4, <1>5 DEF Spares

(* The run that is counted is the one that was not. *)
LEMMA CountRunSpares ==
  ASSUME OneLoop, TasksInv, TasksInv', NEW w \in Process, leaders \subseteq {w}, NEW l \in AllLoops,
         CountRun(l)
  PROVE  Spares(w)
<1> DEFINE s == sel[l]
<1>0. RecordType
  BY DEF TasksInv
<1>1. pc[l] = "count"
  BY DEF CountRun
<1>2. l[1] = w /\ \A t : Uncounted(t) <=> s = t
  BY <1>1, OneAtWork
<1>3. /\ s \in Task /\ runTask[cur[l]] = s /\ OnlyTask(w, s)
      /\ sourceTasks'[w][s].status = "in_progress"
      /\ sourceTasks'[w][s].runCount = sourceTasks[w][s].runCount + 1
      /\ pc'[l] = "work" /\ cur' = cur /\ runTask' = runTask /\ crashes' = crashes
  BY <1>2, CountRunWrites DEF history
<1> HIDE DEF s
<1>4. \A t \in Task \ {s} : sourceTasks'[w][t] = sourceTasks[w][t]
  BY <1>3 DEF OnlyTask
<1>5. \A t \in Task : sourceTasks[w][t].runCount \in Nat
  BY <1>0, TasksAssumption DEF RecordType, Record
<1>6. \A t \in Task : Ready(w, t)' => Ready(w, t)
  <2> SUFFICES ASSUME NEW t \in Task, Ready(w, t)' PROVE Ready(w, t)
    OBVIOUS
  <2>1. t # s
    BY <1>3 DEF Ready, Held, Holding
  <2>2. sourceTasks'[w][t] = sourceTasks[w][t]
    BY <1>4, <2>1
  <2> QED
    BY <1>1, <1>3, <2>2, ReadyStays DEF Holding
<1> QED
  BY <1>2, <1>3, <1>4, <1>5, <1>6 DEF Spares

(* While a loop works, and until it has written the result, its task is held. *)
LEMMA WorkSpares ==
  ASSUME OneLoop, TasksInv, TasksInv', OwnInv, NEW w \in Process, leaders \subseteq {w},
         NEW l \in AllLoops, Passes(l) \/ Fails(l) \/ Commit(l) \/ FinishRun(l)
  PROVE  Spares(w)
<1>0. RecordType /\ LoopType
  BY DEF TasksInv
<1>1. /\ pc[l] \in {"context", "work", "commit", "finishRun"}
      /\ sourceTasks' = sourceTasks /\ runTask' = runTask /\ crashes' = crashes
  BY DEF Passes, Fails, Commit, FinishRun, tables, memory, history
<1>2. \/ pc[l] \notin Holding
      \/ pc'[l] \in Holding /\ cur'[l] = cur[l]
  <2>1. CASE Passes(l)
    BY <2>1, PassesWrites, PassesFindsOwn DEF Holding, OwnInv
  <2>2. CASE Fails(l)
    <3>1. CASE pc[l] = "context"
      BY <3>1 DEF Holding
    <3>2. CASE pc[l] = "work"
      <4> DEFINE v == l[1]
      <4>1. /\ cur[l] \in 1 .. started /\ started \in 0 .. MaxRuns /\ MaxRuns \in Nat
            /\ \A r \in Run : r > cur[l] => taskRuns[v][r] = "over"
            /\ taskRuns[v][cur[l]] # "over"
        BY <3>2, TasksAssumption DEF TasksInv, HoldInv, HistoryType, Holding, OwnInv, Own
      <4>2. cur[l] \in Run
        BY <4>1 DEF Run
      <4>3. /\ pc'[l] = "finishRun" /\ cur'[l] \in Run /\ taskRuns[v][cur'[l]] # "over"
            /\ \A r \in Run : r > cur'[l] => taskRuns[v][r] = "over"
        BY <2>2, <4>1, <4>2, FailsWrites
      <4>4. cur'[l] = cur[l]
        <5>1. ~(cur'[l] > cur[l]) /\ ~(cur[l] > cur'[l])
          BY <4>1, <4>2, <4>3
        <5> QED
          BY <4>2, <4>3, <5>1 DEF Run
      <4> QED
        BY <4>3, <4>4 DEF Holding
    <3> QED
      BY <2>2, <3>1, <3>2, FailsWrites
  <2>3. CASE Commit(l)
    BY <2>3, CommitWrites DEF Holding
  <2>4. CASE FinishRun(l)
    BY <2>4, FinishRunWrites DEF Holding
  <2> QED
    BY <2>1, <2>2, <2>3, <2>4
<1>3. \A t \in Task : Ready(w, t)' => Ready(w, t)
  BY <1>1, <1>2, ReadyStays
<1>4. \A t \in Task : sourceTasks'[w][t].runCount >= sourceTasks[w][t].runCount
  BY <1>0, <1>1, TasksAssumption DEF RecordType, Record
<1>5. \A t \in Task : ~Uncounted(t)
  BY <1>1, OneAtWork
<1> QED
  BY <1>1, <1>3, <1>4, <1>5 DEF Spares

(* After a failure the task is held until the count was compared with the limit. *)
LEMMA FinishTaskSpares ==
  ASSUME OneLoop, TasksInv, TasksInv', OwnInv, NEW w \in Process, leaders \subseteq {w},
         NEW l \in AllLoops, FinishTask(l)
  PROVE  Spares(w)
<1> DEFINE s == runTask[cur[l]]
<1>0. RecordType
  BY DEF TasksInv
<1>1. pc[l] = "finishTask"
  BY DEF FinishTask
<1>2. l[1] = w /\ \A t : ~Uncounted(t) /\ (Held(t) => t = s)
  BY <1>1, OneAtWork
<1>3. /\ s \in Task /\ result[l] \in Status /\ result[l] \in {"none", "failed", "succeeded"}
      /\ SetStatus(w, s, result[l]) /\ runTask' = runTask /\ crashes' = crashes
      /\ result[l] # "failed" \/ (pc'[l] = "deadLetter" /\ cur' = cur)
  BY <1>2, FinishTaskWrites DEF history
<1>4. result[l] # "none"
  BY <1>1 DEF OwnInv, Own
<1> HIDE DEF s
<1>5. /\ \A t \in Task \ {s} : sourceTasks'[w][t] = sourceTasks[w][t]
      /\ sourceTasks'[w][s].runCount = sourceTasks[w][s].runCount
      /\ \/ sourceTasks[w][s].status = "none" /\ sourceTasks' = sourceTasks
         \/ sourceTasks'[w][s].status = result[l]
  BY <1>0, <1>3, StatusWrites DEF OnlyTask
<1>6. ASSUME NEW t \in Task, Ready(w, t)'
      PROVE  Ready(w, t) \/ sourceTasks[w][t].status = "none"
  <2>1. CASE t # s
    BY <1>2, <1>5, <1>6, <2>1 DEF Ready
  <2>2. CASE t = s /\ sourceTasks'[w][s].status = result[l]
    <3>1. pc'[l] = "deadLetter" /\ cur' = cur
      BY <1>3, <1>4, <1>6, <2>2 DEF Ready, Terminal
    <3>2. Held(t)'
      BY <1>3, <2>2, <3>1 DEF Held, Holding, s
    <3> QED
      BY <1>6, <3>2 DEF Ready
  <2> QED
    BY <1>5, <2>1, <2>2
<1>7. \A t \in Task : sourceTasks'[w][t].runCount >= sourceTasks[w][t].runCount
  <2>1. \A t \in Task : sourceTasks[w][t].runCount \in Nat
    BY <1>0, TasksAssumption DEF RecordType, Record
  <2> QED
    BY <1>5, <2>1
<1>8. \A t \in Task : sourceTasks'[w][t].status = "none" => sourceTasks[w][t].status = "none"
  BY <1>3, <1>4, <1>5
<1> QED
  BY <1>2, <1>3, <1>6, <1>7, <1>8 DEF Spares

(* A task that is not given up has not had its runs. *)
LEMMA DeadLetterSpares ==
  ASSUME OneLoop, TasksInv, TasksInv', NEW w \in Process, leaders \subseteq {w}, NEW l \in AllLoops,
         DeadLetter(l)
  PROVE  Spares(w)
<1> DEFINE s == runTask[cur[l]]
<1>0. RecordType
  BY DEF TasksInv
<1>1. pc[l] = "deadLetter"
  BY DEF DeadLetter
<1>2. l[1] = w /\ \A t : ~Uncounted(t) /\ (Held(t) => t = s)
  BY <1>1, OneAtWork
<1>3. /\ s \in Task /\ "discarded" \in Status /\ runTask' = runTask /\ crashes' = crashes
      /\ \/ sourceTasks[w][s].runCount >= MaxFailures /\ SetStatus(w, s, "discarded")
         \/ ~(sourceTasks[w][s].runCount >= MaxFailures) /\ sourceTasks' = sourceTasks
  BY <1>2, DeadLetterWrites DEF history
<1> HIDE DEF s
<1>4. \A t \in Task : sourceTasks[w][t].runCount \in Nat /\ MaxFailures \in Nat
  BY <1>0, TasksAssumption DEF RecordType, Record
<1>5. /\ \A t \in Task \ {s} : sourceTasks'[w][t] = sourceTasks[w][t]
      /\ sourceTasks'[w][s].runCount = sourceTasks[w][s].runCount
      /\ \/ /\ sourceTasks' = sourceTasks
            /\ sourceTasks[w][s].status = "none" \/ ~(sourceTasks[w][s].runCount >= MaxFailures)
         \/ sourceTasks'[w][s].status = "discarded"
  <2>1. CASE SetStatus(w, s, "discarded")
    BY <1>0, <1>3, <2>1, StatusWrites DEF OnlyTask
  <2>2. CASE ~(sourceTasks[w][s].runCount >= MaxFailures) /\ sourceTasks' = sourceTasks
    BY <2>2
  <2> QED
    BY <1>3, <2>1, <2>2
<1>6. ASSUME NEW t \in Task, Ready(w, t)'
      PROVE  \/ Ready(w, t) \/ sourceTasks[w][t].status = "none"
             \/ sourceTasks[w][t].runCount < MaxFailures
  <2>1. CASE t # s
    BY <1>2, <1>5, <1>6, <2>1 DEF Ready
  <2>2. CASE t = s
    BY <1>4, <1>5, <1>6, <2>2 DEF Ready, Terminal
  <2> QED
    BY <2>1, <2>2
<1>7. \A t \in Task : sourceTasks'[w][t].runCount >= sourceTasks[w][t].runCount
  BY <1>4, <1>5
<1>8. \A t \in Task : sourceTasks'[w][t].status = "none" => sourceTasks[w][t].status = "none"
  BY <1>5
<1> QED
  BY <1>2, <1>3, <1>6, <1>7, <1>8 DEF Spares

(* Who was elected stays elected in the history. *)
LEMMA LeadersGrow == [Next]_vars => leaders \subseteq leaders'
<1> SUFFICES ASSUME [Next]_vars PROVE leaders \subseteq leaders'
  OBVIOUS
<1>1. ASSUME NEW l \in AllLoops, Step(l) PROVE leaders' = leaders
  BY <1>1 DEF Step, LeaveLoop, SyncBacklog, Block, Select, StartRun, CountRun, Passes, Fails,
              Commit, FinishRun, FinishTask, DeadLetter, history
<1>2. ASSUME NEW w \in Process, Boot(w) \/ Elect(w) \/ Demote(w) \/ Crash(w)
      PROVE  leaders \subseteq leaders'
  BY <1>2 DEF Boot, Elect, Demote, Crash, history
<1> QED
  BY <1>1, <1>2 DEF Next, HourPasses, vars, history, AllLoops

(* So does a step that changes neither the loops at work nor what memory counts. *)
LEMMA StillSpares ==
  ASSUME TasksInv, NEW w \in Process, runTask' = runTask, crashes' \in {crashes, crashes + 1},
         \A l \in AllLoops : \/ pc'[l] = pc[l] /\ cur'[l] = cur[l] /\ sel'[l] = sel[l]
                             \/ pc[l] = "off" /\ pc'[l] \in {"off", "idle"},
         \A t \in Task :
           /\ sourceTasks[w][t].status \in Terminal => sourceTasks'[w][t].status \in Terminal
           /\ \/ sourceTasks'[w][t].runCount = sourceTasks[w][t].runCount
              \/ sourceTasks[w][t].status = "none"
           /\ sourceTasks'[w][t].status = "none" => sourceTasks[w][t].status = "none"
  PROVE  Spares(w)
<1>1. \A t \in Task : sourceTasks[w][t].runCount \in Nat
  BY TasksAssumption DEF TasksInv, RecordType, Record
<1>2. \A t \in Task : Held(t) => Held(t)'
  BY DEF Held, Holding
<1>3. \A t \in Task : Uncounted(t) => Uncounted(t)'
  BY DEF Uncounted
<1>4. \A t \in Task : Ready(w, t)' => Ready(w, t)
  BY <1>2 DEF Ready
<1> QED
  BY <1>1, <1>3, <1>4 DEF Spares

LEMMA ElectSpares ==
  ASSUME TasksInv, NEW w \in Process, Elect(w)
  PROVE  Spares(w)
<1>0. RecordType /\ LoopType
  BY DEF TasksInv
<1>1. PICK l \in {w} \X Loop : pc[l] = "off" /\ Goto(l, "idle")
  BY DEF Elect
<1>2. l \in AllLoops /\ sel' = sel /\ cur' = cur /\ runTask' = runTask /\ crashes' = crashes
  BY DEF Elect, AllLoops
<1>3. pc'[l] = "idle" /\ \A k \in AllLoops \ {l} : pc'[k] = pc[k]
  BY <1>0, <1>1, <1>2 DEF LoopType, Goto
<1>4. \A k \in AllLoops : \/ pc'[k] = pc[k] /\ cur'[k] = cur[k] /\ sel'[k] = sel[k]
                          \/ pc[k] = "off" /\ pc'[k] \in {"off", "idle"}
  BY <1>1, <1>2, <1>3
<1>5. \A t \in Task :
        /\ sourceTasks[w][t].status \in Terminal => sourceTasks'[w][t].status \in Terminal
        /\ \/ sourceTasks'[w][t].runCount = sourceTasks[w][t].runCount
           \/ sourceTasks[w][t].status = "none"
        /\ sourceTasks'[w][t].status = "none" => sourceTasks[w][t].status = "none"
  <2>1. CASE Recover(w)
    <3>1. Rewrites(w)
      BY <1>0, <2>1, RecoverWrites
    <3> QED
      BY <3>1 DEF Rewrites
  <2>2. CASE UNCHANGED memory
    BY <2>2 DEF memory
  <2> QED
    BY <2>1, <2>2 DEF Elect
<1> QED
  BY <1>2, <1>4, <1>5, StillSpares

LEMMA HourSpares ==
  ASSUME TasksInv, NEW w \in Process, HourPasses
  PROVE  Spares(w)
<1>1. UNCHANGED <<pc, sel, cur, runTask, crashes>>
  BY DEF HourPasses, loop
<1>2. \A t \in Task : /\ sourceTasks'[w][t].status = sourceTasks[w][t].status
                      /\ sourceTasks'[w][t].runCount = sourceTasks[w][t].runCount
  BY HourWrites DEF TasksInv
<1> QED
  BY <1>1, <1>2, StillSpares

(* What happens to a process that was never elected, and the fall of the flag. *)
LEMMA OthersSpare ==
  ASSUME TasksInv, NEW w \in Process, leaders \subseteq {w}, NEW v \in Process,
         Demote(v) \/ (v # w /\ (Boot(v) \/ Crash(v)))
  PROVE  Spares(w)
<1>0. RecordType /\ LoopType /\ LeadInv /\ HistoryType
  BY DEF TasksInv
<1>1. runTask' = runTask /\ crashes' \in {crashes, crashes + 1}
  BY DEF Demote, Boot, Crash, history
<1>2. sourceTasks'[w] = sourceTasks[w]
  BY <1>0 DEF Demote, Boot, Crash, memory, RecordType
<1>3. \A l \in AllLoops : \/ pc'[l] = pc[l] /\ cur'[l] = cur[l] /\ sel'[l] = sel[l]
                          \/ pc[l] = "off" /\ pc'[l] \in {"off", "idle"}
  <2>1. CASE Demote(v) \/ Boot(v)
    BY <2>1 DEF Demote, Boot, loop
  <2>2. CASE v # w /\ Crash(v)
    <3> TAKE l \in AllLoops
    <3>1. CASE l[1] = v
      <4>1. pc[l] = "off"
        BY <1>0, <2>2, <3>1 DEF LeadInv
      <4>2. pc'[l] = "off"
        BY <2>2, <3>1 DEF Crash, AllLoops
      <4> QED
        BY <4>1, <4>2
    <3>2. CASE l[1] # v
      BY <2>2, <3>2 DEF Crash, AllLoops
    <3> QED
      BY <3>1, <3>2
  <2> QED
    BY <2>1, <2>2
<1> QED
  BY <1>1, <1>2, <1>3, StillSpares

(* The run that is started was still to be had. *)
LEMMA StartRunLimits ==
  ASSUME OneLoop, TasksInv, OwnInv, NEW w \in Process, leaders \subseteq {w},
         NEW kind \in Kinds, Limits(w, kind), NEW l \in AllLoops, StartRun(l)
  PROVE  Limits(w, kind)'
<1> DEFINE n == started'
           s == sel[l]
           q == Quota(kind)
<1>0. RecordType /\ HistoryType
  BY DEF TasksInv
<1>1. pc[l] = "context"
  BY DEF StartRun
<1>2. l[1] = w /\ \A t : ~Uncounted(t) /\ ~Held(t)
  BY <1>1, OneAtWork DEF Holding
<1>3. /\ n \in Run /\ n = started + 1
      /\ runTask'[n] = s /\ \A r \in Run \ {n} : runTask'[r] = runTask[r]
      /\ pc'[l] = "count" /\ cur'[l] = n /\ sel' = sel
      /\ \A k \in AllLoops \ {l} : pc'[k] = pc[k] /\ cur'[k] = cur[k]
      /\ SetStatus(w, s, "selected") /\ s \in Task /\ crashes' = crashes
  BY <1>2, StartRunWrites
<1>4. sourceTasks[w][s].status \in {"queued", "failed"}
  BY <1>1, <1>2 DEF OwnInv, Own
<1>5. runTask[n] = NoTask
  <2>1. n > started
    BY <1>0, <1>3 DEF HistoryType
  <2> QED
    BY <1>3, <2>1 DEF TasksInv, RunInv
<1>6. q \in Nat /\ Quota(kind)' = q /\ MaxFailures \in Nat \ {0}
  BY <1>3, QuotaGrows
<1> HIDE DEF n, s, q
<1>7. /\ \A t \in Task \ {s} : sourceTasks'[w][t] = sourceTasks[w][t]
      /\ sourceTasks'[w][s].status = "selected"
      /\ sourceTasks'[w][s].runCount = sourceTasks[w][s].runCount
  <2>1. "selected" \in Status
    BY DEF Status, Active
  <2> QED
    BY <1>0, <1>3, <1>4, <2>1, StatusWrites DEF OnlyTask
<1>8. s' = s
  BY <1>3 DEF s
<1>9. Attempts(s)' = Attempts(s) + 1
  <2>1. Begun(s)' = Begun(s) \cup {n} /\ n \notin Begun(s) /\ Begun(s) \in SUBSET Run
    BY <1>3, <1>5, <1>8, TasksAssumption DEF Begun
  <2>2. IsFiniteSet(Begun(s))
    BY <2>1, RunsFinite
  <2>3. Attempts(s) = Cardinality(Begun(s)) /\ Attempts(s)' = Cardinality(Begun(s)')
    BY DEF Attempts, Begun
  <2> QED
    BY <2>1, <2>2, <2>3, FS_AddElement
<1>10. ASSUME NEW t \in Task \ {s} PROVE Attempts(t)' = Attempts(t)
  <2>1. \A r \in Run : runTask'[r] = t <=> runTask[r] = t
    BY <1>3, <1>5, <1>10, TasksAssumption
  <2> QED
    BY <2>1 DEF Attempts
<1>11. Held(s)' /\ Uncounted(s)'
  BY <1>3, <1>8 DEF Held, Uncounted, Holding, n, s
<1>12. ASSUME NEW t \in Task
       PROVE  /\ Attempts(t)' <= q + MaxFailures
              /\ Ready(w, t)' => Attempts(t)' < q + MaxFailures
              /\ Attempts(t)' <= q + sourceTasks'[w][t].runCount + (IF Uncounted(t)' THEN 1 ELSE 0)
              /\ sourceTasks'[w][t].status = "none" => Attempts(t)' <= q
  <2>1. /\ Attempts(t) \in Nat /\ sourceTasks[w][t].runCount \in Nat
        /\ Attempts(t) <= q + MaxFailures
        /\ Ready(w, t) => Attempts(t) < q + MaxFailures
        /\ Attempts(t) <= q + sourceTasks[w][t].runCount
        /\ sourceTasks[w][t].status = "none" => Attempts(t) <= q
    <3>1. Attempts(t) \in Nat /\ sourceTasks[w][t].runCount \in Nat
      BY RetryNumbers
    <3>2. /\ Attempts(t) <= q + MaxFailures
          /\ Ready(w, t) => Attempts(t) < q + MaxFailures
          /\ sourceTasks[w][t].status = "none" => Attempts(t) <= q
      BY DEF Limits, q
    <3>3. Attempts(t) <= q + sourceTasks[w][t].runCount + (IF Uncounted(t) THEN 1 ELSE 0)
      BY DEF Limits, q
    <3>4. ~Uncounted(t)
      BY <1>2
    <3>5. Attempts(t) <= q + sourceTasks[w][t].runCount
      BY <1>6, <3>1, <3>3, <3>4
    <3> QED
      BY <3>1, <3>2, <3>5
  <2>2. CASE t = s
    <3>1. Ready(w, t)
      BY <1>2, <1>4, <2>2 DEF Ready, Terminal
    <3>2. Attempts(t)' = Attempts(t) + 1 /\ Held(t)' /\ Uncounted(t)'
      BY <1>8, <1>9, <1>11, <2>2 DEF Attempts, Held, Uncounted
    <3>3. ~Ready(w, t)'
      BY <3>2 DEF Ready
    <3> QED
      BY <1>6, <1>7, <2>1, <2>2, <3>1, <3>2, <3>3
  <2>3. CASE t # s
    <3>1. Attempts(t)' = Attempts(t) /\ sourceTasks'[w][t] = sourceTasks[w][t]
      BY <1>7, <1>10, <2>3
    <3>2. Ready(w, t)' => Ready(w, t)
      BY <1>2, <3>1 DEF Ready
    <3> QED
      BY <1>6, <2>1, <3>1, <3>2
  <2> QED
    BY <2>2, <2>3
<1> QED
  BY <1>6, <1>12 DEF Limits

(* While the process lives, every step keeps the limits. *)
LEMMA LimitsNext ==
  ASSUME OneLoop, TasksInv, TasksInv', OwnInv, NEW w \in Process, leaders' \subseteq {w},
         NEW kind \in Kinds, booted[w], booted'[w], Limits(w, kind), [Next]_vars
  PROVE  Limits(w, kind)'
<1>1. leaders \subseteq {w}
  BY LeadersGrow
<1>2. ASSUME NEW l \in AllLoops, Step(l) PROVE Limits(w, kind)'
  <2>1. CASE StartRun(l)
    BY <1>1, <2>1, StartRunLimits
  <2>2. CASE ~StartRun(l)
    <3>1. Spares(w)
      BY <1>1, <1>2, <2>2, QuietSpares, CountRunSpares, WorkSpares, FinishTaskSpares,
         DeadLetterSpares DEF Step
    <3> QED
      BY <3>1, SparesKeeps
  <2> QED
    BY <2>1, <2>2
<1>3. ASSUME NEW v \in Process, Boot(v) \/ Elect(v) \/ Demote(v) \/ Crash(v)
      PROVE  Limits(w, kind)'
  <2>1. CASE Elect(v)
    <3>1. v = w
      BY <2>1 DEF Elect
    <3> QED
      BY <2>1, <3>1, ElectSpares, SparesKeeps
  <2>2. CASE Boot(v) \/ Crash(v)
    <3>1. v # w
      BY <2>2 DEF Boot, Crash, TasksInv, FlagType
    <3> QED
      BY <1>1, <2>2, <3>1, OthersSpare, SparesKeeps
  <2>3. CASE Demote(v)
    <3>1. Demote(v) \/ (v # w /\ (Boot(v) \/ Crash(v)))
      BY <2>3
    <3>2. Spares(w)
      BY <1>1, <3>1, OthersSpare
    <3> QED
      BY <3>2, SparesKeeps
  <2> QED
    BY <1>3, <2>1, <2>2, <2>3
<1>4. CASE HourPasses
  BY <1>4, HourSpares, SparesKeeps
<1>5. CASE UNCHANGED vars
  BY <1>5 DEF vars, memory, loop, history, Limits, Ready, Held, Uncounted, Attempts, Quota
<1> QED
  BY <1>2, <1>3, <1>4, <1>5 DEF Next, AllLoops

(* A process dies in a crash and starts again by loading the tables. *)
LEMMA BootedChanges ==
  ASSUME TasksInv, NEW w \in Process, [Next]_vars, booted'[w] # booted[w]
  PROVE  (booted[w] /\ Crash(w)) \/ (~booted[w] /\ Boot(w))
<1>0. booted \in [Process -> BOOLEAN]
  BY DEF TasksInv, FlagType
<1>1. ASSUME NEW l \in AllLoops, Step(l) PROVE FALSE
  BY <1>1 DEF Step, LeaveLoop, SyncBacklog, Block, Select, StartRun, CountRun, Passes, Fails,
              Commit, FinishRun, FinishTask, DeadLetter, flags
<1>2. ASSUME NEW v \in Process, Elect(v) \/ Demote(v) PROVE FALSE
  BY <1>2 DEF Elect, Demote
<1>3. ~HourPasses /\ ~UNCHANGED vars
  BY DEF HourPasses, vars, flags
<1>4. ASSUME NEW v \in Process, Boot(v) \/ Crash(v) PROVE v = w
  BY <1>0, <1>4 DEF Boot, Crash
<1>5. Boot(w) \/ Crash(w)
  BY <1>1, <1>2, <1>3, <1>4 DEF Next, AllLoops
<1>6. (Boot(w) => ~booted[w]) /\ (Crash(w) => booted[w])
  BY DEF Boot, Crash
<1> QED
  BY <1>5, <1>6

(* While the only process that was ever elected is down, no run starts and no row
   is written. *)
LEMMA DownKeeps ==
  ASSUME TasksInv, NEW w \in Process, leaders' \subseteq {w}, ~booted[w], ~booted'[w], [Next]_vars
  PROVE  /\ runTask' = runTask /\ crashes' \in {crashes, crashes + 1}
         /\ \A t \in Task : rows'[t].status = rows[t].status /\ rows'[t].runCount = rows[t].runCount
<1>0. leaders \subseteq {w}
  BY LeadersGrow
<1>1. ASSUME NEW l \in AllLoops, Step(l) PROVE FALSE
  <2>1. pc[l] # "off"
    BY <1>1 DEF Step, LeaveLoop, SyncBacklog, Block, Select, StartRun, CountRun, Passes, Fails,
                Commit, FinishRun, FinishTask, DeadLetter
  <2> QED
    BY <1>0, <2>1 DEF TasksInv, LeadInv
<1>2. ASSUME NEW v \in Process, Elect(v) PROVE FALSE
  BY <1>2 DEF Elect
<1>3. ASSUME NEW v \in Process, Boot(v) \/ Demote(v) \/ Crash(v)
      PROVE  /\ runTask' = runTask /\ crashes' \in {crashes, crashes + 1} /\ rows' = rows
  BY <1>3 DEF Boot, Demote, Crash, tables, history
<1>4. CASE HourPasses
  BY <1>4, HourWrites DEF TasksInv, HourPasses
<1>5. CASE UNCHANGED vars
  BY <1>5 DEF vars, tables, history
<1> QED
  BY <1>1, <1>2, <1>3, <1>4, <1>5 DEF Next, AllLoops

(* A process that is not up has no loops. *)
LEMMA NoLoops ==
  ASSUME TasksInv, NEW w \in Process, leaders \subseteq {w}, ~booted[w]
  PROVE  \A t : ~Held(t) /\ ~Uncounted(t)
BY DEF TasksInv, LeadInv, Held, Uncounted, Holding

(* Whatever the database does, a life costs no more runs than the limit says. *)
LEMMA LifeNext ==
  ASSUME OneLoop, TasksInv, TasksInv', OwnInv, LifeInv, [Next]_vars
  PROVE  LifeInv'
<1> SUFFICES ASSUME NEW w \in Process, leaders' \subseteq {w}
             PROVE  /\ booted'[w] => Limits(w, "memory")'
                    /\ ~booted'[w] => \A t \in Task : Attempts(t)' <= Quota("memory")'
  BY DEF LifeInv
<1>1. leaders \subseteq {w}
  BY LeadersGrow
<1>2. /\ booted[w] => Limits(w, "memory")
      /\ ~booted[w] => \A t \in Task : Attempts(t) <= Quota("memory")
  BY <1>1 DEF LifeInv
<1>3. \A t \in Task : Attempts(t) \in Nat
  BY RetryNumbers
<1>4. Quota("memory") \in Nat /\ MaxFailures \in Nat \ {0}
  BY QuotaGrows DEF Kinds
<1>5. runTask' = runTask => \A t \in Task : Attempts(t)' = Attempts(t)
  BY DEF Attempts
<1>6. CASE booted[w] /\ booted'[w]
  BY <1>2, <1>6, LimitsNext DEF Kinds
<1>7. CASE booted[w] /\ ~booted'[w]
  <2>1. Crash(w)
    BY <1>7, BootedChanges
  <2>2. runTask' = runTask /\ crashes' = crashes + 1
    BY <2>1 DEF Crash
  <2>3. Quota("memory")' = Quota("memory") + MaxFailures
    BY <2>2, QuotaGrows
  <2>4. \A t \in Task : Attempts(t) <= Quota("memory") + MaxFailures
    BY <1>2, <1>7 DEF Limits
  <2> QED
    BY <1>5, <1>7, <2>2, <2>3, <2>4
<1>8. CASE ~booted[w] /\ booted'[w]
  <2>1. Boot(w)
    BY <1>8, BootedChanges
  <2>2. runTask' = runTask /\ crashes' = crashes
    BY <2>1 DEF Boot
  <2>3. Quota("memory")' = Quota("memory")
    BY <2>2, QuotaGrows DEF Kinds
  <2>4. \A t \in Task : sourceTasks'[w][t].runCount \in Nat
    BY TasksAssumption DEF TasksInv, RecordType, Record
  <2>5. \A t \in Task : Attempts(t)' <= Quota("memory")'
    BY <1>2, <1>5, <1>8, <2>2, <2>3
  <2> QED
    <3> DEFINE p == Quota("memory")'
    <3>1. \A t \in Task : Attempts(t)' \in Nat /\ Attempts(t)' <= p /\ p \in Nat
      BY <1>3, <1>4, <1>5, <2>2, <2>3, <2>5
    <3> HIDE DEF p
    <3>2. \A t \in Task :
            /\ Attempts(t)' <= p + MaxFailures /\ Attempts(t)' < p + MaxFailures
            /\ Attempts(t)' <= p + sourceTasks'[w][t].runCount + 0
            /\ Attempts(t)' <= p + sourceTasks'[w][t].runCount + 1
      BY <1>4, <2>4, <3>1
    <3>3. Limits(w, "memory")'
      BY <3>1, <3>2 DEF Limits, p
    <3> QED
      BY <1>8, <3>3
<1>9. CASE ~booted[w] /\ ~booted'[w]
  <2>1. runTask' = runTask /\ crashes' \in {crashes, crashes + 1}
    BY <1>9, DownKeeps
  <2>2. Quota("memory")' \in {Quota("memory"), Quota("memory") + MaxFailures}
    BY <2>1, QuotaGrows DEF Kinds
  <2> QED
    BY <1>2, <1>3, <1>4, <1>5, <1>9, <2>1, <2>2
<1> QED
  BY <1>6, <1>7, <1>8, <1>9

(* Without a failed write the rows stay what the memory of the leader is. *)
LEMMA SavedNext ==
  ASSUME OneLoop, TasksInv, TasksInv', FaultType, NEW w \in Process, leaders' \subseteq {w},
         booted[w], booted'[w], sourceTasks[w] = rows, [Next]_vars, lostWrites' = lostWrites
  PROVE  sourceTasks'[w] = rows'
<1>0. RecordType /\ RecordType' /\ FlagType
  BY DEF TasksInv
<1>1. leaders \subseteq {w}
  BY LeadersGrow
<1>2. ASSUME \A t \in Task : \/ rows'[t] = rows[t] /\ sourceTasks'[w][t] = sourceTasks[w][t]
                             \/ rows'[t] = sourceTasks'[w][t]
      PROVE  sourceTasks'[w] = rows'
  <2>1. rows' \in [Task -> Record] /\ sourceTasks'[w] \in [Task -> Record]
    BY <1>0 DEF RecordType
  <2>2. \A t \in Task : sourceTasks'[w][t] = rows'[t]
    BY <1>2
  <2> QED
    BY <2>1, <2>2
<1>3. ASSUME NEW t \in Task, NEW s \in Status, SetStatus(w, t, s) PROVE sourceTasks'[w] = rows'
  <2>1. /\ OnlyTask(w, t)
        /\ \/ rows' = rows /\ sourceTasks' = sourceTasks
           \/ sourceTasks[w][t].status # "none"
    BY <1>0, <1>3, StatusWrites
  <2>2. sourceTasks[w][t].status # "none" => rows'[t] = sourceTasks'[w][t]
    BY <1>0, <1>3, StatusSaved
  <2> QED
    BY <1>2, <2>1, <2>2 DEF OnlyTask
<1>4. ASSUME Saves(w) PROVE sourceTasks'[w] = rows'
  BY <1>2, <1>4 DEF Saves
<1>5. ASSUME NEW l \in AllLoops, Step(l) PROVE sourceTasks'[w] = rows'
  <2>1. l[1] = w
    <3>1. pc[l] # "off"
      BY <1>5 DEF Step, LeaveLoop, SyncBacklog, Block, Select, StartRun, CountRun, Passes, Fails,
                  Commit, FinishRun, FinishTask, DeadLetter
    <3> QED
      BY <1>1, <3>1, OneAtWork
  <2>2. CASE LeaveLoop(l) \/ (\E t \in Task : Select(l, t)) \/ Fails(l) \/ Commit(l)
    BY <2>2 DEF LeaveLoop, Select, Fails, Commit, tables, memory
  <2>3. CASE SyncBacklog(l)
    BY <1>0, <1>4, <2>1, <2>3, SyncWrites
  <2>4. ASSUME NEW t \in Task, Block(l, t) PROVE sourceTasks'[w] = rows'
    <3>1. SetStatus(w, t, "blocked") /\ "blocked" \in Status
      BY <2>1, <2>4 DEF Block, Status
    <3> QED
      BY <1>3, <3>1
  <2>5. CASE StartRun(l)
    <3>1. SetStatus(w, sel[l], "selected") /\ sel[l] \in Task /\ "selected" \in Status
      BY <2>1, <2>5, StartRunWrites DEF Status, Active
    <3> QED
      BY <1>3, <3>1
  <2>6. CASE CountRun(l)
    <3>1. /\ OnlyTask(w, sel[l]) /\ rows'[sel[l]] = sourceTasks'[w][sel[l]]
      BY <2>1, <2>6, CountRunWrites
    <3> QED
      BY <1>2, <3>1 DEF OnlyTask
  <2>7. CASE Passes(l)
    BY <2>7, PassesWrites
  <2>8. CASE FinishRun(l)
    BY <2>8, FinishRunWrites
  <2>9. CASE FinishTask(l)
    <3>1. /\ SetStatus(w, runTask[cur[l]], result[l]) /\ runTask[cur[l]] \in Task
          /\ result[l] \in Status
      BY <2>1, <2>9, FinishTaskWrites
    <3> QED
      BY <1>3, <3>1
  <2>10. CASE DeadLetter(l)
    <3>1. /\ runTask[cur[l]] \in Task /\ "discarded" \in Status
          /\ \/ SetStatus(w, runTask[cur[l]], "discarded")
             \/ sourceTasks' = sourceTasks /\ rows' = rows
      BY <2>1, <2>10, DeadLetterWrites
    <3> QED
      BY <1>3, <3>1
  <2> QED
    BY <1>5, <2>2, <2>3, <2>4, <2>5, <2>6, <2>7, <2>8, <2>9, <2>10 DEF Step
<1>6. ASSUME NEW v \in Process, Boot(v) \/ Demote(v) \/ Crash(v) PROVE sourceTasks'[w] = rows'
  <2>1. rows' = rows
    BY <1>6 DEF Boot, Demote, Crash, tables
  <2>2. Demote(v) \/ v # w
    BY <1>0, <1>6 DEF Boot, Crash, FlagType
  <2>3. sourceTasks'[w] = sourceTasks[w]
    BY <1>0, <1>6, <2>2 DEF Demote, Boot, Crash, memory, RecordType
  <2> QED
    BY <2>1, <2>3
<1>7. ASSUME NEW v \in Process, Elect(v) PROVE sourceTasks'[w] = rows'
  <2>1. v = w
    BY <1>7 DEF Elect
  <2>2. CASE Recover(w)
    BY <1>0, <1>4, <2>2, RecoverWrites
  <2>3. CASE UNCHANGED <<tables, memory>>
    BY <2>3 DEF tables, memory
  <2> QED
    BY <1>7, <2>1, <2>2, <2>3 DEF Elect
<1>8. CASE HourPasses
  BY <1>0, <1>8, HourWrites
<1>9. CASE UNCHANGED vars
  BY <1>9 DEF vars, tables, memory
<1> QED
  BY <1>5, <1>6, <1>7, <1>8, <1>9 DEF Next, AllLoops

(* Then a crash costs a run at most: the one that was in the hands of the loop. *)
LEMMA RowsNext ==
  ASSUME OneLoop, TasksInv, TasksInv', OwnInv, FaultType, RowsInv, [Next]_vars,
         lostWrites' = lostWrites, failedLoads' = failedLoads
  PROVE  RowsInv'
<1> SUFFICES ASSUME NEW w \in Process, leaders' \subseteq {w}
             PROVE  /\ booted'[w] => sourceTasks'[w] = rows' /\ Limits(w, "rows")'
                    /\ ~booted'[w] => RowsLimit'
  BY DEF RowsInv
<1>1. leaders \subseteq {w}
  BY LeadersGrow
<1>2. /\ booted[w] => sourceTasks[w] = rows /\ Limits(w, "rows")
      /\ ~booted[w] => RowsLimit
  BY <1>1 DEF RowsInv
<1>3. /\ \A t \in Task : Attempts(t) \in Nat /\ rows[t].runCount \in Nat
      /\ Quota("rows") \in Nat /\ MaxFailures \in Nat \ {0}
  BY RetryNumbers, QuotaGrows DEF Kinds
<1>4. runTask' = runTask => \A t \in Task : Attempts(t)' = Attempts(t)
  BY DEF Attempts
<1>5. CASE booted[w] /\ booted'[w]
  BY <1>2, <1>5, LimitsNext, SavedNext DEF Kinds
<1>6. CASE booted[w] /\ ~booted'[w]
  <2>1. Crash(w)
    BY <1>6, BootedChanges
  <2>2. runTask' = runTask /\ crashes' = crashes + 1 /\ rows' = rows
    BY <2>1 DEF Crash, tables
  <2>3. Quota("rows")' = Quota("rows") + 1
    BY <2>2, QuotaGrows
  <2>4. \A t \in Task :
          /\ Attempts(t)' = Attempts(t) /\ Attempts(t) <= Quota("rows") + MaxFailures
          /\ Attempts(t) <= Quota("rows") + rows[t].runCount + (IF Uncounted(t) THEN 1 ELSE 0)
          /\ rows[t].status = "none" => Attempts(t) <= Quota("rows")
    BY <1>2, <1>4, <1>6, <2>2 DEF Limits
  <2>5. \A t \in Task : Attempts(t) <= Quota("rows") + rows[t].runCount + 1
    BY <1>3, <2>4
  <2>6. RowsLimit'
    <3> DEFINE q == Quota("rows")
               p == Quota("rows")'
    <3> SUFFICES ASSUME NEW t \in Task
                 PROVE  /\ Attempts(t)' <= p + MaxFailures /\ Attempts(t)' < p + MaxFailures
                        /\ Attempts(t)' <= p + rows'[t].runCount
                        /\ rows'[t].status = "none" => Attempts(t)' <= p
      BY DEF RowsLimit
    <3>1. p = q + 1 /\ q \in Nat
      BY <1>3, <2>3
    <3>2. /\ Attempts(t) <= q + MaxFailures /\ Attempts(t) <= q + rows[t].runCount + 1
          /\ rows[t].status = "none" => Attempts(t) <= q
      BY <2>4, <2>5
    <3> HIDE DEF q, p
    <3> QED
      BY <1>3, <2>2, <2>4, <3>1, <3>2
  <2> QED
    BY <1>6, <2>6
<1>7. CASE ~booted[w] /\ booted'[w]
  <2>1. Boot(w)
    BY <1>7, BootedChanges
  <2>2. /\ UNCHANGED <<loop, runTask, crashes>> /\ rows' = rows
        /\ sourceTasks' = [sourceTasks EXCEPT ![w] = rows]
    <3>1. failedLoads' # failedLoads + 1
      BY DEF FaultType
    <3> QED
      BY <2>1, <3>1 DEF Boot, tables
  <2>3. sourceTasks'[w] = rows
    BY <2>2 DEF TasksInv, RecordType
  <2>4. Quota("rows")' = Quota("rows")
    BY <2>2 DEF Quota
  <2>5. \A t \in Task : ~Held(t)' /\ ~Uncounted(t)'
    BY <1>1, <1>7, <2>2, NoLoops DEF Held, Uncounted, loop
  <2>6. Limits(w, "rows")'
    <3> SUFFICES ASSUME NEW t \in Task
                 PROVE  /\ Attempts(t) <= Quota("rows") + MaxFailures
                        /\ rows[t].status \notin Terminal => Attempts(t) < Quota("rows") + MaxFailures
                        /\ Attempts(t) <= Quota("rows") + rows[t].runCount + 0
                        /\ rows[t].status = "none" => Attempts(t) <= Quota("rows")
      BY <1>4, <2>2, <2>3, <2>4, <2>5 DEF Limits, Ready
    <3> QED
      BY <1>2, <1>3, <1>7 DEF RowsLimit
  <2> QED
    BY <1>7, <2>2, <2>3, <2>6
<1>8. CASE ~booted[w] /\ ~booted'[w]
  <2>1. /\ runTask' = runTask /\ crashes' \in {crashes, crashes + 1}
        /\ \A t \in Task : rows'[t].status = rows[t].status /\ rows'[t].runCount = rows[t].runCount
    BY <1>8, DownKeeps
  <2>2. Quota("rows")' \in {Quota("rows"), Quota("rows") + 1}
    BY <2>1, QuotaGrows DEF Kinds
  <2>3. RowsLimit'
    <3> DEFINE q == Quota("rows")
               p == Quota("rows")'
    <3> SUFFICES ASSUME NEW t \in Task
                 PROVE  /\ Attempts(t)' <= p + MaxFailures
                        /\ rows'[t].status \notin Terminal => Attempts(t)' < p + MaxFailures
                        /\ Attempts(t)' <= p + rows'[t].runCount
                        /\ rows'[t].status = "none" => Attempts(t)' <= p
      BY DEF RowsLimit
    <3>1. p \in {q, q + 1} /\ q \in Nat /\ Attempts(t)' = Attempts(t)
      BY <1>3, <1>4, <2>1, <2>2
    <3>2. /\ Attempts(t) <= q + MaxFailures /\ Attempts(t) <= q + rows[t].runCount
          /\ rows[t].status \notin Terminal => Attempts(t) < q + MaxFailures
          /\ rows[t].status = "none" => Attempts(t) <= q
      BY <1>2, <1>8 DEF RowsLimit
    <3> HIDE DEF q, p
    <3> QED
      BY <1>3, <2>1, <3>1, <3>2
  <2> QED
    BY <1>8, <2>3
<1> QED
  BY <1>5, <1>6, <1>7, <1>8

LEMMA RetryNext ==
  ASSUME OneLoop, TasksInv, TasksInv', OwnInv, FaultType, RetryInv, [Next]_vars
  PROVE  RetryInv'
<1>1. LifeInv'
  BY LifeNext DEF RetryInv
<1>2. ASSUME Faultless' PROVE RowsInv'
  <2>1. /\ lostWrites' = 0 /\ failedLoads' = 0 /\ lostWrites' >= lostWrites
        /\ failedLoads' >= failedLoads /\ lostWrites \in Nat /\ failedLoads \in Nat
    BY <1>2, FaultsNext, TasksAssumption DEF Faultless, FaultType
  <2>2. lostWrites = 0 /\ failedLoads = 0
    BY <2>1
  <2>3. RowsInv
    BY <2>2 DEF RetryInv, Faultless
  <2> QED
    BY <2>1, <2>2, <2>3, RowsNext
<1> QED
  BY <1>1, <1>2 DEF RetryInv

(* With one copy of the loop and no other process elected, a failing task is run
   as often as the limit says in each life of the process, whatever the database
   fails to write or to load; if it never fails, as often as the limit says and
   once more for each crash (deadLetterIfExhausted, syncBacklogTasks). *)
THEOREM RetriesAreBounded == ASSUME OneLoop PROVE Spec => []RetriesBounded
<1>1. Init => RetryInv
  BY RetryInit
<1>2. TasksInv /\ TasksInv' /\ OwnInv /\ FaultType /\ RetryInv /\ [Next]_vars => RetryInv'
  BY RetryNext
<1>3. TasksInv /\ RetryInv => RetriesBounded
  <2> SUFFICES ASSUME TasksInv, RetryInv, Cardinality(leaders) <= 1, NEW t \in Task
               PROVE  /\ Attempts(t) <= MaxFailures * (crashes + 1)
                      /\ Faultless => Attempts(t) <= MaxFailures + crashes
    BY DEF RetriesBounded, Faultless
  <2>1. IsFiniteSet(leaders)
    BY DEF TasksInv, LeadInv
  <2>2. Cardinality(leaders) \in {0, 1}
    BY <2>1, FS_CardinalityType
  <2>3. leaders = {} \/ \E v : leaders = {v}
    BY <2>1, <2>2, FS_EmptySet, FS_Singleton
  <2>4. PICK w \in Process : leaders \subseteq {w}
    BY <2>3, TasksAssumption DEF TasksInv, HistoryType
  <2>5. Attempts(t) \in Nat
    BY RetryNumbers, <2>4
  <2>6. /\ MaxFailures \in Nat /\ Quota("memory") \in Nat /\ crashes \in Nat
        /\ Quota("memory") + MaxFailures = MaxFailures * (crashes + 1) /\ Quota("rows") = crashes
    BY QuotaGrows DEF Kinds
  <2>7. Attempts(t) <= Quota("memory") + MaxFailures
    <3>1. CASE booted[w]
      BY <2>4, <3>1 DEF RetryInv, LifeInv, Limits
    <3>2. CASE ~booted[w]
      <4>1. Attempts(t) <= Quota("memory")
        BY <2>4, <3>2 DEF RetryInv, LifeInv
      <4> QED
        BY <2>5, <2>6, <4>1
    <3> QED
      BY <3>1, <3>2
  <2>8. Faultless => Attempts(t) <= Quota("rows") + MaxFailures
    BY <2>4 DEF RetryInv, RowsInv, Limits, RowsLimit
  <2> QED
    BY <2>5, <2>6, <2>7, <2>8
<1> QED
  BY <1>1, <1>2, <1>3, TasksInvariant, OwnInvariant, FaultsBounded, PTL DEF Spec
=============================================================================
