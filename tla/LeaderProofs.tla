---------------------------- MODULE LeaderProofs ----------------------------
(***************************************************************************)
(* Proofs about what the leader runs: LeaderServices, for any limits on the *)
(* terms and on failures, TokenBudget, for any caps, windows and calls, and *)
(* Execution, for any costs and limits.                                     *)
(***************************************************************************)
EXTENDS LeaderServices, TokenBudget, Execution, SequenceTheorems, TLAPS

-----------------------------------------------------------------------------
(* LeaderServices *)

\* The parts of TypeOK.
FlagType ==
  /\ elected \in BOOLEAN /\ leaderActive \in BOOLEAN /\ isProducing \in BOOLEAN
  /\ producing \in BOOLEAN /\ isRunning \in BOOLEAN /\ runtimeInitialized \in BOOLEAN
  /\ beatHandle \in BOOLEAN /\ moduleTimer \in BOOLEAN
CountType ==
  /\ failures \in 0 .. MaxFailures /\ intervals \in Nat /\ restarts \in Nat /\ starting \in Nat
  /\ loops \in Nat /\ beats \in Nat /\ beatTimers \in Nat
  /\ terms \in 0 .. MaxTerms /\ pauses \in {0, 1}

\* Until production has paused once, only a leader has an interval, and no timer waits to start one.
PauseInv == pauses = 0 => restarts = 0 /\ (isProducing => elected)

\* The services are active exactly while the process leads, and the handle of the
\* heartbeat is that of an interval.
ActiveInv == (leaderActive <=> elected) /\ (beatHandle => beats > 0)

ServicesInv == FlagType /\ CountType /\ ActiveInv /\ OneInterval /\ PauseInv /\ RunningHasLoop

(* The parts are all of TypeOK. *)
LEMMA ServicesTypeParts == TypeOK <=> FlagType /\ CountType
BY DEF TypeOK, FlagType, CountType

(* The invariant holds at the start. *)
LEMMA ServicesInit == Init => ServicesInv
<1> SUFFICES ASSUME Init PROVE ServicesInv
  OBVIOUS
<1>1. FlagType
  BY DEF Init, FlagType
<1>2. CountType
  BY ServicesAssumption DEF Init, CountType
<1>3. ActiveInv /\ OneInterval /\ PauseInv /\ RunningHasLoop
  BY DEF Init, ActiveInv, OneInterval, PauseInv, RunningHasLoop
<1> QED
  BY <1>1, <1>2, <1>3 DEF ServicesInv

(* Starting the producer, unless it has started, and stopping it keep its handle. *)
LEMMA ProducerStarts ==
  ASSUME ServicesInv, StartProducer
  PROVE  /\ isProducing' = TRUE /\ intervals' = 1 /\ producing' \in BOOLEAN
         /\ failures' \in 0 .. MaxFailures
<1>1. isProducing' = TRUE /\ intervals' = 1
  BY DEF ServicesInv, FlagType, OneInterval, StartProducer
<1>2. producing' \in BOOLEAN
  BY DEF ServicesInv, FlagType, StartProducer
<1>3. failures' \in 0 .. MaxFailures
  BY ServicesAssumption DEF ServicesInv, CountType, StartProducer
<1> QED
  BY <1>1, <1>2, <1>3

LEMMA ProducerStops ==
  ASSUME ServicesInv, StopProducer
  PROVE  isProducing' = FALSE /\ intervals' = 0
BY DEF ServicesInv, CountType, OneInterval, StopProducer

(* Every step keeps the invariant. *)
LEMMA ServicesNext == ServicesInv /\ [Next]_vars => ServicesInv'
<1> SUFFICES ASSUME ServicesInv, [Next]_vars PROVE ServicesInv'
  OBVIOUS
<1> USE ServicesAssumption
<1>0. FlagType /\ CountType /\ ActiveInv /\ OneInterval /\ PauseInv /\ RunningHasLoop
  BY DEF ServicesInv
<1>1. CASE Acquire
  <2>1. ~leaderActive /\ ~elected
    BY <1>0, <1>1 DEF Acquire, ActiveInv
  <2>2. /\ elected' = TRUE /\ leaderActive' = TRUE /\ terms' = terms + 1 /\ terms < MaxTerms
        /\ StartHeartbeat /\ StartAgent /\ StartProducer /\ UNCHANGED <<restarts, pauses>>
    BY <1>1, <2>1 DEF Acquire
  <2>3. /\ isProducing' = TRUE /\ intervals' = 1 /\ producing' \in BOOLEAN
        /\ failures' \in 0 .. MaxFailures
    BY <2>2, ProducerStarts
  <2>4. /\ isRunning' \in BOOLEAN /\ runtimeInitialized' \in BOOLEAN
        /\ starting' \in Nat /\ loops' \in Nat /\ RunningHasLoop'
    <3>1. isRunning' \in BOOLEAN /\ runtimeInitialized' \in BOOLEAN
      BY <1>0, <2>2 DEF FlagType, StartAgent, agent
    <3>2. starting' \in Nat /\ loops' \in Nat
      BY <1>0, <2>2 DEF CountType, StartAgent, agent
    <3>3. RunningHasLoop'
      <4>1. loops' = loops + 1 \/ (loops' = loops /\ isRunning' = isRunning)
        BY <2>2 DEF StartAgent, agent
      <4>2. loops' = loops + 1 => loops' > 0
        BY <1>0 DEF CountType
      <4> QED
        BY <1>0, <4>1, <4>2, Zenon DEF RunningHasLoop
    <3> QED
      BY <3>1, <3>2, <3>3
  <2>5. /\ beats' \in Nat /\ beatHandle' = FALSE /\ beatTimers' \in Nat
        /\ moduleTimer' \in BOOLEAN
    BY <1>0, <2>2 DEF FlagType, CountType, ActiveInv, StartHeartbeat
  <2>6. FlagType'
    BY <2>2, <2>3, <2>4, <2>5 DEF FlagType
  <2>7. CountType'
    BY <1>0, <2>2, <2>3, <2>4, <2>5 DEF CountType
  <2>8. ActiveInv' /\ OneInterval' /\ PauseInv'
    BY <1>0, <2>2, <2>3, <2>5 DEF ActiveInv, OneInterval, PauseInv
  <2> QED
    BY <2>4, <2>6, <2>7, <2>8 DEF ServicesInv
<1>2. CASE Lose
  <2>1. leaderActive /\ elected
    BY <1>0, <1>2 DEF Lose, ActiveInv
  <2>2. /\ elected' = FALSE /\ leaderActive' = FALSE
        /\ StopHeartbeat /\ StopAgent /\ StopProducer
        /\ UNCHANGED <<failures, restarts, producing, terms, pauses>>
    BY <1>2, <2>1 DEF Lose
  <2>3. isProducing' = FALSE /\ intervals' = 0
    BY <2>2, ProducerStops
  <2>4. FlagType'
    BY <1>0, <2>2, <2>3 DEF FlagType, StopHeartbeat, StopAgent
  <2>5. CountType'
    BY <1>0, <2>2, <2>3 DEF CountType, ActiveInv, StopHeartbeat, StopAgent
  <2>6. ActiveInv' /\ OneInterval' /\ PauseInv' /\ RunningHasLoop'
    BY <1>0, <2>2, <2>3
    DEF ActiveInv, OneInterval, PauseInv, RunningHasLoop, StopHeartbeat, StopAgent
  <2> QED
    BY <2>4, <2>5, <2>6 DEF ServicesInv
<1>3. CASE Produce \/ CycleReturns
  <2>1. FlagType'
    BY <1>0, <1>3 DEF FlagType, Produce, CycleReturns, agent, heartbeat
  <2>2. CountType'
    BY <1>0, <1>3 DEF CountType, Produce, CycleReturns, agent, heartbeat
  <2>3. ActiveInv' /\ OneInterval' /\ PauseInv' /\ RunningHasLoop'
    BY <1>0, <1>3 DEF ActiveInv, OneInterval, PauseInv, RunningHasLoop, Produce, CycleReturns,
                      agent, heartbeat
  <2> QED
    BY <2>1, <2>2, <2>3 DEF ServicesInv
<1>4. CASE CycleThrows
  <2>1. UNCHANGED <<elected, leaderActive, agent, heartbeat, terms>> /\ producing' = FALSE
    BY <1>4 DEF CycleThrows
  <2>2. \/ UNCHANGED <<isProducing, intervals, restarts, pauses>>
        \/ isProducing' = FALSE /\ intervals' = 0 /\ restarts' = restarts + 1 /\ pauses' = 1
    BY <1>4, ProducerStops DEF CycleThrows
  <2>3. failures' \in 0 .. MaxFailures
    BY <1>0, <1>4 DEF CycleThrows, CountType
  <2>4. FlagType'
    BY <1>0, <2>1, <2>2 DEF FlagType, agent, heartbeat
  <2>5. CountType'
    BY <1>0, <2>1, <2>2, <2>3 DEF CountType, agent, heartbeat
  <2>6. ActiveInv' /\ OneInterval' /\ PauseInv' /\ RunningHasLoop'
    BY <1>0, <2>1, <2>2 DEF ActiveInv, OneInterval, PauseInv, RunningHasLoop, agent, heartbeat
  <2> QED
    BY <2>4, <2>5, <2>6 DEF ServicesInv
<1>5. CASE Restart
  <2>1. /\ UNCHANGED <<elected, leaderActive, agent, heartbeat, terms, pauses>>
        /\ restarts > 0 /\ restarts' = restarts - 1
    BY <1>5 DEF Restart
  <2>2. pauses = 1
    BY <1>0, <2>1 DEF PauseInv, CountType
  <2>3. /\ isProducing' = TRUE /\ intervals' = 1 /\ producing' \in BOOLEAN
        /\ failures' \in 0 .. MaxFailures
    <3>1. CASE isProducing
      <4>1. failures' = 0 /\ UNCHANGED <<isProducing, intervals, producing>>
        BY <1>5, <3>1 DEF Restart
      <4> QED
        BY <1>0, <3>1, <4>1 DEF OneInterval, FlagType
    <3>2. CASE ~isProducing
      BY <1>5, <3>2, ProducerStarts DEF Restart
    <3> QED
      BY <3>1, <3>2
  <2>4. FlagType'
    BY <1>0, <2>1, <2>3 DEF FlagType, agent, heartbeat
  <2>5. CountType'
    BY <1>0, <2>1, <2>3 DEF CountType, agent, heartbeat
  <2>6. ActiveInv' /\ OneInterval' /\ PauseInv' /\ RunningHasLoop'
    BY <1>0, <2>1, <2>2, <2>3
    DEF ActiveInv, OneInterval, PauseInv, RunningHasLoop, agent, heartbeat
  <2> QED
    BY <2>4, <2>5, <2>6 DEF ServicesInv
<1>6. CASE Initialized \/ Exit
  <2>1. UNCHANGED <<elected, leaderActive, producer, heartbeat, terms, pauses>>
    BY <1>6 DEF Initialized, Exit
  <2>2. FlagType'
    BY <1>0, <1>6, <2>1 DEF FlagType, Initialized, Exit, producer, heartbeat
  <2>3. CountType' /\ RunningHasLoop'
    BY <1>0, <1>6, <2>1 DEF FlagType, CountType, RunningHasLoop, Initialized, Exit, producer,
                            heartbeat
  <2>4. ActiveInv' /\ OneInterval' /\ PauseInv'
    BY <1>0, <2>1 DEF ActiveInv, OneInterval, PauseInv, producer, heartbeat
  <2> QED
    BY <2>2, <2>3, <2>4 DEF ServicesInv
<1>7. CASE Beat \/ ModuleStart
  <2>1. UNCHANGED <<elected, leaderActive, producer, agent, terms, pauses>>
    BY <1>7 DEF Beat, ModuleStart
  <2>2. FlagType'
    BY <1>0, <1>7, <2>1 DEF FlagType, Beat, ModuleStart, producer, agent
  <2>3. CountType' /\ ActiveInv'
    BY <1>0, <1>7, <2>1 DEF CountType, ActiveInv, Beat, ModuleStart, producer, agent
  <2>4. OneInterval' /\ PauseInv' /\ RunningHasLoop'
    BY <1>0, <2>1 DEF OneInterval, PauseInv, RunningHasLoop, producer, agent
  <2> QED
    BY <2>2, <2>3, <2>4 DEF ServicesInv
<1>8. CASE UNCHANGED vars
  BY <1>0, <1>8 DEF vars, producer, agent, heartbeat, ServicesInv, FlagType, CountType, ActiveInv,
                    OneInterval, PauseInv, RunningHasLoop
<1> QED
  BY <1>1, <1>2, <1>3, <1>4, <1>5, <1>6, <1>7, <1>8 DEF Next

(* The invariant holds in every reachable state. *)
THEOREM ServicesInvariant == Spec => []ServicesInv
BY ServicesInit, ServicesNext, PTL DEF Spec

(* Every flag, counter and handle of the leader's services keeps its type. *)
THEOREM ServicesType == Spec => []TypeOK
<1>1. ServicesInv => TypeOK
  BY ServicesTypeParts DEF ServicesInv
<1> QED
  BY ServicesInvariant, <1>1, PTL

(* At most one production interval, and isProducing knows of it, through any elections,
   failures, pauses and late restart timers (BlockProducer.start, stop). *)
THEOREM ProducerHasOneInterval == Spec => []OneInterval
<1>1. ServicesInv => OneInterval
  BY DEF ServicesInv
<1> QED
  BY ServicesInvariant, <1>1, PTL

(* Unless production has paused after failures, losing the lease leaves no production
   interval behind (stopLeaderServices). *)
THEOREM LossEndsProduction == Spec => []LossStopsProduction
<1>1. ServicesInv => LossStopsProduction
  BY DEF ServicesInv, CountType, OneInterval, PauseInv, LossStopsProduction
<1> QED
  BY ServicesInvariant, <1>1, PTL

(* An agent that says it runs has a loop, however starts and stops overlap with a slow
   initializeRuntime (AgentWorker.start, stop). *)
THEOREM AgentHasLoop == Spec => []RunningHasLoop
<1>1. ServicesInv => RunningHasLoop
  BY DEF ServicesInv
<1> QED
  BY ServicesInvariant, <1>1, PTL

-----------------------------------------------------------------------------
(* TokenBudget *)

InFlight == side + (IF loop = "calling" THEN 1 ELSE 0)

\* The values of a window that is still open; an ended one counts as empty.
Hour(b) == IF b.hourLeft = 0 THEN 0 ELSE b.hour
Day(b) == IF b.dayLeft = 0 THEN 0 ELSE b.day

\* A bucket and the calls in flight that will charge it.
CapInv ==
  /\ bucket.day + InFlight <= DayCap + SideCalls
  /\ bucket.hour + InFlight <= HourCap + SideCalls
  /\ hasTask => task + InFlight <= TaskCap + SideCalls

\* What is written, or about to be, was a bucket once.
StoredInv ==
  /\ budgetRow.day <= DayCap + SideCalls /\ budgetRow.hour <= HourCap + SideCalls
  /\ writing.day <= DayCap + SideCalls /\ writing.hour <= HourCap + SideCalls

\* No call is in flight while the process is down.
DownInv == ~up => loop = "top" /\ side = 0

LEMMA RolledType ==
  ASSUME BudgetAssumption, NEW b \in Buckets, midnight \in 1 .. DayLength
  PROVE  /\ Rolled(b) \in Buckets
         /\ Rolled(b).day = Day(b) /\ Rolled(b).hour = Hour(b)
         /\ Rolled(b).hourLeft > 0 /\ Rolled(b).dayLeft > 0
         /\ Day(b) \in 0 .. b.day /\ Hour(b) \in 0 .. b.hour
BY DEF BudgetAssumption, Buckets, Rolled, Day, Hour

LEMMA ChargedType ==
  ASSUME BudgetAssumption, NEW b \in Buckets, midnight \in 1 .. DayLength
  PROVE  /\ Charged(b) \in Buckets
         /\ Charged(b).day = Day(b) + 1 /\ Charged(b).hour = Hour(b) + 1
         /\ Charged(b).hourLeft = Rolled(b).hourLeft
         /\ Charged(b).dayLeft = Rolled(b).dayLeft
<1> DEFINE open == Rolled(b)
<1>1. /\ open \in Buckets /\ open.day = Day(b) /\ open.hour = Hour(b)
  BY RolledType
<1>2. Charged(b) = [hour |-> open.hour + 1, day |-> open.day + 1,
                    hourLeft |-> open.hourLeft, dayLeft |-> open.dayLeft]
  BY DEF Charged
<1> HIDE DEF open
<1> QED
  BY <1>1, <1>2 DEF Buckets, open

LEMMA LaterType ==
  ASSUME BudgetAssumption, NEW b \in Buckets
  PROVE  /\ Later(b) \in Buckets
         /\ Later(b).day = b.day /\ Later(b).hour = b.hour
         /\ Later(b).hourLeft = Less(b.hourLeft) /\ Later(b).dayLeft = Less(b.dayLeft)
BY DEF BudgetAssumption, Buckets, Later, Less

LEMMA EmptyType ==
  ASSUME BudgetAssumption, midnight \in 1 .. DayLength
  PROVE  /\ Empty \in Buckets /\ NoRow \in Buckets
         /\ Empty.day = 0 /\ Empty.hour = 0 /\ NoRow.day = 0 /\ NoRow.hour = 0
         /\ NoRow.dayLeft = 0 /\ NoRow.hourLeft = 0
         /\ NoWrite \notin Buckets /\ NoWrite.day = 0 /\ NoWrite.hour = -1
         /\ Later(NoWrite) = NoWrite
BY DEF BudgetAssumption, Buckets, Empty, NoRow, NoWrite, Later, Less

-----------------------------------------------------------------------------
(* A running write is one of the queued. *)
QueueInv == writing # NoWrite => queue > 0

(* Nothing is written while the process is down. *)
DownWrites == ~up => writing = NoWrite

TypeInv == BudgetTypeOK /\ QueueInv /\ DownWrites

LEMMA InitType == BudgetInit => TypeInv
<1> SUFFICES ASSUME BudgetInit PROVE TypeInv
  OBVIOUS
<1>1. midnight \in 1 .. DayLength /\ MaxQueue \in Nat /\ MaxFailed \in Nat /\ SideCalls \in Nat
  BY BudgetAssumption DEF BudgetInit, BudgetAssumption
<1>2. bucket \in Buckets /\ budgetRow \in Buckets
  BY <1>1, BudgetAssumption, EmptyType DEF BudgetInit
<1>3. up \in BOOLEAN /\ hasTask \in BOOLEAN
  BY DEF BudgetInit
<1>4. task \in Nat /\ queue \in 0 .. MaxQueue /\ failed \in 0 .. MaxFailed /\ side \in 0 .. SideCalls
  BY <1>1 DEF BudgetInit
<1>5. writing = NoWrite /\ loop \in {"top", "working", "calling"}
  BY DEF BudgetInit
<1> QED
  BY <1>1, <1>2, <1>3, <1>4, <1>5 DEF TypeInv, QueueInv, DownWrites, BudgetTypeOK

LEMMA NextType ==
  ASSUME TypeInv, [BudgetNext]_budgetVars
  PROVE  TypeInv'
<1>a. /\ midnight \in 1 .. DayLength /\ bucket \in Buckets /\ budgetRow \in Buckets
      /\ DayLength \in Nat /\ SideCalls \in Nat /\ MaxQueue \in Nat /\ MaxFailed \in Nat
  BY BudgetAssumption DEF TypeInv, BudgetTypeOK, BudgetAssumption
<1>b. Rolled(bucket) \in Buckets /\ Charged(bucket) \in Buckets /\ Rolled(budgetRow) \in Buckets
  BY <1>a, BudgetAssumption, RolledType, ChargedType
<1>c. Empty \in Buckets /\ NoRow \in Buckets
  BY <1>a, BudgetAssumption, EmptyType
<1> USE <1>a, <1>b, <1>c DEF TypeInv, QueueInv, DownWrites, BudgetTypeOK, persistence
<1>1. CASE PickTask
  <2>1. CASE Paused(bucket', task)
    BY <1>1, <2>1 DEF PickTask
  <2>2. CASE ~Paused(bucket', task)
    BY <1>1, <2>2 DEF PickTask
  <2> QED BY <2>1, <2>2
<1>2. CASE LoopCalls
  <2>1. CASE Paused(bucket', task)
    <3>1. loop' = "top" /\ hasTask' = FALSE /\ task' = 0
      BY ONLY <1>2, <2>1 DEF LoopCalls, Throw, FinishTask
    <3>2. bucket' \in Buckets
      BY <1>2 DEF LoopCalls
    <3>3. UNCHANGED <<up, budgetRow, queue, writing, failed, side, midnight>>
      BY ONLY <1>2 DEF LoopCalls, persistence
    <3> QED BY <3>1, <3>2, <3>3
  <2>2. CASE ~Paused(bucket', task)
    BY <1>2, <2>2 DEF LoopCalls, Throw, FinishTask
  <2> QED BY <2>1, <2>2
<1>3. CASE LoopAnswered
  <2>1. CASE Paused(bucket', task + 1)
    <3>1. loop' = "top" /\ hasTask' = FALSE /\ task' = 0
      BY ONLY <1>3, <2>1 DEF LoopAnswered, Throw, FinishTask
    <3>2. bucket' \in Buckets
      BY <1>3 DEF LoopAnswered
    <3>3. UNCHANGED <<up, budgetRow, writing, failed, side, midnight>> /\ queue' = queue + 1 /\ queue < MaxQueue
      BY ONLY <1>3 DEF LoopAnswered, QueuePersist
    <3>4. queue' \in 0 .. MaxQueue /\ queue' > 0
      BY <3>3
    <3>5. UNCHANGED <<up, budgetRow, writing, failed, side, midnight>>
      BY <3>3
    <3> QED BY <3>1, <3>2, <3>4, <3>5
  <2>2. CASE ~Paused(bucket', task + 1)
    BY <1>3, <2>2 DEF LoopAnswered, QueuePersist, Throw, FinishTask
  <2> QED BY <2>1, <2>2
<1>4. CASE LoopUnmetered
  <2>1. CASE Paused(bucket', task)
    <3>1. loop' = "top" /\ hasTask' = FALSE /\ task' = 0
      BY ONLY <1>4, <2>1 DEF LoopUnmetered, Throw, FinishTask
    <3>2. bucket' \in Buckets
      BY <1>4 DEF LoopUnmetered
    <3>3. UNCHANGED <<up, budgetRow, queue, writing, failed, side, midnight>>
      BY ONLY <1>4 DEF LoopUnmetered, persistence
    <3> QED BY <3>1, <3>2, <3>3
  <2>2. CASE ~Paused(bucket', task)
    BY <1>4, <2>2 DEF LoopUnmetered, Throw, FinishTask
  <2> QED BY <2>1, <2>2
<1>5. CASE LoopCallFails
  BY <1>5 DEF LoopCallFails, Throw, FinishTask
<1>6. CASE TaskEnds
  BY <1>6 DEF TaskEnds, FinishTask
<1>7. CASE SideStep
  BY <1>7 DEF SideStep, SideCall, SideAnswered, SideCallFails, QueuePersist
<1>8. CASE PersistStarts
  BY <1>8 DEF PersistStarts
<1>13. CASE PersistEnds
  BY <1>13 DEF PersistEnds
<1>14. CASE PersistFails
  BY <1>14 DEF PersistFails
<1>9. CASE CrashWorker
  <2>1. bucket' \in Buckets /\ budgetRow' \in Buckets /\ writing' = NoWrite
    BY <1>9 DEF CrashWorker
  <2>2. up' \in BOOLEAN /\ hasTask' \in BOOLEAN
    BY <1>9 DEF CrashWorker
  <2>3. /\ task' = 0 /\ queue' = 0 /\ failed' = 0 /\ side' = 0 /\ loop' = "top"
        /\ midnight' = midnight
    BY <1>9 DEF CrashWorker
  <2> QED BY <2>1, <2>2, <2>3
<1>10. CASE Initialize
  BY <1>10 DEF Initialize
<1>11. CASE PassTime
  <2>1. Later(bucket) \in Buckets /\ Later(budgetRow) \in Buckets
    BY BudgetAssumption, LaterType
  <2>2. Later(writing) \in Buckets \union {NoWrite} /\ (writing = NoWrite <=> Later(writing) = NoWrite)
    BY BudgetAssumption, LaterType, EmptyType
  <2>3. midnight' \in 1 .. DayLength
    BY <1>11 DEF PassTime
  <2> QED BY <1>11, <2>1, <2>2, <2>3 DEF PassTime
<1>12. CASE UNCHANGED budgetVars
  BY <1>12 DEF budgetVars
<1> QED
  BY <1>1, <1>2, <1>3, <1>4, <1>5, <1>6, <1>7, <1>8, <1>9, <1>10, <1>11, <1>12,
     <1>13, <1>14
  DEF BudgetNext, LoopStep, PersistStep

(* The variables of TokenBudget have their types in every state. *)
THEOREM BudgetType == BudgetSpec => []BudgetTypeOK
<1>1. TypeInv => BudgetTypeOK
  BY DEF TypeInv
<1> QED
  BY <1>1, InitType, NextType, PTL DEF BudgetSpec

-----------------------------------------------------------------------------
(* Calls in flight are charged when they answer: counted in advance, they   *)
(* stay within the cap and what the callers may have in flight beside.      *)
CapTypeInv == TypeInv /\ CapInv /\ StoredInv /\ DownInv

LEMMA CapHelp ==
  ASSUME TypeInv
  PROVE  /\ DayCap \in Nat \ {0} /\ HourCap \in Nat \ {0} /\ TaskCap \in Nat \ {0} /\ SideCalls \in Nat
         /\ bucket \in Buckets /\ bucket.day \in Nat /\ bucket.hour \in Nat
         /\ budgetRow \in Buckets /\ budgetRow.day \in Nat /\ budgetRow.hour \in Nat
         /\ writing.day \in Int /\ writing.hour \in Int
         /\ side \in 0 .. SideCalls /\ task \in Nat
         /\ loop \in {"top", "working", "calling"} /\ midnight \in 1 .. DayLength
<1>1. /\ bucket \in Buckets /\ budgetRow \in Buckets /\ writing \in Buckets \union {NoWrite}
      /\ side \in 0 .. SideCalls /\ task \in Nat
      /\ loop \in {"top", "working", "calling"} /\ midnight \in 1 .. DayLength
  BY DEF TypeInv, BudgetTypeOK
<1>2. /\ bucket.day \in Nat /\ bucket.hour \in Nat /\ budgetRow.day \in Nat /\ budgetRow.hour \in Nat
  BY <1>1 DEF Buckets
<1>3. writing.day \in Int /\ writing.hour \in Int
  BY <1>1, BudgetAssumption, EmptyType DEF Buckets
<1> QED
  BY <1>1, <1>2, <1>3, BudgetAssumption DEF BudgetAssumption

LEMMA InitCap == BudgetInit => CapTypeInv
<1> SUFFICES ASSUME BudgetInit PROVE CapTypeInv
  OBVIOUS
<1>1. TypeInv
  BY InitType
<1>2. bucket.day = 0 /\ bucket.hour = 0 /\ budgetRow.day = 0 /\ budgetRow.hour = 0
  BY <1>1, BudgetAssumption, CapHelp, EmptyType DEF BudgetInit
<1>3. writing.day = 0 /\ writing.hour = -1
  BY <1>1, BudgetAssumption, CapHelp, EmptyType DEF BudgetInit
<1>4. InFlight = 0 /\ hasTask = FALSE
  BY DEF BudgetInit, InFlight
<1>5. CapInv /\ StoredInv
  BY <1>1, <1>2, <1>3, <1>4, CapHelp DEF CapInv, StoredInv
<1>6. DownInv
  BY DEF BudgetInit, DownInv
<1> QED
  BY <1>1, <1>5, <1>6 DEF CapTypeInv

(* What the steps do to the stored values and to the process state. *)
LEMMA NextStored ==
  ASSUME CapTypeInv, [BudgetNext]_budgetVars
  PROVE  StoredInv' /\ DownInv'
<1>t. TypeInv /\ CapInv /\ StoredInv /\ DownInv
  BY DEF CapTypeInv
<1>a. /\ bucket.day <= DayCap + SideCalls /\ bucket.hour <= HourCap + SideCalls
  BY <1>t, CapHelp DEF CapInv, InFlight
<1>1. StoredInv'
  <2>1. CASE PersistStarts
    BY <2>1, <1>t, <1>a DEF PersistStarts, StoredInv
  <2>2. CASE PersistEnds
    <3>1. budgetRow' = writing /\ writing' = NoWrite
      BY <2>2 DEF PersistEnds
    <3>2. NoWrite.day = 0 /\ NoWrite.hour = -1
      BY <1>t, BudgetAssumption, CapHelp, EmptyType
    <3> QED BY <3>1, <3>2, <1>t, CapHelp DEF StoredInv
  <2>3. CASE PersistFails \/ CrashWorker
    <3>1. budgetRow' = budgetRow /\ writing' = NoWrite
      BY <2>3 DEF PersistFails, CrashWorker
    <3>2. NoWrite.day = 0 /\ NoWrite.hour = -1
      BY <1>t, BudgetAssumption, CapHelp, EmptyType
    <3> QED BY <3>1, <3>2, <1>t, CapHelp DEF StoredInv
  <2>4. CASE PassTime
    <3>1. budgetRow' = Later(budgetRow) /\ writing' = Later(writing)
      BY <2>4 DEF PassTime
    <3>2. Later(budgetRow).day = budgetRow.day /\ Later(budgetRow).hour = budgetRow.hour
      BY <1>t, BudgetAssumption, CapHelp, LaterType
    <3>3. Later(writing).day = writing.day /\ Later(writing).hour = writing.hour
      BY <1>t, BudgetAssumption, CapHelp, LaterType, EmptyType DEF TypeInv, BudgetTypeOK
    <3> QED BY <3>1, <3>2, <3>3, <1>t DEF StoredInv
  <2>5. CASE UNCHANGED <<budgetRow, writing>>
    BY <2>5, <1>t DEF StoredInv
  <2>6. CASE LoopStep \/ SideStep \/ Initialize \/ UNCHANGED budgetVars
    <3>1. UNCHANGED <<budgetRow, writing>>
      BY <2>6 DEF LoopStep, SideStep, PickTask, LoopCalls, LoopAnswered, LoopUnmetered, LoopCallFails,
         TaskEnds, SideCall, SideAnswered, SideCallFails, Initialize, persistence, budgetVars
    <3> QED BY <3>1, <2>5
  <2> QED BY <2>1, <2>2, <2>3, <2>4, <2>6 DEF BudgetNext, PersistStep
<1>2. DownInv'
  <2>1. CASE CrashWorker
    BY <2>1 DEF CrashWorker, DownInv
  <2>2. CASE LoopStep \/ SideStep \/ Initialize
    <3>1. up'
      BY <2>2 DEF LoopStep, SideStep, PickTask, LoopCalls, LoopAnswered, LoopUnmetered, LoopCallFails,
         TaskEnds, SideCall, SideAnswered, SideCallFails, Initialize
    <3> QED BY <3>1 DEF DownInv
  <2>3. CASE PersistStep \/ PassTime \/ UNCHANGED budgetVars
    <3>1. UNCHANGED <<up, loop, side>>
      BY <2>3 DEF PersistStep, PersistStarts, PersistEnds, PersistFails, PassTime, budgetVars
    <3> QED BY <3>1, <1>t DEF DownInv
  <2> QED BY <2>1, <2>2, <2>3 DEF BudgetNext
<1> QED
  BY <1>1, <1>2

LEMMA SumBelow ==
  \A count, cap, flying, calls \in Nat :
    count < cap /\ flying <= calls + 1 => count + flying <= cap + calls
OBVIOUS

LEMMA NextCap ==
  ASSUME CapTypeInv, [BudgetNext]_budgetVars
  PROVE  CapInv'
<1>t. TypeInv /\ CapInv /\ StoredInv /\ DownInv
  BY DEF CapTypeInv
<1>a. /\ DayCap \in Nat \ {0} /\ HourCap \in Nat \ {0} /\ TaskCap \in Nat \ {0} /\ SideCalls \in Nat
      /\ bucket.day \in Nat /\ bucket.hour \in Nat
      /\ side \in 0 .. SideCalls /\ task \in Nat
      /\ loop \in {"top", "working", "calling"}
  BY <1>t, CapHelp
<1>b. /\ bucket.day + InFlight <= DayCap + SideCalls
      /\ bucket.hour + InFlight <= HourCap + SideCalls
      /\ hasTask => task + InFlight <= TaskCap + SideCalls
  BY <1>t DEF CapInv
<1>c. InFlight \in Nat /\ InFlight <= SideCalls + 1 /\ (loop # "calling" => InFlight <= SideCalls)
  BY <1>a DEF InFlight
<1>r. /\ Rolled(bucket).day \in 0 .. bucket.day /\ Rolled(bucket).hour \in 0 .. bucket.hour
      /\ Charged(bucket).day \in 1 .. bucket.day + 1 /\ Charged(bucket).hour \in 1 .. bucket.hour + 1
  <2>1. /\ Rolled(bucket).day = Day(bucket) /\ Rolled(bucket).hour = Hour(bucket)
        /\ Day(bucket) \in 0 .. bucket.day /\ Hour(bucket) \in 0 .. bucket.hour
    BY <1>t, BudgetAssumption, CapHelp, RolledType
  <2>2. Charged(bucket).day = Day(bucket) + 1 /\ Charged(bucket).hour = Hour(bucket) + 1
    BY <1>t, BudgetAssumption, CapHelp, ChargedType
  <2> QED BY <1>a, <2>1, <2>2
\* An empty task bucket, or one no call is added to, is within its cap.
<1>1. CASE PickTask
  <2>1. bucket' = Rolled(bucket) /\ InFlight' = InFlight
    BY <1>1 DEF PickTask, InFlight
  <2>2. hasTask' => task' + InFlight' <= TaskCap + SideCalls
    <3>1. CASE Paused(bucket', task)
      <4>1. hasTask' = hasTask /\ task' = task
        BY <1>1, <3>1 DEF PickTask
      <4> QED BY <4>1, <2>1, <1>b
    <3>2. CASE ~Paused(bucket', task)
      <4>1. task' = 0 /\ loop # "calling"
        BY <1>1, <3>2 DEF PickTask
      <4> QED BY <4>1, <2>1, <1>a, <1>c
    <3> QED BY <3>1, <3>2
  <2> QED BY <2>1, <2>2, <1>a, <1>b, <1>c, <1>r DEF CapInv
<1>2. CASE LoopCalls
  <2>1. bucket' = Rolled(bucket) /\ side' = side /\ loop = "working" /\ InFlight = side
    BY <1>2, <1>a DEF LoopCalls, InFlight
  <2>2. CASE Paused(bucket', task)
    <3>1. hasTask' = FALSE /\ InFlight' = side
      BY <1>2, <2>1, <2>2, <1>a DEF LoopCalls, Throw, FinishTask, InFlight
    <3> QED BY <2>1, <3>1, <1>a, <1>b, <1>r DEF CapInv
  <2>3. CASE ~Paused(bucket', task)
    <3>1. hasTask' = hasTask /\ task' = task /\ loop' = "calling"
      BY <1>2, <2>3 DEF LoopCalls
    <3>2. InFlight' = side + 1
      BY <2>1, <3>1 DEF InFlight
    <3>3. bucket'.day < DayCap /\ bucket'.hour < HourCap /\ (hasTask => task < TaskCap)
      BY <2>1, <2>3, <1>a, <1>r DEF Paused
    <3> QED BY <2>1, <3>1, <3>2, <3>3, <1>a, <1>r DEF CapInv
  <2> QED BY <2>2, <2>3
<1>3. CASE LoopAnswered
  <2>1. bucket' = Charged(bucket) /\ side' = side /\ loop = "calling" /\ InFlight = side + 1
    BY <1>3, <1>a DEF LoopAnswered, InFlight
  <2>2. loop' # "calling" /\ (hasTask' => hasTask /\ task' = task + 1)
    BY <1>3 DEF LoopAnswered, Throw, FinishTask
  <2>3. InFlight' = side
    BY <2>1, <2>2, <1>a DEF InFlight
  <2> QED BY <2>1, <2>2, <2>3, <1>a, <1>b, <1>r DEF CapInv
<1>4. CASE LoopUnmetered
  <2>1. bucket' = Rolled(bucket) /\ side' = side /\ loop = "calling" /\ InFlight = side + 1
    BY <1>4, <1>a DEF LoopUnmetered, InFlight
  <2>2. loop' # "calling" /\ (hasTask' => hasTask /\ task' = task)
    BY <1>4 DEF LoopUnmetered, Throw, FinishTask
  <2>3. InFlight' = side
    BY <2>1, <2>2, <1>a DEF InFlight
  <2> QED BY <2>1, <2>2, <2>3, <1>a, <1>b, <1>r DEF CapInv
<1>5. CASE LoopCallFails \/ TaskEnds
  <2>1. bucket' = bucket /\ side' = side /\ loop' = "top" /\ hasTask' = FALSE
    BY <1>5 DEF LoopCallFails, TaskEnds, Throw, FinishTask
  <2>2. InFlight' = side /\ side <= InFlight
    BY <2>1, <1>a DEF InFlight
  <2> QED BY <2>1, <2>2, <1>a, <1>b, <1>c DEF CapInv
<1>6. CASE SideCall
  <2>1. bucket' = Rolled(bucket) /\ side < SideCalls /\ hasTask' = hasTask /\ task' = task
    BY <1>6 DEF SideCall
  <2>2. InFlight' <= SideCalls + 1 /\ InFlight' \in Nat
    BY <1>6, <1>a DEF SideCall, InFlight
  <2>3. bucket'.day < DayCap /\ bucket'.hour < HourCap /\ (hasTask => task < TaskCap)
    BY <1>6, <2>1, <1>a, <1>r DEF SideCall, Paused
  <2>4. bucket'.day + InFlight' <= DayCap + SideCalls /\ bucket'.hour + InFlight' <= HourCap + SideCalls
    BY <2>1, <2>2, <2>3, <1>a, <1>r
  <2>5. hasTask' => task' + InFlight' <= TaskCap + SideCalls
    <3>1. CASE hasTask
      <4>1. task < TaskCap /\ task' = task
        BY <3>1, <2>1, <2>3
      <4>2. task' \in Nat /\ TaskCap \in Nat /\ SideCalls \in Nat /\ task' < TaskCap
        BY <4>1, <1>a
      <4>3. task' + InFlight' <= TaskCap + SideCalls
        BY ONLY <4>2, <2>2, SumBelow
      <4> QED BY <4>3
    <3>2. CASE ~hasTask
      BY <3>2, <2>1
    <3> QED BY <3>1, <3>2
  <2> QED BY <2>4, <2>5 DEF CapInv
<1>7. CASE SideAnswered
  <2>1. bucket' = Charged(bucket) /\ hasTask' = hasTask /\ (hasTask => task' = task + 1)
    BY <1>7 DEF SideAnswered
  <2>2. InFlight' = InFlight - 1
    BY <1>7, <1>a DEF SideAnswered, InFlight
  <2> QED BY <2>1, <2>2, <1>a, <1>b, <1>c, <1>r DEF CapInv
<1>8. CASE SideCallFails
  <2>1. bucket' = bucket /\ hasTask' = hasTask /\ task' = task
    BY <1>8 DEF SideCallFails
  <2>2. InFlight' = InFlight - 1
    BY <1>8, <1>a DEF SideCallFails, InFlight
  <2> QED BY <2>1, <2>2, <1>a, <1>b, <1>c DEF CapInv
<1>9. CASE PersistStep \/ UNCHANGED budgetVars
  <2>1. UNCHANGED <<bucket, hasTask, task, loop, side>>
    BY <1>9 DEF PersistStep, PersistStarts, PersistEnds, PersistFails, budgetVars
  <2> QED BY <2>1, <1>t DEF CapInv, InFlight
<1>10. CASE CrashWorker
  <2>1. bucket'.day = 0 /\ bucket'.hour = 0
    BY <1>10, <1>t, BudgetAssumption, CapHelp, EmptyType DEF CrashWorker
  <2>2. InFlight' = 0 /\ hasTask' = FALSE
    BY <1>10 DEF CrashWorker, InFlight
  <2> QED BY <2>1, <2>2, <1>a DEF CapInv
<1>11. CASE Initialize
  <2>1. InFlight = 0 /\ InFlight' = 0
    BY <1>11, <1>t DEF Initialize, DownInv, InFlight
  <2>2. /\ bucket'.day \in Nat /\ bucket'.day <= DayCap + SideCalls
        /\ bucket'.hour \in Nat /\ bucket'.hour <= HourCap + SideCalls
    <3>1. CASE bucket' = Empty
      BY <3>1, <1>t, <1>a, BudgetAssumption, CapHelp, EmptyType
    <3>2. CASE bucket' = Rolled(budgetRow)
      <4>1. /\ Rolled(budgetRow).day \in 0 .. budgetRow.day
            /\ Rolled(budgetRow).hour \in 0 .. budgetRow.hour
            /\ budgetRow.day \in Nat /\ budgetRow.hour \in Nat
        BY <1>t, BudgetAssumption, CapHelp, RolledType
      <4> QED BY <3>2, <4>1, <1>a, <1>t DEF StoredInv
    <3> QED BY <1>11, <3>1, <3>2 DEF Initialize
  <2>3. hasTask' = hasTask /\ task' = task
    BY <1>11 DEF Initialize
  <2> QED BY <2>1, <2>2, <2>3, <1>a, <1>b DEF CapInv
<1>12. CASE PassTime
  <2>1. bucket' = Later(bucket) /\ UNCHANGED <<hasTask, task, loop, side>>
    BY <1>12 DEF PassTime
  <2>2. bucket'.day = bucket.day /\ bucket'.hour = bucket.hour
    BY <2>1, <1>t, BudgetAssumption, CapHelp, LaterType
  <2> QED BY <2>1, <2>2, <1>t DEF CapInv, InFlight
<1> QED
  BY <1>1, <1>2, <1>3, <1>4, <1>5, <1>6, <1>7, <1>8, <1>9, <1>10, <1>11, <1>12
  DEF BudgetNext, LoopStep, SideStep

(* No bucket passes its cap by more than the calls that were let through    *)
(* while it was below: the gate of hermesChat is read before the call and   *)
(* the charge made after it, across windows, refusals and restarts.         *)
THEOREM CapsHold == BudgetSpec => []OverdrawnByCallsInFlight
<1>1. CapTypeInv /\ [BudgetNext]_budgetVars => CapTypeInv'
  BY NextType, NextStored, NextCap DEF CapTypeInv
<1>2. CapTypeInv => OverdrawnByCallsInFlight
  <2> SUFFICES ASSUME CapTypeInv PROVE OverdrawnByCallsInFlight
    OBVIOUS
  <2>1. InFlight \in Nat
    BY CapHelp DEF CapTypeInv, InFlight
  <2> QED BY <2>1, CapHelp DEF CapTypeInv, CapInv, OverdrawnByCallsInFlight
<1> QED
  BY <1>1, <1>2, InitCap, PTL DEF BudgetSpec


-----------------------------------------------------------------------------
(* Bucket b has at most k charges that s lacks, now and when windows end:   *)
(* either their windows end together or b has no more than k charges.       *)
NearDay(b, s, k) == Day(b) - Day(s) <= k /\ (s.dayLeft = b.dayLeft \/ Day(b) <= k)
NearHour(b, s, k) == Hour(b) - Hour(s) <= k /\ (s.hourLeft = b.hourLeft \/ Hour(b) <= k)
Near(b, s, k) == NearDay(b, s, k) /\ NearHour(b, s, k)

LEMMA ValueType ==
  ASSUME BudgetAssumption, NEW b \in Buckets
  PROVE  /\ Day(b) \in Nat /\ Hour(b) \in Nat /\ b.dayLeft \in Nat /\ b.hourLeft \in Nat
         /\ b.dayLeft = 0 => Day(b) = 0
         /\ b.hourLeft = 0 => Hour(b) = 0
BY DEF BudgetAssumption, Buckets, Day, Hour

LEMMA RolledValue ==
  ASSUME BudgetAssumption, NEW b \in Buckets, midnight \in 1 .. DayLength
  PROVE  /\ Day(Rolled(b)) = Day(b) /\ Hour(Rolled(b)) = Hour(b)
         /\ b.dayLeft # 0 => Rolled(b).dayLeft = b.dayLeft
         /\ b.hourLeft # 0 => Rolled(b).hourLeft = b.hourLeft
<1>1. /\ Rolled(b).day = Day(b) /\ Rolled(b).hour = Hour(b)
      /\ Rolled(b).hourLeft > 0 /\ Rolled(b).dayLeft > 0
  BY RolledType
<1>2. Day(Rolled(b)) = Day(b) /\ Hour(Rolled(b)) = Hour(b)
  <2> DEFINE open == Rolled(b)
  <2>1. open.day = Day(b) /\ open.hour = Hour(b) /\ open.hourLeft # 0 /\ open.dayLeft # 0
    BY <1>1
  <2> HIDE DEF open
  <2>2. Day(open) = open.day /\ Hour(open) = open.hour
    BY <2>1 DEF Day, Hour
  <2> QED BY <2>1, <2>2 DEF open
<1>3. /\ b.dayLeft # 0 => Rolled(b).dayLeft = b.dayLeft
      /\ b.hourLeft # 0 => Rolled(b).hourLeft = b.hourLeft
  BY DEF Rolled
<1> QED
  BY <1>2, <1>3

LEMMA ChargedValue ==
  ASSUME BudgetAssumption, NEW b \in Buckets, midnight \in 1 .. DayLength
  PROVE  /\ Day(Charged(b)) = Day(b) + 1 /\ Hour(Charged(b)) = Hour(b) + 1
         /\ b.dayLeft # 0 => Charged(b).dayLeft = b.dayLeft
         /\ b.hourLeft # 0 => Charged(b).hourLeft = b.hourLeft
<1> DEFINE paid == Charged(b)
<1>1. /\ paid.day = Day(b) + 1 /\ paid.hour = Hour(b) + 1
      /\ paid.hourLeft = Rolled(b).hourLeft /\ paid.dayLeft = Rolled(b).dayLeft
  BY ChargedType
<1>2. Rolled(b).hourLeft > 0 /\ Rolled(b).dayLeft > 0
  BY RolledType
<1>3. /\ b.dayLeft # 0 => Rolled(b).dayLeft = b.dayLeft
      /\ b.hourLeft # 0 => Rolled(b).hourLeft = b.hourLeft
  BY RolledValue
<1> HIDE DEF paid
<1>4. Day(paid) = paid.day /\ Hour(paid) = paid.hour
  BY <1>1, <1>2 DEF Day, Hour
<1> QED
  BY <1>1, <1>3, <1>4 DEF paid

LEMMA LaterValue ==
  ASSUME BudgetAssumption, NEW b \in Buckets
  PROVE  /\ Day(Later(b)) = IF Later(b).dayLeft = 0 THEN 0 ELSE Day(b)
         /\ Hour(Later(b)) = IF Later(b).hourLeft = 0 THEN 0 ELSE Hour(b)
<1> DEFINE then == Later(b)
<1>1. /\ then.day = b.day /\ then.hour = b.hour
      /\ then.hourLeft = Less(b.hourLeft) /\ then.dayLeft = Less(b.dayLeft)
  BY LaterType
<1> HIDE DEF then
<1>2. Day(then) = IF then.dayLeft = 0 THEN 0 ELSE Day(b)
  BY <1>1 DEF Day, Less
<1>3. Hour(then) = IF then.hourLeft = 0 THEN 0 ELSE Hour(b)
  BY <1>1 DEF Hour, Less
<1> QED
  BY <1>2, <1>3 DEF then

LEMMA NearSelf ==
  ASSUME BudgetAssumption, NEW b \in Buckets, NEW k \in Nat
  PROVE  Near(b, b, k)
BY ValueType DEF Near, NearDay, NearHour

LEMMA NearOfNothing ==
  ASSUME BudgetAssumption, NEW b \in Buckets, NEW s \in Buckets, NEW k \in Nat, Day(b) = 0, Hour(b) = 0
  PROVE  Near(b, s, k)
BY ValueType DEF Near, NearDay, NearHour

LEMMA NearMore ==
  ASSUME BudgetAssumption, NEW b \in Buckets, NEW s \in Buckets, NEW k \in Int, NEW m \in Int, k <= m,
         Near(b, s, k)
  PROVE  Near(b, s, m)
<1>1. Day(b) \in Nat /\ Hour(b) \in Nat /\ Day(s) \in Nat /\ Hour(s) \in Nat
  BY ValueType
<1> QED
  BY <1>1 DEF Near, NearDay, NearHour

LEMMA NearRolled ==
  ASSUME BudgetAssumption, NEW b \in Buckets, NEW s \in Buckets, NEW k \in Nat,
         midnight \in 1 .. DayLength, Near(b, s, k)
  PROVE  Near(Rolled(b), s, k)
<1>1. /\ Day(Rolled(b)) = Day(b) /\ Hour(Rolled(b)) = Hour(b)
      /\ b.dayLeft # 0 => Rolled(b).dayLeft = b.dayLeft
      /\ b.hourLeft # 0 => Rolled(b).hourLeft = b.hourLeft
  BY RolledValue
<1>2. /\ b.dayLeft = 0 => Day(b) = 0
      /\ b.hourLeft = 0 => Hour(b) = 0
  BY ValueType
<1>3. NearDay(Rolled(b), s, k)
  BY <1>1, <1>2 DEF Near, NearDay
<1>4. NearHour(Rolled(b), s, k)
  BY <1>1, <1>2 DEF Near, NearHour
<1> QED
  BY <1>3, <1>4 DEF Near

LEMMA NearCharged ==
  ASSUME BudgetAssumption, NEW b \in Buckets, NEW s \in Buckets, NEW k \in Nat,
         midnight \in 1 .. DayLength, Near(b, s, k)
  PROVE  Near(Charged(b), s, k + 1)
<1>1. /\ Day(Charged(b)) = Day(b) + 1 /\ Hour(Charged(b)) = Hour(b) + 1
      /\ b.dayLeft # 0 => Charged(b).dayLeft = b.dayLeft
      /\ b.hourLeft # 0 => Charged(b).hourLeft = b.hourLeft
  BY ChargedValue
<1>2. /\ b.dayLeft = 0 => Day(b) = 0
      /\ b.hourLeft = 0 => Hour(b) = 0
      /\ Day(b) \in Nat /\ Hour(b) \in Nat
  BY ValueType
<1>3. Day(s) \in Nat /\ Hour(s) \in Nat
  BY ValueType
<1>4. NearDay(Charged(b), s, k + 1)
  BY <1>1, <1>2, <1>3 DEF Near, NearDay
<1>5. NearHour(Charged(b), s, k + 1)
  BY <1>1, <1>2, <1>3 DEF Near, NearHour
<1> QED
  BY <1>4, <1>5 DEF Near

LEMMA NearLater ==
  ASSUME BudgetAssumption, NEW b \in Buckets, NEW s \in Buckets, NEW k \in Nat, Near(b, s, k)
  PROVE  Near(Later(b), Later(s), k)
<1>1. /\ Day(Later(b)) = IF Later(b).dayLeft = 0 THEN 0 ELSE Day(b)
      /\ Hour(Later(b)) = IF Later(b).hourLeft = 0 THEN 0 ELSE Hour(b)
      /\ Day(Later(s)) = IF Later(s).dayLeft = 0 THEN 0 ELSE Day(s)
      /\ Hour(Later(s)) = IF Later(s).hourLeft = 0 THEN 0 ELSE Hour(s)
  BY LaterValue
<1>2. /\ Later(b).hourLeft = Less(b.hourLeft) /\ Later(b).dayLeft = Less(b.dayLeft)
      /\ Later(s).hourLeft = Less(s.hourLeft) /\ Later(s).dayLeft = Less(s.dayLeft)
  BY LaterType
<1>3. Day(b) \in Nat /\ Hour(b) \in Nat /\ Day(s) \in Nat /\ Hour(s) \in Nat
  BY ValueType
<1>4. NearDay(Later(b), Later(s), k)
  <2>1. CASE s.dayLeft = b.dayLeft
    BY <1>1, <1>2, <1>3, <2>1 DEF Near, NearDay
  <2>2. CASE Day(b) <= k
    BY <1>1, <1>3, <2>2 DEF NearDay
  <2> QED BY <2>1, <2>2 DEF Near, NearDay
<1>5. NearHour(Later(b), Later(s), k)
  <2>1. CASE s.hourLeft = b.hourLeft
    BY <1>1, <1>2, <1>3, <2>1 DEF Near, NearHour
  <2>2. CASE Hour(b) <= k
    BY <1>1, <1>3, <2>2 DEF NearHour
  <2> QED BY <2>1, <2>2 DEF Near, NearHour
<1> QED
  BY <1>4, <1>5 DEF Near


(* What a restart would lose: the row lacks the charges that wait and those *)
(* whose write failed, a running write only the charges queued behind it.   *)
RowInv == up => Near(bucket, budgetRow, queue + failed)
WriteInv == up /\ writing # NoWrite => Near(bucket, writing, queue - 1)
LostInv == TypeInv /\ RowInv /\ WriteInv

LEMMA LostHelp ==
  ASSUME TypeInv
  PROVE  /\ bucket \in Buckets /\ budgetRow \in Buckets /\ midnight \in 1 .. DayLength
         /\ writing # NoWrite => writing \in Buckets /\ queue - 1 \in Nat
         /\ queue \in Nat /\ failed \in Nat /\ queue + failed \in Nat
BY BudgetAssumption DEF TypeInv, QueueInv, BudgetTypeOK, BudgetAssumption

LEMMA EmptyValue ==
  ASSUME BudgetAssumption, midnight \in 1 .. DayLength
  PROVE  Empty \in Buckets /\ Day(Empty) = 0 /\ Hour(Empty) = 0
<1>1. Empty \in Buckets /\ Empty.day = 0 /\ Empty.hour = 0
  BY EmptyType
<1> QED
  BY <1>1 DEF Day, Hour

LEMMA InitLost == BudgetInit => LostInv
<1> SUFFICES ASSUME BudgetInit PROVE LostInv
  OBVIOUS
<1>1. TypeInv
  BY InitType
<1>2. Day(bucket) = 0 /\ Hour(bucket) = 0
  BY <1>1, BudgetAssumption, LostHelp, EmptyValue DEF BudgetInit
<1>3. RowInv
  BY <1>1, <1>2, BudgetAssumption, LostHelp, NearOfNothing DEF RowInv
<1>4. WriteInv
  BY DEF BudgetInit, WriteInv
<1> QED
  BY <1>1, <1>3, <1>4 DEF LostInv

LEMMA NextLost ==
  ASSUME LostInv, [BudgetNext]_budgetVars
  PROVE  LostInv'
<1>t. TypeInv /\ RowInv /\ WriteInv
  BY DEF LostInv
<1>n. TypeInv'
  BY <1>t, NextType
<1>a. /\ bucket \in Buckets /\ budgetRow \in Buckets /\ midnight \in 1 .. DayLength
      /\ writing # NoWrite => writing \in Buckets /\ queue - 1 \in Nat
      /\ queue \in Nat /\ failed \in Nat /\ queue + failed \in Nat
  BY <1>t, LostHelp
<1>b. up => Near(bucket, budgetRow, queue + failed)
  BY <1>t DEF RowInv
<1>c. up /\ writing # NoWrite => Near(bucket, writing, queue - 1)
  BY <1>t DEF WriteInv
<1>1. CASE up /\ bucket' = Rolled(bucket) /\ UNCHANGED persistence
  <2>1. UNCHANGED <<budgetRow, queue, writing, failed>>
    BY <1>1 DEF persistence
  <2>2. Near(bucket', budgetRow, queue + failed)
    BY <1>1, <1>a, <1>b, BudgetAssumption, NearRolled
  <2>3. writing # NoWrite => Near(bucket', writing, queue - 1)
    BY <1>1, <1>a, <1>c, BudgetAssumption, NearRolled
  <2> QED BY <1>n, <2>1, <2>2, <2>3 DEF LostInv, RowInv, WriteInv
<1>2. CASE up /\ bucket' = Charged(bucket) /\ queue' = queue + 1 /\ UNCHANGED <<budgetRow, writing, failed>>
  <2>1. Near(bucket', budgetRow, (queue + failed) + 1)
    BY <1>2, <1>a, <1>b, BudgetAssumption, NearCharged
  <2>2. (queue + failed) + 1 = queue' + failed'
    BY <1>2, <1>a
  <2>3. writing # NoWrite => Near(bucket', writing, (queue - 1) + 1)
    BY <1>2, <1>a, <1>c, BudgetAssumption, NearCharged
  <2>4. (queue - 1) + 1 = queue' - 1
    BY <1>2, <1>a
  <2> QED BY <1>n, <1>2, <2>1, <2>2, <2>3, <2>4 DEF LostInv, RowInv, WriteInv
<1>3. CASE UNCHANGED <<up, bucket, budgetRow, queue, writing, failed>>
  BY <1>3, <1>n, <1>t DEF LostInv, RowInv, WriteInv
<1>4. CASE PersistStarts
  <2>1. up /\ queue > 0 /\ writing' = bucket /\ UNCHANGED <<up, bucket, budgetRow, queue, failed>>
    BY <1>4 DEF PersistStarts
  <2>2. queue - 1 \in Nat
    BY <2>1, <1>a
  <2>3. Near(bucket, bucket, queue - 1)
    BY <2>2, <1>a, BudgetAssumption, NearSelf
  <2> QED BY <1>n, <1>b, <2>1, <2>3 DEF LostInv, RowInv, WriteInv
<1>5. CASE PersistEnds
  <2>1. /\ up /\ writing # NoWrite /\ writing' = NoWrite /\ queue' = queue - 1
        /\ budgetRow' = writing /\ failed' = 0 /\ UNCHANGED <<up, bucket>>
    BY <1>5 DEF PersistEnds
  <2>2. Near(bucket, writing, queue - 1) /\ queue' + failed' = queue - 1
    BY <2>1, <1>a, <1>c
  <2> QED BY <1>n, <2>1, <2>2 DEF LostInv, RowInv, WriteInv
<1>6. CASE PersistFails
  <2>1. /\ up /\ writing' = NoWrite /\ queue' = queue - 1 /\ failed' = failed + 1
        /\ UNCHANGED <<up, bucket, budgetRow>>
    BY <1>6 DEF PersistFails
  <2>2. queue' + failed' = queue + failed
    BY <2>1, <1>a
  <2> QED BY <1>n, <1>b, <2>1, <2>2 DEF LostInv, RowInv, WriteInv
<1>7. CASE CrashWorker
  BY <1>7, <1>n DEF CrashWorker, LostInv, RowInv, WriteInv
<1>8. CASE Initialize
  <2>1. bucket' \in {Rolled(budgetRow), Empty} /\ UNCHANGED <<budgetRow, queue, writing, failed>>
    BY <1>8 DEF Initialize, persistence
  <2>2. writing = NoWrite
    BY <1>8, <1>t DEF Initialize, TypeInv, DownWrites
  <2>3. Near(bucket', budgetRow, queue + failed)
    <3>1. CASE bucket' = Empty
      BY <3>1, <1>a, BudgetAssumption, EmptyValue, NearOfNothing
    <3>2. CASE bucket' = Rolled(budgetRow)
      <4>1. Near(budgetRow, budgetRow, queue + failed)
        BY <1>a, BudgetAssumption, NearSelf
      <4> QED BY <3>2, <4>1, <1>a, BudgetAssumption, NearRolled
    <3> QED BY <2>1, <3>1, <3>2
  <2> QED BY <1>n, <2>1, <2>2, <2>3 DEF LostInv, RowInv, WriteInv
<1>9. CASE PassTime
  <2>1. bucket' = Later(bucket) /\ budgetRow' = Later(budgetRow) /\ writing' = Later(writing)
        /\ UNCHANGED <<up, queue, failed>>
    BY <1>9 DEF PassTime
  <2>2. up => Near(bucket', budgetRow', queue + failed)
    BY <2>1, <1>a, <1>b, BudgetAssumption, NearLater
  <2>3. writing = NoWrite => writing' = NoWrite
    BY <2>1, <1>a, BudgetAssumption, EmptyType
  <2>4. up /\ writing # NoWrite => Near(bucket', writing', queue - 1)
    BY <2>1, <1>a, <1>c, BudgetAssumption, NearLater
  <2> QED BY <1>n, <2>1, <2>2, <2>3, <2>4 DEF LostInv, RowInv, WriteInv
<1>10. CASE LoopStep \/ SideStep \/ UNCHANGED budgetVars
  <2>1. CASE PickTask \/ LoopCalls \/ LoopUnmetered \/ SideCall
    BY <2>1, <1>1 DEF PickTask, LoopCalls, LoopUnmetered, SideCall
  <2>2. CASE LoopAnswered \/ SideAnswered
    BY <2>2, <1>2 DEF LoopAnswered, SideAnswered, QueuePersist
  <2>3. CASE LoopCallFails \/ TaskEnds \/ SideCallFails \/ UNCHANGED budgetVars
    BY <2>3, <1>3 DEF LoopCallFails, TaskEnds, SideCallFails, budgetVars, persistence
  <2> QED BY <1>10, <2>1, <2>2, <2>3 DEF LoopStep, SideStep
<1> QED
  BY <1>4, <1>5, <1>6, <1>7, <1>8, <1>9, <1>10 DEF BudgetNext, PersistStep

(* What a restart would load now lacks at most the charges whose write has  *)
(* not ended or has failed: a link of the persist chain writes the values   *)
(* it finds when it runs, so the later links cover the earlier ones.        *)
THEOREM RestartLosesOnlyUnwritten == BudgetSpec => []RestartForgetsUnwritten
<1>1. LostInv => RestartForgetsUnwritten
  <2> SUFFICES ASSUME LostInv, up PROVE RestartForgetsUnwritten
    BY DEF RestartForgetsUnwritten
  <2>1. Near(bucket, budgetRow, queue + failed)
    BY DEF LostInv, RowInv
  <2>2. bucket \in Buckets /\ budgetRow \in Buckets /\ midnight \in 1 .. DayLength
    BY LostHelp DEF LostInv
  <2>3. /\ Rolled(bucket).day = Day(bucket) /\ Rolled(bucket).hour = Hour(bucket)
        /\ Rolled(budgetRow).day = Day(budgetRow) /\ Rolled(budgetRow).hour = Hour(budgetRow)
    BY <2>2, BudgetAssumption, RolledType
  <2> QED BY <2>1, <2>3 DEF Near, NearDay, NearHour, RestartForgetsUnwritten
<1> QED
  BY <1>1, InitLost, NextLost, PTL DEF BudgetSpec

-----------------------------------------------------------------------------
(* Execution *)

StoredReceipt == [index : Nat, limit : Nat, gasUsed : Nat, cumulative : Nat]

\* What is spent and what remains is the limit, which the block has room for, and the
\* two counters of the loop agree.
MeterInv ==
  /\ running => remaining + spent = gasLimit /\ totalGasUsed + gasLimit <= BlockGas
  /\ cumulativeGas = totalGasUsed

GasInv == ExecutionTypeOK /\ MeterInv /\ ReceiptsAddUp

(* The parts of the types that a step of the loop or of the meter changes. *)
LEMMA ExecutionTypeParts ==
  ExecutionTypeOK <=>
    /\ running \in BOOLEAN /\ receipts \in Seq(StoredReceipt) /\ stored \in Seq(StoredReceipt)
    /\ gasLimit \in Nat /\ remaining \in Nat /\ spent \in Nat
    /\ validTxs \in Nat /\ totalGasUsed \in Nat /\ cumulativeGas \in Nat
BY DEF ExecutionTypeOK, StoredReceipt

(* An empty block adds up. *)
LEMMA EmptyAddsUp ==
  ASSUME EmptyBlock
  PROVE  /\ receipts' \in Seq(StoredReceipt) /\ stored' \in Seq(StoredReceipt)
         /\ validTxs' \in Nat /\ totalGasUsed' \in Nat /\ cumulativeGas' \in Nat
         /\ cumulativeGas' = totalGasUsed' /\ ReceiptsAddUp'
<1>1. /\ validTxs' = 0 /\ totalGasUsed' = 0 /\ cumulativeGas' = 0
      /\ receipts' = << >> /\ stored' = << >>
  BY DEF EmptyBlock
<1>2. << >> \in Seq(StoredReceipt) /\ Len(<< >>) = 0 /\ DOMAIN << >> = {}
  BY EmptySeq
<1>3. BlockGas \in Nat
  BY ExecutionAssumption
<1> QED
  BY <1>1, <1>2, <1>3 DEF ReceiptsAddUp, GasBefore

(* A receipt that is within its limit and that of the block is one more that adds up. *)
LEMMA IncludeAddsUp ==
  ASSUME GasInv, NEW limit \in Nat, NEW gas \in Nat, gas <= limit,
         totalGasUsed + gas <= BlockGas, Include(validTxs, limit, gas)
  PROVE  /\ receipts' \in Seq(StoredReceipt) /\ stored' \in Seq(StoredReceipt)
         /\ validTxs' \in Nat /\ totalGasUsed' \in Nat /\ cumulativeGas' \in Nat
         /\ cumulativeGas' = totalGasUsed' /\ ReceiptsAddUp'
<1> DEFINE n == Len(stored)
           receipt == Receipt(validTxs, limit, gas, cumulativeGas + gas)
<1>1. /\ receipts \in Seq(StoredReceipt) /\ stored \in Seq(StoredReceipt)
      /\ validTxs \in Nat /\ totalGasUsed \in Nat /\ cumulativeGas \in Nat
      /\ cumulativeGas = totalGasUsed /\ BlockGas \in Nat
  BY ExecutionTypeParts, ExecutionAssumption DEF GasInv, MeterInv
<1>2. /\ validTxs' = validTxs + 1 /\ totalGasUsed' = totalGasUsed + gas
      /\ cumulativeGas' = cumulativeGas + gas
      /\ receipts' = Append(receipts, receipt) /\ stored' = Append(stored, receipt)
  BY DEF Include
<1>3. /\ receipt \in StoredReceipt /\ receipt.index = validTxs /\ receipt.limit = limit
      /\ receipt.gasUsed = gas /\ receipt.cumulative = cumulativeGas + gas
  BY <1>1 DEF Receipt, StoredReceipt
<1>4. n \in Nat /\ DOMAIN stored = 1 .. n
  BY <1>1, LenProperties
<1> HIDE DEF receipt, n
<1>5. receipts' \in Seq(StoredReceipt)
  BY <1>1, <1>2, <1>3, AppendProperties
<1>6. /\ stored' \in Seq(StoredReceipt) /\ Len(stored') = n + 1
      /\ \A i \in 1 .. n : stored'[i] = stored[i]
      /\ stored'[n + 1] = receipt
  BY <1>1, <1>2, <1>3, AppendProperties DEF n
<1>7. DOMAIN stored' = 1 .. n + 1
  BY <1>6, LenProperties
<1>8. /\ n = validTxs /\ totalGasUsed = GasBefore(n)
      /\ \A i \in 1 .. n :
           /\ stored[i].index = i - 1 /\ stored[i].gasUsed <= stored[i].limit
           /\ stored[i].cumulative = GasBefore(i - 1) + stored[i].gasUsed
  BY <1>4 DEF GasInv, ReceiptsAddUp, n
<1>9. ASSUME NEW i \in 1 .. n + 1
      PROVE  /\ stored'[i].index = i - 1 /\ stored'[i].gasUsed <= stored'[i].limit
             /\ stored'[i].cumulative
                  = (IF i - 1 = 0 THEN 0 ELSE stored'[i - 1].cumulative) + stored'[i].gasUsed
  <2>1. (IF i - 1 = 0 THEN 0 ELSE stored'[i - 1].cumulative) = GasBefore(i - 1)
    <3>1. i - 1 = 0 \/ i - 1 \in 1 .. n
      BY <1>4
    <3> QED
      BY <3>1, <1>6 DEF GasBefore
  <2>2. CASE i = n + 1
    <3>1. i - 1 = n
      BY <1>4, <2>2
    <3> QED
      BY <3>1, <2>1, <2>2, <1>1, <1>3, <1>6, <1>8
  <2>3. CASE i # n + 1
    <3>1. i \in 1 .. n
      BY <1>4, <2>3
    <3> QED
      BY <3>1, <2>1, <1>6, <1>8
  <2> QED
    BY <2>2, <2>3
<1>10. ReceiptsAddUp'
  <2>1. totalGasUsed' = stored'[validTxs'].cumulative /\ validTxs' # 0
    BY <1>1, <1>2, <1>3, <1>4, <1>6, <1>8
  <2> QED
    BY <1>1, <1>2, <1>6, <1>7, <1>8, <1>9, <2>1 DEF ReceiptsAddUp, GasBefore
<1> QED
  BY <1>1, <1>2, <1>5, <1>6, <1>10

(* The invariant holds at the start. *)
LEMMA GasInit == ExecutionInit => GasInv
<1> SUFFICES ASSUME ExecutionInit PROVE GasInv
  OBVIOUS
<1>1. BlockGas \in Nat /\ << >> \in Seq(StoredReceipt) /\ Len(<< >>) = 0 /\ DOMAIN << >> = {}
  BY ExecutionAssumption, EmptySeq
<1>2. ExecutionTypeOK /\ MeterInv
  BY <1>1, ExecutionTypeParts DEF ExecutionInit, MeterInv
<1>3. ReceiptsAddUp
  BY <1>1 DEF ExecutionInit, ReceiptsAddUp, GasBefore
<1> QED
  BY <1>2, <1>3 DEF GasInv

(* A program that ends has used no more than its limit. *)
LEMMA ReturnAddsUp ==
  ASSUME GasInv, running, NEW gas \in Nat, gas <= gasLimit, Return(gas)
  PROVE  GasInv'
<1>1. /\ gasLimit \in Nat /\ totalGasUsed \in Nat /\ BlockGas \in Nat
      /\ totalGasUsed + gasLimit <= BlockGas
  BY ExecutionTypeParts, ExecutionAssumption DEF GasInv, MeterInv
<1>2. Include(validTxs, gasLimit, gas) /\ totalGasUsed + gas <= BlockGas
  BY <1>1 DEF Return
<1>3. gasLimit' = 0 /\ running' = FALSE /\ remaining' = 0 /\ spent' = 0
  BY DEF Return, EndProgram
<1>4. /\ receipts' \in Seq(StoredReceipt) /\ stored' \in Seq(StoredReceipt)
      /\ validTxs' \in Nat /\ totalGasUsed' \in Nat /\ cumulativeGas' \in Nat
      /\ cumulativeGas' = totalGasUsed' /\ ReceiptsAddUp'
  BY <1>1, <1>2, IncludeAddsUp
<1>5. ExecutionTypeOK'
  <2>1. running' \in BOOLEAN
    BY <1>3
  <2>2. gasLimit' \in Nat /\ remaining' \in Nat /\ spent' \in Nat
    BY <1>3
  <2> QED
    BY <1>4, <2>1, <2>2, Zenon DEF ExecutionTypeOK, StoredReceipt
<1>6. MeterInv'
  BY <1>3, <1>4 DEF MeterInv
<1> QED
  BY <1>4, <1>5, <1>6 DEF GasInv

(* Every step keeps the invariant. *)
LEMMA GasNext == GasInv /\ [ExecutionNext]_executionVars => GasInv'
<1> SUFFICES ASSUME GasInv, [ExecutionNext]_executionVars PROVE GasInv'
  OBVIOUS
<1>1. /\ gasLimit \in Nat /\ remaining \in Nat /\ spent \in Nat /\ totalGasUsed \in Nat
      /\ cumulativeGas \in Nat /\ validTxs \in Nat /\ receipts \in Seq(StoredReceipt)
      /\ stored \in Seq(StoredReceipt) /\ running \in BOOLEAN
  BY ExecutionTypeParts DEF GasInv
<1>2. /\ GasLimits \subseteq Nat /\ OpCosts \subseteq Nat /\ StorageCosts \subseteq Nat
      /\ LogCosts \subseteq Nat /\ BlockGas \in Nat /\ FailedGas \in Nat
  BY ExecutionAssumption
<1>3. /\ running => remaining + spent = gasLimit /\ totalGasUsed + gasLimit <= BlockGas
      /\ cumulativeGas = totalGasUsed
  BY DEF GasInv, MeterInv
<1>4. CASE UNCHANGED executionVars
  BY <1>4 DEF GasInv, ExecutionTypeOK, MeterInv, ReceiptsAddUp, GasBefore, executionVars, meter,
              block
<1>5. ASSUME NEW limit \in GasLimits, Transfer(limit) PROVE GasInv'
  <2>1. /\ limit \in Nat /\ Include(validTxs, limit, limit) /\ totalGasUsed + limit <= BlockGas
        /\ ~running /\ UNCHANGED <<gasLimit, running, remaining, spent>>
    BY <1>2, <1>5 DEF Transfer, Fits, meter
  <2>2. /\ receipts' \in Seq(StoredReceipt) /\ stored' \in Seq(StoredReceipt)
        /\ validTxs' \in Nat /\ totalGasUsed' \in Nat /\ cumulativeGas' \in Nat
        /\ cumulativeGas' = totalGasUsed' /\ ReceiptsAddUp'
    BY <2>1, IncludeAddsUp
  <2> QED
    BY <1>1, <2>1, <2>2 DEF GasInv, ExecutionTypeOK, MeterInv, StoredReceipt
<1>6. ASSUME NEW limit \in GasLimits, NotApplied(limit) PROVE GasInv'
  <2> DEFINE receipt == Receipt(validTxs, limit, FailedGas, cumulativeGas + FailedGas)
  <2>1. receipt \in StoredReceipt
    BY <1>1, <1>2 DEF Receipt, StoredReceipt
  <2>2. /\ receipts' = Append(receipts, receipt)
        /\ UNCHANGED <<gasLimit, running, remaining, spent, validTxs, totalGasUsed, cumulativeGas,
                       stored>>
    BY <1>6 DEF NotApplied, meter
  <2> HIDE DEF receipt
  <2>3. receipts' \in Seq(StoredReceipt)
    BY <1>1, <2>1, <2>2, AppendProperties
  <2> QED
    BY <1>1, <2>2, <2>3
    DEF GasInv, ExecutionTypeOK, MeterInv, ReceiptsAddUp, GasBefore, StoredReceipt
<1>7. ASSUME NEW limit \in GasLimits, Execute(limit) PROVE GasInv'
  <2>1. /\ limit \in Nat /\ totalGasUsed + limit <= BlockGas
        /\ running' = TRUE /\ gasLimit' = limit /\ remaining' = limit /\ spent' = 0
        /\ UNCHANGED <<validTxs, totalGasUsed, cumulativeGas, receipts, stored>>
    BY <1>2, <1>7 DEF Execute, Fits, block
  <2> QED
    BY <1>1, <1>3, <2>1
    DEF GasInv, ExecutionTypeOK, MeterInv, ReceiptsAddUp, GasBefore, StoredReceipt
<1>8. ASSUME running, NEW costs, costs \subseteq Nat, Op(costs) PROVE GasInv'
  <2>1. PICK amount \in costs : OutOfGas(amount) \/ Charge(amount)
    BY <1>8 DEF Op
  <2>2. amount \in Nat
    BY <1>8
  <2>3. CASE OutOfGas(amount)
    <3>1. Return(spent + remaining) /\ spent + remaining \in Nat /\ spent + remaining <= gasLimit
      BY <1>1, <1>3, <1>8, <2>3 DEF OutOfGas
    <3> QED
      BY <3>1, <1>8, ReturnAddsUp
  <2>4. CASE Charge(amount)
    <3>1. /\ amount <= remaining /\ remaining' = remaining - amount /\ spent' = spent + amount
          /\ UNCHANGED <<gasLimit, running, validTxs, totalGasUsed, cumulativeGas, receipts,
                         stored>>
      BY <2>4 DEF Charge, Affords, block
    <3>2. remaining' \in Nat /\ spent' \in Nat /\ remaining' + spent' = remaining + spent
      BY <1>1, <2>2, <3>1
    <3> QED
      BY <1>1, <1>3, <3>1, <3>2
      DEF GasInv, ExecutionTypeOK, MeterInv, ReceiptsAddUp, GasBefore, StoredReceipt
  <2> QED
    BY <2>1, <2>3, <2>4
<1>9. ASSUME running, DivideByZero PROVE GasInv'
  <2>1. PICK amount \in OpCosts : amount <= remaining /\ Return(spent + amount)
    BY <1>9 DEF DivideByZero, Affords
  <2>2. spent + amount \in Nat /\ spent + amount <= gasLimit
    BY <1>1, <1>2, <1>3, <1>9, <2>1
  <2> QED
    BY <1>9, <2>1, <2>2, ReturnAddsUp
<1>10. ASSUME running, Finish PROVE GasInv'
  <2>1. spent <= gasLimit
    BY <1>1, <1>3, <1>10
  <2> QED
    BY <1>1, <1>10, <2>1, ReturnAddsUp DEF Finish
<1>11. ASSUME ProgramFails \/ NextBlock PROVE GasInv'
  <2>1. EmptyBlock
    BY <1>11 DEF ProgramFails, NextBlock
  <2>2. /\ running' = FALSE /\ gasLimit' \in Nat /\ remaining' \in Nat /\ spent' \in Nat
    BY <1>1, <1>11 DEF ProgramFails, NextBlock, EndProgram, meter
  <2>3. /\ receipts' \in Seq(StoredReceipt) /\ stored' \in Seq(StoredReceipt)
        /\ validTxs' \in Nat /\ totalGasUsed' \in Nat /\ cumulativeGas' \in Nat
        /\ cumulativeGas' = totalGasUsed' /\ ReceiptsAddUp'
    BY <2>1, EmptyAddsUp
  <2> QED
    BY <2>2, <2>3 DEF GasInv, ExecutionTypeOK, MeterInv, StoredReceipt
<1> QED
  BY <1>2, <1>4, <1>5, <1>6, <1>7, <1>8, <1>9, <1>10, <1>11
  DEF ExecutionNext, StackOp, StorageOp, Log

(* The invariant holds of every behaviour. *)
LEMMA GasInvariant == ExecutionSpec => []GasInv
BY GasInit, GasNext, PTL DEF ExecutionSpec

(* Meter, counters and receipts keep their types for any costs and limits. *)
THEOREM ExecutionType == ExecutionSpec => []ExecutionTypeOK
<1>1. GasInv => ExecutionTypeOK
  BY DEF GasInv
<1> QED
  BY <1>1, GasInvariant, PTL

(* The stored receipts of a block account for its gas, for any costs and limits and
   whatever programs do: numbers without a gap, none above its limit, the sum within
   that of the block. *)
THEOREM ReceiptsAccount == ExecutionSpec => []ReceiptsAddUp
<1>1. GasInv => ReceiptsAddUp
  BY DEF GasInv
<1> QED
  BY <1>1, GasInvariant, PTL
=============================================================================
