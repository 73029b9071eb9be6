--------------------------- MODULE LeaderServices ---------------------------
(***************************************************************************)
(* What one worker process starts and stops with the lease: the block       *)
(* producer with its pause after failures, the agent loop with its slow     *)
(* start, and the heartbeat of the agent network.  Starting and stopping    *)
(* runs in one piece; the timers and awaits they leave behind do not.       *)
(***************************************************************************)
EXTENDS Naturals

CONSTANTS
  MaxFailures,  \* maxConsecutiveFailures
  MaxTerms      \* bound: times the process is elected

ASSUME ServicesAssumption == MaxFailures \in Nat \ {0} /\ MaxTerms \in Nat

VARIABLES
  elected,       \* owner of leaderElection
  leaderActive,
  isProducing, failures,
  intervals,     \* production intervals that were set and not cleared
  restarts,      \* 30 s timers of the catch clause that have not fired
  producing,     \* the guard of produceBlock: a cycle is in flight
  isRunning, runtimeInitialized,
  starting,      \* calls of AgentWorker.start that await initializeRuntime
  loops,         \* copies of the agent loop that are alive
  beats,         \* heartbeat intervals that were set and not cleared
  beatHandle,    \* heartbeatInterval is one of them
  beatTimers,    \* delayed heartbeat starts
  moduleTimer,   \* the network module's own timer has not fired
  terms, pauses  \* history: elections, pauses of production

producer == <<isProducing, failures, intervals, restarts, producing>>
agent == <<isRunning, runtimeInitialized, starting, loops>>
heartbeat == <<beats, beatHandle, beatTimers, moduleTimer>>
vars == <<elected, leaderActive, producer, agent, heartbeat, terms, pauses>>

Init ==
  /\ elected = FALSE /\ leaderActive = FALSE
  /\ isProducing = FALSE /\ failures = 0 /\ intervals = 0 /\ restarts = 0 /\ producing = FALSE
  /\ isRunning = FALSE /\ runtimeInitialized = FALSE /\ starting = 0 /\ loops = 0
  /\ beats = 0 /\ beatHandle = FALSE /\ beatTimers = 0 /\ moduleTimer = TRUE
  /\ terms = 0 /\ pauses = 0

-----------------------------------------------------------------------------
\* BlockProducer.start: a first cycle at once, unless one is still in flight.
StartProducerTwice ==  \* Mutant: no look at isProducing.
  /\ isProducing' = TRUE /\ producing' = TRUE
  /\ failures' = 0 /\ intervals' = intervals + 1

StartProducer ==
  IF isProducing THEN UNCHANGED <<isProducing, failures, intervals, producing>>
  ELSE /\ isProducing' = TRUE /\ producing' = TRUE
       /\ failures' = 0 /\ intervals' = intervals + 1

\* BlockProducer.stop clears the interval it has a handle of, if any.
StopProducer ==
  /\ isProducing' = FALSE
  /\ intervals' = IF isProducing THEN intervals - 1 ELSE intervals

\* AgentWorker.start, up to its first await that waits.
StartAgent ==
  IF isRunning THEN UNCHANGED agent
  ELSE IF runtimeInitialized
       THEN isRunning' = TRUE /\ loops' = loops + 1 /\ UNCHANGED <<runtimeInitialized, starting>>
       ELSE starting' = starting + 1 /\ UNCHANGED <<isRunning, runtimeInitialized, loops>>

StopAgent == isRunning' = FALSE /\ UNCHANGED <<runtimeInitialized, starting, loops>>

\* startHeartbeat clears the interval in the handle and sets a random delay.
StartHeartbeat ==
  /\ beats' = IF beatHandle THEN beats - 1 ELSE beats
  /\ beatHandle' = FALSE /\ beatTimers' = beatTimers + 1 /\ UNCHANGED moduleTimer

StopHeartbeat ==
  /\ beats' = IF beatHandle THEN beats - 1 ELSE beats
  /\ beatHandle' = FALSE /\ UNCHANGED <<beatTimers, moduleTimer>>

-----------------------------------------------------------------------------
(***************************************************************************)
(* onAcquire: startLeaderServices, guarded by leaderActive.                 *)
(***************************************************************************)
Acquire ==
  /\ ~elected /\ terms < MaxTerms
  /\ elected' = TRUE /\ terms' = terms + 1
  /\ IF leaderActive THEN UNCHANGED <<leaderActive, producer, agent, heartbeat>>
     ELSE /\ leaderActive' = TRUE
          /\ StartHeartbeat /\ StartAgent /\ StartProducer /\ UNCHANGED restarts
  /\ UNCHANGED pauses

LoseKeepsProducer ==  \* Mutant: stopLeaderServices forgets the producer.
  /\ elected /\ elected' = FALSE /\ leaderActive' = FALSE
  /\ StopHeartbeat /\ StopAgent
  /\ UNCHANGED <<producer, terms, pauses>>

\* onLose: stopLeaderServices.
Lose ==
  /\ elected
  /\ elected' = FALSE
  /\ leaderActive' = FALSE
  /\ IF leaderActive
     THEN StopHeartbeat /\ StopAgent /\ StopProducer /\ UNCHANGED <<failures, restarts, producing>>
     ELSE UNCHANGED <<producer, agent, heartbeat>>
  /\ UNCHANGED <<terms, pauses>>

\* A tick of a production interval that is still set.
Produce ==
  /\ intervals > 0 /\ ~producing
  /\ producing' = TRUE
  /\ UNCHANGED <<elected, leaderActive, isProducing, failures, intervals, restarts, agent,
                 heartbeat, terms, pauses>>

\* The cycle in flight returns, with a block or without one.
CycleReturns ==
  /\ producing
  /\ producing' = FALSE
  /\ \/ failures' = 0
     \/ failures' = IF failures < MaxFailures THEN failures + 1 ELSE failures
  /\ UNCHANGED <<elected, leaderActive, isProducing, intervals, restarts, agent, heartbeat,
                 terms, pauses>>

CycleThrowsForGood ==  \* Mutant: the pause has no end.
  /\ producing /\ producing' = FALSE
  /\ IF failures + 1 < MaxFailures
     THEN failures' = failures + 1 /\ UNCHANGED <<isProducing, intervals, restarts, pauses>>
     ELSE failures' = MaxFailures /\ StopProducer /\ UNCHANGED restarts /\ pauses' = 1
  /\ UNCHANGED <<elected, leaderActive, agent, heartbeat, terms>>

\* The cycle throws; after too many failures production pauses for 30 s.
CycleThrows ==
  /\ producing
  /\ producing' = FALSE
  /\ IF failures + 1 < MaxFailures
     THEN failures' = failures + 1 /\ UNCHANGED <<isProducing, intervals, restarts, pauses>>
     ELSE /\ failures' = MaxFailures /\ StopProducer
          /\ restarts' = restarts + 1 /\ pauses' = 1
  /\ UNCHANGED <<elected, leaderActive, agent, heartbeat, terms>>

\* The 30 s timer starts production, elected or not.
Restart ==
  /\ restarts > 0
  /\ restarts' = restarts - 1
  /\ IF isProducing THEN failures' = 0 /\ UNCHANGED <<isProducing, intervals, producing>>
     ELSE StartProducer
  /\ UNCHANGED <<elected, leaderActive, agent, heartbeat, terms, pauses>>

\* initializeRuntime returns: start raises isRunning, elected or not, and loops.
Initialized ==
  /\ starting > 0
  /\ starting' = starting - 1
  /\ runtimeInitialized' = TRUE /\ isRunning' = TRUE /\ loops' = loops + 1
  /\ UNCHANGED <<elected, leaderActive, producer, heartbeat, terms, pauses>>

ExitAlways ==  \* Mutant: the loop ends after one task.
  /\ loops > 0 /\ loops' = loops - 1
  /\ UNCHANGED <<elected, leaderActive, producer, isRunning, runtimeInitialized, starting,
                 heartbeat, terms, pauses>>

\* A copy of the loop comes round to its condition and ends; the others go on.
Exit ==
  /\ loops > 0 /\ ~isRunning
  /\ loops' = loops - 1
  /\ UNCHANGED <<elected, leaderActive, producer, isRunning, runtimeInitialized, starting,
                 heartbeat, terms, pauses>>

\* The delay is over: a new interval takes the handle, whatever the old one was.
Beat ==
  /\ beatTimers > 0
  /\ beatTimers' = beatTimers - 1
  /\ beats' = beats + 1 /\ beatHandle' = TRUE
  /\ UNCHANGED <<moduleTimer, elected, leaderActive, producer, agent, terms, pauses>>

\* The timer that the network module sets when it is loaded, leader or not.
ModuleStart ==
  /\ moduleTimer /\ moduleTimer' = FALSE
  /\ beats' = IF beatHandle THEN beats - 1 ELSE beats
  /\ beatHandle' = FALSE /\ beatTimers' = beatTimers + 1
  /\ UNCHANGED <<elected, leaderActive, producer, agent, terms, pauses>>

Next ==
  \/ Acquire \/ Lose \/ Produce \/ CycleReturns \/ CycleThrows \/ Restart \/ Initialized
  \/ Exit \/ Beat \/ ModuleStart

Spec == Init /\ [][Next]_vars

\* Timers fire and awaits return; nothing is assumed of the election.
FairSpec ==
  /\ Spec
  /\ WF_vars(Produce) /\ WF_vars(CycleReturns \/ CycleThrows) /\ WF_vars(Restart)
  /\ WF_vars(Initialized) /\ WF_vars(Exit) /\ WF_vars(Beat)
  /\ WF_vars(ModuleStart)

-----------------------------------------------------------------------------
(* Type correctness of the whole state. *)
TypeOK ==
  /\ {elected, leaderActive, isProducing, producing, isRunning, runtimeInitialized,
      beatHandle, moduleTimer} \subseteq BOOLEAN
  /\ failures \in 0 .. MaxFailures
  /\ {intervals, restarts, starting, loops, beats, beatTimers} \subseteq Nat
  /\ terms \in 0 .. MaxTerms /\ pauses \in {0, 1}

(* However elections, pauses and late restart timers interleave, the process has
   at most one production interval, and its handle is never lost: isProducing
   says whether there is one (BlockProducer.start and stop). *)
OneInterval == intervals = IF isProducing THEN 1 ELSE 0

(* A lost lease stops production at once, unless production had paused after
   failures before (onLose, stopLeaderServices). *)
LossStopsProduction == ~elected /\ pauses = 0 => intervals = 0

(* An agent that says it runs has a loop: neither a stop in the middle of a slow
   start nor a start that finds isRunning set leaves it without one. *)
RunningHasLoop == isRunning => loops > 0

(* A process that stays elected produces blocks, works on tasks and sends
   heartbeats, from an interval that it can clear, for ever, whatever failed,
   paused, was stopped half started or started late before. *)
LeaderWorks ==
  /\ []<>(~elected \/ producing)
  /\ []<>(~elected \/ loops > 0)
  /\ []<>(~elected \/ beatHandle)

(* What docs/architecture/leader-election.md says: losing the lease stops the
   active loops. *)
LossStopsLoops == [](~elected => <>(elected \/ (intervals = 0 /\ loops = 0)))
=============================================================================
