---------------------------- MODULE PublishQueue ----------------------------
(***************************************************************************)
(* PacedPusher and PublishQueue: commits of the queue branch are replayed   *)
(* onto the publish branch, one per interval, each tree once.  The history  *)
(* and the schedule are tables that all processes share; every process has  *)
(* a clone of its own, with remote-tracking refs that are as fresh as its   *)
(* last fetch.  An action is the code between two awaits.  A commit of the  *)
(* queue is its position in it.                                             *)
(***************************************************************************)
EXTENDS Integers, Sequences, FiniteSets, FiniteSetsExt, SequencesExt

CONSTANTS
  Process,      \* worker processes, each with a clone
  Pacer,        \* instances of PacedPusher; a process makes a new one whenever it is elected
  Hosts,        \* where the pacers may run: functions from Pacer to Process
  treeOf,       \* the tree of each commit of the queue, a sequence
  good,         \* assessCommitForSha of each
  Interval,     \* intervalMinutes in ticks
  Batch,        \* AGENT_DUPLICATE_SKIP_BATCH
  MaxFaults     \* bound on crashes, lost elections, failed queries and lost answers

ASSUME PublishAssumption ==
  /\ Hosts \subseteq [Pacer -> Process]
  /\ treeOf \in Seq(Nat) /\ good \in [DOMAIN treeOf -> BOOLEAN]
  /\ {Interval, Batch} \subseteq Nat \ {0} /\ MaxFaults \in Nat

VARIABLES
  host,                  \* the process of each pacer
  queued,                \* commits on the queue branch of the remote
  main,                  \* what was replayed onto the publish branch of the remote
  processed,             \* source commits in agent_publish_history
  wait,                  \* ticks until next_publish_at of agent_publish_cursor
  leader,                \* publisherLeader of each process
  mainSeen, queueSeen,   \* of each clone: length of both branches at its last fetch
  pc,                    \* the await at which a pacer's tick waits; "idle" if none is in flight
  pick,                  \* nextCommit
  publishing,            \* whether the row about to be written is that of a push
  next,                  \* the nextPublishAt about to be written, in ticks from now
  duplicateSkips, qualitySkips,
  sincePush,             \* history: ticks since the last push, up to Interval
  calm,                  \* history: no fault so far, and never two ticks in flight
  faults                 \* history: faults so far

clones == <<mainSeen, queueSeen>>
hand == <<pick, publishing, next, duplicateSkips, qualitySkips>>
table == <<processed, wait>>
history == <<sincePush, calm, faults>>
vars == <<host, queued, main, table, leader, clones, pc, hand, history>>

PC == {"idle", "status", "pick", "verify", "mark", "write"}

Init ==
  /\ host \in Hosts
  /\ queued = 0 /\ main = << >> /\ processed = {} /\ wait = 0
  /\ leader = [h \in Process |-> FALSE]
  /\ mainSeen = [h \in Process |-> 0] /\ queueSeen = [h \in Process |-> 0]
  /\ pc = [p \in Pacer |-> "idle"] /\ pick = [p \in Pacer |-> 0]
  /\ publishing = [p \in Pacer |-> FALSE] /\ next = [p \in Pacer |-> 0]
  /\ duplicateSkips = [p \in Pacer |-> 0] /\ qualitySkips = [p \in Pacer |-> 0]
  /\ sincePush = Interval /\ calm = TRUE /\ faults = 0

Goto(p, await) == pc' = [pc EXCEPT ![p] = await]

\* The tick returns or throws; the finally clause lowers tickInFlight.
EndTick(p) ==
  /\ Goto(p, "idle")
  /\ pick' = [pick EXCEPT ![p] = 0] /\ publishing' = [publishing EXCEPT ![p] = FALSE]
  /\ next' = [next EXCEPT ![p] = 0]
  /\ duplicateSkips' = [duplicateSkips EXCEPT ![p] = 0]
  /\ qualitySkips' = [qualitySkips EXCEPT ![p] = 0]

Fault == faults < MaxFaults /\ faults' = faults + 1 /\ calm' = FALSE /\ UNCHANGED sincePush

(***************************************************************************)
(* fetchRemoteBranches.  The publish branch is fetched, or the rejection    *)
(* that nobody awaits ends the process (Crash); a failed fetch of the queue *)
(* branch is ignored.                                                       *)
(***************************************************************************)
FetchMain(h) == mainSeen' = [mainSeen EXCEPT ![h] = Len(main)]
Fetch(h) == FetchMain(h) /\ queueSeen' = [queueSeen EXCEPT ![h] = queued]
FetchPartly(h) == Fault /\ FetchMain(h) /\ UNCHANGED queueSeen

TreesOf(positions) == {treeOf[i] : i \in positions}

\* findPublishedCommitByTreeInGit, in the clone of h.
OnMain(h, i) == treeOf[i] \in TreesOf({main[k] : k \in 1 .. mainSeen[h]})

\* hasProcessedTree
InHistory(i) == treeOf[i] \in TreesOf(processed)

\* getUnprocessedQueueCommitList
Unprocessed(h) == {i \in 1 .. queueSeen[h] : ~InHistory(i)}

(***************************************************************************)
(* tickNow.  The interval and the timer of 15 s fire also in a pacer that   *)
(* was stopped or replaced: the flag of the process is looked at later.     *)
(***************************************************************************)
Fire(p) ==
  /\ pc[p] = "idle"
  /\ \/ /\ Fetch(host[p])
        /\ calm' = (calm /\ \A q \in Pacer : pc[q] = "idle")
        /\ UNCHANGED <<sincePush, faults>>
     \/ FetchPartly(host[p])
  /\ Goto(p, "status")
  /\ UNCHANGED <<host, queued, main, table, leader, hand>>

(***************************************************************************)
(* refreshPublishQueueStatus: a failed query yields a status with no        *)
(* schedule, which does not hold the tick back.                             *)
(***************************************************************************)
CheckTurn(p) ==
  /\ pc[p] = "status"
  /\ leader[host[p]]
  /\ \/ wait = 0 /\ Fetch(host[p]) /\ UNCHANGED history
     \/ wait = 0 /\ FetchPartly(host[p])
     \/ wait > 0 /\ Fault /\ Fetch(host[p])
  /\ Goto(p, "pick")
  /\ UNCHANGED <<host, queued, main, table, leader, hand>>

NotMyTurnInFlight(p) ==  \* Mutant: an early return skips the finally clause.
  /\ pc[p] = "status"
  /\ ~leader[host[p]] \/ wait > 0
  /\ Goto(p, "stuck")
  /\ UNCHANGED <<host, queued, main, table, leader, clones, hand, history>>

NotMyTurn(p) ==
  /\ pc[p] = "status"
  /\ ~leader[host[p]] \/ wait > 0
  /\ EndTick(p)
  /\ UNCHANGED <<host, queued, main, table, leader, clones, history>>

(***************************************************************************)
(* getNextQueuedSourceCommit, and the look for its tree in the clone.       *)
(***************************************************************************)
Pick(p) ==
  /\ pc[p] = "pick" /\ Unprocessed(host[p]) # {}
  /\ LET i == Min(Unprocessed(host[p]))
     IN  /\ pick' = [pick EXCEPT ![p] = i]
         /\ IF OnMain(host[p], i)
            THEN Goto(p, "mark") /\ duplicateSkips' = [duplicateSkips EXCEPT ![p] = @ + 1]
            ELSE Goto(p, "verify") /\ UNCHANGED duplicateSkips
  /\ UNCHANGED <<host, queued, main, table, leader, clones, publishing, next, qualitySkips,
                 history>>

Drained(p) ==
  /\ pc[p] = "pick" /\ Unprocessed(host[p]) = {}
  /\ EndTick(p)
  /\ UNCHANGED <<host, queued, main, table, leader, clones, history>>

\* hasPublishedTree
Duplicate(p) ==
  /\ pc[p] = "verify" /\ (InHistory(pick[p]) \/ OnMain(host[p], pick[p]))
  /\ Goto(p, "mark")
  /\ duplicateSkips' = [duplicateSkips EXCEPT ![p] = @ + 1]
  /\ UNCHANGED <<host, queued, main, table, leader, clones, pick, publishing, next,
                 qualitySkips, history>>

Fresh(p) == pc[p] = "verify" /\ ~InHistory(pick[p]) /\ ~OnMain(host[p], pick[p])

\* The quality gate.
LowQuality(p) ==
  /\ Fresh(p) /\ ~good[pick[p]]
  /\ Goto(p, "mark")
  /\ qualitySkips' = [qualitySkips EXCEPT ![p] = @ + 1]
  /\ UNCHANGED <<host, queued, main, table, leader, clones, pick, publishing, next,
                 duplicateSkips, history>>

(***************************************************************************)
(* publishCommit: commit-tree on the tip of the clone's publish branch, and *)
(* a push, which the remote takes only if that is its tip too.  The answer  *)
(* may be lost after the remote has taken it.                               *)
(***************************************************************************)
PushAccepted(p) ==
  /\ main' = Append(main, pick[p])
  /\ mainSeen' = [mainSeen EXCEPT ![host[p]] = Len(main')]
  /\ Goto(p, "mark")
  /\ publishing' = [publishing EXCEPT ![p] = TRUE]
  /\ next' = [next EXCEPT ![p] = Interval]
  /\ sincePush' = 0
  /\ UNCHANGED <<queueSeen, pick, duplicateSkips, qualitySkips, calm, faults>>

PublishForced(p) ==  \* Mutant: push --force.
  /\ Fresh(p) /\ good[pick[p]]
  /\ PushAccepted(p)
  /\ UNCHANGED <<host, queued, table, leader>>

PublishUnconfirmed(p) ==  \* Mutant: a refused push is taken for a success.
  /\ Fresh(p) /\ good[pick[p]]
  /\ IF mainSeen[host[p]] = Len(main)
     THEN PushAccepted(p)
     ELSE /\ Goto(p, "mark")
          /\ publishing' = [publishing EXCEPT ![p] = TRUE]
          /\ next' = [next EXCEPT ![p] = Interval]
          /\ UNCHANGED <<main, clones, pick, duplicateSkips, qualitySkips, history>>
  /\ UNCHANGED <<host, queued, table, leader>>

Publish(p) ==
  /\ Fresh(p) /\ good[pick[p]]
  /\ LET accepted == mainSeen[host[p]] = Len(main)
     IN  \/ accepted /\ PushAccepted(p)
         \/ ~accepted /\ EndTick(p) /\ UNCHANGED <<main, clones, history>>
         \/ /\ accepted /\ faults < MaxFaults
            /\ main' = Append(main, pick[p])
            /\ EndTick(p)
            /\ sincePush' = 0 /\ calm' = FALSE /\ faults' = faults + 1
            /\ UNCHANGED clones
  /\ UNCHANGED <<host, queued, table, leader>>

(***************************************************************************)
(* markQueuedCommitProcessed: the cursor is read, then history and cursor   *)
(* are written in one transaction.  A skip keeps the schedule it has read.  *)
(***************************************************************************)
MarkAdvancing(p) ==  \* Mutant: a skip publishes nothing and makes the next commit due at once.
  /\ pc[p] = "mark"
  /\ Goto(p, "write")
  /\ next' = [next EXCEPT ![p] = 0]
  /\ UNCHANGED <<host, queued, main, table, leader, clones, pick, publishing, duplicateSkips,
                 qualitySkips, history>>

Mark(p) ==
  /\ pc[p] = "mark"
  /\ Goto(p, "write")
  /\ next' = [next EXCEPT ![p] = IF publishing[p] THEN @ ELSE wait]
  /\ UNCHANGED <<host, queued, main, table, leader, clones, pick, publishing, duplicateSkips,
                 qualitySkips, history>>

Write(p) ==
  /\ pc[p] = "write"
  /\ processed' = processed \cup {pick[p]}
  /\ wait' = next[p]
  /\ IF publishing[p] \/ duplicateSkips[p] + qualitySkips[p] >= Batch
     THEN EndTick(p) /\ UNCHANGED <<clones, history>>
     ELSE /\ Goto(p, "pick")
          /\ \/ duplicateSkips[p] = 0 /\ Fetch(host[p]) /\ UNCHANGED history
             \/ duplicateSkips[p] = 0 /\ FetchPartly(host[p])
             \/ duplicateSkips[p] > 0 /\ UNCHANGED <<clones, history>>
          /\ UNCHANGED hand
  /\ UNCHANGED <<host, queued, main, leader>>

\* A query throws, and with it the tick.
QueryFails(p) ==
  /\ pc[p] \in {"pick", "verify", "mark", "write"}
  /\ Fault
  /\ EndTick(p)
  /\ UNCHANGED <<host, queued, main, table, leader, clones>>

-----------------------------------------------------------------------------
\* The agent pushes a commit to the queue branch.
Author ==
  /\ queued < Len(treeOf)
  /\ queued' = queued + 1
  /\ UNCHANGED <<host, main, table, leader, clones, pc, hand, history>>

\* setPublisherLeader, from the callbacks of the election.  Two may lead at a time.
Acquire(h) ==
  /\ ~leader[h]
  /\ leader' = [leader EXCEPT ![h] = TRUE]
  /\ UNCHANGED <<host, queued, main, table, clones, pc, hand, history>>

Lose(h) ==
  /\ leader[h] /\ Fault
  /\ leader' = [leader EXCEPT ![h] = FALSE]
  /\ UNCHANGED <<host, queued, main, table, clones, pc, hand>>

Crash(h) ==
  /\ Fault
  /\ leader' = [leader EXCEPT ![h] = FALSE]
  /\ LET Reset(f, v) == [p \in Pacer |-> IF host[p] = h THEN v ELSE f[p]]
     IN  /\ pc' = Reset(pc, "idle") /\ pick' = Reset(pick, 0)
         /\ publishing' = Reset(publishing, FALSE) /\ next' = Reset(next, 0)
         /\ duplicateSkips' = Reset(duplicateSkips, 0)
         /\ qualitySkips' = Reset(qualitySkips, 0)
  /\ UNCHANGED <<host, queued, main, table, clones>>

Less(n) == IF n = 0 THEN 0 ELSE n - 1

Tick ==
  /\ wait' = Less(wait)
  /\ next' = [p \in Pacer |-> Less(next[p])]
  /\ sincePush' = IF sincePush < Interval THEN sincePush + 1 ELSE Interval
  /\ UNCHANGED <<host, queued, main, processed, leader, clones, pc, pick, publishing,
                 duplicateSkips, qualitySkips, calm, faults>>

Step(p) ==
  \/ CheckTurn(p) \/ NotMyTurn(p) \/ Pick(p) \/ Drained(p) \/ Duplicate(p)
  \/ LowQuality(p) \/ Publish(p) \/ Mark(p) \/ Write(p) \/ QueryFails(p)

Next ==
  \/ \E p \in Pacer : Fire(p) \/ Step(p)
  \/ \E h \in Process : Acquire(h) \/ Lose(h) \/ Crash(h)
  \/ Author
  \/ Tick

Spec == Init /\ [][Next]_vars

(***************************************************************************)
(* Timers fire, queries return or throw, time passes, and some process is   *)
(* elected again.  Nothing forces the agent to write a commit.              *)
(***************************************************************************)
FairSpec ==
  /\ Spec
  /\ \A p \in Pacer : WF_vars(Fire(p)) /\ WF_vars(Step(p))
  /\ \A h \in Process : WF_vars(Acquire(h))
  /\ WF_vars(Tick)

-----------------------------------------------------------------------------
(* Type correctness of the whole state. *)
TypeOK ==
  /\ host \in [Pacer -> Process] /\ leader \in [Process -> BOOLEAN]
  /\ queued \in 0 .. Len(treeOf) /\ main \in Seq(1 .. Len(treeOf))
  /\ processed \subseteq 1 .. Len(treeOf) /\ wait \in 0 .. Interval
  /\ mainSeen \in [Process -> Nat] /\ queueSeen \in [Process -> 0 .. Len(treeOf)]
  /\ pc \in [Pacer -> PC] /\ pick \in [Pacer -> 0 .. Len(treeOf)]
  /\ publishing \in [Pacer -> BOOLEAN] /\ next \in [Pacer -> 0 .. Interval]
  /\ duplicateSkips \in [Pacer -> 0 .. Batch] /\ qualitySkips \in [Pacer -> 0 .. Batch]
  /\ sincePush \in 0 .. Interval /\ calm \in BOOLEAN /\ faults \in 0 .. MaxFaults

(* The publish branch is a published log, whatever crashes between push and
   row, however many processes believe they lead and whatever answers get lost:
   each tree once, in the order of the queue (publishCommit, hasPublishedTree). *)
Log == INSTANCE PublishedLog WITH log <- main
PublishesLog == Log!Spec

(* A commit that the history calls processed is on the publish branch with its
   tree, or the tree was refused by the quality gate: no race of two pacers and
   no crash drops work (markQueuedCommitProcessed). *)
NothingDropped ==
  \A i \in processed :
    \E j \in 1 .. queued : treeOf[j] = treeOf[i] /\ (j \in ToSet(main) \/ ~good[j])

(* Pushes keep the interval as long as nothing fails and ticks do not overlap. *)
Paced == [][main' # main /\ calm => sincePush = Interval]_vars

(* Again and again the publisher catches up: every good commit of the queue whose
   tree no refused commit has is published, through crashes, lost elections,
   failed queries and refused pushes (tickNow). *)
Worthy(i) == \A j \in DOMAIN treeOf : treeOf[j] = treeOf[i] => good[j]
GoodIsPublished ==
  []<>(\A i \in 1 .. queued : Worthy(i) => treeOf[i] \in TreesOf(ToSet(main)))
=============================================================================
