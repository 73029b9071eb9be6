---------------------------- MODULE MCAgentTasks ----------------------------
(* Two replicas, two tasks.  If one of them lacks edit scopes the other can   *)
(* be run once more than the limit and a crash allow: four times while the   *)
(* database answers, else five times.                                        *)
EXTENDS AgentTasks, TLC

CONSTANTS w1, w2, l1, l2, t1, t2

Alike == Permutations({w1, w2}) \cup Permutations({t1, t2})

FewRuns ==
  started <= IF unscoped = {} THEN 3 ELSE IF lostWrites + failedLoads = 0 THEN 4 ELSE 5

\* One fault of the database, under one leader alone, a lost write with one task alone;
\* with two tasks to run, a crash or an hour, not both.
FewFaults ==
  /\ lostWrites + failedLoads <= 1
  /\ lostWrites + failedLoads > 0 => Cardinality(leaders) <= 1
  /\ unscoped = {} => crashes + hours <= 1 /\ lostWrites = 0
=============================================================================
