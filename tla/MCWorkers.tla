----------------------------- MODULE MCWorkers ------------------------------
(* What two worker processes have between them: the lease, in ticks of 10 s  *)
(* (TTL 30 s, renewal 10 s, poll 30 s), and the queue branch they author.    *)
(* The two share no state: a behaviour explores one of them.                 *)
EXTENDS MCAuthoring, LeaderElection

VARIABLE part

Lease(A) == part = "lease" /\ A /\ UNCHANGED <<part, authoringVars>>
Queue(A) == part = "queue" /\ A /\ UNCHANGED <<part, vars>>

MCInit ==
  /\ part \in {"lease", "queue"} /\ Init /\ AuthoringInit
  /\ part = "lease" => home = [a \in Author |-> p1]

\* Runs are bounded, so the queue comes to rest; the lease never does.
Rest == part = "queue" /\ UNCHANGED <<part, vars, authoringVars>>

MCNext == Lease(Next) \/ Queue(AuthoringNext) \/ Rest

MCSpec == MCInit /\ [][MCNext]_<<part, vars, authoringVars>>
=============================================================================
