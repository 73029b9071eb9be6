--------------------------- MODULE LeaderElection ---------------------------
(***************************************************************************)
(* startLeaderElection in every worker replica: the lease in Redis, the     *)
(* renew and poll timers, and the shutdown handler of worker.ts that        *)
(* releases the lease.  One tick is 10 s of real time.  Within a tick       *)
(* events happen in any order, and a running process is punctual: time does *)
(* not pass while it has a timer due or a reply to handle.  A stalled       *)
(* process, one whose event loop is blocked, is late; one cut off from      *)
(* Redis gets errors.                                                       *)
(***************************************************************************)
EXTENDS Integers

CONSTANTS
  Proc,         \* replicas, by lease id
  None,         \* no lease: the key does not exist
  Ttl,          \* LEASE_TTL_MS in ticks (3)
  RenewTicks,   \* RENEW_INTERVAL_MS in ticks (1)
  PollTicks     \* interval of the follower poll in ticks (3, LEASE_TTL_MS again)

ASSUME ElectionAssumption ==
  /\ None \notin Proc
  /\ {Ttl, RenewTicks, PollTicks} \subseteq Nat \ {0}

ASSUME RenewBeforeExpiry == RenewTicks < Ttl

VARIABLES
  lease, ttl,    \* the key in Redis and what is left of its expiry
  up, stalled, cut,  \* of each process: alive, event loop blocked, without Redis
  owner,         \* the flag of each process
  reply,         \* an answer of Redis not yet handled, where it will change something
  renewIn, pollIn,  \* ticks to the next run of each timer
  silent,        \* history: ticks since the process last set or renewed the lease
  steady,        \* history: ticks the process has been up, not stalled, not cut off
  quiet          \* history: ticks since any process last set or renewed the lease

key == <<lease, ttl>>
faults == <<up, stalled, cut>>
timers == <<renewIn, pollIn>>
vars == <<key, faults, owner, reply, timers, silent, steady, quiet>>

Vacant == Ttl + PollTicks  \* the longest a lease can go without a holder

Least(m, n) == IF m < n THEN m ELSE n
Running(p) == up[p] /\ ~stalled[p]

Init ==
  /\ lease = None /\ ttl = 0
  /\ up = [p \in Proc |-> FALSE] /\ stalled = [p \in Proc |-> FALSE]
  /\ cut = [p \in Proc |-> FALSE]
  /\ owner = [p \in Proc |-> FALSE] /\ reply = [p \in Proc |-> "none"]
  /\ renewIn = [p \in Proc |-> 0] /\ pollIn = [p \in Proc |-> 0]
  /\ silent = [p \in Proc |-> 0] /\ steady = [p \in Proc |-> 0]
  /\ quiet = 0

\* The lease is set or renewed by p at Redis.
Hold(p) ==
  /\ lease' = p /\ ttl' = Ttl
  /\ silent' = [silent EXCEPT ![p] = 0] /\ quiet' = 0

\* Everything a process forgets when it stops.
Down(p) ==
  /\ up' = [up EXCEPT ![p] = FALSE] /\ stalled' = [stalled EXCEPT ![p] = FALSE]
  /\ owner' = [owner EXCEPT ![p] = FALSE] /\ reply' = [reply EXCEPT ![p] = "none"]
  /\ renewIn' = [renewIn EXCEPT ![p] = 0] /\ pollIn' = [pollIn EXCEPT ![p] = 0]
  /\ silent' = [silent EXCEPT ![p] = 0] /\ steady' = [steady EXCEPT ![p] = 0]
  /\ UNCHANGED <<cut, quiet>>

\* The process starts; its first loop runs at once.
Start(p) ==
  /\ ~up[p]
  /\ up' = [up EXCEPT ![p] = TRUE]
  /\ UNCHANGED <<key, stalled, cut, owner, reply, timers, silent, steady, quiet>>

(***************************************************************************)
(* loop.  An owner does nothing; the others try SET NX PX.  An error of     *)
(* Redis here is caught by nobody and ends the process.                     *)
(***************************************************************************)
PollOwner(p) ==
  /\ Running(p) /\ pollIn[p] = 0 /\ owner[p]
  /\ pollIn' = [pollIn EXCEPT ![p] = PollTicks]
  /\ UNCHANGED <<key, faults, owner, reply, renewIn, silent, steady, quiet>>

TryAcquireNoExpiry(p) ==  \* Mutant: SET NX without PX, a lease that never runs out.
  /\ Running(p) /\ pollIn[p] = 0 /\ ~owner[p] /\ reply[p] = "none" /\ ~cut[p]
  /\ pollIn' = [pollIn EXCEPT ![p] = PollTicks]
  /\ IF lease = None
     THEN /\ lease' = p /\ ttl' = Ttl + PollTicks + 2
          /\ silent' = [silent EXCEPT ![p] = 0] /\ quiet' = 0
          /\ reply' = [reply EXCEPT ![p] = "acquired"]
     ELSE UNCHANGED <<key, reply, silent, quiet>>
  /\ UNCHANGED <<faults, owner, renewIn, steady>>

TryAcquire(p) ==
  /\ Running(p) /\ pollIn[p] = 0 /\ ~owner[p] /\ reply[p] = "none" /\ ~cut[p]
  /\ pollIn' = [pollIn EXCEPT ![p] = PollTicks]
  /\ IF lease = None
     THEN Hold(p) /\ reply' = [reply EXCEPT ![p] = "acquired"]
     ELSE UNCHANGED <<key, reply, silent, quiet>>
  /\ UNCHANGED <<faults, owner, renewIn, steady>>

PollError(p) ==
  /\ Running(p) /\ pollIn[p] = 0 /\ ~owner[p] /\ cut[p]
  /\ Down(p)
  /\ UNCHANGED key

\* The answer to SET NX: owner from here on, and onAcquire.
Acquired(p) ==
  /\ Running(p) /\ reply[p] = "acquired"
  /\ owner' = [owner EXCEPT ![p] = TRUE]
  /\ renewIn' = [renewIn EXCEPT ![p] = RenewTicks]
  /\ reply' = [reply EXCEPT ![p] = "none"]
  /\ UNCHANGED <<key, faults, pollIn, silent, steady, quiet>>

(***************************************************************************)
(* The renew timer.  RENEW_SCRIPT extends the lease only of its holder; an  *)
(* error of Redis is logged and the process stays owner.                    *)
(***************************************************************************)
RenewAny(p) ==  \* Mutant: PEXPIRE without comparing the holder.
  /\ Running(p) /\ owner[p] /\ renewIn[p] = 0 /\ reply[p] = "none"
  /\ renewIn' = [renewIn EXCEPT ![p] = RenewTicks]
  /\ IF cut[p] \/ lease = None
     THEN UNCHANGED <<ttl, reply, silent, quiet>>
     ELSE /\ ttl' = Ttl /\ quiet' = 0
          /\ silent' = [silent EXCEPT ![p] = 0]
          /\ UNCHANGED reply
  /\ UNCHANGED <<lease, faults, owner, pollIn, steady>>

Renew(p) ==
  /\ Running(p) /\ owner[p] /\ renewIn[p] = 0 /\ reply[p] = "none"
  /\ renewIn' = [renewIn EXCEPT ![p] = RenewTicks]
  /\ \/ cut[p] /\ UNCHANGED <<key, reply, silent, quiet>>
     \/ ~cut[p] /\ lease = p /\ Hold(p) /\ UNCHANGED reply
     \/ /\ ~cut[p] /\ lease # p
        /\ reply' = [reply EXCEPT ![p] = "lost"]
        /\ UNCHANGED <<key, silent, quiet>>
  /\ UNCHANGED <<faults, owner, pollIn, steady>>

\* The answer 0 to a renewal: follower again, and onLose.
Lost(p) ==
  /\ Running(p) /\ reply[p] = "lost"
  /\ owner' = [owner EXCEPT ![p] = FALSE]
  /\ renewIn' = [renewIn EXCEPT ![p] = 0]
  /\ reply' = [reply EXCEPT ![p] = "none"]
  /\ silent' = [silent EXCEPT ![p] = 0]
  /\ UNCHANGED <<key, faults, pollIn, steady, quiet>>

(***************************************************************************)
(* The connection breaks before the answer arrives.  For SET NX that is an  *)
(* error nobody catches, and the key stays set; for a renewal it is logged. *)
(***************************************************************************)
AnswerLost(p) ==
  /\ Running(p) /\ cut[p]
  /\ \/ reply[p] = "acquired" /\ Down(p)
     \/ /\ reply[p] = "lost"
        /\ reply' = [reply EXCEPT ![p] = "none"]
        /\ UNCHANGED <<faults, owner, timers, silent, steady, quiet>>
  /\ UNCHANGED key

(***************************************************************************)
(* shutdown on SIGINT or SIGTERM: release, then exit.  RELEASE_SCRIPT       *)
(* deletes the key only of its holder; an error leaves it to expire.        *)
(***************************************************************************)
ShutdownDelAny(p) ==  \* Mutant: DEL without comparing the holder.
  /\ Running(p)
  /\ Down(p)
  /\ IF owner[p] /\ ~cut[p] THEN lease' = None /\ ttl' = 0 ELSE UNCHANGED key

Shutdown(p) ==
  /\ Running(p)
  /\ Down(p)
  /\ IF owner[p] /\ ~cut[p] /\ lease = p THEN lease' = None /\ ttl' = 0 ELSE UNCHANGED key

Crash(p) == up[p] /\ Down(p) /\ UNCHANGED key

Disturb(p) == steady' = [steady EXCEPT ![p] = 0]

Stall(p) ==
  /\ Running(p) /\ Disturb(p)
  /\ stalled' = [stalled EXCEPT ![p] = TRUE]
  /\ UNCHANGED <<key, up, cut, owner, reply, timers, silent, quiet>>

Wake(p) ==
  /\ stalled[p] /\ Disturb(p)
  /\ stalled' = [stalled EXCEPT ![p] = FALSE]
  /\ UNCHANGED <<key, up, cut, owner, reply, timers, silent, quiet>>

CutOff(p) ==
  /\ ~cut[p] /\ Disturb(p)
  /\ cut' = [cut EXCEPT ![p] = TRUE]
  /\ UNCHANGED <<key, up, stalled, owner, reply, timers, silent, quiet>>

Reconnect(p) ==
  /\ cut[p] /\ Disturb(p)
  /\ cut' = [cut EXCEPT ![p] = FALSE]
  /\ UNCHANGED <<key, up, stalled, owner, reply, timers, silent, quiet>>

\* Redis drops the key when its time is over.
Expire ==
  /\ lease # None /\ ttl = 0
  /\ lease' = None
  /\ UNCHANGED <<ttl, faults, owner, reply, timers, silent, steady, quiet>>

Due(p) == reply[p] # "none" \/ pollIn[p] = 0 \/ (owner[p] /\ renewIn[p] = 0)

Less(n) == IF n = 0 THEN 0 ELSE n - 1

Tick ==
  /\ \A p \in Proc : Running(p) => ~Due(p)
  /\ ~(lease # None /\ ttl = 0)
  /\ ttl' = Less(ttl)
  /\ renewIn' = [p \in Proc |-> Less(renewIn[p])]
  /\ pollIn' = [p \in Proc |-> Less(pollIn[p])]
  /\ silent' = [p \in Proc |->
       IF owner[p] \/ reply[p] = "acquired" THEN Least(silent[p] + 1, Ttl) ELSE silent[p]]
  /\ steady' = [p \in Proc |->
       IF Running(p) /\ ~cut[p] THEN Least(steady[p] + 1, Vacant + 1) ELSE 0]
  /\ quiet' = Least(quiet + 1, Vacant + 1)
  /\ UNCHANGED <<lease, faults, owner, reply>>

Next ==
  \/ \E p \in Proc :
       \/ Start(p) \/ PollOwner(p) \/ TryAcquire(p) \/ PollError(p) \/ Acquired(p)
       \/ Renew(p) \/ Lost(p) \/ AnswerLost(p) \/ Shutdown(p) \/ Crash(p)
       \/ Stall(p) \/ Wake(p) \/ CutOff(p) \/ Reconnect(p)
  \/ Expire
  \/ Tick

Spec == Init /\ [][Next]_vars

-----------------------------------------------------------------------------
(* Type correctness of the whole state. *)
TypeOK ==
  /\ lease \in Proc \cup {None} /\ ttl \in 0 .. Ttl
  /\ up \in [Proc -> BOOLEAN] /\ stalled \in [Proc -> BOOLEAN] /\ cut \in [Proc -> BOOLEAN]
  /\ owner \in [Proc -> BOOLEAN] /\ reply \in [Proc -> {"none", "acquired", "lost"}]
  /\ renewIn \in [Proc -> 0 .. RenewTicks] /\ pollIn \in [Proc -> 0 .. PollTicks]
  /\ silent \in [Proc -> 0 .. Ttl] /\ steady \in [Proc -> 0 .. Vacant + 1]
  /\ quiet \in 0 .. Vacant + 1

(* A process that believes it is the leader holds the lease for as long as its
   last successful SET or renewal is younger than the TTL, so two such leaders
   never exist at a time, through crashes, stalls, late answers, shutdowns and
   lost connections (the compare of RENEW_SCRIPT and RELEASE_SCRIPT). *)
FreshLeaderHolds == \A p \in Proc : owner[p] /\ silent[p] < Ttl => lease = p

(* A leader that lost its lease is a follower again once it has been healthy
   for more than one renewal interval. *)
StaleLeaderYields ==
  \A p \in Proc : owner[p] /\ steady[p] > RenewTicks => lease = p

(* No healthy replica watches the lease go without a holder for longer than
   the TTL and one poll interval. *)
TakeoverBounded == \A q \in Proc : quiet <= Vacant \/ steady[q] < quiet
=============================================================================
