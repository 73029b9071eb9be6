--------------------------- MODULE ReplicaProofs ----------------------------
(***************************************************************************)
(* Proofs about what worker replicas have between them: LeaderElection, for any*)
(* replicas and intervals, and Authoring, for any loops, clones, files, scopes,*)
(* limits and errors.                                                       *)
(***************************************************************************)
EXTENDS LeaderElection, Authoring, IndexLemmas

-----------------------------------------------------------------------------
(* LeaderElection *)

\* p has been told, or will be, that it is the leader.
Claims(p) == owner[p] \/ reply[p] = "acquired"

(***************************************************************************)
(* The strengthening of FreshLeaderHolds: the claim starts with the SET and *)
(* not with its answer, and the expiry of the key does not run out before   *)
(* the claim is TTL old.                                                    *)
(***************************************************************************)
ClaimInv ==
  \A p \in Proc : Claims(p) /\ silent[p] < Ttl => lease = p /\ ttl + silent[p] >= Ttl

ElectionInv == TypeOK /\ ClaimInv

(* Initially nobody claims the lease. *)
LEMMA InitElection == Init => ElectionInv
  BY ElectionAssumption DEF Init, ElectionInv, TypeOK, ClaimInv, Claims, Vacant

(* Stopping a process keeps the types of what Down changes. *)
LEMMA DownType ==
  ASSUME TypeOK, NEW p \in Proc, Down(p), lease' \in Proc \cup {None}, ttl' \in 0 .. Ttl
  PROVE  TypeOK'
  BY ElectionAssumption DEF TypeOK, Down, Vacant

(* Setting the flag of one process gives flags again. *)
LEMMA SetFlag ==
  ASSUME NEW f \in [Proc -> BOOLEAN], NEW p \in Proc, NEW v \in BOOLEAN
  PROVE  [f EXCEPT ![p] = v] \in [Proc -> BOOLEAN]
  BY Zenon

(* Every step keeps the types. *)
LEMMA NextType ==
  ASSUME TypeOK, [Next]_vars
  PROVE  TypeOK'
<1>0. Ttl \in Nat \ {0} /\ RenewTicks \in Nat \ {0} /\ PollTicks \in Nat \ {0} /\ Vacant \in Nat
  BY ElectionAssumption DEF Vacant
<1> USE <1>0
<1>1. ASSUME NEW p \in Proc, PollError(p) \/ Shutdown(p) \/ Crash(p) \/ AnswerLost(p)
      PROVE  TypeOK'
  <2>1. CASE Down(p)
    <3>1. lease' \in Proc \cup {None} /\ ttl' \in 0 .. Ttl
      BY <1>1 DEF TypeOK, PollError, Shutdown, Crash, AnswerLost, key
    <3> QED BY <2>1, <3>1, DownType
  <2>2. CASE ~Down(p)
    BY <1>1, <2>2
    DEF TypeOK, PollError, Shutdown, Crash, AnswerLost, key, faults, timers
  <2> QED BY <2>1, <2>2
<1>2. ASSUME NEW p \in Proc, TryAcquire(p)
      PROVE  TypeOK'
  BY <1>2 DEF TypeOK, TryAcquire, Hold, key, faults
<1>3. ASSUME NEW p \in Proc, Renew(p)
      PROVE  TypeOK'
  BY <1>3 DEF TypeOK, Renew, Hold, key, faults
<1>4. ASSUME NEW p \in Proc, Start(p) \/ PollOwner(p)
      PROVE  TypeOK'
  <2>1. up' \in [Proc -> BOOLEAN]
    BY <1>4, SetFlag, Zenon DEF TypeOK, Start, PollOwner, faults
  <2> QED BY <1>4, <2>1 DEF TypeOK, Start, PollOwner, key, faults, timers
<1>5. ASSUME NEW p \in Proc, Acquired(p)
      PROVE  TypeOK'
  BY <1>5 DEF TypeOK, Acquired, key, faults
<1>6. ASSUME NEW p \in Proc, Lost(p)
      PROVE  TypeOK'
  BY <1>6 DEF TypeOK, Lost, key, faults
<1>7. ASSUME NEW p \in Proc, Stall(p) \/ Wake(p)
      PROVE  TypeOK'
  <2>1. stalled' \in [Proc -> BOOLEAN]
    BY <1>7, SetFlag, Zenon DEF TypeOK, Stall, Wake
  <2> QED BY <1>7, <2>1 DEF TypeOK, Stall, Wake, Disturb, key, timers
<1>8. ASSUME NEW p \in Proc, CutOff(p) \/ Reconnect(p)
      PROVE  TypeOK'
  <2>1. cut' \in [Proc -> BOOLEAN]
    BY <1>8, SetFlag, Zenon DEF TypeOK, CutOff, Reconnect
  <2> QED BY <1>8, <2>1 DEF TypeOK, CutOff, Reconnect, Disturb, key, timers
<1>9. CASE Expire
  BY <1>9 DEF TypeOK, Expire, faults, timers
<1>10. CASE Tick
  <2>1. \A n \in Nat : Less(n) \in Nat /\ Less(n) <= n
    BY DEF Less
  <2>2. \A m, n \in Nat : Least(m + 1, n) \in 0 .. n
    BY DEF Least
  <2>3. ttl' \in 0 .. Ttl
    BY <1>10, <2>1 DEF TypeOK, Tick
  <2>4. renewIn' \in [Proc -> 0 .. RenewTicks] /\ pollIn' \in [Proc -> 0 .. PollTicks]
    BY <1>10, <2>1 DEF TypeOK, Tick
  <2>5. silent' \in [Proc -> 0 .. Ttl]
    BY <1>10, <2>2 DEF TypeOK, Tick
  <2>6. steady' \in [Proc -> 0 .. Vacant + 1] /\ quiet' \in 0 .. Vacant + 1
    BY <1>10, <2>2 DEF TypeOK, Tick
  <2> QED BY <1>10, <2>3, <2>4, <2>5, <2>6 DEF TypeOK, Tick, faults
<1>11. CASE UNCHANGED vars
  BY <1>11 DEF TypeOK, vars, key, faults, timers
<1> QED BY <1>1, <1>2, <1>3, <1>4, <1>5, <1>6, <1>7, <1>8, <1>9, <1>10, <1>11 DEF Next

(* A process that stops takes its claim with it, and only the holder's own
   shutdown removes the key. *)
LEMMA DownClaim ==
  ASSUME ElectionInv, NEW p \in Proc, Down(p),
         UNCHANGED key \/ (lease = p /\ owner[p])
  PROVE  ClaimInv'
  BY DEF ElectionInv, TypeOK, ClaimInv, Claims, Down, key

(* Every step keeps the claims right. *)
LEMMA NextClaim ==
  ASSUME ElectionInv, [Next]_vars
  PROVE  ClaimInv'
<1> USE ElectionAssumption DEF ElectionInv, ClaimInv, Claims
<1>1. ASSUME NEW p \in Proc, PollError(p) \/ Shutdown(p) \/ Crash(p) \/ AnswerLost(p)
      PROVE  ClaimInv'
  <2>1. CASE Down(p)
    <3>1. UNCHANGED key \/ (lease = p /\ owner[p])
      BY <1>1 DEF PollError, Shutdown, Crash, AnswerLost
    <3> QED BY <2>1, <3>1, DownClaim
  <2>2. CASE ~Down(p)
    BY <1>1, <2>2 DEF TypeOK, PollError, Shutdown, Crash, AnswerLost, key
  <2> QED BY <2>1, <2>2
<1>2. ASSUME NEW p \in Proc, TryAcquire(p)
      PROVE  ClaimInv'
  <2>1. CASE lease = None
    BY <1>2, <2>1 DEF TypeOK, TryAcquire, Hold
  <2>2. CASE lease # None
    BY <1>2, <2>2 DEF TypeOK, TryAcquire, key
  <2> QED BY <2>1, <2>2
<1>3. ASSUME NEW p \in Proc, Renew(p)
      PROVE  ClaimInv'
  BY <1>3 DEF TypeOK, Renew, Hold, key
<1>4. ASSUME NEW p \in Proc, Start(p) \/ PollOwner(p) \/ Acquired(p) \/ Lost(p)
      PROVE  ClaimInv'
  BY <1>4 DEF TypeOK, Start, PollOwner, Acquired, Lost, key
<1>5. ASSUME NEW p \in Proc, Stall(p) \/ Wake(p) \/ CutOff(p) \/ Reconnect(p)
      PROVE  ClaimInv'
  BY <1>5 DEF Stall, Wake, CutOff, Reconnect, key
<1>6. CASE Expire
  BY <1>6 DEF TypeOK, Expire
<1>7. CASE Tick
  BY <1>7 DEF TypeOK, Tick, Less, Least
<1>8. CASE UNCHANGED vars
  BY <1>8 DEF vars, key
<1> QED BY <1>1, <1>2, <1>3, <1>4, <1>5, <1>6, <1>7, <1>8 DEF Next

(* The inductive invariant holds in every reachable state. *)
THEOREM ElectionInvariant == Spec => []ElectionInv
<1>1. ElectionInv /\ [Next]_vars => ElectionInv'
  BY NextType, NextClaim DEF ElectionInv
<1> QED BY InitElection, <1>1, PTL DEF Spec

(* The types of the lease, the timers and the history hold in every state. *)
THEOREM ElectionType == Spec => []TypeOK
<1>1. ElectionInv => TypeOK
  BY DEF ElectionInv
<1> QED BY ElectionInvariant, <1>1, PTL

(* Mutual exclusion of leaders with a fresh renewal: each one holds the lease,
   whatever the number of replicas and the intervals (the two Lua scripts). *)
THEOREM FreshLeader == Spec => []FreshLeaderHolds
<1>1. ElectionInv => FreshLeaderHolds
  BY DEF ElectionInv, ClaimInv, Claims, FreshLeaderHolds
<1> QED BY ElectionInvariant, <1>1, PTL

-----------------------------------------------------------------------------
(***************************************************************************)
(* The strengthening of StaleLeaderYields.  A leader has either renewed     *)
(* since it is healthy, and then the lease lives until after the next       *)
(* renewal, or has not been healthy long enough for a renewal to come due.  *)
(***************************************************************************)
Renewing(p) ==
  \/ steady[p] + renewIn[p] <= RenewTicks
  \/ lease = p /\ Ttl + renewIn[p] <= RenewTicks + ttl

HealthInv ==
  \A p \in Proc :
    /\ cut[p] => steady[p] = 0
    /\ reply[p] = "lost" => lease # p /\ steady[p] <= RenewTicks
    /\ reply[p] = "acquired" => ~owner[p] /\ (steady[p] = 0 \/ (lease = p /\ ttl = Ttl))
    /\ owner[p] /\ reply[p] # "lost" => Renewing(p)

(***************************************************************************)
(* The strengthening of TakeoverBounded: a replica has polled since the     *)
(* lease was last held, or has not been healthy for one poll interval       *)
(* beyond the renewal that told it of its loss.                             *)
(***************************************************************************)
PollInv ==
  /\ lease # None => quiet + ttl <= Ttl
  /\ \A p \in Proc : \/ steady[p] + pollIn[p] <= RenewTicks + PollTicks
                     \/ quiet + pollIn[p] <= Vacant

WatchInv == TypeOK /\ HealthInv /\ PollInv

(* Initially nobody was ever healthy, and nobody holds the lease. *)
LEMMA InitWatch == Init => WatchInv
  BY InitElection, ElectionAssumption
  DEF Init, WatchInv, ElectionInv, TypeOK, HealthInv, Renewing, PollInv, Vacant

(* A process that stops is no longer healthy; only the holder removes the key. *)
LEMMA DownWatch ==
  ASSUME WatchInv, NEW p \in Proc, Down(p),
         UNCHANGED key \/ (lease = p /\ lease' = None)
  PROVE  HealthInv' /\ PollInv'
<1> USE ElectionAssumption DEF WatchInv, TypeOK, Vacant
<1>1. ASSUME NEW q \in Proc
      PROVE  /\ cut'[q] => steady'[q] = 0
             /\ reply'[q] = "lost" => lease' # q /\ steady'[q] <= RenewTicks
             /\ reply'[q] = "acquired" =>
                  ~owner'[q] /\ (steady'[q] = 0 \/ (lease' = q /\ ttl' = Ttl))
             /\ owner'[q] /\ reply'[q] # "lost" => Renewing(q)'
  BY <1>1 DEF Down, key, HealthInv, Renewing
<1>2. HealthInv'
  BY <1>1 DEF HealthInv
<1>3. PollInv'
  BY DEF Down, key, PollInv
<1> QED BY <1>2, <1>3

(* Every step keeps what a leader knows of its own health. *)
LEMMA NextHealth ==
  ASSUME WatchInv, [Next]_vars
  PROVE  HealthInv'
<1> USE ElectionAssumption, RenewBeforeExpiry DEF WatchInv, TypeOK, HealthInv, Renewing
<1>1. ASSUME NEW p \in Proc, PollError(p) \/ Shutdown(p) \/ Crash(p) \/ AnswerLost(p)
      PROVE  HealthInv'
  <2>1. CASE Down(p)
    <3>1. UNCHANGED key \/ (lease = p /\ lease' = None)
      BY <1>1 DEF PollError, Shutdown, Crash, AnswerLost
    <3> QED BY <2>1, <3>1, DownWatch
  <2>2. CASE ~Down(p)
    BY <1>1, <2>2 DEF PollError, Shutdown, Crash, AnswerLost, key, faults, timers
  <2> QED BY <2>1, <2>2
<1>2. ASSUME NEW p \in Proc, TryAcquire(p)
      PROVE  HealthInv'
  <2>1. CASE lease = None
    BY <1>2, <2>1 DEF TryAcquire, Hold, faults
  <2>2. CASE lease # None
    BY <1>2, <2>2 DEF TryAcquire, key, faults
  <2> QED BY <2>1, <2>2
<1>3. ASSUME NEW p \in Proc, Renew(p)
      PROVE  HealthInv'
  BY <1>3 DEF Renew, Hold, key, faults
<1>4. ASSUME NEW p \in Proc, Start(p) \/ PollOwner(p)
      PROVE  HealthInv'
  BY <1>4 DEF Start, PollOwner, key, faults, timers
<1>5. ASSUME NEW p \in Proc, Acquired(p)
      PROVE  HealthInv'
  BY <1>5 DEF Acquired, key, faults
<1>6. ASSUME NEW p \in Proc, Lost(p)
      PROVE  HealthInv'
  BY <1>6 DEF Lost, key, faults
<1>7. ASSUME NEW p \in Proc, Stall(p) \/ Wake(p) \/ CutOff(p) \/ Reconnect(p)
      PROVE  HealthInv'
  BY <1>7 DEF Stall, Wake, CutOff, Reconnect, Disturb, key, timers
<1>8. CASE Expire
  BY <1>8 DEF Expire, faults, timers
<1>9. CASE Tick
  BY <1>9 DEF Tick, Less, Least, Due, Running, faults, Vacant
<1>10. CASE UNCHANGED vars
  BY <1>10 DEF vars, key, faults, timers
<1> QED BY <1>1, <1>2, <1>3, <1>4, <1>5, <1>6, <1>7, <1>8, <1>9, <1>10 DEF Next

(* Every step keeps the bound on the wait for a poll. *)
LEMMA NextPoll ==
  ASSUME WatchInv, [Next]_vars
  PROVE  PollInv'
<1> USE ElectionAssumption, RenewBeforeExpiry DEF WatchInv, TypeOK, PollInv, Vacant
<1>1. ASSUME NEW p \in Proc, PollError(p) \/ Shutdown(p) \/ Crash(p) \/ AnswerLost(p)
      PROVE  PollInv'
  <2>1. CASE Down(p)
    <3>1. UNCHANGED key \/ (lease = p /\ lease' = None)
      BY <1>1 DEF PollError, Shutdown, Crash, AnswerLost
    <3> QED BY <2>1, <3>1, DownWatch
  <2>2. CASE ~Down(p)
    BY <1>1, <2>2 DEF PollError, Shutdown, Crash, AnswerLost, key, timers
  <2> QED BY <2>1, <2>2
<1>2. ASSUME NEW p \in Proc, TryAcquire(p)
      PROVE  PollInv'
  <2>1. CASE lease = None
    BY <1>2, <2>1 DEF TryAcquire, Hold
  <2>2. CASE lease # None
    BY <1>2, <2>2 DEF TryAcquire, key
  <2> QED BY <2>1, <2>2
<1>3. ASSUME NEW p \in Proc, Renew(p)
      PROVE  PollInv'
  BY <1>3 DEF Renew, Hold, key
<1>4. ASSUME NEW p \in Proc, PollOwner(p)
      PROVE  PollInv'
  <2>1. steady[p] <= RenewTicks \/ quiet <= Ttl
    BY <1>4 DEF PollOwner, HealthInv, Renewing
  <2> QED BY <1>4, <2>1 DEF PollOwner, key
<1>5. ASSUME NEW p \in Proc, Start(p) \/ Acquired(p) \/ Lost(p)
      PROVE  PollInv'
  BY <1>5 DEF Start, Acquired, Lost, key, timers
<1>6. ASSUME NEW p \in Proc, Stall(p) \/ Wake(p) \/ CutOff(p) \/ Reconnect(p)
      PROVE  PollInv'
  BY <1>6 DEF Stall, Wake, CutOff, Reconnect, Disturb, key, timers
<1>7. CASE Expire
  BY <1>7 DEF Expire, timers
<1>8. CASE Tick
  <2>1. lease' # None => quiet' + ttl' <= Ttl
    BY <1>8 DEF Tick, Less, Least
  <2>2. ASSUME NEW p \in Proc
        PROVE  \/ steady'[p] + pollIn'[p] <= RenewTicks + PollTicks
               \/ quiet' + pollIn'[p] <= Vacant
    BY <1>8 DEF Tick, Less, Least, Due
  <2> QED BY <2>1, <2>2
<1>9. CASE UNCHANGED vars
  BY <1>9 DEF vars, key, timers
<1> QED BY <1>1, <1>2, <1>3, <1>4, <1>5, <1>6, <1>7, <1>8, <1>9 DEF Next

(* The invariant about health and polls holds in every reachable state. *)
THEOREM WatchInvariant == Spec => []WatchInv
<1>1. WatchInv /\ [Next]_vars => WatchInv'
  <2> SUFFICES ASSUME WatchInv, [Next]_vars
               PROVE  WatchInv'
    OBVIOUS
  <2>1. TypeOK'
    BY NextType DEF WatchInv
  <2> QED BY <2>1, NextHealth, NextPoll DEF WatchInv
<1> QED BY InitWatch, <1>1, PTL DEF Spec

(* A leader whose lease is gone and who has been healthy for more than one
   renewal interval has stepped down (the renew timer and its answer 0). *)
THEOREM StaleYields == Spec => []StaleLeaderYields
<1>1. WatchInv => StaleLeaderYields
  BY ElectionAssumption DEF WatchInv, TypeOK, HealthInv, Renewing, StaleLeaderYields
<1> QED BY WatchInvariant, <1>1, PTL

(* A replica that stays healthy sees the lease vacant for at most the TTL and
   one poll interval, in any number of replicas (the poll timer of loop). *)
THEOREM TakeoverIsBounded == Spec => []TakeoverBounded
<1>1. WatchInv => TakeoverBounded
  BY ElectionAssumption, RenewBeforeExpiry
  DEF WatchInv, TypeOK, PollInv, TakeoverBounded, Vacant
<1> QED BY WatchInvariant, <1>1, PTL

-----------------------------------------------------------------------------
(* Authoring *)

\* The parts of AuthoringTypeOK, as the steps change them.
Place == {"idle", "streaming", "verifying"} \union Git
BranchType == home \in Homes /\ remote \in Seq(Runs) /\ local \in [Clone -> Seq(Runs)]
TreeType ==
  /\ tree \in [Clone -> [File -> 0 .. MaxRuns]] /\ index \in [Clone -> [File -> 0 .. MaxRuns]]
  /\ scoped \subseteq Clone
LoopType ==
  /\ at \in [Author -> Place] /\ run \in [Author -> 0 .. MaxRuns]
  /\ scope \in [Author -> {{}} \union Scopes] /\ written \in [Author -> SUBSET File]
RecordType ==
  /\ begun \in 0 .. MaxRuns /\ content \in [Runs -> SUBSET (File \X Runs)]
  /\ succeeded \subseteq Runs /\ alone \subseteq Runs /\ blamed \subseteq Runs
  /\ lost \subseteq Runs
BoundType == errors \in 0 .. MaxErrors /\ ends \in 0 .. MaxEnds

\* A loop that is not idle has a run, and no other loop has it.
RunInv ==
  /\ \A a \in Author : at[a] # "idle" => run[a] \in 1 .. begun
  /\ \A a, b \in Author : at[a] # "idle" /\ at[b] # "idle" /\ run[a] = run[b] => a = b

AuthoringTyped == BranchType /\ TreeType /\ LoopType /\ RecordType /\ BoundType /\ RunInv

(* The parts are all of AuthoringTypeOK. *)
LEMMA AuthoringTypeParts ==
  AuthoringTypeOK <=> BranchType /\ TreeType /\ LoopType /\ RecordType /\ BoundType
BY DEF AuthoringTypeOK, BranchType, TreeType, LoopType, RecordType, BoundType, Place

(* The bounds are numbers, and every loop lives in a clone. *)
LEMMA AuthoringBounds ==
  /\ MaxReplay \in Nat /\ MaxRuns \in Nat /\ MaxErrors \in Nat /\ MaxEnds \in Nat
  /\ Runs \subseteq Nat /\ \A r \in Runs : r \in 1 .. MaxRuns /\ r \in 0 .. MaxRuns
  /\ \A h \in Homes : h \in [Author -> Clone]
<1>1. MaxReplay \in Nat /\ MaxRuns \in Nat /\ MaxErrors \in Nat /\ MaxEnds \in Nat
  BY AuthoringAssumption
<1>2. Homes \subseteq [Author -> Clone]
  BY AuthoringAssumption
<1> QED
  BY <1>1, <1>2 DEF Runs

(* The types hold at the start. *)
LEMMA AuthoringInitTyped == AuthoringInit => AuthoringTyped
<1> SUFFICES ASSUME AuthoringInit PROVE AuthoringTyped
  OBVIOUS
<1> USE AuthoringBounds DEF AuthoringInit
<1>1. BranchType
  BY EmptySeq DEF BranchType
<1>2. TreeType
  BY DEF TreeType, Clear
<1>3. LoopType
  BY DEF LoopType, Place
<1>4. RecordType /\ BoundType
  BY DEF RecordType, BoundType
<1>5. RunInv
  BY DEF RunInv
<1> QED
  BY <1>1, <1>2, <1>3, <1>4, <1>5 DEF AuthoringTyped

(* A loop that goes on or ends keeps the types and the runs of the loops. *)
LEMMA GotoKeeps ==
  ASSUME LoopType, RunInv, NEW a \in Author, NEW step \in Place, Goto(a, step), at[a] # "idle",
         UNCHANGED begun
  PROVE  /\ LoopType' /\ RunInv'
         /\ at'[a] = step /\ \A b \in Author \ {a} : at'[b] = at[b]
<1>1. at' = [at EXCEPT ![a] = step] /\ UNCHANGED <<run, scope, written>>
  BY DEF Goto
<1>2. at'[a] = step /\ \A b \in Author \ {a} : at'[b] = at[b]
  BY <1>1 DEF LoopType
<1>3. LoopType'
  BY <1>1 DEF LoopType
<1>4. RunInv'
  BY <1>1, <1>2 DEF RunInv
<1> QED
  BY <1>2, <1>3, <1>4

LEMMA OverKeeps ==
  ASSUME LoopType, RunInv, NEW a \in Author, Over(a), UNCHANGED begun
  PROVE  /\ LoopType' /\ RunInv'
         /\ at'[a] = "idle" /\ \A b \in Author \ {a} : at'[b] = at[b] /\ run'[b] = run[b]
<1>1. /\ at' = [at EXCEPT ![a] = "idle"] /\ run' = [run EXCEPT ![a] = 0]
      /\ scope' = [scope EXCEPT ![a] = {}] /\ written' = [written EXCEPT ![a] = {}]
  BY DEF Over
<1>2. /\ at'[a] = "idle" /\ \A b \in Author \ {a} : at'[b] = at[b] /\ run'[b] = run[b]
  BY <1>1 DEF LoopType
<1>3. LoopType'
  BY <1>1, AuthoringBounds DEF LoopType, Place
<1>4. RunInv'
  BY <1>1, <1>2 DEF RunInv
<1> QED
  BY <1>2, <1>3, <1>4

(* The run of a loop that is not idle is one of the runs. *)
LEMMA BusyRun ==
  ASSUME AuthoringTyped, NEW a \in Author, at[a] # "idle"
  PROVE  run[a] \in Runs
<1>1. run[a] \in 1 .. begun /\ begun \in 0 .. MaxRuns
  BY DEF AuthoringTyped, RunInv, RecordType
<1> QED
  BY <1>1, AuthoringBounds DEF Runs

(* An empty or a partly refilled index has the type of one. *)
LEMMA StagedType ==
  ASSUME BranchType, TreeType, NEW a \in Author, NEW files
  PROVE  /\ home[a] \in Clone /\ Clear \in [File -> 0 .. MaxRuns]
         /\ Staged(a, files) \in [File -> 0 .. MaxRuns]
<1>1. home[a] \in Clone
  BY AuthoringBounds DEF BranchType
<1>2. tree[home[a]] \in [File -> 0 .. MaxRuns] /\ index[home[a]] \in [File -> 0 .. MaxRuns]
  BY <1>1 DEF TreeType
<1>3. Clear \in [File -> 0 .. MaxRuns]
  BY AuthoringBounds DEF Clear
<1> QED
  BY <1>1, <1>2, <1>3 DEF Staged

(* What a commit contains are files, each with the run that wrote it. *)
LEMMA ContentType ==
  ASSUME BranchType, TreeType, NEW a \in Author, NEW files
  PROVE  LET whole == Staged(a, files)
         IN  {<<f, whole[f]>> : f \in {g \in File : whole[g] # 0}} \subseteq File \X Runs
<1> DEFINE whole == Staged(a, files)
<1>1. whole \in [File -> 0 .. MaxRuns]
  BY StagedType
<1> HIDE DEF whole
<1>2. ASSUME NEW f \in File, whole[f] # 0 PROVE whole[f] \in Runs
  BY <1>1, <1>2, AuthoringBounds DEF Runs
<1>3. {<<f, whole[f]>> : f \in {g \in File : whole[g] # 0}} \subseteq File \X Runs
  BY <1>2
<1> QED
  BY <1>3 DEF whole

(* What is ahead of the branch of the remote is the rest of the local branch. *)
LEMMA AheadIs ==
  ASSUME BranchType, NEW c \in Clone
  PROVE  /\ Shared(c) \in 0 .. Len(local[c]) /\ Shared(c) <= Len(remote)
         /\ \A i \in 1 .. Shared(c) : local[c][i] = remote[i]
         /\ \/ Shared(c) = Len(local[c]) \/ Shared(c) = Len(remote)
            \/ local[c][Shared(c) + 1] # remote[Shared(c) + 1]
         /\ Ahead(c) \in Seq(Runs) /\ Len(Ahead(c)) = Len(local[c]) - Shared(c)
         /\ \A i \in 1 .. Len(Ahead(c)) : Ahead(c)[i] = local[c][Shared(c) + i]
<1>1. local[c] \in Seq(Runs) /\ remote \in Seq(Runs)
  BY DEF BranchType
<1>2. Len(local[c]) \in Nat /\ Len(remote) \in Nat
  BY <1>1, LenProperties
<1>3. /\ Shared(c) \in 0 .. Len(local[c]) /\ Shared(c) <= Len(remote)
      /\ \A i \in 1 .. Shared(c) : local[c][i] = remote[i]
      /\ \/ Shared(c) = Len(local[c]) \/ Shared(c) = Len(remote)
         \/ local[c][Shared(c) + 1] # remote[Shared(c) + 1]
  <2>1. PartAt(local[c], remote, Shared(c))
    BY <1>1, CommonPrefix, Zenon DEF Shared
  <2> QED
    BY <2>1 DEF PartAt
<1> DEFINE n == Shared(c)
           m == Len(local[c])
<1>4. \A i \in n + 1 .. m : local[c][i] \in Runs
  BY <1>1, <1>2, <1>3, ElementOfSeq
<1>5. n \in Nat /\ m \in Nat /\ n <= m /\ Ahead(c) = SubSeq(local[c], n + 1, m)
  BY <1>2, <1>3 DEF Ahead
<1> HIDE DEF n, m
<1>6. /\ Ahead(c) \in Seq(Runs)
      /\ Len(Ahead(c)) = IF n + 1 <= m THEN m - (n + 1) + 1 ELSE 0
      /\ \A i \in 1 .. m - (n + 1) + 1 : Ahead(c)[i] = local[c][n + 1 + i - 1]
  BY <1>4, <1>5, SubSeqProperties
<1>7. Len(Ahead(c)) = m - n /\ \A i \in 1 .. m - n : Ahead(c)[i] = local[c][n + i]
  <2>1. m - (n + 1) + 1 = m - n /\ \A i \in Int : n + 1 + i - 1 = n + i
    BY <1>5
  <2> QED
    BY <1>5, <1>6, <2>1
<1> QED
  BY <1>3, <1>6, <1>7 DEF n, m

(* A step in which a loop starts, goes on or ends keeps the types. *)
LEMMA BeginTyped ==
  ASSUME AuthoringTyped, NEW a \in Author, Begin(a)
  PROVE  AuthoringTyped'
<1> DEFINE r == begun + 1
<1>1. /\ at[a] = "idle" /\ begun < MaxRuns /\ begun' = r /\ begun \in Nat /\ r \in Runs
      /\ at' = [at EXCEPT ![a] = "streaming"] /\ run' = [run EXCEPT ![a] = r]
      /\ UNCHANGED <<home, remote, written, content, succeeded, blamed, lost, ends>>
  BY AuthoringBounds DEF Begin, IsAt, AuthoringTyped, RecordType, Runs
<1>2. home[a] \in Clone /\ Clear \in [File -> 0 .. MaxRuns]
  BY StagedType DEF AuthoringTyped
<1>3. BranchType'
  BY <1>1 DEF Begin, Clean, AuthoringTyped, BranchType
<1>4. TreeType'
  <2>1. scoped' \subseteq Clone
    BY <1>2 DEF Begin, AuthoringTyped, TreeType
  <2>2. tree' \in [Clone -> [File -> 0 .. MaxRuns]] /\ index' \in [Clone -> [File -> 0 .. MaxRuns]]
    BY <1>2 DEF Begin, Clean, clone, AuthoringTyped, TreeType
  <2> QED
    BY <2>1, <2>2 DEF TreeType
<1>5. LoopType'
  <2>1. at' \in [Author -> Place]
    BY <1>1 DEF AuthoringTyped, LoopType, Place
  <2>2. run' \in [Author -> 0 .. MaxRuns]
    BY <1>1, AuthoringBounds DEF AuthoringTyped, LoopType
  <2>3. scope' \in [Author -> {{}} \union Scopes]
    BY DEF Begin, AuthoringTyped, LoopType
  <2> QED
    BY <1>1, <2>1, <2>2, <2>3 DEF AuthoringTyped, LoopType
<1>6. RecordType'
  <2>1. alone' \subseteq Runs
    BY <1>1 DEF Begin, AuthoringTyped, RecordType
  <2> QED
    BY <1>1, <2>1, AuthoringBounds DEF AuthoringTyped, RecordType
<1>7. BoundType'
  BY <1>1, AuthoringBounds DEF Begin, Error, AuthoringTyped, BoundType
<1>8. RunInv'
  <2>1. at'[a] # "idle" /\ run'[a] = r
    BY <1>1 DEF AuthoringTyped, LoopType
  <2>2. \A b \in Author \ {a} : at'[b] = at[b] /\ run'[b] = run[b]
    BY <1>1 DEF AuthoringTyped, LoopType
  <2>3. \A b \in Author \ {a} : at'[b] # "idle" => run'[b] \in 1 .. begun
    BY <2>2 DEF AuthoringTyped, RunInv
  <2>4. \A b \in Author : at'[b] # "idle" => run'[b] \in 1 .. r
    BY <1>1, <2>1, <2>3
  <2>5. ASSUME NEW b \in Author, NEW d \in Author,
               at'[b] # "idle", at'[d] # "idle", run'[b] = run'[d]
        PROVE  b = d
    <3>1. CASE b = a \/ d = a
      BY <3>1, <2>5, <2>1, <2>3, <1>1
    <3>2. CASE b # a /\ d # a
      BY <3>2, <2>5, <2>2 DEF AuthoringTyped, RunInv
    <3> QED
      BY <3>1, <3>2
  <2> QED
    BY <1>1, <2>4, <2>5 DEF RunInv
<1> QED
  BY <1>3, <1>4, <1>5, <1>6, <1>7, <1>8 DEF AuthoringTyped

LEMMA StreamTyped ==
  ASSUME AuthoringTyped, NEW a \in Author,
         WriteFile(a) \/ EndStream(a) \/ FailVerification(a)
  PROVE  AuthoringTyped'
<1>1. home[a] \in Clone
  BY StagedType DEF AuthoringTyped
<1>2. ASSUME WriteFile(a) PROVE AuthoringTyped'
  <2>1. PICK f \in File :
          /\ tree' = [tree EXCEPT ![home[a]][f] = run[a]]
          /\ written' = [written EXCEPT ![a] = @ \union {f}]
    BY <1>2 DEF WriteFile
  <2>2. UNCHANGED <<home, branches, index, scoped, at, run, scope, record, errors, ends>>
    BY <1>2 DEF WriteFile
  <2>3. tree' \in [Clone -> [File -> 0 .. MaxRuns]]
    <3>1. run[a] \in 0 .. MaxRuns
      BY DEF AuthoringTyped, LoopType
    <3> QED
      BY <1>1, <2>1, <3>1 DEF AuthoringTyped, TreeType
  <2>4. written' \in [Author -> SUBSET File]
    BY <2>1 DEF AuthoringTyped, LoopType
  <2>5. TreeType' /\ LoopType'
    BY <2>2, <2>3, <2>4 DEF AuthoringTyped, TreeType, LoopType
  <2>6. BranchType' /\ RecordType' /\ BoundType' /\ RunInv'
    BY <2>2 DEF AuthoringTyped, BranchType, RecordType, BoundType, RunInv, branches, record
  <2> QED
    BY <2>5, <2>6 DEF AuthoringTyped
<1>3. ASSUME EndStream(a) \/ FailVerification(a) PROVE AuthoringTyped'
  <2>1. /\ scoped' \in {scoped, scoped \ {home[a]}}
        /\ UNCHANGED <<home, branches, clone, record, errors, ends>>
        /\ at[a] # "idle" /\ (Goto(a, "verifying") \/ Over(a))
    BY <1>3 DEF EndStream, FailVerification, IsAt
  <2>2. LoopType' /\ RunInv'
    BY <2>1, GotoKeeps, OverKeeps DEF AuthoringTyped, record, Place
  <2>3. TreeType' /\ BranchType' /\ RecordType' /\ BoundType'
    BY <2>1
    DEF AuthoringTyped, TreeType, BranchType, RecordType, BoundType, branches, clone, record
  <2> QED
    BY <2>2, <2>3 DEF AuthoringTyped
<1> QED
  BY <1>2, <1>3

LEMMA CommitStepTyped ==
  ASSUME AuthoringTyped, NEW a \in Author,
         RefuseUnexpected(a) \/ NothingScoped(a) \/ Reject(a) \/ CommitFails(a) \/ Commit(a)
  PROVE  AuthoringTyped'
<1>1. home[a] \in Clone /\ Clear \in [File -> 0 .. MaxRuns]
  BY StagedType DEF AuthoringTyped
<1>2. at[a] # "idle" /\ run[a] \in Runs
  BY BusyRun DEF RefuseUnexpected, NothingScoped, Reject, CommitFails, Commit, Ready, IsAt
<1>3. ASSUME RefuseUnexpected(a) PROVE AuthoringTyped'
  <2>1. /\ Over(a) /\ blamed' \in {blamed, blamed \union {run[a]}}
        /\ UNCHANGED <<home, branches, clone, scoped, begun, content, succeeded, alone, lost,
                       errors, ends>>
    BY <1>3 DEF RefuseUnexpected
  <2>2. LoopType' /\ RunInv'
    BY <2>1, OverKeeps DEF AuthoringTyped
  <2>3. RecordType'
    BY <1>2, <2>1 DEF AuthoringTyped, RecordType
  <2>4. TreeType' /\ BranchType' /\ BoundType'
    BY <2>1 DEF AuthoringTyped, TreeType, BranchType, BoundType, branches, clone
  <2> QED
    BY <2>2, <2>3, <2>4 DEF AuthoringTyped
<1>4. ASSUME NothingScoped(a) PROVE AuthoringTyped'
  <2>1. /\ Over(a) /\ succeeded' = succeeded \union {run[a]}
        /\ UNCHANGED <<home, scoped, begun, alone, blamed, lost, ends, branches, clone, content,
                       errors>>
    BY <1>4 DEF NothingScoped, Succeed
  <2>2. LoopType' /\ RunInv'
    BY <2>1, OverKeeps DEF AuthoringTyped
  <2>3. RecordType'
    BY <1>2, <2>1 DEF AuthoringTyped, RecordType
  <2>4. TreeType' /\ BranchType' /\ BoundType'
    BY <2>1 DEF AuthoringTyped, TreeType, BranchType, BoundType, branches, clone
  <2> QED
    BY <2>2, <2>3, <2>4 DEF AuthoringTyped
<1>5. ASSUME Reject(a) \/ CommitFails(a) PROVE AuthoringTyped'
  <2>1. /\ Over(a) /\ (UNCHANGED errors \/ Error)
        /\ UNCHANGED <<home, branches, tree, scoped, record, ends>>
    BY <1>5 DEF Reject, CommitFails
  <2>2. LoopType' /\ RunInv'
    BY <2>1, OverKeeps DEF AuthoringTyped, record
  <2>3. index' \in [Clone -> [File -> 0 .. MaxRuns]]
    <3>1. \E i \in [File -> 0 .. MaxRuns] :
            index' \in {index, [index EXCEPT ![home[a]] = i]}
      <4>1. \A files : Staged(a, files) \in [File -> 0 .. MaxRuns]
        BY StagedType DEF AuthoringTyped
      <4> QED
        BY <1>1, <1>5, <4>1 DEF Reject, CommitFails
    <3> QED
      BY <3>1 DEF AuthoringTyped, TreeType
  <2>4. TreeType' /\ BranchType' /\ RecordType'
    BY <2>1, <2>3 DEF AuthoringTyped, TreeType, BranchType, RecordType, branches, record
  <2>5. BoundType'
    BY <2>1, AuthoringBounds DEF AuthoringTyped, BoundType, Error
  <2> QED
    BY <2>2, <2>4, <2>5 DEF AuthoringTyped
<1>6. ASSUME Commit(a) PROVE AuthoringTyped'
  <2> DEFINE c == home[a]
             whole == Staged(a, Entries(a))
             files == {<<f, whole[f]>> : f \in {g \in File : whole[g] # 0}}
  <2>1. /\ Goto(a, "committed")
        /\ content' = [content EXCEPT ![run[a]] = files]
        /\ local' = [local EXCEPT ![c] = Append(@, run[a])]
        /\ index' = [index EXCEPT ![c] = Clear]
        /\ tree' = [tree EXCEPT ![c] =
                      [f \in File |-> IF tree[c][f] = whole[f] THEN 0 ELSE tree[c][f]]]
        /\ UNCHANGED <<home, remote, scoped, begun, succeeded, alone, blamed, lost, errors, ends>>
    BY <1>6 DEF Commit
  <2>2. files \subseteq File \X Runs
    BY ContentType DEF AuthoringTyped
  <2> HIDE DEF files
  <2>3. RecordType'
    BY <2>1, <2>2 DEF AuthoringTyped, RecordType
  <2>4. BranchType'
    <3>1. local[c] \in Seq(Runs)
      BY <1>1 DEF AuthoringTyped, BranchType
    <3>2. Append(local[c], run[a]) \in Seq(Runs)
      BY <3>1, <1>2, AppendProperties
    <3> QED
      BY <2>1, <3>2 DEF AuthoringTyped, BranchType
  <2>5. TreeType'
    <3>1. [f \in File |-> IF tree[c][f] = whole[f] THEN 0 ELSE tree[c][f]]
            \in [File -> 0 .. MaxRuns]
      BY <1>1, AuthoringBounds DEF AuthoringTyped, TreeType
    <3> QED
      BY <1>1, <2>1, <3>1 DEF AuthoringTyped, TreeType
  <2>6. LoopType' /\ RunInv'
    BY <1>2, <2>1, GotoKeeps DEF AuthoringTyped, Place, Git
  <2>7. BoundType'
    BY <2>1 DEF AuthoringTyped, BoundType
  <2> QED
    BY <2>3, <2>4, <2>5, <2>6, <2>7 DEF AuthoringTyped
<1> QED
  BY <1>3, <1>4, <1>5, <1>6

LEMMA PushStepTyped ==
  ASSUME AuthoringTyped, NEW a \in Author,
         Replay(a) \/ ReplayFails(a) \/ Push(a) \/ PushFails(a)
  PROVE  AuthoringTyped'
<1>1. home[a] \in Clone
  BY StagedType DEF AuthoringTyped
<1>2. at[a] # "idle" /\ run[a] \in Runs
  BY BusyRun DEF Replay, ReplayFails, Push, PushFails
<1>3. ASSUME Replay(a) PROVE AuthoringTyped'
  <2>1. /\ Goto(a, "replayed")
        /\ local' \in {local, [local EXCEPT ![home[a]] = remote \o Ahead(home[a])]}
        /\ UNCHANGED <<home, remote, clone, scoped, record, errors, ends>>
    BY <1>3 DEF Replay
  <2>2. BranchType'
    <3>1. remote \o Ahead(home[a]) \in Seq(Runs)
      BY <1>1, AheadIs, ConcatProperties DEF AuthoringTyped, BranchType
    <3> QED
      BY <2>1, <3>1 DEF AuthoringTyped, BranchType
  <2>3. LoopType' /\ RunInv'
    BY <1>2, <2>1, GotoKeeps DEF AuthoringTyped, record, Place, Git
  <2>4. TreeType' /\ RecordType' /\ BoundType'
    BY <2>1 DEF AuthoringTyped, TreeType, RecordType, BoundType, clone, record
  <2> QED
    BY <2>2, <2>3, <2>4 DEF AuthoringTyped
<1>4. ASSUME ReplayFails(a) \/ Push(a) \/ PushFails(a) PROVE AuthoringTyped'
  <2>1. /\ Over(a) /\ succeeded' = succeeded \union {run[a]} /\ (UNCHANGED errors \/ Error)
        /\ remote' \in {remote, local[home[a]]}
        /\ UNCHANGED <<home, scoped, begun, alone, blamed, lost, ends, local, clone, content>>
    BY <1>4 DEF ReplayFails, Push, PushFails, Succeed, branches
  <2>2. LoopType' /\ RunInv'
    BY <2>1, OverKeeps DEF AuthoringTyped
  <2>3. RecordType'
    BY <1>2, <2>1 DEF AuthoringTyped, RecordType
  <2>4. TreeType' /\ BranchType'
    BY <1>1, <2>1 DEF AuthoringTyped, TreeType, BranchType, clone
  <2>5. BoundType'
    BY <2>1, AuthoringBounds DEF AuthoringTyped, BoundType, Error
  <2> QED
    BY <2>2, <2>3, <2>4, <2>5 DEF AuthoringTyped
<1> QED
  BY <1>3, <1>4

(* The end of a process keeps the types. *)
LEMMA EndTypes ==
  ASSUME AuthoringTyped, NEW c \in Clone, End(c)
  PROVE  /\ AuthoringTyped'
         /\ \A a \in Author : at'[a] # "idle" =>
              home[a] # c /\ at'[a] = at[a] /\ run'[a] = run[a]
<1> DEFINE inside == {a \in Author : home[a] = c}
           Reset(f, v) == [a \in Author |-> IF a \in inside THEN v ELSE f[a]]
<1>1. /\ ends < MaxEnds /\ ends' = ends + 1 /\ scoped' = scoped \ {c}
      /\ at' = Reset(at, "idle") /\ run' = Reset(run, 0)
      /\ scope' = Reset(scope, {}) /\ written' = Reset(written, {})
      /\ UNCHANGED <<home, remote, begun, content, succeeded, alone, blamed, errors>>
  BY DEF End
<1>2. \/ UNCHANGED <<local, clone, lost>>
      \/ /\ local' = [local EXCEPT ![c] = remote]
         /\ lost' = lost \union (ToSet(local[c]) \ ToSet(remote))
         /\ tree' = [tree EXCEPT ![c] = Clear] /\ index' = [index EXCEPT ![c] = Clear]
  BY DEF End
<1>3. LoopType'
  <2>1. at' \in [Author -> Place]
    BY <1>1 DEF AuthoringTyped, LoopType, Place
  <2>2. run' \in [Author -> 0 .. MaxRuns]
    BY <1>1, AuthoringBounds DEF AuthoringTyped, LoopType
  <2>3. scope' \in [Author -> {{}} \union Scopes] /\ written' \in [Author -> SUBSET File]
    BY <1>1 DEF AuthoringTyped, LoopType
  <2> QED
    BY <2>1, <2>2, <2>3 DEF LoopType
<1>4. BranchType'
  BY <1>1, <1>2 DEF AuthoringTyped, BranchType, clone
<1>5. TreeType'
  <2>1. Clear \in [File -> 0 .. MaxRuns]
    BY AuthoringBounds DEF Clear
  <2>2. CASE UNCHANGED <<local, clone, lost>>
    BY <1>1, <2>2 DEF AuthoringTyped, TreeType, clone
  <2>3. CASE tree' = [tree EXCEPT ![c] = Clear] /\ index' = [index EXCEPT ![c] = Clear]
    BY <1>1, <2>1, <2>3 DEF AuthoringTyped, TreeType
  <2> QED
    BY <1>2, <2>2, <2>3
<1>6. RecordType'
  <2>1. ToSet(local[c]) \subseteq Runs
    BY EntriesOf DEF AuthoringTyped, BranchType
  <2> QED
    BY <1>1, <1>2, <2>1 DEF AuthoringTyped, RecordType
<1>7. BoundType'
  BY <1>1, AuthoringBounds DEF AuthoringTyped, BoundType
<1>8. \A a \in Author : at'[a] # "idle" => home[a] # c /\ at'[a] = at[a] /\ run'[a] = run[a]
  BY <1>1
<1>9. RunInv'
  BY <1>1, <1>8 DEF AuthoringTyped, RunInv
<1> QED
  BY <1>3, <1>4, <1>5, <1>6, <1>7, <1>8, <1>9 DEF AuthoringTyped

(* Every step keeps the types. *)
LEMMA AuthoringNextTyped == AuthoringTyped /\ [AuthoringNext]_authoringVars => AuthoringTyped'
<1> SUFFICES ASSUME AuthoringTyped, [AuthoringNext]_authoringVars PROVE AuthoringTyped'
  OBVIOUS
<1>1. CASE UNCHANGED authoringVars
  BY <1>1 DEF authoringVars, branches, clone, loop, record, AuthoringTyped, BranchType, TreeType,
              LoopType, RecordType, BoundType, RunInv
<1>2. CASE \E a \in Author :
             \/ Begin(a) \/ WriteFile(a) \/ EndStream(a) \/ FailVerification(a)
             \/ RefuseUnexpected(a) \/ NothingScoped(a) \/ Reject(a) \/ CommitFails(a)
             \/ Commit(a) \/ Replay(a) \/ ReplayFails(a) \/ Push(a) \/ PushFails(a)
  BY <1>2, BeginTyped, StreamTyped, CommitStepTyped, PushStepTyped
<1>3. CASE \E c \in Clone : End(c)
  BY <1>3, EndTypes
<1> QED
  BY <1>1, <1>2, <1>3 DEF AuthoringNext

(* The types hold of every behaviour. *)
LEMMA AuthoringIsTyped == AuthoringSpec => []AuthoringTyped
BY AuthoringInitTyped, AuthoringNextTyped, PTL DEF AuthoringSpec

-----------------------------------------------------------------------------
(* What a step of a loop that has begun does to files: those of other processes
   keep, and entries are cleared, staged, or written by its own run. *)
Works(x) ==
  \/ WriteFile(x) \/ EndStream(x) \/ FailVerification(x) \/ RefuseUnexpected(x)
  \/ NothingScoped(x) \/ Reject(x) \/ CommitFails(x) \/ Commit(x) \/ Replay(x)
  \/ ReplayFails(x) \/ Push(x) \/ PushFails(x)

LEMMA LoopMoves ==
  ASSUME AuthoringTyped, NEW x \in Author, Works(x)
  PROVE  /\ at[x] # "idle" /\ UNCHANGED <<home, alone, begun, lost>>
         /\ at'[x] # "idle" => run'[x] = run[x]
         /\ \A b \in Author \ {x} : at'[b] = at[b] /\ run'[b] = run[b]
<1>1. /\ at[x] # "idle" /\ UNCHANGED <<home, alone, begun, lost>>
      /\ \/ UNCHANGED <<at, run>>
         \/ \E step \in Place : Goto(x, step)
         \/ Over(x)
  BY DEF Works, WriteFile, EndStream, FailVerification, RefuseUnexpected, NothingScoped, Reject,
         CommitFails, Commit, Replay, ReplayFails, Push, PushFails, Succeed, Ready, IsAt, record,
         Place, Git
<1>2. CASE UNCHANGED <<at, run>>
  BY <1>1, <1>2
<1>3. ASSUME NEW step \in Place, Goto(x, step)
      PROVE  UNCHANGED run /\ \A b \in Author \ {x} : at'[b] = at[b]
  BY <1>3 DEF Goto, AuthoringTyped, LoopType
<1>4. CASE Over(x)
  BY <1>1, <1>4, OverKeeps DEF AuthoringTyped
<1> QED
  BY <1>1, <1>2, <1>3, <1>4

\* The files of every clone but h keep, and those of h are cleared, staged or come from r.
FilesMove(h, r) ==
  /\ \A c \in Clone \ {h} : tree'[c] = tree[c] /\ index'[c] = index[c]
  /\ \A f \in File :
       tree'[h][f] \in {0, r, tree[h][f]} /\ index'[h][f] \in {0, tree[h][f], index[h][f]}

LEMMA WorkMovesFiles ==
  ASSUME AuthoringTyped, NEW x \in Author, Works(x)
  PROVE  FilesMove(home[x], run[x])
<1> DEFINE h == home[x]
<1>1. h \in Clone
  BY StagedType DEF AuthoringTyped
<1>2. tree \in [Clone -> [File -> 0 .. MaxRuns]] /\ index \in [Clone -> [File -> 0 .. MaxRuns]]
  BY DEF AuthoringTyped, TreeType
<1> HIDE DEF h
<1>3. CASE UNCHANGED clone
  BY <1>3, <1>1 DEF clone, FilesMove, h
<1>4. CASE WriteFile(x)
  <2>1. PICK g \in File : tree' = [tree EXCEPT ![h][g] = run[x]] /\ UNCHANGED index
    BY <1>4 DEF WriteFile, h
  <2> QED
    BY <2>1, <1>1, <1>2 DEF FilesMove, h
<1>5. ASSUME NEW files, index' = [index EXCEPT ![h] = Staged(x, files)], UNCHANGED tree
      PROVE  FilesMove(home[x], run[x])
  <2>1. \A f \in File : Staged(x, files)[f] \in {tree[h][f], index[h][f]}
    BY DEF Staged, h
  <2> QED
    BY <1>1, <1>2, <1>5, <2>1 DEF FilesMove, h
<1>6. CASE index' = [index EXCEPT ![h] = Clear] /\ UNCHANGED tree
  BY <1>1, <1>2, <1>6 DEF FilesMove, h, Clear
<1>7. CASE Commit(x)
  <2> DEFINE whole == Staged(x, Entries(x))
             kept == [f \in File |-> IF tree[h][f] = whole[f] THEN 0 ELSE tree[h][f]]
  <2>1. index' = [index EXCEPT ![h] = Clear] /\ tree' = [tree EXCEPT ![h] = kept]
    BY <1>7 DEF Commit, h
  <2>2. \A f \in File : kept[f] \in {0, tree[h][f]} /\ Clear[f] = 0
    BY DEF Clear
  <2> HIDE DEF kept
  <2> QED
    BY <1>1, <1>2, <2>1, <2>2 DEF FilesMove, h
<1>8. CASE Reject(x)
  BY <1>8, <1>3, <1>6 DEF Reject, clone, h
<1>9. CASE CommitFails(x)
  BY <1>9, <1>5 DEF CommitFails, h
<1>10. CASE /\ ~WriteFile(x) /\ ~Reject(x) /\ ~CommitFails(x) /\ ~Commit(x)
  BY <1>10, <1>3
  DEF Works, EndStream, FailVerification, RefuseUnexpected, NothingScoped, Replay, ReplayFails,
      Push, PushFails
<1> QED
  BY <1>4, <1>7, <1>8, <1>9, <1>10

\* The loop has its clone to itself, and what differs from HEAD there is its own.
Lone(a) ==
  /\ Companions(a) = {}
  /\ \A f \in File : tree[home[a]][f] \in {0, run[a]} /\ index[home[a]][f] \in {0, run[a]}

\* A run that had the tree to itself so far still has, and later runs left nothing yet.
LoneInv == \A a \in Author : at[a] # "idle" /\ run[a] \in alone => Lone(a)
LaterInv ==
  /\ alone \subseteq 1 .. begun /\ blamed \subseteq 1 .. begun
  /\ \A r \in Runs : r > begun => content[r] = {}
IsolationInv == AuthoringTyped /\ LoneInv /\ LaterInv /\ RunsIsolated

(* No run is alone at the start. *)
LEMMA IsolationInit == AuthoringInit => IsolationInv
<1> SUFFICES ASSUME AuthoringInit PROVE IsolationInv
  OBVIOUS
<1>1. LoneInv /\ RunsIsolated
  BY DEF AuthoringInit, LoneInv, RunsIsolated
<1>2. LaterInv
  BY DEF AuthoringInit, LaterInv
<1> QED
  BY <1>1, <1>2, AuthoringInitTyped DEF IsolationInv

(* A new run is alone only if its clone was clean and nobody else was in it. *)
LEMMA BeginIsolates ==
  ASSUME IsolationInv, NEW x \in Author, Begin(x)
  PROVE  IsolationInv'
<1> DEFINE r == begun + 1
<1>1. /\ AuthoringTyped /\ AuthoringTyped' /\ begun \in Nat /\ begun' = r /\ r \in Runs
      /\ at[x] = "idle" /\ home[x] \in Clone
      /\ UNCHANGED <<home, content, blamed>>
  <2>1. AuthoringTyped /\ AuthoringTyped' /\ home[x] \in Clone
    BY BeginTyped, StagedType DEF IsolationInv, AuthoringTyped
  <2>2. at[x] = "idle" /\ begun' = r /\ begun < MaxRuns /\ UNCHANGED <<home, content, blamed>>
    BY DEF Begin, IsAt
  <2>3. begun \in 0 .. MaxRuns
    BY <2>1 DEF AuthoringTyped, RecordType
  <2> QED
    BY <2>1, <2>2, <2>3, AuthoringBounds DEF Runs
<1>2. /\ at'[x] = "streaming" /\ run'[x] = r
      /\ \A b \in Author \ {x} : at'[b] = at[b] /\ run'[b] = run[b]
  BY <1>1 DEF Begin, AuthoringTyped, LoopType
<1>3. /\ \A c \in Clone \ {home[x]} : tree'[c] = tree[c] /\ index'[c] = index[c]
      /\ \/ Clean(home[x])
            /\ alone' = IF Companions(x) = {} THEN alone \union {r}
                        ELSE alone \ {run[b] : b \in Companions(x)}
         \/ alone' = alone \ {run[b] : b \in Companions(x)}
  BY DEF Begin, Clean, clone, IsolationInv, AuthoringTyped, TreeType
<1>4. \A b \in Author : at[b] # "idle" => run[b] \in 1 .. begun /\ run[b] # r
  BY <1>1 DEF AuthoringTyped, RunInv
<1>5. alone' \subseteq alone \union {r} /\ alone \subseteq 1 .. begun /\ r \notin alone
  BY <1>1, <1>3 DEF IsolationInv, LaterInv
<1>6. LoneInv'
  <2> SUFFICES ASSUME NEW a \in Author, at'[a] # "idle", run'[a] \in alone' PROVE Lone(a)'
    BY DEF LoneInv
  <2>1. CASE a = x
    <3>1. Clean(home[x]) /\ Companions(x) = {}
      BY <1>2, <1>3, <1>5, <2>1
    <3>2. Companions(a)' = {}
      BY <3>1, <2>1, <1>1, <1>2 DEF Companions
    <3>3. \A f \in File : tree'[home[x]][f] = 0 /\ index'[home[x]][f] = 0
      BY <3>1, <1>1 DEF Clean, Clear, AuthoringTyped, TreeType
    <3> QED
      BY <3>2, <3>3, <2>1, <1>1 DEF Lone
  <2>2. CASE a # x
    <3>1. at[a] # "idle" /\ run'[a] = run[a] /\ run[a] # r /\ run[a] \in alone
      BY <1>2, <1>4, <1>5, <2>2
    <3>2. home[a] # home[x]
      <4> SUFFICES ASSUME home[a] = home[x] PROVE FALSE
        OBVIOUS
      <4>1. a \in Companions(x)
        BY <3>1, <2>2 DEF Companions
      <4> QED
        BY <4>1, <3>1, <1>3
    <3>3. Lone(a)
      BY <3>1 DEF IsolationInv, LoneInv
    <3>4. Companions(a)' = {}
      BY <3>2, <3>3, <1>1, <1>2 DEF Companions, Lone
    <3>5. home[a] \in Clone \ {home[x]}
      BY <1>1, <3>2, StagedType DEF AuthoringTyped
    <3> QED
      BY <3>1, <3>3, <3>4, <3>5, <1>1, <1>3 DEF Lone
  <2> QED
    BY <2>1, <2>2
<1>7. LaterInv'
  BY <1>1, <1>5, AuthoringBounds DEF IsolationInv, LaterInv
<1>8. RunsIsolated'
  <2>1. content[r] = {} /\ r \notin blamed
    BY <1>1 DEF IsolationInv, LaterInv
  <2> QED
    BY <2>1, <1>1, <1>5 DEF IsolationInv, RunsIsolated
<1> QED
  BY <1>1, <1>6, <1>7, <1>8 DEF IsolationInv

(* A loop that goes on leaves other processes alone, and is alone in its own. *)
LEMMA WorkIsLone ==
  ASSUME IsolationInv, NEW x \in Author, Works(x)
  PROVE  LoneInv'
<1>1. /\ at[x] # "idle" /\ UNCHANGED <<home, alone, begun>>
      /\ at'[x] # "idle" => run'[x] = run[x]
      /\ \A b \in Author \ {x} : at'[b] = at[b] /\ run'[b] = run[b]
  BY LoopMoves DEF IsolationInv
<1>2. FilesMove(home[x], run[x])
  BY WorkMovesFiles DEF IsolationInv
<1> SUFFICES ASSUME NEW a \in Author, at'[a] # "idle", run'[a] \in alone' PROVE Lone(a)'
  BY DEF LoneInv
<1>3. at[a] # "idle" /\ run'[a] = run[a] /\ Lone(a) /\ home[a] \in Clone
  BY <1>1, StagedType DEF IsolationInv, LoneInv, AuthoringTyped
<1>4. Companions(a)' = {}
  <2> SUFFICES ASSUME NEW b \in Author \ {a}, home[b] = home[a], at'[b] # "idle" PROVE FALSE
    BY <1>1 DEF Companions
  <2>1. at[b] # "idle"
    BY <1>1
  <2> QED
    BY <2>1, <1>3 DEF Lone, Companions
<1>5. CASE home[a] = home[x]
  <2>1. a = x
    BY <1>1, <1>3, <1>5 DEF Lone, Companions
  <2> QED
    BY <1>1, <1>2, <1>3, <1>4, <2>1 DEF Lone, FilesMove
<1>6. CASE home[a] # home[x]
  BY <1>1, <1>2, <1>3, <1>4, <1>6 DEF Lone, FilesMove
<1> QED
  BY <1>5, <1>6

(* A commit of a run that is alone is its own, and it is not blamed. *)
LEMMA WorkIsolates ==
  ASSUME IsolationInv, NEW x \in Author, Works(x)
  PROVE  IsolationInv'
<1>1. /\ at[x] # "idle" /\ UNCHANGED <<home, alone, begun>> /\ LoneInv'
      /\ AuthoringTyped /\ AuthoringTyped' /\ run[x] \in Runs /\ run[x] \in 1 .. begun
  BY LoopMoves, WorkIsLone, BusyRun, StreamTyped, CommitStepTyped, PushStepTyped
  DEF IsolationInv, Works, AuthoringTyped, RunInv
<1>2. run[x] \in alone =>
        \A f \in File : tree[home[x]][f] \in {0, run[x]} /\ index[home[x]][f] \in {0, run[x]}
  BY <1>1 DEF IsolationInv, LoneInv, Lone
<1>3. CASE UNCHANGED <<content, blamed>>
  BY <1>1, <1>3 DEF IsolationInv, LaterInv, RunsIsolated
<1>4. CASE RefuseUnexpected(x)
  <2> DEFINE c == home[x]
             foreign == {f \in Changed(c) : tree[c][f] # run[x] /\ Shown(c, f) \notin written[x]}
  <2>1. /\ UNCHANGED content
        /\ blamed' = IF {Shown(c, f) : f \in foreign} \intersect Entries(x) = {} THEN blamed
                     ELSE blamed \union {run[x]}
    BY <1>4 DEF RefuseUnexpected
  <2>2. run[x] \in alone => blamed' = blamed
    <3>1. run[x] \in alone => foreign = {}
      BY <1>2 DEF Changed
    <3> QED
      BY <2>1, <3>1
  <2>3. blamed' \in {blamed, blamed \union {run[x]}}
    BY <2>1
  <2> QED
    BY <1>1, <2>1, <2>2, <2>3 DEF IsolationInv, LaterInv, RunsIsolated
<1>5. CASE Commit(x)
  <2> DEFINE whole == Staged(x, Entries(x))
             files == {<<f, whole[f]>> : f \in {g \in File : whole[g] # 0}}
  <2>1. content' = [content EXCEPT ![run[x]] = files] /\ UNCHANGED blamed
    BY <1>5 DEF Commit
  <2>2. run[x] \in alone => \A entry \in files : entry[2] = run[x]
    <3>1. run[x] \in alone => \A f \in File : whole[f] \in {0, run[x]}
      BY <1>2 DEF Staged
    <3> HIDE DEF whole
    <3> QED
      BY <3>1
  <2> HIDE DEF files
  <2>3. \A r \in Runs : content'[r] = IF r = run[x] THEN files ELSE content[r]
    BY <1>1, <2>1 DEF AuthoringTyped, RecordType
  <2>4. RunsIsolated'
    <3>1. alone \subseteq Runs
      BY <1>1 DEF AuthoringTyped, RecordType
    <3> QED
      BY <1>1, <2>1, <2>2, <2>3, <3>1 DEF IsolationInv, RunsIsolated
  <2>5. LaterInv'
    BY <1>1, <2>1, <2>3, AuthoringBounds DEF IsolationInv, LaterInv, AuthoringTyped, RecordType
  <2> QED
    BY <1>1, <2>4, <2>5 DEF IsolationInv
<1>6. CASE ~RefuseUnexpected(x) /\ ~Commit(x)
  BY <1>3, <1>6
  DEF Works, WriteFile, EndStream, FailVerification, NothingScoped, Reject, CommitFails, Replay,
      ReplayFails, Push, PushFails, Succeed, record
<1> QED
  BY <1>4, <1>5, <1>6

(* A process that ends takes its loops with it. *)
LEMMA EndIsolates ==
  ASSUME IsolationInv, NEW c \in Clone, End(c)
  PROVE  IsolationInv'
<1>1. /\ AuthoringTyped /\ AuthoringTyped'
      /\ \A a \in Author : at'[a] # "idle" => home[a] # c /\ at'[a] = at[a] /\ run'[a] = run[a]
  BY EndTypes DEF IsolationInv
<1>2. /\ UNCHANGED <<home, begun, content, alone, blamed>>
      /\ \A d \in Clone \ {c} : tree'[d] = tree[d] /\ index'[d] = index[d]
  BY <1>1 DEF End, clone, AuthoringTyped, TreeType
<1>3. LoneInv'
  <2> SUFFICES ASSUME NEW a \in Author, at'[a] # "idle", run'[a] \in alone' PROVE Lone(a)'
    BY DEF LoneInv
  <2>1. Lone(a) /\ home[a] \in Clone \ {c} /\ run'[a] = run[a]
    BY <1>1, <1>2, StagedType DEF IsolationInv, LoneInv, AuthoringTyped
  <2>2. Companions(a)' = {}
    BY <1>1, <1>2, <2>1 DEF Lone, Companions
  <2> QED
    BY <1>2, <2>1, <2>2 DEF Lone
<1> QED
  BY <1>1, <1>2, <1>3 DEF IsolationInv, LaterInv, RunsIsolated

(* Every step keeps the invariant. *)
LEMMA IsolationNext == IsolationInv /\ [AuthoringNext]_authoringVars => IsolationInv'
<1> SUFFICES ASSUME IsolationInv, [AuthoringNext]_authoringVars PROVE IsolationInv'
  OBVIOUS
<1>1. CASE UNCHANGED authoringVars
  <2>1. AuthoringTyped'
    BY AuthoringNextTyped DEF IsolationInv
  <2> QED
    BY <1>1, <2>1 DEF authoringVars, clone, loop, record, IsolationInv, LoneInv, Lone, Companions,
                      LaterInv, RunsIsolated
<1>2. CASE AuthoringNext
  <2>1. \/ \E x \in Author : Begin(x) \/ Works(x)
        \/ \E c \in Clone : End(c)
    BY <1>2 DEF AuthoringNext, Works
  <2> QED
    BY <2>1, BeginIsolates, WorkIsolates, EndIsolates
<1> QED
  BY <1>1, <1>2

(* Branches, trees, loops and histories keep their types for any loops, clones,
   files, scopes and errors. *)
THEOREM AuthoringType == AuthoringSpec => []AuthoringTypeOK
<1>1. AuthoringTyped => AuthoringTypeOK
  BY AuthoringTypeParts DEF AuthoringTyped
<1> QED
  BY <1>1, AuthoringIsTyped, PTL

(* A run that has its tree to itself commits only what it wrote and is not refused
   for what others left, for any number of loops and processes and any errors. *)
THEOREM RunsAreIsolated == AuthoringSpec => []RunsIsolated
<1>1. IsolationInv => RunsIsolated
  BY DEF IsolationInv
<1> QED
  BY <1>1, IsolationInit, IsolationNext, PTL DEF AuthoringSpec

-----------------------------------------------------------------------------
\* The local branch is k commits of the remote's, and then commits the remote lacks.
Based(c, k) ==
  /\ k \in 0 .. Len(local[c]) /\ k <= Len(remote) /\ \A i \in 1 .. k : local[c][i] = remote[i]
  /\ \A i \in k + 1 .. Len(local[c]) : local[c][i] \notin ToSet(remote)

\* Branches have no commit twice, and have commits of runs that came to commit.
BranchInv ==
  /\ IsInjective(remote) /\ ToSet(remote) \subseteq 1 .. begun
  /\ \A c \in Clone :
       IsInjective(local[c]) /\ ToSet(local[c]) \subseteq 1 .. begun /\ \E k : Based(c, k)

\* What two clones share is on the remote.
ApartInv ==
  \A c, d \in Clone : c # d => ToSet(local[c]) \intersect ToSet(local[d]) \subseteq ToSet(remote)

\* A run that may still commit is on no branch.
Open(a) == at[a] \in {"streaming", "verifying"}
OpenInv ==
  \A a \in Author : Open(a) =>
    run[a] \notin ToSet(remote) /\ \A c \in Clone : run[a] \notin ToSet(local[c])

KeepInv == AuthoringTyped /\ BranchInv /\ ApartInv /\ OpenInv /\ CommittedIsKept

(* Nothing is committed at the start. *)
LEMMA KeepInit == AuthoringInit => KeepInv
<1> SUFFICES ASSUME AuthoringInit PROVE KeepInv
  OBVIOUS
<1>1. ToSet(<< >>) = {} /\ IsInjective(<< >>) /\ Len(<< >>) = 0
  BY EmptySeq DEF ToSet, IsInjective
<1>2. remote = << >> /\ \A c \in Clone : local[c] = << >>
  BY DEF AuthoringInit
<1>3. BranchInv
  <2>1. ASSUME NEW c \in Clone PROVE Based(c, 0)
    BY <1>1, <1>2 DEF Based
  <2> QED
    BY <1>1, <1>2, <2>1 DEF BranchInv
<1>4. ApartInv /\ OpenInv
  BY <1>1, <1>2 DEF ApartInv, OpenInv, Open, AuthoringInit
<1>5. CommittedIsKept
  BY <1>1, <1>2 DEF CommittedIsKept, Committed, AuthoringInit
<1> QED
  BY <1>3, <1>4, <1>5, AuthoringInitTyped DEF KeepInv

(* The longest common prefix with the remote is all that a local branch has of it. *)
LEMMA SharedIsBase ==
  ASSUME AuthoringTyped, NEW c \in Clone, NEW k, Based(c, k)
  PROVE  Shared(c) = k
<1>1. /\ Shared(c) \in 0 .. Len(local[c]) /\ Shared(c) <= Len(remote)
      /\ \A i \in 1 .. Shared(c) : local[c][i] = remote[i]
      /\ \/ Shared(c) = Len(local[c]) \/ Shared(c) = Len(remote)
         \/ local[c][Shared(c) + 1] # remote[Shared(c) + 1]
  BY AheadIs DEF AuthoringTyped
<1>2. remote \in Seq(Runs) /\ Len(remote) \in Nat /\ Len(local[c]) \in Nat
  BY LenProperties DEF AuthoringTyped, BranchType
<1>3. ToSet(remote) = {remote[i] : i \in 1 .. Len(remote)}
  BY <1>2, EntriesOf
<1>4. ASSUME Shared(c) > k PROVE FALSE
  <2>1. k + 1 \in 1 .. Shared(c) /\ k + 1 \in k + 1 .. Len(local[c]) /\ k + 1 \in 1 .. Len(remote)
    BY <1>1, <1>2, <1>4 DEF Based
  <2>2. local[c][k + 1] = remote[k + 1] /\ local[c][k + 1] \notin ToSet(remote)
    BY <1>1, <2>1 DEF Based
  <2> QED
    BY <1>3, <2>1, <2>2
<1>5. ASSUME Shared(c) < k PROVE FALSE
  <2>1. /\ Shared(c) # Len(local[c]) /\ Shared(c) # Len(remote) /\ Shared(c) + 1 \in 1 .. k
    BY <1>1, <1>2, <1>5 DEF Based
  <2> QED
    BY <1>1, <2>1 DEF Based
<1> QED
  BY <1>1, <1>2, <1>4, <1>5 DEF Based

(* The rebased branch continues that of the remote, and has what the local one had. *)
LEMMA RebasedBranch ==
  ASSUME AuthoringTyped, BranchInv, NEW c \in Clone
  PROVE  LET rebased == remote \o Ahead(c)
             n == Len(remote)
         IN  /\ rebased \in Seq(Runs) /\ n \in 0 .. Len(rebased)
             /\ ToSet(rebased) = ToSet(remote) \union ToSet(local[c]) /\ IsInjective(rebased)
             /\ \A i \in 1 .. n : rebased[i] = remote[i]
             /\ \A i \in n + 1 .. Len(rebased) : rebased[i] \notin ToSet(remote)
<1> DEFINE rebased == remote \o Ahead(c)
           n == Len(remote)
           m == Len(Ahead(c))
<1>1. PICK k : Based(c, k)
  BY DEF BranchInv
<1>2. /\ remote \in Seq(Runs) /\ local[c] \in Seq(Runs) /\ n \in Nat /\ Len(local[c]) \in Nat
      /\ DOMAIN remote = 1 .. n /\ DOMAIN local[c] = 1 .. Len(local[c])
  BY LenProperties DEF AuthoringTyped, BranchType
<1>3. /\ k \in 0 .. Len(local[c]) /\ k <= n /\ \A i \in 1 .. k : local[c][i] = remote[i]
      /\ \A i \in k + 1 .. Len(local[c]) : local[c][i] \notin ToSet(remote)
  BY <1>1 DEF Based
<1>4. /\ Ahead(c) \in Seq(Runs) /\ m = Len(local[c]) - k
      /\ \A i \in 1 .. m : Ahead(c)[i] = local[c][k + i]
  BY <1>1, SharedIsBase, AheadIs DEF AuthoringTyped
<1>5. /\ rebased \in Seq(Runs) /\ Len(rebased) = n + m
      /\ \A i \in 1 .. n + m : rebased[i] = IF i <= n THEN remote[i] ELSE Ahead(c)[i - n]
  BY <1>2, <1>4, ConcatProperties
<1>6. DOMAIN rebased = 1 .. n + m /\ ToSet(rebased) = {rebased[i] : i \in 1 .. n + m}
  BY <1>5, LenProperties, EntriesOf
<1>7. m \in Nat
  BY <1>2, <1>3, <1>4
<1> HIDE DEF rebased, n, m
<1>8. ASSUME NEW i \in n + 1 .. n + m
      PROVE  i - n \in 1 .. m /\ k + (i - n) \in k + 1 .. Len(local[c])
             /\ rebased[i] = local[c][k + (i - n)]
  <2> DEFINE l == Len(local[c])
  <2>0. n \in Nat /\ m \in Nat /\ l \in Nat /\ k \in 0 .. l /\ m = l - k
    BY <1>2, <1>3, <1>4, <1>7
  <2> HIDE DEF l
  <2>1. i - n \in 1 .. m /\ k + (i - n) \in k + 1 .. l /\ i \in 1 .. n + m /\ ~(i <= n)
    BY <2>0, <1>8
  <2> QED
    BY <2>1, <1>4, <1>5 DEF l
<1>9. \A i \in 1 .. n : rebased[i] = remote[i]
  BY <1>2, <1>5, <1>7
<1>10. \A i \in n + 1 .. n + m : rebased[i] \notin ToSet(remote)
  BY <1>3, <1>8
<1>11. /\ ToSet(remote) = {remote[i] : i \in 1 .. n}
       /\ ToSet(local[c]) = {local[c][i] : i \in 1 .. Len(local[c])}
  BY <1>2, EntriesOf DEF n
<1>12. ToSet(rebased) = ToSet(remote) \union ToSet(local[c])
  <2>1. ASSUME NEW i \in 1 .. n + m PROVE rebased[i] \in ToSet(remote) \union ToSet(local[c])
    <3>1. CASE i <= n
      <4>1. i \in 1 .. n
        BY <1>2, <1>7, <3>1
      <4> QED
        BY <4>1, <1>9, <1>11
    <3>2. CASE ~(i <= n)
      <4>1. i \in n + 1 .. n + m
        BY <1>2, <1>7, <3>2
      <4>2. k + (i - n) \in 1 .. Len(local[c])
        BY <4>1, <1>8, <1>2, <1>3
      <4> QED
        BY <4>1, <4>2, <1>8, <1>11
    <3> QED
      BY <3>1, <3>2
  <2>2. ASSUME NEW i \in 1 .. n PROVE remote[i] \in ToSet(rebased)
    <3>1. i \in 1 .. n + m
      BY <1>2, <1>7
    <3> QED
      BY <3>1, <1>6, <1>9
  <2>3. ASSUME NEW i \in 1 .. Len(local[c]) PROVE local[c][i] \in ToSet(rebased)
    <3>1. CASE i <= k
      <4>1. i \in 1 .. k /\ i \in 1 .. n
        BY <1>2, <1>3, <3>1
      <4> QED
        BY <4>1, <1>3, <2>2
    <3>2. CASE ~(i <= k)
      <4>1. n + (i - k) \in n + 1 .. n + m /\ n + (i - k) \in 1 .. n + m
            /\ k + ((n + (i - k)) - n) = i
        BY <1>2, <1>3, <1>4, <3>2
      <4>2. rebased[n + (i - k)] = local[c][i]
        BY <4>1, <1>8
      <4> QED
        BY <4>1, <4>2, <1>6
    <3> QED
      BY <3>1, <3>2
  <2> QED
    BY <1>6, <1>11, <2>1, <2>2, <2>3
<1>13. IsInjective(rebased)
  <2>1. /\ \A i, j \in 1 .. n : remote[i] = remote[j] => i = j
        /\ \A i, j \in 1 .. Len(local[c]) : local[c][i] = local[c][j] => i = j
    BY <1>2 DEF BranchInv, IsInjective
  <2>2. ASSUME NEW i \in 1 .. n + m, NEW j \in 1 .. n + m, rebased[i] = rebased[j] PROVE i = j
    <3>1. \A x \in 1 .. n + m : x \in 1 .. n \/ x \in n + 1 .. n + m
      BY <1>2, <1>7
    <3>2. \A x \in 1 .. n : rebased[x] \in ToSet(remote)
      BY <1>9, <1>11
    <3>3. CASE i \in 1 .. n /\ j \in 1 .. n
      BY <3>3, <2>1, <2>2, <1>9
    <3>4. CASE i \in n + 1 .. n + m /\ j \in n + 1 .. n + m
      <4>1. k + (i - n) \in 1 .. Len(local[c]) /\ k + (j - n) \in 1 .. Len(local[c])
        BY <3>4, <1>8, <1>2, <1>3
      <4>2. k + (i - n) = k + (j - n)
        BY <4>1, <3>4, <1>8, <2>1, <2>2
      <4> QED
        BY <4>2, <3>4, <1>2, <1>3
    <3> QED
      BY <3>1, <3>2, <3>3, <3>4, <1>10, <2>2
  <2> QED
    BY <1>6, <2>2 DEF IsInjective
<1>14. n \in 0 .. Len(rebased)
  BY <1>2, <1>5, <1>7
<1>15. \A i \in n + 1 .. Len(rebased) : rebased[i] \notin ToSet(remote)
  BY <1>5, <1>10
<1> QED
  BY <1>5, <1>9, <1>12, <1>13, <1>14, <1>15 DEF rebased, n

(* A step that leaves branches and commits alone, and opens new runs at most. *)
LEMMA BranchesStay ==
  ASSUME KeepInv, AuthoringTyped', UNCHANGED <<remote, local, content>>, lost \subseteq lost',
         begun' \in {begun, begun + 1},
         \A a \in Author : Open(a)' => (Open(a) /\ run'[a] = run[a]) \/ run'[a] = begun + 1
  PROVE  KeepInv'
<1>1. begun \in Nat /\ 1 .. begun \subseteq 1 .. begun' /\ begun + 1 \notin 1 .. begun
  BY AuthoringBounds DEF KeepInv, AuthoringTyped, RecordType
<1>2. BranchInv'
  BY <1>1 DEF KeepInv, BranchInv, Based
<1>3. OpenInv'
  <2> SUFFICES ASSUME NEW a \in Author, Open(a)'
               PROVE  run'[a] \notin ToSet(remote) /\ \A c \in Clone : run'[a] \notin ToSet(local[c])
    BY DEF OpenInv
  <2>1. CASE Open(a) /\ run'[a] = run[a]
    BY <2>1 DEF KeepInv, OpenInv
  <2>2. CASE run'[a] = begun + 1
    BY <1>1, <2>2 DEF KeepInv, BranchInv
  <2> QED
    BY <2>1, <2>2
<1>4. CommittedIsKept'
  <2>1. Committed' = Committed
    BY DEF Committed
  <2> QED
    BY <2>1 DEF KeepInv, CommittedIsKept
<1> QED
  BY <1>2, <1>3, <1>4 DEF KeepInv, ApartInv

(* A commit of an open run appends it to the branch of its clone. *)
LEMMA CommitKeeps ==
  ASSUME KeepInv, NEW x \in Author, Commit(x)
  PROVE  KeepInv'
<1> DEFINE c == home[x]
           r == run[x]
           s == local[c]
<1>1. /\ AuthoringTyped /\ AuthoringTyped' /\ c \in Clone /\ r \in Runs /\ r \in 1 .. begun
      /\ at[x] = "verifying" /\ Goto(x, "committed")
  BY StagedType, BusyRun, CommitStepTyped
  DEF KeepInv, AuthoringTyped, RunInv, Commit, Ready, IsAt
<1>2. /\ \A q \in Runs \ {r} : content'[q] = content[q]
      /\ local'[c] = Append(s, r) /\ \A d \in Clone \ {c} : local'[d] = local[d]
      /\ UNCHANGED <<home, remote, begun, lost, run>>
  BY <1>1 DEF Commit, Goto, AuthoringTyped, BranchType, RecordType
<1>3. /\ at'[x] = "committed" /\ \A a \in Author \ {x} : at'[a] = at[a]
  BY <1>1 DEF Goto, AuthoringTyped, LoopType
<1>4. r \notin ToSet(remote) /\ \A d \in Clone : r \notin ToSet(local[d])
  BY <1>1 DEF KeepInv, OpenInv, Open
<1>5. s \in Seq(Runs) /\ Len(s) \in Nat /\ DOMAIN s = 1 .. Len(s)
  BY <1>1, LenProperties DEF AuthoringTyped, BranchType
<1> HIDE DEF c, r, s
<1>6. /\ local'[c] \in Seq(Runs) /\ Len(local'[c]) = Len(s) + 1
      /\ DOMAIN local'[c] = 1 .. Len(s) + 1
      /\ \A i \in 1 .. Len(s) : local'[c][i] = s[i]
      /\ local'[c][Len(s) + 1] = r
  BY <1>1, <1>2, <1>5, AppendProperties, LenProperties
<1>7. ToSet(local'[c]) = ToSet(s) \union {r}
  BY <1>1, <1>2, <1>5, EntriesOfAppend
<1>8. 1 .. Len(s) + 1 = 1 .. Len(s) \union {Len(s) + 1}
  BY <1>5
<1>9. BranchInv'
  <2>1. IsInjective(local'[c])
    <3>1. \A i \in 1 .. Len(s) : s[i] \in ToSet(s)
      BY <1>5, EntriesOf
    <3>2. \A i, j \in 1 .. Len(s) : s[i] = s[j] => i = j
      BY <1>1, <1>5 DEF KeepInv, BranchInv, IsInjective, s
    <3>3. \A i \in 1 .. Len(s) : s[i] # r
      BY <1>1, <1>4, <3>1 DEF s
    <3> QED
      BY <1>6, <1>8, <3>2, <3>3 DEF IsInjective
  <2>2. \E k : Based(c, k)'
    <3>1. PICK k : Based(c, k)
      BY <1>1 DEF KeepInv, BranchInv
    <3>2. /\ k \in 0 .. Len(s) /\ k <= Len(remote) /\ \A i \in 1 .. k : s[i] = remote[i]
          /\ \A i \in k + 1 .. Len(s) : s[i] \notin ToSet(remote)
      BY <3>1 DEF Based, s
    <3>3. k \in 0 .. Len(s) + 1 /\ \A i \in 1 .. k : i \in 1 .. Len(s)
      BY <3>2, <1>5
    <3>4. \A i \in k + 1 .. Len(s) + 1 : i = Len(s) + 1 \/ (i \in k + 1 .. Len(s) /\ i \in 1 .. Len(s))
      BY <3>2, <1>5
    <3>5. \A i \in k + 1 .. Len(s) + 1 : local'[c][i] \notin ToSet(remote)
      BY <3>2, <3>4, <1>4, <1>6
    <3>6. \A i \in 1 .. k : local'[c][i] = remote[i]
      BY <3>2, <3>3, <1>6
    <3>7. c' = c
      BY <1>2 DEF c
    <3> QED
      BY <3>2, <3>3, <3>5, <3>6, <3>7, <1>2, <1>6 DEF Based
  <2>3. ToSet(local'[c]) \subseteq 1 .. begun
    BY <1>1, <1>7 DEF KeepInv, BranchInv, s
  <2>4. ASSUME NEW d \in Clone
        PROVE  IsInjective(local'[d]) /\ ToSet(local'[d]) \subseteq 1 .. begun /\ \E k : Based(d, k)'
    <3>1. CASE d = c
      <4>1. c' = c
        BY <1>2 DEF c
      <4> QED
        BY <3>1, <4>1, <2>1, <2>2, <2>3 DEF Based
    <3>2. CASE d # c
      BY <3>2, <1>2 DEF KeepInv, BranchInv, Based
    <3> QED
      BY <3>1, <3>2
  <2> QED
    BY <2>4, <1>2 DEF KeepInv, BranchInv
<1>10. ApartInv'
  <2> SUFFICES ASSUME NEW d \in Clone, NEW e \in Clone, d # e
               PROVE  ToSet(local'[d]) \intersect ToSet(local'[e]) \subseteq ToSet(remote')
    BY DEF ApartInv
  <2> QED
    BY <1>1, <1>2, <1>4, <1>7 DEF KeepInv, ApartInv, s
<1>11. OpenInv'
  <2> SUFFICES ASSUME NEW a \in Author, Open(a)'
               PROVE  run'[a] \notin ToSet(remote')
                      /\ \A d \in Clone : run'[a] \notin ToSet(local'[d])
    BY DEF OpenInv
  <2>1. a # x /\ Open(a) /\ run'[a] = run[a]
    BY <1>2, <1>3 DEF Open
  <2>2. run[a] # r
    BY <1>1, <2>1 DEF AuthoringTyped, RunInv, Open, r
  <2> QED
    BY <1>1, <1>2, <1>7, <2>1, <2>2 DEF KeepInv, OpenInv, s
<1>12. CommittedIsKept'
  <2>1. Committed' \subseteq Committed \union {r}
    BY <1>1, <1>2 DEF Committed
  <2>2. \A d \in Clone : ToSet(local[d]) \subseteq ToSet(local'[d])
    BY <1>2, <1>7 DEF s
  <2>3. r \in ToSet(local'[c])
    BY <1>7
  <2> QED
    BY <1>1, <1>2, <2>1, <2>2, <2>3 DEF KeepInv, CommittedIsKept
<1> QED
  BY <1>1, <1>9, <1>10, <1>11, <1>12 DEF KeepInv

(* A branch that is rebased, or cloned anew, continues that of the remote. *)
LEMMA RebranchKeeps ==
  ASSUME KeepInv, AuthoringTyped', NEW c \in Clone, NEW s \in Seq(Runs), NEW n \in 0 .. Len(s),
         UNCHANGED <<remote, begun, content>>, local' = [local EXCEPT ![c] = s],
         \A a \in Author : Open(a)' => Open(a) /\ run'[a] = run[a],
         n = Len(remote), IsInjective(s), ToSet(remote) \subseteq ToSet(s),
         ToSet(s) \subseteq ToSet(remote) \union ToSet(local[c]),
         \A i \in 1 .. n : s[i] = remote[i],
         \A i \in n + 1 .. Len(s) : s[i] \notin ToSet(remote),
         lost \union (ToSet(local[c]) \ ToSet(s)) \subseteq lost'
  PROVE  KeepInv'
<1>1. local'[c] = s /\ \A d \in Clone \ {c} : local'[d] = local[d]
  BY DEF KeepInv, AuthoringTyped, BranchType
<1>2. n \in Nat /\ n <= Len(s)
  BY LenProperties
<1>3. BranchInv'
  <2>1. ASSUME NEW d \in Clone
        PROVE  IsInjective(local'[d]) /\ ToSet(local'[d]) \subseteq 1 .. begun /\ \E k : Based(d, k)'
    <3>1. CASE d = c
      <4>1. Based(d, n)'
        BY <1>1, <1>2, <3>1 DEF Based
      <4> QED
        BY <3>1, <4>1, <1>1 DEF KeepInv, BranchInv
    <3>2. CASE d # c
      BY <3>2, <1>1 DEF KeepInv, BranchInv, Based
    <3> QED
      BY <3>1, <3>2
  <2> QED
    BY <2>1 DEF KeepInv, BranchInv
<1>4. ApartInv'
  <2> SUFFICES ASSUME NEW d \in Clone, NEW e \in Clone, d # e
               PROVE  ToSet(local'[d]) \intersect ToSet(local'[e]) \subseteq ToSet(remote')
    BY DEF ApartInv
  <2> QED
    BY <1>1 DEF KeepInv, ApartInv
<1>5. OpenInv'
  BY <1>1 DEF KeepInv, OpenInv
<1>6. CommittedIsKept'
  <2>1. Committed' = Committed
    BY DEF Committed
  <2> SUFFICES ASSUME NEW r \in Committed \ lost', r \notin ToSet(remote)
               PROVE  \E d \in Clone : r \in ToSet(local'[d])
    BY <2>1 DEF KeepInv, CommittedIsKept
  <2>2. PICK d \in Clone : r \in ToSet(local[d])
    BY DEF KeepInv, CommittedIsKept
  <2>3. CASE d = c
    BY <1>1, <2>2, <2>3
  <2>4. CASE d # c
    BY <1>1, <2>2, <2>4
  <2> QED
    BY <2>3, <2>4
<1> QED
  BY <1>3, <1>4, <1>5, <1>6 DEF KeepInv

(* The remote takes a branch that continues its own. *)
LEMMA PushKeeps ==
  ASSUME KeepInv, AuthoringTyped', NEW c \in Clone, IsPrefix(remote, local[c]),
         remote' = local[c], UNCHANGED <<local, begun, content, lost>>,
         \A a \in Author : Open(a)' => Open(a) /\ run'[a] = run[a]
  PROVE  KeepInv'
<1> DEFINE t == local[c]
<1>1. /\ remote \in Seq(Runs) /\ t \in Seq(Runs) /\ Len(remote) \in Nat /\ Len(t) \in Nat
      /\ \A d \in Clone : local[d] \in Seq(Runs) /\ Len(local[d]) \in Nat
  BY LenProperties DEF KeepInv, AuthoringTyped, BranchType
<1>2. Len(remote) <= Len(t) /\ \A i \in 1 .. Len(remote) : remote[i] = t[i]
  BY <1>1, PrefixIndexes
<1>3. /\ ToSet(remote) = {remote[i] : i \in 1 .. Len(remote)}
      /\ \A d \in Clone : ToSet(local[d]) = {local[d][i] : i \in 1 .. Len(local[d])}
  BY <1>1, EntriesOf
<1>4. ToSet(remote) \subseteq ToSet(t)
  <2>1. \A i \in 1 .. Len(remote) : i \in 1 .. Len(t)
    BY <1>1, <1>2
  <2>2. \A i \in 1 .. Len(t) : t[i] \in ToSet(t)
    BY <1>3
  <2> HIDE DEF t
  <2>3. \A i \in 1 .. Len(remote) : remote[i] \in ToSet(t)
    BY <2>1, <2>2, <1>2
  <2> QED
    BY <2>3, <1>3
<1>5. BranchInv'
  <2>1. ASSUME NEW d \in Clone PROVE \E k : Based(d, k)'
    <3>1. CASE d = c
      <4>1. Based(d, Len(t))'
        BY <3>1, <1>1 DEF Based
      <4> QED
        BY <4>1
    <3>2. CASE d # c
      <4>1. PICK k : Based(d, k)
        BY DEF KeepInv, BranchInv
      <4>2. /\ k \in 0 .. Len(local[d]) /\ k <= Len(remote)
            /\ \A i \in 1 .. k : local[d][i] = remote[i]
            /\ \A i \in k + 1 .. Len(local[d]) : local[d][i] \notin ToSet(remote)
        BY <4>1 DEF Based
      <4>3. k <= Len(t) /\ \A i \in 1 .. k : local[d][i] = t[i]
        <5>1. \A i \in 1 .. k : i \in 1 .. Len(remote)
          BY <1>1, <4>2
        <5> QED
          BY <5>1, <1>1, <1>2, <4>2
      <4>4. \A i \in k + 1 .. Len(local[d]) : local[d][i] \notin ToSet(t)
        <5>1. \A i \in k + 1 .. Len(local[d]) : i \in 1 .. Len(local[d])
          BY <1>1, <4>2
        <5>2. \A i \in k + 1 .. Len(local[d]) : local[d][i] \in ToSet(local[d])
          BY <1>3, <5>1
        <5> QED
          BY <5>2, <4>2, <3>2 DEF KeepInv, ApartInv
      <4>5. Based(d, k)'
        BY <4>2, <4>3, <4>4 DEF Based
      <4> QED
        BY <4>5
    <3> QED
      BY <3>1, <3>2
  <2> QED
    BY <2>1 DEF KeepInv, BranchInv
<1>6. ApartInv'
  BY <1>4 DEF KeepInv, ApartInv
<1>7. OpenInv'
  BY DEF KeepInv, OpenInv
<1>8. CommittedIsKept'
  <2>1. Committed' = Committed
    BY DEF Committed
  <2>2. IsInjective(t)
    BY DEF KeepInv, BranchInv
  <2> QED
    BY <1>4, <2>1, <2>2 DEF KeepInv, CommittedIsKept
<1> QED
  BY <1>5, <1>6, <1>7, <1>8 DEF KeepInv

(* Every step keeps the invariant. *)
LEMMA KeepNext == KeepInv /\ [AuthoringNext]_authoringVars => KeepInv'
<1> SUFFICES ASSUME KeepInv, [AuthoringNext]_authoringVars PROVE KeepInv'
  OBVIOUS
<1>1. AuthoringTyped /\ AuthoringTyped'
  BY AuthoringNextTyped DEF KeepInv
<1>2. CASE UNCHANGED authoringVars
  BY <1>1, <1>2, BranchesStay DEF authoringVars, branches, loop, record, Open
<1>3. ASSUME NEW x \in Author, Begin(x) PROVE KeepInv'
  <2>1. /\ UNCHANGED <<remote, local, content, lost>> /\ begun' = begun + 1
        /\ at' = [at EXCEPT ![x] = "streaming"] /\ run' = [run EXCEPT ![x] = begun + 1]
    BY <1>3 DEF Begin, Clean
  <2>2. \A a \in Author : Open(a)' => (Open(a) /\ run'[a] = run[a]) \/ run'[a] = begun + 1
    BY <1>1, <2>1 DEF Open, AuthoringTyped, LoopType
  <2> QED
    BY <1>1, <2>1, <2>2, BranchesStay
<1>4. ASSUME NEW x \in Author, Works(x) PROVE KeepInv'
  <2>1. /\ UNCHANGED <<home, begun, lost>> /\ home[x] \in Clone
        /\ at'[x] # "idle" => run'[x] = run[x]
        /\ \A b \in Author \ {x} : at'[b] = at[b] /\ run'[b] = run[b]
    BY <1>1, <1>4, LoopMoves, StagedType DEF AuthoringTyped
  <2>2. Open(x)' => Open(x)
    <3>1. \/ UNCHANGED at
          \/ Open(x)
          \/ Over(x)
          \/ Goto(x, "replayed")
      BY <1>4
      DEF Works, WriteFile, EndStream, FailVerification, RefuseUnexpected, NothingScoped, Reject,
          CommitFails, Commit, Replay, ReplayFails, Push, PushFails, Succeed, Ready, IsAt, Open
    <3> QED
      BY <1>1, <3>1 DEF Over, Goto, Open, AuthoringTyped, LoopType
  <2>3. \A a \in Author : Open(a)' => Open(a) /\ run'[a] = run[a]
    BY <2>1, <2>2 DEF Open
  <2>4. CASE UNCHANGED <<remote, local, content>>
    BY <1>1, <2>1, <2>3, <2>4, BranchesStay
  <2>5. CASE Commit(x)
    BY <2>5, CommitKeeps
  <2>6. CASE Replay(x)
    <3> DEFINE rebased == remote \o Ahead(home[x])
    <3>1. /\ UNCHANGED <<remote, content>>
          /\ UNCHANGED local \/ local' = [local EXCEPT ![home[x]] = rebased]
      BY <2>6 DEF Replay, record
    <3>2. CASE local' = [local EXCEPT ![home[x]] = rebased]
      <4>1. /\ rebased \in Seq(Runs) /\ Len(remote) \in 0 .. Len(rebased)
            /\ ToSet(rebased) = ToSet(remote) \union ToSet(local[home[x]])
            /\ IsInjective(rebased)
            /\ \A i \in 1 .. Len(remote) : rebased[i] = remote[i]
            /\ \A i \in Len(remote) + 1 .. Len(rebased) : rebased[i] \notin ToSet(remote)
        BY <1>1, <2>1, RebasedBranch DEF KeepInv
      <4>2. /\ ToSet(remote) \subseteq ToSet(rebased)
            /\ ToSet(rebased) \subseteq ToSet(remote) \union ToSet(local[home[x]])
            /\ lost \union (ToSet(local[home[x]]) \ ToSet(rebased)) \subseteq lost'
        BY <2>1, <4>1
      <4> HIDE DEF rebased
      <4> QED
        BY <1>1, <2>1, <2>3, <3>1, <3>2, <4>1, <4>2, RebranchKeeps
    <3> QED
      BY <2>4, <3>1, <3>2
  <2>7. CASE Push(x)
    <3>1. /\ UNCHANGED <<local, content>>
          /\ UNCHANGED remote \/ (IsPrefix(remote, local[home[x]]) /\ remote' = local[home[x]])
      BY <2>7 DEF Push
    <3> QED
      BY <1>1, <2>1, <2>3, <2>4, <3>1, PushKeeps
  <2>8. CASE ~Commit(x) /\ ~Replay(x) /\ ~Push(x)
    BY <1>4, <2>4, <2>8
    DEF Works, WriteFile, EndStream, FailVerification, RefuseUnexpected, NothingScoped, Reject,
        CommitFails, ReplayFails, PushFails, branches, record
  <2> QED
    BY <2>5, <2>6, <2>7, <2>8
<1>5. ASSUME NEW c \in Clone, End(c) PROVE KeepInv'
  <2>1. \A a \in Author : Open(a)' => Open(a) /\ run'[a] = run[a]
    BY <1>1, <1>5, EndTypes DEF Open
  <2>2. /\ UNCHANGED <<remote, begun, content>>
        /\ \/ UNCHANGED <<local, lost>>
           \/ /\ local' = [local EXCEPT ![c] = remote]
              /\ lost' = lost \union (ToSet(local[c]) \ ToSet(remote))
    BY <1>5 DEF End
  <2>3. CASE UNCHANGED <<local, lost>>
    BY <1>1, <2>1, <2>2, <2>3, BranchesStay
  <2>4. CASE local' = [local EXCEPT ![c] = remote]
             /\ lost' = lost \union (ToSet(local[c]) \ ToSet(remote))
    <3>1. remote \in Seq(Runs) /\ Len(remote) \in Nat
      BY <1>1, LenProperties DEF AuthoringTyped, BranchType
    <3>2. Len(remote) \in 0 .. Len(remote) /\ Len(remote) + 1 .. Len(remote) = {}
      BY <3>1
    <3>3. IsInjective(remote)
      BY DEF KeepInv, BranchInv
    <3> QED
      BY <1>1, <2>1, <2>2, <2>4, <3>1, <3>2, <3>3, RebranchKeeps
  <2> QED
    BY <2>2, <2>3, <2>4
<1> QED
  BY <1>2, <1>3, <1>4, <1>5 DEF AuthoringNext, Works

(* What was committed is on some branch until its clone is gone, and on that of the
   remote at most once, for any loops, clones, scopes, limits of the replay and
   errors: through conflicts, refused pushes and the cleaning before later runs. *)
THEOREM CommitsAreKept == AuthoringSpec => []CommittedIsKept
<1>1. KeepInv => CommittedIsKept
  BY DEF KeepInv
<1> QED
  BY <1>1, KeepInit, KeepNext, PTL DEF AuthoringSpec
=============================================================================
