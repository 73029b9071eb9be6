------------------------- MODULE PublishQueueProofs -------------------------
(***************************************************************************)
(* Proofs about PublishQueue, for any processes, pacers, queues and number  *)
(* of faults: the publish branch implements PublishedLog, and no commit is  *)
(* dropped.                                                                 *)
(***************************************************************************)
EXTENDS PublishQueue, IndexLemmas

\* The parts of TypeOK, as the steps change them.
TableType ==
  /\ host \in [Pacer -> Process] /\ leader \in [Process -> BOOLEAN]
  /\ queued \in 0 .. Len(treeOf) /\ main \in Seq(1 .. Len(treeOf))
  /\ processed \subseteq 1 .. Len(treeOf) /\ wait \in 0 .. Interval
CloneType == mainSeen \in [Process -> Nat] /\ queueSeen \in [Process -> 0 .. Len(treeOf)]
HandType ==
  /\ pc \in [Pacer -> PC] /\ pick \in [Pacer -> 0 .. Len(treeOf)]
  /\ publishing \in [Pacer -> BOOLEAN] /\ next \in [Pacer -> 0 .. Interval]
  /\ duplicateSkips \in [Pacer -> 0 .. Batch] /\ qualitySkips \in [Pacer -> 0 .. Batch]
HistoryType == sincePush \in 0 .. Interval /\ calm \in BOOLEAN /\ faults \in 0 .. MaxFaults

\* A pacer that goes on looking has skipped less than a batch.
SkipInv ==
  \A p \in Pacer :
    /\ duplicateSkips[p] + qualitySkips[p] <= Batch
    /\ pc[p] \in {"pick", "verify"} => duplicateSkips[p] + qualitySkips[p] < Batch
    /\ pc[p] \in {"idle", "status"} => duplicateSkips[p] = 0 /\ qualitySkips[p] = 0

\* No clone is ahead of the remote.
SeenInv == \A h \in Process : mainSeen[h] <= Len(main) /\ queueSeen[h] <= queued

\* The commits before which all trees are in the history.
Passed == {i \in 1 .. queued : \A j \in 1 .. i - 1 : InHistory(j)}

\* What a pacer has picked, and what is on the publish branch.
PickInv == \A p \in Pacer : pc[p] \in {"verify", "mark", "write"} => pick[p] \in Passed
MainInv == \A k \in DOMAIN main : main[k] \in Passed

\* The commits whose tree is on the publish branch, or was refused for its quality.
Settled ==
  {i \in DOMAIN treeOf :
     \E j \in 1 .. queued : treeOf[j] = treeOf[i] /\ (j \in ToSet(main) \/ ~good[j])}
SettledInv == \A p \in Pacer : pc[p] \in {"mark", "write"} => pick[p] \in Settled

LogInv == TypeOK /\ SkipInv /\ SeenInv /\ PickInv /\ MainInv /\ SettledInv /\ NothingDropped

-----------------------------------------------------------------------------
(* The parts are all of TypeOK. *)
LEMMA TypeParts == TypeOK <=> TableType /\ CloneType /\ HandType /\ HistoryType
BY DEF TypeOK, TableType, CloneType, HandType, HistoryType

(* The invariant holds at the start. *)
LEMMA LogInit == Init => LogInv
<1> SUFFICES ASSUME Init PROVE LogInv
  OBVIOUS
<1>1. /\ Interval \in Nat \ {0} /\ Batch \in Nat \ {0} /\ MaxFaults \in Nat
      /\ Len(treeOf) \in Nat /\ Hosts \subseteq [Pacer -> Process]
  BY PublishAssumption, LenProperties
<1>2. TypeOK
  <2>1. TableType
    BY <1>1, EmptySeq DEF Init, TableType
  <2>2. CloneType /\ HandType /\ HistoryType
    BY <1>1 DEF Init, CloneType, HandType, HistoryType, PC
  <2> QED
    BY <2>1, <2>2, TypeParts
<1>3. SkipInv /\ SeenInv
  BY <1>1, EmptySeq DEF Init, SkipInv, SeenInv
<1>4. PickInv /\ MainInv /\ SettledInv /\ NothingDropped
  BY EmptySeq DEF Init, PickInv, MainInv, SettledInv, NothingDropped
<1> QED
  BY <1>2, <1>3, <1>4 DEF LogInv

(* A tick that ends leaves its pacer with empty hands. *)
LEMMA EndedTick ==
  ASSUME HandType, SkipInv, NEW p \in Pacer, EndTick(p)
  PROVE  /\ HandType' /\ SkipInv'
         /\ \A q \in Pacer : pc'[q] # "idle" => q # p /\ pc'[q] = pc[q] /\ pick'[q] = pick[q]
<1>1. Interval \in Nat /\ Batch \in Nat /\ Len(treeOf) \in Nat
  BY PublishAssumption, LenProperties
<1>2. HandType'
  BY <1>1 DEF HandType, EndTick, Goto, PC
<1>3. SkipInv'
  BY <1>1 DEF HandType, EndTick, Goto, SkipInv
<1> QED
  BY <1>2, <1>3 DEF HandType, EndTick, Goto

(* A fetch brings a clone up to the remote and never beyond. *)
LEMMA Fetched ==
  ASSUME TypeOK, SeenInv, NEW h \in Process, Fetch(h) \/ FetchPartly(h), UNCHANGED <<main, queued>>
  PROVE  CloneType' /\ SeenInv'
<1>1. Len(main) \in Nat /\ queued \in 0 .. Len(treeOf)
  BY LenProperties DEF TypeOK
<1>2. mainSeen \in [Process -> Nat] /\ queueSeen \in [Process -> 0 .. Len(treeOf)]
  BY DEF TypeOK
<1>3. mainSeen' = [mainSeen EXCEPT ![h] = Len(main)]
  BY DEF Fetch, FetchPartly, FetchMain
<1>4. queueSeen' = [queueSeen EXCEPT ![h] = queued] \/ queueSeen' = queueSeen
  BY DEF Fetch, FetchPartly
<1>5. CloneType'
  BY <1>1, <1>2, <1>3, <1>4 DEF CloneType
<1> QED
  BY <1>1, <1>2, <1>3, <1>4, <1>5 DEF SeenInv

(* What a pacer finds first in the queue. *)
LEMMA FirstUnprocessed ==
  ASSUME TypeOK, SeenInv, NEW h \in Process, Unprocessed(h) # {}
  PROVE  /\ Min(Unprocessed(h)) \in Unprocessed(h) /\ Min(Unprocessed(h)) \in Passed
         /\ Min(Unprocessed(h)) \in 1 .. Len(treeOf)
<1>1. queueSeen[h] \in 0 .. Len(treeOf) /\ queueSeen[h] <= queued /\ queued \in 0 .. Len(treeOf)
  BY DEF TypeOK, SeenInv
<1>2. Len(treeOf) \in Nat
  BY PublishAssumption, LenProperties
<1>3. Unprocessed(h) \subseteq Nat
  BY <1>1, <1>2 DEF Unprocessed
<1>4. /\ Min(Unprocessed(h)) \in Unprocessed(h)
      /\ \A k \in Unprocessed(h) : Min(Unprocessed(h)) <= k
  BY <1>3, MinIndex
<1>5. Min(Unprocessed(h)) \in 1 .. queueSeen[h]
  BY <1>4 DEF Unprocessed
<1>6. ASSUME NEW j \in 1 .. Min(Unprocessed(h)) - 1, ~InHistory(j) PROVE FALSE
  <2>1. j \in 1 .. queueSeen[h] /\ j < Min(Unprocessed(h))
    BY <1>1, <1>2, <1>5
  <2>2. j \in Unprocessed(h)
    BY <1>6, <2>1 DEF Unprocessed
  <2>3. Min(Unprocessed(h)) <= j
    BY <1>4, <2>2
  <2> QED
    BY <1>1, <1>2, <1>5, <2>1, <2>3
<1>7. Min(Unprocessed(h)) \in 1 .. queued /\ Min(Unprocessed(h)) \in 1 .. Len(treeOf)
  BY <1>1, <1>2, <1>5
<1> QED
  BY <1>4, <1>6, <1>7 DEF Passed

(* What an accepted push appends comes after all that is there, with a new tree. *)
LEMMA AcceptedIsNew ==
  ASSUME LogInv, NEW p \in Pacer, Fresh(p), mainSeen[host[p]] = Len(main)
  PROVE  /\ pick[p] \in DOMAIN treeOf
         /\ \A k \in DOMAIN main : main[k] < pick[p] /\ treeOf[main[k]] # treeOf[pick[p]]
<1>1. pick[p] \in Passed
  BY DEF LogInv, PickInv, Fresh
<1>2. queued \in 0 .. Len(treeOf) /\ Len(treeOf) \in Nat /\ DOMAIN treeOf = 1 .. Len(treeOf)
  BY PublishAssumption, LenProperties DEF LogInv, TypeOK
<1>3. pick[p] \in 1 .. Len(treeOf)
  BY <1>1, <1>2 DEF Passed
<1>4. DOMAIN main = 1 .. Len(main)
  BY LenProperties DEF LogInv, TypeOK
<1>5. ASSUME NEW k \in DOMAIN main PROVE treeOf[main[k]] # treeOf[pick[p]]
  BY <1>4 DEF Fresh, OnMain, TreesOf
<1>6. ASSUME NEW k \in DOMAIN main PROVE main[k] < pick[p]
  <2>1. main[k] \in Passed
    BY DEF LogInv, MainInv
  <2>2. main[k] # pick[p]
    BY <1>5
  <2>3. ~InHistory(pick[p])
    BY DEF Fresh
  <2>4. pick[p] \notin 1 .. main[k] - 1
    BY <2>1, <2>3 DEF Passed
  <2>5. main[k] \in 1 .. queued
    BY <2>1 DEF Passed
  <2> QED
    BY <1>2, <1>3, <2>2, <2>4, <2>5
<1> QED
  BY <1>2, <1>3, <1>5, <1>6

(* A fault keeps the history in its bounds. *)
LEMMA FaultTyped == ASSUME HistoryType, Fault PROVE HistoryType'
<1>1. MaxFaults \in Nat
  BY PublishAssumption
<1>2. faults' \in 0 .. MaxFaults
  BY <1>1 DEF HistoryType, Fault
<1>3. sincePush' \in 0 .. Interval
  BY DEF HistoryType, Fault
<1>4. calm' \in BOOLEAN
  BY DEF Fault
<1> QED
  BY <1>2, <1>3, <1>4 DEF HistoryType

\* The bounds are natural numbers, and so is the length of the queue.
LEMMA Bounds ==
  /\ Interval \in Nat \ {0} /\ Batch \in Nat \ {0} /\ MaxFaults \in Nat
  /\ Len(treeOf) \in Nat /\ DOMAIN treeOf = 1 .. Len(treeOf)
BY PublishAssumption, LenProperties

(* Every step keeps the types, the number of skips and the clones behind the remote. *)
LEMMA LogNextTyped ==
  ASSUME LogInv, [Next]_vars
  PROVE  TypeOK' /\ SkipInv' /\ SeenInv'
<1>0. /\ TableType /\ CloneType /\ HandType /\ HistoryType
      /\ TypeOK /\ SkipInv /\ SeenInv /\ PickInv
  BY TypeParts DEF LogInv
<1> SUFFICES TableType' /\ CloneType' /\ HandType' /\ HistoryType' /\ SkipInv' /\ SeenInv'
  BY DEF TypeOK, TableType, CloneType, HandType, HistoryType
<1>1. ASSUME NEW p \in Pacer, Fire(p) \/ CheckTurn(p)
      PROVE  TableType' /\ CloneType' /\ HandType' /\ HistoryType' /\ SkipInv' /\ SeenInv'
  <2>1. Fetch(host[p]) \/ FetchPartly(host[p])
    BY <1>1 DEF Fire, CheckTurn
  <2>2. host[p] \in Process /\ UNCHANGED <<main, queued>>
    BY <1>0, <1>1 DEF TableType, Fire, CheckTurn
  <2>3. CloneType' /\ SeenInv'
    BY <1>0, <2>1, <2>2, Fetched
  <2>4. TableType'
    BY <1>0, <1>1 DEF TableType, table, Fire, CheckTurn
  <2>5. UNCHANGED hand /\ \E await \in {"status", "pick"} : Goto(p, await)
    BY <1>1 DEF Fire, CheckTurn
  <2>7. SkipInv' /\ HandType'
    <3>1. HandType'
      BY <1>0, <2>5, Zenon DEF HandType, Goto, PC, hand
    <3>2. duplicateSkips[p] = 0 /\ qualitySkips[p] = 0
      BY <1>0, <1>1 DEF SkipInv, Fire, CheckTurn
    <3>3. duplicateSkips' = duplicateSkips /\ qualitySkips' = qualitySkips
      BY <2>5 DEF hand
    <3>4. \A q \in Pacer : q # p => pc'[q] = pc[q]
      BY <1>0, <2>5 DEF HandType, Goto
    <3> QED
      BY <1>0, <3>1, <3>2, <3>3, <3>4, Bounds DEF SkipInv
  <2>6. HistoryType'
    <3>1. CASE Fault
      BY <1>0, <3>1, FaultTyped
    <3>2. CASE ~Fault
      BY <1>0, <1>1, <3>2 DEF HistoryType, history, Fire, CheckTurn, FetchPartly
    <3> QED
      BY <3>1, <3>2
  <2> QED
    BY <2>3, <2>4, <2>6, <2>7
<1>2. ASSUME NEW p \in Pacer, NotMyTurn(p) \/ Drained(p) \/ QueryFails(p)
      PROVE  TableType' /\ CloneType' /\ HandType' /\ HistoryType' /\ SkipInv' /\ SeenInv'
  <2>1. HandType' /\ SkipInv'
    BY <1>0, <1>2, EndedTick DEF NotMyTurn, Drained, QueryFails
  <2>2. TableType' /\ CloneType' /\ SeenInv'
    BY <1>0, <1>2
    DEF TableType, CloneType, SeenInv, table, clones, NotMyTurn, Drained, QueryFails
  <2>3. HistoryType'
    BY <1>0, <1>2, FaultTyped DEF HistoryType, history, NotMyTurn, Drained, QueryFails
  <2> QED
    BY <2>1, <2>2, <2>3
<1>3. ASSUME NEW p \in Pacer, Pick(p)
      PROVE  TableType' /\ CloneType' /\ HandType' /\ HistoryType' /\ SkipInv' /\ SeenInv'
  <2>1. TableType' /\ CloneType' /\ SeenInv' /\ HistoryType'
    BY <1>0, <1>3 DEF TableType, CloneType, SeenInv, HistoryType, table, clones, history, Pick
  <2>2. Min(Unprocessed(host[p])) \in 1 .. Len(treeOf)
    BY <1>0, <1>3, FirstUnprocessed DEF Pick, TableType
  <2>3. /\ duplicateSkips[p] \in 0 .. Batch /\ qualitySkips[p] \in 0 .. Batch
        /\ duplicateSkips[p] + qualitySkips[p] < Batch
    BY <1>0, <1>3 DEF HandType, SkipInv, Pick
  <2>4. /\ pick' = [pick EXCEPT ![p] = Min(Unprocessed(host[p]))]
        /\ \/ pc' = [pc EXCEPT ![p] = "mark"]
              /\ duplicateSkips' = [duplicateSkips EXCEPT ![p] = duplicateSkips[p] + 1]
           \/ pc' = [pc EXCEPT ![p] = "verify"] /\ duplicateSkips' = duplicateSkips
        /\ UNCHANGED <<publishing, next, qualitySkips>>
    BY <1>3 DEF Pick, Goto
  <2>5. HandType'
    <3>0. pc' \in [Pacer -> PC]
      BY <1>0, <2>4 DEF HandType, PC
    <3>1. pick' \in [Pacer -> 0 .. Len(treeOf)]
      BY <1>0, <2>2, <2>4, Bounds DEF HandType
    <3>2. duplicateSkips[p] + 1 \in 0 .. Batch
      BY <2>3, Bounds
    <3>3. duplicateSkips' \in [Pacer -> 0 .. Batch]
      BY <1>0, <2>4, <3>2 DEF HandType
    <3> QED
      BY <1>0, <2>4, <3>0, <3>1, <3>3, Zenon DEF HandType
  <2>6. SkipInv'
    <3>1. \A q \in Pacer : q # p => pc'[q] = pc[q] /\ duplicateSkips'[q] = duplicateSkips[q]
      BY <1>0, <2>4 DEF HandType
    <3>2. \/ pc'[p] = "mark" /\ duplicateSkips'[p] = duplicateSkips[p] + 1
          \/ pc'[p] = "verify" /\ duplicateSkips'[p] = duplicateSkips[p]
      BY <1>0, <2>4 DEF HandType
    <3>3. qualitySkips' = qualitySkips
      BY <2>4
    <3> QED
      BY <1>0, <2>3, <3>1, <3>2, <3>3, Bounds DEF SkipInv
  <2> QED
    BY <2>1, <2>5, <2>6
<1>4. ASSUME NEW p \in Pacer, Duplicate(p) \/ LowQuality(p)
      PROVE  TableType' /\ CloneType' /\ HandType' /\ HistoryType' /\ SkipInv' /\ SeenInv'
  <2>1. TableType' /\ CloneType' /\ SeenInv' /\ HistoryType'
    BY <1>0, <1>4
    DEF TableType, CloneType, SeenInv, HistoryType, table, clones, history, Duplicate, LowQuality
  <2>2. /\ duplicateSkips[p] \in 0 .. Batch /\ qualitySkips[p] \in 0 .. Batch
        /\ duplicateSkips[p] + qualitySkips[p] < Batch
    BY <1>0, <1>4 DEF HandType, SkipInv, Duplicate, LowQuality, Fresh
  <2>3. /\ pc' = [pc EXCEPT ![p] = "mark"]
        /\ \/ /\ duplicateSkips' = [duplicateSkips EXCEPT ![p] = duplicateSkips[p] + 1]
              /\ qualitySkips' = qualitySkips
           \/ /\ qualitySkips' = [qualitySkips EXCEPT ![p] = qualitySkips[p] + 1]
              /\ duplicateSkips' = duplicateSkips
        /\ UNCHANGED <<pick, publishing, next>>
    BY <1>4 DEF Duplicate, LowQuality, Goto
  <2>4. HandType'
    <3>1. pc' \in [Pacer -> PC]
      BY <1>0, <2>3 DEF HandType, PC
    <3>2. duplicateSkips[p] + 1 \in 0 .. Batch /\ qualitySkips[p] + 1 \in 0 .. Batch
      BY <2>2, Bounds
    <3>3. duplicateSkips' \in [Pacer -> 0 .. Batch] /\ qualitySkips' \in [Pacer -> 0 .. Batch]
      BY <1>0, <2>3, <3>2 DEF HandType
    <3> QED
      BY <1>0, <2>3, <3>1, <3>3, Zenon DEF HandType
  <2>5. SkipInv'
    <3>1. \A q \in Pacer : q # p => /\ pc'[q] = pc[q] /\ duplicateSkips'[q] = duplicateSkips[q]
                                    /\ qualitySkips'[q] = qualitySkips[q]
      BY <1>0, <2>3 DEF HandType
    <3>2. pc'[p] = "mark"
      BY <1>0, <2>3 DEF HandType
    <3>3. \/ /\ duplicateSkips'[p] = duplicateSkips[p] + 1 /\ qualitySkips'[p] = qualitySkips[p]
          \/ /\ qualitySkips'[p] = qualitySkips[p] + 1 /\ duplicateSkips'[p] = duplicateSkips[p]
      BY <1>0, <2>3 DEF HandType
    <3> QED
      BY <1>0, <2>2, <3>1, <3>2, <3>3, Bounds DEF SkipInv
  <2> QED
    BY <2>1, <2>4, <2>5
<1>5. ASSUME NEW p \in Pacer, Publish(p)
      PROVE  TableType' /\ CloneType' /\ HandType' /\ HistoryType' /\ SkipInv' /\ SeenInv'
  <2>1. pick[p] \in 1 .. Len(treeOf) /\ host[p] \in Process
    BY <1>0, <1>5, Bounds DEF PickInv, Passed, TableType, Publish, Fresh
  <2>2. /\ Append(main, pick[p]) \in Seq(1 .. Len(treeOf))
        /\ Len(Append(main, pick[p])) = Len(main) + 1 /\ Len(main) \in Nat
    BY <1>0, <2>1, AppendProperties, LenProperties DEF TableType
  <2>3. main' = main \/ main' = Append(main, pick[p])
    BY <1>5 DEF Publish, PushAccepted
  <2>4. TableType'
    BY <1>0, <1>5, <2>2, <2>3 DEF TableType, Publish, table
  <2>5. mainSeen' = mainSeen \/ mainSeen' = [mainSeen EXCEPT ![host[p]] = Len(main')]
    BY <1>5 DEF Publish, PushAccepted, clones
  <2>6. queueSeen' = queueSeen /\ queued' = queued
    BY <1>5 DEF Publish, PushAccepted, clones
  <2>7. CloneType' /\ SeenInv'
    <3>1. Len(main') \in Nat /\ Len(main') >= Len(main)
      BY <2>2, <2>3
    <3>2. CloneType'
      BY <1>0, <2>5, <2>6, <3>1 DEF CloneType
    <3>3. \A h \in Process : mainSeen'[h] = mainSeen[h] \/ mainSeen'[h] = Len(main')
      BY <1>0, <2>5 DEF CloneType
    <3>4. \A h \in Process : mainSeen[h] \in Nat /\ mainSeen[h] <= Len(main)
      BY <1>0 DEF CloneType, SeenInv
    <3>5. \A h \in Process : mainSeen'[h] <= Len(main')
      BY <2>2, <3>1, <3>3, <3>4
    <3>6. SeenInv'
      BY <1>0, <2>6, <3>5 DEF SeenInv
    <3> QED
      BY <3>2, <3>6
  <2>8. HistoryType'
    <3>1. faults' = faults \/ (faults < MaxFaults /\ faults' = faults + 1)
      BY <1>5 DEF Publish, PushAccepted, history
    <3>2. calm' = calm \/ calm' = FALSE
      BY <1>5 DEF Publish, PushAccepted, history
    <3>3. sincePush' = sincePush \/ sincePush' = 0
      BY <1>5 DEF Publish, PushAccepted, history
    <3>4. faults' \in 0 .. MaxFaults
      BY <1>0, <3>1, Bounds DEF HistoryType
    <3>5. calm' \in BOOLEAN
      BY <1>0, <3>2 DEF HistoryType
    <3>6. sincePush' \in 0 .. Interval
      BY <1>0, <3>3, Bounds DEF HistoryType
    <3> QED
      BY <3>4, <3>5, <3>6 DEF HistoryType
  <2>9. HandType' /\ SkipInv'
    <3>1. CASE EndTick(p)
      BY <1>0, <3>1, EndedTick
    <3>2. CASE PushAccepted(p)
      BY <1>0, <1>5, <3>2, Bounds DEF HandType, SkipInv, PushAccepted, Goto, PC
    <3> QED
      BY <1>5, <3>1, <3>2 DEF Publish
  <2> QED
    BY <2>4, <2>7, <2>8, <2>9
<1>6. ASSUME NEW p \in Pacer, Mark(p)
      PROVE  TableType' /\ CloneType' /\ HandType' /\ HistoryType' /\ SkipInv' /\ SeenInv'
  <2>1. TableType' /\ CloneType' /\ SeenInv' /\ HistoryType'
    BY <1>0, <1>6 DEF TableType, CloneType, SeenInv, HistoryType, table, clones, history, Mark
  <2>2. HandType' /\ SkipInv'
    BY <1>0, <1>6, Bounds DEF HandType, SkipInv, TableType, Mark, Goto, PC
  <2> QED
    BY <2>1, <2>2
<1>7. ASSUME NEW p \in Pacer, Write(p)
      PROVE  TableType' /\ CloneType' /\ HandType' /\ HistoryType' /\ SkipInv' /\ SeenInv'
  <2>1. pick[p] \in 1 .. Len(treeOf) /\ host[p] \in Process /\ next[p] \in 0 .. Interval
    BY <1>0, <1>7, Bounds DEF PickInv, Passed, TableType, HandType, Write
  <2>2. TableType' /\ UNCHANGED <<main, queued>>
    BY <1>0, <1>7, <2>1 DEF TableType, Write
  <2>3. CloneType' /\ SeenInv'
    <3>1. CASE UNCHANGED clones
      BY <1>0, <2>2, <3>1 DEF CloneType, SeenInv, clones
    <3>2. CASE Fetch(host[p]) \/ FetchPartly(host[p])
      BY <1>0, <2>1, <2>2, <3>2, Fetched
    <3> QED
      BY <1>7, <3>1, <3>2 DEF Write
  <2>4. HistoryType'
    <3>1. CASE Fault
      BY <1>0, <3>1, FaultTyped
    <3>2. CASE ~Fault
      BY <1>0, <1>7, <3>2 DEF HistoryType, history, Write, FetchPartly
    <3> QED
      BY <3>1, <3>2
  <2>5. HandType' /\ SkipInv'
    <3>1. CASE EndTick(p)
      BY <1>0, <3>1, EndedTick
    <3>2. CASE ~EndTick(p)
      <4>1. /\ Goto(p, "pick") /\ UNCHANGED hand
            /\ ~ (duplicateSkips[p] + qualitySkips[p] >= Batch)
        BY <1>7, <3>2 DEF Write
      <4> QED
        BY <1>0, <4>1, Bounds DEF HandType, SkipInv, Goto, PC, hand
    <3> QED
      BY <3>1, <3>2
  <2> QED
    BY <2>2, <2>3, <2>4, <2>5
<1>8. ASSUME NEW h \in Process, Acquire(h) \/ Lose(h)
      PROVE  TableType' /\ CloneType' /\ HandType' /\ HistoryType' /\ SkipInv' /\ SeenInv'
  <2>1. TableType' /\ CloneType' /\ SeenInv'
    <3>1. leader' = [leader EXCEPT ![h] = TRUE] \/ leader' = [leader EXCEPT ![h] = FALSE]
      BY <1>8 DEF Acquire, Lose
    <3>2. leader' \in [Process -> BOOLEAN]
      BY <1>0, <3>1, Zenon DEF TableType
    <3>3. UNCHANGED <<host, queued, main, table, clones>>
      BY <1>8 DEF Acquire, Lose
    <3> QED
      BY <1>0, <3>2, <3>3 DEF TableType, CloneType, SeenInv, table, clones
  <2>2. HandType' /\ SkipInv'
    BY <1>0, <1>8 DEF HandType, SkipInv, hand, Acquire, Lose
  <2>3. HistoryType'
    BY <1>0, <1>8, FaultTyped DEF HistoryType, history, Acquire, Lose
  <2> QED
    BY <2>1, <2>2, <2>3
<1>9. ASSUME NEW h \in Process, Crash(h)
      PROVE  TableType' /\ CloneType' /\ HandType' /\ HistoryType' /\ SkipInv' /\ SeenInv'
  <2>1. TableType' /\ CloneType' /\ SeenInv' /\ HistoryType'
    BY <1>0, <1>9, FaultTyped DEF TableType, CloneType, SeenInv, table, clones, Crash
  <2>2. \A q \in Pacer : pc'[q] \in PC /\ pick'[q] \in 0 .. Len(treeOf)
    BY <1>0, <1>9, Bounds DEF HandType, Crash, PC
  <2>3. \A q \in Pacer : publishing'[q] \in BOOLEAN
    BY <1>0, <1>9 DEF HandType, Crash
  <2>4. \A q \in Pacer : /\ next'[q] \in 0 .. Interval
                        /\ duplicateSkips'[q] \in 0 .. Batch /\ qualitySkips'[q] \in 0 .. Batch
    BY <1>0, <1>9, Bounds DEF HandType, Crash
  <2>5. HandType'
    BY <1>9, <2>2, <2>3, <2>4, Zenon DEF HandType, Crash
  <2>6. SkipInv'
    BY <1>0, <1>9, Bounds DEF SkipInv, HandType, Crash
  <2> QED
    BY <2>1, <2>5, <2>6
<1>10. CASE Author
  <2>1. TableType' /\ CloneType' /\ SeenInv'
    BY <1>0, <1>10, Bounds DEF TableType, CloneType, SeenInv, table, clones, Author
  <2>2. HandType' /\ SkipInv' /\ HistoryType'
    BY <1>0, <1>10 DEF HandType, SkipInv, HistoryType, hand, history, Author
  <2> QED
    BY <2>1, <2>2
<1>11. CASE Tick
  <2>1. TableType' /\ CloneType' /\ SeenInv'
    BY <1>0, <1>11, Bounds DEF TableType, CloneType, SeenInv, clones, Tick, Less
  <2>2. HandType' /\ SkipInv' /\ HistoryType'
    BY <1>0, <1>11, Bounds DEF HandType, SkipInv, HistoryType, Tick, Less
  <2> QED
    BY <2>1, <2>2
<1>12. CASE UNCHANGED vars
  BY <1>0, <1>12
  DEF TableType, CloneType, HandType, HistoryType, SkipInv, SeenInv, vars, table, clones, hand,
      history
<1> QED
  BY <1>1, <1>2, <1>3, <1>4, <1>5, <1>6, <1>7, <1>8, <1>9, <1>10, <1>11, <1>12 DEF Next, Step

-----------------------------------------------------------------------------
(* What a commit has in common with a processed or a published one is settled. *)
LEMMA DuplicateIsSettled ==
  ASSUME LogInv, NEW h \in Process, NEW i \in DOMAIN treeOf, InHistory(i) \/ OnMain(h, i)
  PROVE  i \in Settled
<1>1. CASE InHistory(i)
  <2>1. PICK k \in processed : treeOf[k] = treeOf[i]
    BY <1>1 DEF InHistory, TreesOf
  <2> QED
    BY <2>1 DEF LogInv, NothingDropped, Settled
<1>2. CASE OnMain(h, i)
  <2>1. PICK k \in 1 .. mainSeen[h] : treeOf[main[k]] = treeOf[i]
    BY <1>2 DEF OnMain, TreesOf
  <2>2. mainSeen[h] \in Nat /\ mainSeen[h] <= Len(main) /\ Len(main) \in Nat
        /\ DOMAIN main = 1 .. Len(main)
    BY LenProperties DEF LogInv, TypeOK, SeenInv
  <2>3. k \in DOMAIN main
    BY <2>2
  <2>4. main[k] \in 1 .. queued /\ main[k] \in ToSet(main)
    BY <2>3 DEF LogInv, MainInv, Passed, ToSet
  <2> QED
    BY <2>1, <2>4 DEF Settled
<1> QED
  BY <1>1, <1>2

(* How a step changes the publish branch: not at all, or by an accepted push. *)
LEMMA MainStep ==
  ASSUME LogInv, [Next]_vars
  PROVE  \/ main' = main
         \/ \E p \in Pacer : /\ Fresh(p) /\ mainSeen[host[p]] = Len(main)
                             /\ main' = Append(main, pick[p])
<1>1. ASSUME NEW p \in Pacer, Publish(p), main' # main
      PROVE  /\ Fresh(p) /\ mainSeen[host[p]] = Len(main)
             /\ main' = Append(main, pick[p])
  BY <1>1 DEF Publish, PushAccepted
<1>2. ASSUME NEW p \in Pacer, Fire(p) \/ (Step(p) /\ ~Publish(p)) PROVE main' = main
  BY <1>2 DEF Fire, Step, CheckTurn, NotMyTurn, Pick, Drained, Duplicate, LowQuality, Mark,
              Write, QueryFails
<1>3. ASSUME NEW h \in Process, Acquire(h) \/ Lose(h) \/ Crash(h) PROVE main' = main
  BY <1>3 DEF Acquire, Lose, Crash
<1>4. CASE Author \/ Tick \/ UNCHANGED vars
  BY <1>4 DEF Author, Tick, vars
<1> QED
  BY <1>1, <1>2, <1>3, <1>4 DEF Next

(* How a step changes the history: not at all, or by the row of a settled pick. *)
LEMMA TableStep ==
  ASSUME LogInv, [Next]_vars
  PROVE  /\ queued' \in Nat /\ queued <= queued'
         /\ \/ processed' = processed
            \/ \E p \in Pacer : pc[p] = "write" /\ processed' = processed \cup {pick[p]}
<1>0. queued \in Nat
  BY Bounds DEF LogInv, TypeOK
<1>1. ASSUME NEW p \in Pacer, Write(p)
      PROVE  queued' = queued /\ pc[p] = "write" /\ processed' = processed \cup {pick[p]}
  BY <1>1 DEF Write
<1>2. ASSUME NEW p \in Pacer, Fire(p) \/ (Step(p) /\ ~Write(p))
      PROVE  queued' = queued /\ processed' = processed
  BY <1>2 DEF Fire, Step, CheckTurn, NotMyTurn, Pick, Drained, Duplicate, LowQuality, Mark,
              Publish, QueryFails, table
<1>3. ASSUME NEW h \in Process, Acquire(h) \/ Lose(h) \/ Crash(h)
      PROVE  queued' = queued /\ processed' = processed
  BY <1>3 DEF Acquire, Lose, Crash, table
<1>4. CASE Author
  BY <1>0, <1>4 DEF Author, table
<1>5. CASE Tick \/ UNCHANGED vars
  BY <1>0, <1>5 DEF Tick, vars, table
<1> QED
  BY <1>0, <1>1, <1>2, <1>3, <1>4, <1>5 DEF Next

(* Nothing that was passed or settled ceases to be, and the publish branch stays
   within what is passed. *)
LEMMA LogGrows ==
  ASSUME LogInv, [Next]_vars
  PROVE  Passed \subseteq Passed' /\ Settled \subseteq Settled' /\ MainInv' /\ NothingDropped'
<1>1. Passed \subseteq Passed'
  <2>1. processed \subseteq processed' /\ queued \in Nat /\ queued' \in Nat /\ queued <= queued'
    BY TableStep, Bounds DEF LogInv, TypeOK
  <2>2. \A j : InHistory(j) => InHistory(j)'
    BY <2>1 DEF InHistory, TreesOf
  <2> QED
    BY <2>1, <2>2 DEF Passed
<1>2. /\ ToSet(main) \subseteq ToSet(main')
      /\ \A x \in ToSet(main') : x \in ToSet(main) \/ x \in Passed
  <2>1. CASE main' = main
    BY <2>1
  <2>2. CASE main' # main
    <3>1. PICK p \in Pacer : Fresh(p) /\ main' = Append(main, pick[p])
      BY <2>2, MainStep
    <3>2. pick[p] \in Passed
      BY <3>1 DEF LogInv, PickInv, Fresh
    <3>3. main \in Seq(Nat) /\ pick[p] \in Nat
      BY Bounds, <3>2, SeqDef DEF LogInv, TypeOK, Passed
    <3>4. DOMAIN main' = DOMAIN main \cup {Len(main) + 1} /\ main'[Len(main) + 1] = pick[p]
          /\ \A k \in DOMAIN main : main'[k] = main[k]
      BY <3>1, <3>3, AppendProperties, LenProperties
    <3> QED
      BY <3>2, <3>4 DEF ToSet
  <2> QED
    BY <2>1, <2>2
<1>3. MainInv'
  BY <1>1, <1>2 DEF LogInv, MainInv, ToSet
<1>4. Settled \subseteq Settled'
  <2>1. queued \in Nat /\ queued' \in Nat /\ queued <= queued'
    BY TableStep, Bounds DEF LogInv, TypeOK
  <2>2. ASSUME NEW i \in Settled PROVE i \in Settled'
    <3>1. PICK j \in 1 .. queued : treeOf[j] = treeOf[i] /\ (j \in ToSet(main) \/ ~good[j])
      BY DEF Settled
    <3>2. j \in 1 .. queued' /\ i \in DOMAIN treeOf
      BY <2>1 DEF Settled
    <3>3. j \in ToSet(main') \/ ~good[j]
      BY <1>2, <3>1
    <3> QED
      BY <3>1, <3>2, <3>3 DEF Settled
  <2> QED
    BY <2>2
<1>5. processed' \subseteq Settled'
  <2>1. processed \subseteq Settled
    BY Bounds DEF LogInv, NothingDropped, TypeOK, Settled
  <2>2. processed' \subseteq Settled
    BY <2>1, TableStep DEF LogInv, SettledInv
  <2> QED
    BY <1>4, <2>2
<1> QED
  BY <1>1, <1>3, <1>4, <1>5 DEF NothingDropped, Settled

(* What a pacer holds after a step was found first in the queue, and is settled when
   it is about to be written down. *)
LEMMA HandStep ==
  ASSUME LogInv, [Next]_vars
  PROVE  PickInv' /\ SettledInv'
<1> DEFINE Held(q) == /\ pc'[q] \in {"verify", "mark", "write"} => pick'[q] \in Passed
                      /\ pc'[q] \in {"mark", "write"} => pick'[q] \in Settled'
<1>0. /\ HandType /\ SkipInv /\ TypeOK /\ SeenInv /\ PickInv /\ SettledInv
      /\ Passed \subseteq Passed' /\ Settled \subseteq Settled'
  BY TypeParts, LogGrows DEF LogInv
<1> SUFFICES ASSUME NEW q \in Pacer PROVE Held(q)
  BY <1>0 DEF PickInv, SettledInv
<1>1. ASSUME pick'[q] = pick[q],
             \/ pc'[q] = pc[q] \/ pc'[q] \notin {"verify", "mark", "write"}
             \/ pc[q] = "mark" /\ pc'[q] = "write"
      PROVE  Held(q)
  BY <1>0, <1>1 DEF PickInv, SettledInv
<1>2. ASSUME NEW p \in Pacer, EndTick(p) PROVE Held(q)
  <2>1. pc'[q] # "idle" => pc'[q] = pc[q] /\ pick'[q] = pick[q]
    BY <1>0, <1>2, EndedTick
  <2> QED
    BY <1>0, <2>1 DEF PickInv, SettledInv
<1>3. ASSUME NEW p \in Pacer, Fire(p) \/ CheckTurn(p) \/ Mark(p) PROVE Held(q)
  BY <1>0, <1>1, <1>3 DEF HandType, Fire, CheckTurn, Mark, Goto, hand
<1>4. ASSUME NEW p \in Pacer, NotMyTurn(p) \/ Drained(p) \/ QueryFails(p) PROVE Held(q)
  BY <1>2, <1>4 DEF NotMyTurn, Drained, QueryFails
<1>5. ASSUME NEW p \in Pacer, Pick(p) PROVE Held(q)
  <2>1. CASE q # p
    BY <1>0, <1>1, <1>5, <2>1 DEF HandType, Pick, Goto
  <2>2. CASE q = p
    <3>1. host[p] \in Process /\ Unprocessed(host[p]) # {}
      BY <1>0, <1>5 DEF TypeOK, Pick
    <3>2. Min(Unprocessed(host[p])) \in Passed /\ Min(Unprocessed(host[p])) \in DOMAIN treeOf
      BY <1>0, <3>1, FirstUnprocessed, Bounds
    <3>3. pick'[p] = Min(Unprocessed(host[p]))
      BY <1>0, <1>5 DEF HandType, Pick
    <3>4. pc'[p] = "verify" \/ (pc'[p] = "mark" /\ OnMain(host[p], pick'[p]))
      BY <1>0, <1>5, <3>3 DEF HandType, Pick, Goto
    <3>5. pc'[p] = "mark" => pick'[p] \in Settled
      BY <3>1, <3>2, <3>3, <3>4, DuplicateIsSettled
    <3> QED
      BY <1>0, <2>2, <3>2, <3>3, <3>4, <3>5
  <2> QED
    BY <2>1, <2>2
<1>6. ASSUME NEW p \in Pacer, Duplicate(p) \/ LowQuality(p) PROVE Held(q)
  <2>1. pick' = pick /\ (q # p => pc'[q] = pc[q]) /\ pc[p] = "verify"
    BY <1>0, <1>6 DEF HandType, Duplicate, LowQuality, Fresh, Goto
  <2>2. /\ pick[p] \in Passed /\ pick[p] \in 1 .. queued /\ pick[p] \in DOMAIN treeOf
        /\ host[p] \in Process
    BY <1>0, <2>1, Bounds DEF PickInv, Passed, TypeOK
  <2>3. pick[p] \in Settled
    <3>1. CASE Duplicate(p)
      BY <2>2, <3>1, DuplicateIsSettled DEF Duplicate
    <3>2. CASE LowQuality(p)
      BY <2>2, <3>2 DEF LowQuality, Settled
    <3> QED
      BY <1>6, <3>1, <3>2
  <2> QED
    BY <1>0, <1>1, <2>1, <2>2, <2>3
<1>7. ASSUME NEW p \in Pacer, Publish(p) PROVE Held(q)
  <2>1. CASE EndTick(p)
    BY <1>2, <2>1
  <2>2. CASE PushAccepted(p)
    <3>1. pick' = pick /\ (q # p => pc'[q] = pc[q]) /\ pc[p] = "verify"
          /\ main' = Append(main, pick[p]) /\ queued' = queued
      BY <1>0, <1>7, <2>2 DEF HandType, Publish, PushAccepted, Fresh, Goto
    <3>2. pick[p] \in Passed /\ pick[p] \in 1 .. queued /\ pick[p] \in DOMAIN treeOf
      BY <1>0, <3>1, Bounds DEF PickInv, Passed, TypeOK
    <3>3. main \in Seq(1 .. Len(treeOf)) /\ pick[p] \in 1 .. Len(treeOf)
      BY <1>0, <3>2, Bounds DEF TypeOK
    <3>4. Len(main) + 1 \in DOMAIN main' /\ main'[Len(main) + 1] = pick[p]
      BY <3>1, <3>3, AppendProperties, LenProperties
    <3>5. pick[p] \in Settled'
      BY <3>1, <3>2, <3>4 DEF Settled, ToSet
    <3> QED
      BY <1>1, <3>1, <3>2, <3>5
  <2> QED
    BY <1>7, <2>1, <2>2 DEF Publish
<1>8. ASSUME NEW p \in Pacer, Write(p) PROVE Held(q)
  <2>1. CASE EndTick(p)
    BY <1>2, <2>1
  <2>2. CASE ~EndTick(p)
    BY <1>0, <1>1, <1>8, <2>2 DEF HandType, Write, Goto, hand
  <2> QED
    BY <2>1, <2>2
<1>9. ASSUME NEW h \in Process, Acquire(h) \/ Lose(h) PROVE Held(q)
  BY <1>1, <1>9 DEF Acquire, Lose, hand
<1>10. ASSUME NEW h \in Process, Crash(h) PROVE Held(q)
  <2>1. pc'[q] = "idle" \/ (pc'[q] = pc[q] /\ pick'[q] = pick[q])
    BY <1>10 DEF Crash
  <2> QED
    BY <1>1, <2>1
<1>11. CASE Author \/ Tick \/ UNCHANGED vars
  BY <1>1, <1>11 DEF Author, Tick, vars, hand
<1> QED
  BY <1>3, <1>4, <1>5, <1>6, <1>7, <1>8, <1>9, <1>10, <1>11 DEF Next, Step

-----------------------------------------------------------------------------
(* The invariant holds in every reachable state. *)
THEOREM PublishInvariant == Spec => []LogInv
<1>1. LogInv /\ [Next]_vars => LogInv'
  <2> SUFFICES ASSUME LogInv, [Next]_vars PROVE LogInv'
    OBVIOUS
  <2> QED
    BY LogNextTyped, LogGrows, HandStep DEF LogInv
<1> QED
  BY LogInit, <1>1, PTL DEF Spec

(* Every variable of the publish queue keeps its type (PacedPusher, PublishQueue). *)
THEOREM PublishType == Spec => []TypeOK
<1>1. LogInv => TypeOK
  BY DEF LogInv
<1> QED
  BY PublishInvariant, <1>1, PTL

(* No commit is written off unless its tree is published or was refused for its quality,
   however pacers and processes overlap, crash or lose answers (markQueuedCommitProcessed). *)
THEOREM NothingIsDropped == Spec => []NothingDropped
<1>1. LogInv => NothingDropped
  BY DEF LogInv
<1> QED
  BY PublishInvariant, <1>1, PTL

(* The publish branch implements the published log: every step of the queue either leaves
   it alone or appends one later commit with a tree of its own (publishCommit). *)
THEOREM QueueIsLog == Spec => PublishesLog
<1>1. Init => Log!Init
  BY DEF Init, Log!Init
<1>2. LogInv /\ [Next]_vars => [Log!Next]_main
  <2> SUFFICES ASSUME LogInv, [Next]_vars, main' # main PROVE Log!Next
    OBVIOUS
  <2>1. PICK p \in Pacer : /\ Fresh(p) /\ mainSeen[host[p]] = Len(main)
                           /\ main' = Append(main, pick[p])
    BY MainStep
  <2>2. /\ pick[p] \in DOMAIN treeOf
        /\ \A k \in DOMAIN main : main[k] < pick[p] /\ treeOf[main[k]] # treeOf[pick[p]]
    BY <2>1, AcceptedIsNew
  <2>3. Log!Publish(pick[p])
    BY <2>1, <2>2 DEF Log!Publish
  <2> QED
    BY <2>2, <2>3 DEF Log!Next
<1> QED
  BY PublishInvariant, <1>1, <1>2, PTL DEF Spec, PublishesLog, Log!Spec

-----------------------------------------------------------------------------
(* The schedule while nothing has failed: one tick is in flight, the cursor holds   *)
(* what is left of the interval since the last push, or the tick that has pushed    *)
(* is about to write it; a tick that looks for a commit does so with none left.     *)
Alone == \A p, q \in Pacer : pc[p] # "idle" /\ pc[q] # "idle" => p = q
HeldBack == (\A p \in Pacer : ~publishing[p]) => wait + sincePush >= Interval
Pushed ==
  \A p \in Pacer :
    publishing[p] => pc[p] \in {"mark", "write"} /\ next[p] + sincePush >= Interval
Due ==
  \A p \in Pacer :
    pc[p] \in {"pick", "verify", "mark", "write"} /\ ~publishing[p] => sincePush = Interval
CalmInv == calm => Alone /\ HeldBack /\ Pushed /\ Due

(* The variables the schedule is about, one pacer at a time. *)
LEMMA CalmEnd ==
  ASSUME TypeOK, NEW p \in Pacer, EndTick(p), CalmInv, calm, calm' = calm,
         UNCHANGED <<wait, sincePush>>, pc[p] # "idle", ~publishing[p]
  PROVE  CalmInv'
<1>1. /\ pc'[p] = "idle" /\ ~publishing'[p]
      /\ \A q \in Pacer \ {p} : pc'[q] = pc[q] /\ publishing'[q] = publishing[q]
                                /\ next'[q] = next[q]
  BY DEF TypeOK, EndTick, Goto
<1>2. Alone' /\ Due'
  BY <1>1 DEF CalmInv, Alone, Due
<1>3. HeldBack' /\ Pushed'
  BY <1>1 DEF CalmInv, HeldBack, Pushed
<1> QED
  BY <1>2, <1>3 DEF CalmInv

(* A step keeps the schedule, or nothing is calm after it. *)
LEMMA CalmStep ==
  ASSUME LogInv, CalmInv, [Next]_vars
  PROVE  CalmInv'
<1>0. /\ TypeOK /\ HandType /\ Interval \in Nat \ {0}
      /\ wait \in Nat /\ wait <= Interval /\ sincePush \in Nat /\ sincePush <= Interval
      /\ \A q \in Pacer : next[q] \in Nat
  <2>1. TypeOK /\ HandType /\ Interval \in Nat \ {0}
    BY TypeParts, Bounds DEF LogInv
  <2>2. wait \in 0 .. Interval /\ sincePush \in 0 .. Interval
    BY <2>1 DEF TypeOK
  <2>3. \A q \in Pacer : next[q] \in 0 .. Interval
    BY <2>1 DEF TypeOK
  <2> QED
    BY <2>1, <2>2, <2>3
<1> SUFFICES ASSUME calm' PROVE CalmInv'
  BY DEF CalmInv
<1>1. ASSUME Fault PROVE FALSE
  BY <1>1 DEF Fault
<1>2. ASSUME NEW p \in Pacer, Fire(p) PROVE CalmInv'
  <2>1. /\ calm /\ \A q \in Pacer : pc[q] = "idle"
        /\ UNCHANGED <<wait, sincePush, next, publishing>>
        /\ pc'[p] = "status" /\ \A q \in Pacer \ {p} : pc'[q] = pc[q]
    BY <1>0, <1>1, <1>2 DEF HandType, Fire, Fetch, FetchPartly, Goto, table, hand
  <2> QED
    BY <2>1 DEF CalmInv, Alone, HeldBack, Pushed, Due
<1>3. ASSUME NEW p \in Pacer, CheckTurn(p) PROVE CalmInv'
  <2>1. /\ calm /\ pc[p] = "status" /\ wait = 0 /\ UNCHANGED <<wait, sincePush, next, publishing>>
        /\ pc'[p] = "pick" /\ \A q \in Pacer \ {p} : pc'[q] = pc[q]
    BY <1>0, <1>1, <1>3 DEF HandType, CheckTurn, Fetch, FetchPartly, Goto, table, hand, history
  <2>2. \A q \in Pacer : ~publishing[q]
    BY <2>1 DEF CalmInv, Alone, Pushed
  <2>3. sincePush = Interval
    BY <1>0, <2>1, <2>2 DEF CalmInv, HeldBack
  <2> QED
    BY <1>0, <2>1, <2>2, <2>3 DEF CalmInv, Alone, HeldBack, Pushed, Due
<1>4. ASSUME NEW p \in Pacer, NotMyTurn(p) \/ Drained(p) PROVE CalmInv'
  <2>1. /\ EndTick(p) /\ calm /\ calm' = calm /\ UNCHANGED <<wait, sincePush>>
        /\ pc[p] \in {"status", "pick"}
    BY <1>4 DEF NotMyTurn, Drained, table, history
  <2>2. ~publishing[p]
    BY <2>1 DEF CalmInv, Pushed
  <2> QED
    BY <1>0, <2>1, <2>2, CalmEnd
<1>5. ASSUME NEW p \in Pacer, Pick(p) \/ Duplicate(p) \/ LowQuality(p) PROVE CalmInv'
  <2>1. /\ calm /\ UNCHANGED <<wait, sincePush, next, publishing>>
        /\ pc[p] \in {"pick", "verify"} /\ pc'[p] \in {"verify", "mark"}
        /\ \A q \in Pacer \ {p} : pc'[q] = pc[q]
    BY <1>0, <1>5 DEF HandType, Pick, Duplicate, LowQuality, Fresh, Goto, table, history
  <2>2. ~publishing[p]
    BY <2>1 DEF CalmInv, Pushed
  <2> QED
    BY <2>1, <2>2 DEF CalmInv, Alone, HeldBack, Pushed, Due
<1>6. ASSUME NEW p \in Pacer, Publish(p) PROVE CalmInv'
  <2>1. calm /\ pc[p] = "verify" /\ UNCHANGED wait
    BY <1>6 DEF Publish, Fresh, PushAccepted, table, history
  <2>2. ~publishing[p] /\ sincePush = Interval
    BY <2>1 DEF CalmInv, Pushed, Due
  <2>3. CASE PushAccepted(p)
    <3>1. /\ sincePush' = 0 /\ pc'[p] = "mark" /\ publishing'[p] /\ next'[p] = Interval
          /\ \A q \in Pacer \ {p} : pc'[q] = pc[q] /\ publishing'[q] = publishing[q]
      BY <1>0, <2>3 DEF HandType, PushAccepted, Goto
    <3>2. \A q \in Pacer \ {p} : pc[q] = "idle" /\ ~publishing[q]
      BY <2>1 DEF CalmInv, Alone, Pushed
    <3> QED
      BY <1>0, <3>1, <3>2 DEF CalmInv, Alone, HeldBack, Pushed, Due
  <2>4. CASE ~PushAccepted(p)
    <3>1. EndTick(p) /\ calm' = calm /\ UNCHANGED <<wait, sincePush>>
      BY <1>6, <2>1, <2>4 DEF Publish, history
    <3> QED
      BY <1>0, <2>1, <2>2, <3>1, CalmEnd
  <2> QED
    BY <2>3, <2>4
<1>7. ASSUME NEW p \in Pacer, Mark(p) PROVE CalmInv'
  <2>1. /\ calm /\ UNCHANGED <<wait, sincePush, publishing>> /\ pc[p] = "mark"
        /\ pc'[p] = "write" /\ (publishing[p] => next'[p] = next[p])
        /\ \A q \in Pacer \ {p} : pc'[q] = pc[q] /\ next'[q] = next[q]
    BY <1>0, <1>7 DEF HandType, Mark, Goto, table, history
  <2> QED
    BY <2>1 DEF CalmInv, Alone, HeldBack, Pushed, Due
<1>8. ASSUME NEW p \in Pacer, Write(p) PROVE CalmInv'
  <2>1. calm /\ pc[p] = "write" /\ wait' = next[p] /\ sincePush' = sincePush
    BY <1>1, <1>8 DEF Write, FetchPartly, history
  <2>2. next[p] + sincePush >= Interval /\ (~publishing[p] => sincePush = Interval)
    BY <1>0, <2>1 DEF CalmInv, Pushed, Due
  <2>3. \A q \in Pacer \ {p} : pc[q] = "idle" /\ ~publishing[q]
    BY <2>1 DEF CalmInv, Alone, Pushed
  <2>4. /\ \A q \in Pacer \ {p} : pc'[q] = pc[q] /\ publishing'[q] = publishing[q]
        /\ ~publishing'[p] /\ (pc'[p] = "idle" \/ (pc'[p] = "pick" /\ ~publishing[p]))
    <3>1. CASE EndTick(p)
      BY <1>0, <3>1 DEF HandType, EndTick, Goto
    <3>2. CASE ~EndTick(p)
      BY <1>0, <1>8, <3>2 DEF HandType, Write, Goto, hand
    <3> QED
      BY <3>1, <3>2
  <2> QED
    BY <2>1, <2>2, <2>3, <2>4 DEF CalmInv, Alone, HeldBack, Pushed, Due
<1>9. ASSUME NEW p \in Pacer, QueryFails(p) PROVE CalmInv'
  BY <1>1, <1>9 DEF QueryFails
<1>10. ASSUME NEW h \in Process, Acquire(h) PROVE CalmInv'
  BY <1>10 DEF Acquire, table, hand, history, CalmInv, Alone, HeldBack, Pushed, Due
<1>11. ASSUME NEW h \in Process, Lose(h) \/ Crash(h) PROVE CalmInv'
  BY <1>1, <1>11 DEF Lose, Crash
<1>12. CASE Author \/ UNCHANGED vars
  BY <1>12 DEF Author, vars, table, hand, history, CalmInv, Alone, HeldBack, Pushed, Due
<1>13. CASE Tick
  <2>1. /\ calm /\ UNCHANGED <<pc, publishing>>
        /\ sincePush' \in Nat /\ sincePush' <= Interval
        /\ sincePush' = sincePush + 1 \/ sincePush' = Interval
        /\ sincePush = Interval => sincePush' = Interval
    BY <1>0, <1>13 DEF Tick
  <2>2. \A n \in Nat : Less(n) \in Nat /\ Less(n) + 1 >= n
    BY DEF Less
  <2>3. /\ wait' = Less(wait) /\ \A q \in Pacer : next'[q] = Less(next[q])
    BY <1>13 DEF Tick
  <2>4. /\ wait' \in Nat /\ wait' + 1 >= wait
        /\ \A q \in Pacer : next'[q] \in Nat /\ next'[q] + 1 >= next[q]
    BY <1>0, <2>2, <2>3
  <2>5. \A a \in Nat, b \in Nat :
          b + 1 >= a /\ a + sincePush >= Interval => b + sincePush' >= Interval
    <3>1. CASE sincePush' = sincePush + 1
      BY <1>0, <3>1
    <3>2. CASE sincePush' = Interval
      BY <1>0, <3>2
    <3> QED
      BY <2>1, <3>1, <3>2
  <2>6. HeldBack' /\ Pushed'
    BY <1>0, <2>1, <2>4, <2>5 DEF CalmInv, HeldBack, Pushed
  <2> QED
    BY <2>1, <2>6 DEF CalmInv, Alone, Due
<1> QED
  BY <1>2, <1>3, <1>4, <1>5, <1>6, <1>7, <1>8, <1>9, <1>10, <1>11, <1>12, <1>13 DEF Next, Step

(* Pushes keep the interval as long as nothing fails and ticks do not overlap: the row
   of the cursor always says how much of it is left (tickNow, markQueuedCommitProcessed). *)
THEOREM PushesArePaced == Spec => Paced
<1>1. Init => CalmInv
  BY PublishAssumption DEF Init, CalmInv, Alone, HeldBack, Pushed, Due
<1>2. LogInv /\ CalmInv /\ [Next]_vars => CalmInv'
  BY CalmStep
<1>3. LogInv /\ CalmInv /\ [Next]_vars => [main' # main /\ calm => sincePush = Interval]_vars
  <2> SUFFICES ASSUME LogInv, CalmInv, [Next]_vars, main' # main, calm
               PROVE  sincePush = Interval
    OBVIOUS
  <2>1. PICK p \in Pacer : pc[p] = "verify"
    BY MainStep DEF Fresh
  <2> QED
    BY <2>1 DEF CalmInv, Pushed, Due
<1> QED
  BY PublishInvariant, <1>1, <1>2, <1>3, PTL DEF Spec, Paced
=============================================================================
