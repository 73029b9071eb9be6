----------------------- MODULE BlockProductionProofs -----------------------
(***************************************************************************)
(* Theorems about BlockProduction for any accounts, transactions, number of *)
(* overlapping cycles, block limit and number of faults.                    *)
(***************************************************************************)
EXTENDS BlockProduction, IndexLemmas, FiniteSetTheorems, SequenceTheorems, TLAPS

(* What the pool offers to a cycle is a sequence of transactions. *)
LEMMA PendingTxsType ==
  ASSUME NEW s \in PendingTxs
  PROVE  s \in Seq(Tx)
<1> DEFINE pending == {t \in Tx : status[t] = "pending"}
<1>1. Cardinality(pending) \in Nat
  <2>1. IsFiniteSet(pending)
    BY ProductionAssumption, FS_Subset
  <2> QED BY <2>1, FS_CardinalityType
<1>2. \A f \in SetToSeqs(pending) : f \in Seq(Tx)
  <2> SUFFICES ASSUME NEW f \in [1 .. Cardinality(pending) -> pending]
               PROVE  f \in Seq(Tx)
    BY DEF SetToSeqs
  <2>1. f \in [1 .. Cardinality(pending) -> Tx]
    OBVIOUS
  <2> QED BY <1>1, <2>1, SeqDef
<1>3. \A f \in Seq(Tx) : Len(f) > Limit => SubSeq(f, 1, Limit) \in Seq(Tx)
  <2> SUFFICES ASSUME NEW f \in Seq(Tx), Len(f) > Limit
               PROVE  SubSeq(f, 1, Limit) \in Seq(Tx)
    OBVIOUS
  <2>1. Limit \in Nat
    BY ProductionAssumption
  <2> QED BY <2>1, SubSeqProperties, ElementOfSeq, LenProperties
<1> QED BY <1>2, <1>3 DEF PendingTxs

(* Applying a transaction that passes the checks gives accounts again. *)
LEMMA AppliedType ==
  ASSUME NEW acc \in [Account -> AccountState], NEW t \in Tx, CanApply(acc, t)
  PROVE  Applied(acc, t) \in [Account -> AccountState]
  BY TransactionAssumption DEF CanApply, Applied, AccountState

(* It spends one nonce of the sender and no other. *)
LEMMA AppliedNonce ==
  ASSUME NEW acc \in [Account -> AccountState], NEW t \in Tx, NEW a \in Account
  PROVE  Applied(acc, t)[a].nonce = IF a = from[t] THEN acc[a].nonce + 1 ELSE acc[a].nonce
<1>1. from[t] \in Account /\ to[t] \in Account /\ from[t] # to[t] /\ acc[a] \in AccountState
  BY TransactionAssumption
<1>2. CASE a = from[t]
  BY <1>1, <1>2 DEF Applied, AccountState
<1>3. CASE a = to[t]
  BY <1>1, <1>3 DEF Applied, AccountState
<1>4. CASE a # from[t] /\ a # to[t]
  BY <1>1, <1>4 DEF Applied
<1> QED BY <1>2, <1>3, <1>4

(* The reward gives accounts again, and spends no nonce. *)
LEMMA RewardedType ==
  ASSUME NEW acc \in [Account -> AccountState]
  PROVE  Rewarded(acc, Producer) \in [Account -> AccountState]
  BY TransactionAssumption, ProductionAssumption DEF Rewarded, AccountState

\* Cycle c has applied the transaction at the head of its list and has not
\* yet put it in its block.
Held(c) == pc[c] \in {"saveFrom", "saveTo", "confirm"}

HandInv == \A c \in Cycle : Held(c) => todo[c] # << >>

(* The parts of TypeOK, as the steps of the proof change them. *)
MoneyType == accounts \in [Account -> AccountState] /\ rows \in [Account -> AccountState]
PoolType ==
  /\ status \in [Tx -> {"none", "pending", "confirmed"}] /\ blockHeight \in [Tx -> Nat]
TimerType == producing \in BOOLEAN /\ isProducing \in BOOLEAN /\ failures \in Nat
CycleType ==
  /\ pc \in [Cycle -> PC] /\ head \in [Cycle -> Nat]
  /\ todo \in [Cycle -> Seq(Tx)] /\ valid \in [Cycle -> SUBSET Tx]
CountType ==
  /\ rewards \in Nat /\ idleCycles \in Nat /\ peerBlocks \in Nat /\ crashes \in Nat
  /\ lost \in Nat

LEMMA TypeParts ==
  TypeOK <=> /\ MoneyType /\ PoolType /\ TimerType /\ CycleType /\ CountType
             /\ chain \in Seq(SUBSET Tx)
  BY DEF TypeOK, MoneyType, PoolType, TimerType, CycleType, CountType

(* Initially every variable has its type. *)
LEMMA InitType == Init => TypeOK /\ HandInv
<1> SUFFICES ASSUME Init PROVE TypeOK /\ HandInv
  OBVIOUS
<1>1. MoneyType
  BY ProductionAssumption DEF Init, MoneyType, AccountState
<1>2. PoolType /\ TimerType /\ CountType
  BY DEF Init, PoolType, TimerType, CountType
<1>3. CycleType /\ chain \in Seq(SUBSET Tx) /\ HandInv
  BY DEF Init, CycleType, HandInv, Held, PC
<1> QED BY <1>1, <1>2, <1>3, TypeParts

(* Every step keeps the types. *)
LEMMA NextType ==
  ASSUME TypeOK, HandInv, [Next]_vars
  PROVE  TypeOK' /\ HandInv'
<1> USE TypeParts
<1>0. /\ from \in [Tx -> Account] /\ to \in [Tx -> Account] /\ Producer \in Account
      /\ \A s \in Seq(Tx) : s # << >> => Head(s) \in Tx /\ Tail(s) \in Seq(Tx)
  BY TransactionAssumption, ProductionAssumption, HeadTailProperties
<1>1. MoneyType'
  <2>1. ASSUME NEW a \in Account, Persist(a), accounts' = accounts
        PROVE  MoneyType'
    BY <2>1 DEF MoneyType, Persist
  <2>2. ASSUME NEW c \in Cycle, Apply(c)
        PROVE  MoneyType'
    BY <1>0, <2>2, AppliedType DEF MoneyType, CycleType, Apply, tables
  <2>3. ASSUME NEW c \in Cycle, SaveFrom(c) \/ SaveTo(c)
        PROVE  MoneyType'
    BY <1>0, <2>1, <2>3 DEF HandInv, Held, CycleType, SaveFrom, SaveTo
  <2>4. ASSUME NEW c \in Cycle, ApplyReward(c)
        PROVE  MoneyType'
    BY <2>4, RewardedType DEF MoneyType, ApplyReward, tables
  <2>5. ASSUME NEW c \in Cycle, SaveReward(c)
        PROVE  MoneyType'
    BY <1>0, <2>1, <2>5 DEF SaveReward
  <2>6. CASE Crash
    BY <2>6 DEF MoneyType, Crash, tables
  <2>7. CASE UNCHANGED <<accounts, rows>>
    BY <2>7 DEF MoneyType
  <2> QED BY <2>2, <2>3, <2>4, <2>5, <2>6, <2>7
      DEF Next, Step, Submit, Begin, EnterCycle, BlockFull, Confirm, Accept, Reject, AddOnHead,
          AddToFork, AddRefused, GiveUp, SaveTx, Consensus, Record, Throw, ProgramThrows, Resume, PeerBlock,
          vars, tables
<1>2. PoolType'
  <2>1. ASSUME NEW t \in Tx, Submit(t)
        PROVE  PoolType'
    BY <2>1 DEF PoolType, Submit
  <2>2. ASSUME NEW c \in Cycle, Confirm(c) \/ ProgramThrows(c)
        PROVE  PoolType'
    <3>1. Head(todo[c]) \in Tx
      BY <1>0, <2>2 DEF CycleType, HandInv, Held, Confirm, ProgramThrows
    <3> QED BY <2>2, <3>1 DEF PoolType, Confirm, ProgramThrows
  <2>3. ASSUME NEW c \in Cycle, SaveTx(c)
        PROVE  PoolType'
    <3>1. valid[c] \subseteq Tx /\ head[c] + 1 \in Nat
      BY DEF CycleType
    <3>2. status' \in [Tx -> {"none", "pending", "confirmed"}]
      BY <2>3, <3>1 DEF PoolType, SaveTx
    <3>3. blockHeight' \in [Tx -> Nat]
      BY <2>3, <3>1 DEF PoolType, SaveTx
    <3> QED BY <3>2, <3>3 DEF PoolType
  <2>4. ASSUME NEW c \in Cycle, Record(c)
        PROVE  PoolType'
    BY <2>4 DEF PoolType, Record
  <2>5. CASE UNCHANGED <<status, blockHeight>>
    BY <2>5 DEF PoolType
  <2> QED BY <2>1, <2>2, <2>3, <2>4, <2>5
      DEF Next, Step, Begin, EnterCycle, BlockFull, Apply, SaveFrom, SaveTo, ApplyReward,
          SaveReward, Accept, Reject, AddOnHead, AddToFork, AddRefused, GiveUp, Consensus,
          Throw, ProgramThrows, Resume, PeerBlock, Crash, vars, tables
<1>3. TimerType'
  <2>1. ASSUME NEW c \in Cycle,
               GiveUp(c) \/ Throw(c) \/ ProgramThrows(c) \/ Begin(c) \/ Consensus(c) \/ Record(c)
        PROVE  TimerType'
    <3>1. failures' \in Nat
      BY <2>1 DEF TimerType, GiveUp, Throw, ProgramThrows, Begin, EnterCycle, Consensus, Record, timer
    <3>2. producing' \in BOOLEAN
      BY <2>1, Zenon
      DEF TimerType, GiveUp, Throw, ProgramThrows, Begin, EnterCycle, Consensus, Record, EndCycle
    <3>3. isProducing' \in BOOLEAN
      BY <2>1, Zenon DEF TimerType, GiveUp, Throw, ProgramThrows, Begin, EnterCycle, Consensus, Record, timer
    <3> QED BY <3>1, <3>2, <3>3 DEF TimerType
  <2>2. CASE Resume \/ Crash
    <3>1. failures' \in Nat
      BY <2>2 DEF Resume, Crash
    <3>2. producing' \in BOOLEAN /\ isProducing' \in BOOLEAN
      BY <2>2, Zenon DEF TimerType, Resume, Crash
    <3> QED BY <3>1, <3>2 DEF TimerType
  <2>3. CASE UNCHANGED <<producing, timer>>
    BY <2>3 DEF TimerType, timer
  <2> QED BY <2>1, <2>2, <2>3
      DEF Next, Step, Submit, BlockFull, Apply, SaveFrom, SaveTo, Confirm, ApplyReward,
          SaveReward, Accept, Reject, AddOnHead, AddToFork, AddRefused, SaveTx, PeerBlock, vars
<1>4. chain' \in Seq(SUBSET Tx)
  <2>1. CASE Crash
    <3>1. DOMAIN chain = 1 .. Len(chain) /\ Len(chain) \in Nat
      BY LenProperties
    <3>2. chain' \in [1 .. Len(chain) -> SUBSET Tx]
      BY <2>1, <3>1 DEF Crash
    <3> QED BY <3>1, <3>2, SeqDef
  <2>2. ASSUME NEW c \in Cycle, AddOnHead(c)
        PROVE  chain' \in Seq(SUBSET Tx)
    BY <2>2, AppendProperties DEF AddOnHead, CycleType
  <2>3. CASE PeerBlock
    BY <2>3, AppendProperties DEF PeerBlock
  <2>4. CASE UNCHANGED chain
    BY <2>4
  <2> QED BY <2>1, <2>2, <2>3, <2>4
      DEF Next, Step, Submit, Begin, EnterCycle, BlockFull, Apply, SaveFrom, SaveTo, Confirm,
          ApplyReward, SaveReward, Accept, Reject, AddToFork, AddRefused, GiveUp, SaveTx,
          Consensus, Record, Throw, ProgramThrows, Resume, vars
<1>5. CountType'
  BY DEF CountType, Next, Step, Submit, Begin, EnterCycle, BlockFull, Apply, SaveFrom, SaveTo,
         Confirm, ApplyReward, SaveReward, Accept, Reject, AddOnHead, AddToFork, AddRefused,
         GiveUp, SaveTx, Consensus, Record, Throw, ProgramThrows, Resume, PeerBlock, Crash, Persist, LoseWrite,
         vars, history
<1>6. CycleType' /\ HandInv'
  <2> USE DEF CycleType, HandInv, Held, PC
  <2>1. ASSUME NEW c \in Cycle, Begin(c)
        PROVE  CycleType' /\ HandInv'
    <3>1. Len(chain) \in Nat
      BY LenProperties
    <3> QED BY <2>1, <3>1, PendingTxsType DEF Begin, EnterCycle, Goto
  <2>2. ASSUME NEW c \in Cycle, Apply(c)
        PROVE  CycleType' /\ HandInv'
    BY <1>0, <2>2 DEF Apply, Goto
  <2>3. ASSUME NEW c \in Cycle, BlockFull(c)
        PROVE  CycleType' /\ HandInv'
    BY <2>3 DEF BlockFull
  <2>4. ASSUME NEW c \in Cycle, SaveFrom(c) \/ SaveTo(c)
        PROVE  CycleType' /\ HandInv'
    BY <2>4 DEF SaveFrom, SaveTo, Goto
  <2>5. ASSUME NEW c \in Cycle, Confirm(c)
        PROVE  CycleType' /\ HandInv'
    BY <1>0, <2>5 DEF Confirm, Goto
  <2>6. ASSUME NEW c \in Cycle,
               \/ ApplyReward(c) \/ SaveReward(c) \/ Accept(c) \/ AddOnHead(c)
               \/ AddToFork(c) \/ SaveTx(c) \/ Consensus(c)
        PROVE  CycleType' /\ HandInv'
    BY <2>6 DEF ApplyReward, SaveReward, Accept, AddOnHead, AddToFork, SaveTx, Consensus, Goto
  <2>7. ASSUME NEW c \in Cycle, EndCycle(c)
        PROVE  CycleType' /\ HandInv'
    BY <2>7 DEF EndCycle, Goto
  <2>8. CASE Crash
    BY <2>8 DEF Crash
  <2>9. CASE UNCHANGED cycleVars
    BY <2>9 DEF cycleVars
  <2> QED BY <2>1, <2>2, <2>3, <2>4, <2>5, <2>6, <2>7, <2>8, <2>9
      DEF Next, Step, Submit, Reject, AddRefused, GiveUp, Record, Throw, ProgramThrows, Resume, PeerBlock, vars
<1> QED BY <1>1, <1>2, <1>3, <1>4, <1>5, <1>6
    DEF TypeOK, MoneyType, PoolType, TimerType, CycleType, CountType

-----------------------------------------------------------------------------
\* The transaction cycle c has applied and not yet put in its block.
InHand(c) == Head(todo[c])

\* The nonce of t is spent in memory, and in the table.
Used(t) == accounts[from[t]].nonce > nonceOf[t]
Spent(t) == rows[from[t]].nonce > nonceOf[t]

\* The table is never ahead of memory.
PastInv == \A a \in Account : rows[a].nonce <= accounts[a].nonce

UsedInv == \A c \in Cycle : Held(c) => Used(InHand(c))

(***************************************************************************)
(* The strengthening of ConfirmedIsDurable: a nonce is spent in the table   *)
(* from the save of the sender on, before anything confirms it.             *)
(***************************************************************************)
SpentInv ==
  lost = 0 =>
    /\ \A c \in Cycle : pc[c] \in {"saveTo", "confirm"} => Spent(InHand(c))
    /\ \A c \in Cycle : \A t \in valid[c] : Spent(t)
    /\ \A t \in Tx : status[t] = "confirmed" => Spent(t)

\* The addresses cycle c has changed in memory and has yet to save.
Unsaved(c) ==
  CASE pc[c] = "saveFrom"   -> {from[InHand(c)], to[InHand(c)]}
    [] pc[c] = "saveTo"     -> {to[InHand(c)]}
    [] pc[c] = "saveReward" -> {Producer}
    [] OTHER                -> {}

(* The strengthening of MemoryMatchesRows. *)
SyncInv ==
  lost = 0 => \A a \in Account : accounts[a] = rows[a] \/ \E c \in Cycle : a \in Unsaved(c)

(* At most one cycle runs, with the guard up. *)
GuardInv ==
  \A c \in Cycle :
    /\ pc[c] # "idle" => producing /\ \A d \in Cycle : pc[d] # "idle" => d = c
    /\ pc[c] = "idle" => valid[c] = {}

\* From the choice of the head to the block on it.
Building(c) == pc[c] \in {"apply", "saveFrom", "saveTo", "confirm", "saveReward", "judge", "add"}

(* The strengthening of AddsOnHead. *)
HeadInv == peerBlocks = 0 => \A c \in Cycle : Building(c) => head[c] = Len(chain)

(* A height in the table of transactions points at a block that has the
   transaction, so a reloaded block has no more than it had. *)
SavedInv ==
  /\ \A c \in Cycle : pc[c] = "saveTx" => head[c] < Len(chain) /\ chain[head[c] + 1] = valid[c]
  /\ \A t \in Tx : blockHeight[t] <= Len(chain)
  /\ \A t \in Tx : \A h \in DOMAIN chain : blockHeight[t] = h => t \in chain[h]

Precede(S, T) == \A s \in S, t \in T : from[s] = from[t] => nonceOf[s] < nonceOf[t]
Distinct(S) == \A s, t \in S : from[s] = from[t] /\ s # t => nonceOf[s] # nonceOf[t]

Calm == lost = 0 \/ crashes = 0

(***************************************************************************)
(* The strengthening of BlocksNonceOrdered: what is in the chain, in the    *)
(* block being built and in hand has spent its nonce, in this order.        *)
(***************************************************************************)
ChainUsed ==
  \A h \in DOMAIN chain : \A t \in chain[h] : Used(t) /\ (lost = 0 => Spent(t))
ValidUsed == \A c \in Cycle : \A t \in valid[c] : Used(t)
ChainOrdered ==
  /\ \A g, h \in DOMAIN chain : g < h => Precede(chain[g], chain[h])
  /\ \A h \in DOMAIN chain : Distinct(chain[h])
BlockOrdered ==
  \A c \in Cycle : Building(c) =>
    /\ Distinct(valid[c])
    /\ \A h \in DOMAIN chain : Precede(chain[h], valid[c])
    /\ Held(c) => Precede(valid[c], {InHand(c)})
    /\ Held(c) => \A h \in DOMAIN chain : Precede(chain[h], {InHand(c)})
OrderInv == Calm => ChainUsed /\ ValidUsed /\ ChainOrdered /\ BlockOrdered

ProductionInv ==
  /\ TypeOK /\ HandInv
  /\ PastInv /\ UsedInv /\ SpentInv /\ SyncInv
  /\ GuardInv /\ HeadInv /\ SavedInv /\ OrderInv

(* Initially nothing is spent, in hand or under way. *)
LEMMA InitProduction == Init => ProductionInv
<1> SUFFICES ASSUME Init PROVE ProductionInv
  OBVIOUS
<1>1. TypeOK /\ HandInv
  BY InitType
<1>2. PastInv /\ UsedInv /\ SyncInv /\ GuardInv
  BY <1>1 DEF Init, TypeOK, AccountState, PastInv, UsedInv, Held, SyncInv, GuardInv
<1>3. SpentInv /\ HeadInv /\ Len(chain) = 0 /\ DOMAIN chain = {}
  BY DEF Init, SpentInv, HeadInv, Building
<1>4. SavedInv
  BY <1>3 DEF Init, SavedInv
<1>5. OrderInv
  BY <1>3 DEF Init, OrderInv, ChainUsed, ValidUsed, ChainOrdered, BlockOrdered, Building
<1> QED BY <1>1, <1>2, <1>3, <1>4, <1>5 DEF ProductionInv

(* The steps of one cycle, with the two ways a cycle ends early. *)
LEMMA StepCases ==
  ASSUME NEW c \in Cycle, Step(c)
  PROVE  \/ Apply(c) \/ SaveFrom(c) \/ SaveTo(c) \/ Confirm(c) \/ ApplyReward(c)
         \/ SaveReward(c) \/ Accept(c) \/ AddOnHead(c) \/ AddToFork(c) \/ SaveTx(c)
         \/ Consensus(c) \/ Record(c) \/ GiveUp(c) \/ Throw(c) \/ ProgramThrows(c)
  BY DEF Step, Reject, AddRefused

(***************************************************************************)
(* Nonces only grow: in memory within one run of the process, and in the    *)
(* table always, since it is never ahead of memory.                         *)
(***************************************************************************)
Growth ==
  /\ \A a \in Account : rows'[a].nonce >= rows[a].nonce
  /\ Crash \/ \A a \in Account : accounts'[a].nonce >= accounts[a].nonce

(* Nonces grow, and memory stays ahead of the table. *)
LEMMA NextGrowth ==
  ASSUME TypeOK, HandInv, PastInv, [Next]_vars
  PROVE  Growth /\ PastInv'
<1> USE DEF Growth, PastInv
<1>0. /\ accounts \in [Account -> AccountState] /\ rows \in [Account -> AccountState]
      /\ from \in [Tx -> Account] /\ to \in [Tx -> Account] /\ Producer \in Account
      /\ \A a \in Account : accounts[a].nonce \in Nat /\ rows[a].nonce \in Nat
  BY TransactionAssumption, ProductionAssumption DEF TypeOK, AccountState
<1>1. ASSUME NEW a \in Account, Persist(a), accounts' = accounts
      PROVE  Growth /\ PastInv'
  BY <1>0, <1>1 DEF Persist
<1>2. ASSUME NEW c \in Cycle, Apply(c)
      PROVE  Growth /\ PastInv'
  <2>1. CASE UNCHANGED <<accounts, rows>>
    BY <1>0, <2>1
  <2>2. CASE accounts' = Applied(accounts, Head(todo[c])) /\ rows' = rows
    <3>1. Head(todo[c]) \in Tx
      BY <1>2, HeadTailProperties DEF TypeOK, Apply
    <3>2. \A a \in Account :
            accounts'[a].nonce \in {accounts[a].nonce, accounts[a].nonce + 1}
      BY <1>0, <2>2, <3>1, AppliedNonce
    <3> QED BY <1>0, <2>2, <3>2
  <2> QED BY <1>2, <2>1, <2>2 DEF Apply, tables
<1>3. ASSUME NEW c \in Cycle, SaveFrom(c) \/ SaveTo(c)
      PROVE  Growth /\ PastInv'
  <2>1. Head(todo[c]) \in Tx
    BY <1>3, HeadTailProperties DEF TypeOK, HandInv, Held, SaveFrom, SaveTo
  <2> QED BY <1>0, <1>1, <1>3, <2>1 DEF SaveFrom, SaveTo
<1>4. ASSUME NEW c \in Cycle, ApplyReward(c)
      PROVE  Growth /\ PastInv'
  BY <1>0, <1>4 DEF ApplyReward, Rewarded, tables, AccountState
<1>5. ASSUME NEW c \in Cycle, SaveReward(c)
      PROVE  Growth /\ PastInv'
  BY <1>0, <1>1, <1>5 DEF SaveReward
<1>6. CASE Crash
  BY <1>0, <1>6 DEF Crash, tables
<1>7. CASE UNCHANGED <<accounts, rows>>
  BY <1>0, <1>7
<1> QED BY <1>2, <1>3, <1>4, <1>5, <1>6, <1>7, StepCases
    DEF Next, Submit, Begin, EnterCycle, BlockFull, Confirm, Accept, AddOnHead, AddToFork,
        GiveUp, SaveTx, Consensus, Record, Throw, ProgramThrows, Resume, PeerBlock, vars, tables

(* What is spent stays spent. *)
LEMMA SpentStays ==
  ASSUME TypeOK, TypeOK', Growth, NEW t \in Tx
  PROVE  (Spent(t) => Spent(t)') /\ (Used(t) /\ ~Crash => Used(t)')
<1>1. from[t] \in Account /\ nonceOf[t] \in Nat
  BY TransactionAssumption
<1>2. \A a \in Account : /\ rows[a].nonce \in Nat /\ rows'[a].nonce \in Nat
                         /\ accounts[a].nonce \in Nat /\ accounts'[a].nonce \in Nat
  BY DEF TypeOK, AccountState
<1> QED BY <1>1, <1>2 DEF Growth, Spent, Used

\* Cycle c finds that the transaction at the head of its list can be applied.
Taken(c) ==
  /\ pc[c] = "apply" /\ todo[c] # << >> /\ CanApply(accounts, InHand(c))
  /\ accounts' = Applied(accounts, InHand(c))
  /\ pc' = [pc EXCEPT ![c] = "saveFrom"] /\ UNCHANGED <<todo, valid>>

(* A transaction comes in hand only by being applied. *)
LEMMA HandCases ==
  ASSUME TypeOK, [Next]_vars, NEW d \in Cycle, Held(d)'
  PROVE  (Held(d) /\ InHand(d)' = InHand(d)) \/ Taken(d)
<1> USE DEF Held, InHand, TypeOK
<1>1. ASSUME NEW c \in Cycle, Apply(c)
      PROVE  (Held(d) /\ InHand(d)' = InHand(d)) \/ Taken(d)
  BY <1>1 DEF Apply, Goto, Taken
<1>2. ASSUME NEW c \in Cycle, Begin(c)
      PROVE  Held(d) /\ InHand(d)' = InHand(d)
  BY <1>2 DEF Begin, EnterCycle, Goto
<1>3. ASSUME NEW c \in Cycle, SaveFrom(c) \/ SaveTo(c) \/ Confirm(c) \/ BlockFull(c)
      PROVE  Held(d) /\ InHand(d)' = InHand(d)
  BY <1>3 DEF SaveFrom, SaveTo, Confirm, BlockFull, Goto
<1>4. ASSUME NEW c \in Cycle,
             \/ ApplyReward(c) \/ SaveReward(c) \/ Accept(c) \/ AddOnHead(c)
             \/ AddToFork(c) \/ SaveTx(c) \/ Consensus(c)
      PROVE  Held(d) /\ InHand(d)' = InHand(d)
  BY <1>4 DEF ApplyReward, SaveReward, Accept, AddOnHead, AddToFork, SaveTx, Consensus, Goto
<1>5. ASSUME NEW c \in Cycle, EndCycle(c)
      PROVE  Held(d) /\ InHand(d)' = InHand(d)
  BY <1>5 DEF EndCycle, Goto
<1>6. ~Crash
  BY DEF Crash
<1>7. CASE UNCHANGED cycleVars
  BY <1>7 DEF cycleVars
<1> QED BY <1>1, <1>2, <1>3, <1>4, <1>5, <1>6, <1>7, StepCases
    DEF Next, Submit, GiveUp, Record, Throw, ProgramThrows, Resume, PeerBlock, vars

(* The nonce of what is in hand is spent in memory. *)
LEMMA NextUsed ==
  ASSUME TypeOK, HandInv, TypeOK', UsedInv, Growth, [Next]_vars
  PROVE  UsedInv'
<1> SUFFICES ASSUME NEW d \in Cycle, Held(d)'
             PROVE  Used(InHand(d))'
  BY DEF UsedInv
<1>1. CASE Held(d) /\ InHand(d)' = InHand(d)
  <2>1. InHand(d) \in Tx /\ Used(InHand(d)) /\ ~Crash
    BY <1>1, HeadTailProperties DEF TypeOK, HandInv, UsedInv, InHand, Held, Crash
  <2>2. accounts'[from[InHand(d)]].nonce > nonceOf[InHand(d)]
    BY <2>1, SpentStays DEF Used
  <2> QED BY <1>1, <2>2 DEF Used
<1>2. CASE Taken(d)
  <2>1. InHand(d) \in Tx /\ from[InHand(d)] \in Account /\ InHand(d)' = InHand(d)
    BY <1>2, HeadTailProperties, TransactionAssumption DEF TypeOK, Taken, InHand
  <2>2. accounts'[from[InHand(d)]].nonce = accounts[from[InHand(d)]].nonce + 1
    BY <1>2, <2>1, AppliedNonce DEF Taken, TypeOK
  <2>3. accounts[from[InHand(d)]].nonce = nonceOf[InHand(d)] /\ nonceOf[InHand(d)] \in Nat
    BY <1>2, <2>1, TransactionAssumption DEF Taken, CanApply
  <2> QED BY <2>1, <2>2, <2>3 DEF Used
<1> QED BY <1>1, <1>2, HandCases

(* A lost write is never forgotten, and no other counter runs back. *)
LEMMA CountersGrow ==
  ASSUME TypeOK, [Next]_vars
  PROVE  (lost' = 0 => lost = 0) /\ (Calm' => Calm) /\ (peerBlocks' = 0 => peerBlocks = 0)
<1>1. lost' >= lost /\ crashes' >= crashes /\ peerBlocks' >= peerBlocks
  BY StepCases
  DEF TypeOK, Next, Submit, Begin, EnterCycle, BlockFull, Apply, SaveFrom, SaveTo, Confirm,
      ApplyReward, SaveReward, Accept, AddOnHead, AddToFork, GiveUp, SaveTx, Consensus, Record,
      Throw, ProgramThrows, Resume, PeerBlock, Crash, Persist, LoseWrite, vars, history
<1> QED BY <1>1 DEF TypeOK, Calm

(* A cycle adds to its block only what it has in hand, at the confirmation. *)
LEMMA ValidCases ==
  ASSUME TypeOK, [Next]_vars, NEW d \in Cycle, NEW t \in valid'[d]
  PROVE  t \in valid[d] \/ (Confirm(d) /\ t = InHand(d))
<1> USE DEF TypeOK, InHand
<1>1. ASSUME NEW c \in Cycle, Confirm(c)
      PROVE  t \in valid[d] \/ (Confirm(d) /\ t = InHand(d))
  BY <1>1 DEF Confirm
<1>2. ASSUME NEW c \in Cycle, EndCycle(c)
      PROVE  t \in valid[d]
  BY <1>2 DEF EndCycle
<1>3. ~Crash
  BY DEF Crash
<1>4. CASE UNCHANGED valid
  BY <1>4
<1> QED BY <1>1, <1>2, <1>3, <1>4, StepCases
    DEF Next, Submit, Begin, EnterCycle, BlockFull, Apply, SaveFrom, SaveTo, ApplyReward,
        SaveReward, Accept, AddOnHead, AddToFork, GiveUp, SaveTx, Consensus, Record, Throw, ProgramThrows,
        Resume, PeerBlock, vars, cycleVars

(* Only what a cycle has in its block or is about to put there is confirmed. *)
LEMMA StatusCases ==
  ASSUME TypeOK, HandInv, [Next]_vars, NEW t \in Tx, status'[t] = "confirmed"
  PROVE  \/ status[t] = "confirmed"
         \/ \E c \in Cycle : t \in valid[c] \/ (pc[c] = "confirm" /\ t = InHand(c))
<1> USE DEF TypeOK
<1>1. ASSUME NEW s \in Tx, Submit(s)
      PROVE  status[t] = "confirmed"
  BY <1>1 DEF Submit
<1>2. ASSUME NEW c \in Cycle, Confirm(c) \/ ProgramThrows(c)
      PROVE  status[t] = "confirmed" \/ (pc[c] = "confirm" /\ t = InHand(c))
  BY <1>2 DEF Confirm, ProgramThrows, InHand
<1>3. ASSUME NEW c \in Cycle, SaveTx(c) \/ Record(c)
      PROVE  status[t] = "confirmed" \/ t \in valid[c]
  BY <1>3 DEF SaveTx, Record
<1>4. CASE UNCHANGED status
  BY <1>4
<1> QED BY <1>1, <1>2, <1>3, <1>4, StepCases
    DEF Next, Begin, EnterCycle, BlockFull, Apply, SaveFrom, SaveTo, ApplyReward, SaveReward,
        Accept, AddOnHead, AddToFork, GiveUp, Consensus, Throw, ProgramThrows, Resume, PeerBlock, Crash, vars,
        tables

(* A sender has been saved when its cycle goes on to the recipient. *)
LEMMA SavedCases ==
  ASSUME TypeOK, [Next]_vars, NEW d \in Cycle, pc'[d] \in {"saveTo", "confirm"}
  PROVE  (pc[d] \in {"saveTo", "confirm"} \/ SaveFrom(d)) /\ InHand(d)' = InHand(d)
<1>1. Held(d)'
  BY DEF Held
<1>2. ~Taken(d)
  BY DEF Taken, TypeOK
<1>3. Held(d) /\ InHand(d)' = InHand(d)
  BY <1>1, <1>2, HandCases
<1>4. CASE pc[d] = "saveFrom"
  <2> USE <1>4 DEF TypeOK
  <2>1. ASSUME NEW c \in Cycle, SaveFrom(c)
        PROVE  SaveFrom(d)
    BY <2>1 DEF SaveFrom, Goto
  <2>2. ASSUME NEW c \in Cycle,
               \/ Begin(c) \/ Apply(c) \/ SaveTo(c) \/ Confirm(c) \/ ApplyReward(c)
               \/ SaveReward(c) \/ Accept(c) \/ AddOnHead(c) \/ AddToFork(c) \/ SaveTx(c)
               \/ Consensus(c) \/ EndCycle(c)
        PROVE  FALSE
    BY <2>2
    DEF Begin, EnterCycle, Apply, SaveTo, Confirm, ApplyReward, SaveReward, Accept, AddOnHead,
        AddToFork, SaveTx, Consensus, EndCycle, Goto
  <2>3. ~Crash /\ ~UNCHANGED pc
    BY DEF Crash
  <2> QED BY <1>3, <2>1, <2>2, <2>3, StepCases
      DEF Next, Submit, BlockFull, GiveUp, Record, Throw, ProgramThrows, Resume, PeerBlock, vars, cycleVars
<1> QED BY <1>3, <1>4 DEF Held

(* A nonce is spent in the table before anything confirms it. *)
LEMMA NextSpent ==
  ASSUME TypeOK, HandInv, TypeOK', UsedInv, SpentInv, Growth, [Next]_vars
  PROVE  SpentInv'
<1> SUFFICES ASSUME lost' = 0
             PROVE  /\ \A d \in Cycle : pc'[d] \in {"saveTo", "confirm"} => Spent(InHand(d))'
                    /\ \A d \in Cycle : \A t \in valid'[d] : Spent(t)'
                    /\ \A t \in Tx : status'[t] = "confirmed" => Spent(t)'
  BY DEF SpentInv
<1>1. lost = 0
  BY CountersGrow
<1>2. \A t \in Tx : Spent(t) => Spent(t)'
  BY SpentStays
<1>3. \A d \in Cycle : Held(d) => InHand(d) \in Tx
  BY HeadTailProperties DEF TypeOK, HandInv, InHand
<1>4. \A d \in Cycle : valid[d] \subseteq Tx
  BY DEF TypeOK
<1>5. ASSUME NEW d \in Cycle, pc'[d] \in {"saveTo", "confirm"}
      PROVE  Spent(InHand(d))'
  <2>1. CASE pc[d] \in {"saveTo", "confirm"} /\ InHand(d)' = InHand(d)
    <3>1. Spent(InHand(d)) /\ InHand(d) \in Tx
      BY <1>1, <1>3, <2>1 DEF SpentInv, Held
    <3>2. rows'[from[InHand(d)]].nonce > nonceOf[InHand(d)]
      BY <1>2, <3>1 DEF Spent
    <3> QED BY <2>1, <3>2 DEF Spent
  <2>2. CASE SaveFrom(d) /\ InHand(d)' = InHand(d)
    <3>1. Used(InHand(d)) /\ InHand(d) \in Tx /\ from[InHand(d)] \in Account
      BY <1>3, <2>2, TransactionAssumption DEF UsedInv, SaveFrom, Held
    <3>2. rows' = [rows EXCEPT ![from[InHand(d)]] = accounts[from[InHand(d)]]]
      BY <1>1, <2>2 DEF SaveFrom, Persist, LoseWrite, InHand
    <3>3. rows'[from[InHand(d)]].nonce > nonceOf[InHand(d)]
      BY <3>1, <3>2 DEF TypeOK, Used
    <3> QED BY <2>2, <3>3 DEF Spent
  <2> QED BY <1>5, <2>1, <2>2, SavedCases
<1>6. ASSUME NEW d \in Cycle, pc[d] = "confirm"
      PROVE  Spent(InHand(d))
  BY <1>1, <1>6 DEF SpentInv
<1>7. ASSUME NEW d \in Cycle, NEW t \in valid'[d]
      PROVE  Spent(t)'
  <2>1. pc[d] = "confirm" => InHand(d) \in Tx
    BY <1>3 DEF Held
  <2> QED BY <1>1, <1>2, <1>4, <1>6, <2>1, ValidCases DEF SpentInv, Confirm
<1>8. ASSUME NEW t \in Tx, status'[t] = "confirmed"
      PROVE  Spent(t)'
  BY <1>1, <1>2, <1>6, <1>8, StatusCases DEF SpentInv
<1> QED BY <1>5, <1>7, <1>8

(* Memory and table stay equal up to what running saves have yet to write. *)
LEMMA NextSync ==
  ASSUME TypeOK, HandInv, SyncInv, [Next]_vars
  PROVE  SyncInv'
<1> DEFINE Same(d) == pc'[d] = pc[d] /\ todo'[d] = todo[d]
           Equal(a) == accounts[a] = rows[a]
<1> SUFFICES ASSUME lost' = 0, NEW a \in Account, accounts'[a] # rows'[a]
             PROVE  \E d \in Cycle : a \in Unsaved(d)'
  BY DEF SyncInv
<1>1. lost = 0
  BY CountersGrow
<1>2. accounts[a] # rows[a] => \E d \in Cycle : a \in Unsaved(d)
  BY <1>1 DEF SyncInv
<1>3. \A d \in Cycle : Same(d) => Unsaved(d)' = Unsaved(d)
  BY DEF Unsaved, InHand
<1>4. /\ accounts \in [Account -> AccountState] /\ rows \in [Account -> AccountState]
      /\ pc \in [Cycle -> PC] /\ todo \in [Cycle -> Seq(Tx)] /\ Producer \in Account
  BY ProductionAssumption DEF TypeOK
<1>5. \A d \in Cycle : Held(d) => InHand(d) \in Tx
  BY HeadTailProperties DEF TypeOK, HandInv, InHand
<1>6. ASSUME NEW c \in Cycle, Apply(c)
      PROVE  \E d \in Cycle : a \in Unsaved(d)'
  <2>1. \A d \in Cycle \ {c} : Same(d)
    BY <1>4, <1>6 DEF Apply, Goto
  <2>2. Unsaved(c) = {}
    BY <1>6 DEF Apply, Unsaved
  <2>3. CASE Taken(c)
    <3>1. InHand(c) \in Tx /\ InHand(c)' = InHand(c)
      BY <1>4, <2>3, HeadTailProperties DEF Taken, InHand
    <3>2. Unsaved(c)' = {from[InHand(c)], to[InHand(c)]}
      BY <1>4, <2>3, <3>1 DEF Taken, Unsaved
    <3>3. a \notin {from[InHand(c)], to[InHand(c)]} => accounts'[a] = accounts[a]
      BY <1>4, <2>3, <3>1, TransactionAssumption DEF Taken, Applied
    <3> QED BY <1>2, <1>3, <1>6, <2>1, <2>2, <3>2, <3>3 DEF Apply, tables
  <2>4. CASE UNCHANGED accounts
    BY <1>2, <1>3, <1>6, <2>1, <2>2, <2>4 DEF Apply, tables
  <2> QED BY <1>6, <2>3, <2>4 DEF Apply, Taken, InHand, Goto
<1>7. ASSUME NEW c \in Cycle, SaveFrom(c)
      PROVE  \E d \in Cycle : a \in Unsaved(d)'
  <2>1. \A d \in Cycle \ {c} : Same(d)
    BY <1>4, <1>7 DEF SaveFrom, Goto
  <2>2. Unsaved(c) = {from[InHand(c)], to[InHand(c)]} /\ Unsaved(c)' = {to[InHand(c)]}
    BY <1>4, <1>7 DEF SaveFrom, Goto, Unsaved, InHand
  <2>3. rows' = [rows EXCEPT ![from[InHand(c)]] = accounts[from[InHand(c)]]]
    BY <1>1, <1>7 DEF SaveFrom, Persist, LoseWrite, InHand
  <2>4. a # from[InHand(c)] /\ accounts[a] # rows[a]
    BY <1>4, <1>7, <2>3 DEF SaveFrom
  <2> QED BY <1>2, <1>3, <2>1, <2>2, <2>4
<1>8. ASSUME NEW c \in Cycle, SaveTo(c)
      PROVE  \E d \in Cycle : a \in Unsaved(d)'
  <2>1. \A d \in Cycle \ {c} : Same(d)
    BY <1>4, <1>8 DEF SaveTo, Goto
  <2>2. Unsaved(c) = {to[InHand(c)]}
    BY <1>8 DEF SaveTo, Unsaved
  <2>3. rows' = [rows EXCEPT ![to[InHand(c)]] = accounts[to[InHand(c)]]]
    BY <1>1, <1>8 DEF SaveTo, Persist, LoseWrite, InHand
  <2>4. a # to[InHand(c)] /\ accounts[a] # rows[a]
    BY <1>4, <1>8, <2>3 DEF SaveTo
  <2> QED BY <1>2, <1>3, <2>1, <2>2, <2>4
<1>9. ASSUME NEW c \in Cycle, ApplyReward(c)
      PROVE  \E d \in Cycle : a \in Unsaved(d)'
  <2>1. \A d \in Cycle \ {c} : Same(d)
    BY <1>4, <1>9 DEF ApplyReward, Goto
  <2>2. Unsaved(c) = {} /\ Unsaved(c)' = {Producer}
    BY <1>4, <1>9 DEF ApplyReward, Goto, Unsaved
  <2>3. a # Producer => accounts'[a] = accounts[a]
    BY <1>4, <1>9 DEF ApplyReward, Rewarded
  <2> QED BY <1>2, <1>3, <1>9, <2>1, <2>2, <2>3 DEF ApplyReward, tables
<1>10. ASSUME NEW c \in Cycle, SaveReward(c)
       PROVE  \E d \in Cycle : a \in Unsaved(d)'
  <2>1. \A d \in Cycle \ {c} : Same(d)
    BY <1>4, <1>10 DEF SaveReward, Goto
  <2>2. Unsaved(c) = {Producer}
    BY <1>10 DEF SaveReward, Unsaved
  <2>3. rows' = [rows EXCEPT ![Producer] = accounts[Producer]]
    BY <1>1, <1>10 DEF SaveReward, Persist, LoseWrite
  <2>4. a # Producer /\ accounts[a] # rows[a]
    BY <1>4, <1>10, <2>3 DEF SaveReward
  <2> QED BY <1>2, <1>3, <2>1, <2>2, <2>4
<1>11. ASSUME NEW c \in Cycle, pc[c] \notin {"saveFrom", "saveTo", "saveReward"},
              \A d \in Cycle \ {c} : Same(d), UNCHANGED <<accounts, rows>>
       PROVE  \E d \in Cycle : a \in Unsaved(d)'
  <2>1. Unsaved(c) = {}
    BY <1>11 DEF Unsaved
  <2> QED BY <1>2, <1>3, <1>11, <2>1
<1>12. ASSUME NEW c \in Cycle,
              \/ Begin(c) \/ Confirm(c) \/ Accept(c) \/ AddOnHead(c) \/ AddToFork(c)
              \/ SaveTx(c) \/ Consensus(c)
       PROVE  \E d \in Cycle : a \in Unsaved(d)'
  <2>1. /\ pc[c] \notin {"saveFrom", "saveTo", "saveReward"}
        /\ \A d \in Cycle \ {c} : Same(d)
    BY <1>4, <1>12 DEF Begin, EnterCycle, Confirm, Accept, AddOnHead, AddToFork, SaveTx,
                       Consensus, Goto
  <2>2. UNCHANGED <<accounts, rows>>
    BY <1>12 DEF Begin, EnterCycle, Confirm, Accept, AddOnHead, AddToFork, SaveTx, Consensus,
                 tables
  <2> QED BY <1>11, <2>1, <2>2
<1>13. ASSUME NEW c \in Cycle, Reject(c) \/ AddRefused(c) \/ Record(c) \/ Throw(c) \/ ProgramThrows(c)
       PROVE  \E d \in Cycle : a \in Unsaved(d)'
  <2>1. /\ pc[c] \notin {"saveFrom", "saveTo", "saveReward"}
        /\ \A d \in Cycle \ {c} : Same(d)
    BY <1>4, <1>13 DEF Reject, AddRefused, GiveUp, Record, Throw, ProgramThrows, EndCycle, Goto
  <2>2. UNCHANGED <<accounts, rows>>
    BY <1>13 DEF Reject, AddRefused, GiveUp, Record, Throw, ProgramThrows, tables
  <2> QED BY <1>11, <2>1, <2>2
<1>14. ASSUME NEW c \in Cycle, BlockFull(c)
       PROVE  \E d \in Cycle : a \in Unsaved(d)'
  <2>1. pc[c] = "apply" /\ \A d \in Cycle \ {c} : Same(d)
    BY <1>4, <1>14 DEF BlockFull
  <2> QED BY <1>11, <1>14, <2>1 DEF BlockFull, tables
<1>15. ~Crash
  BY DEF Crash, tables
<1>16. CASE UNCHANGED <<accounts, rows, pc, todo>>
  BY <1>2, <1>3, <1>16
<1> QED BY <1>6, <1>7, <1>8, <1>9, <1>10, <1>12, <1>13, <1>14, <1>15, <1>16
    DEF Next, Step, Submit, Resume, PeerBlock, vars, tables, cycleVars

\* Cycle c goes on to another await; no other cycle moves.
Working(c) ==
  /\ pc[c] # "idle" /\ pc'[c] # "idle"
  /\ \A d \in Cycle \ {c} : pc'[d] = pc[d] /\ valid'[d] = valid[d]
  /\ UNCHANGED <<producing, head>>

(* What a step may do to the cycles. *)
LEMMA CycleCases ==
  ASSUME TypeOK, [Next]_vars
  PROVE  \/ \E c \in Cycle : Begin(c)
         \/ \E c \in Cycle : EndCycle(c) /\ pc[c] # "idle"
         \/ \E c \in Cycle : Working(c)
         \/ Crash
         \/ UNCHANGED <<pc, valid, producing, head>>
<1> USE DEF TypeOK
<1>1. ASSUME NEW c \in Cycle, Apply(c) \/ SaveFrom(c) \/ SaveTo(c) \/ Confirm(c)
      PROVE  Working(c)
  BY <1>1 DEF Working, Apply, SaveFrom, SaveTo, Confirm, Goto
<1>2. ASSUME NEW c \in Cycle, ApplyReward(c) \/ SaveReward(c) \/ Accept(c) \/ AddOnHead(c)
      PROVE  Working(c)
  BY <1>2 DEF Working, ApplyReward, SaveReward, Accept, AddOnHead, Goto
<1>3. ASSUME NEW c \in Cycle, AddToFork(c) \/ SaveTx(c) \/ Consensus(c)
      PROVE  Working(c)
  BY <1>3 DEF Working, AddToFork, SaveTx, Consensus, Goto
<1>4. ASSUME NEW c \in Cycle, Reject(c) \/ AddRefused(c) \/ Record(c) \/ Throw(c) \/ ProgramThrows(c)
      PROVE  EndCycle(c) /\ pc[c] # "idle"
  BY <1>4 DEF Reject, AddRefused, GiveUp, Record, Throw, ProgramThrows
<1> QED BY <1>1, <1>2, <1>3, <1>4
    DEF Next, Step, Submit, BlockFull, Resume, PeerBlock, vars, cycleVars

(* Cycles do not overlap, and between them no block is under way. *)
LEMMA NextGuard ==
  ASSUME TypeOK, GuardInv, [Next]_vars
  PROVE  GuardInv'
<1> USE DEF GuardInv
<1>1. ASSUME NEW c \in Cycle, Begin(c)
      PROVE  GuardInv'
  <2>1. producing' /\ ~producing /\ pc' = [pc EXCEPT ![c] = "apply"] /\ valid' = valid
    BY <1>1, Zenon DEF Begin, EnterCycle, Goto
  <2>2. \A d \in Cycle : pc[d] = "idle" /\ valid[d] = {}
    BY <2>1, Zenon
  <2> QED BY <2>1, <2>2 DEF TypeOK
<1>2. ASSUME NEW c \in Cycle, EndCycle(c), pc[c] # "idle"
      PROVE  GuardInv'
  <2>1. \A d \in Cycle \ {c} : pc[d] = "idle" /\ valid[d] = {}
    BY <1>2
  <2>2. \A d \in Cycle : pc'[d] = "idle" /\ valid'[d] = {}
    BY <1>2, <2>1 DEF EndCycle, Goto, TypeOK
  <2> QED BY <2>2
<1>3. ASSUME NEW c \in Cycle, Working(c)
      PROVE  GuardInv'
  <2>1. \A d \in Cycle \ {c} : pc'[d] = "idle" /\ valid'[d] = {}
    BY <1>3 DEF Working
  <2>2. producing'
    BY <1>3, Zenon DEF Working
  <2> QED BY <1>3, <2>1, <2>2, Zenon DEF Working
<1>4. CASE Crash
  BY <1>4 DEF Crash
<1>5. CASE UNCHANGED <<pc, valid, producing, head>>
  BY <1>5, Zenon
<1> QED BY <1>1, <1>2, <1>3, <1>4, <1>5, CycleCases

(* The chain changes by one block at its end, or at a restart. *)
LEMMA ChainCases ==
  ASSUME TypeOK, [Next]_vars
  PROVE  \/ \E c \in Cycle : AddOnHead(c)
         \/ PeerBlock \/ Crash
         \/ UNCHANGED chain
  BY StepCases
  DEF Next, Submit, Begin, EnterCycle, BlockFull, Apply, SaveFrom, SaveTo, Confirm, ApplyReward,
      SaveReward, Accept, AddToFork, GiveUp, SaveTx, Consensus, Record, Throw, ProgramThrows, Resume, vars

(* A cycle builds only after it began. *)
LEMMA BuildingCases ==
  ASSUME TypeOK, GuardInv, [Next]_vars, NEW d \in Cycle, Building(d)'
  PROVE  /\ Begin(d) \/ (Building(d) /\ head'[d] = head[d])
         /\ \A c \in Cycle : ~AddOnHead(c)
<1> USE DEF TypeOK, Building
<1>1. ASSUME NEW c \in Cycle, Begin(c)
      PROVE  c = d
  <2>1. pc'[c] = "apply" /\ pc[c] = "idle"
    BY <1>1 DEF Begin, EnterCycle, Goto
  <2>2. pc'[c] # "idle" /\ pc'[d] # "idle"
    BY <2>1
  <2> QED BY <2>2, NextGuard DEF GuardInv
<1>2. ASSUME NEW c \in Cycle, AddOnHead(c)
      PROVE  FALSE
  <2>1. pc[c] = "add" /\ pc' = [pc EXCEPT ![c] = "saveTx"]
    BY <1>2 DEF AddOnHead, Goto
  <2>2. c # d /\ pc'[c] # "idle" /\ pc'[d] # "idle"
    BY <2>1
  <2> QED BY <2>2, NextGuard DEF GuardInv
<1>3. ASSUME NEW c \in Cycle, Apply(c) \/ SaveFrom(c) \/ SaveTo(c) \/ Confirm(c)
      PROVE  Building(d) /\ head'[d] = head[d]
  BY <1>3 DEF Apply, SaveFrom, SaveTo, Confirm, Goto
<1>4. ASSUME NEW c \in Cycle, ApplyReward(c) \/ SaveReward(c) \/ Accept(c) \/ AddToFork(c)
      PROVE  Building(d) /\ head'[d] = head[d]
  BY <1>4 DEF ApplyReward, SaveReward, Accept, AddToFork, Goto
<1>5. ASSUME NEW c \in Cycle, SaveTx(c) \/ Consensus(c)
      PROVE  Building(d) /\ head'[d] = head[d]
  BY <1>5 DEF SaveTx, Consensus, Goto
<1>6. ASSUME NEW c \in Cycle, EndCycle(c)
      PROVE  Building(d) /\ head'[d] = head[d]
  BY <1>6 DEF EndCycle, Goto
<1>7. ~Crash
  BY DEF Crash
<1>8. ASSUME UNCHANGED <<pc, head>>
      PROVE  Building(d) /\ head'[d] = head[d]
  BY <1>8
<1>9. Begin(d) \/ (Building(d) /\ head'[d] = head[d])
  BY <1>1, <1>2, <1>3, <1>4, <1>5, <1>6, <1>7, <1>8, StepCases
  DEF Next, Submit, BlockFull, GiveUp, Record, Throw, ProgramThrows, Resume, PeerBlock, vars, cycleVars
<1> QED BY <1>2, <1>9

(* Without blocks of peers the head of a running cycle stays the head. *)
LEMMA NextHead ==
  ASSUME TypeOK, GuardInv, HeadInv, [Next]_vars
  PROVE  HeadInv'
<1> SUFFICES ASSUME peerBlocks' = 0, NEW d \in Cycle, Building(d)'
             PROVE  head'[d] = Len(chain')
  BY DEF HeadInv
<1>1. peerBlocks = 0
  BY CountersGrow
<1>2. ~PeerBlock /\ ~Crash
  BY DEF PeerBlock, Crash, Building, TypeOK
<1>3. chain' = chain
  BY <1>2, ChainCases, BuildingCases
<1>4. CASE Begin(d)
  BY <1>3, <1>4 DEF Begin, EnterCycle, TypeOK
<1>5. CASE Building(d) /\ head'[d] = head[d]
  BY <1>1, <1>3, <1>5 DEF HeadInv
<1> QED BY <1>4, <1>5, BuildingCases

(* Sequences with the same positions have the same length. *)
LEMMA SameLength ==
  ASSUME NEW S, NEW s \in Seq(S), NEW r \in Seq(S), DOMAIN s = DOMAIN r
  PROVE  Len(s) = Len(r)
<1> DEFINE m == Len(s)
           n == Len(r)
<1>1. m \in Nat /\ n \in Nat /\ 1 .. m = 1 .. n
  BY LenProperties
<1> HIDE DEF m, n
<1>2. CASE m < n
  BY <1>1, <1>2, n \in 1 .. n, n \notin 1 .. m
<1>3. CASE n < m
  BY <1>1, <1>3, m \in 1 .. m, m \notin 1 .. n
<1>4. m = n
  BY <1>1, <1>2, <1>3
<1> QED BY <1>4 DEF m, n

(* What a position of the chain holds after a step. *)
LEMMA ChainEntries ==
  ASSUME TypeOK, TypeOK', [Next]_vars
  PROVE  /\ Len(chain) \in Nat /\ DOMAIN chain = 1 .. Len(chain)
         /\ Len(chain') \in Nat /\ DOMAIN chain' = 1 .. Len(chain')
         /\ Len(chain') >= Len(chain)
         /\ ~Crash => \A h \in DOMAIN chain : chain'[h] = chain[h]
         /\ Crash => Len(chain') = Len(chain)
         /\ \A c \in Cycle : AddOnHead(c) =>
              Len(chain') = Len(chain) + 1 /\ chain'[Len(chain')] = valid[c]
         /\ PeerBlock => Len(chain') = Len(chain) + 1 /\ chain'[Len(chain')] = {}
         /\ (\A c \in Cycle : ~AddOnHead(c)) /\ ~PeerBlock => Len(chain') = Len(chain)
<1>1. /\ chain \in Seq(SUBSET Tx) /\ chain' \in Seq(SUBSET Tx)
      /\ Len(chain) \in Nat /\ DOMAIN chain = 1 .. Len(chain)
      /\ Len(chain') \in Nat /\ DOMAIN chain' = 1 .. Len(chain')
  BY LenProperties DEF TypeOK
<1>2. ASSUME NEW S \in SUBSET Tx, chain' = Append(chain, S)
      PROVE  /\ Len(chain') = Len(chain) + 1 /\ chain'[Len(chain')] = S
             /\ \A h \in DOMAIN chain : chain'[h] = chain[h]
  BY <1>1, <1>2, AppendProperties
<1>3. ASSUME NEW c \in Cycle, AddOnHead(c)
      PROVE  chain' = Append(chain, valid[c]) /\ valid[c] \in SUBSET Tx /\ pc' # pc
  BY <1>3 DEF AddOnHead, Goto, TypeOK
<1>4. PeerBlock => chain' = Append(chain, {}) /\ pc' = pc
  BY DEF PeerBlock, cycleVars
<1>5. Crash => Len(chain') = Len(chain)
  <2>1. Crash => DOMAIN chain' = DOMAIN chain
    BY DEF Crash
  <2> QED BY <1>1, <2>1, SameLength
<1>6. Crash => ~PeerBlock /\ \A c \in Cycle : ~AddOnHead(c)
  BY DEF Crash, AddOnHead, PeerBlock, TypeOK, tables
<1>7. (\E c \in Cycle : AddOnHead(c)) \/ PeerBlock \/ Crash \/ chain' = chain
  BY ChainCases
<1>8. \A c \in Cycle : AddOnHead(c) =>
        Len(chain') = Len(chain) + 1 /\ chain'[Len(chain')] = valid[c]
  BY <1>2, <1>3
<1>9. PeerBlock => Len(chain') = Len(chain) + 1 /\ chain'[Len(chain')] = {}
  BY <1>2, <1>4
<1>10. ~Crash => \A h \in DOMAIN chain : chain'[h] = chain[h]
  BY <1>2, <1>3, <1>4, <1>7
<1>11. (\A c \in Cycle : ~AddOnHead(c)) /\ ~PeerBlock => Len(chain') = Len(chain)
  BY <1>5, <1>7
<1>12. Len(chain') = Len(chain) \/ Len(chain') = Len(chain) + 1
  BY <1>5, <1>7, <1>8, <1>9
<1>13. Len(chain') >= Len(chain)
  <2>1. \A m, n \in Nat : m = n \/ m = n + 1 => m >= n
    OBVIOUS
  <2> QED BY <1>1, <1>12, <2>1, Zenon
<1> QED BY <1>1, <1>5, <1>8, <1>9, <1>10, <1>11, <1>13, Zenon

(* A saved height stays the height of a block with the transaction. *)
LEMMA NextSaved ==
  ASSUME TypeOK, TypeOK', SavedInv, [Next]_vars
  PROVE  SavedInv'
<1>1. ASSUME NEW d \in Cycle, pc'[d] = "saveTx"
      PROVE  head'[d] < Len(chain') /\ chain'[head'[d] + 1] = valid'[d]
  <2> USE DEF TypeOK
  <2>1. CASE AddOnHead(d)
    BY <2>1, ChainEntries DEF AddOnHead
  <2>2. CASE pc[d] = "saveTx" /\ head'[d] = head[d] /\ valid'[d] = valid[d]
    <3>1. ~Crash
      BY <1>1 DEF Crash
    <3>2. head[d] + 1 \in DOMAIN chain
      BY <2>2, ChainEntries DEF SavedInv
    <3>3. chain'[head[d] + 1] = valid[d] /\ head[d] < Len(chain)
      BY <2>2, <3>1, <3>2, ChainEntries DEF SavedInv
    <3>4. head[d] \in Nat /\ Len(chain') >= Len(chain)
      BY ChainEntries
    <3> QED BY <2>2, <3>3, <3>4, ChainEntries
  <2>3. ASSUME NEW c \in Cycle, Apply(c) \/ SaveFrom(c) \/ SaveTo(c) \/ Confirm(c)
        PROVE  pc[d] = "saveTx" /\ head'[d] = head[d] /\ valid'[d] = valid[d]
    BY <1>1, <2>3 DEF Apply, SaveFrom, SaveTo, Confirm, Goto
  <2>4. ASSUME NEW c \in Cycle,
               ApplyReward(c) \/ SaveReward(c) \/ Accept(c) \/ AddToFork(c) \/ Begin(c)
        PROVE  pc[d] = "saveTx" /\ head'[d] = head[d] /\ valid'[d] = valid[d]
    BY <1>1, <2>4 DEF ApplyReward, SaveReward, Accept, AddToFork, Begin, EnterCycle, Goto
  <2>5. ASSUME NEW c \in Cycle, SaveTx(c) \/ Consensus(c) \/ EndCycle(c)
        PROVE  pc[d] = "saveTx" /\ head'[d] = head[d] /\ valid'[d] = valid[d]
    BY <1>1, <2>5 DEF SaveTx, Consensus, EndCycle, Goto
  <2>6. ASSUME NEW c \in Cycle, AddOnHead(c), c # d
        PROVE  pc[d] = "saveTx" /\ head'[d] = head[d] /\ valid'[d] = valid[d]
    BY <1>1, <2>6 DEF AddOnHead, Goto
  <2>7. ~Crash
    BY <1>1 DEF Crash
  <2>8. ASSUME UNCHANGED <<pc, head, valid>>
        PROVE  pc[d] = "saveTx" /\ head'[d] = head[d] /\ valid'[d] = valid[d]
    BY <1>1, <2>8
  <2> QED BY <2>1, <2>2, <2>3, <2>4, <2>5, <2>6, <2>7, <2>8, StepCases
      DEF Next, Submit, BlockFull, GiveUp, Record, Throw, ProgramThrows, Resume, PeerBlock, vars, cycleVars
<1>2. ASSUME NEW t \in Tx, blockHeight'[t] # blockHeight[t]
      PROVE  \E c \in Cycle : /\ pc[c] = "saveTx" /\ t \in valid[c]
                              /\ blockHeight'[t] = head[c] + 1 /\ chain' = chain
  <2>1. ASSUME NEW c \in Cycle, SaveTx(c)
        PROVE  /\ pc[c] = "saveTx" /\ t \in valid[c]
               /\ blockHeight'[t] = head[c] + 1 /\ chain' = chain
    BY <1>2, <2>1 DEF SaveTx, TypeOK
  <2> QED BY <1>2, <2>1, StepCases
      DEF Next, Submit, Begin, EnterCycle, BlockFull, Apply, SaveFrom, SaveTo, Confirm,
          ApplyReward, SaveReward, Accept, AddOnHead, AddToFork, GiveUp, Consensus, Record,
          Throw, ProgramThrows, Resume, PeerBlock, Crash, vars, tables
<1>3. ASSUME NEW t \in Tx
      PROVE  /\ blockHeight'[t] <= Len(chain')
             /\ \A h \in DOMAIN chain' : blockHeight'[t] = h => t \in chain'[h]
  <2>1. blockHeight[t] \in Nat /\ blockHeight[t] <= Len(chain)
    BY DEF TypeOK, SavedInv
  <2>2. CASE blockHeight'[t] # blockHeight[t]
    <3>1. PICK c \in Cycle : /\ pc[c] = "saveTx" /\ t \in valid[c]
                             /\ blockHeight'[t] = head[c] + 1 /\ chain' = chain
      BY <1>2, <2>2
    <3>2. head[c] \in Nat /\ head[c] < Len(chain) /\ chain[head[c] + 1] = valid[c]
      BY <3>1 DEF TypeOK, SavedInv
    <3> QED BY <3>1, <3>2, ChainEntries
  <2>3. CASE blockHeight'[t] = blockHeight[t] /\ Crash
    <3>1. \A h \in DOMAIN chain : chain'[h] = {s \in Tx : blockHeight[s] = h}
      BY <2>3 DEF Crash
    <3> QED BY <2>1, <2>3, <3>1, ChainEntries
  <2>4. CASE blockHeight'[t] = blockHeight[t] /\ ~Crash
    BY <2>1, <2>4, ChainEntries DEF SavedInv
  <2> QED BY <2>2, <2>3, <2>4
<1> QED BY <1>1, <1>3 DEF SavedInv

(* Facts every part of the proof of OrderInv needs. *)
LEMMA OrderFacts ==
  ASSUME ProductionInv, TypeOK', Growth, [Next]_vars, Calm'
  PROVE  /\ ChainUsed /\ ValidUsed /\ ChainOrdered /\ BlockOrdered
         /\ lost' = 0 => lost = 0
         /\ Crash => lost = 0
         /\ \A h \in DOMAIN chain : chain[h] \subseteq Tx
         /\ \A d \in Cycle : valid[d] \subseteq Tx /\ (Held(d) => InHand(d) \in Tx)
         /\ \A t \in Tx : (Spent(t) => Spent(t)') /\ (Used(t) /\ ~Crash => Used(t)')
         /\ Crash => \A h \in DOMAIN chain' : h \in DOMAIN chain /\ chain'[h] \subseteq chain[h]
<1> USE DEF ProductionInv
<1>1. ChainUsed /\ ValidUsed /\ ChainOrdered /\ BlockOrdered /\ (lost' = 0 => lost = 0)
  BY CountersGrow DEF OrderInv
<1>2. Crash => lost = 0
  BY DEF Crash, Calm, TypeOK
<1>3. \A h \in DOMAIN chain : chain[h] \subseteq Tx
  BY ElementOfSeq, LenProperties DEF TypeOK
<1>4. \A d \in Cycle : valid[d] \subseteq Tx /\ (Held(d) => InHand(d) \in Tx)
  BY HeadTailProperties DEF TypeOK, HandInv, InHand
<1>5. \A t \in Tx : (Spent(t) => Spent(t)') /\ (Used(t) /\ ~Crash => Used(t)')
  BY SpentStays
<1>6. Crash => \A h \in DOMAIN chain' : h \in DOMAIN chain /\ chain'[h] \subseteq chain[h]
  BY DEF Crash, SavedInv
<1> QED BY <1>1, <1>2, <1>3, <1>4, <1>5, <1>6

(* A transaction that is taken has the nonce its sender has reached. *)
LEMMA TakenNonce ==
  ASSUME TypeOK, NEW d \in Cycle, Taken(d), NEW s \in Tx, Used(s), from[s] = from[InHand(d)]
  PROVE  nonceOf[s] < nonceOf[InHand(d)]
<1>1. InHand(d) \in Tx
  BY HeadTailProperties DEF Taken, InHand, TypeOK
<1> QED BY <1>1 DEF Taken, CanApply, Used

(* What is in the chain has spent its nonce. *)
LEMMA NextChainUsed ==
  ASSUME ProductionInv, TypeOK', Growth, [Next]_vars, Calm'
  PROVE  ChainUsed'
<1> SUFFICES ASSUME NEW h \in DOMAIN chain', NEW t \in chain'[h]
             PROVE  Used(t)' /\ (lost' = 0 => Spent(t)')
  BY DEF ChainUsed
<1>1. CASE Crash
  <2>1. t \in Tx /\ Spent(t) /\ lost = 0
    BY <1>1, OrderFacts DEF ChainUsed
  <2>2. accounts' = rows /\ rows' = rows
    BY <1>1 DEF Crash, tables
  <2> QED BY <2>1, <2>2 DEF Spent, Used
<1>2. CASE ~Crash /\ h \in DOMAIN chain
  <2>1. t \in chain[h] /\ t \in Tx
    BY <1>2, ChainEntries, OrderFacts DEF ProductionInv
  <2> QED BY <1>2, <2>1, OrderFacts DEF ChainUsed
<1>3. CASE ~Crash /\ h \notin DOMAIN chain
  <2>1. PICK c \in Cycle : AddOnHead(c) /\ t \in valid[c]
    <3>1. h = Len(chain') /\ Len(chain') # Len(chain)
      BY <1>3, ChainEntries DEF ProductionInv
    <3> QED BY <3>1, ChainEntries DEF ProductionInv
  <2>2. t \in Tx /\ Used(t) /\ (lost = 0 => Spent(t))
    BY <2>1, OrderFacts DEF ValidUsed, SpentInv, ProductionInv
  <2> QED BY <1>3, <2>2, OrderFacts
<1> QED BY <1>1, <1>2, <1>3

(* So has what is in the block being built. *)
LEMMA NextValidUsed ==
  ASSUME ProductionInv, TypeOK', Growth, [Next]_vars, Calm'
  PROVE  ValidUsed'
<1> SUFFICES ASSUME NEW d \in Cycle, NEW t \in valid'[d]
             PROVE  Used(t)'
  BY DEF ValidUsed
<1>1. ~Crash
  BY DEF Crash
<1>2. CASE t \in valid[d]
  BY <1>1, <1>2, OrderFacts DEF ValidUsed
<1>3. CASE Confirm(d) /\ t = InHand(d)
  BY <1>1, <1>3, OrderFacts DEF UsedInv, Held, Confirm, ProductionInv
<1> QED BY <1>2, <1>3, ValidCases DEF ProductionInv

(* The chain stays in the order of nonces. *)
LEMMA NextChainOrdered ==
  ASSUME ProductionInv, TypeOK', Growth, [Next]_vars, Calm'
  PROVE  ChainOrdered'
<1>1. CASE Crash
  BY <1>1, OrderFacts DEF ChainOrdered, Precede, Distinct
<1>2. ASSUME ~Crash, NEW h \in DOMAIN chain', h \notin DOMAIN chain
      PROVE  /\ Distinct(chain'[h])
             /\ \A g \in DOMAIN chain : Precede(chain[g], chain'[h])
             /\ h = Len(chain')
  <2>1. h = Len(chain') /\ Len(chain') # Len(chain)
    BY <1>2, ChainEntries DEF ProductionInv
  <2>2. CASE PeerBlock
    <3>1. chain'[h] = {}
      BY <2>1, <2>2, ChainEntries DEF ProductionInv
    <3> QED BY <2>1, <3>1 DEF Distinct, Precede
  <2>3. ASSUME NEW c \in Cycle, AddOnHead(c)
        PROVE  Distinct(chain'[h]) /\ \A g \in DOMAIN chain : Precede(chain[g], chain'[h])
    <3>1. chain'[h] = valid[c] /\ Building(c)
      BY <2>1, <2>3, ChainEntries DEF ProductionInv, AddOnHead, Building
    <3> QED BY <3>1, OrderFacts DEF BlockOrdered
  <2> QED BY <2>1, <2>2, <2>3, ChainEntries DEF ProductionInv
<1>3. CASE ~Crash
  <2>1. \A h \in DOMAIN chain : chain'[h] = chain[h] /\ h \in DOMAIN chain'
    BY <1>3, ChainEntries DEF ProductionInv
  <2>2. ASSUME NEW h \in DOMAIN chain'
        PROVE  Distinct(chain'[h])
    BY <1>2, <1>3, <2>1, OrderFacts DEF ChainOrdered
  <2>3. ASSUME NEW g \in DOMAIN chain', NEW h \in DOMAIN chain', g < h
        PROVE  Precede(chain'[g], chain'[h])
    <3>1. g \in DOMAIN chain
      <4>1. g \notin DOMAIN chain => g = Len(chain')
        BY <1>2, <1>3
      <4>2. g \in 1 .. Len(chain') /\ h \in 1 .. Len(chain') /\ Len(chain') \in Nat
        BY ChainEntries DEF ProductionInv
      <4> QED BY <2>3, <4>1, <4>2
    <3>2. CASE h \in DOMAIN chain
      BY <2>1, <2>3, <3>1, <3>2, OrderFacts DEF ChainOrdered
    <3>3. CASE h \notin DOMAIN chain
      BY <1>2, <1>3, <2>1, <3>1, <3>3
    <3> QED BY <3>2, <3>3
  <2> QED BY <2>2, <2>3 DEF ChainOrdered
<1> QED BY <1>1, <1>3

(* And so does the block being built, behind the chain. *)
LEMMA NextBlockOrdered ==
  ASSUME ProductionInv, TypeOK', Growth, [Next]_vars, Calm'
  PROVE  BlockOrdered'
<1> SUFFICES ASSUME NEW d \in Cycle, Building(d)'
             PROVE  /\ Distinct(valid'[d])
                    /\ \A h \in DOMAIN chain' : Precede(chain'[h], valid'[d])
                    /\ Held(d)' => Precede(valid'[d], {InHand(d)'})
                    /\ Held(d)' => \A h \in DOMAIN chain' : Precede(chain'[h], {InHand(d)'})
  BY DEF BlockOrdered
<1>1. ~Crash /\ \A c \in Cycle : ~AddOnHead(c)
  BY BuildingCases DEF Crash, Building, ProductionInv, TypeOK
<1>2. \A h \in DOMAIN chain' :
        \/ h \in DOMAIN chain /\ chain'[h] = chain[h]
        \/ chain'[h] = {}
  <2>1. ASSUME NEW h \in DOMAIN chain', h \notin DOMAIN chain
        PROVE  chain'[h] = {}
    <3>1. h = Len(chain') /\ Len(chain') # Len(chain)
      BY <1>1, <2>1, ChainEntries DEF ProductionInv
    <3> QED BY <1>1, <3>1, ChainEntries DEF ProductionInv
  <2> QED BY <1>1, <2>1, ChainEntries DEF ProductionInv
<1>3. CASE Begin(d)
  <2>1. valid'[d] = {} /\ ~Held(d)'
    BY <1>3 DEF Begin, EnterCycle, Goto, GuardInv, ProductionInv, Held, TypeOK
  <2> QED BY <2>1 DEF Distinct, Precede
<1>4. CASE Building(d)
  <2>1. /\ Distinct(valid[d])
        /\ \A h \in DOMAIN chain : Precede(chain[h], valid[d])
        /\ Held(d) => Precede(valid[d], {InHand(d)})
        /\ Held(d) => \A h \in DOMAIN chain : Precede(chain[h], {InHand(d)})
    BY <1>4, OrderFacts DEF BlockOrdered
  <2>2. valid'[d] \subseteq valid[d] \/ (Held(d) /\ valid'[d] \subseteq valid[d] \cup {InHand(d)})
    BY ValidCases DEF ProductionInv, Confirm, Held
  <2>3. /\ Distinct(valid'[d])
        /\ \A h \in DOMAIN chain' : Precede(chain'[h], valid'[d])
    <3>1. \A t \in valid[d] \cup (IF Held(d) THEN {InHand(d)} ELSE {}) : nonceOf[t] \in Nat
      BY OrderFacts, TransactionAssumption
    <3> QED BY <1>2, <2>1, <2>2, <3>1 DEF Distinct, Precede
  <2>4. ASSUME Held(d)'
        PROVE  /\ Precede(valid'[d], {InHand(d)'})
               /\ \A h \in DOMAIN chain' : Precede(chain'[h], {InHand(d)'})
    <3>1. valid'[d] \subseteq valid[d]
      <4>1. ~Confirm(d)
        BY <2>4 DEF Confirm, Goto, Held, ProductionInv, TypeOK
      <4> QED BY <4>1, ValidCases DEF ProductionInv
    <3>2. CASE Held(d) /\ InHand(d)' = InHand(d)
      BY <1>2, <2>1, <3>1, <3>2 DEF Precede
    <3>3. CASE Taken(d)
      <4>1. InHand(d)' = InHand(d)
        BY <3>3 DEF Taken, InHand
      <4>2. \A s \in Tx : Used(s) /\ from[s] = from[InHand(d)] => nonceOf[s] < nonceOf[InHand(d)]
        BY <3>3, TakenNonce DEF ProductionInv
      <4>3. /\ \A s \in valid'[d] : s \in Tx /\ Used(s)
            /\ \A h \in DOMAIN chain' : \A s \in chain'[h] : s \in Tx /\ Used(s)
        BY <1>2, <3>1, OrderFacts DEF ValidUsed, ChainUsed
      <4> QED BY <4>1, <4>2, <4>3 DEF Precede
    <3> QED BY <2>4, <3>2, <3>3, HandCases DEF ProductionInv
  <2> QED BY <2>3, <2>4
<1> QED BY <1>3, <1>4, BuildingCases DEF ProductionInv

(* Every step keeps the invariant. *)
LEMMA NextProduction == ProductionInv /\ [Next]_vars => ProductionInv'
<1> SUFFICES ASSUME ProductionInv, [Next]_vars
             PROVE  ProductionInv'
  OBVIOUS
<1>1. TypeOK' /\ HandInv'
  BY NextType DEF ProductionInv
<1>2. Growth /\ PastInv'
  BY NextGrowth DEF ProductionInv
<1>3. UsedInv' /\ SpentInv' /\ SyncInv'
  BY <1>1, <1>2, NextUsed, NextSpent, NextSync DEF ProductionInv
<1>4. GuardInv' /\ HeadInv' /\ SavedInv'
  BY <1>1, NextGuard, NextHead, NextSaved DEF ProductionInv
<1>5. OrderInv'
  BY <1>1, <1>2, NextChainUsed, NextValidUsed, NextChainOrdered, NextBlockOrdered DEF OrderInv
<1> QED BY <1>1, <1>2, <1>3, <1>4, <1>5 DEF ProductionInv

-----------------------------------------------------------------------------
(* The inductive invariant holds in every reachable state. *)
THEOREM ProductionInvariant == Spec => []ProductionInv
  BY InitProduction, NextProduction, PTL DEF Spec

(* Balances never become negative, and the whole state keeps its types
   (applyTransaction's balance check). *)
THEOREM ProductionType == Spec => []TypeOK
<1>1. ProductionInv => TypeOK
  BY DEF ProductionInv
<1> QED BY ProductionInvariant, <1>1, PTL

(* Whatever is confirmed has spent its nonce in the table (the order of the
   awaits in produceBlock: accounts first, then confirmTransaction). *)
THEOREM ConfirmedDurable == Spec => []ConfirmedIsDurable
<1>1. ProductionInv => ConfirmedIsDurable
  BY DEF ProductionInv, SpentInv, ConfirmedIsDurable, Spent
<1> QED BY ProductionInvariant, <1>1, PTL

(* Between the saves memory and table are equal, whatever admissions, blocks of
   peers, rejections and crashes come between them (persistAccountState). *)
THEOREM MemoryIsSaved == Spec => []MemoryMatchesRows
<1>1. ProductionInv => MemoryMatchesRows
  <2> SUFFICES ASSUME ProductionInv, lost = 0,
                      \A c \in Cycle : pc[c] \notin {"saveFrom", "saveTo", "saveReward"}
               PROVE  accounts = rows
    BY DEF MemoryMatchesRows
  <2>1. \A c \in Cycle : Unsaved(c) = {}
    BY DEF Unsaved
  <2>2. \A a \in Account : accounts[a] = rows[a]
    BY <2>1 DEF ProductionInv, SyncInv
  <2> QED BY <2>2 DEF ProductionInv, TypeOK
<1> QED BY ProductionInvariant, <1>1, PTL

(* A block of this node is built on the head, for any number of cycles that
   the timer tries to start (the guard of produceBlock). *)
THEOREM BuildsOnHead == Spec => []AddsOnHead
<1>1. ProductionInv => AddsOnHead
  BY DEF ProductionInv, HeadInv, Building, AddsOnHead
<1> QED BY ProductionInvariant, <1>1, PTL

(* The chain has the transactions of each sender in the order of their nonces,
   each nonce once, through blocks given up, blocks of peers and restarts. *)
THEOREM NoncesOrdered == Spec => []BlocksNonceOrdered
<1>1. ProductionInv => BlocksNonceOrdered
  BY DEF ProductionInv, OrderInv, Calm, ChainOrdered, Precede, Distinct, BlocksNonceOrdered
<1> QED BY ProductionInvariant, <1>1, PTL

-----------------------------------------------------------------------------
(* The money in the table.  Between the two rows of a transfer the amount is in   *)
(* neither of them, so the table has room for it; the fee never comes back.       *)
Balances == [a \in Account |-> rows[a].balance]
Total == SumFunction(Balances)
Issued == SumFunction(InitBalance) + Reward * rewards

\* What cycle c is about to write is worth no more than what it has taken out.
Covered(c) ==
  LET t == InHand(c)
  IN  /\ pc[c] = "saveFrom" =>
           /\ accounts[from[t]].balance + value[t] <= rows[from[t]].balance
           /\ accounts[to[t]].balance <= rows[to[t]].balance + value[t]
      /\ pc[c] = "saveTo" =>
           /\ accounts[to[t]].balance <= rows[to[t]].balance + value[t]
           /\ Total + value[t] <= Issued
      /\ pc[c] = "saveReward" =>
           accounts[Producer].balance <= rows[Producer].balance + Reward
MoneyInv == lost = 0 => Total <= Issued /\ \A c \in Cycle : Covered(c)

(* The totals are numbers. *)
LEMMA TotalsType ==
  ASSUME TypeOK
  PROVE  /\ Balances \in [Account -> Int] /\ Total \in Int /\ Issued \in Int
         /\ \A a \in Account : rows[a].balance \in Nat /\ accounts[a].balance \in Nat
<1>1. /\ IsFiniteSet(Account) /\ Producer \in Account /\ InitBalance \in [Account -> Int]
      /\ Reward \in Nat /\ rewards \in Nat
  BY ProductionAssumption, TransactionAssumption DEF TypeOK
<1>2. \A a \in Account : rows[a].balance \in Nat /\ accounts[a].balance \in Nat
  BY DEF TypeOK, AccountState
<1>3. Balances \in [Account -> Int]
  BY <1>2 DEF Balances
<1>4. Balances[Producer] \in Int /\ InitBalance[Producer] \in Int
  BY <1>1, <1>3
<1>5. Total \in Int
  BY <1>1, <1>3, <1>4, SumOfUpdate DEF Total
<1>6. SumFunction(InitBalance) \in Int
  BY <1>1, <1>4, SumOfUpdate
<1>7. Reward * rewards \in Int
  BY <1>1
<1> QED
  BY <1>2, <1>3, <1>5, <1>6, <1>7 DEF Issued

(* Saving one account changes the total by what its balance changes. *)
LEMMA TotalOfSave ==
  ASSUME TypeOK, NEW a \in Account, rows' = [rows EXCEPT ![a] = accounts[a]]
  PROVE  Total' = Total - rows[a].balance + accounts[a].balance
<1>1. Balances \in [Account -> Int] /\ IsFiniteSet(Account) /\ accounts[a].balance \in Int
  BY TotalsType, ProductionAssumption
<1>2. Balances[a] = rows[a].balance
  BY DEF Balances
<1>3. Balances' = [Balances EXCEPT ![a] = accounts[a].balance]
  BY DEF Balances, TypeOK
<1>4. SumFunction([Balances EXCEPT ![a] = accounts[a].balance])
        = SumFunction(Balances) - Balances[a] + accounts[a].balance
  BY <1>1, SumOfUpdate
<1> QED
  BY <1>2, <1>3, <1>4 DEF Total

(* Only the cycle that takes a step comes to a save, and it holds what it held. *)
LEMMA SaveCases ==
  ASSUME TypeOK, [Next]_vars, NEW d \in Cycle, pc'[d] \in {"saveFrom", "saveTo", "saveReward"},
         ~Apply(d), ~ApplyReward(d), ~SaveFrom(d)
  PROVE  pc'[d] = pc[d] /\ todo'[d] = todo[d]
<1> USE DEF TypeOK, Goto
<1>1. ASSUME NEW c \in Cycle, Apply(c) \/ ApplyReward(c) \/ SaveFrom(c)
      PROVE  pc'[d] = pc[d] /\ todo'[d] = todo[d]
  BY <1>1 DEF Apply, ApplyReward, SaveFrom
<1>2. ASSUME NEW c \in Cycle, SaveTo(c) \/ Confirm(c) \/ SaveReward(c) \/ Accept(c)
      PROVE  pc'[d] = pc[d] /\ todo'[d] = todo[d]
  BY <1>2 DEF SaveTo, Confirm, SaveReward, Accept
<1>3. ASSUME NEW c \in Cycle, AddOnHead(c) \/ AddToFork(c) \/ SaveTx(c) \/ Consensus(c)
      PROVE  pc'[d] = pc[d] /\ todo'[d] = todo[d]
  BY <1>3 DEF AddOnHead, AddToFork, SaveTx, Consensus
<1>4. ASSUME NEW c \in Cycle, EndCycle(c)
      PROVE  pc'[d] = pc[d] /\ todo'[d] = todo[d]
  BY <1>4 DEF EndCycle
<1>5. ASSUME NEW c \in Cycle, Begin(c) \/ BlockFull(c)
      PROVE  pc'[d] = pc[d] /\ todo'[d] = todo[d]
  BY <1>5 DEF Begin, EnterCycle, BlockFull
<1>6. ~Crash
  BY DEF Crash
<1>7. CASE UNCHANGED cycleVars
  BY <1>7 DEF cycleVars
<1> QED BY <1>1, <1>2, <1>3, <1>4, <1>5, <1>6, <1>7, StepCases
    DEF Next, Submit, GiveUp, Record, Throw, ProgramThrows, Resume, PeerBlock, vars

(* When a cycle is at no save, memory and table are equal: no other cycle runs. *)
LEMMA EqualAtRest ==
  ASSUME ProductionInv, lost = 0, NEW c \in Cycle, pc[c] \in {"apply", "judge"}
  PROVE  accounts = rows
<1>1. \A d \in Cycle : Unsaved(d) = {}
  BY DEF ProductionInv, GuardInv, Unsaved
<1>2. \A a \in Account : accounts[a] = rows[a]
  BY <1>1 DEF ProductionInv, SyncInv
<1> QED
  BY <1>2 DEF ProductionInv, TypeOK

(* A step that changes neither memory nor table leaves every claim covered. *)
LEMMA QuietStep ==
  ASSUME TypeOK, MoneyInv, [Next]_vars, UNCHANGED <<accounts, rows, rewards>>,
         \A d \in Cycle : ~Apply(d) /\ ~ApplyReward(d) /\ ~SaveFrom(d)
  PROVE  MoneyInv'
<1>1. Total' = Total /\ Issued' = Issued
  BY DEF Total, Balances, Issued
<1>2. ASSUME lost' = 0 PROVE lost = 0
  BY <1>2, CountersGrow
<1>3. ASSUME lost = 0, NEW d \in Cycle PROVE Covered(d)'
  <2>1. CASE pc'[d] \in {"saveFrom", "saveTo", "saveReward"}
    <3>1. pc'[d] = pc[d] /\ todo'[d] = todo[d]
      BY <2>1, SaveCases
    <3> QED
      BY <1>1, <1>3, <3>1 DEF MoneyInv, Covered, InHand
  <2>2. CASE pc'[d] \notin {"saveFrom", "saveTo", "saveReward"}
    BY <2>2 DEF Covered
  <2> QED
    BY <2>1, <2>2
<1> QED
  BY <1>1, <1>2, <1>3 DEF MoneyInv

(* Every step keeps the total within what was issued. *)
LEMMA NextMoney ==
  ASSUME ProductionInv, MoneyInv, [Next]_vars
  PROVE  MoneyInv'
<1>0. /\ TypeOK /\ HandInv /\ GuardInv /\ Total \in Int /\ Issued \in Int
      /\ Producer \in Account /\ Reward \in Nat /\ rewards \in Nat
      /\ \A a \in Account : rows[a].balance \in Nat /\ accounts[a].balance \in Nat
  BY TotalsType, ProductionAssumption, TransactionAssumption DEF ProductionInv, TypeOK
<1>1. \A d \in Cycle : Held(d) \/ (pc[d] = "apply" /\ todo[d] # << >>) =>
        /\ InHand(d) \in Tx /\ value[InHand(d)] \in Nat /\ fee[InHand(d)] \in Nat
        /\ from[InHand(d)] \in Account /\ to[InHand(d)] \in Account
        /\ from[InHand(d)] # to[InHand(d)]
  BY <1>0, HeadTailProperties, TransactionAssumption DEF TypeOK, HandInv, InHand
<1>2. lost' = 0 => lost = 0
  BY <1>0, CountersGrow
<1> SUFFICES ASSUME lost' = 0, lost = 0 PROVE MoneyInv'
  BY <1>2 DEF MoneyInv
<1>3. Total <= Issued /\ \A d \in Cycle : Covered(d)
  BY DEF MoneyInv
<1>4. ASSUME NEW c \in Cycle, pc[c] # "idle", NEW d \in Cycle \ {c}
      PROVE  pc[d] = "idle"
  BY <1>0, <1>4 DEF GuardInv
<1>5. ASSUME NEW c \in Cycle, \A d \in Cycle \ {c} : pc'[d] = pc[d] /\ pc[d] = "idle",
             Total' <= Issued', Covered(c)'
      PROVE  MoneyInv'
  BY <1>5 DEF MoneyInv, Covered
<1>6. ASSUME NEW c \in Cycle, Apply(c) PROVE MoneyInv'
  <2>1. /\ \A d \in Cycle \ {c} : pc'[d] = pc[d] /\ pc[d] = "idle"
        /\ rows' = rows /\ rewards' = rewards
    BY <1>0, <1>4, <1>6 DEF Apply, Goto, tables, history, TypeOK
  <2>2. Total' = Total /\ Issued' = Issued
    BY <2>1 DEF Total, Balances, Issued
  <2>3. CASE pc'[c] = "saveFrom"
    <3> DEFINE t == InHand(c)
    <3>1. /\ CanApply(accounts, t) /\ accounts' = Applied(accounts, t) /\ InHand(c)' = t
          /\ pc[c] = "apply" /\ todo[c] # << >> /\ accounts = rows
      BY <1>0, <1>6, <2>3, EqualAtRest DEF Apply, Goto, InHand, TypeOK
    <3>2. /\ t \in Tx /\ value[t] \in Nat /\ fee[t] \in Nat
          /\ from[t] \in Account /\ to[t] \in Account /\ from[t] # to[t]
      BY <1>1, <3>1
    <3> HIDE DEF t
    <3>3. /\ accounts'[from[t]].balance = accounts[from[t]].balance - (value[t] + fee[t])
          /\ accounts'[to[t]].balance = accounts[to[t]].balance + value[t]
      BY <1>0, <3>1, <3>2 DEF Applied, TypeOK, AccountState
    <3>4. /\ accounts'[from[t]].balance + value[t] <= rows'[from[t]].balance
          /\ accounts'[to[t]].balance <= rows'[to[t]].balance + value[t]
      BY <1>0, <2>1, <3>1, <3>2, <3>3
    <3>5. Covered(c)'
      BY <2>3, <3>1, <3>4 DEF Covered
    <3> QED
      BY <1>3, <1>5, <2>1, <2>2, <3>5
  <2>4. CASE pc'[c] # "saveFrom"
    <3>1. pc'[c] = "apply"
      BY <1>0, <1>6, <2>4 DEF Apply, Goto, TypeOK
    <3> QED
      BY <1>3, <1>5, <2>1, <2>2, <3>1 DEF Covered
  <2> QED
    BY <2>3, <2>4
<1>7. ASSUME NEW c \in Cycle, SaveFrom(c) PROVE MoneyInv'
  <2> DEFINE t == InHand(c)
  <2>1. /\ \A d \in Cycle \ {c} : pc'[d] = pc[d] /\ pc[d] = "idle"
        /\ rows' = [rows EXCEPT ![from[t]] = accounts[from[t]]]
        /\ accounts' = accounts /\ rewards' = rewards /\ InHand(c)' = t
        /\ pc[c] = "saveFrom" /\ pc'[c] = "saveTo"
    BY <1>0, <1>4, <1>7 DEF SaveFrom, Persist, LoseWrite, Goto, history, TypeOK, InHand
  <2>2. /\ t \in Tx /\ value[t] \in Nat
        /\ from[t] \in Account /\ to[t] \in Account /\ from[t] # to[t]
    BY <1>1, <2>1 DEF Held
  <2> HIDE DEF t
  <2>3. Total' = Total - rows[from[t]].balance + accounts[from[t]].balance
    BY <1>0, <2>1, <2>2, TotalOfSave
  <2>4. /\ accounts[from[t]].balance + value[t] <= rows[from[t]].balance
        /\ accounts[to[t]].balance <= rows[to[t]].balance + value[t]
    BY <1>3, <2>1 DEF Covered, t
  <2>5. Issued' = Issued
    BY <2>1 DEF Issued
  <2>6. Total' + value[t] <= Issued' /\ Total' <= Issued'
    BY <1>0, <1>3, <2>2, <2>3, <2>4, <2>5
  <2>7. rows'[to[t]] = rows[to[t]]
    BY <2>1, <2>2
  <2>8. Covered(c)'
    BY <2>1, <2>4, <2>6, <2>7 DEF Covered
  <2> QED
    BY <1>5, <2>1, <2>6, <2>8
<1>8. ASSUME NEW c \in Cycle, SaveTo(c) PROVE MoneyInv'
  <2> DEFINE t == InHand(c)
  <2>1. /\ \A d \in Cycle \ {c} : pc'[d] = pc[d] /\ pc[d] = "idle"
        /\ rows' = [rows EXCEPT ![to[t]] = accounts[to[t]]]
        /\ rewards' = rewards /\ pc[c] = "saveTo" /\ pc'[c] = "confirm"
    BY <1>0, <1>4, <1>8 DEF SaveTo, Persist, LoseWrite, Goto, history, TypeOK, InHand
  <2>2. value[t] \in Nat /\ to[t] \in Account
    BY <1>1, <2>1 DEF Held
  <2>3. /\ accounts[to[t]].balance <= rows[to[t]].balance + value[t]
        /\ Total + value[t] <= Issued
    BY <1>3, <2>1 DEF Covered
  <2> HIDE DEF t
  <2>4. Total' = Total - rows[to[t]].balance + accounts[to[t]].balance
    BY <1>0, <2>1, <2>2, TotalOfSave
  <2>5. Issued' = Issued
    BY <2>1 DEF Issued
  <2>6. Total' <= Issued'
    BY <1>0, <2>2, <2>3, <2>4, <2>5
  <2> QED
    BY <1>5, <2>1, <2>6 DEF Covered
<1>9. ASSUME NEW c \in Cycle, ApplyReward(c) PROVE MoneyInv'
  <2>1. /\ \A d \in Cycle \ {c} : pc'[d] = pc[d] /\ pc[d] = "idle"
        /\ rows' = rows /\ rewards' = rewards /\ accounts = rows
        /\ accounts' = Rewarded(accounts, Producer) /\ pc'[c] = "saveReward"
    BY <1>0, <1>4, <1>9, EqualAtRest DEF ApplyReward, Goto, tables, history, TypeOK
  <2>2. Total' = Total /\ Issued' = Issued
    BY <2>1 DEF Total, Balances, Issued
  <2>3. accounts'[Producer].balance = accounts[Producer].balance + Reward
    BY <1>0, <2>1 DEF Rewarded, TypeOK, AccountState
  <2>4. accounts'[Producer].balance <= rows'[Producer].balance + Reward
    BY <1>0, <2>1, <2>3
  <2>5. Covered(c)'
    BY <2>1, <2>4 DEF Covered
  <2> QED
    BY <1>3, <1>5, <2>1, <2>2, <2>5
<1>10. ASSUME NEW c \in Cycle, SaveReward(c) PROVE MoneyInv'
  <2>1. /\ \A d \in Cycle \ {c} : pc'[d] = pc[d] /\ pc[d] = "idle"
        /\ rows' = [rows EXCEPT ![Producer] = accounts[Producer]]
        /\ rewards' = rewards + 1 /\ pc[c] = "saveReward" /\ pc'[c] = "judge"
    BY <1>0, <1>4, <1>10 DEF SaveReward, Persist, LoseWrite, Goto, TypeOK
  <2>2. accounts[Producer].balance <= rows[Producer].balance + Reward
    BY <1>3, <2>1 DEF Covered
  <2>3. Total' = Total - rows[Producer].balance + accounts[Producer].balance
    BY <1>0, <2>1, TotalOfSave
  <2>4. Issued' = Issued + Reward
    <3>1. Reward * (rewards + 1) = Reward * rewards + Reward
      BY <1>0
    <3>2. InitBalance \in [Account -> Int] /\ InitBalance[Producer] \in Int
      BY <1>0, ProductionAssumption
    <3>3. SumFunction(InitBalance) \in Int /\ Reward * rewards \in Int
      BY <1>0, <3>2, SumOfUpdate, ProductionAssumption
    <3> QED
      BY <1>0, <2>1, <3>1, <3>3 DEF Issued
  <2>5. Total' <= Issued'
    BY <1>0, <1>3, <2>2, <2>3, <2>4
  <2> QED
    BY <1>5, <2>1, <2>5 DEF Covered
<1>11. CASE Crash
  <2>1. Total' = Total /\ Issued' = Issued
    BY <1>11 DEF Crash, tables, Total, Balances, Issued
  <2>2. \A d \in Cycle : pc'[d] = "idle"
    BY <1>11 DEF Crash
  <2> QED
    BY <1>3, <2>1, <2>2 DEF MoneyInv, Covered
<1>12. CASE /\ ~Crash
            /\ \A c \in Cycle : ~Apply(c) /\ ~SaveFrom(c) /\ ~SaveTo(c) /\ ~ApplyReward(c)
                                /\ ~SaveReward(c)
  <2>1. UNCHANGED <<accounts, rows, rewards>>
    BY <1>12, StepCases
    DEF Next, Submit, Begin, EnterCycle, BlockFull, Confirm, Accept, AddOnHead, AddToFork,
        GiveUp, SaveTx, Consensus, Record, Throw, ProgramThrows, Resume, PeerBlock, vars,
        tables, history
  <2> QED
    BY <1>0, <1>12, <2>1, QuietStep
<1> QED
  BY <1>6, <1>7, <1>8, <1>9, <1>10, <1>11, <1>12

(* No crash mints money: when every write reached the table, it holds at most the
   genesis distribution and the rewards written to it, also between the two rows of a
   transfer (the order of the two saves in applyTransaction). *)
THEOREM CrashMintsNothing == Spec => []NoMoneyFromCrash
<1>1. Init => MoneyInv
  <2> SUFFICES ASSUME Init PROVE Total <= Issued /\ \A c \in Cycle : Covered(c)
    BY DEF MoneyInv
  <2>1. InitBalance \in [Account -> Int] /\ IsFiniteSet(Account) /\ Producer \in Account
    BY ProductionAssumption
  <2>2. Balances = InitBalance
    BY <2>1 DEF Init, Balances
  <2>3. InitBalance[Producer] \in Int /\ Reward \in Nat /\ rewards = 0
    BY <2>1, TransactionAssumption DEF Init
  <2>4. SumFunction(InitBalance) \in Int
    BY <2>1, <2>3, SumOfUpdate
  <2>5. Reward * rewards = 0
    BY <2>3
  <2>6. Total <= Issued
    BY <2>2, <2>4, <2>5 DEF Total, Issued
  <2> QED
    BY <2>6 DEF Init, Covered
<1>2. ProductionInv /\ MoneyInv /\ [Next]_vars => MoneyInv'
  BY NextMoney
<1>3. MoneyInv => NoMoneyFromCrash
  BY DEF MoneyInv, NoMoneyFromCrash, Total, Balances, Issued
<1> QED BY ProductionInvariant, <1>1, <1>2, <1>3, PTL DEF Spec
=============================================================================
