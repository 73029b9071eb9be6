-------------------------- MODULE BlockProduction --------------------------
(***************************************************************************)
(* The block production cycle of one node (BlockProducer.produceBlock) with *)
(* the accounts in memory and in the table account_state, the status of the *)
(* transactions in their table, admission to the pool, blocks of peers, and *)
(* a crash at any await.  Each action runs from one await to the next.      *)
(***************************************************************************)
EXTENDS Ledger, Sequences, SequencesExt

CONSTANTS
  Cycle,          \* invocations of produceBlock that could overlap
  Producer,       \* address of the one validator
  InitBalance,    \* genesis distribution
  price,          \* tx.gasPrice, the pool's order
  Limit,          \* MAX_TRANSACTIONS_PER_BLOCK
  NonceWindow,    \* how far ahead of the account a nonce is admitted (10)
  MaxFailures,    \* maxConsecutiveFailures (5)
  Faulty,         \* TRUE when verdicts may be negative and queries may throw
  MaxLostWrites,  \* bound: writes that fail, are logged and forgotten
  MaxIdleCycles,  \* bound: cycles begun with nothing to apply
  MaxPeerBlocks,  \* bound: blocks of peers
  MaxCrashes      \* bound: crashes

ASSUME ProductionAssumption ==
  /\ Producer \in Account /\ InitBalance \in [Account -> Nat] /\ price \in [Tx -> Nat]
  /\ {Limit, MaxFailures} \subseteq Nat \ {0}
  /\ {NonceWindow, MaxLostWrites, MaxIdleCycles, MaxPeerBlocks, MaxCrashes} \subseteq Nat
  /\ Faulty \in BOOLEAN /\ IsFiniteSet(Tx) /\ IsFiniteSet(Account)

VARIABLES
  accounts,      \* StateManager.accounts
  rows,          \* table account_state
  status,        \* transactions.status; "none" without a row
  chain,         \* the blocks after genesis, each the set of its transactions
  blockHeight,   \* transactions.block_height, 0 for NULL
  producing,     \* the guard of produceBlock
  isProducing,   \* the production timer runs
  failures,      \* consecutiveFailures
  pc, head, todo, valid,  \* of each cycle: await, height of lastBlock, pendingTxs, validTxs
  rewards,       \* history: rewards that reached the table
  idleCycles, peerBlocks, crashes, lost  \* history: counters

tables == <<rows, status, blockHeight>>
timer == <<isProducing, failures>>
cycleVars == <<pc, head, todo, valid>>
history == <<rewards, idleCycles, peerBlocks, crashes>>
vars == <<accounts, tables, chain, producing, timer, cycleVars, history, lost>>

PC == {"idle", "apply", "saveFrom", "saveTo", "confirm", "saveReward", "judge", "add",
       "saveTx", "consensus", "record"}

Init ==
  /\ accounts = [a \in Account |-> [balance |-> InitBalance[a], nonce |-> 0]]
  /\ rows = accounts
  /\ status = [t \in Tx |-> "none"] /\ blockHeight = [t \in Tx |-> 0]
  /\ chain = << >>
  /\ producing = FALSE /\ isProducing = TRUE /\ failures = 0
  /\ pc = [c \in Cycle |-> "idle"] /\ head = [c \in Cycle |-> 0]
  /\ todo = [c \in Cycle |-> << >>] /\ valid = [c \in Cycle |-> {}]
  /\ rewards = 0 /\ idleCycles = 0 /\ peerBlocks = 0 /\ crashes = 0 /\ lost = 0

Goto(c, await) == pc' = [pc EXCEPT ![c] = await]

\* The cycle returns; the finally clause lowers the guard.
EndCycle(c) ==
  /\ Goto(c, "idle") /\ producing' = FALSE
  /\ head' = [head EXCEPT ![c] = 0]
  /\ todo' = [todo EXCEPT ![c] = << >>]
  /\ valid' = [valid EXCEPT ![c] = {}]

\* A write that throws: its caller logs the error and goes on.
LoseWrite == lost < MaxLostWrites /\ lost' = lost + 1

(***************************************************************************)
(* addTransaction: validateTransaction against memory, then the INSERT.     *)
(***************************************************************************)
Submit(t) ==
  /\ status[t] = "none"
  /\ accounts[from[t]].balance >= value[t] + fee[t]
  /\ nonceOf[t] \in accounts[from[t]].nonce .. accounts[from[t]].nonce + NonceWindow
  /\ status' = [status EXCEPT ![t] = "pending"]
  /\ UNCHANGED <<accounts, rows, blockHeight, chain, producing, timer, cycleVars, history, lost>>

\* getPendingTransactions: the highest gas price first, cut at the limit.
PendingTxs ==
  LET pending == {t \in Tx : status[t] = "pending"}
      sorted  == {s \in SetToSeqs(pending) :
                    \A i, j \in DOMAIN s : i < j => price[s[i]] >= price[s[j]]}
  IN  {IF Len(s) > Limit THEN SubSeq(s, 1, Limit) ELSE s : s \in sorted}

(***************************************************************************)
(* A tick of the timer (or start) enters produceBlock; a tick that finds    *)
(* the guard up does nothing.  Only cycles with nothing to apply are        *)
(* bounded.                                                                 *)
(***************************************************************************)
EnterCycle(c) ==
  /\ isProducing /\ pc[c] = "idle"
  /\ IF \E t \in Tx : status[t] = "pending" /\ CanApply(accounts, t)
     THEN UNCHANGED idleCycles
     ELSE idleCycles < MaxIdleCycles /\ idleCycles' = idleCycles + 1
  /\ producing' = TRUE
  /\ Goto(c, "apply")
  /\ head' = [head EXCEPT ![c] = Len(chain)]
  /\ \E s \in PendingTxs : todo' = [todo EXCEPT ![c] = s]
  /\ UNCHANGED <<accounts, tables, chain, timer, valid, rewards, peerBlocks, crashes, lost>>

BeginUnguarded(c) == EnterCycle(c)  \* Mutant: cycles overlap.

Begin(c) == ~producing /\ EnterCycle(c)

(***************************************************************************)
(* The loop over pendingTxs.  Memory changes at once; the two rows follow   *)
(* one await each, then the confirmation.                                   *)
(***************************************************************************)
ApplyConfirmFirst(c) ==  \* Mutant: confirmed before the accounts are saved.
  /\ pc[c] = "apply" /\ todo[c] # << >>
  /\ CanApply(accounts, Head(todo[c]))
  /\ accounts' = Applied(accounts, Head(todo[c]))
  /\ Goto(c, "confirm")
  /\ UNCHANGED <<tables, chain, producing, timer, head, todo, valid, history, lost>>

Apply(c) ==
  /\ pc[c] = "apply" /\ todo[c] # << >>
  /\ LET t == Head(todo[c])
     IN  IF CanApply(accounts, t)
         THEN accounts' = Applied(accounts, t) /\ Goto(c, "saveFrom") /\ UNCHANGED todo
         ELSE todo' = [todo EXCEPT ![c] = Tail(@)] /\ UNCHANGED <<accounts, pc>>
  /\ UNCHANGED <<tables, chain, producing, timer, head, valid, history, lost>>

\* The gas or the size limit of the block ends the loop early.
BlockFull(c) ==
  /\ pc[c] = "apply" /\ todo[c] # << >> /\ valid[c] # {}
  /\ todo' = [todo EXCEPT ![c] = << >>]
  /\ UNCHANGED <<accounts, tables, chain, producing, timer, pc, head, valid, history, lost>>

\* persistAccountState
PersistSwallowed(a) == UNCHANGED <<rows, lost>>  \* Mutant: never written.

Persist(a) ==
  \/ rows' = [rows EXCEPT ![a] = accounts[a]] /\ UNCHANGED lost
  \/ LoseWrite /\ UNCHANGED rows

SaveFromCreditFirst(c) ==  \* Mutant: the recipient is saved first, the sender after it.
  /\ pc[c] = "saveFrom"
  /\ IF rows[to[Head(todo[c])]] # accounts[to[Head(todo[c])]]
     THEN Persist(to[Head(todo[c])]) /\ UNCHANGED pc
     ELSE Persist(from[Head(todo[c])]) /\ Goto(c, "saveTo")
  /\ UNCHANGED <<accounts, status, blockHeight, chain, producing, timer, head, todo, valid,
                 history>>

SaveFrom(c) ==
  /\ pc[c] = "saveFrom"
  /\ Persist(from[Head(todo[c])])
  /\ Goto(c, "saveTo")
  /\ UNCHANGED <<accounts, status, blockHeight, chain, producing, timer, head, todo, valid,
                 history>>

SaveTo(c) ==
  /\ pc[c] = "saveTo"
  /\ Persist(to[Head(todo[c])])
  /\ Goto(c, "confirm")
  /\ UNCHANGED <<accounts, status, blockHeight, chain, producing, timer, head, todo, valid,
                 history>>

\* validTxs.push, then confirmTransaction
Confirm(c) ==
  /\ pc[c] = "confirm"
  /\ LET t == Head(todo[c])
     IN  /\ valid' = [valid EXCEPT ![c] = @ \cup {t}]
         /\ \/ status' = [status EXCEPT ![t] = "confirmed"] /\ UNCHANGED lost
            \/ LoseWrite /\ UNCHANGED status
  /\ todo' = [todo EXCEPT ![c] = Tail(@)]
  /\ Goto(c, "apply")
  /\ UNCHANGED <<accounts, rows, blockHeight, chain, producing, timer, head, history>>

\* The transaction's program throws in the interpreter (not a revert, which it
\* reports): the catch clause, with a confirmed transaction that is in no block.
ProgramThrows(c) ==
  /\ Faulty /\ pc[c] = "confirm"
  /\ \/ status' = [status EXCEPT ![Head(todo[c])] = "confirmed"] /\ UNCHANGED lost
     \/ LoseWrite /\ UNCHANGED status
  /\ failures' = failures + 1
  /\ isProducing' = (isProducing /\ failures' < MaxFailures)
  /\ EndCycle(c)
  /\ UNCHANGED <<accounts, rows, blockHeight, chain, history>>

\* applyBlockReward, before anyone has judged the block.
ApplyReward(c) ==
  /\ pc[c] = "apply" /\ todo[c] = << >>
  /\ accounts' = Rewarded(accounts, Producer)
  /\ Goto(c, "saveReward")
  /\ UNCHANGED <<tables, chain, producing, timer, head, todo, valid, history, lost>>

SaveReward(c) ==
  /\ pc[c] = "saveReward"
  /\ Persist(Producer)
  /\ rewards' = IF lost' = lost THEN rewards + 1 ELSE rewards
  /\ Goto(c, "judge")
  /\ UNCHANGED <<accounts, status, blockHeight, chain, producing, timer, head, todo, valid,
                 idleCycles, peerBlocks, crashes>>

\* The early returns: the cycle ends and only the failure count remembers it.
GiveUp(c) ==
  /\ Faulty
  /\ failures' = failures + 1
  /\ EndCycle(c)
  /\ UNCHANGED <<accounts, tables, chain, isProducing, history, lost>>

\* proofOfAI.validateBlock, then the validator's own check.
Accept(c) ==
  /\ pc[c] = "judge"
  /\ Goto(c, "add")
  /\ UNCHANGED <<accounts, tables, chain, producing, timer, head, todo, valid, history, lost>>

Reject(c) == pc[c] = "judge" /\ GiveUp(c)

(***************************************************************************)
(* chain.addBlock.  A block on the head is appended unless isValid refuses  *)
(* its timestamp; a block whose parent is no longer the head goes to the    *)
(* ForkManager, which keeps it or calls it an orphan.                       *)
(***************************************************************************)
AddOnHead(c) ==
  /\ pc[c] = "add" /\ head[c] = Len(chain)
  /\ chain' = Append(chain, valid[c])
  /\ Goto(c, "saveTx")
  /\ UNCHANGED <<accounts, tables, producing, timer, head, todo, valid, history, lost>>

AddToFork(c) ==
  /\ pc[c] = "add" /\ head[c] # Len(chain)
  /\ Goto(c, "consensus")
  /\ UNCHANGED <<accounts, tables, chain, producing, timer, head, todo, valid, history, lost>>

AddRefused(c) == pc[c] = "add" /\ GiveUp(c)

\* The transactions of the block are saved one by one; a failure ends the loop.
SaveTx(c) ==
  /\ pc[c] = "saveTx"
  /\ LET unsaved == {t \in valid[c] : blockHeight[t] # head[c] + 1}
     IN  \/ \E t \in unsaved :
              /\ blockHeight' = [blockHeight EXCEPT ![t] = head[c] + 1]
              /\ status' = [status EXCEPT ![t] = "confirmed"]
              /\ UNCHANGED <<pc, lost>>
         \/ /\ IF unsaved = {} THEN UNCHANGED lost ELSE LoseWrite
            /\ Goto(c, "consensus")
            /\ UNCHANGED <<blockHeight, status>>
  /\ UNCHANGED <<accounts, rows, chain, producing, timer, head, todo, valid, history>>

\* getConsensus only reports; its outcome changes nothing.
Consensus(c) ==
  /\ pc[c] = "consensus"
  /\ failures' = 0
  /\ Goto(c, "record")
  /\ UNCHANGED <<accounts, tables, chain, producing, isProducing, head, todo, valid, history,
                 lost>>

\* removeTransactions, recordBlockProduced and the end of the cycle
Record(c) ==
  /\ pc[c] = "record"
  /\ \/ /\ status' = [t \in Tx |-> IF t \in valid[c] THEN "confirmed" ELSE status[t]]
        /\ UNCHANGED lost
     \/ LoseWrite /\ UNCHANGED status
  /\ EndCycle(c)
  /\ UNCHANGED <<accounts, rows, blockHeight, chain, timer, history>>

ThrowNoFinally(c) ==  \* Mutant: the catch clause leaves the guard up.
  /\ Faulty
  /\ pc[c] \in {"consensus", "record"}
  /\ failures' = failures + 1
  /\ isProducing' = (isProducing /\ failures' < MaxFailures)
  /\ Goto(c, "idle")
  /\ UNCHANGED <<accounts, tables, chain, producing, head, todo, valid, history, lost>>

\* A query of getConsensus or recordBlockProduced throws: the catch clause.
Throw(c) ==
  /\ Faulty
  /\ pc[c] \in {"consensus", "record"}
  /\ failures' = failures + 1
  /\ isProducing' = (isProducing /\ failures' < MaxFailures)
  /\ EndCycle(c)
  /\ UNCHANGED <<accounts, tables, chain, history, lost>>

\* The 30 s timer of the catch clause, then start.
Resume ==
  /\ ~isProducing
  /\ isProducing' = TRUE /\ failures' = 0
  /\ UNCHANGED <<accounts, tables, chain, producing, cycleVars, history, lost>>

\* A block of a peer, built on the head, with no transaction this node knows.
PeerBlock ==
  /\ peerBlocks < MaxPeerBlocks
  /\ peerBlocks' = peerBlocks + 1
  /\ chain' = Append(chain, {})
  /\ UNCHANGED <<accounts, tables, producing, timer, cycleVars, rewards, idleCycles, crashes,
                 lost>>

(***************************************************************************)
(* The process dies and starts again: memory is reloaded from the tables,   *)
(* and a block has only the transactions saved under its height.  (A block  *)
(* whose own INSERT was lost keeps its place here, without transactions.)   *)
(***************************************************************************)
Crash ==
  /\ crashes < MaxCrashes
  /\ crashes' = crashes + 1
  /\ accounts' = rows
  /\ chain' = [h \in DOMAIN chain |-> {t \in Tx : blockHeight[t] = h}]
  /\ producing' = FALSE /\ isProducing' = TRUE /\ failures' = 0
  /\ pc' = [c \in Cycle |-> "idle"] /\ head' = [c \in Cycle |-> 0]
  /\ todo' = [c \in Cycle |-> << >>] /\ valid' = [c \in Cycle |-> {}]
  /\ UNCHANGED <<tables, rewards, idleCycles, peerBlocks, lost>>

Step(c) ==
  \/ Apply(c) \/ SaveFrom(c) \/ SaveTo(c) \/ Confirm(c) \/ ProgramThrows(c)
  \/ ApplyReward(c) \/ SaveReward(c)
  \/ Accept(c) \/ Reject(c) \/ AddOnHead(c) \/ AddToFork(c) \/ AddRefused(c)
  \/ SaveTx(c) \/ Consensus(c) \/ Record(c) \/ Throw(c)

Next ==
  \/ \E t \in Tx : Submit(t)
  \/ \E c \in Cycle : Begin(c) \/ Step(c) \/ BlockFull(c)
  \/ Resume \/ PeerBlock \/ Crash

Spec == Init /\ [][Next]_vars

\* Timers fire and awaits return: the event loop runs what is due.
Fairness ==
  /\ WF_vars(\E c \in Cycle : Begin(c))
  /\ \A c \in Cycle : WF_vars(Step(c))
  /\ WF_vars(Resume)

FairSpec == Spec /\ Fairness

-----------------------------------------------------------------------------
(* Type correctness of the whole state. *)
TypeOK ==
  /\ accounts \in [Account -> AccountState] /\ rows \in [Account -> AccountState]
  /\ status \in [Tx -> {"none", "pending", "confirmed"}]
  /\ blockHeight \in [Tx -> Nat]
  /\ chain \in Seq(SUBSET Tx)
  /\ producing \in BOOLEAN /\ isProducing \in BOOLEAN /\ failures \in Nat
  /\ pc \in [Cycle -> PC] /\ head \in [Cycle -> Nat]
  /\ todo \in [Cycle -> Seq(Tx)] /\ valid \in [Cycle -> SUBSET Tx]
  /\ {rewards, idleCycles, peerBlocks, crashes, lost} \subseteq Nat

Idle == \A c \in Cycle : pc[c] = "idle"

(* A confirmed transaction has spent its nonce in the table, so neither a
   crash nor a retry can apply it or a rival of it again. *)
ConfirmedIsDurable ==
  lost = 0 => \A t \in Tx : status[t] = "confirmed" => rows[from[t]].nonce > nonceOf[t]

(* The transactions of one sender are in the chain in the order of their
   nonces, each nonce at most once, across blocks given up, blocks of peers
   and restarts (applyTransaction's nonce check against reloaded accounts). *)
BlocksNonceOrdered ==
  lost = 0 \/ crashes = 0 =>
    \A g, h \in DOMAIN chain : \A s \in chain[g], t \in chain[h] :
      from[s] = from[t] =>
        /\ g < h => nonceOf[s] < nonceOf[t]
        /\ g = h /\ s # t => nonceOf[s] # nonceOf[t]

(* A crash between the two rows of a transfer may burn the amount but never
   mints it: the table holds at most the genesis distribution and the rewards. *)
NoMoneyFromCrash ==
  lost = 0 =>
    SumFunction([a \in Account |-> rows[a].balance])
      <= SumFunction(InitBalance) + Reward * rewards

(* Between its saves, a cycle leaves memory and table equal, so what a reader
   of the table is told is what the next block builds on. *)
MemoryMatchesRows ==
  lost = 0 /\ (\A c \in Cycle : pc[c] \notin {"saveFrom", "saveTo", "saveReward"})
    => accounts = rows

(* The guard against overlapping cycles does what its comment says: without
   blocks of peers a finished block still has the head as its parent, so it
   cannot become a fork. *)
AddsOnHead ==
  peerBlocks = 0 => \A c \in Cycle : pc[c] = "add" => head[c] = Len(chain)

(* With room for every pending transaction no applicable one waits for ever,
   whatever is given up, thrown, lost or restarted on the way. *)
ApplicableIsApplied ==
  \A t \in Tx : status[t] = "pending" /\ CanApply(accounts, t)
                  ~> ~(status[t] = "pending" /\ CanApply(accounts, t))

=============================================================================
