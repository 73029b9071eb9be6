------------------------------ MODULE Failover ------------------------------
(***************************************************************************)
(* Two or more workers that take turns at producing blocks over one database *)
(* (worker.ts).  Each loads the chain and the accounts when it starts and    *)
(* never again; winning the election only starts the producer.  A cycle is   *)
(* one step here, with one transaction at most: BlockProduction has its      *)
(* awaits.  Blocks are never refused and no write fails.                     *)
(***************************************************************************)
EXTENDS Ledger, Sequences

CONSTANTS
  Process,       \* workers
  Producer,      \* address of the validator
  InitBalance,   \* the genesis distribution
  MaxBlocks      \* bound: blocks produced

VARIABLES
  leader,          \* the worker that runs the leader's services, or NoLeader
  up,              \* workers that run
  blocks,          \* chain of each worker, the genesis block first
  accounts,        \* accounts of each worker
  blockRows,       \* table blocks, in order of height
  accountRows,     \* table account_state
  pending,         \* pending rows of transactions
  produced         \* blocks so far; also numbers their hashes

tables == <<blockRows, accountRows, pending>>
vars == <<leader, up, blocks, accounts, tables, produced>>

NoLeader == "nobody"
Genesis == [hash |-> 0, parent |-> 0]
GenesisAccounts == [a \in Account |-> [balance |-> InitBalance[a], nonce |-> 0]]

Init ==
  /\ leader = NoLeader /\ up = {} /\ produced = 0
  /\ blocks = [p \in Process |-> << >>] /\ accounts = [p \in Process |-> GenesisAccounts]
  /\ blockRows = <<Genesis>> /\ accountRows = GenesisAccounts /\ pending = Tx

\* main: the tables are loaded, then the process joins the election.
Boot(p) ==
  /\ p \notin up /\ up' = up \union {p}
  /\ blocks' = [blocks EXCEPT ![p] = blockRows]
  /\ accounts' = [accounts EXCEPT ![p] = accountRows]
  /\ UNCHANGED <<leader, tables, produced>>

\* startLeaderServices
Elect(p) ==
  /\ leader = NoLeader /\ p \in up /\ leader' = p
  /\ UNCHANGED <<up, blocks, accounts, tables, produced>>

\* stopLeaderServices, when the lease is lost
Lose ==
  /\ leader # NoLeader /\ leader' = NoLeader
  /\ UNCHANGED <<up, blocks, accounts, tables, produced>>

Crash(p) ==
  /\ p \in up /\ up' = up \ {p}
  /\ leader' = IF leader = p THEN NoLeader ELSE leader
  /\ UNCHANGED <<blocks, accounts, tables, produced>>

-----------------------------------------------------------------------------
LatestBlock(p) == blocks[p][Len(blocks[p])]

\* INSERT ... ON CONFLICT (height) DO UPDATE: the row keeps its parent and its producer.
SaveBlock(b, row) ==
  blockRows' =
    IF row \in DOMAIN blockRows THEN [blockRows EXCEPT ![row].hash = b.hash]
    ELSE Append(blockRows, b)

\* persistAccountState of the accounts that the block touched.
SaveAccounts(new, touched) ==
  accountRows' = [a \in Account |-> IF a \in touched THEN new[a] ELSE accountRows[a]]

\* produceBlock, with one of the applicable pending transactions in applied, or none if there is none.
Produce(p, applied) ==
  LET b == [hash |-> produced + 1, parent |-> LatestBlock(p).hash]
      paid == IF applied = {} THEN accounts[p] ELSE Applied(accounts[p], CHOOSE t \in applied : TRUE)
      new == Rewarded(paid, Producer)
  IN
  /\ leader = p /\ produced < MaxBlocks /\ produced' = produced + 1
  /\ \A t \in applied : CanApply(accounts[p], t)
  /\ applied = {} => \A t \in pending : ~CanApply(accounts[p], t)
  /\ accounts' = [accounts EXCEPT ![p] = new]
  /\ SaveAccounts(new, {from[t] : t \in applied} \union {to[t] : t \in applied} \union {Producer})
  /\ pending' = pending \ applied
  /\ blocks' = [blocks EXCEPT ![p] = Append(@, b)]
  /\ SaveBlock(b, Len(blocks[p]) + 1)
  /\ UNCHANGED <<leader, up>>

Next ==
  \/ \E p \in Process : Boot(p) \/ Elect(p) \/ Crash(p)
  \/ \E p \in Process : Produce(p, {}) \/ \E t \in pending : Produce(p, {t})
  \/ Lose

Spec == Init /\ [][Next]_vars

-----------------------------------------------------------------------------
\* What docs/db/table-blocks.md promises of the table: rows are added, and a
\* row that is there does not change, whichever worker leads.
BlocksAppendOnly ==
  [][\A row \in DOMAIN blockRows : row \in DOMAIN blockRows' /\ blockRows'[row] = blockRows[row]]_vars
=============================================================================
