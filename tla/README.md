# TLA+ verification of Hermeschain

Hermeschain is a single-validator account chain (TypeScript, `src/backend/src/`)
whose worker process also runs a language-model agent. This directory holds TLA+
models of the backend, TLC configurations that check them, and TLAPS proofs about
them. Paths below are relative to `src/backend/src/` unless they start with `src/`.

## 1. The system

Two kinds of process share one PostgreSQL database and one Redis: **web** replicas
(`api/server.ts`) and **worker** replicas (`worker.ts`, or a server with
`AGENT_ROLE=worker`). Workers elect a leader through a lease in Redis; the leader
runs the block producer, the agent and the publisher. Everything inside a process
is single-threaded: between two `await`s nothing else runs, at an `await` anything
may. All chain state is kept twice, in memory and in tables, and the code writes
memory first and the table afterwards, mostly ignoring errors.

| part | state | operations | talks to |
|---|---|---|---|
| canonical chain, `blockchain/Chain.ts`, `Block.ts` | `blocks`, `orphanedBlocks`, table `blocks` | `initialize`, `addBlock`, `handleReorg`, `saveBlock…`, `refreshFromDb`, `pruneOrphans` | ForkManager, StateManager, TransactionPool, events |
| fork choice, `blockchain/Consensus.ts` | `mainChain`, Map `chains` | `addBlock`, `switchToFork` | called by the chain only |
| block production, `blockchain/BlockProducer.ts` | guard `producing`, `isProducing`, `consecutiveFailures` | `start`, `stop`, `produceBlock` | all of the core |
| accounts, `blockchain/StateManager.ts` | `accounts`, table `account_state` | `applyTransaction`, `applyBlockReward`, `revertBlock`, `refreshAccount(s)`, `reconcileFaucet` | producer, API handlers |
| pool, `blockchain/TransactionPool.ts` | `pendingTransactions`, table `transactions` | `addTransaction`, `getPendingTransactions`, `confirmTransaction`, `removeTransactions`, `evictInvalid` | producer, API, reorg |
| validators, `validators/*`, `blockchain/AIValidator.ts` | table of validators | `getConsensus`, `recordBlockProduced`, verdicts | producer |
| leader election, `agent/leaderElection.ts` | lease in Redis, `owner`, two timers | acquire, renew, lose, release | `worker.ts` starts and stops services |
| publisher, `agent/PublishQueue.ts`, `PacedPusher.ts` | queue table, git branch | enqueue, publish, mark | agent, GitHub |
| authoring, `agent/GitIntegration.ts`, `AgentExecutor.ts` | working tree, index and queue branch of a clone, write scopes | reset, write, commit, replay, push | agent loop, remote |
| agent, `agent/AgentWorker.ts`, `AgentTaskStore.ts`, `TokenBudget.ts`, … | tables of tasks and runs, budget windows | claim, run, finish, recover | LLM, git |
| wallet, faucet, bridge, `api/*.ts` | cooldowns, `bridge_transfers` | claim, lock, release | accounts, pool |
| peers and events, `network/*`, `events/*` | peer registry, subscriptions | announce, receive block, fan out | other nodes, Redis |
| database, `database/*` | pool, migrations table | migrate, query | everything |
| virtual machine, `vm/*` | gas meter | execute | receipts; its exceptions reach production |

`PROJECT.json` lists every component with its status and, under `hazards`, 40 places
where the code is hard to test, each with the properties that watch it or the reason
why none does.

What makes each part correct, and where it is hard:

- **Chain and forks.** Blocks come from the producer and from peers in any order,
  more than once. The chain must stay linked by hash and height; it must follow the
  better fork; table and memory must agree after lost INSERTs and restarts.
- **Production.** One cycle has about ten awaits. Transactions are applied and
  confirmed before the block is judged; a query may throw, a write may be lost, the
  process may die at any of them. Money must not be minted, a nonce must be used once,
  and no return or throw may leave the guard up.
- **Election.** A lease can run out while its owner is blocked, waits for a late
  answer or is cut off from Redis. At most one replica may act with a fresh lease.
- **Services of the leader.** Starting and stopping is synchronous, but it leaves timers
  and awaits behind that fire after the lease has gone. What was stopped must stay
  stopped, and what a leader runs must not stop for good.
- **Publishing.** A push and the row that records it are two steps; two processes may both
  believe to lead. Each tree may be published once, in the order of the queue.
- **Agent tasks.** Every replica writes whole rows from a memory it loaded at its start. A
  task must not be called done without its work, nor given up or retried for ever.
- **Authoring.** Runs share a working tree, processes share a branch, and every git command may fail. A run
  must commit what it wrote and nothing else, and what was committed must not be lost on its way to the remote.
- **Token budget.** Calls are let through before they are charged, and charges are written
  later. The cap may be passed by calls in flight only, and a pause must end.
- **Faucet.** Parallel claims share one account whose nonce is known from three places (row,
  memory, tracker). A nonce left out stalls every claim after it.

## 2. Modules

| module | models | composed with |
|---|---|---|
| `ForkManager` | class `ForkManager` as operators on a record `fm` | used by `Chain` |
| `Chain` | `Chain.ts` in one process, with its table | extends `ForkManager` |
| `Ledger` | the arithmetic of `StateManager` | used by `BlockProduction` |
| `BlockProduction` | `produceBlock`, pool admission, tables, crash | extends `Ledger` |
| `LeaderElection` | `startLeaderElection` and the worker's shutdown | - |
| `LeaderServices` | what `worker.ts` starts and stops: producer, agent loop, heartbeat | - |
| `Failover` | what `worker.ts` loads at its start and its producer writes, in several processes | extends `Ledger` |
| `PublishedLog` | abstract: a log of commits, each tree once, in order | - |
| `PublishQueue` | `PacedPusher`, `PublishQueue`, clones and remote | implements `PublishedLog` |
| `AgentTasks` | `AgentTaskStore`, `TaskSources`, the loop of `AgentWorker` | - |
| `Authoring` | the way of a run into the queue branch: `streamRealTask`, `completeSuccessfulRun`, `GitIntegration` | - |
| `FaucetClaims` | `/faucet/claim`, pool admission, `refreshAccount` | - |
| `TokenBudget` | `TokenBudget` with the loop and the other callers of the model | - |
| `Migrations` | `applyPendingMigrations` in servers that start together | - |
| `Execution` | gas of a block: the loop of `produceBlock`, `Interpreter`, `GasMeter`, receipts | - |
| `MCChain`, `MCBlockProduction`, `MCAuthoring`, `MCWorkers`, `MCLeaderServices`, `MCFailover`, `MCPublishQueue`, `MCAgentTasks`, `MCParts` | instances for TLC | extend the above |
| `IndexLemmas` | lemmas on sequences, sets and sums | - |
| `ChainProofs`, `BlockProductionProofs`, `PublishQueueProofs`, `AgentTasksProofs` | proofs about one module each | extend it |
| `LeaderProofs` | proofs about `LeaderServices`, `TokenBudget`, `Execution`: what a leader runs | extends them |
| `ReplicaProofs` | proofs about `LeaderElection`, `Authoring`: what several workers share | extends them |
| `ServerProofs` | proofs about `FaucetClaims`, `Migrations`: what servers do | extends them |

**ForkManager / Chain.** A block is an identity; its header (parent, height, time)
is a constant function, so "parent hash equals hash" is equality of identities. The
JavaScript Map of forks is a sequence in insertion order, because the loop over it
takes the first match. The key of an entry is always the hash of its last block, so
the keys are left out. Notable effect kept from the code: `chains.set(tip)` followed
by `chains.delete(oldTip)` deletes the fork when its tip arrives a second time
(`ExtendFork`). `Arrive(b)` is one call of `addBlock` up to its first await: memory
changes there. `Save` and `SaveFails` are the INSERT on its own connection; `Restart`
is the death of the process and `initialize`. An INSERT in flight at a restart counts
as lost; one that reached the table earlier is a `Save` before it. A query of `initialize` that fails leaves
the process with the genesis block alone and the table as it was (`Boot`, `blockchain/Chain.ts:146`); `unloaded`
remembers the rows it does not know. The table is a sequence in height order, because it is always
read with `ORDER BY height`. Two details are abstracted. The conflict branch of the INSERT replaces hash and time of a
row and leaves its `parent_hash`: no two blocks of the chain of one process have the same height, so this
happens only after a failed load, and what is loaded of the row then is the new block but for its parent. Rows of a block's
transactions belong to `BlockProduction`.

**BlockProduction.** One action is the code between two awaits; `pc[c]` names the await
at which cycle `c` waits. `accounts` is memory, `rows` the table. `Begin` is a timer
tick that finds the guard down; `Apply` … `Confirm` the loop over the pending
transactions; `ApplyReward`, `Accept`/`Reject`, `AddOnHead`/`AddToFork`/`AddRefused`,
`SaveTx`, `Consensus`, `Record` the rest; `Throw` the catch clause; `Resume` its 30 s timer.
Verdicts and failing queries are free choices when `Faulty`. Gas, block size and
timestamps appear as the choice to end the loop early (`BlockFull`) or to refuse the
block (`AddRefused`). The writes whose errors the code logs and drops may be lost
(`LoseWrite`), at most `MaxLostWrites` of them. `Crash` is possible in every state. The
receipts and the virtual machine's result do not enter, as they never change an account; that the
interpreter may throw does (`ProgramThrows`): the transaction is applied and confirmed, and the cycle is over.
A peer's block carries no transaction this node knows.

**LeaderElection.** One tick is 10 s. `lease`/`ttl` are the key in Redis. A request to
Redis takes effect at once and its answer is a separate step (`Acquired`, `Lost`), so
the event loop may be blocked in between (`Stall`, `Wake`) or the connection may break
(`CutOff`, `AnswerLost`). Time passes only when no running process has anything due:
healthy processes are punctual, stalled ones are not. An error in the poll is an
unhandled rejection and ends the process (`PollError`); an error in a renewal is
logged (`Renew`, first disjunct). The model follows `worker.ts`: a server with
`AGENT_ROLE=worker` catches the error of the first loop and then never polls. A flush
or loss of Redis itself is not modelled.

**LeaderServices.** One process; `Acquire` and `Lose` are the two callbacks of the election
and run in one piece. The rest is what fires later: the cycle of the producer that returns
or throws (`CycleReturns`, `CycleThrows`), the 30 s timer of its catch clause (`Restart`), the
interval (`Produce`), the awaits of `AgentWorker.start` (`Initialized`), the end of a loop (`Exit`),
the heartbeat's delayed start (`Beat`, `ModuleStart`). Intervals and loops are counted, since
the code may hold more than the one it has a handle of. The cycle itself is `BlockProduction`.

**Failover.** Several workers over one set of tables. `Boot` loads chain and accounts, `Elect` and `Lose` start
and stop production and load nothing. A cycle is one step with at most one transaction: `BlockProduction`
has its awaits, refused blocks and lost writes, which are not needed to see what stale memory does. The pool needs no
memory of its own, since each cycle rereads the pending rows. `SaveBlock` is the INSERT with its conflict
branch. It follows `worker.ts`; a server with `AGENT_ROLE=worker` may be refreshed by its HTTP handlers.

**PublishedLog / PublishQueue.** A commit of the queue is its position; `treeOf` and `good` are
constants. Every process has a clone whose remote-tracking refs are as fresh as its last fetch;
a push is taken only if the clone's publish branch is the remote's, as git does. Two pacers
may live in one process, because each election makes a new one and does not stop the timers of the old
one, or in two. `PublishedLog` is what the code promises: a log to which commits are
appended in the order of the queue and each tree at most once. The refinement maps its `log`
to `main` (`Log == INSTANCE PublishedLog WITH log <- main`); every other variable is hidden, so all steps but an accepted push stutter. What the model keeps of the code and a reader may not expect:
the fetch is not awaited and its rejection ends the process; a failed query of the status yields
no schedule and does not hold the tick back; a commit that returns to an earlier tree is
never published; a tree refused for its quality hides later good commits of the same tree.

**AgentTasks.** `rows` and `runRows` are the tables, `sourceTasks` and `taskRuns` each process's memory
of them, loaded by `Boot` and never refreshed; all writes write the whole record. A load that fails leaves memory empty (`failedLoads`),
and any row of a write may be lost while memory keeps its record (`Write`, `Lossy`, `lostWrites`). `fresh` stands
for "updated within the hour". Of a run only matters whether it is active. The iteration of
the loop is `Select`, `StartRun`, `CountRun`, then `Passes` or `Fails`, `Commit`, `FinishRun`,
`FinishTask`, `DeadLetter`, one per await that matters: `CountRun` has the writes of the run, the count and the status in one
piece, of which each row may be lost. `leaders` remembers who was ever elected: a standby
elected later has the counts of its own start, so tasks may be tried anew. `CurrentRun` is looked up in memory when a run
completes, as the code does.

**Authoring.** A commit is named by its run, and `content[r]` says which files it has and which run wrote them; `tree` and
`index` name the run that wrote a file since HEAD and since it was staged. Git commands are synchronous, so a loop
that replays and pushes holds up the others of its process (`IsAt`). Loops of one process share tree, index and
`scoped`, the write scopes of the executor, which the end of any loop clears. How the status is read is part of the model, because
it decides what is committed: `Misread` is the path that the trimmed output of git spoils, `Shown` the directory that git
names instead of its untracked files, `Entries` what is left for the scopes of the task. `Reject` stands for all guards before the commit. `Replay` is
fetch and rebase, which git refuses in a tree with changes (`Refused`) and may give up (`Conflict`); `Push` is taken if it
continues the branch of the remote. `End` is the death of a process, whose clone in `/tmp` may be gone with it. It continues at
`PublishQueue`, whose queue branch only grows, because git takes no other push. Left out: a run that ends in the middle of a rebase,
a write that restores what HEAD has, files that a command of the model deletes.

**FaucetClaims.** A claim is the queries between its cooldown check and its answer:
`RefreshAccount` (the database answers), `Submit` (nonce, validation, INSERT sent, in one piece),
`InsertTransaction` or `InsertFails`, `Grant` (the tracker moves). The worker's side is `Mine`. A
restart empties the tracker and loads the pool and the accounts. An INSERT in flight at a restart
either reached the table before it or is lost.

**TokenBudget.** One process, whose agent loop calls the model while up to `SideCalls` other calls
(block validation, chat) are in flight. Windows are what is left of them in ticks, so that time is unbounded
and the model finite. The row is written by a chain of writes, each of which takes
the values of memory when it starts. Tokens and dollars are capped alike and modelled as one unit.

**Execution.** One cycle's gas. A transaction that fits is a `Transfer`, is `NotApplied` (a receipt that is not
stored) or is a program (`Execute`), which runs op by op until it returns or throws. Most values an op
may find on the stack are left out: which they are decides only whether `DIV` finds a zero
(`DivideByZero`) or a conversion throws (`ProgramFails`), and a program can bring about either at any op.
Costs are grouped by kind of op and scaled down; the limits are chosen so that programs run out of gas on
each kind and blocks fill up exactly and inexactly.

**Migrations.** Several servers start over one database. A start is one query after the other, so the
pool of the process holds one connection and the lock's session is the process (`holder`); the driver (`pg`) closes a
connection whose query failed, which frees the lock. `executed` is what the database has, `recorded` the rows
of `schema_migrations`; migrations in `Once` fail when repeated, as 0014 does, which renames a table. A server whose
runner halts goes on to serve (`Halt`, `api/server.ts:835`). Servers only: `main` of `worker.ts` does not catch errors
of `createTables`, and exits.

## 3. Runs

| run | question | result |
|---|---|---|
| `chain` | Seven blocks on three branches arrive in every order, repeatedly, while INSERTs overlap, fail and are cut off by restarts whose load may fail. Is the chain linked and append-only, is every accepted block still known, is the table part of memory but for what a failed load left out, and does it keep its blocks otherwise? | holds |
| `chain_overtake` | Is the chain reorganised when a fork overtakes it? | violated, finding 1 |
| `production` | Two cycles, four transactions, rejected blocks, throws, a peer's block, two crashes: are accounts, confirmations and blocks consistent? | holds |
| `production_live` | With a lost write and a crash: does production go on, and is every applicable transaction applied? | holds |
| `production_finalizes` | Does the block of a confirmed transaction always finalize? | violated, finding 2 |
| `workers` | Two replicas with every fault: does a fresh leader hold the lease, a stale one yield, and is a vacant lease taken? Two loops, in one process or in two, with failing git commands, conflicts and ends of processes: does a run commit only what it wrote, and is a commit kept? | holds |
| `authoring_verified` | Is there a commit for every run that was verified and called successful? | violated, finding 5 |
| `services_loss` | Does the loss of the lease stop the loops for good? | violated, finding 3 |
| `publish` | Two pacers, in one process or two, with crashes, lost elections, failed queries and lost answers of git: is the publish branch an ordered log without duplicates, with nothing dropped, paced, and is every good commit published? | holds |
| `tasks` | Two replicas with their own memory, a crash, a failover, an hour that makes records stale, a lost write or a failed load: is only a task called done that had a verified run of its own, is no task given up early, do retries end? | holds |
| `failover` | Does a standby that is elected keep the blocks of the last leader? | violated, finding 4 |
| `parts` | Five parts without common state. Claims interleave with blocks, a failed INSERT and a restart: is no nonce left out or shared by claims that do not race, and is what is accepted paid? Calls overlap, writes are slow or fail, the process crashes: are caps passed by calls in flight only, does a restart forget only what was not written, does every pause end? Transfers and programs fill a block: do its receipts add up, whatever programs do? Servers start together and migrate one database: is a migration repeated only after a failure between it and its record or of the lock, are the records without a gap, does every start end? A process is elected and deposed twice while cycles fail, production pauses and delayed timers fire: is there one production interval, is it stopped with the lease unless a timer is due, has a running agent a loop, does a lasting leader go on working? | holds |

Every property of a passing run has a mutant in `PROJECT.json`: a plausible bug in a
mapped definition that violates it under the same configuration.

**Bounds.** *Chain*: a tree with forks at the genesis block, at `a1` and inside a fork
(`b1`), with a block of a wrong height; the arrivals are enough for the ForkManager to
switch, to switch back and to lose a repeated tip, and the restart for a chain with a hole, or for nothing of it, to be
loaded and extended. `MaxReorgDepth` is 3 instead
of 100 and never binds in so small a tree; the theorems hold for every depth. The clock takes two values with
`MaxSkew = 2`: the blocks of time 3 are too early at first and valid later.
*Production*: `t1` and `t1x` compete for one nonce, `u0` can be paid only out of `t0`,
and later transactions only out of `u0`, so every check of `applyTransaction`
decides some run. Two cycles suffice to overlap. `MaxIdleCycles` bounds only cycles
with nothing to apply, so that liveness is not cut short. Two crashes allow a crash after
a recovery. `Limit` exceeds the number of transactions, so a full block starves none. `MaxFailures` is 2 instead of 5.
*Election*: the intervals are the real ones in units of 10 s; two replicas (the
counters saturate, so nothing else is bounded).
A tick of 10 s gives every deadline a slack of less than one tick.
*Services*: two terms, so that a timer of the first can fire in the second; two failures pause production.
*Authoring*: three files, one in the branch, one new, one in a new directory; a task whose scope lacks the first; three runs, one
failing command, one end of a process. Two loops in one process or in two: two clones suffice for a conflict.
*Publish*: four commits, the third with the tree of the first, the second of low quality; two
pacers placed in one process or in two; a bound on faults of all kinds together.
*Tasks*: two tasks, two failures until a task is given up, one crash and one hour: enough
for a failover to a replica with stale memory that then gives up, finishes or retries. If one task lacks edit scopes and all runs are
the other's, one run more than the property allows: four while the database answers, five after a fault of it; three runs if both compete
(`FewRuns`). There is one fault of the database, a lost write or a failed load, and only while one process was elected; with two tasks to run no
lost write, and a crash or an hour, not both (`FewFaults`). The theorems have none of these bounds. *Failover*: two workers, two transactions
of which the second spends what the first pays, three blocks.
*Faucet*: three claims by two addresses (that of one is fixed, since addresses are interchangeable), so two claims may have the same hash, with a nonce
window of 1 instead of 10, so that a burst is refused; one restart, one failed INSERT. *Budget*: an
hour of one tick, a day of two, caps of 2, 3 and 1 units for hour, day and task, so each of them is the first to bind in some
behaviour; one call beside the loop's. `MaxQueue` bounds the writes that wait, `MaxFailed` those that
fail in a row. *Execution*: a block of 7 units of gas, limits of 2 and 4, ops of 1 to 3, three receipts.
*Migrations*: three servers, three migrations of which the second cannot be repeated, one failed query, two deaths.

**Symmetry** is used for interchangeable cycles and tasks in the runs that check
invariants only, never in one that checks liveness.

**Deadlock** is checked for the election, which never stops (the other part of its run may rest). In the other runs every input is
bounded, and a model that has used up its bounds stops.

**Fairness** (`BlockProduction!FairSpec`). Weak fairness of `Begin` (`setInterval` fires
again and again), of `Step(c)` for each cycle (an await of a query returns or throws,
and Node runs the continuation) and of `Resume` (`setTimeout` fires). None is assumed
for submissions, peers, crashes or `BlockFull`. Weak fairness is enough since each of
these is enabled until it is taken. `LeaderServices!FairSpec`: the same timers, cycles and awaits; none for
elections. `PublishQueue!FairSpec`: timers fire, queries return or throw, time passes and a process without
the lease is elected again; none for the agent's commits or for faults. `FaucetClaims`: the worker mines
what it can (that it does is `ApplicableIsApplied`); no request has to proceed.
`Migrations`: some server whose query can be answered gets its answer. `TokenBudget`: time passes, the loop goes on and writes end; nobody else has to call.

## 4. Properties

*Chain*: `LinkedSinceBoot` (hash, height and interval, from the point at which the
process loaded its chain: a reloaded chain may have holes), `HeightsIncrease`,
`RowsFromChain` (the table has no block that memory lacks, but for those a failed load left out), `SavedStays` (what is in the table
stays there, unless a load has failed: then the process goes on from genesis and its INSERTs replace the rows of the old
chain), `AcceptedIsTracked` (for blocks that arrive once; the code loses a fork whose
tip is repeated), `AppendOnly`, `MainNeverShortens`.
*Production*: `ConfirmedIsDurable`, `BlocksNonceOrdered`, `NoMoneyFromCrash`,
`MemoryMatchesRows`, `AddsOnHead`, `ApplicableIsApplied`. Those about the table are stated for
runs without a lost write, because one lost write does put the table behind memory;
`BlocksNonceOrdered` holds with a lost write as long as there is no crash after it, which
`NoncesOrdered` proves.
*Election*: `FreshLeaderHolds` (two owners with a renewal younger than the TTL never
coexist), `StaleLeaderYields`, `TakeoverBounded` (a healthy replica sees no vacancy longer than TTL + poll).
*Services*: `OneInterval`, `LossStopsProduction` (after a loss only a pending 30 s timer can bring production
back), `RunningHasLoop`, `LeaderWorks` (a leader that stays one has production, the agent and a heartbeat that it can clear again and again).
*Publish*: `PublishesLog` (the refinement), `NothingDropped` (what the history calls processed is on the branch
with its tree, or was refused for its quality), `Paced`, `GoodIsPublished`.
*Tasks*: `SuccessIsOwn` (a task called succeeded had a run of its own that was verified and passed the commit step, for
processes that run one copy of the loop, see below; that step succeeds without a commit too, which is finding 5),
`NotGivenUpEarly`, `RetriesBounded` (up to the limit in each life of the process, and with a database that answers up to the limit
and one run more for each crash; while no other process was elected: one that started before a task was run and is elected
after it failed counts from zero, and may run it as often again).
*Authoring*: `RunsIsolated` (for runs that began in a clean tree and had it to themselves: two loops of one process do mix their
files), `CommittedIsKept`.
*Faucet*: `NoGap`, `SequentialNonces`, `GrantedIsPaid`. They carry the limits of the code: claims
that choose a nonce while another's INSERT is in flight do share it, and then both are
accepted and one is paid; after a restart the tracker is empty and a claim takes the nonce of a
transaction that still waits; a failed INSERT leaves its nonce out until the next restart.
*Budget*: `OverdrawnByCallsInFlight`, `RestartForgetsUnwritten`, `PauseLifts`. They are about one process; the
worker and the web process each keep buckets of their own and write the same row, the last one wins.
*Execution*: `ReceiptsAddUp` (the stored receipts are numbered without a gap, each within its limit, and their gas is
the block's, within the block's limit).

*Migrations*: `RefusedOnlyIfInterrupted`, `RecordedInOrder`, `BootEnds` (no start waits for ever for the lock).
The type invariant is a property of `production` only; those of the other modules are proved (section 6),
`Failover` and the operators aside.

## 5. Where code and comments disagree

1. **A fork never overtakes the chain** (`chain_overtake`). `blockchain/Chain.ts:206` says the
   chain is reorganised when a fork overtakes. `addBlock` hands `handleReorg` only the
   last block of the fork, so the new length never exceeds the old one and
   every reorganisation is refused, while ForkManager has switched. The
   two then disagree for good; each answers its own "main chain". `ChainAppendOnly`
   proves the other side: no reorganisation replaces a block, for any tree.
2. **A confirmed transaction may be in no block** (`production_finalizes`, comment at
   `blockchain/BlockProducer.ts:166`).
3. **Production outlives the lease** (`services_loss`, `src/docs/architecture/leader-election.md:8`): when the
   catch clause has paused production, `onLose` finds nothing to clear, and the 30 s timer starts it
   again without asking who leads. It stops at the next loss.
4. **A standby overwrites blocks** (`failover`, `src/docs/db/table-blocks.md:13`, `src/docs/ops/multi-region.md:54`): a worker
   loads chain and accounts when it starts and never again. Elected later, it produces at the height it
   loaded; the INSERT replaces hash and time of the old leader's row, the next row still names the
   old hash as its parent, and its accounts overwrite newer ones.
5. **A verified run may leave no commit** (`authoring_verified`, comment at `agent/GitIntegration.ts:479`). `execGit` trims the
   output of `git status --porcelain` (`:775`). If its first line is ` M path`, the trim shifts its columns and `substring(3)`
   cuts off the first character of the path, which then is in no scope. A run that changed one existing file finds "No scoped
   changes to commit", is recorded as succeeded, and the reset before the next run discards its work. If it changed several, the first
   of them stays in the tree, and `git rebase` refuses a tree with changes, so the commit is not pushed with its run either.
   A run that wrote only outside its `editScopes`, as `agent/AgentWorker.ts:397` allows, ends in the same way.

Seen while modelling, and in no run: an INSERT of a block that fails is never
retried (comment at `blockchain/Chain.ts:295`). A process whose chain fails to load at its start
goes on from genesis, and its blocks replace the stored ones (`blockchain/Chain.ts:146`, `src/docs/db/table-blocks.md:13` calls the table append-only);
one whose task table fails to load queues every backlog task again with no run counted, finished ones too (`agent/AgentTaskStore.ts:97`,
`agent/TaskSources.ts:459`). A crash between the accounts and the confirmation leaves a transaction
pending with its nonce spent (comment at `blockchain/BlockProducer.ts:165`). A leader whose renewals fail stays
leader while another acquires (`src/docs/ops/multi-region.md:34`); a takeover takes up to TTL + poll, not 30 s
(comment at `agent/leaderElection.ts:9`). Stuck tasks are recovered once per process, not after an hour
(`src/runbooks/agent-stuck.md:28`). An iteration may complete
another's task (`src/docs/architecture/agent-loop.md:18`): a lease lost and regained during a task adds a second loop, and the
first to finish marks the task that was started last succeeded (`agent/AgentWorker.ts:674`).
Claims of a burst share nonces when they overlap (comment at `api/wallet.ts:71`). A crash between
migration 0014 and its record makes it fail at every later start (comment at `database/migrations.ts:21`), and a server whose
migrations fail does not halt its boot (`api/server.ts:817`) but serves. A new file in a new directory is shown as the directory, so
its run is refused for "unexpected scoped changes" of its own. The links to `node_modules` that a clone is given are not
covered by the pattern `node_modules/` of `.gitignore`, so the first `git clean -fd` removes them
(comment at `agent/GitIntegration.ts:743`). Log
indices restart with every transaction (`vm/Interpreter.ts:242`), receipts are stored with an empty block hash
(`blockchain/BlockProducer.ts:201`), and a cycle that ends after transactions were executed leaves the receipts of a block
that was never added. A transaction that is not applied gets a receipt with the index of the next one
and 21000 gas that the next one's cumulative gas does not count; only the list in memory has it.

## 6. Proofs

All theorems hold for every value of the constants that satisfies the named
assumptions; `tlapm` checks every leaf. Every safety invariant and every action property of the passing runs is
stated by a theorem: the runs show it on a small instance, the theorem for all of them. The inductive invariants have the
names given here in the proof modules.

`ChainProofs`, from `HeaderAssumption` (headers are functions on blocks, with natural
heights and times, and the genesis parent is no block) and `ChainAssumption`:

- `TypeCorrect`, `ChainLinked`, `HeightsAlwaysIncrease`, `RowsAlwaysFromChain`, `SavedAlwaysStays`,
  `ChainAppendOnly`, `ForksNeverShorten`. The properties are not inductive alone. `ChainInv` adds that the process has
  not forgotten what it loaded (`bootLength` is at most the length: otherwise a restart
  could leave an unlinked pair above it), that what waits for its INSERT is on the chain
  (for `RowsFromChain`), and that the *table* is in height order (for `HeightsIncrease` after
  a restart). The key lemma is `ReorgNeverDone`: the ancestor of a block that is
  not on the head lies below the head, so one offered block never makes a longer chain.
  `FmAddBlockGrows` is the fork choice's side: it switches only to a chain at least as long.
  `UpsertProperties` shows that the INSERT keeps the table ordered and adds at most its block.
- `AcceptedAlwaysTracked` states `AcceptedIsTracked`. A fork is deleted under the key of its tip, so the tips must be
  apart: from each other and from that of the main chain (`ForksKept`). This is so while no block arrives twice, since a
  new tip has arrived now and all blocks of the forks before (`AcceptedInv`). A main chain that gives way becomes a fork, unless it
  is one block long, and then it is contained in the fork that takes over; that is why forks exist only beside a longer main chain.

`IndexLemmas` has the facts about `Min`, `Max`, `RemoveAt` and `SumFunction` of the community modules that the proofs cite.
Where one needs induction it takes the smallest counterexample instead, which the well-ordering of the naturals gives:
`SumExists` shows that a sum over a finite domain is a number and unfolds at a chosen element, `SumAnyFirst` at any element,
and `SumOfUpdate` that changing one term changes the sum by the difference.

`BlockProductionProofs`, from `TransactionAssumption` (every transaction has two different
accounts; values, fees and nonces are natural numbers) and `ProductionAssumption` (the producer
is an account, the bounds are natural numbers, there are finitely many accounts and transactions):

- `ProductionType`, `ConfirmedDurable`, `MemoryIsSaved`, `BuildsOnHead`, `NoncesOrdered`, for
  any number of cycles, transactions, lost writes, peers' blocks and crashes. `ProductionInv` is
  the conjunction of
  - `GuardInv`: the cycles exclude each other. All the rest stands on it, since two cycles at
    work could each have half of a transfer in memory;
  - `SpentInv`: a nonce is spent in the table from the save of the sender on, so before
    the confirmation; `ConfirmedIsDurable` alone says nothing of a transaction in hand;
  - `SyncInv`: memory and table differ only at the addresses the running cycle has yet to save;
  - `HeadInv`: the head read at the start of a cycle stays the head until its block is added;
  - `PastInv`, `UsedInv`: the table is never ahead of memory, and what is in hand is applied;
  - `SavedInv`: a height in the table of transactions points at a block that has the
    transaction, so that a reload yields no more than the chain had;
  - `OrderInv`: what is in the chain, then in the block being built, then in hand has spent
    its nonces in this order. It is stated for runs with no lost write or no crash, as the
    property is: both together bring a spent nonce back.
- `CrashMintsNothing` states `NoMoneyFromCrash`, which is about the table and not inductive: between the two saves of a
  transfer the total must leave room for the second. `MoneyInv` says so of each cycle (`Covered`): before the
  first save memory has taken from the sender at least what it gives to the other, after it the total is that much below what
  was issued. A crash only drops what was not saved. It stands on `ProductionInv`, which keeps other cycles away and memory
  and table alike elsewhere (`EqualAtRest`), and on `SumOfUpdate`.

`LeaderProofs` on `TokenBudget`, from `BudgetAssumption` (caps, windows and bounds are natural numbers, caps and windows
positive):

- `BudgetType`.
- `CapsHold` states `OverdrawnByCallsInFlight`. Its invariant counts a call in flight as if it were charged
  already: use plus calls in flight never exceeds the cap plus the other callers (`CapInv`). A call is let through only below
  the cap, an answer moves one unit from in flight to used, and a new window only lowers the use. It needs that the row is
  within the same bounds (`StoredInv`), since a restart loads it, and that a process which is down has nothing in flight
  (`DownInv`).
- `RestartLosesOnlyUnwritten` states `RestartForgetsUnwritten`. Memory and row are `Near` each other: in the same window
  they differ by no more than the writes that wait or have failed, and if their windows are different ones, all that
  memory holds is unwritten. `RowInv` says so of row and memory, `WriteInv` of the write under way, whose values
  are those memory had when it started.

`LeaderProofs` on `LeaderServices`, from `ServicesAssumption` (the limits are natural numbers, that on failures positive):

- `ServicesType`, `ProducerHasOneInterval`, `LossEndsProduction`, `AgentHasLoop`. `ServicesInv` adds why a loss leaves nothing
  behind: until production has paused once, only a leader has an interval and no timer waits to start one (`PauseInv`),
  and the services are active exactly while the process leads (`ActiveInv`), so that neither callback returns early.

`LeaderProofs` on `Execution`, from `ExecutionAssumption` (costs, limits and bounds are natural numbers):

- `ExecutionType`, `ReceiptsAccount`. What is left and what is spent add up to the limit of the running program, and that limit still
  fits into the block (`MeterInv`), so neither the receipt nor the block can pass its limit however the program ends. The gas before a
  receipt is a field of the receipt before it, so the property needs no sum over the list.

`ServerProofs` on `FaucetClaims`, from `FaucetAssumption`:

- `FaucetType`.
- `NothingLeftOut` states `NoGap`. A nonce is *taken* if it is below the account's, pending, or its INSERT failed. `GapInv` says that everything a
  claim can compute its nonce from has only taken nonces below it: what a process knows of the account's nonce was once the
  account's (`AnswerInv`), the tracker and all below it are taken (`TrackerInv`), and below each transaction that is pending or being sent
  there are only taken nonces (`PendingInv`, `SendingInv`). Taken nonces stay taken, since `Mine` only moves them below the account's.
- `SerialClaimsDiffer` states `SequentialNonces`. While claims have not raced (`SerialInv`), at most one is being sent, its nonce lies above
  the tracker, and the nonces of accepted claims differ and lie at or below it.

`ServerProofs` on `Migrations`, from `MigrationAssumption` (nobody is not a server; the migrations that cannot be
repeated are migrations):

- `MigrationType`.
- `RecordsHaveNoGap` states `RecordedInOrder`. `Order` says that what a server has applied is a first part of the
  records, the records are a first part of the migrations, and what a server is about to record the database has. A record
  then either is there already (another runner wrote it) or is the next one. The lock plays no part in it.
- `RefusalsNeedInterruption` states `RefusedOnlyIfInterrupted`. `LockInv`: until something fails where it matters, whoever is
  past the query of the lock holds it (so nobody else is, `WorksAlone`), what it read of the table stays exact, and only
  the migration in hand is executed and not recorded; so none is executed twice.

`PublishQueueProofs`, from `PublishAssumption` (pacers run in processes, trees and verdicts are given for
each commit of the queue, interval and batch are positive):

- `PublishType`. Its counters of skips stay within a batch because a pacer that still looks for a commit has skipped
  less than one (`SkipInv`).
- `QueueIsLog` states `PublishesLog`, the refinement: each step is a `Publish` of `PublishedLog` or a stutter. That a
  pushed tree is new follows from the look into the clone, which the refusal of a stale push makes exact. That it comes
  later in the queue than all that is there does not: `PickInv` and `MainInv` say that whatever was picked or
  published had only processed trees before it, so a commit with an unprocessed tree lies behind all of them.
- `NothingIsDropped` states `NothingDropped`. `SettledInv` carries "published or refused" from the await at which a pacer
  decides to the one at which it writes the row; the publish branch and the history only grow, so it stays true.
- `PushesArePaced` states `Paced`. While nothing has failed one tick is in flight (`Alone`), and the interval
  since the last push is in one place at a time: in the cursor row once the push is recorded (`HeldBack`), and until then in what the tick that
  pushed is about to write (`Pushed`); a tick that looks for a commit has read that none of it is left (`Due`).

`ReplicaProofs` on `LeaderElection`, from `ElectionAssumption` (no replica is the absent lease; the three
intervals are positive):

- `ElectionType`, `FreshLeader`. `FreshLeaderHolds` is not inductive: a process becomes owner some time
  after its SET, and the key expires by its own counter. `ClaimInv` starts the claim with
  the SET instead of its answer and adds `ttl + silent >= Ttl`: the key outlives the
  claim. Every step of every other replica then leaves the lease alone, because all of them
  compare the holder. No relation between the intervals is needed.
- `StaleYields`, `TakeoverIsBounded`, from `RenewBeforeExpiry` too (10 s is less than 30 s). `HealthInv`
  follows the healthy time of a leader against its next renewal: either it has not been
  healthy for a whole interval, or it has renewed, and then the key lives until after the next
  renewal. `PollInv` does the same for the poll, whose interval may start while the process
  is still owner of a lease it has lost; so it needs `HealthInv`.

`ReplicaProofs` on `Authoring`, from `AuthoringAssumption` (loops run in clones; directories contain new files only; scopes are
sets of files and directories):

- `AuthoringType` (with `RunInv`: the numbers of the runs that loops have in hand differ).
- `RunsAreIsolated` states `RunsIsolated`. A run that is still called alone has no companion in its clone, and what differs
  there from HEAD, or is staged, is its own (`LoneInv`); runs that have not begun are in none of the sets (`LaterInv`).
- `CommitsAreKept` states `CommittedIsKept`. The hard half is that a replay brings no commit to the remote twice. The local branch is a
  part of the remote's and then commits that the remote lacks (`Based`, in `BranchInv`); two clones share only what is on the remote
  (`ApartInv`); a run that may still commit is on no branch (`OpenInv`). So a replay moves each commit that is only local to the end, once, and a
  push adds just those.

`AgentTasksProofs`, from `TasksAssumption` (there is a process, nothing is not a task, bounds are natural numbers, the limit of
failures is positive):

- `TasksType`, `GivenUpAfterEnoughRuns`. `NotGivenUpEarly` speaks of runs that were started, the code of a count that stale records
  may lower. `CountInv`: no record, in the table or in a memory, counts more runs than were started, and the memory of a process not
  even those which one of its loops is about to count. `HoldInv` keeps two loops from counting the same run.
- `SuccessIsReal` states `SuccessIsOwn`, and assumes `OneLoop`: processes run one copy of the loop each. Without it the
  property is false, as section 5 says (`agent/AgentWorker.ts:674`); a second copy exists only after a lease lost and regained during an
  iteration. `OwnInv`: then the run that a loop looks up when it completes is the one it started, though stale rows, recoveries and other
  processes write the same records.
- `RetriesAreBounded` states `RetriesBounded`, with `OneLoop` too. `Limits(w, kind)` is what the memory of the process `w` says of the runs of
  a task: at most the quota of the crashes and the limit, fewer if the task may be started again (`Ready`), and no more than the quota and the count,
  but for the run the loop has in hand (`Uncounted`). `Quota` comes in two kinds. Whatever the database does, a crash costs the runs of a life
  (`LifeInv`). If it has not failed, the memory of the leader is the table (`SavedNext`), so the next life goes on from the
  counts of the last, and a crash costs only the run in hand (`RowsInv`). Both kinds are kept by the same steps (`LimitsNext`); only
  crash and start differ. That the invariant speaks of `leaders` is needed: a process that booted before and is elected later has old counts.

Only model-checked: liveness under fairness (`ApplicableIsApplied`, `LeaderWorks`, `GoodIsPublished`, `GrantedIsPaid`,
`PauseLifts`, `BootEnds`), since `ENABLED` is out of reach of the installed provers. The five findings are
counterexamples of TLC; there is nothing to prove about them.

## 7. Not modelled

Generated code (`hermes-generated/`), the clients (`src/frontend`, `src/sdk`, `src/cli`, the
extension), request parsing, read-only queries, prompts, task lists and text heuristics of the
agent, storage, logs and the receipts root of the virtual machine, the commands a model may run, and calls of GitHub and language models:
these are most of the lines of the repository, and they keep no state that another part
depends on. Of the modelled parts: `refreshFromDb` and `pruneOrphans` of the chain, `revertBlock` and
the eviction from the pool (reached only from a reorganisation that never happens), `refreshAllAccounts` and
`reconcileFaucet`, a crash between the rows of the run and of its count (`CountRun` is one step), legacy wallets (whose cooldowns and rows are read before awaits and written after them) and staking, the registry of peers, the bridge.

## 8. Plan

1. Proofs about `Failover`: what its findings leave true, such as the height order of the rows of one leader.
2. `Failover` from await to await: what two processes that both believe to lead do to the account rows.
3. `AccountRefresh`: `refreshAllAccounts` of the HTTP handlers racing a cycle, the genesis fallback.
4. `Node`: `Chain` and `BlockProduction` together, with peers' blocks that carry known transactions.

Runs stay small: two actors, one fault of each kind, at most a few million states.

## 9. Running

    tlc -config chain.cfg MCChain.tla
    tlc -config production.cfg MCBlockProduction.tla
    tlc -config workers.cfg MCWorkers.tla
    tlc -config authoring_verified.cfg MCAuthoring.tla
    tlc -config failover.cfg MCFailover.tla
    tlc -config publish.cfg MCPublishQueue.tla
    tlc -config tasks.cfg MCAgentTasks.tla
    tlc -config parts.cfg MCParts.tla
    tlapm IndexLemmas.tla
    tlapm ChainProofs.tla
    tlapm BlockProductionProofs.tla
    tlapm PublishQueueProofs.tla
    tlapm AgentTasksProofs.tla
    tlapm LeaderProofs.tla
    tlapm ReplicaProofs.tla
    tlapm ServerProofs.tla

Each run takes about three minutes or less; each proof module a few minutes from nothing.
