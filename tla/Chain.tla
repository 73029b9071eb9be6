------------------------------- MODULE Chain -------------------------------
(***************************************************************************)
(* The chain of one process (Chain.ts) with the ForkManager it consults:    *)
(* the blocks in memory, the rows of the blocks table, block arrival from   *)
(* the local producer or a peer, and restarts that reload the table.        *)
(***************************************************************************)
EXTENDS ForkManager

CONSTANTS
  Genesis,        \* the deterministic genesis block
  MinDelta,       \* least time between a block and its parent (2000 ms)
  MaxSkew,        \* how far ahead of the clock a block may be (30 000 ms)
  DbFaults,       \* TRUE when a query may fail; the code swallows the error
  MaxCopies,      \* how often one block may arrive: 1, or more when peers repeat it
  MaxClock,       \* bound: the last clock value
  MaxDeliveries,  \* bound: arrivals
  MaxRestarts     \* bound: restarts

ASSUME ChainAssumption ==
  /\ Genesis \in Block /\ parentOf[Genesis] = NoParent
  /\ {MinDelta, MaxSkew, MaxCopies, MaxClock, MaxDeliveries, MaxRestarts} \subseteq Nat
  /\ MinDelta > 0
  /\ DbFaults \in BOOLEAN

VARIABLES
  blocks,          \* Chain.blocks
  fm,              \* the ForkManager singleton
  orphanedBlocks,  \* Chain.orphanedBlocks, order and repetition left out
  rows,            \* the blocks table in height order
  unsaved,         \* appended in memory, INSERT still under way
  clock,           \* Date.now()
  bootLength,      \* history: length of `blocks` when the process started
  unloaded,        \* history: rows that start left out of `blocks`, its load failed
  accepted,        \* history: blocks addBlock answered true for since then
  arrivals,        \* history: how often each block arrived
  restarts         \* history: number of restarts

vars == <<blocks, fm, orphanedBlocks, rows, unsaved, clock, bootLength, unloaded,
          accepted, arrivals, restarts>>

\* Mutant: the height of the block is not compared with its parent's.
IsValidNoHeight(b, previous) ==
  /\ parentOf[b] = previous
  /\ timeOf[b] <= clock + MaxSkew
  /\ timeOf[b] - timeOf[previous] >= MinDelta

\* Block.isValid(previous); the hash is right because fromJSON recomputed it.
IsValid(b, previous) ==
  /\ parentOf[b] = previous
  /\ heightOf[b] = heightOf[previous] + 1
  /\ timeOf[b] <= clock + MaxSkew
  /\ timeOf[b] - timeOf[previous] >= MinDelta

\* The position of the parent of b on the chain (an index from 1; the code
\* counts from 0), 0 if it is not there.
FindCommonAncestor(b) ==
  SelectLastInSeq(blocks, LAMBDA x : x = parentOf[b])

\* Mutant: a new chain of the same length is taken too.
HandleReorgSameLength(b, ancestor) ==
  LET done ==
        /\ Len(blocks) - ancestor <= MaxReorgDepth
        /\ IsValid(b, blocks[ancestor])
        /\ ~(ancestor + 1 < Len(blocks))
  IN  [done |-> done,
       blocks |-> IF done THEN Append(SubSeq(blocks, 1, ancestor), b) ELSE blocks,
       orphaned |-> IF done THEN ToSet(SubSeq(blocks, ancestor + 1, Len(blocks))) ELSE {}]

(***************************************************************************)
(* handleReorg([b], ancestor): refused when the reorg is too deep, when b   *)
(* is not valid on the ancestor, and when the new chain would not be        *)
(* longer; otherwise the chain is cut back to the ancestor and b appended.  *)
(***************************************************************************)
HandleReorg(b, ancestor) ==
  LET done ==
        /\ Len(blocks) - ancestor <= MaxReorgDepth
        /\ IsValid(b, blocks[ancestor])
        /\ ~(ancestor + 1 <= Len(blocks))
  IN  [done |-> done,
       blocks |-> IF done THEN Append(SubSeq(blocks, 1, ancestor), b) ELSE blocks,
       orphaned |-> IF done THEN ToSet(SubSeq(blocks, ancestor + 1, Len(blocks))) ELSE {}]

(***************************************************************************)
(* The two branches of addBlock.  In both the answer comes back to the      *)
(* caller only after the INSERT, but memory has changed before it.          *)
(***************************************************************************)
AppendToHeadSaveFirst(b) ==  \* Mutant: the INSERT starts before the check.
  /\ parentOf[b] = Last(blocks)
  /\ unsaved' = unsaved \cup {b}
  /\ IF IsValid(b, Last(blocks))
     THEN blocks' = Append(blocks, b) /\ accepted' = accepted \cup {b}
     ELSE UNCHANGED <<blocks, accepted>>
  /\ UNCHANGED <<fm, orphanedBlocks>>

AppendToHead(b) ==
  /\ parentOf[b] = Last(blocks)
  /\ IF IsValid(b, Last(blocks))
     THEN /\ blocks' = Append(blocks, b)
          /\ unsaved' = unsaved \cup {b}
          /\ accepted' = accepted \cup {b}
     ELSE UNCHANGED <<blocks, unsaved, accepted>>
  /\ UNCHANGED <<fm, orphanedBlocks>>

RouteToForks(b) ==
  /\ parentOf[b] # Last(blocks)
  /\ LET fork == FmAddBlock(fm, b)
         ancestor == FindCommonAncestor(b)
     IN  /\ fm' = fork.fm
         /\ IF fork.reorg /\ ancestor > 0
            THEN LET reorg == HandleReorg(b, ancestor)
                 IN  /\ blocks' = reorg.blocks
                     /\ unsaved' = IF reorg.done THEN unsaved \cup {b} ELSE unsaved
                     /\ orphanedBlocks' = orphanedBlocks \cup reorg.orphaned
                     /\ accepted' = accepted \cup {b}
            ELSE /\ orphanedBlocks' = orphanedBlocks \cup ToSet(fork.orphaned)
                 /\ accepted' = IF fork.orphaned = << >> /\ fork.added
                                THEN accepted \cup {b} ELSE accepted
                 /\ UNCHANGED <<blocks, unsaved>>

Arrive(b) ==
  /\ SumFunction(arrivals) < MaxDeliveries
  /\ arrivals[b] < MaxCopies
  /\ arrivals' = [arrivals EXCEPT ![b] = @ + 1]
  /\ AppendToHead(b) \/ RouteToForks(b)
  /\ UNCHANGED <<rows, clock, bootLength, unloaded, restarts>>

(***************************************************************************)
(* The INSERT ... ON CONFLICT (height) of one block.  Concurrent INSERTs    *)
(* run on different pool connections and finish in any order.  A failed one *)
(* is logged and forgotten.                                                 *)
(***************************************************************************)
UpsertUnordered(table, b) ==  \* Mutant: the table is read without ORDER BY.
  IF \E i \in DOMAIN table : heightOf[table[i]] = heightOf[b]
  THEN [i \in DOMAIN table |-> IF heightOf[table[i]] = heightOf[b] THEN b ELSE table[i]]
  ELSE Append(table, b)

Upsert(table, b) ==
  LET lower == Max({0} \cup {i \in DOMAIN table : heightOf[table[i]] < heightOf[b]})
  IN  IF lower < Len(table) /\ heightOf[table[lower + 1]] = heightOf[b]
      THEN [table EXCEPT ![lower + 1] = b]
      ELSE SubSeq(table, 1, lower) \o <<b>> \o SubSeq(table, lower + 1, Len(table))

Save(b) ==
  /\ b \in unsaved
  /\ unsaved' = unsaved \ {b}
  /\ rows' = Upsert(rows, b)
  /\ UNCHANGED <<blocks, fm, orphanedBlocks, clock, bootLength, unloaded, accepted,
                 arrivals, restarts>>

SaveFails(b) ==
  /\ DbFaults
  /\ b \in unsaved
  /\ unsaved' = unsaved \ {b}
  /\ UNCHANGED <<blocks, fm, orphanedBlocks, rows, clock, bootLength, unloaded, accepted,
                 arrivals, restarts>>

(***************************************************************************)
(* The process stops at any point and starts again: initialize reloads the  *)
(* table, or creates the genesis block when the table is empty.  A failing  *)
(* query leaves the process with the genesis block alone and the table as   *)
(* it was.                                                                  *)
(***************************************************************************)
Boot(table) ==
  {IF table = << >> THEN <<Genesis>> ELSE table} \cup (IF DbFaults THEN {<<Genesis>>} ELSE {})

GenesisSaved(table) ==
  IF table = << >> THEN {<<Genesis>>} \cup (IF DbFaults THEN {<< >>} ELSE {}) ELSE {table}

Restart ==
  /\ restarts < MaxRestarts
  /\ restarts' = restarts + 1
  /\ blocks' \in Boot(rows)
  /\ rows' \in GenesisSaved(rows)
  /\ bootLength' = Len(blocks')
  /\ unloaded' = ToSet(rows) \ ToSet(blocks')
  /\ fm' = EmptyForks
  /\ orphanedBlocks' = {} /\ unsaved' = {} /\ accepted' = {}
  /\ UNCHANGED <<clock, arrivals>>

Tick ==
  /\ clock < MaxClock
  /\ clock' = clock + 1
  /\ UNCHANGED <<blocks, fm, orphanedBlocks, rows, unsaved, bootLength, unloaded, accepted,
                 arrivals, restarts>>

Init ==
  /\ blocks = <<Genesis>>
  /\ rows \in GenesisSaved(<< >>)
  /\ fm = EmptyForks
  /\ orphanedBlocks = {} /\ unsaved = {} /\ unloaded = {} /\ accepted = {}
  /\ arrivals = [b \in Block |-> 0]
  /\ clock = 0 /\ bootLength = 1 /\ restarts = 0

Next ==
  \/ \E b \in Block : Arrive(b) \/ Save(b) \/ SaveFails(b)
  \/ Restart
  \/ Tick

Spec == Init /\ [][Next]_vars

-----------------------------------------------------------------------------
(* Type correctness of the whole state. *)
TypeOK ==
  /\ blocks \in Seq(Block) /\ blocks # << >>
  /\ rows \in Seq(Block)
  /\ fm \in [main : Seq(Block), forks : Seq(Seq(Block))]
  /\ orphanedBlocks \subseteq Block /\ unsaved \subseteq Block
  /\ unloaded \subseteq Block /\ accepted \subseteq Block
  /\ arrivals \in [Block -> Nat]
  /\ clock \in Nat /\ bootLength \in Nat /\ restarts \in Nat

(* Every block added since the process started is linked to the block before
   it by hash, by height and by the least block interval, whatever arrives in
   whatever order and whatever the database lost (addBlock, isValid). *)
LinkedSinceBoot ==
  \A i \in DOMAIN blocks : i > bootLength =>
    /\ parentOf[blocks[i]] = blocks[i - 1]
    /\ heightOf[blocks[i]] = heightOf[blocks[i - 1]] + 1
    /\ timeOf[blocks[i]] >= timeOf[blocks[i - 1]] + MinDelta

(* Heights grow strictly along the chain, also when a restart reloaded a
   table with lost rows, so getBlockByHeight has one answer. *)
HeightsIncrease ==
  \A i, j \in DOMAIN blocks : i < j => heightOf[blocks[i]] < heightOf[blocks[j]]

(* The table never holds a block that the chain in memory does not, but for
   rows that a failed load left out (the catch clause of initialize): a
   restart cannot bring back a block the process did not have. *)
RowsFromChain == ToSet(rows) \ ToSet(blocks) \subseteq unloaded

(* The table is append-only (docs/db/table-blocks.md:13) while the process
   has all of it: the ON CONFLICT branch of the INSERT replaces a block of
   the table only after a start whose load failed. *)
SavedStays == [][unloaded = {} => ToSet(rows) \subseteq ToSet(rows')]_vars

(* A block addBlock answered true for is known to the process: it is on the
   chain, or the ForkManager tracks it (the comment on the side-fork answer
   in addBlock).  Stated for as long as no block has arrived twice: ExtendFork
   drops a fork whose tip is repeated. *)
AcceptedIsTracked ==
  (\A b \in Block : arrivals[b] <= 1) => \A b \in accepted :
    \/ Contains(blocks, b)
    \/ Contains(fm.main, b)
    \/ \E i \in DOMAIN fm.forks : Contains(fm.forks[i], b)

(* Within one run of the process the chain only grows at its end: fork
   routing and handleReorg never replace a block of it. *)
AppendOnly == [][restarts' = restarts => IsPrefix(blocks, blocks')]_vars

(* The ForkManager's main chain never gets shorter. *)
MainNeverShortens == [][restarts' = restarts => Len(fm'.main) >= Len(fm.main)]_vars

=============================================================================
