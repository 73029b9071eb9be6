---------------------------- MODULE ForkManager ----------------------------
(***************************************************************************)
(* The fork-choice component (class ForkManager of Consensus.ts) as         *)
(* operators on its state                                                   *)
(*   fm.main   the array mainChain,                                         *)
(*   fm.forks  the Map `chains`, as the sequence of its values in insertion *)
(*             order.  The key of an entry is always the hash of the last   *)
(*             block of its value.                                          *)
(* A block is an identity; its header fields are the constant functions     *)
(* below, and "parent hash = hash of b" is "parentOf = b".                  *)
(***************************************************************************)
EXTENDS Integers, Sequences, SequencesExt

CONSTANTS
  Block,           \* every block that some node of the network may build
  NoParent,        \* GENESIS_PARENT_HASH, the hash of no block
  parentOf,        \* header.parentHash
  heightOf,        \* header.height
  timeOf,          \* header.timestamp
  MaxReorgDepth    \* CONFIG.MAX_REORG_DEPTH

ASSUME HeaderAssumption ==
  /\ NoParent \notin Block
  /\ parentOf \in [Block -> Block \cup {NoParent}]
  /\ heightOf \in [Block -> Nat]
  /\ timeOf \in [Block -> Nat]
  /\ MaxReorgDepth \in Nat

EmptyForks == [main |-> << >>, forks |-> << >>]

(***************************************************************************)
(* Map.set under the key "hash of the last block of c": an existing key     *)
(* keeps its place in the iteration order, a new one goes last.             *)
(***************************************************************************)
SetFork(forks, c) ==
  IF \E i \in DOMAIN forks : Last(forks[i]) = Last(c)
  THEN [i \in DOMAIN forks |-> IF Last(forks[i]) = Last(c) THEN c ELSE forks[i]]
  ELSE Append(forks, c)

\* The first entry of the Map that holds the parent of b anywhere in its
\* chain, 0 if none does.
ForkOfParent(forks, b) ==
  SelectInSeq(forks, LAMBDA c : Contains(c, parentOf[b]))

(***************************************************************************)
(* push, set under the new tip, delete the old key: when b already was the  *)
(* tip, the key deleted is the one just set, and the fork is gone.          *)
(***************************************************************************)
ExtendFork(forks, i, b) ==
  IF Last(forks[i]) = b
  THEN RemoveAt(forks, i)
  ELSE RemoveAt(SetFork(forks, Append(forks[i], b)), i)

\* Longest chain; at equal length the earlier tip.
ShouldSwitch(main, c) ==
  \/ Len(c) > Len(main)
  \/ Len(c) = Len(main) /\ timeOf[Last(c)] < timeOf[Last(main)]

\* commonHeight, an index from 0: also 0 when not even the first blocks agree.
CommonHeight(main, c) ==
  LET agree == {n \in 1 .. Len(main) : IsPrefix(SubSeq(main, 1, n), c)}
  IN  IF agree = {} THEN 0 ELSE (CHOOSE n \in agree : \A m \in agree : m <= n) - 1

Kept(f)   == [fm |-> f, added |-> TRUE, reorg |-> FALSE, orphaned |-> << >>]
Refused(f) == [fm |-> f, added |-> FALSE, reorg |-> FALSE, orphaned |-> << >>]

SwitchToForkDropMain(f, c) ==  \* Mutant: the old main chain is not kept as a fork.
  LET common == CommonHeight(f.main, c)
  IN  IF Len(f.main) - common - 1 > MaxReorgDepth
      THEN Refused(f)
      ELSE [fm       |-> [main |-> c, forks |-> RemoveFirst(f.forks, c)],
            added    |-> TRUE,
            reorg    |-> TRUE,
            orphaned |-> SubSeq(f.main, common + 2, Len(f.main))]

SwitchToForkTail(f, c) ==  \* Mutant: only the blocks after the common one are taken.
  LET common == CommonHeight(f.main, c)
      tail   == SubSeq(f.main, common + 2, Len(f.main))
      kept   == IF tail # << >> THEN SetFork(f.forks, f.main) ELSE f.forks
  IN  IF Len(f.main) - common - 1 > MaxReorgDepth
      THEN Refused(f)
      ELSE [fm       |-> [main  |-> SubSeq(c, common + 2, Len(c)),
                          forks |-> RemoveFirst(kept, c)],
            added    |-> TRUE,
            reorg    |-> TRUE,
            orphaned |-> tail]

SwitchToFork(f, c) ==
  LET common == CommonHeight(f.main, c)
      tail   == SubSeq(f.main, common + 2, Len(f.main))
      kept   == IF tail # << >> THEN SetFork(f.forks, f.main) ELSE f.forks
  IN  IF Len(f.main) - common - 1 > MaxReorgDepth
      THEN Refused(f)
      ELSE [fm       |-> [main |-> c, forks |-> RemoveFirst(kept, c)],
            added    |-> TRUE,
            reorg    |-> TRUE,
            orphaned |-> tail]

(***************************************************************************)
(* ForkManager.addBlock.  An empty main chain takes any block; otherwise a  *)
(* block extends the main chain, opens a fork below its tip, extends the    *)
(* fork that holds its parent, or is reported orphaned.                     *)
(***************************************************************************)
FmAddBlock(f, b) ==
  LET i == ForkOfParent(f.forks, b)
      c == Append(f.forks[i], b)
      g == [f EXCEPT !.forks = ExtendFork(@, i, b)]
  IN  CASE f.main = << >> \/ parentOf[b] = Last(f.main) ->
             Kept([f EXCEPT !.main = Append(@, b)])
        [] f.main # << >> /\ parentOf[b] # Last(f.main) /\ Contains(f.main, parentOf[b]) ->
             LET p == SelectInSeq(f.main, LAMBDA x : x = parentOf[b])
             IN  Kept([f EXCEPT !.forks = SetFork(@, Append(SubSeq(f.main, 1, p), b))])
        [] OTHER ->
             IF i = 0
             THEN [Refused(f) EXCEPT !.orphaned = <<b>>]
             ELSE IF ShouldSwitch(f.main, c) THEN SwitchToFork(g, c) ELSE Kept(g)
=============================================================================
