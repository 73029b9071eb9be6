---------------------------- MODULE ChainProofs ----------------------------
(***************************************************************************)
(* Theorems about Chain.  The inductive invariant adds to the properties    *)
(* that only blocks of the chain are waiting to be saved, that the table is *)
(* in height order too, and that the process never forgets what it loaded.  *)
(***************************************************************************)
EXTENDS Chain, IndexLemmas

ForkState == [main : Seq(Block), forks : Seq(Seq(Block))]

\* Map.set keeps the Map a sequence of chains.
LEMMA SetForkType ==
  ASSUME NEW forks \in Seq(Seq(Block)), NEW c \in Seq(Block)
  PROVE  SetFork(forks, c) \in Seq(Seq(Block))
<1> DEFINE g == [i \in DOMAIN forks |-> IF Last(forks[i]) = Last(c) THEN c ELSE forks[i]]
<1>1. DOMAIN forks = 1 .. Len(forks) /\ Len(forks) \in Nat
  BY LenProperties
<1>2. g \in [1 .. Len(forks) -> Seq(Block)]
  BY <1>1, ElementOfSeq
<1>3. g \in Seq(Seq(Block))
  BY <1>1, <1>2, SeqDef
<1>4. Append(forks, c) \in Seq(Seq(Block))
  BY AppendProperties
<1> QED
  BY <1>3, <1>4 DEF SetFork

\* The fork found for a parent is an entry of the Map.
LEMMA ForkOfParentType ==
  ASSUME NEW forks \in Seq(Seq(Block)), NEW b
  PROVE  ForkOfParent(forks, b) \in 0 .. Len(forks)
<1> DEFINE I == {i \in 1 .. Len(forks) : Contains(forks[i], parentOf[b])}
<1>1. Len(forks) \in Nat /\ I \subseteq Nat
  BY LenProperties
<1>2. CASE I = {}
  BY <1>1, <1>2 DEF ForkOfParent, SelectInSeq
<1>3. CASE I # {}
  <2>1. Min(I) \in I
    <3> HIDE DEF I
    <3> QED
      BY <1>1, <1>3, MinIndex
  <2> QED
    BY <1>1, <1>3, <2>1 DEF ForkOfParent, SelectInSeq
<1> QED
  BY <1>2, <1>3

\* Deleting a chain from the Map leaves a Map of chains.
LEMMA RemoveFirstType ==
  ASSUME NEW forks \in Seq(Seq(Block)), NEW c
  PROVE  RemoveFirst(forks, c) \in Seq(Seq(Block))
<1> DEFINE I == {i \in 1 .. Len(forks) : forks[i] = c}
<1>1. CASE I = {}
  BY <1>1 DEF RemoveFirst
<1>2. CASE I # {}
  <2>1. Min(I) \in I
    <3>1. I \subseteq Nat
      BY LenProperties
    <3> HIDE DEF I
    <3> QED
      BY <1>2, <3>1, MinIndex
  <2>2. SelectInSeq(forks, LAMBDA v : v = c) = Min(I)
    BY <1>2 DEF SelectInSeq
  <2>3. RemoveAt(forks, Min(I)) \in Seq(Seq(Block))
    BY <2>1, RemoveAtType
  <2> QED
    BY <1>2, <2>2, <2>3 DEF RemoveFirst
<1> QED
  BY <1>1, <1>2

\* Extending a fork leaves a Map of chains.
LEMMA ExtendForkType ==
  ASSUME NEW forks \in Seq(Seq(Block)), NEW i \in 1 .. Len(forks), NEW b \in Block
  PROVE  ExtendFork(forks, i, b) \in Seq(Seq(Block))
<1>1. RemoveAt(forks, i) \in Seq(Seq(Block))
  BY RemoveAtType
<1>2. forks[i] \in Seq(Block) /\ Append(forks[i], b) \in Seq(Block)
  BY ElementOfSeq, AppendProperties
<1> DEFINE s == SetFork(forks, Append(forks[i], b))
<1>3. s \in Seq(Seq(Block)) /\ i \in 1 .. Len(s)
  <2>1. s \in Seq(Seq(Block))
    BY <1>2, SetForkType
  <2>2. CASE \E k \in DOMAIN forks : Last(forks[k]) = Last(Append(forks[i], b))
    <3>1. DOMAIN s = DOMAIN forks
      BY <2>2 DEF SetFork
    <3> HIDE DEF s
    <3> QED
      BY <2>1, <3>1, LenProperties
  <2>3. CASE ~ \E k \in DOMAIN forks : Last(forks[k]) = Last(Append(forks[i], b))
    <3>1. s = Append(forks, Append(forks[i], b))
      BY <2>3 DEF SetFork
    <3>2. Len(s) = Len(forks) + 1 /\ Len(forks) \in Nat
      BY <1>2, <3>1, AppendProperties, LenProperties
    <3> HIDE DEF s
    <3> QED
      BY <2>1, <3>2
  <2> QED
    BY <2>2, <2>3
<1>4. RemoveAt(s, i) \in Seq(Seq(Block))
  <2> HIDE DEF s
  <2> QED
    BY <1>3, RemoveAtType
<1> QED
  BY <1>1, <1>4 DEF ExtendFork

\* Switching the main chain keeps the state typed.
LEMMA SwitchToForkType ==
  ASSUME NEW f \in ForkState, NEW c \in Seq(Block)
  PROVE  /\ SwitchToFork(f, c).fm \in ForkState
         /\ SwitchToFork(f, c).orphaned \in Seq(Block)
<1> DEFINE common == CommonHeight(f.main, c)
           tail == SubSeq(f.main, common + 2, Len(f.main))
           kept == IF tail # << >> THEN SetFork(f.forks, f.main) ELSE f.forks
<1>1. f.main \in Seq(Block) /\ f.forks \in Seq(Seq(Block)) /\ Len(f.main) \in Nat
  BY LenProperties DEF ForkState
<1>2. common \in Nat
  <2> DEFINE agree == {n \in 1 .. Len(f.main) : IsPrefix(SubSeq(f.main, 1, n), c)}
  <2>1. CASE agree = {}
    BY <2>1 DEF CommonHeight
  <2>2. CASE agree # {}
    <3> DEFINE top == CHOOSE n \in agree : \A m \in agree : m <= n
    <3>1. \E n \in agree : \A m \in agree : n >= m
      <4>1. agree \subseteq 0 .. Len(f.main)
        BY <1>1
      <4> HIDE DEF agree
      <4> QED
        BY <1>1, <2>2, <4>1, GreatestIndex
    <3>2. top \in agree
      BY <3>1
    <3>3. top - 1 \in Nat
      BY <3>2, <1>1
    <3> QED
      BY <2>2, <3>3 DEF CommonHeight
  <2> QED
    BY <2>1, <2>2
<1>3. tail \in Seq(Block)
  <2> HIDE DEF common
  <2>1. \A k \in common + 2 .. Len(f.main) : f.main[k] \in Block
    BY <1>1, <1>2, ElementOfSeq
  <2> QED
    BY <1>1, <1>2, <2>1, SubSeqProperties
<1>4. RemoveFirst(kept, c) \in Seq(Seq(Block))
  <2>1. kept \in Seq(Seq(Block))
    <3> HIDE DEF tail
    <3> QED
      BY <1>1, SetForkType
  <2> HIDE DEF kept
  <2> QED
    BY <2>1, RemoveFirstType
<1>5. CASE Len(f.main) - common - 1 > MaxReorgDepth
  BY <1>5, EmptySeq DEF SwitchToFork, Refused
<1>6. CASE ~(Len(f.main) - common - 1 > MaxReorgDepth)
  <2>1. SwitchToFork(f, c) = [fm |-> [main |-> c, forks |-> RemoveFirst(kept, c)],
                              added |-> TRUE, reorg |-> TRUE, orphaned |-> tail]
    BY <1>6 DEF SwitchToFork
  <2> HIDE DEF kept, tail
  <2> QED
    BY <1>3, <1>4, <2>1 DEF ForkState
<1> QED
  BY <1>5, <1>6

\* Whatever the ForkManager answers, its state stays typed and the blocks it
\* reports orphaned are blocks.
LEMMA FmAddBlockType ==
  ASSUME NEW f \in ForkState, NEW b \in Block
  PROVE  /\ FmAddBlock(f, b).fm \in ForkState
         /\ FmAddBlock(f, b).orphaned \in Seq(Block)
<1> DEFINE i == ForkOfParent(f.forks, b)
           c == Append(f.forks[i], b)
           g == [f EXCEPT !.forks = ExtendFork(@, i, b)]
<1>1. f.main \in Seq(Block) /\ f.forks \in Seq(Seq(Block))
  BY DEF ForkState
<1>2. CASE f.main = << >> \/ parentOf[b] = Last(f.main)
  <2>1. Append(f.main, b) \in Seq(Block)
    BY <1>1, AppendProperties
  <2>2. FmAddBlock(f, b) = Kept([f EXCEPT !.main = Append(@, b)])
    BY <1>2 DEF FmAddBlock
  <2> QED
    BY <2>1, <2>2 DEF Kept, ForkState
<1>3. CASE /\ f.main # << >> /\ parentOf[b] # Last(f.main)
           /\ Contains(f.main, parentOf[b])
  <2> DEFINE p == SelectInSeq(f.main, LAMBDA x : x = parentOf[b])
             I == {k \in 1 .. Len(f.main) : f.main[k] = parentOf[b]}
  <2>1. p \in 1 .. Len(f.main)
    <3>1. I # {} /\ I \subseteq Nat
      BY <1>1, <1>3, LenProperties DEF Contains
    <3>2. Min(I) \in I
      <4> HIDE DEF I
      <4> QED
        BY <3>1, MinIndex
    <3> QED
      BY <3>1, <3>2 DEF SelectInSeq
  <2>2. SubSeq(f.main, 1, p) \in Seq(Block)
    <3> HIDE DEF p
    <3>1. \A k \in 1 .. p : f.main[k] \in Block
      BY <1>1, <2>1, ElementOfSeq, LenProperties
    <3>2. p \in Int
      BY <2>1
    <3> QED
      BY <3>1, <3>2, SubSeqProperties
  <2>3. Append(SubSeq(f.main, 1, p), b) \in Seq(Block)
    <3> HIDE DEF p
    <3> QED
      BY <2>2, AppendProperties
  <2>4. SetFork(f.forks, Append(SubSeq(f.main, 1, p), b)) \in Seq(Seq(Block))
    <3> HIDE DEF p
    <3> QED
      BY <1>1, <2>3, SetForkType
  <2>5. FmAddBlock(f, b)
          = Kept([f EXCEPT !.forks = SetFork(@, Append(SubSeq(f.main, 1, p), b))])
    BY <1>3 DEF FmAddBlock
  <2> HIDE DEF p
  <2> QED
    BY <2>4, <2>5, EmptySeq DEF Kept, ForkState
<1>4. CASE /\ f.main # << >> /\ parentOf[b] # Last(f.main)
           /\ ~Contains(f.main, parentOf[b])
  <2>1. FmAddBlock(f, b) = IF i = 0
             THEN [Refused(f) EXCEPT !.orphaned = <<b>>]
             ELSE IF ShouldSwitch(f.main, c) THEN SwitchToFork(g, c) ELSE Kept(g)
    BY <1>4 DEF FmAddBlock
  <2>2. CASE i = 0
    <3>1. <<b>> \in Seq(Block)
      OBVIOUS
    <3> QED
      BY <2>1, <2>2, <3>1 DEF Refused
  <2>3. CASE i # 0
    <3>1. i \in 1 .. Len(f.forks)
      BY <1>1, <2>3, ForkOfParentType, LenProperties
    <3>2. c \in Seq(Block) /\ ExtendFork(f.forks, i, b) \in Seq(Seq(Block))
      <4> HIDE DEF i
      <4> QED
        BY <1>1, <3>1, ElementOfSeq, AppendProperties, ExtendForkType
    <3>3. g \in ForkState
      <4> HIDE DEF i
      <4> QED
        BY <3>2 DEF ForkState
    <3> HIDE DEF i, c, g
    <3>4. /\ SwitchToFork(g, c).fm \in ForkState
          /\ SwitchToFork(g, c).orphaned \in Seq(Block)
      BY <3>2, <3>3, SwitchToForkType
    <3>5. Kept(g).fm \in ForkState /\ Kept(g).orphaned \in Seq(Block)
      BY <3>3, EmptySeq DEF Kept
    <3> QED
      BY <2>1, <2>3, <3>4, <3>5
  <2> QED
    BY <2>2, <2>3
<1> QED
  BY <1>2, <1>3, <1>4

-----------------------------------------------------------------------------
\* Heights grow strictly along s.
InHeightOrder(s) ==
  \A i, j \in DOMAIN s : i < j => heightOf[s[i]] < heightOf[s[j]]

\* The inductive invariant.
ChainInv ==
  /\ TypeOK
  /\ bootLength \in 1 .. Len(blocks)
  /\ unsaved \subseteq ToSet(blocks)
  /\ RowsFromChain
  /\ LinkedSinceBoot
  /\ HeightsIncrease
  /\ InHeightOrder(rows)

\* The search from the end of the chain answers an index of a parent that is
\* not the head, so the ancestor is below the head.
LEMMA AncestorBelowHead ==
  ASSUME NEW b \in Block, blocks \in Seq(Block), parentOf[b] # Last(blocks),
         FindCommonAncestor(b) > 0
  PROVE  FindCommonAncestor(b) \in 1 .. Len(blocks) - 1
<1> DEFINE I == {i \in 1 .. Len(blocks) : blocks[i] = parentOf[b]}
<1>1. Len(blocks) \in Nat /\ I \subseteq 0 .. Len(blocks)
  BY LenProperties
<1>2. I # {} /\ FindCommonAncestor(b) = Max(I)
  BY DEF FindCommonAncestor, SelectLastInSeq
<1>3. Max(I) \in I
  <2> HIDE DEF I
  <2> QED
    BY <1>1, <1>2, MaxIndex
<1>4. Max(I) \in 1 .. Len(blocks) /\ blocks[Max(I)] = parentOf[b]
  BY <1>3
<1>5. Max(I) # Len(blocks)
  BY <1>4 DEF Last
<1> HIDE DEF I
<1> QED
  BY <1>1, <1>2, <1>4, <1>5

\* Hence handleReorg always finds the new chain not longer and does nothing.
LEMMA ReorgNeverDone ==
  ASSUME NEW b \in Block, blocks \in Seq(Block), parentOf[b] # Last(blocks),
         FindCommonAncestor(b) > 0
  PROVE  HandleReorg(b, FindCommonAncestor(b))
           = [done |-> FALSE, blocks |-> blocks, orphaned |-> {}]
<1>1. FindCommonAncestor(b) + 1 <= Len(blocks)
  BY AncestorBelowHead, LenProperties
<1> QED
  BY <1>1 DEF HandleReorg

\* One arrival appends a valid block to the head or leaves the chain alone.
LEMMA ArriveEffect ==
  ASSUME NEW b \in Block, blocks \in Seq(Block), Arrive(b)
  PROVE  \/ /\ parentOf[b] = Last(blocks) /\ IsValid(b, Last(blocks))
            /\ blocks' = Append(blocks, b)
            /\ unsaved' = unsaved \cup {b}
         \/ UNCHANGED <<blocks, unsaved>>
<1>1. CASE AppendToHead(b)
  BY <1>1 DEF AppendToHead
<1>2. CASE RouteToForks(b)
  <2>1. CASE FmAddBlock(fm, b).reorg /\ FindCommonAncestor(b) > 0
    BY <1>2, <2>1, ReorgNeverDone DEF RouteToForks
  <2>2. CASE ~(FmAddBlock(fm, b).reorg /\ FindCommonAncestor(b) > 0)
    BY <1>2, <2>2 DEF RouteToForks
  <2> QED
    BY <2>1, <2>2
<1> QED
  BY <1>1, <1>2 DEF Arrive

\* An arrival keeps the state typed.
LEMMA ArriveType ==
  ASSUME TypeOK, NEW b \in Block, Arrive(b)
  PROVE  TypeOK'
<1>1. blocks' \in Seq(Block) /\ blocks' # << >> /\ unsaved' \subseteq Block
  <2>1. blocks \in Seq(Block) /\ blocks # << >> /\ unsaved \subseteq Block
    BY DEF TypeOK
  <2>2. Append(blocks, b) \in Seq(Block) /\ Append(blocks, b) # << >>
    BY <2>1, AppendProperties
  <2> QED
    BY <2>1, <2>2, ArriveEffect
<1>2. /\ fm' \in ForkState
      /\ orphanedBlocks' \subseteq Block /\ accepted' \subseteq Block
  <2>1. CASE AppendToHead(b)
    BY <2>1 DEF TypeOK, AppendToHead, ForkState
  <2>2. CASE RouteToForks(b)
    <3>1. fm \in ForkState /\ blocks \in Seq(Block)
      BY DEF TypeOK, ForkState
    <3>2. /\ FmAddBlock(fm, b).fm \in ForkState
          /\ ToSet(FmAddBlock(fm, b).orphaned) \subseteq Block
      <4>1. /\ FmAddBlock(fm, b).fm \in ForkState
            /\ FmAddBlock(fm, b).orphaned \in Seq(Block)
        BY <3>1, FmAddBlockType
      <4>2. \A s \in Seq(Block) : ToSet(s) \subseteq Block
        BY LenProperties DEF ToSet
      <4> QED
        BY <4>1, <4>2
    <3>3. fm' = FmAddBlock(fm, b).fm
      BY <2>2 DEF RouteToForks
    <3>4. CASE FmAddBlock(fm, b).reorg /\ FindCommonAncestor(b) > 0
      <4>1. HandleReorg(b, FindCommonAncestor(b)).orphaned = {}
        BY <2>2, <3>1, <3>4, ReorgNeverDone DEF RouteToForks
      <4>2. /\ orphanedBlocks' = orphanedBlocks
                 \cup HandleReorg(b, FindCommonAncestor(b)).orphaned
            /\ accepted' = accepted \cup {b}
        BY <2>2, <3>4 DEF RouteToForks
      <4> QED
        BY <3>2, <3>3, <4>1, <4>2 DEF TypeOK
    <3>5. CASE ~(FmAddBlock(fm, b).reorg /\ FindCommonAncestor(b) > 0)
      <4>1. /\ orphanedBlocks' = orphanedBlocks \cup ToSet(FmAddBlock(fm, b).orphaned)
            /\ accepted' = accepted \cup {b} \/ accepted' = accepted
        BY <2>2, <3>5 DEF RouteToForks
      <4> QED
        BY <3>2, <3>3, <4>1 DEF TypeOK
    <3> QED
      BY <3>4, <3>5
  <2> QED
    BY <2>1, <2>2 DEF Arrive
<1>3. /\ arrivals' \in [Block -> Nat] /\ rows' = rows
      /\ UNCHANGED <<clock, bootLength, unloaded, restarts>>
  BY DEF Arrive, TypeOK
<1> QED
  BY <1>1, <1>2, <1>3 DEF TypeOK, ForkState

\* The upsert keeps the table in height order, adds only the block saved, and
\* replaces no row but one of the height of that block.
LEMMA UpsertProperties ==
  ASSUME NEW table \in Seq(Block), InHeightOrder(table), NEW b \in Block
  PROVE  /\ Upsert(table, b) \in Seq(Block)
         /\ InHeightOrder(Upsert(table, b))
         /\ ToSet(Upsert(table, b)) \subseteq ToSet(table) \cup {b}
         /\ b \in ToSet(Upsert(table, b))
         /\ \A i \in DOMAIN table : \/ table[i] \in ToSet(Upsert(table, b))
                                   \/ heightOf[table[i]] = heightOf[b]
<1> DEFINE L == {0} \cup {i \in DOMAIN table : heightOf[table[i]] < heightOf[b]}
           lower == Max(L)
           n == Len(table)
<1>1. /\ n \in Nat /\ DOMAIN table = 1 .. n
      /\ \A i \in 1 .. n : table[i] \in Block /\ heightOf[table[i]] \in Nat
      /\ heightOf[b] \in Nat
  BY LenProperties, ElementOfSeq, HeaderAssumption
<1>2. lower \in L /\ \A k \in L : lower >= k
  <2>1. L \subseteq 0 .. n /\ L # {}
    BY <1>1
  <2> HIDE DEF L, n
  <2> QED
    BY <1>1, <2>1, MaxIndex
<1>3. lower \in 0 .. n
  BY <1>1, <1>2
<1>4. \A i \in 1 .. n : i <= lower => heightOf[table[i]] < heightOf[b]
  <2> SUFFICES ASSUME NEW i \in 1 .. n, i <= lower
               PROVE  heightOf[table[i]] < heightOf[b]
    OBVIOUS
  <2>1. lower \in 1 .. n /\ heightOf[table[lower]] < heightOf[b]
    BY <1>1, <1>2, <1>3
  <2>2. CASE i = lower
    BY <2>1, <2>2
  <2>3. CASE i < lower
    <3> HIDE DEF lower
    <3>1. heightOf[table[i]] < heightOf[table[lower]]
      BY <1>1, <2>1, <2>3 DEF InHeightOrder
    <3> QED
      BY <1>1, <2>1, <3>1
  <2> HIDE DEF lower
  <2> QED
    BY <1>1, <1>3, <2>2, <2>3
<1>5. \A i \in 1 .. n : i > lower => heightOf[table[i]] >= heightOf[b]
  <2> SUFFICES ASSUME NEW i \in 1 .. n, i > lower, heightOf[table[i]] < heightOf[b]
               PROVE  FALSE
    BY <1>1
  <2>1. i \in L
    BY <1>1
  <2> HIDE DEF lower, L
  <2> QED
    BY <1>1, <1>2, <1>3, <2>1
<1> HIDE DEF lower, L
<1>6. CASE lower < n /\ heightOf[table[lower + 1]] = heightOf[b]
  <2> DEFINE u == [table EXCEPT ![lower + 1] = b]
  <2>1. Upsert(table, b) = u
    BY <1>6 DEF Upsert, lower, L
  <2>2. /\ u \in Seq(Block) /\ DOMAIN u = 1 .. n
        /\ \A i \in 1 .. n : u[i] = IF i = lower + 1 THEN b ELSE table[i]
    BY <1>1, <1>3, <1>6, ExceptSeq, LenProperties
  <2>3. \A i \in 1 .. n : heightOf[u[i]] = heightOf[table[i]]
    BY <1>6, <2>2
  <2> HIDE DEF u
  <2>4. InHeightOrder(u)
    BY <1>1, <2>2, <2>3 DEF InHeightOrder
  <2>5. ToSet(u) \subseteq ToSet(table) \cup {b}
    BY <1>1, <2>2 DEF ToSet
  <2>6. b \in ToSet(u)
    <3>1. lower + 1 \in 1 .. n
      BY <1>1, <1>3, <1>6
    <3> QED
      BY <2>2, <3>1 DEF ToSet
  <2>7. \A i \in 1 .. n : table[i] \in ToSet(u) \/ heightOf[table[i]] = heightOf[b]
    BY <1>6, <2>2 DEF ToSet
  <2> QED
    BY <1>1, <2>1, <2>2, <2>4, <2>5, <2>6, <2>7
<1>7. CASE ~(lower < n /\ heightOf[table[lower + 1]] = heightOf[b])
  <2> DEFINE left == SubSeq(table, 1, lower)
             right == SubSeq(table, lower + 1, n)
             u == (left \o <<b>>) \o right
  <2>1. Upsert(table, b) = u
    BY <1>7 DEF Upsert, lower, L
  <2>2. /\ left \in Seq(Block) /\ Len(left) = lower
        /\ \A i \in 1 .. lower : left[i] = table[i]
    BY <1>1, <1>3, SubSeqProperties
  <2>3. /\ right \in Seq(Block) /\ Len(right) = n - lower
        /\ \A i \in 1 .. n - lower : right[i] = table[lower + i]
    <3>1. lower + 1 \in Int /\ n \in Int /\ \A i \in lower + 1 .. n : table[i] \in Block
      BY <1>1, <1>3
    <3>2. /\ right \in Seq(Block)
          /\ Len(right) = IF lower + 1 <= n THEN n - (lower + 1) + 1 ELSE 0
          /\ \A i \in 1 .. n - (lower + 1) + 1 : right[i] = table[lower + 1 + i - 1]
      BY <3>1, SubSeqProperties
    <3>3. n - (lower + 1) + 1 = n - lower /\ \A i \in Int : lower + 1 + i - 1 = lower + i
      BY <1>1, <1>3
    <3> HIDE DEF right, n
    <3> QED
      BY <1>1, <1>3, <3>2, <3>3
  <2> HIDE DEF left, right, n
  <2>4. /\ left \o <<b>> \in Seq(Block) /\ Len(left \o <<b>>) = lower + 1
        /\ \A i \in 1 .. lower + 1 : (left \o <<b>>)[i] = IF i <= lower THEN table[i] ELSE b
    BY <1>1, <1>3, <2>2, ConcatProperties
  <2>5. /\ u \in Seq(Block) /\ DOMAIN u = 1 .. n + 1
        /\ \A i \in 1 .. n + 1 : u[i] = IF i <= lower THEN table[i]
                                     ELSE IF i = lower + 1 THEN b ELSE table[i - 1]
    <3> HIDE DEF n
    <3>1. u \in Seq(Block) /\ Len(u) = n + 1
      BY <1>1, <1>3, <2>3, <2>4, ConcatProperties
    <3>2. DOMAIN u = 1 .. n + 1
      BY <3>1, LenProperties
    <3>3. ASSUME NEW i \in 1 .. n + 1
          PROVE  u[i] = IF i <= lower + 1 THEN (left \o <<b>>)[i] ELSE right[i - (lower + 1)]
      BY <1>1, <1>3, <2>3, <2>4, ConcatProperties
    <3>4. ASSUME NEW i \in 1 .. n + 1, i > lower + 1
          PROVE  right[i - (lower + 1)] = table[i - 1]
      <4>1. i - (lower + 1) \in 1 .. n - lower /\ lower + (i - (lower + 1)) = i - 1
        BY <1>1, <1>3, <3>4
      <4> QED
        BY <2>3, <4>1
    <3>5. ASSUME NEW i \in 1 .. n + 1
          PROVE  u[i] = IF i <= lower THEN table[i]
                        ELSE IF i = lower + 1 THEN b ELSE table[i - 1]
      <4> HIDE DEF u
      <4>1. CASE i <= lower + 1
        <5>1. i \in 1 .. lower + 1
          BY <1>1, <1>3, <4>1
        <5> QED
          BY <1>1, <1>3, <2>4, <3>3, <4>1, <5>1
      <4>2. CASE i > lower + 1
        BY <1>1, <1>3, <3>3, <3>4, <4>2
      <4> QED
        BY <1>1, <1>3, <4>1, <4>2
    <3> HIDE DEF u
    <3> QED
      BY <3>1, <3>2, <3>5
  <2> HIDE DEF u
  <2>6. InHeightOrder(u)
    <3> SUFFICES ASSUME NEW i \in 1 .. n + 1, NEW j \in 1 .. n + 1, i < j
                 PROVE  heightOf[u[i]] < heightOf[u[j]]
      BY <2>5 DEF InHeightOrder
    <3>1. CASE i <= lower /\ j <= lower
      <4>1. u[i] = table[i] /\ u[j] = table[j] /\ i \in 1 .. n /\ j \in 1 .. n
        BY <1>1, <1>3, <2>5, <3>1
      <4> QED
        BY <1>1, <4>1 DEF InHeightOrder
    <3>2. CASE i <= lower /\ j = lower + 1
      <4>1. u[i] = table[i] /\ u[j] = b /\ i \in 1 .. n
        BY <1>1, <1>3, <2>5, <3>2
      <4> QED
        BY <1>4, <3>2, <4>1
    <3>3. CASE i <= lower /\ j > lower + 1
      <4>1. u[i] = table[i] /\ u[j] = table[j - 1]
        BY <1>1, <1>3, <2>5, <3>3
      <4>2. i \in 1 .. n /\ j - 1 \in 1 .. n /\ i < j - 1
        BY <1>1, <1>3, <3>3
      <4> QED
        BY <1>1, <4>1, <4>2 DEF InHeightOrder
    <3>4. CASE i = lower + 1 /\ j > lower + 1
      <4>1. lower + 1 \in 1 .. n /\ heightOf[table[lower + 1]] > heightOf[b]
        BY <1>1, <1>3, <1>5, <1>7, <3>4
      <4>2. j - 1 \in 1 .. n /\ lower + 1 <= j - 1
        BY <1>1, <1>3, <3>4
      <4>3. heightOf[table[j - 1]] >= heightOf[table[lower + 1]]
        BY <1>1, <4>1, <4>2 DEF InHeightOrder
      <4>4. u[i] = b /\ u[j] = table[j - 1]
        BY <1>3, <2>5, <3>4
      <4> QED
        BY <1>1, <4>1, <4>2, <4>3, <4>4
    <3>5. CASE i > lower + 1
      <4>1. i - 1 \in 1 .. n /\ j - 1 \in 1 .. n /\ i - 1 < j - 1
        BY <1>1, <1>3, <3>5
      <4>2. u[i] = table[i - 1] /\ u[j] = table[j - 1]
        BY <1>1, <1>3, <2>5, <3>5
      <4> QED
        BY <1>1, <4>1, <4>2 DEF InHeightOrder
    <3> QED
      BY <1>1, <1>3, <3>1, <3>2, <3>3, <3>4, <3>5
  <2>7. ToSet(u) \subseteq ToSet(table) \cup {b}
    <3> SUFFICES ASSUME NEW i \in 1 .. n + 1, u[i] # b
                 PROVE  \E k \in 1 .. n : u[i] = table[k]
      BY <1>1, <2>5 DEF ToSet
    <3>1. CASE i <= lower
      BY <1>1, <1>3, <2>5, <3>1
    <3>2. CASE i > lower + 1
      <4>1. i - 1 \in 1 .. n /\ u[i] = table[i - 1]
        BY <1>1, <1>3, <2>5, <3>2
      <4> QED
        BY <4>1
    <3> QED
      BY <1>1, <1>3, <2>5, <3>1, <3>2
  <2>8. b \in ToSet(u)
    <3>1. lower + 1 \in 1 .. n + 1 /\ u[lower + 1] = b
      BY <1>1, <1>3, <2>5
    <3> QED
      BY <2>5, <3>1 DEF ToSet
  <2>9. ASSUME NEW i \in 1 .. n PROVE table[i] \in ToSet(u)
    <3>1. CASE i <= lower
      <4>1. i \in 1 .. n + 1 /\ u[i] = table[i]
        BY <1>1, <1>3, <2>5, <3>1
      <4> QED
        BY <2>5, <4>1 DEF ToSet
    <3>2. CASE i > lower
      <4>1. i + 1 \in 1 .. n + 1 /\ u[i + 1] = table[i]
        BY <1>1, <1>3, <2>5, <3>2
      <4> QED
        BY <2>5, <4>1 DEF ToSet
    <3> QED
      BY <1>1, <1>3, <3>1, <3>2
  <2> QED
    BY <1>1, <2>1, <2>5, <2>6, <2>7, <2>8, <2>9
<1> QED
  BY <1>6, <1>7

-----------------------------------------------------------------------------
\* An arrival preserves the invariant.
LEMMA ArriveInv ==
  ASSUME ChainInv, NEW b \in Block, Arrive(b)
  PROVE  ChainInv'
<1>1. TypeOK'
  BY ArriveType DEF ChainInv
<1>2. UNCHANGED <<rows, bootLength, unloaded>>
  BY DEF Arrive
<1>3. /\ blocks \in Seq(Block) /\ Len(blocks) \in Nat /\ Len(blocks) > 0
      /\ DOMAIN blocks = 1 .. Len(blocks) /\ bootLength \in 1 .. Len(blocks)
      /\ \A i \in 1 .. Len(blocks) : blocks[i] \in Block /\ heightOf[blocks[i]] \in Nat
      /\ heightOf[b] \in Nat
  BY EmptySeq, LenProperties, ElementOfSeq, HeaderAssumption DEF ChainInv, TypeOK
<1>4. CASE /\ parentOf[b] = Last(blocks) /\ IsValid(b, Last(blocks))
           /\ blocks' = Append(blocks, b) /\ unsaved' = unsaved \cup {b}
  <2> DEFINE n == Len(blocks)
  <2>1. /\ DOMAIN blocks' = 1 .. n + 1 /\ Len(blocks') = n + 1
        /\ \A i \in 1 .. n : blocks'[i] = blocks[i]
        /\ blocks'[n + 1] = b
    BY <1>3, <1>4, AppendProperties, LenProperties
  <2>2. ToSet(blocks') = ToSet(blocks) \cup {b}
    BY <1>3, <2>1 DEF ToSet
  <2>3. /\ parentOf[b] = blocks[n] /\ heightOf[b] = heightOf[blocks[n]] + 1
        /\ timeOf[b] >= timeOf[blocks[n]] + MinDelta
    <3>1. timeOf[b] \in Nat /\ timeOf[blocks[n]] \in Nat /\ MinDelta \in Nat
      BY <1>3, HeaderAssumption, ChainAssumption
    <3> QED
      BY <1>4, <3>1 DEF IsValid, Last
  <2>4. bootLength' \in 1 .. Len(blocks')
    BY <1>2, <1>3, <2>1
  <2>5. RowsFromChain' /\ unsaved' \subseteq ToSet(blocks')
    BY <1>2, <1>4, <2>2 DEF ChainInv, RowsFromChain
  <2>6. LinkedSinceBoot'
    <3> SUFFICES ASSUME NEW i \in 1 .. n + 1, i > bootLength
                 PROVE  /\ parentOf[blocks'[i]] = blocks'[i - 1]
                        /\ heightOf[blocks'[i]] = heightOf[blocks'[i - 1]] + 1
                        /\ timeOf[blocks'[i]] >= timeOf[blocks'[i - 1]] + MinDelta
      BY <1>2, <2>1 DEF LinkedSinceBoot
    <3>1. i - 1 \in 1 .. n
      BY <1>3
    <3>2. CASE i \in 1 .. n
      BY <1>3, <2>1, <3>1, <3>2 DEF ChainInv, LinkedSinceBoot
    <3>3. CASE i = n + 1
      BY <1>3, <2>1, <2>3, <3>1, <3>3
    <3> QED
      BY <1>3, <3>2, <3>3
  <2>7. HeightsIncrease'
    <3> SUFFICES ASSUME NEW i \in 1 .. n + 1, NEW j \in 1 .. n + 1, i < j
                 PROVE  heightOf[blocks'[i]] < heightOf[blocks'[j]]
      BY <2>1 DEF HeightsIncrease
    <3>1. i \in 1 .. n /\ blocks'[i] = blocks[i]
      BY <1>3, <2>1
    <3>2. CASE j \in 1 .. n
      BY <1>3, <2>1, <3>1, <3>2 DEF ChainInv, HeightsIncrease
    <3>3. CASE j = n + 1
      <4>1. heightOf[blocks[i]] <= heightOf[blocks[n]]
        BY <1>3, <3>1 DEF ChainInv, HeightsIncrease
      <4> QED
        BY <1>3, <2>1, <2>3, <3>1, <3>3, <4>1
    <3> QED
      BY <1>3, <3>2, <3>3
  <2> QED
    BY <1>1, <1>2, <2>4, <2>5, <2>6, <2>7 DEF ChainInv, InHeightOrder
<1>5. CASE UNCHANGED <<blocks, unsaved>>
  BY <1>1, <1>2, <1>5
     DEF ChainInv, RowsFromChain, LinkedSinceBoot, HeightsIncrease, InHeightOrder
<1> QED
  BY <1>3, <1>4, <1>5, ArriveEffect

\* The genesis block alone, the table as it was loaded and the table as the start
\* leaves it satisfy what a start must establish.
LEMMA BootProperties ==
  ASSUME NEW table \in Seq(Block), InHeightOrder(table),
         NEW c \in Boot(table), NEW t \in GenesisSaved(table)
  PROVE  /\ c \in Seq(Block) /\ c # << >> /\ InHeightOrder(c)
         /\ t \in Seq(Block) /\ InHeightOrder(t)
         /\ ToSet(t) \subseteq ToSet(table) \cup ToSet(c)
<1>1. /\ <<Genesis>> \in Seq(Block) /\ <<Genesis>> # << >> /\ DOMAIN <<Genesis>> = {1}
  BY ChainAssumption
<1>2. InHeightOrder(<<Genesis>>)
  BY <1>1 DEF InHeightOrder
<1>3. /\ << >> \in Seq(Block) /\ InHeightOrder(<< >>)
      /\ ToSet(<< >>) = {}
  BY DEF InHeightOrder, ToSet
<1>4. CASE table = << >>
  <2>1. c = <<Genesis>> /\ t \in {<<Genesis>>, << >>}
    BY <1>4, ChainAssumption DEF Boot, GenesisSaved
  <2> QED
    BY <1>1, <1>2, <1>3, <2>1
<1>5. CASE table # << >>
  <2>1. c \in {table, <<Genesis>>} /\ t = table
    BY <1>5, ChainAssumption DEF Boot, GenesisSaved
  <2> QED
    BY <1>1, <1>2, <1>5, <2>1
<1> QED
  BY <1>4, <1>5

\* The initial state satisfies the invariant.
LEMMA InitInv == Init => ChainInv
<1> SUFFICES ASSUME Init PROVE ChainInv
  OBVIOUS
<1>1. /\ blocks \in Boot(<< >>) /\ rows \in GenesisSaved(<< >>)
      /\ << >> \in Seq(Block) /\ InHeightOrder(<< >>) /\ ToSet(<< >>) = {}
  BY DEF Init, Boot, InHeightOrder, ToSet
<1>2. /\ blocks \in Seq(Block) /\ blocks # << >> /\ InHeightOrder(blocks)
      /\ rows \in Seq(Block) /\ InHeightOrder(rows) /\ ToSet(rows) \subseteq ToSet(blocks)
  <2>1. ToSet(rows) \subseteq ToSet(<< >>) \cup ToSet(blocks)
    BY <1>1, BootProperties
  <2> QED
    BY <1>1, <2>1, BootProperties
<1>3. Len(blocks) = 1 /\ DOMAIN blocks = {1} /\ bootLength = 1
  BY DEF Init
<1>4. TypeOK
  BY <1>2 DEF TypeOK, Init, EmptyForks
<1> QED
  BY <1>2, <1>3, <1>4
     DEF ChainInv, Init, RowsFromChain, LinkedSinceBoot, HeightsIncrease, InHeightOrder

\* Every step preserves the invariant.
LEMMA NextInv == ChainInv /\ [Next]_vars => ChainInv'
<1> SUFFICES ASSUME ChainInv, [Next]_vars PROVE ChainInv'
  OBVIOUS
<1>1. ASSUME NEW b \in Block, Arrive(b) PROVE ChainInv'
  BY <1>1, ArriveInv
<1>2. ASSUME NEW b \in Block, Save(b) PROVE ChainInv'
  <2>1. rows \in Seq(Block) /\ InHeightOrder(rows)
    BY DEF ChainInv, TypeOK
  <2>2. /\ rows' \in Seq(Block) /\ InHeightOrder(rows')
        /\ ToSet(rows') \subseteq ToSet(rows) \cup {b}
    BY <1>2, <2>1, UpsertProperties DEF Save
  <2>3. /\ b \in unsaved /\ unsaved' = unsaved \ {b}
        /\ UNCHANGED <<blocks, fm, orphanedBlocks, clock, bootLength, unloaded, accepted,
                       arrivals, restarts>>
    BY <1>2 DEF Save
  <2>4. TypeOK' /\ RowsFromChain' /\ LinkedSinceBoot' /\ HeightsIncrease'
    BY <2>2, <2>3 DEF ChainInv, TypeOK, RowsFromChain, LinkedSinceBoot, HeightsIncrease
  <2> QED
    BY <2>2, <2>3, <2>4 DEF ChainInv, InHeightOrder
<1>3. ASSUME NEW b \in Block, SaveFails(b) PROVE ChainInv'
  BY <1>3 DEF SaveFails, ChainInv, TypeOK, RowsFromChain, LinkedSinceBoot, HeightsIncrease,
              InHeightOrder
<1>4. CASE Restart
  <2>1. rows \in Seq(Block) /\ InHeightOrder(rows)
    BY DEF ChainInv, TypeOK
  <2>2. /\ blocks' \in Seq(Block) /\ blocks' # << >> /\ InHeightOrder(blocks')
        /\ rows' \in Seq(Block) /\ InHeightOrder(rows')
        /\ ToSet(rows') \subseteq ToSet(rows) \cup ToSet(blocks')
    BY <1>4, <2>1, BootProperties DEF Restart
  <2>3. Len(blocks') \in Nat \ {0} /\ DOMAIN blocks' = 1 .. Len(blocks')
    BY <2>2, EmptySeq, LenProperties
  <2>4. /\ bootLength' = Len(blocks') /\ fm' = EmptyForks
        /\ orphanedBlocks' = {} /\ unsaved' = {} /\ accepted' = {}
        /\ unloaded' = ToSet(rows) \ ToSet(blocks')
        /\ restarts' = restarts + 1 /\ UNCHANGED <<clock, arrivals>>
    BY <1>4 DEF Restart
  <2>5. TypeOK'
    <3>1. ToSet(rows) \subseteq Block
      BY <2>1, LenProperties DEF ToSet
    <3> QED
      BY <2>2, <2>3, <2>4, <3>1 DEF ChainInv, TypeOK, EmptyForks
  <2>6. LinkedSinceBoot'
    BY <2>3, <2>4 DEF LinkedSinceBoot
  <2> QED
    BY <2>2, <2>3, <2>4, <2>5, <2>6 DEF ChainInv, RowsFromChain, HeightsIncrease, InHeightOrder
<1>5. CASE Tick
  BY <1>5 DEF Tick, ChainInv, TypeOK, RowsFromChain, LinkedSinceBoot, HeightsIncrease,
              InHeightOrder
<1>6. CASE UNCHANGED vars
  BY <1>6 DEF vars, ChainInv, TypeOK, RowsFromChain, LinkedSinceBoot, HeightsIncrease,
              InHeightOrder
<1> QED
  BY <1>1, <1>2, <1>3, <1>4, <1>5, <1>6 DEF Next

\* The invariant holds in every reachable state.
THEOREM Invariance == Spec => []ChainInv
<1> QED
  BY InitInv, NextInv, PTL DEF Spec

\* The state of Chain, ForkManager and the blocks table is always well typed,
\* whatever addBlock is given (Chain.ts, Consensus.ts).
THEOREM TypeCorrect == Spec => []TypeOK
<1>1. ChainInv => TypeOK
  BY DEF ChainInv
<1> QED
  BY <1>1, Invariance, PTL

\* Every block added since the process started is linked to its predecessor
\* by parent hash, height and least interval (addBlock, isValid).
THEOREM ChainLinked == Spec => []LinkedSinceBoot
<1>1. ChainInv => LinkedSinceBoot
  BY DEF ChainInv
<1> QED
  BY <1>1, Invariance, PTL

\* Heights are strictly increasing along the chain, also after a restart from
\* a table with holes (loadPersistedBlocks, getBlockByHeight).
THEOREM HeightsAlwaysIncrease == Spec => []HeightsIncrease
<1>1. ChainInv => HeightsIncrease
  BY DEF ChainInv
<1> QED
  BY <1>1, Invariance, PTL

\* The table holds only blocks of the chain and the rows that a failed load left
\* out (initialize), so a restart brings nothing back that the process did not have.
THEOREM RowsAlwaysFromChain == Spec => []RowsFromChain
<1>1. ChainInv => RowsFromChain
  BY DEF ChainInv
<1> QED
  BY <1>1, Invariance, PTL

\* A process that has the whole table replaces none of it (the ON CONFLICT branch
\* of the INSERT in addBlock): two blocks of its chain have different heights.
THEOREM SavedAlwaysStays == Spec => SavedStays
<1> DEFINE Stays == unloaded = {} => ToSet(rows) \subseteq ToSet(rows')
<1>1. ChainInv /\ [Next]_vars => [Stays]_vars
  <2> SUFFICES ASSUME ChainInv, Next, unloaded = {} PROVE ToSet(rows) \subseteq ToSet(rows')
    OBVIOUS
  <2>1. ASSUME NEW b \in Block, Arrive(b) \/ SaveFails(b)
        PROVE  ToSet(rows) \subseteq ToSet(rows')
    BY <2>1 DEF Arrive, SaveFails
  <2>2. ASSUME NEW b \in Block, Save(b) PROVE ToSet(rows) \subseteq ToSet(rows')
    <3>1. /\ rows \in Seq(Block) /\ blocks \in Seq(Block)
          /\ DOMAIN rows = 1 .. Len(rows) /\ DOMAIN blocks = 1 .. Len(blocks)
          /\ Len(blocks) \in Nat
      BY LenProperties DEF ChainInv, TypeOK
    <3>2. b \in ToSet(blocks) /\ rows' = Upsert(rows, b)
      BY <2>2 DEF Save, ChainInv
    <3>3. /\ b \in ToSet(rows')
          /\ \A i \in DOMAIN rows :
               rows[i] \in ToSet(rows') \/ heightOf[rows[i]] = heightOf[b]
      BY <3>1, <3>2, UpsertProperties DEF ChainInv
    <3>4. ASSUME NEW x \in ToSet(blocks), heightOf[x] = heightOf[b] PROVE x = b
      <4>1. PICK i \in 1 .. Len(blocks), j \in 1 .. Len(blocks) : x = blocks[i] /\ b = blocks[j]
        BY <3>1, <3>2 DEF ToSet
      <4>2. heightOf[blocks[i]] \in Nat /\ heightOf[blocks[j]] \in Nat
        BY <3>1, ElementOfSeq, HeaderAssumption
      <4>3. ~(i < j) /\ ~(j < i)
        BY <3>1, <3>4, <4>1, <4>2 DEF ChainInv, HeightsIncrease
      <4>4. i = j
        BY <3>1, <4>3
      <4> QED
        BY <4>1, <4>4
    <3>5. ToSet(rows) \subseteq ToSet(blocks)
      BY DEF ChainInv, RowsFromChain
    <3> SUFFICES ASSUME NEW i \in DOMAIN rows PROVE rows[i] \in ToSet(rows')
      BY DEF ToSet
    <3>6. rows[i] \in ToSet(blocks)
      BY <3>5 DEF ToSet
    <3> QED
      BY <3>3, <3>4, <3>6
  <2>3. CASE Restart
    <3>1. rows' = rows \/ rows = << >>
      BY <2>3 DEF Restart, GenesisSaved
    <3> QED
      BY <3>1 DEF ToSet
  <2>4. CASE Tick
    BY <2>4 DEF Tick
  <2> QED
    BY <2>1, <2>2, <2>3, <2>4 DEF Next
<1> QED
  BY <1>1, Invariance, PTL DEF Spec, SavedStays

\* Between restarts the chain only grows at its end: no block that addBlock
\* routes to the ForkManager ever replaces a block, because handleReorg, given
\* the one block that arrived, never finds the new chain longer.
THEOREM ChainAppendOnly == Spec => AppendOnly
<1> DEFINE Grows == restarts' = restarts => IsPrefix(blocks, blocks')
<1>1. ChainInv /\ [Next]_vars => [Grows]_vars
  <2> SUFFICES ASSUME ChainInv, Next, restarts' = restarts PROVE IsPrefix(blocks, blocks')
    OBVIOUS
  <2>1. blocks \in Seq(Block) /\ restarts \in Nat
    BY DEF ChainInv, TypeOK
  <2>2. IsPrefix(blocks, blocks)
    BY <2>1, LenProperties DEF IsPrefix
  <2>3. ASSUME NEW b \in Block, Arrive(b) PROVE IsPrefix(blocks, blocks')
    <3>1. IsPrefix(blocks, Append(blocks, b))
      BY <2>1, LenProperties, AppendProperties DEF IsPrefix
    <3> QED
      BY <2>1, <2>2, <2>3, <3>1, ArriveEffect
  <2>4. ASSUME NEW b \in Block, Save(b) \/ SaveFails(b) PROVE IsPrefix(blocks, blocks')
    BY <2>2, <2>4 DEF Save, SaveFails
  <2>5. CASE Restart
    BY <2>1, <2>5 DEF Restart
  <2>6. CASE Tick
    BY <2>2, <2>6 DEF Tick
  <2> QED
    BY <2>3, <2>4, <2>5, <2>6 DEF Next
<1> QED
  BY <1>1, Invariance, PTL DEF Spec, AppendOnly

-----------------------------------------------------------------------------
\* Whatever the fork manager does with a block, its main chain is not shorter
\* afterwards: it grows, stays, or gives way to a chain that is as long.
LEMMA FmAddBlockGrows ==
  ASSUME NEW f \in ForkState, NEW b \in Block
  PROVE  Len(FmAddBlock(f, b).fm.main) >= Len(f.main)
<1> DEFINE i == ForkOfParent(f.forks, b)
           c == Append(f.forks[i], b)
           g == [f EXCEPT !.forks = ExtendFork(@, i, b)]
           p == SelectInSeq(f.main, LAMBDA x : x = parentOf[b])
           h == [f EXCEPT !.forks = SetFork(@, Append(SubSeq(f.main, 1, p), b))]
<1>1. f.main \in Seq(Block) /\ Len(f.main) \in Nat /\ g.main = f.main /\ h.main = f.main
  BY LenProperties DEF ForkState
<1>2. CASE f.main = << >> \/ parentOf[b] = Last(f.main)
  <2>1. FmAddBlock(f, b) = Kept([f EXCEPT !.main = Append(@, b)])
    BY <1>2 DEF FmAddBlock
  <2>2. FmAddBlock(f, b).fm.main = Append(f.main, b)
    BY <2>1 DEF Kept, ForkState
  <2> QED
    BY <1>1, <2>2, AppendProperties
<1>3. CASE /\ f.main # << >> /\ parentOf[b] # Last(f.main)
           /\ Contains(f.main, parentOf[b])
  <2>1. FmAddBlock(f, b) = Kept(h)
    BY <1>3 DEF FmAddBlock
  <2> HIDE DEF h
  <2> QED
    BY <1>1, <2>1 DEF Kept
<1>4. CASE /\ f.main # << >> /\ parentOf[b] # Last(f.main)
           /\ ~Contains(f.main, parentOf[b])
  <2>1. FmAddBlock(f, b) = IF i = 0
             THEN [Refused(f) EXCEPT !.orphaned = <<b>>]
             ELSE IF ShouldSwitch(f.main, c) THEN SwitchToFork(g, c) ELSE Kept(g)
    BY <1>4 DEF FmAddBlock
  <2> HIDE DEF i, c, g
  <2>2. CASE i = 0
    BY <1>1, <2>1, <2>2 DEF Refused
  <2>3. CASE i # 0 /\ ShouldSwitch(f.main, c)
    <3>1. SwitchToFork(g, c).fm.main \in {c, f.main}
      BY <1>1 DEF SwitchToFork, Refused
    <3>2. Len(c) >= Len(f.main)
      <4>1. Len(c) \in Nat
        <5>1. i \in 1 .. Len(f.forks) /\ f.forks \in Seq(Seq(Block))
          BY <2>3, ForkOfParentType, LenProperties DEF i, ForkState
        <5>2. f.forks[i] \in Seq(Block)
          BY <5>1, ElementOfSeq
        <5> QED
          BY <5>2, AppendProperties, LenProperties DEF c
      <4> QED
        BY <1>1, <2>3, <4>1 DEF ShouldSwitch
    <3> QED
      BY <1>1, <2>1, <2>3, <3>1, <3>2
  <2>4. CASE i # 0 /\ ~ShouldSwitch(f.main, c)
    BY <1>1, <2>1, <2>4 DEF Kept
  <2> QED
    BY <2>2, <2>3, <2>4
<1> QED
  BY <1>2, <1>3, <1>4

(* The ForkManager's main chain never gets shorter while the process runs, for
   any tree of blocks in any order (ForkManager.addBlock, switchToFork). *)
THEOREM ForksNeverShorten == Spec => MainNeverShortens
<1> DEFINE Grows == restarts' = restarts => Len(fm'.main) >= Len(fm.main)
<1>1. ChainInv /\ [Next]_vars => [Grows]_vars
  <2> SUFFICES ASSUME ChainInv, Next, restarts' = restarts
               PROVE  Len(fm'.main) >= Len(fm.main)
    OBVIOUS
  <2>1. fm \in ForkState /\ restarts \in Nat
    BY DEF ChainInv, TypeOK, ForkState
  <2>2. Len(fm.main) \in Nat
    BY <2>1, LenProperties DEF ForkState
  <2>3. ASSUME NEW b \in Block, Arrive(b)
        PROVE  Len(fm'.main) >= Len(fm.main)
    <3>1. CASE AppendToHead(b)
      BY <2>2, <3>1 DEF AppendToHead
    <3>2. CASE RouteToForks(b)
      <4>1. fm' = FmAddBlock(fm, b).fm
        BY <3>2 DEF RouteToForks
      <4> QED
        BY <2>1, <4>1, FmAddBlockGrows
    <3> QED
      BY <2>3, <3>1, <3>2 DEF Arrive
  <2>4. ASSUME NEW b \in Block, Save(b) \/ SaveFails(b)
        PROVE  Len(fm'.main) >= Len(fm.main)
    BY <2>2, <2>4 DEF Save, SaveFails
  <2>5. CASE Restart
    BY <2>1, <2>5 DEF Restart
  <2>6. CASE Tick
    BY <2>2, <2>6 DEF Tick
  <2> QED
    BY <2>3, <2>4, <2>5, <2>6 DEF Next
<1> QED
  BY <1>1, Invariance, PTL DEF Spec, MainNeverShortens

-----------------------------------------------------------------------------
(* No block is lost between the main chain and the forks as long as none       *)
(* arrives twice: every fork then has a tip of its own, and a main chain that  *)
(* gives way is kept or contained in the one it gives way to.                  *)
BlocksOf(forks) == UNION {ToSet(forks[i]) : i \in DOMAIN forks}
BlocksIn(f) == ToSet(f.main) \cup BlocksOf(f.forks)

TipsApart(forks) ==
  /\ \A i \in DOMAIN forks : forks[i] # << >>
  /\ \A i, j \in DOMAIN forks : i # j => Last(forks[i]) # Last(forks[j])

ApartFrom(forks, tip) == \A i \in DOMAIN forks : Last(forks[i]) # tip

ForksKept(f) ==
  /\ TipsApart(f.forks) /\ ApartFrom(f.forks, Last(f.main))
  /\ f.forks # << >> => Len(f.main) > 1

ArrivedOnce == \A b \in Block : arrivals[b] <= 1
AcceptedInv ==
  ArrivedOnce =>
    /\ ForksKept(fm)
    /\ BlocksIn(fm) \subseteq {b \in Block : arrivals[b] > 0}
    /\ accepted \subseteq ToSet(blocks) \cup BlocksIn(fm)

\* A chain that is not empty ends in a block of it.
LEMMA TipOfChain ==
  ASSUME NEW c \in Seq(Block), c # << >>
  PROVE  Last(c) \in ToSet(c) /\ Last(c) \in Block
<1>1. Len(c) \in Nat /\ Len(c) > 0 /\ DOMAIN c = 1 .. Len(c)
  BY LenProperties, EmptySeq
<1>2. Len(c) \in DOMAIN c
  BY <1>1
<1> QED
  BY <1>1, <1>2, ElementOfSeq DEF Last, ToSet

\* A chain with one block more: its tip and its blocks.
LEMMA ChainOfAppend ==
  ASSUME NEW c \in Seq(Block), NEW b \in Block
  PROVE  /\ Append(c, b) \in Seq(Block) /\ Append(c, b) # << >>
         /\ Last(Append(c, b)) = b /\ ToSet(Append(c, b)) = ToSet(c) \cup {b}
<1>1. /\ Append(c, b) \in Seq(Block) /\ Len(Append(c, b)) = Len(c) + 1 /\ Len(c) \in Nat
      /\ Append(c, b)[Len(c) + 1] = b
  BY AppendProperties, LenProperties
<1>2. Append(c, b) # << >>
  BY <1>1, EmptySeq
<1> QED
  BY <1>1, <1>2, EntriesOfAppend DEF Last

\* Map.set of a chain with a new tip adds the chain and keeps the others.
LEMMA SetNewFork ==
  ASSUME NEW forks \in Seq(Seq(Block)), NEW c \in Seq(Block), c # << >>,
         TipsApart(forks), ApartFrom(forks, Last(c))
  PROVE  /\ SetFork(forks, c) = Append(forks, c) /\ TipsApart(SetFork(forks, c))
         /\ BlocksOf(SetFork(forks, c)) = BlocksOf(forks) \cup ToSet(c)
         /\ \A tip : ApartFrom(forks, tip) /\ Last(c) # tip => ApartFrom(SetFork(forks, c), tip)
<1> DEFINE t == Append(forks, c)
           n == Len(forks)
<1>1. SetFork(forks, c) = t
  BY DEF SetFork, ApartFrom
<1>2. /\ n \in Nat /\ DOMAIN forks = 1 .. n /\ DOMAIN t = 1 .. n + 1 /\ t[n + 1] = c
      /\ \A i \in 1 .. n : t[i] = forks[i]
  BY AppendProperties, LenProperties
<1>3. TipsApart(t)
  <2>1. ASSUME NEW i \in 1 .. n + 1 PROVE i \in 1 .. n \/ i = n + 1
    BY <1>2
  <2> HIDE DEF t, n
  <2> QED
    BY <1>2, <2>1 DEF TipsApart, ApartFrom
<1>4. BlocksOf(t) = BlocksOf(forks) \cup ToSet(c)
  <2>1. 1 .. n + 1 = 1 .. n \cup {n + 1} /\ n + 1 \notin 1 .. n
    BY <1>2
  <2>2. {t[i] : i \in 1 .. n + 1} = {forks[i] : i \in 1 .. n} \cup {c}
    <3> HIDE DEF t, n
    <3> QED
      BY <1>2, <2>1
  <2>3. BlocksOf(t) = UNION {ToSet(x) : x \in {t[i] : i \in 1 .. n + 1}}
    BY <1>2 DEF BlocksOf
  <2>4. BlocksOf(forks) = UNION {ToSet(x) : x \in {forks[i] : i \in 1 .. n}}
    BY <1>2 DEF BlocksOf
  <2> HIDE DEF t, n
  <2> QED
    BY <2>2, <2>3, <2>4
<1>5. ASSUME NEW tip, ApartFrom(forks, tip), Last(c) # tip PROVE ApartFrom(t, tip)
  <2>1. ASSUME NEW i \in 1 .. n + 1 PROVE i \in 1 .. n \/ i = n + 1
    BY <1>2
  <2> HIDE DEF t, n
  <2> QED
    BY <1>2, <1>5, <2>1 DEF ApartFrom
<1> HIDE DEF t
<1> QED
  BY <1>1, <1>3, <1>4, <1>5 DEF t

\* Map.delete of one chain keeps all others, and nothing else has its tip.
LEMMA DeleteFork ==
  ASSUME NEW forks \in Seq(Seq(Block)), NEW i \in 1 .. Len(forks), TipsApart(forks)
  PROVE  /\ TipsApart(RemoveAt(forks, i))
         /\ ApartFrom(RemoveAt(forks, i), Last(forks[i]))
         /\ BlocksOf(RemoveAt(forks, i)) \subseteq BlocksOf(forks)
         /\ BlocksOf(forks) \subseteq BlocksOf(RemoveAt(forks, i)) \cup ToSet(forks[i])
         /\ \A tip : ApartFrom(forks, tip) => ApartFrom(RemoveAt(forks, i), tip)
<1> DEFINE r == RemoveAt(forks, i)
           n == Len(forks)
           old(k) == IF k < i THEN k ELSE k + 1
<1>0. n \in Nat /\ i \in 1 .. n /\ DOMAIN forks = 1 .. n
  BY LenProperties
<1>3. /\ DOMAIN r = 1 .. n - 1
      /\ \A k \in 1 .. n - 1 : old(k) \in 1 .. n /\ old(k) # i /\ r[k] = forks[old(k)]
  <2>1. /\ r \in Seq(Seq(Block)) /\ Len(r) = n - 1
        /\ \A k \in 1 .. i - 1 : r[k] = forks[k]
        /\ \A k \in i .. n - 1 : r[k] = forks[k + 1]
    BY RemoveAtIndexes
  <2>2. DOMAIN r = 1 .. n - 1
    BY <2>1, LenProperties
  <2>3. ASSUME NEW k \in 1 .. n - 1
        PROVE  old(k) \in 1 .. n /\ old(k) # i /\ r[k] = forks[old(k)]
    <3> HIDE DEF r, n
    <3>1. CASE k < i
      <4>1. k \in 1 .. i - 1 /\ old(k) = k /\ k # i /\ k \in 1 .. n
        BY <1>0, <3>1
      <4> QED
        BY <2>1, <4>1
    <3>2. CASE ~(k < i)
      <4>1. k \in i .. n - 1 /\ old(k) = k + 1
        BY <1>0, <3>2
      <4> QED
        BY <1>0, <2>1, <4>1
    <3> QED
      BY <3>1, <3>2
  <2> QED
    BY <2>2, <2>3
<1>4. \A j, k \in 1 .. n - 1 : j # k => old(j) # old(k)
  BY <1>0
<1>5. ASSUME NEW j \in 1 .. n, j # i PROVE \E k \in 1 .. n - 1 : old(k) = j
  <2>1. CASE j < i
    <3>1. j \in 1 .. n - 1 /\ old(j) = j
      BY <1>0, <2>1
    <3> QED
      BY <3>1
  <2>2. CASE j > i
    <3>1. j - 1 \in 1 .. n - 1 /\ old(j - 1) = j
      BY <1>0, <2>2
    <3> QED
      BY <3>1
  <2> QED
    BY <1>0, <1>5, <2>1, <2>2
<1> HIDE DEF r, n, old
<1>6. BlocksOf(r) \subseteq BlocksOf(forks)
  BY <1>0, <1>3 DEF BlocksOf
<1>7. BlocksOf(forks) \subseteq BlocksOf(r) \cup ToSet(forks[i])
  <2> SUFFICES ASSUME NEW j \in 1 .. n, j # i PROVE ToSet(forks[j]) \subseteq BlocksOf(r)
    BY <1>0 DEF BlocksOf
  <2>1. PICK k \in 1 .. n - 1 : old(k) = j
    BY <1>5
  <2> QED
    BY <2>1, <1>3 DEF BlocksOf
<1>8. ApartFrom(r, Last(forks[i]))
  BY <1>0, <1>3 DEF TipsApart, ApartFrom
<1>10. TipsApart(r)
  <2>1. \A k \in DOMAIN r : r[k] # << >>
    BY <1>0, <1>3 DEF TipsApart
  <2>2. ASSUME NEW j \in 1 .. n - 1, NEW k \in 1 .. n - 1, j # k
        PROVE  Last(r[j]) # Last(r[k])
    <3>1. old(j) # old(k) /\ old(j) \in 1 .. n /\ old(k) \in 1 .. n
      BY <1>3, <1>4, <2>2
    <3>2. Last(forks[old(j)]) # Last(forks[old(k)])
      BY <1>0, <3>1 DEF TipsApart
    <3> QED
      BY <1>3, <3>2
  <2> QED
    BY <1>3, <2>1, <2>2 DEF TipsApart
<1>9. \A tip : ApartFrom(forks, tip) => ApartFrom(r, tip)
  BY <1>0, <1>3 DEF ApartFrom
<1> QED
  BY <1>6, <1>7, <1>8, <1>9, <1>10 DEF r

\* Extending a fork by a block that is nowhere yet gives it a tip of its own.
LEMMA ExtendForkKeeps ==
  ASSUME NEW forks \in Seq(Seq(Block)), NEW i \in 1 .. Len(forks), NEW b \in Block,
         TipsApart(forks), b \notin BlocksOf(forks)
  PROVE  LET g == ExtendFork(forks, i, b)
             c == Append(forks[i], b)
         IN  /\ TipsApart(g)
             /\ BlocksOf(g) \subseteq BlocksOf(forks) \cup {b}
             /\ BlocksOf(forks) \cup {b} \subseteq BlocksOf(g)
             /\ \A tip : tip # b /\ ApartFrom(forks, tip) => ApartFrom(g, tip)
             /\ c \in ToSet(g)
<1> DEFINE c == Append(forks[i], b)
           s == SetFork(forks, c)
           g == RemoveAt(s, i)
           n == Len(forks)
<1>1. n \in Nat /\ DOMAIN forks = 1 .. n /\ i \in 1 .. n
  BY LenProperties
<1>2. \A k \in 1 .. n : /\ forks[k] \in Seq(Block) /\ forks[k] # << >>
                        /\ Last(forks[k]) \in BlocksOf(forks) /\ Last(forks[k]) # b
  <2> SUFFICES ASSUME NEW k \in 1 .. n
               PROVE  /\ forks[k] \in Seq(Block) /\ forks[k] # << >>
                      /\ Last(forks[k]) \in BlocksOf(forks)
    OBVIOUS
  <2>1. forks[k] \in Seq(Block) /\ forks[k] # << >>
    BY <1>1, ElementOfSeq DEF TipsApart
  <2>2. Last(forks[k]) \in ToSet(forks[k])
    BY <2>1, TipOfChain
  <2> QED
    BY <1>1, <2>1, <2>2 DEF BlocksOf
<1>3. c \in Seq(Block) /\ c # << >> /\ Last(c) = b /\ ToSet(c) = ToSet(forks[i]) \cup {b}
  BY <1>1, <1>2, ChainOfAppend
<1>4. ApartFrom(forks, Last(c))
  BY <1>1, <1>2, <1>3 DEF ApartFrom
<1>5. ExtendFork(forks, i, b) = g
  BY <1>1, <1>2 DEF ExtendFork
<1> HIDE DEF c
<1>6. /\ s = Append(forks, c) /\ TipsApart(s)
      /\ BlocksOf(s) = BlocksOf(forks) \cup ToSet(c)
      /\ \A tip : ApartFrom(forks, tip) /\ b # tip => ApartFrom(s, tip)
  BY <1>3, <1>4, SetNewFork
<1>7. /\ s \in Seq(Seq(Block)) /\ Len(s) = n + 1 /\ s[n + 1] = c
      /\ \A k \in 1 .. n : s[k] = forks[k]
  BY <1>1, <1>3, <1>6, AppendProperties
<1> HIDE DEF s
<1>8. i \in 1 .. Len(s) /\ s[i] = forks[i]
  BY <1>1, <1>7
<1>9. /\ TipsApart(g) /\ BlocksOf(g) \subseteq BlocksOf(s)
      /\ BlocksOf(s) \subseteq BlocksOf(g) \cup ToSet(s[i])
      /\ \A tip : ApartFrom(s, tip) => ApartFrom(g, tip)
  BY <1>6, <1>7, <1>8, DeleteFork
<1>10. c \in ToSet(g)
  <2>1. /\ g \in Seq(Seq(Block)) /\ Len(g) = Len(s) - 1
        /\ \A k \in i .. Len(s) - 1 : g[k] = s[k + 1]
    BY <1>7, <1>8, RemoveAtIndexes
  <2>2. n \in i .. Len(s) - 1 /\ n \in DOMAIN g
    BY <1>1, <1>7, <2>1, LenProperties
  <2> HIDE DEF g
  <2> QED
    BY <1>7, <2>1, <2>2 DEF ToSet
<1>11. ToSet(c) \subseteq BlocksOf(g)
  BY <1>10 DEF BlocksOf, ToSet
<1>12. ToSet(forks[i]) \subseteq BlocksOf(forks)
  BY <1>1 DEF BlocksOf
<1> HIDE DEF g
<1>13. BlocksOf(g) \subseteq BlocksOf(forks) \cup {b}
  BY <1>3, <1>6, <1>9, <1>12
<1>14. BlocksOf(forks) \cup {b} \subseteq BlocksOf(g)
  BY <1>3, <1>6, <1>8, <1>9, <1>11
<1>15. \A tip : tip # b /\ ApartFrom(forks, tip) => ApartFrom(g, tip)
  BY <1>6, <1>9
<1> QED
  BY <1>5, <1>9, <1>10, <1>13, <1>14, <1>15 DEF c

\* A main chain that gives way is kept as a fork, or contained in the new one.
LEMMA SwitchToForkKeeps ==
  ASSUME NEW g \in ForkState, NEW c \in ToSet(g.forks), c \in Seq(Block),
         ForksKept(g), Len(c) >= Len(g.main)
  PROVE  LET h == SwitchToFork(g, c).fm
         IN  ForksKept(h) /\ BlocksIn(h) = BlocksIn(g)
<1> DEFINE h == SwitchToFork(g, c).fm
           m == g.main
           common == CommonHeight(m, c)
           tail == SubSeq(m, common + 2, Len(m))
           kept == IF tail # << >> THEN SetFork(g.forks, m) ELSE g.forks
<1>1. /\ m \in Seq(Block) /\ g.forks \in Seq(Seq(Block)) /\ Len(m) \in Nat /\ Len(c) \in Nat
      /\ DOMAIN g.forks = 1 .. Len(g.forks) /\ Len(g.forks) \in Nat
  BY LenProperties DEF ForkState
<1>2. PICK q \in DOMAIN g.forks : g.forks[q] = c
  BY DEF ToSet
<1>3. /\ TipsApart(g.forks) /\ ApartFrom(g.forks, Last(m)) /\ Len(m) > 1
      /\ c # << >> /\ Last(c) # Last(m) /\ m # << >>
  <2>1. g.forks # << >> /\ Len(<< >>) = 0
    BY <1>1, <1>2
  <2> QED
    BY <1>2, <2>1 DEF ForksKept, TipsApart, ApartFrom
<1>4. tail = << >> => ToSet(m) \subseteq ToSet(c)
  <2> DEFINE agree == {n \in 1 .. Len(m) : IsPrefix(SubSeq(m, 1, n), c)}
             top == CHOOSE n \in agree : \A k \in agree : k <= n
  <2>1. CASE agree = {}
    <3>1. common = 0
      BY <2>1 DEF CommonHeight
    <3>2. Len(tail) = Len(m) - 1
      <4>1. \A k \in 2 .. Len(m) : m[k] \in Block
        BY <1>1, ElementOfSeq
      <4>2. tail = SubSeq(m, 2, Len(m))
        BY <3>1
      <4> HIDE DEF tail
      <4> QED
        BY <1>1, <1>3, <4>1, <4>2, SubSeqProperties
    <3>3. tail # << >>
      <4> HIDE DEF tail
      <4> QED
        BY <1>1, <1>3, <3>2
    <3> QED
      BY <3>3
  <2>2. CASE agree # {}
    <3>1. \E n \in agree : \A k \in agree : n >= k
      <4>1. agree \subseteq 0 .. Len(m)
        BY <1>1
      <4> HIDE DEF agree
      <4> QED
        BY <1>1, <2>2, <4>1, GreatestIndex
    <3>2. top \in agree
      BY <3>1
    <3>3. top \in 1 .. Len(m) /\ IsPrefix(SubSeq(m, 1, top), c) /\ common = top - 1
      BY <2>2, <3>2 DEF CommonHeight
    <3> HIDE DEF top
    <3>4. CASE top < Len(m)
      <4>1. \A k \in top + 1 .. Len(m) : m[k] \in Block
        BY <1>1, <3>3, ElementOfSeq
      <4>2. tail = SubSeq(m, top + 1, Len(m))
        BY <3>3
      <4>3. Len(tail) = Len(m) - top
        <5> HIDE DEF tail
        <5>1. Len(SubSeq(m, top + 1, Len(m))) = Len(m) - (top + 1) + 1
          BY <1>1, <3>3, <3>4, <4>1, SubSeqProperties
        <5> QED
          BY <1>1, <3>3, <4>2, <5>1
      <4>4. tail # << >>
        <5> HIDE DEF tail
        <5> QED
          BY <1>1, <3>3, <3>4, <4>3
      <4> QED
        BY <4>4
    <3>5. CASE top = Len(m)
      <4> DEFINE z == SubSeq(m, 1, top)
      <4>1. z \in Seq(Block) /\ Len(z) = top /\ \A k \in 1 .. top : z[k] = m[k]
        <5>1. \A k \in 1 .. top : m[k] \in Block
          BY <1>1, <3>3, ElementOfSeq
        <5> QED
          BY <1>1, <3>3, <5>1, SubSeqProperties
      <4> HIDE DEF z
      <4>2. top <= Len(c) /\ \A k \in 1 .. top : z[k] = c[k]
        <5>1. IsPrefix(z, c)
          BY <3>3 DEF z
        <5> QED
          BY <4>1, <5>1, PrefixIndexes
      <4>3. \A k \in DOMAIN m : k \in DOMAIN c /\ m[k] = c[k]
        <5>1. DOMAIN m = 1 .. top /\ DOMAIN c = 1 .. Len(c)
          BY <3>5, <1>1, LenProperties
        <5>2. \A k \in 1 .. top : k \in 1 .. Len(c) /\ m[k] = c[k]
          BY <1>1, <3>3, <4>1, <4>2
        <5> QED
          BY <5>1, <5>2
      <4> QED
        BY <4>3 DEF ToSet
    <3> QED
      BY <1>1, <3>3, <3>4, <3>5
  <2> QED
    BY <2>1, <2>2
<1>5. /\ kept \in Seq(Seq(Block)) /\ TipsApart(kept) /\ c \in ToSet(kept)
      /\ BlocksOf(g.forks) \subseteq BlocksOf(kept)
      /\ BlocksOf(kept) \subseteq BlocksIn(g)
      /\ ToSet(m) \subseteq BlocksOf(kept)
  <2> HIDE DEF tail
  <2>1. CASE tail # << >>
    <3>1. /\ SetFork(g.forks, m) = Append(g.forks, m) /\ TipsApart(SetFork(g.forks, m))
          /\ BlocksOf(SetFork(g.forks, m)) = BlocksOf(g.forks) \cup ToSet(m)
      BY <1>1, <1>3, SetNewFork
    <3>2. /\ Append(g.forks, m) \in Seq(Seq(Block))
          /\ ToSet(Append(g.forks, m)) = ToSet(g.forks) \cup {m}
      BY <1>1, AppendProperties, EntriesOfAppend
    <3> QED
      BY <2>1, <3>1, <3>2 DEF BlocksIn
  <2>2. CASE tail = << >>
    <3>1. ToSet(c) \subseteq BlocksOf(g.forks)
      BY <1>2 DEF BlocksOf
    <3> QED
      BY <1>1, <1>3, <1>4, <2>2, <3>1 DEF BlocksIn
  <2> QED
    BY <2>1, <2>2
<1> HIDE DEF kept
<1>6. PICK r \in 1 .. Len(kept) : /\ kept[r] = c
                                  /\ RemoveFirst(kept, c) = RemoveAt(kept, r)
  <2> DEFINE I == {k \in 1 .. Len(kept) : kept[k] = c}
  <2>1. I # {} /\ I \subseteq Nat
    <3>1. Len(kept) \in Nat /\ DOMAIN kept = 1 .. Len(kept)
      BY <1>5, LenProperties
    <3>2. \E k \in DOMAIN kept : kept[k] = c
      BY <1>5 DEF ToSet
    <3> QED
      BY <3>1, <3>2
  <2>2. Min(I) \in I
    <3> HIDE DEF I
    <3> QED
      BY <2>1, MinIndex
  <2>3. SelectInSeq(kept, LAMBDA v : v = c) = Min(I)
    BY <2>1 DEF SelectInSeq
  <2>4. RemoveFirst(kept, c) = RemoveAt(kept, Min(I))
    BY <2>1, <2>3 DEF RemoveFirst
  <2> QED
    BY <2>2, <2>4
<1> DEFINE d == RemoveAt(kept, r)
<1>7. /\ TipsApart(d) /\ ApartFrom(d, Last(c))
      /\ BlocksOf(d) \subseteq BlocksOf(kept)
      /\ BlocksOf(kept) \subseteq BlocksOf(d) \cup ToSet(c)
  BY <1>5, <1>6, DeleteFork
<1>8. ToSet(c) \subseteq BlocksOf(g.forks)
  BY <1>2 DEF BlocksOf
<1> HIDE DEF d
<1>9. CASE Len(m) - common - 1 > MaxReorgDepth
  <2>1. h = g
    BY <1>9 DEF SwitchToFork, Refused
  <2> QED
    BY <2>1
<1>10. CASE ~(Len(m) - common - 1 > MaxReorgDepth)
  <2>1. h.main = c /\ h.forks = d
    BY <1>6, <1>10 DEF SwitchToFork, kept, d
  <2> HIDE DEF h
  <2>2. ForksKept(h)
    BY <1>1, <1>3, <1>7, <2>1 DEF ForksKept
  <2>3. BlocksIn(h) = BlocksIn(g)
    BY <1>5, <1>7, <1>8, <2>1 DEF BlocksIn
  <2> QED
    BY <2>2, <2>3 DEF h
<1> QED
  BY <1>9, <1>10

\* What the answer r to a new block b leaves of the state f.
KeepsBlocks(f, b, r) ==
  /\ ForksKept(r.fm)
  /\ BlocksIn(f) \subseteq BlocksIn(r.fm) /\ BlocksIn(r.fm) \subseteq BlocksIn(f) \cup {b}
  /\ r.added \/ r.reorg => b \in BlocksIn(r.fm)

\* Whatever the fork manager does with a block that it has not got, it keeps every
\* block it has; one it says it added is among them.
LEMMA FmAddBlockKeeps ==
  ASSUME NEW f \in ForkState, NEW b \in Block, ForksKept(f), b \notin BlocksIn(f)
  PROVE  KeepsBlocks(f, b, FmAddBlock(f, b))
<1> DEFINE i == ForkOfParent(f.forks, b)
           c == Append(f.forks[i], b)
           g == [f EXCEPT !.forks = ExtendFork(@, i, b)]
           r == FmAddBlock(f, b)
<1>0. /\ f.main \in Seq(Block) /\ f.forks \in Seq(Seq(Block))
      /\ Len(f.main) \in Nat /\ Len(f.forks) \in Nat
      /\ DOMAIN f.main = 1 .. Len(f.main) /\ DOMAIN f.forks = 1 .. Len(f.forks)
      /\ b \notin ToSet(f.main) /\ b \notin BlocksOf(f.forks) /\ TipsApart(f.forks)
      /\ ApartFrom(f.forks, Last(f.main))
  BY LenProperties DEF ForkState, BlocksIn, ForksKept
<1>1. ApartFrom(f.forks, b)
  <2> SUFFICES ASSUME NEW k \in DOMAIN f.forks PROVE Last(f.forks[k]) \in BlocksOf(f.forks)
    BY <1>0 DEF ApartFrom
  <2>1. f.forks[k] \in Seq(Block) /\ f.forks[k] # << >>
    BY <1>0, ElementOfSeq DEF TipsApart
  <2> QED
    BY <2>1, TipOfChain DEF BlocksOf
<1>2. CASE f.main = << >> \/ parentOf[b] = Last(f.main)
  <2> DEFINE h == [f EXCEPT !.main = Append(@, b)]
  <2>1. r = Kept(h)
    BY <1>2 DEF FmAddBlock
  <2>2. /\ h.main = Append(f.main, b) /\ h.forks = f.forks
    BY DEF ForkState
  <2> HIDE DEF h
  <2>3. /\ Last(h.main) = b /\ ToSet(h.main) = ToSet(f.main) \cup {b}
        /\ Len(h.main) = Len(f.main) + 1
    BY <1>0, <2>2, ChainOfAppend, AppendProperties
  <2>4. ForksKept(h)
    BY <1>0, <1>1, <2>2, <2>3 DEF ForksKept
  <2>5. BlocksIn(h) = BlocksIn(f) \cup {b}
    BY <2>2, <2>3 DEF BlocksIn
  <2> QED
    BY <2>1, <2>4, <2>5 DEF Kept, KeepsBlocks
<1>3. CASE /\ f.main # << >> /\ parentOf[b] # Last(f.main)
           /\ Contains(f.main, parentOf[b])
  <2> DEFINE p == SelectInSeq(f.main, LAMBDA x : x = parentOf[b])
             I == {k \in 1 .. Len(f.main) : f.main[k] = parentOf[b]}
             z == SubSeq(f.main, 1, p)
             d == Append(z, b)
             h == [f EXCEPT !.forks = SetFork(@, d)]
  <2>1. p \in 1 .. Len(f.main) /\ Len(f.main) > 1
    <3>1. I # {} /\ I \subseteq Nat
      BY <1>0, <1>3 DEF Contains
    <3>2. Min(I) \in I
      <4> HIDE DEF I
      <4> QED
        BY <3>1, MinIndex
    <3>3. p \in 1 .. Len(f.main) /\ f.main[p] = parentOf[b]
      BY <3>1, <3>2 DEF SelectInSeq
    <3> HIDE DEF p
    <3>4. p # Len(f.main)
      BY <1>3, <3>3 DEF Last
    <3> QED
      BY <1>0, <3>3, <3>4
  <2>2. r = Kept(h)
    BY <1>3 DEF FmAddBlock
  <2> HIDE DEF p
  <2>3. z \in Seq(Block) /\ ToSet(z) \subseteq ToSet(f.main)
    <3>1. \A k \in 1 .. p : f.main[k] \in Block /\ k \in DOMAIN f.main
      BY <1>0, <2>1, ElementOfSeq
    <3>2. z \in Seq(Block) /\ Len(z) = p /\ \A k \in 1 .. p : z[k] = f.main[k]
      BY <1>0, <2>1, <3>1, SubSeqProperties
    <3> HIDE DEF z
    <3>3. DOMAIN z = 1 .. p
      BY <3>2, LenProperties
    <3> QED
      BY <3>1, <3>2, <3>3 DEF ToSet
  <2> HIDE DEF z
  <2>4. d \in Seq(Block) /\ d # << >> /\ Last(d) = b /\ ToSet(d) = ToSet(z) \cup {b}
    BY <2>3, ChainOfAppend
  <2> HIDE DEF d
  <2>5. h.main = f.main /\ h.forks = SetFork(f.forks, d)
    BY DEF ForkState
  <2> HIDE DEF h
  <2>6. b # Last(f.main)
    BY <1>0, <1>3, TipOfChain
  <2>7. /\ TipsApart(h.forks) /\ BlocksOf(h.forks) = BlocksOf(f.forks) \cup ToSet(d)
        /\ ApartFrom(h.forks, Last(h.main))
    BY <1>0, <1>1, <2>4, <2>5, <2>6, SetNewFork
  <2>8. ForksKept(h)
    BY <2>1, <2>5, <2>7 DEF ForksKept
  <2>9. BlocksIn(h) = BlocksIn(f) \cup {b}
    BY <2>3, <2>4, <2>5, <2>7 DEF BlocksIn
  <2> QED
    BY <2>2, <2>8, <2>9 DEF Kept, KeepsBlocks
<1>4. CASE /\ f.main # << >> /\ parentOf[b] # Last(f.main)
           /\ ~Contains(f.main, parentOf[b])
  <2>1. r = IF i = 0
             THEN [Refused(f) EXCEPT !.orphaned = <<b>>]
             ELSE IF ShouldSwitch(f.main, c) THEN SwitchToFork(g, c) ELSE Kept(g)
    BY <1>4 DEF FmAddBlock
  <2>2. CASE i = 0
    <3>1. r.fm = f /\ r.added = FALSE /\ r.reorg = FALSE
      BY <2>1, <2>2 DEF Refused
    <3> HIDE DEF r
    <3>2. KeepsBlocks(f, b, r)
      BY <3>1 DEF KeepsBlocks
    <3> QED
      BY <3>2 DEF r
  <2>3. CASE i # 0
    <3>1. i \in 1 .. Len(f.forks)
      BY <1>0, <2>3, ForkOfParentType
    <3> HIDE DEF i, r
    <3>2. f.forks[i] \in Seq(Block)
      BY <1>0, <3>1, ElementOfSeq
    <3>3. /\ g.main = f.main /\ g.forks = ExtendFork(f.forks, i, b) /\ g \in ForkState
      BY <1>0, <3>1, ExtendForkType DEF ForkState
    <3>4. /\ TipsApart(g.forks) /\ c \in ToSet(g.forks)
          /\ BlocksOf(g.forks) \subseteq BlocksOf(f.forks) \cup {b}
          /\ BlocksOf(f.forks) \cup {b} \subseteq BlocksOf(g.forks)
          /\ \A tip : tip # b /\ ApartFrom(f.forks, tip) => ApartFrom(g.forks, tip)
      BY <1>0, <3>1, <3>3, ExtendForkKeeps
    <3> HIDE DEF g
    <3>5. f.forks # << >> /\ Last(f.main) # b
      <4>1. Len(f.forks) > 0 /\ Len(<< >>) = 0
        BY <1>0, <3>1
      <4> QED
        BY <1>0, <1>4, <4>1, TipOfChain
    <3>6. ForksKept(g)
      BY <1>0, <3>3, <3>4, <3>5 DEF ForksKept
    <3>7. BlocksIn(g) = BlocksIn(f) \cup {b}
      BY <3>3, <3>4 DEF BlocksIn
    <3>8. c \in Seq(Block) /\ Len(c) \in Nat
      BY <3>2, AppendProperties, LenProperties
    <3> HIDE DEF c
    <3>9. CASE ShouldSwitch(f.main, c)
      <4>1. Len(c) >= Len(g.main)
        BY <1>0, <3>3, <3>8, <3>9 DEF ShouldSwitch
      <4>2. /\ ForksKept(SwitchToFork(g, c).fm)
            /\ BlocksIn(SwitchToFork(g, c).fm) = BlocksIn(g)
        BY <3>3, <3>4, <3>6, <3>8, <4>1, SwitchToForkKeeps
      <4>3. KeepsBlocks(f, b, SwitchToFork(g, c))
        BY <3>7, <4>2 DEF KeepsBlocks
      <4> QED
        BY <2>1, <2>3, <3>9, <4>3 DEF r
    <3>10. CASE ~ShouldSwitch(f.main, c)
      <4>1. KeepsBlocks(f, b, Kept(g))
        BY <3>6, <3>7 DEF Kept, KeepsBlocks
      <4> QED
        BY <2>1, <2>3, <3>10, <4>1 DEF r
    <3> QED
      BY <3>9, <3>10 DEF r
  <2> QED
    BY <2>2, <2>3
<1> QED
  BY <1>2, <1>3, <1>4

\* An arrival keeps what was accepted, as long as no block arrives twice.
LEMMA ArriveAccepted ==
  ASSUME ChainInv, AcceptedInv, NEW b \in Block, Arrive(b)
  PROVE  AcceptedInv'
<1> SUFFICES ASSUME ArrivedOnce'
             PROVE  /\ ForksKept(fm')
                    /\ BlocksIn(fm') \subseteq {x \in Block : arrivals'[x] > 0}
                    /\ accepted' \subseteq ToSet(blocks') \cup BlocksIn(fm')
  BY DEF AcceptedInv
<1>1. arrivals \in [Block -> Nat] /\ arrivals' = [arrivals EXCEPT ![b] = @ + 1]
  BY DEF ChainInv, TypeOK, Arrive
<1>2. /\ arrivals[b] = 0 /\ ArrivedOnce
      /\ \A x \in Block : arrivals[x] > 0 \/ x = b => arrivals'[x] > 0
  <2>1. arrivals'[b] = arrivals[b] + 1 /\ \A x \in Block \ {b} : arrivals'[x] = arrivals[x]
    BY <1>1
  <2> QED
    BY <1>1, <2>1 DEF ArrivedOnce
<1>3. /\ ForksKept(fm) /\ BlocksIn(fm) \subseteq {x \in Block : arrivals[x] > 0}
      /\ accepted \subseteq ToSet(blocks) \cup BlocksIn(fm) /\ b \notin BlocksIn(fm)
  BY <1>2 DEF AcceptedInv
<1>4. fm \in ForkState /\ blocks \in Seq(Block)
  BY DEF ChainInv, TypeOK, ForkState
<1>5. CASE AppendToHead(b)
  <2>1. ToSet(Append(blocks, b)) = ToSet(blocks) \cup {b}
    BY <1>4, EntriesOfAppend
  <2>2. accepted' \subseteq ToSet(blocks') \cup BlocksIn(fm)
    BY <1>3, <1>5, <2>1 DEF AppendToHead
  <2> QED
    BY <1>2, <1>3, <1>5, <2>2 DEF AppendToHead
<1>6. CASE RouteToForks(b)
  <2> DEFINE r == FmAddBlock(fm, b)
  <2>1. /\ ForksKept(r.fm) /\ BlocksIn(fm) \subseteq BlocksIn(r.fm)
        /\ BlocksIn(r.fm) \subseteq BlocksIn(fm) \cup {b}
        /\ r.added \/ r.reorg => b \in BlocksIn(r.fm)
    BY <1>3, <1>4, FmAddBlockKeeps DEF KeepsBlocks
  <2>2. fm' = r.fm
    BY <1>6 DEF RouteToForks
  <2>3. /\ blocks' = blocks
        /\ \/ accepted' = accepted
           \/ accepted' = accepted \cup {b} /\ (r.added \/ r.reorg)
    <3>1. CASE r.reorg /\ FindCommonAncestor(b) > 0
      <4>1. HandleReorg(b, FindCommonAncestor(b)).blocks = blocks
        BY <1>4, <1>6, <3>1, ReorgNeverDone DEF RouteToForks
      <4> QED
        BY <1>6, <3>1, <4>1 DEF RouteToForks
    <3>2. CASE ~(r.reorg /\ FindCommonAncestor(b) > 0)
      BY <1>6, <3>2 DEF RouteToForks
    <3> QED
      BY <3>1, <3>2
  <2> HIDE DEF r
  <2> QED
    BY <1>2, <1>3, <2>1, <2>2, <2>3
<1> QED
  BY <1>5, <1>6 DEF Arrive

\* No block addBlock answered true for is lost to the process before one arrives
\* twice: the chain or a fork has it (the answer for a side fork in addBlock).
THEOREM AcceptedAlwaysTracked == Spec => []AcceptedIsTracked
<1>1. ForksKept(EmptyForks) /\ BlocksIn(EmptyForks) = {}
  BY DEF EmptyForks, ForksKept, BlocksIn, BlocksOf, TipsApart, ApartFrom, ToSet
<1>2. Init => AcceptedInv
  BY <1>1 DEF Init, AcceptedInv
<1>3. ChainInv /\ AcceptedInv /\ [Next]_vars => AcceptedInv'
  <2> SUFFICES ASSUME ChainInv, AcceptedInv, [Next]_vars PROVE AcceptedInv'
    OBVIOUS
  <2>1. ASSUME NEW b \in Block, Arrive(b) PROVE AcceptedInv'
    BY <2>1, ArriveAccepted
  <2>2. ASSUME NEW b \in Block, Save(b) \/ SaveFails(b) PROVE AcceptedInv'
    BY <2>2 DEF Save, SaveFails, AcceptedInv, ArrivedOnce
  <2>3. CASE Restart
    BY <1>1, <2>3 DEF Restart, AcceptedInv, ArrivedOnce
  <2>4. CASE Tick \/ UNCHANGED vars
    BY <2>4 DEF Tick, vars, AcceptedInv, ArrivedOnce
  <2> QED
    BY <2>1, <2>2, <2>3, <2>4 DEF Next
<1>4. ChainInv /\ AcceptedInv => AcceptedIsTracked
  <2> SUFFICES ASSUME ChainInv, AcceptedInv, ArrivedOnce, NEW b \in accepted
               PROVE  \/ Contains(blocks, b)
                      \/ Contains(fm.main, b)
                      \/ \E i \in DOMAIN fm.forks : Contains(fm.forks[i], b)
    BY DEF AcceptedIsTracked, ArrivedOnce
  <2>1. blocks \in Seq(Block) /\ fm.main \in Seq(Block) /\ fm.forks \in Seq(Seq(Block))
    BY DEF ChainInv, TypeOK
  <2>2. ASSUME NEW c \in Seq(Block), b \in ToSet(c) PROVE Contains(c, b)
    BY <2>2, LenProperties DEF ToSet, Contains
  <2>3. b \in ToSet(blocks) \/ b \in ToSet(fm.main)
        \/ \E i \in DOMAIN fm.forks : b \in ToSet(fm.forks[i])
    BY DEF AcceptedInv, BlocksIn, BlocksOf
  <2>4. \A i \in DOMAIN fm.forks : fm.forks[i] \in Seq(Block)
    BY <2>1, ElementOfSeq, LenProperties
  <2> QED
    BY <2>1, <2>2, <2>3, <2>4
<1> QED
  BY Invariance, <1>2, <1>3, <1>4, PTL DEF Spec
=============================================================================
