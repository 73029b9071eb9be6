---------------------------- MODULE IndexLemmas ----------------------------
(***************************************************************************)
(* Lemmas about positions in sequences: the largest and the smallest index  *)
(* of a set of indexes exist, so the searches of the code (findIndex, a     *)
(* loop from the end) return an index of what they look for.  At the end,   *)
(* the one fact about SumFunction that the balances of an account map need. *)
(***************************************************************************)
EXTENDS Integers, Sequences, SequencesExt, SequenceTheorems, FiniteSetTheorems,
        WellFoundedInduction, TLAPS

\* Every non-empty set of naturals has a least element.
LEMMA LeastNatural ==
  ASSUME NEW U, U \subseteq Nat, U # {}
  PROVE  \E m \in U : \A k \in U : m <= k
<1>1. IsWellFoundedOn(OpToRel(<, Nat), Nat)
  BY NatLessThanWellFounded
<1>2. PICK m \in U : \A k \in U : ~ (<<k, m>> \in OpToRel(<, Nat))
  BY <1>1, WFMin, Zenon
<1>3. ASSUME NEW k \in U, k < m PROVE FALSE
  <2>1. <<k, m>> \in {ss \in Nat \X Nat : ss[1] < ss[2]}
    BY <1>3
  <2> QED
    BY <2>1, <1>2 DEF OpToRel
<1> QED
  BY <1>3

\* Every non-empty set of indexes has a greatest element.
LEMMA GreatestIndex ==
  ASSUME NEW n \in Nat, NEW T, T \subseteq 0 .. n, T # {}
  PROVE  \E m \in T : \A k \in T : m >= k
<1> DEFINE U == {i \in Nat : n - i \in T}
<1>1. ASSUME NEW k \in T PROVE n - k \in U
  <2>1. n - k \in Nat /\ n - (n - k) = k
    OBVIOUS
  <2> QED
    BY <2>1
<1>2. U \subseteq Nat /\ U # {}
  BY <1>1
<1>3. PICK x \in U : \A k \in U : x <= k
  <2> HIDE DEF U
  <2> QED
    BY <1>2, LeastNatural
<1>4. ASSUME NEW k \in T PROVE n - x >= k
  <2>1. x <= n - k
    BY <1>1, <1>3, <1>4
  <2>2. x \in Nat /\ k \in Nat
    BY <1>4
  <2> QED
    BY <2>1, <2>2
<1> QED
  BY <1>4

\* Max of a non-empty set of indexes is the greatest of them.
LEMMA MaxIndex ==
  ASSUME NEW n \in Nat, NEW T, T \subseteq 0 .. n, T # {}
  PROVE  Max(T) \in T /\ \A k \in T : Max(T) >= k
BY GreatestIndex, Zenon DEF Max

\* Min of a non-empty set of naturals is the least of them.
LEMMA MinIndex ==
  ASSUME NEW T, T \subseteq Nat, T # {}
  PROVE  Min(T) \in T /\ \A k \in T : Min(T) <= k
BY LeastNatural, Zenon DEF Min

\* Removing an entry of a sequence leaves entries of it.
LEMMA RemoveAtType ==
  ASSUME NEW S, NEW s \in Seq(S), NEW i \in 1 .. Len(s)
  PROVE  RemoveAt(s, i) \in Seq(S)
<1>1. SubSeq(s, 1, i - 1) \in Seq(S) /\ SubSeq(s, i + 1, Len(s)) \in Seq(S)
  BY SubSeqProperties, LenProperties, ElementOfSeq
<1> QED
  BY <1>1, ConcatProperties DEF RemoveAt

\* The entries that removing one leaves, in their order.
LEMMA RemoveAtIndexes ==
  ASSUME NEW S, NEW s \in Seq(S), NEW i \in 1 .. Len(s)
  PROVE  /\ RemoveAt(s, i) \in Seq(S) /\ Len(RemoveAt(s, i)) = Len(s) - 1
         /\ \A k \in 1 .. i - 1 : RemoveAt(s, i)[k] = s[k]
         /\ \A k \in i .. Len(s) - 1 : RemoveAt(s, i)[k] = s[k + 1]
<1> DEFINE n == Len(s)
           front == SubSeq(s, 1, i - 1)
           back == SubSeq(s, i + 1, n)
<1>1. n \in Nat /\ i \in Nat /\ 1 <= i /\ i <= n /\ \A k \in 1 .. n : s[k] \in S
  BY LenProperties, ElementOfSeq
<1>2. /\ front \in Seq(S) /\ Len(front) = i - 1
      /\ \A k \in 1 .. i - 1 : front[k] = s[k]
  <2>1. \A k \in 1 .. i - 1 : s[k] \in S
    BY <1>1
  <2> HIDE DEF n
  <2> QED
    BY <1>1, <2>1, SubSeqProperties
<1>3. /\ back \in Seq(S) /\ Len(back) = n - i
      /\ \A k \in 1 .. n - i : back[k] = s[i + k]
  <2>1. \A k \in i + 1 .. n : s[k] \in S
    BY <1>1
  <2>2. /\ back \in Seq(S)
        /\ Len(back) = IF i + 1 <= n THEN n - (i + 1) + 1 ELSE 0
        /\ \A k \in 1 .. n - (i + 1) + 1 : back[k] = s[i + 1 + k - 1]
    BY <1>1, <2>1, SubSeqProperties
  <2>3. ASSUME NEW k \in 1 .. n - i PROVE back[k] = s[i + k]
    <3>1. k \in 1 .. n - (i + 1) + 1 /\ i + 1 + k - 1 = i + k
      BY <1>1
    <3>2. back[k] = s[i + 1 + k - 1]
      BY <2>2, <3>1
    <3> QED
      BY <3>1, <3>2
  <2> HIDE DEF back, n
  <2> QED
    BY <1>1, <2>2, <2>3
<1> HIDE DEF front, back, n
<1>4. /\ front \o back \in Seq(S) /\ Len(front \o back) = n - 1
      /\ \A k \in 1 .. n - 1 :
           (front \o back)[k] = IF k <= i - 1 THEN front[k] ELSE back[k - (i - 1)]
  <2>1. /\ front \o back \in Seq(S) /\ Len(front \o back) = Len(front) + Len(back)
        /\ \A k \in 1 .. Len(front) + Len(back) :
             (front \o back)[k] = IF k <= Len(front) THEN front[k] ELSE back[k - Len(front)]
    BY <1>2, <1>3, ConcatProperties
  <2>2. Len(front) + Len(back) = n - 1
    BY <1>1, <1>2, <1>3
  <2> QED
    BY <1>2, <2>1, <2>2
<1>5. \A k \in 1 .. i - 1 : (front \o back)[k] = s[k]
  BY <1>1, <1>2, <1>4
<1>6. ASSUME NEW k \in i .. n - 1 PROVE (front \o back)[k] = s[k + 1]
  <2>1. k \in 1 .. n - 1 /\ ~(k <= i - 1)
    BY <1>1
  <2>2. (front \o back)[k] = back[k - (i - 1)]
    BY <2>1, <1>4
  <2>3. k - (i - 1) \in 1 .. n - i /\ i + (k - (i - 1)) = k + 1
    BY <1>1
  <2> DEFINE j == k - (i - 1)
  <2>4. back[j] = s[i + j] /\ i + j = k + 1
    BY <2>3, <1>3
  <2> QED
    BY <2>2, <2>4
<1> QED
  BY <1>4, <1>5, <1>6 DEF RemoveAt, front, back, n

\* A prefix agrees index by index.
LEMMA PrefixIndexes ==
  ASSUME NEW S, NEW s \in Seq(S), NEW t \in Seq(S)
  PROVE  IsPrefix(s, t) <=> Len(s) <= Len(t) /\ \A i \in 1 .. Len(s) : s[i] = t[i]
<1> DEFINE m == Len(s)
<1>1. m \in Nat /\ Len(t) \in Nat
  BY LenProperties
<1>2. CASE m <= Len(t)
  <2>1. \A i \in 1 .. m : s[i] \in S /\ t[i] \in S
    BY <1>1, <1>2, ElementOfSeq
  <2>2. /\ SubSeq(s, 1, m) \in Seq(S) /\ Len(SubSeq(s, 1, m)) = m
        /\ \A i \in 1 .. m : SubSeq(s, 1, m)[i] = s[i]
    BY <1>1, <2>1, SubSeqProperties
  <2>3. /\ SubSeq(t, 1, m) \in Seq(S) /\ Len(SubSeq(t, 1, m)) = m
        /\ \A i \in 1 .. m : SubSeq(t, 1, m)[i] = t[i]
    BY <1>1, <2>1, SubSeqProperties
  <2>4. ASSUME \A i \in 1 .. m : s[i] = t[i] PROVE SubSeq(s, 1, m) = SubSeq(t, 1, m)
    <3>1. \A i \in 1 .. m : SubSeq(s, 1, m)[i] = SubSeq(t, 1, m)[i]
      BY <2>2, <2>3, <2>4
    <3> HIDE DEF m
    <3> QED
      BY <2>2, <2>3, <3>1, SeqEqual
  <2>5. ASSUME SubSeq(s, 1, m) = SubSeq(t, 1, m) PROVE \A i \in 1 .. m : s[i] = t[i]
    BY <2>2, <2>3, <2>5
  <2> QED
    BY <1>2, <2>4, <2>5 DEF IsPrefix
<1> QED
  BY <1>1, <1>2 DEF IsPrefix

\* Two sequences agree up to n, and no further.
PartAt(s, t, n) ==
  /\ n \in 0 .. Len(s) /\ n <= Len(t) /\ \A i \in 1 .. n : s[i] = t[i]
  /\ n = Len(s) \/ n = Len(t) \/ s[n + 1] # t[n + 1]

\* The longest common prefix of two sequences ends where one of them does, or they part.
LEMMA CommonPrefix ==
  ASSUME NEW S, NEW s \in Seq(S), NEW t \in Seq(S)
  PROVE  PartAt(s, t, Len(LongestCommonPrefix({s, t})))
<1> DEFINE n == Len(LongestCommonPrefix({s, t}))
           Agree(l) == l <= Len(t) /\ \A i \in 1 .. l : s[i] = t[i]
           T == {l \in 0 .. Len(s) : Agree(l)}
           C == CommonPrefixes({s, t})
<1>1. Len(s) \in Nat /\ Len(t) \in Nat
  BY LenProperties
<1>2. PICK k \in T : \A l \in T : k >= l
  <2>1. T \subseteq 0 .. Len(s) /\ 0 \in T
    BY <1>1
  <2> HIDE DEF T
  <2> QED
    BY <1>1, <2>1, GreatestIndex
<1>3. ASSUME NEW u \in Seq(S), NEW l \in Nat, l <= Len(u)
      PROVE  /\ SubSeq(u, 1, l) \in Seq(S) /\ Len(SubSeq(u, 1, l)) = l
             /\ \A i \in 1 .. l : SubSeq(u, 1, l)[i] = u[i]
  <2>1. Len(u) \in Nat /\ \A i \in 1 .. l : u[i] \in S
    BY <1>3, LenProperties, ElementOfSeq
  <2> QED
    BY <2>1, <1>3, SubSeqProperties
<1>4. SubSeq(s, 1, k) \in C
  <2>1. k \in Nat /\ k <= Len(s) /\ k <= Len(t) /\ \A i \in 1 .. k : s[i] = t[i]
    BY <1>1
  <2>2. SubSeq(s, 1, k) \in Prefixes(s)
    BY <1>1 DEF Prefixes
  <2>3. /\ SubSeq(s, 1, k) \in Seq(S) /\ Len(SubSeq(s, 1, k)) = k
        /\ \A i \in 1 .. k : SubSeq(s, 1, k)[i] = s[i]
    BY <2>1, <1>3
  <2> HIDE DEF T
  <2>4. IsPrefix(SubSeq(s, 1, k), s) /\ IsPrefix(SubSeq(s, 1, k), t)
    BY <2>1, <2>3, PrefixIndexes
  <2> QED
    BY <2>2, <2>4 DEF CommonPrefixes
<1>5. ASSUME NEW p \in C PROVE Len(p) \in T
  <2>1. PICK u \in {s, t} : p \in Prefixes(u)
    BY DEF CommonPrefixes
  <2>2. PICK l \in 0 .. Len(u) : p = SubSeq(u, 1, l)
    BY <2>1 DEF Prefixes
  <2>3. p \in Seq(S)
    <3>1. u \in Seq(S) /\ l \in Nat /\ l <= Len(u)
      BY <1>1
    <3> QED
      BY <3>1, <2>2, <1>3
  <2>4. IsPrefix(p, s) /\ IsPrefix(p, t)
    BY DEF CommonPrefixes
  <2>5. Len(p) \in Nat
    BY <2>3, LenProperties
  <2> QED
    BY <1>1, <2>3, <2>4, <2>5, PrefixIndexes
<1>6. n = k
  <2>1. Len(SubSeq(s, 1, k)) = k
    BY <1>1, <1>3
  <2> DEFINE Longest(p) == \A q \in C : Len(q) <= Len(p)
             lcp == CHOOSE p \in C : Longest(p)
  <2>2. LongestCommonPrefix({s, t}) = lcp
    BY DEF LongestCommonPrefix
  <2>3. ASSUME NEW q \in C PROVE Len(q) \in Nat /\ Len(q) <= k
    <3>1. Len(q) \in T /\ k \in 0 .. Len(s)
      BY <1>5
    <3> QED
      BY <3>1, <1>1, <1>2
  <2>4. Longest(SubSeq(s, 1, k))
    BY <2>1, <2>3
  <2> HIDE DEF C
  <2>5. lcp \in C /\ Longest(lcp)
    BY <2>4, <1>4, Zenon
  <2>6. k <= Len(lcp)
    BY <2>5, <1>4, <2>1
  <2>7. Len(lcp) \in Nat /\ Len(lcp) <= k
    BY <2>5, <2>3
  <2> QED
    <3> HIDE DEF lcp
    <3>1. k \in Nat
      BY <1>1
    <3>2. n = Len(lcp)
      BY <2>2
    <3> QED
      BY <3>1, <3>2, <2>6, <2>7
<1>7. k = Len(s) \/ k = Len(t) \/ s[k + 1] # t[k + 1]
  <2> SUFFICES ASSUME k # Len(s), k # Len(t), s[k + 1] = t[k + 1] PROVE FALSE
    OBVIOUS
  <2>1. k + 1 \in T
    BY <1>1
  <2> QED
    BY <2>1, <1>1, <1>2
<1> HIDE DEF n
<1>8. PartAt(s, t, n)
  BY <1>1, <1>6, <1>7 DEF PartAt
<1> QED
  BY <1>8 DEF n

\* The entries of a sequence, and of one with an entry more.
LEMMA EntriesOf ==
  ASSUME NEW S, NEW s \in Seq(S)
  PROVE  ToSet(s) = {s[i] : i \in 1 .. Len(s)} /\ ToSet(s) \subseteq S
BY LenProperties, ElementOfSeq DEF ToSet

LEMMA EntriesOfAppend ==
  ASSUME NEW S, NEW s \in Seq(S), NEW e \in S
  PROVE  ToSet(Append(s, e)) = ToSet(s) \cup {e}
<1>1. /\ Append(s, e) \in Seq(S) /\ Len(Append(s, e)) = Len(s) + 1 /\ Len(s) \in Nat
      /\ \A i \in 1 .. Len(s) : Append(s, e)[i] = s[i]
      /\ Append(s, e)[Len(s) + 1] = e
  BY AppendProperties, LenProperties
<1>2. /\ ToSet(s) = {s[i] : i \in 1 .. Len(s)}
      /\ ToSet(Append(s, e)) = {Append(s, e)[i] : i \in 1 .. Len(s) + 1}
  BY <1>1, EntriesOf
<1>3. 1 .. Len(s) + 1 = 1 .. Len(s) \cup {Len(s) + 1}
  BY <1>1
<1> QED
  BY <1>1, <1>2, <1>3

-----------------------------------------------------------------------------
(* Sums.  SumFunction is a recursion over the subsets of a domain; here it is   *)
(* shown to be what its name says, by taking a smallest set where it is not.    *)
Some(s) == CHOOSE x \in s : TRUE

\* g satisfies the equation of the recursion at s.
SumAt(f, g, s) == g[s] = IF s = {} THEN 0 ELSE f[Some(s)] + g[s \ {Some(s)}]
SumOver(f, g) ==
  g = [s \in SUBSET DOMAIN f |-> IF s = {} THEN 0 ELSE f[Some(s)] + g[s \ {Some(s)}]]

\* A finite set that is not empty has an element, and is smaller without it.
LEMMA SmallerSet ==
  ASSUME NEW D, IsFiniteSet(D), NEW s \in SUBSET D, NEW x \in s
  PROVE  /\ s \ {x} \in SUBSET D /\ Some(s) \in s /\ s # {}
         /\ Cardinality(s) \in Nat \ {0} /\ Cardinality(s \ {x}) = Cardinality(s) - 1
<1>1. IsFiniteSet(s)
  BY FS_Subset
<1> QED
  BY <1>1, FS_CardinalityType, FS_EmptySet, FS_RemoveElement DEF Some

\* The recursion has a solution.
LEMMA SumExists ==
  ASSUME NEW D, IsFiniteSet(D), NEW f \in [D -> Int]
  PROVE  \E g \in [SUBSET D -> Int] : SumOver(f, g)
<1> DEFINE Upto(n, g) == \A s \in SUBSET D : Cardinality(s) <= n => SumAt(f, g, s)
           U == {n \in Nat : ~ \E g \in [SUBSET D -> Int] : Upto(n, g)}
           Again(g) == [s \in SUBSET D |-> IF s = {} THEN 0 ELSE f[Some(s)] + g[s \ {Some(s)}]]
<1>0. ASSUME NEW g \in [SUBSET D -> Int] PROVE Again(g) \in [SUBSET D -> Int]
  <2>1. \A s \in SUBSET D : s # {} => Some(s) \in D /\ s \ {Some(s)} \in SUBSET D
    BY DEF Some
  <2> QED
    BY <2>1
<1>1. U = {}
  <2> SUFFICES ASSUME U # {} PROVE FALSE
    OBVIOUS
  <2>1. PICK m \in U : \A k \in U : m <= k
    <3> HIDE DEF U
    <3>1. U \subseteq Nat
      BY DEF U
    <3> QED
      BY <3>1, LeastNatural
  <2> DEFINE zero == [s \in SUBSET D |-> 0]
  <2>2. m # 0
    <3>1. ASSUME NEW s \in SUBSET D, Cardinality(s) <= 0 PROVE s = {}
      BY <3>1, FS_Subset, FS_CardinalityType, FS_EmptySet
    <3>2. Upto(0, zero) /\ zero \in [SUBSET D -> Int]
      BY <3>1 DEF SumAt
    <3> QED
      BY <3>2
  <2>3. PICK g \in [SUBSET D -> Int] : Upto(m - 1, g)
    <3>1. m - 1 \in Nat /\ ~(m <= m - 1)
      BY <2>2
    <3>2. m - 1 \notin U
      BY <2>1, <3>1
    <3> QED
      BY <3>1, <3>2
  <2>4. Upto(m, Again(g))
    <3> SUFFICES ASSUME NEW s \in SUBSET D, Cardinality(s) <= m, s # {}
                 PROVE  SumAt(f, Again(g), s)
      BY DEF SumAt
    <3> DEFINE t == s \ {Some(s)}
    <3>1. t \in SUBSET D /\ Cardinality(t) <= m - 1
      <4>1. Some(s) \in s /\ m \in Nat
        BY DEF Some
      <4>2. t \in SUBSET D /\ Cardinality(s) \in Nat /\ Cardinality(t) = Cardinality(s) - 1
        BY <4>1, SmallerSet
      <4> HIDE DEF t
      <4> QED
        BY <4>1, <4>2
    <3>2. SumAt(f, g, t)
      BY <2>3, <3>1
    <3>3. Again(g)[t] = g[t]
      BY <3>1, <3>2 DEF SumAt
    <3> QED
      BY <3>3 DEF SumAt
  <2> HIDE DEF Again, Upto
  <2>5. m \notin U
    BY <1>0, <2>4
  <2> QED
    BY <2>5
<1>2. Cardinality(D) \in Nat
  BY FS_CardinalityType
<1>3. PICK g \in [SUBSET D -> Int] : Upto(Cardinality(D), g)
  BY <1>1, <1>2
<1>4. \A s \in SUBSET D : SumAt(f, g, s)
  BY <1>3, FS_Subset
<1>5. g = Again(g)
  <2>1. \A s \in SUBSET D : g[s] = Again(g)[s]
    BY <1>4 DEF SumAt
  <2> HIDE DEF Again
  <2>2. Again(g) \in [SUBSET D -> Int]
    BY <1>0
  <2> QED
    BY <2>1, <2>2
<1> QED
  BY <1>5 DEF SumOver

\* The solution that the fold computes.
SumOn(f) == CHOOSE g : SumOver(f, g)

LEMMA SumUnfold ==
  ASSUME NEW f
  PROVE  SumFunction(f) = SumOn(f)[DOMAIN f]
BY DEF SumFunction, SumFunctionOnSet, FoldFunctionOnSet, MapThenFoldSet, SumOver, SumOn, Some

LEMMA SumEquation ==
  ASSUME NEW D, IsFiniteSet(D), NEW f \in [D -> Int]
  PROVE  \A s \in SUBSET D : SumAt(f, SumOn(f), s) /\ SumOn(f)[s] \in Int
<1> DEFINE g == SumOn(f)
           U == {n \in Nat : \E s \in SUBSET D : Cardinality(s) = n /\ g[s] \notin Int}
<1>1. SumOver(f, g)
  BY SumExists DEF SumOn
<1> HIDE DEF g
<1>2. \A s \in SUBSET D : SumAt(f, g, s)
  BY <1>1 DEF SumOver, SumAt
<1>3. U = {}
  <2> SUFFICES ASSUME U # {} PROVE FALSE
    OBVIOUS
  <2>1. PICK m \in U : \A k \in U : m <= k
    <3> HIDE DEF U
    <3>1. U \subseteq Nat
      BY DEF U
    <3> QED
      BY <3>1, LeastNatural
  <2>2. PICK s \in SUBSET D : Cardinality(s) = m /\ g[s] \notin Int
    OBVIOUS
  <2>0. SumAt(f, g, s)
    BY <1>2
  <2>3. s # {}
    <3>1. s = {} => g[s] = 0
      BY <2>0 DEF SumAt
    <3> QED
      BY <2>2, <3>1
  <2> DEFINE t == s \ {Some(s)}
  <2>4. Some(s) \in s
    BY <2>3 DEF Some
  <2>5. t \in SUBSET D /\ Cardinality(t) = m - 1 /\ m - 1 \in Nat
    BY <2>2, <2>4, SmallerSet
  <2>6. m - 1 \notin U
    BY <2>1, <2>5
  <2>7. g[t] \in Int
    BY <2>5, <2>6
  <2>8. g[s] = f[Some(s)] + g[t] /\ f[Some(s)] \in Int
    BY <2>0, <2>3, <2>4 DEF SumAt
  <2> HIDE DEF t
  <2> QED
    BY <2>2, <2>7, <2>8
<1>4. ASSUME NEW s \in SUBSET D PROVE g[s] \in Int
  <2>1. Cardinality(s) \in Nat
    BY FS_Subset, FS_CardinalityType
  <2> QED
    BY <1>3, <2>1
<1> QED
  BY <1>2, <1>4 DEF g

\* The order in which the elements are taken does not matter.
LEMMA SumAnyFirst ==
  ASSUME NEW D, IsFiniteSet(D), NEW f \in [D -> Int], NEW s \in SUBSET D, NEW x \in s
  PROVE  SumOn(f)[s] = f[x] + SumOn(f)[s \ {x}]
<1> DEFINE g == SumOn(f)
           Wrong(t) == \E y \in t : g[t] # f[y] + g[t \ {y}]
           U == {n \in Nat : \E t \in SUBSET D : Cardinality(t) = n /\ Wrong(t)}
<1>1. \A t \in SUBSET D : SumAt(f, g, t) /\ g[t] \in Int
  BY SumEquation
<1> HIDE DEF g
<1>2. U = {}
  <2> SUFFICES ASSUME U # {} PROVE FALSE
    OBVIOUS
  <2>1. PICK m \in U : \A k \in U : m <= k
    <3> HIDE DEF U
    <3>1. U \subseteq Nat
      BY DEF U
    <3> QED
      BY <3>1, LeastNatural
  <2>2. PICK t \in SUBSET D : Cardinality(t) = m /\ Wrong(t)
    OBVIOUS
  <2>3. PICK y \in t : g[t] # f[y] + g[t \ {y}]
    BY <2>2
  <2> DEFINE z == Some(t)
  <2>4. /\ z \in t /\ t \ {z} \in SUBSET D /\ t \ {y} \in SUBSET D /\ m - 1 \in Nat
        /\ Cardinality(t \ {z}) = m - 1 /\ Cardinality(t \ {y}) = m - 1
    <3>1. z \in t /\ m \in Nat
      BY <2>3 DEF Some
    <3> HIDE DEF z
    <3>2. /\ t \ {z} \in SUBSET D /\ Cardinality(t) \in Nat \ {0}
          /\ Cardinality(t \ {z}) = Cardinality(t) - 1
      BY <3>1, SmallerSet
    <3>3. t \ {y} \in SUBSET D /\ Cardinality(t \ {y}) = Cardinality(t) - 1
      BY SmallerSet
    <3> QED
      BY <2>2, <3>1, <3>2, <3>3
  <2>5. g[t] = f[z] + g[t \ {z}] /\ y # z
    BY <1>1, <2>3, <2>4 DEF SumAt
  <2>6. ~Wrong(t \ {z}) /\ ~Wrong(t \ {y})
    <3> HIDE DEF Wrong, z
    <3>1. m - 1 \notin U
      BY <2>1, <2>4
    <3> QED
      BY <2>4, <3>1
  <2> HIDE DEF z
  <2>7. g[t \ {z}] = f[y] + g[(t \ {z}) \ {y}] /\ g[t \ {y}] = f[z] + g[(t \ {y}) \ {z}]
    BY <2>4, <2>5, <2>6
  <2>8. (t \ {z}) \ {y} = (t \ {y}) \ {z} /\ (t \ {z}) \ {y} \in SUBSET D
    BY <2>4
  <2>9. g[(t \ {z}) \ {y}] \in Int /\ f[y] \in Int /\ f[z] \in Int
    BY <1>1, <2>4, <2>8
  <2> DEFINE rest == g[(t \ {z}) \ {y}]
  <2>10. g[t] = f[z] + (f[y] + rest) /\ g[t \ {y}] = f[z] + rest
    BY <2>5, <2>7, <2>8
  <2> HIDE DEF rest
  <2>11. rest \in Int
    BY <2>9 DEF rest
  <2> QED
    BY <2>3, <2>9, <2>10, <2>11
<1>3. Cardinality(s) \in Nat
  BY FS_Subset, FS_CardinalityType
<1>4. ~Wrong(s)
  <2> HIDE DEF Wrong
  <2> QED
    BY <1>2, <1>3
<1> QED
  BY <1>4 DEF g

\* Functions that agree have the same sum.
LEMMA SumAgree ==
  ASSUME NEW D, IsFiniteSet(D), NEW f \in [D -> Int], NEW h \in [D -> Int],
         NEW s \in SUBSET D, \A x \in s : f[x] = h[x]
  PROVE  SumOn(f)[s] = SumOn(h)[s]
<1> DEFINE g == SumOn(f)
           k == SumOn(h)
           U == {n \in Nat : \E t \in SUBSET s : Cardinality(t) = n /\ g[t] # k[t]}
<1>1. \A t \in SUBSET D : SumAt(f, g, t) /\ SumAt(h, k, t)
  BY SumEquation
<1> HIDE DEF g, k
<1>2. U = {}
  <2> SUFFICES ASSUME U # {} PROVE FALSE
    OBVIOUS
  <2>1. PICK m \in U : \A j \in U : m <= j
    <3> HIDE DEF U
    <3>1. U \subseteq Nat
      BY DEF U
    <3> QED
      BY <3>1, LeastNatural
  <2>2. PICK t \in SUBSET s : Cardinality(t) = m /\ g[t] # k[t]
    OBVIOUS
  <2>3. t \in SUBSET D /\ t # {}
    BY <1>1, <2>2 DEF SumAt
  <2> DEFINE z == Some(t)
  <2>4. z \in t /\ t \ {z} \in SUBSET s
    BY <2>3 DEF Some
  <2>5. Cardinality(t \ {z}) = m - 1 /\ m - 1 \in Nat
    BY <2>2, <2>3, <2>4, SmallerSet
  <2> HIDE DEF z
  <2>6. g[t \ {z}] = k[t \ {z}]
    <3>1. m - 1 \notin U
      BY <2>1, <2>5
    <3> QED
      BY <2>4, <2>5, <3>1
  <2> QED
    BY <1>1, <2>2, <2>3, <2>4, <2>6 DEF SumAt, z
<1>3. Cardinality(s) \in Nat
  BY FS_Subset, FS_CardinalityType
<1> QED
  BY <1>2, <1>3 DEF g, k

\* The sum of a function over a finite domain, and what a new value at one place does to it.
LEMMA SumOfUpdate ==
  ASSUME NEW D, IsFiniteSet(D), NEW f \in [D -> Int], NEW a \in D, NEW v \in Int
  PROVE  /\ SumFunction(f) \in Int
         /\ SumFunction([f EXCEPT ![a] = v]) = SumFunction(f) - f[a] + v
<1> DEFINE h == [f EXCEPT ![a] = v]
           rest == D \ {a}
<1>1. h \in [D -> Int] /\ h[a] = v /\ \A x \in rest : f[x] = h[x]
  OBVIOUS
<1>2. DOMAIN f = D /\ DOMAIN h = D /\ D \in SUBSET D /\ rest \in SUBSET D /\ f[a] \in Int
  OBVIOUS
<1> HIDE DEF h
<1>3. SumFunction(f) = SumOn(f)[D] /\ SumFunction(h) = SumOn(h)[D]
  BY <1>2, SumUnfold
<1>4. SumOn(f)[D] \in Int /\ SumOn(f)[rest] \in Int
  BY <1>2, SumEquation
<1>5. SumOn(f)[D] = f[a] + SumOn(f)[rest] /\ SumOn(h)[D] = v + SumOn(h)[rest]
  BY <1>1, <1>2, SumAnyFirst
<1>6. SumOn(f)[rest] = SumOn(h)[rest]
  BY <1>1, <1>2, SumAgree
<1> HIDE DEF rest
<1> QED
  BY <1>2, <1>3, <1>4, <1>5, <1>6 DEF h
=============================================================================
